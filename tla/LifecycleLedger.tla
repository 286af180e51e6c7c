-------------------------- MODULE LifecycleLedger ---------------------------
(***************************************************************************)
(* What the services promise to everyone who reads their rows or their     *)
(* outbox: an object is opened once, then moves one edge of a transition   *)
(* graph at a time, and the log records every move, in order, with the     *)
(* version the object reached.  There are no requests, roles, transactions *)
(* or concurrent calls here.  BusinessFlow implements this module with its *)
(* rows and its outbox, and Catalog with the assets and theirs.            *)
(***************************************************************************)
EXTENDS Naturals, Sequences, Lifecycle

CONSTANTS Ids,         \* identities an object may take
          Graph,       \* the statuses each status may be followed by
          First,       \* the status an object is opened with
          Withdrawals  \* whether an object may be deleted from its first status

VARIABLES state,       \* [Ids -> [status, version]]
          log          \* every move, oldest first

ledgerVars == <<state, log>>

\* The statuses an object may have.
States == {First} \cup DOMAIN Graph \cup UNION {Graph[s] : s \in DOMAIN Graph}

Gone == [status |-> Absent, version |-> 0]

Entry(i, from, to, version) ==
  [id |-> i, from |-> from, to |-> to, version |-> version]

Logged(i) == \E n \in DOMAIN log : log[n].id = i

-----------------------------------------------------------------------------
Init ==
  /\ state = [i \in Ids |-> Gone]
  /\ log = <<>>

Open(i) ==
  /\ state[i] = Gone
  /\ ~Logged(i)
  /\ state' = [state EXCEPT ![i] = [status |-> First, version |-> 1]]
  /\ log' = Append(log, Entry(i, Absent, First, 1))

Advance(i, to) ==
  /\ Allows(Graph, state[i].status, to)
  /\ state' = [state EXCEPT
       ![i] = [status |-> to, version |-> state[i].version + 1]]
  /\ log' = Append(log, Entry(i, state[i].status, to, state[i].version + 1))

\* The object disappears without an entry: its history stays in the log.
Withdraw(i) ==
  /\ Withdrawals
  /\ state[i].status = First
  /\ state' = [state EXCEPT ![i] = Gone]
  /\ UNCHANGED log

Next ==
  \E i \in Ids :
    \/ Open(i)
    \/ \E to \in States : Advance(i, to)
    \/ Withdraw(i)

Spec == Init /\ [][Next]_ledgerVars

-----------------------------------------------------------------------------
(* What follows from the promise, for a reader of the log alone.           *)

LedgerTypeOK ==
  /\ state \in [Ids -> [status : States \cup {Absent}, version : Nat]]
  /\ log \in Seq([id : Ids, from : States \cup {Absent}, to : States,
                  version : Nat \ {0}])

(***************************************************************************)
(* Two moves of one object never reach the same version: of two writers    *)
(* that read the same row at most one commits (no lost update).            *)
(***************************************************************************)
OneMovePerVersion ==
  \A m, n \in DOMAIN log :
    log[m].id = log[n].id /\ log[m].version = log[n].version => m = n

(***************************************************************************)
(* Every move continues an earlier move of the same object: it starts from *)
(* the status that move reached and takes the next version.                *)
(***************************************************************************)
MovesAreChained ==
  \A n \in DOMAIN log :
    log[n].version # 1 =>
      \E m \in 1 .. n - 1 :
        /\ log[m].id = log[n].id
        /\ log[m].to = log[n].from
        /\ log[m].version + 1 = log[n].version

(***************************************************************************)
(* Replaying the log of an object that exists yields the object: its last  *)
(* entry is the object's status and version.                               *)
(***************************************************************************)
LogReplays ==
  \A i \in Ids :
    state[i] # Gone =>
      \E n \in DOMAIN log :
        /\ log[n].id = i
        /\ log[n].to = state[i].status
        /\ log[n].version = state[i].version
        /\ \A m \in n + 1 .. Len(log) : log[m].id # i

=============================================================================
