---------------------------- MODULE LedgerProofs ----------------------------
(***************************************************************************)
(* Theorems about the abstract ledger, for every graph: what a reader of   *)
(* the log alone may rely on.  Whatever implements the ledger inherits     *)
(* them (BusinessRepliesProofs does so for the services' outbox).          *)
(***************************************************************************)
EXTENDS LifecycleLedger, SequenceTheorems, TLAPS

\* An object that is gone has a status of its own, which no edge touches.
GoneIsOutside == Absent \notin States

Entries ==
  [id : Ids, from : States \cup {Absent}, to : States, version : Nat \ {0}]

\* The moves of an object are logged in the order of their versions.
VersionsRise ==
  \A m, n \in DOMAIN log :
    log[m].id = log[n].id /\ m < n => log[m].version < log[n].version

LedgerInv ==
  /\ LedgerTypeOK
  /\ VersionsRise
  /\ MovesAreChained
  /\ LogReplays

-----------------------------------------------------------------------------
LEMMA AllowedEdges ==
  ASSUME NEW from, NEW to, Allows(Graph, from, to)
  PROVE  from \in States /\ to \in States
BY DEF Allows, States

LEMMA LoggedEntries ==
  ASSUME LedgerTypeOK
  PROVE  /\ log \in Seq(Entries) /\ Len(log) \in Nat
         /\ DOMAIN log = 1 .. Len(log)
         /\ \A n \in 1 .. Len(log) : log[n] \in Entries
<1>1. log \in Seq(Entries)
  BY DEF LedgerTypeOK, Entries
<1> QED
  BY <1>1, LenProperties, ElementOfSeq

\* An entry that continues the last one of its object, or is its first.
LEMMA EntryKeepsHistory ==
  ASSUME LedgerInv, NEW i \in Ids, NEW e \in Entries, e.id = i,
         log' = Append(log, e),
         state' \in [Ids -> [status : States \cup {Absent}, version : Nat]],
         state'[i] = [status |-> e.to, version |-> e.version],
         \A j \in Ids \ {i} : state'[j] = state[j],
         \/ e.version = 1 /\ ~Logged(i)
         \/ \E n \in DOMAIN log :
              /\ log[n].id = i
              /\ log[n].to = e.from
              /\ log[n].version + 1 = e.version
              /\ \A m \in n + 1 .. Len(log) : log[m].id # i
  PROVE  LedgerInv'
<1>1. /\ log \in Seq(Entries) /\ Len(log) \in Nat
      /\ DOMAIN log = 1 .. Len(log)
      /\ \A n \in 1 .. Len(log) : log[n] \in Entries
  BY LoggedEntries DEF LedgerInv
<1>2. PICK last : last = Len(log) + 1
  OBVIOUS
<1>3. /\ log' \in Seq(Entries) /\ Len(log') = last /\ DOMAIN log' = 1 .. last
      /\ log'[last] = e
      /\ \A n \in 1 .. Len(log) : log'[n] = log[n]
  BY <1>1, <1>2, AppendProperties, LenProperties
<1>4. LedgerTypeOK'
  BY <1>3 DEF LedgerTypeOK, Entries
<1>5. last \in Nat /\ \A n \in 1 .. last : n = last \/ n \in 1 .. Len(log)
  BY <1>1, <1>2
<1>6. \A n \in 1 .. Len(log) : log[n].id = i => log[n].version < e.version
  <2>1. CASE ~Logged(i)
    BY <1>1, <2>1 DEF Logged
  <2>2. ASSUME NEW n \in 1 .. Len(log), log[n].id = i,
               log[n].version + 1 = e.version,
               \A m \in n + 1 .. Len(log) : log[m].id # i
        PROVE  \A m \in 1 .. Len(log) : log[m].id = i => log[m].version < e.version
    <3> SUFFICES ASSUME NEW m \in 1 .. Len(log), log[m].id = i
                 PROVE  log[m].version < e.version
      OBVIOUS
    <3>1. /\ log[m].version \in Nat /\ log[n].version \in Nat /\ e.version \in Nat
      BY <1>1 DEF Entries
    <3>2. m = n \/ m < n
      BY <1>1, <2>2
    <3>3. m < n => log[m].version < log[n].version
      BY <1>1, <2>2 DEF LedgerInv, VersionsRise
    <3> QED
      BY <2>2, <3>1, <3>2, <3>3
  <2> QED
    BY <1>1, <2>1, <2>2
<1>7. VersionsRise'
  <2> SUFFICES ASSUME NEW m \in 1 .. last, NEW n \in 1 .. last,
                      log'[m].id = log'[n].id, m < n
               PROVE  log'[m].version < log'[n].version
    BY <1>3 DEF VersionsRise
  <2>1. m \in 1 .. Len(log)
    BY <1>1, <1>2
  <2>2. CASE n = last
    BY <1>3, <1>6, <2>1, <2>2
  <2>3. CASE n \in 1 .. Len(log)
    BY <1>1, <1>3, <2>1, <2>3 DEF LedgerInv, VersionsRise
  <2> QED
    BY <1>5, <2>2, <2>3
<1>8. MovesAreChained'
  <2> SUFFICES ASSUME NEW n \in 1 .. last, log'[n].version # 1
               PROVE  \E m \in 1 .. n - 1 :
                        /\ log'[m].id = log'[n].id
                        /\ log'[m].to = log'[n].from
                        /\ log'[m].version + 1 = log'[n].version
    BY <1>3 DEF MovesAreChained
  <2>1. CASE n = last
    <3>1. PICK m \in 1 .. Len(log) :
            /\ log[m].id = i
            /\ log[m].to = e.from
            /\ log[m].version + 1 = e.version
      BY <1>1, <1>3, <2>1
    <3>2. m \in 1 .. n - 1
      BY <1>1, <1>2, <2>1
    <3> QED
      BY <1>3, <2>1, <3>1, <3>2
  <2>2. CASE n \in 1 .. Len(log)
    <3>1. PICK m \in 1 .. n - 1 :
            /\ log[m].id = log[n].id
            /\ log[m].to = log[n].from
            /\ log[m].version + 1 = log[n].version
      BY <1>1, <1>3, <2>2 DEF LedgerInv, MovesAreChained
    <3>2. m \in 1 .. Len(log)
      BY <1>1, <2>2
    <3> QED
      BY <1>3, <2>2, <3>1, <3>2
  <2> QED
    BY <1>5, <2>1, <2>2
<1>9. LogReplays'
  <2> SUFFICES ASSUME NEW j \in Ids, state'[j] # Gone
               PROVE  \E n \in DOMAIN log' :
                        /\ log'[n].id = j
                        /\ log'[n].to = state'[j].status
                        /\ log'[n].version = state'[j].version
                        /\ \A m \in n + 1 .. Len(log') : log'[m].id # j
    BY DEF LogReplays, Gone
  <2>1. CASE j = i
    <3>1. last \in 1 .. last
      BY <1>1, <1>2
    <3>2. \A m \in last + 1 .. last : FALSE
      BY <1>5
    <3> QED
      BY <1>3, <2>1, <3>1, <3>2
  <2>2. CASE j # i
    <3>1. PICK n \in 1 .. Len(log) :
            /\ log[n].id = j
            /\ log[n].to = state[j].status
            /\ log[n].version = state[j].version
            /\ \A m \in n + 1 .. Len(log) : log[m].id # j
      <4>1. state[j] # Gone
        BY <2>2
      <4> QED
        BY <1>1, <4>1, ZenonT(40) DEF LedgerInv, LogReplays
    <3>2. n \in 1 .. last
      BY <1>1, <1>2
    <3>3. ASSUME NEW m \in n + 1 .. last
          PROVE  log'[m].id # j
      <4>1. CASE m = last
        BY <1>3, <2>2, <4>1
      <4>2. CASE m # last
        <5>1. m \in n + 1 .. Len(log) /\ m \in 1 .. Len(log)
          BY <1>1, <1>2, <4>2
        <5> QED
          BY <1>3, <3>1, <5>1
      <4> QED
        BY <4>1, <4>2
    <3> QED
      BY <1>3, <2>2, <3>1, <3>2, <3>3
  <2> QED
    BY <2>1, <2>2
<1> QED
  BY <1>4, <1>7, <1>8, <1>9 DEF LedgerInv

LEMMA StepKeepsLedger ==
  ASSUME GoneIsOutside, LedgerInv, [Next]_ledgerVars
  PROVE  LedgerInv'
<1>1. LedgerTypeOK
  BY DEF LedgerInv
<1>2. ASSUME NEW i \in Ids, Open(i)
      PROVE  LedgerInv'
  <2>1. PICK e : e = Entry(i, Absent, First, 1)
    OBVIOUS
  <2>2. /\ e.id = i /\ e.to = First /\ e.version = 1
        /\ e \in Entries
    BY <2>1 DEF Entry, Entries, States
  <2>3. state' \in [Ids -> [status : States \cup {Absent}, version : Nat]]
    BY <1>1, <1>2 DEF Open, LedgerTypeOK, States
  <2>4. /\ state'[i] = [status |-> e.to, version |-> e.version]
        /\ \A j \in Ids \ {i} : state'[j] = state[j]
    BY <1>1, <1>2, <2>2 DEF Open, LedgerTypeOK
  <2>5. log' = Append(log, e) /\ ~Logged(i)
    BY <1>2, <2>1 DEF Open
  <2> QED
    BY <2>2, <2>3, <2>4, <2>5, EntryKeepsHistory
<1>3. ASSUME NEW i \in Ids, NEW to, Advance(i, to)
      PROVE  LedgerInv'
  <2>1. PICK e : e = Entry(i, state[i].status, to, state[i].version + 1)
    OBVIOUS
  <2>2. state[i].status \in States /\ to \in States
    BY <1>3, AllowedEdges DEF Advance
  <2>3. state[i].version \in Nat /\ state[i] # Gone
    BY <1>1, <2>2 DEF LedgerTypeOK, Gone, GoneIsOutside
  <2>4. /\ e.id = i /\ e.to = to /\ e.from = state[i].status
        /\ e.version = state[i].version + 1
        /\ e \in Entries
    BY <2>1, <2>2, <2>3 DEF Entry, Entries
  <2>5. state' \in [Ids -> [status : States \cup {Absent}, version : Nat]]
    BY <1>1, <1>3, <2>2, <2>3 DEF Advance, LedgerTypeOK
  <2>6. /\ state'[i] = [status |-> e.to, version |-> e.version]
        /\ \A j \in Ids \ {i} : state'[j] = state[j]
    BY <1>1, <1>3, <2>4 DEF Advance, LedgerTypeOK
  <2>7. log' = Append(log, e)
    BY <1>3, <2>1 DEF Advance
  <2>8. \E n \in DOMAIN log :
          /\ log[n].id = i
          /\ log[n].to = e.from
          /\ log[n].version + 1 = e.version
          /\ \A m \in n + 1 .. Len(log) : log[m].id # i
    BY <2>3, <2>4 DEF LedgerInv, LogReplays
  <2> QED
    BY <2>4, <2>5, <2>6, <2>7, <2>8, EntryKeepsHistory
<1>4. ASSUME NEW i \in Ids, Withdraw(i)
      PROVE  LedgerInv'
  <2>1. /\ log' = log /\ state' = [state EXCEPT ![i] = Gone]
    BY <1>4 DEF Withdraw
  <2>2. /\ state'[i] = Gone
        /\ \A j \in Ids \ {i} : state'[j] = state[j]
    BY <1>1, <2>1 DEF LedgerTypeOK
  <2>3. LedgerTypeOK'
    BY <1>1, <2>1 DEF LedgerTypeOK, Gone
  <2>4. VersionsRise' /\ MovesAreChained'
    BY <2>1 DEF LedgerInv, VersionsRise, MovesAreChained
  <2>5. LogReplays'
    BY <2>1, <2>2 DEF LedgerInv, LogReplays, Gone
  <2> QED
    BY <2>3, <2>4, <2>5 DEF LedgerInv
<1>5. CASE UNCHANGED ledgerVars
  BY <1>5
  DEF ledgerVars, LedgerInv, LedgerTypeOK, VersionsRise, MovesAreChained,
      LogReplays, Gone
<1> QED
  BY <1>2, <1>3, <1>4, <1>5 DEF Next

LEMMA InitialLedgerInv == Init => LedgerInv
BY EmptySeq
DEF Init, LedgerInv, LedgerTypeOK, VersionsRise, MovesAreChained, LogReplays, Gone

LEMMA RisingVersionsDiffer ==
  ASSUME LedgerInv
  PROVE  OneMovePerVersion
<1>1. /\ DOMAIN log = 1 .. Len(log) /\ Len(log) \in Nat
      /\ \A n \in 1 .. Len(log) : log[n].version \in Nat
  BY LoggedEntries DEF LedgerInv, Entries
<1>2. ASSUME NEW m \in DOMAIN log, NEW n \in DOMAIN log,
             log[m].id = log[n].id, log[m].version = log[n].version
      PROVE  m = n
  <2>1. m < n \/ n < m \/ m = n
    BY <1>1
  <2>2. ~(m < n) /\ ~(n < m)
    BY <1>1, <1>2 DEF LedgerInv, VersionsRise
  <2> QED
    BY <2>1, <2>2
<1> QED
  BY <1>2 DEF OneMovePerVersion

(***************************************************************************)
(* The log is a history: no two moves of an object reach one version, each *)
(* move starts where an earlier one ended, and replaying the log of an     *)
(* object that exists yields the object.                                   *)
(***************************************************************************)
THEOREM LogIsAHistory ==
  ASSUME GoneIsOutside
  PROVE  Spec => [](OneMovePerVersion /\ MovesAreChained /\ LogReplays)
<1>1. LedgerInv /\ [Next]_ledgerVars => LedgerInv'
  BY StepKeepsLedger
<1>2. LedgerInv => OneMovePerVersion /\ MovesAreChained /\ LogReplays
  BY RisingVersionsDiffer DEF LedgerInv
<1> QED
  BY <1>1, <1>2, InitialLedgerInv, PTL DEF Spec

=============================================================================
