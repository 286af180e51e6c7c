------------------------------ MODULE Catalog -------------------------------
(***************************************************************************)
(* The catalogue of hubs and assets.  CreateAsset looks its hub up before  *)
(* its transaction begins.  ChangeAssetState judges the status it has read *)
(* and then writes with the version its caller presents: only the WHERE    *)
(* clause of the UPDATE, which repeats both, ties the two together.        *)
(* ListAssets counts and selects in two statements, outside a transaction, *)
(* and a client that wants all assets asks for one page after the other.   *)
(***************************************************************************)
EXTENDS Integers, Sequences, FiniteSets, Lifecycle

CONSTANTS
  Calls,       \* calls that may be made, each at most once
  SeededHubs,  \* codes of the hubs that catalog.Seed inserts
  HubCodes,    \* codes callers give new hubs
  Numbers,     \* asset numbers callers give, in their order
  Targets,     \* statuses callers ask for
  Versions,    \* versions callers present
  PageSizes,   \* limits callers give, in range or not
  MaxLimit,    \* largest limit, 200 in the code
  UsualLimit,  \* what stands in for a limit out of range, 50 in the code
  None         \* an empty string, or no value

AssetStatuses == {"available", "reserved", "active", "maintenance", "retired"}

ASSUME CatalogAssumption ==
  /\ IsFiniteSet(Calls)
  /\ Numbers \subseteq Int
  /\ Targets \subseteq AssetStatuses
  /\ Versions \subseteq Nat
  /\ PageSizes \subseteq Int
  /\ MaxLimit \in Nat \ {0}
  /\ UsualLimit \in 1 .. MaxLimit
  /\ None \notin Calls \cup SeededHubs \cup HubCodes
  /\ None \notin Numbers
  /\ Calls \cap SeededHubs = {}

VARIABLES
  hubs,    \* [HubIds -> row]; a seeded hub's identity is its code here
  assets,  \* [Calls -> row], by the call that inserted
  log,     \* outbox_events and audit_events of the assets, written together
  pc,      \* where each call is
  req,     \* what each call asks
  local,   \* the asset's status that each call has read
  reply,   \* what each call was told
  walk     \* a client that reads page after page

database == <<hubs, assets, log>>
callers == <<pc, req, local, reply>>
vars == <<hubs, assets, log, pc, req, local, reply, walk>>

-----------------------------------------------------------------------------
\* Identities are random UUIDs, named here by the call that draws them.
HubIds == SeededHubs \cup Calls

NoHub == [code |-> None, status |-> Absent]

NoAsset == [number |-> None, hub |-> None, status |-> Absent, version |-> 0]

NoReply == [code |-> "none", status |-> Absent, version |-> 0]

Request(op, code, hub, number, asset, target, version) ==
  [op |-> op, code |-> code, hub |-> hub, number |-> number,
   asset |-> asset, target |-> target, version |-> version]

NoRequest == Request("none", None, None, None, None, Absent, 0)

Step(c, step, status) ==
  /\ pc' = [pc EXCEPT ![c] = step]
  /\ local' = [local EXCEPT ![c] = status]
  /\ UNCHANGED reply

Answer(c, code, status, version) ==
  /\ pc' = [pc EXCEPT ![c] = "done"]
  /\ local' = [local EXCEPT ![c] = Absent]
  /\ reply' = [reply EXCEPT
       ![c] = [code |-> code, status |-> status, version |-> version]]

Refuse(c, code) == Answer(c, code, Absent, 0)

\* An operation begins: what Validate refuses is not remembered.
Ask(c, q, valid, step) ==
  /\ pc[c] = "idle"
  /\ \/ ~valid /\ Refuse(c, "invalid") /\ UNCHANGED req
     \/ valid /\ Step(c, step, Absent) /\ req' = [req EXCEPT ![c] = q]
  /\ UNCHANGED <<database, walk>>

-----------------------------------------------------------------------------
(* CreateHub.                                                              *)

\* "complete": the name, kind, capacity and actor pass Validate.
StartCreateHub(c) ==
  \E code \in HubCodes \cup {None}, complete \in BOOLEAN :
    Ask(c, Request("hub", code, None, None, None, Absent, 0),
        code # None /\ complete, "insertHub")

\* hubs.code is UNIQUE.
CodeTaken(code) == \E h \in HubIds : hubs[h].code = code

(***************************************************************************)
(* The transaction begins with its write, so it is one step.  A hub never  *)
(* changes after: its audit entry and its event tell no more than its row. *)
(***************************************************************************)
InsertHub(c) ==
  /\ pc[c] = "insertHub"
  /\ \/ /\ CodeTaken(req[c].code)
        /\ Refuse(c, "conflict")
        /\ UNCHANGED hubs
     \/ /\ ~CodeTaken(req[c].code)
        /\ hubs' = [hubs EXCEPT ![c] = [code |-> req[c].code, status |-> "active"]]
        /\ Answer(c, "ok", "active", 1)
  /\ UNCHANGED <<assets, log, req, walk>>

-----------------------------------------------------------------------------
(* CreateAsset.                                                            *)

KnownHubs == {h \in HubIds : hubs[h] # NoHub}

\* "complete": the kind, actor and capabilities pass Validate.  A hub nobody
\* has created is presented as the identity of a call that made none.
StartCreateAsset(c) ==
  \E number \in Numbers \cup {None}, hub \in KnownHubs \cup {c, None},
     complete \in BOOLEAN :
    Ask(c, Request("asset", None, hub, number, None, Absent, 0),
        number # None /\ hub # None /\ complete, "getHub")

\* A bug to detect: a hub that is not found is taken for an open one.
GetHubIfAny(c) ==
  /\ pc[c] = "getHub"
  /\ \/ hubs[req[c].hub].status = "closed" /\ Refuse(c, "conflict")
     \/ hubs[req[c].hub].status # "closed" /\ Step(c, "insertAsset", Absent)
  /\ UNCHANGED <<database, req, walk>>

GetHub(c) ==
  /\ pc[c] = "getHub"
  /\ \/ hubs[req[c].hub] = NoHub /\ Refuse(c, "not_found")
     \/ hubs[req[c].hub].status = "closed" /\ Refuse(c, "conflict")
     \/ hubs[req[c].hub].status = "active" /\ Step(c, "insertAsset", Absent)
  /\ UNCHANGED <<database, req, walk>>

\* assets.asset_no is UNIQUE.
NumberTaken(number) == \E a \in Calls : assets[a].number = number

(***************************************************************************)
(* The hub is not looked at again.  Its foreign key holds on every         *)
(* connection, enforced or not: no code deletes a hub.                     *)
(***************************************************************************)
InsertAsset(c) ==
  /\ pc[c] = "insertAsset"
  /\ \/ /\ NumberTaken(req[c].number)
        /\ Refuse(c, "conflict")
        /\ UNCHANGED <<assets, log>>
     \/ /\ ~NumberTaken(req[c].number)
        /\ assets' = [assets EXCEPT
             ![c] = [number |-> req[c].number, hub |-> req[c].hub,
                     status |-> "available", version |-> 1]]
        /\ log' = Append(log, [id |-> c, from |-> Absent, to |-> "available",
                               version |-> 1])
        /\ Answer(c, "ok", "available", 1)
  /\ UNCHANGED <<hubs, req, walk>>

-----------------------------------------------------------------------------
(* ChangeAssetState.                                                       *)

\* The table of allowedAssetTransition.
AssetGraph ==
  [available   |-> {"reserved", "maintenance", "retired"},
   reserved    |-> {"active", "available", "maintenance"},
   active      |-> {"available", "maintenance"},
   maintenance |-> {"available", "retired"}]

AllowedAssetTransition(from, to) ==
  from \in DOMAIN AssetGraph /\ to \in AssetGraph[from]

KnownAssets == {a \in Calls : assets[a] # NoAsset}

StartChange(c) ==
  \E asset \in KnownAssets \cup {c}, target \in Targets, version \in Versions,
     hasReason \in BOOLEAN :
    Ask(c, Request("change", None, None, None, asset, target, version),
        hasReason, "getAsset")

\* The version is not compared here: a stale caller is refused by the UPDATE.
GetAsset(c) ==
  LET row == assets[req[c].asset]
  IN  /\ pc[c] = "getAsset"
      /\ \/ row = NoAsset /\ Refuse(c, "not_found")
         \/ /\ row # NoAsset
            /\ ~AllowedAssetTransition(row.status, req[c].target)
            /\ Refuse(c, "conflict")
         \/ /\ row # NoAsset
            /\ AllowedAssetTransition(row.status, req[c].target)
            /\ Step(c, "update", row.status)
      /\ UNCHANGED <<database, req, walk>>

\* A bug to detect: UPDATE ... WHERE id=? AND version=?
SameVersion(c) == assets[req[c].asset].version = req[c].version

\* The WHERE clause of UpdateAssetStateTx.
Unchanged(c) ==
  /\ assets[req[c].asset].status = local[c]
  /\ assets[req[c].asset].version = req[c].version

\* The event tells the status that was read and the caller's version plus one.
UpdateAsset(c) ==
  /\ pc[c] = "update"
  /\ \/ /\ ~Unchanged(c)
        /\ Refuse(c, "conflict")
        /\ UNCHANGED <<assets, log>>
     \/ /\ Unchanged(c)
        /\ assets' = [assets EXCEPT
             ![req[c].asset].status = req[c].target,
             ![req[c].asset].version = assets[req[c].asset].version + 1]
        /\ log' = Append(log, [id |-> req[c].asset, from |-> local[c],
                               to |-> req[c].target, version |-> req[c].version + 1])
        /\ Step(c, "reread", Absent)
  /\ UNCHANGED <<hubs, req, walk>>

\* The asset is read again after the commit, whatever others did meanwhile.
FinishChange(c) ==
  /\ pc[c] = "reread"
  /\ Answer(c, "ok", assets[req[c].asset].status, assets[req[c].asset].version)
  /\ UNCHANGED <<database, req, walk>>

-----------------------------------------------------------------------------
(* ListAssets, and a client that walks through its pages to an empty one.  *)
(* The total, counted by a statement before the page, is left out: it may  *)
(* be out of date when the page is read.  So is the filter by status: what *)
(* leaves such a filter moves the rest to earlier pages, and no walk can   *)
(* promise to see it all.                                                  *)

\* AssetFilter.Normalize, of the limit.
NormalLimit(limit) == IF limit < 1 \/ limit > MaxLimit THEN UsualLimit ELSE limit

Matching(hub) ==
  {a \in Calls : assets[a] # NoAsset /\ (hub = None \/ assets[a].hub = hub)}

\* A bug to detect: pages are numbered from one and skipped from zero.
OffsetFromZero(page, limit) == page * limit

Offset(page, limit) == (page - 1) * limit

\* ORDER BY asset_no LIMIT limit OFFSET: those with so many before them.
Page(found, page, limit) ==
  {a \in found :
     LET before == {b \in found : assets[b].number < assets[a].number}
     IN  Cardinality(before) \in
           Offset(page, limit) .. Offset(page, limit) + limit - 1}

NoWalk ==
  [at |-> "none", hub |-> None, limit |-> 1, page |-> 1, seen |-> {},
   owed |-> {}]

\* "owed" is a ghost: the assets that matched when the client set out.
StartWalk ==
  /\ walk = NoWalk
  /\ \E hub \in KnownHubs \cup {None}, limit \in PageSizes :
       walk' = [NoWalk EXCEPT !.at = "reading", !.hub = hub,
                              !.limit = NormalLimit(limit),
                              !.owed = Matching(hub)]
  /\ UNCHANGED <<database, callers>>

ListAssets ==
  LET page == Page(Matching(walk.hub), walk.page, walk.limit)
  IN  /\ walk.at = "reading"
      /\ walk' = [walk EXCEPT
           !.at = IF page = {} THEN "done" ELSE "reading",
           !.page = IF page = {} THEN walk.page ELSE walk.page + 1,
           !.seen = walk.seen \cup page]
      /\ UNCHANGED <<database, callers>>

-----------------------------------------------------------------------------
(* The rest of the world.                                                  *)

InFlight == {c \in Calls : pc[c] \notin {"idle", "done"}}

\* A bug to detect: a failure after the commit is told as a conflict.
DatabaseFaultAsConflict(c) ==
  /\ c \in InFlight
  /\ Refuse(c, IF pc[c] = "reread" THEN "conflict" ELSE "internal")
  /\ UNCHANGED <<database, req, walk>>

\* A statement fails or the caller's context is canceled: a rollback.
DatabaseFault(c) ==
  /\ c \in InFlight
  /\ Refuse(c, "internal")
  /\ UNCHANGED <<database, req, walk>>

\* An operator closes a hub with a statement of their own: no code does.
CloseHub ==
  \E h \in KnownHubs :
    /\ hubs' = [hubs EXCEPT ![h].status = "closed"]
    /\ UNCHANGED <<assets, log, callers, walk>>

\* The process dies, and Seed runs again: it changes no hub that is there.
Crash ==
  /\ InFlight # {}
  /\ pc' = [c \in Calls |-> IF c \in InFlight THEN "done" ELSE pc[c]]
  /\ local' = [c \in Calls |-> Absent]
  /\ reply' = [c \in Calls |->
       IF c \in InFlight THEN [NoReply EXCEPT !.code = "lost"] ELSE reply[c]]
  /\ UNCHANGED <<database, req, walk>>

\* catalog.Seed: INSERT OR IGNORE of the hubs that come with the program.
Seed ==
  [h \in HubIds |->
     IF h \in SeededHubs THEN [code |-> h, status |-> "active"] ELSE NoHub]

Init ==
  /\ hubs = Seed
  /\ assets = [c \in Calls |-> NoAsset]
  /\ log = <<>>
  /\ pc = [c \in Calls |-> "idle"]
  /\ req = [c \in Calls |-> NoRequest]
  /\ local = [c \in Calls |-> Absent]
  /\ reply = [c \in Calls |-> NoReply]
  /\ walk = NoWalk

Next ==
  \/ \E c \in Calls :
       \/ StartCreateHub(c)
       \/ InsertHub(c)
       \/ StartCreateAsset(c)
       \/ GetHub(c)
       \/ InsertAsset(c)
       \/ StartChange(c)
       \/ GetAsset(c)
       \/ UpdateAsset(c)
       \/ FinishChange(c)
       \/ DatabaseFault(c)
  \/ StartWalk
  \/ ListAssets
  \/ CloseHub
  \/ Crash

Spec == Init /\ [][Next]_vars

-----------------------------------------------------------------------------
(* Properties.                                                             *)

Asset ==
  [number : Numbers, hub : HubIds, status : AssetStatuses, version : Nat \ {0}]

Hub ==
  [code : SeededHubs \cup HubCodes, status : {"active", "closed"}]

Requests ==
  [op : {"none", "hub", "asset", "change"}, code : HubCodes \cup {None},
   hub : HubIds \cup {None}, number : Numbers \cup {None},
   asset : Calls \cup {None}, target : Targets \cup {Absent},
   version : Versions \cup {0}]

\* Every call is at a step of the operation it asked for, with what it needs.
StepsOK ==
  \A c \in Calls :
    /\ pc[c] = "insertHub" => req[c].op = "hub" /\ req[c].code # None
    /\ pc[c] \in {"getHub", "insertAsset"} =>
         req[c].op = "asset" /\ req[c].number # None /\ req[c].hub # None
    /\ pc[c] \in {"getAsset", "update", "reread"} =>
         req[c].op = "change" /\ req[c].asset # None
    /\ pc[c] = "update" =>
         /\ req[c].asset \in KnownAssets
         /\ AllowedAssetTransition(local[c], req[c].target)
    /\ pc[c] = "reread" => req[c].asset \in KnownAssets
    /\ pc[c] \notin {"idle", "done"} => reply[c] = NoReply

\* Every asset belongs to a hub that is there, whatever the connection enforced.
HubsAreThere ==
  \A c \in Calls : assets[c] # NoAsset => hubs[assets[c].hub] # NoHub

(***************************************************************************)
(* The shape of the state, every call at a step of its operation, and      *)
(* every asset at a hub.                                                   *)
(***************************************************************************)
TypeOK ==
  /\ hubs \in [HubIds -> Hub \cup {NoHub}]
  /\ assets \in [Calls -> Asset \cup {NoAsset}]
  /\ log \in Seq([id : Calls, from : AssetStatuses \cup {Absent},
                  to : AssetStatuses, version : Nat \ {0}])
  /\ pc \in [Calls -> {"idle", "insertHub", "getHub", "insertAsset",
                       "getAsset", "update", "reread", "done"}]
  /\ req \in [Calls -> Requests]
  /\ local \in [Calls -> AssetStatuses \cup {Absent}]
  /\ reply \in [Calls ->
       [code : {"none", "ok", "invalid", "not_found", "conflict", "internal",
                "lost"},
        status : AssetStatuses \cup {Absent}, version : Nat]]
  /\ walk \in [at : {"none", "reading", "done"}, hub : HubIds \cup {None},
               limit : 1 .. MaxLimit, page : Nat \ {0}, seen : SUBSET Calls,
               owed : SUBSET Calls]
  /\ StepsOK
  /\ HubsAreThere

\* The move c asked for, once it is logged.
MoveOf(c) ==
  {n \in DOMAIN log :
     /\ log[n].id = req[c].asset
     /\ log[n].to = req[c].target
     /\ log[n].version = req[c].version + 1}

(***************************************************************************)
(* A change that is answered made the move it asked for, and shows the     *)
(* asset at that move or later.  No two calls are told that they made one  *)
(* move, and every move was made by a call that was not refused.           *)
(***************************************************************************)
RepliesTellTheTruth ==
  /\ \A c \in Calls :
       req[c].op = "change" /\ reply[c].code = "ok" =>
         /\ MoveOf(c) # {}
         /\ reply[c].version > req[c].version
         /\ reply[c].version = req[c].version + 1 =>
              reply[c].status = req[c].target
         /\ \A d \in Calls \ {c} :
              req[d].op = "change" /\ reply[d].code = "ok" =>
                MoveOf(c) \cap MoveOf(d) = {}
  /\ \A n \in DOMAIN log :
       log[n].version > 1 =>
         \E c \in Calls :
           /\ req[c].op = "change"
           /\ n \in MoveOf(c)
           /\ pc[c] = "reread" \/ reply[c].code \in {"ok", "internal", "lost"}

(***************************************************************************)
(* A client that reads page after page until one is empty sees every asset *)
(* that was there when it set out, however many are created or moved while *)
(* it reads: assets are not deleted and keep their numbers and hubs, so    *)
(* that an asset only ever moves to a later page.                          *)
(***************************************************************************)
WalkMissesNothing == walk.at = "done" => walk.owed \subseteq walk.seen

(***************************************************************************)
(* The assets and their events implement the ledger, with the graph of     *)
(* allowedAssetTransition: a change moves along an edge from the status    *)
(* the asset has at its commit, not only from the one that was read.       *)
(***************************************************************************)
Ledger ==
  INSTANCE LifecycleLedger
  WITH Ids <- Calls,
       Graph <- AssetGraph,
       First <- "available",
       Withdrawals <- FALSE,
       state <- [c \in Calls |-> [status |-> assets[c].status,
                                  version |-> assets[c].version]]

ImplementsLedger == Ledger!Spec

=============================================================================
