--------------------------- MODULE CatalogProofs ----------------------------
(***************************************************************************)
(* Theorems about Catalog, for every set of calls, hubs, asset numbers,    *)
(* target statuses, versions and page sizes.                               *)
(***************************************************************************)
EXTENDS Catalog, SequenceTheorems, FiniteSetTheorems, TLAPS

-----------------------------------------------------------------------------
(* The invariant.  Beyond the types: a hub that was found stays, and an    *)
(* asset that was not inserted has left no event.                          *)

Entries ==
  [id : Calls, from : AssetStatuses \cup {Absent}, to : AssetStatuses,
   version : Nat \ {0}]

Replies ==
  [code : {"none", "ok", "invalid", "not_found", "conflict", "internal",
           "lost"},
   status : AssetStatuses \cup {Absent}, version : Nat]

PCs ==
  {"idle", "insertHub", "getHub", "insertAsset", "getAsset", "update",
   "reread", "done"}

\* What TypeOK says of the tables, of the calls and of one call's step.
TablesOK ==
  /\ hubs \in [HubIds -> Hub \cup {NoHub}]
  /\ assets \in [Calls -> Asset \cup {NoAsset}]
  /\ log \in Seq(Entries)
  /\ HubsAreThere

CallsOK ==
  /\ pc \in [Calls -> PCs]
  /\ req \in [Calls -> Requests]
  /\ local \in [Calls -> AssetStatuses \cup {Absent}]
  /\ reply \in [Calls -> Replies]

StepOK(c) ==
  /\ pc[c] = "insertHub" => req[c].op = "hub" /\ req[c].code # None
  /\ pc[c] \in {"getHub", "insertAsset"} =>
       req[c].op = "asset" /\ req[c].number # None /\ req[c].hub # None
  /\ pc[c] \in {"getAsset", "update", "reread"} =>
       req[c].op = "change" /\ req[c].asset # None
  /\ pc[c] = "update" =>
       /\ req[c].asset \in KnownAssets
       /\ AllowedAssetTransition(local[c], req[c].target)
  /\ pc[c] = "reread" => req[c].asset \in KnownAssets
  /\ pc[c] \notin {"idle", "done"} => reply[c] = NoReply

WalkOK ==
  walk \in [at : {"none", "reading", "done"}, hub : HubIds \cup {None},
            limit : 1 .. MaxLimit, page : Nat \ {0}, seen : SUBSET Calls,
            owed : SUBSET Calls]

LEMMA PartsOfTypeOK ==
  TypeOK <=> TablesOK /\ CallsOK /\ WalkOK /\ \A c \in Calls : StepOK(c)
BY DEF TypeOK, TablesOK, CallsOK, WalkOK, StepOK, StepsOK, Entries, Replies, PCs

\* Where a call that will insert an asset stands before it has.
Unborn(c) ==
  pc[c] \in {"idle", "insertHub", "getHub", "insertAsset"} => assets[c] = NoAsset

HubFound(c) == pc[c] = "insertAsset" => hubs[req[c].hub] # NoHub

Unanswered(c) == pc[c] # "done" => reply[c] = NoReply

Moved(c) == req[c].op = "change" /\ (pc[c] = "reread" \/ reply[c].code = "ok")

\* A status and a version that the move of c, or later ones, led to.
Shows(c, status, version) ==
  /\ version > req[c].version
  /\ version = req[c].version + 1 => status = req[c].target

MoveOK(c) ==
  /\ Moved(c) => MoveOf(c) # {}
  /\ pc[c] = "reread" =>
       Shows(c, assets[req[c].asset].status, assets[req[c].asset].version)
  /\ Moved(c) /\ pc[c] # "reread" => Shows(c, reply[c].status, reply[c].version)

CallOK(c) == StepOK(c) /\ Unborn(c) /\ HubFound(c) /\ Unanswered(c) /\ MoveOK(c)

\* No event is ahead of its asset; an asset that is not there has none.
EntriesAreOld == \A n \in DOMAIN log : log[n].version <= assets[log[n].id].version

NumbersDiffer ==
  \A a, b \in KnownAssets : assets[a].number = assets[b].number => a = b

MovesDiffer ==
  \A c, d \in Calls :
    c # d /\ Moved(c) /\ Moved(d) => MoveOf(c) \cap MoveOf(d) = {}

Mover(n, c) ==
  /\ req[c].op = "change"
  /\ n \in MoveOf(c)
  /\ pc[c] = "reread" \/ reply[c].code \in {"ok", "internal", "lost"}

MovesHaveMovers ==
  \A n \in DOMAIN log : log[n].version > 1 => \E c \in Calls : Mover(n, c)

\* How many assets of a set come before an asset.
Before(found, a) == {b \in found : assets[b].number < assets[a].number}

\* What the client is owed and has not seen is on the pages still to come.
WalkInv ==
  /\ walk.owed \subseteq Matching(walk.hub)
  /\ walk.at = "reading" =>
       \A a \in walk.owed \ walk.seen :
         Cardinality(Before(Matching(walk.hub), a)) >= Offset(walk.page, walk.limit)
  /\ walk.at = "done" => walk.owed \subseteq walk.seen

CatalogInv ==
  /\ TablesOK
  /\ CallsOK
  /\ WalkOK
  /\ \A c \in Calls : CallOK(c)
  /\ EntriesAreOld
  /\ NumbersDiffer
  /\ MovesDiffer
  /\ MovesHaveMovers
  /\ WalkInv

-----------------------------------------------------------------------------
(* Facts about rows.                                                       *)

LEMMA RowsDiffer ==
  /\ NoAsset \notin Asset
  /\ NoHub \notin Hub
  /\ NoReply \in Replies
  /\ Absent \notin AssetStatuses
BY DEF NoAsset, Asset, NoHub, Hub, NoReply, Replies, AssetStatuses, Absent

\* An event appended to the log: the others keep their places.
LEMMA AppendedEntry ==
  ASSUME NEW L \in Seq(Entries), NEW e \in Entries
  PROVE  /\ Append(L, e) \in Seq(Entries)
         /\ DOMAIN L = 1 .. Len(L)
         /\ DOMAIN Append(L, e) = 1 .. Len(L) + 1
         /\ Len(L) \in Nat
         /\ Append(L, e)[Len(L) + 1] = e
         /\ \A n \in 1 .. Len(L) : Append(L, e)[n] = L[n]
BY AppendProperties, LenProperties

\* No status follows itself.
LEMMA NoSelfLoops ==
  ASSUME NEW from, NEW to, AllowedAssetTransition(from, to)
  PROVE  from # to /\ from \in DOMAIN AssetGraph /\ to \in AssetGraph[from]
BY DEF AllowedAssetTransition, AssetGraph

-----------------------------------------------------------------------------
(* What a step may do to the tables.                                       *)

AssetsKept ==
  \A a \in Calls : assets[a] # NoAsset =>
    /\ assets'[a] # NoAsset
    /\ assets'[a].number = assets[a].number
    /\ assets'[a].hub = assets[a].hub
    /\ assets'[a].version >= assets[a].version
    /\ assets'[a].version = assets[a].version => assets'[a].status = assets[a].status

HubsKept == \A h \in HubIds : hubs[h] # NoHub => hubs'[h] # NoHub

LogKept == \A n \in DOMAIN log : n \in DOMAIN log' /\ log'[n] = log[n]

Same(d) ==
  pc'[d] = pc[d] /\ req'[d] = req[d] /\ local'[d] = local[d] /\ reply'[d] = reply[d]

LEMMA AssetRows ==
  ASSUME CatalogInv, NEW a \in Calls
  PROVE  /\ assets[a].version \in Nat
         /\ assets[a].version = 0 <=> assets[a] = NoAsset
         /\ assets[a] # NoAsset => assets[a] \in Asset
BY DEF CatalogInv, TablesOK, Asset, NoAsset

LEMMA RequestRows ==
  ASSUME CatalogInv, NEW c \in Calls
  PROVE  /\ req[c] \in Requests
         /\ req[c].version \in Nat
         /\ req[c].hub \in HubIds \cup {None}
         /\ req[c].asset \in Calls \cup {None}
<1>1. req[c] \in Requests
  BY DEF CatalogInv, CallsOK
<1>2. /\ req[c].version \in Versions \cup {0}
      /\ req[c].hub \in HubIds \cup {None}
      /\ req[c].asset \in Calls \cup {None}
  BY <1>1 DEF Requests
<1>3. Versions \cup {0} \subseteq Nat
  BY CatalogAssumption
<1> QED
  BY <1>1, <1>2, <1>3

LEMMA NothingKept ==
  ASSUME CatalogInv, UNCHANGED <<hubs, assets, log>>
  PROVE  /\ AssetsKept /\ HubsKept /\ LogKept /\ TablesOK' /\ EntriesAreOld'
         /\ NumbersDiffer'
         /\ \A d \in Calls : assets[d] = NoAsset => assets'[d] = NoAsset
<1>1. AssetsKept
  BY AssetRows DEF AssetsKept
<1>2. HubsKept /\ LogKept
  BY DEF HubsKept, LogKept
<1>3. TablesOK'
  BY DEF CatalogInv, TablesOK, HubsAreThere
<1>4. EntriesAreOld' /\ NumbersDiffer'
  BY DEF CatalogInv, EntriesAreOld, NumbersDiffer, KnownAssets
<1> QED
  BY <1>1, <1>2, <1>3, <1>4

\* What a step leaves alone of the moves of a call.
LEMMA MovesKept ==
  ASSUME LogKept, NEW d \in Calls, req'[d] = req[d]
  PROVE  MoveOf(d) \subseteq MoveOf(d)'
BY DEF MoveOf, LogKept

\* A call that a step does not move keeps its part of the invariant.
LEMMA OthersKept ==
  ASSUME CatalogInv, AssetsKept, HubsKept, LogKept, TablesOK',
         NEW d \in Calls, Same(d), assets[d] = NoAsset => assets'[d] = NoAsset
  PROVE  CallOK(d)'
<1>1. CallOK(d)
  BY DEF CatalogInv
<1>2. KnownAssets \subseteq KnownAssets'
  BY DEF KnownAssets, AssetsKept
<1>3. StepOK(d)'
  BY <1>1, <1>2 DEF CallOK, StepOK, Same
<1>4. Unborn(d)' /\ Unanswered(d)'
  BY <1>1 DEF CallOK, Unborn, Unanswered, Same
<1>5. HubFound(d)'
  <2>1. ASSUME pc[d] = "insertAsset"
        PROVE  req[d].hub \in HubIds /\ hubs[req[d].hub] # NoHub
    BY <1>1, <2>1, RequestRows DEF CallOK, StepOK, HubFound
  <2> QED
    BY <2>1 DEF HubFound, HubsKept, Same
<1>6. Moved(d)' <=> Moved(d)
  BY DEF Moved, Same
<1>7. Moved(d)' => MoveOf(d)' # {}
  BY <1>1, <1>6, MovesKept DEF CallOK, MoveOK, Same
<1>8. ASSUME pc'[d] = "reread"
      PROVE  Shows(d, assets[req[d].asset].status, assets[req[d].asset].version)'
  <2>1. PICK a : a = req[d].asset
    OBVIOUS
  <2>2. /\ a \in KnownAssets
        /\ assets[a].version > req[d].version
        /\ assets[a].version = req[d].version + 1 => assets[a].status = req[d].target
    BY <1>1, <1>8, <2>1 DEF CallOK, StepOK, MoveOK, Shows, Same
  <2>3. a \in Calls /\ assets[a] # NoAsset
    BY <2>2 DEF KnownAssets
  <2>4. assets[a].version \in Nat /\ assets'[a].version \in Nat /\ req[d].version \in Nat
    BY <2>3, RequestRows, AssetRows DEF TablesOK, Asset, NoAsset
  <2>5. /\ assets'[a].version >= assets[a].version
        /\ assets'[a].version = assets[a].version => assets'[a].status = assets[a].status
    BY <2>3 DEF AssetsKept
  <2>6. assets'[a].version > req[d].version
    BY <2>2, <2>4, <2>5
  <2>7. assets'[a].version = req[d].version + 1 => assets'[a].status = req[d].target
    BY <2>2, <2>4, <2>5
  <2> QED
    BY <2>1, <2>6, <2>7 DEF Shows, Same
<1>9. ASSUME Moved(d)', pc'[d] # "reread"
      PROVE  Shows(d, reply[d].status, reply[d].version)'
  BY <1>1, <1>6, <1>9 DEF CallOK, MoveOK, Shows, Same
<1>10. MoveOK(d)'
  BY <1>7, <1>8, <1>9 DEF MoveOK
<1> QED
  BY <1>3, <1>4, <1>5, <1>10 DEF CallOK

\* As long as nobody appends to the log, moves keep their movers.
LEMMA QuietMoves ==
  ASSUME CatalogInv, log' = log,
         \A c \in Calls : Moved(c)' => Moved(c) /\ req'[c] = req[c],
         \A c \in Calls : req'[c] = req[c] \/ pc[c] = "idle",
         \A c \in Calls : pc[c] = "done" => pc'[c] = "done" /\ reply'[c] = reply[c],
         \A c \in Calls : pc[c] = "reread" =>
           pc'[c] = "reread" \/ reply'[c].code \in {"ok", "internal", "lost"}
  PROVE  MovesDiffer' /\ MovesHaveMovers'
<1>1. \A c \in Calls : req'[c] = req[c] => MoveOf(c)' = MoveOf(c)
  BY DEF MoveOf
<1>2. MovesDiffer'
  BY <1>1 DEF CatalogInv, MovesDiffer
<1>3. ASSUME NEW n \in DOMAIN log', log'[n].version > 1
      PROVE  \E c \in Calls : Mover(n, c)'
  <2>1. PICK c \in Calls : Mover(n, c)
    BY <1>3 DEF CatalogInv, MovesHaveMovers
  <2>2. Unanswered(c)
    BY DEF CatalogInv, CallOK
  <2>3. pc[c] = "reread" \/ pc[c] = "done"
    BY <2>1, <2>2 DEF Mover, Unanswered, NoReply
  <2>4. req'[c] = req[c]
    BY <2>3
  <2>5. Mover(n, c)'
    BY <1>1, <2>1, <2>3, <2>4 DEF Mover
  <2> QED
    BY <2>5
<1> QED
  BY <1>2, <1>3 DEF MovesHaveMovers

-----------------------------------------------------------------------------
(* The order of the list.                                                  *)

LEMMA KnownRows ==
  ASSUME CatalogInv
  PROVE  /\ \A a \in KnownAssets : a \in Calls /\ assets[a].number \in Int
         /\ IsFiniteSet(KnownAssets)
<1>1. \A a \in KnownAssets : a \in Calls /\ assets[a].number \in Numbers
  BY AssetRows DEF KnownAssets, Asset
<1>2. KnownAssets \subseteq Calls
  BY DEF KnownAssets
<1>3. IsFiniteSet(KnownAssets)
  BY <1>2, FS_Subset, CatalogAssumption
<1> QED
  BY <1>1, <1>3, CatalogAssumption

LEMMA PlacesAreFinite ==
  ASSUME CatalogInv, NEW found \in SUBSET KnownAssets, NEW a
  PROVE  /\ IsFiniteSet(Before(found, a))
         /\ Cardinality(Before(found, a)) \in Nat
<1>1. Before(found, a) \in SUBSET KnownAssets
  BY DEF Before
<1> QED
  BY <1>1, KnownRows, FS_Subset, FS_CardinalityType

\* Who comes earlier has a smaller place.
LEMMA EarlierIsSmaller ==
  ASSUME CatalogInv, NEW found \in SUBSET KnownAssets,
         NEW a \in found, NEW b \in found, assets[a].number < assets[b].number
  PROVE  /\ Before(found, a) \subseteq Before(found, b)
         /\ Before(found, a) # Before(found, b)
         /\ Cardinality(Before(found, a)) < Cardinality(Before(found, b))
<1>1. \A c \in found : assets[c].number \in Int
  BY KnownRows
<1>2. Before(found, a) \subseteq Before(found, b)
  BY <1>1 DEF Before
<1>3. a \in Before(found, b) /\ a \notin Before(found, a)
  BY <1>1 DEF Before
<1>4. /\ IsFiniteSet(Before(found, b))
      /\ Cardinality(Before(found, a)) \in Nat
      /\ Cardinality(Before(found, b)) \in Nat
  BY PlacesAreFinite
<1>5. /\ Cardinality(Before(found, a)) <= Cardinality(Before(found, b))
      /\ Cardinality(Before(found, b)) = Cardinality(Before(found, a)) =>
           Before(found, b) = Before(found, a)
  BY <1>2, <1>4, FS_Subset
<1> QED
  BY <1>2, <1>3, <1>4, <1>5

\* The places of a list are its first numbers: a page is empty only behind
\* the end.
LEMMA PlacesHaveNoGap ==
  ASSUME CatalogInv, NEW found \in SUBSET KnownAssets,
         NEW k \in Nat, NEW a \in found, Cardinality(Before(found, a)) >= k
  PROVE  \E b \in found : Cardinality(Before(found, b)) = k
<1> DEFINE place(b) == Cardinality(Before(found, b))
           high == {b \in found : place(b) >= k}
           T == {Before(found, b) : b \in high}
           R == StrictSubsetOrdering(found)
<1>1. T \subseteq FiniteSubsetsOf(found) /\ T # {}
  <2>1. \A b \in found : Before(found, b) \in FiniteSubsetsOf(found)
    BY PlacesAreFinite DEF FiniteSubsetsOf, Before
  <2>2. a \in high
    OBVIOUS
  <2> QED
    BY <2>1, <2>2
<1>2. PICK x \in T : \A y \in T : ~(<<y, x>> \in R)
  <2> HIDE DEF T, R
  <2>1. IsWellFoundedOn(StrictSubsetOrdering(found), FiniteSubsetsOf(found))
    BY FS_StrictSubsetOrderingWellFounded
  <2> QED
    BY <1>1, <2>1, WFMin DEF R
<1>3. PICK b \in high : x = Before(found, b)
  OBVIOUS
<1>4. place(b) \in Nat /\ place(b) >= k /\ b \in found
  BY PlacesAreFinite
<1>5. CASE place(b) = k
  BY <1>4, <1>5
<1>6. CASE place(b) > k
  <2>1. ASSUME NEW y \in x
        PROVE  place(y) \in 0 .. k - 1 /\ y \in found
    <3>1. y \in found /\ assets[y].number < assets[b].number
      BY <1>3 DEF Before
    <3>2. Before(found, y) \subseteq x /\ Before(found, y) # x
      BY <1>3, <1>4, <3>1, EarlierIsSmaller
    <3>3. <<Before(found, y), x>> \in R
      BY <1>3, <3>2 DEF StrictSubsetOrdering, Before
    <3>4. Before(found, y) \notin T
      BY <1>2, <3>3
    <3>5. y \notin high
      BY <3>4
    <3>6. place(y) \in Nat
      BY <3>1, PlacesAreFinite
    <3> QED
      BY <3>1, <3>5, <3>6
  <2> DEFINE f == [y \in x |-> place(y)]
  <2>2. f \in [x -> 0 .. k - 1]
    BY <2>1
  <2>3. IsFiniteSet(x) /\ Cardinality(x) > k
    BY <1>3, <1>6, PlacesAreFinite
  <2>4. IsFiniteSet(0 .. k - 1) /\ Cardinality(0 .. k - 1) = k
    BY FS_Interval
  <2>5. \E y, z \in x : y # z /\ f[y] = f[z]
    <3> HIDE DEF f
    <3> QED
      BY <2>2, <2>3, <2>4, FS_PigeonHole
  <2>6. PICK y \in x, z \in x : y # z /\ place(y) = place(z)
    BY <2>5
  <2>7. y \in found /\ z \in found /\ place(y) \in Nat
    BY <2>1, PlacesAreFinite
  <2>8. assets[y].number # assets[z].number
    BY <2>6, <2>7 DEF CatalogInv, NumbersDiffer
  <2>9. assets[y].number \in Int /\ assets[z].number \in Int
    BY <2>7, KnownRows
  <2>10. assets[y].number < assets[z].number \/ assets[z].number < assets[y].number
    BY <2>8, <2>9
  <2>11. \A u, v \in found :
           assets[u].number < assets[v].number => place(u) < place(v)
    BY EarlierIsSmaller
  <2> HIDE DEF place
  <2> QED
    BY <2>6, <2>7, <2>10, <2>11
<1> QED
  BY <1>4, <1>5, <1>6

\* Assets only ever move to later places.
LEMMA PlacesGrow ==
  ASSUME CatalogInv, TablesOK', AssetsKept, NEW h, NEW a \in Matching(h)
  PROVE  /\ Matching(h) \subseteq Matching(h)'
         /\ Cardinality(Before(Matching(h), a)) <= Cardinality(Before(Matching(h), a))'
<1>1. Matching(h) \subseteq Matching(h)'
  BY DEF Matching, AssetsKept
<1>2. Before(Matching(h), a) \subseteq Before(Matching(h), a)'
  BY <1>1 DEF Before, Matching, AssetsKept
<1>3. IsFiniteSet(Before(Matching(h), a)')
  <2>1. Before(Matching(h), a)' \subseteq Calls
    BY DEF Before, Matching
  <2> QED
    BY <2>1, FS_Subset, CatalogAssumption
<1> QED
  BY <1>1, <1>2, <1>3, FS_Subset

LEMMA WalkKept ==
  ASSUME CatalogInv, TablesOK', AssetsKept, walk' = walk
  PROVE  WalkInv'
<1>1. PICK h : h = walk.hub
  OBVIOUS
<1>2. walk.owed \subseteq Matching(h)
  BY <1>1 DEF CatalogInv, WalkInv
<1>3. walk.owed \subseteq Matching(h)'
  BY <1>2, PlacesGrow
<1>4. ASSUME walk.at = "reading", NEW a \in walk.owed \ walk.seen
      PROVE  Cardinality(Before(Matching(h), a))' >= Offset(walk.page, walk.limit)
  <2>1. Cardinality(Before(Matching(h), a)) >= Offset(walk.page, walk.limit)
    BY <1>1, <1>4 DEF CatalogInv, WalkInv
  <2>2. Cardinality(Before(Matching(h), a)) <= Cardinality(Before(Matching(h), a))'
    BY <1>2, <1>4, PlacesGrow
  <2>3. Cardinality(Before(Matching(h), a)) \in Nat
    <3>1. Matching(h) \in SUBSET KnownAssets
      BY DEF Matching, KnownAssets
    <3> QED
      BY <3>1, PlacesAreFinite
  <2>4. Cardinality(Before(Matching(h), a))' \in Nat
    <3>1. Before(Matching(h), a)' \subseteq Calls
      BY DEF Before, Matching
    <3>2. IsFiniteSet(Before(Matching(h), a)')
      BY <3>1, FS_Subset, CatalogAssumption
    <3> QED
      BY <3>2, FS_CardinalityType
  <2>5. Offset(walk.page, walk.limit) \in Int
    BY DEF Offset, CatalogInv, WalkOK
  <2> QED
    BY <2>1, <2>2, <2>3, <2>4, <2>5
<1>5. walk.at = "done" => walk.owed \subseteq walk.seen
  BY DEF CatalogInv, WalkInv
<1> QED
  BY <1>1, <1>3, <1>4, <1>5 DEF WalkInv

-----------------------------------------------------------------------------
(* What a call does to the state of the calls.                             *)

\* The tables and the walk stay as they are.
LEMMA QuietStep ==
  ASSUME CatalogInv, NEW c \in Calls, CallsOK',
         UNCHANGED <<hubs, assets, log, walk>>,
         pc[c] # "done",
         \A d \in Calls \ {c} : Same(d),
         CallOK(c)',
         req'[c] = req[c] \/ pc[c] = "idle",
         Moved(c)' => Moved(c) /\ req'[c] = req[c],
         pc[c] = "reread" =>
           pc'[c] = "reread" \/ reply'[c].code \in {"ok", "internal", "lost"}
  PROVE  CatalogInv'
<1>1. /\ AssetsKept /\ HubsKept /\ LogKept /\ TablesOK' /\ EntriesAreOld'
      /\ NumbersDiffer'
      /\ \A d \in Calls : assets[d] = NoAsset => assets'[d] = NoAsset
  BY NothingKept
<1>2. WalkInv' /\ WalkOK'
  BY <1>1, WalkKept DEF CatalogInv, WalkOK
<1>3. \A d \in Calls : CallOK(d)'
  BY <1>1, OthersKept
<1>4. MovesDiffer' /\ MovesHaveMovers'
  <2>1. \A d \in Calls : Moved(d)' => Moved(d) /\ req'[d] = req[d]
    BY DEF Moved, Same
  <2>2. \A d \in Calls : req'[d] = req[d] \/ pc[d] = "idle"
    BY DEF Same
  <2>3. \A d \in Calls : pc[d] = "done" => pc'[d] = "done" /\ reply'[d] = reply[d]
    BY DEF Same
  <2>4. \A d \in Calls : pc[d] = "reread" =>
          pc'[d] = "reread" \/ reply'[d].code \in {"ok", "internal", "lost"}
    BY DEF Same
  <2> QED
    BY <2>1, <2>2, <2>3, <2>4, QuietMoves
<1> QED
  BY <1>1, <1>2, <1>3, <1>4 DEF CatalogInv

\* A call that ends without having moved anything.
LEMMA DoneIsFine ==
  ASSUME NEW c \in Calls, pc'[c] = "done", ~Moved(c)'
  PROVE  CallOK(c)'
BY DEF CallOK, StepOK, Unborn, HubFound, Unanswered, MoveOK

LEMMA Answers ==
  ASSUME CatalogInv, NEW c \in Calls,
         NEW code \in {"ok", "invalid", "not_found", "conflict", "internal", "lost"},
         NEW status \in AssetStatuses \cup {Absent}, NEW version \in Nat,
         Answer(c, code, status, version), req' = req
  PROVE  /\ CallsOK'
         /\ \A d \in Calls \ {c} : Same(d)
         /\ pc'[c] = "done"
         /\ req'[c] = req[c]
         /\ reply'[c] = [code |-> code, status |-> status, version |-> version]
<1> DEFINE r == [code |-> code, status |-> status, version |-> version]
<1>1. r \in Replies
  BY DEF Replies
<1>2. /\ pc' = [pc EXCEPT ![c] = "done"]
      /\ local' = [local EXCEPT ![c] = Absent]
      /\ reply' = [reply EXCEPT ![c] = r]
  BY DEF Answer
<1> HIDE DEF r
<1>3. CallsOK'
  BY <1>1, <1>2 DEF CatalogInv, CallsOK, PCs
<1>4. \A d \in Calls \ {c} : Same(d)
  BY <1>2 DEF CatalogInv, CallsOK, Same
<1>5. pc'[c] = "done" /\ reply'[c] = r
  BY <1>2 DEF CatalogInv, CallsOK
<1> QED
  BY <1>3, <1>4, <1>5 DEF r

\* A refusal, at any step but the one after the commit, changes nothing.
LEMMA QuietRefusal ==
  ASSUME CatalogInv, NEW c \in Calls,
         NEW code \in {"invalid", "not_found", "conflict", "internal"},
         Refuse(c, code), UNCHANGED <<hubs, assets, log, req, walk>>,
         pc[c] # "done", pc[c] = "reread" => code = "internal"
  PROVE  CatalogInv'
<1>1. /\ CallsOK'
      /\ \A d \in Calls \ {c} : Same(d)
      /\ pc'[c] = "done"
      /\ req'[c] = req[c]
      /\ reply'[c] = [code |-> code, status |-> Absent, version |-> 0]
  BY Answers DEF Refuse
<1>2. ~Moved(c)'
  BY <1>1 DEF Moved
<1>3. CallOK(c)'
  BY <1>1, <1>2, DoneIsFine
<1> QED
  BY <1>1, <1>2, <1>3, QuietStep

\* A call goes on.
LEMMA Goes ==
  ASSUME CatalogInv, NEW c \in Calls, NEW step \in PCs,
         NEW status \in AssetStatuses \cup {Absent}, NEW q \in Requests,
         Step(c, step, status), req' = [req EXCEPT ![c] = q]
  PROVE  /\ CallsOK'
         /\ \A d \in Calls \ {c} : Same(d)
         /\ pc'[c] = step /\ req'[c] = q
         /\ local'[c] = status /\ reply'[c] = reply[c]
<1>1. /\ pc' = [pc EXCEPT ![c] = step]
      /\ local' = [local EXCEPT ![c] = status]
      /\ reply' = reply
  BY DEF Step
<1>2. CallsOK'
  BY <1>1 DEF CatalogInv, CallsOK
<1>3. \A d \in Calls \ {c} : Same(d)
  BY <1>1 DEF CatalogInv, CallsOK, Same
<1> QED
  BY <1>1, <1>2, <1>3 DEF CatalogInv, CallsOK

\* A call begins.
LEMMA AskKeeps ==
  ASSUME CatalogInv, NEW c \in Calls, NEW q \in Requests, NEW valid \in BOOLEAN,
         NEW step \in {"insertHub", "getHub", "getAsset"},
         Ask(c, q, valid, step),
         valid =>
           /\ step = "insertHub" => q.op = "hub" /\ q.code # None
           /\ step = "getHub" => q.op = "asset" /\ q.number # None /\ q.hub # None
           /\ step = "getAsset" => q.op = "change" /\ q.asset # None
  PROVE  CatalogInv'
<1>1. pc[c] = "idle" /\ UNCHANGED <<hubs, assets, log, walk>>
  BY DEF Ask, database
<1>2. CallOK(c)
  BY DEF CatalogInv
<1>3. CASE ~valid
  <2>1. Refuse(c, "invalid") /\ req' = req
    BY <1>3 DEF Ask
  <2> QED
    BY <1>1, <2>1, QuietRefusal
<1>4. CASE valid
  <2>1. /\ Step(c, step, Absent)
        /\ req' = [req EXCEPT ![c] = q]
        /\ step \in PCs
    BY <1>4 DEF Ask, PCs
  <2>2. /\ CallsOK'
        /\ \A d \in Calls \ {c} : Same(d)
        /\ pc'[c] = step /\ req'[c] = q /\ reply'[c] = reply[c]
    BY <2>1, Goes
  <2>3. reply[c] = NoReply
    BY <1>1, <1>2 DEF CallOK, Unanswered
  <2>4. ~Moved(c)'
    BY <2>2, <2>3 DEF Moved, NoReply
  <2>5. StepOK(c)'
    BY <1>4, <2>2, <2>3 DEF StepOK
  <2>6. Unborn(c)'
    BY <1>1, <1>2 DEF CallOK, Unborn
  <2>7. HubFound(c)' /\ Unanswered(c)' /\ MoveOK(c)'
    BY <2>2, <2>3, <2>4 DEF HubFound, Unanswered, MoveOK
  <2> QED
    BY <1>1, <2>2, <2>4, <2>5, <2>6, <2>7, QuietStep DEF CallOK
<1> QED
  BY <1>3, <1>4

-----------------------------------------------------------------------------
(* Each step of a call that leaves the tables alone.                       *)

LEMMA StartsKeep ==
  ASSUME CatalogInv, NEW c \in Calls,
         StartCreateHub(c) \/ StartCreateAsset(c) \/ StartChange(c)
  PROVE  CatalogInv'
<1>1. CASE StartCreateHub(c)
  <2>1. PICK code \in HubCodes \cup {None}, complete \in BOOLEAN :
          Ask(c, Request("hub", code, None, None, None, Absent, 0),
              code # None /\ complete, "insertHub")
    BY <1>1 DEF StartCreateHub
  <2> DEFINE q == Request("hub", code, None, None, None, Absent, 0)
             valid == code # None /\ complete
  <2>2. q \in Requests /\ q.op = "hub" /\ q.code = code
    BY DEF Request, Requests
  <2>3. valid \in BOOLEAN /\ (valid => code # None)
    OBVIOUS
  <2> HIDE DEF q, valid
  <2>4. Ask(c, q, valid, "insertHub")
    BY <2>1 DEF q, valid
  <2> QED
    BY <2>2, <2>3, <2>4, AskKeeps
<1>2. CASE StartCreateAsset(c)
  <2>1. PICK number \in Numbers \cup {None}, hub \in KnownHubs \cup {c, None},
             complete \in BOOLEAN :
          Ask(c, Request("asset", None, hub, number, None, Absent, 0),
              number # None /\ hub # None /\ complete, "getHub")
    BY <1>2 DEF StartCreateAsset
  <2> DEFINE q == Request("asset", None, hub, number, None, Absent, 0)
             valid == number # None /\ hub # None /\ complete
  <2>2. hub \in HubIds \cup {None}
    BY DEF KnownHubs, HubIds
  <2>3. q \in Requests /\ q.op = "asset" /\ q.number = number /\ q.hub = hub
    BY <2>2 DEF Request, Requests
  <2>4. valid \in BOOLEAN /\ (valid => number # None /\ hub # None)
    OBVIOUS
  <2> HIDE DEF q, valid
  <2>5. Ask(c, q, valid, "getHub")
    BY <2>1 DEF q, valid
  <2> QED
    BY <2>3, <2>4, <2>5, AskKeeps
<1>3. CASE StartChange(c)
  <2>1. PICK asset \in KnownAssets \cup {c}, target \in Targets, version \in Versions,
             hasReason \in BOOLEAN :
          Ask(c, Request("change", None, None, None, asset, target, version),
              hasReason, "getAsset")
    BY <1>3 DEF StartChange
  <2> DEFINE q == Request("change", None, None, None, asset, target, version)
  <2>2. asset \in Calls /\ asset # None
    BY CatalogAssumption DEF KnownAssets
  <2>3. q \in Requests /\ q.op = "change" /\ q.asset = asset
    BY <2>2 DEF Request, Requests
  <2> HIDE DEF q
  <2>4. Ask(c, q, hasReason, "getAsset")
    BY <2>1 DEF q
  <2> QED
    BY <2>2, <2>3, <2>4, AskKeeps
<1> QED
  BY <1>1, <1>2, <1>3

LEMMA GetHubKeeps ==
  ASSUME CatalogInv, NEW c \in Calls, GetHub(c)
  PROVE  CatalogInv'
<1>1. /\ pc[c] = "getHub"
      /\ UNCHANGED <<hubs, assets, log, req, walk>>
  BY DEF GetHub, database
<1>2. CASE Refuse(c, "not_found") \/ Refuse(c, "conflict")
  BY <1>1, <1>2, QuietRefusal
<1>3. CASE hubs[req[c].hub].status = "active" /\ Step(c, "insertAsset", Absent)
  <2>1. CallOK(c)
    BY DEF CatalogInv
  <2>2. req' = [req EXCEPT ![c] = req[c]] /\ req[c] \in Requests /\ "insertAsset" \in PCs
    BY <1>1 DEF CatalogInv, CallsOK, PCs
  <2>3. /\ CallsOK'
        /\ \A d \in Calls \ {c} : Same(d)
        /\ pc'[c] = "insertAsset" /\ req'[c] = req[c] /\ reply'[c] = reply[c]
    BY <1>3, <2>2, Goes, ZenonT(40)
  <2>4. reply[c] = NoReply
    BY <1>1, <2>1 DEF CallOK, Unanswered
  <2>5. ~Moved(c)'
    BY <2>3, <2>4 DEF Moved, NoReply
  <2>6. StepOK(c)' /\ Unborn(c)' /\ Unanswered(c)' /\ MoveOK(c)'
    BY <1>1, <2>1, <2>3, <2>4, <2>5 DEF CallOK, StepOK, Unborn, Unanswered, MoveOK
  <2>7. HubFound(c)'
    BY <1>1, <1>3, <2>3 DEF HubFound, NoHub, Absent
  <2> QED
    BY <1>1, <2>3, <2>5, <2>6, <2>7, QuietStep DEF CallOK
<1> QED
  BY <1>2, <1>3 DEF GetHub

LEMMA GetAssetKeeps ==
  ASSUME CatalogInv, NEW c \in Calls, GetAsset(c)
  PROVE  CatalogInv'
<1> DEFINE row == assets[req[c].asset]
<1>1. /\ pc[c] = "getAsset"
      /\ UNCHANGED <<hubs, assets, log, req, walk>>
  BY DEF GetAsset, database
<1>2. CASE Refuse(c, "not_found") \/ Refuse(c, "conflict")
  BY <1>1, <1>2, QuietRefusal
<1>3. CASE /\ row # NoAsset
           /\ AllowedAssetTransition(row.status, req[c].target)
           /\ Step(c, "update", row.status)
  <2>1. CallOK(c)
    BY DEF CatalogInv
  <2>2. req' = [req EXCEPT ![c] = req[c]] /\ req[c] \in Requests /\ "update" \in PCs
    BY <1>1 DEF CatalogInv, CallsOK, PCs
  <2>3. req[c].asset \in Calls
    BY <1>1, <2>1, RequestRows DEF CallOK, StepOK
  <2>4. row.status \in AssetStatuses \cup {Absent}
    BY <1>3, <2>3, AssetRows DEF Asset
  <2>5. /\ CallsOK'
        /\ \A d \in Calls \ {c} : Same(d)
        /\ pc'[c] = "update" /\ req'[c] = req[c] /\ reply'[c] = reply[c]
        /\ local'[c] = row.status
    <3>1. PICK s : s = row.status
      OBVIOUS
    <3>2. Step(c, "update", s)
      BY <1>3, <3>1
    <3>3. s \in AssetStatuses \cup {Absent}
      BY <2>4, <3>1
    <3>4. /\ CallsOK'
          /\ \A d \in Calls \ {c} : Same(d)
          /\ pc'[c] = "update" /\ req'[c] = req[c] /\ reply'[c] = reply[c]
          /\ local'[c] = s
      BY <2>2, <3>2, <3>3, Goes
    <3> QED
      BY <3>1, <3>4
  <2>6. reply[c] = NoReply
    BY <1>1, <2>1 DEF CallOK, Unanswered
  <2>7. ~Moved(c)'
    BY <2>5, <2>6 DEF Moved, NoReply
  <2>8. StepOK(c)'
    BY <1>1, <1>3, <2>1, <2>3, <2>5, <2>6 DEF CallOK, StepOK, KnownAssets
  <2>9. Unborn(c)' /\ HubFound(c)' /\ Unanswered(c)' /\ MoveOK(c)'
    BY <2>5, <2>6, <2>7 DEF Unborn, HubFound, Unanswered, MoveOK
  <2> QED
    BY <1>1, <2>5, <2>7, <2>8, <2>9, QuietStep DEF CallOK
<1> QED
  BY <1>2, <1>3 DEF GetAsset

LEMMA FinishChangeKeeps ==
  ASSUME CatalogInv, NEW c \in Calls, FinishChange(c)
  PROVE  CatalogInv'
<1>1. PICK a : a = req[c].asset
  OBVIOUS
<1>2. /\ pc[c] = "reread"
      /\ UNCHANGED <<hubs, assets, log, req, walk>>
      /\ Answer(c, "ok", assets[a].status, assets[a].version)
  BY <1>1 DEF FinishChange, database
<1>3. CallOK(c)
  BY DEF CatalogInv
<1>4. a \in Calls /\ assets[a] # NoAsset /\ req[c].op = "change"
  BY <1>1, <1>2, <1>3 DEF CallOK, StepOK, KnownAssets
<1>5. assets[a].status \in AssetStatuses \cup {Absent} /\ assets[a].version \in Nat
  BY <1>4, AssetRows DEF Asset
<1>6. /\ CallsOK'
      /\ \A d \in Calls \ {c} : Same(d)
      /\ pc'[c] = "done" /\ req'[c] = req[c]
      /\ reply'[c] = [code |-> "ok", status |-> assets[a].status,
                      version |-> assets[a].version]
  BY <1>2, <1>5, Answers
<1>7. Moved(c) /\ MoveOf(c) # {} /\ Shows(c, assets[a].status, assets[a].version)
  BY <1>1, <1>2, <1>3, <1>4 DEF CallOK, MoveOK, Moved
<1>8. MoveOf(c)' = MoveOf(c)
  BY <1>2 DEF MoveOf
<1>9. MoveOK(c)'
  BY <1>2, <1>6, <1>7, <1>8 DEF MoveOK, Shows
<1>10. StepOK(c)' /\ Unborn(c)' /\ HubFound(c)' /\ Unanswered(c)'
  BY <1>6 DEF StepOK, Unborn, HubFound, Unanswered
<1> QED
  BY <1>2, <1>6, <1>7, <1>9, <1>10, QuietStep DEF CallOK

LEMMA DatabaseFaultKeeps ==
  ASSUME CatalogInv, NEW c \in Calls, DatabaseFault(c)
  PROVE  CatalogInv'
BY QuietRefusal DEF DatabaseFault, InFlight, database

\* The process dies: every call in flight ends without an answer.
LEMMA CrashKeeps ==
  ASSUME CatalogInv, Crash
  PROVE  CatalogInv'
<1> DEFINE lost == [NoReply EXCEPT !.code = "lost"]
<1>1. /\ UNCHANGED <<hubs, assets, log, req, walk>>
      /\ pc' = [c \in Calls |-> IF c \in InFlight THEN "done" ELSE pc[c]]
      /\ local' = [c \in Calls |-> Absent]
      /\ reply' = [c \in Calls |-> IF c \in InFlight THEN lost ELSE reply[c]]
  BY DEF Crash, database
<1>2. lost \in Replies /\ lost.code = "lost"
  BY DEF Replies, NoReply
<1>3. /\ pc \in [Calls -> PCs] /\ req \in [Calls -> Requests]
      /\ reply \in [Calls -> Replies]
  BY DEF CatalogInv, CallsOK
<1> HIDE DEF lost
<1>4. CallsOK'
  <2>1. pc' \in [Calls -> PCs]
    BY <1>1, <1>3 DEF PCs
  <2>2. reply' \in [Calls -> Replies]
    BY <1>1, <1>2, <1>3
  <2> QED
    BY <1>1, <1>3, <2>1, <2>2 DEF CallsOK
<1>5. /\ AssetsKept /\ HubsKept /\ LogKept /\ TablesOK' /\ EntriesAreOld'
      /\ NumbersDiffer'
      /\ \A d \in Calls : assets[d] = NoAsset => assets'[d] = NoAsset
  BY <1>1, NothingKept
<1>6. WalkInv' /\ WalkOK'
  BY <1>1, <1>5, WalkKept DEF CatalogInv, WalkOK
<1>7. \A c \in Calls : Moved(c)' => Moved(c) /\ req'[c] = req[c]
  BY <1>1, <1>2 DEF Moved, InFlight
<1>8. ASSUME NEW c \in Calls
      PROVE  CallOK(c)'
  <2>1. CallOK(c) /\ req'[c] = req[c] /\ MoveOf(c)' = MoveOf(c)
    BY <1>1 DEF CatalogInv, MoveOf
  <2>2. CASE c \in InFlight
    <3>1. pc'[c] = "done" /\ reply'[c] = lost
      BY <1>1, <2>2
    <3> QED
      BY <1>2, <3>1, DoneIsFine DEF Moved
  <2>3. CASE c \notin InFlight
    <3>1. pc'[c] = pc[c] /\ reply'[c] = reply[c] /\ pc[c] \in {"idle", "done"}
      BY <1>1, <2>3 DEF InFlight
    <3> QED
      BY <1>1, <2>1, <3>1
      DEF CallOK, StepOK, Unborn, HubFound, Unanswered, MoveOK, Moved, Shows
  <2> QED
    BY <2>2, <2>3
<1>9. MovesDiffer' /\ MovesHaveMovers'
  <2>1. \A c \in Calls : pc[c] = "done" => pc'[c] = "done" /\ reply'[c] = reply[c]
    BY <1>1 DEF InFlight
  <2>2. \A c \in Calls : pc[c] = "reread" => reply'[c].code = "lost"
    BY <1>1, <1>2 DEF InFlight
  <2> QED
    BY <1>1, <1>7, <2>1, <2>2, QuietMoves
<1> QED
  BY <1>4, <1>5, <1>6, <1>8, <1>9 DEF CatalogInv

-----------------------------------------------------------------------------
(* The commits.                                                            *)

LEMMA CommitStep ==
  ASSUME CatalogInv, NEW c \in Calls, TablesOK', CallsOK', walk' = walk,
         AssetsKept, HubsKept, LogKept,
         \A d \in Calls \ {c} :
           Same(d) /\ (assets[d] = NoAsset => assets'[d] = NoAsset),
         CallOK(c)', EntriesAreOld', NumbersDiffer', MovesDiffer', MovesHaveMovers'
  PROVE  CatalogInv'
<1>1. WalkInv' /\ WalkOK'
  BY WalkKept DEF CatalogInv, WalkOK
<1>2. \A d \in Calls : CallOK(d)'
  BY OthersKept
<1> QED
  BY <1>1, <1>2 DEF CatalogInv

LEMMA InsertHubKeeps ==
  ASSUME CatalogInv, NEW c \in Calls, InsertHub(c)
  PROVE  CatalogInv'
<1>1. pc[c] = "insertHub" /\ UNCHANGED <<assets, log, req, walk>>
  BY DEF InsertHub
<1>2. CASE Refuse(c, "conflict") /\ hubs' = hubs
  BY <1>1, <1>2, QuietRefusal
<1>3. CASE /\ hubs' = [hubs EXCEPT
                ![c] = [code |-> req[c].code, status |-> "active"]]
           /\ Answer(c, "ok", "active", 1)
  <2> DEFINE row == [code |-> req[c].code, status |-> "active"]
  <2>1. CallOK(c) /\ req[c].op = "hub" /\ req[c].code \in HubCodes
    BY <1>1, RequestRows DEF CatalogInv, CallOK, StepOK, Requests
  <2>2. row \in Hub
    BY <2>1 DEF Hub
  <2>3. row # NoHub
    BY DEF NoHub, Absent
  <2> HIDE DEF row
  <2>4. hubs' = [hubs EXCEPT ![c] = row] /\ c \in HubIds
    BY <1>3 DEF row, HubIds
  <2>5. "active" \in AssetStatuses \cup {Absent} /\ 1 \in Nat
    BY DEF AssetStatuses
  <2>6. /\ CallsOK'
        /\ \A d \in Calls \ {c} : Same(d)
        /\ pc'[c] = "done" /\ req'[c] = req[c]
    BY <1>1, <1>3, <2>5, Answers
  <2>7. HubsKept
    BY <2>3, <2>4 DEF HubsKept, CatalogInv, TablesOK
  <2>8. AssetsKept /\ LogKept
    BY <1>1, AssetRows DEF AssetsKept, LogKept
  <2>9. TablesOK'
    <3>1. hubs' \in [HubIds -> Hub \cup {NoHub}]
      BY <2>2, <2>4 DEF CatalogInv, TablesOK
    <3>2. \A a \in Calls : assets[a] # NoAsset => assets[a].hub \in HubIds
      BY AssetRows DEF Asset
    <3>3. HubsAreThere'
      BY <1>1, <2>7, <3>2 DEF CatalogInv, TablesOK, HubsAreThere, HubsKept
    <3> QED
      BY <1>1, <3>1, <3>3 DEF CatalogInv, TablesOK
  <2>10. ~Moved(c)'
    BY <2>1, <2>6 DEF Moved
  <2>11. CallOK(c)'
    BY <2>6, <2>10, DoneIsFine
  <2>12. EntriesAreOld' /\ NumbersDiffer'
    BY <1>1 DEF CatalogInv, EntriesAreOld, NumbersDiffer, KnownAssets
  <2>13. MovesDiffer' /\ MovesHaveMovers'
    <3>1. \A d \in Calls : Moved(d)' => Moved(d) /\ req'[d] = req[d]
      BY <2>6, <2>10 DEF Moved, Same
    <3>2. \A d \in Calls : pc[d] = "done" => pc'[d] = "done" /\ reply'[d] = reply[d]
      BY <1>1, <2>6 DEF Same
    <3>3. \A d \in Calls : pc[d] = "reread" => pc'[d] = "reread"
      BY <1>1, <2>6 DEF Same
    <3> QED
      BY <1>1, <3>1, <3>2, <3>3, QuietMoves
  <2> QED
    BY <1>1, <2>6, <2>7, <2>8, <2>9, <2>11, <2>12, <2>13, CommitStep
<1> QED
  BY <1>2, <1>3 DEF InsertHub

LEMMA CloseHubKeeps ==
  ASSUME CatalogInv, CloseHub
  PROVE  CatalogInv'
<1>1. PICK h \in KnownHubs : hubs' = [hubs EXCEPT ![h].status = "closed"]
  BY DEF CloseHub
<1>2. UNCHANGED <<assets, log, pc, req, local, reply, walk>>
  BY DEF CloseHub, callers
<1>3. h \in HubIds /\ hubs[h] \in Hub
  BY DEF KnownHubs, CatalogInv, TablesOK
<1>4. /\ [hubs[h] EXCEPT !.status = "closed"] \in Hub
      /\ [hubs[h] EXCEPT !.status = "closed"] # NoHub
  BY <1>3, RowsDiffer DEF Hub
<1>5. hubs' \in [HubIds -> Hub \cup {NoHub}] /\ HubsKept
  BY <1>1, <1>3, <1>4 DEF CatalogInv, TablesOK, HubsKept
<1>6. AssetsKept /\ LogKept
  BY <1>2, AssetRows DEF AssetsKept, LogKept
<1>7. TablesOK'
  <2>1. \A a \in Calls : assets[a] # NoAsset => assets[a].hub \in HubIds
    BY AssetRows DEF Asset
  <2>2. HubsAreThere'
    BY <1>2, <1>5, <2>1 DEF CatalogInv, TablesOK, HubsAreThere, HubsKept
  <2> QED
    BY <1>2, <1>5, <2>2 DEF CatalogInv, TablesOK
<1>8. \A d \in Calls : CallOK(d)'
  BY <1>2, <1>5, <1>6, <1>7, OthersKept DEF Same
<1>9. EntriesAreOld' /\ NumbersDiffer'
  BY <1>2 DEF CatalogInv, EntriesAreOld, NumbersDiffer, KnownAssets
<1>10. MovesDiffer' /\ MovesHaveMovers'
  <2>1. \A d \in Calls : Moved(d)' <=> Moved(d)
    BY <1>2 DEF Moved
  <2> QED
    BY <1>2, <2>1, QuietMoves
<1>11. WalkInv' /\ WalkOK' /\ CallsOK'
  BY <1>2, <1>6, <1>7, WalkKept DEF CatalogInv, WalkOK, CallsOK
<1> QED
  BY <1>7, <1>8, <1>9, <1>10, <1>11 DEF CatalogInv

\* Whose move an entry is.
Fits(d, e) ==
  e.id = req[d].asset /\ e.to = req[d].target /\ e.version = req[d].version + 1

LEMMA OneMoreEntry ==
  ASSUME CatalogInv, NEW e \in Entries, log' = Append(log, e)
  PROVE  /\ LogKept
         /\ log' \in Seq(Entries)
         /\ Len(log) \in Nat
         /\ DOMAIN log = 1 .. Len(log)
         /\ DOMAIN log' = 1 .. Len(log) + 1
         /\ log'[Len(log) + 1] = e
         /\ \A n \in 1 .. Len(log) : log'[n] = log[n]
         /\ \A d \in Calls : req'[d] = req[d] =>
              /\ MoveOf(d)' \subseteq MoveOf(d) \cup {Len(log) + 1}
              /\ Len(log) + 1 \in MoveOf(d)' <=> Fits(d, e)
<1>1. log \in Seq(Entries)
  BY DEF CatalogInv, TablesOK
<1>2. /\ log' \in Seq(Entries)
      /\ Len(log) \in Nat
      /\ DOMAIN log = 1 .. Len(log)
      /\ DOMAIN log' = 1 .. Len(log) + 1
      /\ log'[Len(log) + 1] = e
      /\ \A n \in 1 .. Len(log) : log'[n] = log[n]
  BY <1>1, AppendedEntry
<1>3. LogKept
  BY <1>2 DEF LogKept
<1>4. ASSUME NEW d \in Calls, req'[d] = req[d]
      PROVE  /\ MoveOf(d)' \subseteq MoveOf(d) \cup {Len(log) + 1}
             /\ Len(log) + 1 \in MoveOf(d)' <=> Fits(d, e)
  <2>1. \A n \in DOMAIN log' :
          n # Len(log) + 1 => n \in DOMAIN log /\ log'[n] = log[n]
    BY <1>2
  <2>2. MoveOf(d)' \subseteq MoveOf(d) \cup {Len(log) + 1}
    BY <1>4, <2>1 DEF MoveOf
  <2>3. Len(log) + 1 \in DOMAIN log'
    BY <1>2
  <2>4. Len(log) + 1 \in MoveOf(d)' <=> Fits(d, e)
    BY <1>2, <1>4, <2>3 DEF MoveOf, Fits
  <2> QED
    BY <2>2, <2>4
<1> QED
  BY <1>2, <1>3, <1>4

\* Every entry of the log is of an asset that is there.
LEMMA OldEntries ==
  ASSUME CatalogInv, NEW n \in DOMAIN log
  PROVE  /\ log[n] \in Entries
         /\ log[n].id \in Calls
         /\ log[n].version \in Nat \ {0}
         /\ log[n].version <= assets[log[n].id].version
         /\ assets[log[n].id] # NoAsset
<1>1. log[n] \in Entries
  BY DEF CatalogInv, TablesOK
<1>2. log[n].id \in Calls /\ log[n].version \in Nat \ {0}
  BY <1>1 DEF Entries
<1>3. log[n].version <= assets[log[n].id].version
  BY DEF CatalogInv, EntriesAreOld
<1>4. assets[log[n].id].version # 0
  BY <1>2, <1>3
<1> QED
  BY <1>1, <1>2, <1>3, <1>4, AssetRows

LEMMA InsertAssetKeeps ==
  ASSUME CatalogInv, NEW c \in Calls, InsertAsset(c)
  PROVE  CatalogInv'
<1>1. pc[c] = "insertAsset" /\ UNCHANGED <<hubs, req, walk>>
  BY DEF InsertAsset
<1>2. CASE Refuse(c, "conflict") /\ UNCHANGED <<assets, log>>
  BY <1>1, <1>2, QuietRefusal
<1> DEFINE row == [number |-> req[c].number, hub |-> req[c].hub,
                   status |-> "available", version |-> 1]
           e == [id |-> c, from |-> Absent, to |-> "available", version |-> 1]
<1>3. CASE /\ ~NumberTaken(req[c].number)
           /\ assets' = [assets EXCEPT ![c] = row]
           /\ log' = Append(log, e)
           /\ Answer(c, "ok", "available", 1)
  <2>1. CallOK(c)
    BY DEF CatalogInv
  <2>2. /\ assets[c] = NoAsset
        /\ req[c].op = "asset"
        /\ req[c].number \in Numbers
        /\ req[c].hub \in HubIds
        /\ hubs[req[c].hub] # NoHub
    BY <1>1, <2>1, RequestRows DEF CallOK, Unborn, StepOK, HubFound, Requests
  <2>3. row \in Asset
    BY <2>2 DEF Asset, AssetStatuses
  <2>4. e \in Entries /\ e.id = c /\ e.version = 1
    BY DEF Entries, AssetStatuses
  <2>5. row # NoAsset /\ row.number = req[c].number /\ row.hub = req[c].hub
        /\ row.version = 1
    BY <2>3, RowsDiffer
  <2>6. "available" \in AssetStatuses \cup {Absent} /\ 1 \in Nat
    BY DEF AssetStatuses
  <2>7. /\ CallsOK'
        /\ \A d \in Calls \ {c} : Same(d)
        /\ pc'[c] = "done" /\ req'[c] = req[c]
    BY <1>1, <1>3, <2>6, Answers
  <2> HIDE DEF row, e
  <2>8. /\ assets' \in [Calls -> Asset \cup {NoAsset}]
        /\ assets'[c] = row
        /\ \A a \in Calls \ {c} : assets'[a] = assets[a]
    BY <1>3, <2>3 DEF CatalogInv, TablesOK
  <2>9. AssetsKept
    BY <2>2, <2>8, AssetRows DEF AssetsKept
  <2>10. HubsKept
    BY <1>1 DEF HubsKept
  <2>11. /\ LogKept
         /\ log' \in Seq(Entries)
         /\ Len(log) \in Nat
         /\ DOMAIN log = 1 .. Len(log)
         /\ DOMAIN log' = 1 .. Len(log) + 1
         /\ log'[Len(log) + 1] = e
         /\ \A n \in 1 .. Len(log) : log'[n] = log[n]
         /\ \A d \in Calls : req'[d] = req[d] =>
              /\ MoveOf(d)' \subseteq MoveOf(d) \cup {Len(log) + 1}
              /\ Len(log) + 1 \in MoveOf(d)' <=> Fits(d, e)
    BY <1>3, <2>4, OneMoreEntry
  <2>12. TablesOK'
    <3>1. HubsAreThere'
      BY <1>1, <2>2, <2>5, <2>8 DEF CatalogInv, TablesOK, HubsAreThere
    <3> QED
      BY <1>1, <2>8, <2>11, <3>1 DEF CatalogInv, TablesOK
  <2>13. ~Moved(c)'
    BY <2>2, <2>7 DEF Moved
  <2>14. CallOK(c)'
    BY <2>7, <2>13, DoneIsFine
  <2>15. EntriesAreOld'
    <3>1. ASSUME NEW n \in DOMAIN log
          PROVE  log'[n].version <= assets'[log'[n].id].version
      <4>1. log[n].id \in Calls \ {c}
        BY <2>2, OldEntries
      <4> QED
        BY <2>8, <2>11, <4>1, OldEntries
    <3>2. log'[Len(log) + 1].version <= assets'[log'[Len(log) + 1].id].version
      BY <2>4, <2>5, <2>8, <2>11
    <3>3. \A n \in DOMAIN log' : n \in DOMAIN log \/ n = Len(log) + 1
      BY <2>11
    <3> QED
      BY <3>1, <3>2, <3>3 DEF EntriesAreOld
  <2>16. NumbersDiffer'
    <3>1. \A a \in KnownAssets' :
            a # c => a \in KnownAssets /\ assets'[a] = assets[a]
      BY <2>8 DEF KnownAssets
    <3>2. \A a \in Calls : assets[a].number # req[c].number
      BY <1>3 DEF NumberTaken
    <3>3. \A a \in KnownAssets : a \in Calls
      BY DEF KnownAssets
    <3>4. \A a, b \in KnownAssets : assets[a].number = assets[b].number => a = b
      BY DEF CatalogInv, NumbersDiffer
    <3> QED
      BY <2>5, <2>8, <3>1, <3>2, <3>3, <3>4 DEF NumbersDiffer
  <2>17. ASSUME NEW d \in Calls, Moved(d)'
         PROVE  d # c /\ Moved(d) /\ MoveOf(d)' \subseteq MoveOf(d)
    <3>1. d # c /\ Moved(d) /\ req'[d] = req[d]
      BY <2>7, <2>13, <2>17 DEF Moved, Same
    <3>2. PICK n \in DOMAIN log : log[n].id = req[d].asset
      BY <3>1 DEF CatalogInv, CallOK, MoveOK, MoveOf
    <3>3. req[d].asset # c
      BY <2>2, <3>2, OldEntries
    <3>4. ~Fits(d, e)
      BY <2>4, <3>3 DEF Fits
    <3> QED
      BY <2>11, <3>1, <3>4
  <2>18. MovesDiffer'
    BY <2>17 DEF CatalogInv, MovesDiffer
  <2>19. MovesHaveMovers'
    <3>1. ASSUME NEW n \in DOMAIN log', log'[n].version > 1
          PROVE  \E d \in Calls : Mover(n, d)'
      <4>1. n \in DOMAIN log /\ log[n].version > 1
        BY <2>4, <2>11, <3>1
      <4>2. PICK d \in Calls : Mover(n, d)
        BY <4>1 DEF CatalogInv, MovesHaveMovers
      <4>3. d # c
        BY <2>2, <4>2 DEF Mover
      <4>4. n \in MoveOf(d)'
        BY <2>7, <2>11, <4>2, <4>3, MovesKept DEF Mover, Same
      <4> QED
        BY <2>7, <4>2, <4>3, <4>4 DEF Mover, Same
    <3> QED
      BY <3>1 DEF MovesHaveMovers
  <2> QED
    BY <1>1, <2>7, <2>8, <2>9, <2>10, <2>11, <2>12, <2>14, <2>15, <2>16, <2>18, <2>19,
       CommitStep
<1> QED
  BY <1>2, <1>3 DEF InsertAsset

\* The UPDATE, as one row for another.
Updated(a, to, version) ==
  [assets EXCEPT ![a].status = to, ![a].version = version]

LEMMA UpdatedRow ==
  ASSUME CatalogInv, NEW a \in Calls, assets[a] # NoAsset, NEW to, NEW version
  PROVE  Updated(a, to, version)
           = [assets EXCEPT ![a] = [number |-> assets[a].number, hub |-> assets[a].hub,
                                    status |-> to, version |-> version]]
<1> DEFINE old == assets[a]
           moved == [number |-> old.number, hub |-> old.hub,
                     status |-> to, version |-> old.version]
           both == [number |-> old.number, hub |-> old.hub,
                    status |-> to, version |-> version]
           one == [assets EXCEPT ![a] = moved]
<1>1. assets[a] = [number |-> old.number, hub |-> old.hub,
                   status |-> old.status, version |-> old.version]
  BY AssetRows DEF Asset
<1>2. DOMAIN assets = Calls
  BY DEF CatalogInv, TablesOK
<1>3. [assets EXCEPT ![a].status = to] = one
  <2>1. [assets[a] EXCEPT !.status = to] = moved
    BY <1>1
  <2> QED
    BY <2>1
<1>4. one[a] = moved
  BY <1>2
<1>5. [one EXCEPT ![a].version = version] = [one EXCEPT ![a] = both]
  <2>1. [one[a] EXCEPT !.version = version] = both
    BY <1>4
  <2> HIDE DEF one, both
  <2> QED
    BY <2>1
<1>6. [one EXCEPT ![a] = both] = [assets EXCEPT ![a] = both]
  <2> HIDE DEF both, moved
  <2> QED
    BY <1>2
<1>7. Updated(a, to, version)
        = [[assets EXCEPT ![a].status = to] EXCEPT ![a].version = version]
  BY DEF Updated
<1> QED
  BY <1>3, <1>5, <1>6, <1>7

LEMMA UpdateAssetKeeps ==
  ASSUME CatalogInv, NEW c \in Calls, UpdateAsset(c)
  PROVE  CatalogInv'
<1>1. pc[c] = "update" /\ UNCHANGED <<hubs, req, walk>>
  BY DEF UpdateAsset
<1>2. CASE Refuse(c, "conflict") /\ UNCHANGED <<assets, log>>
  BY <1>1, <1>2, QuietRefusal
<1>3. PICK a : a = req[c].asset
  OBVIOUS
<1>4. PICK to : to = req[c].target
  OBVIOUS
<1>5. PICK v : v = req[c].version
  OBVIOUS
<1>6. PICK from : from = local[c]
  OBVIOUS
<1> DEFINE row == [number |-> assets[a].number, hub |-> assets[a].hub,
                   status |-> to, version |-> v + 1]
           e == [id |-> a, from |-> from, to |-> to, version |-> v + 1]
<1>7. CASE /\ Unchanged(c)
           /\ assets' = [assets EXCEPT ![req[c].asset].status = req[c].target,
                ![req[c].asset].version = assets[req[c].asset].version + 1]
           /\ log' = Append(log, [id |-> req[c].asset, from |-> local[c],
                                  to |-> req[c].target,
                                  version |-> req[c].version + 1])
           /\ Step(c, "reread", Absent)
  <2>1. CallOK(c)
    BY DEF CatalogInv
  <2>2. /\ a \in Calls /\ a # None
        /\ assets[a] # NoAsset
        /\ req[c].op = "change"
        /\ reply[c] = NoReply
        /\ AllowedAssetTransition(from, to)
    BY <1>1, <1>3, <1>4, <1>6, <2>1, CatalogAssumption
    DEF CallOK, StepOK, KnownAssets, Unanswered
  <2>3. assets[a] \in Asset /\ assets[a].version = v /\ v \in Nat
    BY <1>3, <1>5, <1>7, <2>2, AssetRows DEF Unchanged
  <2>4. to \in AssetStatuses /\ from \in AssetStatuses \cup {Absent}
    <3>1. to \in Targets \cup {Absent}
      BY <1>4, RequestRows DEF Requests
    <3>2. to # Absent
      BY <2>2 DEF AllowedAssetTransition, AssetGraph, Absent
    <3>3. from \in AssetStatuses \cup {Absent}
      BY <1>6 DEF CatalogInv, CallsOK
    <3> QED
      BY <3>1, <3>2, <3>3, CatalogAssumption
  <2>5. row \in Asset /\ row # NoAsset /\ row.number = assets[a].number
        /\ row.hub = assets[a].hub /\ row.version = v + 1 /\ row.status = to
    BY <2>3, <2>4, RowsDiffer DEF Asset
  <2>6. e \in Entries /\ e.id = a /\ e.version = v + 1 /\ e.to = to
    BY <2>2, <2>3, <2>4 DEF Entries
  <2>7. assets' = [assets EXCEPT ![a] = row]
    <3>1. assets' = [assets EXCEPT ![a].status = to, ![a].version = assets[a].version + 1]
      BY <1>3, <1>4, <1>7
    <3>2. PICK next : next = assets[a].version + 1
      OBVIOUS
    <3>3. assets' = Updated(a, to, next)
      BY <3>1, <3>2 DEF Updated
    <3>4. assets' = [assets EXCEPT ![a] = [number |-> assets[a].number,
                       hub |-> assets[a].hub, status |-> to, version |-> next]]
      BY <2>2, <3>3, UpdatedRow
    <3>5. next = v + 1
      BY <2>3, <3>2
    <3>6. [number |-> assets[a].number, hub |-> assets[a].hub, status |-> to,
           version |-> next] = row
      BY <3>5
    <3> HIDE DEF row
    <3> QED
      BY ONLY <3>4, <3>6
  <2>8. log' = Append(log, e)
    BY <1>3, <1>4, <1>5, <1>6, <1>7
  <2> HIDE DEF row, e
  <2>9. /\ CallsOK'
        /\ \A d \in Calls \ {c} : Same(d)
        /\ pc'[c] = "reread" /\ req'[c] = req[c] /\ reply'[c] = NoReply
    <3>1. /\ req' = [req EXCEPT ![c] = req[c]] /\ req[c] \in Requests
          /\ "reread" \in PCs /\ Absent \in AssetStatuses \cup {Absent}
      BY <1>1 DEF CatalogInv, CallsOK, PCs
    <3>2. Step(c, "reread", Absent) /\ reply[c] = NoReply
      BY <1>7, <2>2
    <3> QED
      BY <3>1, <3>2, Goes, ZenonT(40)
  <2>10. /\ assets' \in [Calls -> Asset \cup {NoAsset}]
         /\ assets'[a] = row
         /\ \A b \in Calls \ {a} : assets'[b] = assets[b]
    BY <2>2, <2>5, <2>7 DEF CatalogInv, TablesOK
  <2>11. /\ LogKept
         /\ log' \in Seq(Entries)
         /\ Len(log) \in Nat
         /\ DOMAIN log = 1 .. Len(log)
         /\ DOMAIN log' = 1 .. Len(log) + 1
         /\ log'[Len(log) + 1] = e
         /\ \A n \in 1 .. Len(log) : log'[n] = log[n]
         /\ \A d \in Calls : req'[d] = req[d] =>
              /\ MoveOf(d)' \subseteq MoveOf(d) \cup {Len(log) + 1}
              /\ Len(log) + 1 \in MoveOf(d)' <=> Fits(d, e)
    BY <2>6, <2>8, OneMoreEntry
  <2>12. AssetsKept
    BY <2>3, <2>5, <2>10, AssetRows DEF AssetsKept
  <2>13. HubsKept
    BY <1>1 DEF HubsKept
  <2>14. TablesOK'
    <3>1. HubsAreThere'
      BY <1>1, <2>2, <2>5, <2>10 DEF CatalogInv, TablesOK, HubsAreThere
    <3> QED
      BY <1>1, <2>10, <2>11, <3>1 DEF CatalogInv, TablesOK
  <2>15. EntriesAreOld'
    <3>1. ASSUME NEW n \in DOMAIN log
          PROVE  log'[n].version <= assets'[log'[n].id].version
      <4>1. CASE log[n].id = a
        BY <2>3, <2>5, <2>10, <2>11, <4>1, OldEntries
      <4>2. CASE log[n].id # a
        BY <2>10, <2>11, <4>2, OldEntries
      <4> QED
        BY <4>1, <4>2
    <3>2. log'[Len(log) + 1].version <= assets'[log'[Len(log) + 1].id].version
      BY <2>3, <2>5, <2>6, <2>10, <2>11
    <3>3. \A n \in DOMAIN log' : n \in DOMAIN log \/ n = Len(log) + 1
      BY <2>11
    <3> QED
      BY <3>1, <3>2, <3>3 DEF EntriesAreOld
  <2>16. NumbersDiffer'
    <3>1. \A b \in Calls : assets'[b].number = assets[b].number
      BY <2>5, <2>10
    <3>2. KnownAssets' = KnownAssets
      BY <2>2, <2>5, <2>10 DEF KnownAssets
    <3>3. \A b \in KnownAssets : b \in Calls
      BY DEF KnownAssets
    <3> QED
      BY <3>1, <3>2, <3>3 DEF CatalogInv, NumbersDiffer
  \* The move of c is the new entry alone.
  <2>17. MoveOf(c)' = {Len(log) + 1}
    <3>1. MoveOf(c) = {}
      <4>1. SUFFICES ASSUME NEW n \in MoveOf(c) PROVE FALSE
        OBVIOUS
      <4>2. n \in DOMAIN log /\ log[n].id = a /\ log[n].version = v + 1
        BY <1>3, <1>5 DEF MoveOf
      <4>3. log[n].version <= v
        BY <2>3, <4>2, OldEntries
      <4> QED
        BY <2>3, <4>2, <4>3
    <3>2. Fits(c, e)
      BY <1>3, <1>4, <1>5, <2>6 DEF Fits
    <3> QED
      BY <2>9, <2>11, <3>1, <3>2
  <2>18. CallOK(c)'
    <3>1. StepOK(c)'
      BY <1>3, <2>2, <2>5, <2>9, <2>10 DEF StepOK, KnownAssets
    <3>2. Shows(c, assets[req[c].asset].status, assets[req[c].asset].version)'
      BY <1>3, <1>4, <1>5, <2>3, <2>5, <2>9, <2>10 DEF Shows
    <3>3. MoveOK(c)'
      BY <2>9, <2>17, <3>2 DEF MoveOK
    <3> QED
      BY <2>9, <3>1, <3>3 DEF CallOK, Unborn, HubFound, Unanswered
  \* Nobody else has made it.
  <2>19. ASSUME NEW d \in Calls, Moved(d)', d # c
         PROVE  Moved(d) /\ MoveOf(d)' \subseteq MoveOf(d) /\ Len(log) + 1 \notin MoveOf(d)'
    <3>1. Moved(d) /\ req'[d] = req[d]
      BY <2>9, <2>19 DEF Moved, Same
    <3>2. PICK n \in DOMAIN log :
            log[n].id = req[d].asset /\ log[n].version = req[d].version + 1
      BY <3>1 DEF CatalogInv, CallOK, MoveOK, MoveOf
    <3>3. ~Fits(d, e)
      <4>1. SUFFICES ASSUME Fits(d, e) PROVE FALSE
        OBVIOUS
      <4>2. log[n].id = a /\ log[n].version = v + 1
        BY <2>6, <3>2, <4>1 DEF Fits
      <4>3. log[n].version <= v
        BY <2>3, <4>2, OldEntries
      <4> QED
        BY <2>3, <4>2, <4>3
    <3> QED
      BY <2>11, <3>1, <3>3
  <2>20. MovesDiffer'
    <3>1. ASSUME NEW d \in Calls, NEW b \in Calls, d # b, Moved(d)', Moved(b)'
          PROVE  MoveOf(d)' \cap MoveOf(b)' = {}
      <4>1. CASE d = c
        BY <2>17, <2>19, <3>1, <4>1
      <4>2. CASE b = c
        BY <2>17, <2>19, <3>1, <4>2
      <4>3. CASE d # c /\ b # c
        BY <2>19, <3>1, <4>3 DEF CatalogInv, MovesDiffer
      <4> QED
        BY <4>1, <4>2, <4>3
    <3> QED
      BY <3>1 DEF MovesDiffer
  <2>21. MovesHaveMovers'
    <3>1. ASSUME NEW n \in DOMAIN log', log'[n].version > 1
          PROVE  \E d \in Calls : Mover(n, d)'
      <4>1. CASE n = Len(log) + 1
        <5>1. Mover(n, c)'
          BY <2>2, <2>9, <2>17, <4>1 DEF Mover
        <5> QED
          BY <5>1
      <4>2. CASE n # Len(log) + 1
        <5>1. n \in DOMAIN log /\ log[n].version > 1
          BY <2>11, <3>1, <4>2
        <5>2. PICK d \in Calls : Mover(n, d)
          BY <5>1 DEF CatalogInv, MovesHaveMovers
        <5>3. d # c
          BY <1>1, <2>2, <5>2 DEF Mover, NoReply
        <5>4. n \in MoveOf(d)'
          BY <2>9, <2>11, <5>2, <5>3, MovesKept DEF Mover, Same
        <5>5. Mover(n, d)'
          BY <2>9, <5>2, <5>3, <5>4 DEF Mover, Same
        <5> QED
          BY <5>5
      <4> QED
        BY <4>1, <4>2
    <3> QED
      BY <3>1 DEF MovesHaveMovers
  <2>22. \A d \in Calls \ {c} :
           Same(d) /\ (assets[d] = NoAsset => assets'[d] = NoAsset)
    BY <2>2, <2>9, <2>10
  <2> QED
    BY <1>1, <2>9, <2>11, <2>12, <2>13, <2>14, <2>15, <2>16, <2>18, <2>20, <2>21,
       <2>22, CommitStep
<1> QED
  BY <1>2, <1>7 DEF UpdateAsset

-----------------------------------------------------------------------------
(* The walk.                                                               *)

\* The client's steps concern nobody else.
LEMMA WalkStep ==
  ASSUME CatalogInv, UNCHANGED <<hubs, assets, log, pc, req, local, reply>>,
         WalkOK', WalkInv'
  PROVE  CatalogInv'
<1>1. /\ AssetsKept /\ HubsKept /\ LogKept /\ TablesOK' /\ EntriesAreOld'
      /\ NumbersDiffer'
      /\ \A d \in Calls : assets[d] = NoAsset => assets'[d] = NoAsset
  BY NothingKept
<1>2. \A d \in Calls : CallOK(d)'
  BY <1>1, OthersKept DEF Same
<1>3. MovesDiffer' /\ MovesHaveMovers'
  <2>1. \A d \in Calls : Moved(d)' <=> Moved(d)
    BY DEF Moved
  <2> QED
    BY <2>1, QuietMoves
<1>4. CallsOK'
  BY DEF CatalogInv, CallsOK
<1> QED
  BY <1>1, <1>2, <1>3, <1>4 DEF CatalogInv

LEMMA StartWalkKeeps ==
  ASSUME CatalogInv, StartWalk
  PROVE  CatalogInv'
<1>1. UNCHANGED <<hubs, assets, log, pc, req, local, reply>>
  BY DEF StartWalk, database, callers
<1>2. PICK hub \in KnownHubs \cup {None}, limit \in PageSizes :
        walk' = [NoWalk EXCEPT !.at = "reading", !.hub = hub,
                               !.limit = NormalLimit(limit), !.owed = Matching(hub)]
  BY DEF StartWalk
<1>3. walk' = [at |-> "reading", hub |-> hub, limit |-> NormalLimit(limit),
               page |-> 1, seen |-> {}, owed |-> Matching(hub)]
  BY <1>2 DEF NoWalk
<1>4. NormalLimit(limit) \in 1 .. MaxLimit
  <2>1. limit \in Int /\ MaxLimit \in Nat /\ UsualLimit \in 1 .. MaxLimit
    BY CatalogAssumption
  <2> QED
    BY <2>1 DEF NormalLimit
<1>5. hub \in HubIds \cup {None} /\ Matching(hub) \subseteq Calls
  BY DEF KnownHubs, Matching
<1>6. WalkOK'
  BY <1>3, <1>4, <1>5 DEF WalkOK
<1>7. WalkInv'
  <2>1. Matching(hub)' = Matching(hub)
    BY <1>1 DEF Matching
  <2>2. Offset(1, NormalLimit(limit)) = 0
    BY <1>4 DEF Offset
  <2>3. \A a : Cardinality(Before(Matching(hub), a))' \in Nat
    <3>1. \A a : Before(Matching(hub), a)' = Before(Matching(hub), a)
      BY <1>1 DEF Before, Matching
    <3>2. Matching(hub) \in SUBSET KnownAssets
      BY DEF Matching, KnownAssets
    <3> QED
      BY <3>1, <3>2, PlacesAreFinite
  <2>4. /\ walk'.at = "reading" /\ walk'.hub = hub /\ walk'.owed = Matching(hub)
        /\ walk'.limit = NormalLimit(limit) /\ walk'.page = 1
    BY <1>3
  <2>5. \A a : Cardinality(Before(Matching(walk.hub), a))'
                 >= Offset(walk'.page, walk'.limit)
    BY <2>2, <2>3, <2>4
  <2> QED
    BY <2>1, <2>4, <2>5 DEF WalkInv
<1> QED
  BY <1>1, <1>6, <1>7, WalkStep

\* The pages that were read and the next one leave the places behind it.
LEMMA OffsetOfNext ==
  ASSUME NEW page \in Nat \ {0}, NEW limit \in Nat \ {0}
  PROVE  /\ Offset(page, limit) \in Nat
         /\ Offset(page + 1, limit) = Offset(page, limit) + limit
<1>1. PICK p \in Nat : page = p + 1
  <2>1. page - 1 \in Nat /\ page = (page - 1) + 1
    OBVIOUS
  <2> QED
    BY <2>1
<1>2. p * limit \in Nat
  OBVIOUS
<1>3. (p + 1) * limit = p * limit + limit
  OBVIOUS
<1>4. Offset(page, limit) = p * limit /\ Offset(page + 1, limit) = (p + 1) * limit
  <2>1. page - 1 = p /\ (page + 1) - 1 = p + 1
    BY <1>1
  <2> QED
    BY <2>1 DEF Offset
<1> QED
  BY <1>2, <1>3, <1>4

\* Who belongs to a page, by the place in the list.
LEMMA PageByPlace ==
  ASSUME CatalogInv, NEW found \in SUBSET KnownAssets, NEW page \in Nat \ {0},
         NEW limit \in Nat \ {0}
  PROVE  /\ Page(found, page, limit) \subseteq found
         /\ \A a \in found :
              a \in Page(found, page, limit) <=>
                /\ Cardinality(Before(found, a)) >= Offset(page, limit)
                /\ Cardinality(Before(found, a)) < Offset(page, limit) + limit
<1>1. Page(found, page, limit) \subseteq found
  BY DEF Page
<1>2. Offset(page, limit) \in Nat
  BY OffsetOfNext
<1>3. ASSUME NEW a \in found
      PROVE  a \in Page(found, page, limit) <=>
               Cardinality(Before(found, a)) \in
                 Offset(page, limit) .. Offset(page, limit) + limit - 1
  BY DEF Page, Before
<1>4. ASSUME NEW a \in found
      PROVE  Cardinality(Before(found, a)) \in Nat
  BY PlacesAreFinite
<1>5. ASSUME NEW k \in Nat, NEW o \in Nat
      PROVE  k \in o .. o + limit - 1 <=> k >= o /\ k < o + limit
  OBVIOUS
<1> QED
  BY <1>1, <1>2, <1>3, <1>4, <1>5

LEMMA ListAssetsKeeps ==
  ASSUME CatalogInv, ListAssets
  PROVE  CatalogInv'
<1>1. UNCHANGED <<hubs, assets, log, pc, req, local, reply>>
  BY DEF ListAssets, database, callers
<1>2. PICK found : found = Matching(walk.hub)
  OBVIOUS
<1>3. PICK page \in Nat \ {0}, limit \in Nat \ {0} : page = walk.page /\ limit = walk.limit
  <2>1. walk.page \in Nat \ {0} /\ walk.limit \in 1 .. MaxLimit
    BY DEF CatalogInv, WalkOK
  <2>2. walk.limit \in Nat \ {0}
    BY <2>1, CatalogAssumption
  <2> QED
    BY <2>1, <2>2
<1>4. found \in SUBSET KnownAssets /\ found \subseteq Calls /\ walk.owed \subseteq found
  BY <1>2 DEF CatalogInv, WalkInv, Matching, KnownAssets
<1>5. PICK now : now = Page(found, page, limit)
  OBVIOUS
<1>6. /\ now \subseteq found
      /\ \A a \in found :
           a \in now <=>
             /\ Cardinality(Before(found, a)) >= Offset(page, limit)
             /\ Cardinality(Before(found, a)) < Offset(page, limit) + limit
  BY <1>4, <1>5, PageByPlace
<1>7. /\ Offset(page, limit) \in Nat
      /\ Offset(page + 1, limit) = Offset(page, limit) + limit
  BY OffsetOfNext
<1>8. /\ walk.at = "reading"
      /\ walk' = [walk EXCEPT
           !.at = IF now = {} THEN "done" ELSE "reading",
           !.page = IF now = {} THEN page ELSE page + 1,
           !.seen = walk.seen \cup now]
  BY <1>2, <1>3, <1>5 DEF ListAssets
<1>9. walk' = [at |-> IF now = {} THEN "done" ELSE "reading",
               hub |-> walk.hub, limit |-> limit,
               page |-> IF now = {} THEN page ELSE page + 1,
               seen |-> walk.seen \cup now, owed |-> walk.owed]
  BY <1>3, <1>8 DEF CatalogInv, WalkOK
<1>10. WalkOK'
  <2>1. /\ walk.hub \in HubIds \cup {None} /\ walk.seen \subseteq Calls
        /\ walk.owed \subseteq Calls /\ limit \in 1 .. MaxLimit
    BY <1>3 DEF CatalogInv, WalkOK
  <2> QED
    BY <1>4, <1>6, <1>9, <2>1 DEF WalkOK
<1>11. \A a \in walk.owed \ walk.seen :
         /\ a \in found
         /\ Cardinality(Before(found, a)) \in Nat
         /\ Cardinality(Before(found, a)) >= Offset(page, limit)
  BY <1>2, <1>3, <1>4, <1>8, PlacesAreFinite DEF CatalogInv, WalkInv
<1>12. /\ Matching(walk.hub)' = found
       /\ \A a : Before(found, a)' = Before(found, a)
       /\ walk'.owed = walk.owed /\ walk'.seen = walk.seen \cup now
       /\ walk'.limit = limit
  <2>1. walk'.hub = walk.hub
    BY <1>9
  <2> QED
    BY <1>1, <1>2, <1>9, <2>1 DEF Matching, Before
<1>13. CASE now = {}
  <2>1. walk'.at = "done"
    BY <1>9, <1>13
  <2>2. ASSUME NEW a \in walk.owed \ walk.seen
        PROVE  FALSE
    <3>1. PICK b \in found : Cardinality(Before(found, b)) = Offset(page, limit)
      BY <1>4, <1>7, <1>11, PlacesHaveNoGap
    <3>2. b \in now
      BY <1>6, <1>7, <3>1
    <3> QED
      BY <1>13, <3>2
  <2>3. walk'.owed \subseteq walk'.seen /\ walk'.owed \subseteq found
    BY <1>4, <1>12, <2>2
  <2>4. WalkInv'
    BY <1>12, <2>1, <2>3 DEF WalkInv
  <2> QED
    BY <1>1, <1>10, <2>4, WalkStep
<1>14. CASE now # {}
  <2>1. walk'.at = "reading" /\ walk'.page = page + 1
    BY <1>9, <1>14
  <2>2. ASSUME NEW a \in walk'.owed \ walk'.seen
        PROVE  Cardinality(Before(found, a)) >= Offset(page + 1, limit)
    <3>1. a \in walk.owed \ walk.seen /\ a \notin now
      BY <1>12, <2>2
    <3> QED
      BY <1>6, <1>7, <1>11, <3>1
  <2>3. \A a : Cardinality(Before(Matching(walk.hub), a))' = Cardinality(Before(found, a))
    BY <1>1, <1>12 DEF Before
  <2>4. WalkInv'
    BY <1>4, <1>12, <2>1, <2>2, <2>3 DEF WalkInv
  <2> QED
    BY <1>1, <1>10, <2>4, WalkStep
<1> QED
  BY <1>13, <1>14

-----------------------------------------------------------------------------
(* The invariant holds.                                                    *)

LEMMA InitOK == Init => CatalogInv
<1> SUFFICES ASSUME Init PROVE CatalogInv
  OBVIOUS
<1> USE DEF Init
<1>1. /\ \A c \in Calls : assets[c] = NoAsset
      /\ KnownAssets = {}
      /\ log = <<>> /\ DOMAIN log = {}
  BY DEF KnownAssets
<1>2. TablesOK
  <2>1. hubs \in [HubIds -> Hub \cup {NoHub}]
    BY DEF Seed, Hub, HubIds
  <2>2. log \in Seq(Entries)
    BY EmptySeq
  <2> QED
    BY <1>1, <2>1, <2>2 DEF TablesOK, HubsAreThere
<1>3. CallsOK
  <2>1. NoRequest \in Requests
    BY DEF NoRequest, Request, Requests
  <2>2. reply \in [Calls -> Replies]
    BY RowsDiffer
  <2> QED
    BY <2>1, <2>2 DEF CallsOK, PCs
<1>4. WalkOK /\ WalkInv
  BY CatalogAssumption DEF WalkOK, WalkInv, NoWalk
<1>5. \A c \in Calls : pc[c] = "idle" /\ req[c].op = "none" /\ reply[c] = NoReply
  BY DEF NoRequest, Request
<1>6. \A c \in Calls : CallOK(c)
  BY <1>1, <1>5 DEF CallOK, StepOK, Unborn, HubFound, Unanswered, MoveOK, Moved
<1>7. EntriesAreOld /\ NumbersDiffer /\ MovesHaveMovers
  BY <1>1 DEF EntriesAreOld, NumbersDiffer, MovesHaveMovers
<1>8. MovesDiffer
  BY <1>5 DEF MovesDiffer, Moved
<1> QED
  BY <1>2, <1>3, <1>4, <1>6, <1>7, <1>8 DEF CatalogInv

LEMMA StutterKeeps ==
  ASSUME CatalogInv, UNCHANGED vars
  PROVE  CatalogInv'
<1>1. UNCHANGED <<hubs, assets, log, pc, req, local, reply>> /\ walk' = walk
  BY DEF vars
<1>2. AssetsKept /\ TablesOK'
  BY <1>1, NothingKept
<1>3. WalkInv' /\ WalkOK'
  BY <1>1, <1>2, WalkKept DEF CatalogInv, WalkOK
<1> QED
  BY <1>1, <1>3, WalkStep

LEMMA NextKeepsInv == CatalogInv /\ [Next]_vars => CatalogInv'
<1> SUFFICES ASSUME CatalogInv, [Next]_vars PROVE CatalogInv'
  OBVIOUS
<1>1. ASSUME NEW c \in Calls,
             \/ StartCreateHub(c) \/ StartCreateAsset(c) \/ StartChange(c)
      PROVE  CatalogInv'
  BY <1>1, StartsKeep
<1>2. ASSUME NEW c \in Calls, InsertHub(c) \/ GetHub(c) \/ InsertAsset(c)
      PROVE  CatalogInv'
  BY <1>2, InsertHubKeeps, GetHubKeeps, InsertAssetKeeps
<1>3. ASSUME NEW c \in Calls, GetAsset(c) \/ UpdateAsset(c) \/ FinishChange(c)
      PROVE  CatalogInv'
  BY <1>3, GetAssetKeeps, UpdateAssetKeeps, FinishChangeKeeps
<1>4. ASSUME NEW c \in Calls, DatabaseFault(c)
      PROVE  CatalogInv'
  BY <1>4, DatabaseFaultKeeps
<1>5. CASE StartWalk \/ ListAssets
  BY <1>5, StartWalkKeeps, ListAssetsKeeps
<1>6. CASE CloseHub \/ Crash
  BY <1>6, CloseHubKeeps, CrashKeeps
<1>7. CASE UNCHANGED vars
  BY <1>7, StutterKeeps
<1> QED
  BY <1>1, <1>2, <1>3, <1>4, <1>5, <1>6, <1>7 DEF Next

LEMMA InvariantHolds == Spec => []CatalogInv
BY InitOK, NextKeepsInv, PTL DEF Spec

-----------------------------------------------------------------------------
(* What follows from it.                                                   *)

(***************************************************************************)
(* The shape of the state: every call stands at a step of the operation it *)
(* asked for, with what that step needs, and every asset belongs to a hub  *)
(* that is there, although its row is not looked at again.                 *)
(***************************************************************************)
THEOREM TypeCorrect == Spec => []TypeOK
<1>1. CatalogInv => TypeOK
  BY PartsOfTypeOK DEF CatalogInv, CallOK
<1> QED
  BY <1>1, InvariantHolds, PTL

(***************************************************************************)
(* A caller whose change is answered made the move it asked for, no two    *)
(* callers made one move, and nobody who made one was refused, whatever    *)
(* calls, faults and crashes fall between the read, the UPDATE and the     *)
(* second read.                                                            *)
(***************************************************************************)
THEOREM AnswersAreTrue == Spec => []RepliesTellTheTruth
<1>1. ASSUME CatalogInv PROVE RepliesTellTheTruth
  <2>1. ASSUME NEW c \in Calls, req[c].op = "change", reply[c].code = "ok"
        PROVE  Moved(c) /\ pc[c] # "reread"
    <3>1. CallOK(c)
      BY <1>1 DEF CatalogInv
    <3> QED
      BY <2>1, <3>1 DEF Moved, CallOK, Unanswered, NoReply
  <2>2. ASSUME NEW c \in Calls, req[c].op = "change", reply[c].code = "ok"
        PROVE  MoveOf(c) # {} /\ Shows(c, reply[c].status, reply[c].version)
    <3>1. CallOK(c)
      BY <1>1 DEF CatalogInv
    <3> QED
      BY <2>1, <2>2, <3>1 DEF CallOK, MoveOK
  <2>3. ASSUME NEW c \in Calls, NEW d \in Calls \ {c},
               req[c].op = "change", reply[c].code = "ok",
               req[d].op = "change", reply[d].code = "ok"
        PROVE  MoveOf(c) \cap MoveOf(d) = {}
    BY <1>1, <2>1, <2>3 DEF CatalogInv, MovesDiffer
  <2>4. \A n \in DOMAIN log : log[n].version > 1 =>
          \E c \in Calls :
            /\ req[c].op = "change"
            /\ n \in MoveOf(c)
            /\ pc[c] = "reread" \/ reply[c].code \in {"ok", "internal", "lost"}
    BY <1>1 DEF CatalogInv, MovesHaveMovers, Mover
  <2> QED
    BY <2>2, <2>3, <2>4 DEF RepliesTellTheTruth, Shows
<1> QED
  BY <1>1, InvariantHolds, PTL

(***************************************************************************)
(* A client that reads page after page until one is empty sees every asset *)
(* that was there when it set out, for every limit it may give.            *)
(***************************************************************************)
THEOREM WalkSeesAll == Spec => []WalkMissesNothing
<1>1. CatalogInv => WalkMissesNothing
  BY DEF CatalogInv, WalkInv, WalkMissesNothing
<1> QED
  BY <1>1, InvariantHolds, PTL

-----------------------------------------------------------------------------
(* The catalogue implements the ledger.                                    *)

Shown == [c \in Calls |-> [status |-> assets[c].status,
                           version |-> assets[c].version]]

\* The ledger has the vocabulary of Lifecycle under names of its own.
LEMMA SameVocabulary ==
  /\ Ledger!Absent = Absent
  /\ \A from, to : AllowedAssetTransition(from, to) =>
       Ledger!Allows(AssetGraph, from, to) /\ to \in Ledger!States
<1>1. ASSUME NEW from, NEW to, AllowedAssetTransition(from, to)
      PROVE  Ledger!Allows(AssetGraph, from, to) /\ to \in Ledger!States
  <2>1. from # to /\ from \in DOMAIN AssetGraph /\ to \in AssetGraph[from]
    BY <1>1, NoSelfLoops
  <2> QED
    BY <2>1 DEF Ledger!Allows, Ledger!States
<1> QED
  BY <1>1 DEF Ledger!Absent, Absent

LEMMA InitialLedger == Init => Ledger!Init
BY SameVocabulary DEF Init, Ledger!Init, Ledger!Gone, NoAsset

\* What a commit that writes one asset shows of it.
LEMMA ShownAfter ==
  ASSUME CatalogInv, NEW a \in Calls, NEW row, assets' = [assets EXCEPT ![a] = row]
  PROVE  Shown' = [Shown EXCEPT ![a] = [status |-> row.status, version |-> row.version]]
BY DEF Shown, CatalogInv, TablesOK

LEMMA InsertOpens ==
  ASSUME CatalogInv, NEW c \in Calls, InsertAsset(c), assets' # assets
  PROVE  Ledger!Open(c)
<1> DEFINE row == [number |-> req[c].number, hub |-> req[c].hub,
                   status |-> "available", version |-> 1]
<1>1. /\ pc[c] = "insertAsset"
      /\ assets' = [assets EXCEPT ![c] = row]
      /\ log' = Append(log, [id |-> c, from |-> Absent, to |-> "available",
                             version |-> 1])
  BY DEF InsertAsset
<1>2. assets[c] = NoAsset
  BY <1>1 DEF CatalogInv, CallOK, Unborn
<1>3. Shown[c] = Ledger!Gone
  BY <1>2, SameVocabulary DEF Shown, NoAsset, Ledger!Gone
<1>4. ~Ledger!Logged(c)
  <2>1. ASSUME NEW n \in DOMAIN log, log[n].id = c PROVE FALSE
    <3>1. log[n].version <= assets[c].version /\ log[n].version \in Nat \ {0}
      BY <2>1, OldEntries
    <3> QED
      BY <1>2, <3>1 DEF NoAsset
  <2> QED
    BY <2>1 DEF Ledger!Logged
<1>5. Shown' = [Shown EXCEPT ![c] = [status |-> "available", version |-> 1]]
  <2>1. row.status = "available" /\ row.version = 1
    OBVIOUS
  <2> HIDE DEF row
  <2> QED
    BY <1>1, <2>1, ShownAfter
<1> QED
  BY <1>1, <1>3, <1>4, <1>5, SameVocabulary DEF Ledger!Open, Ledger!Entry, Shown

\* The edge leaves the status the asset has when the UPDATE commits.
LEMMA UpdateAdvances ==
  ASSUME CatalogInv, NEW c \in Calls, UpdateAsset(c), Unchanged(c)
  PROVE  \E a \in Calls : \E to \in Ledger!States : Ledger!Advance(a, to)
<1>1. PICK a, to, next : /\ a = req[c].asset
                         /\ to = req[c].target
                         /\ next = assets[req[c].asset].version + 1
  OBVIOUS
<1>2. StepOK(c) /\ pc[c] = "update"
  BY DEF CatalogInv, CallOK, UpdateAsset
<1>3. a \in Calls /\ assets[a] # NoAsset /\ AllowedAssetTransition(local[c], to)
  BY <1>1, <1>2 DEF StepOK, KnownAssets
<1>4. assets[a].status = local[c] /\ req[c].version + 1 = next
  BY <1>1 DEF Unchanged
<1>5. /\ assets' = Updated(a, to, next)
      /\ log' = Append(log, [id |-> a, from |-> local[c], to |-> to, version |-> next])
  BY <1>1, <1>4 DEF UpdateAsset, Updated
<1>6. Shown' = [Shown EXCEPT ![a] = [status |-> to, version |-> next]]
  <2>1. PICK row : row = [number |-> assets[a].number, hub |-> assets[a].hub,
                          status |-> to, version |-> next]
    OBVIOUS
  <2>2. assets' = [assets EXCEPT ![a] = row]
    BY <1>3, <1>5, <2>1, UpdatedRow
  <2>3. row.status = to /\ row.version = next
    BY <2>1
  <2> QED
    BY <1>3, <2>2, <2>3, ShownAfter
<1>7. Shown[a].status = local[c] /\ next = Shown[a].version + 1
  BY <1>1, <1>3, <1>4 DEF Shown
<1>8. Ledger!Allows(AssetGraph, Shown[a].status, to) /\ to \in Ledger!States
  BY <1>3, <1>7, SameVocabulary
<1>9. Ledger!Advance(a, to)
  BY <1>5, <1>6, <1>7, <1>8 DEF Ledger!Advance, Ledger!Entry, Shown
<1> QED
  BY <1>3, <1>8, <1>9

LEMMA StepImplementsLedger ==
  ASSUME CatalogInv, [Next]_vars
  PROVE  [Ledger!Next]_(Ledger!ledgerVars)
<1>1. CASE UNCHANGED <<assets, log>>
  BY <1>1 DEF Ledger!ledgerVars
<1>2. ASSUME NEW c \in Calls, InsertAsset(c), ~UNCHANGED <<assets, log>>
      PROVE  Ledger!Next
  <2>1. assets[c] = NoAsset
    BY <1>2 DEF CatalogInv, CallOK, Unborn, InsertAsset
  <2>2. assets' = [assets EXCEPT
          ![c] = [number |-> req[c].number, hub |-> req[c].hub,
                  status |-> "available", version |-> 1]]
    BY <1>2 DEF InsertAsset
  <2>3. assets'[c].version = 1 /\ assets[c].version = 0
    BY <2>1, <2>2 DEF CatalogInv, TablesOK, NoAsset
  <2>4. assets' # assets
    BY <2>3
  <2> QED
    BY <1>2, <2>4, InsertOpens DEF Ledger!Next
<1>3. ASSUME NEW c \in Calls, UpdateAsset(c), ~UNCHANGED <<assets, log>>
      PROVE  Ledger!Next
  <2>1. Unchanged(c)
    BY <1>3 DEF UpdateAsset
  <2> QED
    BY <1>3, <2>1, UpdateAdvances DEF Ledger!Next
<1>4. ASSUME NEW c \in Calls,
             \/ StartCreateHub(c) \/ InsertHub(c) \/ StartCreateAsset(c) \/ GetHub(c)
             \/ StartChange(c) \/ GetAsset(c) \/ FinishChange(c) \/ DatabaseFault(c)
      PROVE  UNCHANGED <<assets, log>>
  BY <1>4 DEF StartCreateHub, InsertHub, StartCreateAsset, GetHub, StartChange,
              GetAsset, FinishChange, DatabaseFault, Ask, database
<1>5. StartWalk \/ ListAssets \/ CloseHub \/ Crash \/ UNCHANGED vars
        => UNCHANGED <<assets, log>>
  BY DEF StartWalk, ListAssets, CloseHub, Crash, vars, database
<1> QED
  BY <1>1, <1>2, <1>3, <1>4, <1>5 DEF Next

(***************************************************************************)
(* The catalogue implements the ledger with the graph of                   *)
(* allowedAssetTransition, whatever calls, faults and crashes interleave:  *)
(* an asset is opened once, a change moves it along an edge from the       *)
(* status it has at the commit and to the next version, and its event      *)
(* tells just that move.                                                   *)
(***************************************************************************)
THEOREM CatalogImplementsLedger == Spec => ImplementsLedger
<1>1. CatalogInv /\ [Next]_vars => [Ledger!Next]_(Ledger!ledgerVars)
  BY StepImplementsLedger
<1> QED
  BY <1>1, InitialLedger, InvariantHolds, PTL
  DEF Spec, ImplementsLedger, Ledger!Spec

-----------------------------------------------------------------------------
(* What the catalogue inherits from the ledger it implements.              *)

History ==
  INSTANCE LedgerProofs
  WITH Ids <- Calls,
       Graph <- AssetGraph,
       First <- "available",
       Withdrawals <- FALSE,
       state <- [c \in Calls |-> [status |-> assets[c].status,
                                  version |-> assets[c].version]],
       log <- log

LEMMA GraphIsInside == History!GoneIsOutside
BY DEF History!GoneIsOutside, History!States, History!Absent, AssetGraph

LEMMA LedgerStepIsHistoryStep ==
  ASSUME [Ledger!Next]_(Ledger!ledgerVars)
  PROVE  [History!Next]_(History!ledgerVars)
BY DEF Ledger!Next, Ledger!Open, Ledger!Advance, Ledger!Withdraw, Ledger!Entry,
       Ledger!Logged, Ledger!Gone, Ledger!Absent, Ledger!States, Ledger!Allows,
       Ledger!ledgerVars,
       History!Next, History!Open, History!Advance, History!Withdraw,
       History!Entry, History!Logged, History!Gone, History!Absent,
       History!States, History!Allows, History!ledgerVars

LEMMA LedgerStartIsHistoryStart == Ledger!Init => History!Init
BY DEF Ledger!Init, Ledger!Gone, Ledger!Absent,
       History!Init, History!Gone, History!Absent

(***************************************************************************)
(* A reader of the events of assets can rebuild the table: the events of   *)
(* an asset form a chain whose last one is where the asset is.             *)
(***************************************************************************)
THEOREM EventsAreAHistory == Spec => [](Ledger!MovesAreChained /\ Ledger!LogReplays)
<1>1. Init => History!LedgerInv
  BY InitialLedger, LedgerStartIsHistoryStart, History!InitialLedgerInv
<1>2. CatalogInv /\ [Next]_vars /\ History!LedgerInv => History!LedgerInv'
  BY StepImplementsLedger, LedgerStepIsHistoryStep, GraphIsInside,
     History!StepKeepsLedger
<1>3. History!LedgerInv => Ledger!MovesAreChained /\ Ledger!LogReplays
  BY DEF History!LedgerInv, History!MovesAreChained, History!LogReplays,
         History!Gone, History!Absent,
         Ledger!MovesAreChained, Ledger!LogReplays, Ledger!Gone, Ledger!Absent
<1> QED
  BY <1>1, <1>2, <1>3, InvariantHolds, PTL DEF Spec

=============================================================================
