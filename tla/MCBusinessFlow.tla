--------------------------- MODULE MCBusinessFlow ---------------------------
(***************************************************************************)
(* Instances of BusinessFlow small enough for TLC.  Users, payloads and    *)
(* identities are strings; calls are model values and interchangeable.     *)
(***************************************************************************)
EXTENDS BusinessFlow, TLC

CONSTANTS c1, c2, c3, c4, c5, k1, k2, none

\* Calls take any part in a behaviour and no property names one of them.
CallSymmetry == Permutations(Calls)
Symmetry == Permutations(Calls) \cup Permutations(Keys)

MCUsers == {"ada", "dan", "fay", "sam"}
MCRoleOf ==
  [u \in MCUsers |->
     CASE u = "ada" -> "platform_admin"
       [] u = "dan" -> "transport_dispatcher"
       [] u = "fay" -> "field_operator"
       [] u = "sam" -> "safety_auditor"]

Planner == {"dan"}
PlannerRole == [u \in Planner |-> "transport_dispatcher"]
Planners == {"dan", "dora"}
PlannersRole == [u \in Planners |-> "transport_dispatcher"]
Crew == MCUsers \ {"ada"}
CrewRole == [u \in Crew |-> MCRoleOf[u]]

HubIds == {"hub1", "hub2"}
AssetIds == {"van1"}

Body(number, parent, resource, due) ==
  [number |-> number, parent |-> parent, resource |-> resource,
   amount |-> 1, detail |-> "text", due |-> due]

\* Two numbers, one body of them in two variants: one that expires sooner.
TwoNumbers ==
  {Body("N1", "hub1", "van1", 9), Body("N2", "hub1", "van1", 9),
   Body("N2", "hub1", none, 1)}

TwoBodies ==
  {Body("N1", "hub1", "van1", 9), Body("N2", "hub1", "van1", 9)}

OneBody == {Body("N1", "hub1", "van1", 9)}

\* A hub, a vehicle, a place nobody registered, and nothing, as the resource.
EveryResource ==
  {Body("N1", "hub1", r, 9) : r \in {"hub2", "van1", "ghost", none}}
  \cup {[Body("N1", "hub1", "hub2", 9) EXCEPT !.amount = 0]}

EveryKind == AllKinds
CancelOnly == {"canceled"}
OneKind == {"mission"}
InspectionOnly == {"inspection"}

OnEveryConnection == {TRUE}
OnSomeConnections == {TRUE, FALSE}
NothingUncalled == {}
EverythingUncalled == {"Prune", "DeleteDraft", "Cancel"}

NoTargets == {}
AllTargets == Statuses \ {"draft"}
RaceTargets == {"dispatched", "canceled"}
WorkTargets == {"dispatched", "active", "completed", "canceled"}

=============================================================================
