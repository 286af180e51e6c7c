----------------------------- MODULE Lifecycle ------------------------------
(***************************************************************************)
(* The vocabulary the six business services share: package domain          *)
(* (statuses, the transition graph, roles) and the table of the HTTP layer *)
(* that says which permission a requested status needs.                    *)
(***************************************************************************)

StatusPlanned == "planned"
StatusAwaitingReview == "awaiting_review"
StatusCompleted == "completed"

\* What a row that does not exist looks like to the modules that use this one.
Absent == "absent"

Statuses ==
  {"draft", "planned", "reserved", "dispatched", "active",
   "awaiting_review", "completed", "canceled", "failed"}

(***************************************************************************)
(* domain.DefaultGraph: the statuses each status may be followed by.  The  *)
(* statuses outside the domain of the graph have no way out.               *)
(***************************************************************************)
DefaultGraph ==
  [planned         |-> {"reserved", "dispatched", "canceled"},
   reserved        |-> {"dispatched", "active", "canceled"},
   dispatched      |-> {"active", "canceled", "failed"},
   active          |-> {"awaiting_review", "completed", "failed"},
   awaiting_review |-> {"active", "completed", "failed"},
   failed          |-> {"planned", "canceled"}]

\* TransitionGraph.Validate returns no error.
Allows(graph, from, to) ==
  /\ from # to
  /\ from \in DOMAIN graph
  /\ to \in graph[from]

\* IsTerminal of every service's value.
IsTerminal(status) == status \in {"completed", "canceled"}

-----------------------------------------------------------------------------
Roles ==
  {"platform_admin", "transport_dispatcher", "field_operator",
   "safety_auditor"}

\* A bug to detect: the dispatcher's row also holds the field operator's rights.
PermissionsMerged ==
  [transport_dispatcher |->
     {"plan", "reserve", "dispatch", "cancel", "start", "complete", "read"},
   field_operator       |-> {"start", "report", "complete", "read"},
   safety_auditor       |-> {"review", "close", "read", "audit"}]

\* The permissions of Role.Can.
Permissions ==
  [transport_dispatcher |-> {"plan", "reserve", "dispatch", "cancel", "read"},
   field_operator       |-> {"start", "report", "complete", "read"},
   safety_auditor       |-> {"review", "close", "read", "audit"}]

\* Role.Can
Can(role, action) ==
  \/ role = "platform_admin"
  \/ /\ role \in DOMAIN Permissions
     /\ action \in Permissions[role]

\* httpapi.transitionAction: the permission a requested status needs.
TransitionAction(target) ==
  CASE target = "reserved" -> "reserve"
    [] target = "dispatched" -> "dispatch"
    [] target = "active" -> "start"
    [] target \in {"awaiting_review", "completed"} -> "complete"
    [] target = "canceled" -> "cancel"
    [] OTHER -> "review"

=============================================================================
