---------------------------- MODULE Capabilities ----------------------------
(***************************************************************************)
(* The authorization of one tool call: its rows of authorization_requests  *)
(* and capabilities, and the transactions of AuthorizationRepository on    *)
(* them (security/repository.py) as AuthorizationApproval,                 *)
(* CapabilityIssuer and CapabilityConsumer call them.  Both tables hold at *)
(* most one row for a run and a tool call.  A request stands for the exact *)
(* facts (resource, operation, profile and version) the rows are bound to; *)
(* other processes may make other requests for the same call.              *)
(***************************************************************************)
EXTENDS Naturals

CONSTANTS
    Request,        \* the exact requests made for the call
    PolicyDecision  \* what PolicyEngine decides of each: "allow", "ask", "deny"

ASSUME PolicyAssumption == PolicyDecision \in [Request -> {"allow", "ask", "deny"}]

VARIABLES
    authorization,  \* [status, request]
    capability      \* [status, request]

capabilityVars == <<authorization, capability>>

Absent == "absent"
NoRequest == "no request"

AuthorizationStatus ==
    {"policy_allowed", "pending", "approved", "denied", "invalidated"}

\* The statuses under which a capability may be consumed.
Granting == {"policy_allowed", "approved"}

\* A capability that is "expired" is unconsumed and its expires_at has passed.
CapabilityStatus == {"issued", "expired", "consumed"}

Authorization ==
    [status : AuthorizationStatus \cup {Absent}, request : Request \cup {NoRequest}]
Capability ==
    [status : CapabilityStatus \cup {Absent}, request : Request \cup {NoRequest}]

CapabilitiesInit ==
    /\ authorization = [status |-> Absent, request |-> NoRequest]
    /\ capability = [status |-> Absent, request |-> NoRequest]

\* _create_pending_sync: a call asked about before keeps its row, whatever its
\* status, if the request is exactly the same.
CanRequest(r) == authorization.status = Absent \/ authorization.request = r

RequestAuthorization(r) ==
    /\ CanRequest(r)
    /\ authorization' = IF authorization.status = Absent
                        THEN [status |-> "pending", request |-> r]
                        ELSE authorization
    /\ UNCHANGED capability

\* Mutation: a decision already made can be turned into a denial.
CanDenyResolved(r) == authorization.status = Absent \/ authorization.request = r

\* _record_denied_sync: by policy or by the user; an open request becomes
\* denied, a decided one does not.
CanDeny(r) ==
    \/ authorization.status = Absent
    \/ authorization.request = r /\ authorization.status \in {"pending", "denied"}

RecordDenied(r) ==
    /\ CanDeny(r)
    /\ authorization' = [status |-> "denied", request |-> r]
    /\ UNCHANGED capability

\* Mutation: a denied request can still be approved.
CanGrantDenied(r, target) ==
    \/ authorization.status = Absent /\ target = "policy_allowed"
    \/ authorization.request = r /\ authorization.status = target
    \/ /\ authorization.request = r
       /\ authorization.status \in {"pending", "denied"}
       /\ target = "approved"

\* The authorization part of _issue_capability_sync: what the policy allows
\* needs no row, what the user approves must have been asked.
CanGrant(r, target) ==
    \/ authorization.status = Absent /\ target = "policy_allowed"
    \/ authorization.request = r /\ authorization.status = target
    \/ /\ authorization.request = r
       /\ authorization.status = "pending"
       /\ target = "approved"

\* One capability for one authorization: an unconsumed one is handed out again,
\* expired or not, a consumed one is refused.
CanIssue(r, target) ==
    /\ CanGrant(r, target)
    /\ \/ capability.status = Absent
       \/ capability.request = r /\ capability.status # "consumed"

IssueCapability(r, target) ==
    /\ CanIssue(r, target)
    /\ authorization' = [status |-> target, request |-> r]
    /\ capability' = IF capability.status = Absent
                     THEN [status |-> "issued", request |-> r]
                     ELSE capability

\* _consume_capability_sync.  The clock is read just before the transaction; a
\* consumer that has read it before expires_at and commits after is one that
\* committed before: whoever comes between them is refused either way.
CanConsume(r) ==
    /\ authorization.status \in Granting
    /\ capability.status = "issued"
    /\ capability.request = r

ConsumeCapability(r) ==
    /\ CanConsume(r)
    /\ capability' = [capability EXCEPT !.status = "consumed"]
    /\ UNCHANGED authorization

-----------------------------------------------------------------------------
\* The clock reaches expires_at.
ExpireCapability ==
    /\ capability.status = "issued"
    /\ capability' = [capability EXCEPT !.status = "expired"]
    /\ UNCHANGED authorization

\* _invalidate_pending_sync: the coordinator gives up a question nobody answered.
InvalidatePending ==
    /\ authorization.status = "pending"
    /\ authorization' = [authorization EXCEPT !.status = "invalidated"]
    /\ UNCHANGED capability
=============================================================================
