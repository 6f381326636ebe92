---------------------------- MODULE WebhookUpsert ----------------------------
(***************************************************************************)
(* What setup_webhook promises of the webhook integration (spec 4.4):      *)
(* an idempotent upsert.  Each call, in one atomic step, either registers  *)
(* its url under its tenant's name, returns unconfirmed (the name exists,  *)
(* it is left as it is, and the failure is only logged), or raises.        *)
(***************************************************************************)
EXTENDS Naturals

CONSTANTS Calls, Tenants, TenantOf, Urls, NoHook

VARIABLES
    hooks,   \* [Tenants -> Urls \cup {NoHook}]
    url,     \* [Calls -> Urls]
    status   \* [Calls -> {"pending", "registered", "unconfirmed", "failed"}]

vars == <<hooks, url, status>>

Init ==
    /\ hooks \in [Tenants -> Urls \cup {NoHook}]
    /\ url \in [Calls -> Urls]
    /\ status = [c \in Calls |-> "pending"]

Finish(c, s) == status' = [status EXCEPT ![c] = s]

\* The webhook of the call's tenant now targets the call's url.
Upsert(c) ==
    /\ status[c] = "pending"
    /\ hooks' = [hooks EXCEPT ![TenantOf[c]] = url[c]]
    /\ Finish(c, "registered")
    /\ UNCHANGED url

\* The call returns, logging a failure, leaving an existing webhook as it is.
GiveUp(c) ==
    /\ status[c] = "pending"
    /\ hooks[TenantOf[c]] # NoHook
    /\ Finish(c, "unconfirmed")
    /\ UNCHANGED <<hooks, url>>

\* The call raises without having changed any webhook.
Raise(c) ==
    /\ status[c] = "pending"
    /\ Finish(c, "failed")
    /\ UNCHANGED <<hooks, url>>

Next == \E c \in Calls : Upsert(c) \/ GiveUp(c) \/ Raise(c)

Spec == Init /\ [][Next]_vars

=============================================================================
