------------------------- MODULE WebhookProvisioner -------------------------
(***************************************************************************)
(* DatadogProvider.setup_webhook (datadog_provider.py 526-629), run by     *)
(* several concurrent callers against one Datadog organisation.            *)
(*                                                                         *)
(* Each call c provisions the webhook integration named after its tenant   *)
(* (KEEP_DATADOG_WEBHOOK_INTEGRATION_NAME-tenant) and then, if             *)
(* setup_alerts, appends "@webhook-<name>" to the message of every         *)
(* monitor that does not already contain it.  Every vendor call is one     *)
(* atomic step of the vendor; the calls of different callers interleave.   *)
(*                                                                         *)
(* Data abstraction: a webhook is identified by its tenant and carries     *)
(* only its url; a monitor message is the set of things it mentions: the   *)
(* tenants whose "@webhook-" handle occurs in it and UserText, standing    *)
(* for the text the monitor's owner wrote.                                 *)
(*                                                                         *)
(* deploy_alert (lines 668-676) runs beside the calls: it creates a       *)
(* monitor of Deployable, with its owner's text, in the same organisation. *)
(***************************************************************************)
EXTENDS Naturals, FiniteSets

CONSTANTS
    Calls,        \* concurrent setup_webhook invocations
    Tenants,      \* tenant ids; one webhook name per tenant
    TenantOf,     \* [Calls -> Tenants]: the tenant_id argument of a call
    Urls,         \* candidate keep_api_url arguments
    Keys,         \* candidate api_key arguments
    Monitors,     \* monitors of the Datadog organisation
    Deployable,   \* monitors absent at first, which deploy_alert may create
    NamePrefix,   \* pairs <<s, t>>: the handle of s is a proper prefix of t's
    NoHook,       \* model value: no integration with that name exists
    UserText,     \* model value: the monitor owner's own message text
    MaxFailures   \* bound on vendor calls that fail with an ApiException

ASSUME TenantOf \in [Calls -> Tenants]
ASSUME NamePrefix \subseteq Tenants \X Tenants
ASSUME MaxFailures \in Nat
ASSUME Deployable \subseteq Monitors

VARIABLES
    hooks,     \* vendor: [Tenants -> (Urls \X Keys) \cup {NoHook}]
    msg,       \* vendor: [Monitors -> SUBSET Mention], each monitor's message
    live,      \* vendor: the monitors that exist in the organisation
    url,       \* [Calls -> Urls], the keep_api_url argument
    key,       \* [Calls -> Keys], the api_key argument (its X-API-KEY header)
    alerts,    \* [Calls -> BOOLEAN], the setup_alerts argument
    pc,        \* [Calls -> Label], where each call is in setup_webhook
    snapshot,  \* [Calls -> [listed -> SUBSET Mention]]: list_monitors() result
    todo,      \* [Calls -> SUBSET Monitors]: monitors the for-loop has left
    skipped,   \* [Calls -> SUBSET Monitors]: monitors whose update_monitor failed
    swallowed, \* [Calls -> BOOLEAN]: "Failed to update webhook" was logged
    failures   \* vendor calls that failed so far

vars == <<hooks, msg, live, url, key, alerts, pc, snapshot, todo, skipped,
          swallowed, failures>>

Mention == Tenants \cup {UserText}

\* The lines of setup_webhook a call can be at.  "raised" is an exception
\* propagated out of the webhook upsert (lines 534-591), "listRaised" one
\* out of list_monitors() (line 596).
Label == {"get", "update", "create", "fallback", "list", "patch",
          "done", "raised", "listRaised"}

UpsertLabels == {"get", "update", "create", "fallback"}

-----------------------------------------------------------------------------
(* Helpers                                                                 *)

\* f"@webhook-{webhook_name}" in monitor_message (line 607): a substring
\* test, so it also holds when the message mentions a longer handle.
Mentioned(m, t) ==
    \/ t \in m
    \/ \E s \in m \cap Tenants : <<t, s>> \in NamePrefix

\* Where a call continues after the upsert: line 593.
AfterUpsert(c) == IF alerts[c] THEN "list" ELSE "done"

\* One more vendor call fails with an ApiException.
Fail == failures < MaxFailures /\ failures' = failures + 1

Goto(c, l) == pc' = [pc EXCEPT ![c] = l]

\* The body of lines 537-547, 555-566 and 574-584: url and custom_headers.
Register(c) == hooks' = [hooks EXCEPT ![TenantOf[c]] = <<url[c], key[c]>>]

-----------------------------------------------------------------------------
(* Mutants: plausible slips in setup_webhook, each of which a property of  *)
(* the passing run must catch.                                             *)

\* Line 535 with the comparison inverted: update when the url is equal.
GetInverted(c) ==
    LET t == TenantOf[c] IN
    /\ pc[c] = "get"
    /\ \/ /\ hooks[t] = NoHook
          /\ Goto(c, "create") /\ UNCHANGED failures
       \/ /\ Fail
          /\ \/ Goto(c, "create")
             \/ Goto(c, "raised")
       \/ /\ hooks[t] # NoHook
          /\ Goto(c, IF hooks[t][1] = url[c] THEN "update" ELSE AfterUpsert(c))
          /\ UNCHANGED failures
    /\ UNCHANGED <<hooks, msg, live, url, key, alerts, snapshot, todo, skipped, swallowed>>

\* Line 609 interpolating keep_api_url instead of webhook_name.
PatchWithUrl(c, m) ==
    LET t    == TenantOf[c]
        read == snapshot[c][m]
    IN
    /\ pc[c] = "patch"
    /\ m \in todo[c]
    /\ todo' = [todo EXCEPT ![c] = @ \ {m}]
    /\ \/ /\ Mentioned(read, t)
          /\ UNCHANGED <<msg, skipped, failures>>
       \/ /\ ~Mentioned(read, t)
          /\ msg' = [msg EXCEPT ![m] = read \cup {url[c]}]
          /\ UNCHANGED <<skipped, failures>>
    /\ UNCHANGED <<hooks, live, url, key, alerts, pc, snapshot, swallowed>>

\* The loop left early, as by a break after the first monitor.
PatchDoneEarly(c) ==
    /\ pc[c] = "patch"
    /\ Goto(c, "done")
    /\ UNCHANGED <<hooks, msg, live, url, key, alerts, snapshot, todo, skipped,
                   swallowed, failures>>

-----------------------------------------------------------------------------
(* Initial state: any integration and monitor messages left by earlier     *)
(* runs; every call about to run line 534 with its own arguments.          *)

Init ==
    /\ hooks \in [Tenants -> (Urls \X Keys) \cup {NoHook}]
    /\ live = Monitors \ Deployable
    /\ msg \in [Monitors -> SUBSET Mention]
    /\ \A m \in Deployable : msg[m] = {}
    /\ url \in [Calls -> Urls]
    /\ key \in [Calls -> Keys]
    /\ alerts \in [Calls -> BOOLEAN]
    /\ pc = [c \in Calls |-> "get"]
    /\ snapshot = [c \in Calls |-> <<>>]
    /\ todo = [c \in Calls |-> {}]
    /\ skipped = [c \in Calls |-> {}]
    /\ swallowed = [c \in Calls |-> FALSE]
    /\ failures = 0

-----------------------------------------------------------------------------
(* Actions, one per vendor call of setup_webhook                          *)

\* Lines 534-536, 552: get_webhooks_integration.  NotFound, or Forbidden,
\* goes to create; any other ApiException propagates; a found webhook
\* with another url is updated, one with this url is left alone.
Get(c) ==
    LET t == TenantOf[c] IN
    /\ pc[c] = "get"
    /\ \/ /\ hooks[t] = NoHook
          /\ Goto(c, "create") /\ UNCHANGED failures
       \/ /\ Fail
          /\ \/ Goto(c, "create")
             \/ Goto(c, "raised")
       \/ /\ hooks[t] # NoHook
          /\ Goto(c, IF hooks[t][1] # url[c] THEN "update" ELSE AfterUpsert(c))
          /\ UNCHANGED failures
    /\ UNCHANGED <<hooks, msg, live, url, key, alerts, snapshot, todo, skipped, swallowed>>

\* Lines 536-552: update_webhooks_integration inside the same try, so a
\* Forbidden answer is handled like a failed get and goes to create.
Update(c) ==
    /\ pc[c] = "update"
    /\ \/ /\ Register(c) /\ Goto(c, AfterUpsert(c))
          /\ UNCHANGED failures
       \/ /\ Fail /\ UNCHANGED hooks
          /\ \/ Goto(c, "create")
             \/ Goto(c, "raised")
    /\ UNCHANGED <<msg, live, url, key, alerts, snapshot, todo, skipped, swallowed>>

\* Lines 553-570, 590-591: create_webhooks_integration.  The vendor refuses
\* a name that exists ("Webhook already exists"), which goes to the
\* fallback update; any other ApiException propagates.
Create(c) ==
    LET t == TenantOf[c] IN
    /\ pc[c] = "create"
    /\ \/ /\ hooks[t] = NoHook
          /\ Register(c) /\ Goto(c, AfterUpsert(c))
          /\ UNCHANGED failures
       \/ /\ hooks[t] # NoHook
          /\ Goto(c, "fallback") /\ UNCHANGED <<hooks, failures>>
       \/ /\ Fail /\ Goto(c, "raised") /\ UNCHANGED hooks
    /\ UNCHANGED <<msg, live, url, key, alerts, snapshot, todo, skipped, swallowed>>

\* Lines 571-589: the fallback update_webhooks_integration.  An
\* ApiException is logged and swallowed (line 588): the call goes on as if
\* the webhook were set.  Any other error of the call, a timeout or a
\* refused connection of the HTTP client, is not caught there and
\* propagates out of setup_webhook.
Fallback(c) ==
    /\ pc[c] = "fallback"
    /\ \/ /\ Register(c) /\ Goto(c, AfterUpsert(c))
          /\ UNCHANGED <<swallowed, failures>>
       \/ /\ Fail /\ UNCHANGED hooks
          /\ swallowed' = [swallowed EXCEPT ![c] = TRUE]
          /\ Goto(c, AfterUpsert(c))
       \/ /\ Fail /\ Goto(c, "raised") /\ UNCHANGED <<hooks, swallowed>>
    /\ UNCHANGED <<msg, live, url, key, alerts, snapshot, todo, skipped>>

\* Line 596: list_monitors(), outside any try.  The monitors that exist now
\* and their messages are read here, once, and the loop below works from
\* this copy.
List(c) ==
    /\ pc[c] = "list"
    /\ \/ /\ snapshot' = [snapshot EXCEPT ![c] = [m \in live |-> msg[m]]]
          /\ todo' = [todo EXCEPT ![c] = live]
          /\ Goto(c, "patch") /\ UNCHANGED failures
       \/ /\ Fail /\ Goto(c, "listRaised")
          /\ UNCHANGED <<snapshot, todo>>
    /\ UNCHANGED <<hooks, msg, live, url, key, alerts, skipped, swallowed>>

\* Lines 597-628: one iteration of the loop.  A message that already
\* contains the handle is skipped; otherwise the message as listed, with
\* the handle appended, is written by update_monitor, whose failure is
\* logged and skipped.
Patch(c, m) ==
    LET t    == TenantOf[c]
        read == snapshot[c][m]
    IN
    /\ pc[c] = "patch"
    /\ m \in todo[c]
    /\ todo' = [todo EXCEPT ![c] = @ \ {m}]
    /\ \/ /\ Mentioned(read, t)
          /\ UNCHANGED <<msg, skipped, failures>>
       \/ /\ ~Mentioned(read, t)
          /\ msg' = [msg EXCEPT ![m] = read \cup {t}]
          /\ UNCHANGED <<skipped, failures>>
       \/ /\ ~Mentioned(read, t)
          /\ Fail /\ UNCHANGED msg
          /\ skipped' = [skipped EXCEPT ![c] = @ \cup {m}]
    /\ UNCHANGED <<hooks, live, url, key, alerts, pc, snapshot, swallowed>>

\* Line 629: the loop has run over every listed monitor.
PatchDone(c) ==
    /\ pc[c] = "patch"
    /\ todo[c] = {}
    /\ Goto(c, "done")
    /\ UNCHANGED <<hooks, msg, live, url, key, alerts, snapshot, todo, skipped,
                   swallowed, failures>>

\* Lines 668-676: deploy_alert creates the monitor with the message the
\* caller wrote; a failed create_monitor raises and creates nothing.
DeployAlert(m) ==
    /\ m \in Deployable \ live
    /\ \/ /\ live' = live \cup {m}
          /\ msg' = [msg EXCEPT ![m] = {UserText}]
          /\ UNCHANGED failures
       \/ Fail /\ UNCHANGED <<live, msg>>
    /\ UNCHANGED <<hooks, url, key, alerts, pc, snapshot, todo, skipped, swallowed>>

Terminated == \A c \in Calls : pc[c] \in {"done", "raised", "listRaised"}

\* One step of call c: a vendor call of setup_webhook or the loop's end.
CallStep(c) ==
    \/ Get(c) \/ Update(c) \/ Create(c) \/ Fallback(c)
    \/ List(c) \/ PatchDone(c)
    \/ \E m \in Monitors : Patch(c, m)

Next ==
    \/ \E c \in Calls : CallStep(c)
    \/ \E m \in Monitors : DeployAlert(m)
    \/ Terminated /\ UNCHANGED vars

Spec == Init /\ [][Next]_vars

-----------------------------------------------------------------------------
(* Properties                                                              *)

TypeOK ==
    /\ hooks \in [Tenants -> (Urls \X Keys) \cup {NoHook}]
    /\ msg \in [Monitors -> SUBSET Mention]
    /\ live \subseteq Monitors
    /\ url \in [Calls -> Urls]
    /\ key \in [Calls -> Keys]
    /\ alerts \in [Calls -> BOOLEAN]
    /\ pc \in [Calls -> Label]
    /\ \A c \in Calls : \E listed \in SUBSET live :
           snapshot[c] \in [listed -> SUBSET Mention]
    /\ \A c \in Calls : todo[c] \subseteq DOMAIN snapshot[c]
    /\ skipped \in [Calls -> SUBSET Monitors]
    /\ swallowed \in [Calls -> BOOLEAN]
    /\ failures \in 0..MaxFailures

\* Once setup_webhook(setup_alerts=True) has returned, every monitor that
\* list_monitors() returned and whose update did not fail notifies the
\* tenant's webhook: its message holds the exact handle "@webhook-<name>"
\* (lines 593-629, spec 4.4), whatever other calls and deploy_alert did
\* meanwhile.
PatchedOnReturn ==
    \A c \in Calls :
        (pc[c] = "done" /\ alerts[c]) =>
            \A m \in DOMAIN snapshot[c] \ skipped[c] : TenantOf[c] \in msg[m]

\* The upsert of lines 533-591, a get followed by an update, or a create
\* followed by an update when a concurrent call created the name first,
\* implements the atomic upsert of WebhookUpsert.  A call is pending
\* until it leaves the upsert, has failed if it raised there, returned
\* unconfirmed if it swallowed the fallback's failure, and returned
\* registered otherwise (listRaised happens after the upsert returned).
UpsertStatus ==
    [c \in Calls |-> CASE pc[c] \in UpsertLabels -> "pending"
                        [] pc[c] = "raised"      -> "failed"
                        [] swallowed[c]          -> "unconfirmed"
                        [] OTHER                 -> "registered"]

\* The abstract webhook is its url: what the upsert decides on (line 535).
HookUrl == [t \in Tenants |-> IF hooks[t] = NoHook THEN NoHook ELSE hooks[t][1]]

Upsert == INSTANCE WebhookUpsert WITH hooks <- HookUrl, status <- UpsertStatus

UpsertRefinement == Upsert!Spec

=============================================================================
