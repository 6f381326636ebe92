---------------------------- MODULE ScopeValidator ----------------------------
(***************************************************************************)
(* DatadogProvider.validate_scopes (lines 313-389) on one provider         *)
(* instance, together with a caller that runs _query and expose() on the   *)
(* same instance before or after it.  The probes go through the scopes of  *)
(* PROVIDER_SCOPES in their order (lines 72-110); every vendor call of a   *)
(* probe returns, raises an ApiException with a status, or raises          *)
(* something else (a urllib3 timeout of the 5-second request_timeout),     *)
(* which no except clause of validate_scopes catches.  The logs_read probe *)
(* is a _query and so writes the instance's query window (QueryWindow).    *)
(***************************************************************************)
EXTENDS Integers, Sequences, TLC

CONSTANTS
    None,
    QueryTypes, Timeframes, MaxClock,  \* as in QueryWindow
    Statuses   \* ApiException statuses a vendor call can raise, e.g. {"403", "429"}

VARIABLES
    clock, to, from, sent, exposed,  \* QueryWindow
    vpc,       \* "idle", "probing", "deleting", "returned" or "raised"
    k,         \* the index of the scope being probed
    scopes,    \* the result: scope name -> Granted or Denied(reason)
    probes,    \* probe monitors created and not deleted, in the org
    errors     \* scope name -> statuses its probe calls raised (history)

QW == INSTANCE QueryWindow

qvars == <<clock, to, from, sent, exposed>>
vvars == <<vpc, k, scopes, probes, errors>>
vars == <<qvars, vvars>>

ScopeOrder == <<"events_read", "monitors_read", "monitors_write",
                "create_webhooks", "metrics_read", "logs_read">>

ScopeNames == {ScopeOrder[i] : i \in DOMAIN ScopeOrder}

Scope == ScopeOrder[k]

\* The scopes PROVIDER_SCOPES marks mandatory_for_webhook (lines 81-101):
\* those the platform needs granted to provision the webhook.
WebhookScopes == {"monitors_read", "monitors_write", "create_webhooks"}

\* What a vendor call can do: return, raise an ApiException, or time out.
Outcomes == {"ok", "timeout"} \cup Statuses

Granted == [granted |-> TRUE]
Denied(st) == [granted |-> FALSE, reason |-> st]

\* "logs_read" probes with timeframe "1h" (line 368).
OneHour == [count |-> 1, unit |-> "h"]

\* Mutant: line 386 without the continue, so a denied scope is then
\* recorded as True as well.
ProbeVerdictNoContinue(o) == Granted

\* Mutant: line 387 dropped, every probe recorded with a reason.
ProbeVerdictAlwaysReason(o) == Denied(o)

\* Lines 378-387: an ApiException records its reason, a return True.
ProbeVerdict(o) == IF o = "ok" THEN Granted ELSE Denied(o)

\* Lines 354-357 and 387: a failure other than 403 of
\* create_webhooks_integration is taken as proof of access.
CreateWebhooksVerdict(o) == IF o = "403" THEN Denied(o) ELSE Granted

\* Lines 317-387, the end of one iteration for the outcome o of the probe
\* of the current scope: an exception other than an ApiException leaves
\* validate_scopes; otherwise the verdict is recorded and the loop goes on
\* with the next scope.
Conclude(o, verdict) ==
    /\ errors' = [errors EXCEPT ![Scope] = @ \cup ({o} \ {"ok"})]
    /\ IF o = "timeout"
       THEN vpc' = "raised" /\ UNCHANGED <<k, scopes>>
       ELSE /\ vpc' = "probing"
            /\ k' = k + 1
            /\ scopes' = scopes @@ (Scope :> verdict)

Validate ==
    /\ vpc = "idle"
    /\ vpc' = "probing"
    /\ k' = 1
    /\ scopes' = <<>>
    /\ errors' = [s \in ScopeNames |-> {}]
    /\ UNCHANGED <<qvars, probes>>

\* Lines 319-321, 358-364 and 371-377: one vendor call each.
Probe ==
    /\ vpc = "probing"
    /\ k <= Len(ScopeOrder)
    /\ \E o \in Outcomes :
        CASE Scope \in {"events_read", "monitors_read", "metrics_read"}
                 -> Conclude(o, ProbeVerdict(o))
          [] Scope = "create_webhooks" -> Conclude(o, CreateWebhooksVerdict(o))
          [] OTHER -> FALSE
    /\ UNCHANGED <<qvars, probes>>

\* Line 341: create_monitor; a created probe monitor awaits its delete.
CreateProbeMonitor ==
    /\ vpc = "probing"
    /\ k <= Len(ScopeOrder) /\ Scope = "monitors_write"
    /\ \E o \in Outcomes :
        IF o = "ok"
        THEN /\ vpc' = "deleting" /\ probes' = probes + 1
             /\ UNCHANGED <<k, scopes, errors>>
        ELSE Conclude(o, ProbeVerdict(o)) /\ UNCHANGED probes
    /\ UNCHANGED qvars

\* Mutant: the delete wrapped in its own try/except, its failure ignored.
DeleteProbeMonitorSwallow ==
    /\ vpc = "deleting"
    /\ \E o \in Outcomes :
        /\ Conclude(o, Granted)
        /\ probes' = IF o = "ok" THEN probes - 1 ELSE probes
    /\ UNCHANGED qvars

\* Line 342: delete_monitor(monitor.id); if it raises, the probe monitor
\* stays in the organisation.
DeleteProbeMonitor ==
    /\ vpc = "deleting"
    /\ \E o \in Outcomes :
        /\ Conclude(o, ProbeVerdict(o))
        /\ probes' = IF o = "ok" THEN probes - 1 ELSE probes
    /\ UNCHANGED qvars

\* Lines 365-370: _query("*", "1h", "logs") writes the window, then
\* list_logs returns or raises.
LogsProbe ==
    /\ vpc = "probing"
    /\ k <= Len(ScopeOrder) /\ Scope = "logs_read"
    /\ \E later \in QW!Later : QW!Query("logs", OneHour, later)
    /\ exposed' = None
    /\ \E o \in Outcomes : Conclude(o, ProbeVerdict(o))
    /\ UNCHANGED probes

\* Mutant: the loop's bound off by one, returning before logs_read.
ReturnEarly ==
    /\ vpc = "probing"
    /\ k >= Len(ScopeOrder)
    /\ vpc' = "returned"
    /\ UNCHANGED <<qvars, k, scopes, probes, errors>>

\* Lines 388-389.
Return ==
    /\ vpc = "probing"
    /\ k > Len(ScopeOrder)
    /\ vpc' = "returned"
    /\ UNCHANGED <<qvars, k, scopes, probes, errors>>

ValidationStep ==
    Probe \/ CreateProbeMonitor \/ DeleteProbeMonitor \/ LogsProbe \/ Return

\* The caller uses the instance only while validate_scopes is not running
\* (spec 5: single-threaded, one call at a time).
Caller ==
    /\ vpc \in {"idle", "returned", "raised"}
    /\ QW!CallQuery \/ QW!CallExpose
    /\ UNCHANGED vvars

Init ==
    /\ QW!Init
    /\ vpc = "idle"
    /\ k = 1
    /\ scopes = <<>>
    /\ probes = 0
    /\ errors = [s \in ScopeNames |-> {}]

Next ==
    \/ Validate
    \/ ValidationStep
    \/ Caller
    \/ QW!Tick /\ UNCHANGED vvars

Spec == Init /\ [][Next]_vars

-----------------------------------------------------------------------------
(* Properties                                                              *)

TypeOK ==
    /\ vpc \in {"idle", "probing", "deleting", "returned", "raised"}
    /\ k \in 1..(Len(ScopeOrder) + 1)
    /\ DOMAIN scopes \subseteq ScopeNames
    /\ \A s \in DOMAIN scopes :
           scopes[s] \in {Granted} \cup {Denied(st) : st \in Statuses}
    /\ probes \in 0..1
    /\ errors \in [ScopeNames -> SUBSET (Statuses \cup {"timeout"})]
    /\ clock \in 0..MaxClock

\* Spec 4.3 and the comment on line 355: a scope whose probe the vendor
\* refused with 403 is never reported as granted, whatever the other
\* calls of the probe did and whichever branch caught the exception.
ForbiddenNeverGranted ==
    \A s \in DOMAIN scopes : "403" \in errors[s] => ~scopes[s].granted

\* Spec 4.3: side-effecting probes clean up what they create "when
\* possible".  When they cannot (delete_monitor raised, line 342), the
\* result says so: validate_scopes never returns monitors_write granted
\* while its probe monitor is left in the organisation.
ProbeLeakReported ==
    (vpc = "returned" /\ probes > 0) => ~scopes["monitors_write"].granted

\* The abstract state of validate_scopes: a call runs while the probes do,
\* and its result is the dict it returns.
Phase == IF vpc \in {"probing", "deleting"} THEN "running" ELSE vpc

Result == IF vpc = "returned" THEN scopes ELSE None

Validation == INSTANCE ScopeValidation
    WITH phase <- Phase, result <- Result,
         Verdicts <- {Granted} \cup {Denied(st) : st \in Statuses}

\* Spec 4.3: validate_scopes implements the atomic validation: the probe
\* loop of lines 317-387, the probe monitor's create and delete and the
\* caller's queries in between, returns a verdict for every scope of
\* PROVIDER_SCOPES or raises, and nothing else.
ValidationRefinement == Validation!Spec

\* Spec 4.3: a capability is "granted (probe succeeded)".  When
\* validate_scopes returns every scope that PROVIDER_SCOPES marks
\* mandatory_for_webhook as granted, the platform may provision the
\* webhook, so every vendor call that probed those scopes must have
\* succeeded, the create_webhooks_integration of lines 349-357 included.
WebhookScopesProbed ==
    (vpc = "returned" /\ \A s \in WebhookScopes : scopes[s].granted) =>
        \A s \in WebhookScopes : errors[s] = {}

=============================================================================
