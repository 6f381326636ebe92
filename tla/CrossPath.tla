------------------------------ MODULE CrossPath ------------------------------
(***************************************************************************)
(* One Datadog alert reaches Keep twice: as an event that _get_alerts      *)
(* polls, and as the payload of the webhook that setup_webhook registered  *)
(* (template WEBHOOK_PAYLOAD, lines 139-157), which format_alert           *)
(* normalises.  Spec 4.1: both must give the same canonical alert and the  *)
(* same fingerprint.                                                       *)
(*                                                                         *)
(* The vendor side is an assumption, not code: both channels carry the     *)
(* alert's title "[Pn] [Status] text", its tag list, its monitor id and    *)
(* its groups; the event as lists and the monitor id as an int, the       *)
(* payload as "$TAGS" and "$ALERT_SCOPE" joined by ',', "$ALERT_PRIORITY"  *)
(* as "Pn" and "$ALERT_ID" as a string (line 155).  The                    *)
(* monitor is listed, has no downtime and no creator, so the poll path     *)
(* does not override the status.                                           *)
(***************************************************************************)
EXTENDS AlertNormalizer

CONSTANTS
    Priorities,  \* e.g. {"P1", "P5"}
    Statuses,    \* status words, e.g. {"Triggered"}
    Texts,       \* title texts
    Ids,         \* monitor ids
    TagLists,    \* tag lists an alert can carry
    GroupLists   \* monitor_groups an alert can have

NotYet == [ok |-> FALSE, pending |-> TRUE]

VARIABLES
    alert,    \* the logical alert on the vendor side
    polled,   \* NotYet or what PollAlert made of its event
    pushed    \* NotYet or what format_alert made of its payload

vars == <<alert, polled, pushed>>

LogicalAlert ==
    [priority: Priorities, status: Statuses, text: Texts, monitor_id: Ids,
     tags: TagLists, groups: GroupLists]

Title(l) ==
    [parts |-> 3, sev |-> Word(l.priority, 1, 1),
     status |-> Word(l.status, 1, 1), text |-> l.text]

PolledEvent(l) ==
    [title |-> Title(l), tags |-> l.tags, dated |-> TRUE,
     monitor_id |-> l.monitor_id, groups |-> l.groups]

Listing(l) == l.monitor_id :> [creator |-> None, downtimes |-> {}]

Payload(l) ==
    [title |-> Title(l), tags |-> l.tags, dated |-> TRUE,
     severity |-> Bare(l.priority), monitor_id |-> ToString(l.monitor_id),
     scopes |-> l.groups]

Init ==
    /\ alert \in LogicalAlert
    /\ polled = NotYet
    /\ pushed = NotYet

\* _get_alerts normalises the polled event.
Poll ==
    /\ polled = NotYet
    /\ polled' = PollAlert(PolledEvent(alert), Listing(alert))
    /\ UNCHANGED <<alert, pushed>>

\* The webhook delivers the payload to format_alert.
Push ==
    /\ pushed = NotYet
    /\ pushed' = FormatAlert(Payload(alert))
    /\ UNCHANGED <<alert, polled>>

Done == polled # NotYet /\ pushed # NotYet /\ UNCHANGED vars

Next == Poll \/ Push \/ Done

Spec == Init /\ [][Next]_vars

-----------------------------------------------------------------------------
(* Properties                                                              *)

Severities == {"critical", "high", "medium", "low", None}

Pieces == UNION {ToSet(g) : g \in UNION {ToSet(tl) : tl \in TagLists}}

Groups == GroupLists \cup {<<Wildcard>>}

IdStrs == {ToString(i) : i \in Ids}

IsTagDict(t) ==
    DOMAIN t \subseteq Pieces /\ \A k \in DOMAIN t : t[k] \in Seq(Pieces)

IsAlert(a) ==
    /\ a \in [name: Texts, status: [core: Statuses \cup {"Muted"},
              open: {0}, close: {0}], severity: Severities, monitor_id: IdStrs,
              groups: Groups, tags: {a.tags}, created_by: {None},
              fingerprint: Groups \X IdStrs]
    /\ IsTagDict(a.tags)

IsOutcome(o) ==
    \/ o \in {NotYet, Raised}
    \/ DOMAIN o = {"ok", "val"} /\ o.ok /\ IsAlert(o.val)

TypeOK ==
    /\ alert \in LogicalAlert
    /\ IsOutcome(polled)
    /\ IsOutcome(pushed)

Both == polled.ok /\ pushed.ok

\* Where both channels normalise the alert, they agree on its name, status,
\* severity, tags and monitor: the title is split the same way, the
\* payload's own "severity" stands in for the bracketed title word
\* (line 657), the two tag parsers (lines 474-480, 632-634) build the
\* same dictionary, and the int monitor id of the event and the quoted
\* "$ALERT_ID" of the payload become the same str.
SameAlertFromBothPaths ==
    Both =>
        \A f \in {"name", "status", "severity", "tags", "monitor_id"} :
            polled.val[f] = pushed.val[f]

\* Spec 4.1/4.2: the same logical alert gets the same fingerprint from
\* either channel, so the host deduplicates it.
FingerprintAgrees ==
    Both => polled.val.fingerprint = pushed.val.fingerprint

\* Spec 4.1: both channels converge on the same canonical alert, so a
\* payload whose alert the poll path accepts is accepted by format_alert.
WebhookAcceptsPolled ==
    (polled.ok /\ pushed # NotYet) => pushed.ok

=============================================================================
