------------------------------ MODULE PollBatch ------------------------------
(***************************************************************************)
(* DatadogProvider._get_alerts (lines 452-524): list the monitors with     *)
(* their downtimes, list the alert events of the last 30 days, then        *)
(* normalise the events one by one, logging and skipping any event whose   *)
(* normalisation raises.  The two listings are separate vendor calls, so   *)
(* an event may name a monitor that the listing does not hold (deleted or  *)
(* created in between, or deleted within the 30 days).                     *)
(***************************************************************************)
EXTENDS AlertNormalizer

CONSTANTS
    MonitorListings,  \* what list_monitors(with_downtimes=True) can return
    EventFeeds        \* what list_events(...)["events"] can return

VARIABLES
    pc,        \* "monitors", "events", "loop", "returned" or "raised"
    monitors,  \* all_monitors, from monitor id to monitor
    events,    \* the polled events
    i,         \* the index of the next event of the loop
    result,    \* formatted_alerts
    logged     \* the events of "Could not parse alert event" log lines

vars == <<pc, monitors, events, i, result, logged>>

Init ==
    /\ pc = "monitors"
    /\ monitors = <<>>
    /\ events = <<>>
    /\ i = 1
    /\ result = <<>>
    /\ logged = <<>>

\* Lines 457-461, outside the try: an ApiException propagates.
ListMonitors ==
    /\ pc = "monitors"
    /\ \/ \E l \in MonitorListings : monitors' = l /\ pc' = "events"
       \/ pc' = "raised" /\ UNCHANGED monitors
    /\ UNCHANGED <<events, i, result, logged>>

\* Lines 462-471, outside the try as well.
ListEvents ==
    /\ pc = "events"
    /\ \/ \E f \in EventFeeds : events' = f /\ pc' = "loop"
       \/ pc' = "raised" /\ UNCHANGED events
    /\ UNCHANGED <<monitors, i, result, logged>>

\* Mutant: line 523 as a break, so the first bad event ends the batch.
NormalizeEventBreak ==
    LET r == PollAlert(events[i], monitors) IN
    /\ pc = "loop"
    /\ i <= Len(events)
    /\ IF r.ok THEN /\ result' = Append(result, r.val) /\ i' = i + 1
                    /\ UNCHANGED logged
               ELSE /\ logged' = Append(logged, events[i])
                    /\ i' = Len(events) + 1 /\ UNCHANGED result
    /\ UNCHANGED <<pc, monitors, events>>

\* Mutant: line 517 appending the raw event instead of the alert.
NormalizeEventRaw ==
    LET r == PollAlert(events[i], monitors) IN
    /\ pc = "loop"
    /\ i <= Len(events)
    /\ i' = i + 1
    /\ IF r.ok THEN result' = Append(result, events[i]) /\ UNCHANGED logged
               ELSE logged' = Append(logged, events[i]) /\ UNCHANGED result
    /\ UNCHANGED <<pc, monitors, events>>

\* Lines 472-523: one iteration; an exception is logged and the loop
\* continues with the next event.
NormalizeEvent ==
    LET r == PollAlert(events[i], monitors) IN
    /\ pc = "loop"
    /\ i <= Len(events)
    /\ i' = i + 1
    /\ IF r.ok THEN result' = Append(result, r.val) /\ UNCHANGED logged
               ELSE logged' = Append(logged, events[i]) /\ UNCHANGED result
    /\ UNCHANGED <<pc, monitors, events>>

\* Line 524.
Return ==
    /\ pc = "loop"
    /\ i > Len(events)
    /\ pc' = "returned"
    /\ UNCHANGED <<monitors, events, i, result, logged>>

Finished == pc \in {"returned", "raised"} /\ UNCHANGED vars

Next == ListMonitors \/ ListEvents \/ NormalizeEvent \/ Return \/ Finished

Spec == Init /\ [][Next]_vars

-----------------------------------------------------------------------------
(* Properties                                                              *)

\* An alert of the batch: built from an event of the feed and the monitor
\* the listing holds for it.
FromFeed(a) ==
    /\ "fingerprint" \in DOMAIN a
    /\ \E e \in ToSet(events) :
           /\ a.monitor_id = ToString(e.monitor_id)
           /\ a.groups = e.groups
           /\ a.tags = PollTags(e.tags)
           /\ a.created_by = monitors[e.monitor_id].creator
           /\ a.fingerprint = GetAlertFingerprint(a)

TypeOK ==
    /\ pc \in {"monitors", "events", "loop", "returned", "raised"}
    /\ monitors \in MonitorListings \cup {<<>>}
    /\ events \in EventFeeds \cup {<<>>}
    /\ i \in 1..(Len(events) + 1)
    /\ \A k \in DOMAIN result : FromFeed(result[k])
    /\ \A k \in DOMAIN logged : logged[k] \in ToSet(events)

\* The batch as a function of its events: each event's alert, in order,
\* for the events whose normalisation does not raise.
RECURSIVE Normalized(_, _)
Normalized(es, all) ==
    IF es = <<>> THEN <<>>
    ELSE LET r == PollAlert(Head(es), all)
         IN (IF r.ok THEN <<r.val>> ELSE <<>>) \o Normalized(Tail(es), all)

\* Spec 4.1 step 9 and 8: one bad event never aborts the batch.  When
\* _get_alerts returns, it holds the alert of every event that normalises,
\* in the order of the events, and every other event was logged.
BatchContinuesPastFailures ==
    pc = "returned" =>
        /\ result = Normalized(events, monitors)
        /\ logged = SelectSeq(events, LAMBDA e : ~PollAlert(e, monitors).ok)

\* Spec 4.1 steps 2, 5 and 8: an event is skipped only for a title that
\* does not split or a missing date; an event whose monitor cannot be
\* resolved is still normalised, with created_by null.
OnlyMalformedSkipped ==
    pc = "returned" =>
        Len(result) = Len(SelectSeq(events,
                              LAMBDA e : TitleSplits(e.title) /\ e.dated))

=============================================================================
