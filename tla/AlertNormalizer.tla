--------------------------- MODULE AlertNormalizer ---------------------------
(***************************************************************************)
(* The two normalisations of DatadogProvider, as pure operators:           *)
(*   PollAlert   one iteration of the loop of _get_alerts (lines 472-517)  *)
(*   FormatAlert format_alert, the webhook entry point (lines 631-666)     *)
(* and the pieces they share.  Each returns Ok(alert) or Raised, the       *)
(* latter standing for any exception the Python code throws.              *)
(*                                                                         *)
(* Data abstraction.  A title word such as "[P1]" is a record of its core  *)
(* and of how many '[' lead it and ']' end it.  A tag such as "env:prod"   *)
(* is the sequence of its ':'-separated pieces, <<"env", "prod">>; the     *)
(* value of a key is the sequence of the pieces after the first one.  A    *)
(* monitor group such as "host:a" is a model value (it holds no ',').      *)
(***************************************************************************)
EXTENDS Naturals, Sequences, SequencesExt

CONSTANTS
    None,      \* Python None
    Wildcard   \* the group "*"

Raised == [ok |-> FALSE]
Ok(v)  == [ok |-> TRUE, val |-> v]

-----------------------------------------------------------------------------
(* Titles and severities                                                   *)

Word(core, o, c) == [core |-> core, open |-> o, close |-> c]

\* A word as the payload's "severity" field carries it: "P1", no brackets.
Bare(core) == Word(core, 0, 0)

\* tok.lstrip("[").rstrip("]")
Strip(tok) == [tok EXCEPT !.open = 0, !.close = 0]

PriorityName == ("P1" :> "critical") @@ ("P2" :> "high")
                @@ ("P3" :> "medium") @@ ("P4" :> "low")

\* __get_parsed_severity (lines 441-450): an exact string comparison, so
\* a word that still carries a bracket maps to None, as does P5.
GetParsedSeverity(w) ==
    IF w.open = 0 /\ w.close = 0 /\ w.core \in DOMAIN PriorityName
    THEN PriorityName[w.core]
    ELSE None

\* title.split(" ", 2) unpacked into three names raises unless the title
\* has at least three space-separated parts.  A title is a record
\* [parts, sev, status, text]: parts is the number of parts the split
\* yields (at most 3), text the third part.
TitleSplits(t) == t.parts = 3

-----------------------------------------------------------------------------
(* Tags                                                                    *)

Marker == <<"monitor">>

\* {k: v for k, v in pairs}: the value of a key is that of its last pair.
TagDict(pairs) ==
    [k \in {pairs[i][1] : i \in DOMAIN pairs} |->
        Tail(pairs[SelectLastInSeq(pairs, LAMBDA p : p[1] = k)])]

\* Lines 474-480: tags without ':' are dropped, the others split at the
\* first ':' only.
PollTags(tags) == TagDict(SelectSeq(tags, LAMBDA g : Len(g) > 1))

\* Lines 632-634: the comma-separated list loses its first "monitor"
\* (list.remove raises ValueError when there is none) and every other tag
\* is split at every ':', which must give exactly a key and a value.
WebhookTags(tags) ==
    IF ~Contains(tags, Marker) THEN Raised
    ELSE LET rest == RemoveFirst(tags, Marker)
         IN IF \E i \in DOMAIN rest : Len(rest[i]) # 2
            THEN Raised
            ELSE Ok(TagDict(rest))

-----------------------------------------------------------------------------
(* Muting and fingerprint                                                  *)

\* Lines 490-497: some matching downtime has exactly the event's groups,
\* compared as lists, or the scope ["*"].
IsMuted(monitor, groups) ==
    \E d \in monitor.downtimes :
        d.groups = groups \/ d.scope = <<Wildcard>>

\* FINGERPRINT_FIELDS (line 138).
FingerprintFields == <<"groups", "monitor_id">>

\* BaseProvider.get_alert_fingerprint: the host combines the values of the
\* fields, in their order; any injective combination stands for it.
GetAlertFingerprint(a) ==
    [i \in DOMAIN FingerprintFields |-> a[FingerprintFields[i]]]

WithFingerprint(a) == a @@ [fingerprint |-> GetAlertFingerprint(a)]

-----------------------------------------------------------------------------
(* The two entry points                                                    *)

\* Lines 473-517, the body of the try for one polled event e, with the
\* monitors of list_monitors(with_downtimes=True) as a function from id.
\* Splitting the title, fromtimestamp(None) and, for a monitor missing
\* from the listing, None.matching_downtimes all raise.  The int
\* event.monitor_id (line 505) is stored by AlertDto, whose monitor_id is
\* a str (spec 3), as its decimal string.
PollAlert(e, allMonitors) ==
    IF ~TitleSplits(e.title) \/ ~e.dated
       \/ e.monitor_id \notin DOMAIN allMonitors
    THEN Raised
    ELSE LET monitor == allMonitors[e.monitor_id] IN
         Ok(WithFingerprint(
            [name       |-> e.title.text,
             status     |-> IF IsMuted(monitor, e.groups)
                            THEN Bare("Muted") ELSE Strip(e.title.status),
             severity   |-> GetParsedSeverity(Strip(e.title.sev)),
             monitor_id |-> ToString(e.monitor_id),
             groups     |-> e.groups,
             tags       |-> PollTags(e.tags),
             created_by |-> monitor.creator]))

\* Mutant: line 657 ignoring the payload's "severity" field.
FormatAlertTitleSeverity(p) ==
    LET tags == WebhookTags(p.tags) IN
    IF ~tags.ok \/ ~p.dated \/ ~TitleSplits(p.title) THEN Raised
    ELSE Ok(WithFingerprint(
            [name       |-> p.title.text,
             status     |-> Strip(p.title.status),
             severity   |-> GetParsedSeverity(p.title.sev),
             monitor_id |-> p.monitor_id,
             groups     |-> IF p.scopes = <<>> THEN <<Wildcard>>
                            ELSE p.scopes,
             tags       |-> tags.val,
             created_by |-> None]))

\* Mutant: line 651 without the lstrip("[").rstrip("]") of the status.
FormatAlertRawStatus(p) ==
    LET tags == WebhookTags(p.tags) IN
    IF ~tags.ok \/ ~p.dated \/ ~TitleSplits(p.title) THEN Raised
    ELSE Ok(WithFingerprint(
            [name       |-> p.title.text,
             status     |-> p.title.status,
             severity   |-> GetParsedSeverity(
                               IF p.severity = None THEN p.title.sev
                               ELSE p.severity),
             monitor_id |-> p.monitor_id,
             groups     |-> IF p.scopes = <<>> THEN <<Wildcard>>
                            ELSE p.scopes,
             tags       |-> tags.val,
             created_by |-> None]))

\* Lines 631-666 for a payload p.  p.severity is None when the payload
\* has no "severity" field; then the title's first word is used as it
\* stands, brackets included.  p.scopes is the list "$ALERT_SCOPE" holds,
\* empty for the empty string.
FormatAlert(p) ==
    LET tags == WebhookTags(p.tags) IN
    IF ~tags.ok \/ ~p.dated \/ ~TitleSplits(p.title) THEN Raised
    ELSE Ok(WithFingerprint(
            [name       |-> p.title.text,
             status     |-> Strip(p.title.status),
             severity   |-> GetParsedSeverity(
                               IF p.severity = None THEN p.title.sev
                               ELSE p.severity),
             monitor_id |-> p.monitor_id,
             groups     |-> IF p.scopes = <<>> THEN <<Wildcard>>
                            ELSE p.scopes,
             tags       |-> tags.val,
             created_by |-> None]))

=============================================================================
