----------------------------- MODULE QueryWindow -----------------------------
(***************************************************************************)
(* The per-instance query window of DatadogProvider: the fields self.to    *)
(* and self._from, which __init__ sets to None (lines 170-172), _query     *)
(* overwrites on every call (lines 397-423) and expose() reports in        *)
(* milliseconds (lines 391-395).                                           *)
(*                                                                         *)
(* Time is whole seconds.  _query reads time.time() several times; the     *)
(* first read gives self.to, the later ones may be one second later.       *)
(* A timeframe such as "1h" is the record [count |-> 1, unit |-> "h"].     *)
(* ghost "sent" is the window the last vendor request asked for, None      *)
(* when the last _query sent none.                                         *)
(***************************************************************************)
EXTENDS Integers

CONSTANTS
    None,
    QueryTypes,   \* query_type values callers pass, e.g. {"logs", "metrics"}
    Timeframes,   \* timeframe values callers pass
    MaxClock      \* the last second the model lets the clock reach

VARIABLES
    clock,    \* time.time(), truncated
    to,       \* self.to
    from,     \* self._from
    sent,     \* the [from, to] of the last list_logs or query_metrics
    exposed   \* what expose() returned since the last _query, if called

windowVars == <<to, from, sent>>

Raised == [ok |-> FALSE]
Ok(v)  == [ok |-> TRUE, val |-> v]

\* convert_to_seconds (lines 159-161): int(s[:-1]) * seconds_per_unit[s[-1]].
SecondsPerUnit == [s |-> 1, m |-> 60, h |-> 3600, d |-> 86400, w |-> 604800]

ConvertToSeconds(tf) == tf.count * SecondsPerUnit[tf.unit]

Window(f, t) == [from |-> f, to |-> t]

\* The later reads of time.time() within one call: the clock may pass
\* one second while the call runs.
Later == {clock} \cup IF clock < MaxClock THEN {clock + 1} ELSE {}

\* _query (lines 397-423) up to the vendor request, for a clock whose
\* later reads give "later".  The window is written before the request is
\* made, so it stays written whether or not the request raises.  Logs are
\* queried over the window itself; metrics over timeframe_in_seconds * 1000
\* seconds (line 420) up to a fresh read; any other query_type makes no
\* request and "return results" raises UnboundLocalError.
Query(type, tf, later) ==
    LET secs == ConvertToSeconds(tf) IN
    /\ clock' = later
    /\ to' = clock
    /\ from' = later - secs
    /\ sent' = CASE type = "logs"    -> Window(later - secs, clock)
                 [] type = "metrics" -> Window(later - secs * 1000, later)
                 [] OTHER            -> None

\* expose() (lines 391-395): None.timestamp() raises before any _query.
Expose ==
    exposed' = IF to = None THEN Raised
               ELSE Ok(Window(from * 1000, to * 1000))

Tick ==
    /\ clock < MaxClock
    /\ clock' = clock + 1
    /\ UNCHANGED <<windowVars, exposed>>

-----------------------------------------------------------------------------
(* A caller of the instance: _query and expose() in any order.            *)

Init ==
    /\ clock = 0
    /\ to = None /\ from = None
    /\ sent = None
    /\ exposed = None

CallQuery ==
    \E type \in QueryTypes, tf \in Timeframes, later \in Later :
        Query(type, tf, later) /\ exposed' = None

CallExpose == Expose /\ UNCHANGED <<clock, windowVars>>

Next == CallQuery \/ CallExpose \/ Tick

Spec == Init /\ [][Next]_<<clock, windowVars, exposed>>

-----------------------------------------------------------------------------
(* Properties                                                              *)

\* Spec 5: "to"/"from" are "the request-window fields used for time-bounded
\* queries", so expose() reports the window the last vendor query of the
\* instance was made over (lines 391-395 against lines 408-422).
QueriedWindowIsExposed ==
    (exposed # None /\ exposed.ok /\ sent # None) =>
        exposed.val = Window(sent.from * 1000, sent.to * 1000)

=============================================================================
