----------------------------- MODULE MuteMonitor -----------------------------
(***************************************************************************)
(* DatadogProvider.mute_monitor (lines 174-226) and unmute_monitor (lines  *)
(* 228-271), the two provider actions of PROVIDER_METHODS, against the     *)
(* vendor's silences of a monitor.                                         *)
(*                                                                         *)
(* Time is whole hours since the module was imported (the process start). *)
(* A list of groups is a sequence of model values; ",".join(groups) is     *)
(* the sequence itself (a group holds no ','), so the scope string "" is   *)
(* <<>> and "*" is <<Wildcard>>.  The vendor keeps, per monitor, one       *)
(* silence per scope string with its end; mute sets the silence of its     *)
(* scope, unmute removes the silence of its scope ("" being the whole      *)
(* monitor).  That is the vendor's contract as this model assumes it, not  *)
(* code of this repository.                                                *)
(***************************************************************************)
EXTENDS Integers, TLC

CONSTANTS
    None,
    Monitors,
    Wildcard,     \* the group "*"
    GroupLists,   \* groups arguments callers pass
    Ends,         \* hours callers pass as end
    Day,          \* hours in datetime.timedelta(days=1)
    MaxClock

VARIABLES
    clock,     \* datetime.datetime.now(), in hours since import
    silenced,  \* monitor -> set of [scope, end] the vendor holds
    lastCall   \* monitor -> None or the last mute/unmute call made on it

vars == <<clock, silenced, lastCall>>

\* The end argument: the default, a datetime, or an ISO string.
EndArgs ==
    {[kind |-> "default"]}
    \cup {[kind |-> kd, at |-> e] : kd \in {"datetime", "iso"}, e \in Ends}

\* Line 178: the default is evaluated once, when the def statement runs
\* at import (hour 0), not at each call.
ImportTime == 0

DefaultEnd == ImportTime + Day

Join(groups) == groups

\* Lines 184-186: ",".join(groups), and "*" becomes "" (all scopes).
MuteScope(groups) ==
    IF Join(groups) = <<Wildcard>> THEN <<>> ELSE Join(groups)

\* Line 236: ",".join(groups) and nothing more.
UnmuteScope(groups) == Join(groups)

\* Mutant: line 222 sending milliseconds, int(end.timestamp()) * 1000.
ResolveEndMillis(arg) ==
    1000 * (CASE arg.kind = "default" -> DefaultEnd
              [] OTHER -> arg.at)

\* Lines 178-182 and int(end.timestamp()) on line 222.
ResolveEnd(arg) ==
    CASE arg.kind = "default" -> DefaultEnd
      [] OTHER -> arg.at

\* Lines 174-226: one POST /mute with scope and end; a vendor error
\* propagates and changes nothing.
Mute(m, groups, arg) ==
    LET scope == MuteScope(groups)
        end   == ResolveEnd(arg)
    IN
    /\ silenced' = [silenced EXCEPT ![m] =
                      {x \in @ : x.scope # scope}
                      \cup {[scope |-> scope, end |-> end]}]
    /\ lastCall' = [lastCall EXCEPT ![m] =
                      [op |-> "mute", groups |-> groups, at |-> clock,
                       end |-> end, default |-> arg.kind = "default"]]
    /\ UNCHANGED clock

\* Lines 228-271: one POST /unmute with scope.
Unmute(m, groups) ==
    LET scope == UnmuteScope(groups) IN
    /\ silenced' = [silenced EXCEPT ![m] = {x \in @ : x.scope # scope}]
    /\ lastCall' = [lastCall EXCEPT ![m] =
                      [op |-> "unmute", groups |-> groups, at |-> clock]]
    /\ UNCHANGED clock

Tick ==
    /\ clock < MaxClock
    /\ clock' = clock + 1
    /\ UNCHANGED <<silenced, lastCall>>

Init ==
    /\ clock = 0
    /\ silenced = [m \in Monitors |-> {}]
    /\ lastCall = [m \in Monitors |-> None]

Next ==
    \/ \E m \in Monitors, g \in GroupLists, a \in EndArgs : Mute(m, g, a)
    \/ \E m \in Monitors, g \in GroupLists : Unmute(m, g)
    \/ Tick

Spec == Init /\ [][Next]_vars

-----------------------------------------------------------------------------
(* Properties                                                              *)

TypeOK ==
    /\ clock \in 0..MaxClock
    /\ \A m \in Monitors :
         \A x \in silenced[m] : /\ x.scope \in GroupLists
                               /\ x.end \in Ends \cup {DefaultEnd}

\* The signature's intent, "now + one day": a mute with the default end
\* silences the monitor for some time after the call is made.
DefaultMuteInFuture ==
    \A m \in Monitors :
        (lastCall[m] # None /\ lastCall[m].op = "mute" /\ lastCall[m].default)
            => lastCall[m].end > lastCall[m].at

=============================================================================
