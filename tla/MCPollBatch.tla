---------------------------- MODULE MCPollBatch ----------------------------
(***************************************************************************)
(* Model-checking instance of PollBatch: listings of up to two monitors    *)
(* (plain, with a downtime on groups <<g1, g2>>, with a downtime on "*")   *)
(* and feeds of up to two events whose title splits or not, that are       *)
(* dated or not, of monitor 1 or 2, with groups in either order or none.   *)
(***************************************************************************)
EXTENDS PollBatch, TLC

CONSTANTS g1, g2, ops

MonitorChoices ==
    {[creator |-> None, downtimes |-> {}],
     [creator |-> ops,
      downtimes |-> {[groups |-> <<g1, g2>>, scope |-> <<g1, g2>>]}],
     [creator |-> ops,
      downtimes |-> {[groups |-> <<>>, scope |-> <<Wildcard>>]}]}

MCMonitorListings ==
    UNION {[D -> MonitorChoices] : D \in SUBSET {1, 2}}

EventChoices ==
    [title: {[parts |-> p, sev |-> Word("P2", 1, 1),
              status |-> Word("Triggered", 1, 1), text |-> "disk"] :
             p \in {2, 3}},
     tags: {<<<<"env", "prod">>, <<"team">>>>},
     dated: BOOLEAN,
     monitor_id: {1, 2},
     groups: {<<>>, <<g1, g2>>, <<g2, g1>>}]

MCEventFeeds == BoundedSeq(EventChoices, 2)

=============================================================================
