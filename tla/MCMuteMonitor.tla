---------------------------- MODULE MCMuteMonitor ----------------------------
EXTENDS MuteMonitor

CONSTANTS g1, g2

\* [], ["*"], one group and two groups.
MCGroupLists == {<<>>, <<Wildcard>>, <<g1>>, <<g1, g2>>}

=============================================================================
