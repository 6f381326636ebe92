---------------------------- MODULE MCQueryWindow ----------------------------
EXTENDS QueryWindow

\* "1m" and "1s".  A metrics query over "1h" asks for 3600 * 1000 seconds,
\* whose milliseconds exceed TLC's 32-bit integers.
MCTimeframes == {[count |-> 1, unit |-> "m"], [count |-> 1, unit |-> "s"]}

=============================================================================
