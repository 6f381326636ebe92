--------------------------- MODULE MCScopeValidator ---------------------------
EXTENDS ScopeValidator

\* "1h", as validate_scopes passes it, and "1m".
MCTimeframes == {[count |-> 1, unit |-> "h"], [count |-> 1, unit |-> "m"]}

=============================================================================
