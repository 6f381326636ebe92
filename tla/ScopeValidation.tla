--------------------------- MODULE ScopeValidation ---------------------------
(***************************************************************************)
(* What validate_scopes promises (spec 4.3), as one atomic step: once      *)
(* called, it either returns the full result set, every declared scope     *)
(* mapped to granted or to a denial with its reason, or it raises and      *)
(* returns nothing.  A denial of one scope never cuts the others short.    *)
(***************************************************************************)
CONSTANTS
    ScopeNames,  \* the scopes of PROVIDER_SCOPES
    Verdicts,    \* granted, or denied with a reason
    None

VARIABLES
    phase,   \* "idle", "running", "returned" or "raised"
    result   \* None until validate_scopes returns

vars == <<phase, result>>

Init ==
    /\ phase = "idle"
    /\ result = None

Call ==
    /\ phase = "idle"
    /\ phase' = "running"
    /\ UNCHANGED result

Finish ==
    /\ phase = "running"
    /\ phase' = "returned"
    /\ result' \in [ScopeNames -> Verdicts]

Raise ==
    /\ phase = "running"
    /\ phase' = "raised"
    /\ UNCHANGED result

Next == Call \/ Finish \/ Raise

Spec == Init /\ [][Next]_vars

=============================================================================
