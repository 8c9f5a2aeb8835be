----------------------------- MODULE Arithmetic -----------------------------
(***************************************************************************)
(* Helpers shared by the modules: clamping, and the first of an ordered    *)
(* list of checks that refuses.                                            *)
(***************************************************************************)
EXTENDS Integers, Sequences

Least(a, b) == IF a < b THEN a ELSE b
Greatest(a, b) == IF a < b THEN b ELSE a
Distance(a, b) == Greatest(a, b) - Least(a, b)

Check(holds, answer) == [holds |-> holds, answer |-> answer]

\* The answer of the first check that fails; "Ok" when all hold.
FirstRefusal(checks) ==
    LET failing == {i \in DOMAIN checks : ~checks[i].holds}
    IN  IF failing = {} THEN "Ok"
        ELSE checks[CHOOSE i \in failing : \A j \in failing : i <= j].answer

=============================================================================
