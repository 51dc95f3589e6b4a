------------------------------ MODULE MCIntake ------------------------------
(***************************************************************************)
(* Two workers on two intakes of a vault insured for less than both.        *)
(***************************************************************************)
EXTENDS Intake, TLC

Identical == {w @@ i @@ a : w \in Permutations(Workers), i \in Permutations(Intakes),
                            a \in Permutations(Appraisers)}
=============================================================================
