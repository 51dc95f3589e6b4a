-------------------------------- MODULE Sums --------------------------------
(***************************************************************************)
(* What the code adds up with a loop or with SUM: the values of a set of     *)
(* accounts, of holds, of receipts.                                          *)
(***************************************************************************)
EXTENDS Integers, FiniteSetsExt

SumOver(S, value) == MapThenSumSet(LAMBDA x : value[x], S)
=============================================================================
