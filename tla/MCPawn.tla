------------------------------ MODULE MCPawn ------------------------------
(***************************************************************************)
(* Small instances of the pawn market.  Money is in units, a whole is 10    *)
(* "basis points", a year is 2 ticks.                                       *)
(***************************************************************************)
EXTENDS Reconciliation, TLC

CONSTANTS ann, ben   \* accounts

(* Every item came from ann, and is worth the same.                         *)
MCIntakeBorrower == [r \in Receipts |-> ann]
MCAppraisedValue == [r \in Receipts |-> 6]

(* Parameter versions: loan-to-value 60% of 6 is 3 (truncated), 90% is 5.   *)
Usual == [maxRate |-> 5, loanToValue |-> 9, minimumOfferLifetime |-> 1,
          originationFee |-> 4, liquidationFee |-> 5,
          gracePeriod |-> 0, holdingPeriod |-> 0]

Tight == [Usual EXCEPT !.loanToValue = 6, !.gracePeriod = 1, !.holdingPeriod = 1,
                       !.liquidationFee = 0]

Free == [Usual EXCEPT !.originationFee = 0]

UsualOnly == {Usual}
UsualOrTight == {Usual, Tight}
UsualOrFree == {Usual, Free}

(* 50% a year on 4 for one tick is 1.                                       *)
OneTerm == {[principal |-> 4, rate |-> 5, duration |-> 1]}

Immediate == {0}
ImmediateOrLapsed == {-1, 0}
SameDayOrNext == {0, 1}

(* Rows are told apart by nothing but their identifiers.                    *)
Identical ==
    {i @@ o @@ l @@ b : i \in Permutations(Listings), o \in Permutations(Offers),
                        l \in Permutations(Loans), b \in Permutations(Bids)}
=============================================================================
