------------------------------ MODULE Lending ------------------------------
(***************************************************************************)
(* The Loan aggregate: origination, the interest it accrues up to maturity, *)
(* and the three ways it ends.  A lender note has no operation that moves   *)
(* it, so the loan carries its note's holder.                               *)
(***************************************************************************)
EXTENDS Operations

VARIABLE loans

NotDefaulted == -1   \* a null defaultedAt

Loan == [status         : {"ACTIVE", "REPAID", "DEFAULTED", "LIQUIDATED"},
         receipt        : Receipts,
         borrower       : Accounts,
         noteHolder     : Accounts,
         principal      : Nat \ {0},
         rate           : Nat,
         startedAt      : Int,
         maturesAt      : Int,
         graceEndsAt    : Int,
         liquidationFee : 0..BasisPoints,
         defaultedAt    : Int]

(* The checks of the Loan constructor.                                      *)
WellFormedLoan(l) ==
    /\ loans[l].maturesAt > loans[l].startedAt
    /\ loans[l].graceEndsAt >= loans[l].maturesAt
    /\ loans[l].status \in {"DEFAULTED", "LIQUIDATED"}
         <=> loans[l].defaultedAt # NotDefaulted

LendingTypeOK ==
    /\ IsTable(loans, Loans, Loan)
    /\ \A l \in DOMAIN loans : WellFormedLoan(l)

LendingInit == loans = EmptyTable

-----------------------------------------------------------------------------
(* Interest stops at maturity.                                              *)
Elapsed(l, t) ==
    IF t < loans[l].startedAt THEN 0
    ELSE IF t > loans[l].maturesAt THEN loans[l].maturesAt - loans[l].startedAt
    ELSE t - loans[l].startedAt

(* The quotient truncates, in the borrower's favour.                        *)
AccruedInterest(l, t) ==
    (loans[l].principal * loans[l].rate * Elapsed(l, t)) \div (BasisPoints * Year)

AmountDue(l, t) == loans[l].principal + AccruedInterest(l, t)

-----------------------------------------------------------------------------
(* The grace period and the liquidation fee are pinned here.                *)
Originate(l, r, borrower, lender, terms) ==
    /\ l \notin DOMAIN loans
    /\ loans' = Insert(loans, l,
          [status         |-> "ACTIVE",
           receipt        |-> r,
           borrower       |-> borrower,
           noteHolder     |-> lender,
           principal      |-> terms.principal,
           rate           |-> terms.rate,
           startedAt      |-> now,
           maturesAt      |-> now + terms.duration,
           graceEndsAt    |-> now + terms.duration + params.gracePeriod,
           liquidationFee |-> params.liquidationFee,
           defaultedAt    |-> NotDefaulted])

(* Variant: a loan in default may still be repaid.                          *)
RecordLateRepayment(l) ==
    /\ loans[l].status \in {"ACTIVE", "DEFAULTED"}
    /\ loans' = [loans EXCEPT ![l].status = "REPAID", ![l].defaultedAt = NotDefaulted]

RecordRepayment(l) ==
    /\ loans[l].status = "ACTIVE"
    /\ loans' = [loans EXCEPT ![l].status = "REPAID"]

GraceOver(l) == now > loans[l].graceEndsAt

MarkDefaulted(l) ==
    /\ loans[l].status = "ACTIVE"
    /\ GraceOver(l)
    /\ loans' = [loans EXCEPT ![l].status = "DEFAULTED", ![l].defaultedAt = now]

(* Variant: the instant of the default is lost.                             *)
MarkLiquidatedUndated(l) ==
    /\ loans[l].status = "DEFAULTED"
    /\ loans' = [loans EXCEPT ![l].status = "LIQUIDATED",
                              ![l].defaultedAt = NotDefaulted]

MarkLiquidated(l) ==
    /\ loans[l].status = "DEFAULTED"
    /\ loans' = [loans EXCEPT ![l].status = "LIQUIDATED"]
=============================================================================
