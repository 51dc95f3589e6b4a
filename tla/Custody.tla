------------------------------ MODULE Custody ------------------------------
(***************************************************************************)
(* The custody receipts of one vault and the redemption requests that       *)
(* release the items behind them.  The operators are the operations of the  *)
(* custody port; the use cases that call them are in Pawn.                  *)
(***************************************************************************)
EXTENDS Identifiers, Sums

CONSTANTS IntakeBorrower,   \* who each intake was taken from
          AppraisedValue,   \* the last appraisal of each intake
          InsuredLimit      \* the vault's insured limit

ASSUME CustodyAssumption ==
    /\ IntakeBorrower \in [Receipts -> Accounts]
    /\ AppraisedValue \in [Receipts -> Nat]
    /\ InsuredLimit \in Nat

VARIABLES receipts, redemptions

custodyVars == <<receipts, redemptions>>

Receipt == [status : {"IN_VAULT", "ENCUMBERED", "RELEASED", "LIQUIDATED"},
            holder : Accounts,
            loan   : Loans \cup {NoLoan}]

(* A receipt is burned when its redemption is requested and never comes     *)
(* back, so the receipt's identifier is the request's too.                  *)
Redemption == [status : {"REQUESTED", "VERIFIED", "RELEASED"},
               requestedBy : Accounts]

CustodyTypeOK ==
    /\ IsTable(receipts, Receipts, Receipt)
    /\ IsTable(redemptions, Receipts, Redemption)

CustodyInit ==
    /\ receipts = EmptyTable
    /\ redemptions = EmptyTable

InVault(r) == r \in DOMAIN receipts /\ receipts[r].status = "IN_VAULT"

(* The database of the code reads the exposure from the live receipts.      *)
Exposure ==
    SumOver({r \in DOMAIN receipts : receipts[r].status \in {"IN_VAULT", "ENCUMBERED"}},
            AppraisedValue)

IssueReceipt(r) ==
    /\ r \notin DOMAIN receipts
    /\ Exposure + AppraisedValue[r] <= InsuredLimit
    /\ receipts' = Insert(receipts, r, [status |-> "IN_VAULT",
                                        holder |-> IntakeBorrower[r],
                                        loan   |-> NoLoan])
    /\ UNCHANGED redemptions

EncumberReceipt(r, l) ==
    /\ InVault(r)
    /\ receipts' = [receipts EXCEPT ![r].status = "ENCUMBERED", ![r].loan = l]

(* Which loan asks is not compared with the loan that encumbers the receipt. *)
ReleaseEncumbrance(r) ==
    /\ receipts[r].status = "ENCUMBERED"
    /\ receipts' = [receipts EXCEPT ![r].status = "IN_VAULT", ![r].loan = NoLoan]

(* Variant: whatever the receipt has become, the claimant gets it.          *)
ClaimAnyReceipt(r, claimant) ==
    receipts' = [receipts EXCEPT ![r] = [status |-> "IN_VAULT",
                                         holder |-> claimant,
                                         loan   |-> NoLoan]]

(* Variant: the receipt stays encumbered by the loan that defaulted.        *)
ClaimStillEncumbered(r, claimant) ==
    /\ receipts[r].status = "ENCUMBERED"
    /\ receipts' = [receipts EXCEPT ![r].holder = claimant]

ClaimDefault(r, claimant) ==
    /\ receipts[r].status = "ENCUMBERED"
    /\ receipts' = [receipts EXCEPT ![r] = [status |-> "IN_VAULT",
                                            holder |-> claimant,
                                            loan   |-> NoLoan]]

BurnForLiquidation(r) ==
    /\ receipts[r].status \in {"IN_VAULT", "ENCUMBERED"}
    /\ receipts' = [receipts EXCEPT ![r].status = "LIQUIDATED", ![r].loan = NoLoan]

(* Variant: a receipt is redeemed although a loan encumbers it.             *)
BurnThoughEncumbered(r) ==
    /\ receipts[r].status \in {"IN_VAULT", "ENCUMBERED"}
    /\ receipts' = [receipts EXCEPT ![r].status = "RELEASED", ![r].loan = NoLoan]

BurnForRedemption(r) ==
    /\ InVault(r)
    /\ receipts' = [receipts EXCEPT ![r].status = "RELEASED"]

(* The redemption flow: burn at request, verify, hand over.                 *)
RequestRedemption(r, caller) ==
    /\ r \in DOMAIN receipts
    /\ receipts[r].holder = caller
    /\ BurnForRedemption(r)
    /\ redemptions' = Insert(redemptions, r, [status |-> "REQUESTED",
                                              requestedBy |-> caller])

VerifyRedemption(r) ==
    /\ r \in DOMAIN redemptions
    /\ redemptions[r].status = "REQUESTED"
    /\ redemptions' = [redemptions EXCEPT ![r].status = "VERIFIED"]
    /\ UNCHANGED receipts

ConfirmRelease(r) ==
    /\ r \in DOMAIN redemptions
    /\ redemptions[r].status = "VERIFIED"
    /\ redemptions' = [redemptions EXCEPT ![r].status = "RELEASED"]
    /\ UNCHANGED receipts
=============================================================================
