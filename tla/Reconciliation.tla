--------------------------- MODULE Reconciliation ---------------------------
(***************************************************************************)
(* What an administrator reads of the market: the drift between a physical  *)
(* count of the vault and the records, the sums of the ledger, and the loan *)
(* book.  Nothing here changes the market.                                  *)
(***************************************************************************)
EXTENDS Pawn

(* Variant: an item that secures a loan is not counted on.                  *)
InVaultOnly == {r \in DOMAIN receipts : receipts[r].status = "IN_VAULT"}

RecordedInventory == {r \in DOMAIN receipts : receipts[r].status \in {"IN_VAULT", "ENCUMBERED"}}

InventoryDrift(counted) ==
    [missingFromCount   |-> RecordedInventory \ counted,
     missingFromRecords |-> counted \ RecordedInventory]

(* Every transaction of the ledger is written balanced, so that the sum over *)
(* all of them is what is left to compare.                                   *)
LedgerDrift == SumOver(Owners, available) + SumOver(Accounts, held)

Outstanding == {l \in DOMAIN loans : loans[l].status = "ACTIVE"}

(* The items whose release has not been confirmed.  A buyer's collection of  *)
(* a sold item is recorded nowhere: it may have gone or not.                 *)
AtHand == {r \in DOMAIN receipts : ~(r \in DOMAIN redemptions /\ redemptions[r].status = "RELEASED")}

HonestCounts ==
    {counted \in SUBSET AtHand :
        \A r \in AtHand : receipts[r].status # "LIQUIDATED" => r \in counted}

-----------------------------------------------------------------------------
(* "Drift is an incident": an honest count of the vault never misses an item *)
(* that the records have, it finds every item that secures a loan to be paid *)
(* off by a borrower who never defaulted, and what it has over the records   *)
(* is exactly the items on their way out, redeemed but not yet handed over,  *)
(* or sold.                                                                 *)
HonestCountExplained ==
    \A counted \in HonestCounts :
        LET drift == InventoryDrift(counted) IN
        /\ drift.missingFromCount = {}
        /\ \A l \in Outstanding : NeverDefaulted(loans[l].receipt) => loans[l].receipt \in counted
        /\ \A r \in drift.missingFromRecords :
              \/ receipts[r].status = "LIQUIDATED"
              \/ r \in DOMAIN redemptions /\ redemptions[r].status \in {"REQUESTED", "VERIFIED"}
        /\ LedgerDrift = 0
=============================================================================
