---------------------------- MODULE Identifiers ----------------------------
(***************************************************************************)
(* The identifier sets every component shares (domain/shared/identifiers),  *)
(* and the reading of a database table as a function from the identifiers   *)
(* of its rows to the rows.                                                 *)
(***************************************************************************)
EXTENDS Integers, FiniteSets

CONSTANTS Accounts,   \* member accounts: any of them may borrow, lend or bid
          Receipts,   \* sealed intakes, each good for at most one receipt
          Listings, Offers, Loans, Bids,
          NoLoan      \* encumberedByLoanId of a receipt no loan encumbers

(* The accounts the platform itself owns (domain/ledger/platform-accounts). *)
Platform == {"float", "feeRevenue", "rounding"}

Owners == Accounts \cup Platform

(* Every offer and every bid has a funds hold of its own, created in the    *)
(* transaction that creates it, so the hold goes by the same identifier.    *)
Holds == Offers \cup Bids

ASSUME IdentifierAssumption ==
    /\ NoLoan \notin Loans
    /\ Accounts \cap Platform = {}
    /\ Offers \cap Bids = {}
    /\ Accounts # {}
    /\ IsFiniteSet(Accounts)

(* A table whose rows are of the given shape: a row exists exactly when its *)
(* identifier is in the function's domain.                                  *)
IsTable(table, Keys, Row) ==
    /\ DOMAIN table \subseteq Keys
    /\ table \in [DOMAIN table -> Row]

EmptyTable == [key \in {} |-> {}]

Insert(table, key, row) ==
    [k \in DOMAIN table \cup {key} |-> IF k = key THEN row ELSE table[k]]
=============================================================================
