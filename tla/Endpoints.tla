------------------------------ MODULE Endpoints ------------------------------
(***************************************************************************)
(* The HTTP surface of the API, one table for the routes of each controller *)
(* and each client module.  A route is named by the client function that    *)
(* calls it.  Of a write the tables say who may ask, whether the            *)
(* idempotency interceptor stands before it, whether a repeat of the same   *)
(* request would do its work again, and which data change; of a read, who   *)
(* may ask and which data it answers from.                                  *)
(***************************************************************************)
EXTENDS TLC

Everyone == "everyone"     \* a route marked Public
Member == "member"         \* any account with a session
Staff == "VAULT_STAFF"
Operator == "OPERATIONS"

(* The interceptor stands before the route; the use case refuses, or merely *)
(* confirms, what has been done already.  Nearly every write adds an entry  *)
(* to the audit log.                                                        *)
Write(who, data) ==
    [who |-> who, keyed |-> TRUE, repeatable |-> FALSE,
     writes |-> data \cup {"audit"}]

(* The interceptor stands before the route and is all that keeps a repeat   *)
(* from doing the work again.                                               *)
Repeatable(who, data) ==
    [who |-> who, keyed |-> TRUE, repeatable |-> TRUE,
     writes |-> data \cup {"audit"}]

(* No interceptor: a repeat does the work again.                            *)
Unkeyed(who, data) ==
    [who |-> who, keyed |-> FALSE, repeatable |-> TRUE, writes |-> data]

Read(who, data) == [who |-> who, reads |-> data]

-----------------------------------------------------------------------------
(* listings.  A member's own offers change by what the member does; those on *)
(* a listing, also by what its borrower does.                               *)
ListingWrites ==
    [createListing  |-> Write(Member, {"listings"}),
     publishListing |-> Write(Member, {"listings"}),
     cancelListing  |-> Write(Member, {"listings", "offers"}),
     placeOffer     |-> Repeatable(Member, {"offers", "ownOffers", "money"}),
     withdrawOffer  |-> Write(Member, {"offers", "ownOffers", "money"})]

ListingReads ==
    [browseListings |-> Read(Everyone, {"listings", "receipts", "clock"}),
     fetchListing   |-> Read(Everyone, {"listings", "offers", "receipts"})]

(* me/listings, me/offers: a reclaim settles the hold and leaves the offer.  *)
MemberWrites == [reclaimOffer |-> Write(Member, {"money"})]

MemberReads ==
    [fetchMyListings |-> Read(Member, {"listings"}),
     fetchMyOffers   |-> Read(Member, {"ownOffers"})]

(* loans                                                                    *)
LendingWrites ==
    [acceptOffer       |-> Write(Member, {"listings", "offers", "loans", "receipts",
                                          "money"}),
     markLoanDefaulted |-> Write(Member, {"loans"}),
     claimReceipt      |-> Write(Member, {"receipts"}),
     repayLoan         |-> Write(Member, {"loans", "receipts", "money"})]

LendingReads ==
    [fetchMyLoans     |-> Read(Member, {"loans"}),
     fetchLoan        |-> Read(Member, {"loans"}),
     fetchPayoffQuote |-> Read(Member, {"loans", "clock"})]

(* liquidations                                                             *)
LiquidationWrites ==
    [scheduleLiquidation |-> Write(Operator, {"sales"}),
     openLiquidation     |-> Write(Operator, {"sales"}),
     placeBid            |-> Write(Member, {"sales", "money"}),
     reclaimBid          |-> Write(Member, {"money"}),
     closeLiquidation    |-> Write(Operator, {"sales", "loans", "receipts", "money"})]

LiquidationReads ==
    [fetchLiquidations |-> Read(Member, {"sales"}),
     fetchLiquidation  |-> Read(Member, {"sales"})]

(* me/balance, me/ledger-entries, me/deposits, me/withdrawals: the ledger is *)
(* its own record of what entered and left.                                 *)
WalletWrites ==
    [deposit  |-> [Repeatable(Operator, {"money"}) EXCEPT !.writes = {"money"}],
     withdraw |-> [Repeatable(Member, {"money"}) EXCEPT !.writes = {"money"}]]

WalletReads ==
    [fetchBalance       |-> Read(Member, {"money"}),
     fetchLedgerEntries |-> Read(Member, {"money"})]

(* vaults                                                                   *)
VaultWrites == [beginIntake |-> Repeatable(Staff, {"intakes"})]

VaultReads ==
    [fetchInventory     |-> Read(Staff, {"receipts"}),
     fetchVaultExposure |-> Read(Staff, {"receipts"})]

(* intakes: the upload of a photograph has the file interceptor alone.      *)
IntakeWrites ==
    [patchIntake       |-> Write(Staff, {"intakes"}),
     uploadIntakePhoto |-> Unkeyed(Staff, {"intakes", "audit"}),
     recordAppraisal   |-> Repeatable(Staff, {"intakes"}),
     sealIntake        |-> Write(Staff, {"intakes"}),
     issueReceipt      |-> Write(Staff, {"receipts"})]

IntakeReads == [fetchIntake |-> Read(Staff, {"intakes"})]

(* receipts: another member's receipt reads as not found.                   *)
ReceiptReads ==
    [fetchMyReceipts |-> Read(Member, {"receipts"}),
     fetchReceipt    |-> Read(Member, {"receipts"})]

(* redemption-requests                                                      *)
RedemptionWrites ==
    [requestRedemption |-> Write(Member, {"redemptions", "receipts"}),
     verifyRedemption  |-> Write(Staff, {"redemptions"}),
     confirmRelease    |-> Write(Staff, {"redemptions"})]

RedemptionReads ==
    [fetchMyRedemptionRequests |-> Read(Member, {"redemptions"}),
     fetchRedemptionQueue      |-> Read(Staff, {"redemptions"})]

(* admin: every account may read whether trading is paused.                 *)
AdminWrites ==
    [pauseSystem              |-> Write(Operator, {"pause"}),
     unpauseSystem            |-> Write(Operator, {"pause"}),
     runReconciliation        |-> Repeatable(Operator, {"runs"}),
     updateProtocolParameters |-> Repeatable(Operator, {"parameters"})]

AdminReads ==
    [fetchSystemState          |-> Read(Member, {"pause"}),
     fetchAuditPage            |-> Read(Operator, {"audit"}),
     fetchLatestReconciliation |-> Read(Operator, {"runs"}),
     fetchLoanBook             |-> Read(Operator, {"loans", "clock"}),
     fetchExposureByVault      |-> Read(Operator, {"receipts"}),
     fetchProtocolParameters   |-> Read(Operator, {"parameters", "clock"}),
     fetchDeadLetters          |-> Read(Operator, {"deadLetters"}),
     fetchRequestMetrics       |-> Read(Operator, {"metrics"})]

(* auth, me: what these change is the session, which Console models.        *)
AuthReads == [fetchCurrentAccount |-> Read(Member, {"session"})]

(* health, test/clock                                                       *)
HealthReads == [fetchHealth |-> Read(Everyone, {"clockMode"})]

ClockWrites == [advanceClock |-> Unkeyed(Everyone, {"clock"})]

-----------------------------------------------------------------------------
(* The client functions that pass the caller's key on.                      *)
MarketplaceKeyed ==
    {"createListing", "publishListing", "cancelListing", "placeOffer",
     "withdrawOffer", "reclaimOffer"}

LendingKeyed == {"acceptOffer", "repayLoan", "markLoanDefaulted", "claimReceipt"}

LiquidationKeyed ==
    {"scheduleLiquidation", "openLiquidation", "placeBid", "closeLiquidation",
     "reclaimBid"}

WalletKeyed == {"deposit", "withdraw"}

CustodyKeyed ==
    {"beginIntake", "patchIntake", "uploadIntakePhoto", "recordAppraisal",
     "sealIntake", "issueReceipt"}

RedemptionKeyed == {"requestRedemption", "verifyRedemption", "confirmRelease"}

AdminKeyed ==
    {"pauseSystem", "unpauseSystem", "runReconciliation",
     "updateProtocolParameters"}

(* register, login and logout pass none.                                    *)
AuthKeyed == {}

-----------------------------------------------------------------------------
Writes ==
    ListingWrites @@ MemberWrites @@ LendingWrites @@ LiquidationWrites
      @@ WalletWrites @@ VaultWrites @@ IntakeWrites @@ RedemptionWrites
      @@ AdminWrites @@ ClockWrites

Reads ==
    ListingReads @@ MemberReads @@ LendingReads @@ LiquidationReads
      @@ WalletReads @@ VaultReads @@ IntakeReads @@ ReceiptReads
      @@ RedemptionReads @@ AdminReads @@ AuthReads @@ HealthReads

PassesKey ==
    MarketplaceKeyed \cup LendingKeyed \cup LiquidationKeyed \cup WalletKeyed
      \cup CustodyKeyed \cup RedemptionKeyed \cup AdminKeyed \cup AuthKeyed

(* The guard: a session, and the role the route or its controller names.    *)
Admits(who, signedIn, roles) ==
    who = Everyone \/ (signedIn /\ (who = Member \/ who \in roles))
=============================================================================
