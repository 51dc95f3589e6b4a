-------------------------------- MODULE Pages --------------------------------
(***************************************************************************)
(* The three web applications as tables: the queries and the forms of every *)
(* card, the cards of every page, and who a page is shown to.  A form says   *)
(* which calls it makes, where the idempotency key of each comes from, when *)
(* the keys are replaced, what it invalidates when it has succeeded and     *)
(* which page it opens then.  Console says how the tables behave.           *)
(***************************************************************************)
EXTENDS Endpoints

(* Where a call's key comes from: drawn when the card is mounted and held,  *)
(* drawn anew by every press, or none at all.                               *)
OnMount(call) == [call |-> call, key |-> "mount"]
OnPress(call) == [call |-> call, key |-> "press"]
NoKey(call) == [call |-> call, key |-> "none"]

(* A form is named by its last call.  Most start with their only call,       *)
(* replace the held keys on success and stay on their page.                 *)
Form(call, refreshes) ==
    [name |-> call, calls |-> <<OnMount(call)>>, starts |-> {1}, replacesKey |-> {"ok"},
     refreshes |-> refreshes, rereads |-> {}, ends |-> {}, opens |-> "same"]

Opening(form, page) == [form EXCEPT !.opens = page]

(* What a card asks and the forms it holds.  A form is drawn when the        *)
(* queries it waits for have an answer, and hidden while the last fetch of   *)
(* one that hides it has failed: by default these are all the card asks.     *)
(* Within a card that draws the error in place of a form which is a          *)
(* component of its own, a failure drops the form, keys and all.            *)
Card(queries, forms) ==
    [queries |-> queries, waits |-> queries, hides |-> queries, drops |-> {},
     forms |-> forms]

Within(card) == [card EXCEPT !.drops = card.queries]

Page(app, guard, cards) == [app |-> app, guard |-> guard, cards |-> cards]

-----------------------------------------------------------------------------
(* What each query asks.  walletKeys.all is the prefix of both wallet keys,  *)
(* and intakeKeys.all of every intake's.                                    *)
MarketQueries ==
    [browse        |-> "browseListings",   detail         |-> "fetchListing",
     myListings    |-> "fetchMyListings",  myOffers       |-> "fetchMyOffers",
     myReceipts    |-> "fetchMyReceipts",  myLoansBorrower |-> "fetchMyLoans",
     myLoansLender |-> "fetchMyLoans",     payoffQuote    |-> "fetchPayoffQuote",
     myRedemptions |-> "fetchMyRedemptionRequests"]

WalletQueries == [balance |-> "fetchBalance", entries |-> "fetchLedgerEntries"]

VaultQueries ==
    [intake   |-> "fetchIntake", inventory |-> "fetchInventory",
     exposure |-> "fetchVaultExposure"]

ReleaseQueries == [queue |-> "fetchRedemptionQueue"]

OperatorQueries ==
    [liquidations    |-> "fetchLiquidations",
     systemState     |-> "fetchSystemState",
     audit           |-> "fetchAuditPage",
     latestRun       |-> "fetchLatestReconciliation",
     loanBook        |-> "fetchLoanBook",
     exposureByVault |-> "fetchExposureByVault",
     parameters      |-> "fetchProtocolParameters",
     deadLetters     |-> "fetchDeadLetters",
     metrics         |-> "fetchRequestMetrics",
     health          |-> "fetchHealth"]

AccountQuery == [me |-> "fetchCurrentAccount"]

Asks ==
    MarketQueries @@ WalletQueries @@ VaultQueries @@ ReleaseQueries
      @@ OperatorQueries @@ AccountQuery

Wallet == DOMAIN WalletQueries

-----------------------------------------------------------------------------
(* The marketplace.                                                         *)
ReclaimBanner == Card({"myOffers"}, {})

BrowseCard == Card({"browse"}, {})

ListingDetail == Card({"detail"}, {})

OfferBookCard ==
    Within(Card({"detail"},
                {Opening(Form("acceptOffer", {"detail", "myListings", "myLoansBorrower",
                                              "myReceipts"} \cup Wallet),
                         "/borrow/loans")}))

PlaceOfferCard ==
    Within(Card({"detail"}, {Form("placeOffer", {"detail", "myOffers"} \cup Wallet)}))

(* The redemptions are drawn from whatever answer there is.                  *)
ReceiptsCard ==
    [Card({"myReceipts", "myRedemptions"},
          {Form("requestRedemption", {"myReceipts", "myRedemptions"})})
       EXCEPT !.waits = {"myReceipts"}, !.hides = {"myReceipts"}]

(* One press creates the listing and publishes it, under two keys that last  *)
(* as long as the dialog.                                                   *)
ListReceiptDialog ==
    Within(Card({"myReceipts"},
                {[Opening(Form("publishListing", {"myListings", "browse"}), "/borrow/listings")
                    EXCEPT !.calls = <<OnMount("createListing"), OnMount("publishListing")>>,
                           !.replacesKey = {}]}))

MyListingsCard ==
    Card({"myListings"}, {Form("cancelListing", {"myListings", "browse"})})

MyLoansCard == Card({"myLoansBorrower"}, {})

(* A payment refused, or of which nothing is heard, asks for a new quote and  *)
(* a new key.  The card goes away with the loan it is for; the loans are      *)
(* taken from whatever answer there is.                                     *)
PayoffCard ==
    [Card({"myLoansBorrower", "payoffQuote"},
          {[Form("repayLoan", {"myLoansBorrower", "myReceipts"} \cup Wallet)
              EXCEPT !.replacesKey = {"ok", "error"},
                     !.rereads = {"payoffQuote"},
                     !.ends = {"payoffQuote"}]})
       EXCEPT !.hides = {"payoffQuote"}]

MyOffersCard == Card({"myOffers"}, {Form("reclaimOffer", {"myOffers"} \cup Wallet)})

FundedLoansCard == Card({"myLoansLender"}, {})

DefaultActionsCard ==
    [Card({"myLoansLender"},
          {Form("markLoanDefaulted", {"myLoansLender", "myReceipts"}),
           Form("claimReceipt", {"myLoansLender", "myReceipts"})})
       EXCEPT !.hides = {}]

BalanceCards == Card({"balance"}, {})

HistoryCard == Card({"entries"}, {})

WithdrawCard == Card({}, {Form("withdraw", Wallet \cup {"me"})})

-----------------------------------------------------------------------------
(* The vault console.                                                       *)
StartIntakeCard == Card({}, {Opening(Form("beginIntake", {}), "/intake/$intakeId")})

IdentifyStep ==
    Within(Card({"intake"}, {[Form("patchIntake", {"intake"}) EXCEPT !.name = "identify"]}))

PhotographStep ==
    Within(Card({"intake"}, {[Form("uploadIntakePhoto", {"intake"})
                                EXCEPT !.calls = <<NoKey("uploadIntakePhoto")>>]}))

AppraiseStep == Within(Card({"intake"}, {Form("recordAppraisal", {"intake"})}))

(* The seal number goes first, under a key of its own every time, unless it  *)
(* is the one that is recorded.                                             *)
SealStep ==
    Within(Card({"intake"},
                {[Form("sealIntake", {"intake"})
                    EXCEPT !.calls = <<OnPress("patchIntake"), OnMount("sealIntake")>>,
                           !.starts = {1, 2}]}))

IssueStep == Within(Card({"intake"}, {Form("issueReceipt", {"intake", "exposure"})}))

InventoryCard == Card({"inventory"}, {})

VaultExposureCard == Card({"exposure"}, {})

ReleaseQueueCard == Card({"queue"}, {})

ReleaseSteps ==
    Within(Card({"queue"},
                {Form("verifyRedemption", {"queue"}),
                 Opening(Form("confirmRelease", {"queue"}), "/releases")}))

-----------------------------------------------------------------------------
(* The admin console.                                                       *)
DepositCard == Card({}, {Form("deposit", {})})

LiquidationsCard ==
    Card({"liquidations"},
         {Form("openLiquidation", {"liquidations"}),
          Form("closeLiquidation", {"liquidations"})})

PauseCard ==
    Card({"systemState"},
         {Form("pauseSystem", {"systemState"}),
          Form("unpauseSystem", {"systemState"})})

AuditCard == Card({"audit"}, {})

LoanBookCard == Card({"loanBook"}, {})

ExposureCard == Card({"exposureByVault"}, {})

ReconciliationCard ==
    [Card({"latestRun"}, {Form("runReconciliation", {"latestRun"})})
       EXCEPT !.waits = {}, !.hides = {}]

(* Everything but the answer to whether the process has a clock to move.    *)
ClockCard ==
    [Card({"health"}, {[Form("advanceClock", DOMAIN Asks \ {"health"})
                          EXCEPT !.calls = <<NoKey("advanceClock")>>]})
       EXCEPT !.hides = {}]

ParametersCard ==
    Card({"parameters"}, {Form("updateProtocolParameters", {"parameters"})})

DeadLetterCard == Card({"deadLetters"}, {})

MetricsCard == Card({"metrics"}, {})

-----------------------------------------------------------------------------
(* The pages.  A guard is the set of roles of which an account needs one.    *)
AnyAccount == {}

MarketShell(cards) == Page("marketplace", AnyAccount, cards \cup {ReclaimBanner})

StaffGuard(cards) == Page("vault-console", {Staff}, cards)

OperatorGuard(cards) == Page("admin", {Operator}, cards)

MarketplaceHome == MarketShell({})
BrowsePage == MarketShell({BrowseCard})
ListingDetailPage == MarketShell({ListingDetail, OfferBookCard, PlaceOfferCard})
BorrowReceiptsPage == MarketShell({ReceiptsCard, ListReceiptDialog})
BorrowListingsPage == MarketShell({MyListingsCard})
BorrowLoansPage == MarketShell({MyLoansCard, PayoffCard})
LendOffersPage == MarketShell({MyOffersCard})
LendLoansPage == MarketShell({FundedLoansCard, DefaultActionsCard})
WalletPage == MarketShell({BalanceCards, WithdrawCard, HistoryCard})

MarketPages ==
    "/" :> MarketplaceHome @@
    "/listings" :> BrowsePage @@ "/listings/$listingId" :> ListingDetailPage @@
    "/borrow/receipts" :> BorrowReceiptsPage @@ "/borrow/listings" :> BorrowListingsPage @@
    "/borrow/loans" :> BorrowLoansPage @@ "/wallet" :> WalletPage @@
    "/lend/offers" :> LendOffersPage @@ "/lend/loans" :> LendLoansPage

VaultHome == StaffGuard({})
IntakeStartPage == StaffGuard({StartIntakeCard})
IntakeWizardPage ==
    StaffGuard({IdentifyStep, PhotographStep, AppraiseStep, SealStep, IssueStep})
InventoryPage == StaffGuard({InventoryCard})
ReleasesPage == StaffGuard({ReleaseQueueCard})
ReleaseDetailPage == StaffGuard({ReleaseSteps})
ExposurePage == StaffGuard({VaultExposureCard})

VaultPages ==
    "/vault" :> VaultHome @@
    "/intake" :> IntakeStartPage @@ "/intake/$intakeId" :> IntakeWizardPage @@
    "/inventory" :> InventoryPage @@ "/exposure" :> ExposurePage @@
    "/releases" :> ReleasesPage @@ "/releases/$requestId" :> ReleaseDetailPage

(* The home page lets a compliance officer in too.                          *)
AdminHome == Page("admin", {Operator, "COMPLIANCE"}, {})
DepositsPage == OperatorGuard({DepositCard})
LiquidationsPage == OperatorGuard({LiquidationsCard})
OperationsPage == OperatorGuard({PauseCard, AuditCard})
ReconciliationPage == OperatorGuard({LoanBookCard, ExposureCard, ReconciliationCard})
ParametersPage == OperatorGuard({ClockCard, ParametersCard, DeadLetterCard, MetricsCard})

AdminPages ==
    "/admin" :> AdminHome @@ "/deposits" :> DepositsPage @@
    "/liquidations" :> LiquidationsPage @@ "/operations" :> OperationsPage @@
    "/reconciliation" :> ReconciliationPage @@ "/parameters" :> ParametersPage

PageTable == MarketPages @@ VaultPages @@ AdminPages

FormsOf(page) == UNION {card.forms : card \in PageTable[page].cards}

QueriesOf(page) == {"me"} \cup UNION {card.queries : card \in PageTable[page].cards}

Forms == UNION {FormsOf(p) : p \in DOMAIN PageTable}

HomeOf(form) == CHOOSE p \in DOMAIN PageTable : form \in FormsOf(p)

(* The pages of the form's application.                                     *)
PagesOf(form) == {p \in DOMAIN PageTable : PageTable[p].app = PageTable[HomeOf(form)].app}

CardOf(form) == CHOOSE card \in PageTable[HomeOf(form)].cards : form \in card.forms

Touches(call, query) == Writes[call].writes \cap Reads[Asks[query]].reads # {}

NoQuery == "none"

(* The queries of its application that answer from what a form changes, one  *)
(* of each kind the form tells apart.                                       *)
Alike(form, q, r) ==
    /\ \A p \in PagesOf(form) : q \in QueriesOf(p) /\ form \in FormsOf(p)
                                  <=> r \in QueriesOf(p) /\ form \in FormsOf(p)
    /\ \A some \in {form.refreshes, form.rereads, form.ends, {"audit"},
                     CardOf(form).waits, CardOf(form).hides, CardOf(form).drops} :
         q \in some <=> r \in some

QueriesFor(form) ==
    LET told == {q \in UNION {QueriesOf(p) : p \in PagesOf(form)} :
                   \E i \in DOMAIN form.calls : Touches(form.calls[i].call, q)}
    IN  IF told = {} THEN {NoQuery}
        ELSE {q \in told : q = CHOOSE r \in told : Alike(form, q, r)}
=============================================================================
