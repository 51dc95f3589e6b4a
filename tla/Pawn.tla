-------------------------------- MODULE Pawn --------------------------------
(***************************************************************************)
(* The pawn market: custody, the ledger, the marketplace, lending and the   *)
(* liquidation sale composed.  There is one action for each use case, and   *)
(* an action is the whole of the database transaction the use case runs:    *)
(* the aggregates' rows are locked before they are read, so a use case      *)
(* takes effect at once.  Creating a listing locks nothing and is two       *)
(* steps.  A rejected request changes nothing and has no step.              *)
(***************************************************************************)
EXTENDS Custody, Settlement, Marketplace, Liquidation

CONSTANTS Terms,             \* what offers may ask: principal, rate, duration
          ListingRates, ListingLifetimes,
          OfferLifetimes,    \* may be negative: an offer can arrive expired
          Reserves, Windows, BidAmounts,
          Payments,          \* amounts deposited and withdrawn
          FloatLimit         \* bound: what may be deposited in all

ASSUME PawnAssumption ==
    /\ Terms \subseteq [principal : Nat \ {0}, rate : Nat, duration : Nat \ {0}]
    /\ ListingRates \subseteq Nat
    /\ ListingLifetimes \subseteq Nat
    /\ OfferLifetimes \subseteq Int
    /\ Reserves \subseteq Nat
    /\ Windows \subseteq Nat \ {0}
    /\ BidAmounts \subseteq Nat \ {0}
    /\ Payments \subseteq Nat \ {0}
    /\ FloatLimit \in Nat

vars == <<receipts, redemptions, available, held, holds, now, paused, params,
          creations, listings, offers, loans, sales, bids>>

TypeOK ==
    /\ CustodyTypeOK
    /\ SettlementTypeOK
    /\ OperationsTypeOK
    /\ MarketTypeOK
    /\ LendingTypeOK
    /\ LiquidationTypeOK

Init ==
    /\ CustodyInit
    /\ SettlementInit
    /\ OperationsInit
    /\ MarketInit
    /\ LendingInit
    /\ LiquidationInit

-----------------------------------------------------------------------------
(* Money in and out: the float stands for the world outside the ledger.     *)
Deposit(account, amount) ==
    /\ available["float"] - amount >= -FloatLimit
    /\ Transfer("float", account, amount)
    /\ UNCHANGED <<custodyVars, operationsVars, marketVars, loans, saleVars>>

WithdrawFunds(account, amount) ==
    /\ Transfer(account, "float", amount)
    /\ UNCHANGED <<custodyVars, operationsVars, marketVars, loans, saleVars>>

-----------------------------------------------------------------------------
(* Custody.                                                                 *)
CustodyStep ==
    /\ \/ \E r \in Receipts : IssueReceipt(r)
       \/ \E r \in Receipts, caller \in Accounts : RequestRedemption(r, caller)
       \/ \E r \in Receipts : VerifyRedemption(r)
       \/ \E r \in Receipts : ConfirmRelease(r)
    /\ UNCHANGED <<settlementVars, operationsVars, marketVars, loans, saleVars>>

-----------------------------------------------------------------------------
(* The marketplace.                                                         *)
BeginListing(i, caller, r) ==
    /\ ~paused
    /\ InVault(r)
    /\ receipts[r].holder = caller
    /\ BeginDraft(i, caller, r)
    /\ UNCHANGED <<custodyVars, settlementVars, operationsVars, loans, saleVars>>

(* The requested principal is checked and plays no further part.            *)
CreateListing(i, principal, rate, lifetime) ==
    /\ Draft(i, rate, lifetime)
    /\ WithinLoanToValue(principal, AppraisedValue[creations[i].receipt])
    /\ UNCHANGED <<custodyVars, settlementVars, operationsVars, loans, saleVars>>

(* Variant: a listing is published without another look at its receipt.     *)
Unchecked(i) == TRUE

HeldByBorrower(i) ==
    /\ InVault(listings[i].receipt)
    /\ receipts[listings[i].receipt].holder = listings[i].borrower

PublishListing(i, caller) ==
    /\ ~paused
    /\ i \in DOMAIN listings
    /\ listings[i].borrower = caller
    /\ HeldByBorrower(i)
    /\ Publish(i)
    /\ UNCHANGED <<custodyVars, settlementVars, operationsVars, loans, saleVars>>

CancelListing(i, caller) ==
    /\ Cancel(i, caller)
    /\ UNCHANGED <<custodyVars, settlementVars, operationsVars, loans, saleVars>>

(* The lender's money is held with the offer; the borrower may be a lender. *)
PlaceOffer(i, o, lender, terms, lifetime) ==
    /\ ~paused
    /\ now + lifetime < MaxTime   \* bound: every offer expires before time ends
    /\ AddOffer(i, o, lender, terms, now + lifetime)
    /\ WithinLoanToValue(terms.principal, AppraisedValue[listings[i].receipt])
    /\ Hold(o, lender, terms.principal)
    /\ UNCHANGED <<custodyVars, operationsVars, loans, saleVars>>

WithdrawOffer(o, caller) ==
    /\ Withdraw(o, caller)
    /\ RefundHold(o)
    /\ UNCHANGED <<custodyVars, operationsVars, loans, saleVars>>

(* Variant: the pause switch is consulted here too.                         *)
ReclaimHoldUnlessPaused(o, caller) ==
    /\ ~paused
    /\ o \in DOMAIN offers
    /\ offers[o].lender = caller
    /\ Reclaimable(o)
    /\ RefundHold(o)
    /\ UNCHANGED <<custodyVars, operationsVars, marketVars, loans, saleVars>>

(* The hold comes back and the offer's row is left as it is.                *)
ReclaimHold(o, caller) ==
    /\ o \in DOMAIN offers
    /\ offers[o].lender = caller
    /\ Reclaimable(o)
    /\ RefundHold(o)
    /\ UNCHANGED <<custodyVars, operationsVars, marketVars, loans, saleVars>>

-----------------------------------------------------------------------------
(* Lending.                                                                 *)
OriginationFee(o) == Share(offers[o].principal, params.originationFee)

(* Disbursement and fee: two of the lines a distribution may have.          *)
OriginationLines(o) ==
    [noteHolder |-> NoLine,
     fee        |-> [to |-> "feeRevenue", amount |-> OriginationFee(o)],
     borrower   |-> [to |-> listings[offers[o].listing].borrower,
                     amount |-> offers[o].principal - OriginationFee(o)],
     rounding   |-> NoLine]

(* The ledger refuses an entry of nothing, and here neither line is dropped. *)
BothLinesMove(o) ==
    /\ OriginationFee(o) > 0
    /\ offers[o].principal > OriginationFee(o)

AcceptOffer(o, l, caller) ==
    /\ ~paused
    /\ Accept(o, caller)
    /\ LET i == offers[o].listing
           r == listings[i].receipt IN
       /\ WithinLoanToValue(offers[o].principal, AppraisedValue[r])
       /\ BothLinesMove(o)
       /\ ReleaseHold(o, OriginationLines(o))
       /\ EncumberReceipt(r, l)
       /\ Originate(l, r, listings[i].borrower, offers[o].lender, offers[o])
    /\ UNCHANGED <<redemptions, operationsVars, saleVars>>

(* The quote and the payment the borrower sends gate the request; what is   *)
(* charged is what is owed now.                                             *)
RepayLoan(l, caller) ==
    /\ l \in DOMAIN loans
    /\ loans[l].borrower = caller
    /\ RecordRepayment(l)
    /\ Transfer(caller, loans[l].noteHolder, AmountDue(l, now))
    /\ ReleaseEncumbrance(loans[l].receipt)
    /\ UNCHANGED <<redemptions, operationsVars, marketVars, saleVars>>

MarkDefault(l, caller) ==
    /\ l \in DOMAIN loans
    /\ loans[l].noteHolder = caller
    /\ MarkDefaulted(l)
    /\ UNCHANGED <<custodyVars, settlementVars, operationsVars, marketVars, saleVars>>

(* Variant: the loan need not be in default.                                *)
NotClosed(l) == loans[l].status \in {"ACTIVE", "DEFAULTED"}

Defaulted(l) == loans[l].status = "DEFAULTED"

(* The loan stays DEFAULTED, so its note holder may claim again.            *)
ClaimReceipt(l, caller) ==
    /\ l \in DOMAIN loans
    /\ loans[l].noteHolder = caller
    /\ Defaulted(l)
    /\ ClaimDefault(loans[l].receipt, caller)
    /\ UNCHANGED <<redemptions, settlementVars, operationsVars, marketVars, loans,
                   saleVars>>

-----------------------------------------------------------------------------
(* The liquidation sale.                                                    *)
ScheduleLiquidation(l, reserve) ==
    /\ Schedule(l, reserve)
    /\ UNCHANGED <<custodyVars, settlementVars, operationsVars, marketVars, loans>>

OpenLiquidation(l, window) ==
    /\ ~paused
    /\ Open(l, window)
    /\ UNCHANGED <<custodyVars, settlementVars, operationsVars, marketVars, loans>>

PlaceBid(l, b, bidder, amount) ==
    /\ ~paused
    /\ AddBid(l, b, bidder, amount)
    /\ Hold(b, bidder, amount)
    /\ UNCHANGED <<custodyVars, operationsVars, marketVars, loans>>

ReclaimBid(b, caller) ==
    /\ b \in DOMAIN bids
    /\ bids[b].bidder = caller
    /\ ReclaimableBid(b)
    /\ RefundHold(b)
    /\ UNCHANGED <<custodyVars, operationsVars, marketVars, loans, saleVars>>

(* The waterfall's empty lines are dropped, which credits nobody less.      *)
CloseLiquidation(l, b) ==
    /\ l \in DOMAIN sales
    /\ Settle(l, b)
    /\ ReleaseHold(b, Waterfall(l, bids[b].amount))
    /\ BurnForLiquidation(loans[l].receipt)
    /\ MarkLiquidated(l)
    /\ UNCHANGED <<redemptions, operationsVars, marketVars>>

-----------------------------------------------------------------------------
(* The clock and the administrator.                                         *)
TimePasses ==
    /\ Tick
    /\ UNCHANGED <<custodyVars, settlementVars, marketVars, loans, saleVars>>

Administer ==
    /\ \/ \E state \in BOOLEAN : SetPause(state)
       \/ \E version \in ParameterSets : ChangeParameters(version)
    /\ UNCHANGED <<custodyVars, settlementVars, marketVars, loans, saleVars>>

MoneyStep ==
    \E account \in Accounts, amount \in Payments :
        Deposit(account, amount) \/ WithdrawFunds(account, amount)

MarketStep ==
    \/ \E i \in Listings, caller \in Accounts :
          \/ \E r \in Receipts : BeginListing(i, caller, r)
          \/ PublishListing(i, caller)
          \/ CancelListing(i, caller)
    \/ \E i \in Listings, terms \in Terms, rate \in ListingRates,
          lifetime \in ListingLifetimes :
          CreateListing(i, terms.principal, rate, lifetime)
    \/ \E i \in Listings, o \in Offers, lender \in Accounts, terms \in Terms,
          lifetime \in OfferLifetimes : PlaceOffer(i, o, lender, terms, lifetime)
    \/ \E o \in Offers, caller \in Accounts :
          WithdrawOffer(o, caller) \/ ReclaimHold(o, caller)

LendingStep ==
    \/ \E o \in Offers, l \in Loans, caller \in Accounts : AcceptOffer(o, l, caller)
    \/ \E l \in Loans, caller \in Accounts :
          RepayLoan(l, caller) \/ MarkDefault(l, caller) \/ ClaimReceipt(l, caller)

SaleStep ==
    \/ \E l \in Loans, reserve \in Reserves : ScheduleLiquidation(l, reserve)
    \/ \E l \in Loans, window \in Windows : OpenLiquidation(l, window)
    \/ \E l \in Loans, b \in Bids, bidder \in Accounts, amount \in BidAmounts :
          PlaceBid(l, b, bidder, amount)
    \/ \E b \in Bids, caller \in Accounts : ReclaimBid(b, caller)
    \/ \E l \in Loans, b \in Bids : CloseLiquidation(l, b)

Next ==
    \/ CustodyStep
    \/ MoneyStep
    \/ MarketStep
    \/ LendingStep
    \/ SaleStep
    \/ TimePasses
    \/ Administer

Spec == Init /\ [][Next]_vars
-----------------------------------------------------------------------------
(* Safety.                                                                  *)

(* An offer and its hold never disagree: the money of an accepted offer, and *)
(* of no other, has gone to the borrower; a withdrawn offer's money is back; *)
(* an offer that can still be accepted has its money behind it.  Reclaiming  *)
(* and withdrawing settle the hold without, and with, the offer's row.       *)
OfferHoldAgreement ==
    \A o \in DOMAIN offers :
        /\ o \in DOMAIN holds
        /\ holds[o].account = offers[o].lender
        /\ holds[o].amount = offers[o].principal
        /\ offers[o].status = "ACCEPTED" <=> holds[o].status = "RELEASED"
        /\ offers[o].status = "WITHDRAWN" => holds[o].status = "REFUNDED"
        /\ offers[o].status = "PENDING" /\ ~OfferExpired(o)
             => holds[o].status = "HELD"

(* A bid and its hold never disagree: the winner's money, and nobody else's, *)
(* is spent, and the standing high bid of an unsettled sale is still funded. *)
BidHoldAgreement ==
    \A b \in DOMAIN bids :
        /\ b \in DOMAIN holds
        /\ holds[b].account = bids[b].bidder
        /\ holds[b].amount = bids[b].amount
        /\ bids[b].loan \in DOMAIN sales
        /\ sales[bids[b].loan].winner = b <=> holds[b].status = "RELEASED"
        /\ sales[bids[b].loan].winner = NoBid /\ IsHighest(b)
             => holds[b].status = "HELD"

(* A receipt is encumbered only by a loan that is unpaid, was made on that   *)
(* receipt, and whose borrower holds it: nothing else can lock an item up.   *)
EncumbranceBacked ==
    \A r \in DOMAIN receipts :
        receipts[r].status = "ENCUMBERED" =>
            LET l == receipts[r].loan IN
            /\ l \in DOMAIN loans
            /\ loans[l].status \in {"ACTIVE", "DEFAULTED"}
            /\ loans[l].receipt = r
            /\ loans[l].borrower = receipts[r].holder

(* A listing open to offers never offers an item that secures a loan, nor    *)
(* one its borrower does not hold, although creation reads the receipt well  *)
(* before it inserts the listing.                                           *)
ActiveListingUnencumbered ==
    \A i \in DOMAIN listings :
        listings[i].status = "ACTIVE" =>
            /\ receipts[listings[i].receipt].status # "ENCUMBERED"
            /\ receipts[listings[i].receipt].holder = listings[i].borrower

(* No loan on the receipt ever went into default.                           *)
NeverDefaulted(r) ==
    \A l \in DOMAIN loans :
        loans[l].receipt = r => loans[l].status \in {"ACTIVE", "REPAID"}

(* While no loan on an item has defaulted, the item backs every loan on it   *)
(* that is still to be paid: it cannot be claimed, burned, redeemed or       *)
(* pledged a second time, and the borrower can always repay to get it back.  *)
(* (After a default it is another matter: see RepayNeverBlocked.)            *)
CollateralKept ==
    \A l \in DOMAIN loans :
        loans[l].status = "ACTIVE" /\ NeverDefaulted(loans[l].receipt) =>
            /\ receipts[loans[l].receipt].status = "ENCUMBERED"
            /\ receipts[loans[l].receipt].loan = l

(* A sale runs exactly as long as its loan is in default, and the loan is    *)
(* closed exactly by the sale's settlement, on its highest bid.              *)
SaleMatchesLoan ==
    \A l \in DOMAIN loans :
        /\ l \in DOMAIN sales => loans[l].status \in {"DEFAULTED", "LIQUIDATED"}
        /\ loans[l].status = "LIQUIDATED" <=>
             l \in DOMAIN sales /\ sales[l].status = "SETTLED"

(* A redemption is only ever of a receipt that is burned, in the name of the *)
(* account that held it: the item cannot be pledged while it is on its way   *)
(* out of the vault.                                                         *)
RedemptionBurned ==
    \A r \in DOMAIN redemptions :
        /\ receipts[r].status = "RELEASED"
        /\ receipts[r].holder = redemptions[r].requestedBy

-----------------------------------------------------------------------------
(* What the documents promise and the code does not keep.                   *)

(* docs/10-flows.md, flow 11: repaying is "never blocked, under any          *)
(* circumstance".  Repayment releases the encumbrance of the loan's receipt, *)
(* and fails unless the receipt is encumbered.                               *)
RepayNeverBlocked ==
    \A l \in DOMAIN loans :
        loans[l].status = "ACTIVE" =>
            receipts[loans[l].receipt].status = "ENCUMBERED"

(* The same promise for closing an already-open liquidation, which burns the *)
(* receipt and fails unless it is still live.                                *)
CloseNeverBlocked ==
    \A l \in DOMAIN sales :
        sales[l].status = "BIDDING" /\ BidsOn(l) # {} =>
            receipts[loans[l].receipt].status \in {"IN_VAULT", "ENCUMBERED"}

(* "Never blocked, under any circumstance: repay, ..., close an already-open *)
(* liquidation".                                                            *)
NeverBlocked == RepayNeverBlocked /\ CloseNeverBlocked

(* An administrator may set the origination fee anywhere from zero to ten    *)
(* thousand basis points, and an offer that passes every check can be        *)
(* accepted: the ledger does not refuse it.                                  *)
AcceptableOfferSettles ==
    \A o \in DOMAIN offers : Acceptable(o) => BothLinesMove(o)

-----------------------------------------------------------------------------
(* What a step may never do, and what must happen.                          *)

MovesOnDefault(r) ==
    /\ receipts'[r].holder # receipts[r].holder =>
         \E l \in DOMAIN loans : /\ loans[l].status = "DEFAULTED"
                                 /\ loans[l].receipt = r
                                 /\ loans[l].noteHolder = receipts'[r].holder
    /\ receipts[r].status \in {"RELEASED", "LIQUIDATED"} =>
         receipts'[r] = receipts[r]

(* An item changes hands only when its holder owes a loan on it in default, *)
(* and then only to that loan's note holder; a burned receipt changes no    *)
(* more.                                                                    *)
ReceiptMovesOnDefault == [][\A r \in DOMAIN receipts : MovesOnDefault(r)]_vars

(* Time passes, and a lender keeps asking for the money of an offer that    *)
(* lapsed or was beaten.  Nobody has to unpause, accept or withdraw.        *)
Fairness ==
    /\ WF_vars(TimePasses)
    /\ \A o \in Offers :
          WF_vars(\E caller \in Accounts : ReclaimHold(o, caller))

FairSpec == Spec /\ Fairness

(* No lender's money is trapped: every offer's hold is released or refunded *)
(* in the end, whatever the borrower does with the listing and even if the  *)
(* system is paused and never resumed.                                      *)
NoOfferTrapsFunds ==
    \A o \in Offers :
        o \in DOMAIN holds ~> o \in DOMAIN holds /\ holds[o].status # "HELD"
=============================================================================
