---------------------------- MODULE Liquidation ----------------------------
(***************************************************************************)
(* The Liquidation aggregate with its bids.  A loan has at most one sale,   *)
(* ever, so a sale goes by its loan's identifier.  The code's CANCELLED     *)
(* state is left out: no use case cancels a sale.                           *)
(***************************************************************************)
EXTENDS Lending

CONSTANT NoBid   \* winningBidId of a sale nothing has won

ASSUME LiquidationAssumption == NoBid \notin Bids

VARIABLES sales, bids

saleVars == <<sales, bids>>

NotOpened == -1   \* a null closesAt

Sale == [status   : {"SCHEDULED", "BIDDING", "SETTLED"},
         reserve  : Nat,
         closesAt : Int,
         winner   : Bids \cup {NoBid}]

Bid == [loan : Loans, bidder : Accounts, amount : Nat \ {0}]

LiquidationTypeOK ==
    /\ IsTable(sales, Loans, Sale)
    /\ IsTable(bids, Bids, Bid)

LiquidationInit ==
    /\ sales = EmptyTable
    /\ bids = EmptyTable

-----------------------------------------------------------------------------
BidsOn(l) == {b \in DOMAIN bids : bids[b].loan = l}

(* Each bid beats the one before it, so the standing high bid is unique.    *)
IsHighest(b) ==
    \A c \in BidsOn(bids[b].loan) : bids[c].amount <= bids[b].amount

HoldingPeriodOver(l) == now >= loans[l].defaultedAt + params.holdingPeriod

Schedule(l, reserve) ==
    /\ l \in DOMAIN loans
    /\ loans[l].status = "DEFAULTED"
    /\ l \notin DOMAIN sales
    /\ HoldingPeriodOver(l)
    /\ sales' = Insert(sales, l, [status |-> "SCHEDULED", reserve |-> reserve,
                                  closesAt |-> NotOpened, winner |-> NoBid])
    /\ UNCHANGED bids

Open(l, window) ==
    /\ l \in DOMAIN sales
    /\ sales[l].status = "SCHEDULED"
    /\ sales' = [sales EXCEPT ![l].status = "BIDDING",
                              ![l].closesAt = now + window]
    /\ UNCHANGED bids

Beats(l, amount) == \A b \in BidsOn(l) : amount > bids[b].amount

AddBid(l, b, bidder, amount) ==
    /\ l \in DOMAIN sales
    /\ b \notin DOMAIN bids
    /\ sales[l].status = "BIDDING"
    /\ sales[l].closesAt > now
    /\ amount >= sales[l].reserve
    /\ Beats(l, amount)
    /\ bids' = Insert(bids, b, [loan |-> l, bidder |-> bidder, amount |-> amount])
    /\ UNCHANGED sales

(* The bidding window is not consulted: a sale with a bid may be closed at  *)
(* once, and one without may never be.                                      *)
Settle(l, b) ==
    /\ sales[l].status = "BIDDING"
    /\ b \in BidsOn(l)
    /\ IsHighest(b)
    /\ sales' = [sales EXCEPT ![l].status = "SETTLED", ![l].winner = b]
    /\ UNCHANGED bids

(* Variant: any bid may be reclaimed.                                       *)
AnyBid(b) == TRUE

ReclaimableBid(b) ==
    LET sale == sales[bids[b].loan] IN
    \/ sale.winner # NoBid /\ sale.winner # b
    \/ sale.winner = NoBid /\ ~IsHighest(b)

-----------------------------------------------------------------------------
(* The liquidation waterfall: the note holder up to what is owed, then the  *)
(* fee on the rest, then the borrower, and what rounding left over.         *)
ToLender(l, proceeds) ==
    IF proceeds < AmountDue(l, now) THEN proceeds ELSE AmountDue(l, now)

LiquidationFee(l, proceeds) ==
    Share(proceeds - ToLender(l, proceeds), loans[l].liquidationFee)

(* Variant: the borrower is paid what the fee should have taken.            *)
SurplusBeforeFee(l, proceeds) == proceeds - ToLender(l, proceeds)

Surplus(l, proceeds) ==
    proceeds - ToLender(l, proceeds) - LiquidationFee(l, proceeds)

Waterfall(l, proceeds) ==
    [noteHolder |-> [to |-> loans[l].noteHolder, amount |-> ToLender(l, proceeds)],
     fee        |-> [to |-> "feeRevenue", amount |-> LiquidationFee(l, proceeds)],
     borrower   |-> [to |-> loans[l].borrower, amount |-> Surplus(l, proceeds)],
     rounding   |-> [to |-> "rounding",
                     amount |-> proceeds - ToLender(l, proceeds)
                                         - LiquidationFee(l, proceeds)
                                         - Surplus(l, proceeds)]]
=============================================================================
