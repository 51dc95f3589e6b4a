---------------------------- MODULE Marketplace ----------------------------
(***************************************************************************)
(* The Listing aggregate with its offers.  The operators are the methods of *)
(* the aggregate with the row changes they make; the use cases that call    *)
(* them, and what they do to money and custody, are in Pawn.                *)
(***************************************************************************)
EXTENDS Operations

VARIABLES creations,   \* create-listing transactions between their reads
                       \* and their insert
          listings, offers

marketVars == <<creations, listings, offers>>

Creation == [borrower : Accounts, receipt : Receipts]

Listing == [status    : {"DRAFT", "ACTIVE", "MATCHED", "CANCELLED"},
            borrower  : Accounts,
            receipt   : Receipts,
            maxRate   : Nat,
            expiresAt : Int]

Offer == [status    : {"PENDING", "ACCEPTED", "SUPERSEDED", "WITHDRAWN"},
          listing   : Listings,
          lender    : Accounts,
          principal : Nat \ {0},
          rate      : Nat,
          duration  : Nat \ {0},
          createdAt : Int,
          expiresAt : Int]

MarketTypeOK ==
    /\ IsTable(creations, Listings, Creation)
    /\ IsTable(listings, Listings, Listing)
    /\ IsTable(offers, Offers, Offer)

MarketInit ==
    /\ creations = EmptyTable
    /\ listings = EmptyTable
    /\ offers = EmptyTable

-----------------------------------------------------------------------------
IsLive(i) == listings[i].status \in {"DRAFT", "ACTIVE"}

(* The index listing_receipt_active_key is unique over the live listings.   *)
HasLiveListing(r) ==
    \E i \in DOMAIN listings : listings[i].receipt = r /\ IsLive(i)

ListingExpired(i) == now > listings[i].expiresAt

OfferExpired(o) == now > offers[o].expiresAt

AcceptingOffers(i) == listings[i].status = "ACTIVE" /\ ~ListingExpired(i)

(* The cap of an item's category, on its appraised value.                   *)
WithinLoanToValue(principal, appraised) ==
    principal <= Share(appraised, params.loanToValue)

WithinMaximumRate(i, rate) ==
    /\ rate <= listings[i].maxRate
    /\ rate <= params.maxRate

(* A cancellation or a match supersedes every offer still pending.          *)
Superseded(i, o) == offers[o].listing = i /\ offers[o].status = "PENDING"

-----------------------------------------------------------------------------
BeginDraft(i, caller, r) ==
    /\ i \notin DOMAIN creations
    /\ i \notin DOMAIN listings
    /\ creations' = Insert(creations, i, [borrower |-> caller, receipt |-> r])
    /\ UNCHANGED <<listings, offers>>

Draft(i, rate, lifetime) ==
    /\ i \in DOMAIN creations
    /\ ~HasLiveListing(creations[i].receipt)
    /\ rate <= params.maxRate
    /\ listings' = Insert(listings, i, [status    |-> "DRAFT",
                                        borrower  |-> creations[i].borrower,
                                        receipt   |-> creations[i].receipt,
                                        maxRate   |-> rate,
                                        expiresAt |-> now + lifetime])
    /\ creations' = [j \in DOMAIN creations \ {i} |-> creations[j]]
    /\ UNCHANGED offers

Publish(i) ==
    /\ listings[i].status = "DRAFT"
    /\ ~ListingExpired(i)
    /\ listings' = [listings EXCEPT ![i].status = "ACTIVE"]
    /\ UNCHANGED <<creations, offers>>

Cancel(i, caller) ==
    /\ i \in DOMAIN listings
    /\ IsLive(i)
    /\ listings[i].borrower = caller
    /\ listings' = [listings EXCEPT ![i].status = "CANCELLED"]
    /\ offers' = [o \in DOMAIN offers |->
                     IF Superseded(i, o)
                     THEN [offers[o] EXCEPT !.status = "SUPERSEDED"]
                     ELSE offers[o]]
    /\ UNCHANGED creations

(* What an offer may ask: the terms the lender chose, among them an expiry  *)
(* nothing compares with the clock.                                         *)
AddOffer(i, o, lender, terms, expiresAt) ==
    /\ i \in DOMAIN listings
    /\ o \notin DOMAIN offers
    /\ AcceptingOffers(i)
    /\ WithinMaximumRate(i, terms.rate)
    /\ offers' = Insert(offers, o, [status    |-> "PENDING",
                                    listing   |-> i,
                                    lender    |-> lender,
                                    principal |-> terms.principal,
                                    rate      |-> terms.rate,
                                    duration  |-> terms.duration,
                                    createdAt |-> now,
                                    expiresAt |-> expiresAt])
    /\ UNCHANGED <<creations, listings>>

OldEnough(o) == now - offers[o].createdAt >= params.minimumOfferLifetime

Withdraw(o, caller) ==
    /\ o \in DOMAIN offers
    /\ offers[o].lender = caller
    /\ OldEnough(o)
    /\ offers[o].status = "PENDING"
    /\ offers' = [offers EXCEPT ![o].status = "WITHDRAWN"]
    /\ UNCHANGED <<creations, listings>>

Acceptable(o) ==
    /\ AcceptingOffers(offers[o].listing)
    /\ offers[o].status = "PENDING"
    /\ ~OfferExpired(o)

Accept(o, caller) ==
    /\ o \in DOMAIN offers
    /\ Acceptable(o)
    /\ listings[offers[o].listing].borrower = caller
    /\ listings' = [listings EXCEPT ![offers[o].listing].status = "MATCHED"]
    /\ offers' = [p \in DOMAIN offers |->
                     CASE p = o -> [offers[p] EXCEPT !.status = "ACCEPTED"]
                       [] p # o /\ Superseded(offers[o].listing, p) ->
                            [offers[p] EXCEPT !.status = "SUPERSEDED"]
                       [] OTHER -> offers[p]]
    /\ UNCHANGED creations

(* Variant: a pending offer may be reclaimed before it has expired.         *)
AnyPending(o) == offers[o].status \in {"PENDING", "SUPERSEDED"}

(* An offer whose hold its lender may take back without touching the offer. *)
Reclaimable(o) ==
    \/ offers[o].status = "SUPERSEDED"
    \/ offers[o].status = "PENDING" /\ OfferExpired(o)
=============================================================================
