----------------------------- MODULE PawnProofs -----------------------------
(***************************************************************************)
(* Proofs about the pawn market, for every value of the constants: that its *)
(* tables keep their shape; that an item secures one loan at a time and     *)
(* moves only on a default; that the market's money is never lost, made or  *)
(* spent twice.                                                             *)
(***************************************************************************)
EXTENDS Reconciliation, SumProofs, TLAPS

-----------------------------------------------------------------------------
(* Tables.                                                                  *)

(* Writing a new row keeps a table a table.                                 *)
LEMMA InsertRow ==
    ASSUME NEW Keys, NEW Row, NEW table, IsTable(table, Keys, Row),
           NEW key \in Keys, NEW row \in Row
    PROVE  IsTable(Insert(table, key, row), Keys, Row)
    BY DEF IsTable, Insert

(* Replacing a row keeps a table a table, with the same rows present.       *)
LEMMA UpdateRow ==
    ASSUME NEW Keys, NEW Row, NEW table, IsTable(table, Keys, Row),
           NEW key \in DOMAIN table, NEW row \in Row
    PROVE  /\ IsTable([table EXCEPT ![key] = row], Keys, Row)
           /\ DOMAIN [table EXCEPT ![key] = row] = DOMAIN table
    BY DEF IsTable

(* A row that is in a table has the table's shape.                          *)
LEMMA RowOf ==
    ASSUME NEW Keys, NEW Row, NEW table, IsTable(table, Keys, Row),
           NEW key \in DOMAIN table
    PROVE  table[key] \in Row /\ key \in Keys
    BY DEF IsTable

-----------------------------------------------------------------------------
(* Every row a row refers to exists, and a listing still to be inserted does *)
(* not exist yet.                                                           *)
References ==
    /\ DOMAIN redemptions \subseteq DOMAIN receipts
    /\ \A i \in DOMAIN creations : /\ creations[i].receipt \in DOMAIN receipts
                                    /\ i \notin DOMAIN listings
    /\ \A i \in DOMAIN listings : listings[i].receipt \in DOMAIN receipts
    /\ \A o \in DOMAIN offers : /\ o \in DOMAIN holds
                                /\ offers[o].listing \in DOMAIN listings
    /\ \A l \in DOMAIN loans : loans[l].receipt \in DOMAIN receipts
    /\ DOMAIN sales \subseteq DOMAIN loans
    /\ \A b \in DOMAIN bids : /\ b \in DOMAIN holds
                              /\ bids[b].loan \in DOMAIN sales

TypeInv == TypeOK /\ References

(* Nothing is in the empty table.                                           *)
LEMMA EmptyIsTable ==
    ASSUME NEW Keys, NEW Row
    PROVE  IsTable(EmptyTable, Keys, Row) /\ DOMAIN EmptyTable = {}
    BY DEF IsTable, EmptyTable

(* The market starts well typed.                                            *)
LEMMA InitType == Init => TypeInv
<1> SUFFICES ASSUME Init PROVE TypeInv
    OBVIOUS
<1> USE DEF Init
<1>1. CustodyTypeOK
    BY EmptyIsTable DEF CustodyInit, CustodyTypeOK
<1>2. SettlementTypeOK
    BY EmptyIsTable DEF SettlementInit, SettlementTypeOK
<1>3. OperationsTypeOK
    BY DEF OperationsInit, OperationsTypeOK
<1>4. MarketTypeOK
    BY EmptyIsTable DEF MarketInit, MarketTypeOK
<1>5. LendingTypeOK
    BY EmptyIsTable DEF LendingInit, LendingTypeOK
<1>6. LiquidationTypeOK
    BY EmptyIsTable DEF LiquidationInit, LiquidationTypeOK
<1>7. References
    BY EmptyIsTable
    DEF References, CustodyInit, SettlementInit, MarketInit, LendingInit, LiquidationInit
<1> QED BY <1>1, <1>2, <1>3, <1>4, <1>5, <1>6, <1>7 DEF TypeInv, TypeOK

-----------------------------------------------------------------------------
(* The operations of the components keep their component's types.           *)

(* A custody operation on an existing receipt keeps the receipts' table.    *)
LEMMA ReceiptUpdateType ==
    ASSUME CustodyTypeOK, NEW r \in DOMAIN receipts,
           NEW l \in Loans, NEW claimant \in Accounts,
           \/ EncumberReceipt(r, l)
           \/ ReleaseEncumbrance(r)
           \/ ClaimDefault(r, claimant)
           \/ BurnForLiquidation(r)
           \/ BurnForRedemption(r)
    PROVE  /\ IsTable(receipts', Receipts, Receipt)
           /\ DOMAIN receipts' = DOMAIN receipts
<1> USE DEF CustodyTypeOK
<1>1. receipts[r] \in Receipt
    BY RowOf
<1>2. PICK row \in Receipt : receipts' = [receipts EXCEPT ![r] = row]
  <2>1. CASE EncumberReceipt(r, l)
    <3>1. [receipts[r] EXCEPT !.status = "ENCUMBERED", !.loan = l] \in Receipt
        BY <1>1 DEF Receipt
    <3> QED BY <2>1, <3>1 DEF EncumberReceipt
  <2>2. CASE ReleaseEncumbrance(r)
    <3>1. [receipts[r] EXCEPT !.status = "IN_VAULT", !.loan = NoLoan] \in Receipt
        BY <1>1 DEF Receipt
    <3> QED BY <2>2, <3>1 DEF ReleaseEncumbrance
  <2>3. CASE ClaimDefault(r, claimant)
    BY <2>3 DEF ClaimDefault, Receipt
  <2>4. CASE BurnForLiquidation(r)
    <3>1. [receipts[r] EXCEPT !.status = "LIQUIDATED", !.loan = NoLoan] \in Receipt
        BY <1>1 DEF Receipt
    <3> QED BY <2>4, <3>1 DEF BurnForLiquidation
  <2>5. CASE BurnForRedemption(r)
    <3>1. [receipts[r] EXCEPT !.status = "RELEASED"] \in Receipt
        BY <1>1 DEF Receipt
    <3> QED BY <2>5, <3>1 DEF BurnForRedemption
  <2> QED BY <2>1, <2>2, <2>3, <2>4, <2>5
<1> QED BY <1>2, UpdateRow

(* Placing a hold keeps the ledger well typed.                              *)
LEMMA HoldType ==
    ASSUME SettlementTypeOK, NEW h \in Holds, NEW account \in Accounts,
           NEW amount \in Nat \ {0}, Hold(h, account, amount)
    PROVE  SettlementTypeOK' /\ DOMAIN holds' = DOMAIN holds \cup {h}
<1> USE DEF SettlementTypeOK, Hold, Owners
<1>1. available' \in [Owners -> Int] /\ held' \in [Accounts -> Int]
    OBVIOUS
<1>2. [status |-> "HELD", account |-> account, amount |-> amount] \in FundsHold
    BY DEF FundsHold
<1>3. IsTable(holds', Holds, FundsHold)
    BY <1>2, InsertRow
<1>4. DOMAIN holds' = DOMAIN holds \cup {h}
    BY DEF Insert
<1> QED BY <1>1, <1>3, <1>4

(* A settled hold is still a hold, and no row comes or goes.                *)
LEMMA HoldStatusType ==
    ASSUME SettlementTypeOK, NEW h \in DOMAIN holds,
           NEW status \in {"RELEASED", "REFUNDED"}
    PROVE  /\ IsTable([holds EXCEPT ![h].status = status], Holds, FundsHold)
           /\ DOMAIN [holds EXCEPT ![h].status = status] = DOMAIN holds
<1>1. holds[h] \in FundsHold
    BY RowOf DEF SettlementTypeOK
<1>2. [holds[h] EXCEPT !.status = status] \in FundsHold
    BY <1>1 DEF FundsHold
<1>3. [holds EXCEPT ![h].status = status]
        = [holds EXCEPT ![h] = [holds[h] EXCEPT !.status = status]]
    OBVIOUS
<1> QED BY <1>2, <1>3, UpdateRow DEF SettlementTypeOK

(* Settling a hold keeps the ledger well typed.                             *)
LEMMA ReleaseHoldType ==
    ASSUME SettlementTypeOK, NEW h \in DOMAIN holds,
           NEW distribution \in Distribution, ReleaseHold(h, distribution)
    PROVE  SettlementTypeOK' /\ DOMAIN holds' = DOMAIN holds
<1>1. holds[h].account \in Accounts /\ holds[h].amount \in Int
  <2>1. holds[h] \in FundsHold
      BY RowOf DEF SettlementTypeOK
  <2> QED BY <2>1 DEF FundsHold
<1>2. \A owner \in Owners : CreditOf(distribution, owner) \in Int
    BY DEF CreditOf, Distribution, Line
<1>3. CASE holds[h].status = "RELEASED"
    BY <1>3 DEF ReleaseHold, settlementVars, SettlementTypeOK
<1>4. CASE holds[h].status = "HELD"
  <2>1. IsTable(holds', Holds, FundsHold) /\ DOMAIN holds' = DOMAIN holds
      BY <1>4, HoldStatusType DEF ReleaseHold
  <2>2. available' \in [Owners -> Int] /\ held' \in [Accounts -> Int]
      BY <1>1, <1>2, <1>4 DEF ReleaseHold, SettlementTypeOK
  <2> QED BY <2>1, <2>2 DEF SettlementTypeOK
<1> QED BY <1>3, <1>4 DEF ReleaseHold

(* A refund leaves well-typed balances and holds.                           *)
LEMMA RefundHoldType ==
    ASSUME SettlementTypeOK, NEW h \in DOMAIN holds, RefundHold(h)
    PROVE  SettlementTypeOK' /\ DOMAIN holds' = DOMAIN holds
<1>1. holds[h].account \in Accounts /\ holds[h].amount \in Int
  <2>1. holds[h] \in FundsHold
      BY RowOf DEF SettlementTypeOK
  <2> QED BY <2>1 DEF FundsHold
<1>2. CASE holds[h].status = "HELD"
  <2>1. /\ held' = [held EXCEPT ![holds[h].account] = @ - holds[h].amount]
        /\ available' = [available EXCEPT ![holds[h].account] = @ + holds[h].amount]
        /\ holds' = [holds EXCEPT ![h].status = "REFUNDED"]
      BY <1>2 DEF RefundHold
  <2>2. IsTable(holds', Holds, FundsHold) /\ DOMAIN holds' = DOMAIN holds
      BY <2>1, HoldStatusType
  <2>3. available' \in [Owners -> Int] /\ held' \in [Accounts -> Int]
      BY <1>1, <2>1 DEF SettlementTypeOK, Owners
  <2> QED BY <2>2, <2>3 DEF SettlementTypeOK
<1>3. CASE holds[h].status # "HELD"
  <2>1. UNCHANGED settlementVars
      BY <1>3 DEF RefundHold
  <2> QED BY <2>1 DEF settlementVars, IsTable, SettlementTypeOK
<1> QED BY <1>2, <1>3

(* A transfer keeps the ledger well typed.                                  *)
LEMMA TransferType ==
    ASSUME SettlementTypeOK, NEW from \in Owners, NEW to \in Owners,
           NEW amount \in Int, Transfer(from, to, amount)
    PROVE  SettlementTypeOK' /\ DOMAIN holds' = DOMAIN holds
    BY DEF SettlementTypeOK, Transfer, IsTable

(* A market operation keeps the marketplace well typed, adds the rows it    *)
(* says it adds and removes no offer and no listing.                        *)
LEMMA BeginDraftType ==
    ASSUME MarketTypeOK, NEW i \in Listings, NEW caller \in Accounts,
           NEW r \in Receipts, BeginDraft(i, caller, r)
    PROVE  MarketTypeOK'
<1> USE DEF MarketTypeOK, BeginDraft
<1>1. [borrower |-> caller, receipt |-> r] \in Creation
    BY DEF Creation
<1> QED BY <1>1, InsertRow DEF IsTable

(* A draft leaves well-typed listings and creations.                        *)
LEMMA DraftType ==
    ASSUME MarketTypeOK, OperationsTypeOK, NEW i \in Listings, NEW rate \in Nat,
           NEW lifetime \in Nat, Draft(i, rate, lifetime)
    PROVE  MarketTypeOK'
<1> USE DEF MarketTypeOK, Draft
<1>1. creations[i] \in Creation
    BY RowOf
<1>2. [status |-> "DRAFT", borrower |-> creations[i].borrower,
       receipt |-> creations[i].receipt, maxRate |-> rate,
       expiresAt |-> now + lifetime] \in Listing
    BY <1>1 DEF Creation, Listing, OperationsTypeOK
<1>3. IsTable(listings', Listings, Listing)
    BY <1>2, InsertRow
<1>4. IsTable(creations', Listings, Creation)
    BY DEF IsTable
<1> QED BY <1>3, <1>4 DEF IsTable

(* Publishing leaves well-typed listings.                                   *)
LEMMA PublishType ==
    ASSUME MarketTypeOK, NEW i \in DOMAIN listings, Publish(i)
    PROVE  MarketTypeOK' /\ DOMAIN listings' = DOMAIN listings
<1> USE DEF MarketTypeOK, Publish
<1>1. listings[i] \in Listing
    BY RowOf
<1>2. [listings[i] EXCEPT !.status = "ACTIVE"] \in Listing
    BY <1>1 DEF Listing
<1> QED BY <1>2, UpdateRow DEF IsTable

(* Cancelling leaves well-typed listings and offers.                        *)
LEMMA CancelType ==
    ASSUME MarketTypeOK, NEW i \in Listings, NEW caller \in Accounts,
           Cancel(i, caller)
    PROVE  /\ MarketTypeOK'
           /\ DOMAIN listings' = DOMAIN listings
           /\ DOMAIN offers' = DOMAIN offers
<1> USE DEF MarketTypeOK, Cancel
<1>1. listings[i] \in Listing
    BY RowOf
<1>2. [listings[i] EXCEPT !.status = "CANCELLED"] \in Listing
    BY <1>1 DEF Listing
<1>3. IsTable(listings', Listings, Listing) /\ DOMAIN listings' = DOMAIN listings
    BY <1>2, UpdateRow
<1>4. \A o \in DOMAIN offers : offers'[o] \in Offer
    BY DEF Offer, IsTable
<1> QED BY <1>3, <1>4 DEF IsTable

(* Placing an offer leaves well-typed offers.                               *)
LEMMA AddOfferType ==
    ASSUME MarketTypeOK, OperationsTypeOK, NEW i \in Listings, NEW o \in Offers,
           NEW lender \in Accounts, NEW terms \in Terms, NEW expiresAt \in Int,
           AddOffer(i, o, lender, terms, expiresAt)
    PROVE  MarketTypeOK' /\ DOMAIN offers' = DOMAIN offers \cup {o}
<1> USE DEF MarketTypeOK, AddOffer
<1>1. terms \in [principal : Nat \ {0}, rate : Nat, duration : Nat \ {0}]
    BY PawnAssumption
<1>2. [status |-> "PENDING", listing |-> i, lender |-> lender,
       principal |-> terms.principal, rate |-> terms.rate,
       duration |-> terms.duration, createdAt |-> now,
       expiresAt |-> expiresAt] \in Offer
    BY <1>1 DEF Offer, OperationsTypeOK
<1>3. IsTable(offers', Offers, Offer)
    BY <1>2, InsertRow
<1>4. DOMAIN offers' = DOMAIN offers \cup {o}
    BY DEF Insert
<1> QED BY <1>3, <1>4 DEF IsTable

(* Withdrawing an offer leaves well-typed offers.                           *)
LEMMA WithdrawType ==
    ASSUME MarketTypeOK, NEW o \in Offers, NEW caller \in Accounts,
           Withdraw(o, caller)
    PROVE  MarketTypeOK' /\ DOMAIN offers' = DOMAIN offers
<1> USE DEF MarketTypeOK, Withdraw
<1>1. offers[o] \in Offer
    BY RowOf
<1>2. [offers[o] EXCEPT !.status = "WITHDRAWN"] \in Offer
    BY <1>1 DEF Offer
<1> QED BY <1>2, UpdateRow DEF IsTable

(* Accepting an offer leaves well-typed listings and offers.                *)
LEMMA AcceptType ==
    ASSUME MarketTypeOK, NEW o \in Offers, NEW caller \in Accounts,
           offers[o].listing \in DOMAIN listings, Accept(o, caller)
    PROVE  /\ MarketTypeOK'
           /\ DOMAIN listings' = DOMAIN listings
           /\ DOMAIN offers' = DOMAIN offers
<1> USE DEF MarketTypeOK, Accept
<1> DEFINE i == offers[o].listing
<1>1. listings[i] \in Listing
    BY RowOf
<1>2. [listings[i] EXCEPT !.status = "MATCHED"] \in Listing
    BY <1>1 DEF Listing
<1>3. IsTable(listings', Listings, Listing) /\ DOMAIN listings' = DOMAIN listings
    BY <1>2, UpdateRow
<1>4. \A p \in DOMAIN offers : offers'[p] \in Offer
    BY DEF Offer, IsTable
<1> QED BY <1>3, <1>4 DEF IsTable

-----------------------------------------------------------------------------
(* A loan made now is a well-formed loan; the other operations keep the     *)
(* table and its rows.                                                      *)
LEMMA OriginateType ==
    ASSUME LendingTypeOK, OperationsTypeOK, NEW l \in Loans, NEW r \in Receipts,
           NEW borrower \in Accounts, NEW lender \in Accounts,
           NEW offer \in Offer, Originate(l, r, borrower, lender, offer)
    PROVE  LendingTypeOK' /\ DOMAIN loans' = DOMAIN loans \cup {l}
<1> USE DEF Originate
<1>1. /\ params.gracePeriod \in Nat
      /\ params.liquidationFee \in 0..BasisPoints
      /\ now \in Nat
    BY OperationsAssumption DEF OperationsTypeOK, Parameters
<1>2. /\ offer.principal \in Nat \ {0}
      /\ offer.rate \in Nat
      /\ offer.duration \in Nat \ {0}
    BY DEF Offer
<1> DEFINE row == [status |-> "ACTIVE", receipt |-> r, borrower |-> borrower,
                   noteHolder |-> lender, principal |-> offer.principal,
                   rate |-> offer.rate, startedAt |-> now,
                   maturesAt |-> now + offer.duration,
                   graceEndsAt |-> now + offer.duration + params.gracePeriod,
                   liquidationFee |-> params.liquidationFee,
                   defaultedAt |-> NotDefaulted]
<1>3. row \in Loan
    BY <1>1, <1>2 DEF Loan, NotDefaulted
<1>4. loans' = Insert(loans, l, row) /\ l \notin DOMAIN loans
    OBVIOUS
<1>5. /\ row.maturesAt > row.startedAt
      /\ row.graceEndsAt >= row.maturesAt
      /\ row.status = "ACTIVE"
      /\ row.defaultedAt = NotDefaulted
    BY <1>1, <1>2
<1> HIDE DEF row
<1>6. IsTable(loans', Loans, Loan)
    BY <1>3, <1>4, InsertRow DEF LendingTypeOK
<1>7. /\ DOMAIN loans' = DOMAIN loans \cup {l}
      /\ loans'[l] = row
      /\ \A k \in DOMAIN loans : loans'[k] = loans[k]
    BY <1>4 DEF Insert
<1>8. \A k \in DOMAIN loans' : WellFormedLoan(k)'
    BY <1>5, <1>7 DEF LendingTypeOK, WellFormedLoan
<1> QED BY <1>6, <1>7, <1>8 DEF LendingTypeOK

(* The three ways a loan ends leave well-formed loans.                      *)
LEMMA LoanUpdateType ==
    ASSUME LendingTypeOK, OperationsTypeOK, NEW l \in DOMAIN loans,
           RecordRepayment(l) \/ MarkDefaulted(l) \/ MarkLiquidated(l)
    PROVE  LendingTypeOK' /\ DOMAIN loans' = DOMAIN loans
<1> USE DEF LendingTypeOK
<1>1. loans[l] \in Loan /\ WellFormedLoan(l)
    BY RowOf
<1>2. now \in Nat /\ now \in Int
    BY DEF OperationsTypeOK
<1>3. PICK row \in Loan :
         /\ loans' = [loans EXCEPT ![l] = row]
         /\ row.maturesAt = loans[l].maturesAt
         /\ row.startedAt = loans[l].startedAt
         /\ row.graceEndsAt = loans[l].graceEndsAt
         /\ row.status \in {"DEFAULTED", "LIQUIDATED"}
              <=> row.defaultedAt # NotDefaulted
  <2>1. CASE RecordRepayment(l)
    <3> DEFINE row == [loans[l] EXCEPT !.status = "REPAID"]
    <3>1. row \in Loan
        BY <1>1 DEF Loan
    <3>2. row.defaultedAt = NotDefaulted
        BY <1>1, <2>1 DEF Loan, WellFormedLoan, RecordRepayment
    <3> QED BY <1>1, <2>1, <3>1, <3>2 DEF RecordRepayment, Loan
  <2>2. CASE MarkDefaulted(l)
    <3> DEFINE row == [loans[l] EXCEPT !.status = "DEFAULTED", !.defaultedAt = now]
    <3>1. row \in Loan
        BY <1>1, <1>2 DEF Loan
    <3>2. row.defaultedAt # NotDefaulted
        BY <1>1, <1>2 DEF Loan, NotDefaulted
    <3> QED BY <1>1, <2>2, <3>1, <3>2 DEF MarkDefaulted, Loan
  <2>3. CASE MarkLiquidated(l)
    <3> DEFINE row == [loans[l] EXCEPT !.status = "LIQUIDATED"]
    <3>1. row \in Loan
        BY <1>1 DEF Loan
    <3>2. row.defaultedAt # NotDefaulted
        BY <1>1, <2>3 DEF Loan, WellFormedLoan, MarkLiquidated
    <3> QED BY <1>1, <2>3, <3>1, <3>2 DEF MarkLiquidated, Loan
  <2> QED BY <2>1, <2>2, <2>3
<1>4. IsTable(loans', Loans, Loan) /\ DOMAIN loans' = DOMAIN loans
    BY <1>3, UpdateRow
<1>5. \A k \in DOMAIN loans' : WellFormedLoan(k)'
    BY <1>1, <1>3, <1>4 DEF WellFormedLoan
<1> QED BY <1>4, <1>5

(* The sale's operations keep its tables.                                   *)
LEMMA ScheduleType ==
    ASSUME LiquidationTypeOK, NEW l \in Loans, NEW reserve \in Nat,
           Schedule(l, reserve)
    PROVE  LiquidationTypeOK' /\ DOMAIN sales' = DOMAIN sales \cup {l}
<1> USE DEF LiquidationTypeOK, Schedule
<1>1. [status |-> "SCHEDULED", reserve |-> reserve, closesAt |-> NotOpened,
       winner |-> NoBid] \in Sale
    BY DEF Sale, NotOpened
<1>2. IsTable(sales', Loans, Sale)
    BY <1>1, InsertRow
<1>3. DOMAIN sales' = DOMAIN sales \cup {l}
    BY DEF Insert
<1> QED BY <1>2, <1>3 DEF IsTable

(* Opening a sale leaves well-typed sales.                                  *)
LEMMA OpenType ==
    ASSUME LiquidationTypeOK, OperationsTypeOK, NEW l \in Loans,
           NEW window \in Nat, Open(l, window)
    PROVE  LiquidationTypeOK' /\ DOMAIN sales' = DOMAIN sales
<1> USE DEF LiquidationTypeOK, Open
<1>1. sales[l] \in Sale /\ l \in DOMAIN sales
    BY RowOf
<1>2. now + window \in Int
    BY DEF OperationsTypeOK
<1> DEFINE row == [sales[l] EXCEPT !.status = "BIDDING", !.closesAt = now + window]
<1>3. row \in Sale
    BY <1>1, <1>2 DEF Sale
<1>4. sales' = [sales EXCEPT ![l] = row]
    OBVIOUS
<1> QED BY <1>1, <1>3, <1>4, UpdateRow DEF IsTable

(* Settling a sale leaves well-typed sales.                                 *)
LEMMA SettleSaleType ==
    ASSUME LiquidationTypeOK, NEW l \in DOMAIN sales, NEW b \in Bids, Settle(l, b)
    PROVE  LiquidationTypeOK' /\ DOMAIN sales' = DOMAIN sales
<1> USE DEF LiquidationTypeOK, Settle
<1>1. sales[l] \in Sale
    BY RowOf
<1>2. [sales[l] EXCEPT !.status = "SETTLED", !.winner = b] \in Sale
    BY <1>1 DEF Sale
<1> QED BY <1>2, UpdateRow DEF IsTable

(* Placing a bid leaves well-typed bids.                                    *)
LEMMA AddBidType ==
    ASSUME LiquidationTypeOK, NEW l \in Loans, NEW b \in Bids,
           NEW bidder \in Accounts, NEW amount \in Nat \ {0},
           AddBid(l, b, bidder, amount)
    PROVE  LiquidationTypeOK' /\ DOMAIN bids' = DOMAIN bids \cup {b}
<1> USE DEF LiquidationTypeOK, AddBid
<1>1. [loan |-> l, bidder |-> bidder, amount |-> amount] \in Bid
    BY DEF Bid
<1>2. IsTable(bids', Bids, Bid)
    BY <1>1, InsertRow
<1>3. DOMAIN bids' = DOMAIN bids \cup {b}
    BY DEF Insert
<1> QED BY <1>2, <1>3 DEF IsTable
-----------------------------------------------------------------------------
(* What an action leaves alone stays well typed.                            *)
LEMMA Frame ==
    ASSUME TypeOK
    PROVE  /\ UNCHANGED custodyVars => CustodyTypeOK'
           /\ UNCHANGED settlementVars => SettlementTypeOK'
           /\ UNCHANGED operationsVars => OperationsTypeOK'
           /\ UNCHANGED marketVars => MarketTypeOK'
           /\ UNCHANGED loans => LendingTypeOK'
           /\ UNCHANGED saleVars => LiquidationTypeOK'
<1> USE DEF TypeOK, IsTable
<1>1. UNCHANGED custodyVars => CustodyTypeOK'
    BY DEF CustodyTypeOK, custodyVars
<1>2. UNCHANGED settlementVars => SettlementTypeOK'
    BY DEF SettlementTypeOK, settlementVars
<1>3. UNCHANGED operationsVars => OperationsTypeOK'
    BY DEF OperationsTypeOK, operationsVars
<1>4. UNCHANGED marketVars => MarketTypeOK'
    BY DEF MarketTypeOK, marketVars
<1>5. UNCHANGED loans => LendingTypeOK'
    BY DEF LendingTypeOK, WellFormedLoan
<1>6. UNCHANGED saleVars => LiquidationTypeOK'
    BY DEF LiquidationTypeOK, saleVars
<1> QED BY <1>1, <1>2, <1>3, <1>4, <1>5, <1>6

(* What is owed is an integer, and both distributions have their shape.     *)
LEMMA AmountDueType ==
    ASSUME LendingTypeOK, OperationsTypeOK, NEW l \in DOMAIN loans
    PROVE  AmountDue(l, now) \in Int
<1>1. loans[l] \in Loan
    BY RowOf DEF LendingTypeOK
<1>2. /\ loans[l].principal \in Int
      /\ loans[l].rate \in Int
      /\ loans[l].startedAt \in Int
      /\ loans[l].maturesAt \in Int
      /\ now \in Int
    BY <1>1 DEF Loan, OperationsTypeOK
<1>3. Elapsed(l, now) \in Int
    BY <1>2 DEF Elapsed
<1>4. BasisPoints * Year \in Nat \ {0}
    BY OperationsAssumption
<1>5. loans[l].principal * loans[l].rate * Elapsed(l, now) \in Int
    BY <1>2, <1>3
<1>6. AccruedInterest(l, now) \in Int
    BY <1>4, <1>5 DEF AccruedInterest
<1> QED BY <1>2, <1>6 DEF AmountDue

(* A share of an amount is an integer.                                      *)
LEMMA ShareType ==
    ASSUME NEW amount \in Int, NEW basisPoints \in Int
    PROVE  Share(amount, basisPoints) \in Int
<1>1. amount * basisPoints \in Int
    OBVIOUS
<1> QED BY <1>1, OperationsAssumption DEF Share

(* The liquidation waterfall is a distribution.                             *)
LEMMA WaterfallType ==
    ASSUME LendingTypeOK, OperationsTypeOK, NEW l \in DOMAIN loans,
           NEW proceeds \in Int
    PROVE  Waterfall(l, proceeds) \in Distribution
<1>1. loans[l] \in Loan
    BY RowOf DEF LendingTypeOK
<1>2. /\ loans[l].noteHolder \in Owners
      /\ loans[l].borrower \in Owners
      /\ loans[l].liquidationFee \in Int
    BY <1>1, OperationsAssumption DEF Loan, Owners
<1>3. ToLender(l, proceeds) \in Int
    BY AmountDueType DEF ToLender
<1>4. proceeds - ToLender(l, proceeds) \in Int
    BY <1>3
<1>5. LiquidationFee(l, proceeds) \in Int
    BY <1>2, <1>4, ShareType DEF LiquidationFee
<1>6. Surplus(l, proceeds) \in Int
    BY <1>4, <1>5 DEF Surplus
<1>7. proceeds - ToLender(l, proceeds) - LiquidationFee(l, proceeds)
        - Surplus(l, proceeds) \in Int
    BY <1>4, <1>5, <1>6
<1>8. {"feeRevenue", "rounding"} \subseteq Owners
    BY DEF Owners, Platform
<1> QED BY <1>2, <1>3, <1>5, <1>6, <1>7, <1>8 DEF Waterfall, Distribution, Line

(* The lines of an origination are a distribution.                          *)
LEMMA OriginationLinesType ==
    ASSUME MarketTypeOK, OperationsTypeOK, NEW o \in DOMAIN offers,
           offers[o].listing \in DOMAIN listings
    PROVE  OriginationLines(o) \in Distribution
<1>1. offers[o] \in Offer /\ listings[offers[o].listing] \in Listing
    BY RowOf DEF MarketTypeOK
<1>2. offers[o].principal \in Int /\ listings[offers[o].listing].borrower \in Owners
    BY <1>1 DEF Offer, Listing, Owners
<1>3. params.originationFee \in Int
    BY OperationsAssumption DEF OperationsTypeOK, Parameters
<1>4. OriginationFee(o) \in Int
    BY <1>2, <1>3, ShareType DEF OriginationFee
<1>5. {"feeRevenue", "rounding"} \subseteq Owners
    BY DEF Owners, Platform
<1> QED BY <1>2, <1>4, <1>5 DEF OriginationLines, Distribution, Line, NoLine
-----------------------------------------------------------------------------
(* Every action keeps the types and the references.                         *)
LEMMA CustodyStepType ==
    ASSUME TypeInv, CustodyStep
    PROVE  TypeInv'
<1> USE DEF TypeInv, TypeOK
<1>1. /\ SettlementTypeOK' /\ OperationsTypeOK' /\ MarketTypeOK'
      /\ LendingTypeOK' /\ LiquidationTypeOK'
    BY Frame DEF CustodyStep
<1>2. UNCHANGED <<holds, creations, listings, offers, loans, sales, bids>>
    BY DEF CustodyStep, settlementVars, marketVars, saleVars
<1>3. ASSUME NEW r \in Receipts, IssueReceipt(r)
      PROVE  CustodyTypeOK' /\ References'
  <2> USE <1>3 DEF IssueReceipt, CustodyTypeOK
  <2>1. [status |-> "IN_VAULT", holder |-> IntakeBorrower[r], loan |-> NoLoan]
          \in Receipt
      BY CustodyAssumption DEF Receipt
  <2>2. IsTable(receipts', Receipts, Receipt)
      BY <2>1, InsertRow
  <2>3. DOMAIN receipts' = DOMAIN receipts \cup {r}
      BY DEF Insert
  <2> QED BY <1>2, <2>2, <2>3 DEF References, IsTable
<1>4. ASSUME NEW r \in Receipts, NEW caller \in Accounts,
             RequestRedemption(r, caller)
      PROVE  CustodyTypeOK' /\ References'
  <2> USE <1>4 DEF RequestRedemption
  <2>1. /\ IsTable(receipts', Receipts, Receipt)
        /\ DOMAIN receipts' = DOMAIN receipts
    <3>1. receipts' = [receipts EXCEPT ![r].status = "RELEASED"] /\ r \in DOMAIN receipts
        BY DEF BurnForRedemption
    <3>2. receipts[r] \in Receipt
        BY <3>1, RowOf DEF CustodyTypeOK
    <3>3. [receipts[r] EXCEPT !.status = "RELEASED"] \in Receipt
        BY <3>2 DEF Receipt
    <3> QED BY <3>1, <3>3, UpdateRow DEF CustodyTypeOK
  <2>2. [status |-> "REQUESTED", requestedBy |-> caller] \in Redemption
      BY DEF Redemption
  <2>3. IsTable(redemptions', Receipts, Redemption)
      BY <2>2, InsertRow DEF CustodyTypeOK
  <2>4. DOMAIN redemptions' = DOMAIN redemptions \cup {r}
      BY DEF Insert
  <2> QED BY <1>2, <2>1, <2>3, <2>4 DEF References, CustodyTypeOK
<1>5. ASSUME NEW r \in Receipts, VerifyRedemption(r) \/ ConfirmRelease(r)
      PROVE  CustodyTypeOK' /\ References'
  <2>1. PICK status \in {"VERIFIED", "RELEASED"} :
           /\ redemptions' = [redemptions EXCEPT ![r].status = status]
           /\ r \in DOMAIN redemptions
           /\ receipts' = receipts
      BY <1>5 DEF VerifyRedemption, ConfirmRelease
  <2>2. redemptions[r] \in Redemption
      BY <2>1, RowOf DEF CustodyTypeOK
  <2>3. [redemptions[r] EXCEPT !.status = status] \in Redemption
      BY <2>2 DEF Redemption
  <2>4. /\ IsTable(redemptions', Receipts, Redemption)
        /\ DOMAIN redemptions' = DOMAIN redemptions
      BY <2>1, <2>3, UpdateRow DEF CustodyTypeOK
  <2> QED BY <1>2, <2>1, <2>4 DEF References, CustodyTypeOK, IsTable
<1>6. CustodyTypeOK' /\ References'
    BY <1>3, <1>4, <1>5 DEF CustodyStep
<1> QED BY <1>1, <1>6

(* A deposit or a withdrawal keeps the typing.                              *)
LEMMA MoneyStepType ==
    ASSUME TypeInv, MoneyStep
    PROVE  TypeInv'
<1> USE DEF TypeInv, TypeOK
<1>1. PICK account \in Accounts, amount \in Payments :
         Deposit(account, amount) \/ WithdrawFunds(account, amount)
    BY DEF MoneyStep
<1>2. account \in Owners /\ "float" \in Owners /\ amount \in Int
    BY PawnAssumption DEF Owners, Platform
<1>3. SettlementTypeOK' /\ DOMAIN holds' = DOMAIN holds
    BY <1>1, <1>2, TransferType DEF Deposit, WithdrawFunds
<1>4. UNCHANGED <<custodyVars, operationsVars, marketVars, loans, saleVars>>
    BY <1>1 DEF Deposit, WithdrawFunds
<1>5. /\ CustodyTypeOK' /\ OperationsTypeOK' /\ MarketTypeOK'
      /\ LendingTypeOK' /\ LiquidationTypeOK'
    BY <1>4, Frame
<1>6. References'
    BY <1>3, <1>4 DEF References, custodyVars, marketVars, saleVars
<1> QED BY <1>3, <1>5, <1>6

(* A step of the marketplace keeps the typing.                              *)
LEMMA MarketStepType ==
    ASSUME TypeInv, MarketStep
    PROVE  TypeInv'
<1> USE DEF TypeInv, TypeOK
<1>1. ASSUME NEW i \in Listings, NEW caller \in Accounts, NEW r \in Receipts,
             BeginListing(i, caller, r)
      PROVE  TypeInv'
  <2> USE <1>1 DEF BeginListing
  <2>1. MarketTypeOK'
      BY BeginDraftType
  <2>2. References'
      BY DEF References, BeginDraft, Insert, InVault, custodyVars, settlementVars,
             saleVars
  <2> QED BY <2>1, <2>2, Frame
<1>2. ASSUME NEW i \in Listings, NEW caller \in Accounts,
             PublishListing(i, caller)
      PROVE  TypeInv'
  <2> USE <1>2 DEF PublishListing
  <2>1. MarketTypeOK' /\ DOMAIN listings' = DOMAIN listings
      BY PublishType
  <2>2. \A j \in DOMAIN listings : listings'[j].receipt = listings[j].receipt
    <3>1. listings[i] \in Listing
        BY RowOf DEF MarketTypeOK
    <3> QED BY <3>1 DEF Publish, Listing
  <2>3. References'
      BY <2>1, <2>2
      DEF References, Publish, custodyVars, settlementVars, saleVars
  <2> QED BY <2>1, <2>3, Frame
<1>3. ASSUME NEW i \in Listings, NEW caller \in Accounts,
             CancelListing(i, caller)
      PROVE  TypeInv'
  <2> USE <1>3 DEF CancelListing
  <2>1. /\ MarketTypeOK'
        /\ DOMAIN listings' = DOMAIN listings
        /\ DOMAIN offers' = DOMAIN offers
      BY CancelType
  <2>2. \A j \in DOMAIN listings : listings'[j].receipt = listings[j].receipt
    <3>1. listings[i] \in Listing
        BY RowOf DEF MarketTypeOK, Cancel
    <3> QED BY <3>1 DEF Cancel, Listing
  <2>3. \A o \in DOMAIN offers : offers'[o].listing = offers[o].listing
    <3>1. \A o \in DOMAIN offers : offers[o] \in Offer
        BY RowOf DEF MarketTypeOK
    <3> QED BY <3>1 DEF Cancel, Offer
  <2>4. References'
      BY <2>1, <2>2, <2>3
      DEF References, Cancel, custodyVars, settlementVars, saleVars
  <2> QED BY <2>1, <2>4, Frame
<1>4. ASSUME NEW i \in Listings, NEW terms \in Terms, NEW rate \in ListingRates,
             NEW lifetime \in ListingLifetimes,
             CreateListing(i, terms.principal, rate, lifetime)
      PROVE  TypeInv'
  <2> USE <1>4 DEF CreateListing
  <2>1. rate \in Nat /\ lifetime \in Nat
      BY PawnAssumption
  <2>2. MarketTypeOK'
      BY <2>1, DraftType
  <2>3. References'
      BY DEF References, Draft, Insert, custodyVars, settlementVars, saleVars
  <2> QED BY <2>2, <2>3, Frame
<1>5. ASSUME NEW i \in Listings, NEW o \in Offers, NEW lender \in Accounts,
             NEW terms \in Terms, NEW lifetime \in OfferLifetimes,
             PlaceOffer(i, o, lender, terms, lifetime)
      PROVE  TypeInv'
  <2> USE <1>5 DEF PlaceOffer
  <2>1. now + lifetime \in Int /\ terms.principal \in Nat \ {0}
      BY PawnAssumption DEF OperationsTypeOK
  <2>2. MarketTypeOK' /\ DOMAIN offers' = DOMAIN offers \cup {o}
      BY <2>1, AddOfferType
  <2>3. SettlementTypeOK' /\ DOMAIN holds' = DOMAIN holds \cup {o}
      BY <2>1, HoldType DEF Holds
  <2>4. References'
      BY <2>2, <2>3 DEF References, AddOffer, Insert, custodyVars, saleVars
  <2> QED BY <2>2, <2>3, <2>4, Frame
<1>6. ASSUME NEW o \in Offers, NEW caller \in Accounts, WithdrawOffer(o, caller)
      PROVE  TypeInv'
  <2> USE <1>6 DEF WithdrawOffer
  <2>1. MarketTypeOK' /\ DOMAIN offers' = DOMAIN offers
      BY WithdrawType
  <2>2. o \in DOMAIN holds
      BY DEF Withdraw, References
  <2>3. SettlementTypeOK' /\ DOMAIN holds' = DOMAIN holds
      BY <2>2, RefundHoldType
  <2>4. \A p \in DOMAIN offers : offers'[p].listing = offers[p].listing
    <3>1. offers[o] \in Offer
        BY RowOf DEF MarketTypeOK, Withdraw
    <3> QED BY <3>1 DEF Withdraw, Offer
  <2>5. References'
      BY <2>1, <2>3, <2>4 DEF References, Withdraw, custodyVars, saleVars
  <2> QED BY <2>1, <2>3, <2>5, Frame
<1>7. ASSUME NEW o \in Offers, NEW caller \in Accounts, ReclaimHold(o, caller)
      PROVE  TypeInv'
  <2> USE <1>7 DEF ReclaimHold
  <2>1. o \in DOMAIN holds
      BY DEF References
  <2>2. SettlementTypeOK' /\ DOMAIN holds' = DOMAIN holds
      BY <2>1, RefundHoldType
  <2>3. References'
      BY <2>2 DEF References, marketVars, custodyVars, saleVars
  <2> QED BY <2>2, <2>3, Frame
<1> QED BY <1>1, <1>2, <1>3, <1>4, <1>5, <1>6, <1>7 DEF MarketStep

(* A step of a loan keeps the typing.                                       *)
LEMMA LendingStepType ==
    ASSUME TypeInv, LendingStep
    PROVE  TypeInv'
<1> USE DEF TypeInv, TypeOK
<1>1. ASSUME NEW o \in Offers, NEW l \in Loans, NEW caller \in Accounts,
             AcceptOffer(o, l, caller)
      PROVE  TypeInv'
  <2> USE <1>1 DEF AcceptOffer
  <2> DEFINE i == offers[o].listing
             r == listings[i].receipt
  <2>1. /\ o \in DOMAIN offers /\ o \in DOMAIN holds
        /\ i \in DOMAIN listings /\ r \in DOMAIN receipts
      BY DEF Accept, References
  <2>2. offers[o] \in Offer /\ listings[i] \in Listing
      BY <2>1, RowOf DEF MarketTypeOK
  <2>3. /\ MarketTypeOK'
        /\ DOMAIN listings' = DOMAIN listings
        /\ DOMAIN offers' = DOMAIN offers
      BY <2>1, AcceptType
  <2>4. SettlementTypeOK' /\ DOMAIN holds' = DOMAIN holds
      BY <2>1, OriginationLinesType, ReleaseHoldType
  <2>5. IsTable(receipts', Receipts, Receipt) /\ DOMAIN receipts' = DOMAIN receipts
    <3>1. NoLoan \notin Loans /\ Accounts # {}
        BY IdentifierAssumption
    <3> QED BY <2>1, <3>1, ReceiptUpdateType
  <2>6. LendingTypeOK' /\ DOMAIN loans' = DOMAIN loans \cup {l}
    <3>1. offers[o].lender \in Accounts /\ r \in Receipts
             /\ listings[i].borrower \in Accounts
        BY <2>2 DEF Offer, Listing
    <3> QED BY <2>2, <3>1, OriginateType
  <2>7. /\ \A j \in DOMAIN listings : listings'[j].receipt = listings[j].receipt
        /\ \A p \in DOMAIN offers : offers'[p].listing = offers[p].listing
    <3>1. \A p \in DOMAIN offers : offers[p] \in Offer
        BY RowOf DEF MarketTypeOK
    <3> QED BY <2>1, <2>2, <3>1 DEF Accept, Offer, Listing
  <2>8. \A k \in DOMAIN loans' : loans'[k].receipt \in DOMAIN receipts
      BY <2>1 DEF Originate, Insert, References
  <2>9. References'
      BY <2>3, <2>4, <2>5, <2>6, <2>7, <2>8 DEF References, Accept, saleVars
  <2>10. CustodyTypeOK' /\ OperationsTypeOK' /\ LiquidationTypeOK'
      BY <2>5, Frame DEF CustodyTypeOK, IsTable
  <2> QED BY <2>3, <2>4, <2>6, <2>9, <2>10
<1>2. ASSUME NEW l \in Loans, NEW caller \in Accounts, RepayLoan(l, caller)
      PROVE  TypeInv'
  <2> USE <1>2 DEF RepayLoan
  <2>1. loans[l] \in Loan /\ loans[l].receipt \in DOMAIN receipts
      BY RowOf DEF LendingTypeOK, References
  <2>2. LendingTypeOK' /\ DOMAIN loans' = DOMAIN loans
      BY LoanUpdateType
  <2>3. SettlementTypeOK' /\ DOMAIN holds' = DOMAIN holds
    <3>1. caller \in Owners /\ loans[l].noteHolder \in Owners
        BY <2>1 DEF Loan, Owners
    <3> QED BY <3>1, AmountDueType, TransferType
  <2>4. IsTable(receipts', Receipts, Receipt) /\ DOMAIN receipts' = DOMAIN receipts
      BY <2>1, ReceiptUpdateType
  <2>5. \A k \in DOMAIN loans : loans'[k].receipt = loans[k].receipt
      BY <2>1 DEF RecordRepayment, Loan
  <2>6. References'
      BY <2>2, <2>3, <2>4, <2>5 DEF References, marketVars, saleVars
  <2>7. CustodyTypeOK' /\ OperationsTypeOK' /\ MarketTypeOK' /\ LiquidationTypeOK'
      BY <2>4, Frame DEF CustodyTypeOK, IsTable
  <2> QED BY <2>2, <2>3, <2>6, <2>7
<1>3. ASSUME NEW l \in Loans, NEW caller \in Accounts, MarkDefault(l, caller)
      PROVE  TypeInv'
  <2> USE <1>3 DEF MarkDefault
  <2>1. LendingTypeOK' /\ DOMAIN loans' = DOMAIN loans
      BY LoanUpdateType
  <2>2. \A k \in DOMAIN loans : loans'[k].receipt = loans[k].receipt
    <3>1. loans[l] \in Loan
        BY RowOf DEF LendingTypeOK
    <3> QED BY <3>1 DEF MarkDefaulted, Loan
  <2>3. References'
      BY <2>1, <2>2
      DEF References, custodyVars, settlementVars, marketVars, saleVars
  <2> QED BY <2>1, <2>3, Frame
<1>4. ASSUME NEW l \in Loans, NEW caller \in Accounts, ClaimReceipt(l, caller)
      PROVE  TypeInv'
  <2> USE <1>4 DEF ClaimReceipt
  <2>1. loans[l].receipt \in DOMAIN receipts
      BY DEF References
  <2>2. IsTable(receipts', Receipts, Receipt) /\ DOMAIN receipts' = DOMAIN receipts
      BY <2>1, ReceiptUpdateType
  <2>3. References'
      BY <2>2 DEF References, settlementVars, marketVars, saleVars
  <2>4. CustodyTypeOK'
      BY <2>2 DEF CustodyTypeOK, IsTable
  <2> QED BY <2>3, <2>4, Frame
<1> QED BY <1>1, <1>2, <1>3, <1>4 DEF LendingStep

(* A step of a liquidation sale keeps the typing.                           *)
LEMMA SaleStepType ==
    ASSUME TypeInv, SaleStep
    PROVE  TypeInv'
<1> USE DEF TypeInv, TypeOK
<1>1. ASSUME NEW l \in Loans, NEW reserve \in Reserves,
             ScheduleLiquidation(l, reserve)
      PROVE  TypeInv'
  <2> USE <1>1 DEF ScheduleLiquidation
  <2>1. LiquidationTypeOK' /\ DOMAIN sales' = DOMAIN sales \cup {l}
      BY PawnAssumption, ScheduleType
  <2>2. References'
      BY <2>1 DEF References, Schedule, custodyVars, settlementVars, marketVars
  <2> QED BY <2>1, <2>2, Frame
<1>2. ASSUME NEW l \in Loans, NEW window \in Windows, OpenLiquidation(l, window)
      PROVE  TypeInv'
  <2> USE <1>2 DEF OpenLiquidation
  <2>1. LiquidationTypeOK' /\ DOMAIN sales' = DOMAIN sales
      BY PawnAssumption, OpenType
  <2>2. References'
      BY <2>1 DEF References, Open, custodyVars, settlementVars, marketVars
  <2> QED BY <2>1, <2>2, Frame
<1>3. ASSUME NEW l \in Loans, NEW b \in Bids, NEW bidder \in Accounts,
             NEW amount \in BidAmounts, PlaceBid(l, b, bidder, amount)
      PROVE  TypeInv'
  <2> USE <1>3 DEF PlaceBid
  <2>1. amount \in Nat \ {0}
      BY PawnAssumption
  <2>2. LiquidationTypeOK' /\ DOMAIN bids' = DOMAIN bids \cup {b}
      BY <2>1, AddBidType
  <2>3. SettlementTypeOK' /\ DOMAIN holds' = DOMAIN holds \cup {b}
      BY <2>1, HoldType DEF Holds
  <2>4. References'
      BY <2>2, <2>3 DEF References, AddBid, Insert, custodyVars, marketVars
  <2> QED BY <2>2, <2>3, <2>4, Frame
<1>4. ASSUME NEW b \in Bids, NEW caller \in Accounts, ReclaimBid(b, caller)
      PROVE  TypeInv'
  <2> USE <1>4 DEF ReclaimBid
  <2>1. SettlementTypeOK' /\ DOMAIN holds' = DOMAIN holds
      BY RefundHoldType DEF References
  <2>2. References'
      BY <2>1 DEF References, custodyVars, marketVars, saleVars
  <2> QED BY <2>1, <2>2, Frame
<1>5. ASSUME NEW l \in Loans, NEW b \in Bids, CloseLiquidation(l, b)
      PROVE  TypeInv'
  <2> USE <1>5 DEF CloseLiquidation
  <2>1. /\ b \in DOMAIN bids /\ b \in DOMAIN holds
        /\ l \in DOMAIN loans /\ loans[l].receipt \in DOMAIN receipts
      BY DEF Settle, BidsOn, References
  <2>2. bids[b].amount \in Int /\ loans[l] \in Loan
    <3>1. bids[b] \in Bid /\ loans[l] \in Loan
        BY <2>1, RowOf DEF LiquidationTypeOK, LendingTypeOK
    <3> QED BY <3>1 DEF Bid
  <2>3. SettlementTypeOK' /\ DOMAIN holds' = DOMAIN holds
      BY <2>1, <2>2, WaterfallType, ReleaseHoldType
  <2>4. IsTable(receipts', Receipts, Receipt) /\ DOMAIN receipts' = DOMAIN receipts
    <3>1. loans[l].borrower \in Accounts
        BY <2>2 DEF Loan
    <3> QED BY <2>1, <3>1, ReceiptUpdateType
  <2>5. LendingTypeOK' /\ DOMAIN loans' = DOMAIN loans
      BY <2>1, LoanUpdateType
  <2>6. LiquidationTypeOK' /\ DOMAIN sales' = DOMAIN sales
      BY SettleSaleType
  <2>7. \A k \in DOMAIN loans : loans'[k].receipt = loans[k].receipt
      BY <2>2 DEF MarkLiquidated, Loan
  <2>8. References'
      BY <2>3, <2>4, <2>5, <2>6, <2>7 DEF References, Settle, marketVars
  <2>9. CustodyTypeOK'
      BY <2>4 DEF CustodyTypeOK, IsTable
  <2> QED BY <2>3, <2>5, <2>6, <2>8, <2>9, Frame
<1> QED BY <1>1, <1>2, <1>3, <1>4, <1>5 DEF SaleStep

(* The clock and the administrator keep the typing.                         *)
LEMMA OperationsStepType ==
    ASSUME TypeInv, TimePasses \/ Administer
    PROVE  TypeInv'
<1> USE DEF TypeInv, TypeOK
<1>1. UNCHANGED <<custodyVars, settlementVars, marketVars, loans, saleVars>>
    BY DEF TimePasses, Administer
<1>2. OperationsTypeOK'
    BY OperationsAssumption
    DEF TimePasses, Administer, Tick, SetPause, ChangeParameters, OperationsTypeOK
<1>3. References'
    BY <1>1 DEF References, custodyVars, settlementVars, marketVars, saleVars
<1> QED BY <1>1, <1>2, <1>3, Frame

(* Every step keeps the typing and the references.                          *)
LEMMA TypeStep == TypeInv /\ [Next]_vars => TypeInv'
<1> SUFFICES ASSUME TypeInv, [Next]_vars PROVE TypeInv'
    OBVIOUS
<1>1. CASE Next
    BY <1>1, CustodyStepType, MoneyStepType, MarketStepType, LendingStepType,
       SaleStepType, OperationsStepType DEF Next
<1>2. CASE UNCHANGED vars
  <2>1. UNCHANGED <<custodyVars, settlementVars, operationsVars, marketVars, loans,
                    saleVars>>
      BY <1>2 DEF vars, custodyVars, settlementVars, operationsVars, marketVars, saleVars
  <2>2. References'
      BY <1>2 DEF TypeInv, References, vars
  <2> QED BY <2>1, <2>2, Frame DEF TypeInv, TypeOK
<1> QED BY <1>1, <1>2

(* Every table of the market holds rows of its shape, and no row is ever    *)
(* written that points at a row that does not exist.                        *)
THEOREM TypeCorrect == Spec => []TypeOK
<1>1. Spec => []TypeInv
    BY InitType, TypeStep, PTL DEF Spec
<1>2. TypeInv => TypeOK
    BY DEF TypeInv
<1> QED BY <1>1, <1>2, PTL

-----------------------------------------------------------------------------
(* That an item backs the loans made on it: the inductive invariant of the  *)
(* receipts, listings, loans, sales and redemptions, and what follows.      *)

(* At most one listing of a receipt is a draft or active.                   *)
OneLiveListing ==
    \A i, j \in DOMAIN listings :
        IsLive(i) /\ IsLive(j) /\ listings[i].receipt = listings[j].receipt => i = j

CollateralInv ==
    /\ TypeInv
    /\ OneLiveListing
    /\ EncumbranceBacked
    /\ ActiveListingUnencumbered
    /\ CollateralKept
    /\ SaleMatchesLoan
    /\ RedemptionBurned

(* The rows of the tables, with their shapes.                               *)
LEMMA Rows ==
    ASSUME TypeInv
    PROVE  /\ \A r \in DOMAIN receipts : receipts[r] \in Receipt
           /\ \A i \in DOMAIN listings : listings[i] \in Listing
           /\ \A l \in DOMAIN loans : loans[l] \in Loan
           /\ \A l \in DOMAIN sales : sales[l] \in Sale
           /\ \A i \in DOMAIN creations : creations[i] \in Creation
           /\ \A o \in DOMAIN offers : offers[o] \in Offer
    BY DEF TypeInv, TypeOK, IsTable, CustodyTypeOK, MarketTypeOK, LendingTypeOK,
           LiquidationTypeOK

(* Nothing is pledged at the start.                                         *)
LEMMA InitCollateral == Init => CollateralInv
<1> SUFFICES ASSUME Init PROVE CollateralInv
    OBVIOUS
<1>1. TypeInv
    BY InitType
<1>2. /\ DOMAIN receipts = {} /\ DOMAIN redemptions = {} /\ DOMAIN listings = {}
      /\ DOMAIN loans = {}
    BY EmptyIsTable DEF Init, CustodyInit, MarketInit, LendingInit
<1> QED BY <1>1, <1>2
    DEF CollateralInv, OneLiveListing, EncumbranceBacked, ActiveListingUnencumbered,
        CollateralKept, SaleMatchesLoan, RedemptionBurned

(* Steps that touch none of the five tables keep the invariant.             *)
LEMMA CollateralFrame ==
    ASSUME CollateralInv, TypeInv',
           UNCHANGED <<receipts, redemptions, listings, loans, sales>>
    PROVE  CollateralInv'
    BY DEF CollateralInv, OneLiveListing, IsLive, EncumbranceBacked,
           ActiveListingUnencumbered, CollateralKept, NeverDefaulted,
           SaleMatchesLoan, RedemptionBurned

-----------------------------------------------------------------------------
(* Custody.                                                                 *)
LEMMA IssueReceiptCollateral ==
    ASSUME CollateralInv, NEW r \in Receipts, IssueReceipt(r),
           UNCHANGED <<listings, loans, sales>>
    PROVE  /\ OneLiveListing' /\ EncumbranceBacked' /\ ActiveListingUnencumbered'
           /\ CollateralKept' /\ SaleMatchesLoan' /\ RedemptionBurned'
<1> USE DEF CollateralInv, IssueReceipt
<1>1. /\ DOMAIN receipts' = DOMAIN receipts \cup {r}
      /\ \A q \in DOMAIN receipts : receipts'[q] = receipts[q]
      /\ receipts'[r].status = "IN_VAULT"
    BY DEF Insert
<1>2. References
    BY DEF TypeInv
<1>3. OneLiveListing'
    BY DEF OneLiveListing, IsLive
<1>4. EncumbranceBacked'
    BY <1>1 DEF EncumbranceBacked
<1>5. ActiveListingUnencumbered'
    BY <1>1, <1>2 DEF ActiveListingUnencumbered, References
<1>6. CollateralKept'
    BY <1>1, <1>2 DEF CollateralKept, NeverDefaulted, References
<1>7. SaleMatchesLoan'
    BY DEF SaleMatchesLoan
<1>8. RedemptionBurned'
    BY <1>1, <1>2 DEF RedemptionBurned, References
<1> QED BY <1>3, <1>4, <1>5, <1>6, <1>7, <1>8

(* A redemption burns a receipt that secures no loan.                       *)
LEMMA RequestRedemptionCollateral ==
    ASSUME CollateralInv, NEW r \in Receipts, NEW caller \in Accounts,
           RequestRedemption(r, caller), UNCHANGED <<listings, loans, sales>>
    PROVE  /\ OneLiveListing' /\ EncumbranceBacked' /\ ActiveListingUnencumbered'
           /\ CollateralKept' /\ SaleMatchesLoan' /\ RedemptionBurned'
<1> USE DEF CollateralInv, RequestRedemption
<1>1. References /\ receipts[r] \in Receipt
    BY Rows DEF TypeInv
<1>2. /\ DOMAIN receipts' = DOMAIN receipts
      /\ \A q \in DOMAIN receipts : q # r => receipts'[q] = receipts[q]
      /\ receipts[r].status = "IN_VAULT"
      /\ receipts'[r].status = "RELEASED"
      /\ receipts'[r].holder = receipts[r].holder
    BY <1>1 DEF BurnForRedemption, InVault, Receipt
<1>3. OneLiveListing'
    BY DEF OneLiveListing, IsLive
<1>4. EncumbranceBacked'
    BY <1>2 DEF EncumbranceBacked
<1>5. ActiveListingUnencumbered'
    BY <1>1, <1>2 DEF ActiveListingUnencumbered, References
<1>6. CollateralKept'
    BY <1>1, <1>2 DEF CollateralKept, NeverDefaulted, References
<1>7. SaleMatchesLoan'
    BY DEF SaleMatchesLoan
<1>8. RedemptionBurned'
  <2>1. /\ DOMAIN redemptions' = DOMAIN redemptions \cup {r}
        /\ redemptions'[r].requestedBy = caller
        /\ \A q \in DOMAIN redemptions : q # r => redemptions'[q] = redemptions[q]
      BY DEF Insert
  <2> QED BY <1>1, <1>2, <2>1 DEF RedemptionBurned, References
<1> QED BY <1>3, <1>4, <1>5, <1>6, <1>7, <1>8

(* A step of custody keeps the collateral invariant.                        *)
LEMMA CustodyStepCollateral ==
    ASSUME CollateralInv, TypeInv', CustodyStep
    PROVE  CollateralInv'
<1>1. UNCHANGED <<listings, loans, sales>>
    BY DEF CustodyStep, marketVars, saleVars
<1>2. ASSUME NEW r \in Receipts, VerifyRedemption(r) \/ ConfirmRelease(r)
      PROVE  CollateralInv'
  <2> USE DEF CollateralInv
  <2>1. PICK status \in {"VERIFIED", "RELEASED"} :
           /\ redemptions' = [redemptions EXCEPT ![r].status = status]
           /\ r \in DOMAIN redemptions
           /\ receipts' = receipts
      BY <1>2 DEF VerifyRedemption, ConfirmRelease
  <2>2. redemptions[r] \in Redemption
      BY <2>1, RowOf DEF TypeInv, TypeOK, CustodyTypeOK
  <2>3. /\ DOMAIN redemptions' = DOMAIN redemptions
        /\ \A q \in DOMAIN redemptions :
              redemptions'[q].requestedBy = redemptions[q].requestedBy
      BY <2>1, <2>2 DEF Redemption
  <2>4. RedemptionBurned'
      BY <2>1, <2>3 DEF RedemptionBurned
  <2> QED BY <1>1, <2>1, <2>4
      DEF OneLiveListing, IsLive, EncumbranceBacked, ActiveListingUnencumbered,
          CollateralKept, NeverDefaulted, SaleMatchesLoan
<1> QED BY <1>1, <1>2, IssueReceiptCollateral, RequestRedemptionCollateral
    DEF CustodyStep, CollateralInv
-----------------------------------------------------------------------------
(* The marketplace: only listings change, and every change but a draft and  *)
(* a publication makes a listing less alive.                                *)
LEMMA ListingChange ==
    ASSUME CollateralInv, TypeInv', OneLiveListing', ActiveListingUnencumbered',
           UNCHANGED <<receipts, redemptions, loans, sales>>
    PROVE  CollateralInv'
    BY DEF CollateralInv, EncumbranceBacked, CollateralKept, NeverDefaulted,
           SaleMatchesLoan, RedemptionBurned

(* A step of the marketplace keeps it.                                      *)
LEMMA MarketStepCollateral ==
    ASSUME CollateralInv, TypeInv', MarketStep
    PROVE  CollateralInv'
<1> USE DEF CollateralInv
<1>0. /\ \A i \in DOMAIN listings : listings[i] \in Listing
      /\ \A i \in DOMAIN creations : creations[i] \in Creation
    BY Rows
<1>1. ASSUME NEW i \in Listings, NEW caller \in Accounts,
             PublishListing(i, caller)
      PROVE  CollateralInv'
  <2> USE <1>1 DEF PublishListing
  <2>1. /\ DOMAIN listings' = DOMAIN listings
        /\ \A j \in DOMAIN listings : j # i => listings'[j] = listings[j]
        /\ listings'[i].receipt = listings[i].receipt
        /\ listings'[i].borrower = listings[i].borrower
        /\ IsLive(i)
      BY <1>0 DEF Publish, Listing, IsLive
  <2>2. UNCHANGED <<receipts, redemptions, loans, sales>>
      BY DEF custodyVars, saleVars
  <2>3. OneLiveListing'
      BY <2>1 DEF OneLiveListing, IsLive
  <2>4. ActiveListingUnencumbered'
      BY <2>1, <2>2 DEF ActiveListingUnencumbered, HeldByBorrower, InVault
  <2> QED BY <2>2, <2>3, <2>4, ListingChange
<1>2. ASSUME NEW i \in Listings, NEW caller \in Accounts,
             CancelListing(i, caller)
      PROVE  CollateralInv'
  <2> USE <1>2 DEF CancelListing
  <2>1. /\ DOMAIN listings' = DOMAIN listings
        /\ \A j \in DOMAIN listings : j # i => listings'[j] = listings[j]
        /\ listings'[i].status = "CANCELLED"
      BY <1>0 DEF Cancel, Listing
  <2>2. UNCHANGED <<receipts, redemptions, loans, sales>>
      BY DEF custodyVars, saleVars
  <2>3. OneLiveListing'
      BY <2>1 DEF OneLiveListing, IsLive
  <2>4. ActiveListingUnencumbered'
      BY <2>1, <2>2 DEF ActiveListingUnencumbered
  <2> QED BY <2>2, <2>3, <2>4, ListingChange
<1>3. ASSUME NEW i \in Listings, NEW terms \in Terms, NEW rate \in ListingRates,
             NEW lifetime \in ListingLifetimes,
             CreateListing(i, terms.principal, rate, lifetime)
      PROVE  CollateralInv'
  <2> USE <1>3 DEF CreateListing
  <2>0. i \notin DOMAIN listings
      BY DEF TypeInv, References, Draft
  <2>1. /\ DOMAIN listings' = DOMAIN listings \cup {i}
        /\ \A j \in DOMAIN listings : listings'[j] = listings[j]
        /\ listings'[i].status = "DRAFT"
        /\ \A j \in DOMAIN listings :
              IsLive(j) => listings[j].receipt # listings'[i].receipt
      BY <2>0 DEF Draft, Insert, HasLiveListing
  <2>2. UNCHANGED <<receipts, redemptions, loans, sales>>
      BY DEF custodyVars, saleVars
  <2>3. OneLiveListing'
      BY <2>1 DEF OneLiveListing, IsLive
  <2>4. ActiveListingUnencumbered'
      BY <2>1, <2>2 DEF ActiveListingUnencumbered
  <2> QED BY <2>2, <2>3, <2>4, ListingChange
<1>4. ASSUME NEW i \in Listings, NEW caller \in Accounts, NEW r \in Receipts,
             BeginListing(i, caller, r)
      PROVE  CollateralInv'
    BY <1>4, CollateralFrame DEF BeginListing, BeginDraft, custodyVars, saleVars
<1>5. ASSUME NEW i \in Listings, NEW o \in Offers, NEW lender \in Accounts,
             NEW terms \in Terms, NEW lifetime \in OfferLifetimes,
             PlaceOffer(i, o, lender, terms, lifetime)
      PROVE  CollateralInv'
    BY <1>5, CollateralFrame DEF PlaceOffer, AddOffer, custodyVars, saleVars
<1>6. ASSUME NEW o \in Offers, NEW caller \in Accounts,
             WithdrawOffer(o, caller) \/ ReclaimHold(o, caller)
      PROVE  CollateralInv'
    BY <1>6, CollateralFrame
    DEF WithdrawOffer, Withdraw, ReclaimHold, custodyVars, marketVars, saleVars
<1> QED BY <1>1, <1>2, <1>3, <1>4, <1>5, <1>6 DEF MarketStep

-----------------------------------------------------------------------------
(* Lending.                                                                 *)

(* Accepting takes the only live listing of a receipt nothing encumbers,    *)
(* held by the borrower of the loan that now encumbers it.                  *)
LEMMA AcceptOfferCollateral ==
    ASSUME CollateralInv, TypeInv', NEW o \in Offers, NEW l \in Loans,
           NEW caller \in Accounts, AcceptOffer(o, l, caller)
    PROVE  CollateralInv'
<1> USE DEF CollateralInv
<1> DEFINE i == offers[o].listing
           r == listings[i].receipt
<1>1. References
    BY DEF TypeInv
<1>2. /\ o \in DOMAIN offers /\ i \in DOMAIN listings /\ r \in DOMAIN receipts
      /\ listings[i].status = "ACTIVE"
    BY <1>1 DEF AcceptOffer, Accept, Acceptable, AcceptingOffers, References
<1>3. listings[i] \in Listing /\ receipts[r] \in Receipt /\ offers[o] \in Offer
    BY <1>2, Rows
<1>4. /\ DOMAIN listings' = DOMAIN listings
      /\ \A j \in DOMAIN listings : j # i => listings'[j] = listings[j]
      /\ listings'[i].status = "MATCHED"
    BY <1>2, <1>3 DEF AcceptOffer, Accept, Listing
<1>5. /\ DOMAIN receipts' = DOMAIN receipts
      /\ \A q \in DOMAIN receipts : q # r => receipts'[q] = receipts[q]
      /\ receipts[r].status = "IN_VAULT"
      /\ receipts'[r].status = "ENCUMBERED"
      /\ receipts'[r].loan = l
      /\ receipts'[r].holder = receipts[r].holder
    BY <1>2, <1>3 DEF AcceptOffer, EncumberReceipt, InVault, Receipt
<1>6. /\ DOMAIN loans' = DOMAIN loans \cup {l}
      /\ l \notin DOMAIN loans
      /\ \A k \in DOMAIN loans : loans'[k] = loans[k]
      /\ loans'[l].status = "ACTIVE"
      /\ loans'[l].receipt = r
      /\ loans'[l].borrower = listings[i].borrower
    BY DEF AcceptOffer, Originate, Insert
<1>7. UNCHANGED <<redemptions, sales>>
    BY DEF AcceptOffer, saleVars
<1>8. listings[i].borrower = receipts[r].holder
    BY <1>2 DEF ActiveListingUnencumbered
<1>9. OneLiveListing'
    BY <1>4 DEF OneLiveListing, IsLive
<1>10. EncumbranceBacked'
  <2> SUFFICES ASSUME NEW q \in DOMAIN receipts', receipts'[q].status = "ENCUMBERED"
               PROVE  /\ receipts'[q].loan \in DOMAIN loans'
                      /\ loans'[receipts'[q].loan].status \in {"ACTIVE", "DEFAULTED"}
                      /\ loans'[receipts'[q].loan].receipt = q
                      /\ loans'[receipts'[q].loan].borrower = receipts'[q].holder
      BY DEF EncumbranceBacked
  <2>1. CASE q = r
      BY <1>5, <1>6, <1>8, <2>1
  <2>2. CASE q # r
    <3>1. q \in DOMAIN receipts /\ receipts'[q] = receipts[q]
        BY <1>5, <2>2
    <3>2. /\ receipts[q].loan \in DOMAIN loans
          /\ loans[receipts[q].loan].status \in {"ACTIVE", "DEFAULTED"}
          /\ loans[receipts[q].loan].receipt = q
          /\ loans[receipts[q].loan].borrower = receipts[q].holder
        BY <3>1 DEF EncumbranceBacked
    <3>3. loans'[receipts[q].loan] = loans[receipts[q].loan]
        BY <1>6, <3>2
    <3> QED BY <1>6, <3>1, <3>2, <3>3
  <2> QED BY <2>1, <2>2
<1>11. ActiveListingUnencumbered'
  <2> SUFFICES ASSUME NEW j \in DOMAIN listings', listings'[j].status = "ACTIVE"
               PROVE  /\ receipts'[listings'[j].receipt].status # "ENCUMBERED"
                      /\ receipts'[listings'[j].receipt].holder = listings'[j].borrower
      BY DEF ActiveListingUnencumbered
  <2>1. j # i /\ listings'[j] = listings[j]
      BY <1>4
  <2>2. listings[j].receipt # r
      BY <1>2, <1>4, <2>1 DEF OneLiveListing, IsLive
  <2>3. listings[j].receipt \in DOMAIN receipts
      BY <1>1, <1>4 DEF References
  <2> QED BY <1>4, <1>5, <2>1, <2>2, <2>3 DEF ActiveListingUnencumbered
<1>12. CollateralKept'
  <2> SUFFICES ASSUME NEW k \in DOMAIN loans', loans'[k].status = "ACTIVE",
                      NeverDefaulted(loans[k].receipt)'
               PROVE  /\ receipts'[loans'[k].receipt].status = "ENCUMBERED"
                      /\ receipts'[loans'[k].receipt].loan = k
      BY DEF CollateralKept, NeverDefaulted
  <2>1. CASE k = l
      BY <1>5, <1>6, <2>1
  <2>2. CASE k # l
    <3>1. k \in DOMAIN loans /\ loans'[k] = loans[k]
        BY <1>6, <2>2
    <3>2. NeverDefaulted(loans[k].receipt)
        BY <1>6, <3>1 DEF NeverDefaulted
    <3>3. receipts[loans[k].receipt].status = "ENCUMBERED"
             /\ receipts[loans[k].receipt].loan = k
        BY <3>1, <3>2 DEF CollateralKept
    <3> QED BY <1>1, <1>5, <3>1, <3>3 DEF References
  <2> QED BY <2>1, <2>2
<1>13. SaleMatchesLoan'
    BY <1>1, <1>6, <1>7 DEF SaleMatchesLoan, References
<1>14. RedemptionBurned'
    BY <1>1, <1>5, <1>7 DEF RedemptionBurned, References
<1> QED BY <1>9, <1>10, <1>11, <1>12, <1>13, <1>14

(* Repaying gives back the encumbrance of the repaid loan itself as long as *)
(* no loan on the receipt has defaulted.                                    *)
LEMMA RepayLoanCollateral ==
    ASSUME CollateralInv, TypeInv', NEW l \in Loans, NEW caller \in Accounts,
           RepayLoan(l, caller)
    PROVE  CollateralInv'
<1> USE DEF CollateralInv, RepayLoan
<1> DEFINE r == loans[l].receipt
<1>1. References /\ r \in DOMAIN receipts
    BY DEF TypeInv, References
<1>2. loans[l] \in Loan /\ receipts[r] \in Receipt
    BY <1>1, Rows
<1>3. /\ DOMAIN loans' = DOMAIN loans
      /\ \A k \in DOMAIN loans : k # l => loans'[k] = loans[k]
      /\ loans[l].status = "ACTIVE"
      /\ loans'[l].status = "REPAID"
      /\ loans'[l].receipt = r
    BY <1>2 DEF RecordRepayment, Loan
<1>4. /\ DOMAIN receipts' = DOMAIN receipts
      /\ \A q \in DOMAIN receipts : q # r => receipts'[q] = receipts[q]
      /\ receipts[r].status = "ENCUMBERED"
      /\ receipts'[r].status = "IN_VAULT"
      /\ receipts'[r].holder = receipts[r].holder
    BY <1>1, <1>2 DEF ReleaseEncumbrance, Receipt
<1>5. UNCHANGED <<redemptions, listings, sales>>
    BY DEF marketVars, saleVars
<1>6. OneLiveListing'
    BY <1>5 DEF OneLiveListing, IsLive
<1>7. EncumbranceBacked'
    BY <1>3, <1>4 DEF EncumbranceBacked
<1>8. ActiveListingUnencumbered'
    BY <1>1, <1>4, <1>5 DEF ActiveListingUnencumbered, References
<1>9. CollateralKept'
  <2> SUFFICES ASSUME NEW k \in DOMAIN loans', loans'[k].status = "ACTIVE",
                      NeverDefaulted(loans[k].receipt)'
               PROVE  /\ receipts'[loans'[k].receipt].status = "ENCUMBERED"
                      /\ receipts'[loans'[k].receipt].loan = k
      BY DEF CollateralKept, NeverDefaulted
  <2>1. k \in DOMAIN loans /\ k # l /\ loans'[k] = loans[k]
      BY <1>3
  <2>2. NeverDefaulted(loans[k].receipt)
      BY <1>3, <2>1 DEF NeverDefaulted
  <2>3. receipts[loans[k].receipt].status = "ENCUMBERED"
           /\ receipts[loans[k].receipt].loan = k
      BY <2>1, <2>2 DEF CollateralKept
  <2>4. loans[k].receipt # r
    <3>1. ASSUME loans[k].receipt = r PROVE FALSE
      <4>1. receipts[r].loan = l
          BY <1>3, <2>2, <3>1 DEF CollateralKept
      <4> QED BY <2>1, <2>3, <3>1, <4>1
    <3> QED BY <3>1
  <2> QED BY <1>1, <1>4, <2>1, <2>3, <2>4 DEF References
<1>10. SaleMatchesLoan'
    BY <1>3, <1>5 DEF SaleMatchesLoan
<1>11. RedemptionBurned'
    BY <1>1, <1>4, <1>5 DEF RedemptionBurned, References
<1> QED BY <1>6, <1>7, <1>8, <1>9, <1>10, <1>11

(* Marking a default moves no receipt.                                      *)
LEMMA MarkDefaultCollateral ==
    ASSUME CollateralInv, TypeInv', NEW l \in Loans, NEW caller \in Accounts,
           MarkDefault(l, caller)
    PROVE  CollateralInv'
<1> USE DEF CollateralInv, MarkDefault
<1>1. loans[l] \in Loan
    BY Rows
<1>2. /\ DOMAIN loans' = DOMAIN loans
      /\ \A k \in DOMAIN loans : k # l => loans'[k] = loans[k]
      /\ loans[l].status = "ACTIVE"
      /\ loans'[l].status = "DEFAULTED"
      /\ loans'[l].receipt = loans[l].receipt
      /\ loans'[l].borrower = loans[l].borrower
    BY <1>1 DEF MarkDefaulted, Loan
<1>3. UNCHANGED <<receipts, redemptions, listings, sales>>
    BY DEF custodyVars, marketVars, saleVars
<1>4. OneLiveListing' /\ ActiveListingUnencumbered' /\ RedemptionBurned'
    BY <1>3 DEF OneLiveListing, IsLive, ActiveListingUnencumbered, RedemptionBurned
<1>5. EncumbranceBacked'
    BY <1>2, <1>3 DEF EncumbranceBacked
<1>6. CollateralKept'
  <2> SUFFICES ASSUME NEW k \in DOMAIN loans', loans'[k].status = "ACTIVE",
                      NeverDefaulted(loans[k].receipt)'
               PROVE  /\ receipts'[loans'[k].receipt].status = "ENCUMBERED"
                      /\ receipts'[loans'[k].receipt].loan = k
      BY DEF CollateralKept, NeverDefaulted
  <2>1. k \in DOMAIN loans /\ k # l /\ loans'[k] = loans[k]
      BY <1>2
  <2>2. NeverDefaulted(loans[k].receipt)
      BY <1>2, <2>1 DEF NeverDefaulted
  <2> QED BY <1>3, <2>1, <2>2 DEF CollateralKept
<1>7. SaleMatchesLoan'
    BY <1>2, <1>3 DEF SaleMatchesLoan
<1> QED BY <1>4, <1>5, <1>6, <1>7

(* A claim takes the receipt from whichever loan encumbers it, and for that *)
(* the invariant promises nothing of a receipt whose loan has defaulted.    *)
LEMMA ClaimReceiptCollateral ==
    ASSUME CollateralInv, TypeInv', NEW l \in Loans, NEW caller \in Accounts,
           ClaimReceipt(l, caller)
    PROVE  CollateralInv'
<1> USE DEF CollateralInv, ClaimReceipt
<1> DEFINE r == loans[l].receipt
<1>1. References /\ r \in DOMAIN receipts
    BY DEF TypeInv, References
<1>2. /\ DOMAIN receipts' = DOMAIN receipts
      /\ \A q \in DOMAIN receipts : q # r => receipts'[q] = receipts[q]
      /\ receipts[r].status = "ENCUMBERED"
      /\ receipts'[r].status = "IN_VAULT"
    BY <1>1 DEF ClaimDefault
<1>3. UNCHANGED <<redemptions, listings, loans, sales>>
    BY DEF marketVars, saleVars
<1>4. OneLiveListing' /\ SaleMatchesLoan'
    BY <1>3 DEF OneLiveListing, IsLive, SaleMatchesLoan
<1>5. EncumbranceBacked'
    BY <1>2, <1>3 DEF EncumbranceBacked
<1>6. ActiveListingUnencumbered'
    BY <1>1, <1>2, <1>3 DEF ActiveListingUnencumbered, References
<1>7. CollateralKept'
  <2>1. ~NeverDefaulted(r)
      BY DEF NeverDefaulted, Defaulted
  <2> QED BY <1>1, <1>2, <1>3, <2>1 DEF CollateralKept, NeverDefaulted, References
<1>8. RedemptionBurned'
    BY <1>1, <1>2, <1>3 DEF RedemptionBurned, References
<1> QED BY <1>4, <1>5, <1>6, <1>7, <1>8

(* A step of a loan keeps it.                                               *)
LEMMA LendingStepCollateral ==
    ASSUME CollateralInv, TypeInv', LendingStep
    PROVE  CollateralInv'
    BY AcceptOfferCollateral, RepayLoanCollateral, MarkDefaultCollateral,
       ClaimReceiptCollateral DEF LendingStep

-----------------------------------------------------------------------------
(* The liquidation sale.                                                    *)
LEMMA CloseLiquidationCollateral ==
    ASSUME CollateralInv, TypeInv', NEW l \in Loans, NEW b \in Bids,
           CloseLiquidation(l, b)
    PROVE  CollateralInv'
<1> USE DEF CollateralInv, CloseLiquidation
<1> DEFINE r == loans[l].receipt
<1>1. References /\ l \in DOMAIN loans /\ r \in DOMAIN receipts
    BY DEF TypeInv, References
<1>2. loans[l] \in Loan /\ receipts[r] \in Receipt /\ sales[l] \in Sale
    BY <1>1, Rows
<1>3. /\ DOMAIN receipts' = DOMAIN receipts
      /\ \A q \in DOMAIN receipts : q # r => receipts'[q] = receipts[q]
      /\ receipts[r].status \in {"IN_VAULT", "ENCUMBERED"}
      /\ receipts'[r].status = "LIQUIDATED"
      /\ receipts'[r].holder = receipts[r].holder
    BY <1>1, <1>2 DEF BurnForLiquidation, Receipt
<1>4. /\ DOMAIN loans' = DOMAIN loans
      /\ \A k \in DOMAIN loans : k # l => loans'[k] = loans[k]
      /\ loans[l].status = "DEFAULTED"
      /\ loans'[l].status = "LIQUIDATED"
      /\ loans'[l].receipt = r
    BY <1>1, <1>2 DEF MarkLiquidated, Loan
<1>5. /\ DOMAIN sales' = DOMAIN sales
      /\ \A k \in DOMAIN sales : k # l => sales'[k] = sales[k]
      /\ sales'[l].status = "SETTLED"
    BY <1>2 DEF Settle, Sale
<1>6. UNCHANGED <<redemptions, listings>>
    BY DEF marketVars
<1>7. OneLiveListing'
    BY <1>6 DEF OneLiveListing, IsLive
<1>8. EncumbranceBacked'
    BY <1>3, <1>4 DEF EncumbranceBacked
<1>9. ActiveListingUnencumbered'
    BY <1>1, <1>3, <1>6 DEF ActiveListingUnencumbered, References
<1>10. CollateralKept'
  <2>1. ~NeverDefaulted(r)'
      BY <1>1, <1>4 DEF NeverDefaulted
  <2> SUFFICES ASSUME NEW k \in DOMAIN loans', loans'[k].status = "ACTIVE",
                      NeverDefaulted(loans[k].receipt)'
               PROVE  /\ receipts'[loans'[k].receipt].status = "ENCUMBERED"
                      /\ receipts'[loans'[k].receipt].loan = k
      BY DEF CollateralKept, NeverDefaulted
  <2>2. k \in DOMAIN loans /\ k # l /\ loans'[k] = loans[k]
      BY <1>4
  <2>3. loans[k].receipt # r
      BY <1>1, <1>4, <2>2 DEF NeverDefaulted
  <2>4. NeverDefaulted(loans[k].receipt)
      BY <1>4, <2>2, <2>3 DEF NeverDefaulted
  <2> QED BY <1>1, <1>3, <2>2, <2>3, <2>4 DEF CollateralKept, References
<1>11. SaleMatchesLoan'
    BY <1>1, <1>4, <1>5 DEF SaleMatchesLoan, References
<1>12. RedemptionBurned'
    BY <1>1, <1>3, <1>6 DEF RedemptionBurned, References
<1> QED BY <1>7, <1>8, <1>9, <1>10, <1>11, <1>12

(* A step of a liquidation sale keeps it.                                   *)
LEMMA SaleStepCollateral ==
    ASSUME CollateralInv, TypeInv', SaleStep
    PROVE  CollateralInv'
<1> USE DEF CollateralInv
<1>1. ASSUME NEW l \in Loans, NEW reserve \in Reserves,
             ScheduleLiquidation(l, reserve)
      PROVE  CollateralInv'
  <2> USE <1>1 DEF ScheduleLiquidation
  <2>1. UNCHANGED <<receipts, redemptions, listings, loans>>
      BY DEF custodyVars, marketVars
  <2>2. /\ DOMAIN sales' = DOMAIN sales \cup {l}
        /\ \A k \in DOMAIN sales : sales'[k] = sales[k]
        /\ l \notin DOMAIN sales
        /\ sales'[l].status = "SCHEDULED"
        /\ loans[l].status = "DEFAULTED"
      BY DEF Schedule, Insert
  <2>3. SaleMatchesLoan'
      BY <2>1, <2>2 DEF SaleMatchesLoan
  <2> QED BY <2>1, <2>3
      DEF OneLiveListing, IsLive, EncumbranceBacked, ActiveListingUnencumbered,
          CollateralKept, NeverDefaulted, RedemptionBurned
<1>2. ASSUME NEW l \in Loans, NEW window \in Windows, OpenLiquidation(l, window)
      PROVE  CollateralInv'
  <2> USE <1>2 DEF OpenLiquidation
  <2>1. UNCHANGED <<receipts, redemptions, listings, loans>>
      BY DEF custodyVars, marketVars
  <2>2. sales[l] \in Sale
      BY Rows DEF Open
  <2>3. /\ DOMAIN sales' = DOMAIN sales
        /\ \A k \in DOMAIN sales : k # l => sales'[k] = sales[k]
        /\ sales[l].status = "SCHEDULED"
        /\ sales'[l].status = "BIDDING"
      BY <2>2 DEF Open, Sale
  <2>4. SaleMatchesLoan'
      BY <2>1, <2>3 DEF SaleMatchesLoan
  <2> QED BY <2>1, <2>4
      DEF OneLiveListing, IsLive, EncumbranceBacked, ActiveListingUnencumbered,
          CollateralKept, NeverDefaulted, RedemptionBurned
<1>3. ASSUME NEW l \in Loans, NEW b \in Bids, NEW bidder \in Accounts,
             NEW amount \in BidAmounts, PlaceBid(l, b, bidder, amount)
      PROVE  CollateralInv'
    BY <1>3, CollateralFrame DEF PlaceBid, AddBid, custodyVars, marketVars
<1>4. ASSUME NEW b \in Bids, NEW caller \in Accounts, ReclaimBid(b, caller)
      PROVE  CollateralInv'
    BY <1>4, CollateralFrame DEF ReclaimBid, custodyVars, marketVars, saleVars
<1> QED BY <1>1, <1>2, <1>3, <1>4, CloseLiquidationCollateral DEF SaleStep

-----------------------------------------------------------------------------
(* Every step keeps the collateral invariant.                               *)
LEMMA CollateralStep == CollateralInv /\ [Next]_vars => CollateralInv'
<1> SUFFICES ASSUME CollateralInv, [Next]_vars PROVE CollateralInv'
    OBVIOUS
<1>1. TypeInv'
    BY TypeStep DEF CollateralInv
<1>2. CASE MoneyStep
    BY <1>1, <1>2, CollateralFrame
    DEF MoneyStep, Deposit, WithdrawFunds, custodyVars, marketVars, saleVars
<1>3. CASE TimePasses \/ Administer
    BY <1>1, <1>3, CollateralFrame
    DEF TimePasses, Administer, custodyVars, marketVars, saleVars
<1>4. CASE UNCHANGED vars
    BY <1>1, <1>4, CollateralFrame DEF vars
<1> QED BY <1>1, <1>2, <1>3, <1>4, CustodyStepCollateral, MarketStepCollateral,
           LendingStepCollateral, SaleStepCollateral DEF Next

(* The collateral invariant holds in every behaviour.                       *)
LEMMA CollateralInvariant == Spec => []CollateralInv
    BY InitCollateral, CollateralStep, PTL DEF Spec

(* Nothing but an unpaid loan on a receipt, to the account that holds it,   *)
(* encumbers the receipt.                                                   *)
THEOREM EncumbranceIsBacked == Spec => []EncumbranceBacked
    BY CollateralInvariant, PTL DEF CollateralInv

(* A listing open to offers never offers an item already pledged, although  *)
(* listing creation and publication take no lock on the receipt.            *)
THEOREM ActiveListingIsUnencumbered == Spec => []ActiveListingUnencumbered
    BY CollateralInvariant, PTL DEF CollateralInv

(* Until some loan on it defaults, an item backs every loan still to be     *)
(* paid on it.                                                              *)
THEOREM CollateralIsKept == Spec => []CollateralKept
    BY CollateralInvariant, PTL DEF CollateralInv

(* A sale exists only for a loan in default, and settles as the loan closes. *)
THEOREM SaleFollowsLoan == Spec => []SaleMatchesLoan
    BY CollateralInvariant, PTL DEF CollateralInv

(* An item on its way out of the vault is burned and cannot be pledged.     *)
THEOREM RedemptionIsBurned == Spec => []RedemptionBurned
    BY CollateralInvariant, PTL DEF CollateralInv

(* A step moves a receipt only on a default.                                *)
LEMMA ReceiptMoves ==
    ASSUME TypeInv, [Next]_vars, NEW q \in DOMAIN receipts
    PROVE  MovesOnDefault(q)
<1>0. References /\ receipts[q] \in Receipt
    BY Rows DEF TypeInv
<1>1. CASE receipts'[q] = receipts[q]
    BY <1>1 DEF MovesOnDefault
<1>2. ASSUME NEW r \in Receipts, IssueReceipt(r)
      PROVE  MovesOnDefault(q)
    BY <1>2, <1>1 DEF IssueReceipt, Insert
<1>3. ASSUME NEW r \in Receipts, NEW caller \in Accounts,
             RequestRedemption(r, caller)
      PROVE  MovesOnDefault(q)
  <2>1. CASE r # q
      BY <1>1, <1>3, <2>1 DEF RequestRedemption, BurnForRedemption
  <2>2. CASE r = q
      BY <1>0, <1>3, <2>2
      DEF RequestRedemption, BurnForRedemption, InVault, MovesOnDefault, Receipt
  <2> QED BY <2>1, <2>2
<1>4. ASSUME NEW o \in Offers, NEW l \in Loans, NEW caller \in Accounts,
             AcceptOffer(o, l, caller)
      PROVE  MovesOnDefault(q)
  <2> DEFINE r == listings[offers[o].listing].receipt
  <2>1. CASE r # q
      BY <1>1, <1>4, <2>1 DEF AcceptOffer, EncumberReceipt
  <2>2. CASE r = q
      BY <1>0, <1>4, <2>2
      DEF AcceptOffer, EncumberReceipt, InVault, MovesOnDefault, Receipt
  <2> QED BY <2>1, <2>2
<1>5. ASSUME NEW l \in Loans, NEW caller \in Accounts, RepayLoan(l, caller)
      PROVE  MovesOnDefault(q)
  <2>1. CASE loans[l].receipt # q
      BY <1>1, <1>5, <2>1 DEF RepayLoan, ReleaseEncumbrance
  <2>2. CASE loans[l].receipt = q
      BY <1>0, <1>5, <2>2 DEF RepayLoan, ReleaseEncumbrance, MovesOnDefault, Receipt
  <2> QED BY <2>1, <2>2
<1>6. ASSUME NEW l \in Loans, NEW caller \in Accounts, ClaimReceipt(l, caller)
      PROVE  MovesOnDefault(q)
  <2>1. CASE loans[l].receipt # q
      BY <1>1, <1>6, <2>1 DEF ClaimReceipt, ClaimDefault
  <2>2. CASE loans[l].receipt = q
      BY <1>0, <1>6, <2>2 DEF ClaimReceipt, ClaimDefault, Defaulted, MovesOnDefault
  <2> QED BY <2>1, <2>2
<1>7. ASSUME NEW l \in Loans, NEW b \in Bids, CloseLiquidation(l, b)
      PROVE  MovesOnDefault(q)
  <2>1. CASE loans[l].receipt # q
      BY <1>1, <1>7, <2>1 DEF CloseLiquidation, BurnForLiquidation
  <2>2. CASE loans[l].receipt = q
      BY <1>0, <1>7, <2>2
      DEF CloseLiquidation, BurnForLiquidation, MovesOnDefault, Receipt
  <2> QED BY <2>1, <2>2
<1>8. CASE CustodyStep
    BY <1>1, <1>2, <1>3, <1>8 DEF CustodyStep, VerifyRedemption, ConfirmRelease
<1>9. CASE LendingStep
    BY <1>1, <1>4, <1>5, <1>6, <1>9 DEF LendingStep, MarkDefault, custodyVars
<1>10. CASE SaleStep
    BY <1>1, <1>7, <1>10
    DEF SaleStep, ScheduleLiquidation, OpenLiquidation, PlaceBid, ReclaimBid,
        custodyVars
<1>11. CASE MarketStep
    BY <1>1, <1>11
    DEF MarketStep, BeginListing, PublishListing, CancelListing, CreateListing,
        PlaceOffer, WithdrawOffer, ReclaimHold, custodyVars
<1>12. CASE MoneyStep \/ TimePasses \/ Administer \/ UNCHANGED vars
    BY <1>1, <1>12
    DEF MoneyStep, Deposit, WithdrawFunds, TimePasses, Administer, vars, custodyVars
<1> QED BY <1>8, <1>9, <1>10, <1>11, <1>12 DEF Next

(* A receipt moves only to the note holder of a loan on it in default, and  *)
(* a burned receipt stays as it was burned.                                 *)
THEOREM ReceiptMovesOnlyOnDefault == Spec => ReceiptMovesOnDefault
<1>1. TypeInv /\ [Next]_vars => [\A r \in DOMAIN receipts : MovesOnDefault(r)]_vars
    BY ReceiptMoves
<1>2. Spec => []TypeInv
    BY InitType, TypeStep, PTL DEF Spec
<1> QED BY <1>1, <1>2, PTL DEF Spec, ReceiptMovesOnDefault

-----------------------------------------------------------------------------
(* That an offer or a bid and the money held for it never disagree.         *)

(* A sale has a winner exactly when it is settled.                          *)
WinnerSettled ==
    \A l \in DOMAIN sales : sales[l].status = "SETTLED" <=> sales[l].winner # NoBid

HoldInv == TypeInv /\ WinnerSettled /\ OfferHoldAgreement /\ BidHoldAgreement

(* The rows of the tables, with their shapes.                               *)
LEMMA HoldRows ==
    ASSUME TypeInv
    PROVE  /\ \A h \in DOMAIN holds : holds[h] \in FundsHold
           /\ \A o \in DOMAIN offers : offers[o] \in Offer /\ o \in Offers
           /\ \A b \in DOMAIN bids : bids[b] \in Bid /\ b \in Bids
           /\ \A l \in DOMAIN sales : sales[l] \in Sale
           /\ now \in Int
    BY DEF TypeInv, TypeOK, IsTable, SettlementTypeOK, MarketTypeOK,
           LiquidationTypeOK, OperationsTypeOK

(* Nothing is held at the start.                                            *)
LEMMA InitHold == Init => HoldInv
<1> SUFFICES ASSUME Init PROVE HoldInv
    OBVIOUS
<1>1. TypeInv
    BY InitType
<1>2. DOMAIN offers = {} /\ DOMAIN sales = {} /\ DOMAIN bids = {}
    BY EmptyIsTable DEF Init, MarketInit, LiquidationInit
<1> QED BY <1>1, <1>2
    DEF HoldInv, WinnerSettled, OfferHoldAgreement, BidHoldAgreement

(* What the settlement operations do to the holds.                          *)
LEMMA HoldEffect ==
    ASSUME TypeInv, NEW h, NEW account, NEW amount, Hold(h, account, amount)
    PROVE  /\ h \notin DOMAIN holds
           /\ DOMAIN holds' = DOMAIN holds \cup {h}
           /\ \A g \in DOMAIN holds : holds'[g] = holds[g]
           /\ holds'[h].status = "HELD"
           /\ holds'[h].account = account
           /\ holds'[h].amount = amount
    BY DEF Hold, Insert

(* A release or a refund settles its own hold and no other.                 *)
LEMMA SettleEffect ==
    ASSUME TypeInv, NEW h \in DOMAIN holds, NEW distribution,
           NEW status \in {"RELEASED", "REFUNDED"},
           \/ ReleaseHold(h, distribution) /\ status = "RELEASED"
           \/ RefundHold(h) /\ status = "REFUNDED"
    PROVE  /\ DOMAIN holds' = DOMAIN holds
           /\ \A g \in DOMAIN holds : g # h => holds'[g] = holds[g]
           /\ holds'[h].status = status
           /\ holds'[h].account = holds[h].account
           /\ holds'[h].amount = holds[h].amount
           /\ holds[h].status \in {"HELD", status}
<1>1. holds[h] \in FundsHold
    BY HoldRows
<1>2. CASE holds' = [holds EXCEPT ![h].status = status] /\ holds[h].status = "HELD"
    BY <1>1, <1>2 DEF FundsHold
<1>3. CASE holds' = holds /\ holds[h].status = status
    BY <1>3
<1>4. CASE ReleaseHold(h, distribution) /\ status = "RELEASED"
    BY <1>2, <1>3, <1>4 DEF ReleaseHold, settlementVars
<1>5. CASE RefundHold(h) /\ status = "REFUNDED"
    BY <1>2, <1>3, <1>5 DEF RefundHold, settlementVars
<1> QED BY <1>4, <1>5

(* Steps that touch no offer, bid, sale or hold, nor turn the clock back.   *)
LEMMA HoldFrame ==
    ASSUME HoldInv, TypeInv', UNCHANGED <<offers, holds, sales, bids>>, now' >= now
    PROVE  HoldInv'
<1> USE DEF HoldInv
<1>1. now' \in Int /\ now \in Int /\ \A o \in DOMAIN offers : offers[o] \in Offer
    BY HoldRows DEF TypeInv, TypeOK, OperationsTypeOK
<1>2. OfferHoldAgreement'
    BY <1>1 DEF OfferHoldAgreement, OfferExpired, Offer
<1>3. BidHoldAgreement' /\ WinnerSettled'
    BY DEF BidHoldAgreement, WinnerSettled, IsHighest, BidsOn
<1> QED BY <1>2, <1>3

-----------------------------------------------------------------------------
(* Offers.                                                                  *)

(* What happens to an offer and its hold leaves every bid alone.            *)
LEMMA BidsUntouched ==
    ASSUME HoldInv, UNCHANGED <<sales, bids>>,
           DOMAIN holds \subseteq DOMAIN holds',
           \A b \in DOMAIN bids : holds'[b] = holds[b]
    PROVE  BidHoldAgreement' /\ WinnerSettled'
    BY DEF HoldInv, BidHoldAgreement, WinnerSettled, IsHighest, BidsOn

(* An offer is not a bid, so their holds are apart.                         *)
LEMMA OffersDistinct ==
    ASSUME TypeInv, NEW o \in Offers
    PROVE  o \notin DOMAIN bids
    BY HoldRows, IdentifierAssumption

(* The new offer comes with its money held.                                 *)
LEMMA PlaceOfferHold ==
    ASSUME HoldInv, TypeInv', NEW i \in Listings, NEW o \in Offers,
           NEW lender \in Accounts, NEW terms \in Terms, NEW lifetime \in OfferLifetimes,
           PlaceOffer(i, o, lender, terms, lifetime)
    PROVE  HoldInv'
<1> USE DEF HoldInv, PlaceOffer
<1>1. /\ DOMAIN holds' = DOMAIN holds \cup {o}
      /\ \A g \in DOMAIN holds : holds'[g] = holds[g]
      /\ holds'[o].status = "HELD"
      /\ holds'[o].account = lender
      /\ holds'[o].amount = terms.principal
    BY HoldEffect
<1>2. /\ DOMAIN offers' = DOMAIN offers \cup {o}
      /\ o \notin DOMAIN offers
      /\ \A p \in DOMAIN offers : offers'[p] = offers[p]
      /\ offers'[o].status = "PENDING"
      /\ offers'[o].lender = lender
      /\ offers'[o].principal = terms.principal
    BY DEF AddOffer, Insert
<1>3. UNCHANGED <<now, sales, bids>>
    BY DEF operationsVars, saleVars
<1>4. OfferHoldAgreement'
    BY <1>1, <1>2, <1>3 DEF OfferHoldAgreement, OfferExpired
<1>5. BidHoldAgreement' /\ WinnerSettled'
    BY <1>1, <1>3, BidsUntouched DEF TypeInv, References
<1> QED BY <1>4, <1>5

(* The offer is withdrawn and its money goes back.                          *)
LEMMA WithdrawOfferHold ==
    ASSUME HoldInv, TypeInv', NEW o \in Offers, NEW caller \in Accounts,
           WithdrawOffer(o, caller)
    PROVE  HoldInv'
<1> USE DEF HoldInv, WithdrawOffer
<1>1. o \in DOMAIN offers /\ o \in DOMAIN holds /\ offers[o] \in Offer
    BY HoldRows DEF Withdraw, TypeInv, References
<1>2. /\ DOMAIN holds' = DOMAIN holds
      /\ \A g \in DOMAIN holds : g # o => holds'[g] = holds[g]
      /\ holds'[o].status = "REFUNDED"
      /\ holds'[o].account = holds[o].account
      /\ holds'[o].amount = holds[o].amount
    BY <1>1, SettleEffect
<1>3. /\ DOMAIN offers' = DOMAIN offers
      /\ \A p \in DOMAIN offers : p # o => offers'[p] = offers[p]
      /\ offers'[o].status = "WITHDRAWN"
      /\ offers'[o].lender = offers[o].lender
      /\ offers'[o].principal = offers[o].principal
    BY <1>1 DEF Withdraw, Offer
<1>4. UNCHANGED <<now, sales, bids>>
    BY DEF operationsVars, saleVars
<1>5. OfferHoldAgreement'
    BY <1>2, <1>3, <1>4 DEF OfferHoldAgreement, OfferExpired
<1>6. BidHoldAgreement' /\ WinnerSettled'
    BY <1>2, <1>4, BidsUntouched, OffersDistinct DEF TypeInv, References
<1> QED BY <1>5, <1>6

(* The money goes back although the offer stays pending: it has expired.    *)
LEMMA ReclaimHoldHold ==
    ASSUME HoldInv, TypeInv', NEW o \in Offers, NEW caller \in Accounts,
           ReclaimHold(o, caller)
    PROVE  HoldInv'
<1> USE DEF HoldInv, ReclaimHold
<1>1. o \in DOMAIN offers /\ o \in DOMAIN holds
    BY DEF TypeInv, References
<1>2. /\ DOMAIN holds' = DOMAIN holds
      /\ \A g \in DOMAIN holds : g # o => holds'[g] = holds[g]
      /\ holds'[o].status = "REFUNDED"
      /\ holds'[o].account = holds[o].account
      /\ holds'[o].amount = holds[o].amount
    BY <1>1, SettleEffect
<1>3. UNCHANGED <<now, offers, sales, bids>>
    BY DEF operationsVars, marketVars, saleVars
<1>4. OfferHoldAgreement'
    BY <1>2, <1>3 DEF OfferHoldAgreement, OfferExpired, Reclaimable
<1>5. BidHoldAgreement' /\ WinnerSettled'
    BY <1>2, <1>3, BidsUntouched, OffersDistinct DEF TypeInv, References
<1> QED BY <1>4, <1>5

(* A superseded offer keeps its money held until it is reclaimed.           *)
LEMMA CancelListingHold ==
    ASSUME HoldInv, TypeInv', NEW i \in Listings, NEW caller \in Accounts,
           CancelListing(i, caller)
    PROVE  HoldInv'
<1> USE DEF HoldInv, CancelListing
<1>1. \A o \in DOMAIN offers : offers[o] \in Offer
    BY HoldRows
<1>2. /\ DOMAIN offers' = DOMAIN offers
      /\ \A o \in DOMAIN offers :
            /\ offers'[o].lender = offers[o].lender
            /\ offers'[o].principal = offers[o].principal
            /\ offers'[o] = offers[o] \/ /\ offers[o].status = "PENDING"
                                         /\ offers'[o].status = "SUPERSEDED"
    BY <1>1 DEF Cancel, Superseded, Offer
<1>3. UNCHANGED <<now, holds, sales, bids>>
    BY DEF operationsVars, settlementVars, saleVars
<1>4. OfferHoldAgreement'
    BY <1>2, <1>3 DEF OfferHoldAgreement, OfferExpired
<1>5. BidHoldAgreement' /\ WinnerSettled'
    BY <1>3, BidsUntouched
<1> QED BY <1>4, <1>5

(* The accepted offer is paid out; the others are superseded.               *)
LEMMA AcceptOfferHold ==
    ASSUME HoldInv, TypeInv', NEW o \in Offers, NEW l \in Loans,
           NEW caller \in Accounts, AcceptOffer(o, l, caller)
    PROVE  HoldInv'
<1> USE DEF HoldInv, AcceptOffer
<1>1. /\ o \in DOMAIN offers /\ o \in DOMAIN holds
      /\ \A p \in DOMAIN offers : offers[p] \in Offer
    BY HoldRows DEF Accept, TypeInv, References
<1>2. /\ DOMAIN holds' = DOMAIN holds
      /\ \A g \in DOMAIN holds : g # o => holds'[g] = holds[g]
      /\ holds'[o].status = "RELEASED"
      /\ holds'[o].account = holds[o].account
      /\ holds'[o].amount = holds[o].amount
    BY <1>1, SettleEffect
<1>3. /\ DOMAIN offers' = DOMAIN offers
      /\ offers'[o].status = "ACCEPTED"
      /\ \A p \in DOMAIN offers :
            /\ offers'[p].lender = offers[p].lender
            /\ offers'[p].principal = offers[p].principal
            /\ p # o => offers'[p] = offers[p] \/ /\ offers[p].status = "PENDING"
                                                  /\ offers'[p].status = "SUPERSEDED"
    BY <1>1 DEF Accept, Superseded, Offer
<1>4. UNCHANGED <<now, sales, bids>>
    BY DEF operationsVars, saleVars
<1>5. OfferHoldAgreement'
    BY <1>1, <1>2, <1>3, <1>4 DEF OfferHoldAgreement, OfferExpired
<1>6. BidHoldAgreement' /\ WinnerSettled'
    BY <1>2, <1>4, BidsUntouched, OffersDistinct DEF TypeInv, References
<1> QED BY <1>5, <1>6

-----------------------------------------------------------------------------
(* Bids.                                                                    *)

(* What happens to a bid and its hold leaves every offer alone.             *)
LEMMA OffersUntouched ==
    ASSUME HoldInv, UNCHANGED <<now, offers>>,
           DOMAIN holds \subseteq DOMAIN holds',
           \A o \in DOMAIN offers : holds'[o] = holds[o]
    PROVE  OfferHoldAgreement'
    BY DEF HoldInv, OfferHoldAgreement, OfferExpired

(* A bid is not an offer, so their holds are apart.                         *)
LEMMA BidsDistinct ==
    ASSUME TypeInv, NEW b \in Bids
    PROVE  b \notin DOMAIN offers
    BY HoldRows, IdentifierAssumption

(* A new sale has no bids.                                                  *)
LEMMA ScheduleHold ==
    ASSUME HoldInv, TypeInv', NEW l \in Loans, NEW reserve \in Reserves,
           ScheduleLiquidation(l, reserve)
    PROVE  HoldInv'
<1> USE DEF HoldInv, ScheduleLiquidation
<1>1. /\ DOMAIN sales' = DOMAIN sales \cup {l}
      /\ \A k \in DOMAIN sales : sales'[k] = sales[k]
      /\ sales'[l].status = "SCHEDULED"
      /\ sales'[l].winner = NoBid
      /\ l \notin DOMAIN sales
    BY DEF Schedule, Insert
<1>2. UNCHANGED <<now, offers, holds, bids>>
    BY DEF Schedule, operationsVars, marketVars, settlementVars
<1>3. OfferHoldAgreement'
    BY <1>2, OffersUntouched
<1>4. BidHoldAgreement'
    BY <1>1, <1>2 DEF BidHoldAgreement, IsHighest, BidsOn
<1>5. WinnerSettled'
    BY <1>1 DEF WinnerSettled
<1> QED BY <1>3, <1>4, <1>5

(* Opening a sale touches neither bids nor winner.                          *)
LEMMA OpenHold ==
    ASSUME HoldInv, TypeInv', NEW l \in Loans, NEW window \in Windows,
           OpenLiquidation(l, window)
    PROVE  HoldInv'
<1> USE DEF HoldInv, OpenLiquidation
<1>1. sales[l] \in Sale
    BY HoldRows DEF Open
<1>2. /\ DOMAIN sales' = DOMAIN sales
      /\ \A k \in DOMAIN sales : k # l => sales'[k] = sales[k]
      /\ sales[l].status = "SCHEDULED"
      /\ sales'[l].status = "BIDDING"
      /\ sales'[l].winner = sales[l].winner
    BY <1>1 DEF Open, Sale
<1>3. UNCHANGED <<now, offers, holds, bids>>
    BY DEF Open, operationsVars, marketVars, settlementVars
<1>4. OfferHoldAgreement'
    BY <1>3, OffersUntouched
<1>5. BidHoldAgreement'
    BY <1>2, <1>3 DEF BidHoldAgreement, IsHighest, BidsOn
<1>6. WinnerSettled'
    BY <1>2 DEF WinnerSettled
<1> QED BY <1>4, <1>5, <1>6

(* The new bid is the standing high one; no other becomes it.               *)
LEMMA PlaceBidHold ==
    ASSUME HoldInv, TypeInv', NEW l \in Loans, NEW b \in Bids,
           NEW bidder \in Accounts, NEW amount \in BidAmounts,
           PlaceBid(l, b, bidder, amount)
    PROVE  HoldInv'
<1> USE DEF HoldInv, PlaceBid
<1>1. /\ DOMAIN holds' = DOMAIN holds \cup {b}
      /\ b \notin DOMAIN holds
      /\ \A g \in DOMAIN holds : holds'[g] = holds[g]
      /\ holds'[b].status = "HELD"
      /\ holds'[b].account = bidder
      /\ holds'[b].amount = amount
    BY HoldEffect
<1>2. /\ DOMAIN bids' = DOMAIN bids \cup {b}
      /\ b \notin DOMAIN bids
      /\ \A c \in DOMAIN bids : bids'[c] = bids[c]
      /\ bids'[b].loan = l
      /\ bids'[b].bidder = bidder
      /\ bids'[b].amount = amount
      /\ l \in DOMAIN sales
      /\ sales[l].status = "BIDDING"
    BY DEF AddBid, Insert
<1>3. UNCHANGED <<now, offers, sales>>
    BY DEF AddBid, operationsVars, marketVars
<1>4. OfferHoldAgreement'
    BY <1>1, <1>3, OffersUntouched DEF TypeInv, References
<1>5. \A c \in DOMAIN bids : IsHighest(c)' => IsHighest(c)
    BY <1>2 DEF IsHighest, BidsOn
<1>6. b # NoBid
    BY LiquidationAssumption
<1>7. sales[l].winner = NoBid
    BY <1>2 DEF WinnerSettled
<1>8. BidHoldAgreement'
    BY <1>1, <1>2, <1>3, <1>5, <1>6, <1>7 DEF BidHoldAgreement
<1>9. WinnerSettled'
    BY <1>3 DEF WinnerSettled
<1> QED BY <1>4, <1>8, <1>9

(* A reclaimed bid is not the winner and not the standing high one.         *)
LEMMA ReclaimBidHold ==
    ASSUME HoldInv, TypeInv', NEW b \in Bids, NEW caller \in Accounts,
           ReclaimBid(b, caller)
    PROVE  HoldInv'
<1> USE DEF HoldInv, ReclaimBid
<1>1. b \in DOMAIN bids /\ b \in DOMAIN holds /\ bids[b].loan \in DOMAIN sales
    BY DEF TypeInv, References
<1>2. /\ DOMAIN holds' = DOMAIN holds
      /\ \A g \in DOMAIN holds : g # b => holds'[g] = holds[g]
      /\ holds'[b].status = "REFUNDED"
      /\ holds'[b].account = holds[b].account
      /\ holds'[b].amount = holds[b].amount
    BY <1>1, SettleEffect
<1>3. UNCHANGED <<now, offers, sales, bids>>
    BY DEF operationsVars, marketVars, saleVars
<1>4. OfferHoldAgreement'
    BY <1>2, <1>3, OffersUntouched, BidsDistinct DEF TypeInv, References
<1>5. BidHoldAgreement'
  <2>1. \A c \in DOMAIN bids : IsHighest(c)' <=> IsHighest(c)
      BY <1>3 DEF IsHighest, BidsOn
  <2>2. /\ sales[bids[b].loan].winner # b
        /\ ~(sales[bids[b].loan].winner = NoBid /\ IsHighest(b))
      BY LiquidationAssumption DEF ReclaimableBid
  <2>3. SUFFICES ASSUME NEW c \in DOMAIN bids
                 PROVE  /\ c \in DOMAIN holds'
                        /\ holds'[c].account = bids[c].bidder
                        /\ holds'[c].amount = bids[c].amount
                        /\ bids[c].loan \in DOMAIN sales
                        /\ sales[bids[c].loan].winner = c
                             <=> holds'[c].status = "RELEASED"
                        /\ sales[bids[c].loan].winner = NoBid /\ IsHighest(c)
                             => holds'[c].status = "HELD"
      BY <1>3, <2>1 DEF BidHoldAgreement
  <2>4. CASE c = b
      BY <1>1, <1>2, <2>2, <2>4 DEF BidHoldAgreement
  <2>5. CASE c # b
      BY <1>2, <2>5 DEF BidHoldAgreement
  <2> QED BY <2>4, <2>5
<1>6. WinnerSettled'
    BY <1>3 DEF WinnerSettled
<1> QED BY <1>4, <1>5, <1>6

(* The winner alone is paid out.                                            *)
LEMMA CloseLiquidationHold ==
    ASSUME HoldInv, TypeInv', NEW l \in Loans, NEW b \in Bids,
           CloseLiquidation(l, b)
    PROVE  HoldInv'
<1> USE DEF HoldInv, CloseLiquidation
<1>1. /\ b \in DOMAIN bids /\ b \in DOMAIN holds /\ bids[b].loan = l
      /\ sales[l] \in Sale
    BY HoldRows DEF Settle, BidsOn, TypeInv, References
<1>2. /\ DOMAIN holds' = DOMAIN holds
      /\ \A g \in DOMAIN holds : g # b => holds'[g] = holds[g]
      /\ holds'[b].status = "RELEASED"
      /\ holds'[b].account = holds[b].account
      /\ holds'[b].amount = holds[b].amount
    BY <1>1, SettleEffect
<1>3. /\ DOMAIN sales' = DOMAIN sales
      /\ \A k \in DOMAIN sales : k # l => sales'[k] = sales[k]
      /\ sales[l].status = "BIDDING"
      /\ sales'[l].status = "SETTLED"
      /\ sales'[l].winner = b
    BY <1>1 DEF Settle, Sale
<1>4. UNCHANGED <<now, offers, bids>>
    BY DEF Settle, operationsVars, marketVars
<1>5. OfferHoldAgreement'
    BY <1>2, <1>4, OffersUntouched, BidsDistinct DEF TypeInv, References
<1>6. b # NoBid
    BY LiquidationAssumption
<1>7. sales[l].winner = NoBid
    BY <1>3 DEF WinnerSettled
<1>8. BidHoldAgreement'
  <2> SUFFICES ASSUME NEW c \in DOMAIN bids
               PROVE  /\ c \in DOMAIN holds'
                      /\ holds'[c].account = bids[c].bidder
                      /\ holds'[c].amount = bids[c].amount
                      /\ bids[c].loan \in DOMAIN sales'
                      /\ sales'[bids[c].loan].winner = c
                           <=> holds'[c].status = "RELEASED"
                      /\ sales'[bids[c].loan].winner = NoBid /\ IsHighest(c)'
                           => holds'[c].status = "HELD"
      BY <1>4 DEF BidHoldAgreement
  <2>1. CASE c = b
      BY <1>1, <1>2, <1>3, <1>6, <2>1 DEF BidHoldAgreement
  <2>2. CASE c # b /\ bids[c].loan = l
      BY <1>1, <1>2, <1>3, <1>6, <1>7, <2>2, LiquidationAssumption, HoldRows
      DEF BidHoldAgreement
  <2>3. CASE c # b /\ bids[c].loan # l
      BY <1>2, <1>3, <1>4, <2>3 DEF BidHoldAgreement, IsHighest, BidsOn
  <2> QED BY <2>1, <2>2, <2>3
<1>9. WinnerSettled'
    BY <1>3, <1>6 DEF WinnerSettled
<1> QED BY <1>5, <1>8, <1>9

-----------------------------------------------------------------------------
(* Every step keeps the hold invariant.                                     *)
LEMMA HoldStep == HoldInv /\ [Next]_vars => HoldInv'
<1> SUFFICES ASSUME HoldInv, [Next]_vars PROVE HoldInv'
    OBVIOUS
<1>1. TypeInv' /\ now \in Int
    BY TypeStep, HoldRows DEF HoldInv
<1>2. CASE CustodyStep \/ MoneyStep
    BY <1>1, <1>2, HoldFrame
    DEF CustodyStep, MoneyStep, Deposit, WithdrawFunds, Transfer, settlementVars,
        operationsVars, marketVars, saleVars
<1>3. CASE TimePasses \/ Administer
    BY <1>1, <1>3, HoldFrame
    DEF TimePasses, Administer, Tick, SetPause, ChangeParameters, settlementVars,
        marketVars, saleVars
<1>4. CASE UNCHANGED vars
    BY <1>1, <1>4, HoldFrame DEF vars
<1>5. CASE MarketStep
  <2>1. ASSUME NEW i \in Listings, NEW caller \in Accounts, NEW r \in Receipts,
               BeginListing(i, caller, r)
        PROVE  HoldInv'
      BY <1>1, <2>1, HoldFrame
      DEF BeginListing, BeginDraft, settlementVars, operationsVars, saleVars
  <2>2. ASSUME NEW i \in Listings, NEW caller \in Accounts,
               PublishListing(i, caller)
        PROVE  HoldInv'
      BY <1>1, <2>2, HoldFrame
      DEF PublishListing, Publish, settlementVars, operationsVars, saleVars
  <2>3. ASSUME NEW i \in Listings, NEW terms \in Terms, NEW rate \in ListingRates,
               NEW lifetime \in ListingLifetimes,
               CreateListing(i, terms.principal, rate, lifetime)
        PROVE  HoldInv'
      BY <1>1, <2>3, HoldFrame
      DEF CreateListing, Draft, settlementVars, operationsVars, saleVars
  <2> QED BY <1>1, <1>5, <2>1, <2>2, <2>3, CancelListingHold, PlaceOfferHold,
             WithdrawOfferHold, ReclaimHoldHold DEF MarketStep
<1>6. CASE LendingStep
  <2>1. ASSUME NEW l \in Loans, NEW caller \in Accounts, RepayLoan(l, caller)
        PROVE  HoldInv'
      BY <1>1, <2>1, HoldFrame
      DEF RepayLoan, Transfer, operationsVars, marketVars, saleVars
  <2>2. ASSUME NEW l \in Loans, NEW caller \in Accounts,
               MarkDefault(l, caller) \/ ClaimReceipt(l, caller)
        PROVE  HoldInv'
      BY <1>1, <2>2, HoldFrame
      DEF MarkDefault, ClaimReceipt, settlementVars, operationsVars, marketVars,
          saleVars
  <2> QED BY <1>1, <1>6, <2>1, <2>2, AcceptOfferHold DEF LendingStep
<1>7. CASE SaleStep
    BY <1>1, <1>7, ScheduleHold, OpenHold, PlaceBidHold, ReclaimBidHold,
       CloseLiquidationHold DEF SaleStep
<1> QED BY <1>2, <1>3, <1>4, <1>5, <1>6, <1>7 DEF Next

(* The hold invariant holds in every behaviour.                             *)
LEMMA HoldInvariant == Spec => []HoldInv
    BY InitHold, HoldStep, PTL DEF Spec

(* The money of an accepted offer, and of no other, is spent, and an offer  *)
(* that can still be accepted is still funded.                              *)
THEOREM OffersAreFunded == Spec => []OfferHoldAgreement
    BY HoldInvariant, PTL DEF HoldInv

(* The winning bid's money, and no other's, is spent, and the standing high *)
(* bid of an unsettled sale is still funded.                                *)
THEOREM BidsAreFunded == Spec => []BidHoldAgreement
    BY HoldInvariant, PTL DEF HoldInv

-----------------------------------------------------------------------------
(* That no account but the float is ever overdrawn: every debit is covered, *)
(* and no line of a distribution is negative, whatever the rates, the fees  *)
(* and the amounts are and however the quotients round.                     *)

(* The truncated quotient of natural numbers.                               *)
LEMMA QuotientBounds ==
    ASSUME NEW x \in Nat, NEW d \in Nat \ {0}
    PROVE  /\ x \div d \in Nat
           /\ (x \div d) * d <= x
    OBVIOUS

(* A share of an amount is no more than the amount.                         *)
LEMMA ShareBounds ==
    ASSUME NEW amount \in Nat, NEW basisPoints \in 0..BasisPoints
    PROVE  Share(amount, basisPoints) \in 0..amount
<1> DEFINE product == amount * basisPoints
           quotient == product \div BasisPoints
<1>1. BasisPoints \in Nat \ {0} /\ basisPoints \in Nat
    BY OperationsAssumption
<1>2. product \in Nat
    BY <1>1
<1>3. product <= amount * BasisPoints
    BY <1>1
<1>4. quotient \in Nat /\ quotient * BasisPoints <= product
    BY <1>1, <1>2, QuotientBounds
<1>5. quotient * BasisPoints <= amount * BasisPoints
  <2>1. quotient * BasisPoints \in Nat /\ amount * BasisPoints \in Nat
      BY <1>1, <1>4
  <2> QED BY <1>2, <1>3, <1>4, <2>1
<1>6. quotient <= amount
  <2>1. SUFFICES ASSUME quotient >= amount + 1 PROVE FALSE
      BY <1>4
  <2>2. quotient * BasisPoints >= (amount + 1) * BasisPoints
      BY <1>1, <1>4, <2>1
  <2>3. (amount + 1) * BasisPoints = amount * BasisPoints + BasisPoints
      BY <1>1
  <2> QED BY <1>1, <1>4, <1>5, <2>2, <2>3
<1> QED BY <1>4, <1>6 DEF Share

(* What is owed on a loan is never negative.                                *)
LEMMA AmountDueBounds ==
    ASSUME LendingTypeOK, OperationsTypeOK, NEW l \in DOMAIN loans
    PROVE  AmountDue(l, now) \in Nat
<1>1. loans[l] \in Loan /\ loans[l].maturesAt > loans[l].startedAt
    BY RowOf DEF LendingTypeOK, WellFormedLoan
<1>2. /\ loans[l].principal \in Nat
      /\ loans[l].rate \in Nat
      /\ loans[l].startedAt \in Int
      /\ loans[l].maturesAt \in Int
      /\ now \in Int
    BY <1>1 DEF Loan, OperationsTypeOK
<1>3. Elapsed(l, now) \in Nat
    BY <1>1, <1>2 DEF Elapsed
<1>4. BasisPoints * Year \in Nat \ {0}
    BY OperationsAssumption
<1>5. loans[l].principal * loans[l].rate \in Nat
    BY <1>2
<1>6. loans[l].principal * loans[l].rate * Elapsed(l, now) \in Nat
    BY <1>3, <1>5
<1>7. AccruedInterest(l, now) \in Nat
    BY <1>4, <1>6, QuotientBounds DEF AccruedInterest
<1> QED BY <1>2, <1>7 DEF AmountDue

-----------------------------------------------------------------------------
NonNegative(distribution) ==
    /\ distribution.noteHolder.amount >= 0
    /\ distribution.fee.amount >= 0
    /\ distribution.borrower.amount >= 0
    /\ distribution.rounding.amount >= 0

(* The waterfall never charges anybody.                                     *)
LEMMA WaterfallBounds ==
    ASSUME LendingTypeOK, OperationsTypeOK, NEW l \in DOMAIN loans,
           NEW proceeds \in Nat
    PROVE  NonNegative(Waterfall(l, proceeds))
<1>1. ToLender(l, proceeds) \in 0..proceeds
    BY AmountDueBounds DEF ToLender
<1>2. proceeds - ToLender(l, proceeds) \in Nat
    BY <1>1
<1>3. loans[l].liquidationFee \in 0..BasisPoints
  <2>1. loans[l] \in Loan
      BY RowOf DEF LendingTypeOK
  <2> QED BY <2>1 DEF Loan
<1>4. LiquidationFee(l, proceeds) \in 0..(proceeds - ToLender(l, proceeds))
    BY <1>2, <1>3, ShareBounds DEF LiquidationFee
<1>5. Surplus(l, proceeds) \in Nat
    BY <1>1, <1>4 DEF Surplus
<1>6. proceeds - ToLender(l, proceeds) - LiquidationFee(l, proceeds)
        - Surplus(l, proceeds) = 0
    BY <1>1, <1>4 DEF Surplus
<1> QED BY <1>1, <1>4, <1>5, <1>6 DEF NonNegative, Waterfall

(* Nor do the lines of an origination the ledger accepts.                   *)
LEMMA OriginationBounds ==
    ASSUME NEW o, BothLinesMove(o), OriginationFee(o) \in Int,
           offers[o].principal \in Int
    PROVE  NonNegative(OriginationLines(o))
    BY DEF NonNegative, OriginationLines, BothLinesMove, NoLine

(* A distribution without a negative line credits nobody a negative amount. *)
LEMMA CreditBounds ==
    ASSUME NEW distribution \in Distribution, NonNegative(distribution), NEW owner
    PROVE  CreditOf(distribution, owner) \in Nat
    BY DEF CreditOf, NonNegative, Distribution, Line

-----------------------------------------------------------------------------
(* The settlement operations keep every balance but the float's in credit.  *)
LedgerInv == TypeInv /\ NoOverdraft

(* Whose balance is whose.                                                  *)
LEMMA Balances ==
    ASSUME SettlementTypeOK
    PROVE  /\ \A owner \in Owners : available[owner] \in Int
           /\ Accounts \subseteq Owners \ {"float"}
           /\ \A h \in DOMAIN holds : /\ holds[h].account \in Accounts
                                      /\ holds[h].amount \in Nat
  <1>1. \A h \in DOMAIN holds : holds[h] \in FundsHold
      BY RowOf DEF SettlementTypeOK
  <1> QED BY <1>1, IdentifierAssumption
          DEF SettlementTypeOK, FundsHold, Owners, Platform

(* Placing a hold debits an account that covers it.                         *)
LEMMA HoldCovered ==
    ASSUME SettlementTypeOK, NoOverdraft, NEW h, NEW account \in Accounts,
           NEW amount \in Nat, Hold(h, account, amount)
    PROVE  NoOverdraft'
    BY Balances DEF NoOverdraft, Hold, Covers, SettlementTypeOK

(* A refund credits the account the hold was taken from.                    *)
LEMMA RefundCovered ==
    ASSUME SettlementTypeOK, NoOverdraft, NEW h \in DOMAIN holds, RefundHold(h)
    PROVE  NoOverdraft'
<1>1. CASE UNCHANGED available
    BY <1>1 DEF NoOverdraft
<1>2. CASE available' = [available EXCEPT ![holds[h].account] = @ + holds[h].amount]
    BY <1>2, Balances DEF NoOverdraft, SettlementTypeOK
<1> QED BY <1>1, <1>2 DEF RefundHold, settlementVars

(* A release credits the lines of its distribution.                         *)
LEMMA ReleaseCovered ==
    ASSUME SettlementTypeOK, NoOverdraft, NEW h \in DOMAIN holds,
           NEW distribution \in Distribution, NonNegative(distribution),
           ReleaseHold(h, distribution)
    PROVE  NoOverdraft'
<1>1. CASE UNCHANGED available
    BY <1>1 DEF NoOverdraft
<1>2. CASE available' = [owner \in Owners |->
                            available[owner] + CreditOf(distribution, owner)]
  <2> SUFFICES ASSUME NEW owner \in Owners \ {"float"}
               PROVE  available'[owner] >= 0
      BY DEF NoOverdraft
  <2>1. available[owner] \in Int /\ available[owner] >= 0
      BY Balances DEF NoOverdraft
  <2>2. CreditOf(distribution, owner) \in Nat
      BY CreditBounds
  <2>3. available'[owner] = available[owner] + CreditOf(distribution, owner)
      BY <1>2
  <2> QED BY <2>1, <2>2, <2>3
<1> QED BY <1>1, <1>2 DEF ReleaseHold, settlementVars

(* A transfer is covered, unless it comes from the float.                   *)
LEMMA TransferCovered ==
    ASSUME SettlementTypeOK, NoOverdraft, NEW from \in Owners, NEW to \in Owners,
           NEW amount \in Nat, Transfer(from, to, amount)
    PROVE  NoOverdraft'
<1> SUFFICES ASSUME NEW owner \in Owners \ {"float"}
             PROVE  available'[owner] >= 0
    BY DEF NoOverdraft
<1>1. available[owner] \in Int /\ available[owner] >= 0
    BY Balances DEF NoOverdraft
<1>2. available'[owner] = available[owner] + (IF owner = to THEN amount ELSE 0)
                                           - (IF owner = from THEN amount ELSE 0)
    BY DEF Transfer
<1>3. owner = from => available[owner] >= amount
    BY DEF Transfer, Covers
<1> QED BY <1>1, <1>2, <1>3

-----------------------------------------------------------------------------
(* The steps that move money.                                               *)
LEMMA MoneyMoves ==
    ASSUME LedgerInv, MoneyStep
    PROVE  NoOverdraft'
<1> USE DEF LedgerInv, TypeInv, TypeOK
<1>1. PICK account \in Accounts, amount \in Payments :
         Deposit(account, amount) \/ WithdrawFunds(account, amount)
    BY DEF MoneyStep
<1>2. account \in Owners /\ "float" \in Owners /\ amount \in Nat
    BY PawnAssumption DEF Owners, Platform
<1> QED BY <1>1, <1>2, TransferCovered DEF Deposit, WithdrawFunds

(* Accepting an offer.                                                      *)
LEMMA AcceptanceCovered ==
    ASSUME LedgerInv, NEW o \in Offers, NEW l \in Loans, NEW caller \in Accounts,
           AcceptOffer(o, l, caller)
    PROVE  NoOverdraft'
<1> USE DEF LedgerInv, TypeInv, TypeOK, AcceptOffer
<1>1. o \in DOMAIN offers /\ o \in DOMAIN holds /\ offers[o].listing \in DOMAIN listings
    BY DEF Accept, References
<1>2. OriginationLines(o) \in Distribution
    BY <1>1, OriginationLinesType
<1>3. offers[o].principal \in Int /\ OriginationFee(o) \in Int
  <2>1. offers[o] \in Offer
      BY <1>1, RowOf DEF MarketTypeOK
  <2>2. params.originationFee \in Int
      BY OperationsAssumption DEF OperationsTypeOK, Parameters
  <2>3. offers[o].principal \in Int
      BY <2>1 DEF Offer
  <2> QED BY <2>2, <2>3, ShareType DEF OriginationFee
<1>4. NonNegative(OriginationLines(o))
    BY <1>3, OriginationBounds
<1> QED BY <1>1, <1>2, <1>4, ReleaseCovered

(* Repaying a loan.                                                         *)
LEMMA RepaymentCovered ==
    ASSUME LedgerInv, NEW l \in Loans, NEW caller \in Accounts,
           RepayLoan(l, caller)
    PROVE  NoOverdraft'
<1> USE DEF LedgerInv, TypeInv, TypeOK, RepayLoan
<1>1. loans[l] \in Loan
    BY RowOf DEF LendingTypeOK
<1>2. caller \in Owners /\ loans[l].noteHolder \in Owners
    BY <1>1 DEF Loan, Owners
<1>3. AmountDue(l, now) \in Nat
    BY AmountDueBounds
<1> QED BY <1>2, <1>3, TransferCovered

(* Closing a sale.                                                          *)
LEMMA SettlementCovered ==
    ASSUME LedgerInv, NEW l \in Loans, NEW b \in Bids, CloseLiquidation(l, b)
    PROVE  NoOverdraft'
<1> USE DEF LedgerInv, TypeInv, TypeOK, CloseLiquidation
<1>1. b \in DOMAIN bids /\ b \in DOMAIN holds /\ l \in DOMAIN loans
    BY DEF Settle, BidsOn, References
<1>2. bids[b].amount \in Nat
  <2>1. bids[b] \in Bid
      BY <1>1, RowOf DEF LiquidationTypeOK
  <2> QED BY <2>1 DEF Bid
<1>3. Waterfall(l, bids[b].amount) \in Distribution
    BY <1>1, <1>2, WaterfallType
<1>4. NonNegative(Waterfall(l, bids[b].amount))
    BY <1>1, <1>2, WaterfallBounds
<1> QED BY <1>1, <1>3, <1>4, ReleaseCovered

-----------------------------------------------------------------------------
(* A marketplace step moves money only into and out of holds.               *)
LEMMA MarketCovered ==
    ASSUME LedgerInv, MarketStep
    PROVE  NoOverdraft'
<1> USE DEF LedgerInv, TypeInv, TypeOK
<1>1. ASSUME UNCHANGED settlementVars PROVE NoOverdraft'
    BY <1>1 DEF settlementVars, NoOverdraft
<1>2. ASSUME NEW i \in Listings, NEW o \in Offers, NEW lender \in Accounts,
             NEW terms \in Terms, NEW lifetime \in OfferLifetimes,
             PlaceOffer(i, o, lender, terms, lifetime)
      PROVE  NoOverdraft'
  <2>1. terms.principal \in Nat
      BY PawnAssumption
  <2> QED BY <1>2, <2>1, HoldCovered DEF PlaceOffer
<1>3. ASSUME NEW o \in Offers, NEW caller \in Accounts,
             WithdrawOffer(o, caller) \/ ReclaimHold(o, caller)
      PROVE  NoOverdraft'
  <2>1. o \in DOMAIN holds
      BY <1>3 DEF WithdrawOffer, Withdraw, ReclaimHold, References
  <2> QED BY <1>3, <2>1, RefundCovered DEF WithdrawOffer, ReclaimHold
<1> QED BY <1>1, <1>2, <1>3
        DEF MarketStep, BeginListing, PublishListing, CancelListing, CreateListing

(* A step of a sale moves money into and out of holds, or settles.          *)
LEMMA SaleCovered ==
    ASSUME LedgerInv, SaleStep
    PROVE  NoOverdraft'
<1> USE DEF LedgerInv, TypeInv, TypeOK
<1>1. ASSUME UNCHANGED settlementVars PROVE NoOverdraft'
    BY <1>1 DEF settlementVars, NoOverdraft
<1>2. ASSUME NEW l \in Loans, NEW b \in Bids, NEW bidder \in Accounts,
             NEW amount \in BidAmounts, PlaceBid(l, b, bidder, amount)
      PROVE  NoOverdraft'
  <2>1. amount \in Nat
      BY PawnAssumption
  <2> QED BY <1>2, <2>1, HoldCovered DEF PlaceBid
<1>3. ASSUME NEW b \in Bids, NEW caller \in Accounts, ReclaimBid(b, caller)
      PROVE  NoOverdraft'
    BY <1>3, RefundCovered DEF ReclaimBid, References
<1> QED BY <1>1, <1>2, <1>3, SettlementCovered
        DEF SaleStep, ScheduleLiquidation, OpenLiquidation

(* Every step keeps the balances in credit.                                 *)
LEMMA LedgerStep == LedgerInv /\ [Next]_vars => LedgerInv'
<1> SUFFICES ASSUME LedgerInv, [Next]_vars PROVE NoOverdraft'
    BY TypeStep DEF LedgerInv
<1>1. ASSUME UNCHANGED settlementVars PROVE NoOverdraft'
    BY <1>1 DEF LedgerInv, settlementVars, NoOverdraft
<1>2. CASE LendingStep
  <2>1. ASSUME NEW l \in Loans, NEW caller \in Accounts,
               MarkDefault(l, caller) \/ ClaimReceipt(l, caller)
        PROVE  NoOverdraft'
      BY <1>1, <2>1 DEF MarkDefault, ClaimReceipt
  <2> QED BY <1>2, <2>1, AcceptanceCovered, RepaymentCovered DEF LendingStep
<1>3. CASE CustodyStep \/ TimePasses \/ Administer
    BY <1>1, <1>3 DEF CustodyStep, TimePasses, Administer
<1>4. CASE UNCHANGED vars
    BY <1>1, <1>4 DEF vars, settlementVars
<1> QED BY <1>2, <1>3, <1>4, MoneyMoves, MarketCovered, SaleCovered DEF Next

(* All balances start at nothing.                                           *)
LEMMA InitLedger == Init => LedgerInv
<1> SUFFICES ASSUME Init PROVE LedgerInv
    OBVIOUS
<1>1. NoOverdraft
    BY DEF Init, SettlementInit, NoOverdraft
<1> QED BY <1>1, InitType DEF LedgerInv

(* Nobody spends money that is not there: no available account but the      *)
(* platform's float is ever overdrawn.                                      *)
THEOREM NobodyIsOverdrawn == Spec => []NoOverdraft
<1>1. LedgerInv => NoOverdraft
    BY DEF LedgerInv
<1> QED BY <1>1, InitLedger, LedgerStep, PTL DEF Spec

-----------------------------------------------------------------------------
(* That the books are kept: each settlement operation moves as much into    *)
(* some accounts as it moves out of others, and the held accounts follow    *)
(* the holds.                                                               *)
BooksInv ==
    /\ TypeInv
    /\ IsFiniteSet(DOMAIN holds)
    /\ LedgerBalanced
    /\ HeldBacked

Booked == [h \in DOMAIN holds |-> holds[h].amount]

(* The accounts are finitely many and their balances are integers.          *)
LEMMA Sums ==
    ASSUME SettlementTypeOK
    PROVE  /\ IsFiniteSet(Owners) /\ IsFiniteSet(Accounts)
           /\ \A owner \in Owners : available[owner] \in Int
           /\ \A account \in Accounts : held[account] \in Int
           /\ SumOver(Owners, available) \in Int
           /\ SumOver(Accounts, held) \in Int
<1>1. IsFiniteSet(Accounts) /\ IsFiniteSet(Platform)
  <2>1. Platform = ({"float"} \cup {"feeRevenue"}) \cup {"rounding"}
      BY DEF Platform
  <2> QED BY <2>1, IdentifierAssumption, FS_EmptySet, FS_Singleton, FS_Union
<1>2. IsFiniteSet(Owners)
    BY <1>1, FS_Union DEF Owners
<1>3. /\ \A owner \in Owners : available[owner] \in Int
      /\ \A account \in Accounts : held[account] \in Int
    BY DEF SettlementTypeOK
<1> QED BY <1>1, <1>2, <1>3, SumType

(* A hold that is placed, or settled, is the only one that changes.         *)
LEMMA OneHoldChanges ==
    ASSUME TypeInv, TypeInv', IsFiniteSet(DOMAIN holds), HeldBacked,
           NEW h, NEW account \in Accounts, NEW amount \in Int,
           \A a \in Accounts :
               held'[a] = held[a] + (IF a = account THEN amount ELSE 0),
           \A a \in Accounts \ {account} : HeldFor(a)' = HeldFor(a),
           \A g \in DOMAIN holds : g # h => g \in DOMAIN holds' /\ Booked'[g] = Booked[g],
           SumOver(HeldFor(account), Booked)' = SumOver(HeldFor(account), Booked) + amount,
           \A a \in Accounts \ {account} : h \notin HeldFor(a)
    PROVE  /\ HeldBacked'
           /\ SumOver(Accounts, held') = SumOver(Accounts, held) + amount
<1> USE DEF TypeInv, TypeOK
<1>1. \A a \in Accounts : /\ held[a] \in Int
                          /\ held'[a] = held[a] + (IF a = account THEN amount ELSE 0)
    BY Sums
<1>2. SumOver(Accounts, held') = SumOver(Accounts, held) + amount
  <2>1. IsFiniteSet(Accounts)
      BY Sums
  <2>2. \A a \in Accounts : held[a] \in Int
      BY <1>1
  <2>3. \A a \in Accounts : held'[a] = held[a] + (IF a = account THEN amount ELSE 0)
      BY <1>1
  <2> QED BY ONLY <2>1, <2>2, <2>3, account \in Accounts, amount \in Int, SumCredit
<1>3. ASSUME NEW a \in Accounts PROVE held'[a] = SumOver(HeldFor(a), Booked)'
  <2>1. held[a] = SumOver(HeldFor(a), Booked)
      BY DEF HeldBacked, Booked
  <2>2. CASE a = account
      BY <1>1, <2>1, <2>2
  <2>3. CASE a # account
    <3>1. HeldFor(a)' = HeldFor(a) /\ h \notin HeldFor(a) /\ HeldFor(a) \subseteq DOMAIN holds
        BY <2>3 DEF HeldFor
    <3>2. \A g \in HeldFor(a) : Booked'[g] = Booked[g]
        BY <3>1
    <3>3. IsFiniteSet(HeldFor(a))
        BY <3>1, FS_Subset
    <3>4. SumOver(HeldFor(a), Booked') = SumOver(HeldFor(a), Booked)
        BY <3>2, <3>3, SumSame
    <3> QED BY <1>1, <2>1, <2>3, <3>1, <3>4
  <2> QED BY <2>2, <2>3
<1> QED BY <1>2, <1>3 DEF HeldBacked, Booked

(* A new hold.                                                              *)
LEMMA HoldBacks ==
    ASSUME BooksInv, TypeInv', NEW h, NEW account \in Accounts, NEW amount \in Nat,
           Hold(h, account, amount)
    PROVE  /\ HeldBacked'
           /\ IsFiniteSet(DOMAIN holds)'
           /\ SumOver(Accounts, held') = SumOver(Accounts, held) + amount
<1> USE DEF BooksInv
<1>1. /\ h \notin DOMAIN holds
      /\ DOMAIN holds' = DOMAIN holds \cup {h}
      /\ \A g \in DOMAIN holds : holds'[g] = holds[g]
      /\ holds'[h].status = "HELD" /\ holds'[h].account = account
      /\ holds'[h].amount = amount
    BY HoldEffect
<1>2. IsFiniteSet(DOMAIN holds')
    BY <1>1, FS_AddElement
<1>3. \A a \in Accounts \ {account} : HeldFor(a)' = HeldFor(a)
    BY <1>1 DEF HeldFor
<1>4. HeldFor(account)' = HeldFor(account) \cup {h} /\ h \notin HeldFor(account)
    BY <1>1 DEF HeldFor
<1>5. \A g \in DOMAIN holds : g \in DOMAIN holds' /\ Booked'[g] = Booked[g]
    BY <1>1 DEF Booked
<1>6. SumOver(HeldFor(account), Booked)' = SumOver(HeldFor(account), Booked) + amount
  <2>1. HeldFor(account) \subseteq DOMAIN holds /\ IsFiniteSet(HeldFor(account))
      BY FS_Subset DEF HeldFor
  <2>2. \A g \in HeldFor(account) \cup {h} : Booked'[g] \in Int
    <3>1. \A g \in DOMAIN holds' : holds'[g].amount \in Int
        BY DEF TypeInv, TypeOK, SettlementTypeOK, IsTable, FundsHold
    <3> QED BY <1>1, <2>1, <3>1 DEF Booked
  <2>3. Booked'[h] = amount
      BY <1>1 DEF Booked
  <2>4. SumOver(HeldFor(account) \cup {h}, Booked') = Booked'[h] + SumOver(HeldFor(account), Booked')
      BY ONLY <1>4, <2>1, <2>2, SumAdd
  <2>5. SumOver(HeldFor(account), Booked') = SumOver(HeldFor(account), Booked)
      BY <1>5, <2>1, SumSame
  <2>6. SumOver(HeldFor(account), Booked) \in Int
    <3>1. \A g \in HeldFor(account) : Booked[g] \in Int
        BY <2>1, Balances DEF Booked, TypeInv, TypeOK
    <3> QED BY <2>1, <3>1, SumType
  <2> QED BY <1>4, <2>3, <2>4, <2>5, <2>6
<1>7. \A a \in Accounts : held'[a] = held[a] + (IF a = account THEN amount ELSE 0)
    BY DEF Hold, TypeInv, TypeOK, SettlementTypeOK
<1>8. \A a \in Accounts \ {account} : h \notin HeldFor(a)
    BY <1>1 DEF HeldFor
<1> QED BY <1>2, <1>3, <1>5, <1>6, <1>7, <1>8, OneHoldChanges

(* A hold that is released or refunded.                                     *)
LEMMA SettleBacks ==
    ASSUME BooksInv, TypeInv', NEW h \in DOMAIN holds, holds[h].status = "HELD",
           NEW status, status # "HELD", holds' = [holds EXCEPT ![h].status = status],
           held' = [held EXCEPT ![holds[h].account] = @ - holds[h].amount]
    PROVE  /\ HeldBacked'
           /\ IsFiniteSet(DOMAIN holds)'
           /\ SumOver(Accounts, held') = SumOver(Accounts, held) - holds[h].amount
<1> USE DEF BooksInv
<1>0. PICK account, amount, change :
         account = holds[h].account /\ amount = holds[h].amount /\ change = 0 - amount
    OBVIOUS
<1>1. account \in Accounts /\ amount \in Int /\ change \in Int
    BY <1>0, Balances DEF TypeInv, TypeOK
<1>2. /\ DOMAIN holds' = DOMAIN holds
      /\ \A g \in DOMAIN holds : g # h => holds'[g] = holds[g]
      /\ holds'[h].status = status
      /\ \A g \in DOMAIN holds : /\ holds'[g].amount = holds[g].amount
                               /\ holds'[g].account = holds[g].account
  <2>1. holds[h] \in FundsHold
      BY HoldRows
  <2> QED BY <2>1 DEF FundsHold
<1>3. \A a \in Accounts \ {account} : HeldFor(a)' = HeldFor(a) /\ h \notin HeldFor(a)
    BY <1>0, <1>2 DEF HeldFor
<1>4. HeldFor(account)' = HeldFor(account) \ {h} /\ h \in HeldFor(account)
    BY <1>0, <1>2 DEF HeldFor
<1>5. Booked' = Booked
    BY <1>2 DEF Booked
<1>6. \A g \in DOMAIN holds : g \in DOMAIN holds' /\ Booked'[g] = Booked[g]
    BY <1>2, <1>5
<1>7. SumOver(HeldFor(account), Booked)' = SumOver(HeldFor(account), Booked) + change
  <2>1. HeldFor(account) \subseteq DOMAIN holds /\ IsFiniteSet(HeldFor(account))
      BY FS_Subset DEF HeldFor
  <2>2. \A g \in HeldFor(account) : Booked[g] \in Int
      BY <2>1, Balances DEF Booked, TypeInv, TypeOK
  <2>3. SumOver(HeldFor(account), Booked) = Booked[h] + SumOver(HeldFor(account) \ {h}, Booked)
      BY <1>4, <2>1, <2>2, SumRemove
  <2>4. Booked[h] = amount
      BY <1>0 DEF Booked
  <2>5. SumOver(HeldFor(account) \ {h}, Booked) \in Int
    <3>1. IsFiniteSet(HeldFor(account) \ {h})
        BY <2>1, FS_RemoveElement
    <3> QED BY <2>2, <3>1, SumType
  <2>6. SumOver(HeldFor(account), Booked)' = SumOver(HeldFor(account) \ {h}, Booked)
      BY <1>4, <1>5
  <2> QED BY <1>0, <1>1, <2>3, <2>4, <2>5, <2>6
<1>8. \A a \in Accounts : held'[a] = held[a] + (IF a = account THEN change ELSE 0)
  <2>1. \A a \in Accounts : held[a] \in Int
      BY Sums DEF TypeInv, TypeOK
  <2>2. \A a \in Accounts : held'[a] = IF a = account THEN held[a] - amount ELSE held[a]
      BY <1>0 DEF TypeInv, TypeOK, SettlementTypeOK
  <2> QED BY <1>0, <1>1, <2>1, <2>2
<1>9. /\ HeldBacked'
      /\ SumOver(Accounts, held') = SumOver(Accounts, held) + change
  <2>1. TypeInv /\ TypeInv' /\ IsFiniteSet(DOMAIN holds) /\ HeldBacked
      OBVIOUS
  <2> QED BY ONLY <1>1, <1>3, <1>6, <1>7, <1>8, <2>1, OneHoldChanges
<1>10. SumOver(Accounts, held) \in Int
    BY Sums DEF TypeInv, TypeOK
<1> QED BY <1>0, <1>1, <1>2, <1>9, <1>10

(* Placing a hold moves its amount from the available to the held account.  *)
LEMMA HoldBooks ==
    ASSUME BooksInv, TypeInv', NEW h, NEW account \in Accounts, NEW amount \in Nat,
           Hold(h, account, amount)
    PROVE  BooksInv'
<1>0. PICK change : change = 0 - amount
    OBVIOUS
<1>1. change \in Int /\ account \in Owners /\ SettlementTypeOK
    BY <1>0 DEF Owners, BooksInv, TypeInv, TypeOK
<1>2. IsFiniteSet(Owners) /\ \A owner \in Owners : available[owner] \in Int
    BY <1>1, Sums
<1>3. \A owner \in Owners : available'[owner] = IF owner = account THEN available[owner] - amount
                                                                   ELSE available[owner]
    BY <1>1 DEF Hold, SettlementTypeOK
<1>4. \A owner \in Owners :
         available'[owner] = available[owner] + (IF owner = account THEN change ELSE 0)
    BY <1>0, <1>2, <1>3
<1>5. SumOver(Owners, available') = SumOver(Owners, available) + change
    BY ONLY <1>1, <1>2, <1>4, SumCredit
<1> USE DEF BooksInv, TypeInv, TypeOK
<1>6. SumOver(Accounts, held') = SumOver(Accounts, held) + amount
    BY HoldBacks
<1>7. LedgerBalanced'
  <2>1. SumOver(Owners, available) \in Int /\ SumOver(Accounts, held) \in Int
      BY Sums
  <2>2. SumOver(Owners, available') + SumOver(Accounts, held') = 0
      BY <1>0, <1>5, <1>6, <2>1 DEF LedgerBalanced
  <2> QED BY <2>2 DEF LedgerBalanced
<1> QED BY <1>7, HoldBacks

(* A refund moves it back.                                                  *)
LEMMA RefundBooks ==
    ASSUME BooksInv, TypeInv', NEW h \in DOMAIN holds, RefundHold(h)
    PROVE  BooksInv'
<1>1. CASE UNCHANGED settlementVars
    BY <1>1 DEF BooksInv, settlementVars, LedgerBalanced, HeldBacked, HeldFor
<1>2. CASE /\ holds[h].status = "HELD"
           /\ held' = [held EXCEPT ![holds[h].account] = @ - holds[h].amount]
           /\ available' = [available EXCEPT ![holds[h].account] = @ + holds[h].amount]
           /\ holds' = [holds EXCEPT ![h].status = "REFUNDED"]
  <2> USE DEF BooksInv, TypeInv, TypeOK
  <2>0. PICK account, amount : account = holds[h].account /\ amount = holds[h].amount
      OBVIOUS
  <2>1. amount \in Int /\ account \in Owners
      BY <2>0, Balances DEF Owners
  <2>2. \A owner \in Owners : available[owner] \in Int
      BY Sums
  <2>3. \A owner \in Owners : available'[owner] = IF owner = account THEN available[owner] + amount
                                                                     ELSE available[owner]
      BY <1>2, <2>0 DEF SettlementTypeOK
  <2>4. \A owner \in Owners :
           available'[owner] = available[owner] + (IF owner = account THEN amount ELSE 0)
      BY <2>2, <2>3
  <2>5. SumOver(Owners, available') = SumOver(Owners, available) + amount
    <3>1. IsFiniteSet(Owners)
        BY Sums
    <3> QED BY ONLY <2>1, <2>2, <2>4, <3>1, SumCredit
  <2>6. /\ HeldBacked' /\ IsFiniteSet(DOMAIN holds)'
        /\ SumOver(Accounts, held') = SumOver(Accounts, held) - amount
      BY <1>2, <2>0, SettleBacks
  <2>7. LedgerBalanced'
    <3>1. SumOver(Owners, available) \in Int /\ SumOver(Accounts, held) \in Int
        BY Sums
    <3>2. SumOver(Owners, available') + SumOver(Accounts, held') = 0
        BY <2>1, <2>5, <2>6, <3>1 DEF LedgerBalanced
    <3> QED BY <3>2 DEF LedgerBalanced
  <2> QED BY <2>6, <2>7
<1> QED BY <1>1, <1>2 DEF RefundHold

(* A transfer moves an amount from one available account to another, which  *)
(* may be the same.                                                         *)
LEMMA TransferBooks ==
    ASSUME BooksInv, TypeInv', NEW from \in Owners, NEW to \in Owners,
           NEW amount \in Int, Transfer(from, to, amount)
    PROVE  BooksInv'
<1> USE DEF BooksInv, TypeInv, TypeOK
<1>1. PICK middle, change :
         /\ middle = [owner \in Owners |-> available[owner] + (IF owner = to THEN amount ELSE 0)]
         /\ change = 0 - amount
    OBVIOUS
<1>2. change \in Int
    BY <1>1
<1>3. \A owner \in Owners : available[owner] \in Int
    BY Sums
<1>4. /\ SumOver(Owners, middle) = SumOver(Owners, available) + amount
      /\ \A owner \in Owners : middle[owner] \in Int
  <2>1. \A owner \in Owners :
           middle[owner] = available[owner] + (IF owner = to THEN amount ELSE 0)
      BY <1>1
  <2>2. IsFiniteSet(Owners)
      BY Sums
  <2> QED BY ONLY <1>3, <2>1, <2>2, to \in Owners, amount \in Int, SumCredit
<1>5. \A owner \in Owners :
         available'[owner] = middle[owner] + (IF owner = from THEN change ELSE 0)
    BY <1>1, <1>3 DEF Transfer
<1>6. SumOver(Owners, available') = SumOver(Owners, middle) + change
  <2>1. IsFiniteSet(Owners)
      BY Sums
  <2> QED BY ONLY <1>2, <1>4, <1>5, <2>1, from \in Owners, SumCredit
<1>7. SumOver(Owners, available') = SumOver(Owners, available)
    BY <1>1, <1>4, <1>6, Sums
<1>8. UNCHANGED <<held, holds>>
    BY DEF Transfer
<1> QED BY <1>7, <1>8 DEF LedgerBalanced, HeldBacked, HeldFor

(* What a distribution credits in all is its total, also when two lines     *)
(* credit one account.                                                      *)
LEMMA CreditsSum ==
    ASSUME NEW S, IsFiniteSet(S), NEW f, NEW e, \A owner \in S : f[owner] \in Int,
           NEW distribution \in Distribution, Owners \subseteq S,
           \A owner \in S : e[owner] = f[owner] + CreditOf(distribution, owner)
    PROVE  SumOver(S, e) = SumOver(S, f) + DistributedTotal(distribution)
<1> DEFINE credit(line, owner) == IF line.to = owner THEN line.amount ELSE 0
           a == distribution.noteHolder
           b == distribution.fee
           c == distribution.borrower
           d == distribution.rounding
<1>1. \A line \in {a, b, c, d} : line.to \in S /\ line.amount \in Int
    BY DEF Distribution, Line
<1>2. PICK f1 : f1 = [owner \in S |-> f[owner] + credit(a, owner)]
    OBVIOUS
<1>3. PICK f2 : f2 = [owner \in S |-> f1[owner] + credit(b, owner)]
    OBVIOUS
<1>4. PICK f3 : f3 = [owner \in S |-> f2[owner] + credit(c, owner)]
    OBVIOUS
<1>5. \A owner \in S : e[owner] = f[owner] + (credit(a, owner) + credit(b, owner)
                                                + credit(c, owner) + credit(d, owner))
    BY DEF CreditOf
<1> HIDE DEF a, b, c, d
<1>6. ASSUME NEW line \in {a, b, c, d}, NEW g, NEW h, \A owner \in S : g[owner] \in Int,
             \A owner \in S : h[owner] = g[owner] + credit(line, owner)
      PROVE  /\ SumOver(S, h) = SumOver(S, g) + line.amount
             /\ \A owner \in S : h[owner] \in Int
  <2>1. \A owner \in S : h[owner] = g[owner] + (IF owner = line.to THEN line.amount ELSE 0)
      BY <1>6
  <2> QED BY <1>1, <1>6, <2>1, SumCredit
<1>7. /\ SumOver(S, f1) = SumOver(S, f) + a.amount
      /\ \A owner \in S : f1[owner] \in Int
  <2>1. \A owner \in S : f1[owner] = f[owner] + credit(a, owner)
      BY <1>2
  <2> QED BY <1>6, <2>1
<1>8. /\ SumOver(S, f2) = SumOver(S, f1) + b.amount
      /\ \A owner \in S : f2[owner] \in Int
  <2>1. \A owner \in S : f2[owner] = f1[owner] + credit(b, owner)
      BY <1>3
  <2> QED BY <1>6, <1>7, <2>1
<1>9. /\ SumOver(S, f3) = SumOver(S, f2) + c.amount
      /\ \A owner \in S : f3[owner] \in Int
  <2>1. \A owner \in S : f3[owner] = f2[owner] + credit(c, owner)
      BY <1>4
  <2> QED BY <1>6, <1>8, <2>1
<1>10. SumOver(S, e) = SumOver(S, f3) + d.amount
  <2>1. \A line \in {a, b, c, d}, owner \in S : credit(line, owner) \in Int
      BY <1>1
  <2>2. \A owner \in S : e[owner] = f3[owner] + credit(d, owner)
    <3> SUFFICES ASSUME NEW owner \in S PROVE e[owner] = f3[owner] + credit(d, owner)
        OBVIOUS
    <3>1. f3[owner] = ((f[owner] + credit(a, owner)) + credit(b, owner)) + credit(c, owner)
        BY <1>2, <1>3, <1>4
    <3> HIDE DEF credit
    <3> QED BY <1>5, <2>1, <3>1
  <2> QED BY <1>6, <1>9, <2>2
<1>11. SumOver(S, f) \in Int
    BY SumType
<1>12. SumOver(S, e) = SumOver(S, f) + (a.amount + b.amount + c.amount + d.amount)
    BY <1>1, <1>7, <1>8, <1>9, <1>10, <1>11
<1> QED BY <1>12 DEF DistributedTotal, a, b, c, d

(* A release moves the hold's amount to the accounts of its distribution.   *)
LEMMA ReleaseBooks ==
    ASSUME BooksInv, TypeInv', NEW h \in DOMAIN holds,
           NEW distribution \in Distribution, ReleaseHold(h, distribution)
    PROVE  BooksInv'
<1>1. CASE UNCHANGED settlementVars
    BY <1>1 DEF BooksInv, settlementVars, LedgerBalanced, HeldBacked, HeldFor
<1>2. CASE /\ holds[h].status = "HELD"
           /\ DistributedTotal(distribution) = holds[h].amount
           /\ held' = [held EXCEPT ![holds[h].account] = @ - holds[h].amount]
           /\ available' = [owner \in Owners |->
                                available[owner] + CreditOf(distribution, owner)]
           /\ holds' = [holds EXCEPT ![h].status = "RELEASED"]
  <2> USE DEF BooksInv, TypeInv, TypeOK
  <2>1. holds[h].amount \in Int
      BY Balances
  <2>2. /\ \A owner \in Owners : available[owner] \in Int
        /\ IsFiniteSet(Owners)
      BY Sums
  <2>3. \A owner \in Owners : available'[owner] = available[owner] + CreditOf(distribution, owner)
      BY <1>2
  <2>4. SumOver(Owners, available') = SumOver(Owners, available) + DistributedTotal(distribution)
      BY <2>2, <2>3, CreditsSum
  <2>5. /\ HeldBacked' /\ IsFiniteSet(DOMAIN holds)'
        /\ SumOver(Accounts, held') = SumOver(Accounts, held) - holds[h].amount
      BY <1>2, SettleBacks
  <2>6. LedgerBalanced'
    <3>1. SumOver(Owners, available) \in Int /\ SumOver(Accounts, held) \in Int
        BY Sums
    <3>2. SumOver(Owners, available') + SumOver(Accounts, held') = 0
        BY <1>2, <2>1, <2>4, <2>5, <3>1 DEF LedgerBalanced
    <3> QED BY <3>2 DEF LedgerBalanced
  <2> QED BY <2>5, <2>6
<1> QED BY <1>1, <1>2 DEF ReleaseHold

(* Steps that move no money.                                                *)
LEMMA BooksFrame ==
    ASSUME BooksInv, TypeInv', UNCHANGED settlementVars
    PROVE  BooksInv'
    BY DEF BooksInv, settlementVars, LedgerBalanced, HeldBacked, HeldFor

(* The steps that move money keep the books.                                *)
LEMMA AcceptOfferBooks ==
    ASSUME BooksInv, TypeInv', NEW o \in Offers, NEW l \in Loans, NEW caller \in Accounts,
           AcceptOffer(o, l, caller)
    PROVE  BooksInv'
<1> USE DEF BooksInv, TypeInv, TypeOK
<1>1. o \in DOMAIN offers /\ o \in DOMAIN holds /\ offers[o].listing \in DOMAIN listings
    BY DEF AcceptOffer, Accept, References
<1>2. PICK lines : lines = OriginationLines(o)
    OBVIOUS
<1>3. lines \in Distribution /\ ReleaseHold(o, lines)
    BY <1>1, <1>2, OriginationLinesType DEF AcceptOffer
<1> QED BY <1>1, <1>3, ReleaseBooks

(* Repaying a loan.                                                         *)
LEMMA RepayLoanBooks ==
    ASSUME BooksInv, TypeInv', NEW l \in Loans, NEW caller \in Accounts,
           RepayLoan(l, caller)
    PROVE  BooksInv'
<1> USE DEF BooksInv, TypeInv, TypeOK, RepayLoan
<1>1. PICK to, amount : to = loans[l].noteHolder /\ amount = AmountDue(l, now)
    OBVIOUS
<1>2. loans[l] \in Loan
    BY RowOf DEF LendingTypeOK
<1>3. caller \in Owners /\ to \in Owners /\ amount \in Int
    BY <1>1, <1>2, AmountDueType DEF Loan, Owners
<1>4. Transfer(caller, to, amount)
    BY <1>1
<1> QED BY <1>3, <1>4, TransferBooks

(* Closing a sale.                                                          *)
LEMMA CloseLiquidationBooks ==
    ASSUME BooksInv, TypeInv', NEW l \in Loans, NEW b \in Bids, CloseLiquidation(l, b)
    PROVE  BooksInv'
<1> USE DEF BooksInv, TypeInv, TypeOK
<1>1. b \in DOMAIN bids /\ b \in DOMAIN holds /\ l \in DOMAIN loans
    BY DEF CloseLiquidation, Settle, BidsOn, References
<1>2. bids[b].amount \in Int
    BY <1>1, HoldRows DEF Bid
<1>3. PICK lines : lines = Waterfall(l, bids[b].amount)
    OBVIOUS
<1>4. lines \in Distribution /\ ReleaseHold(b, lines)
    BY <1>1, <1>2, <1>3, WaterfallType DEF CloseLiquidation
<1> QED BY <1>1, <1>4, ReleaseBooks

(* Deposits and withdrawals are transfers from and to the float.            *)
LEMMA MoneyStepBooks ==
    ASSUME BooksInv, TypeInv', MoneyStep
    PROVE  BooksInv'
<1>1. PICK account \in Accounts, amount \in Payments :
         Deposit(account, amount) \/ WithdrawFunds(account, amount)
    BY DEF MoneyStep
<1>2. account \in Owners /\ "float" \in Owners /\ amount \in Int
    BY PawnAssumption DEF Owners, Platform
<1> QED BY <1>1, <1>2, TransferBooks DEF Deposit, WithdrawFunds

(* The marketplace holds money and gives it back.                           *)
LEMMA MarketStepBooks ==
    ASSUME BooksInv, TypeInv', MarketStep
    PROVE  BooksInv'
<1>1. ASSUME NEW i \in Listings, NEW o \in Offers, NEW lender \in Accounts,
             NEW terms \in Terms, NEW lifetime \in OfferLifetimes,
             PlaceOffer(i, o, lender, terms, lifetime)
      PROVE  BooksInv'
  <2>1. PICK amount : amount = terms.principal
      OBVIOUS
  <2>2. amount \in Nat /\ Hold(o, lender, amount)
      BY <1>1, <2>1, PawnAssumption DEF PlaceOffer
  <2> QED BY <2>2, HoldBooks
<1>2. ASSUME NEW o \in Offers, NEW caller \in Accounts,
             WithdrawOffer(o, caller) \/ ReclaimHold(o, caller)
      PROVE  BooksInv'
  <2>1. o \in DOMAIN holds
      BY <1>2 DEF WithdrawOffer, Withdraw, ReclaimHold, BooksInv, TypeInv, References
  <2>2. RefundHold(o)
      BY <1>2 DEF WithdrawOffer, ReclaimHold
  <2> QED BY <2>1, <2>2, RefundBooks
<1>3. ASSUME UNCHANGED settlementVars PROVE BooksInv'
    BY <1>3, BooksFrame
<1> QED BY <1>1, <1>2, <1>3
        DEF MarketStep, BeginListing, PublishListing, CancelListing, CreateListing

(* So does a sale, until it is settled.                                     *)
LEMMA SaleStepBooks ==
    ASSUME BooksInv, TypeInv', SaleStep
    PROVE  BooksInv'
<1>1. ASSUME NEW l \in Loans, NEW b \in Bids, NEW bidder \in Accounts,
             NEW amount \in BidAmounts, PlaceBid(l, b, bidder, amount)
      PROVE  BooksInv'
  <2>1. amount \in Nat /\ Hold(b, bidder, amount)
      BY <1>1, PawnAssumption DEF PlaceBid
  <2> QED BY <2>1, HoldBooks
<1>2. ASSUME NEW b \in Bids, NEW caller \in Accounts, ReclaimBid(b, caller)
      PROVE  BooksInv'
  <2>1. b \in DOMAIN holds /\ RefundHold(b)
      BY <1>2 DEF ReclaimBid, BooksInv, TypeInv, References
  <2> QED BY <2>1, RefundBooks
<1>3. ASSUME UNCHANGED settlementVars PROVE BooksInv'
    BY <1>3, BooksFrame
<1> QED BY <1>1, <1>2, <1>3, CloseLiquidationBooks
        DEF SaleStep, ScheduleLiquidation, OpenLiquidation

(* Every step keeps the books.                                              *)
LEMMA BooksStep == BooksInv /\ [Next]_vars => BooksInv'
<1> SUFFICES ASSUME BooksInv, [Next]_vars PROVE BooksInv'
    OBVIOUS
<1>1. TypeInv'
    BY TypeStep DEF BooksInv
<1>2. ASSUME UNCHANGED settlementVars PROVE BooksInv'
    BY <1>1, <1>2, BooksFrame
<1>3. CASE LendingStep
  <2>1. ASSUME NEW l \in Loans, NEW caller \in Accounts,
               MarkDefault(l, caller) \/ ClaimReceipt(l, caller)
        PROVE  BooksInv'
      BY <1>2, <2>1 DEF MarkDefault, ClaimReceipt
  <2> QED BY <1>1, <1>3, <2>1, AcceptOfferBooks, RepayLoanBooks DEF LendingStep
<1>4. CASE CustodyStep \/ TimePasses \/ Administer
    BY <1>2, <1>4 DEF CustodyStep, TimePasses, Administer
<1>5. CASE UNCHANGED vars
    BY <1>2, <1>5 DEF vars, settlementVars
<1> QED BY <1>1, <1>3, <1>4, <1>5, MoneyStepBooks, MarketStepBooks, SaleStepBooks DEF Next

(* The books open with nothing in them.                                     *)
LEMMA InitBooks == Init => BooksInv
<1> SUFFICES ASSUME Init PROVE BooksInv
    OBVIOUS
<1>1. TypeInv
    BY InitType
<1>2. /\ available = [owner \in Owners |-> 0]
      /\ held = [account \in Accounts |-> 0]
      /\ DOMAIN holds = {}
    BY EmptyIsTable DEF Init, SettlementInit
<1>3. IsFiniteSet(Owners) /\ IsFiniteSet(Accounts)
    BY <1>1, Sums DEF TypeInv, TypeOK
<1>4. SumOver(Owners, available) = 0 /\ SumOver(Accounts, held) = 0
    BY <1>2, <1>3, SumZero
<1>5. LedgerBalanced
    BY <1>4 DEF LedgerBalanced
<1>6. \A a \in Accounts : HeldFor(a) = {} /\ held[a] = 0
    BY <1>2 DEF HeldFor
<1>7. HeldBacked
    BY <1>6, SumEmpty DEF HeldBacked
<1> QED BY <1>1, <1>2, <1>5, <1>7, FS_EmptySet DEF BooksInv

(* The inductive invariant of the books.                                    *)
LEMMA BooksInvariant == Spec => []BooksInv
    BY InitBooks, BooksStep, PTL DEF Spec

(* Money is neither made nor lost: whatever is deposited, held, released,   *)
(* refunded or shared out with rounding, the accounts of all the members    *)
(* and of the platform sum to zero.                                         *)
THEOREM BooksBalance == Spec => []LedgerBalanced
<1>1. BooksInv => LedgerBalanced
    BY DEF BooksInv
<1> QED BY <1>1, BooksInvariant, PTL

(* A member's held account is at all times the sum of the holds that are    *)
(* still to be released or refunded: none is settled twice, and no money is *)
(* held for nothing.                                                        *)
THEOREM HoldsAreBacked == Spec => []HeldBacked
<1>1. BooksInv => HeldBacked
    BY DEF BooksInv
<1> QED BY <1>1, BooksInvariant, PTL

-----------------------------------------------------------------------------
(* That an honest count of the vault is explained by the records.           *)

(* An item released to its holder was asked for.                            *)
ReleasedOnRequest ==
    \A r \in DOMAIN receipts : receipts[r].status = "RELEASED" => r \in DOMAIN redemptions

(* What a step may do to a receipt that matters here.                       *)
NotReleased(r) ==
    receipts'[r].status = "RELEASED" =>
        \/ r \in DOMAIN redemptions'
        \/ r \in DOMAIN receipts /\ receipts[r].status = "RELEASED"

(* The receipts a step leaves alone.                                        *)
LEMMA ReleaseOnlyOnRequest ==
    ASSUME TypeInv, [Next]_vars, NEW q \in DOMAIN receipts'
    PROVE  NotReleased(q)
<1>0. References /\ \A r \in DOMAIN receipts : receipts[r] \in Receipt
    BY Rows DEF TypeInv
<1>1. CASE q \in DOMAIN receipts /\ receipts'[q] = receipts[q]
    BY <1>1 DEF NotReleased
<1>2. ASSUME NEW r \in Receipts, IssueReceipt(r)
      PROVE  NotReleased(q)
  <2>1. CASE r # q
      BY <1>1, <1>2, <2>1 DEF IssueReceipt, Insert
  <2>2. CASE r = q
      BY <1>2, <2>2 DEF IssueReceipt, Insert, NotReleased
  <2> QED BY <2>1, <2>2
<1>3. ASSUME NEW r \in Receipts, NEW caller \in Accounts,
             RequestRedemption(r, caller)
      PROVE  NotReleased(q)
  <2>1. CASE r # q
      BY <1>1, <1>3, <2>1 DEF RequestRedemption, BurnForRedemption
  <2>2. CASE r = q
      BY <1>3, <2>2 DEF RequestRedemption, Insert, NotReleased
  <2> QED BY <2>1, <2>2
<1>4. ASSUME NEW o \in Offers, NEW l \in Loans, NEW caller \in Accounts,
             AcceptOffer(o, l, caller)
      PROVE  NotReleased(q)
  <2>1. PICK r : EncumberReceipt(r, l)
      BY <1>4 DEF AcceptOffer
  <2>2. CASE r # q
      BY <1>1, <2>1, <2>2 DEF EncumberReceipt
  <2>3. CASE r = q
      BY <1>0, <2>1, <2>3 DEF EncumberReceipt, InVault, NotReleased, Receipt
  <2> QED BY <2>2, <2>3
<1>5. ASSUME NEW l \in Loans, NEW caller \in Accounts, RepayLoan(l, caller)
      PROVE  NotReleased(q)
  <2>1. CASE loans[l].receipt # q
      BY <1>1, <1>5, <2>1 DEF RepayLoan, ReleaseEncumbrance
  <2>2. CASE loans[l].receipt = q
      BY <1>0, <1>5, <2>2 DEF RepayLoan, ReleaseEncumbrance, NotReleased, Receipt
  <2> QED BY <2>1, <2>2
<1>6. ASSUME NEW l \in Loans, NEW caller \in Accounts, ClaimReceipt(l, caller)
      PROVE  NotReleased(q)
  <2>1. CASE loans[l].receipt # q
      BY <1>1, <1>6, <2>1 DEF ClaimReceipt, ClaimDefault
  <2>2. CASE loans[l].receipt = q
      BY <1>0, <1>6, <2>2 DEF ClaimReceipt, ClaimDefault, NotReleased
  <2> QED BY <2>1, <2>2
<1>7. ASSUME NEW l \in Loans, NEW b \in Bids, CloseLiquidation(l, b)
      PROVE  NotReleased(q)
  <2>1. CASE loans[l].receipt # q
      BY <1>1, <1>7, <2>1 DEF CloseLiquidation, BurnForLiquidation
  <2>2. CASE loans[l].receipt = q
      BY <1>0, <1>7, <2>2 DEF CloseLiquidation, BurnForLiquidation, NotReleased, Receipt
  <2> QED BY <2>1, <2>2
<1>8. CASE CustodyStep
    BY <1>1, <1>2, <1>3, <1>8 DEF CustodyStep, VerifyRedemption, ConfirmRelease
<1>9. CASE LendingStep
    BY <1>1, <1>4, <1>5, <1>6, <1>9 DEF LendingStep, MarkDefault, custodyVars
<1>10. CASE SaleStep
    BY <1>1, <1>7, <1>10
    DEF SaleStep, ScheduleLiquidation, OpenLiquidation, PlaceBid, ReclaimBid,
        custodyVars
<1>11. CASE MarketStep
    BY <1>1, <1>11
    DEF MarketStep, BeginListing, PublishListing, CancelListing, CreateListing,
        PlaceOffer, WithdrawOffer, ReclaimHold, custodyVars
<1>12. CASE MoneyStep \/ TimePasses \/ Administer \/ UNCHANGED vars
    BY <1>1, <1>12
    DEF MoneyStep, Deposit, WithdrawFunds, TimePasses, Administer, vars, custodyVars
<1> QED BY <1>8, <1>9, <1>10, <1>11, <1>12 DEF Next

(* A request stays on record.                                               *)
LEMMA RedemptionsStay ==
    ASSUME [Next]_vars
    PROVE  DOMAIN redemptions \subseteq DOMAIN redemptions'
<1>1. CASE UNCHANGED redemptions
    BY <1>1
<1>2. CASE CustodyStep
    BY <1>2 DEF CustodyStep, IssueReceipt, RequestRedemption, VerifyRedemption,
                ConfirmRelease, Insert
<1>3. CASE LendingStep
    BY <1>1, <1>3 DEF LendingStep, AcceptOffer, RepayLoan, MarkDefault, ClaimReceipt, custodyVars
<1>4. CASE SaleStep
    BY <1>1, <1>4
    DEF SaleStep, ScheduleLiquidation, OpenLiquidation, PlaceBid, ReclaimBid,
        CloseLiquidation, custodyVars
<1>5. CASE MarketStep
    BY <1>1, <1>5
    DEF MarketStep, BeginListing, PublishListing, CancelListing, CreateListing,
        PlaceOffer, WithdrawOffer, ReclaimHold, custodyVars
<1>6. CASE MoneyStep \/ TimePasses \/ Administer \/ UNCHANGED vars
    BY <1>1, <1>6
    DEF MoneyStep, Deposit, WithdrawFunds, TimePasses, Administer, vars, custodyVars
<1> QED BY <1>2, <1>3, <1>4, <1>5, <1>6 DEF Next

(* So every released receipt has its request.                               *)
LEMMA ReleasedInvariant == Spec => []ReleasedOnRequest
<1>1. Init => ReleasedOnRequest
    BY EmptyIsTable DEF Init, CustodyInit, ReleasedOnRequest
<1>2. TypeInv /\ ReleasedOnRequest /\ [Next]_vars => ReleasedOnRequest'
  <2> SUFFICES ASSUME TypeInv, ReleasedOnRequest, [Next]_vars,
                      NEW r \in DOMAIN receipts', receipts'[r].status = "RELEASED"
               PROVE  r \in DOMAIN redemptions'
      BY DEF ReleasedOnRequest
  <2>1. NotReleased(r)
      BY ReleaseOnlyOnRequest
  <2> QED BY <2>1, RedemptionsStay DEF NotReleased, ReleasedOnRequest
<1>3. Spec => []TypeInv
    BY InitType, TypeStep, PTL DEF Spec
<1> QED BY <1>1, <1>2, <1>3, PTL DEF Spec

(* The records explain every honest count: what the vault is short of is a  *)
(* loss, and what it has too much of is on its way out, or sold.            *)
LEMMA CountExplained ==
    ASSUME CollateralInv, ReleasedOnRequest, LedgerBalanced
    PROVE  HonestCountExplained
<1> USE DEF CollateralInv
<1>1. /\ \A r \in DOMAIN receipts : receipts[r] \in Receipt
      /\ \A r \in DOMAIN redemptions : r \in DOMAIN receipts /\ redemptions[r] \in Redemption
      /\ \A l \in DOMAIN loans : loans[l].receipt \in DOMAIN receipts
    BY Rows, RowOf DEF TypeInv, TypeOK, CustodyTypeOK, References
<1> SUFFICES ASSUME NEW counted \in HonestCounts
             PROVE  LET drift == InventoryDrift(counted) IN
                    /\ drift.missingFromCount = {}
                    /\ \A l \in Outstanding :
                          NeverDefaulted(loans[l].receipt) => loans[l].receipt \in counted
                    /\ \A r \in drift.missingFromRecords :
                          \/ receipts[r].status = "LIQUIDATED"
                          \/ /\ r \in DOMAIN redemptions
                             /\ redemptions[r].status \in {"REQUESTED", "VERIFIED"}
                    /\ LedgerDrift = 0
    BY DEF HonestCountExplained
<1>2. counted \subseteq AtHand /\ \A r \in AtHand : receipts[r].status # "LIQUIDATED" => r \in counted
    BY DEF HonestCounts
<1>3. RecordedInventory \subseteq counted
  <2> SUFFICES ASSUME NEW r \in RecordedInventory PROVE r \in counted
      OBVIOUS
  <2>1. r \in DOMAIN receipts /\ receipts[r].status \in {"IN_VAULT", "ENCUMBERED"}
      BY DEF RecordedInventory
  <2>2. r \in AtHand
      BY <2>1 DEF AtHand, RedemptionBurned
  <2> QED BY <1>2, <2>1, <2>2
<1>4. ASSUME NEW l \in Outstanding, NeverDefaulted(loans[l].receipt)
      PROVE  loans[l].receipt \in counted
  <2>1. l \in DOMAIN loans /\ receipts[loans[l].receipt].status = "ENCUMBERED"
      BY <1>4 DEF Outstanding, CollateralKept
  <2> QED BY <1>1, <1>3, <2>1 DEF RecordedInventory
<1>5. ASSUME NEW r \in counted \ RecordedInventory
      PROVE  \/ receipts[r].status = "LIQUIDATED"
             \/ r \in DOMAIN redemptions /\ redemptions[r].status \in {"REQUESTED", "VERIFIED"}
  <2>1. r \in AtHand /\ r \in DOMAIN receipts
      BY <1>2 DEF AtHand
  <2>2. receipts[r].status \in {"RELEASED", "LIQUIDATED"}
      BY <1>1, <2>1 DEF RecordedInventory, Receipt
  <2>3. CASE receipts[r].status = "RELEASED"
    <3>1. r \in DOMAIN redemptions /\ redemptions[r].status # "RELEASED"
        BY <2>1, <2>3 DEF ReleasedOnRequest, AtHand
    <3> QED BY <1>1, <3>1 DEF Redemption
  <2> QED BY <2>2, <2>3
<1>6. LedgerDrift = 0
    BY DEF LedgerBalanced, LedgerDrift
<1> QED BY <1>3, <1>4, <1>5, <1>6 DEF InventoryDrift

(* "Drift is an incident": whatever the market has been through, a count of *)
(* the vault that is honest never misses an item of the records nor one     *)
(* that secures a loan in good standing, and the ledger never drifts.       *)
THEOREM CountsAreExplained == Spec => []HonestCountExplained
    BY CollateralInvariant, ReleasedInvariant, BooksBalance, CountExplained, PTL
=============================================================================
