---------------------------- MODULE Transactions ----------------------------
(***************************************************************************)
(* The ledger settlement adapter statement by statement, inside the         *)
(* database transactions of the use cases that call it.  A transaction      *)
(* takes the row locks of its use case, settles, and commits; what it reads *)
(* is what has been committed when its statement runs (READ COMMITTED), and *)
(* what it writes is seen by nobody before it commits.                      *)
(*                                                                         *)
(* A row is locked FOR UPDATE, or FOR KEY SHARE by the foreign key of an    *)
(* entry that names the account.  The account rows are inserted on first    *)
(* use, which waits for another transaction that is inserting the same.     *)
(* PostgreSQL ends a circle of waiting transactions by aborting one of them,*)
(* and any transaction may be aborted by its timeout or a lost connection.  *)
(***************************************************************************)
EXTENDS Ledger, Sequences

CONSTANTS Transactions,
          Tasks,            \* what they may be asked to do
          OpeningAccounts   \* the account rows that are there at first

ListingRow(i) == <<"listing", i>>
LoanRow(l) == <<"loan", l>>
SaleRow(l) == <<"sale", l>>
HoldRow(h) == <<"hold", h>>
Available(owner) == <<"available", owner>>
Held(account) == <<"held", account>>

Accounting == {Available(owner) : owner \in Owners} \cup {Held(a) : a \in Accounts}

Row == {ListingRow(i) : i \in Listings} \cup {LoanRow(l) : l \in Loans}
         \cup {SaleRow(l) : l \in Loans} \cup {HoldRow(h) : h \in Holds} \cup Accounting

(* The use cases: the rows each locks, in that order, before it settles.     *)
PlaceOffer(i, h, a, n) == [op |-> "hold", rows |-> <<ListingRow(i)>>, hold |-> h, from |-> a, amount |-> n]
PlaceBid(l, h, a, n)   == [op |-> "hold", rows |-> <<SaleRow(l)>>, hold |-> h, from |-> a, amount |-> n]
AcceptOffer(i, h, d)   == [op |-> "release", rows |-> <<ListingRow(i)>>, hold |-> h,
                           reason |-> "ORIGINATE_LOAN", payout |-> d]
CloseSale(l, h, d)     == [op |-> "release", rows |-> <<LoanRow(l), SaleRow(l)>>, hold |-> h,
                           reason |-> "SETTLE_LIQUIDATION", payout |-> d]
WithdrawOffer(i, h)    == [op |-> "refund", rows |-> <<ListingRow(i)>>, hold |-> h]
ReclaimHold(h)         == [op |-> "refund", rows |-> <<>>, hold |-> h]
ReclaimBid(l, h)       == [op |-> "refund", rows |-> <<SaleRow(l)>>, hold |-> h]
RepayLoan(l, a, b, n)  == [op |-> "transfer", rows |-> <<LoanRow(l)>>, from |-> a, to |-> b, amount |-> n]
Withdraw(a, n)         == [op |-> "transfer", rows |-> <<>>, from |-> a, to |-> "float", amount |-> n]
Deposit(a, n)          == [op |-> "transfer", rows |-> <<>>, from |-> "float", to |-> a, amount |-> n]

(* An acceptance pays the borrower and the fee; a sale pays up to four       *)
(* lines, and its loan was once paid out to the borrower, who therefore has  *)
(* an account, as has whoever repays.                                       *)
Origination(d) ==
    /\ d.borrower.to \in Accounts /\ d.borrower.amount > 0
    /\ d.fee.to = "feeRevenue" /\ d.fee.amount > 0
    /\ d.noteHolder = NoLine /\ d.rounding = NoLine

Waterfall(d) ==
    /\ d.noteHolder.amount # 0 => d.noteHolder.to \in Accounts
    /\ d.fee.amount # 0 => d.fee.to = "feeRevenue"
    /\ d.borrower.amount # 0 => Available(d.borrower.to) \in OpeningAccounts
    /\ d.rounding.amount # 0 => d.rounding.to = "rounding"

IsUseCase(job) ==
    \/ \E i \in Listings, h \in Offers, a \in Accounts, n \in Amounts :
          job = PlaceOffer(i, h, a, n)
    \/ \E l \in Loans, h \in Bids, a \in Accounts, n \in Amounts : job = PlaceBid(l, h, a, n)
    \/ \E i \in Listings, h \in Offers, d \in Payouts :
          Origination(d) /\ job = AcceptOffer(i, h, d)
    \/ \E l \in Loans, h \in Bids, d \in Payouts : Waterfall(d) /\ job = CloseSale(l, h, d)
    \/ \E i \in Listings, h \in Offers : job = WithdrawOffer(i, h)
    \/ \E h \in Offers : job = ReclaimHold(h)
    \/ \E l \in Loans, h \in Bids : job = ReclaimBid(l, h)
    \/ \E l \in Loans, a, b \in Accounts, n \in Amounts :
          Available(a) \in OpeningAccounts /\ job = RepayLoan(l, a, b, n)
    \/ \E a \in Accounts, n \in Amounts : job = Withdraw(a, n) \/ job = Deposit(a, n)

ASSUME TransactionsAssumption ==
    /\ \A job \in Tasks : IsUseCase(job)
    /\ \A job \in Tasks : job.op = "hold" => job.hold \notin DOMAIN OpeningHolds
    /\ OpeningAccounts \subseteq Accounting
    /\ \A owner \in Owners : OpeningAvailable[owner] # 0 => Available(owner) \in OpeningAccounts
    \* a hold has been moved from one account of its member to the other
    /\ \A h \in DOMAIN OpeningHolds :
         {Available(OpeningHolds[h].account), Held(OpeningHolds[h].account)} \subseteq OpeningAccounts

VARIABLES task,      \* what each transaction does
          at,        \* the statement it runs next
          place,     \* how many rows of that kind it has been through
          updating,  \* the rows it has locked FOR UPDATE
          sharing,   \* the rows it has locked FOR KEY SHARE
          opening,   \* the account rows it has inserted
          opened     \* the account rows that are committed

lockVars == <<updating, sharing>>
rowVars == <<opening, opened>>
vars == <<settlementVars, task, at, place, lockVars, rowVars>>

Statements == {"rows", "hold", "read", "resolve", "lock", "check", "enter", "commit"}
Ends == {"done", "refused", "failed"}
Running(t) == at[t] \notin Ends

TransactionsTypeOK ==
    /\ SettlementTypeOK
    /\ task \in [Transactions -> Tasks]
    /\ at \in [Transactions -> Statements \cup Ends]
    /\ place \in [Transactions -> Nat]
    /\ updating \in [Transactions -> SUBSET Row]

Settling(t) == IF task[t].op \in {"release", "refund"} THEN "hold" ELSE "resolve"

(* The identifiers of holds are generated: no two transactions create one.   *)
TransactionsInit ==
    /\ Init
    /\ task \in [Transactions -> Tasks]
    /\ \A t, u \in Transactions :
         t # u /\ task[t].op = "hold" /\ task[u].op = "hold" => task[t].hold # task[u].hold
    /\ at = [t \in Transactions |-> IF task[t].rows = <<>> THEN Settling(t) ELSE "rows"]
    /\ place = [t \in Transactions |-> 0]
    /\ updating = [t \in Transactions |-> {}] /\ sharing = [t \in Transactions |-> {}]
    /\ opening = [t \in Transactions |-> {}]
    /\ opened = OpeningAccounts

(* The hold of a transaction's release or refund, once it has been read.     *)
HoldOf(t) == holds[task[t].hold]

(* The accounts a settlement resolves and then enters, in that order; the    *)
(* lines of a sale that come to nothing are left out.                       *)
Target(line) == IF line.amount = 0 THEN <<>> ELSE <<Available(line.to)>>

TargetsOf(job) ==
    IF job.reason = "ORIGINATE_LOAN" THEN Target(job.payout.borrower) \o Target(job.payout.fee)
    ELSE (Target(job.payout.noteHolder) \o Target(job.payout.fee))
           \o (Target(job.payout.borrower) \o Target(job.payout.rounding))

AccountsOf(t) ==
    CASE task[t].op = "hold" -> <<Available(task[t].from), Held(task[t].from)>>
      [] task[t].op = "release" -> <<Held(HoldOf(t).account)>> \o TargetsOf(task[t])
      [] task[t].op = "refund" -> <<Held(HoldOf(t).account), Available(HoldOf(t).account)>>
      [] task[t].op = "transfer" -> <<Available(task[t].from), Available(task[t].to)>>

(* Whether the settlement locks the account it debits and reads its balance. *)
Checks(t) ==
    \/ task[t].op = "hold"
    \/ task[t].op = "transfer" /\ task[t].from # "float"

-----------------------------------------------------------------------------
(* What a transaction waits for at the row its next statement wants.         *)
Others(t) == Transactions \ {t}

BlocksUpdate(t, row) == {u \in Others(t) : row \in updating[u] \cup sharing[u]}

(* Variant: an entry locks the account outright, as an update of it would.   *)
BlocksOutright(t, row) == BlocksUpdate(t, row)

BlocksShare(t, row) == {u \in Others(t) : row \in updating[u]}
BlocksInsert(t, row) == {u \in Others(t) : row \in opening[u]}

WaitsFor(t) ==
    CASE at[t] = "rows" -> BlocksUpdate(t, task[t].rows[place[t] + 1])
      [] at[t] = "hold" -> BlocksUpdate(t, HoldRow(task[t].hold))
      [] at[t] = "resolve" -> BlocksInsert(t, AccountsOf(t)[place[t] + 1])
      [] at[t] = "lock" -> BlocksUpdate(t, AccountsOf(t)[1])
      [] at[t] = "enter" -> BlocksShare(t, AccountsOf(t)[place[t] + 1])
      [] OTHER -> {}

(* A transaction is in a circle when whoever it waits for comes to wait for  *)
(* it: it is in every set that holds what it waits for and what they wait    *)
(* for in turn.                                                             *)
InCircle(t) ==
    \A S \in SUBSET Transactions :
      WaitsFor(t) \subseteq S /\ (\A u \in S : WaitsFor(u) \subseteq S) => t \in S

-----------------------------------------------------------------------------
Goes(t, where) ==
    /\ at' = [at EXCEPT ![t] = where]
    /\ place' = [place EXCEPT ![t] = 0]

GoesOn(t, rows, where) ==
    IF place[t] + 1 = Len(rows) THEN Goes(t, where)
    ELSE /\ place' = [place EXCEPT ![t] = @ + 1]
         /\ UNCHANGED at

(* The end of a transaction lets go of its locks.                           *)
Ended(t, how) ==
    /\ Goes(t, how)
    /\ updating' = [updating EXCEPT ![t] = {}]
    /\ sharing' = [sharing EXCEPT ![t] = {}]
    /\ opening' = [opening EXCEPT ![t] = {}]

RolledBack(t, how) ==
    /\ Ended(t, how)
    /\ UNCHANGED <<settlementVars, task, opened>>

LockRow(t) ==
    /\ at[t] = "rows" /\ WaitsFor(t) = {}
    /\ updating' = [updating EXCEPT ![t] = @ \cup {task[t].rows[place[t] + 1]}]
    /\ GoesOn(t, task[t].rows, Settling(t))
    /\ UNCHANGED <<settlementVars, task, sharing, rowVars>>

LockHold(t) ==
    /\ at[t] = "hold" /\ WaitsFor(t) = {}
    /\ updating' = [updating EXCEPT ![t] = @ \cup {HoldRow(task[t].hold)}]
    /\ Goes(t, "read")
    /\ UNCHANGED <<settlementVars, task, sharing, rowVars>>

Settled == [release |-> "RELEASED", refund |-> "REFUNDED"]

Settleable(t) ==
    /\ task[t].hold \in DOMAIN holds /\ HoldOf(t).status = "HELD"
    /\ task[t].op = "release" => DistributedTotal(task[t].payout) = HoldOf(t).amount

SettledAlready(t) ==
    task[t].hold \in DOMAIN holds /\ HoldOf(t).status = Settled[task[t].op]

ReadHold(t) ==
    /\ at[t] = "read" /\ Settleable(t)
    /\ Goes(t, "resolve")
    /\ UNCHANGED <<settlementVars, task, lockVars, rowVars>>

(* A hold settled in the same way before is answered with its reference.     *)
AnswerAgain(t) == at[t] = "read" /\ SettledAlready(t) /\ RolledBack(t, "done")

(* The hold is not there, was settled in the other way, or is not what the   *)
(* distribution comes to.                                                   *)
Throw(t) ==
    /\ at[t] = "read" /\ ~Settleable(t) /\ ~SettledAlready(t)
    /\ RolledBack(t, "failed")

Resolve(t) ==
    LET account == AccountsOf(t)[place[t] + 1]
    IN  /\ at[t] = "resolve" /\ WaitsFor(t) = {}
        /\ opening' = [opening EXCEPT ![t] = @ \cup ({account} \ opened)]
        /\ GoesOn(t, AccountsOf(t), IF Checks(t) THEN "lock" ELSE "enter")
        /\ UNCHANGED <<settlementVars, task, lockVars, opened>>

(* Variant: the balance is read without locking the account.                *)
LockAccountNot(t) ==
    /\ at[t] = "lock"
    /\ Goes(t, "check")
    /\ UNCHANGED <<settlementVars, task, lockVars, rowVars>>

LockAccount(t) ==
    /\ at[t] = "lock" /\ WaitsFor(t) = {}
    /\ updating' = [updating EXCEPT ![t] = @ \cup {AccountsOf(t)[1]}]
    /\ Goes(t, "check")
    /\ UNCHANGED <<settlementVars, task, sharing, rowVars>>

CheckBalance(t) ==
    /\ at[t] = "check" /\ Covers(task[t].from, task[t].amount)
    /\ Goes(t, "enter")
    /\ UNCHANGED <<settlementVars, task, lockVars, rowVars>>

(* Too little is there.  A withdrawal answers so inside its transaction,     *)
(* which commits the accounts it opened; the other use cases roll back.      *)
Refuse(t) ==
    /\ at[t] = "check" /\ ~Covers(task[t].from, task[t].amount)
    /\ Ended(t, "refused")
    /\ opened' = IF task[t].op = "transfer" /\ task[t].to = "float"
                   THEN opened \cup opening[t] ELSE opened
    /\ UNCHANGED <<settlementVars, task>>

Enter(t) ==
    /\ at[t] = "enter" /\ WaitsFor(t) = {}
    /\ sharing' = [sharing EXCEPT ![t] = @ \cup {AccountsOf(t)[place[t] + 1]}]
    /\ GoesOn(t, AccountsOf(t), "commit")
    /\ UNCHANGED <<settlementVars, task, updating, rowVars>>

-----------------------------------------------------------------------------
(* The entries, and with them the row of the hold, are there for everyone.   *)
PostHold(h, account, amount) ==
    /\ available' = [available EXCEPT ![account] = @ - amount]
    /\ held' = [held EXCEPT ![account] = @ + amount]
    /\ holds' = Insert(holds, h, [status |-> "HELD", account |-> account, amount |-> amount])

PostRelease(h, payout) ==
    /\ held' = [held EXCEPT ![holds[h].account] = @ - holds[h].amount]
    /\ available' = [owner \in Owners |-> available[owner] + CreditOf(payout, owner)]
    /\ holds' = [holds EXCEPT ![h].status = "RELEASED"]

PostRefund(h) ==
    /\ held' = [held EXCEPT ![holds[h].account] = @ - holds[h].amount]
    /\ available' = [available EXCEPT ![holds[h].account] = @ + holds[h].amount]
    /\ holds' = [holds EXCEPT ![h].status = "REFUNDED"]

PostTransfer(from, to, amount) ==
    /\ available' = [owner \in Owners |->
                        available[owner] + (IF owner = to THEN amount ELSE 0)
                                         - (IF owner = from THEN amount ELSE 0)]
    /\ UNCHANGED <<held, holds>>

Commit(t) ==
    /\ at[t] = "commit"
    /\ \/ task[t].op = "hold" /\ PostHold(task[t].hold, task[t].from, task[t].amount)
       \/ task[t].op = "release" /\ PostRelease(task[t].hold, task[t].payout)
       \/ task[t].op = "refund" /\ PostRefund(task[t].hold)
       \/ task[t].op = "transfer" /\ PostTransfer(task[t].from, task[t].to, task[t].amount)
    /\ opened' = opened \cup opening[t]
    /\ Ended(t, "done")
    /\ UNCHANGED task

Abort(t) == Running(t) /\ RolledBack(t, "failed")

(* Variant: only the first transaction of a circle would be looked for.      *)
BreakNoCircle(t) == at[t] = "rows" /\ InCircle(t) /\ RolledBack(t, "failed")

BreakCircle(t) == InCircle(t) /\ RolledBack(t, "failed")

Statement(t) ==
    \/ LockRow(t) \/ LockHold(t) \/ ReadHold(t) \/ AnswerAgain(t) \/ Throw(t)
    \/ Resolve(t) \/ LockAccount(t) \/ CheckBalance(t) \/ Refuse(t)
    \/ Enter(t) \/ Commit(t)

TransactionsNext == \E t \in Transactions : Statement(t) \/ BreakCircle(t) \/ Abort(t)

TransactionsSpec == TransactionsInit /\ [][TransactionsNext]_vars

(* The database runs every statement it can and looks for circles; that a    *)
(* connection is lost is not counted on.                                    *)
FairTransactions ==
    TransactionsSpec /\ \A t \in Transactions : WF_vars(Statement(t)) /\ WF_vars(BreakCircle(t))

-----------------------------------------------------------------------------
(* The port's promise, of the settlements as they are committed.             *)
Promise == INSTANCE Ledger WITH available <- available, held <- held, holds <- holds

(* Whatever the transactions of the use cases do at once, aborted or not,    *)
(* the ledger goes through settlements that happen one at a time, each with  *)
(* the balance it needs and each hold settled once.                         *)
SettlementsAreAtomic == Promise!Spec

MovesBetweenMembers(t) ==
    task[t].op = "transfer" /\ task[t].from \in Accounts /\ task[t].to \in Accounts

(* Once the float has its account, only a repayment, which locks one         *)
(* member's account and enters another's, can be caught in a circle: no      *)
(* offer, bid, acceptance, sale, refund or withdrawal is aborted for one.    *)
CirclesAreOfTransfers ==
    Available("float") \in opened =>
      \A t \in Transactions : InCircle(t) => MovesBetweenMembers(t)

(* Every transaction ends, even where repayments in opposite directions wait *)
(* for one another.                                                         *)
EveryTransactionEnds == \A t \in Transactions : <>~Running(t)
=============================================================================
