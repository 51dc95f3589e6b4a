------------------------- MODULE TransactionsProofs -------------------------
(***************************************************************************)
(* The transactions of the settlement adapter keep the promise of the port. *)
(* The argument is the discipline of the row locks: whoever is past reading *)
(* a balance has locked the account, whoever is past reading a hold has     *)
(* locked the hold, a row is locked by one transaction, and nobody takes    *)
(* from an account or settles a hold without its lock; so what was read is  *)
(* still true when the transaction commits.  The second half is about who   *)
(* waits for whom: outside repayments every wait is for a transaction that   *)
(* is further on, so it comes back to nobody.                               *)
(***************************************************************************)
EXTENDS Transactions, TLAPS

Takes(t) == task[t].op \in {"release", "refund"}

Distinct ==
    \A t, u \in Transactions :
      t # u /\ task[t].op = "hold" /\ task[u].op = "hold" => task[t].hold # task[u].hold

Exclusive ==
    \A t, u \in Transactions : t # u => updating[t] \cap updating[u] = {}

(* A transaction is only where its operation takes it.                      *)
OnItsWay(t) ==
    /\ at[t] = "rows" => place[t] < Len(task[t].rows)
    /\ at[t] \in {"hold", "read"} => Takes(t)
    /\ at[t] \in {"lock", "check"} => Checks(t)

HasLocked(t) ==
    /\ at[t] \in {"check", "enter", "commit"} /\ Checks(t) => Available(task[t].from) \in updating[t]
    /\ at[t] \in {"read", "resolve", "enter", "commit"} /\ Takes(t) => HoldRow(task[t].hold) \in updating[t]

StillTrue(t) ==
    /\ at[t] \in {"enter", "commit"} /\ Checks(t) => Covers(task[t].from, task[t].amount)
    /\ at[t] \in {"resolve", "enter", "commit"} /\ Takes(t) => Settleable(t)
    /\ at[t] # "done" /\ task[t].op = "hold" => task[t].hold \notin DOMAIN holds

Discipline ==
    /\ TransactionsTypeOK /\ Distinct /\ Exclusive
    /\ \A t \in Transactions : OnItsWay(t) /\ HasLocked(t) /\ StillTrue(t)

-----------------------------------------------------------------------------
(* What a use case asks of the adapter: the rows it locks, and what it names *)
(* by its operation.                                                        *)
LocksRows(rows) ==
    \/ rows = <<>>
    \/ \E i \in Listings : rows = <<ListingRow(i)>>
    \/ \E l \in Loans : rows = <<LoanRow(l)>> \/ rows = <<SaleRow(l)>>
                         \/ rows = <<LoanRow(l), SaleRow(l)>>

Pays(job) ==
    \/ job.reason = "ORIGINATE_LOAN" /\ Origination(job.payout)
    \/ job.reason = "SETTLE_LIQUIDATION" /\ Waterfall(job.payout)

Moves(job) ==
    \/ job.from = "float" /\ job.to \in Accounts
    \/ job.from \in Accounts /\ job.to = "float"
    \/ job.from \in Accounts /\ job.to \in Accounts /\ Available(job.from) \in OpeningAccounts

LEMMA UseCaseShape ==
    ASSUME NEW job, IsUseCase(job)
    PROVE  /\ LocksRows(job.rows)
           /\ \/ job.op = "hold" /\ job.hold \in Holds /\ job.from \in Accounts /\ job.amount \in Amounts
              \/ job.op = "release" /\ job.hold \in Holds /\ job.payout \in Payouts /\ Pays(job)
              \/ job.op = "refund" /\ job.hold \in Holds
              \/ /\ job.op = "transfer" /\ job.from \in Owners /\ job.to \in Owners
                 /\ job.amount \in Amounts /\ Moves(job)
  <1> USE DEF LocksRows, Pays, Moves, Holds
  <1>1. CASE \E i \in Listings, h \in Offers, a \in Accounts, n \in Amounts :
               job = PlaceOffer(i, h, a, n)
    BY <1>1 DEF PlaceOffer
  <1>2. CASE \E l \in Loans, h \in Bids, a \in Accounts, n \in Amounts : job = PlaceBid(l, h, a, n)
    BY <1>2 DEF PlaceBid
  <1>3. CASE \E i \in Listings, h \in Offers, d \in Payouts :
               Origination(d) /\ job = AcceptOffer(i, h, d)
    BY <1>3 DEF AcceptOffer
  <1>4. CASE \E l \in Loans, h \in Bids, d \in Payouts : Waterfall(d) /\ job = CloseSale(l, h, d)
    BY <1>4 DEF CloseSale
  <1>5. CASE \E i \in Listings, h \in Offers : job = WithdrawOffer(i, h)
    BY <1>5 DEF WithdrawOffer
  <1>6. CASE \E h \in Offers : job = ReclaimHold(h)
    BY <1>6 DEF ReclaimHold
  <1>7. CASE \E l \in Loans, h \in Bids : job = ReclaimBid(l, h)
    BY <1>7 DEF ReclaimBid
  <1>8. CASE \E l \in Loans, a, b \in Accounts, n \in Amounts :
               Available(a) \in OpeningAccounts /\ job = RepayLoan(l, a, b, n)
    BY <1>8 DEF RepayLoan, Owners
  <1>9. CASE \E a \in Accounts, n \in Amounts : job = Withdraw(a, n) \/ job = Deposit(a, n)
    BY <1>9 DEF Withdraw, Deposit, Owners, Platform
  <1> QED
    BY <1>1, <1>2, <1>3, <1>4, <1>5, <1>6, <1>7, <1>8, <1>9 DEF IsUseCase

LEMMA TaskShape ==
    ASSUME TransactionsTypeOK, NEW t \in Transactions
    PROVE  /\ task[t].op \in {"hold", "release", "refund", "transfer"}
           /\ task[t].rows \in Seq(Row) /\ LocksRows(task[t].rows)
           /\ task[t].op = "hold" => /\ task[t].hold \in Holds /\ task[t].from \in Accounts
                                     /\ task[t].amount \in Amounts
                                     /\ task[t].hold \notin DOMAIN OpeningHolds
           /\ task[t].op = "release" => /\ task[t].hold \in Holds /\ task[t].payout \in Payouts
                                        /\ Pays(task[t])
           /\ task[t].op = "refund" => task[t].hold \in Holds
           /\ task[t].op = "transfer" => /\ task[t].from \in Owners /\ task[t].to \in Owners
                                         /\ task[t].amount \in Amounts /\ Moves(task[t])
  <1>1. PICK job : job = task[t]
    OBVIOUS
  <1>2. IsUseCase(job) /\ (job.op = "hold" => job.hold \notin DOMAIN OpeningHolds)
    BY <1>1, TransactionsAssumption DEF TransactionsTypeOK
  <1>3. LocksRows(job.rows)
    BY <1>2, UseCaseShape
  <1>4. job.rows \in Seq(Row)
    <2>1. /\ \A i \in Listings : ListingRow(i) \in Row
          /\ \A l \in Loans : LoanRow(l) \in Row /\ SaleRow(l) \in Row
      BY DEF Row
    <2>2. ASSUME NEW x \in Row, NEW y \in Row
          PROVE  <<>> \in Seq(Row) /\ <<x>> \in Seq(Row) /\ <<x, y>> \in Seq(Row)
      OBVIOUS
    <2>3. <<>> \in Seq(Row)
      OBVIOUS
    <2> HIDE DEF Row
    <2> QED
      BY <1>3, <2>1, <2>2, <2>3, Zenon DEF LocksRows
  <1> QED
    BY <1>1, <1>2, <1>3, <1>4, UseCaseShape

(* The account that is locked and read is the one that is debited, and never *)
(* the float.                                                               *)
LEMMA DebitedAccount ==
    ASSUME TransactionsTypeOK, NEW t \in Transactions, Checks(t)
    PROVE  /\ AccountsOf(t)[1] = Available(task[t].from)
           /\ task[t].from \in Owners \ {"float"}
           /\ task[t].amount \in Nat \ {0}
  <1>0. Amounts \subseteq Nat \ {0}
    BY LedgerAssumption
  <1>1. CASE task[t].op = "hold"
    <2>1. task[t].from \in Accounts /\ task[t].amount \in Amounts
      BY <1>1, TaskShape
    <2>2. AccountsOf(t) = <<Available(task[t].from), Held(task[t].from)>>
      BY <1>1 DEF AccountsOf
    <2>3. task[t].from \in Owners \ {"float"}
      BY <2>1, IdentifierAssumption DEF Owners, Platform
    <2>4. AccountsOf(t)[1] = Available(task[t].from)
      BY <2>2
    <2> QED
      BY <1>0, <2>1, <2>3, <2>4
  <1>2. CASE task[t].op = "transfer" /\ task[t].from # "float"
    <2>1. task[t].from \in Owners /\ task[t].amount \in Amounts
      BY <1>2, TaskShape
    <2>2. AccountsOf(t) = <<Available(task[t].from), Available(task[t].to)>>
      BY <1>2 DEF AccountsOf
    <2>3. AccountsOf(t)[1] = Available(task[t].from)
      BY <2>2
    <2> QED
      BY <1>0, <1>2, <2>1, <2>3
  <1> QED
    BY <1>1, <1>2 DEF Checks

-----------------------------------------------------------------------------
(* The ledger is found as the promise begins, and nobody has locked a row.   *)
LEMMA DisciplineInit == TransactionsInit => Discipline
  <1> SUFFICES ASSUME TransactionsInit PROVE Discipline
    OBVIOUS
  <1>1. SettlementTypeOK
    BY LedgerAssumption DEF TransactionsInit, Init, SettlementTypeOK
  <1>2. TransactionsTypeOK
    BY <1>1 DEF TransactionsInit, TransactionsTypeOK, Settling, Statements
  <1>3. Distinct /\ Exclusive
    BY DEF TransactionsInit, Distinct, Exclusive
  <1>4. ASSUME NEW t \in Transactions PROVE OnItsWay(t) /\ HasLocked(t) /\ StillTrue(t)
    <2>1. at[t] \in {"rows", "hold", "resolve"} /\ (at[t] = "hold" => Takes(t))
          /\ (at[t] = "resolve" => ~Takes(t))
      BY <1>2, TaskShape DEF TransactionsInit, Settling, Takes
    <2>2. task[t].op = "hold" => task[t].hold \notin DOMAIN holds
      BY <1>2, TaskShape DEF TransactionsInit, Init
    <2>3. at[t] = "rows" => place[t] < Len(task[t].rows)
      BY <1>2, TaskShape DEF TransactionsInit, Settling
    <2> QED
      BY <2>1, <2>2, <2>3 DEF OnItsWay, HasLocked, StillTrue
  <1> QED
    BY <1>2, <1>3, <1>4 DEF Discipline

-----------------------------------------------------------------------------
(* A step that posts nothing leaves what every other transaction has read as *)
(* it was.                                                                  *)
LEMMA Unposted ==
    ASSUME Discipline, NEW t \in Transactions,
           UNCHANGED <<settlementVars, task>>,
           at' \in [Transactions -> Statements \cup Ends],
           place' \in [Transactions -> Nat],
           updating' \in [Transactions -> SUBSET Row],
           \A u \in Transactions \ {t} : 
             at'[u] = at[u] /\ place'[u] = place[u] /\ updating'[u] = updating[u],
           \A u \in Transactions \ {t} : updating'[t] \cap updating[u] = {},
           (OnItsWay(t) /\ HasLocked(t) /\ StillTrue(t))'
    PROVE  Discipline'
  <1>1. TransactionsTypeOK'
    BY DEF Discipline, TransactionsTypeOK, SettlementTypeOK, settlementVars, IsTable
  <1>2. Distinct'
    BY DEF Discipline, Distinct
  <1>3. Exclusive'
    BY DEF Discipline, Exclusive
  <1>4. ASSUME NEW u \in Transactions, u # t PROVE (OnItsWay(u) /\ HasLocked(u) /\ StillTrue(u))'
    <2>1. OnItsWay(u) /\ HasLocked(u) /\ StillTrue(u)
      BY DEF Discipline
    <2> QED
      BY <1>4, <2>1 DEF OnItsWay, HasLocked, StillTrue, Takes, Checks, Covers, Settleable,
                        HoldOf, settlementVars
  <1> QED
    BY <1>1, <1>2, <1>3, <1>4 DEF Discipline
-----------------------------------------------------------------------------
(* A transaction that rolls back, or ends without posting, has nothing more  *)
(* to keep.                                                                 *)
LEMMA EndedKeeps ==
    ASSUME Discipline, NEW t \in Transactions, NEW how \in Ends,
           Ended(t, how), UNCHANGED <<settlementVars, task>>,
           at[t] # "done", how = "done" => task[t].op # "hold"
    PROVE  Discipline'
  <1>1. /\ at' = [at EXCEPT ![t] = how]
        /\ place' = [place EXCEPT ![t] = 0]
        /\ updating' = [updating EXCEPT ![t] = {}]
        /\ at \in [Transactions -> Statements \cup Ends]
        /\ place \in [Transactions -> Nat]
        /\ updating \in [Transactions -> SUBSET Row]
    BY DEF Ended, Goes, Discipline, TransactionsTypeOK
  <1>2. (OnItsWay(t) /\ HasLocked(t))'
    BY <1>1 DEF OnItsWay, HasLocked, Ends
  <1>3. StillTrue(t)'
    <2>1. task[t].op = "hold" => task[t].hold \notin DOMAIN holds
      BY DEF Discipline, StillTrue
    <2>2. task' = task /\ holds' = holds
      BY DEF settlementVars
    <2> QED
      BY <1>1, <2>1, <2>2 DEF StillTrue, Ends
  <1> QED
    BY <1>1, <1>2, <1>3, Unposted

(* The next statement, wherever it is, of a transaction that goes on.        *)
LEMMA GoingOn ==
    ASSUME Discipline, NEW t \in Transactions, NEW rows,
           NEW where \in Statements, GoesOn(t, rows, where)
    PROVE  /\ at' \in [Transactions -> Statements \cup Ends]
           /\ place' \in [Transactions -> Nat]
           /\ \A u \in Transactions \ {t} : at'[u] = at[u] /\ place'[u] = place[u]
           /\ \/ at'[t] = where /\ place'[t] = 0
              \/ at'[t] = at[t] /\ place'[t] = place[t] + 1 /\ place[t] + 1 # Len(rows)
  <1>1. /\ at \in [Transactions -> Statements \cup Ends]
        /\ place \in [Transactions -> Nat]
    BY DEF Discipline, TransactionsTypeOK
  <1>2. CASE place[t] + 1 = Len(rows)
    <2>1. at' = [at EXCEPT ![t] = where] /\ place' = [place EXCEPT ![t] = 0]
      BY <1>2 DEF GoesOn, Goes
    <2> QED
      BY <1>1, <2>1
  <1>3. CASE place[t] + 1 # Len(rows)
    <2>1. at' = at /\ place' = [place EXCEPT ![t] = @ + 1]
      BY <1>3 DEF GoesOn
    <2> QED
      BY <1>1, <1>3, <2>1
  <1> QED
    BY <1>2, <1>3

LEMMA LockRowKeeps ==
    ASSUME Discipline, NEW t \in Transactions, LockRow(t)
    PROVE  Discipline'
  <1> DEFINE row == task[t].rows[place[t] + 1]
  <1>1. /\ TransactionsTypeOK /\ task[t].rows \in Seq(Row)
        /\ at[t] = "rows" /\ place[t] \in Nat /\ place[t] < Len(task[t].rows)
    BY TaskShape DEF Discipline, TransactionsTypeOK, LockRow, OnItsWay
  <1>2. row \in Row
    BY <1>1
  <1>3. /\ updating' = [updating EXCEPT ![t] = @ \cup {row}]
        /\ updating \in [Transactions -> SUBSET Row]
        /\ \A u \in Transactions \ {t} : row \notin updating[u]
    BY <1>1 DEF LockRow, TransactionsTypeOK, WaitsFor, BlocksUpdate, Others
  <1>4. Settling(t) \in Statements
    BY DEF Settling, Statements
  <1>5. GoesOn(t, task[t].rows, Settling(t)) /\ UNCHANGED <<settlementVars, task>>
    BY DEF LockRow
  <1>6. /\ at' \in [Transactions -> Statements \cup Ends]
        /\ place' \in [Transactions -> Nat]
        /\ \A u \in Transactions \ {t} : at'[u] = at[u] /\ place'[u] = place[u]
        /\ \/ at'[t] = Settling(t)
           \/ at'[t] = at[t] /\ place'[t] = place[t] + 1 /\ place[t] + 1 # Len(task[t].rows)
    BY <1>1, <1>4, <1>5, GoingOn
  <1>7. /\ task' = task
        /\ \/ at'[t] = "hold" /\ Takes(t)
           \/ at'[t] = "resolve" /\ ~Takes(t)
           \/ at'[t] = "rows" /\ place'[t] < Len(task'[t].rows)
    BY <1>1, <1>5, <1>6 DEF Settling, Takes
  <1>8. (OnItsWay(t) /\ HasLocked(t))'
    BY <1>7 DEF OnItsWay, HasLocked, Takes
  <1>9. StillTrue(t)'
    <2>1. task[t].op = "hold" => task[t].hold \notin DOMAIN holds
      BY <1>1 DEF Discipline, StillTrue
    <2> QED
      BY <1>5, <1>7, <2>1 DEF StillTrue, Takes, settlementVars
  <1> QED
    BY <1>2, <1>3, <1>5, <1>6, <1>8, <1>9, Unposted DEF Discipline, Exclusive
LEMMA LockHoldKeeps ==
    ASSUME Discipline, NEW t \in Transactions, LockHold(t)
    PROVE  Discipline'
  <1> DEFINE row == HoldRow(task[t].hold)
  <1>1. /\ TransactionsTypeOK /\ at[t] = "hold" /\ Takes(t)
        /\ task[t].hold \in Holds /\ row \in Row
    BY TaskShape DEF Discipline, OnItsWay, LockHold, Takes, Row
  <1>2. /\ updating' = [updating EXCEPT ![t] = @ \cup {row}]
        /\ at' = [at EXCEPT ![t] = "read"]
        /\ place' = [place EXCEPT ![t] = 0]
        /\ UNCHANGED <<settlementVars, task>>
        /\ \A u \in Transactions \ {t} : row \notin updating[u]
    BY <1>1 DEF LockHold, Goes, WaitsFor, BlocksUpdate, Others
  <1>3. (OnItsWay(t) /\ HasLocked(t) /\ StillTrue(t))'
    BY <1>1, <1>2 DEF OnItsWay, HasLocked, StillTrue, Takes, TransactionsTypeOK
  <1> QED
    BY <1>1, <1>2, <1>3, Unposted DEF Discipline, Exclusive, TransactionsTypeOK, Statements

LEMMA ReadHoldKeeps ==
    ASSUME Discipline, NEW t \in Transactions, ReadHold(t)
    PROVE  Discipline'
  <1>1. TransactionsTypeOK /\ at[t] = "read" /\ Takes(t) /\ HoldRow(task[t].hold) \in updating[t]
    BY DEF Discipline, OnItsWay, HasLocked, ReadHold
  <1>2. /\ at' = [at EXCEPT ![t] = "resolve"]
        /\ place' = [place EXCEPT ![t] = 0]
        /\ UNCHANGED <<settlementVars, task, updating>>
        /\ Settleable(t)
    BY DEF ReadHold, Goes, lockVars
  <1>3. Settleable(t)'
    BY <1>2 DEF Settleable, HoldOf, settlementVars
  <1>4. (OnItsWay(t) /\ HasLocked(t) /\ StillTrue(t))'
    BY <1>1, <1>2, <1>3 DEF OnItsWay, HasLocked, StillTrue, Takes, TransactionsTypeOK
  <1> QED
    BY <1>1, <1>2, <1>4, Unposted DEF Discipline, Exclusive, TransactionsTypeOK, Statements

LEMMA ResolveKeeps ==
    ASSUME Discipline, NEW t \in Transactions, Resolve(t)
    PROVE  Discipline'
  <1> DEFINE where == IF Checks(t) THEN "lock" ELSE "enter"
  <1>1. TransactionsTypeOK /\ at[t] = "resolve" /\ OnItsWay(t) /\ HasLocked(t) /\ StillTrue(t)
    BY DEF Discipline, Resolve
  <1>2. GoesOn(t, AccountsOf(t), where) /\ UNCHANGED <<settlementVars, task, updating>>
    BY DEF Resolve, lockVars
  <1>3. where \in Statements
    BY DEF Statements
  <1>4. /\ at' \in [Transactions -> Statements \cup Ends]
        /\ place' \in [Transactions -> Nat]
        /\ \A u \in Transactions \ {t} : at'[u] = at[u] /\ place'[u] = place[u]
        /\ at'[t] = where \/ at'[t] = "resolve"
    BY <1>1, <1>2, <1>3, GoingOn
  <1>5. /\ Takes(t)' = Takes(t) /\ Checks(t)' = Checks(t)
        /\ Settleable(t)' = Settleable(t)
    BY <1>2 DEF Takes, Checks, Settleable, HoldOf, settlementVars
  <1>6. (OnItsWay(t) /\ HasLocked(t))'
    BY <1>1, <1>2, <1>4, <1>5 DEF OnItsWay, HasLocked
  <1>7. StillTrue(t)'
    BY <1>1, <1>2, <1>4, <1>5 DEF StillTrue, settlementVars
  <1> QED
    BY <1>1, <1>2, <1>4, <1>6, <1>7, Unposted DEF Discipline, Exclusive, TransactionsTypeOK

LEMMA LockAccountKeeps ==
    ASSUME Discipline, NEW t \in Transactions, LockAccount(t)
    PROVE  Discipline'
  <1> DEFINE row == Available(task[t].from)
  <1>1. TransactionsTypeOK /\ at[t] = "lock" /\ Checks(t) /\ StillTrue(t)
    BY DEF Discipline, OnItsWay, LockAccount
  <1>2. AccountsOf(t)[1] = row /\ row \in Row
    BY <1>1, DebitedAccount DEF Row, Accounting
  <1>3. /\ updating' = [updating EXCEPT ![t] = @ \cup {row}]
        /\ at' = [at EXCEPT ![t] = "check"]
        /\ place' = [place EXCEPT ![t] = 0]
        /\ UNCHANGED <<settlementVars, task>>
        /\ \A u \in Transactions \ {t} : row \notin updating[u]
    BY <1>1, <1>2 DEF LockAccount, Goes, WaitsFor, BlocksUpdate, Others
  <1>4. (OnItsWay(t) /\ HasLocked(t))'
    BY <1>1, <1>3 DEF OnItsWay, HasLocked, Checks, TransactionsTypeOK
  <1>5. StillTrue(t)'
    BY <1>1, <1>3 DEF StillTrue, settlementVars, TransactionsTypeOK
  <1> QED
    BY <1>1, <1>2, <1>3, <1>4, <1>5, Unposted DEF Discipline, Exclusive, TransactionsTypeOK, Statements

LEMMA CheckBalanceKeeps ==
    ASSUME Discipline, NEW t \in Transactions, CheckBalance(t)
    PROVE  Discipline'
  <1>1. /\ TransactionsTypeOK /\ at[t] = "check" /\ Checks(t) /\ HasLocked(t) /\ StillTrue(t)
        /\ Covers(task[t].from, task[t].amount)
    BY DEF Discipline, OnItsWay, CheckBalance
  <1>2. /\ at' = [at EXCEPT ![t] = "enter"]
        /\ place' = [place EXCEPT ![t] = 0]
        /\ UNCHANGED <<settlementVars, task, updating>>
    BY DEF CheckBalance, Goes, lockVars
  <1>3. ~Takes(t) /\ Takes(t)' = Takes(t)
    BY <1>1, <1>2 DEF Checks, Takes
  <1>4. (OnItsWay(t) /\ HasLocked(t))'
    BY <1>1, <1>2, <1>3 DEF OnItsWay, HasLocked, Checks, TransactionsTypeOK
  <1>5. StillTrue(t)'
    BY <1>1, <1>2, <1>3 DEF StillTrue, Covers, settlementVars, TransactionsTypeOK
  <1> QED
    BY <1>1, <1>2, <1>4, <1>5, Unposted DEF Discipline, Exclusive, TransactionsTypeOK, Statements

LEMMA EnterKeeps ==
    ASSUME Discipline, NEW t \in Transactions, Enter(t)
    PROVE  Discipline'
  <1>1. TransactionsTypeOK /\ at[t] = "enter" /\ OnItsWay(t) /\ HasLocked(t) /\ StillTrue(t)
    BY DEF Discipline, Enter
  <1>2. GoesOn(t, AccountsOf(t), "commit") /\ UNCHANGED <<settlementVars, task, updating>>
    BY DEF Enter
  <1>3. "commit" \in Statements
    BY DEF Statements
  <1>4. /\ at' \in [Transactions -> Statements \cup Ends]
        /\ place' \in [Transactions -> Nat]
        /\ \A u \in Transactions \ {t} : at'[u] = at[u] /\ place'[u] = place[u]
        /\ at'[t] = "commit" \/ at'[t] = "enter"
    BY <1>1, <1>2, <1>3, GoingOn
  <1>5. /\ Takes(t)' = Takes(t) /\ Checks(t)' = Checks(t)
        /\ Settleable(t)' = Settleable(t)
    BY <1>2 DEF Takes, Checks, Settleable, HoldOf, settlementVars
  <1>6. (OnItsWay(t) /\ HasLocked(t))'
    BY <1>1, <1>2, <1>4, <1>5 DEF OnItsWay, HasLocked
  <1>7. StillTrue(t)'
    BY <1>1, <1>2, <1>4, <1>5 DEF StillTrue, Covers, settlementVars
  <1> QED
    BY <1>1, <1>2, <1>4, <1>6, <1>7, Unposted DEF Discipline, Exclusive, TransactionsTypeOK
-----------------------------------------------------------------------------
(* What a committing transaction settles is still as it read it.            *)
LEMMA CommitIsASettlement ==
    ASSUME Discipline, NEW t \in Transactions, Commit(t)
    PROVE  \/ /\ task[t].op = "hold" /\ task[t].amount \in Amounts
              /\ Hold(task[t].hold, task[t].from, task[t].amount)
           \/ /\ task[t].op = "release" /\ task[t].payout \in Payouts
              /\ Settleable(t) /\ ReleaseHold(task[t].hold, task[t].payout)
           \/ /\ task[t].op = "refund"
              /\ Settleable(t) /\ RefundHold(task[t].hold)
           \/ /\ task[t].op = "transfer" /\ task[t].amount \in Amounts
              /\ Transfer(task[t].from, task[t].to, task[t].amount)
  <1>1. TransactionsTypeOK /\ at[t] = "commit" /\ StillTrue(t)
    BY DEF Discipline, Commit
  <1>2. CASE task[t].op = "hold" /\ PostHold(task[t].hold, task[t].from, task[t].amount)
    <2>1. Covers(task[t].from, task[t].amount) /\ task[t].hold \notin DOMAIN holds
      BY <1>1, <1>2 DEF StillTrue, Checks
    <2> QED
      BY <1>1, <1>2, <2>1, TaskShape DEF PostHold, Hold
  <1>3. CASE task[t].op = "release" /\ PostRelease(task[t].hold, task[t].payout)
    <2>1. Settleable(t)
      BY <1>1, <1>3 DEF StillTrue, Takes
    <2> QED
      BY <1>1, <1>3, <2>1, TaskShape DEF PostRelease, ReleaseHold, Settleable, HoldOf
  <1>4. CASE task[t].op = "refund" /\ PostRefund(task[t].hold)
    <2>1. Settleable(t)
      BY <1>1, <1>4 DEF StillTrue, Takes
    <2> QED
      BY <1>4, <2>1 DEF PostRefund, RefundHold, Settleable, HoldOf
  <1>5. CASE task[t].op = "transfer" /\ PostTransfer(task[t].from, task[t].to, task[t].amount)
    <2>1. task[t].from # "float" => Covers(task[t].from, task[t].amount)
      BY <1>1, <1>5 DEF StillTrue, Checks
    <2> QED
      BY <1>1, <1>5, <2>1, TaskShape DEF PostTransfer, Transfer
  <1> QED
    BY <1>2, <1>3, <1>4, <1>5 DEF Commit

LEMMA CommitIsPromised ==
    ASSUME Discipline, NEW t \in Transactions, Commit(t)
    PROVE  Promise!Next
  <1>1. TransactionsTypeOK
    BY DEF Discipline
  <1>2. CASE task[t].op = "hold"
    <2>1. Hold(task[t].hold, task[t].from, task[t].amount) /\ task[t].amount \in Amounts
      BY <1>2, CommitIsASettlement
    <2>2. task[t].hold \in Holds /\ task[t].from \in Accounts
      BY <1>1, <1>2, TaskShape
    <2> QED
      BY <2>1, <2>2 DEF Promise!Next, Hold, Promise!Hold, Covers, Promise!Covers,
                        Promise!Holds, Holds, Insert, Promise!Insert
  <1>3. CASE task[t].op = "release"
    <2>1. /\ ReleaseHold(task[t].hold, task[t].payout) /\ task[t].payout \in Payouts
          /\ task[t].hold \in DOMAIN holds
      BY <1>3, CommitIsASettlement DEF Settleable
    <2> QED
      BY <2>1 DEF Promise!Next, ReleaseHold, Promise!ReleaseHold, DistributedTotal,
                  Promise!DistributedTotal, CreditOf, Promise!CreditOf, settlementVars,
                  Promise!settlementVars, Owners, Promise!Owners, Platform, Promise!Platform
  <1>4. CASE task[t].op = "refund"
    <2>1. RefundHold(task[t].hold) /\ task[t].hold \in DOMAIN holds
      BY <1>4, CommitIsASettlement DEF Settleable
    <2> QED
      BY <2>1 DEF Promise!Next, RefundHold, Promise!RefundHold, settlementVars,
                  Promise!settlementVars
  <1>5. CASE task[t].op = "transfer"
    <2>1. Transfer(task[t].from, task[t].to, task[t].amount) /\ task[t].amount \in Amounts
      BY <1>5, CommitIsASettlement
    <2>2. task[t].from \in Owners /\ task[t].to \in Owners
      BY <1>1, <1>5, TaskShape
    <2> QED
      BY <2>1, <2>2 DEF Promise!Next, Transfer, Promise!Transfer, Covers, Promise!Covers,
                        Owners, Promise!Owners, Platform, Promise!Platform
  <1> QED
    BY <1>1, <1>2, <1>3, <1>4, <1>5, TaskShape
-----------------------------------------------------------------------------
(* What a posting may touch of what others have read.                       *)
LEMMA RowsAreTold ==
    ASSUME NEW x, NEW y
    PROVE  /\ Available(x) = Available(y) => x = y
           /\ HoldRow(x) = HoldRow(y) => x = y
  BY DEF Available, HoldRow

LEMMA PayoutsGive ==
    ASSUME NEW payout \in Payouts, NEW owner \in Owners
    PROVE  CreditOf(payout, owner) \in Nat
  <1>1. /\ payout.noteHolder.amount \in Nat /\ payout.fee.amount \in Nat
        /\ payout.borrower.amount \in Nat /\ payout.rounding.amount \in Nat
    BY LedgerAssumption DEF Distribution, Line
  <1> QED
    BY <1>1 DEF CreditOf

LEMMA HoldRowShape ==
    ASSUME SettlementTypeOK, NEW h \in DOMAIN holds
    PROVE  /\ h \in Holds /\ holds[h].account \in Accounts
           /\ holds[h].amount \in Nat \ {0}
           /\ holds[h].status \in {"HELD", "RELEASED", "REFUNDED"}
           /\ available \in [Owners -> Int] /\ held \in [Accounts -> Int]
  BY DEF SettlementTypeOK, IsTable, FundsHold

LEMMA CommitTypes ==
    ASSUME Discipline, NEW t \in Transactions, Commit(t)
    PROVE  SettlementTypeOK'
  <1>1. TransactionsTypeOK /\ SettlementTypeOK
    BY DEF Discipline, TransactionsTypeOK
  <1>2. /\ available \in [Owners -> Int] /\ held \in [Accounts -> Int]
        /\ IsTable(holds, Holds, FundsHold) /\ Accounts \subseteq Owners
        /\ Amounts \subseteq Nat \ {0}
    BY <1>1, LedgerAssumption DEF SettlementTypeOK, Owners
  <1>3. CASE task[t].op = "hold"
    <2>1. /\ Hold(task[t].hold, task[t].from, task[t].amount)
          /\ task[t].amount \in Nat \ {0} /\ task[t].hold \in Holds /\ task[t].from \in Accounts
      BY <1>1, <1>2, <1>3, CommitIsASettlement, TaskShape
    <2>2. available' \in [Owners -> Int] /\ held' \in [Accounts -> Int]
      BY <1>2, <2>1 DEF Hold
    <2>3. IsTable(holds', Holds, FundsHold)
      BY <1>2, <2>1 DEF Hold, IsTable, Insert, FundsHold
    <2> QED
      BY <2>2, <2>3 DEF SettlementTypeOK
  <1>4. CASE task[t].op \in {"release", "refund"}
    <2> DEFINE h == task[t].hold
    <2>1. /\ h \in DOMAIN holds /\ holds[h].status = "HELD"
          /\ \/ task[t].payout \in Payouts /\ PostRelease(h, task[t].payout)
             \/ PostRefund(h)
      BY <1>4, CommitIsASettlement DEF Settleable, HoldOf, ReleaseHold, RefundHold,
                                       PostRelease, PostRefund
    <2>2. /\ h \in Holds /\ holds[h].account \in Accounts /\ holds[h].amount \in Nat \ {0}
      BY <1>1, <2>1, HoldRowShape
    <2>3. CASE task[t].payout \in Payouts /\ PostRelease(h, task[t].payout)
      <3>1. \A owner \in Owners : CreditOf(task[t].payout, owner) \in Nat
        BY <2>3, PayoutsGive
      <3>2. available' \in [Owners -> Int] /\ held' \in [Accounts -> Int]
        BY <1>2, <2>2, <2>3, <3>1 DEF PostRelease
      <3>3. IsTable(holds', Holds, FundsHold)
        BY <1>2, <2>1, <2>2, <2>3 DEF PostRelease, IsTable, FundsHold
      <3> QED
        BY <3>2, <3>3 DEF SettlementTypeOK
    <2>4. CASE PostRefund(h)
      <3>1. available' \in [Owners -> Int] /\ held' \in [Accounts -> Int]
        BY <1>2, <2>2, <2>4 DEF PostRefund
      <3>2. IsTable(holds', Holds, FundsHold)
        BY <1>2, <2>1, <2>2, <2>4 DEF PostRefund, IsTable, FundsHold
      <3> QED
        BY <3>1, <3>2 DEF SettlementTypeOK
    <2> QED
      BY <2>1, <2>3, <2>4
  <1>5. CASE task[t].op = "transfer"
    <2>1. /\ Transfer(task[t].from, task[t].to, task[t].amount)
          /\ task[t].amount \in Nat \ {0}
      BY <1>1, <1>2, <1>5, CommitIsASettlement
    <2>2. available' \in [Owners -> Int]
      BY <1>2, <2>1 DEF Transfer
    <2> QED
      BY <1>2, <2>1, <2>2 DEF Transfer, SettlementTypeOK, IsTable
  <1> QED
    BY <1>1, <1>3, <1>4, <1>5, TaskShape

(* Nobody takes from an account another transaction has locked.             *)
LEMMA LockedAccountKeeps ==
    ASSUME Discipline, NEW t \in Transactions, Commit(t),
           NEW u \in Transactions, u # t, Checks(u), at[u] \in {"enter", "commit"}
    PROVE  available'[task[u].from] >= available[task[u].from]
  <1> DEFINE from == task[u].from
  <1>1. TransactionsTypeOK /\ SettlementTypeOK /\ at[t] = "commit"
    BY DEF Discipline, TransactionsTypeOK, Commit
  <1>2. from \in Owners \ {"float"} /\ Available(from) \in updating[u]
    BY <1>1, DebitedAccount DEF Discipline, HasLocked
  <1>3. Available(from) \notin updating[t]
    BY <1>2 DEF Discipline, Exclusive
  <1>4. Checks(t) => task[t].from # from
    BY <1>1, <1>3 DEF Discipline, HasLocked
  <1>5. available \in [Owners -> Int] /\ available[from] \in Int /\ Amounts \subseteq Nat \ {0}
    BY <1>1, <1>2, LedgerAssumption DEF SettlementTypeOK
  <1>6. CASE task[t].op = "hold"
    <2>1. task[t].from # from
      BY <1>4, <1>6 DEF Checks
    <2>2. Hold(task[t].hold, task[t].from, task[t].amount)
      BY <1>6, CommitIsASettlement
    <2> QED
      BY <1>2, <1>5, <2>1, <2>2 DEF Hold
  <1>7. CASE task[t].op = "release"
    <2>1. /\ task[t].payout \in Payouts /\ Settleable(t)
          /\ ReleaseHold(task[t].hold, task[t].payout)
      BY <1>7, CommitIsASettlement
    <2>2. CreditOf(task[t].payout, from) \in Nat
      BY <1>2, <2>1, PayoutsGive
    <2>3. available'[from] = available[from] + CreditOf(task[t].payout, from)
      BY <1>2, <2>1 DEF ReleaseHold, Settleable, HoldOf
    <2> QED
      BY <1>5, <2>2, <2>3
  <1>8. CASE task[t].op = "refund"
    <2>1. Settleable(t) /\ RefundHold(task[t].hold)
      BY <1>8, CommitIsASettlement
    <2>2. /\ holds[task[t].hold].amount \in Nat
          /\ available' = [available EXCEPT ![holds[task[t].hold].account] =
                             @ + holds[task[t].hold].amount]
      BY <1>1, <2>1, HoldRowShape DEF RefundHold, Settleable, HoldOf
    <2> QED
      BY <1>2, <1>5, <2>2
  <1>9. CASE task[t].op = "transfer"
    <2>1. /\ Transfer(task[t].from, task[t].to, task[t].amount)
          /\ task[t].amount \in Nat
      BY <1>5, <1>9, CommitIsASettlement
    <2>2. task[t].from # from
      BY <1>2, <1>4, <1>9 DEF Checks
    <2>3. available'[from] = available[from] + (IF from = task[t].to THEN task[t].amount ELSE 0)
      BY <1>2, <1>5, <2>1, <2>2 DEF Transfer
    <2> QED
      BY <1>5, <2>1, <2>3
  <1> QED
    BY <1>1, <1>6, <1>7, <1>8, <1>9, TaskShape

(* Nobody settles a hold another transaction has locked, and a new hold is    *)
(* none that another transaction knows.                                     *)
LEMMA LockedHoldKeeps ==
    ASSUME Discipline, NEW t \in Transactions, Commit(t),
           NEW u \in Transactions, u # t
    PROVE  /\ Takes(u) /\ at[u] \in {"resolve", "enter", "commit"} => Settleable(u)'
           /\ task[u].op = "hold" /\ at[u] # "done" => task[u].hold \notin DOMAIN holds'
  <1>1. /\ TransactionsTypeOK /\ at[t] = "commit" /\ task' = task
        /\ StillTrue(t) /\ StillTrue(u) /\ HasLocked(t) /\ HasLocked(u)
        /\ updating[t] \cap updating[u] = {}
    BY DEF Discipline, Commit, Exclusive
  <1>2. CASE task[t].op = "hold"
    <2>1. /\ task[t].hold \notin DOMAIN holds
          /\ holds' = Insert(holds, task[t].hold,
                             [status |-> "HELD", account |-> task[t].from,
                              amount |-> task[t].amount])
      BY <1>2, CommitIsASettlement DEF Hold
    <2>2. /\ DOMAIN holds' = DOMAIN holds \cup {task[t].hold}
          /\ \A h \in DOMAIN holds : holds'[h] = holds[h]
      BY <2>1 DEF Insert
    <2>3. task[u].op = "hold" => task[u].hold # task[t].hold
      BY <1>2 DEF Discipline, Distinct
    <2> QED
      BY <1>1, <2>2, <2>3 DEF StillTrue, Settleable, HoldOf
  <1>3. CASE Takes(t)
    <2>1. /\ task[t].hold \in DOMAIN holds
          /\ \E status \in {"RELEASED", "REFUNDED"} :
               holds' = [holds EXCEPT ![task[t].hold].status = status]
      BY <1>3, CommitIsASettlement DEF Takes, Settleable, HoldOf, ReleaseHold, RefundHold
    <2>2. /\ DOMAIN holds' = DOMAIN holds
          /\ \A h \in DOMAIN holds \ {task[t].hold} : holds'[h] = holds[h]
      BY <2>1
    <2>3. Takes(u) /\ at[u] \in {"resolve", "enter", "commit"} => task[u].hold # task[t].hold
      BY <1>1, <1>3, RowsAreTold DEF HasLocked
    <2> QED
      BY <1>1, <2>2, <2>3 DEF StillTrue, Settleable, HoldOf
  <1>4. CASE task[t].op = "transfer"
    <2>1. holds' = holds
      BY <1>4, CommitIsASettlement DEF Transfer
    <2> QED
      BY <1>1, <2>1 DEF StillTrue, Settleable, HoldOf
  <1> QED
    BY <1>1, <1>2, <1>3, <1>4, TaskShape DEF Takes
LEMMA CommitKeeps ==
    ASSUME Discipline, NEW t \in Transactions, Commit(t)
    PROVE  Discipline'
  <1>1. /\ TransactionsTypeOK /\ at[t] = "commit"
        /\ at' = [at EXCEPT ![t] = "done"]
        /\ place' = [place EXCEPT ![t] = 0]
        /\ updating' = [updating EXCEPT ![t] = {}]
        /\ task' = task
    BY DEF Discipline, Commit, Ended, Goes
  <1>2. TransactionsTypeOK'
    BY <1>1, CommitTypes DEF TransactionsTypeOK, Ends
  <1>3. (Distinct /\ Exclusive)'
    BY <1>1 DEF Discipline, Distinct, Exclusive, TransactionsTypeOK
  <1>4. (OnItsWay(t) /\ HasLocked(t) /\ StillTrue(t))'
    BY <1>1 DEF OnItsWay, HasLocked, StillTrue, TransactionsTypeOK
  <1>5. ASSUME NEW u \in Transactions, u # t PROVE (OnItsWay(u) /\ HasLocked(u) /\ StillTrue(u))'
    <2>1. /\ at'[u] = at[u] /\ place'[u] = place[u] /\ updating'[u] = updating[u]
          /\ OnItsWay(u) /\ HasLocked(u) /\ StillTrue(u)
      BY <1>1, <1>5 DEF Discipline, TransactionsTypeOK
    <2>2. Takes(u)' = Takes(u) /\ Checks(u)' = Checks(u)
      BY <1>1 DEF Takes, Checks
    <2>3. (OnItsWay(u) /\ HasLocked(u))'
      BY <1>1, <2>1, <2>2 DEF OnItsWay, HasLocked
    <2>4. Checks(u) /\ at[u] \in {"enter", "commit"} => Covers(task[u].from, task[u].amount)'
      <3> SUFFICES ASSUME Checks(u), at[u] \in {"enter", "commit"}
                   PROVE  Covers(task[u].from, task[u].amount)'
        OBVIOUS
      <3>1. available'[task[u].from] >= available[task[u].from]
        BY <1>5, LockedAccountKeeps
      <3>2. available[task[u].from] >= task[u].amount
        BY <2>1 DEF StillTrue, Covers
      <3>3. /\ task[u].from \in Owners /\ task[u].amount \in Nat
            /\ available \in [Owners -> Int] /\ available' \in [Owners -> Int]
        BY <1>1, <1>2, DebitedAccount DEF TransactionsTypeOK, SettlementTypeOK
      <3> QED
        BY <1>1, <3>1, <3>2, <3>3 DEF Covers
    <2>5. /\ Takes(u) /\ at[u] \in {"resolve", "enter", "commit"} => Settleable(u)'
          /\ task[u].op = "hold" /\ at[u] # "done" => task[u].hold \notin DOMAIN holds'
      BY <1>5, LockedHoldKeeps
    <2> QED
      BY <1>1, <2>1, <2>2, <2>3, <2>4, <2>5 DEF StillTrue
  <1> QED
    BY <1>2, <1>3, <1>4, <1>5 DEF Discipline

-----------------------------------------------------------------------------
LEMMA RollingBackKeeps ==
    ASSUME Discipline, NEW t \in Transactions,
           AnswerAgain(t) \/ Throw(t) \/ Refuse(t) \/ BreakCircle(t) \/ Abort(t)
    PROVE  Discipline' /\ UNCHANGED settlementVars
  <1>1. CASE AnswerAgain(t)
    <2>1. at[t] = "read" /\ task[t].op # "hold"
      BY <1>1 DEF AnswerAgain, Discipline, OnItsWay, Takes
    <2> QED
      BY <1>1, <2>1, EndedKeeps DEF AnswerAgain, RolledBack, Ends
  <1>2. CASE Throw(t)
    BY <1>2, EndedKeeps DEF Throw, RolledBack, Ends
  <1>3. CASE Refuse(t)
    BY <1>3, EndedKeeps DEF Refuse, Ends
  <1>4. CASE Abort(t)
    BY <1>4, EndedKeeps DEF Abort, RolledBack, Running, Ends
  <1>5. CASE BreakCircle(t)
    <2>1. at[t] # "done"
      <3>1. at[t] = "done" => WaitsFor(t) = {}
        BY DEF WaitsFor
      <3>2. {} \in SUBSET Transactions /\ t \notin {}
        OBVIOUS
      <3> QED
        BY <1>5, <3>1, <3>2 DEF BreakCircle, InCircle
    <2> QED
      BY <1>5, <2>1, EndedKeeps DEF BreakCircle, RolledBack, Ends
  <1> QED
    BY <1>1, <1>2, <1>3, <1>4, <1>5

(* Every step keeps the discipline, and is a settlement or nothing to the    *)
(* ledger.                                                                  *)
LEMMA DisciplineStep ==
    Discipline /\ [TransactionsNext]_vars
      => Discipline' /\ (Promise!Next \/ UNCHANGED settlementVars)
  <1> SUFFICES ASSUME Discipline, [TransactionsNext]_vars
               PROVE  Discipline' /\ (Promise!Next \/ UNCHANGED settlementVars)
    OBVIOUS
  <1>1. CASE UNCHANGED vars
    <2>1. UNCHANGED <<settlementVars, task, at, place, updating>>
      BY <1>1 DEF vars, lockVars
    <2>2. UNCHANGED <<available, held, holds>>
      BY <2>1 DEF settlementVars
    <2> QED
      BY <2>1, <2>2 DEF Discipline, TransactionsTypeOK, SettlementTypeOK, IsTable, Distinct,
                        Exclusive, OnItsWay, HasLocked, StillTrue, Takes, Checks, Covers,
                        Settleable, HoldOf
  <1>2. ASSUME NEW t \in Transactions, Statement(t) \/ BreakCircle(t) \/ Abort(t)
        PROVE  Discipline' /\ (Promise!Next \/ UNCHANGED settlementVars)
    <2>1. CASE LockRow(t)
      BY <2>1, LockRowKeeps DEF LockRow
    <2>2. CASE LockHold(t)
      BY <2>2, LockHoldKeeps DEF LockHold
    <2>3. CASE ReadHold(t)
      BY <2>3, ReadHoldKeeps DEF ReadHold
    <2>4. CASE Resolve(t)
      BY <2>4, ResolveKeeps DEF Resolve
    <2>5. CASE LockAccount(t)
      BY <2>5, LockAccountKeeps DEF LockAccount
    <2>6. CASE CheckBalance(t)
      BY <2>6, CheckBalanceKeeps DEF CheckBalance
    <2>7. CASE Enter(t)
      BY <2>7, EnterKeeps DEF Enter
    <2>8. CASE Commit(t)
      BY <2>8, CommitKeeps, CommitIsPromised
    <2>9. CASE AnswerAgain(t) \/ Throw(t) \/ Refuse(t) \/ BreakCircle(t) \/ Abort(t)
      BY <2>9, RollingBackKeeps
    <2> QED
      BY <1>2, <2>1, <2>2, <2>3, <2>4, <2>5, <2>6, <2>7, <2>8, <2>9 DEF Statement
  <1> QED
    BY <1>1, <1>2 DEF TransactionsNext

(* The locks are taken and kept as the adapter relies on: what a transaction *)
(* has read of an account or a hold stays true until it commits, for any     *)
(* number of transactions and any mix of use cases.                         *)
THEOREM LocksProtectReads == TransactionsSpec => []Discipline
  BY DisciplineInit, DisciplineStep, PTL DEF TransactionsSpec

(* SettlementsAreAtomic: the transactions of the use cases, statement by     *)
(* statement and aborted anywhere, implement the promise of the settlement   *)
(* port, under which holds and transfers take effect one at a time.          *)
THEOREM TransactionsImplementLedger == TransactionsSpec => SettlementsAreAtomic
  <1>1. TransactionsInit => Promise!Init
    BY DEF TransactionsInit, Init, Promise!Init
  <1>2. Discipline /\ [TransactionsNext]_vars => [Promise!Next]_(Promise!settlementVars)
    BY DisciplineStep DEF settlementVars, Promise!settlementVars
  <1> QED
    BY <1>1, <1>2, LocksProtectReads, PTL
       DEF TransactionsSpec, SettlementsAreAtomic, Promise!Spec

LEMMA StepNeverOverdraws ==
    Discipline /\ NoOverdraft /\ [TransactionsNext]_vars => NoOverdraft'
  <1> SUFFICES ASSUME Discipline, NoOverdraft, [TransactionsNext]_vars
               PROVE  NoOverdraft'
    OBVIOUS
  <1>1. CASE UNCHANGED available
    BY <1>1 DEF NoOverdraft
  <1>2. ASSUME NEW t \in Transactions, Commit(t) PROVE NoOverdraft'
    <2> SUFFICES ASSUME NEW owner \in Owners \ {"float"} PROVE available'[owner] >= 0
      BY DEF NoOverdraft
    <2>1. /\ available \in [Owners -> Int] /\ available[owner] >= 0
          /\ TransactionsTypeOK /\ SettlementTypeOK /\ Amounts \subseteq Nat \ {0}
      BY LedgerAssumption DEF Discipline, TransactionsTypeOK, SettlementTypeOK, NoOverdraft
    <2>2. CASE task[t].op = "hold"
      <3>1. Hold(task[t].hold, task[t].from, task[t].amount) /\ task[t].amount \in Nat
        BY <1>2, <2>1, <2>2, CommitIsASettlement
      <3>2. available[task[t].from] >= task[t].amount
        BY <3>1 DEF Hold, Covers
      <3> QED
        BY <2>1, <3>1, <3>2 DEF Hold
    <2>3. CASE task[t].op = "release"
      <3>1. /\ task[t].payout \in Payouts /\ Settleable(t)
            /\ ReleaseHold(task[t].hold, task[t].payout)
        BY <1>2, <2>3, CommitIsASettlement
      <3>2. CreditOf(task[t].payout, owner) \in Nat
        BY <3>1, PayoutsGive
      <3>3. available'[owner] = available[owner] + CreditOf(task[t].payout, owner)
        BY <3>1 DEF ReleaseHold, Settleable, HoldOf
      <3> QED
        BY <2>1, <3>2, <3>3
    <2>4. CASE task[t].op = "refund"
      <3>1. Settleable(t) /\ RefundHold(task[t].hold)
        BY <1>2, <2>4, CommitIsASettlement
      <3>2. /\ holds[task[t].hold].amount \in Nat
            /\ available' = [available EXCEPT ![holds[task[t].hold].account] =
                               @ + holds[task[t].hold].amount]
        BY <2>1, <3>1, HoldRowShape DEF RefundHold, Settleable, HoldOf
      <3> QED
        BY <2>1, <3>2
    <2>5. CASE task[t].op = "transfer"
      <3>1. /\ Transfer(task[t].from, task[t].to, task[t].amount)
            /\ task[t].amount \in Nat
        BY <1>2, <2>1, <2>5, CommitIsASettlement
      <3>2. owner = task[t].from => available[owner] >= task[t].amount
        BY <3>1 DEF Transfer, Covers
      <3>3. available'[owner] = available[owner] + (IF owner = task[t].to THEN task[t].amount ELSE 0)
                                                 - (IF owner = task[t].from THEN task[t].amount ELSE 0)
        BY <3>1 DEF Transfer
      <3> QED
        BY <2>1, <3>1, <3>2, <3>3
    <2> QED
      BY <2>1, <2>2, <2>3, <2>4, <2>5, TaskShape
  <1>3. ASSUME NEW t \in Transactions, Statement(t) \/ BreakCircle(t) \/ Abort(t), ~Commit(t)
        PROVE  UNCHANGED available
    <2>1. CASE AnswerAgain(t) \/ Throw(t) \/ Refuse(t) \/ BreakCircle(t) \/ Abort(t)
      BY <2>1, RollingBackKeeps DEF settlementVars
    <2>2. CASE LockRow(t) \/ LockHold(t) \/ ReadHold(t) \/ Resolve(t) \/ LockAccount(t)
                 \/ CheckBalance(t) \/ Enter(t)
      BY <2>2 DEF LockRow, LockHold, ReadHold, Resolve, LockAccount, CheckBalance, Enter,
                  settlementVars
    <2> QED
      BY <1>3, <2>1, <2>2 DEF Statement
  <1> QED
    BY <1>1, <1>2, <1>3 DEF TransactionsNext, vars, settlementVars

(* NoOverdraft, of transactions that race for one account: however their     *)
(* statements interleave, no available account but the float's is overdrawn. *)
THEOREM RacesNeverOverdraw == TransactionsSpec => []NoOverdraft
  <1>1. TransactionsInit => NoOverdraft
    BY LedgerAssumption DEF TransactionsInit, Init, NoOverdraft
  <1> QED
    BY <1>1, LocksProtectReads, StepNeverOverdraws, PTL DEF TransactionsSpec
-----------------------------------------------------------------------------
(* The order in which the accounts that are not there yet are inserted: a    *)
(* member's, the platform's, and the member's held account last.             *)
Rank(row) ==
    IF row[1] = "held" THEN 5
    ELSE CASE row[2] = "float" -> 0 [] row[2] = "feeRevenue" -> 2
           [] row[2] = "rounding" -> 4 [] OTHER -> 1

Ranked(s, there, low, high) ==
    /\ s \in Seq(Accounting)
    /\ \A k \in DOMAIN s : s[k] \notin there => low <= Rank(s[k]) /\ Rank(s[k]) <= high
    /\ \A j, k \in DOMAIN s :
         j < k /\ s[j] \notin there /\ s[k] \notin there => Rank(s[j]) < Rank(s[k])

LEMMA Ranks ==
    /\ \A a \in Accounts : /\ Rank(Available(a)) = 1 /\ Rank(Held(a)) = 5
                           /\ Available(a) \in Accounting /\ Held(a) \in Accounting
    /\ Rank(Available("feeRevenue")) = 2 /\ Rank(Available("rounding")) = 4
    /\ \A row \in Accounting : Rank(row) \in Int
    /\ \A owner \in Owners : Available(owner) \in Accounting
  <1>1. ASSUME NEW a \in Accounts PROVE Rank(Available(a)) = 1 /\ Rank(Held(a)) = 5
    <2>1. a # "float" /\ a # "feeRevenue" /\ a # "rounding"
      BY IdentifierAssumption DEF Platform
    <2> QED
      BY <2>1 DEF Rank, Available, Held
  <1>2. Rank(Available("feeRevenue")) = 2 /\ Rank(Available("rounding")) = 4
    BY DEF Rank, Available
  <1>3. \A row : Rank(row) \in Int
    BY DEF Rank
  <1> QED
    BY <1>1, <1>2, <1>3 DEF Accounting, Owners

LEMMA RankedJoin ==
    ASSUME NEW s, NEW r, NEW there, NEW low \in Int, NEW mid \in Int, NEW next \in Int, NEW high \in Int,
           Ranked(s, there, low, mid), Ranked(r, there, next, high),
           low <= mid, mid < next, next <= high
    PROVE  Ranked(s \o r, there, low, high)
  <1> DEFINE both == s \o r
  <1>1. /\ s \in Seq(Accounting) /\ r \in Seq(Accounting)
        /\ Len(s) \in Nat /\ Len(r) \in Nat
        /\ DOMAIN s = 1 .. Len(s) /\ DOMAIN r = 1 .. Len(r)
    BY DEF Ranked
  <1>2. /\ both \in Seq(Accounting) /\ DOMAIN both = 1 .. Len(s) + Len(r)
        /\ \A k \in DOMAIN s : both[k] = s[k]
        /\ \A k \in DOMAIN both \ DOMAIN s : k - Len(s) \in DOMAIN r /\ both[k] = r[k - Len(s)]
    BY <1>1
  <1>3. /\ \A k \in DOMAIN s : s[k] \in Accounting
        /\ \A k \in DOMAIN r : r[k] \in Accounting
    BY <1>1
  <1>4. /\ \A k \in DOMAIN s : Rank(s[k]) \in Int
        /\ \A k \in DOMAIN r : Rank(r[k]) \in Int
    BY <1>3, Ranks
  <1> HIDE DEF both
  <1>5. ASSUME NEW k \in DOMAIN both, both[k] \notin there
        PROVE  low <= Rank(both[k]) /\ Rank(both[k]) <= high
    <2>1. CASE k \in DOMAIN s
      <3>1. low <= Rank(s[k]) /\ Rank(s[k]) <= mid
        BY <1>2, <1>5, <2>1 DEF Ranked
      <3> QED
        BY <1>2, <1>4, <2>1, <3>1
    <2>2. CASE k \notin DOMAIN s
      <3>1. next <= Rank(r[k - Len(s)]) /\ Rank(r[k - Len(s)]) <= high
        BY <1>2, <1>5, <2>2 DEF Ranked
      <3> QED
        BY <1>2, <1>4, <2>2, <3>1
    <2> QED
      BY <2>1, <2>2
  <1>6. ASSUME NEW j \in DOMAIN both, NEW k \in DOMAIN both, j < k,
               both[j] \notin there, both[k] \notin there
        PROVE  Rank(both[j]) < Rank(both[k])
    <2>1. CASE k \in DOMAIN s
      <3>1. j \in DOMAIN s
        BY <1>1, <1>2, <1>6, <2>1
      <3> QED
        BY <1>2, <1>6, <2>1, <3>1 DEF Ranked
    <2>2. CASE j \in DOMAIN s /\ k \notin DOMAIN s
      <3>1. Rank(s[j]) <= mid
        BY <1>2, <1>6, <2>2 DEF Ranked
      <3>2. next <= Rank(r[k - Len(s)])
        BY <1>2, <1>6, <2>2 DEF Ranked
      <3>3. both[j] = s[j] /\ both[k] = r[k - Len(s)] /\ k - Len(s) \in DOMAIN r
        BY <1>2, <1>6, <2>2
      <3>4. Rank(s[j]) \in Int /\ Rank(r[k - Len(s)]) \in Int
        BY <1>4, <2>2, <3>3
      <3> QED
        BY ONLY mid < next, mid \in Int, next \in Int, <3>1, <3>2, <3>3, <3>4
    <2>3. CASE j \notin DOMAIN s /\ k \notin DOMAIN s
      <3>1. /\ both[j] = r[j - Len(s)] /\ both[k] = r[k - Len(s)]
            /\ j - Len(s) \in DOMAIN r /\ k - Len(s) \in DOMAIN r
        BY <1>2, <1>6, <2>3
      <3>2. j - Len(s) < k - Len(s)
        BY <1>1, <1>2, <1>6
      <3> QED
        BY <1>6, <3>1, <3>2 DEF Ranked
    <2> QED
      BY <2>1, <2>2, <2>3
  <1> QED
    BY <1>2, <1>5, <1>6 DEF Ranked, both

LEMMA RankedLine ==
    ASSUME NEW line, NEW there, NEW n \in Int,
           line.amount # 0 => /\ Available(line.to) \in Accounting
                              /\ Available(line.to) \notin there => Rank(Available(line.to)) = n
    PROVE  Ranked(Target(line), there, n, n)
  <1>1. CASE line.amount = 0
    BY <1>1 DEF Target, Ranked
  <1>2. CASE line.amount # 0
    <2> DEFINE row == Available(line.to)
    <2>1. Target(line) = <<row>> /\ row \in Accounting /\ (row \notin there => Rank(row) = n)
      BY <1>2 DEF Target
    <2> HIDE DEF row
    <2> QED
      BY <2>1 DEF Ranked
  <1> QED
    BY <1>1, <1>2

LEMMA TargetsRanked ==
    ASSUME NEW job, NEW there, OpeningAccounts \subseteq there,
           job.payout \in Payouts, Pays(job)
    PROVE  Ranked(TargetsOf(job), there, 1, 4)
  <1> DEFINE d == job.payout
  <1>1. CASE job.reason = "ORIGINATE_LOAN" /\ Origination(d)
    <2>1. /\ d.borrower.to \in Accounts /\ d.fee.to = "feeRevenue"
      BY <1>1 DEF Origination
    <2>2. Ranked(Target(d.borrower), there, 1, 1)
      BY <2>1, Ranks, RankedLine
    <2>3. Ranked(Target(d.fee), there, 2, 2)
      BY <2>1, Ranks, RankedLine DEF Owners, Platform
    <2>4. Ranked(Target(d.borrower) \o Target(d.fee), there, 1, 2)
      BY ONLY <2>2, <2>3, RankedJoin
    <2>5. Ranked(Target(d.borrower) \o Target(d.fee), there, 1, 4)
      BY ONLY <2>4, Ranks DEF Ranked
    <2> QED
      BY <1>1, <2>5 DEF TargetsOf
  <1>2. CASE job.reason = "SETTLE_LIQUIDATION" /\ Waterfall(d)
    <2>1. Ranked(Target(d.noteHolder), there, 1, 1)
      BY <1>2, Ranks, RankedLine DEF Waterfall
    <2>2. Ranked(Target(d.fee), there, 2, 2)
      BY <1>2, Ranks, RankedLine DEF Waterfall, Owners, Platform
    <2>3. Ranked(Target(d.borrower), there, 3, 3)
      BY <1>2, TransactionsAssumption, RankedLine DEF Waterfall
    <2>4. Ranked(Target(d.rounding), there, 4, 4)
      BY <1>2, Ranks, RankedLine DEF Waterfall, Owners, Platform
    <2>5. Ranked(Target(d.noteHolder) \o Target(d.fee), there, 1, 2)
      BY ONLY <2>1, <2>2, RankedJoin
    <2>6. Ranked(Target(d.borrower) \o Target(d.rounding), there, 3, 4)
      BY ONLY <2>3, <2>4, RankedJoin
    <2>7. Ranked((Target(d.noteHolder) \o Target(d.fee))
                   \o (Target(d.borrower) \o Target(d.rounding)), there, 1, 4)
      BY ONLY <2>5, <2>6, RankedJoin
    <2> QED
      BY <1>2, <2>7 DEF TargetsOf
  <1> QED
    BY <1>1, <1>2 DEF Pays

(* A transaction enters at least one account, and inserts in this order the  *)
(* ones that are not there, if the float and the accounts of its hold's      *)
(* member are.                                                              *)
LEMMA AccountsRanked ==
    ASSUME TransactionsTypeOK, NEW t \in Transactions,
           Takes(t) => task[t].hold \in DOMAIN holds,
           NEW there, OpeningAccounts \subseteq there,
           Takes(t) => {Available(HoldOf(t).account), Held(HoldOf(t).account)} \subseteq there
    PROVE  /\ AccountsOf(t) \in Seq(Accounting) /\ AccountsOf(t) # <<>>
           /\ Available("float") \in there => Ranked(AccountsOf(t), there, 0, 5)
  <1> DEFINE s == AccountsOf(t)
  <1>1. CASE task[t].op = "hold"
    <2> DEFINE a == task[t].from
    <2>1. s = <<Available(a), Held(a)>> /\ a \in Accounts
      BY <1>1, TaskShape DEF AccountsOf
    <2>2. PICK x, y : x = Available(a) /\ y = Held(a)
      OBVIOUS
    <2>3. x \in Accounting /\ y \in Accounting /\ Rank(x) = 1 /\ Rank(y) = 5
      BY <2>1, <2>2, Ranks
    <2>4. s = <<x, y>>
      BY <2>1, <2>2
    <2> HIDE DEF s
    <2> QED
      BY ONLY <2>3, <2>4 DEF Ranked, s
  <1>2. CASE task[t].op = "transfer"
    <2>1. PICK x, y : x = Available(task[t].from) /\ y = Available(task[t].to)
      OBVIOUS
    <2>2. s = <<x, y>>
      BY <1>2, <2>1 DEF AccountsOf
    <2>3. x \in Accounting /\ y \in Accounting
      BY <1>2, <2>1, TaskShape, Ranks
    <2>4. Available("float") \in there => x \in there \/ y \in there
      BY <1>2, <2>1, TaskShape DEF Moves
    <2>5. Rank(x) \in Int /\ Rank(y) \in Int /\ 0 <= Rank(x) /\ Rank(x) <= 5 /\ 0 <= Rank(y) /\ Rank(y) <= 5
      BY DEF Rank
    <2> HIDE DEF s
    <2>6. s \in Seq(Accounting) /\ s # <<>>
      BY ONLY <2>2, <2>3
    <2>7. Available("float") \in there => Ranked(s, there, 0, 5)
      BY ONLY <2>2, <2>4, <2>5, <2>6 DEF Ranked
    <2> QED
      BY <2>6, <2>7 DEF s
  <1>3. CASE task[t].op = "refund"
    <2>1. PICK x, y : x = Held(HoldOf(t).account) /\ y = Available(HoldOf(t).account)
      OBVIOUS
    <2>2. s = <<x, y>>
      BY <1>3, <2>1 DEF AccountsOf
    <2>3. x \in Accounting /\ y \in Accounting
      BY <1>3, <2>1, Ranks, HoldRowShape DEF Takes, TransactionsTypeOK, HoldOf
    <2>4. x \in there /\ y \in there
      BY <1>3, <2>1 DEF Takes
    <2> HIDE DEF s
    <2> QED
      BY ONLY <2>2, <2>3, <2>4 DEF Ranked, s
  <1>4. CASE task[t].op = "release"
    <2>1. PICK x, r : x = Held(HoldOf(t).account) /\ r = TargetsOf(task[t])
      OBVIOUS
    <2>2. s = <<x>> \o r
      BY <1>4, <2>1 DEF AccountsOf
    <2>3. x \in Accounting /\ x \in there
      BY <1>4, <2>1, Ranks, HoldRowShape DEF Takes, TransactionsTypeOK, HoldOf
    <2>4. Ranked(<<x>>, there, 0, 0)
      BY ONLY <2>3 DEF Ranked
    <2>5. task[t].payout \in Payouts /\ Pays(task[t])
      BY <1>4, TaskShape
    <2>6. PICK job : job = task[t]
      OBVIOUS
    <2>7. Ranked(r, there, 1, 4)
      BY <2>1, <2>5, <2>6, TargetsRanked
    <2> HIDE DEF s
    <2>8. Ranked(s, there, 0, 4)
      BY ONLY <2>2, <2>4, <2>7, RankedJoin
    <2>9. s # <<>>
      BY ONLY <2>2, <2>3, <2>7 DEF Ranked
    <2>10. Ranked(s, there, 0, 5)
      BY ONLY <2>8, Ranks DEF Ranked
    <2> QED
      BY <2>9, <2>10 DEF Ranked, s
  <1> QED
    BY <1>1, <1>2, <1>3, <1>4, TaskShape
-----------------------------------------------------------------------------
(* Where the rows a transaction keeps from others come from: a row is locked *)
(* since its statement, an account shared since its entry, and an account    *)
(* row inserted since it was resolved.                                      *)
LocksAreTaken(t) ==
    /\ at[t] \in Ends => updating[t] = {}
    /\ \A row \in updating[t] :
         \/ \E k \in DOMAIN task[t].rows :
              row = task[t].rows[k] /\ (at[t] = "rows" => k <= place[t])
         \/ Takes(t) /\ row = HoldRow(task[t].hold) /\ at[t] \in {"read", "resolve", "enter", "commit"}
         \/ Checks(t) /\ row = Available(task[t].from) /\ at[t] \in {"check", "enter", "commit"}

SharesAreEntered(t) == sharing[t] # {} => at[t] \in {"enter", "commit"}

Resolved(t) == at[t] \in {"lock", "check", "enter", "commit"}
Settles(t) == at[t] = "resolve" \/ Resolved(t)
Reached(t, k) == Resolved(t) \/ (at[t] = "resolve" /\ k <= place[t])

InsertsAreResolved(t) ==
    \A row \in opening[t] :
      /\ row \notin opened /\ Settles(t)
      /\ \E k \in DOMAIN AccountsOf(t) : Reached(t, k) /\ row = AccountsOf(t)[k]

ResolvedAreThere(t) ==
    Settles(t) => \A k \in DOMAIN AccountsOf(t) :
                    Reached(t, k) => AccountsOf(t)[k] \in opened \cup opening[t]

InTheAccounts(t) == at[t] \in {"resolve", "enter"} => place[t] < Len(AccountsOf(t))

RowsOf(t) ==
    /\ LocksAreTaken(t) /\ SharesAreEntered(t)
    /\ InsertsAreResolved(t) /\ ResolvedAreThere(t) /\ InTheAccounts(t)

HoldersHaveAccounts ==
    \A h \in DOMAIN holds : {Available(holds[h].account), Held(holds[h].account)} \subseteq opened

RowsInv ==
    /\ sharing \in [Transactions -> SUBSET Accounting]
    /\ opening \in [Transactions -> SUBSET Accounting]
    /\ OpeningAccounts \subseteq opened
    /\ HoldersHaveAccounts
    /\ \A t, u \in Transactions : t # u => opening[t] \cap opening[u] = {}
    /\ \A t \in Transactions : RowsOf(t)

(* What a settlement enters is known once its hold has been read.           *)
LEMMA AccountsKnown ==
    ASSUME Discipline, RowsInv, NEW t \in Transactions,
           Settles(t) \/ ~Takes(t)
    PROVE  /\ AccountsOf(t) \in Seq(Accounting) /\ AccountsOf(t) # <<>>
           /\ Available("float") \in opened => Ranked(AccountsOf(t), opened, 0, 5)
  <1>1. TransactionsTypeOK /\ OnItsWay(t) /\ StillTrue(t)
    BY DEF Discipline
  <1>2. Takes(t) => task[t].hold \in DOMAIN holds
    <2> SUFFICES ASSUME Takes(t) PROVE task[t].hold \in DOMAIN holds
      OBVIOUS
    <2>1. ~Checks(t)
      BY DEF Takes, Checks
    <2>2. at[t] \in {"resolve", "enter", "commit"}
      BY <1>1, <2>1 DEF OnItsWay, Settles, Resolved
    <2> QED
      BY <1>1, <2>2 DEF StillTrue, Settleable
  <1>3. PICK there : there = opened
    OBVIOUS
  <1>4. /\ OpeningAccounts \subseteq there
        /\ Takes(t) => {Available(HoldOf(t).account), Held(HoldOf(t).account)} \subseteq there
    BY <1>2, <1>3 DEF RowsInv, HoldersHaveAccounts, HoldOf
  <1>5. /\ AccountsOf(t) \in Seq(Accounting) /\ AccountsOf(t) # <<>>
        /\ Available("float") \in there => Ranked(AccountsOf(t), there, 0, 5)
    BY <1>1, <1>2, <1>4, AccountsRanked
  <1> QED
    BY <1>3, <1>5

LEMMA AccountsStay ==
    ASSUME NEW t, UNCHANGED <<task, holds>>
    PROVE  AccountsOf(t)' = AccountsOf(t)
  BY DEF AccountsOf, HoldOf, TargetsOf, Target

LEMMA RowsInit == TransactionsInit => RowsInv
  <1> SUFFICES ASSUME TransactionsInit PROVE RowsInv
    OBVIOUS
  <1>1. Discipline
    BY DisciplineInit
  <1>2. OpeningAccounts = opened /\ HoldersHaveAccounts
    BY TransactionsAssumption DEF TransactionsInit, Init, HoldersHaveAccounts
  <1>3. ASSUME NEW t \in Transactions PROVE RowsOf(t)
    <2>1. /\ updating[t] = {} /\ sharing[t] = {} /\ opening[t] = {} /\ place[t] = 0
          /\ at[t] \in {"rows", "hold", "resolve"}
      BY DEF TransactionsInit, Settling
    <2>2. at[t] = "resolve" => ~Takes(t)
      BY DEF TransactionsInit, Settling, Takes
    <2>3. at[t] = "resolve" => AccountsOf(t) \in Seq(Accounting) /\ AccountsOf(t) # <<>>
      <3>1. PICK there : there = OpeningAccounts
        OBVIOUS
      <3> QED
        BY <1>1, <2>2, <3>1, AccountsRanked DEF Discipline
    <2>4. InTheAccounts(t) /\ ResolvedAreThere(t)
      BY <2>1, <2>3 DEF InTheAccounts, ResolvedAreThere, Settles, Resolved, Reached
    <2>5. LocksAreTaken(t) /\ SharesAreEntered(t) /\ InsertsAreResolved(t)
      BY <2>1 DEF LocksAreTaken, SharesAreEntered, InsertsAreResolved, Ends
    <2> QED
      BY <2>4, <2>5 DEF RowsOf
  <1>4. /\ sharing \in [Transactions -> SUBSET Accounting]
        /\ opening \in [Transactions -> SUBSET Accounting]
        /\ \A t, u \in Transactions : t # u => opening[t] \cap opening[u] = {}
    BY DEF TransactionsInit
  <1> QED
    BY <1>2, <1>3, <1>4 DEF RowsInv

(* A transaction's step is nothing to the rows of the others unless it       *)
(* commits.                                                                 *)
LEMMA RowsUnposted ==
    ASSUME RowsInv, NEW t \in Transactions,
           UNCHANGED <<task, holds, opened>>,
           \A u \in Transactions \ {t} :
             /\ at'[u] = at[u] /\ place'[u] = place[u] /\ updating'[u] = updating[u]
             /\ sharing'[u] = sharing[u] /\ opening'[u] = opening[u],
           sharing' \in [Transactions -> SUBSET Accounting],
           opening' \in [Transactions -> SUBSET Accounting],
           \A u \in Transactions \ {t} : opening'[t] \cap opening[u] = {},
           RowsOf(t)'
    PROVE  RowsInv'
  <1>1. ASSUME NEW u \in Transactions, u # t PROVE RowsOf(u)'
    <2>1. RowsOf(u)
      BY DEF RowsInv
    <2>2. AccountsOf(u)' = AccountsOf(u)
      BY AccountsStay
    <2>3. (LocksAreTaken(u) /\ SharesAreEntered(u))'
      BY <1>1, <2>1 DEF RowsOf, LocksAreTaken, SharesAreEntered, Takes, Checks
    <2>4. (InsertsAreResolved(u) /\ ResolvedAreThere(u) /\ InTheAccounts(u))'
      BY <1>1, <2>1, <2>2 DEF RowsOf, InsertsAreResolved, ResolvedAreThere, InTheAccounts,
                              Settles, Resolved, Reached
    <2> QED
      BY <2>3, <2>4 DEF RowsOf
  <1>2. HoldersHaveAccounts' /\ (OpeningAccounts \subseteq opened)'
    BY DEF RowsInv, HoldersHaveAccounts
  <1>3. ASSUME NEW u \in Transactions, NEW v \in Transactions, u # v
        PROVE  opening'[u] \cap opening'[v] = {}
    BY <1>3 DEF RowsInv
  <1> QED
    BY <1>1, <1>2, <1>3 DEF RowsInv

(* A transaction that begins to resolve has inserted nothing yet.           *)
LEMMA RowsArrive ==
    ASSUME RowsInv, NEW t \in Transactions, ~Settles(t),
           at'[t] # "resolve" => ~Settles(t)',
           place'[t] = 0 \/ at'[t] # "resolve", opening'[t] = opening[t],
           at'[t] = "resolve" => (AccountsOf(t) \in Seq(Accounting) /\ AccountsOf(t) # <<>>)'
    PROVE  (InsertsAreResolved(t) /\ ResolvedAreThere(t) /\ InTheAccounts(t))'
  <1>1. opening[t] = {}
    BY DEF RowsInv, RowsOf, InsertsAreResolved
  <1>2. InsertsAreResolved(t)'
    BY <1>1 DEF InsertsAreResolved
  <1>3. CASE at'[t] # "resolve"
    BY <1>2, <1>3 DEF ResolvedAreThere, InTheAccounts, Settles, Resolved
  <1>4. CASE at'[t] = "resolve"
    <2>1. PICK s : s = AccountsOf(t)'
      OBVIOUS
    <2>2. s \in Seq(Accounting) /\ s # <<>> /\ place'[t] = 0
      BY <1>4, <2>1
    <2>3. 0 < Len(s) /\ \A k \in DOMAIN s : ~(k <= 0)
      BY <2>2
    <2>4. ResolvedAreThere(t)'
      BY <1>4, <2>1, <2>2, <2>3 DEF ResolvedAreThere, Reached, Resolved
    <2>5. InTheAccounts(t)'
      BY <2>1, <2>2, <2>3 DEF InTheAccounts
    <2> QED
      BY <1>2, <2>4, <2>5
  <1> QED
    BY <1>3, <1>4
-----------------------------------------------------------------------------
LEMMA LockRowRows ==
    ASSUME Discipline, RowsInv, NEW t \in Transactions, LockRow(t)
    PROVE  RowsInv'
  <1> DEFINE row == task[t].rows[place[t] + 1]
  <1>1. /\ TransactionsTypeOK /\ task[t].rows \in Seq(Row) /\ RowsOf(t)
        /\ at[t] = "rows" /\ place[t] \in Nat /\ place[t] < Len(task[t].rows)
    BY TaskShape DEF Discipline, RowsInv, TransactionsTypeOK, LockRow, OnItsWay
  <1>2. /\ updating' = [updating EXCEPT ![t] = @ \cup {row}]
        /\ updating \in [Transactions -> SUBSET Row]
        /\ UNCHANGED <<holds, task, sharing, opening, opened>>
    BY <1>1 DEF LockRow, TransactionsTypeOK, rowVars, settlementVars
  <1>3. Settling(t) \in Statements /\ GoesOn(t, task[t].rows, Settling(t))
    BY DEF LockRow, Settling, Statements
  <1>4. /\ \A u \in Transactions \ {t} : at'[u] = at[u] /\ place'[u] = place[u]
        /\ \/ at'[t] = Settling(t) /\ place'[t] = 0
           \/ at'[t] = "rows" /\ place'[t] = place[t] + 1
    BY <1>1, <1>3, GoingOn
  <1>5. /\ at'[t] \in {"rows", "hold"} \/ (at'[t] = "resolve" /\ ~Takes(t) /\ place'[t] = 0)
        /\ task'[t] = task[t] /\ updating'[t] = updating[t] \cup {row}
    BY <1>1, <1>2, <1>4 DEF Settling, Takes
  <1>6. place[t] + 1 \in DOMAIN task[t].rows
    BY <1>1
  <1>7. LocksAreTaken(t)'
    <2>1. at'[t] \notin Ends
      BY <1>5 DEF Ends
    <2>2. ASSUME NEW k \in DOMAIN task[t].rows, at[t] = "rows" => k <= place[t]
          PROVE  at'[t] = "rows" => k <= place'[t]
      <3>1. k \in Int /\ k <= place[t]
        BY <1>1, <2>2
      <3>2. at'[t] = "rows" => place'[t] = place[t] + 1
        BY <1>4, <1>5 DEF Settling
      <3> QED
        BY <1>1, <3>1, <3>2
    <2>3. at'[t] = "rows" => place[t] + 1 <= place'[t]
      BY <1>1, <1>4 DEF Settling
    <2>4. \A r \in updating[t] : \E k \in DOMAIN task[t].rows :
             r = task[t].rows[k] /\ (at[t] = "rows" => k <= place[t])
      BY <1>1 DEF RowsOf, LocksAreTaken
    <2>5. \A r \in updating'[t] : \E k \in DOMAIN task[t].rows :
             r = task[t].rows[k] /\ (at'[t] = "rows" => k <= place'[t])
      BY <1>5, <1>6, <2>2, <2>3, <2>4
    <2> QED
      BY <1>5, <2>1, <2>5 DEF LocksAreTaken
  <1>8. SharesAreEntered(t)'
    BY <1>1, <1>2 DEF RowsOf, SharesAreEntered
  <1>9. at'[t] = "resolve" => (AccountsOf(t) \in Seq(Accounting) /\ AccountsOf(t) # <<>>)'
    BY <1>2, <1>5, AccountsKnown, AccountsStay
  <1>10. (InsertsAreResolved(t) /\ ResolvedAreThere(t) /\ InTheAccounts(t))'
    BY <1>1, <1>2, <1>5, <1>9, RowsArrive DEF Settles, Resolved
  <1> QED
    BY <1>2, <1>4, <1>7, <1>8, <1>10, RowsUnposted DEF RowsInv, RowsOf

LEMMA LockHoldRows ==
    ASSUME Discipline, RowsInv, NEW t \in Transactions, LockHold(t)
    PROVE  RowsInv'
  <1>1. /\ TransactionsTypeOK /\ at[t] = "hold" /\ Takes(t) /\ RowsOf(t)
    BY DEF Discipline, RowsInv, OnItsWay, LockHold
  <1>2. /\ updating' = [updating EXCEPT ![t] = @ \cup {HoldRow(task[t].hold)}]
        /\ at' = [at EXCEPT ![t] = "read"]
        /\ place' = [place EXCEPT ![t] = 0]
        /\ UNCHANGED <<holds, task, sharing, opening, opened>>
        /\ updating \in [Transactions -> SUBSET Row]
        /\ at \in [Transactions -> Statements \cup Ends]
        /\ place \in [Transactions -> Nat]
    BY <1>1 DEF LockHold, Goes, rowVars, settlementVars, TransactionsTypeOK
  <1>3. LocksAreTaken(t)'
    BY <1>1, <1>2 DEF RowsOf, LocksAreTaken, Takes, Ends
  <1>4. SharesAreEntered(t)'
    BY <1>1, <1>2 DEF RowsOf, SharesAreEntered
  <1>5. (InsertsAreResolved(t) /\ ResolvedAreThere(t) /\ InTheAccounts(t))'
    BY <1>1, <1>2, RowsArrive DEF Settles, Resolved
  <1> QED
    BY <1>2, <1>3, <1>4, <1>5, RowsUnposted DEF RowsInv, RowsOf

LEMMA ReadHoldRows ==
    ASSUME Discipline, RowsInv, NEW t \in Transactions, ReadHold(t)
    PROVE  RowsInv'
  <1>1. /\ TransactionsTypeOK /\ at[t] = "read" /\ Takes(t) /\ RowsOf(t) /\ Settleable(t)
    BY DEF Discipline, RowsInv, OnItsWay, ReadHold
  <1>2. /\ at' = [at EXCEPT ![t] = "resolve"]
        /\ place' = [place EXCEPT ![t] = 0]
        /\ UNCHANGED <<holds, task, updating, sharing, opening, opened>>
        /\ at \in [Transactions -> Statements \cup Ends]
        /\ place \in [Transactions -> Nat]
    BY <1>1 DEF ReadHold, Goes, lockVars, rowVars, settlementVars, TransactionsTypeOK
  <1>3. LocksAreTaken(t)'
    BY <1>1, <1>2 DEF RowsOf, LocksAreTaken, Takes, Checks, Ends
  <1>4. SharesAreEntered(t)'
    BY <1>1, <1>2 DEF RowsOf, SharesAreEntered
  <1>5. AccountsOf(t) \in Seq(Accounting) /\ AccountsOf(t) # <<>>
    <2>1. PICK there : there = opened
      OBVIOUS
    <2>2. /\ OpeningAccounts \subseteq there
          /\ {Available(HoldOf(t).account), Held(HoldOf(t).account)} \subseteq there
          /\ task[t].hold \in DOMAIN holds
      BY <1>1, <2>1 DEF RowsInv, HoldersHaveAccounts, HoldOf, Settleable
    <2> QED
      BY <1>1, <2>2, AccountsRanked
  <1>6. (InsertsAreResolved(t) /\ ResolvedAreThere(t) /\ InTheAccounts(t))'
    BY <1>1, <1>2, <1>5, AccountsStay, RowsArrive DEF Settles, Resolved
  <1> QED
    BY <1>2, <1>3, <1>4, <1>6, RowsUnposted DEF RowsInv, RowsOf

LEMMA ResolveRows ==
    ASSUME Discipline, RowsInv, NEW t \in Transactions, Resolve(t)
    PROVE  RowsInv'
  <1>0. PICK s, n, row : s = AccountsOf(t) /\ n = place[t] + 1 /\ row = s[n]
    OBVIOUS
  <1>1. /\ TransactionsTypeOK /\ at[t] = "resolve" /\ RowsOf(t) /\ Settles(t)
        /\ place[t] \in Nat /\ place[t] < Len(s)
        /\ s \in Seq(Accounting)
    BY <1>0, AccountsKnown DEF Discipline, RowsInv, RowsOf, InTheAccounts, Settles,
                               TransactionsTypeOK, Resolve
  <1>2. /\ opening' = [opening EXCEPT ![t] = @ \cup ({row} \ opened)]
        /\ \A u \in Transactions \ {t} : row \notin opening[u]
        /\ GoesOn(t, s, IF Checks(t) THEN "lock" ELSE "enter")
        /\ UNCHANGED <<holds, task, updating, sharing, opened>>
    BY <1>0, <1>1 DEF Resolve, WaitsFor, BlocksInsert, Others, lockVars, settlementVars
  <1>3. n \in DOMAIN s /\ row \in Accounting
    BY <1>0, <1>1
  <1>4. PICK where : where = IF Checks(t) THEN "lock" ELSE "enter"
    OBVIOUS
  <1>5. where \in Statements /\ GoesOn(t, s, where)
    BY <1>2, <1>4 DEF Statements
  <1>6. /\ \A u \in Transactions \ {t} : at'[u] = at[u] /\ place'[u] = place[u]
        /\ \/ at'[t] = where /\ place'[t] = 0
           \/ at'[t] = "resolve" /\ place'[t] = place[t] + 1 /\ place[t] + 1 # Len(s)
    BY <1>1, <1>5, GoingOn
  <1>7. where \in {"lock", "enter"}
    BY <1>4
  <1>8. AccountsOf(t)' = s
    BY <1>0, <1>2, AccountsStay
  <1>9. Settles(t)' /\ (\A k \in DOMAIN s : Reached(t, k) => Reached(t, k)') /\ Reached(t, n)'
    <2>1. at'[t] = "resolve" \/ Resolved(t)'
      BY <1>6, <1>7 DEF Resolved
    <2>2. ASSUME NEW k \in DOMAIN s, Reached(t, k) PROVE Reached(t, k)'
      <3>1. k \in Int /\ k <= place[t]
        BY <1>1, <2>2 DEF Reached, Resolved
      <3>2. at'[t] = "resolve" => k <= place'[t]
        BY <1>1, <1>6, <1>7, <3>1
      <3> QED
        BY <2>1, <3>2 DEF Reached
    <2>3. at'[t] = "resolve" => n <= place'[t]
      BY <1>0, <1>1, <1>6, <1>7
    <2> QED
      BY <2>1, <2>2, <2>3 DEF Settles, Reached
  <1>10. LocksAreTaken(t)'
    <2>1. at'[t] \notin Ends /\ at'[t] # "rows" /\ task' = task /\ updating' = updating
      BY <1>2, <1>6, <1>7 DEF Ends
    <2>2. Takes(t) => at'[t] \in {"resolve", "enter"}
      <3>1. Takes(t) => ~Checks(t)
        BY DEF Takes, Checks
      <3> QED
        BY <1>4, <1>6, <3>1
    <2>3. \A r \in updating[t] :
            \/ \E k \in DOMAIN task[t].rows : r = task[t].rows[k]
            \/ Takes(t) /\ r = HoldRow(task[t].hold)
      BY <1>1 DEF RowsOf, LocksAreTaken
    <2> QED
      BY <2>1, <2>2, <2>3 DEF LocksAreTaken, Takes
  <1>11. SharesAreEntered(t)'
    BY <1>1, <1>2 DEF RowsOf, SharesAreEntered
  <1>12. opening \in [Transactions -> SUBSET Accounting] /\ opening'[t] = opening[t] \cup ({row} \ opened)
    BY <1>2 DEF RowsInv
  <1>13. InsertsAreResolved(t)'
    <2>1. \A r \in opening[t] : r \notin opened /\ \E k \in DOMAIN s : Reached(t, k) /\ r = s[k]
      BY <1>0, <1>1 DEF RowsOf, InsertsAreResolved
    <2>2. \A r \in opening'[t] : r \notin opened' /\ \E k \in DOMAIN s : Reached(t, k)' /\ r = s[k]
      <3> SUFFICES ASSUME NEW r \in opening'[t]
                   PROVE  r \notin opened' /\ \E k \in DOMAIN s : Reached(t, k)' /\ r = s[k]
        OBVIOUS
      <3>1. CASE r \in opening[t]
        BY <1>2, <1>9, <2>1, <3>1
      <3>2. CASE r = row /\ row \notin opened
        BY <1>0, <1>2, <1>3, <1>9, <3>2
      <3> QED
        BY <1>12, <3>1, <3>2
    <2> QED
      BY <1>8, <1>9, <2>2 DEF InsertsAreResolved
  <1>14. ResolvedAreThere(t)'
    <2>1. \A k \in DOMAIN s : k <= place[t] => s[k] \in opened \cup opening[t]
      BY <1>0, <1>1 DEF RowsOf, ResolvedAreThere, Reached
    <2>2. \A k \in DOMAIN s : k <= place[t] + 1 => s[k] \in opened' \cup opening'[t]
      BY <1>0, <1>1, <1>2, <1>12, <2>1
    <2>3. \A k \in DOMAIN s : Reached(t, k)' => k <= place[t] + 1
      <3>1. CASE at'[t] = "resolve" /\ place'[t] = place[t] + 1
        BY <3>1 DEF Reached, Resolved
      <3>2. CASE place[t] + 1 = Len(s)
        BY <1>1, <3>2
      <3>3. at'[t] = where => place[t] + 1 = Len(s)
        BY <1>1, <1>5, <1>7 DEF GoesOn, Goes
      <3> QED
        BY <1>6, <3>1, <3>2, <3>3
    <2> QED
      BY <1>8, <2>2, <2>3 DEF ResolvedAreThere
  <1>15. InTheAccounts(t)'
    <2>1. at'[t] = "resolve" => place'[t] < Len(s)
      BY <1>1, <1>6, <1>7
    <2>2. at'[t] = "enter" => place'[t] < Len(s)
      BY <1>1, <1>6
    <2> QED
      BY <1>8, <2>1, <2>2 DEF InTheAccounts
  <1>16. /\ opening' \in [Transactions -> SUBSET Accounting]
         /\ \A u \in Transactions \ {t} :
              opening'[t] \cap opening[u] = {} /\ opening'[u] = opening[u]
    BY <1>2, <1>3, <1>12 DEF RowsInv
  <1> QED
    BY <1>2, <1>6, <1>10, <1>11, <1>13, <1>14, <1>15, <1>16, RowsUnposted DEF RowsInv, RowsOf
-----------------------------------------------------------------------------
(* Locking the account, checking its balance and entering change nothing of  *)
(* what has been resolved.                                                  *)
LEMMA RowsKept ==
    ASSUME Discipline, RowsInv, NEW t \in Transactions, Resolved(t), Resolved(t)',
           UNCHANGED <<task, holds, opening, opened>>,
           place'[t] < Len(AccountsOf(t)) \/ at'[t] # "enter"
    PROVE  (InsertsAreResolved(t) /\ ResolvedAreThere(t) /\ InTheAccounts(t))'
  <1>1. AccountsOf(t)' = AccountsOf(t) /\ RowsOf(t)
    BY AccountsStay DEF RowsInv
  <1>2. Settles(t) /\ Settles(t)' /\ at'[t] # "resolve"
    BY DEF Settles, Resolved
  <1>3. \A k : Reached(t, k) /\ Reached(t, k)'
    BY DEF Reached
  <1>4. (InsertsAreResolved(t) /\ ResolvedAreThere(t))'
    BY <1>1, <1>2, <1>3 DEF RowsOf, InsertsAreResolved, ResolvedAreThere
  <1>5. InTheAccounts(t)'
    BY <1>1, <1>2 DEF InTheAccounts
  <1> QED
    BY <1>4, <1>5

LEMMA LockAccountRows ==
    ASSUME Discipline, RowsInv, NEW t \in Transactions, LockAccount(t)
    PROVE  RowsInv'
  <1>1. TransactionsTypeOK /\ at[t] = "lock" /\ Checks(t) /\ RowsOf(t)
    BY DEF Discipline, RowsInv, OnItsWay, LockAccount
  <1>2. AccountsOf(t)[1] = Available(task[t].from)
    BY <1>1, DebitedAccount
  <1>3. /\ updating' = [updating EXCEPT ![t] = @ \cup {Available(task[t].from)}]
        /\ at' = [at EXCEPT ![t] = "check"]
        /\ place' = [place EXCEPT ![t] = 0]
        /\ UNCHANGED <<holds, task, sharing, opening, opened>>
        /\ updating \in [Transactions -> SUBSET Row]
        /\ at \in [Transactions -> Statements \cup Ends]
        /\ place \in [Transactions -> Nat]
    BY <1>1, <1>2 DEF LockAccount, Goes, rowVars, settlementVars, TransactionsTypeOK
  <1>4. LocksAreTaken(t)'
    BY <1>1, <1>3 DEF RowsOf, LocksAreTaken, Takes, Checks, Ends
  <1>5. SharesAreEntered(t)'
    BY <1>1, <1>3 DEF RowsOf, SharesAreEntered
  <1>6. (InsertsAreResolved(t) /\ ResolvedAreThere(t) /\ InTheAccounts(t))'
    BY <1>1, <1>3, RowsKept DEF Resolved
  <1> QED
    BY <1>3, <1>4, <1>5, <1>6, RowsUnposted DEF RowsInv, RowsOf

LEMMA CheckBalanceRows ==
    ASSUME Discipline, RowsInv, NEW t \in Transactions, CheckBalance(t)
    PROVE  RowsInv'
  <1>1. TransactionsTypeOK /\ at[t] = "check" /\ Checks(t) /\ RowsOf(t)
    BY DEF Discipline, RowsInv, OnItsWay, CheckBalance
  <1>2. /\ at' = [at EXCEPT ![t] = "enter"]
        /\ place' = [place EXCEPT ![t] = 0]
        /\ UNCHANGED <<holds, task, updating, sharing, opening, opened>>
        /\ at \in [Transactions -> Statements \cup Ends]
        /\ place \in [Transactions -> Nat]
    BY <1>1 DEF CheckBalance, Goes, lockVars, rowVars, settlementVars, TransactionsTypeOK
  <1>3. LocksAreTaken(t)'
    BY <1>1, <1>2 DEF RowsOf, LocksAreTaken, Takes, Checks, Ends
  <1>4. SharesAreEntered(t)'
    BY <1>1, <1>2 DEF RowsOf, SharesAreEntered
  <1>5. 0 < Len(AccountsOf(t))
    <2>1. PICK s : s = AccountsOf(t)
      OBVIOUS
    <2>2. s \in Seq(Accounting) /\ s # <<>>
      BY <1>1, <2>1, AccountsKnown DEF Settles, Resolved
    <2> QED
      BY <2>1, <2>2
  <1>6. (InsertsAreResolved(t) /\ ResolvedAreThere(t) /\ InTheAccounts(t))'
    BY <1>1, <1>2, <1>5, RowsKept DEF Resolved
  <1> QED
    BY <1>2, <1>3, <1>4, <1>6, RowsUnposted DEF RowsInv, RowsOf

LEMMA EnterRows ==
    ASSUME Discipline, RowsInv, NEW t \in Transactions, Enter(t)
    PROVE  RowsInv'
  <1>0. PICK s, row : s = AccountsOf(t) /\ row = s[place[t] + 1]
    OBVIOUS
  <1>1. /\ TransactionsTypeOK /\ at[t] = "enter" /\ RowsOf(t) /\ Resolved(t)
        /\ place[t] \in Nat /\ place[t] < Len(s) /\ s \in Seq(Accounting)
    BY <1>0, AccountsKnown DEF Discipline, RowsInv, RowsOf, InTheAccounts, Settles, Resolved,
                               TransactionsTypeOK, Enter
  <1>2. /\ sharing' = [sharing EXCEPT ![t] = @ \cup {row}]
        /\ GoesOn(t, s, "commit")
        /\ UNCHANGED <<holds, task, updating, opening, opened>>
    BY <1>0 DEF Enter, rowVars, settlementVars
  <1>3. row \in Accounting /\ "commit" \in Statements
    BY <1>0, <1>1 DEF Statements
  <1>4. /\ \A u \in Transactions \ {t} : at'[u] = at[u] /\ place'[u] = place[u]
        /\ \/ at'[t] = "commit" /\ place'[t] = 0
           \/ at'[t] = "enter" /\ place'[t] = place[t] + 1 /\ place[t] + 1 # Len(s)
    BY <1>1, <1>2, <1>3, GoingOn
  <1>5. LocksAreTaken(t)'
    <2>1. at'[t] \in {"enter", "commit"} /\ task' = task /\ updating' = updating
      BY <1>2, <1>4
    <2> QED
      BY <1>1, <2>1 DEF RowsOf, LocksAreTaken, Takes, Checks, Ends
  <1>6. SharesAreEntered(t)'
    BY <1>4 DEF SharesAreEntered
  <1>7. at'[t] = "enter" => place'[t] < Len(AccountsOf(t))
    BY <1>0, <1>1, <1>4
  <1>8. (InsertsAreResolved(t) /\ ResolvedAreThere(t) /\ InTheAccounts(t))'
    BY <1>1, <1>2, <1>4, <1>7, RowsKept DEF Resolved
  <1>9. sharing' \in [Transactions -> SUBSET Accounting]
    BY <1>2, <1>3 DEF RowsInv
  <1> QED
    BY <1>2, <1>4, <1>5, <1>6, <1>8, <1>9, RowsUnposted DEF RowsInv, RowsOf

(* The end of a transaction, which may commit the rows it has inserted.      *)
LEMMA EndedRows ==
    ASSUME Discipline, RowsInv, NEW t \in Transactions, NEW how \in Ends,
           Ended(t, how), task' = task,
           opened' = opened \/ opened' = opened \cup opening[t],
           \A h \in DOMAIN holds : h \in DOMAIN holds' /\ holds'[h].account = holds[h].account,
           HoldersHaveAccounts'
    PROVE  RowsInv'
  <1>1. /\ at' = [at EXCEPT ![t] = how]
        /\ place' = [place EXCEPT ![t] = 0]
        /\ updating' = [updating EXCEPT ![t] = {}]
        /\ sharing' = [sharing EXCEPT ![t] = {}]
        /\ opening' = [opening EXCEPT ![t] = {}]
    BY DEF Ended, Goes
  <1>2. /\ at \in [Transactions -> Statements \cup Ends]
        /\ place \in [Transactions -> Nat]
        /\ updating \in [Transactions -> SUBSET Row]
        /\ sharing \in [Transactions -> SUBSET Accounting]
        /\ opening \in [Transactions -> SUBSET Accounting]
        /\ TransactionsTypeOK
    BY DEF Discipline, TransactionsTypeOK, RowsInv
  <1>3. RowsOf(t)'
    <2>1. /\ at'[t] = how /\ updating'[t] = {} /\ sharing'[t] = {} /\ opening'[t] = {}
          /\ at'[t] \notin Statements
      BY <1>1, <1>2 DEF Ends, Statements
    <2>2. ~Settles(t)'
      BY <2>1 DEF Settles, Resolved, Statements
    <2>3. (LocksAreTaken(t) /\ SharesAreEntered(t))'
      BY <2>1 DEF LocksAreTaken, SharesAreEntered
    <2>4. (InsertsAreResolved(t) /\ ResolvedAreThere(t) /\ InTheAccounts(t))'
      BY <2>1, <2>2 DEF InsertsAreResolved, ResolvedAreThere, InTheAccounts, Statements
    <2> QED
      BY <2>3, <2>4 DEF RowsOf
  <1>4. ASSUME NEW u \in Transactions, u # t PROVE RowsOf(u)'
    <2>1. /\ at'[u] = at[u] /\ place'[u] = place[u] /\ updating'[u] = updating[u]
          /\ sharing'[u] = sharing[u] /\ opening'[u] = opening[u]
      BY <1>1, <1>2, <1>4
    <2>2. RowsOf(u) /\ OnItsWay(u) /\ StillTrue(u) /\ opening[t] \cap opening[u] = {}
      BY <1>4 DEF RowsInv, Discipline
    <2>3. (LocksAreTaken(u) /\ SharesAreEntered(u))'
      BY <2>1, <2>2 DEF RowsOf, LocksAreTaken, SharesAreEntered, Takes, Checks
    <2>4. Settles(u) => AccountsOf(u)' = AccountsOf(u)
      <3> SUFFICES ASSUME Settles(u) PROVE AccountsOf(u)' = AccountsOf(u)
        OBVIOUS
      <3>1. CASE Takes(u)
        <4>1. ~Checks(u)
          BY <3>1 DEF Takes, Checks
        <4>2. at[u] \in {"resolve", "enter", "commit"}
          BY <2>2, <4>1 DEF OnItsWay, Settles, Resolved
        <4>3. task[u].hold \in DOMAIN holds
          BY <2>2, <3>1, <4>2 DEF StillTrue, Settleable
        <4>4. HoldOf(u).account' = HoldOf(u).account
          BY <4>3 DEF HoldOf
        <4> QED
          BY <4>4 DEF AccountsOf, TargetsOf, Target
      <3>2. CASE ~Takes(u)
        BY <1>2, <3>2, TaskShape DEF AccountsOf, Takes
      <3> QED
        BY <3>1, <3>2
    <2>5. (Settles(u)' <=> Settles(u)) /\ \A k : Reached(u, k)' <=> Reached(u, k)
      BY <2>1 DEF Settles, Resolved, Reached
    <2>6. InsertsAreResolved(u)'
      BY <2>1, <2>2, <2>4, <2>5 DEF RowsOf, InsertsAreResolved
    <2>7. ResolvedAreThere(u)'
      BY <2>1, <2>2, <2>4, <2>5 DEF RowsOf, ResolvedAreThere
    <2>8. InTheAccounts(u)'
      BY <2>1, <2>2, <2>4 DEF RowsOf, InTheAccounts, Settles, Resolved
    <2> QED
      BY <2>3, <2>6, <2>7, <2>8 DEF RowsOf
  <1>5. ASSUME NEW u \in Transactions, NEW v \in Transactions, u # v
        PROVE  opening'[u] \cap opening'[v] = {}
    BY <1>1, <1>2, <1>5 DEF RowsInv
  <1>6. /\ sharing' \in [Transactions -> SUBSET Accounting]
        /\ opening' \in [Transactions -> SUBSET Accounting]
        /\ (OpeningAccounts \subseteq opened)'
    BY <1>1, <1>2 DEF RowsInv
  <1> QED
    BY <1>3, <1>4, <1>5, <1>6 DEF RowsInv

LEMMA RolledBackRows ==
    ASSUME Discipline, RowsInv, NEW t \in Transactions,
           AnswerAgain(t) \/ Throw(t) \/ Refuse(t) \/ BreakCircle(t) \/ Abort(t)
    PROVE  RowsInv'
  <1>1. PICK how \in Ends : Ended(t, how)
    BY DEF AnswerAgain, Throw, Refuse, BreakCircle, Abort, RolledBack, Ends
  <1>2. UNCHANGED <<task, holds>> /\ (opened' = opened \/ opened' = opened \cup opening[t])
    BY DEF AnswerAgain, Throw, Refuse, BreakCircle, Abort, RolledBack, settlementVars
  <1>3. HoldersHaveAccounts'
    BY <1>2 DEF RowsInv, HoldersHaveAccounts
  <1> QED
    BY <1>1, <1>2, <1>3, EndedRows

LEMMA CommitRows ==
    ASSUME Discipline, RowsInv, NEW t \in Transactions, Commit(t)
    PROVE  RowsInv'
  <1>1. /\ TransactionsTypeOK /\ at[t] = "commit" /\ RowsOf(t) /\ HoldersHaveAccounts
        /\ Ended(t, "done") /\ "done" \in Ends
        /\ task' = task /\ opened' = opened \cup opening[t]
    BY DEF Discipline, RowsInv, Commit, Ends
  <1>2. CASE task[t].op = "hold"
    <2> DEFINE a == task[t].from
    <2>1. holds' = Insert(holds, task[t].hold, [status |-> "HELD", account |-> a,
                                                amount |-> task[t].amount])
          /\ task[t].hold \notin DOMAIN holds
      BY <1>2, CommitIsASettlement DEF Hold
    <2>2. \A h \in DOMAIN holds : h \in DOMAIN holds' /\ holds'[h].account = holds[h].account
      BY <2>1 DEF Insert
    <2>3. \A h \in DOMAIN holds' : h \in DOMAIN holds \/ holds'[h].account = a
      BY <2>1 DEF Insert
    <2>4. {Available(a), Held(a)} \subseteq opened'
      <3>1. PICK s, x, y : s = AccountsOf(t) /\ x = Available(a) /\ y = Held(a)
        OBVIOUS
      <3>2. s = <<x, y>>
        BY <1>2, <3>1 DEF AccountsOf
      <3>3. Settles(t) /\ \A k : Reached(t, k)
        BY <1>1 DEF Settles, Resolved, Reached
      <3>4. \A k \in DOMAIN s : s[k] \in opened'
        BY <1>1, <3>1, <3>3 DEF RowsOf, ResolvedAreThere
      <3>5. x \in opened' /\ y \in opened'
        BY ONLY <3>2, <3>4
      <3> QED
        BY <3>1, <3>5
    <2>5. HoldersHaveAccounts'
      BY <1>1, <2>2, <2>3, <2>4 DEF HoldersHaveAccounts
    <2> QED
      BY <1>1, <2>2, <2>5, EndedRows
  <1>3. CASE task[t].op # "hold"
    <2>1. /\ DOMAIN holds' = DOMAIN holds
          /\ \A h \in DOMAIN holds : holds'[h].account = holds[h].account
      <3>1. CASE task[t].op = "transfer"
        BY <3>1, CommitIsASettlement DEF Transfer
      <3>2. CASE Takes(t)
        <4>1. /\ task[t].hold \in DOMAIN holds
              /\ \E status \in {"RELEASED", "REFUNDED"} :
                   holds' = [holds EXCEPT ![task[t].hold].status = status]
          BY <3>2, CommitIsASettlement DEF Takes, Settleable, HoldOf, ReleaseHold, RefundHold
        <4>2. PICK status : holds' = [holds EXCEPT ![task[t].hold].status = status]
          BY <4>1
        <4>3. \A h \in DOMAIN holds : holds[h] \in FundsHold
          BY <1>1 DEF TransactionsTypeOK, SettlementTypeOK, IsTable
        <4> QED
          BY <4>1, <4>2, <4>3 DEF FundsHold
      <3> QED
        BY <1>1, <1>3, <3>1, <3>2, TaskShape DEF Takes
    <2>2. HoldersHaveAccounts'
      BY <1>1, <2>1 DEF HoldersHaveAccounts
    <2> QED
      BY <1>1, <2>1, <2>2, EndedRows
  <1> QED
    BY <1>2, <1>3

LEMMA RowsStep ==
    Discipline /\ RowsInv /\ [TransactionsNext]_vars => RowsInv'
  <1> SUFFICES ASSUME Discipline, RowsInv, [TransactionsNext]_vars
               PROVE  RowsInv'
    OBVIOUS
  <1>1. CASE UNCHANGED vars
    <2>1. /\ UNCHANGED <<task, holds, opened>>
          /\ UNCHANGED <<at, place, updating, sharing, opening>>
      BY <1>1 DEF vars, lockVars, rowVars, settlementVars
    <2>2. ASSUME NEW t \in Transactions PROVE RowsOf(t)'
      <3>1. RowsOf(t) /\ AccountsOf(t)' = AccountsOf(t)
        BY <2>1, AccountsStay DEF RowsInv
      <3>2. (LocksAreTaken(t) /\ SharesAreEntered(t))'
        BY <2>1, <3>1 DEF RowsOf, LocksAreTaken, SharesAreEntered, Takes, Checks
      <3>3. (InsertsAreResolved(t) /\ ResolvedAreThere(t) /\ InTheAccounts(t))'
        BY <2>1, <3>1 DEF RowsOf, InsertsAreResolved, ResolvedAreThere, InTheAccounts,
                          Settles, Resolved, Reached
      <3> QED
        BY <3>2, <3>3 DEF RowsOf
    <2> QED
      BY <2>1, <2>2 DEF RowsInv, HoldersHaveAccounts
  <1>2. ASSUME NEW t \in Transactions, Statement(t) \/ BreakCircle(t) \/ Abort(t)
        PROVE  RowsInv'
    <2>1. CASE AnswerAgain(t) \/ Throw(t) \/ Refuse(t) \/ BreakCircle(t) \/ Abort(t)
      BY <2>1, RolledBackRows
    <2> QED
      BY <1>2, <2>1, LockRowRows, LockHoldRows, ReadHoldRows, ResolveRows, LockAccountRows,
         CheckBalanceRows, EnterRows, CommitRows DEF Statement
  <1> QED
    BY <1>1, <1>2 DEF TransactionsNext
-----------------------------------------------------------------------------
(* Who may keep a row from another transaction.                             *)
LEMMA LockedRows ==
    ASSUME Discipline, RowsInv, NEW u \in Transactions, NEW row \in updating[u]
    PROVE  /\ row \in Accounting => /\ at[u] \in {"check", "enter", "commit"} /\ Checks(u)
                                    /\ row = Available(task[u].from)
           /\ \A h : row = HoldRow(h) => at[u] \in {"read", "resolve", "enter", "commit"}
           /\ \A i : row = ListingRow(i) \/ row = SaleRow(i) => at[u] \notin Ends \cup {"rows"}
           /\ \A l : row = LoanRow(l) => at[u] \notin Ends /\ (at[u] = "rows" => place[u] = 1)
  <1>1. /\ TransactionsTypeOK /\ OnItsWay(u) /\ LocksAreTaken(u) /\ place[u] \in Nat
        /\ LocksRows(task[u].rows)
    BY TaskShape DEF Discipline, RowsInv, RowsOf, TransactionsTypeOK
  <1>2. at[u] \notin Ends
    BY <1>1 DEF LocksAreTaken
  <1>3. CASE \E k \in DOMAIN task[u].rows :
               row = task[u].rows[k] /\ (at[u] = "rows" => k <= place[u])
    <2>1. PICK k \in DOMAIN task[u].rows : row = task[u].rows[k] /\ (at[u] = "rows" => k <= place[u])
      BY <1>3
    <2>2. PICK rows, n : rows = task[u].rows /\ n = place[u]
      OBVIOUS
    <2>3. at[u] = "rows" => n < Len(rows)
      BY <1>1, <2>2 DEF OnItsWay
    <2>4. k \in DOMAIN rows /\ row = rows[k] /\ (at[u] = "rows" => k <= n) /\ n \in Nat
      BY <1>1, <2>1, <2>2
    <2>5. rows # <<>>
      BY <2>4
    <2>6. ASSUME NEW x, rows = <<x>> PROVE row = x /\ at[u] # "rows"
      <3>1. k = 1 /\ row = x /\ Len(rows) = 1
        BY <2>4, <2>6
      <3> QED
        BY <2>3, <2>4, <3>1
    <2>7. ASSUME NEW x, NEW y, rows = <<x, y>>
          PROVE  \/ row = x /\ (at[u] = "rows" => n = 1)
                 \/ row = y /\ at[u] # "rows"
      <3>1. DOMAIN rows = 1 .. 2 /\ rows[1] = x /\ rows[2] = y /\ Len(rows) = 2
        BY ONLY <2>7
      <3>2. k = 1 \/ k = 2
        BY ONLY <2>4, <3>1
      <3>3. at[u] = "rows" => n < 2 /\ k <= n /\ n \in Nat
        BY <2>3, <2>4, <3>1
      <3>4. CASE k = 1
        <4>1. row = x
          BY <2>4, <3>1, <3>4
        <4>2. at[u] = "rows" => n = 1
          BY ONLY <3>3, <3>4
        <4> QED
          BY <4>1, <4>2
      <3>5. CASE k = 2
        <4>1. row = y
          BY <2>4, <3>1, <3>5
        <4>2. at[u] # "rows"
          BY ONLY <3>3, <3>5
        <4> QED
          BY <4>1, <4>2
      <3> QED
        BY <3>2, <3>4, <3>5
    <2>8. \/ \E i : row = ListingRow(i) /\ at[u] # "rows"
          \/ \E l : row = SaleRow(l) /\ at[u] # "rows"
          \/ \E l : row = LoanRow(l) /\ (at[u] = "rows" => n = 1)
      <3>1. LocksRows(rows)
        BY <1>1, <2>2
      <3>2. CASE \E i \in Listings : rows = <<ListingRow(i)>>
        BY <2>6, <3>2
      <3>3. CASE \E l \in Loans : rows = <<LoanRow(l)>> \/ rows = <<SaleRow(l)>>
        BY <2>6, <3>3
      <3>4. CASE \E l \in Loans : rows = <<LoanRow(l), SaleRow(l)>>
        BY <2>7, <3>4
      <3> QED
        BY <2>5, <3>1, <3>2, <3>3, <3>4 DEF LocksRows
    <2>9. row \notin Accounting /\ \A h : row # HoldRow(h)
      BY <2>8 DEF Accounting, Available, Held, HoldRow, ListingRow, SaleRow, LoanRow
    <2> QED
      BY <1>2, <2>2, <2>8, <2>9 DEF ListingRow, SaleRow, LoanRow
  <1>4. CASE Takes(u) /\ row = HoldRow(task[u].hold) /\ at[u] \in {"read", "resolve", "enter", "commit"}
    BY <1>4 DEF Accounting, Available, Held, HoldRow, ListingRow, SaleRow, LoanRow
  <1>5. CASE Checks(u) /\ row = Available(task[u].from) /\ at[u] \in {"check", "enter", "commit"}
    BY <1>5 DEF Available, HoldRow, ListingRow, SaleRow, LoanRow
  <1> QED
    BY <1>1, <1>3, <1>4, <1>5 DEF LocksAreTaken

NextAccount(t) == AccountsOf(t)[place[t] + 1]

LEMMA InsertedRows ==
    ASSUME Discipline, RowsInv, Available("float") \in opened,
           NEW u \in Transactions, NEW row \in opening[u]
    PROVE  /\ row \notin opened /\ row \in Accounting
           /\ \/ Resolved(u)
              \/ /\ at[u] = "resolve"
                 /\ NextAccount(u) \in opened \/ Rank(row) < Rank(NextAccount(u))
  <1>1. /\ RowsOf(u) /\ row \notin opened /\ row \in Accounting /\ Settles(u)
        /\ place[u] \in Nat
    BY DEF RowsInv, RowsOf, InsertsAreResolved, Discipline, TransactionsTypeOK
  <1>2. CASE at[u] = "resolve"
    <2>1. PICK s, n : s = AccountsOf(u) /\ n = place[u] + 1
      OBVIOUS
    <2>2. PICK k \in DOMAIN s : Reached(u, k) /\ row = s[k]
      BY <1>1, <2>1 DEF RowsOf, InsertsAreResolved
    <2>3. s \in Seq(Accounting) /\ Ranked(s, opened, 0, 5)
      BY <1>1, <2>1, AccountsKnown
    <2>4. k < n /\ n \in DOMAIN s
      <3>1. k <= place[u]
        BY <1>2, <2>2 DEF Reached, Resolved
      <3>2. place[u] < Len(s)
        BY <1>1, <1>2, <2>1 DEF RowsOf, InTheAccounts
      <3> QED
        BY <1>1, <2>1, <2>3, <3>1, <3>2
    <2>5. s[n] \notin opened => Rank(row) < Rank(s[n])
      BY <1>1, <2>2, <2>3, <2>4 DEF Ranked
    <2> QED
      BY <1>1, <1>2, <2>1, <2>5 DEF NextAccount
  <1> QED
    BY <1>1, <1>2 DEF Settles

Checking == {u \in Transactions : at[u] \in {"check", "enter", "commit"}}

LEMMA NobodyWaits ==
    ASSUME NEW t, at[t] \notin {"rows", "hold", "resolve", "lock", "enter"}
    PROVE  WaitsFor(t) = {}
  BY DEF WaitsFor

LEMMA EnteringWaits ==
    ASSUME Discipline, RowsInv, NEW t \in Transactions, at[t] = "enter"
    PROVE  /\ NextAccount(t) \in Accounting
           /\ \A u \in WaitsFor(t) : /\ u \in Checking /\ Checks(u) /\ u # t
                                     /\ NextAccount(t) = Available(task[u].from)
                                     /\ NextAccount(t) \in updating[u]
  <1>1. PICK s, row, n : s = AccountsOf(t) /\ n = place[t] + 1 /\ row = s[n]
    OBVIOUS
  <1>2. s \in Seq(Accounting) /\ place[t] \in Nat /\ place[t] < Len(s)
    BY <1>1, AccountsKnown DEF Settles, Resolved, Discipline, TransactionsTypeOK, RowsInv, RowsOf,
                               InTheAccounts
  <1>3. row \in Accounting /\ row = NextAccount(t)
    BY <1>1, <1>2 DEF NextAccount
  <1>4. WaitsFor(t) = {u \in Transactions \ {t} : row \in updating[u]}
    BY <1>1 DEF WaitsFor, BlocksShare, Others
  <1> QED
    BY <1>3, <1>4, LockedRows DEF Checking

LEMMA LockingWaits ==
    ASSUME Discipline, RowsInv, NEW t \in Transactions, at[t] = "lock"
    PROVE  WaitsFor(t) \subseteq Checking
  <1>1. TransactionsTypeOK /\ Checks(t)
    BY DEF Discipline, OnItsWay
  <1>2. PICK row : row = AccountsOf(t)[1]
    OBVIOUS
  <1>3. row \in Accounting
    BY <1>1, <1>2, DebitedAccount, Ranks
  <1>4. WaitsFor(t) = {u \in Transactions \ {t} : row \in updating[u] \cup sharing[u]}
    BY <1>2 DEF WaitsFor, BlocksUpdate, Others
  <1>5. \A u \in Transactions : row \in updating[u] => u \in Checking
    BY <1>3, LockedRows DEF Checking
  <1>6. \A u \in Transactions : row \in sharing[u] => u \in Checking
    BY DEF RowsInv, RowsOf, SharesAreEntered, Checking
  <1> QED
    BY <1>4, <1>5, <1>6

LEMMA CheckingClosed ==
    ASSUME Discipline, RowsInv, NEW t \in Checking
    PROVE  WaitsFor(t) \subseteq Checking
  <1>1. CASE at[t] = "enter"
    BY <1>1, EnteringWaits DEF Checking
  <1>2. CASE at[t] # "enter"
    BY <1>2, NobodyWaits DEF Checking
  <1> QED
    BY <1>1, <1>2

LEMMA ResolvingWaits ==
    ASSUME Discipline, RowsInv, Available("float") \in opened,
           NEW t \in Transactions, at[t] = "resolve", NEW u \in WaitsFor(t)
    PROVE  /\ u \in Transactions /\ NextAccount(t) \notin opened /\ NextAccount(t) \in Accounting
           /\ \/ Resolved(u)
              \/ /\ at[u] = "resolve"
                 /\ NextAccount(u) \in opened \/ Rank(NextAccount(t)) < Rank(NextAccount(u))
  <1>1. PICK row : row = NextAccount(t)
    OBVIOUS
  <1>2. WaitsFor(t) = {v \in Transactions \ {t} : row \in opening[v]}
    BY <1>1 DEF WaitsFor, BlocksInsert, Others, NextAccount
  <1>3. u \in Transactions /\ row \in opening[u]
    BY <1>2
  <1> QED
    BY <1>1, <1>3, InsertedRows

LEMMA HoldingWaits ==
    ASSUME Discipline, RowsInv, NEW t \in Transactions, at[t] = "hold"
    PROVE  WaitsFor(t) \subseteq {u \in Transactions : at[u] \in {"read", "resolve", "enter", "commit"}}
  <1>1. PICK h : h = task[t].hold
    OBVIOUS
  <1>2. WaitsFor(t) = {u \in Transactions \ {t} : HoldRow(h) \in updating[u] \cup sharing[u]}
    BY <1>1 DEF WaitsFor, BlocksUpdate, Others
  <1>3. \A u \in Transactions : HoldRow(h) \notin sharing[u]
    BY DEF RowsInv, Accounting, Available, Held, HoldRow
  <1>4. \A u \in Transactions : HoldRow(h) \in updating[u] =>
           at[u] \in {"read", "resolve", "enter", "commit"}
    BY LockedRows
  <1> QED
    BY <1>2, <1>3, <1>4

LEMMA RowWaits ==
    ASSUME Discipline, RowsInv, NEW t \in Transactions, at[t] = "rows", NEW u \in WaitsFor(t)
    PROVE  /\ u \in Transactions /\ at[u] \notin Ends
           /\ at[u] = "rows" => place[t] = 0 /\ place[u] = 1
  <1>1. PICK rows, n, row : rows = task[t].rows /\ n = place[t] /\ row = rows[n + 1]
    OBVIOUS
  <1>2. n \in Nat /\ n < Len(rows) /\ LocksRows(rows)
    BY <1>1, TaskShape DEF Discipline, TransactionsTypeOK, OnItsWay
  <1>3. WaitsFor(t) = {v \in Transactions \ {t} : row \in updating[v] \cup sharing[v]}
    BY <1>1 DEF WaitsFor, BlocksUpdate, Others
  <1>4. \/ \E i : row = ListingRow(i) \/ row = SaleRow(i)
        \/ n = 0 /\ \E l : row = LoanRow(l)
    <2>1. ASSUME NEW x, rows = <<x>> PROVE n = 0 /\ row = x
      <3>1. n = 0
        BY <1>2, <2>1
      <3> QED
        BY <1>1, <2>1, <3>1
    <2>2. ASSUME NEW x, NEW y, rows = <<x, y>> PROVE (n = 0 /\ row = x) \/ row = y
      <3>1. n = 0 \/ n = 1
        BY <1>2, <2>2
      <3> QED
        BY <1>1, <2>2, <3>1
    <2>3. rows # <<>>
      BY <1>2
    <2>4. CASE \E i \in Listings : rows = <<ListingRow(i)>>
      BY <2>1, <2>4
    <2>5. CASE \E l \in Loans : rows = <<LoanRow(l)>> \/ rows = <<SaleRow(l)>>
      BY <2>1, <2>5
    <2>6. CASE \E l \in Loans : rows = <<LoanRow(l), SaleRow(l)>>
      BY <2>2, <2>6
    <2> QED
      BY <1>2, <2>3, <2>4, <2>5, <2>6 DEF LocksRows
  <1>5. u \in Transactions /\ row \in updating[u]
    <2>1. row \notin Accounting
      BY <1>4 DEF Accounting, Available, Held, ListingRow, SaleRow, LoanRow
    <2>2. u \in Transactions /\ row \in updating[u] \cup sharing[u]
      BY <1>3
    <2> QED
      BY <2>1, <2>2 DEF RowsInv
  <1>6. /\ \A i : row = ListingRow(i) \/ row = SaleRow(i) => at[u] \notin Ends \cup {"rows"}
        /\ \A l : row = LoanRow(l) => at[u] \notin Ends /\ (at[u] = "rows" => place[u] = 1)
    BY <1>5, LockedRows
  <1> QED
    BY <1>1, <1>4, <1>5, <1>6
-----------------------------------------------------------------------------
(* Whoever is outside a set that holds what it waits for, and what its       *)
(* members wait for, is in no circle.                                       *)
LEMMA OutOfCircles ==
    ASSUME NEW t, NEW S \in SUBSET Transactions, t \notin S,
           WaitsFor(t) \subseteq S, \A u \in S : WaitsFor(u) \subseteq S
    PROVE  ~InCircle(t)
  BY DEF InCircle

LEMMA EnteringCircles ==
    ASSUME Discipline, RowsInv, NEW t \in Transactions, at[t] = "enter", ~MovesBetweenMembers(t)
    PROVE  ~InCircle(t)
  <1> DEFINE row == NextAccount(t)
  <1>1. /\ TransactionsTypeOK /\ row \in Accounting
        /\ \A u \in WaitsFor(t) : /\ u \in Checking /\ Checks(u) /\ u # t
                                  /\ row = Available(task[u].from) /\ row \in updating[u]
    BY EnteringWaits DEF Discipline
  <1>2. CASE ~Checks(t)
    <2>1. PICK S : S = {u \in Checking : Checks(u)}
      OBVIOUS
    <2>2. S \in SUBSET Transactions /\ t \notin S /\ WaitsFor(t) \subseteq S
      BY <1>1, <1>2, <2>1 DEF Checking
    <2>3. ASSUME NEW u \in S PROVE WaitsFor(u) \subseteq S
      <3>1. u \in Transactions /\ at[u] \in {"check", "enter", "commit"}
        BY <2>1 DEF Checking
      <3>2. CASE at[u] = "enter"
        BY <2>1, <3>1, <3>2, EnteringWaits
      <3>3. CASE at[u] # "enter"
        BY <3>1, <3>3, NobodyWaits
      <3> QED
        BY <3>2, <3>3
    <2> QED
      BY <2>2, <2>3, OutOfCircles
  <1>3. CASE Checks(t)
    <2>1. Available(task[t].from) \in updating[t]
      BY <1>3 DEF Discipline, HasLocked
    <2>2. \/ row = Available(task[t].from)
          \/ \E a : row = Held(a)
          \/ row = Available("float")
      <3>1. PICK s, n : s = AccountsOf(t) /\ n = place[t] + 1
        OBVIOUS
      <3>2. n = 1 \/ n = 2
        <4>1. PICK x, y : s = <<x, y>>
          BY <1>3, <3>1 DEF Checks, AccountsOf
        <4>2. place[t] \in Nat /\ place[t] < Len(s)
          BY <1>1, <3>1 DEF TransactionsTypeOK, RowsInv, RowsOf, InTheAccounts
        <4>3. Len(s) = 2
          BY ONLY <4>1
        <4> QED
          BY <3>1, <4>2, <4>3
      <3>3. CASE task[t].op = "hold"
        <4>1. PICK x, y : x = Available(task[t].from) /\ y = Held(task[t].from)
          OBVIOUS
        <4>2. s = <<x, y>>
          BY <3>1, <3>3, <4>1 DEF AccountsOf
        <4>3. s[n] = x \/ s[n] = y
          BY ONLY <3>2, <4>2
        <4> QED
          BY <3>1, <4>1, <4>3 DEF NextAccount
      <3>4. CASE task[t].op = "transfer" /\ task[t].from # "float"
        <4>1. task[t].to = "float"
          BY <1>1, <3>4, TaskShape DEF Moves, MovesBetweenMembers
        <4>2. PICK x, y : x = Available(task[t].from) /\ y = Available("float")
          OBVIOUS
        <4>3. s = <<x, y>>
          BY <3>1, <3>4, <4>1, <4>2 DEF AccountsOf
        <4>4. s[n] = x \/ s[n] = y
          BY ONLY <3>2, <4>3
        <4> QED
          BY <3>1, <4>2, <4>4 DEF NextAccount
      <3> QED
        BY <1>3, <3>3, <3>4 DEF Checks
    <2>3. ASSUME NEW u \in WaitsFor(t) PROVE FALSE
      <3>1. /\ u \in Transactions /\ Checks(u) /\ u # t /\ row \in updating[u]
            /\ row = Available(task[u].from)
        BY <1>1 DEF Checking
      <3>2. task[u].from # "float"
        BY <1>1, <3>1, DebitedAccount
      <3>3. row = Available(task[t].from)
        BY <2>2, <3>1, <3>2 DEF Available, Held
      <3> QED
        BY <2>1, <3>1, <3>3 DEF Discipline, Exclusive
    <2> QED
      BY <2>3, OutOfCircles
  <1> QED
    BY <1>2, <1>3

LEMMA ResolvingCircles ==
    ASSUME Discipline, RowsInv, Available("float") \in opened,
           NEW t \in Transactions, at[t] = "resolve"
    PROVE  ~InCircle(t)
  <1>1. PICK n : n = Rank(NextAccount(t))
    OBVIOUS
  <1>2. PICK S : S = {u \in Transactions :
                        \/ Resolved(u)
                        \/ /\ at[u] = "resolve"
                           /\ NextAccount(u) \in opened \/ n < Rank(NextAccount(u))}
    OBVIOUS
  <1>3. CASE WaitsFor(t) = {}
    BY <1>3, OutOfCircles
  <1>4. CASE WaitsFor(t) # {}
    <2>1. NextAccount(t) \notin opened /\ NextAccount(t) \in Accounting
      BY <1>4, ResolvingWaits
    <2>2. n \in Int
      BY <1>1, <2>1, Ranks
    <2>3. t \notin S
      BY <1>1, <1>2, <2>1, <2>2 DEF Resolved
    <2>4. WaitsFor(t) \subseteq S
      BY <1>1, <1>2, ResolvingWaits
    <2>5. ASSUME NEW u \in S PROVE WaitsFor(u) \subseteq S
      <3>1. u \in Transactions /\ (Resolved(u) \/ at[u] = "resolve")
        BY <1>2
      <3>2. Checking \subseteq S
        BY <1>2 DEF Checking, Resolved
      <3>3. CASE at[u] = "lock"
        BY <3>1, <3>2, <3>3, LockingWaits
      <3>4. CASE at[u] \in {"check", "enter", "commit"}
        BY <3>1, <3>2, <3>4, CheckingClosed DEF Checking
      <3>5. CASE at[u] = "resolve"
        <4> SUFFICES ASSUME NEW v \in WaitsFor(u) PROVE v \in S
          OBVIOUS
        <4>1. PICK x, y : x = NextAccount(u) /\ y = NextAccount(v)
          OBVIOUS
        <4>2. /\ v \in Transactions /\ x \notin opened /\ x \in Accounting
              /\ \/ Resolved(v)
                 \/ at[v] = "resolve" /\ (y \in opened \/ Rank(x) < Rank(y))
          BY <3>1, <3>5, <4>1, ResolvingWaits
        <4>3. n < Rank(x)
          BY <1>2, <3>5, <4>1, <4>2 DEF Resolved
        <4>4. Rank(x) \in Int /\ Rank(y) \in Int
          BY DEF Rank
        <4>5. Rank(x) < Rank(y) => n < Rank(y)
          BY ONLY <2>2, <4>3, <4>4
        <4> QED
          BY <1>2, <4>1, <4>2, <4>5
      <3> QED
        BY <3>1, <3>3, <3>4, <3>5 DEF Resolved
    <2> QED
      BY <1>2, <2>3, <2>4, <2>5, OutOfCircles
  <1> QED
    BY <1>3, <1>4

(* Whoever is past its row locks waits for others who are.                  *)
LEMMA PastRowsClosed ==
    ASSUME Discipline, RowsInv, Available("float") \in opened, NEW t \in Transactions
    PROVE  /\ at[t] \in {"read", "resolve", "lock", "check", "enter", "commit"} =>
                \A u \in WaitsFor(t) : /\ u \in Transactions
                                       /\ at[u] \in {"resolve", "lock", "check", "enter", "commit"}
           /\ at[t] = "hold" =>
                \A u \in WaitsFor(t) : /\ u \in Transactions
                                       /\ at[u] \in {"read", "resolve", "enter", "commit"}
  <1>1. CASE at[t] = "resolve"
    BY <1>1, ResolvingWaits DEF Resolved
  <1>2. CASE at[t] = "lock"
    BY <1>2, LockingWaits DEF Checking
  <1>3. CASE at[t] \in {"check", "enter", "commit"}
    BY <1>3, CheckingClosed DEF Checking
  <1>4. CASE at[t] = "read"
    BY <1>4, NobodyWaits
  <1>5. CASE at[t] = "hold"
    BY <1>5, HoldingWaits
  <1> QED
    BY <1>1, <1>2, <1>3, <1>4, <1>5

LEMMA LockingCircles ==
    ASSUME Discipline, RowsInv, Available("float") \in opened,
           NEW t \in Transactions, at[t] \in {"rows", "hold", "lock"}
    PROVE  ~InCircle(t)
  <1> DEFINE Later == {u \in Transactions :
                         at[u] \in {"read", "resolve", "lock", "check", "enter", "commit"}}
             Past == {u \in Transactions : at[u] = "hold"} \cup Later
             Second == {u \in Transactions : at[u] = "rows" /\ place[u] = 1} \cup Past
  <1>1. \A u \in Later : WaitsFor(u) \subseteq Later
    BY PastRowsClosed
  <1>2. \A u \in Past : WaitsFor(u) \subseteq Past
    <2>1. \A u \in Transactions : at[u] = "hold" => WaitsFor(u) \subseteq Later
      BY PastRowsClosed
    <2> QED
      BY <1>1, <2>1
  <1>3. ASSUME NEW u \in Transactions, at[u] = "rows"
        PROVE  /\ WaitsFor(u) \subseteq Second
               /\ place[u] # 0 => WaitsFor(u) \subseteq Past
    <2>1. ASSUME NEW v \in WaitsFor(u)
          PROVE  /\ v \in Transactions /\ at[v] \in Statements
                 /\ at[v] = "rows" => place[u] = 0 /\ place[v] = 1
      BY <1>3, <2>1, RowWaits DEF Discipline, TransactionsTypeOK
    <2> QED
      BY <2>1 DEF Statements
  <1>4. CASE at[t] = "lock"
    <2>1. PICK S : S = Checking
      OBVIOUS
    <2>2. S \in SUBSET Transactions /\ t \notin S
      BY <1>4, <2>1 DEF Checking
    <2>3. WaitsFor(t) \subseteq S /\ \A u \in S : WaitsFor(u) \subseteq S
      BY <1>4, <2>1, LockingWaits, CheckingClosed
    <2> QED
      BY <2>2, <2>3, OutOfCircles
  <1>5. CASE at[t] = "hold"
    <2>1. PICK S : S = Later
      OBVIOUS
    <2>2. WaitsFor(t) \subseteq S
      BY <1>5, <2>1, PastRowsClosed
    <2> QED
      BY <1>1, <1>5, <2>1, <2>2, OutOfCircles
  <1>6. CASE at[t] = "rows" /\ place[t] # 0
    <2>1. PICK S : S = Past
      OBVIOUS
    <2>2. S \in SUBSET Transactions /\ t \notin S
      BY <1>6, <2>1
    <2>3. WaitsFor(t) \subseteq S /\ \A u \in S : WaitsFor(u) \subseteq S
      BY <1>2, <1>3, <1>6, <2>1
    <2> QED
      BY <2>2, <2>3, OutOfCircles
  <1>7. CASE at[t] = "rows" /\ place[t] = 0
    <2>1. PICK S : S = Second
      OBVIOUS
    <2>2. S \in SUBSET Transactions /\ t \notin S
      BY <1>7, <2>1
    <2>3. \A u \in S : WaitsFor(u) \subseteq S
      BY <1>2, <1>3, <2>1
    <2> QED
      BY <1>3, <1>7, <2>1, <2>2, <2>3, OutOfCircles
  <1> QED
    BY <1>4, <1>5, <1>6, <1>7

LEMMA CirclesOfTransfers == Discipline /\ RowsInv => CirclesAreOfTransfers
  <1> SUFFICES ASSUME Discipline, RowsInv, Available("float") \in opened,
                      NEW t \in Transactions, InCircle(t)
               PROVE  MovesBetweenMembers(t)
    BY DEF CirclesAreOfTransfers
  <1>1. at[t] \notin {"rows", "hold", "lock", "resolve"}
    BY LockingCircles, ResolvingCircles
  <1>2. WaitsFor(t) # {}
    BY OutOfCircles
  <1>3. at[t] = "enter"
    BY <1>1, <1>2, NobodyWaits
  <1> QED
    BY <1>3, EnteringCircles

(* CirclesAreOfTransfers: once the float has its account, of all the use     *)
(* cases only repayments are ever aborted to end a circle of waiting         *)
(* transactions, whatever runs at once.                                     *)
THEOREM OnlyRepaymentsDeadlock == TransactionsSpec => []CirclesAreOfTransfers
  <1>1. Discipline /\ RowsInv /\ [TransactionsNext]_vars => (Discipline /\ RowsInv)'
    BY DisciplineStep, RowsStep
  <1>2. TransactionsInit => Discipline /\ RowsInv
    BY DisciplineInit, RowsInit
  <1> QED
    BY <1>1, <1>2, CirclesOfTransfers, PTL DEF TransactionsSpec
=============================================================================
