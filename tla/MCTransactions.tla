--------------------------- MODULE MCTransactions ---------------------------
(***************************************************************************)
(* Transactions for TLC: ben's offer o1 and bid b1 are held; two repayments *)
(* in opposite directions, a new offer and bid of his, every way a hold is  *)
(* settled, and money in and out.  cy has never had an account.             *)
(***************************************************************************)
EXTENDS Transactions, Functions

CONSTANTS ann, ben, cy, o1, o2, b1, b2, i1, l1, l2, t1, t2, t3

MCOpeningAvailable == [owner \in Owners |->
    CASE owner = ann -> 2 [] owner = ben -> 2 [] owner = "float" -> -8 [] OTHER -> 0]
MCOpeningHeld == [a \in Accounts |-> IF a = ben THEN 4 ELSE 0]
MCOpeningHolds == [h \in {o1, b1} |-> [status |-> "HELD", account |-> ben, amount |-> 2]]

MCOpeningAccounts == {Available(o) : o \in {ann, ben, "float"}} \cup {Held(ben)}

To(owner) == [to |-> owner, amount |-> 1]
Paid == [noteHolder |-> NoLine, fee |-> To("feeRevenue"), borrower |-> To(cy), rounding |-> NoLine]
Split == [Paid EXCEPT !.noteHolder = To(ben), !.fee = NoLine, !.borrower = To(ann)]
MCPayouts == {Paid, Split}

TaskList ==
    <<PlaceOffer(i1, o2, ben, 2), PlaceBid(l1, b2, ben, 2), AcceptOffer(i1, o1, Paid),
      AcceptOffer(i1, o2, Paid),
      CloseSale(l1, b1, Split), WithdrawOffer(i1, o1), ReclaimHold(o1), ReclaimBid(l1, b1),
      RepayLoan(l1, ann, ben, 2), RepayLoan(l2, ben, ann, 2), Withdraw(ben, 2),
      Deposit(cy, 2), Withdraw(cy, 2)>>
MCTasks == Range(TaskList)

(* Which transaction does what makes no difference: the tasks are dealt out  *)
(* in the order of the list.                                                *)
Nth(t) == CHOOSE n \in DOMAIN TaskList : TaskList[n] = task[t]
InOrder == Nth(t1) <= Nth(t2) /\ Nth(t2) <= Nth(t3)
=============================================================================
