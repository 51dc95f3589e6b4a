----------------------------- MODULE Settlement -----------------------------
(***************************************************************************)
(* The ledger settlement adapter: the balances derived from the entries of  *)
(* the double-entry ledger, and the funds holds.  Each operator is one      *)
(* operation of the settlement port, and one balanced ledger transaction.   *)
(***************************************************************************)
EXTENDS Identifiers, Sums

VARIABLES available,   \* balance of each owner's available account
          held,        \* balance of each member's held account
          holds        \* the funds_hold table

settlementVars == <<available, held, holds>>

FundsHold == [status  : {"HELD", "RELEASED", "REFUNDED"},
              account : Accounts,
              amount  : Nat \ {0}]

SettlementTypeOK ==
    /\ available \in [Owners -> Int]
    /\ held \in [Accounts -> Int]
    /\ IsTable(holds, Holds, FundsHold)

SettlementInit ==
    /\ available = [owner \in Owners |-> 0]
    /\ held = [account \in Accounts |-> 0]
    /\ holds = EmptyTable

Covers(account, amount) == available[account] >= amount

Hold(h, account, amount) ==
    /\ h \notin DOMAIN holds
    /\ Covers(account, amount)
    /\ available' = [available EXCEPT ![account] = @ - amount]
    /\ held' = [held EXCEPT ![account] = @ + amount]
    /\ holds' = Insert(holds, h, [status |-> "HELD", account |-> account,
                                  amount |-> amount])

-----------------------------------------------------------------------------
(* A distribution names up to four lines, each crediting one account: the   *)
(* lines of the liquidation waterfall, of which an origination uses two.    *)
Line == [to : Owners, amount : Int]

Distribution == [noteHolder : Line, fee : Line, borrower : Line, rounding : Line]

NoLine == [to |-> "rounding", amount |-> 0]

(* Variant: an owner is credited once, on the first of its lines.           *)
FirstCreditOf(distribution, owner) ==
    CASE distribution.noteHolder.to = owner -> distribution.noteHolder.amount
      [] distribution.noteHolder.to # owner /\ distribution.borrower.to = owner ->
           distribution.borrower.amount
      [] distribution.fee.to = owner -> distribution.fee.amount
      [] OTHER -> 0

(* What a distribution credits to an owner; one account may be on two lines. *)
CreditOf(distribution, owner) ==
    LET credit(line) == IF line.to = owner THEN line.amount ELSE 0
    IN  credit(distribution.noteHolder) + credit(distribution.fee)
          + credit(distribution.borrower) + credit(distribution.rounding)

DistributedTotal(distribution) ==
    distribution.noteHolder.amount + distribution.fee.amount
      + distribution.borrower.amount + distribution.rounding.amount

(* The hold's row is locked before it is read, so of two settlements of one *)
(* hold the second finds it settled.  A release already made is answered    *)
(* with its reference and moves nothing.                                    *)
ReleaseHold(h, distribution) ==
    \/ /\ holds[h].status = "HELD"
       /\ DistributedTotal(distribution) = holds[h].amount
       /\ held' = [held EXCEPT ![holds[h].account] = @ - holds[h].amount]
       /\ available' = [owner \in Owners |->
                           available[owner] + CreditOf(distribution, owner)]
       /\ holds' = [holds EXCEPT ![h].status = "RELEASED"]
    \/ /\ holds[h].status = "RELEASED"
       /\ UNCHANGED settlementVars

(* Variant: the balances move whatever the hold's status.                   *)
RefundHoldAgain(h) ==
    /\ held' = [held EXCEPT ![holds[h].account] = @ - holds[h].amount]
    /\ available' = [available EXCEPT ![holds[h].account] = @ + holds[h].amount]
    /\ holds' = [holds EXCEPT ![h].status = "REFUNDED"]

(* A refund already made is answered with its reference and moves nothing;  *)
(* a hold that was released is an error.                                    *)
RefundHold(h) ==
    \/ /\ holds[h].status = "HELD"
       /\ held' = [held EXCEPT ![holds[h].account] = @ - holds[h].amount]
       /\ available' = [available EXCEPT ![holds[h].account] = @ + holds[h].amount]
       /\ holds' = [holds EXCEPT ![h].status = "REFUNDED"]
    \/ /\ holds[h].status = "REFUNDED"
       /\ UNCHANGED settlementVars

(* Only the float may be overdrawn.                                         *)
Transfer(from, to, amount) ==
    /\ from # "float" => Covers(from, amount)
    /\ available' = [owner \in Owners |->
                        available[owner] + (IF owner = to THEN amount ELSE 0)
                                         - (IF owner = from THEN amount ELSE 0)]
    /\ UNCHANGED <<held, holds>>

-----------------------------------------------------------------------------
(* Every value movement is balanced: all the accounts of the ledger, the    *)
(* platform's own included, always sum to zero.                             *)
LedgerBalanced == SumOver(Owners, available) + SumOver(Accounts, held) = 0

(* The holds outstanding for a member.                                      *)
HeldFor(account) ==
    {h \in DOMAIN holds : holds[h].account = account /\ holds[h].status = "HELD"}

(* A member's held account is worth exactly that member's outstanding holds: *)
(* no hold is settled twice, and none is settled without its money.          *)
HeldBacked ==
    \A a \in Accounts :
        held[a] = SumOver(HeldFor(a), [h \in DOMAIN holds |-> holds[h].amount])

(* No available account but the platform's float is ever overdrawn.  (That  *)
(* the held accounts are not follows from HeldBacked.)                      *)
NoOverdraft == \A owner \in Owners \ {"float"} : available[owner] >= 0
=============================================================================
