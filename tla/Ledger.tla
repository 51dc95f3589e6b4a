------------------------------- MODULE Ledger -------------------------------
(***************************************************************************)
(* What the settlement port promises: from the ledger as it was found, the  *)
(* holds and the transfers take effect one at a time, each as a whole.      *)
(***************************************************************************)
EXTENDS Settlement

CONSTANTS OpeningAvailable, OpeningHeld, OpeningHolds,
          Amounts,    \* the amounts moved
          Payouts     \* the distributions holds are released to

ASSUME LedgerAssumption ==
    /\ OpeningAvailable \in [Owners -> Int]
    /\ OpeningHeld \in [Accounts -> Int]
    /\ IsTable(OpeningHolds, Holds, FundsHold)
    /\ Amounts \subseteq Nat \ {0}
    /\ Payouts \subseteq Distribution
    \* no line of a payout takes money
    /\ \A d \in Payouts : /\ d.noteHolder.amount >= 0 /\ d.fee.amount >= 0
                          /\ d.borrower.amount >= 0 /\ d.rounding.amount >= 0
    /\ \A owner \in Owners \ {"float"} : OpeningAvailable[owner] >= 0

Init ==
    /\ available = OpeningAvailable
    /\ held = OpeningHeld
    /\ holds = OpeningHolds

Next ==
    \/ \E h \in Holds, account \in Accounts, amount \in Amounts : Hold(h, account, amount)
    \/ \E h \in DOMAIN holds : RefundHold(h) \/ \E payout \in Payouts : ReleaseHold(h, payout)
    \/ \E from, to \in Owners, amount \in Amounts : Transfer(from, to, amount)

Spec == Init /\ [][Next]_settlementVars
=============================================================================
