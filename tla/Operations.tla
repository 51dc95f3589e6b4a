----------------------------- MODULE Operations -----------------------------
(***************************************************************************)
(* What every use case reads and no use case of the market writes: the      *)
(* clock, the pause switch and the protocol parameters in force.            *)
(***************************************************************************)
EXTENDS Identifiers

CONSTANTS MaxTime,        \* bound: the clock stops here
          PauseStates,    \* positions of the pause switch explored
          ParameterSets,  \* parameter versions that may come into force
          BasisPoints,    \* what one whole is divided into (10 000 in the code)
          Year            \* ticks a rate is quoted over (365 days in the code)

(* The protocol parameters a use case reads. *)
Parameters == [maxRate : Nat, loanToValue : Nat, minimumOfferLifetime : Nat,
               originationFee : Nat, liquidationFee : Nat,
               gracePeriod : Nat, holdingPeriod : Nat]

ASSUME OperationsAssumption ==
    /\ MaxTime \in Nat
    /\ BasisPoints \in Nat \ {0}
    /\ Year \in Nat \ {0}
    /\ PauseStates \subseteq BOOLEAN
    /\ FALSE \in PauseStates
    /\ ParameterSets # {}
    /\ ParameterSets \subseteq Parameters
    \* a fee is between zero and ten thousand basis points
    /\ \A p \in ParameterSets : /\ p.originationFee <= BasisPoints
                                /\ p.liquidationFee <= BasisPoints

VARIABLES now, paused, params

operationsVars == <<now, paused, params>>

OperationsTypeOK ==
    /\ now \in Nat
    /\ paused \in BOOLEAN
    /\ params \in ParameterSets

OperationsInit ==
    /\ now = 0
    /\ paused = FALSE
    /\ params \in ParameterSets

(* The code's multiplyByBasisPoints: a truncating share of an amount. *)
Share(amount, basisPoints) == (amount * basisPoints) \div BasisPoints

Tick ==
    /\ now < MaxTime
    /\ now' = now + 1
    /\ UNCHANGED <<paused, params>>

(* POST /admin/pause and /admin/unpause: each upserts the one row. *)
SetPause(state) ==
    /\ state \in PauseStates
    /\ paused' = state
    /\ UNCHANGED <<now, params>>

(* Another version comes into force: an operator wrote it, or the instant it *)
(* takes effect has passed.                                                  *)
ChangeParameters(version) ==
    /\ version \in ParameterSets
    /\ params' = version
    /\ UNCHANGED <<now, paused>>
=============================================================================
