--------------------------- MODULE MCIdempotency ---------------------------
(***************************************************************************)
(* One key, a request sent three times, and another request that reuses its *)
(* key.                                                                     *)
(***************************************************************************)
EXTENDS Idempotency

CONSTANTS first, second, third, other, key

MCKeyOf == [q \in Requests |-> key]
MCPayloadOf == [q \in Requests |-> IF q = other THEN "other" ELSE "same"]

Repeated == Permutations({first, second, third})
=============================================================================
