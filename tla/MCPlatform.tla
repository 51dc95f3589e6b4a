----------------------------- MODULE MCPlatform -----------------------------
(***************************************************************************)
(* Platform for TLC: two edits of which the second takes effect first, and  *)
(* three listings of which two ask the same rate and two close together.    *)
(* The parameters, the sessions and the listings share nothing but the      *)
(* clock and the restarts of the processes, so one of them at a time is     *)
(* busy in a behaviour, moves of the clock overlap only while none is, and  *)
(* anyone signs in only after two registrations that raced.                 *)
(***************************************************************************)
EXTENDS Platform, TLC

CONSTANTS e1, e2

MCEffectiveAt == [e \in Edits |-> IF e = e1 THEN 1 ELSE 0]
MCRateOf == <<5, 5, 4>>
MCExpiresAt == <<2, 1, 2>>

NoEdits == \A e \in Edits : edit[e] = "none"
NobodyHere == /\ \A q \in Registrations : registration[q] = "none"
              /\ page = "login" /\ me = "unknown" /\ meFetch = "idle" /\ ~turnedAway
NobodyBrowses == status = [i \in Rows |-> "DRAFT"] /\ reader.step = "none" /\ reader.sort = "rate"

InTurn == \A i \in DOMAIN moves : moves[i].alone
OneAtATime ==
    \/ NoEdits /\ NobodyBrowses
    \/ NobodyBrowses /\ NobodyHere /\ Len(moves) < MaxMoves
    \/ NobodyHere /\ NoEdits /\ Len(moves) < MaxMoves
RegisteredFirst == issued = {} \/ \A q \in Registrations : registration[q] \in {"registered", "failed"}
MovesApart == InTurn \/ (NoEdits /\ NobodyHere /\ NobodyBrowses)

Alike == Permutations(Processes) \cup Permutations(Tokens) \cup Permutations(Registrations)
=============================================================================
