------------------------------ MODULE DemoClock ------------------------------
(***************************************************************************)
(* The clock of a demonstration: real time plus an offset.  The offset is a *)
(* row of the database that a process reads once, when it starts, and keeps *)
(* in memory from then on.  Moving the clock adds to the offset in memory,  *)
(* writes the sum down, and only when that is done changes the memory; the  *)
(* route that moves it has no idempotency key and is open to everyone.      *)
(***************************************************************************)
EXTENDS Naturals, Sequences

CONSTANTS Processes,
          Advances,   \* how far the clock may be moved at once
          MaxMoves,   \* bound: how often it is moved
          MaxTime     \* bound: real time stops here

ASSUME DemoClockAssumption ==
    /\ Advances \subseteq Nat
    /\ MaxMoves \in Nat /\ MaxTime \in Nat

VARIABLES wall,     \* real time
          stored,   \* the offset's row
          offset,   \* each process's offset
          moves     \* every move asked for, and how far it has got

clockVars == <<wall, stored, offset, moves>>

Now(p) == wall + offset[p]

Move == [by : Processes, to : Nat, step : {"write", "apply", "done", "lost"},
         alone : BOOLEAN]    \* whether no other move overlapped this one

InFlight == {i \in DOMAIN moves : moves[i].step \in {"write", "apply"}}

ClockTypeOK ==
    /\ wall \in 0..MaxTime
    /\ stored \in Nat /\ offset \in [Processes -> Nat]
    /\ moves \in Seq(Move)

ClockInit ==
    /\ wall = 0 /\ stored = 0
    /\ offset = [p \in Processes |-> 0]
    /\ moves = <<>>

WallTick ==
    /\ wall < MaxTime /\ wall' = wall + 1
    /\ UNCHANGED <<stored, offset, moves>>

AskMove(p, to) ==
    /\ Len(moves) < MaxMoves
    /\ LET overlapped == [i \in DOMAIN moves |->
                            IF i \in InFlight THEN [moves[i] EXCEPT !.alone = FALSE]
                                              ELSE moves[i]]
       IN  moves' = Append(overlapped,
                           [by |-> p, to |-> to, step |-> "write",
                            alone |-> InFlight = {}])
    /\ UNCHANGED <<wall, stored, offset>>

AdvanceClock(p) == \E ms \in Advances : AskMove(p, offset[p] + ms)

ResetClock(p) == AskMove(p, 0)

WriteMove(i) ==
    /\ moves[i].step = "write"
    /\ stored' = moves[i].to
    /\ moves' = [moves EXCEPT ![i].step = "apply"]
    /\ UNCHANGED <<wall, offset>>

(* Variant: the offset is added to what the memory holds by then.            *)
ApplyMoveAgain(i) ==
    /\ moves[i].step = "apply"
    /\ offset' = [offset EXCEPT ![moves[i].by] = @ + moves[i].to]
    /\ moves' = [moves EXCEPT ![i].step = "done"]
    /\ UNCHANGED <<wall, stored>>

ApplyMove(i) ==
    /\ moves[i].step = "apply"
    /\ offset' = [offset EXCEPT ![moves[i].by] = moves[i].to]
    /\ moves' = [moves EXCEPT ![i].step = "done"]
    /\ UNCHANGED <<wall, stored>>

(* A process that starts again reads the row; a move it had not finished may *)
(* have been written down or not.                                           *)
StartClock(p) ==
    /\ offset' = [offset EXCEPT ![p] = stored]
    /\ moves' = [i \in DOMAIN moves |->
                   IF i \in InFlight /\ moves[i].by = p
                     THEN [moves[i] EXCEPT !.step = "lost"] ELSE moves[i]]
    /\ UNCHANGED <<wall, stored>>

ClockStep ==
    \/ WallTick
    \/ \E p \in Processes : AdvanceClock(p) \/ ResetClock(p)
    \/ \E i \in DOMAIN moves : WriteMove(i) \/ ApplyMove(i)

-----------------------------------------------------------------------------
(* The process that moved the clock last finds it where it was after a       *)
(* restart, so long as no two moves overlapped ("the offset outlives the     *)
(* process that moved it"; another process still tells its own time).       *)
MoveOutlivesProcess ==
    \A p \in Processes :
      /\ \A i \in DOMAIN moves : moves[i].alone /\ moves[i].step = "done"
      /\ moves # <<>> /\ moves[Len(moves)].by = p
      => offset[p] = stored
=============================================================================
