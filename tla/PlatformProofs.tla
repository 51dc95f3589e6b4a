--------------------------- MODULE PlatformProofs ---------------------------
(***************************************************************************)
(* What the processes promise, proved for any number of processes, edits,   *)
(* sessions and listings: the clock that outlives its process, the versions *)
(* that are served, signing in and out, and paging through the listings.    *)
(***************************************************************************)
EXTENDS Platform, SumProofs

(* The steps of each part, and what each leaves alone.                      *)
ClockMoves == ClockStep /\ UNCHANGED <<parameterVars, sessionVars, browsingVars>>
ParametersMove == ParametersStep /\ UNCHANGED <<clockVars, sessionVars, browsingVars>>
SessionsMove == SessionsStep /\ UNCHANGED <<clockVars, parameterVars, browsingVars>>
BrowsingMoves == BrowsingStep /\ UNCHANGED <<clockVars, parameterVars, sessionVars>>

-----------------------------------------------------------------------------
(* The clock.  While no two moves have overlapped, only the last move can be *)
(* under way; the row is what it wrote, and its process's offset is the row  *)
(* once it is done.                                                         *)
LastMove == moves[Len(moves)]

MoveInv ==
    (\A i \in DOMAIN moves : moves[i].alone) =>
      /\ \A i \in InFlight : i = Len(moves)
      /\ moves # <<>> => /\ LastMove.step = "apply" => stored = LastMove.to
                         /\ LastMove.step = "done" => offset[LastMove.by] = stored

ClockInv == ClockTypeOK /\ MoveInv

(* A table of moves that only changes moves in place is one.                *)
LEMMA MovesInPlace ==
    ASSUME NEW s \in Seq(Move), NEW t, DOMAIN t = DOMAIN s,
           t = [i \in DOMAIN s |-> t[i]], \A i \in DOMAIN s : t[i] \in Move
    PROVE  t \in Seq(Move) /\ Len(t) = Len(s)
<1>1. DOMAIN s = 1..Len(s) /\ Len(s) \in Nat
    OBVIOUS
<1>2. t \in [1..Len(s) -> Move]
    BY <1>1
<1>3. t \in Seq(Move)
    BY <1>1, <1>2
<1> QED BY <1>1, <1>3

(* The clock's invariant holds at first.                                    *)
LEMMA ClockStarts == ClockInit => ClockInv
<1> SUFFICES ASSUME ClockInit PROVE ClockInv
    OBVIOUS
<1>1. wall \in 0..MaxTime /\ stored \in Nat /\ offset \in [Processes -> Nat]
    BY DemoClockAssumption DEF ClockInit
<1>2. moves = <<>> /\ moves \in Seq(Move) /\ DOMAIN moves = {}
    BY DEF ClockInit
<1> QED BY <1>1, <1>2 DEF ClockInv, ClockTypeOK, MoveInv, InFlight

(* Asking for a move of the clock keeps it.                                 *)
LEMMA AskKeepsClock ==
    ASSUME ClockInv, NEW p \in Processes, NEW to \in Nat, AskMove(p, to)
    PROVE  ClockInv'
<1> DEFINE overlapped == [i \in DOMAIN moves |->
                            IF i \in InFlight THEN [moves[i] EXCEPT !.alone = FALSE]
                                              ELSE moves[i]]
           new == [by |-> p, to |-> to, step |-> "write", alone |-> InFlight = {}]
<1>1. moves' = Append(overlapped, new) /\ UNCHANGED <<wall, stored, offset>>
    BY DEF AskMove
<1>2. moves \in Seq(Move) /\ \A i \in DOMAIN moves : moves[i] \in Move
    BY DEF ClockInv, ClockTypeOK
<1>3. \A i \in DOMAIN moves : overlapped[i] \in Move
    BY <1>2 DEF Move
<1>4. overlapped \in Seq(Move) /\ Len(overlapped) = Len(moves)
    BY <1>2, <1>3, MovesInPlace
<1>5. new \in Move
    BY DEF Move
<1>6. /\ moves' \in Seq(Move) /\ Len(moves') = Len(moves) + 1
      /\ DOMAIN moves' = 1..(Len(moves) + 1) /\ DOMAIN moves = 1..Len(moves) /\ Len(moves) \in Nat
      /\ moves'[Len(moves) + 1] = new
      /\ \A i \in 1..Len(moves) : moves'[i] = overlapped[i]
  <2> HIDE DEF overlapped, new
  <2> QED BY <1>1, <1>2, <1>4, <1>5
<1>7. ClockTypeOK'
    BY <1>1, <1>6 DEF ClockInv, ClockTypeOK
<1>8. MoveInv'
  <2> SUFFICES ASSUME \A i \in DOMAIN moves' : moves'[i].alone PROVE
           /\ \A i \in InFlight' : i = Len(moves')
           /\ moves' # <<>> => /\ LastMove'.step = "apply" => stored' = LastMove'.to
                               /\ LastMove'.step = "done" => offset'[LastMove'.by] = stored'
      BY DEF MoveInv
  <2>1. new.alone
      BY <1>6
  <2>2. InFlight = {}
      BY <2>1
  <2>3. \A i \in 1..Len(moves) : moves'[i] = moves[i]
      BY <1>6, <2>2
  <2>4. \A i \in InFlight' : i = Len(moves')
      BY <1>6, <2>2, <2>3 DEF InFlight
  <2>5. LastMove' = new
      BY <1>6 DEF LastMove
  <2> QED BY <2>4, <2>5
<1> QED BY <1>7, <1>8 DEF ClockInv

(* Writing the row and changing the memory keep it.                         *)
LEMMA WriteKeepsClock ==
    ASSUME ClockInv, NEW i \in DOMAIN moves, WriteMove(i)
    PROVE  ClockInv'
<1>0. moves \in Seq(Move) /\ \A j \in DOMAIN moves : moves[j] \in Move
    BY DEF ClockInv, ClockTypeOK
<1>1. moves \in Seq(Move) /\ moves[i] \in Move /\ moves[i].to \in Nat
    BY <1>0 DEF Move
<1>2. /\ moves' = [moves EXCEPT ![i].step = "apply"] /\ stored' = moves[i].to
      /\ UNCHANGED <<wall, offset>> /\ moves[i].step = "write"
    BY DEF WriteMove
<1>3. \A j \in DOMAIN moves : moves'[j] \in Move
    BY <1>0, <1>1, <1>2 DEF Move
<1>4. moves' \in Seq(Move) /\ Len(moves') = Len(moves) /\ DOMAIN moves' = DOMAIN moves
  <2>1. DOMAIN moves' = DOMAIN moves /\ moves' = [j \in DOMAIN moves |-> moves'[j]]
      BY <1>2
  <2> QED BY <1>1, <1>3, <2>1, MovesInPlace
<1>5. ClockTypeOK'
    BY <1>0, <1>1, <1>2, <1>4 DEF ClockInv, ClockTypeOK
<1>6. \A j \in DOMAIN moves : moves'[j].alone = moves[j].alone
    BY <1>0, <1>1, <1>2 DEF Move
<1>7. \A j \in DOMAIN moves : j \in InFlight' <=> j \in InFlight
    BY <1>0, <1>1, <1>2, <1>4 DEF InFlight, Move
<1>8. MoveInv'
  <2> SUFFICES ASSUME \A j \in DOMAIN moves' : moves'[j].alone PROVE
           /\ \A j \in InFlight' : j = Len(moves')
           /\ moves' # <<>> => /\ LastMove'.step = "apply" => stored' = LastMove'.to
                               /\ LastMove'.step = "done" => offset'[LastMove'.by] = stored'
      BY DEF MoveInv
  <2>1. \A j \in InFlight : j = Len(moves)
      BY <1>4, <1>6 DEF ClockInv, MoveInv
  <2>2. i \in InFlight /\ i = Len(moves)
      BY <1>2, <2>1 DEF InFlight
  <2>3. LastMove'.step = "apply" /\ LastMove'.to = moves[i].to
      BY <1>1, <1>2, <1>4, <2>2 DEF LastMove, Move
  <2>4. \A j \in InFlight' : j = Len(moves')
      BY <1>4, <1>7, <2>1 DEF InFlight
  <2> QED BY <1>2, <2>3, <2>4
<1> QED BY <1>5, <1>8 DEF ClockInv

LEMMA ApplyKeepsClock ==
    ASSUME ClockInv, NEW i \in DOMAIN moves, ApplyMove(i)
    PROVE  ClockInv'
<1>0. /\ moves \in Seq(Move) /\ \A j \in DOMAIN moves : moves[j] \in Move
      /\ offset \in [Processes -> Nat]
    BY DEF ClockInv, ClockTypeOK
<1>1. /\ moves \in Seq(Move) /\ moves[i] \in Move
      /\ moves[i].to \in Nat /\ moves[i].by \in Processes
    BY <1>0 DEF Move
<1>2. /\ moves' = [moves EXCEPT ![i].step = "done"] /\ stored' = stored /\ wall' = wall
      /\ offset' = [offset EXCEPT ![moves[i].by] = moves[i].to] /\ moves[i].step = "apply"
    BY DEF ApplyMove
<1>3. \A j \in DOMAIN moves : moves'[j] \in Move
    BY <1>0, <1>1, <1>2 DEF Move
<1>4. moves' \in Seq(Move) /\ Len(moves') = Len(moves) /\ DOMAIN moves' = DOMAIN moves
  <2>1. DOMAIN moves' = DOMAIN moves /\ moves' = [j \in DOMAIN moves |-> moves'[j]]
      BY <1>2
  <2> QED BY <1>1, <1>3, <2>1, MovesInPlace
<1>5. ClockTypeOK'
    BY <1>0, <1>1, <1>2, <1>4 DEF ClockInv, ClockTypeOK
<1>6. \A j \in DOMAIN moves : moves'[j].alone = moves[j].alone
    BY <1>0, <1>1, <1>2 DEF Move
<1>7. \A j \in DOMAIN moves : j \in InFlight' => j \in InFlight
    BY <1>0, <1>1, <1>2, <1>4 DEF InFlight, Move
<1>8. MoveInv'
  <2> SUFFICES ASSUME \A j \in DOMAIN moves' : moves'[j].alone PROVE
           /\ \A j \in InFlight' : j = Len(moves')
           /\ moves' # <<>> => /\ LastMove'.step = "apply" => stored' = LastMove'.to
                               /\ LastMove'.step = "done" => offset'[LastMove'.by] = stored'
      BY DEF MoveInv
  <2>1. \A j \in InFlight : j = Len(moves)
      BY <1>4, <1>6 DEF ClockInv, MoveInv
  <2>2. i \in InFlight /\ i = Len(moves)
      BY <1>2, <2>1 DEF InFlight
  <2>3. stored = moves[i].to
      BY <1>1, <1>2, <1>4, <1>6, <2>2 DEF ClockInv, MoveInv, LastMove
  <2>4. LastMove'.step = "done" /\ LastMove'.by = moves[i].by
      BY <1>1, <1>2, <1>4, <2>2 DEF LastMove, Move
  <2>5. \A j \in InFlight' : j = Len(moves')
      BY <1>4, <1>7, <2>1 DEF InFlight
  <2> QED BY <1>0, <1>1, <1>2, <2>3, <2>4, <2>5
<1> QED BY <1>5, <1>8 DEF ClockInv

(* And so does a process that starts again.                                 *)
LEMMA StartKeepsClock ==
    ASSUME ClockInv, NEW p \in Processes, StartClock(p)
    PROVE  ClockInv'
<1>1. /\ moves \in Seq(Move) /\ \A i \in DOMAIN moves : moves[i] \in Move
      /\ offset \in [Processes -> Nat] /\ stored \in Nat
    BY DEF ClockInv, ClockTypeOK
<1>2. /\ offset' = [offset EXCEPT ![p] = stored]
      /\ moves' = [i \in DOMAIN moves |->
                     IF i \in InFlight /\ moves[i].by = p
                       THEN [moves[i] EXCEPT !.step = "lost"] ELSE moves[i]]
      /\ UNCHANGED <<wall, stored>>
    BY DEF StartClock
<1>3. \A j \in DOMAIN moves : moves'[j] \in Move
    BY <1>1, <1>2 DEF Move
<1>4. moves' \in Seq(Move) /\ Len(moves') = Len(moves) /\ DOMAIN moves' = DOMAIN moves
  <2>1. DOMAIN moves' = DOMAIN moves /\ moves' = [i \in DOMAIN moves |-> moves'[i]]
      BY <1>2
  <2> QED BY <1>1, <1>3, <2>1, MovesInPlace
<1>5. ClockTypeOK'
    BY <1>1, <1>2, <1>4 DEF ClockInv, ClockTypeOK
<1>6. \A j \in DOMAIN moves : moves'[j].alone = moves[j].alone /\ moves'[j].by = moves[j].by
                              /\ moves'[j].to = moves[j].to
    BY <1>1, <1>2 DEF Move
<1>7. \A j \in DOMAIN moves : moves'[j].step = moves[j].step \/ moves'[j].step = "lost"
    BY <1>1, <1>2 DEF Move
<1>8. \A j \in DOMAIN moves : j \in InFlight' => j \in InFlight
    BY <1>4, <1>7 DEF InFlight
<1>9. MoveInv'
  <2> SUFFICES ASSUME \A j \in DOMAIN moves' : moves'[j].alone PROVE
           /\ \A j \in InFlight' : j = Len(moves')
           /\ moves' # <<>> => /\ LastMove'.step = "apply" => stored' = LastMove'.to
                               /\ LastMove'.step = "done" => offset'[LastMove'.by] = stored'
      BY DEF MoveInv
  <2>1. \A j \in InFlight : j = Len(moves)
      BY <1>4, <1>6 DEF ClockInv, MoveInv
  <2>2. \A j \in InFlight' : j = Len(moves')
      BY <1>4, <1>8, <2>1 DEF InFlight
  <2>3. ASSUME moves' # <<>>
        PROVE  /\ moves # <<>> /\ Len(moves) \in DOMAIN moves
               /\ LastMove'.step \in {LastMove.step, "lost"}
               /\ LastMove'.by = LastMove.by /\ LastMove'.to = LastMove.to
               /\ LastMove.by \in Processes
    <3>1. moves # <<>> /\ Len(moves) \in DOMAIN moves
        BY <1>1, <1>4, <2>3
    <3> QED BY <1>1, <1>4, <1>6, <1>7, <3>1 DEF LastMove, Move
  <2>4. moves # <<>> => /\ LastMove.step = "apply" => stored = LastMove.to
                        /\ LastMove.step = "done" => offset[LastMove.by] = stored
      BY <1>4, <1>6 DEF ClockInv, MoveInv
  <2> QED BY <1>1, <1>2, <2>2, <2>3, <2>4
<1> QED BY <1>5, <1>9 DEF ClockInv

(* Every step of the system keeps it.                                       *)
LEMMA ClockKept == ClockInv /\ [Next]_vars => ClockInv'
<1> SUFFICES ASSUME ClockInv, [Next]_vars PROVE ClockInv'
    OBVIOUS
<1>1. ASSUME NEW p \in Processes, AdvanceClock(p) PROVE ClockInv'
  <2>1. PICK ms \in Advances : AskMove(p, offset[p] + ms)
      BY <1>1 DEF AdvanceClock
  <2>2. offset[p] + ms \in Nat
      BY DemoClockAssumption DEF ClockInv, ClockTypeOK
  <2>3. PICK to \in Nat : to = offset[p] + ms
      BY <2>2
  <2>4. AskMove(p, to)
      BY <2>1, <2>3
  <2> QED BY ONLY <2>4, ClockInv, AskKeepsClock
<1>2. ASSUME NEW p \in Processes, ResetClock(p) PROVE ClockInv'
  <2>1. AskMove(p, 0) /\ 0 \in Nat
      BY <1>2 DEF ResetClock
  <2> QED BY <2>1, AskKeepsClock
<1>3. ASSUME WallTick PROVE ClockInv'
    BY <1>3, DemoClockAssumption DEF ClockInv, ClockTypeOK, MoveInv, WallTick, InFlight, LastMove
<1>4. CASE ClockMoves
    BY <1>1, <1>2, <1>3, <1>4, WriteKeepsClock, ApplyKeepsClock DEF ClockMoves, ClockStep
<1>5. ASSUME NEW p \in Processes, Restart(p) PROVE ClockInv'
    BY <1>5, StartKeepsClock DEF Restart
<1>6. CASE UNCHANGED clockVars
    BY <1>6 DEF clockVars, ClockInv, ClockTypeOK, MoveInv, InFlight, LastMove
<1> QED BY <1>4, <1>5, <1>6 DEF Next, vars, ParametersMove, SessionsMove, BrowsingMoves, ClockMoves

(* It holds in every state.                                                 *)
THEOREM ClockInvHolds == Spec => []ClockInv
<1>1. Init => ClockInv
    BY ClockStarts DEF Init
<1> QED BY <1>1, ClockKept, PTL DEF Spec

(* The process that moved the clock last finds it where it was after a       *)
(* restart, for any number of processes and of moves that did not overlap   *)
(* (DemoClock of the API).                                                  *)
THEOREM MovesOutliveProcesses == Spec => []MoveOutlivesProcess
<1>1. ClockInv => MoveOutlivesProcess
    BY DEF ClockInv, ClockTypeOK, MoveInv, MoveOutlivesProcess, LastMove
<1> QED BY <1>1, ClockInvHolds, PTL

-----------------------------------------------------------------------------
(* The versions.  What a process serves and what a reload has read were      *)
(* committed; an edit that got past its transaction is committed, and one    *)
(* that got past its reading has read itself; and the last edit of a process *)
(* left what every other one read, unless its reading was the older.         *)
ServedInv ==
    /\ ParametersTypeOK
    /\ ServedIsCommitted
    /\ \A e \in Edits : reading[e] \subseteq versions

OwnEditInv ==
    \A e \in Edits :
      /\ edit[e] \in {"reload", "keep", "done"} => e \in versions
      /\ edit[e] \in {"keep", "done"} => e \in reading[e]
      /\ edit[e] = "done" /\ editor[e] \notin overtaken => reading[e] \subseteq registry[editor[e]]

ParametersInv == ServedInv /\ OwnEditInv

(* It holds at first.                                                       *)
LEMMA ParametersStart == ParametersInit => ParametersInv
    BY DEF ParametersInit, ParametersInv, ServedInv, OwnEditInv, ParametersTypeOK, ServedIsCommitted

(* The steps of an edit before its reading is kept preserve it.             *)
LEMMA EditKeepsVersions ==
    ASSUME ParametersInv, NEW e \in Edits,
           BeginEdit(e) \/ RollBack(e) \/ CommitVersion(e) \/ ReadVersions(e) \/ ReloadFails(e)
    PROVE  ParametersInv'
<1> USE DEF ParametersInv, ServedInv, OwnEditInv, ParametersTypeOK, ServedIsCommitted
<1>1. CASE BeginEdit(e)
    BY <1>1 DEF BeginEdit
<1>2. CASE RollBack(e)
    BY <1>2 DEF RollBack
<1>3. CASE CommitVersion(e)
    BY <1>3 DEF CommitVersion
<1>4. CASE ReadVersions(e)
    BY <1>4 DEF ReadVersions
<1>5. CASE ReloadFails(e)
    BY <1>5 DEF ReloadFails
<1> QED BY <1>1, <1>2, <1>3, <1>4, <1>5

(* Keeping a reading does: either it holds what every edit of the process    *)
(* that is done has read, or the process is one of those overtaken.          *)
LEMMA KeepKeepsVersions ==
    ASSUME ParametersInv, NEW e \in Edits, KeepVersions(e)
    PROVE  ParametersInv'
<1> DEFINE p == editor[e]
<1>1. /\ edit[e] = "keep" /\ registry' = [registry EXCEPT ![p] = reading[e]]
      /\ overtaken' = IF \A f \in Edits : edit[f] = "done" /\ editor[f] = p
                                            => reading[f] \subseteq reading[e]
                        THEN overtaken \ {p} ELSE overtaken \cup {p}
      /\ edit' = [edit EXCEPT ![e] = "done"]
      /\ UNCHANGED <<versions, editor, reading>>
    BY DEF KeepVersions
<1>2. ParametersTypeOK /\ p \in Processes /\ reading[e] \in SUBSET Edits
    BY DEF ParametersInv, ServedInv, ParametersTypeOK
<1> HIDE DEF p
<1>3. ServedInv'
    BY <1>1, <1>2 DEF ParametersInv, ServedInv, ParametersTypeOK, ServedIsCommitted
<1>4. ASSUME NEW f \in Edits
      PROVE  /\ edit'[f] \in {"reload", "keep", "done"} => f \in versions'
             /\ edit'[f] \in {"keep", "done"} => f \in reading'[f]
    BY <1>1, <1>2 DEF ParametersInv, OwnEditInv, ParametersTypeOK
<1>5. ASSUME NEW f \in Edits, edit'[f] = "done", editor'[f] \notin overtaken'
      PROVE  reading'[f] \subseteq registry'[editor'[f]]
  <2>1. CASE editor[f] = p
    <3>1. \A g \in Edits : edit[g] = "done" /\ editor[g] = p => reading[g] \subseteq reading[e]
        BY <1>1, <1>5, <2>1
    <3>2. registry'[p] = reading[e]
        BY <1>1, <1>2 DEF ParametersTypeOK
    <3>3. f = e \/ edit[f] = "done"
        BY <1>1, <1>2, <1>5 DEF ParametersTypeOK
    <3> QED BY <1>1, <2>1, <3>1, <3>2, <3>3
  <2>2. CASE editor[f] # p
    <3>1. f # e
        BY <2>2 DEF p
    <3>2. edit[f] = "done" /\ editor[f] \notin overtaken
        BY <1>1, <1>2, <1>5, <2>2, <3>1 DEF ParametersTypeOK
    <3>3. registry'[editor[f]] = registry[editor[f]]
        BY <1>1, <1>2, <2>2 DEF ParametersTypeOK
    <3> QED BY <1>1, <3>2, <3>3 DEF ParametersInv, OwnEditInv
  <2> QED BY <2>1, <2>2
<1> QED BY <1>3, <1>4, <1>5 DEF ParametersInv, OwnEditInv

(* And so does a process that reads the versions when it starts.             *)
LEMMA StartKeepsVersions ==
    ASSUME ParametersInv, NEW p \in Processes, StartRegistry(p)
    PROVE  ParametersInv'
<1>1. /\ registry' = [registry EXCEPT ![p] = versions]
      /\ overtaken' = overtaken \ {p}
      /\ edit' = [e \in Edits |-> IF editor[e] = p /\ edit[e] \in {"write", "reload", "keep"}
                                  THEN "failed" ELSE edit[e]]
      /\ UNCHANGED <<versions, editor, reading>>
    BY DEF StartRegistry
<1>2. ServedInv'
    BY <1>1 DEF ParametersInv, ServedInv, ParametersTypeOK, ServedIsCommitted
<1>3. OwnEditInv'
    BY <1>1 DEF ParametersInv, ServedInv, OwnEditInv, ParametersTypeOK
<1> QED BY <1>2, <1>3 DEF ParametersInv

(* Every step of the system keeps it.                                       *)
LEMMA ParametersKept == ParametersInv /\ [Next]_vars => ParametersInv'
<1> SUFFICES ASSUME ParametersInv, [Next]_vars PROVE ParametersInv'
    OBVIOUS
<1>1. CASE ParametersMove
    BY <1>1, EditKeepsVersions, KeepKeepsVersions DEF ParametersMove, ParametersStep
<1>2. ASSUME NEW p \in Processes, Restart(p) PROVE ParametersInv'
    BY <1>2, StartKeepsVersions DEF Restart
<1>3. CASE UNCHANGED parameterVars
    BY <1>3 DEF parameterVars, ParametersInv, ServedInv, OwnEditInv, ParametersTypeOK,
                ServedIsCommitted
<1> QED BY <1>1, <1>2, <1>3 DEF Next, vars, ClockMoves, ParametersMove, SessionsMove, BrowsingMoves

(* It holds in every state.                                                 *)
THEOREM ParametersInvHolds == Spec => []ParametersInv
<1>1. Init => ParametersInv
    BY ParametersStart DEF Init
<1> QED BY <1>1, ParametersKept, PTL DEF Spec

(* No process ever serves a version of the parameters that was not committed *)
(* (the registry of the API), however many edits and processes there are.    *)
THEOREM OnlyCommittedIsServed == Spec => []ServedIsCommitted
<1>1. ParametersInv => ServedIsCommitted
    BY DEF ParametersInv, ServedInv
<1> QED BY <1>1, ParametersInvHolds, PTL

(* What is in force takes effect no earlier than any version that applies:   *)
(* the instants are numbers and none is past the process's time, so that one *)
(* of them is the greatest.                                                 *)
LEMMA CurrentIsLatest ==
    ASSUME ClockInv, ParametersInv, NEW p \in Processes, NEW v \in Applicable(p)
    PROVE  EffectiveAt[Current(p)] >= EffectiveAt[v]
<1> DEFINE A == Applicable(p)
           Left == {Now(p) - EffectiveAt[w] : w \in A}
<1>1. Now(p) \in Nat
  <2>1. wall \in Nat /\ offset[p] \in Nat
      BY DemoClockAssumption DEF ClockInv, ClockTypeOK
  <2> QED BY <2>1 DEF Now
<1>2. \A w \in A : EffectiveAt[w] \in Nat /\ EffectiveAt[w] <= Now(p)
    BY ParametersAssumption DEF ParametersInv, ServedInv, ParametersTypeOK, Applicable
<1>3. Left \in SUBSET Nat /\ Left # {}
    BY <1>1, <1>2
<1>4. PICK n \in Left : \A m \in Left : n <= m
    BY <1>3, LeastNumber
<1>5. PICK w \in A : n = Now(p) - EffectiveAt[w]
    BY <1>4
<1>6. ASSUME NEW u \in A PROVE EffectiveAt[u] <= EffectiveAt[w]
  <2>1. Now(p) - EffectiveAt[u] \in Left
      OBVIOUS
  <2>2. Now(p) - EffectiveAt[w] <= Now(p) - EffectiveAt[u]
      BY <1>4, <1>5, <2>1
  <2>3. Now(p) \in Nat /\ EffectiveAt[u] \in Nat /\ EffectiveAt[w] \in Nat
      BY <1>1, <1>2
  <2> HIDE DEF Left, A
  <2> QED BY ONLY <2>2, <2>3
<1>7. Current(p) \in A /\ \A u \in A : EffectiveAt[u] <= EffectiveAt[Current(p)]
    BY <1>5, <1>6 DEF Current
<1> QED BY <1>2, <1>7

(* An operator who is told that an edit was made finds it in the process     *)
(* that made it, with every version its reload read, and once it has taken   *)
(* effect there nothing that takes effect earlier is in force (the edit's    *)
(* use case and the registry's refresh).                                     *)
THEOREM OwnEditsAreServed == Spec => []OwnEditServed
<1>1. ASSUME ClockInv, ParametersInv PROVE OwnEditServed
  <2> SUFFICES ASSUME NEW e \in Edits, edit[e] = "done", editor[e] \notin overtaken
               PROVE  /\ e \in registry[editor[e]] /\ reading[e] \subseteq registry[editor[e]]
                      /\ EffectiveAt[e] <= Now(editor[e])
                           => EffectiveAt[Current(editor[e])] >= EffectiveAt[e]
      BY DEF OwnEditServed
  <2>1. e \in registry[editor[e]] /\ reading[e] \subseteq registry[editor[e]]
      BY <1>1 DEF ParametersInv, OwnEditInv
  <2>2. ASSUME EffectiveAt[e] <= Now(editor[e])
        PROVE  EffectiveAt[Current(editor[e])] >= EffectiveAt[e]
    <3>1. PICK p \in Processes : p = editor[e]
        BY <1>1 DEF ParametersInv, ServedInv, ParametersTypeOK
    <3>2. e \in Applicable(p)
        BY <2>1, <2>2, <3>1 DEF Applicable
    <3> QED BY <1>1, <3>1, <3>2, CurrentIsLatest
  <2> QED BY <2>1, <2>2
<1> QED BY <1>1, ClockInvHolds, ParametersInvHolds, PTL

-----------------------------------------------------------------------------
(* Sessions.  A tab that has signed out holds no cookie that would admit it, *)
(* and while it still has the account, no fetch has succeeded; a tab that    *)
(* has signed in, with no refusal since, has no refusal on its way, and      *)
(* while it still has the answer of nobody, no fetch has succeeded either.   *)
SignedOutInv ==
    signedOut => /\ cookie = NoToken /\ meFetch # "account"
                 /\ me = "account" => meFetch # "idle"

SignedInInv ==
    cookie # NoToken /\ ~signedOut /\ ~turnedAway
      => meFetch # "nobody" /\ (me = "nobody" => meFetch # "idle")

SessionsInv == SessionsTypeOK /\ SignedOutInv /\ SignedInInv

(* It holds at first.                                                       *)
LEMMA SessionsStart == SessionsInit => SessionsInv
<1> SUFFICES ASSUME SessionsInit PROVE SessionsInv
    OBVIOUS
<1>1. DOMAIN sessions = {}
    BY DEF SessionsInit
<1> QED BY <1>1 DEF SessionsInit, SessionsInv, SessionsTypeOK, SignedOutInv, SignedInInv

(* Registering keeps it.                                                    *)
LEMMA RegisteringKeepsSessions ==
    ASSUME SessionsInv, NEW q \in Registrations, LookForAddress(q) \/ InsertAccount(q)
    PROVE  SessionsInv'
<1>1. UNCHANGED <<tableVars, tabVars>> /\ (account' = account \/ account' = TRUE)
    BY DEF LookForAddress, InsertAccount
<1>2. registration' \in [Registrations -> {"none", "insert", "registered", "refused", "failed"}]
    BY SMT DEF LookForAddress, InsertAccount, SessionsInv, SessionsTypeOK
<1>3. SessionsTypeOK'
    BY <1>1, <1>2 DEF SessionsInv, SessionsTypeOK, tableVars, tabVars
<1>4. SignedOutInv' /\ SignedInInv'
    BY <1>1 DEF SessionsInv, SignedOutInv, SignedInInv, tableVars, tabVars
<1> QED BY <1>3, <1>4 DEF SessionsInv

(* A session expires at an instant, and its token was issued.               *)
LEMMA NewSessionFits ==
    ASSUME ClockInv, SessionsInv, NEW p \in Processes, NEW t \in Tokens, NewSession(p, t)
    PROVE  /\ DOMAIN sessions' \subseteq issued' /\ issued' \subseteq Tokens
           /\ \A s \in DOMAIN sessions' : sessions'[s] \in Nat
           /\ Now(p) + Lifetime \in Nat
<1>1. wall \in Nat /\ offset[p] \in Nat /\ Lifetime \in Nat
    BY DemoClockAssumption, SessionsAssumption DEF ClockInv, ClockTypeOK
<1>2. Now(p) + Lifetime \in Nat
    BY <1>1 DEF Now
<1> QED BY <1>2 DEF NewSession, SessionsInv, SessionsTypeOK

LEMMA SignInKeepsSessions ==
    ASSUME ClockInv, SessionsInv, NEW p \in Processes, NEW t \in Tokens,
           SignIn(p, t) \/ SignInUnheard(p, t)
    PROVE  SessionsInv'
<1>1. NewSession(p, t)
    BY DEF SignIn, SignInUnheard
<1>2. /\ DOMAIN sessions' \subseteq issued' /\ issued' \subseteq Tokens
      /\ \A s \in DOMAIN sessions' : sessions'[s] \in Nat
      /\ Now(p) + Lifetime \in Nat
    BY <1>1, NewSessionFits
<1>3. CASE SignIn(p, t)
    BY <1>2, <1>3 DEF SignIn, GoHome, AtRest, SessionsInv, SessionsTypeOK, SignedOutInv, SignedInInv, accountVars
<1>4. CASE SignInUnheard(p, t)
    BY <1>2, <1>4 DEF SignInUnheard, SessionsInv, SessionsTypeOK, SignedOutInv, SignedInInv,
                      accountVars, tabVars
<1> QED BY <1>3, <1>4

LEMMA SignOutKeepsSessions ==
    ASSUME SessionsInv, SignOut \/ SignOutUnheard
    PROVE  SessionsInv'
<1>1. sessions' = Forgotten /\ issued' = issued
    BY DEF SignOut, SignOutUnheard
<1>2. DOMAIN sessions' \subseteq issued' /\ \A s \in DOMAIN sessions' : sessions'[s] \in Nat
    BY <1>1 DEF Forgotten, SessionsInv, SessionsTypeOK
<1>3. CASE SignOut
    BY <1>1, <1>2, <1>3 DEF SignOut, SessionsInv, SessionsTypeOK, SignedOutInv, SignedInInv, accountVars
<1>4. CASE SignOutUnheard
    BY <1>1, <1>2, <1>4 DEF SignOutUnheard, SessionsInv, SessionsTypeOK, SignedOutInv, SignedInInv,
                            accountVars, tabVars
<1> QED BY <1>3, <1>4

(* The account query: whoever has signed out is not admitted anywhere.       *)
LEMMA QueryKeepsSessions ==
    ASSUME SessionsInv,
           \/ \E p \in Processes : AnswerMe(p)
           \/ DeliverMe \/ FailMe \/ LookAgain \/ GoBack
           \/ \E p \in {"home", "login"} : Reload(p)
    PROVE  SessionsInv'
<1> USE DEF SessionsInv, SessionsTypeOK, SignedOutInv, SignedInInv, accountVars, tableVars
<1>1. ASSUME NEW p \in Processes, AnswerMe(p) PROVE SessionsInv'
  <2>1. signedOut => ~Admitted(p)
      BY SessionsAssumption DEF Admitted, Sent
  <2> QED BY <1>1, <2>1 DEF AnswerMe
<1>2. CASE DeliverMe
    BY <1>2 DEF DeliverMe
<1>3. CASE LookAgain
    BY <1>3 DEF LookAgain
<1>4. ASSUME NEW p \in {"home", "login"}, Reload(p) PROVE SessionsInv'
    BY <1>4 DEF Reload
<1>5. CASE FailMe
    BY <1>5 DEF FailMe
<1>6. CASE GoBack
    BY <1>6 DEF GoBack, GoHome, AtRest
<1> QED BY <1>1, <1>2, <1>3, <1>4, <1>5, <1>6

(* Every step of the system keeps it.                                       *)
LEMMA SessionsKept == ClockInv /\ SessionsInv /\ [Next]_vars => SessionsInv'
<1> SUFFICES ASSUME ClockInv, SessionsInv, [Next]_vars PROVE SessionsInv'
    OBVIOUS
<1>1. CASE SessionsMove
    BY <1>1, RegisteringKeepsSessions, SignInKeepsSessions, SignOutKeepsSessions, QueryKeepsSessions
       DEF SessionsMove, SessionsStep
<1>2. CASE UNCHANGED sessionVars
    BY <1>2 DEF sessionVars, accountVars, tableVars, tabVars, SessionsInv, SessionsTypeOK,
                SignedOutInv, SignedInInv
<1> QED BY <1>1, <1>2
        DEF Next, vars, Restart, ClockMoves, ParametersMove, SessionsMove, BrowsingMoves

(* It holds in every state.                                                 *)
THEOREM SessionsInvHolds == Spec => []SessionsInv
<1>1. Init => SessionsInv
    BY SessionsStart DEF Init
<1> QED BY <1>1, SessionsKept, ClockInvHolds, PTL DEF Spec

(* Once a tab has signed out and a fetch of the account has succeeded since, *)
(* no answer that was on its way, no restart and no clock put back leaves it *)
(* with the account (the log-out of the frontends' shells and the API's      *)
(* session guard).                                                          *)
THEOREM SigningOutHolds == Spec => []SignOutHolds
<1>1. SessionsInv => SignOutHolds
    BY DEF SessionsInv, SignedOutInv, SignOutHolds
<1> QED BY <1>1, SessionsInvHolds, PTL

(* When the last fetch of the account succeeded, and unless a refusal came   *)
(* since or was on its way already, a tab that has signed in has forgotten   *)
(* that it was nobody, so that signing in again leads home (the login page   *)
(* and the pages' guards).                                                  *)
THEOREM SigningInHeals == Spec => []SignInHeals
<1>1. SessionsInv => SignInHeals
    BY DEF SessionsInv, SignedInInv, SignInHeals
<1> QED BY <1>1, SessionsInvHolds, PTL

-----------------------------------------------------------------------------
(* Paging.  A finite set that is ordered has a last element: one with as few *)
(* beyond it as any.                                                        *)
LEMMA LastExists ==
    ASSUME NEW S, IsFiniteSet(S), S # {}, NEW R,
           \A i \in S : <<i, i>> \notin R,
           \A i, j, k \in S : <<i, j>> \in R /\ <<j, k>> \in R => <<i, k>> \in R
    PROVE  \E i \in S : \A j \in S : <<i, j>> \notin R
<1> DEFINE Beyond(i) == {j \in S : <<i, j>> \in R}
           Sizes == {Cardinality(Beyond(i)) : i \in S}
<1>1. \A i \in S : IsFiniteSet(Beyond(i)) /\ Cardinality(Beyond(i)) \in Nat
    BY FS_Subset, FS_CardinalityType
<1>2. Sizes \in SUBSET Nat /\ Sizes # {}
  <2> HIDE DEF Beyond
  <2> QED BY <1>1
<1>3. PICK n \in Sizes : \A m \in Sizes : n <= m
    BY <1>2, LeastNumber
<1>4. PICK i \in S : n = Cardinality(Beyond(i))
    BY <1>3
<1>5. ASSUME NEW j \in S, <<i, j>> \in R PROVE FALSE
  <2>1. Beyond(j) \in SUBSET Beyond(i) /\ j \in Beyond(i) /\ j \notin Beyond(j)
      BY <1>5
  <2>2. /\ Cardinality(Beyond(j)) <= Cardinality(Beyond(i))
        /\ Cardinality(Beyond(i)) = Cardinality(Beyond(j)) => Beyond(i) = Beyond(j)
    <3> HIDE DEF Beyond
    <3> QED BY <1>1, <2>1, FS_Subset
  <2>3. Beyond(i) # Beyond(j)
      BY <2>1
  <2>4. n <= Cardinality(Beyond(j))
    <3> HIDE DEF Beyond
    <3> QED BY <1>3
  <2> HIDE DEF Beyond, Sizes
  <2> QED BY <1>1, <1>4, <2>2, <2>3, <2>4
<1> QED BY <1>5

(* Each of the three orders puts any two listings one way round, the cursor  *)
(* the same way as the query.                                               *)
LEMMA OrderOfRows ==
    ASSUME reader \in Reader
    PROVE  /\ \A i \in Rows : ~ComesBefore(i, i)
           /\ \A i, j \in Rows : i = j \/ ComesBefore(i, j) \/ ComesBefore(j, i)
           /\ \A i, j, k \in Rows : ComesBefore(i, j) /\ ComesBefore(j, k) => ComesBefore(i, k)
           /\ \A i, j \in Rows : ComesAfter(i, j) <=> ComesBefore(j, i)
<1>1. \A i \in Rows : i \in Nat /\ RateOf[i] \in Nat /\ ExpiresAt[i] \in Nat
    BY BrowsingAssumption
<1>2. CASE reader.sort = "newest"
    BY <1>1, <1>2 DEF ComesBefore, ComesAfter
<1>3. CASE reader.sort = "rate"
    BY <1>1, <1>3 DEF ComesBefore, ComesAfter
<1>4. CASE reader.sort = "closing"
    BY <1>1, <1>4 DEF ComesBefore, ComesAfter
<1> QED BY <1>2, <1>3, <1>4 DEF Reader, Sorts

(* A page that is not all there is has a last row, which every other row of  *)
(* it comes before, and which comes before every row that did not fit.       *)
LEMMA PageIsFirst ==
    ASSUME reader \in Reader, NEW rows \in SUBSET Rows, PageOf(rows) # rows
    PROVE  /\ LastOf(PageOf(rows)) \in PageOf(rows)
           /\ \A j \in PageOf(rows) : j = LastOf(PageOf(rows)) \/ ComesBefore(j, LastOf(PageOf(rows)))
           /\ \A j \in rows \ PageOf(rows) : ComesBefore(LastOf(PageOf(rows)), j)
<1> DEFINE items == PageOf(rows)
           Before(i) == {j \in rows : ComesBefore(j, i)}
           Forwards == {pair \in Rows \X Rows : ComesBefore(pair[1], pair[2])}
           Backwards == {pair \in Rows \X Rows : ComesBefore(pair[2], pair[1])}
<1>1. /\ \A i \in Rows : ~ComesBefore(i, i)
      /\ \A i, j \in Rows : i = j \/ ComesBefore(i, j) \/ ComesBefore(j, i)
      /\ \A i, j, k \in Rows : ComesBefore(i, j) /\ ComesBefore(j, k) => ComesBefore(i, k)
    BY OrderOfRows
<1>2. IsFiniteSet(rows) /\ PageSize \in Nat \ {0}
    BY BrowsingAssumption, FS_Subset
<1>3. items = {i \in rows : Cardinality(Before(i)) < PageSize}
    BY DEF PageOf
<1>4. items \in SUBSET rows /\ IsFiniteSet(items) /\ rows # {}
  <2>1. items \in SUBSET rows
      BY <1>3
  <2> HIDE DEF items
  <2>2. IsFiniteSet(items)
      BY <1>2, <2>1, FS_Subset
  <2> USE DEF items
  <2> QED BY <2>1, <2>2
<1>5. \A i \in rows : IsFiniteSet(Before(i)) /\ Cardinality(Before(i)) \in Nat
    BY <1>2, FS_Subset, FS_CardinalityType
<1>6. \A i, j \in Rows : /\ <<i, j>> \in Forwards <=> ComesBefore(i, j)
                         /\ <<i, j>> \in Backwards <=> ComesBefore(j, i)
    OBVIOUS
<1> HIDE DEF items, Forwards, Backwards
<1>7. items # {}
  <2>1. PICK i \in rows : \A j \in rows : <<i, j>> \notin Backwards
    <3>1. \A i \in rows : <<i, i>> \notin Backwards
        BY <1>1, <1>6
    <3>2. \A i, j, k \in rows : <<i, j>> \in Backwards /\ <<j, k>> \in Backwards
                                  => <<i, k>> \in Backwards
        BY <1>1, <1>6
    <3> QED BY ONLY <1>2, <1>4, <3>1, <3>2, LastExists
  <2>2. Before(i) = {}
      BY <1>6, <2>1
  <2>3. Cardinality(Before(i)) = 0
      BY <2>2, FS_EmptySet
  <2> QED BY <1>2, <1>3, <2>3
<1>8. \E i \in items : \A j \in items \ {i} : ComesBefore(j, i)
  <2>1. PICK i \in items : \A j \in items : <<i, j>> \notin Forwards
    <3>1. \A i \in items : <<i, i>> \notin Forwards
        BY <1>1, <1>4, <1>6
    <3>2. \A i, j, k \in items : <<i, j>> \in Forwards /\ <<j, k>> \in Forwards
                                   => <<i, k>> \in Forwards
        BY <1>1, <1>4, <1>6
    <3> QED BY ONLY <1>4, <1>7, <3>1, <3>2, LastExists
  <2> QED BY <1>1, <1>4, <1>6, <2>1
<1>9. LastOf(items) \in items /\ \A j \in items \ {LastOf(items)} : ComesBefore(j, LastOf(items))
    BY <1>8 DEF LastOf
<1>10. PICK last \in items : last = LastOf(items)
    BY <1>9
<1>11. ASSUME NEW j \in rows \ items PROVE ComesBefore(last, j)
  <2>1. Cardinality(Before(last)) < PageSize /\ ~(Cardinality(Before(j)) < PageSize) /\ last # j
      BY <1>3, <1>10, <1>11
  <2>2. last \in rows
      BY <1>4, <1>10
  <2>3. ASSUME ComesBefore(j, last) PROVE FALSE
    <3>1. Before(j) \in SUBSET Before(last)
        BY <1>1, <2>2, <2>3
    <3>2. Cardinality(Before(j)) <= Cardinality(Before(last))
      <4> HIDE DEF Before
      <4> QED BY <1>5, <2>2, <3>1, FS_Subset
    <3> HIDE DEF Before
    <3> QED BY <1>2, <1>5, <2>1, <2>2, <3>2
  <2> QED BY <1>1, <2>1, <2>2, <2>3
<1> QED BY <1>9, <1>10, <1>11 DEF items

(* The listings seen so far are those up to the cursor, each once; what was  *)
(* open throughout and has not been seen comes after it.                    *)
PagesInv ==
    /\ \A i \in Rows : seen[i] <= 1
    /\ reader.step = "none" => reader.cursor = Start /\ \A i \in Rows : seen[i] = 0
    /\ reader.step = "more" => /\ reader.cursor \in Rows
                               /\ \A i \in Rows : seen[i] = 1 => ~ComesAfter(i, reader.cursor)
                               /\ \A i \in steady : seen[i] = 0 => ComesAfter(i, reader.cursor)
    /\ reader.step = "end" => \A i \in steady : seen[i] = 1

BrowsingInv == BrowsingTypeOK /\ PagesInv

(* It holds at first.                                                       *)
LEMMA BrowsingStarts == BrowsingInit => BrowsingInv
    BY DEF BrowsingInit, BrowsingInv, BrowsingTypeOK, PagesInv, Reader

(* Publishing and closing a listing keep it.                                *)
LEMMA RowsKeepBrowsing ==
    ASSUME BrowsingInv, NEW i \in Rows, PublishRow(i) \/ CloseRow(i)
    PROVE  BrowsingInv'
    BY DEF PublishRow, CloseRow, BrowsingInv, BrowsingTypeOK, PagesInv, ComesAfter

(* And so does a page: it shows only rows after the cursor, and leaves none  *)
(* behind the next one.                                                     *)
LEMMA PageKeepsBrowsing ==
    ASSUME BrowsingInv, NEW p \in Processes, ReadPage(p)
    PROVE  BrowsingInv'
<1>1. PICK rows, items, open : rows = After(p) /\ items = PageOf(rows) /\ open = OpenAt(p)
    OBVIOUS
<1>2. /\ reader.step # "end"
      /\ seen' = [i \in Rows |-> IF i \in items THEN seen[i] + 1 ELSE seen[i]]
      /\ steady' = IF reader.step = "none" THEN open ELSE steady \cap open
      /\ reader' = [reader EXCEPT !.cursor = IF items # rows THEN LastOf(items) ELSE @,
                                  !.step = IF items # rows THEN "more" ELSE "end"]
      /\ status' = status
    BY <1>1 DEF ReadPage
<1>3. /\ reader \in Reader /\ seen \in [Rows -> Nat] /\ steady \subseteq Rows
      /\ status \in [Rows -> {"DRAFT", "ACTIVE", "CLOSED"}]
    BY DEF BrowsingInv, BrowsingTypeOK
<1>4. /\ open \subseteq Rows /\ rows \subseteq open /\ items \subseteq rows
      /\ \A i \in open : i \in rows <=> reader.cursor = Start \/ ComesAfter(i, reader.cursor)
    BY <1>1 DEF After, OpenAt, PageOf
<1>5. Start \notin Rows
    BY BrowsingAssumption DEF Start
<1>6. \A i \in rows : seen[i] = 0
    BY <1>2, <1>3, <1>4, <1>5 DEF BrowsingInv, PagesInv, Reader
<1>7. \A i \in steady' : seen[i] = 1 \/ i \in rows
    BY <1>2, <1>3, <1>4, <1>5 DEF BrowsingInv, PagesInv, Reader
<1>8. /\ seen' \in [Rows -> Nat] /\ steady' \subseteq Rows
      /\ \A i \in Rows : seen'[i] = IF i \in items THEN 1 ELSE seen[i]
      /\ \A i \in Rows : seen[i] = 0 \/ seen[i] = 1
    BY <1>2, <1>3, <1>4, <1>6 DEF BrowsingInv, PagesInv
<1>9. CASE items = rows
  <2>1. reader' = [reader EXCEPT !.step = "end"] /\ reader' \in Reader /\ reader'.step = "end"
      BY <1>2, <1>3, <1>9 DEF Reader
  <2>2. \A i \in steady' : seen'[i] = 1
      BY <1>7, <1>8, <1>9
  <2> QED BY <1>2, <1>3, <1>8, <2>1, <2>2 DEF BrowsingInv, BrowsingTypeOK, PagesInv
<1>10. CASE items # rows
  <2>1. PICK last : last = LastOf(items)
      OBVIOUS
  <2>2. /\ last \in items
        /\ \A j \in items : j = last \/ ComesBefore(j, last)
        /\ \A j \in rows \ items : ComesBefore(last, j)
      BY <1>1, <1>3, <1>4, <1>10, <2>1, PageIsFirst
  <2>3. last \in Rows /\ last \in rows
      BY <1>4, <2>2
  <2>4. /\ reader' \in Reader /\ reader'.step = "more"
        /\ reader'.cursor = last /\ reader'.sort = reader.sort
      BY <1>2, <1>3, <1>10, <2>1, <2>3 DEF Reader
  <2>5. /\ \A i \in Rows : ~ComesBefore(i, i)
        /\ \A i, j \in Rows : i = j \/ ComesBefore(i, j) \/ ComesBefore(j, i)
        /\ \A i, j, k \in Rows : ComesBefore(i, j) /\ ComesBefore(j, k) => ComesBefore(i, k)
        /\ \A i, j \in Rows : ComesAfter(i, j) <=> ComesBefore(j, i)
      BY <1>3, OrderOfRows
  <2>6. ASSUME NEW i \in Rows, seen'[i] = 1 PROVE ~ComesBefore(last, i)
    <3>1. CASE i \in items
        BY <2>2, <2>3, <2>5, <3>1
    <3>2. CASE i \notin items
      <4>1. seen[i] = 1
          BY <1>8, <2>6, <3>2
      <4>2. reader.step = "more"
          BY <1>2, <1>3, <4>1 DEF BrowsingInv, PagesInv, Reader
      <4>3. reader.cursor \in Rows /\ ~ComesBefore(reader.cursor, i)
          BY <2>5, <4>1, <4>2 DEF BrowsingInv, PagesInv
      <4>4. ComesBefore(reader.cursor, last)
          BY <1>4, <1>5, <2>3, <2>5, <4>3
      <4> QED BY <2>3, <2>5, <4>3, <4>4
    <3> QED BY <3>1, <3>2
  <2>7. ASSUME NEW i \in steady', seen'[i] = 0 PROVE ComesBefore(last, i)
      BY <1>7, <1>8, <2>2, <2>7
  <2>8. \A i, j \in Rows : ComesAfter(i, j)' <=> ComesBefore(j, i)
    <3>1. \A i, j \in Rows : ComesAfter(i, j)' <=> ComesAfter(i, j)
        BY <2>4 DEF ComesAfter
    <3> QED BY <2>5, <3>1
  <2>9. \A i \in Rows : ComesAfter(i, reader.cursor)' <=> ComesBefore(last, i)
    <3>1. \A i \in Rows : ComesAfter(i, reader.cursor)' <=> ComesAfter(i, last)'
        BY <2>4 DEF ComesAfter
    <3> QED BY <2>3, <2>8, <3>1
  <2> QED BY <1>2, <1>3, <1>8, <2>3, <2>4, <2>6, <2>7, <2>9
          DEF BrowsingInv, BrowsingTypeOK, PagesInv
<1> QED BY <1>9, <1>10

(* Every step of the system keeps it.                                       *)
LEMMA BrowsingKept == BrowsingInv /\ [Next]_vars => BrowsingInv'
<1> SUFFICES ASSUME BrowsingInv, [Next]_vars PROVE BrowsingInv'
    OBVIOUS
<1>1. CASE BrowsingMoves
    BY <1>1, RowsKeepBrowsing, PageKeepsBrowsing DEF BrowsingMoves, BrowsingStep
<1>2. CASE UNCHANGED browsingVars
    BY <1>2 DEF browsingVars, BrowsingInv, BrowsingTypeOK, PagesInv, ComesAfter
<1> QED BY <1>1, <1>2
        DEF Next, vars, Restart, ClockMoves, ParametersMove, SessionsMove, BrowsingMoves

(* It holds in every state.                                                 *)
THEOREM BrowsingInvHolds == Spec => []BrowsingInv
<1>1. Init => BrowsingInv
    BY BrowsingStarts DEF Init
<1> QED BY <1>1, BrowsingKept, PTL DEF Spec

(* Who has paged to the end has seen every listing that was open throughout, *)
(* and none twice, whichever the order, the size of a page and the clocks    *)
(* that served it (the marketplace's browse query and its cursor).          *)
THEOREM PagesShowOnce == Spec => []BrowsedOnce
<1>1. BrowsingInv => BrowsedOnce
    BY DEF BrowsingInv, PagesInv, BrowsedOnce
<1> QED BY <1>1, BrowsingInvHolds, PTL

(* Every variable of the platform keeps its type.                           *)
THEOREM PlatformTypeCorrect == Spec => []PlatformTypeOK
<1>1. ClockInv /\ ParametersInv /\ SessionsInv /\ BrowsingInv => PlatformTypeOK
    BY DEF ClockInv, ParametersInv, ServedInv, SessionsInv, BrowsingInv, PlatformTypeOK
<1> QED BY <1>1, ClockInvHolds, ParametersInvHolds, SessionsInvHolds, BrowsingInvHolds, PTL
=============================================================================
