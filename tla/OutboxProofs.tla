---------------------------- MODULE OutboxProofs ----------------------------
(***************************************************************************)
(* What the outbox guarantees for any events, drains, batch size, attempts  *)
(* and visibility window.  The row locks of a claim are gone when it        *)
(* commits; what keeps two drains apart is that an event a drain has in     *)
(* hand carries a stamp which no claim accepts before the window is over.   *)
(***************************************************************************)
EXTENDS Outbox, WellFoundedInduction, TLAPS

(* What a drain has in hand was queued once.                                *)
HeldWasQueued == \A w \in Drains : drains[w].batch \subseteq Queued

(* Within the window it is in the table, stamped and not yet published.     *)
HeldIsStamped ==
    \A w \in Drains : \A e \in drains[w].batch \ overrun :
        /\ e \in DOMAIN rows
        /\ rows[e].claimed \in 0..Visibility
        /\ ~rows[e].published

(* A drain about to mark an event has had it accepted.                      *)
MarksDelivered ==
    \A w \in Drains :
        drains[w].batch # {} /\ drains[w].next = "mark" => Current(w) \in delivered

PublishedWasDelivered == \A e \in DOMAIN rows : rows[e].published => e \in delivered

IInv == /\ OutboxTypeOK /\ HeldWasQueued /\ HeldIsStamped /\ ExclusiveClaims
        /\ MarksDelivered /\ PublishedWasDelivered

-----------------------------------------------------------------------------
(* A set of numbers that is not empty has its least in it.                   *)
LEMMA MinBelongs ==
    ASSUME NEW S, S \subseteq Nat, S # {}
    PROVE  Min(S) \in S
  <1> DEFINE Below == {pair \in Nat \X Nat : pair[1] < pair[2]}
  <1>1. IsWellFoundedOn(Below, Nat)
    BY NatLessThanWellFounded DEF OpToRel
  <1>2. \A x, y \in Nat : y < x => <<y, x>> \in Below
    OBVIOUS
  <1> HIDE DEF Below
  <1>3. PICK x \in S : \A y \in S : ~ (<<y, x>> \in Below)
    BY <1>1, WFMin
  <1>4. ASSUME NEW y \in S PROVE x <= y
    <2>1. x \in Nat /\ y \in Nat
      OBVIOUS
    <2>2. ~ (y < x)
      BY <1>2, <1>3, <2>1
    <2> QED
      BY <2>1, <2>2
  <1> QED
    BY <1>4 DEF Min

LEMMA MinOfTwo ==
    ASSUME NEW a \in Int, NEW b \in Int
    PROVE  Min({a, b}) = IF a <= b THEN a ELSE b
  <1>1. CASE a <= b
    <2>1. \A y \in {a, b} : a <= y
      BY <1>1
    <2> QED
      BY <1>1, <2>1 DEF Min
  <1>2. CASE b < a
    <2>1. \A y \in {a, b} : b <= y
      BY <1>2
    <2> QED
      BY <1>2, <2>1 DEF Min
  <1> QED
    BY <1>1, <1>2

(* What a drain does next is about an event of its batch.                   *)
LEMMA CurrentInBatch ==
    ASSUME OutboxTypeOK, NEW w \in Drains, drains[w].batch # {}
    PROVE  Current(w) \in drains[w].batch
  <1>1. drains[w].batch \subseteq Nat
    BY OutboxAssumption DEF OutboxTypeOK, Drain
  <1> QED
    BY <1>1, MinBelongs DEF Current

-----------------------------------------------------------------------------
LEMMA StartsTrue == Init => IInv
  BY OutboxAssumption
     DEF Init, IInv, OutboxTypeOK, Row, Drain, Idle, Attempts, Queued, HeldWasQueued,
         HeldIsStamped, ExclusiveClaims, MarksDelivered, PublishedWasDelivered

LEMMA QueueKeeps ==
    ASSUME IInv, NEW e \in Events, Queue(e)
    PROVE  IInv'
  <1> USE OutboxAssumption DEF IInv, Queue
  <1>1. OutboxTypeOK'
    BY DEF OutboxTypeOK, Row, Ages, Unclaimed, Attempts, Queued
  <1>2. HeldWasQueued'
    BY DEF HeldWasQueued, Queued
  <1>3. HeldIsStamped'
    BY DEF HeldIsStamped, HeldWasQueued, Queued
  <1>4. ExclusiveClaims'
    BY DEF ExclusiveClaims
  <1>5. MarksDelivered'
    BY DEF MarksDelivered, Current
  <1>6. PublishedWasDelivered'
    BY DEF PublishedWasDelivered
  <1> QED
    BY <1>1, <1>2, <1>3, <1>4, <1>5, <1>6

LEMMA ClaimKeeps ==
    ASSUME IInv, NEW w \in Drains, NEW batch \in SUBSET Events, Claim(w, batch)
    PROVE  IInv'
  <1> USE OutboxAssumption DEF IInv
  <1>1. \A e \in batch : e \in DOMAIN rows /\ Claimable(e)
    BY DEF Claim, IsBatch
  <1>2. \A n \in Attempts : Min({n + 1, MaximumAttempts + 1}) \in Attempts
    BY MinOfTwo DEF Attempts
  <1>3. /\ DOMAIN rows' = DOMAIN rows
        /\ rows' \in [DOMAIN rows -> Row]
        /\ \A e \in DOMAIN rows \ batch : rows'[e] = rows[e]
        /\ \A e \in batch : rows'[e].claimed = 0
        /\ \A e \in DOMAIN rows : rows'[e].published = rows[e].published
    <2>1. \A e \in DOMAIN rows : rows[e] \in Row
      BY DEF OutboxTypeOK
    <2>2. \A e \in batch :
             /\ Min({rows[e].attempts + 1, MaximumAttempts + 1}) \in Attempts
             /\ rows'[e] = [rows[e] EXCEPT !.claimed = 0,
                               !.attempts = Min({rows[e].attempts + 1, MaximumAttempts + 1})]
      BY <1>1, <1>2, <2>1 DEF Claim, Row
    <2>3. \A e \in batch : /\ rows'[e] \in Row
                           /\ rows'[e].claimed = 0
                           /\ rows'[e].published = rows[e].published
      <3>1. 0 \in Ages
        BY DEF Ages, Unclaimed
      <3> QED
        BY <1>1, <2>1, <2>2, <3>1 DEF Row
    <2>4. /\ DOMAIN rows' = DOMAIN rows
          /\ \A e \in DOMAIN rows \ batch : rows'[e] = rows[e]
          /\ rows' = [e \in DOMAIN rows |-> rows'[e]]
      BY DEF Claim
    <2> QED
      BY <2>1, <2>3, <2>4
  <1>4. /\ drains' \in [Drains -> Drain]
        /\ \A v \in Drains \ {w} : drains'[v] = drains[v]
        /\ drains'[w].batch = batch
        /\ drains'[w].next = "publish"
    <2>1. [e \in Events |-> IF e \in batch THEN rows[e].attempts ELSE 0]
             \in [Events -> Attempts]
      BY <1>1 DEF OutboxTypeOK, Row, Attempts
    <2> QED
      BY <2>1 DEF Claim, OutboxTypeOK, Drain
  <1>5. UNCHANGED <<dead, crashes, delivered, overrun>>
    BY DEF Claim
  <1>6. ASSUME NEW v \in Drains \ {w}, NEW e \in drains[v].batch \ overrun
        PROVE  e \in DOMAIN rows \ batch
    <2>1. e \in DOMAIN rows /\ rows[e].claimed \in 0..Visibility
      BY DEF HeldIsStamped
    <2>2. ~Claimable(e)
      BY <2>1 DEF Claimable, Unclaimed
    <2> QED
      BY <1>1, <2>1, <2>2
  <1>7. OutboxTypeOK'
    BY <1>3, <1>4, <1>5 DEF OutboxTypeOK, Queued
  <1>8. HeldWasQueued'
    BY <1>1, <1>3, <1>4, <1>5 DEF HeldWasQueued, Queued
  <1>9. HeldIsStamped'
    <2>1. \A e \in batch : e \in DOMAIN rows' /\ rows'[e].claimed \in 0..Visibility
                                            /\ ~rows'[e].published
      BY <1>1, <1>3 DEF Claimable
    <2> QED
      BY <1>3, <1>4, <1>5, <1>6, <2>1 DEF HeldIsStamped
  <1>10. ExclusiveClaims'
    BY <1>4, <1>5, <1>6 DEF ExclusiveClaims
  <1>11. MarksDelivered'
    BY <1>4, <1>5 DEF MarksDelivered, Current
  <1>12. PublishedWasDelivered'
    BY <1>3, <1>5 DEF PublishedWasDelivered
  <1> QED
    BY <1>7, <1>8, <1>9, <1>10, <1>11, <1>12

(* A drain that goes on to its next event has less in hand.                  *)
LEMMA AdvanceShrinks ==
    ASSUME OutboxTypeOK, NEW w \in Drains, drains[w].batch # {}, Advance(w) \/ Abandon(w)
    PROVE  /\ drains' \in [Drains -> Drain]
           /\ \A v \in Drains \ {w} : drains'[v] = drains[v]
           /\ drains'[w].batch \subseteq drains[w].batch
           /\ Advance(w) => Current(w) \notin drains'[w].batch
           /\ drains'[w].next = "publish"
  <1>1. drains[w] \in Drain /\ Idle \in Drain
    BY OutboxAssumption DEF OutboxTypeOK, Drain, Idle, Attempts
  <1>2. CASE drains' = [drains EXCEPT ![w] = Idle] /\ (Advance(w) => drains[w].batch = {Current(w)})
    BY <1>1, <1>2 DEF OutboxTypeOK, Idle
  <1>3. CASE drains' = [drains EXCEPT ![w] = [@ EXCEPT !.batch = drains[w].batch \ {Current(w)},
                                                       !.next = "publish"]]
    BY <1>1, <1>3 DEF OutboxTypeOK, Drain
  <1> QED
    BY <1>2, <1>3 DEF Advance, Abandon

LEMMA PublishKeeps ==
    ASSUME IInv, NEW w \in Drains, Publish(w)
    PROVE  IInv'
  <1> USE OutboxAssumption DEF IInv, Publish
  <1>1. Current(w) \in drains[w].batch
    BY CurrentInBatch
  <1>2. /\ drains' \in [Drains -> Drain]
        /\ \A v \in Drains : drains'[v].batch = drains[v].batch
        /\ \A v \in Drains \ {w} : drains'[v].next = drains[v].next
    <2>1. PICK next \in {"mark", "fail"} : Turn(w, next)
      OBVIOUS
    <2> QED
      BY <2>1 DEF Turn, OutboxTypeOK, Drain
  <1>3. OutboxTypeOK'
    BY <1>1, <1>2 DEF OutboxTypeOK, HeldWasQueued, Queued
  <1>4. HeldWasQueued'
    BY <1>2 DEF HeldWasQueued, Queued
  <1>5. HeldIsStamped'
    BY <1>2 DEF HeldIsStamped
  <1>6. ExclusiveClaims'
    BY <1>2 DEF ExclusiveClaims
  <1>7. MarksDelivered'
    <2>1. drains'[w].next = "mark" => Current(w) \in delivered'
      BY DEF Turn, OutboxTypeOK, Drain
    <2> QED
      BY <1>2, <2>1 DEF MarksDelivered, Current
  <1>8. PublishedWasDelivered'
    BY DEF PublishedWasDelivered
  <1> QED
    BY <1>3, <1>4, <1>5, <1>6, <1>7, <1>8

LEMMA MarkKeeps ==
    ASSUME IInv, NEW w \in Drains, Mark(w)
    PROVE  IInv'
  <1> USE OutboxAssumption DEF IInv
  <1>1. Current(w) \in drains[w].batch
    BY CurrentInBatch DEF Mark
  <1>2. CASE Turn(w, "fail") /\ UNCHANGED rows
    <2>1. /\ drains' \in [Drains -> Drain]
          /\ \A v \in Drains : drains'[v].batch = drains[v].batch
          /\ \A v \in Drains \ {w} : drains'[v].next = drains[v].next
          /\ drains'[w].next = "fail"
      BY <1>2 DEF Turn, OutboxTypeOK, Drain
    <2> QED
      BY <1>2, <2>1 DEF Mark, OutboxTypeOK, Queued, HeldWasQueued, HeldIsStamped, ExclusiveClaims,
                        MarksDelivered, Current, PublishedWasDelivered
  <1>3. CASE /\ Current(w) \in DOMAIN rows
             /\ rows' = [rows EXCEPT ![Current(w)].published = TRUE]
             /\ Advance(w)
    <2>1. /\ drains' \in [Drains -> Drain]
          /\ \A v \in Drains \ {w} : drains'[v] = drains[v]
          /\ drains'[w].batch \subseteq drains[w].batch \ {Current(w)}
          /\ drains'[w].next = "publish"
      BY <1>1, <1>3, AdvanceShrinks
    <2>2. /\ DOMAIN rows' = DOMAIN rows
          /\ rows' \in [DOMAIN rows -> Row]
          /\ \A e \in DOMAIN rows : rows'[e].claimed = rows[e].claimed
          /\ \A e \in DOMAIN rows \ {Current(w)} : rows'[e] = rows[e]
      BY <1>3 DEF OutboxTypeOK, Row
    <2>3. UNCHANGED <<dead, crashes, delivered, overrun>>
      BY DEF Mark
    <2>4. OutboxTypeOK'
      BY <2>1, <2>2, <2>3 DEF OutboxTypeOK, Queued
    <2>5. HeldWasQueued'
      BY <2>1, <2>2, <2>3 DEF HeldWasQueued, Queued
    <2>6. ASSUME NEW v \in Drains, NEW e \in (drains[v].batch \ overrun)', v # w
          PROVE  e # Current(w)
      BY <1>1, <2>1, <2>3, <2>6 DEF ExclusiveClaims
    <2>7. HeldIsStamped'
      BY <2>1, <2>2, <2>3, <2>6 DEF HeldIsStamped
    <2>8. ExclusiveClaims'
      BY <2>1, <2>3 DEF ExclusiveClaims
    <2>9. MarksDelivered'
      BY <2>1, <2>3 DEF MarksDelivered, Current
    <2>10. PublishedWasDelivered'
      BY <1>1, <2>2, <2>3 DEF PublishedWasDelivered, MarksDelivered, Mark
    <2> QED
      BY <2>4, <2>5, <2>7, <2>8, <2>9, <2>10
  <1> QED
    BY <1>2, <1>3 DEF Mark

LEMMA RecordFailureKeeps ==
    ASSUME IInv, NEW w \in Drains, RecordFailure(w)
    PROVE  IInv'
  <1> USE OutboxAssumption DEF IInv
  <1>1. Current(w) \in drains[w].batch
    BY CurrentInBatch DEF RecordFailure
  <1>2. /\ drains' \in [Drains -> Drain]
        /\ \A v \in Drains \ {w} : drains'[v] = drains[v]
        /\ drains'[w].batch \subseteq drains[w].batch
        /\ Current(w) \in DOMAIN rows => Current(w) \notin drains'[w].batch
        /\ drains'[w].next = "publish"
    BY <1>1, AdvanceShrinks DEF RecordFailure
  <1>3. UNCHANGED <<crashes, delivered, overrun>>
    BY DEF RecordFailure
  <1>4. /\ DOMAIN rows' \subseteq DOMAIN rows
        /\ rows' \in [DOMAIN rows' -> Row]
        /\ DOMAIN rows \ {Current(w)} \subseteq DOMAIN rows'
        /\ \A e \in DOMAIN rows \ {Current(w)} : rows'[e] = rows[e]
        /\ \A e \in DOMAIN rows' : rows'[e].published = rows[e].published
        /\ Queued' = Queued
        /\ dead' \subseteq Events \ DOMAIN rows'
    <2>1. CASE Current(w) \in DOMAIN rows /\ ReleaseClaim(Current(w))
      <3>1. Unclaimed \in Ages
        BY DEF Ages, Unclaimed
      <3> QED
        BY <2>1, <3>1 DEF ReleaseClaim, OutboxTypeOK, Row, Queued
    <2>2. CASE Current(w) \in DOMAIN rows /\ DeadLetter(Current(w))
      BY <2>2 DEF DeadLetter, OutboxTypeOK, Queued
    <2>3. CASE UNCHANGED <<rows, dead>>
      BY <2>3 DEF OutboxTypeOK, Queued
    <2> QED
      BY <2>1, <2>2, <2>3 DEF RecordFailure
  <1>5. OutboxTypeOK'
    BY <1>2, <1>3, <1>4 DEF OutboxTypeOK
  <1>6. HeldWasQueued'
    BY <1>2, <1>4 DEF HeldWasQueued
  <1>7. ASSUME NEW v \in Drains, NEW e \in (drains[v].batch \ overrun)'
        PROVE  e \in DOMAIN rows \ {Current(w)}
    BY <1>1, <1>2, <1>3 DEF ExclusiveClaims, HeldIsStamped
  <1>8. HeldIsStamped'
    BY <1>2, <1>3, <1>4, <1>7 DEF HeldIsStamped
  <1>9. ExclusiveClaims'
    BY <1>2, <1>3 DEF ExclusiveClaims
  <1>10. MarksDelivered'
    BY <1>2, <1>3 DEF MarksDelivered, Current
  <1>11. PublishedWasDelivered'
    BY <1>3, <1>4 DEF PublishedWasDelivered
  <1> QED
    BY <1>5, <1>6, <1>8, <1>9, <1>10, <1>11

LEMMA CrashKeeps ==
    ASSUME IInv, NEW w \in Drains, Crash(w)
    PROVE  IInv'
  <1> USE OutboxAssumption DEF IInv
  <1>1. /\ drains' \in [Drains -> Drain]
        /\ \A v \in Drains \ {w} : drains'[v] = drains[v]
        /\ drains'[w].batch \subseteq drains[w].batch
        /\ drains'[w].next = "publish"
    BY AdvanceShrinks DEF Crash
  <1>2. crashes' \in 0..CrashLimit /\ UNCHANGED <<rows, dead, delivered, overrun>>
    BY DEF Crash, OutboxTypeOK
  <1> QED
    BY <1>1, <1>2 DEF OutboxTypeOK, Queued, HeldWasQueued, HeldIsStamped, ExclusiveClaims,
                      MarksDelivered, Current, PublishedWasDelivered

LEMMA TickKeeps ==
    ASSUME IInv, Tick
    PROVE  IInv'
  <1> USE OutboxAssumption DEF IInv
  <1>1. UNCHANGED <<dead, drains, crashes, delivered>>
    BY DEF Tick
  <1>2. ASSUME NEW e \in DOMAIN rows
        PROVE  /\ e \in DOMAIN rows'
               /\ rows'[e] \in Row
               /\ rows'[e].published = rows[e].published
               /\ rows[e].claimed \in 0..(Visibility - 1) => rows'[e].claimed \in 0..Visibility
    <2>1. rows[e] \in Row /\ rows[e].claimed \in -1..(Visibility + 1)
      BY DEF OutboxTypeOK, Row, Ages, Unclaimed
    <2>2. CASE rows[e].claimed = Unclaimed
      BY <2>1, <2>2 DEF Tick, Unclaimed
    <2>3. CASE rows[e].claimed # Unclaimed
      <3> DEFINE age == Min({rows[e].claimed + 1, Visibility + 1})
      <3>1. rows'[e] = [rows[e] EXCEPT !.claimed = age] /\ e \in DOMAIN rows'
        BY <2>1, <2>3 DEF Tick, Row
      <3>2. age = IF rows[e].claimed + 1 <= Visibility + 1 THEN rows[e].claimed + 1
                                                          ELSE Visibility + 1
        BY <2>1, MinOfTwo
      <3> HIDE DEF age
      <3>3. age \in Ages /\ (rows[e].claimed \in 0..(Visibility - 1) => age \in 0..Visibility)
        BY <2>1, <2>3, <3>2 DEF Ages, Unclaimed
      <3> QED
        BY <2>1, <3>1, <3>3 DEF Row
    <2> QED
      BY <2>2, <2>3
  <1>3. DOMAIN rows' = DOMAIN rows /\ rows' = [e \in DOMAIN rows |-> rows'[e]]
    BY DEF Tick
  <1>4. /\ overrun \subseteq overrun'
        /\ overrun' \subseteq overrun \cup DOMAIN rows
        /\ \A w \in Drains : \A e \in drains[w].batch :
              e \in DOMAIN rows /\ rows[e].claimed >= Visibility => e \in overrun'
    BY DEF Tick, InHand
  <1>5. OutboxTypeOK'
    BY <1>1, <1>2, <1>3, <1>4 DEF OutboxTypeOK, Queued
  <1>6. HeldWasQueued'
    BY <1>1, <1>3 DEF HeldWasQueued, Queued
  <1>7. HeldIsStamped'
    <2>1. ASSUME NEW w \in Drains, NEW e \in (drains[w].batch \ overrun)'
          PROVE  /\ e \in DOMAIN rows /\ ~rows[e].published
                 /\ rows[e].claimed \in 0..(Visibility - 1)
      <3>1. /\ e \in DOMAIN rows /\ ~rows[e].published
            /\ rows[e].claimed \in 0..Visibility
        BY <1>1, <1>4 DEF HeldIsStamped
      <3>2. ~ (rows[e].claimed >= Visibility)
        BY <1>1, <1>4, <3>1
      <3> QED
        BY <3>1, <3>2
    <2> QED
      BY <1>1, <1>2, <2>1 DEF HeldIsStamped
  <1>8. ExclusiveClaims'
    BY <1>1, <1>4 DEF ExclusiveClaims
  <1>9. MarksDelivered'
    BY <1>1 DEF MarksDelivered, Current
  <1>10. PublishedWasDelivered'
    BY <1>1, <1>2, <1>3 DEF PublishedWasDelivered
  <1> QED
    BY <1>5, <1>6, <1>7, <1>8, <1>9, <1>10

LEMMA StaysTrue ==
    ASSUME IInv, [Next]_vars
    PROVE  IInv'
  <1>1. CASE UNCHANGED vars
    BY <1>1 DEF vars, IInv, OutboxTypeOK, Queued, HeldWasQueued, HeldIsStamped,
                ExclusiveClaims, MarksDelivered, Current, PublishedWasDelivered
  <1>2. CASE Next
    BY <1>2, QueueKeeps, ClaimKeeps, PublishKeeps, MarkKeeps, RecordFailureKeeps, CrashKeeps,
       TickKeeps DEF Next
  <1> QED
    BY <1>1, <1>2

LEMMA IInvHolds == Spec => []IInv
  BY StartsTrue, StaysTrue, PTL DEF Spec

-----------------------------------------------------------------------------
(* The outbox, its dead letters and the drains stay well-formed, for any     *)
(* events and any number of drains: an event is never in both tables.       *)
THEOREM OutboxTypeCorrect == Spec => []OutboxTypeOK
  <1>1. IInv => OutboxTypeOK
    BY DEF IInv
  <1> QED
    BY <1>1, IInvHolds, PTL

(* However many drains overlap, and wherever they die, no two have an event  *)
(* in hand unless one has outlived its visibility window.                   *)
THEOREM ClaimsAreExclusive == Spec => []ExclusiveClaims
  <1>1. IInv => ExclusiveClaims
    BY DEF IInv
  <1> QED
    BY <1>1, IInvHolds, PTL

(* What is marked published had been accepted by a handler, and leaves the   *)
(* table or the mark again only by a drain that outlived its window.        *)
THEOREM PublishedStays == Spec => PublishedForGood
  <1> DEFINE Kept(e) ==
        /\ rows[e].published => e \in delivered
        /\ rows[e].published /\ e \notin overrun' => e \in DOMAIN rows' /\ rows'[e].published
  <1>1. ASSUME IInv, [Next]_vars, NEW e \in DOMAIN rows
        PROVE  Kept(e)
    <2> USE OutboxAssumption DEF IInv
    <2>1. SUFFICES ASSUME rows[e].published, e \notin overrun'
                   PROVE  e \in DOMAIN rows' /\ rows'[e].published
      BY <1>1 DEF PublishedWasDelivered
    <2>2. rows[e] \in Row
      BY <1>1 DEF OutboxTypeOK
    <2>3. CASE UNCHANGED rows
      BY <2>1, <2>3
    <2>4. ASSUME NEW f \in Events, Queue(f) PROVE e \in DOMAIN rows' /\ rows'[e].published
      BY <2>1, <2>4 DEF Queue, Queued
    <2>5. ASSUME NEW w \in Drains, NEW batch \in SUBSET Events, Claim(w, batch)
          PROVE  e \in DOMAIN rows' /\ rows'[e].published
      BY <2>1, <2>2, <2>5 DEF Claim, Row
    <2>6. ASSUME NEW w \in Drains, Mark(w)
          PROVE  e \in DOMAIN rows' /\ rows'[e].published
      BY <2>1, <2>2, <2>6 DEF Mark, Row
    <2>7. ASSUME NEW w \in Drains, RecordFailure(w)
          PROVE  e \in DOMAIN rows' /\ rows'[e].published
      <3>1. Current(w) \in drains[w].batch
        BY <1>1, <2>7, CurrentInBatch DEF RecordFailure
      <3>2. e # Current(w)
        BY <1>1, <2>1, <2>7, <3>1 DEF HeldIsStamped, RecordFailure
      <3> QED
        BY <2>1, <2>7, <3>2 DEF RecordFailure, ReleaseClaim, DeadLetter
    <2>8. CASE Tick
      BY <2>1, <2>2, <2>8 DEF Tick, Row
    <2> QED
      BY <1>1, <2>3, <2>4, <2>5, <2>6, <2>7, <2>8 DEF Next, vars, Publish, Crash
  <1>2. IInv /\ [Next]_vars => [\A e \in DOMAIN rows : Kept(e)]_vars
    BY <1>1
  <1> QED
    BY <1>2, IInvHolds, PTL DEF Spec, PublishedForGood
=============================================================================
