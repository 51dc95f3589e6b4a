------------------------- MODULE IdempotencyProofs -------------------------
(***************************************************************************)
(* What the interceptor and its store guarantee for any keys, requests and  *)
(* window.  The heart of the invariant is that a request whose handler may   *)
(* still run holds the record of its key: nobody deletes a reservation that  *)
(* has not expired for him, and no request outlives its own.  A request that *)
(* took effect is therefore on record until its window is over or its own    *)
(* failure gives the key up.                                                *)
(***************************************************************************)
EXTENDS Idempotency, TLAPS

(* Times are in order, and a request runs within its own window.            *)
InTime ==
    \A q \in Requests :
        /\ startedAt[q] <= now
        /\ step[q] \in Running => now < startedAt[q] + Window

(* A record says the truth about the request that reserved the key.          *)
TrueRecord(k) ==
    LET r == records[k] IN
    /\ KeyOf[r.id] = k
    /\ r.payload = PayloadOf[r.id]
    /\ r.expiresAt = startedAt[r.id] + Window
    /\ r.response \in {Nobody, r.id}
    /\ r.response = r.id => r.id \in DOMAIN effects
    /\ \/ step[r.id] \in {"handle", "complete", "release", "stuck", "lost"}
       \/ step[r.id] = "answered" /\ r.response = r.id

TrueRecords == \A k \in DOMAIN records : TrueRecord(k)

OnRecord(q) == Reserved(q) /\ RecordOf(q).id = q

Holding == {"handle", "complete", "release"}

(* A request past its reservation holds its key.                            *)
HoldersOnRecord == \A q \in Requests : step[q] \in Holding => OnRecord(q)

(* Where a request is tells whether it has taken effect.                    *)
EffectsInOrder ==
    \A q \in Requests :
        /\ step[q] = "complete" => q \in DOMAIN effects
        /\ step[q] \in {"unsent", "insert", "read", "delete", "handle"}
             => q \notin DOMAIN effects

(* What a request is about to delete had expired before it started.         *)
DeletesExpired ==
    \A q \in Requests : step[q] = "delete" =>
        /\ expired[q] \in Requests /\ step[expired[q]] # "unsent"
        /\ startedAt[expired[q]] + Window <= startedAt[q]

(* An effect is on record for as long as the window lasts, unless its request *)
(* was answered with a failure and has given the key up.                    *)
EffectsOnRecord ==
    \A q \in DOMAIN effects :
       OnRecord(q) \/ step[q] = "failed" \/ startedAt[q] + Window <= now

IInv ==
    /\ IdempotencyTypeOK /\ InTime /\ TrueRecords /\ HoldersOnRecord
    /\ EffectsInOrder /\ DeletesExpired /\ EffectsOnRecord /\ ReplayIsFaithful

-----------------------------------------------------------------------------
LEMMA SendKeeps ==
    ASSUME IInv, NEW q \in Requests, Send(q)
    PROVE  IInv'
  <1> USE IdempotencyAssumption DEF IInv, Send, Goto, Running, Holding, Reserved, RecordOf
  <1>1. IdempotencyTypeOK'
    BY DEF IdempotencyTypeOK
  <1>2. InTime'
    BY DEF InTime, IdempotencyTypeOK
  <1>3. TrueRecords'
    BY DEF TrueRecords, TrueRecord
  <1>4. HoldersOnRecord'
    BY DEF HoldersOnRecord, OnRecord
  <1>5. EffectsInOrder'
    BY DEF EffectsInOrder
  <1>6. DeletesExpired'
    BY DEF DeletesExpired
  <1>7. EffectsOnRecord'
    BY DEF EffectsOnRecord, OnRecord, EffectsInOrder, IdempotencyTypeOK
  <1>8. ReplayIsFaithful'
    BY DEF ReplayIsFaithful
  <1> QED
    BY <1>1, <1>2, <1>3, <1>4, <1>5, <1>6, <1>7, <1>8

LEMMA InsertKeeps ==
    ASSUME IInv, NEW q \in Requests, Insert(q)
    PROVE  IInv'
  <1> USE IdempotencyAssumption DEF IInv, Insert, Reserve, Goto, Running, Holding, Reserved, RecordOf
  <1>1. IdempotencyTypeOK'
    BY DEF IdempotencyTypeOK, Record
  <1>2. InTime'
    BY DEF InTime, IdempotencyTypeOK
  <1>3. TrueRecords'
    BY DEF TrueRecords, TrueRecord, OnRecord, IdempotencyTypeOK, Record
  <1>4. HoldersOnRecord'
    BY DEF HoldersOnRecord, OnRecord, IdempotencyTypeOK
  <1>5. EffectsInOrder'
    BY DEF EffectsInOrder, IdempotencyTypeOK
  <1>6. DeletesExpired'
    BY DEF DeletesExpired, IdempotencyTypeOK
  <1>7. EffectsOnRecord'
    BY DEF EffectsOnRecord, OnRecord, IdempotencyTypeOK
  <1>8. ReplayIsFaithful'
    BY DEF ReplayIsFaithful
  <1> QED
    BY <1>1, <1>2, <1>3, <1>4, <1>5, <1>6, <1>7, <1>8

LEMMA ReadKeeps ==
    ASSUME IInv, NEW q \in Requests, Read(q)
    PROVE  IInv'
  <1> USE IdempotencyAssumption DEF IInv, Read, Goto, Running, Holding, Reserved, RecordOf
  <1>1. IdempotencyTypeOK'
    BY DEF IdempotencyTypeOK, Record
  <1>2. InTime'
    BY DEF InTime, IdempotencyTypeOK
  <1>3. TrueRecords'
    BY DEF TrueRecords, TrueRecord, IdempotencyTypeOK, Record
  <1>4. HoldersOnRecord'
    BY DEF HoldersOnRecord, OnRecord, IdempotencyTypeOK
  <1>5. EffectsInOrder'
    BY DEF EffectsInOrder, IdempotencyTypeOK
  <1>6. DeletesExpired'
    BY DEF DeletesExpired, TrueRecords, TrueRecord, IdempotencyTypeOK, HasExpired, Record
  <1>7. EffectsOnRecord'
    BY DEF EffectsOnRecord, OnRecord, IdempotencyTypeOK
  <1>8. ReplayIsFaithful'
    BY DEF ReplayIsFaithful, TrueRecords, TrueRecord, Repeats, IdempotencyTypeOK
  <1> QED
    BY <1>1, <1>2, <1>3, <1>4, <1>5, <1>6, <1>7, <1>8

LEMMA DeleteKeeps ==
    ASSUME IInv, NEW q \in Requests, Delete(q)
    PROVE  IInv'
  <1> USE IdempotencyAssumption DEF IInv, Delete, Forget, Goto, Running, Holding, Reserved, RecordOf
  <1>1. IdempotencyTypeOK'
    BY DEF IdempotencyTypeOK
  <1>2. InTime'
    BY DEF InTime
  <1>3. TrueRecords'
    BY DEF TrueRecords, TrueRecord
  <1>4. HoldersOnRecord'
    BY DEF HoldersOnRecord, OnRecord, DeletesExpired, InTime, IdempotencyTypeOK
  <1>5. EffectsInOrder'
    BY DEF EffectsInOrder
  <1>6. DeletesExpired'
    BY DEF DeletesExpired, IdempotencyTypeOK
  <1>7. EffectsOnRecord'
    BY DEF EffectsOnRecord, OnRecord, DeletesExpired, InTime, IdempotencyTypeOK
  <1>8. ReplayIsFaithful'
    BY DEF ReplayIsFaithful
  <1> QED
    BY <1>1, <1>2, <1>3, <1>4, <1>5, <1>6, <1>7, <1>8

LEMMA HandleKeeps ==
    ASSUME IInv, NEW q \in Requests, Handle(q)
    PROVE  IInv'
  <1> USE IdempotencyAssumption DEF IInv, Handle, TakesEffect, Goto, Running, Holding, Reserved, RecordOf
  <1>1. IdempotencyTypeOK'
    BY DEF IdempotencyTypeOK
  <1>2. InTime'
    BY DEF InTime, IdempotencyTypeOK
  <1>3. TrueRecords'
    BY DEF TrueRecords, TrueRecord, IdempotencyTypeOK, Record
  <1>4. HoldersOnRecord'
    BY DEF HoldersOnRecord, OnRecord, IdempotencyTypeOK
  <1>5. EffectsInOrder'
    BY DEF EffectsInOrder, IdempotencyTypeOK
  <1>6. DeletesExpired'
    BY DEF DeletesExpired, IdempotencyTypeOK
  <1>7. EffectsOnRecord'
    BY DEF EffectsOnRecord, OnRecord, HoldersOnRecord, IdempotencyTypeOK
  <1>8. ReplayIsFaithful'
    BY DEF ReplayIsFaithful
  <1> QED
    BY <1>1, <1>2, <1>3, <1>4, <1>5, <1>6, <1>7, <1>8

LEMMA CompleteKeeps ==
    ASSUME IInv, NEW q \in Requests, Complete(q)
    PROVE  IInv'
  <1> USE IdempotencyAssumption DEF IInv, Complete, Goto, Running, Holding, Reserved, RecordOf
  <1>1. IdempotencyTypeOK'
    BY DEF IdempotencyTypeOK, Record
  <1>2. InTime'
    BY DEF InTime, IdempotencyTypeOK
  <1>3. TrueRecords'
    BY DEF TrueRecords, TrueRecord, EffectsInOrder, HoldersOnRecord, OnRecord, IdempotencyTypeOK, Record
  <1>4. HoldersOnRecord'
    BY DEF HoldersOnRecord, OnRecord, IdempotencyTypeOK
  <1>5. EffectsInOrder'
    BY DEF EffectsInOrder, IdempotencyTypeOK
  <1>6. DeletesExpired'
    BY DEF DeletesExpired, IdempotencyTypeOK
  <1>7. EffectsOnRecord'
    BY DEF EffectsOnRecord, OnRecord, IdempotencyTypeOK, Record
  <1>8. ReplayIsFaithful'
    BY DEF ReplayIsFaithful, EffectsInOrder, IdempotencyTypeOK
  <1> QED
    BY <1>1, <1>2, <1>3, <1>4, <1>5, <1>6, <1>7, <1>8

LEMMA ReleaseKeeps ==
    ASSUME IInv, NEW q \in Requests, Release(q)
    PROVE  IInv'
  <1> USE IdempotencyAssumption DEF IInv, Release, Forget, Goto, Running, Holding, Reserved, RecordOf
  <1>1. IdempotencyTypeOK'
    BY DEF IdempotencyTypeOK
  <1>2. InTime'
    BY DEF InTime, IdempotencyTypeOK
  <1>3. TrueRecords'
    <2>1. CASE Forget(q) /\ Goto(q, "failed")
      <3> SUFFICES ASSUME NEW k \in DOMAIN records'
                   PROVE  TrueRecord(k)'
        BY DEF TrueRecords
      <3>1. k \in DOMAIN records /\ k # KeyOf[q] /\ records'[k] = records[k]
        BY <2>1
      <3>2. TrueRecord(k) /\ records[k].id \in Requests /\ records[k].id # q
        BY <3>1 DEF TrueRecords, TrueRecord, IdempotencyTypeOK, Record
      <3> QED
        BY <2>1, <3>1, <3>2 DEF TrueRecord, IdempotencyTypeOK
    <2>2. CASE UNCHANGED records /\ Goto(q, "stuck")
      BY <2>2 DEF TrueRecords, TrueRecord, IdempotencyTypeOK, Record
    <2> QED
      BY <2>1, <2>2
  <1>4. HoldersOnRecord'
    BY DEF HoldersOnRecord, OnRecord, IdempotencyTypeOK
  <1>5. EffectsInOrder'
    BY DEF EffectsInOrder, IdempotencyTypeOK
  <1>6. DeletesExpired'
    BY DEF DeletesExpired, IdempotencyTypeOK
  <1>7. EffectsOnRecord'
    <2>1. CASE Forget(q) /\ Goto(q, "failed")
      BY <2>1 DEF EffectsOnRecord, OnRecord, HoldersOnRecord, IdempotencyTypeOK
    <2>2. CASE UNCHANGED records /\ Goto(q, "stuck")
      BY <2>2 DEF EffectsOnRecord, OnRecord, IdempotencyTypeOK
    <2> QED
      BY <2>1, <2>2
  <1>8. ReplayIsFaithful'
    BY DEF ReplayIsFaithful, IdempotencyTypeOK
  <1> QED
    BY <1>1, <1>2, <1>3, <1>4, <1>5, <1>6, <1>7, <1>8

LEMMA CrashKeeps ==
    ASSUME IInv, NEW q \in Requests, Crash(q)
    PROVE  IInv'
  <1> USE IdempotencyAssumption DEF IInv, Crash, Goto, Running, Holding, Reserved, RecordOf
  <1>1. IdempotencyTypeOK'
    BY DEF IdempotencyTypeOK
  <1>2. InTime'
    BY DEF InTime
  <1>3. TrueRecords'
    BY DEF TrueRecords, TrueRecord
  <1>4. HoldersOnRecord'
    BY DEF HoldersOnRecord, OnRecord
  <1>5. EffectsInOrder'
    BY DEF EffectsInOrder
  <1>6. DeletesExpired'
    BY DEF DeletesExpired
  <1>7. EffectsOnRecord'
    BY DEF EffectsOnRecord, OnRecord, IdempotencyTypeOK
  <1>8. ReplayIsFaithful'
    BY DEF ReplayIsFaithful
  <1> QED
    BY <1>1, <1>2, <1>3, <1>4, <1>5, <1>6, <1>7, <1>8

LEMMA TickKeeps ==
    ASSUME IInv, Tick
    PROVE  IInv'
  <1> USE IdempotencyAssumption DEF IInv, Tick, Prompt, Goto, Running, Holding, Reserved, RecordOf
  <1>1. IdempotencyTypeOK'
    BY DEF IdempotencyTypeOK
  <1>2. InTime'
    BY DEF InTime, IdempotencyTypeOK
  <1>3. TrueRecords'
    BY DEF TrueRecords, TrueRecord
  <1>4. HoldersOnRecord'
    BY DEF HoldersOnRecord, OnRecord
  <1>5. EffectsInOrder'
    BY DEF EffectsInOrder
  <1>6. DeletesExpired'
    BY DEF DeletesExpired
  <1>7. EffectsOnRecord'
    BY DEF EffectsOnRecord, OnRecord, IdempotencyTypeOK
  <1>8. ReplayIsFaithful'
    BY DEF ReplayIsFaithful
  <1> QED
    BY <1>1, <1>2, <1>3, <1>4, <1>5, <1>6, <1>7, <1>8

-----------------------------------------------------------------------------
LEMMA StartsTrue == Init => IInv
  BY IdempotencyAssumption
     DEF Init, IInv, IdempotencyTypeOK, Record, Running, InTime, TrueRecords, TrueRecord,
         OnRecord, Holding, HoldersOnRecord, EffectsInOrder, DeletesExpired, EffectsOnRecord,
         ReplayIsFaithful

LEMMA StaysTrue ==
    ASSUME IInv, [Next]_vars
    PROVE  IInv'
  <1>1. ASSUME NEW q \in Requests,
               \/ Send(q) \/ Insert(q) \/ Read(q) \/ Delete(q) \/ Handle(q)
               \/ Complete(q) \/ Release(q) \/ Crash(q)
        PROVE  IInv'
    BY <1>1, SendKeeps, InsertKeeps, ReadKeeps, DeleteKeeps, HandleKeeps, CompleteKeeps,
       ReleaseKeeps, CrashKeeps
  <1>2. CASE Tick
    BY <1>2, TickKeeps
  <1>3. CASE UNCHANGED vars
    BY <1>3 DEF vars, IInv, IdempotencyTypeOK, Record, Running, InTime, TrueRecords, TrueRecord,
         Reserved, RecordOf, OnRecord, Holding, HoldersOnRecord, EffectsInOrder, DeletesExpired,
         EffectsOnRecord, ReplayIsFaithful
  <1> QED
    BY <1>1, <1>2, <1>3 DEF Next

LEMMA IInvHolds == Spec => []IInv
  BY StartsTrue, StaysTrue, PTL DEF Spec

(* The store's rows, the requests and their answers stay well-formed,        *)
(* whatever the requests and the window.                                    *)
THEOREM IdempotencyTypeCorrect == Spec => []IdempotencyTypeOK
  <1>1. IInv => IdempotencyTypeOK
    BY DEF IInv
  <1> QED
    BY <1>1, IInvHolds, PTL

(* The interceptor never answers a request with what another account, key or *)
(* payload got, nor with the answer of a request that took no effect.       *)
THEOREM ReplaysAreFaithful == Spec => []ReplayIsFaithful
  <1>1. IInv => ReplayIsFaithful
    BY DEF IInv
  <1> QED
    BY <1>1, IInvHolds, PTL

(* A key in the table belongs to a request that is still at work, has filed  *)
(* its answer, has died, or could not give the key up: every other failure   *)
(* leaves the key free.                                                      *)
THEOREM KeysAreGivenBack == Spec => []NoStuckKey
  <1>1. IInv => NoStuckKey
    BY DEF IInv, TrueRecords, TrueRecord, NoStuckKey, IdempotencyTypeOK, Record
  <1> QED
    BY <1>1, IInvHolds, PTL

(* Of any number of requests with one key that race, retry and die, one takes *)
(* effect within the window of another only after that one has failed with   *)
(* its effect committed, and given the key up.                               *)
THEOREM RetriesAreSafe == Spec => OncePerWindow
  <1>1. ASSUME IInv, [Next]_vars
        PROVE  [\A q \in DOMAIN effects' \ DOMAIN effects, p \in DOMAIN effects :
                  KeyOf[p] = KeyOf[q] =>
                    step[p] = "failed" \/ startedAt[p] + Window <= effects'[q]]_vars
    <2>1. ASSUME NEW r \in Requests, Handle(r), TakesEffect(r),
                 NEW q \in DOMAIN effects' \ DOMAIN effects, NEW p \in DOMAIN effects,
                 KeyOf[p] = KeyOf[q]
          PROVE  step[p] = "failed" \/ startedAt[p] + Window <= effects'[q]
      <3>1. q = r /\ effects'[q] = now
        BY <2>1 DEF TakesEffect
      <3>2. OnRecord(q) /\ p # q /\ p \in Requests
        BY <1>1, <2>1, <3>1 DEF IInv, HoldersOnRecord, Holding, Handle, IdempotencyTypeOK
      <3>3. ~OnRecord(p)
        BY <2>1, <3>2 DEF OnRecord, RecordOf
      <3> QED
        BY <1>1, <3>1, <3>3 DEF IInv, EffectsOnRecord
    <2>2. UNCHANGED effects \/ \E r \in Requests : Handle(r) /\ TakesEffect(r)
      BY <1>1 DEF Next, vars, Send, Insert, Read, Delete, Handle, Complete, Release, Crash, Tick
    <2> QED
      BY <2>1, <2>2
  <1> QED
    BY <1>1, IInvHolds, PTL DEF Spec, OncePerWindow

=============================================================================
