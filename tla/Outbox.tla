------------------------------- MODULE Outbox -------------------------------
(***************************************************************************)
(* The outbox and the workers that drain it.  A use case queues its events  *)
(* in its own transaction.  A drain claims a batch in one transaction, and  *)
(* then, outside any, publishes each event and marks it, or records that it *)
(* failed.  Drains overlap: every process has a timer, which does not wait  *)
(* for the drain it started before.                                         *)
(***************************************************************************)
EXTENDS Integers, FiniteSetsExt

CONSTANTS Events,            \* numbered in the order of their identifiers
          Drains,            \* bound: how many drains may run at once
          BatchSize,
          MaximumAttempts,   \* 5 in the code
          Visibility,        \* ticks a claim holds for (60 seconds in the code)
          CrashLimit         \* bound: how many drains may die

ASSUME OutboxAssumption ==
    /\ Events \subseteq Nat /\ IsFiniteSet(Events)
    /\ BatchSize \in Nat \ {0}
    /\ MaximumAttempts \in Nat \ {0}
    /\ Visibility \in Nat
    /\ CrashLimit \in Nat

VARIABLES rows,        \* the outbox_event table
          dead,        \* the dead_letter_event table
          drains,      \* what each running drain still has in hand
          crashes,     \* how many drains have died
          delivered,   \* history: events a handler has accepted
          overrun      \* history: events some drain held past the window

vars == <<rows, dead, drains, crashes, delivered, overrun>>

Unclaimed == -1   \* a null claimed_at; otherwise the age of the claim, which
                  \* is not told apart once it has expired

Ages == Unclaimed..(Visibility + 1)

(* Attempts are not told apart beyond one more than the maximum.            *)
Attempts == 0..(MaximumAttempts + 1)

Row == [published : BOOLEAN, claimed : Ages, attempts : Attempts]

(* The batch still to do, the attempts each event had when it was claimed,  *)
(* and what comes next for the first of the batch.                          *)
Drain == [batch : SUBSET Events, attempts : [Events -> Attempts],
          next : {"publish", "mark", "fail"}]

Idle == [batch |-> {}, attempts |-> [e \in Events |-> 0], next |-> "publish"]

(* Every event is in the outbox or, given up, among the dead letters.       *)
Queued == DOMAIN rows \cup dead

OutboxTypeOK ==
    /\ DOMAIN rows \subseteq Events /\ rows \in [DOMAIN rows -> Row]
    /\ dead \subseteq Events \ DOMAIN rows
    /\ drains \in [Drains -> Drain]
    /\ crashes \in 0..CrashLimit
    /\ delivered \subseteq Queued /\ overrun \subseteq Queued

Init ==
    /\ rows = <<>>
    /\ dead = {}
    /\ drains = [w \in Drains |-> Idle]
    /\ crashes = 0
    /\ delivered = {}
    /\ overrun = {}

-----------------------------------------------------------------------------
Queue(e) ==
    /\ e \notin Queued
    /\ rows' = [f \in DOMAIN rows \cup {e} |->
                   IF f = e THEN [published |-> FALSE, claimed |-> Unclaimed,
                                  attempts |-> 0]
                            ELSE rows[f]]
    /\ UNCHANGED <<dead, drains, crashes, delivered, overrun>>

(* Variant: nothing keeps another drain away once the row lock is gone.      *)
AnyUnpublished(e) == ~rows[e].published

(* Variant: a claim is never taken over from a drain that died.             *)
NeverClaimed(e) == ~rows[e].published /\ rows[e].claimed = Unclaimed

(* Variant: a row already marked published comes round again.               *)
AnyLapsed(e) == rows[e].claimed = Unclaimed \/ rows[e].claimed > Visibility

Claimable(e) ==
    /\ ~rows[e].published
    /\ rows[e].claimed = Unclaimed \/ rows[e].claimed > Visibility

IsBatch(batch) ==
    LET claimable == {e \in DOMAIN rows : Claimable(e)} IN
    /\ batch \subseteq claimable
    /\ Cardinality(batch) <= BatchSize
    /\ batch # claimable => Cardinality(batch) = BatchSize
    /\ \A e \in batch : \A f \in claimable \ batch : e < f

(* One transaction locks the rows, skipping those another drain is locking, *)
(* and stamps them.                                                         *)
Claim(w, batch) ==
    /\ drains[w].batch = {}
    /\ batch # {}
    /\ IsBatch(batch)
    /\ drains' = [drains EXCEPT ![w] =
                     [batch    |-> batch,
                      attempts |-> [e \in Events |-> IF e \in batch
                                                     THEN rows[e].attempts ELSE 0],
                      next     |-> "publish"]]
    /\ rows' = [e \in DOMAIN rows |->
                   IF e \in batch
                   THEN [rows[e] EXCEPT !.claimed = 0,
                                        !.attempts = Min({@ + 1, MaximumAttempts + 1})]
                   ELSE rows[e]]
    /\ UNCHANGED <<dead, crashes, delivered, overrun>>

Current(w) == Min(drains[w].batch)

(* Done with the current event.                                             *)
Advance(w) ==
    LET rest == drains[w].batch \ {Current(w)} IN
    drains' = [drains EXCEPT ![w] = IF rest = {} THEN Idle
                                    ELSE [@ EXCEPT !.batch = rest, !.next = "publish"]]

Turn(w, next) == drains' = [drains EXCEPT ![w].next = next]

(* An error thrown while a failure is recorded ends the whole drain.        *)
Abandon(w) == drains' = [drains EXCEPT ![w] = Idle]

Publish(w) ==
    /\ drains[w].batch # {}
    /\ drains[w].next = "publish"
    /\ \/ delivered' = delivered \cup {Current(w)} /\ Turn(w, "mark")
       \/ Turn(w, "fail") /\ UNCHANGED delivered
    /\ UNCHANGED <<rows, dead, crashes, overrun>>

(* The update fails on a row that is gone, and that counts as a failure to  *)
(* publish; so does any other error of the database.                        *)
Mark(w) ==
    /\ drains[w].batch # {}
    /\ drains[w].next = "mark"
    /\ \/ /\ Current(w) \in DOMAIN rows
          /\ rows' = [rows EXCEPT ![Current(w)].published = TRUE]
          /\ Advance(w)
       \/ Turn(w, "fail") /\ UNCHANGED rows
    /\ UNCHANGED <<dead, crashes, delivered, overrun>>

(* The count is of the attempts there were when the event was claimed.      *)
Exhausted(w) == drains[w].attempts[Current(w)] + 1 >= MaximumAttempts

ReleaseClaim(e) ==
    /\ rows' = [rows EXCEPT ![e].claimed = Unclaimed]
    /\ UNCHANGED dead

DeadLetter(e) ==
    /\ rows' = [f \in DOMAIN rows \ {e} |-> rows[f]]
    /\ dead' = dead \cup {e}

(* Variant: the event leaves the queue on its first failure.                *)
DropFailed(w) ==
    /\ drains[w].batch # {}
    /\ drains[w].next = "fail"
    /\ Current(w) \in DOMAIN rows
    /\ rows' = [f \in DOMAIN rows \ {Current(w)} |-> rows[f]]
    /\ Advance(w)
    /\ UNCHANGED <<dead, crashes, delivered, overrun>>

RecordFailure(w) ==
    /\ drains[w].batch # {}
    /\ drains[w].next = "fail"
    /\ \/ /\ Current(w) \in DOMAIN rows
          /\ ~Exhausted(w)
          /\ ReleaseClaim(Current(w))
          /\ Advance(w)
       \/ /\ Current(w) \in DOMAIN rows
          /\ Exhausted(w)
          /\ DeadLetter(Current(w))
          /\ Advance(w)
       \/ /\ Current(w) \notin DOMAIN rows
          /\ Abandon(w)
          /\ UNCHANGED <<rows, dead>>
    /\ UNCHANGED <<crashes, delivered, overrun>>

(* The process dies, or the database fails as the failure is recorded.      *)
Crash(w) ==
    /\ drains[w].batch # {}
    /\ crashes < CrashLimit
    /\ crashes' = crashes + 1
    /\ Abandon(w)
    /\ UNCHANGED <<rows, dead, delivered, overrun>>

InHand == UNION {drains[w].batch : w \in Drains}

Tick ==
    /\ \E e \in DOMAIN rows : rows[e].claimed \in 0..Visibility
    /\ rows' = [e \in DOMAIN rows |->
                   IF rows[e].claimed = Unclaimed THEN rows[e]
                   ELSE [rows[e] EXCEPT !.claimed = Min({@ + 1, Visibility + 1})]]
    /\ overrun' = overrun \cup
                    {e \in InHand \cap DOMAIN rows : rows[e].claimed >= Visibility}
    /\ UNCHANGED <<dead, drains, crashes, delivered>>

Work(w) == Publish(w) \/ Mark(w) \/ RecordFailure(w)

Next ==
    \/ \E e \in Events : Queue(e)
    \/ \E w \in Drains, batch \in SUBSET Events : Claim(w, batch)
    \/ \E w \in Drains : Publish(w) \/ Mark(w) \/ RecordFailure(w) \/ Crash(w)
    \/ Tick

Spec == Init /\ [][Next]_vars

(* The timers keep starting drains, a drain that lives goes on, time passes. *)
Fairness ==
    /\ \A w \in Drains : WF_vars(\E batch \in SUBSET Events : Claim(w, batch))
    /\ \A w \in Drains : WF_vars(Work(w))
    /\ WF_vars(Tick)

FairSpec == Spec /\ Fairness
-----------------------------------------------------------------------------
(* Two drains never have the same event in hand, unless one of them held it  *)
(* for longer than the visibility window.  The row locks are gone as soon as *)
(* the claim commits; only the stamp keeps the drains apart.                 *)
ExclusiveClaims ==
    \A v, w \in Drains :
        v # w => drains[v].batch \cap drains[w].batch \subseteq overrun

(* An event is never marked published unless a handler accepted it, and what *)
(* was marked stays marked, unless a drain overran its window on the event.  *)
(* (A late failure then moves a published event to the dead letters.)        *)
PublishedForGood ==
    [][\A e \in DOMAIN rows :
          /\ rows[e].published => e \in delivered
          /\ rows[e].published /\ e \notin overrun' =>
               e \in DOMAIN rows' /\ rows'[e].published]_vars

(* No event is lost or goes round for ever: once queued, it is marked        *)
(* published or becomes a dead letter, although drains may die holding it.   *)
EveryEventSettles ==
    \A e \in Events :
        e \in Queued ~> e \in dead \/ (e \in DOMAIN rows /\ rows[e].published)

(* A comment of the outbox-drain test: a reclaim counts as an attempt, so    *)
(* that a row which always dies mid publish still reaches the dead letter    *)
(* table.  Then no row is claimed again when its attempts are used up, unless *)
(* the drain that used the last one is still at it.                         *)
NoClaimBeyondMaximum ==
    \A e \in DOMAIN rows : rows[e].attempts > MaximumAttempts => e \in overrun
=============================================================================
