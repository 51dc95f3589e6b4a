---------------------------- MODULE Idempotency ----------------------------
(***************************************************************************)
(* The idempotency interceptor and its store.  A write request that carries *)
(* a key reserves the key before its handler runs and files the response    *)
(* with it afterwards; a repeat gets the response back.  Every step here is *)
(* a statement of its own against the database: no transaction spans two.   *)
(* A key stands for a key of one account.                                   *)
(***************************************************************************)
EXTENDS Integers, TLC

CONSTANTS Keys,
          Requests,       \* every HTTP request ever sent
          KeyOf, PayloadOf,
          Nobody,         \* the response of a reservation still pending
          Window,         \* how long a reservation lasts (24 hours in the code)
          MaxTime         \* bound: the clock stops here

ASSUME IdempotencyAssumption ==
    /\ DOMAIN KeyOf = Requests /\ \A q \in Requests : KeyOf[q] \in Keys
    /\ DOMAIN PayloadOf = Requests
    /\ Nobody \notin Requests
    /\ Window \in Nat \ {0}
    /\ MaxTime \in Nat

VARIABLES now,
          records,    \* the idempotency_record table, by key
          step,       \* what each request does next
          startedAt,  \* when the interceptor read the clock
          expired,    \* the record each request has found expired
          answer,     \* whose response each request was given
          effects     \* the requests that took effect, and the instant they did

vars == <<now, records, step, startedAt, expired, answer, effects>>

(* A request reserves a key at most once, so a record's id is the request   *)
(* that inserted it.                                                        *)
Record == [id : Requests, payload : {PayloadOf[q] : q \in Requests},
           response : Requests \cup {Nobody}, expiresAt : Nat]

Running == {"insert", "read", "delete", "handle", "complete", "release"}

IdempotencyTypeOK ==
    /\ now \in 0..MaxTime
    /\ DOMAIN records \subseteq Keys /\ records \in [DOMAIN records -> Record]
    /\ step \in [Requests -> {"unsent", "answered", "refused", "failed", "stuck", "lost"}
                               \cup Running]
    /\ startedAt \in [Requests -> 0..MaxTime]
    /\ expired \in [Requests -> Requests \cup {Nobody}]
    /\ answer \in [Requests -> Requests \cup {Nobody}]
    /\ DOMAIN effects \subseteq Requests /\ effects \in [DOMAIN effects -> 0..MaxTime]

Init ==
    /\ now = 0
    /\ records = <<>>
    /\ step = [q \in Requests |-> "unsent"]
    /\ startedAt = [q \in Requests |-> 0]
    /\ expired = [q \in Requests |-> Nobody]
    /\ answer = [q \in Requests |-> Nobody]
    /\ effects = <<>>

-----------------------------------------------------------------------------
Reserved(q) == KeyOf[q] \in DOMAIN records

RecordOf(q) == records[KeyOf[q]]

Reserve(q) ==
    records' = [k \in DOMAIN records \cup {KeyOf[q]} |->
                  IF k = KeyOf[q]
                  THEN [id |-> q, payload |-> PayloadOf[q], response |-> Nobody,
                        expiresAt |-> startedAt[q] + Window]
                  ELSE records[k]]

Forget(q) == records' = [k \in DOMAIN records \ {KeyOf[q]} |-> records[k]]

Goto(q, label) == step' = [step EXCEPT ![q] = label]

-----------------------------------------------------------------------------
Send(q) ==
    /\ step[q] = "unsent"
    /\ startedAt' = [startedAt EXCEPT ![q] = now]
    /\ Goto(q, "insert")
    /\ UNCHANGED <<now, records, expired, answer, effects>>

(* INSERT ... ON CONFLICT DO NOTHING: of two requests one reserves the key.  *)
Insert(q) ==
    /\ step[q] = "insert"
    /\ \/ ~Reserved(q) /\ Reserve(q) /\ Goto(q, "handle")
       \/ Reserved(q) /\ Goto(q, "read") /\ UNCHANGED records
    /\ UNCHANGED <<now, startedAt, expired, answer, effects>>

(* The expiry is compared with the instant the request started at.          *)
HasExpired(q) == RecordOf(q).expiresAt <= startedAt[q]

(* Variant: the payload the key was first used for is not looked at.        *)
SamePayload(q) == TRUE

Repeats(q) == RecordOf(q).payload = PayloadOf[q]

Read(q) ==
    /\ step[q] = "read"
    /\ \/ /\ ~Reserved(q)
          /\ Goto(q, "insert")
          /\ UNCHANGED <<expired, answer>>
       \/ /\ Reserved(q)
          /\ HasExpired(q)
          /\ expired' = [expired EXCEPT ![q] = RecordOf(q).id]
          /\ Goto(q, "delete")
          /\ UNCHANGED answer
       \/ /\ Reserved(q)
          /\ ~HasExpired(q)
          /\ ~Repeats(q) \/ RecordOf(q).response = Nobody
          /\ Goto(q, "refused")
          /\ UNCHANGED <<expired, answer>>
       \/ /\ Reserved(q)
          /\ ~HasExpired(q)
          /\ Repeats(q) /\ RecordOf(q).response # Nobody
          /\ answer' = [answer EXCEPT ![q] = RecordOf(q).response]
          /\ Goto(q, "answered")
          /\ UNCHANGED expired
    /\ UNCHANGED <<now, records, startedAt, effects>>

(* Variant: the reservation is removed by key, whoever has made it since.   *)
DeleteByKey(q) ==
    /\ step[q] = "delete"
    /\ Forget(q)
    /\ expired' = [expired EXCEPT ![q] = Nobody]
    /\ Goto(q, "insert")
    /\ UNCHANGED <<now, startedAt, answer, effects>>

(* Only the record that was read is deleted: another request may have       *)
(* replaced it since.                                                       *)
Delete(q) ==
    /\ step[q] = "delete"
    /\ IF Reserved(q) /\ RecordOf(q).id = expired[q]
       THEN Forget(q)
       ELSE UNCHANGED records
    /\ expired' = [expired EXCEPT ![q] = Nobody]
    /\ Goto(q, "insert")
    /\ UNCHANGED <<now, startedAt, answer, effects>>

TakesEffect(q) ==
    effects' = [p \in DOMAIN effects \cup {q} |-> IF p = q THEN now ELSE effects[p]]

(* The whole handler: its transaction commits or changes nothing, and what   *)
(* it does once it has committed, such as reading back what it answers with *)
(* or reloading the parameters, may fail too.                                *)
Handle(q) ==
    /\ step[q] = "handle"
    /\ \/ TakesEffect(q) /\ \E next \in {"complete", "release"} : Goto(q, next)
       \/ UNCHANGED effects /\ Goto(q, "release")
    /\ UNCHANGED <<now, records, startedAt, expired, answer>>

(* Variant: what is filed replaces the record, payload, expiry and all.     *)
CompleteOver(q) ==
    /\ step[q] = "complete"
    /\ records' = KeyOf[q] :> [id |-> q, response |-> q] @@ records
    /\ answer' = [answer EXCEPT ![q] = q]
    /\ Goto(q, "answered")
    /\ UNCHANGED <<now, startedAt, expired, effects>>

(* The response is filed by key.  A failure to file it is handled as if the *)
(* handler itself had failed.                                               *)
Complete(q) ==
    /\ step[q] = "complete"
    /\ \/ /\ Reserved(q)
          /\ records' = [records EXCEPT ![KeyOf[q]].response = q]
          /\ answer' = [answer EXCEPT ![q] = q]
          /\ Goto(q, "answered")
       \/ Goto(q, "release") /\ UNCHANGED <<records, answer>>
    /\ UNCHANGED <<now, startedAt, expired, effects>>

(* Variant: only a key with a response is given up.                         *)
ReleaseAnswered(q) ==
    /\ step[q] = "release"
    /\ IF Reserved(q) /\ RecordOf(q).response # Nobody
       THEN Forget(q)
       ELSE UNCHANGED records
    /\ Goto(q, "failed")
    /\ UNCHANGED <<now, startedAt, expired, answer, effects>>

(* The key is given up with whatever is filed under it; the release may fail *)
(* as well, and leaves the reservation pending.                             *)
Release(q) ==
    /\ step[q] = "release"
    /\ \/ Forget(q) /\ Goto(q, "failed")
       \/ UNCHANGED records /\ Goto(q, "stuck")
    /\ UNCHANGED <<now, startedAt, expired, answer, effects>>

(* The process dies, or the store fails while the key is claimed: what is    *)
(* reserved stays pending.                                                  *)
Crash(q) ==
    /\ step[q] \in Running
    /\ Goto(q, "lost")
    /\ UNCHANGED <<now, records, startedAt, expired, answer, effects>>

(* Assumed: no request runs for as long as the window lasts.                *)
Prompt == \A q \in Requests : step[q] \in Running => now + 1 < startedAt[q] + Window

Tick ==
    /\ now < MaxTime
    /\ Prompt
    /\ now' = now + 1
    /\ UNCHANGED <<records, step, startedAt, expired, answer, effects>>

Next ==
    \/ \E q \in Requests :
          \/ Send(q) \/ Insert(q) \/ Read(q) \/ Delete(q) \/ Handle(q)
          \/ Complete(q) \/ Release(q) \/ Crash(q)
    \/ Tick

Spec == Init /\ [][Next]_vars
-----------------------------------------------------------------------------
(* Two requests with one key both take effect only when the reservation of   *)
(* the first had expired, or when the first was answered with a failure and  *)
(* gave its key up, although it had taken effect.  However they race and     *)
(* wherever a process dies, nothing else lets a repeat through (the claim of *)
(* the store against the interceptor's catchError).                          *)
OncePerWindow ==
    [][\A q \in DOMAIN effects' \ DOMAIN effects, p \in DOMAIN effects :
          KeyOf[p] = KeyOf[q] =>
            step[p] = "failed" \/ startedAt[p] + Window <= effects'[q]]_vars

(* Rule S3 as it is written, every write is safe to retry: two requests with *)
(* one key never both take effect within a window.  The code breaks it when  *)
(* a request fails after its transaction has committed.                      *)
SafeToRetry ==
    \A p, q \in DOMAIN effects :
        p # q /\ KeyOf[p] = KeyOf[q] =>
            \/ startedAt[p] + Window <= effects[q]
            \/ startedAt[q] + Window <= effects[p]

(* A replayed response is the response of a request that did take effect,    *)
(* that was made with the same key, and that asked for the same thing.       *)
ReplayIsFaithful ==
    \A q \in Requests :
        answer[q] # Nobody =>
            /\ answer[q] \in DOMAIN effects
            /\ KeyOf[answer[q]] = KeyOf[q]
            /\ PayloadOf[answer[q]] = PayloadOf[q]

(* A key is held only by a request at work, by one that has filed its        *)
(* answer, and by one whose process died or could not give the key up: what  *)
(* else failed, or was refused, can be retried at once (the interceptor's    *)
(* catchError against the store's release).                                 *)
NoStuckKey ==
    \A k \in DOMAIN records :
        LET holder == records[k].id IN
        \/ step[holder] \in {"handle", "complete", "release", "stuck", "lost"}
        \/ holder \in DOMAIN effects /\ records[k].response = holder
=============================================================================
