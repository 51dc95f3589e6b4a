------------------------------- MODULE Console -------------------------------
(***************************************************************************)
(* A browser tab at work: a form pressed again and again, the idempotency   *)
(* keys it sends, the requests, the server behind them, and a query of the  *)
(* same application whose cached answer the page shows.  Answers are late   *)
(* or lost, a slow request reaches the server after the page has given it   *)
(* up, a button is clicked twice before it is drawn disabled, an unchanged  *)
(* form is sent again, and the session ends.  All of it happens within the  *)
(* replay window of a key.                                                  *)
(*                                                                         *)
(* Forms share no state with each other, nor do queries, so a behaviour     *)
(* follows one form and one query that answers from what the form changes,  *)
(* chosen at the start from the tables of Pages.  Idempotency shows how the *)
(* server claims a key; here a claim is one step.                           *)
(***************************************************************************)
EXTENDS Pages, Naturals, Sequences

CONSTANTS Payloads,    \* what the form may be filled in with
          MaxPresses,  \* bound: how often a form is pressed
          Persistent   \* the forms that are pressed once more, by name

ASSUME ConsoleAssumption == MaxPresses \in Nat

VARIABLES scene,     \* the form and the query followed, and where they are shown
          page,
          key,       \* the press that first used the form's present keys; 0 if none has
          presses,   \* every press, and what became of it
          data,      \* what the query's cached answer has seen
          fetch,     \* the query's fetch: idle, asked, or got, and what it brings
          failed,    \* whether the fetch that ended last failed and left an old answer
          joined,    \* whether the page was opened on a fetch already under way
          filed,     \* the server's record of each key
          took,      \* the calls that took effect: <<press, number of the call>>
          freed,     \* those that were answered with a failure, their key given up
          excused    \* the intents whose key a late answer replaced

cache == <<data, fetch, failed, joined>>
server == <<filed, took, freed>>
vars == <<scene, page, key, presses, cache, server, excused>>

Nothing == {<<0, 0>>}   \* no answer: no press is number 0

Idle == [step |-> "idle", brings |-> {}]
Asked == [step |-> "asked", brings |-> {}]
Got(seen) == [step |-> "got", brings |-> seen]

-----------------------------------------------------------------------------
(* Where the user goes: to the form, to the query, where a success leads,    *)
(* or, if each of these shows both or each shows the query, away from them;  *)
(* of the pages that are alike in this, to one.                             *)
Kind(p, f, q) == <<f \in FormsOf(p), q \in QueriesOf(p), p = f.opens>>

Destinations(f, q) ==
    LET near == {p \in PagesOf(f) : \E i \in 1..3 : Kind(p, f, q)[i]}
        away == {p \in PagesOf(f) \ near :
                   \/ \A n \in near : f \in FormsOf(n)
                   \/ \A n \in near : q \in QueriesOf(n)}
    IN  {p \in near : p = CHOOSE a \in near : Kind(a, f, q) = Kind(p, f, q)}
          \cup {p \in away : p = CHOOSE a \in away : TRUE}

(* What a behaviour follows: a form, a query, what the pages visited show of *)
(* the two, how the form stands to the query, and who the user is.          *)
Scene(f, q) ==
    [form |-> f, query |-> q,
     shows |-> [p \in Destinations(f, q) |->
                  {what \in {"form", "query"} :
                     \/ what = "form" /\ f \in FormsOf(p)
                     \/ what = "query" /\ q \in QueriesOf(p)}],
     waits |-> q \in CardOf(f).waits,
     hides |-> q \in CardOf(f).hides,
     drops |-> q \in CardOf(f).drops,
     roles |-> PageTable[HomeOf(f)].guard]

form == scene.form
query == scene.query

Shows(p, what) == what \in scene.shows[p]

PressesLeft ==
    MaxPresses - Len(presses) + (IF form.name \in Persistent THEN 1 ELSE 0)

Mounted == Shows(page, "query")

Latest == Len(presses)

Same(p, r) == presses[p].intent = presses[r].intent

CallOf(p) == form.calls[presses[p].at]

(* The header reaches the interceptor only if the form draws a key, the     *)
(* client function passes it on and the route has the interceptor.          *)
Keyed(call) ==
    call.key # "none" /\ call.call \in PassesKey /\ Writes[call.call].keyed

(* The work of a call that only the interceptor keeps from being done again. *)
Exposed(call) == Keyed(call) /\ Writes[call.call].repeatable

(* What the proofs ask of the tables, for every form of the applications:    *)
(* an exposed call is the form's only one, under a key that is drawn with    *)
(* the card and lasts until a success; a form that never replaces its keys   *)
(* is left when it has succeeded; and what a page shows beside a form is     *)
(* invalidated by its success, but for the audit list and what goes away.   *)
HoldsItsKey(f) ==
    \A i \in DOMAIN f.calls : Exposed(f.calls[i]) =>
      Len(f.calls) = 1 /\ f.calls[i].key = "mount" /\ f.replacesKey = {"ok"}

IsLeft(f) == f.opens # "same" /\ f \notin FormsOf(f.opens)

ShowsItsWork(f) ==
    \A p \in PagesOf(f), q \in QueriesFor(f) :
      f \in FormsOf(p) /\ q \in QueriesOf(p) => q \in f.refreshes \cup f.ends \cup {"audit"}

ASSUME FormsAssumption ==
    \A f \in Forms :
      /\ f.calls \in Seq([call : DOMAIN Writes, key : {"mount", "press", "none"}])
      /\ Len(f.calls) \in 1..2 /\ f.starts \subseteq DOMAIN f.calls
      /\ f.opens \in PagesOf(f) \cup {"same"}
      /\ HoldsItsKey(f)
      /\ "ok" \in f.replacesKey \/ IsLeft(f)
      /\ ShowsItsWork(f)

(* Variant: every press draws a key of its own.                              *)
KeyOfPress(p) == <<"press", p, presses[p].at>>

KeyOf(p) ==
    IF CallOf(p).key = "press" THEN <<"press", p, presses[p].at>>
                               ELSE <<"mount", presses[p].gen, presses[p].at>>

-----------------------------------------------------------------------------
Answered == {"ok", "failed", "refused", "unheard"}

PressRecord ==
    [intent : 1..MaxPresses + 1,   \* the first press made for the same purpose
     payload : Payloads,
     gen : 1..MaxPresses + 1,      \* the first press with the same keys
     start : 1..2,             \* the call it begins with
     at : 1..2,                \* which of the form's calls it has come to
     client : {"pending", "settling", "ok", "error"},
     server : {"sent", "running"} \cup Answered,
     here : BOOLEAN]           \* whether its form is still on the page

ConsoleTypeOK ==
    /\ page \in DOMAIN scene.shows
    /\ key \in 0..Latest
    /\ presses \in Seq(PressRecord) /\ PressesLeft >= 0
    /\ \A p \in 1..Latest : presses[p].at \in DOMAIN form.calls
    /\ took \subseteq (1..Latest) \X DOMAIN form.calls
    /\ freed \subseteq (1..Latest) \X DOMAIN form.calls
    /\ data = Nothing \/ data \subseteq took
    /\ fetch \in {Idle, Asked} \/ (fetch.step = "got" /\ fetch.brings \subseteq took)
    /\ failed \in BOOLEAN /\ joined \in BOOLEAN
    /\ \A k \in DOMAIN filed : filed[k] \in [by : 1..Latest, done : BOOLEAN]
    /\ excused \subseteq 1..Latest

Init ==
    /\ scene \in UNION {{Scene(f, q) : q \in QueriesFor(f)} : f \in Forms}
    /\ page \in {p \in DOMAIN scene.shows : Shows(p, "form")}
    /\ key = 0 /\ presses = <<>>
    /\ data = Nothing /\ failed = FALSE /\ joined = FALSE
    /\ fetch = IF Mounted THEN Asked ELSE Idle
    /\ filed = <<>> /\ took = {} /\ freed = {} /\ excused = {}

-----------------------------------------------------------------------------
(* Queries.  A page asks its queries when it is opened, unless a fetch is    *)
(* already under way, which it joins; its cards are mounted anew, with new   *)
(* keys.                                                                    *)
GoTo(p, underWay) ==
    LET asks == Shows(p, "query")
    IN  /\ page' = p
        /\ key' = 0
        /\ fetch' = IF asks /\ underWay = Idle THEN Asked ELSE underWay
        /\ joined' = IF asks /\ underWay # Idle THEN joined \/ ~Mounted ELSE FALSE
        /\ UNCHANGED <<data, failed>>

Leave == presses' = [p \in DOMAIN presses |-> [presses[p] EXCEPT !.here = FALSE]]

Open(p) ==
    /\ p # page
    /\ GoTo(p, fetch) /\ Leave
    /\ UNCHANGED <<scene, server, excused>>

(* Variant: an answer on its way is good enough.                             *)
InvalidatedIfIdle == IF Mounted /\ fetch = Idle THEN Asked ELSE fetch

(* An answer on its way is thrown away, and the query asked again, if it is  *)
(* on the page; otherwise it is only marked stale.                          *)
Invalidated == IF Mounted THEN Asked ELSE fetch

Refocus ==
    /\ Mounted /\ fetch = Idle
    /\ fetch' = Asked /\ joined' = FALSE
    /\ UNCHANGED <<scene, page, key, presses, data, failed, server, excused>>

AnswerRead ==
    /\ fetch = Asked
    /\ Admits(Reads[Asks[query]].who, TRUE, scene.roles)
    /\ fetch' = Got({t \in took : Touches(form.calls[t[2]].call, query)})
    /\ UNCHANGED <<scene, page, key, presses, data, failed, joined, server, excused>>

Deliver ==
    /\ fetch.step = "got"
    /\ data' = fetch.brings /\ failed' = FALSE /\ fetch' = Idle
    /\ UNCHANGED <<scene, page, key, presses, joined, server, excused>>

(* A fetch may fail at any time, and does once the session has ended.  The   *)
(* cached answer stays, but a card may draw the error in its place, and a    *)
(* form that is a component of its own within the card then goes away.      *)
FailRead ==
    /\ fetch = Asked
    /\ fetch' = Idle /\ failed' = (data # Nothing)
    /\ IF scene.drops /\ Shows(page, "form")
         THEN key' = 0 /\ Leave
         ELSE UNCHANGED <<key, presses>>
    /\ UNCHANGED <<scene, page, data, joined, server, excused>>

-----------------------------------------------------------------------------
(* Pressing.  The button is disabled until the last press is done with; a    *)
(* double click gets in before that is drawn.  Filled in as it was when a    *)
(* press failed, with no success since, the form is sent for the same        *)
(* purpose again.                                                           *)
Ready ==
    /\ Shows(page, "form")
    /\ scene.waits => data # Nothing
    /\ scene.hides => ~failed
    /\ Latest > 0 /\ presses[Latest].here => presses[Latest].client \in {"ok", "error"}

Retried(payload) ==
    {r \in 1..Latest :
       /\ presses[r].here /\ presses[r].payload = payload
       /\ presses[r].client = "error"
       /\ \A s \in r..Latest : presses[s].client # "ok"}

PressRow(payload, start) ==
    LET next == Latest + 1
    IN  [intent |-> IF Retried(payload) = {} THEN next
                    ELSE presses[CHOOSE r \in Retried(payload) : TRUE].intent,
         payload |-> payload, gen |-> IF key = 0 THEN next ELSE key,
         start |-> start, at |-> start,
         client |-> "pending", server |-> "sent", here |-> TRUE]

(* The calls a press may begin with: sent for the same purpose again, a form *)
(* leaves out no more than it did, unless the page shows it done by now.    *)
Starts(payload) ==
    {call \in form.starts :
       \A r \in Retried(payload) :
         call <= presses[r].start \/ \E s \in 1..Latest : Same(s, r) /\ <<s, 1>> \in data}

PressButton(payload, start, clicks) ==
    /\ clicks <= PressesLeft /\ Ready /\ start \in Starts(payload)
    /\ presses' = presses \o [i \in 1..clicks |-> PressRow(payload, start)]
    /\ key' = PressRow(payload, start).gen
    /\ UNCHANGED <<scene, page, cache, server, excused>>

(* Variant: nothing replaces a key.                                         *)
ReplacesNever(answer) == FALSE

Replaces(answer) == answer \in form.replacesKey

(* A form that has left the page has no key to replace.  What was pressed    *)
(* after the press that is answered loses its key.                          *)
NewKeys(p, answer) ==
    IF presses[p].here /\ Replaces(answer)
      THEN /\ key' = 0
           /\ excused' = excused \cup {presses[r].intent : r \in (p + 1)..Latest}
      ELSE UNCHANGED <<key, excused>>

NextCall(p) ==
    /\ presses[p].client = "pending" /\ presses[p].server = "ok"
    /\ presses[p].at < Len(form.calls)
    /\ presses' = [presses EXCEPT ![p].at = @ + 1, ![p].server = "sent"]
    /\ UNCHANGED <<scene, page, key, cache, server, excused>>

Succeed(p) ==
    /\ presses[p].client = "pending" /\ presses[p].server = "ok"
    /\ presses[p].at = Len(form.calls)
    /\ presses' = [presses EXCEPT ![p].client = "settling"]
    /\ NewKeys(p, "ok")
    /\ UNCHANGED <<scene, page, cache, server>>

(* One query is invalidated after another, and only then is the next page    *)
(* opened, wherever the user has gone meanwhile.                            *)
Settle(p) ==
    LET refreshed == IF query \in form.refreshes THEN Invalidated ELSE fetch
        settled == [presses EXCEPT ![p].client = "ok"]
    IN  /\ presses[p].client = "settling"
        /\ IF form.opens \in {"same", page}
             THEN /\ presses' = settled
                  /\ fetch' = refreshed
                  /\ joined' = (joined /\ fetch = refreshed)
                  /\ UNCHANGED <<page, key, data, failed>>
             ELSE /\ presses' = [r \in DOMAIN settled |-> [settled[r] EXCEPT !.here = FALSE]]
                  /\ GoTo(form.opens, refreshed)
        /\ UNCHANGED <<scene, server, excused>>

(* Refused or failed, or nothing heard of it: the page gives the press up.   *)
GiveUp(p) ==
    /\ presses[p].client = "pending"
    /\ presses' = [presses EXCEPT ![p].client = "error",
                                  ![p].server = IF @ \in Answered THEN "unheard" ELSE @]
    /\ NewKeys(p, "error")
    /\ fetch' = IF query \in form.rereads THEN Invalidated ELSE fetch
    /\ joined' = (joined /\ fetch = fetch')
    /\ UNCHANGED <<scene, page, data, failed, server>>

-----------------------------------------------------------------------------
(* The server.                                                              *)
Arrives(p) == presses[p].server = "sent"

(* The answer to a press that was given up is not heard.                     *)
Heard(p, answer) ==
    IF presses[p].client = "pending" \/ answer \notin Answered THEN answer ELSE "unheard"

Answer(p, answer) == presses' = [presses EXCEPT ![p].server = Heard(p, answer)]

(* The session has ended, or does not have the role.                        *)
Deny(p) ==
    /\ Arrives(p)
    /\ Answer(p, "failed")
    /\ UNCHANGED <<scene, page, key, cache, server, excused>>

Guarded(p) == Keyed(CallOf(p)) /\ KeyOf(p) \in DOMAIN filed

Reserved(p) ==
    [k \in DOMAIN filed \cup {KeyOf(p)} |->
        IF k = KeyOf(p) THEN [by |-> p, done |-> FALSE] ELSE filed[k]]

Claim(p) ==
    /\ Arrives(p) /\ Admits(Writes[CallOf(p).call].who, TRUE, scene.roles)
    /\ ~Guarded(p)
    /\ Answer(p, "running")
    /\ filed' = IF Keyed(CallOf(p)) THEN Reserved(p) ELSE filed
    /\ UNCHANGED <<scene, page, key, cache, took, freed, excused>>

(* Variant: the record says nothing of the request it was filed for.         *)
AnyRequest(p) == TRUE

SameRequest(p) == presses[filed[KeyOf(p)].by].payload = presses[p].payload

Replay(p) ==
    /\ Arrives(p) /\ Admits(Writes[CallOf(p).call].who, TRUE, scene.roles)
    /\ Guarded(p) /\ SameRequest(p) /\ filed[KeyOf(p)].done
    /\ Answer(p, "ok")
    /\ UNCHANGED <<scene, page, key, cache, server, excused>>

Refuse(p) ==
    /\ Arrives(p) /\ Admits(Writes[CallOf(p).call].who, TRUE, scene.roles)
    /\ Guarded(p) /\ ~(SameRequest(p) /\ filed[KeyOf(p)].done)
    /\ Answer(p, "refused")
    /\ UNCHANGED <<scene, page, key, cache, server, excused>>

DoneFor(p) == \E r \in 1..Latest : Same(r, p) /\ <<r, presses[p].at>> \in took

(* The work is done, or was done before and is confirmed.                    *)
Work(p) ==
    took' = IF Writes[CallOf(p).call].repeatable \/ ~DoneFor(p)
            THEN took \cup {<<p, presses[p].at>>} ELSE took

(* And the answer is filed.                                                 *)
Finish(p) ==
    /\ presses[p].server = "running"
    /\ Work(p)
    /\ filed' = IF Keyed(CallOf(p)) THEN [filed EXCEPT ![KeyOf(p)].done = TRUE] ELSE filed
    /\ Answer(p, "ok")
    /\ UNCHANGED <<scene, page, key, cache, freed, excused>>

Unfiled(p) == [k \in DOMAIN filed \ {KeyOf(p)} |-> filed[k]]

(* A failure gives the key up, unless that fails as well or the process is   *)
(* dead.                                                                    *)
Reject(p) ==
    /\ presses[p].server = "running"
    /\ filed' \in {filed, IF Keyed(CallOf(p)) THEN Unfiled(p) ELSE filed}
    /\ Answer(p, "failed")
    /\ UNCHANGED <<scene, page, key, cache, took, freed, excused>>

(* So does a failure that follows the work: of what the handler reads back   *)
(* or reloads once it has committed, or of the filing of the answer.        *)
FailAfterwards(p) ==
    /\ presses[p].server = "running" /\ Keyed(CallOf(p))
    /\ Work(p)
    /\ \/ filed' = Unfiled(p) /\ freed' = freed \cup {<<p, presses[p].at>>}
       \/ UNCHANGED <<filed, freed>>
    /\ Answer(p, "failed")
    /\ UNCHANGED <<scene, page, key, cache, excused>>

-----------------------------------------------------------------------------
Next ==
    \/ \E p \in DOMAIN scene.shows : Open(p)
    \/ Refocus \/ AnswerRead \/ Deliver \/ FailRead
    \/ \E payload \in Payloads, start, clicks \in 1..2 : PressButton(payload, start, clicks)
    \/ \E p \in 1..Latest :
         \/ NextCall(p) \/ Succeed(p) \/ Settle(p) \/ GiveUp(p)
         \/ Deny(p) \/ Claim(p) \/ Replay(p) \/ Refuse(p)
         \/ Finish(p) \/ Reject(p) \/ FailAfterwards(p)

Spec == Init /\ [][Next]_vars

-----------------------------------------------------------------------------
(* What a user sets out to do is done once, however often the button is      *)
(* pressed for it and whatever becomes of the answers, unless the call       *)
(* carries no key, the late answer to an earlier press has replaced the key  *)
(* under a later one, or the first was answered with a failure after its     *)
(* work was done and gave its key up (the page's useState key against the    *)
(* interceptor's record).                                                   *)
PressedOnce ==
    [][\A t \in took' \ took, s \in took :
         s[2] = t[2] /\ Same(s[1], t[1])
           => \/ ~Keyed(form.calls[s[2]])
              \/ presses[s[1]].intent \in excused
              \/ s \in freed]_vars

(* What the page reports as done has been done: no replay answers for        *)
(* something else the user asked for under the same key.                    *)
ReportedIsDone ==
    \A p \in 1..Latest : presses[p].client \in {"settling", "ok"} =>
      \A i \in presses[p].start..Len(form.calls) : \E r \in 1..Latest : Same(p, r) /\ <<r, i>> \in took

(* A page that has nothing to fetch shows what its user has done: a query    *)
(* beside the form, or one the form invalidates, has seen what every press   *)
(* reported done has asked for, once a fetch has succeeded.  If the last one *)
(* failed, most cards draw an error, and a few the answer they had.  The     *)
(* audit list is an exception (pausing refreshes the switch beside it and    *)
(* not the list), and so is a page opened on a fetch already under way,      *)
(* which shows what that fetch found.                                       *)
OwnWritesSeen ==
    /\ Mounted /\ fetch = Idle /\ data # Nothing /\ ~failed /\ ~joined
    /\ query \notin form.ends \cup {"audit"}
    => \A t \in took :
         /\ Touches(form.calls[t[2]].call, query)
         /\ \E p \in 1..Latest : /\ Same(p, t[1]) /\ presses[p].gen = presses[t[1]].gen
                                 /\ presses[p].start <= t[2]
                                 /\ p = t[1] \/ Keyed(form.calls[t[2]])
                                 /\ presses[p].client = "ok"
                                 /\ presses[p].here \/ query \in form.refreshes
         => t \in data

(* A press the page waits for is refused for its key only while an earlier   *)
(* one under that key has not been answered with success: after a success    *)
(* the next press is a new request.                                         *)
RefusedOnlyAfterFailure ==
    [][\A p \in 1..Latest :
         presses'[p].server = "refused" /\ Arrives(p) /\ presses[p].client = "pending" =>
           \E r \in (1..Latest) \ {p} : presses[r].gen = presses[p].gen
                                          /\ presses[r].client # "ok"]_vars
=============================================================================
