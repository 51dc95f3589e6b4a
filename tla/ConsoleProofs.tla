---------------------------- MODULE ConsoleProofs ----------------------------
(***************************************************************************)
(* Proofs about a browser tab at work, for any number of presses and for     *)
(* every form of the applications.  The page's side comes first (which       *)
(* presses share a key, a purpose and a place on the page), then the         *)
(* server's (whose record a key is, what was done), then the two together.   *)
(***************************************************************************)
EXTENDS Console, SequenceTheorems, TLAPS

-----------------------------------------------------------------------------
(* Types.                                                                   *)

(* What is followed is a form of the tables and one of its queries.         *)
SceneInv ==
    /\ form \in Forms /\ query \in QueriesFor(form)
    /\ scene = Scene(form, query)

RowShape ==
    \A p \in 1..Latest :
      /\ presses[p].intent \in 1..p /\ presses[p].gen \in 1..p
      /\ presses[p].start \in DOMAIN form.calls /\ presses[p].start <= presses[p].at

TypeInv ==
    /\ ConsoleTypeOK /\ SceneInv /\ RowShape
    /\ filed = [k \in DOMAIN filed |-> filed[k]]

(* What the tables say of the form that is followed.                        *)
LEMMA FormFacts ==
    ASSUME SceneInv
    PROVE  /\ form.calls \in Seq([call : DOMAIN Writes, key : {"mount", "press", "none"}])
           /\ Len(form.calls) \in 1..2 /\ DOMAIN form.calls = 1..Len(form.calls)
           /\ form.starts \subseteq DOMAIN form.calls
           /\ form.opens \in PagesOf(form) \cup {"same"}
           /\ HoldsItsKey(form)
           /\ "ok" \in form.replacesKey \/ IsLeft(form)
           /\ ShowsItsWork(form)
    BY FormsAssumption, LenProperties DEF SceneInv

(* A step that changes one press leaves the others alone.                    *)
LEMMA OneRow ==
    ASSUME presses \in Seq(PressRecord), NEW p \in 1..Latest, NEW row \in PressRecord,
           presses' = [presses EXCEPT ![p] = row]
    PROVE  /\ presses' \in Seq(PressRecord) /\ Latest' = Latest
           /\ presses'[p] = row
           /\ \A q \in 1..Latest : q # p => presses'[q] = presses[q]
    BY ExceptSeq DEF Latest

(* What a press was made with, a step keeps.                                 *)
Fixed(p) ==
    /\ presses'[p].intent = presses[p].intent /\ presses'[p].payload = presses[p].payload
    /\ presses'[p].gen = presses[p].gen /\ presses'[p].start = presses[p].start

(* A step that presses nothing and stays: one press gets further.            *)
Moves(p) ==
    /\ presses' \in Seq(PressRecord) /\ Latest' = Latest
    /\ \A q \in 1..Latest : q # p => presses'[q] = presses[q]
    /\ Fixed(p) /\ presses'[p].here = presses[p].here
    /\ presses'[p].at \in presses[p].at..Len(form.calls)

LEMMA RowTypes ==
    ASSUME TypeInv, NEW p \in 1..Latest
    PROVE  /\ Latest \in Nat /\ presses \in Seq(PressRecord)
           /\ presses[p] \in PressRecord
           /\ presses[p].at \in 1..Len(form.calls)
           /\ presses[p].start \in 1..presses[p].at
           /\ presses[p].intent \in 1..p /\ presses[p].gen \in 1..p
<1>1. presses \in Seq(PressRecord) /\ Latest \in Nat
    BY LenProperties DEF TypeInv, ConsoleTypeOK, Latest
<1>2. presses[p] \in PressRecord
    BY <1>1, ElementOfSeq DEF Latest
<1>3. DOMAIN form.calls = 1..Len(form.calls) /\ Len(form.calls) \in 1..2
    BY FormFacts DEF TypeInv
<1>4. presses[p].at \in DOMAIN form.calls
    BY DEF TypeInv, ConsoleTypeOK
<1>5. /\ presses[p].intent \in 1..p /\ presses[p].gen \in 1..p
      /\ presses[p].start \in DOMAIN form.calls /\ presses[p].start <= presses[p].at
    BY DEF TypeInv, RowShape
<1> QED BY <1>1, <1>2, <1>3, <1>4, <1>5

LEMMA NextCallMoves ==
    ASSUME TypeInv, NEW p \in 1..Latest, NextCall(p)
    PROVE  /\ Moves(p) /\ presses'[p].client = presses[p].client
           /\ presses'[p].at = presses[p].at + 1 /\ presses'[p].server = "sent"
<1> DEFINE next == presses[p].at + 1
           row == [presses[p] EXCEPT !.at = next, !.server = "sent"]
<1>5. Len(form.calls) \in 1..2 /\ presses[p].at < Len(form.calls)
    BY FormFacts DEF TypeInv, NextCall
<1>7. presses[p] \in PressRecord /\ presses[p].at \in 1..Len(form.calls)
    BY RowTypes
<1>6. presses[p].at + 1 \in 1..Len(form.calls) /\ presses[p].at + 1 \in 1..2
  <2>1. \A n \in 1..2 : \A a \in 1..n : a < n => a + 1 \in 1..n /\ a + 1 \in 1..2
    OBVIOUS
  <2> QED BY <1>5, <1>7, <2>1
<1>8. \A r \in PressRecord, n \in 1..2 : [r EXCEPT !.at = n, !.server = "sent"] \in PressRecord
    BY DEF PressRecord
<1>1. row \in PressRecord
    BY <1>6, <1>7, <1>8
<1>2. presses' = [presses EXCEPT ![p] = row]
    BY DEF NextCall
<1> HIDE DEF row
<1>3. /\ presses' \in Seq(PressRecord) /\ Latest' = Latest
      /\ presses'[p] = row
      /\ \A q \in 1..Latest : q # p => presses'[q] = presses[q]
    BY <1>1, <1>2, RowTypes, OneRow
<1>4. /\ row.intent = presses[p].intent /\ row.payload = presses[p].payload
      /\ row.gen = presses[p].gen /\ row.start = presses[p].start
      /\ row.here = presses[p].here /\ row.client = presses[p].client
      /\ row.at = presses[p].at + 1 /\ row.server = "sent"
    BY <1>6, <1>7 DEF row, PressRecord
<1> QED BY <1>6, <1>3, <1>4, RowTypes DEF Moves, Fixed

LEMMA SucceedMoves ==
    ASSUME TypeInv, NEW p \in 1..Latest, Succeed(p)
    PROVE  /\ Moves(p) /\ presses'[p].client = "settling"
           /\ presses'[p].at = presses[p].at /\ presses'[p].server = presses[p].server
<1> DEFINE row == [presses[p] EXCEPT !.client = "settling"]
<1>1. row \in PressRecord
    BY RowTypes DEF PressRecord
<1>2. presses' = [presses EXCEPT ![p] = row]
    BY DEF Succeed
<1> HIDE DEF row
<1>3. /\ presses' \in Seq(PressRecord) /\ Latest' = Latest
      /\ presses'[p] = row
      /\ \A q \in 1..Latest : q # p => presses'[q] = presses[q]
    BY <1>1, <1>2, RowTypes, OneRow
<1>4. /\ row.intent = presses[p].intent /\ row.payload = presses[p].payload
      /\ row.gen = presses[p].gen /\ row.start = presses[p].start
      /\ row.here = presses[p].here /\ row.client = "settling"
      /\ row.at = presses[p].at /\ row.server = presses[p].server
    BY RowTypes DEF row, PressRecord
<1> QED BY <1>1, <1>3, <1>4, RowTypes DEF Moves, Fixed

LEMMA GiveUpMoves ==
    ASSUME TypeInv, NEW p \in 1..Latest, GiveUp(p)
    PROVE  /\ Moves(p) /\ presses'[p].client = "error"
           /\ presses'[p].at = presses[p].at
           /\ presses'[p].server = IF presses[p].server \in Answered THEN "unheard"
                                                                    ELSE presses[p].server
<1> DEFINE after == IF presses[p].server \in Answered THEN "unheard" ELSE presses[p].server
           row == [presses[p] EXCEPT !.client = "error", !.server = after]
<1>1. row \in PressRecord
    BY RowTypes DEF PressRecord, Answered
<1>2. presses' = [presses EXCEPT ![p] = row]
    BY DEF GiveUp
<1>4. /\ row.intent = presses[p].intent /\ row.payload = presses[p].payload
      /\ row.gen = presses[p].gen /\ row.start = presses[p].start
      /\ row.here = presses[p].here /\ row.client = "error"
      /\ row.at = presses[p].at /\ row.server = after
    BY RowTypes DEF PressRecord
<1> HIDE DEF row
<1>3. /\ presses' \in Seq(PressRecord) /\ Latest' = Latest
      /\ presses'[p] = row
      /\ \A q \in 1..Latest : q # p => presses'[q] = presses[q]
    BY <1>1, <1>2, RowTypes, OneRow
<1> QED BY <1>1, <1>3, <1>4, RowTypes DEF Moves, Fixed

LEMMA AnswerMoves ==
    ASSUME TypeInv, NEW p \in 1..Latest, NEW answer \in {"failed", "running", "ok", "refused"},
           Answer(p, answer)
    PROVE  /\ Moves(p) /\ presses'[p].client = presses[p].client
           /\ presses'[p].at = presses[p].at
           /\ presses'[p].server = Heard(p, answer)
<1> DEFINE row == [presses[p] EXCEPT !.server = Heard(p, answer)]
<1>1. row \in PressRecord
    BY RowTypes DEF PressRecord, Answered, Heard
<1>2. presses' = [presses EXCEPT ![p] = row]
    BY DEF Answer
<1>4. /\ row.intent = presses[p].intent /\ row.payload = presses[p].payload
      /\ row.gen = presses[p].gen /\ row.start = presses[p].start
      /\ row.here = presses[p].here /\ row.client = presses[p].client
      /\ row.at = presses[p].at /\ row.server = Heard(p, answer)
    BY RowTypes DEF PressRecord
<1> HIDE DEF row
<1>3. /\ presses' \in Seq(PressRecord) /\ Latest' = Latest
      /\ presses'[p] = row
      /\ \A q \in 1..Latest : q # p => presses'[q] = presses[q]
    BY <1>1, <1>2, RowTypes, OneRow
<1> QED BY <1>1, <1>3, <1>4, RowTypes DEF Moves, Fixed

(* All leave the page.                                                      *)
LEMMA Departs ==
    ASSUME NEW row \in PressRecord
    PROVE  LET gone == [row EXCEPT !.here = FALSE]
           IN  /\ gone \in PressRecord /\ gone.here = FALSE
               /\ gone.intent = row.intent /\ gone.payload = row.payload
               /\ gone.gen = row.gen /\ gone.start = row.start /\ gone.at = row.at
               /\ gone.client = row.client /\ gone.server = row.server
    BY DEF PressRecord

Leaving ==
    /\ presses' \in Seq(PressRecord) /\ Latest' = Latest
    /\ \A q \in 1..Latest : /\ Fixed(q) /\ presses'[q].here = FALSE
                            /\ presses'[q].at = presses[q].at
                            /\ presses'[q].server = presses[q].server

LEMMA LeaveLeaves ==
    ASSUME TypeInv, NEW rows \in Seq(PressRecord), Len(rows) = Latest,
           presses' = [r \in DOMAIN rows |-> [rows[r] EXCEPT !.here = FALSE]]
    PROVE  /\ presses' \in Seq(PressRecord) /\ Latest' = Latest
           /\ \A q \in 1..Latest : presses'[q] = [rows[q] EXCEPT !.here = FALSE]
<1>1. Latest \in Nat /\ DOMAIN rows = 1..Latest /\ \A q \in 1..Latest : rows[q] \in PressRecord
    BY LenProperties, ElementOfSeq DEF TypeInv, ConsoleTypeOK, Latest
<1>2. \A q \in 1..Latest : [rows[q] EXCEPT !.here = FALSE] \in PressRecord
    BY <1>1 DEF PressRecord
<1>3. presses' = [r \in 1..Latest |-> [rows[r] EXCEPT !.here = FALSE]]
    BY <1>1
<1>4. presses' \in [1..Latest -> PressRecord]
    BY <1>2, <1>3
<1>5. presses' \in Seq(PressRecord) /\ Len(presses') = Latest
    BY <1>1, <1>4
<1> QED BY <1>3, <1>5 DEF Latest

LEMMA OpenLeaves ==
    ASSUME TypeInv, NEW p, Open(p)
    PROVE  Leaving /\ \A q \in 1..Latest : presses'[q].client = presses[q].client
<1>1. /\ presses' \in Seq(PressRecord) /\ Latest' = Latest
      /\ \A q \in 1..Latest : presses'[q] = [presses[q] EXCEPT !.here = FALSE]
    BY LeaveLeaves DEF TypeInv, ConsoleTypeOK, Open, Leave, Latest
<1> QED BY <1>1, RowTypes DEF Leaving, Fixed, PressRecord

(* A fetch that fails leaves the presses alone, or takes the form away.      *)
LEMMA FailReadMoves ==
    ASSUME TypeInv, FailRead
    PROVE  /\ UNCHANGED <<scene, page, data, joined, server, excused>>
           /\ \/ UNCHANGED <<key, presses>>
              \/ /\ Leaving /\ key' = 0
                 /\ \A q \in 1..Latest : presses'[q].client = presses[q].client
<1>1. UNCHANGED <<scene, page, data, joined, server, excused>>
    BY DEF FailRead
<1>2. CASE UNCHANGED <<key, presses>>
    BY <1>1, <1>2
<1>3. CASE key' = 0 /\ Leave
  <2>1. /\ presses' \in Seq(PressRecord) /\ Latest' = Latest
        /\ \A q \in 1..Latest : presses'[q] = [presses[q] EXCEPT !.here = FALSE]
    BY <1>3, LeaveLeaves DEF TypeInv, ConsoleTypeOK, Leave, Latest
  <2>2. Leaving /\ \A q \in 1..Latest : presses'[q].client = presses[q].client
    BY <2>1, RowTypes DEF Leaving, Fixed, PressRecord
  <2> QED BY <1>1, <1>3, <2>2
<1> QED BY <1>2, <1>3 DEF FailRead

(* A press that has succeeded stays on its page, or leads to another.        *)
LEMMA SettleMoves ==
    ASSUME TypeInv, NEW p \in 1..Latest, Settle(p)
    PROVE  /\ presses'[p].client = "ok"
           /\ \A q \in 1..Latest : q # p => presses'[q].client = presses[q].client
           /\ \/ /\ form.opens \in {"same", page}
                 /\ Moves(p) /\ UNCHANGED <<page, key>>
                 /\ presses'[p].at = presses[p].at /\ presses'[p].server = presses[p].server
              \/ /\ Leaving /\ form.opens \notin {"same", page} 
                 /\ page' = form.opens /\ key' = 0
<1> DEFINE row == [presses[p] EXCEPT !.client = "ok"]
           settled == [presses EXCEPT ![p].client = "ok"]
<1>1. row \in PressRecord
    BY RowTypes DEF PressRecord
<1>2. settled = [presses EXCEPT ![p] = row]
    OBVIOUS
<1>4. /\ row.intent = presses[p].intent /\ row.payload = presses[p].payload
      /\ row.gen = presses[p].gen /\ row.start = presses[p].start
      /\ row.here = presses[p].here /\ row.client = "ok"
      /\ row.at = presses[p].at /\ row.server = presses[p].server
    BY RowTypes DEF PressRecord
<1> HIDE DEF row, settled
<1>3. /\ settled \in Seq(PressRecord) /\ Len(settled) = Latest
      /\ settled[p] = row
      /\ \A q \in 1..Latest : q # p => settled[q] = presses[q]
    BY <1>1, <1>2, RowTypes, ExceptSeq DEF Latest
<1>5. CASE form.opens \in {"same", page}
    <2>1. presses' = settled /\ UNCHANGED <<page, key>>
        BY <1>5 DEF Settle, settled
    <2> QED BY <1>3, <1>4, <1>5, <2>1, RowTypes DEF Moves, Fixed, Latest
<1>6. CASE form.opens \notin {"same", page}
    <2>1. /\ presses' = [r \in DOMAIN settled |-> [settled[r] EXCEPT !.here = FALSE]]
          /\ page' = form.opens /\ key' = 0
        BY <1>6 DEF Settle, GoTo, settled
    <2>2. /\ presses' \in Seq(PressRecord) /\ Latest' = Latest
          /\ \A q \in 1..Latest : presses'[q] = [settled[q] EXCEPT !.here = FALSE]
        BY <1>3, <2>1, LeaveLeaves
    <2>3. \A q \in 1..Latest : settled[q] \in PressRecord /\ presses[q] \in PressRecord
        BY <1>3, RowTypes, ElementOfSeq
    <2>4. \A q \in 1..Latest :
            /\ settled[q].intent = presses[q].intent
            /\ settled[q].payload = presses[q].payload
            /\ settled[q].gen = presses[q].gen /\ settled[q].start = presses[q].start
            /\ settled[q].at = presses[q].at /\ settled[q].server = presses[q].server
            /\ settled[q].client = IF q = p THEN "ok" ELSE presses[q].client
        BY <1>3, <1>4
    <2>5. \A q \in 1..Latest :
            /\ presses'[q].intent = settled[q].intent
            /\ presses'[q].payload = settled[q].payload
            /\ presses'[q].gen = settled[q].gen /\ presses'[q].start = settled[q].start
            /\ presses'[q].at = settled[q].at /\ presses'[q].server = settled[q].server
            /\ presses'[q].client = settled[q].client /\ presses'[q].here = FALSE
      <3> TAKE q \in 1..Latest
      <3> DEFINE gone == [settled[q] EXCEPT !.here = FALSE]
      <3>1. settled[q] \in PressRecord /\ presses'[q] = gone
        BY <2>2, <2>3
      <3>2. /\ gone.here = FALSE
            /\ gone.intent = settled[q].intent /\ gone.payload = settled[q].payload
            /\ gone.gen = settled[q].gen /\ gone.start = settled[q].start
            /\ gone.at = settled[q].at /\ gone.client = settled[q].client
            /\ gone.server = settled[q].server
        BY <3>1, Departs
      <3> QED BY <3>1, <3>2
    <2> QED BY <1>6, <2>1, <2>2, <2>4, <2>5 DEF Leaving, Fixed
<1> QED BY <1>5, <1>6

(* What a press is when it is made.                                         *)
IsNew(row, payload, start) ==
    /\ row \in PressRecord
    /\ row.intent \in 1..Latest + 1
    /\ \/ row.intent = Latest + 1 /\ Retried(payload) = {}
       \/ \E r \in Retried(payload) : row.intent = presses[r].intent
    /\ row.payload = payload /\ row.start = start /\ row.at = start
    /\ row.gen = (IF key = 0 THEN Latest + 1 ELSE key)
    /\ row.gen \in 1..Latest + 1
    /\ row.client = "pending" /\ row.server = "sent" /\ row.here = TRUE
    /\ start \in DOMAIN form.calls

LEMMA PressRows ==
    ASSUME TypeInv, NEW payload \in Payloads, NEW start, NEW clicks \in 1..2,
           PressButton(payload, start, clicks)
    PROVE  IsNew(PressRow(payload, start), payload, start)
<1> DEFINE row == PressRow(payload, start)
<1>1. Latest \in Nat /\ MaxPresses \in Nat /\ key \in 0..Latest
    BY LenProperties, ConsoleAssumption DEF TypeInv, ConsoleTypeOK, Latest
<1>2. Latest + 1 \in 1..MaxPresses + 1
    BY <1>1 DEF PressButton, PressesLeft, Latest
<1>3. row.gen = (IF key = 0 THEN Latest + 1 ELSE key) /\ row.gen \in 1..Latest + 1
    BY <1>1 DEF PressRow
<1>4. /\ \/ row.intent = Latest + 1 /\ Retried(payload) = {}
         \/ \E r \in Retried(payload) : row.intent = presses[r].intent
      /\ row.intent \in 1..Latest + 1
  <2>1. CASE Retried(payload) = {}
    BY <1>1, <2>1 DEF PressRow
  <2>2. CASE Retried(payload) # {}
    <3>1. PICK r \in Retried(payload) : row.intent = presses[r].intent
        BY <2>2 DEF PressRow
    <3>2. r \in 1..Latest
        BY DEF Retried
    <3>3. presses[r].intent \in 1..r
        BY <3>2, RowTypes
    <3> QED BY <1>1, <3>1, <3>2, <3>3
  <2> QED BY <2>1, <2>2
<1>5. start \in DOMAIN form.calls /\ start \in 1..2
    BY FormFacts DEF PressButton, Starts, TypeInv
<1>6. row = [intent |-> row.intent, payload |-> payload, gen |-> row.gen,
             start |-> start, at |-> start,
             client |-> "pending", server |-> "sent", here |-> TRUE]
    BY DEF PressRow
<1>7. row.intent \in 1..MaxPresses + 1 /\ row.gen \in 1..MaxPresses + 1
    BY <1>1, <1>2, <1>3, <1>4
<1> HIDE DEF row
<1>9. \A i, g \in 1..MaxPresses + 1, s \in 1..2 :
        [intent |-> i, payload |-> payload, gen |-> g, start |-> s, at |-> s,
         client |-> "pending", server |-> "sent", here |-> TRUE] \in PressRecord
    BY DEF PressRecord
<1>8. row \in PressRecord
    BY <1>5, <1>6, <1>7, <1>9
<1>10. row.payload = payload /\ row.start = start /\ row.at = start
      /\ row.client = "pending" /\ row.server = "sent" /\ row.here = TRUE
    BY <1>6
<1> QED BY <1>3, <1>4, <1>5, <1>8, <1>10 DEF row, IsNew

LEMMA PressPushes ==
    ASSUME TypeInv, NEW payload \in Payloads, NEW start, NEW clicks \in 1..2,
           PressButton(payload, start, clicks)
    PROVE  /\ presses' \in Seq(PressRecord) /\ Latest' = Latest + clicks
           /\ \A q \in 1..Latest : presses'[q] = presses[q]
           /\ \A q \in (Latest + 1)..(Latest + clicks) : presses'[q] = PressRow(payload, start)
<1> DEFINE row == PressRow(payload, start)
           new == [i \in 1..clicks |-> row]
<1>1. row \in PressRecord
    BY PressRows DEF IsNew
<1>2. presses' = presses \o new
    BY DEF PressButton
<1> HIDE DEF row
<1>3. new \in Seq(PressRecord) /\ Len(new) = clicks
    BY <1>1
<1>4. Latest \in Nat /\ presses \in Seq(PressRecord)
    BY LenProperties DEF TypeInv, ConsoleTypeOK, Latest
<1>5. \A i \in 1..clicks : new[i] = row
    OBVIOUS
<1> HIDE DEF new
<1>6. /\ presses' \in Seq(PressRecord) /\ Len(presses') = Latest + clicks
      /\ \A i \in 1..Latest + clicks :
           presses'[i] = IF i <= Latest THEN presses[i] ELSE new[i - Latest]
    BY <1>2, <1>3, <1>4, ConcatProperties DEF Latest
<1>7. ASSUME NEW q \in (Latest + 1)..(Latest + clicks)
      PROVE  presses'[q] = row
  <2>1. q - Latest \in 1..clicks /\ q \in 1..Latest + clicks /\ ~(q <= Latest)
    BY <1>4
  <2> QED BY <1>5, <1>6, <2>1
<1>8. \A q \in 1..Latest : presses'[q] = presses[q]
    BY <1>4, <1>6
<1> QED BY <1>6, <1>7, <1>8 DEF row, Latest

-----------------------------------------------------------------------------
(* Types are kept.                                                          *)
RowsTyped ==
    /\ presses \in Seq(PressRecord) /\ PressesLeft >= 0
    /\ \A p \in 1..Latest : presses[p].at \in DOMAIN form.calls
    /\ RowShape

LEMMA MovesType ==
    ASSUME TypeInv, NEW p \in 1..Latest, Moves(p), UNCHANGED scene
    PROVE  RowsTyped'
<1>1. form' = form /\ Latest' = Latest /\ PressesLeft' = PressesLeft
    BY DEF Moves, form, PressesLeft, Latest
<1>2. /\ DOMAIN form.calls = 1..Len(form.calls)
      /\ Len(form.calls) \in 1..2
    BY FormFacts DEF TypeInv
<1>3. ASSUME NEW q \in 1..Latest
      PROVE  /\ presses'[q].at \in DOMAIN form.calls
             /\ presses'[q].intent \in 1..q /\ presses'[q].gen \in 1..q
             /\ presses'[q].start \in DOMAIN form.calls /\ presses'[q].start <= presses'[q].at
  <2>1. /\ presses[q].at \in 1..Len(form.calls) /\ presses[q].start \in 1..presses[q].at
        /\ presses[q].intent \in 1..q /\ presses[q].gen \in 1..q
    BY RowTypes
  <2>2. CASE q # p
    BY <1>2, <2>1, <2>2 DEF Moves
  <2>3. CASE q = p
    <3>1. /\ presses'[q].at \in presses[q].at..Len(form.calls)
          /\ presses'[q].intent = presses[q].intent /\ presses'[q].gen = presses[q].gen
          /\ presses'[q].start = presses[q].start
        BY <2>3 DEF Moves, Fixed
    <3> QED BY <1>2, <2>1, <3>1
  <2> QED BY <2>2, <2>3
<1>4. PressesLeft >= 0 /\ presses' \in Seq(PressRecord)
    BY DEF TypeInv, ConsoleTypeOK, Moves
<1> QED BY <1>1, <1>3, <1>4 DEF RowsTyped, RowShape

LEMMA LeavingType ==
    ASSUME TypeInv, Leaving, UNCHANGED scene
    PROVE  RowsTyped'
<1>1. form' = form /\ Latest' = Latest /\ PressesLeft' = PressesLeft
    BY DEF Leaving, form, PressesLeft, Latest
<1> QED BY <1>1 DEF RowsTyped, RowShape, TypeInv, ConsoleTypeOK, Leaving, Fixed

LEMMA PressType ==
    ASSUME TypeInv, NEW payload \in Payloads, NEW start, NEW clicks \in 1..2,
           PressButton(payload, start, clicks)
    PROVE  RowsTyped'
<1> DEFINE row == PressRow(payload, start)
<1>7. IsNew(row, payload, start)
    BY PressRows
<1>2. /\ presses' \in Seq(PressRecord) /\ Latest' = Latest + clicks
      /\ \A q \in 1..Latest : presses'[q] = presses[q]
      /\ \A q \in (Latest + 1)..(Latest + clicks) : presses'[q] = row
    BY PressPushes
<1> HIDE DEF row
<1>1. /\ row \in PressRecord /\ row.intent \in 1..Latest + 1 /\ row.gen \in 1..Latest + 1
      /\ row.start = start /\ row.at = start /\ start \in DOMAIN form.calls
    BY <1>7 DEF IsNew
<1>3. form' = form /\ Latest \in Nat /\ MaxPresses \in Nat
    BY LenProperties, ConsoleAssumption DEF TypeInv, ConsoleTypeOK, PressButton, form, Latest
<1>4. PressesLeft' >= 0
    BY <1>2, <1>3 DEF PressButton, PressesLeft, Latest
<1>5. ASSUME NEW q \in 1..Latest'
      PROVE  /\ presses'[q].at \in DOMAIN form.calls
             /\ presses'[q].intent \in 1..q /\ presses'[q].gen \in 1..q
             /\ presses'[q].start \in DOMAIN form.calls /\ presses'[q].start <= presses'[q].at
  <2>1. CASE q \in 1..Latest
    BY <1>2, <2>1 DEF TypeInv, ConsoleTypeOK, RowShape
  <2>2. CASE q \in (Latest + 1)..(Latest + clicks)
    <3>1. start \in 1..2 /\ 1..Latest + 1 \subseteq 1..q
        BY <1>1, <1>3, <2>2, FormFacts DEF TypeInv
    <3> QED BY <1>1, <1>2, <2>2, <3>1
  <2> QED BY <1>2, <1>3, <2>1, <2>2
<1> QED BY <1>2, <1>3, <1>4, <1>5 DEF RowsTyped, RowShape

RestTyped ==
    /\ page \in DOMAIN scene.shows /\ key \in 0..Latest
    /\ took \subseteq (1..Latest) \X DOMAIN form.calls
    /\ freed \subseteq (1..Latest) \X DOMAIN form.calls
    /\ data = Nothing \/ data \subseteq took
    /\ fetch \in {Idle, Asked} \/ (fetch.step = "got" /\ fetch.brings \subseteq took)
    /\ failed \in BOOLEAN /\ joined \in BOOLEAN
    /\ excused \subseteq 1..Latest

FiledTyped ==
    /\ \A k \in DOMAIN filed : filed[k] \in [by : 1..Latest, done : BOOLEAN]
    /\ filed = [k \in DOMAIN filed |-> filed[k]]

LEMMA TypeInvIs == TypeInv <=> SceneInv /\ RowsTyped /\ RestTyped /\ FiledTyped
    BY DEF TypeInv, ConsoleTypeOK, RowsTyped, RestTyped, FiledTyped

LEMMA TypeInvNext == SceneInv' /\ RowsTyped' /\ RestTyped' /\ FiledTyped' => TypeInv'
    BY DEF TypeInv, ConsoleTypeOK, RowsTyped, RestTyped, FiledTyped

LEMMA FiledStays ==
    ASSUME FiledTyped, Latest \in Nat, Latest' \in Nat, Latest <= Latest', UNCHANGED filed
    PROVE  FiledTyped'
<1>1. 1..Latest \subseteq 1..Latest'
    OBVIOUS
<1>2. \A k \in DOMAIN filed : filed[k] \in [by : 1..Latest', done : BOOLEAN]
    BY <1>1 DEF FiledTyped
<1> QED BY <1>2 DEF FiledTyped

LEMMA SceneStays ==
    ASSUME SceneInv, UNCHANGED scene
    PROVE  SceneInv'
    BY DEF SceneInv, form, query

(* What leaves everything but the presses alone.                            *)
LEMMA RestStays ==
    ASSUME RestTyped, Latest \in Nat, Latest' \in Nat, Latest <= Latest',
           UNCHANGED <<scene, page, cache, server, excused>>, key' \in 0..Latest'
    PROVE  RestTyped'
<1>1. 1..Latest \subseteq 1..Latest' /\ form' = form
    BY DEF form
<1>2. UNCHANGED <<scene, page, data, fetch, failed, joined, filed, took, freed, excused>>
    BY DEF cache, server
<1>3. /\ took' \subseteq (1..Latest') \X DOMAIN form'.calls
      /\ freed' \subseteq (1..Latest') \X DOMAIN form'.calls
    BY <1>1, <1>2 DEF RestTyped
<1> QED BY <1>1, <1>2, <1>3 DEF RestTyped

LEMMA PagesVisited ==
    ASSUME SceneInv
    PROVE  DOMAIN scene.shows = Destinations(form, query)
    BY DEF SceneInv, Scene

(* Where a success leads is among them: no other page is of its kind.        *)
LEMMA OpensVisited ==
    ASSUME TypeInv, form.opens # "same"
    PROVE  form.opens \in DOMAIN scene.shows
<1> DEFINE near == {p \in PagesOf(form) : \E i \in 1..3 : Kind(p, form, query)[i]}
<1>1. form.opens \in PagesOf(form)
    BY FormFacts DEF TypeInv
<1>2. \A p : Kind(p, form, query)[3] <=> p = form.opens
    BY DEF Kind
<1>3. form.opens \in near
    BY <1>1, <1>2
<1>4. \A a : Kind(a, form, query) = Kind(form.opens, form, query) => a = form.opens
    BY <1>2
<1> HIDE DEF near
<1>5. form.opens = CHOOSE a \in near : Kind(a, form, query) = Kind(form.opens, form, query)
    BY <1>3, <1>4
<1>6. form.opens \in {p \in near :
         p = CHOOSE a \in near : Kind(a, form, query) = Kind(p, form, query)}
    BY <1>3, <1>5
<1>7. form.opens \in Destinations(form, query)
    BY <1>6 DEF Destinations, near
<1> QED BY <1>7, PagesVisited DEF TypeInv

LEMMA GoesTo ==
    ASSUME TypeInv, NEW p, NEW underWay, GoTo(p, underWay)
    PROVE  /\ page' = p /\ key' = 0 /\ UNCHANGED <<data, failed>> /\ joined' \in BOOLEAN
           /\ fetch' \in {Asked, underWay}
    BY DEF GoTo, TypeInv, ConsoleTypeOK, Mounted, Shows

LEMMA OpenType ==
    ASSUME TypeInv, NEW p \in DOMAIN scene.shows, Open(p)
    PROVE  TypeInv'
<1>1. Leaving /\ UNCHANGED <<scene, filed, took, freed, excused>>
    BY OpenLeaves DEF Open, server
<1>2. /\ page' = p /\ key' = 0 /\ UNCHANGED <<data, failed>> /\ joined' \in BOOLEAN
      /\ fetch' \in {Asked, fetch}
    BY GoesTo DEF Open
<1>3. Latest' = Latest /\ form' = form
    BY <1>1 DEF Leaving, form
<1>4. Latest \in Nat
    BY LenProperties DEF TypeInv, ConsoleTypeOK, Latest
<1>5. RestTyped'
    BY <1>1, <1>2, <1>3, <1>4, TypeInvIs DEF RestTyped
<1>6. FiledTyped'
    BY <1>1, <1>3, <1>4, FiledStays, TypeInvIs
<1> QED BY <1>1, <1>5, <1>6, LeavingType, SceneStays, TypeInvNext, TypeInvIs

LEMMA ReadType ==
    ASSUME TypeInv, Refocus \/ AnswerRead \/ Deliver
    PROVE  TypeInv'
<1>1. UNCHANGED <<scene, page, key, presses, filed, took, freed, excused>>
    BY DEF Refocus, AnswerRead, Deliver, server
<1>2. UNCHANGED <<Latest, form, PressesLeft>>
    BY <1>1 DEF Latest, form, PressesLeft
<1>3. RowsTyped'
    BY <1>1, <1>2, TypeInvIs DEF RowsTyped, RowShape
<1>4. data' = Nothing \/ data' \subseteq took
  <2>1. CASE UNCHANGED data
    BY <2>1 DEF TypeInv, ConsoleTypeOK
  <2>2. CASE Deliver
    BY <2>2 DEF Deliver, TypeInv, ConsoleTypeOK, Idle, Asked
  <2> QED BY <2>1, <2>2 DEF Refocus, AnswerRead
<1>5. fetch' \in {Idle, Asked} \/ (fetch'.step = "got" /\ fetch'.brings \subseteq took)
  <2>1. CASE fetch' \in {Idle, Asked}
    BY <2>1
  <2>2. CASE fetch' = Got({t \in took : Touches(form.calls[t[2]].call, query)})
    BY <2>2 DEF Got
  <2> QED BY <2>1, <2>2 DEF Refocus, AnswerRead, Deliver
<1>6. failed' \in BOOLEAN /\ joined' \in BOOLEAN
    BY DEF Refocus, AnswerRead, Deliver, TypeInv, ConsoleTypeOK
<1>7. RestTyped'
    BY <1>1, <1>2, <1>4, <1>5, <1>6, TypeInvIs DEF RestTyped
<1>8. Latest \in Nat
    BY LenProperties DEF TypeInv, ConsoleTypeOK, Latest
<1>9. FiledTyped'
    BY <1>1, <1>2, <1>8, FiledStays, TypeInvIs
<1> QED BY <1>1, <1>3, <1>7, <1>9, SceneStays, TypeInvNext, TypeInvIs

LEMMA FailReadType ==
    ASSUME TypeInv, FailRead
    PROVE  TypeInv'
<1>1. UNCHANGED <<scene, page, data, joined, filed, took, freed, excused, form>>
    BY FailReadMoves DEF server, form
<1>2. fetch' = Idle /\ failed' \in BOOLEAN
    BY DEF FailRead
<1>3. RowsTyped' /\ Latest' = Latest /\ key' \in 0..Latest
  <2>1. Latest \in Nat /\ key \in 0..Latest
    BY LenProperties DEF TypeInv, ConsoleTypeOK, Latest
  <2>2. CASE UNCHANGED <<key, presses>>
    <3>1. UNCHANGED <<Latest, form, PressesLeft>>
        BY <1>1, <2>2 DEF Latest, form, PressesLeft
    <3> QED BY <2>1, <2>2, <3>1, TypeInvIs DEF RowsTyped, RowShape
  <2>3. CASE Leaving /\ key' = 0
    <3>1. RowsTyped'
        BY <1>1, <2>3, LeavingType
    <3>2. Latest' = Latest /\ key' \in 0..Latest
        BY <2>1, <2>3 DEF Leaving
    <3> QED BY <3>1, <3>2
  <2> QED BY <2>2, <2>3, FailReadMoves
<1>4. RestTyped'
    BY <1>1, <1>2, <1>3, TypeInvIs DEF RestTyped
<1>5. FiledTyped'
    BY <1>1, <1>3, FiledStays, TypeInvIs, LenProperties DEF TypeInv, ConsoleTypeOK, Latest
<1> QED BY <1>1, <1>3, <1>4, <1>5, SceneStays, TypeInvNext, TypeInvIs

LEMMA PressButtonType ==
    ASSUME TypeInv, NEW payload \in Payloads, NEW start, NEW clicks \in 1..2,
           PressButton(payload, start, clicks)
    PROVE  TypeInv'
<1>1. IsNew(PressRow(payload, start), payload, start) /\ Latest' = Latest + clicks
    BY PressRows, PressPushes
<1>2. Latest \in Nat
    BY LenProperties DEF TypeInv, ConsoleTypeOK, Latest
<1>7. key' = PressRow(payload, start).gen
    BY DEF PressButton
<1>8. PressRow(payload, start).gen \in 1..Latest + 1
    BY <1>1 DEF IsNew
<1>9. 1..Latest + 1 \subseteq 0..Latest + clicks
    BY <1>2
<1>3. key' \in 0..Latest'
    BY <1>1, <1>7, <1>8, <1>9
<1>4. UNCHANGED <<scene, page, cache, server, excused>>
    BY DEF PressButton
<1>5. RestTyped'
    BY <1>1, <1>2, <1>3, <1>4, RestStays, TypeInvIs
<1>6. FiledTyped'
    BY <1>1, <1>2, <1>4, FiledStays, TypeInvIs DEF server
<1> QED BY <1>4, <1>5, <1>6, PressType, SceneStays, TypeInvNext, TypeInvIs

LEMMA NewKeysType ==
    ASSUME TypeInv, NEW p \in 1..Latest, NEW answer, NewKeys(p, answer)
    PROVE  key' \in 0..Latest /\ excused' \subseteq 1..Latest
<1>1. Latest \in Nat /\ key \in 0..Latest /\ excused \subseteq 1..Latest
    BY LenProperties DEF TypeInv, ConsoleTypeOK, Latest
<1>2. \A r \in 1..Latest : presses[r].intent \in 1..Latest
    BY <1>1, RowTypes
<1>3. {presses[r].intent : r \in (p + 1)..Latest} \subseteq 1..Latest
    BY <1>1, <1>2
<1>4. key' \in {key, 0}
        /\ excused' \in {excused, excused \cup {presses[r].intent : r \in (p + 1)..Latest}}
    BY DEF NewKeys
<1> QED BY <1>1, <1>3, <1>4

LEMMA ClientType ==
    ASSUME TypeInv, NEW p \in 1..Latest, NextCall(p) \/ Succeed(p) \/ GiveUp(p)
    PROVE  TypeInv'
<1>1. Moves(p)
    BY NextCallMoves, SucceedMoves, GiveUpMoves
<1>2. UNCHANGED <<scene, page, data, failed, filed, took, freed>>
    BY DEF NextCall, Succeed, GiveUp, cache, server
<1>3. UNCHANGED <<Latest, form>> /\ Latest \in Nat
    BY <1>1, <1>2, RowTypes DEF Moves, form
<1>4. key' \in 0..Latest /\ excused' \subseteq 1..Latest
    BY NewKeysType DEF NextCall, Succeed, GiveUp, TypeInv, ConsoleTypeOK
<1>5. fetch' \in {fetch, Asked} /\ joined' \in BOOLEAN
    BY DEF NextCall, Succeed, GiveUp, cache, Invalidated, TypeInv, ConsoleTypeOK
<1>6. RestTyped'
    BY <1>2, <1>3, <1>4, <1>5, TypeInvIs DEF RestTyped
<1>7. FiledTyped'
    BY <1>2, <1>3, FiledStays, TypeInvIs
<1> QED BY <1>1, <1>2, <1>6, <1>7, MovesType, SceneStays, TypeInvNext, TypeInvIs

LEMMA SettleType ==
    ASSUME TypeInv, NEW p \in 1..Latest, Settle(p)
    PROVE  TypeInv'
<1>1. UNCHANGED <<scene, filed, took, freed, excused>>
    BY DEF Settle, server
<1>2. Latest \in Nat
    BY RowTypes
<1>3. CASE /\ form.opens \in {"same", page} /\ Moves(p) /\ UNCHANGED <<page, key>>
    <2>1. UNCHANGED <<Latest, form>>
        BY <1>1, <1>3 DEF Moves, form
    <2>2. fetch' \in {fetch, Asked} /\ joined' \in BOOLEAN /\ UNCHANGED <<data, failed>>
        BY <1>3 DEF Settle, Invalidated, TypeInv, ConsoleTypeOK
    <2>3. RestTyped'
        BY <1>1, <1>2, <1>3, <2>1, <2>2, TypeInvIs DEF RestTyped
    <2>4. FiledTyped'
        BY <1>1, <1>2, <2>1, FiledStays, TypeInvIs
    <2> QED BY <1>1, <1>3, <2>3, <2>4, MovesType, SceneStays, TypeInvNext, TypeInvIs
<1>4. CASE Leaving /\ form.opens \notin {"same", page} /\ page' = form.opens
    <2>1. UNCHANGED <<Latest, form>>
        BY <1>1, <1>4 DEF Leaving, form
    <2>2. PICK refreshed \in {fetch, Asked} : GoTo(form.opens, refreshed)
        BY <1>4 DEF Settle, Invalidated
    <2>3. /\ page' = form.opens /\ key' = 0 /\ UNCHANGED <<data, failed>>
          /\ joined' \in BOOLEAN
          /\ fetch' \in {Asked, fetch}
        BY <2>2, GoesTo
    <2>4. form.opens \in DOMAIN scene.shows
        BY <1>4, OpensVisited
    <2>5. RestTyped'
        BY <1>1, <1>2, <2>1, <2>3, <2>4, TypeInvIs DEF RestTyped
    <2>6. FiledTyped'
        BY <1>1, <1>2, <2>1, FiledStays, TypeInvIs
    <2> QED BY <1>1, <1>4, <2>5, <2>6, LeavingType, SceneStays, TypeInvNext, TypeInvIs
<1> QED BY <1>3, <1>4, SettleMoves

(* A step of the server.                                                    *)
Serves(p) ==
    \/ Deny(p) \/ Claim(p) \/ Replay(p) \/ Refuse(p)
    \/ Finish(p) \/ Reject(p) \/ FailAfterwards(p)

LEMMA ServerMoves ==
    ASSUME TypeInv, NEW p \in 1..Latest, Serves(p)
    PROVE  /\ Moves(p) /\ presses'[p].client = presses[p].client
           /\ presses'[p].at = presses[p].at
           /\ UNCHANGED <<scene, page, key, cache, excused>>
    BY AnswerMoves DEF Serves, Deny, Claim, Replay, Refuse, Finish, Reject, FailAfterwards

(* The work of a press is its present call.                                  *)
LEMMA Works ==
    ASSUME NEW p, Work(p)
    PROVE  took' \in {took, took \cup {<<p, presses[p].at>>}}
    BY DEF Work

LEMMA ServerType ==
    ASSUME TypeInv, NEW p \in 1..Latest, Serves(p)
    PROVE  TypeInv'
<1>1. Moves(p) /\ UNCHANGED <<scene, page, key, data, fetch, failed, joined, excused>>
    BY ServerMoves DEF cache
<1>2. UNCHANGED <<Latest, form>> /\ Latest \in Nat
    BY <1>1, RowTypes DEF Moves, form
<1>3. /\ took' \subseteq (1..Latest) \X DOMAIN form.calls /\ took \subseteq took'
      /\ freed' \subseteq (1..Latest) \X DOMAIN form.calls
  <2>1. took' \in {took, took \cup {<<p, presses[p].at>>}}
    BY Works
       DEF Serves, Deny, Claim, Replay, Refuse, Finish, Reject, FailAfterwards, server
  <2>2. freed' \in {freed, freed \cup {<<p, presses[p].at>>}}
    BY DEF Serves, Deny, Claim, Replay, Refuse, Finish, Reject, FailAfterwards, server
  <2>3. /\ took \subseteq (1..Latest) \X DOMAIN form.calls
        /\ freed \subseteq (1..Latest) \X DOMAIN form.calls
        /\ presses[p].at \in DOMAIN form.calls
    BY DEF TypeInv, ConsoleTypeOK
  <2> QED BY <2>1, <2>2, <2>3
<1> DEFINE Record == [by : 1..Latest, done : BOOLEAN]
<1>4. (\A k \in DOMAIN filed : filed[k] \in Record) /\ filed = [k \in DOMAIN filed |-> filed[k]]
    BY DEF TypeInv, ConsoleTypeOK
<1>5. /\ \A k \in DOMAIN filed' : filed'[k] \in Record
      /\ filed' = [k \in DOMAIN filed' |-> filed'[k]]
  <2>1. CASE filed' = filed
    BY <1>4, <2>1
  <2>2. CASE Claim(p) /\ filed' = Reserved(p)
    BY <1>4, <2>2 DEF Reserved
  <2>3. CASE Finish(p) /\ filed' = [filed EXCEPT ![KeyOf(p)].done = TRUE]
    <3>1. \A record \in Record : [record EXCEPT !.done = TRUE] \in Record
        OBVIOUS
    <3> QED BY <1>4, <2>3, <3>1
  <2>4. CASE filed' = Unfiled(p)
    BY <1>4, <2>4 DEF Unfiled
  <2> QED BY <2>1, <2>2, <2>3, <2>4
          DEF Serves, Deny, Claim, Replay, Refuse, Finish, Reject, FailAfterwards, server
<1>6. RestTyped'
  <2>1. data = Nothing \/ data \subseteq took'
    BY <1>3 DEF TypeInv, ConsoleTypeOK
  <2>2. fetch \in {Idle, Asked} \/ (fetch.step = "got" /\ fetch.brings \subseteq took')
    BY <1>3 DEF TypeInv, ConsoleTypeOK
  <2> QED BY <1>1, <1>2, <1>3, <2>1, <2>2, TypeInvIs DEF RestTyped
<1>7. FiledTyped'
    BY <1>2, <1>5 DEF FiledTyped
<1> QED BY <1>1, <1>6, <1>7, MovesType, SceneStays, TypeInvNext, TypeInvIs

LEMMA InitType == Init => TypeInv
<1> SUFFICES ASSUME Init PROVE TypeInv
    OBVIOUS
<1>1. Latest = 0 /\ presses = <<>> /\ presses \in Seq(PressRecord) /\ 1..Latest = {}
    BY EmptySeq DEF Init, Latest
<1>2. PressesLeft >= 0
    BY <1>1, ConsoleAssumption DEF PressesLeft, Latest
<1>3. SceneInv
  <2>1. PICK f \in Forms : scene \in {Scene(f, q) : q \in QueriesFor(f)}
    BY DEF Init
  <2>2. PICK q \in QueriesFor(f) : scene = Scene(f, q)
    BY <2>1
  <2>3. form = f /\ query = q
    BY <2>2 DEF Scene, form, query
  <2> QED BY <2>2, <2>3 DEF SceneInv
<1>4. RowsTyped
    BY <1>1, <1>2 DEF RowsTyped, RowShape
<1>5. fetch \in {Idle, Asked} /\ failed = FALSE /\ joined = FALSE /\ key = 0
        /\ excused = {} /\ took = {} /\ freed = {}
        /\ data = Nothing /\ page \in DOMAIN scene.shows
    BY DEF Init
<1>6. filed = <<>> /\ DOMAIN filed = {}
    BY DEF Init
<1>7. filed = [k \in DOMAIN filed |-> filed[k]]
    BY <1>6
<1>10. took \subseteq (1..Latest) \X DOMAIN form.calls
       /\ freed \subseteq (1..Latest) \X DOMAIN form.calls /\ key \in 0..Latest /\ excused \subseteq 1..Latest
    BY <1>1, <1>5
<1>8. RestTyped
    BY <1>5, <1>10 DEF RestTyped
<1>9. FiledTyped
    BY <1>6, <1>7 DEF FiledTyped
<1> QED BY <1>3, <1>4, <1>8, <1>9, TypeInvIs

LEMMA TypeStep ==
    ASSUME TypeInv, [Next]_vars
    PROVE  TypeInv'
<1>1. CASE UNCHANGED vars
  <2>1. UNCHANGED <<scene, page, key, presses, cache, server, excused, Latest, form, PressesLeft>>
    BY <1>1 DEF vars, Latest, form, PressesLeft
  <2>2. RowsTyped'
    BY <2>1, TypeInvIs DEF RowsTyped, RowShape
  <2>3. RestTyped'
    BY <2>1, TypeInvIs DEF RestTyped, cache, server
  <2>4. FiledTyped'
    BY <2>1, TypeInvIs DEF FiledTyped, server
  <2> QED BY <2>1, <2>2, <2>3, <2>4, SceneStays, TypeInvNext, TypeInvIs
<1>2. CASE Next
    BY <1>2, OpenType, ReadType, FailReadType, PressButtonType, ClientType, SettleType, ServerType
       DEF Next, Serves
<1> QED BY <1>1, <1>2

(* Every variable keeps its shape.                                           *)
THEOREM ConsoleTypeCorrect == Spec => []ConsoleTypeOK
<1>1. Spec => []TypeInv
    BY InitType, TypeStep, PTL DEF Spec
<1>2. TypeInv => ConsoleTypeOK
    BY DEF TypeInv
<1> QED BY <1>1, <1>2, PTL

-----------------------------------------------------------------------------
(* The page's side: presses, keys and purposes.                             *)

(* Later presses have later keys, and the present key is the last one's.     *)
KeysInOrder ==
    /\ \A p, q \in 1..Latest : p <= q => presses[p].gen <= presses[q].gen
    /\ key = 0 \/ (Latest > 0 /\ key = presses[Latest].gen)

(* A press is on its page only while the page shows its form; those under    *)
(* the present key are, and of those made for one purpose all are or none.  *)
OnThePage ==
    /\ \A p \in 1..Latest : presses[p].here => Shows(page, "form")
    /\ \A p \in 1..Latest : presses[p].gen = key => presses[p].here
    /\ \A p, q \in 1..Latest : p <= q /\ presses[p].here => presses[q].here
    /\ \A p, q \in 1..Latest : Same(p, q) => presses[p].here = presses[q].here

(* A press that its page waits for is the last one, or the first of a double *)
(* click.                                                                   *)
Waiting(p) == presses[p].here /\ presses[p].client \in {"pending", "settling"}

Doubles ==
    \A p \in 1..Latest : Waiting(p) /\ p < Latest =>
      /\ Same(p, p + 1) /\ presses[p + 1].payload = presses[p].payload
      /\ presses[p + 1].gen = presses[p].gen
      /\ p + 1 = Latest \/ presses[p + 1].client \in {"ok", "error"}

(* The key of a press that succeeded is not used again.                     *)
KeysAreSpent ==
    \A p \in 1..Latest :
      /\ presses[p].client \in {"settling", "ok"} /\ presses[p].here
      /\ presses[p].client = "ok" \/ "ok" \in form.replacesKey
      => presses[p].gen # key

(* Two presses of the same filling are made for the same purpose if there    *)
(* has been no success between them, or if they carry the same key.         *)
SamePurpose ==
    \A p, q \in 1..Latest :
      /\ p < q /\ presses[p].payload = presses[q].payload
      /\ \/ presses[p].here /\ \A r \in p..q : presses[r].client # "ok"
         \/ presses[p].gen = presses[q].gen
      => Same(p, q)

(* An unanswered press is followed, under its key, by its double or by a     *)
(* failure.                                                                 *)
FollowedByFailure ==
    \A p, q \in 1..Latest :
      p < q /\ presses[p].gen = presses[q].gen /\ presses[p].client # "error" =>
        \/ q = p + 1 /\ presses[q].payload = presses[p].payload
        \/ presses[p + 1].client = "error" /\ presses[p + 1].gen = presses[p].gen

ClientInv ==
    /\ KeysInOrder /\ OnThePage /\ Doubles /\ KeysAreSpent /\ SamePurpose
    /\ FollowedByFailure

(* What may become of a press.                                              *)
ClientStep(p) ==
    \/ presses'[p].client = presses[p].client
    \/ presses[p].client = "pending" /\ presses'[p].client \in {"settling", "error"}
    \/ presses[p].client = "settling" /\ presses'[p].client = "ok"

(* A step that makes no press and leaves no page.                           *)
Stays ==
    /\ Latest' = Latest /\ UNCHANGED <<scene, page>> /\ key' \in {key, 0}
    /\ \A p \in 1..Latest : Fixed(p) /\ presses'[p].here = presses[p].here /\ ClientStep(p)
    /\ \A p \in 1..Latest : presses[p].here /\ presses'[p].client # presses[p].client =>
         /\ presses'[p].client = "settling" /\ "ok" \in form.replacesKey => key' = 0
         /\ presses'[p].client = "ok" => "ok" \in form.replacesKey

(* A step that leaves the page.                                             *)
Leaves ==
    /\ Latest' = Latest /\ UNCHANGED scene /\ key' = 0
    /\ \A p \in 1..Latest : Fixed(p) /\ presses'[p].here = FALSE /\ ClientStep(p)

LEMMA Gens ==
    ASSUME TypeInv
    PROVE  /\ Latest \in Nat /\ key \in 0..Latest
           /\ \A p \in 1..Latest : /\ presses[p].gen \in 1..p /\ presses[p].intent \in 1..p
                                   /\ presses[p].here \in BOOLEAN
                                   /\ presses[p].client \in {"pending", "settling", "ok", "error"}
<1>1. Latest \in Nat /\ key \in 0..Latest
    BY LenProperties DEF TypeInv, ConsoleTypeOK, Latest
<1>2. ASSUME NEW p \in 1..Latest
      PROVE  /\ presses[p].gen \in 1..p /\ presses[p].intent \in 1..p
             /\ presses[p].here \in BOOLEAN
             /\ presses[p].client \in {"pending", "settling", "ok", "error"}
  <2>1. presses[p] \in PressRecord /\ presses[p].gen \in 1..p /\ presses[p].intent \in 1..p
    BY RowTypes
  <2> QED BY <2>1 DEF PressRecord
<1> QED BY <1>1, <1>2

LEMMA StaysClient ==
    ASSUME TypeInv, ClientInv, Stays
    PROVE  ClientInv'
<1> USE DEF ClientInv, Stays, Fixed, ClientStep, Same
<1>1. KeysInOrder'
    BY Gens DEF KeysInOrder
<1>2. OnThePage'
  <2>1. \A p \in 1..Latest : presses'[p].gen = key' => presses'[p].here
    BY Gens DEF OnThePage
  <2>2. \A p \in 1..Latest : presses'[p].here => Shows(page, "form")'
    BY DEF OnThePage, Shows
  <2>3. \A p, q \in 1..Latest : p <= q /\ presses'[p].here => presses'[q].here
    BY DEF OnThePage
  <2>4. \A p, q \in 1..Latest : Same(p, q)' => presses'[p].here = presses'[q].here
    BY DEF OnThePage
  <2> QED BY <2>1, <2>2, <2>3, <2>4 DEF OnThePage, Shows
<1>3. Doubles'
    BY Gens DEF Doubles, Waiting
<1>4. KeysAreSpent'
    BY Gens DEF KeysAreSpent, form
<1>5. SamePurpose'
    BY Gens DEF SamePurpose
<1>6. FollowedByFailure'
    BY Gens DEF FollowedByFailure
<1> QED BY <1>1, <1>2, <1>3, <1>4, <1>5, <1>6

LEMMA LeavesClient ==
    ASSUME TypeInv, ClientInv, Leaves
    PROVE  ClientInv'
<1> USE DEF ClientInv, Leaves, Fixed, ClientStep, Same
<1>1. KeysInOrder'
    BY Gens DEF KeysInOrder
<1>2. OnThePage'
  <2>1. \A p \in 1..Latest' : presses'[p].here = FALSE /\ presses'[p].gen # key'
    BY Gens
  <2>2. \A p, q \in 1..Latest' : presses'[p].here = presses'[q].here
    BY <2>1
  <2> QED BY <2>1, <2>2 DEF OnThePage
<1>3. Doubles'
    BY DEF Doubles, Waiting
<1>4. KeysAreSpent'
    BY DEF KeysAreSpent
<1>5. SamePurpose'
    BY Gens DEF SamePurpose
<1>6. FollowedByFailure'
    BY Gens DEF FollowedByFailure
<1> QED BY <1>1, <1>2, <1>3, <1>4, <1>5, <1>6

(* Each step of a page but a press is one that stays or one that leaves.     *)
LEMMA QuietStays ==
    ASSUME TypeInv, NEW p \in 1..Latest, Moves(p), presses'[p].client = presses[p].client,
           UNCHANGED <<scene, page, key>>
    PROVE  Stays
<1>1. \A q \in 1..Latest :
        Fixed(q) /\ presses'[q].here = presses[q].here /\ presses'[q].client = presses[q].client
    BY DEF Moves, Fixed
<1> QED BY <1>1 DEF Stays, Moves, ClientStep

LEMMA SucceedStays ==
    ASSUME TypeInv, NEW p \in 1..Latest, Succeed(p)
    PROVE  Stays
<1>1. Moves(p) /\ presses'[p].client = "settling"
    BY SucceedMoves
<1>2. \A q \in 1..Latest : Fixed(q) /\ presses'[q].here = presses[q].here
    BY <1>1 DEF Moves, Fixed
<1>3. \A q \in 1..Latest : q # p => presses'[q].client = presses[q].client
    BY <1>1 DEF Moves
<1>4. presses[p].client = "pending" /\ NewKeys(p, "ok") /\ UNCHANGED <<scene, page>>
    BY DEF Succeed
<1>5. key' \in {key, 0} /\ (presses[p].here /\ "ok" \in form.replacesKey => key' = 0)
    BY <1>4 DEF NewKeys, Replaces
<1> QED BY <1>1, <1>2, <1>3, <1>4, <1>5 DEF Stays, Moves, ClientStep

LEMMA GiveUpStays ==
    ASSUME TypeInv, NEW p \in 1..Latest, GiveUp(p)
    PROVE  Stays
<1>1. Moves(p) /\ presses'[p].client = "error"
    BY GiveUpMoves
<1>2. \A q \in 1..Latest : Fixed(q) /\ presses'[q].here = presses[q].here
    BY <1>1 DEF Moves, Fixed
<1>3. \A q \in 1..Latest : q # p => presses'[q].client = presses[q].client
    BY <1>1 DEF Moves
<1>4. presses[p].client = "pending" /\ key' \in {key, 0} /\ UNCHANGED <<scene, page>>
    BY DEF GiveUp, NewKeys
<1> QED BY <1>1, <1>2, <1>3, <1>4 DEF Stays, Moves, ClientStep

(* A press that is on its page when it has settled, and stays there, has had *)
(* its key replaced: a form that keeps its keys would have left.            *)
LEMMA SettleStays ==
    ASSUME TypeInv, ClientInv, NEW p \in 1..Latest, Settle(p)
    PROVE  Stays \/ Leaves
<1>1. /\ presses'[p].client = "ok" /\ presses[p].client = "settling"
      /\ \A q \in 1..Latest : q # p => presses'[q].client = presses[q].client
      /\ UNCHANGED scene
    BY SettleMoves DEF Settle
<1>2. CASE /\ form.opens \in {"same", page}
           /\ Moves(p) /\ UNCHANGED <<page, key>>
    <2>1. \A q \in 1..Latest : Fixed(q) /\ presses'[q].here = presses[q].here
        BY <1>2 DEF Moves, Fixed
    <2>2. presses[p].here => "ok" \in form.replacesKey
        <3> SUFFICES ASSUME presses[p].here, "ok" \notin form.replacesKey
                     PROVE  FALSE
            OBVIOUS
        <3>1. form.opens # "same" /\ form \notin FormsOf(form.opens) /\ form.opens = page
            BY <1>2, FormFacts DEF IsLeft, TypeInv
        <3>2. "form" \in scene.shows[page]
            BY DEF ClientInv, OnThePage, Shows
        <3>3. page \in Destinations(form, query)
            BY PagesVisited DEF TypeInv, ConsoleTypeOK
        <3>4. scene.shows[page] = {what \in {"form", "query"} :
                                     \/ what = "form" /\ form \in FormsOf(page)
                                     \/ what = "query" /\ query \in QueriesOf(page)}
            BY <3>3 DEF TypeInv, SceneInv, Scene
        <3> QED BY <3>1, <3>2, <3>4
    <2> QED BY <1>1, <1>2, <2>1, <2>2 DEF Stays, Moves, ClientStep
<1>3. CASE Leaving /\ key' = 0
    BY <1>1, <1>3 DEF Leaves, Leaving, ClientStep
<1> QED BY <1>2, <1>3, SettleMoves

LEMMA OpenStep ==
    ASSUME TypeInv, NEW p, Open(p)
    PROVE  Leaves
    BY OpenLeaves DEF Open, GoTo, Leaves, Leaving, ClientStep

LEMMA FailReadStep ==
    ASSUME TypeInv, FailRead
    PROVE  (Stays /\ UNCHANGED key) \/ Leaves
<1>1. CASE UNCHANGED <<key, presses>>
    BY <1>1, FailReadMoves DEF Stays, Fixed, ClientStep, Latest
<1>2. CASE /\ Leaving /\ key' = 0
           /\ \A q \in 1..Latest : presses'[q].client = presses[q].client
    BY <1>2, FailReadMoves DEF Leaves, Leaving, ClientStep
<1> QED BY <1>1, <1>2, FailReadMoves

-----------------------------------------------------------------------------
(* Pressing again.                                                          *)

(* Where the form is ready, whatever was pressed on the page with the same   *)
(* filling and not followed by a success is what the next press is for.     *)
LEMMA PressAim ==
    ASSUME TypeInv, ClientInv, NEW payload \in Payloads, NEW start, NEW clicks \in 1..2,
           PressButton(payload, start, clicks),
           NEW p \in 1..Latest, presses[p].here, presses[p].payload = payload,
           \A q \in p..Latest : presses[q].client # "ok"
    PROVE  PressRow(payload, start).intent = presses[p].intent
<1>1. Latest \in p..Latest /\ Latest \in Nat
    BY Gens
<1>2. presses[Latest].here /\ presses[Latest].client = "error"
    BY <1>1 DEF PressButton, Ready, ClientInv, OnThePage
<1>3. PICK r \in Retried(payload) : PressRow(payload, start).intent = presses[r].intent
  <2>1. Retried(payload) # {}
    <3>1. CASE presses[p].client = "error"
        BY <3>1 DEF Retried
    <3>2. CASE presses[p].client \in {"pending", "settling"}
        <4>1. p < Latest
            BY <1>1, <1>2, <3>2
        <4>2. /\ Same(p, p + 1) /\ presses[p + 1].payload = payload
              /\ p + 1 = Latest \/ presses[p + 1].client \in {"ok", "error"}
            BY <3>2, <4>1 DEF ClientInv, Doubles, Waiting
        <4>3. p + 1 \in 1..Latest /\ p + 1 \in p..Latest /\ p <= p + 1
            BY <1>1, <4>1
        <4>4. presses[p + 1].here /\ presses[p + 1].client = "error"
            BY <1>2, <4>2, <4>3 DEF ClientInv, OnThePage
        <4>5. \A q \in (p + 1)..Latest : presses[q].client # "ok"
            BY <1>1
        <4>6. p + 1 \in Retried(payload)
            BY <4>2, <4>3, <4>4, <4>5 DEF Retried
        <4> QED BY <4>6
    <3> QED BY <1>1, <3>1, <3>2, Gens
  <2> QED BY <2>1 DEF PressRow
<1>4. /\ r \in 1..Latest /\ presses[r].here /\ presses[r].payload = payload
      /\ \A q \in r..Latest : presses[q].client # "ok"
    BY DEF Retried
<1>5. CASE r = p
    BY <1>3, <1>5
<1>6. CASE r < p
    <2>1. \A q \in r..p : presses[q].client # "ok"
        BY <1>1, <1>4
    <2>2. Same(r, p)
        BY <1>4, <1>6, <2>1 DEF ClientInv, SamePurpose
    <2> QED BY <1>3, <2>2 DEF Same
<1>7. CASE p < r
    <2>1. \A q \in p..r : presses[q].client # "ok"
        BY <1>1, <1>4
    <2>2. Same(p, r)
        BY <1>4, <1>7, <2>1 DEF ClientInv, SamePurpose
    <2> QED BY <1>3, <2>2 DEF Same
<1> QED BY <1>1, <1>4, <1>5, <1>6, <1>7

(* Those who carry the present key have not succeeded.                      *)
LEMMA UnderKey ==
    ASSUME TypeInv, ClientInv, NEW p \in 1..Latest, presses[p].gen = key
    PROVE  /\ presses[p].here /\ key # 0
           /\ \A q \in p..Latest : /\ presses[q].gen = key /\ presses[q].here
                                   /\ presses[q].client # "ok"
<1>1. presses[p].here /\ key # 0 /\ Latest > 0 /\ key = presses[Latest].gen
    BY Gens DEF ClientInv, OnThePage, KeysInOrder
<1>2. ASSUME NEW q \in p..Latest
      PROVE  presses[q].gen = key /\ presses[q].here /\ presses[q].client # "ok"
  <2>1. q \in 1..Latest /\ Latest \in 1..Latest /\ p <= q /\ q <= Latest
    BY Gens
  <2>2. presses[p].gen <= presses[q].gen /\ presses[q].gen <= presses[Latest].gen
    BY <2>1 DEF ClientInv, KeysInOrder
  <2>6. presses[q].gen \in Int /\ key \in Int
    BY <2>1, Gens
  <2>3. presses[q].gen = key
    BY <1>1, <2>2, <2>6
  <2>4. presses[q].here
    BY <2>1, <2>3 DEF ClientInv, OnThePage
  <2>5. presses[q].client # "ok"
    BY <2>1, <2>3, <2>4 DEF ClientInv, KeysAreSpent
  <2> QED BY <2>3, <2>4, <2>5
<1> QED BY <1>1, <1>2

(* What a press leaves of the presses before it, and what it adds.           *)
Pushes(payload, start, clicks) ==
    /\ Latest \in Nat /\ Latest' = Latest + clicks /\ UNCHANGED <<scene, page>>
    /\ \A q \in 1..Latest : presses'[q] = presses[q]
    /\ \A q \in (Latest + 1)..Latest' :
         /\ presses'[q] = PressRow(payload, start)
         /\ presses'[q].payload = payload
         /\ presses'[q].gen = key' /\ presses'[q].client = "pending"
         /\ presses'[q].here = TRUE /\ presses'[q].server = "sent"
         /\ presses'[q].start = start /\ presses'[q].at = start
    /\ key' = (IF key = 0 THEN Latest + 1 ELSE key)
    /\ Shows(page, "form")
    /\ Latest > 0 /\ presses[Latest].here => presses[Latest].client \in {"ok", "error"}

LEMMA Pressed ==
    ASSUME TypeInv, NEW payload \in Payloads, NEW start, NEW clicks \in 1..2,
           PressButton(payload, start, clicks)
    PROVE  Pushes(payload, start, clicks)
<1>1. IsNew(PressRow(payload, start), payload, start) /\ key' = PressRow(payload, start).gen
    BY PressRows DEF PressButton
<1>2. /\ Latest \in Nat /\ Latest' = Latest + clicks
      /\ \A q \in 1..Latest : presses'[q] = presses[q]
      /\ \A q \in (Latest + 1)..(Latest + clicks) : presses'[q] = PressRow(payload, start)
    BY PressPushes, Gens
<1> QED BY <1>1, <1>2 DEF IsNew, PressButton, Ready, Pushes

LEMMA PressClient ==
    ASSUME TypeInv, ClientInv, NEW payload \in Payloads, NEW start, NEW clicks \in 1..2,
           PressButton(payload, start, clicks)
    PROVE  ClientInv'
<1> DEFINE row == PressRow(payload, start)
           Old == 1..Latest
           New == (Latest + 1)..Latest'
<1>13. Pushes(payload, start, clicks)
    BY Pressed
<1>1. /\ Latest \in Nat /\ Latest' = Latest + clicks /\ UNCHANGED <<scene, page>>
      /\ \A q \in Old : presses'[q] = presses[q]
      /\ key' = (IF key = 0 THEN Latest + 1 ELSE key)
      /\ Shows(page, "form")
      /\ Latest > 0 /\ presses[Latest].here => presses[Latest].client \in {"ok", "error"}
    BY <1>13 DEF Pushes
<1>2. \A q \in New :
        /\ presses'[q] = row /\ presses'[q].payload = payload
        /\ presses'[q].gen = key' /\ presses'[q].client = "pending" /\ presses'[q].here = TRUE
    BY <1>13 DEF Pushes
<1>3. /\ \A q \in 1..Latest' : q \in Old \/ q \in New
      /\ \A p \in Old, q \in New : p < q /\ ~(q <= p)
      /\ \A p, q \in New : p < q => q = p + 1 /\ q = Latest'
      /\ Latest' \in New /\ Latest' \in Nat
    BY <1>1
<1>4. \A q \in Old : presses[q].gen \in 1..Latest /\ presses[q].gen <= key' /\ key' \in 1..Latest + 1
    <2> TAKE q \in Old
    <2>1. presses[q].gen \in 1..q /\ key \in 0..Latest
        BY Gens
    <2>2. key # 0 => presses[q].gen <= key
        BY <1>1 DEF ClientInv, KeysInOrder
    <2> QED BY <1>1, <2>1, <2>2
<1>5. ASSUME NEW p \in Old, presses[p].gen = key'
      PROVE  /\ key = key' /\ presses[p].here /\ p \in 1..Latest
             /\ \A q \in p..Latest : presses[q].gen = key /\ presses[q].client # "ok"
    <2>1. key = key'
        BY <1>1, <1>4, <1>5, Gens
    <2> QED BY <1>5, <2>1, UnderKey
<1> HIDE DEF row
<1>6. KeysInOrder'
  <2>1. \A p, q \in 1..Latest' : p <= q => presses'[p].gen <= presses'[q].gen
    <3> TAKE p, q \in 1..Latest'
    <3>1. CASE p \in Old /\ q \in Old
        BY <1>1, <3>1 DEF ClientInv, KeysInOrder
    <3>2. CASE p \in Old /\ q \in New
        BY <1>1, <1>2, <1>4, <3>2
    <3>3. CASE p \in New /\ q \in New
        <4>1. presses'[p].gen = key' /\ presses'[q].gen = key' /\ key' \in Int
            BY <1>1, <1>2, <3>3, Gens
        <4> QED BY <4>1
    <3> QED BY <1>3, <3>1, <3>2, <3>3
  <2>2. key' = presses'[Latest'].gen /\ Latest' > 0
    BY <1>1, <1>2, <1>3
  <2> QED BY <2>1, <2>2 DEF KeysInOrder
<1>7. ASSUME NEW p \in Old, NEW q \in New, presses'[q].intent = presses[p].intent
      PROVE  \E r \in Retried(payload) : presses[r].intent = presses[p].intent
  <2>1. IsNew(row, payload, start)
    BY PressRows DEF row
  <2>2. presses[p].intent \in 1..p /\ row.intent = presses[p].intent
    BY <1>2, <1>7, Gens
  <2> QED BY <1>1, <2>1, <2>2 DEF IsNew
<1>8. OnThePage'
  <2>1. \A p \in 1..Latest' : presses'[p].here => Shows(page, "form")'
    BY <1>1 DEF Shows
  <2>2. \A p \in 1..Latest' : presses'[p].gen = key' => presses'[p].here
    BY <1>1, <1>2, <1>3, <1>5
  <2>3. \A p, q \in 1..Latest' : p <= q /\ presses'[p].here => presses'[q].here
    <3> TAKE p, q \in 1..Latest'
    <3>1. CASE p \in Old /\ q \in Old
        BY <1>1, <3>1 DEF ClientInv, OnThePage
    <3>2. CASE q \in New
        BY <1>2, <3>2
    <3> QED BY <1>3, <3>1, <3>2
  <2>4. \A p \in Old, q \in New : presses'[q].intent = presses[p].intent => presses[p].here
    <3> SUFFICES ASSUME NEW p \in Old, NEW q \in New, presses'[q].intent = presses[p].intent
                 PROVE  presses[p].here
        OBVIOUS
    <3>1. PICK r \in Retried(payload) : presses[r].intent = presses[p].intent
        BY <1>7
    <3>2. r \in Old /\ presses[r].here /\ Same(r, p)
        BY <3>1 DEF Retried, Same
    <3> QED BY <3>2, Gens DEF ClientInv, OnThePage
  <2>5. \A p, q \in 1..Latest' : Same(p, q)' => presses'[p].here = presses'[q].here
    <3> SUFFICES ASSUME NEW p \in 1..Latest', NEW q \in 1..Latest', Same(p, q)'
                 PROVE  presses'[p].here = presses'[q].here
        OBVIOUS
    <3>1. CASE p \in Old /\ q \in Old
        BY <1>1, <3>1 DEF ClientInv, OnThePage, Same
    <3>2. CASE p \in Old /\ q \in New
        <4>1. presses[p].here /\ presses[p].here \in BOOLEAN
            BY <1>1, <2>4, <3>2, Gens DEF Same
        <4> QED BY <1>1, <1>2, <3>2, <4>1
    <3>3. CASE p \in New /\ q \in Old
        <4>1. presses[q].here /\ presses[q].here \in BOOLEAN
            BY <1>1, <2>4, <3>3, Gens DEF Same
        <4> QED BY <1>1, <1>2, <3>3, <4>1
    <3>4. CASE p \in New /\ q \in New
        BY <1>2, <3>4
    <3> QED BY <1>3, <3>1, <3>2, <3>3, <3>4
  <2> QED BY <2>1, <2>2, <2>3, <2>5 DEF OnThePage
<1>9. Doubles'
  <2> SUFFICES ASSUME NEW p \in 1..Latest', Waiting(p)', p < Latest'
               PROVE  /\ Same(p, p + 1)' /\ presses'[p + 1].payload = presses'[p].payload
                      /\ presses'[p + 1].gen = presses'[p].gen
                      /\ p + 1 = Latest' \/ presses'[p + 1].client \in {"ok", "error"}
    BY DEF Doubles
  <2>1. CASE p \in Old
    <3>1. Waiting(p)
        BY <1>1, <2>1 DEF Waiting
    <3>2. presses[Latest].here /\ p # Latest
        BY <1>1, <2>1, <3>1 DEF ClientInv, OnThePage, Waiting
    <3>3. p < Latest /\ p + 1 \in Old
        BY <1>1, <2>1, <3>2
    <3>4. /\ Same(p, p + 1) /\ presses[p + 1].payload = presses[p].payload
          /\ presses[p + 1].gen = presses[p].gen
          /\ p + 1 = Latest \/ presses[p + 1].client \in {"ok", "error"}
        BY <2>1, <3>1, <3>3 DEF ClientInv, Doubles
    <3>5. presses[p + 1].client \in {"ok", "error"}
        BY <1>1, <3>2, <3>4
    <3> QED BY <1>1, <2>1, <3>3, <3>4, <3>5 DEF Same
  <2>2. CASE p \in New
    <3>1. p + 1 \in New /\ p + 1 = Latest'
        BY <1>1, <2>2
    <3> QED BY <1>2, <2>2, <3>1 DEF Same
  <2> QED BY <1>3, <2>1, <2>2
<1>10. KeysAreSpent'
  <2> SUFFICES ASSUME NEW p \in 1..Latest', presses'[p].here,
                      presses'[p].client \in {"settling", "ok"},
                      presses'[p].client = "ok" \/ "ok" \in form'.replacesKey
               PROVE  presses'[p].gen # key'
    BY DEF KeysAreSpent
  <2>1. p \in Old /\ presses'[p] = presses[p] /\ form' = form
    BY <1>1, <1>2, <1>3 DEF form
  <2>2. presses[p].gen # key
    BY <2>1 DEF ClientInv, KeysAreSpent
  <2>3. presses[p].gen \in 1..Latest /\ presses[p].gen # key'
    BY <1>1, <1>4, <2>1, <2>2
  <2> QED BY <2>1, <2>3
<1>11. SamePurpose'
  <2> SUFFICES ASSUME NEW p \in 1..Latest', NEW q \in 1..Latest',
                      p < q, presses'[p].payload = presses'[q].payload,
                      \/ presses'[p].here /\ \A r \in p..q : presses'[r].client # "ok"
                      \/ presses'[p].gen = presses'[q].gen
               PROVE  Same(p, q)'
    BY DEF SamePurpose
  <2>1. CASE p \in Old /\ q \in Old
    <3>1. p..q \subseteq Old
        BY <1>1, <2>1
    <3>2. \A r \in p..q : presses'[r] = presses[r]
        BY <1>1, <3>1
    <3> QED BY <1>1, <2>1, <3>2 DEF ClientInv, SamePurpose, Same
  <2>2. CASE p \in Old /\ q \in New
    <3>1. presses[p].payload = payload /\ presses'[p] = presses[p]
        BY <1>1, <1>2, <2>2
    <3>2. presses[p].here /\ \A r \in p..Latest : presses[r].client # "ok"
        <4>1. CASE presses'[p].here /\ \A r \in p..q : presses'[r].client # "ok"
            <5>1. \A r \in p..Latest : r \in p..q /\ r \in Old
                BY <1>1, <2>2
            <5> QED BY <1>1, <3>1, <4>1, <5>1
        <4>2. CASE presses'[p].gen = presses'[q].gen
            BY <1>2, <1>5, <2>2, <3>1, <4>2
        <4> QED BY <4>1, <4>2
    <3>3. row.intent = presses[p].intent
        BY <2>2, <3>1, <3>2, PressAim DEF row
    <3> QED BY <1>2, <2>2, <3>1, <3>3 DEF Same
  <2>3. CASE p \in New /\ q \in New
    BY <1>2, <2>3 DEF Same
  <2> QED BY <1>3, <2>1, <2>2, <2>3
<1>12. FollowedByFailure'
  <2> SUFFICES ASSUME NEW p \in 1..Latest', NEW q \in 1..Latest',
                      p < q, presses'[p].gen = presses'[q].gen, presses'[p].client # "error"
               PROVE  \/ q = p + 1 /\ presses'[q].payload = presses'[p].payload
                      \/ presses'[p + 1].client = "error" /\ presses'[p + 1].gen = presses'[p].gen
    BY DEF FollowedByFailure
  <2>1. CASE p \in Old /\ q \in Old
    <3>1. p + 1 \in Old
        BY <1>1, <2>1
    <3> QED BY <1>1, <2>1, <3>1 DEF ClientInv, FollowedByFailure
  <2>2. CASE p \in Old /\ q \in New
    <3>1. presses[p].gen = key' /\ presses[p].client # "error"
        BY <1>1, <1>2, <2>2
    <3>2. /\ presses[p].here /\ key = key' /\ Latest \in p..Latest
          /\ \A r \in p..Latest : presses[r].gen = key /\ presses[r].client # "ok"
        BY <1>1, <1>5, <2>2, <3>1
    <3>3. Waiting(p)
        BY <2>2, <3>1, <3>2, Gens DEF Waiting
    <3>4. presses[Latest].here /\ presses[Latest].client = "error"
        BY <1>1, <2>2, <3>2 DEF ClientInv, OnThePage
    <3>5. p < Latest /\ p + 1 \in p..Latest /\ p + 1 \in Old
        BY <1>1, <2>2, <3>1, <3>4
    <3>6. /\ presses[p + 1].gen = presses[p].gen
          /\ p + 1 = Latest \/ presses[p + 1].client \in {"ok", "error"}
        BY <2>2, <3>3, <3>5 DEF ClientInv, Doubles
    <3>7. presses[p + 1].client = "error"
        BY <3>2, <3>4, <3>5, <3>6
    <3> QED BY <1>1, <2>2, <3>5, <3>6, <3>7
  <2>3. CASE p \in New /\ q \in New
    BY <1>2, <1>3, <2>3
  <2> QED BY <1>3, <2>1, <2>2, <2>3
<1> QED BY <1>6, <1>8, <1>9, <1>10, <1>11, <1>12 DEF ClientInv

LEMMA ClientNext ==
    ASSUME TypeInv, ClientInv, [Next]_vars
    PROVE  ClientInv'
<1>1. CASE UNCHANGED vars \/ Refocus \/ AnswerRead \/ Deliver
  <2>1. UNCHANGED <<scene, page, key, presses>>
    BY <1>1 DEF vars, Refocus, AnswerRead, Deliver
  <2>2. Stays
    BY <2>1 DEF Stays, Fixed, ClientStep, Latest
  <2> QED BY <2>2, StaysClient
<1>2. ASSUME NEW p \in DOMAIN scene.shows, Open(p)
      PROVE  ClientInv'
    BY <1>2, OpenStep, LeavesClient
<1>3. ASSUME NEW payload \in Payloads, NEW start \in 1..2, NEW clicks \in 1..2,
             PressButton(payload, start, clicks)
      PROVE  ClientInv'
    BY <1>3, PressClient
<1>4. ASSUME NEW p \in 1..Latest, NextCall(p)
      PROVE  ClientInv'
  <2>1. Stays
    BY <1>4, NextCallMoves, QuietStays DEF NextCall
  <2> QED BY <2>1, StaysClient
<1>5. ASSUME NEW p \in 1..Latest, Succeed(p) \/ GiveUp(p)
      PROVE  ClientInv'
    BY <1>5, SucceedStays, GiveUpStays, StaysClient
<1>6. ASSUME NEW p \in 1..Latest, Settle(p)
      PROVE  ClientInv'
    BY <1>6, SettleStays, StaysClient, LeavesClient
<1>7. ASSUME NEW p \in 1..Latest, Serves(p)
      PROVE  ClientInv'
  <2>1. Stays
    BY <1>7, ServerMoves, QuietStays
  <2> QED BY <2>1, StaysClient
<1>8. CASE FailRead
    BY <1>8, FailReadStep, StaysClient, LeavesClient
<1> QED BY <1>1, <1>2, <1>3, <1>4, <1>5, <1>6, <1>7, <1>8 DEF Next, Serves

LEMMA InitClient == Init => ClientInv
<1> SUFFICES ASSUME Init PROVE ClientInv
    OBVIOUS
<1>1. Latest = 0 /\ 1..Latest = {} /\ key = 0
    BY EmptySeq DEF Init, Latest
<1> QED BY <1>1
        DEF ClientInv, KeysInOrder, OnThePage, Doubles, KeysAreSpent, SamePurpose,
            FollowedByFailure

-----------------------------------------------------------------------------
(* The server's side: records and effects.                                  *)
KeyAt(p, i) ==
    IF form.calls[i].key = "press" THEN <<"press", p, i>> ELSE <<"mount", presses[p].gen, i>>

DoneAt(p, i) == \E r \in 1..Latest : Same(r, p) /\ <<r, i>> \in took

-----------------------------------------------------------------------------
(* The record of a key belongs to a press and a call of it.                 *)
Recorded(k, p, i) ==
    /\ k = KeyAt(p, i) /\ Keyed(form.calls[i]) /\ i <= presses[p].at
    /\ i = presses[p].at => presses[p].server # "sent"
    /\ IF filed[k].done THEN DoneAt(p, i)
                        ELSE presses[p].server # "ok" /\ i = presses[p].at

Records ==
    \A k \in DOMAIN filed, p \in 1..Latest :
      filed[k].by = p => \E i \in DOMAIN form.calls : Recorded(k, p, i)

(* What runs holds the record of its key.                                   *)
RunningOnRecord ==
    \A p \in 1..Latest : presses[p].server = "running" /\ Keyed(CallOf(p)) =>
      KeyOf(p) \in DOMAIN filed /\ filed[KeyOf(p)] = [by |-> p, done |-> FALSE]

(* What took effect was a call that has been answered, and it is on record   *)
(* if its key was not given up.                                             *)
EffectsOnRecord ==
    \A t \in took :
      /\ t[2] < presses[t[1]].at \/ (t[2] = presses[t[1]].at /\ presses[t[1]].server \in Answered)
      /\ Keyed(form.calls[t[2]]) =>
           t \in freed \/ (KeyAt(t[1], t[2]) \in DOMAIN filed /\ filed[KeyAt(t[1], t[2])].by = t[1])

(* The calls a press has passed were done for its purpose, under its keys or *)
(* for the same filling.                                                    *)
Passed(p, i) == i < presses[p].at \/ (i = presses[p].at /\ presses[p].server = "ok")

PassedIsDone ==
    \A p \in 1..Latest : \A i \in presses[p].start..Len(form.calls) : Passed(p, i) =>
      /\ DoneAt(p, i)
      /\ Keyed(form.calls[i]) =>
           /\ KeyAt(p, i) \in DOMAIN filed /\ filed[KeyAt(p, i)].done
           /\ presses[filed[KeyAt(p, i)].by].payload = presses[p].payload

(* A press is done with at the end of its calls.                            *)
ClientsAnswered ==
    \A p \in 1..Latest : presses[p].client \in {"settling", "ok"} =>
      presses[p].at = Len(form.calls) /\ presses[p].server = "ok"

ServerInv ==
    /\ Records /\ RunningOnRecord /\ EffectsOnRecord /\ PassedIsDone /\ ClientsAnswered

LEMMA KeyOfIs == ASSUME NEW p PROVE KeyOf(p) = KeyAt(p, presses[p].at)
    BY DEF KeyOf, KeyAt, CallOf

LEMMA KeysDiffer ==
    ASSUME NEW p, NEW q, NEW i, NEW j, KeyAt(p, i) = KeyAt(q, j)
    PROVE  i = j /\ (p = q \/ presses[p].gen = presses[q].gen)
    BY DEF KeyAt

LEMMA KeysStay ==
    ASSUME NEW p, NEW i, UNCHANGED scene, Fixed(p)
    PROVE  KeyAt(p, i)' = KeyAt(p, i)
    BY DEF KeyAt, Fixed, form

LEMMA DoneStays ==
    ASSUME Latest \in Nat, Latest' \in Nat, Latest <= Latest',
           \A p \in 1..Latest : Fixed(p), took \subseteq took',
           NEW q \in 1..Latest, NEW i, DoneAt(q, i)
    PROVE  DoneAt(q, i)'
    BY DEF DoneAt, Same, Fixed

(* What a step that neither files nor does anything makes of a press: it is  *)
(* left alone, refused, given up, or comes to its next call.                *)
ServerRow(p) ==
    \/ presses'[p].at = presses[p].at /\ presses'[p].server = presses[p].server
    \/ /\ presses'[p].at = presses[p].at
       /\ presses[p].server \in {"sent"} \cup Answered
       /\ presses'[p].server \in {"failed", "refused", "unheard"}
    \/ /\ presses'[p].at = presses[p].at + 1
       /\ presses[p].server = "ok" /\ presses'[p].server = "sent"

FilesNothing ==
    /\ UNCHANGED <<scene, filed, took, freed>>
    /\ Latest \in Nat /\ Latest' \in Nat /\ Latest <= Latest'
    /\ \A p \in 1..Latest : Fixed(p) /\ ServerRow(p)
    /\ \A p \in (Latest + 1)..Latest' :
         /\ presses'[p].start \in Int /\ presses'[p].at = presses'[p].start
         /\ presses'[p].server = "sent"

LEMMA FilesNothingServer ==
    ASSUME TypeInv, ServerInv, FilesNothing, ClientsAnswered'
    PROVE  ServerInv'
<1>1. /\ UNCHANGED <<scene, filed, took, freed, form>> /\ Latest \in Nat /\ Latest' \in Nat
      /\ 1..Latest \subseteq 1..Latest' /\ Latest <= Latest'
      /\ \A p \in 1..Latest : Fixed(p)
    BY DEF FilesNothing, form
<1>2. \A i : \A p \in 1..Latest : KeyAt(p, i)' = KeyAt(p, i)
    BY <1>1, KeysStay
<1>3. \A i : \A p \in 1..Latest : DoneAt(p, i) => DoneAt(p, i)'
    BY <1>1, DoneStays
<1>4. \A p \in 1..Latest' :
        \/ p \in 1..Latest
        \/ /\ presses'[p].start \in Int /\ presses'[p].at = presses'[p].start
           /\ presses'[p].server = "sent"
    BY <1>1 DEF FilesNothing
<1>5. \A p \in 1..Latest : ServerRow(p) /\ presses[p].at \in Int
    BY RowTypes DEF FilesNothing
<1>6. \A k \in DOMAIN filed : filed[k].by \in 1..Latest
    BY DEF TypeInv, ConsoleTypeOK
<1>7. Records'
  <2> SUFFICES ASSUME NEW k \in DOMAIN filed, NEW b \in 1..Latest', filed[k].by = b
               PROVE  \E i \in DOMAIN form.calls : Recorded(k, b, i)'
    BY <1>1 DEF Records
  <2>2. b \in 1..Latest
    BY <1>6
  <2>1. PICK i \in DOMAIN form.calls : Recorded(k, b, i)
    BY <2>2 DEF Records, ServerInv
  <2>3. ServerRow(b) /\ presses[b].at \in Int /\ i \in Int
    BY <1>5, <2>2, FormFacts DEF TypeInv
  <2>4. i <= presses'[b].at /\ (i = presses'[b].at => presses'[b].server # "sent")
    BY <2>1, <2>3 DEF ServerRow, Recorded
  <2>5. ~filed[k].done => presses'[b].server # "ok" /\ i = presses'[b].at
    BY <2>1, <2>3 DEF ServerRow, Answered, Recorded
  <2>6. filed[k].done => DoneAt(b, i)'
    BY <1>3, <2>1, <2>2 DEF Recorded
  <2>7. k = KeyAt(b, i)' /\ Keyed(form.calls[i])
    BY <1>2, <2>1, <2>2 DEF Recorded
  <2> QED BY <1>1, <2>4, <2>5, <2>6, <2>7 DEF Recorded, Keyed
<1>8. RunningOnRecord'
  <2> SUFFICES ASSUME NEW p \in 1..Latest', presses'[p].server = "running", Keyed(CallOf(p))'
               PROVE  KeyOf(p)' \in DOMAIN filed /\ filed[KeyOf(p)'] = [by |-> p, done |-> FALSE]
    BY <1>1 DEF RunningOnRecord
  <2>1. p \in 1..Latest
    BY <1>4
  <2>2. presses[p].server = "running" /\ presses'[p].at = presses[p].at
    BY <1>5, <2>1 DEF ServerRow
  <2>3. CallOf(p)' = CallOf(p) /\ KeyOf(p)' = KeyOf(p)
    BY <1>1, <1>2, <2>1, <2>2, KeyOfIs DEF CallOf, KeyOf, Fixed
  <2>4. Keyed(CallOf(p))
    BY <2>3 DEF Keyed
  <2> QED BY <2>1, <2>2, <2>3, <2>4 DEF ServerInv, RunningOnRecord
<1>9. EffectsOnRecord'
  <2> SUFFICES ASSUME NEW t \in took
               PROVE  /\ \/ t[2] < presses'[t[1]].at
                         \/ t[2] = presses'[t[1]].at /\ presses'[t[1]].server \in Answered
                      /\ Keyed(form.calls[t[2]]) =>
                           \/ t \in freed
                           \/ /\ KeyAt(t[1], t[2])' \in DOMAIN filed
                              /\ filed[KeyAt(t[1], t[2])'].by = t[1]
    BY <1>1 DEF EffectsOnRecord, Keyed
  <2>1. t[1] \in 1..Latest /\ t[2] \in DOMAIN form.calls
    BY DEF TypeInv, ConsoleTypeOK
  <2>2. t[2] \in Int /\ ServerRow(t[1]) /\ presses[t[1]].at \in Int
    BY <1>5, <2>1, FormFacts DEF TypeInv
  <2>3. \/ t[2] < presses'[t[1]].at
        \/ t[2] = presses'[t[1]].at /\ presses'[t[1]].server \in Answered
    BY <2>2 DEF ServerInv, EffectsOnRecord, ServerRow, Answered
  <2> QED BY <1>2, <2>1, <2>3 DEF ServerInv, EffectsOnRecord
<1>10. PassedIsDone'
  <2> SUFFICES ASSUME NEW p \in 1..Latest', NEW i \in presses'[p].start..Len(form'.calls),
                      Passed(p, i)'
               PROVE  /\ DoneAt(p, i)'
                      /\ Keyed(form'.calls[i]) =>
                           /\ KeyAt(p, i)' \in DOMAIN filed' /\ filed'[KeyAt(p, i)'].done
                           /\ presses'[filed'[KeyAt(p, i)'].by].payload = presses'[p].payload
    BY DEF PassedIsDone, Keyed
  <2>1. p \in 1..Latest
    BY <1>4 DEF Passed
  <2>2. ServerRow(p) /\ presses[p].at \in Int /\ presses[p].start \in Int /\ Fixed(p)
    BY <1>1, <1>5, <2>1, RowTypes
  <2>3. i \in presses[p].start..Len(form.calls) /\ Len(form.calls) \in Int
    BY <1>1, <2>2, FormFacts DEF Fixed, TypeInv
  <2>4. Passed(p, i)
    BY <2>2, <2>3 DEF Passed, ServerRow
  <2>5. /\ DoneAt(p, i)
        /\ Keyed(form.calls[i]) =>
             /\ KeyAt(p, i) \in DOMAIN filed /\ filed[KeyAt(p, i)].done
             /\ presses[filed[KeyAt(p, i)].by].payload = presses[p].payload
    BY <2>1, <2>3, <2>4 DEF ServerInv, PassedIsDone
  <2>6. \A k \in DOMAIN filed : presses'[filed[k].by].payload = presses[filed[k].by].payload
    BY <1>1, <1>6 DEF Fixed
  <2>7. KeyAt(p, i)' = KeyAt(p, i) /\ presses'[p].payload = presses[p].payload
    BY <1>1, <1>2, <2>1 DEF Fixed
  <2> QED BY <1>1, <1>3, <2>1, <2>5, <2>6, <2>7
<1> QED BY <1>7, <1>8, <1>9, <1>10 DEF ServerInv

LEMMA RowServers ==
    ASSUME TypeInv, NEW p \in 1..Latest
    PROVE  presses[p].server \in {"sent", "running"} \cup Answered
    BY RowTypes DEF PressRecord

LEMMA QuietRows ==
    ASSUME TypeInv, NEW p \in 1..Latest, Moves(p), ServerRow(p),
           UNCHANGED <<scene, filed, took, freed>>
    PROVE  FilesNothing
<1>1. Latest \in Nat /\ Latest' = Latest
    BY Gens DEF Moves
<1>2. \A q \in 1..Latest : Fixed(q) /\ ServerRow(q)
    BY DEF Moves, Fixed, ServerRow
<1> QED BY <1>1, <1>2 DEF FilesNothing

LEMMA AnsweredStays ==
    ASSUME TypeInv, ServerInv, NEW p \in 1..Latest, Moves(p), UNCHANGED scene,
           \/ presses'[p].client \notin {"settling", "ok"}
           \/ presses'[p].at = Len(form.calls) /\ presses'[p].server = "ok"
    PROVE  ClientsAnswered'
<1>1. \A q \in 1..Latest : q # p => presses'[q] = presses[q]
    BY DEF Moves
<1>2. Latest' = Latest /\ form' = form
    BY DEF Moves, form
<1> QED BY <1>1, <1>2 DEF ServerInv, ClientsAnswered

LEMMA ServerQuiet ==
    ASSUME TypeInv, ServerInv, UNCHANGED vars \/ Refocus \/ AnswerRead \/ Deliver
    PROVE  ServerInv'
<1>1. UNCHANGED <<scene, presses, filed, took, freed, Latest, form>>
    BY DEF vars, Refocus, AnswerRead, Deliver, server, Latest, form
<1>2. FilesNothing
    BY <1>1, Gens DEF FilesNothing, Fixed, ServerRow
<1>3. ClientsAnswered'
    BY <1>1 DEF ServerInv, ClientsAnswered
<1> QED BY <1>2, <1>3, FilesNothingServer

LEMMA ServerOpen ==
    ASSUME TypeInv, ServerInv, NEW p, Open(p)
    PROVE  ServerInv'
<1>1. Leaving /\ \A q \in 1..Latest : presses'[q].client = presses[q].client
    BY OpenLeaves
<1>2. UNCHANGED <<scene, filed, took, freed, form>>
    BY DEF Open, server, form
<1>3. FilesNothing
    BY <1>1, <1>2, Gens DEF FilesNothing, Leaving, ServerRow
<1>4. ClientsAnswered'
    BY <1>1, <1>2 DEF ServerInv, ClientsAnswered, Leaving
<1> QED BY <1>3, <1>4, FilesNothingServer

LEMMA ServerFailRead ==
    ASSUME TypeInv, ServerInv, FailRead
    PROVE  ServerInv'
<1>1. UNCHANGED <<scene, filed, took, freed, form>>
    BY FailReadMoves DEF server, form
<1>2. /\ Latest' = Latest
      /\ \A q \in 1..Latest : /\ Fixed(q) /\ presses'[q].at = presses[q].at
                              /\ presses'[q].server = presses[q].server
                              /\ presses'[q].client = presses[q].client
    BY FailReadMoves DEF Leaving, Fixed, Latest
<1>3. FilesNothing
    BY <1>1, <1>2, Gens DEF FilesNothing, ServerRow
<1>4. ClientsAnswered'
    BY <1>1, <1>2 DEF ServerInv, ClientsAnswered
<1> QED BY <1>3, <1>4, FilesNothingServer

LEMMA ServerPress ==
    ASSUME TypeInv, ServerInv, NEW payload \in Payloads, NEW start, NEW clicks \in 1..2,
           PressButton(payload, start, clicks)
    PROVE  ServerInv'
<1>1. Pushes(payload, start, clicks)
    BY Pressed
<1>2. UNCHANGED <<scene, filed, took, freed, form>>
    BY DEF PressButton, server, form
<1>3. start \in Int
  <2>1. IsNew(PressRow(payload, start), payload, start)
    BY PressRows
  <2> QED BY <2>1, FormFacts DEF IsNew, TypeInv
<1>4. Latest \in Nat /\ Latest' = Latest + clicks
    BY <1>1 DEF Pushes
<1>5. \A q \in 1..Latest : Fixed(q) /\ ServerRow(q)
    BY <1>1 DEF Pushes, Fixed, ServerRow
<1>6. \A q \in (Latest + 1)..Latest' :
        /\ presses'[q].start \in Int /\ presses'[q].at = presses'[q].start
        /\ presses'[q].server = "sent" /\ presses'[q].client = "pending"
    BY <1>1, <1>3 DEF Pushes
<1>7. FilesNothing
    BY <1>2, <1>4, <1>5, <1>6 DEF FilesNothing
<1>8. ClientsAnswered'
  <2> SUFFICES ASSUME NEW q \in 1..Latest', presses'[q].client \in {"settling", "ok"}
               PROVE  presses'[q].at = Len(form.calls) /\ presses'[q].server = "ok"
    BY <1>2 DEF ClientsAnswered
  <2>1. q \in 1..Latest
    BY <1>4, <1>6
  <2>2. presses'[q] = presses[q]
    BY <1>1, <2>1 DEF Pushes
  <2> QED BY <2>1, <2>2 DEF ServerInv, ClientsAnswered
<1> QED BY <1>7, <1>8, FilesNothingServer

LEMMA ServerNextCall ==
    ASSUME TypeInv, ServerInv, NEW p \in 1..Latest, NextCall(p)
    PROVE  ServerInv'
<1>1. /\ Moves(p) /\ presses'[p].client = "pending"
      /\ presses'[p].at = presses[p].at + 1 /\ presses'[p].server = "sent"
      /\ presses[p].server = "ok" /\ UNCHANGED <<scene, filed, took, freed>>
    BY NextCallMoves DEF NextCall, server
<1>2. FilesNothing
    BY <1>1, QuietRows DEF ServerRow
<1>3. ClientsAnswered'
    BY <1>1, AnsweredStays
<1> QED BY <1>2, <1>3, FilesNothingServer

LEMMA ServerSucceed ==
    ASSUME TypeInv, ServerInv, NEW p \in 1..Latest, Succeed(p)
    PROVE  ServerInv'
<1>1. /\ Moves(p) /\ presses'[p].at = presses[p].at /\ presses'[p].server = presses[p].server
      /\ presses[p].server = "ok" /\ presses[p].at = Len(form.calls)
      /\ UNCHANGED <<scene, filed, took, freed>>
    BY SucceedMoves DEF Succeed, server
<1>2. FilesNothing
    BY <1>1, QuietRows DEF ServerRow
<1>3. ClientsAnswered'
    BY <1>1, AnsweredStays
<1> QED BY <1>2, <1>3, FilesNothingServer

LEMMA ServerGiveUp ==
    ASSUME TypeInv, ServerInv, NEW p \in 1..Latest, GiveUp(p)
    PROVE  ServerInv'
<1>1. /\ Moves(p) /\ presses'[p].at = presses[p].at /\ presses'[p].client = "error"
      /\ presses'[p].server = IF presses[p].server \in Answered THEN "unheard"
                                                                ELSE presses[p].server
      /\ UNCHANGED <<scene, filed, took, freed>>
    BY GiveUpMoves DEF GiveUp, server
<1>2. ServerRow(p)
    BY <1>1 DEF ServerRow
<1>3. FilesNothing
    BY <1>1, <1>2, QuietRows
<1>4. ClientsAnswered'
    BY <1>1, AnsweredStays
<1> QED BY <1>3, <1>4, FilesNothingServer

LEMMA ServerSettle ==
    ASSUME TypeInv, ServerInv, NEW p \in 1..Latest, Settle(p)
    PROVE  ServerInv'
<1>1. /\ UNCHANGED <<scene, filed, took, freed, form>> /\ presses[p].client = "settling"
      /\ \A q \in 1..Latest : q # p => presses'[q].client = presses[q].client
    BY SettleMoves DEF Settle, server, form
<1>2. /\ Latest' = Latest
      /\ \A q \in 1..Latest : /\ Fixed(q) /\ presses'[q].at = presses[q].at
                              /\ presses'[q].server = presses[q].server
  <2>1. CASE /\ Moves(p) /\ presses'[p].at = presses[p].at
             /\ presses'[p].server = presses[p].server
    BY <2>1 DEF Moves, Fixed
  <2>2. CASE Leaving
    BY <2>2 DEF Leaving
  <2> QED BY <2>1, <2>2, SettleMoves
<1>3. FilesNothing
    BY <1>1, <1>2, Gens DEF FilesNothing, ServerRow
<1>4. ClientsAnswered'
    BY <1>1, <1>2 DEF ServerInv, ClientsAnswered
<1> QED BY <1>3, <1>4, FilesNothingServer

LEMMA ServerDeny ==
    ASSUME TypeInv, ServerInv, NEW p \in 1..Latest, Deny(p) \/ Refuse(p)
    PROVE  ServerInv'
<1>1. PICK answer \in {"failed", "refused"} : Answer(p, answer)
    BY DEF Deny, Refuse
<1>2. /\ Moves(p) /\ presses'[p].at = presses[p].at
      /\ presses'[p].server = Heard(p, answer) /\ presses'[p].client = presses[p].client
      /\ presses[p].server = "sent" /\ UNCHANGED <<scene, filed, took, freed>>
    BY <1>1, AnswerMoves DEF Deny, Refuse, Arrives, server
<1>3. ServerRow(p)
    BY <1>2 DEF ServerRow, Heard
<1>4. FilesNothing
    BY <1>2, <1>3, QuietRows
<1>5. presses'[p].client \notin {"settling", "ok"}
    BY <1>2 DEF ServerInv, ClientsAnswered
<1>6. ClientsAnswered'
    BY <1>2, <1>5, AnsweredStays
<1> QED BY <1>4, <1>6, FilesNothingServer

(* What the server's steps have in common: one press is answered, the rest   *)
(* stay, and nothing that was done is undone.                               *)
Acts(p) ==
    /\ Moves(p) /\ presses'[p].client = presses[p].client /\ presses'[p].at = presses[p].at
    /\ UNCHANGED scene /\ presses[p].server \in {"sent", "running"}
    /\ took \subseteq took' /\ freed \subseteq freed'

StaysPut(p) ==
    /\ Latest' = Latest /\ Latest \in Nat /\ form' = form
    /\ \A q \in 1..Latest : q # p => presses'[q] = presses[q]
    /\ \A q \in 1..Latest : /\ presses'[q].at = presses[q].at
                            /\ presses'[q].gen = presses[q].gen
                            /\ presses'[q].payload = presses[q].payload
                            /\ presses'[q].start = presses[q].start
                            /\ presses'[q].intent = presses[q].intent
                            /\ presses[q].at \in DOMAIN form.calls
    /\ \A i : \A q \in 1..Latest : KeyAt(q, i)' = KeyAt(q, i)
    /\ \A i : \A q \in 1..Latest : DoneAt(q, i) => DoneAt(q, i)'
    /\ \A k \in DOMAIN filed : filed[k] \in [by : 1..Latest, done : BOOLEAN]
    /\ ClientsAnswered'

LEMMA ActsPut ==
    ASSUME TypeInv, ServerInv, NEW p \in 1..Latest, Acts(p)
    PROVE  StaysPut(p)
<1>1. Latest' = Latest /\ Latest \in Nat /\ form' = form
    BY Gens DEF Acts, Moves, form
<1>2. \A q \in 1..Latest : q # p => presses'[q] = presses[q]
    BY DEF Acts, Moves
<1>3. \A q \in 1..Latest : Fixed(q) /\ presses'[q].at = presses[q].at
    BY <1>2 DEF Acts, Moves, Fixed
<1>4. \A i : \A q \in 1..Latest : KeyAt(q, i)' = KeyAt(q, i)
    BY <1>3, KeysStay DEF Acts
<1>5. \A i : \A q \in 1..Latest : DoneAt(q, i) => DoneAt(q, i)'
    BY <1>1, <1>3, DoneStays DEF Acts
<1>6. ClientsAnswered'
  <2>1. presses'[p].client \notin {"settling", "ok"}
    BY DEF Acts, ServerInv, ClientsAnswered
  <2> QED BY <2>1, AnsweredStays DEF Acts
<1>7. /\ \A k \in DOMAIN filed : filed[k] \in [by : 1..Latest, done : BOOLEAN]
      /\ \A q \in 1..Latest : presses[q].at \in DOMAIN form.calls
    BY DEF TypeInv, ConsoleTypeOK
<1> QED BY <1>1, <1>2, <1>3, <1>4, <1>5, <1>6, <1>7 DEF StaysPut, Fixed

(* What a press that acts has in effect are the calls it has passed.         *)
LEMMA ActsAnew ==
    ASSUME TypeInv, ServerInv, NEW p \in 1..Latest, Acts(p), NEW t \in took
    PROVE  /\ t[1] \in 1..Latest
           /\ t[2] < presses[t[1]].at \/ (t[2] = presses[t[1]].at /\ t[1] # p)
           /\ t[1] = p => t[2] # presses[p].at
<1>1. t[1] \in 1..Latest /\ presses[t[1]].at \in Int
    BY RowTypes DEF TypeInv, ConsoleTypeOK
<1>2. t[2] < presses[t[1]].at \/ (t[2] = presses[t[1]].at /\ t[1] # p)
    BY DEF Acts, ServerInv, EffectsOnRecord, Answered
<1> QED BY <1>1, <1>2

(* An effect stays on record if its record does, and a new one is answered.  *)
LEMMA EffectsStay ==
    ASSUME TypeInv, ServerInv, NEW p \in 1..Latest, Acts(p),
           \A t \in took : Keyed(form.calls[t[2]]) /\ KeyAt(t[1], t[2]) \in DOMAIN filed
                             /\ filed[KeyAt(t[1], t[2])].by = t[1] =>
             KeyAt(t[1], t[2]) \in DOMAIN filed' /\ filed'[KeyAt(t[1], t[2])].by = t[1],
           \A t \in took' : t \in took \/
             /\ t[1] = p /\ t[2] = presses[p].at /\ presses'[p].server \in Answered
             /\ Keyed(CallOf(p)) =>
                  t \in freed' \/ (KeyOf(p) \in DOMAIN filed' /\ filed'[KeyOf(p)].by = p)
    PROVE  EffectsOnRecord'
<1>3. StaysPut(p)
    BY ActsPut
<1> SUFFICES ASSUME NEW t \in took'
             PROVE  /\ \/ t[2] < presses'[t[1]].at
                       \/ t[2] = presses'[t[1]].at /\ presses'[t[1]].server \in Answered
                    /\ Keyed(form.calls[t[2]]) =>
                         \/ t \in freed'
                         \/ /\ KeyAt(t[1], t[2])' \in DOMAIN filed'
                            /\ filed'[KeyAt(t[1], t[2])'].by = t[1]
    BY <1>3 DEF StaysPut, EffectsOnRecord, Keyed
<1>1. CASE t \in took
  <2>1. /\ t[1] \in 1..Latest /\ KeyAt(t[1], t[2])' = KeyAt(t[1], t[2])
        /\ presses'[t[1]].at = presses[t[1]].at
    BY <1>1, <1>3, ActsAnew DEF StaysPut
  <2>4. t[1] # p => presses'[t[1]] = presses[t[1]]
    BY <1>3, <2>1 DEF StaysPut
  <2>2. \/ t[2] < presses'[t[1]].at
        \/ t[2] = presses'[t[1]].at /\ presses'[t[1]].server \in Answered
    BY <1>1, <2>1, <2>4, ActsAnew DEF ServerInv, EffectsOnRecord
  <2>3. Keyed(form.calls[t[2]]) => \/ t \in freed'
                                  \/ /\ KeyAt(t[1], t[2]) \in DOMAIN filed'
                                     /\ filed'[KeyAt(t[1], t[2])].by = t[1]
    BY <1>1 DEF Acts, ServerInv, EffectsOnRecord
  <2> QED BY <2>1, <2>2, <2>3
<1>2. CASE t \notin took
  <2>1. /\ t[1] = p /\ t[2] = presses[p].at /\ presses'[p].server \in Answered
        /\ Keyed(CallOf(p)) =>
             t \in freed' \/ (KeyOf(p) \in DOMAIN filed' /\ filed'[KeyOf(p)].by = p)
    BY <1>2
  <2>2. KeyAt(p, t[2])' = KeyOf(p) /\ presses'[p].at = presses[p].at
    BY <1>3, <2>1, KeyOfIs DEF StaysPut
  <2> QED BY <2>1, <2>2 DEF CallOf
<1> QED BY <1>1, <1>2

LEMMA CallStays ==
    ASSUME NEW p, NEW q \in 1..Latest, StaysPut(p)
    PROVE  CallOf(q)' = CallOf(q) /\ KeyOf(q)' = KeyOf(q) /\ KeyOf(q) = KeyAt(q, presses[q].at)
    BY DEF StaysPut, CallOf, KeyOf, KeyAt

(* The record under a press's key was made for that press, or for one before *)
(* it under the same keys.                                                  *)
LEMMA UnderKeyOf ==
    ASSUME TypeInv, ServerInv, NEW p \in 1..Latest, NEW i, KeyAt(p, i) \in DOMAIN filed
    PROVE  LET b == filed[KeyAt(p, i)].by
           IN  /\ b \in 1..Latest /\ Recorded(KeyAt(p, i), b, i)
               /\ b = p \/ presses[b].gen = presses[p].gen
<1> DEFINE b == filed[KeyAt(p, i)].by
<1>1. b \in 1..Latest
    BY DEF TypeInv, ConsoleTypeOK
<1>2. PICK j \in DOMAIN form.calls : Recorded(KeyAt(p, i), b, j)
    BY <1>1 DEF ServerInv, Records
<1>3. KeyAt(p, i) = KeyAt(b, j)
    BY <1>2 DEF Recorded
<1>4. i = j /\ (b = p \/ presses[b].gen = presses[p].gen)
    BY <1>3, KeysDiffer
<1> QED BY <1>1, <1>2, <1>4

LEMMA ServerClaim ==
    ASSUME TypeInv, ServerInv, NEW p \in 1..Latest, Claim(p)
    PROVE  ServerInv'
<1>1. /\ Answer(p, "running") /\ presses[p].server = "sent" /\ ~Guarded(p)
      /\ UNCHANGED <<scene, took, freed>>
    BY DEF Claim, Arrives
<1>2. Acts(p) /\ presses'[p].server = "running"
    BY <1>1, AnswerMoves DEF Acts, Heard, Answered
<1>3. StaysPut(p)
    BY <1>2, ActsPut
<1>4. Keyed(CallOf(p)) => KeyOf(p) \notin DOMAIN filed
    BY <1>1 DEF Guarded
<1>5. \/ ~Keyed(CallOf(p)) /\ filed' = filed
      \/ /\ Keyed(CallOf(p)) /\ DOMAIN filed' = DOMAIN filed \cup {KeyOf(p)}
         /\ filed'[KeyOf(p)] = [by |-> p, done |-> FALSE]
    BY DEF Claim, Reserved
<1>6. DOMAIN filed \subseteq DOMAIN filed' /\ \A k \in DOMAIN filed : filed'[k] = filed[k]
    BY <1>4 DEF Claim, Reserved
<1>7. Records'
  <2> SUFFICES ASSUME NEW k \in DOMAIN filed', NEW b \in 1..Latest', filed'[k].by = b
               PROVE  \E i \in DOMAIN form'.calls : Recorded(k, b, i)'
    BY DEF Records
  <2>1. CASE k \in DOMAIN filed
    <3>1. b \in 1..Latest /\ filed[k].by = b /\ filed'[k] = filed[k]
        BY <1>3, <1>6, <2>1 DEF StaysPut
    <3>2. PICK i \in DOMAIN form.calls : Recorded(k, b, i)
        BY <2>1, <3>1 DEF ServerInv, Records
    <3>3. i # presses[b].at \/ b # p
        BY <1>1, <3>2 DEF Recorded
    <3>4. Recorded(k, b, i)'
        BY <1>1, <1>3, <3>1, <3>2, <3>3 DEF Recorded, StaysPut, Keyed
    <3> QED BY <1>3, <3>4 DEF StaysPut
  <2>2. CASE k \notin DOMAIN filed
    <3>1. Keyed(CallOf(p)) /\ k = KeyOf(p) /\ b = p /\ ~filed'[k].done
        BY <1>5, <2>2
    <3>2. KeyOf(p) = KeyAt(p, presses[p].at) /\ presses[p].at \in Int
        BY <1>3, CallStays, RowTypes
    <3>3. Recorded(k, p, presses[p].at)'
        BY <1>2, <1>3, <3>1, <3>2 DEF Recorded, StaysPut, Keyed, CallOf
    <3> QED BY <1>3, <3>1, <3>3 DEF StaysPut
  <2> QED BY <2>1, <2>2
<1>8. RunningOnRecord'
  <2> SUFFICES ASSUME NEW q \in 1..Latest', presses'[q].server = "running", Keyed(CallOf(q))'
               PROVE  KeyOf(q)' \in DOMAIN filed' /\ filed'[KeyOf(q)'] = [by |-> q, done |-> FALSE]
    BY DEF RunningOnRecord
  <2>1. q \in 1..Latest
    BY <1>3 DEF StaysPut
  <2>2. Keyed(CallOf(q)) /\ KeyOf(q)' = KeyOf(q)
    BY <1>3, <2>1, CallStays DEF Keyed
  <2>3. CASE q = p
    BY <1>5, <2>2, <2>3
  <2>4. CASE q # p
    <3>1. presses[q].server = "running"
        BY <1>3, <2>1, <2>4 DEF StaysPut
    <3> QED BY <1>6, <2>1, <2>2, <3>1 DEF ServerInv, RunningOnRecord
  <2> QED BY <2>3, <2>4
<1>9. EffectsOnRecord'
    BY <1>1, <1>2, <1>6, EffectsStay
<1>10. PassedIsDone'
  <2> SUFFICES ASSUME NEW q \in 1..Latest, NEW i \in presses[q].start..Len(form.calls),
                      Passed(q, i)'
               PROVE  /\ DoneAt(q, i)'
                      /\ Keyed(form.calls[i]) =>
                           /\ KeyAt(q, i) \in DOMAIN filed' /\ filed'[KeyAt(q, i)].done
                           /\ presses'[filed'[KeyAt(q, i)].by].payload = presses'[q].payload
    BY <1>3 DEF PassedIsDone, Keyed, StaysPut
  <2>1. Passed(q, i)
    BY <1>2, <1>3 DEF Passed, StaysPut
  <2>2. /\ DoneAt(q, i)
        /\ Keyed(form.calls[i]) =>
             /\ KeyAt(q, i) \in DOMAIN filed /\ filed[KeyAt(q, i)].done
             /\ presses[filed[KeyAt(q, i)].by].payload = presses[q].payload
    BY <2>1 DEF ServerInv, PassedIsDone
  <2> QED BY <1>3, <1>6, <2>2 DEF StaysPut
<1> QED BY <1>3, <1>7, <1>8, <1>9, <1>10 DEF ServerInv, StaysPut

(* A replay answers a press with what was done for its purpose.              *)
LEMMA ReplayIsDone ==
    ASSUME TypeInv, ClientInv, ServerInv, NEW p \in 1..Latest, Replay(p)
    PROVE  DoneAt(p, presses[p].at)
<1> DEFINE k == KeyOf(p)
           b == filed[k].by
<1>1. /\ k \in DOMAIN filed /\ filed[k].done /\ presses[b].payload = presses[p].payload
      /\ presses[p].server = "sent"
    BY DEF Replay, Guarded, SameRequest, Arrives
<1>2. k = KeyAt(p, presses[p].at)
    BY KeyOfIs
<1>3. /\ b \in 1..Latest /\ Recorded(k, b, presses[p].at)
      /\ b = p \/ presses[b].gen = presses[p].gen
    BY <1>1, <1>2, UnderKeyOf
<1>4. DoneAt(b, presses[p].at) /\ b # p
    BY <1>1, <1>3 DEF Recorded
<1> HIDE DEF b, k
<1>5. Same(b, p)
  <2>1. b < p \/ p < b
    BY <1>3, <1>4, Gens
  <2>2. presses[p].payload = presses[b].payload /\ presses[p].gen = presses[b].gen
    BY <1>1, <1>3, <1>4 DEF b
  <2>3. CASE b < p
    BY <1>3, <2>2, <2>3 DEF ClientInv, SamePurpose
  <2>4. CASE p < b
    BY <1>3, <2>2, <2>4 DEF ClientInv, SamePurpose, Same
  <2> QED BY <2>1, <2>3, <2>4
<1> QED BY <1>4, <1>5 DEF DoneAt, Same

LEMMA ServerReplay ==
    ASSUME TypeInv, ClientInv, ServerInv, NEW p \in 1..Latest, Replay(p)
    PROVE  ServerInv'
<1>1. Answer(p, "ok") /\ presses[p].server = "sent" /\ UNCHANGED <<scene, filed, took, freed>>
    BY DEF Replay, Arrives, server
<1>2. Acts(p) /\ presses'[p].server \in {"ok", "unheard"}
    BY <1>1, AnswerMoves DEF Acts, Heard
<1>3. StaysPut(p)
    BY <1>2, ActsPut
<1>4. /\ KeyOf(p) \in DOMAIN filed /\ filed[KeyOf(p)].done
      /\ presses[filed[KeyOf(p)].by].payload = presses[p].payload
      /\ KeyOf(p) = KeyAt(p, presses[p].at)
    BY KeyOfIs DEF Replay, Guarded, SameRequest
<1>7. Records'
  <2> SUFFICES ASSUME NEW k \in DOMAIN filed', NEW b \in 1..Latest', filed'[k].by = b
               PROVE  \E i \in DOMAIN form'.calls : Recorded(k, b, i)'
    BY DEF Records
  <2>1. b \in 1..Latest /\ filed[k].by = b /\ filed' = filed
    BY <1>1, <1>3 DEF StaysPut
  <2>2. PICK i \in DOMAIN form.calls : Recorded(k, b, i)
    BY <2>1 DEF ServerInv, Records
  <2>3. (i # presses[b].at /\ filed[k].done) \/ b # p
    BY <1>1, <2>2 DEF Recorded
  <2>4. Recorded(k, b, i)'
    BY <1>1, <1>3, <2>1, <2>2, <2>3 DEF Recorded, StaysPut, Keyed
  <2> QED BY <1>3, <2>4 DEF StaysPut
<1>8. RunningOnRecord'
  <2> SUFFICES ASSUME NEW q \in 1..Latest', presses'[q].server = "running", Keyed(CallOf(q))'
               PROVE  KeyOf(q)' \in DOMAIN filed' /\ filed'[KeyOf(q)'] = [by |-> q, done |-> FALSE]
    BY DEF RunningOnRecord
  <2>1. q \in 1..Latest /\ q # p
    BY <1>2, <1>3 DEF StaysPut
  <2>2. Keyed(CallOf(q)) /\ KeyOf(q)' = KeyOf(q)
    BY <1>3, <2>1, CallStays DEF Keyed
  <2>3. presses[q].server = "running"
    BY <1>3, <2>1 DEF StaysPut
  <2> QED BY <1>1, <2>1, <2>2, <2>3 DEF ServerInv, RunningOnRecord
<1>9. EffectsOnRecord'
    BY <1>1, <1>2, EffectsStay
<1>10. PassedIsDone'
  <2> SUFFICES ASSUME NEW q \in 1..Latest, NEW i \in presses[q].start..Len(form.calls),
                      Passed(q, i)'
               PROVE  /\ DoneAt(q, i)'
                      /\ Keyed(form.calls[i]) =>
                           /\ KeyAt(q, i) \in DOMAIN filed' /\ filed'[KeyAt(q, i)].done
                           /\ presses'[filed'[KeyAt(q, i)].by].payload = presses'[q].payload
    BY <1>3 DEF PassedIsDone, Keyed, StaysPut
  <2>2. /\ DoneAt(q, i)
        /\ Keyed(form.calls[i]) =>
             /\ KeyAt(q, i) \in DOMAIN filed /\ filed[KeyAt(q, i)].done
             /\ presses[filed[KeyAt(q, i)].by].payload = presses[q].payload
    <3>1. CASE Passed(q, i)
        BY <3>1 DEF ServerInv, PassedIsDone
    <3>2. CASE ~Passed(q, i)
        <4>1. q = p /\ i = presses[p].at
            BY <1>2, <1>3, <3>2 DEF Passed, StaysPut
        <4>2. DoneAt(q, i)
            BY <4>1, ReplayIsDone
        <4> QED BY <1>4, <4>1, <4>2
    <3> QED BY <3>1, <3>2
  <2> QED BY <1>1, <1>3, <2>2 DEF StaysPut
<1> QED BY <1>3, <1>7, <1>8, <1>9, <1>10 DEF ServerInv, StaysPut

(* What runs is on record, as not done yet, and so of no other press, of no  *)
(* effect and of no call that was passed.                                   *)
LEMMA RunningRecord ==
    ASSUME TypeInv, ServerInv, NEW p \in 1..Latest, presses[p].server = "running", Keyed(CallOf(p))
    PROVE  /\ KeyOf(p) \in DOMAIN filed /\ filed[KeyOf(p)] = [by |-> p, done |-> FALSE]
           /\ filed[KeyOf(p)].by = p /\ ~filed[KeyOf(p)].done
    BY DEF ServerInv, RunningOnRecord

(* A failure, whether the work was done or not.                              *)
LEMMA FailsDoes ==
    ASSUME NEW p, Reject(p) \/ FailAfterwards(p)
    PROVE  /\ Answer(p, "failed") /\ presses[p].server = "running"
           /\ UNCHANGED <<scene, page, key, cache, excused>>
           /\ filed' = filed \/ (Keyed(CallOf(p)) /\ filed' = Unfiled(p))
           /\ freed' = freed \/ freed' = freed \cup {<<p, presses[p].at>>}
           /\ took' = took \/ took' = took \cup {<<p, presses[p].at>>}
           /\ took' = took \/ filed' = filed \/ <<p, presses[p].at>> \in freed'
<1>1. CASE Reject(p)
    BY <1>1 DEF Reject
<1>2. CASE FailAfterwards(p)
    BY <1>2, Works DEF FailAfterwards
<1> QED BY <1>1, <1>2

LEMMA ServerFails ==
    ASSUME TypeInv, ServerInv, NEW p \in 1..Latest, Reject(p) \/ FailAfterwards(p)
    PROVE  ServerInv'
<1>1. /\ Answer(p, "failed") /\ presses[p].server = "running" /\ UNCHANGED scene
      /\ took \subseteq took' /\ freed \subseteq freed'
    BY FailsDoes
<1>2. /\ Acts(p) /\ presses'[p].server \in {"failed", "unheard"}
      /\ presses'[p].server \in Answered
    BY <1>1, AnswerMoves DEF Acts, Heard, Answered
<1>3. StaysPut(p)
    BY <1>2, ActsPut
<1>4. Keyed(CallOf(p)) => /\ KeyOf(p) \in DOMAIN filed
                          /\ filed[KeyOf(p)].by = p /\ ~filed[KeyOf(p)].done
    BY <1>1, RunningRecord
<1>5. filed' = filed \/ (Keyed(CallOf(p)) /\ filed' = Unfiled(p))
    BY FailsDoes
<1>6. /\ DOMAIN filed' \subseteq DOMAIN filed
      /\ \A k \in DOMAIN filed' : filed'[k] = filed[k]
      /\ \A k \in DOMAIN filed : k # KeyOf(p) \/ filed[k].done \/ filed[k].by # p =>
                                k \in DOMAIN filed'
    BY <1>4, <1>5 DEF Unfiled
<1>11. KeyOf(p) = KeyAt(p, presses[p].at)
    BY KeyOfIs
<1>12. /\ took' = took \/ took' = took \cup {<<p, presses[p].at>>}
       /\ took' = took \/ filed' = filed \/ <<p, presses[p].at>> \in freed'
    BY FailsDoes
<1>7. Records'
  <2> SUFFICES ASSUME NEW k \in DOMAIN filed', NEW b \in 1..Latest', filed'[k].by = b
               PROVE  \E i \in DOMAIN form'.calls : Recorded(k, b, i)'
    BY DEF Records
  <2>1. b \in 1..Latest /\ filed[k].by = b /\ filed'[k] = filed[k] /\ k \in DOMAIN filed
    BY <1>3, <1>6 DEF StaysPut
  <2>2. PICK i \in DOMAIN form.calls : Recorded(k, b, i)
    BY <2>1 DEF ServerInv, Records
  <2>4. Recorded(k, b, i)'
    BY <1>2, <1>3, <2>1, <2>2 DEF Recorded, StaysPut, Keyed
  <2> QED BY <1>3, <2>4 DEF StaysPut
<1>8. RunningOnRecord'
  <2> SUFFICES ASSUME NEW q \in 1..Latest', presses'[q].server = "running", Keyed(CallOf(q))'
               PROVE  KeyOf(q)' \in DOMAIN filed' /\ filed'[KeyOf(q)'] = [by |-> q, done |-> FALSE]
    BY DEF RunningOnRecord
  <2>1. q \in 1..Latest /\ q # p
    BY <1>2, <1>3 DEF StaysPut
  <2>2. Keyed(CallOf(q)) /\ KeyOf(q)' = KeyOf(q)
    BY <1>3, <2>1, CallStays DEF Keyed
  <2>3. presses[q].server = "running"
    BY <1>3, <2>1 DEF StaysPut
  <2>4. KeyOf(q) \in DOMAIN filed /\ filed[KeyOf(q)] = [by |-> q, done |-> FALSE]
            /\ filed[KeyOf(q)].by = q
    BY <2>1, <2>2, <2>3, RunningRecord
  <2> QED BY <1>6, <2>1, <2>2, <2>4
<1>9. EffectsOnRecord'
  <2>1. ASSUME NEW t \in took, KeyAt(t[1], t[2]) \in DOMAIN filed, filed[KeyAt(t[1], t[2])].by = t[1]
        PROVE  /\ KeyAt(t[1], t[2]) \in DOMAIN filed'
               /\ filed'[KeyAt(t[1], t[2])].by = t[1]
    <3>1. KeyAt(t[1], t[2]) # KeyOf(p) \/ t[1] # p
        BY <1>2, <1>11, KeysDiffer, ActsAnew
    <3> QED BY <1>6, <2>1, <3>1
  <2>2. ASSUME NEW t \in took', t \notin took
        PROVE  /\ t[1] = p /\ t[2] = presses[p].at
               /\ Keyed(CallOf(p)) =>
                    t \in freed' \/ (KeyOf(p) \in DOMAIN filed' /\ filed'[KeyOf(p)].by = p)
    <3>1. t = <<p, presses[p].at>> /\ took' # took
        BY <1>12, <2>2
    <3>2. filed' = filed \/ t \in freed'
        BY <1>12, <3>1
    <3> QED BY <1>4, <3>1, <3>2
  <2> QED BY <1>2, <2>1, <2>2, EffectsStay
<1>10. PassedIsDone'
  <2> SUFFICES ASSUME NEW q \in 1..Latest, NEW i \in presses[q].start..Len(form.calls),
                      Passed(q, i)'
               PROVE  /\ DoneAt(q, i)'
                      /\ Keyed(form.calls[i]) =>
                           /\ KeyAt(q, i) \in DOMAIN filed' /\ filed'[KeyAt(q, i)].done
                           /\ presses'[filed'[KeyAt(q, i)].by].payload = presses'[q].payload
    BY <1>3 DEF PassedIsDone, Keyed, StaysPut
  <2>1. Passed(q, i)
    BY <1>2, <1>3 DEF Passed, StaysPut
  <2>2. /\ DoneAt(q, i)
        /\ Keyed(form.calls[i]) =>
             /\ KeyAt(q, i) \in DOMAIN filed /\ filed[KeyAt(q, i)].done
             /\ presses[filed[KeyAt(q, i)].by].payload = presses[q].payload
    BY <2>1 DEF ServerInv, PassedIsDone
  <2> QED BY <1>3, <1>6, <2>2 DEF StaysPut
<1> QED BY <1>3, <1>7, <1>8, <1>9, <1>10 DEF ServerInv, StaysPut

LEMMA FinishDoes ==
    ASSUME TypeInv, ServerInv, NEW p \in 1..Latest, Finish(p)
    PROVE  /\ took' = took \/ took' = took \cup {<<p, presses[p].at>>}
           /\ <<p, presses[p].at>> \in took' \/ DoneAt(p, presses[p].at)
           /\ presses[p].server = "running" /\ Answer(p, "ok")
           /\ ~Keyed(CallOf(p)) => filed' = filed
           /\ Keyed(CallOf(p)) =>
                /\ KeyOf(p) \in DOMAIN filed /\ DOMAIN filed' = DOMAIN filed
                /\ filed[KeyOf(p)].by = p /\ ~filed[KeyOf(p)].done
                /\ filed'[KeyOf(p)] = [by |-> p, done |-> TRUE]
                /\ \A k \in DOMAIN filed : k # KeyOf(p) => filed'[k] = filed[k]
<1>1. presses[p].server = "running" /\ Answer(p, "ok")
    BY DEF Finish
<1>2. took' = took \cup {<<p, presses[p].at>>} \/ (took' = took /\ DoneFor(p))
    BY DEF Finish, Work
<1>3. DoneFor(p) => DoneAt(p, presses[p].at)
    BY DEF DoneFor, DoneAt
<1>4. ASSUME Keyed(CallOf(p))
      PROVE  /\ KeyOf(p) \in DOMAIN filed /\ DOMAIN filed' = DOMAIN filed
             /\ filed[KeyOf(p)].by = p /\ ~filed[KeyOf(p)].done
             /\ filed'[KeyOf(p)] = [by |-> p, done |-> TRUE]
             /\ \A k \in DOMAIN filed : k # KeyOf(p) => filed'[k] = filed[k]
  <2>1. KeyOf(p) \in DOMAIN filed /\ filed[KeyOf(p)] = [by |-> p, done |-> FALSE]
    BY <1>1, <1>4, RunningRecord
  <2>2. filed' = [filed EXCEPT ![KeyOf(p)].done = TRUE]
    BY <1>4 DEF Finish
  <2>3. [filed[KeyOf(p)] EXCEPT !.done = TRUE] = [by |-> p, done |-> TRUE]
    <3> DEFINE record == filed[KeyOf(p)]
               after == [record EXCEPT !.done = TRUE]
    <3>1. record \in [by : 1..Latest, done : BOOLEAN] /\ record.by = p
        BY <2>1
    <3> HIDE DEF record
    <3>2. after \in [by : 1..Latest, done : BOOLEAN] /\ after.by = p /\ after.done = TRUE
        BY <3>1
    <3> HIDE DEF after
    <3>3. after = [by |-> p, done |-> TRUE]
        BY <3>2
    <3> QED BY <3>3 DEF record, after
  <2>4. filed[KeyOf(p)].by = p /\ ~filed[KeyOf(p)].done
    BY <2>1
  <2> QED BY <2>1, <2>2, <2>3, <2>4
<1>5. ~Keyed(CallOf(p)) => filed' = filed
    BY DEF Finish
<1> QED BY <1>1, <1>2, <1>3, <1>4, <1>5

LEMMA ServerFinish ==
    ASSUME TypeInv, ServerInv, NEW p \in 1..Latest, Finish(p)
    PROVE  ServerInv'
<1>1. /\ took' = took \/ took' = took \cup {<<p, presses[p].at>>}
      /\ <<p, presses[p].at>> \in took' \/ DoneAt(p, presses[p].at)
      /\ presses[p].server = "running" /\ Answer(p, "ok") /\ UNCHANGED <<scene, freed>>
    BY FinishDoes DEF Finish
<1>2. /\ Acts(p) /\ presses'[p].server \in {"ok", "unheard"}
      /\ presses'[p].server \in Answered
    BY <1>1, AnswerMoves DEF Acts, Heard, Answered
<1>3. StaysPut(p)
    BY <1>2, ActsPut
<1>4. /\ DOMAIN filed' = DOMAIN filed
      /\ Keyed(CallOf(p)) => /\ KeyOf(p) \in DOMAIN filed
                             /\ filed[KeyOf(p)].by = p /\ ~filed[KeyOf(p)].done
                             /\ filed'[KeyOf(p)] = [by |-> p, done |-> TRUE]
      /\ \A k \in DOMAIN filed :
           k # KeyOf(p) \/ ~Keyed(CallOf(p)) \/ filed[k].done \/ filed[k].by # p
             => filed'[k] = filed[k]
    BY FinishDoes
<1>5. KeyOf(p) = KeyAt(p, presses[p].at)
    BY KeyOfIs
<1>6. \A i : i = presses[p].at => DoneAt(p, i)'
    BY <1>1, <1>3 DEF StaysPut, DoneAt, Same
<1>7. Records'
  <2> SUFFICES ASSUME NEW k \in DOMAIN filed', NEW b \in 1..Latest', filed'[k].by = b
               PROVE  \E i \in DOMAIN form'.calls : Recorded(k, b, i)'
    BY DEF Records
  <2>1. CASE Keyed(CallOf(p)) /\ k = KeyOf(p)
    <3>1. b = p /\ filed'[k].done /\ filed[k].by = p /\ p \in 1..Latest /\ presses[p].at \in Int
        BY <1>4, <2>1, RowTypes
    <3>2. Recorded(k, p, presses[p].at)'
        BY <1>2, <1>3, <1>5, <1>6, <2>1, <3>1 DEF Recorded, StaysPut, Keyed, CallOf
    <3> QED BY <1>3, <3>1, <3>2 DEF StaysPut
  <2>2. CASE ~(Keyed(CallOf(p)) /\ k = KeyOf(p))
    <3>1. b \in 1..Latest /\ filed[k].by = b /\ filed'[k] = filed[k] /\ k \in DOMAIN filed
        BY <1>3, <1>4, <2>2 DEF StaysPut
    <3>2. PICK i \in DOMAIN form.calls : Recorded(k, b, i)
        BY <3>1 DEF ServerInv, Records
    <3>3. filed[k].done \/ b # p
        <4> SUFFICES ASSUME ~filed[k].done, b = p PROVE FALSE
            OBVIOUS
        <4>1. k = KeyAt(p, presses[p].at) /\ Keyed(CallOf(p))
            BY <3>2 DEF Recorded, CallOf
        <4> QED BY <1>5, <2>2, <4>1
    <3>4. Recorded(k, b, i)'
        BY <1>1, <1>2, <1>3, <3>1, <3>2, <3>3 DEF Recorded, StaysPut, Keyed
    <3> QED BY <1>3, <3>4 DEF StaysPut
  <2> QED BY <2>1, <2>2
<1>8. RunningOnRecord'
  <2> SUFFICES ASSUME NEW q \in 1..Latest', presses'[q].server = "running", Keyed(CallOf(q))'
               PROVE  KeyOf(q)' \in DOMAIN filed' /\ filed'[KeyOf(q)'] = [by |-> q, done |-> FALSE]
    BY DEF RunningOnRecord
  <2>1. q \in 1..Latest /\ q # p
    BY <1>2, <1>3 DEF StaysPut
  <2>2. Keyed(CallOf(q)) /\ KeyOf(q)' = KeyOf(q)
    BY <1>3, <2>1, CallStays DEF Keyed
  <2>3. presses[q].server = "running"
    BY <1>3, <2>1 DEF StaysPut
  <2>4. KeyOf(q) \in DOMAIN filed /\ filed[KeyOf(q)] = [by |-> q, done |-> FALSE]
            /\ filed[KeyOf(q)].by = q
    BY <2>1, <2>2, <2>3, RunningRecord
  <2> QED BY <1>4, <2>1, <2>2, <2>4
<1>9. EffectsOnRecord'
  <2>1. ASSUME NEW t \in took, KeyAt(t[1], t[2]) \in DOMAIN filed, filed[KeyAt(t[1], t[2])].by = t[1]
        PROVE  /\ KeyAt(t[1], t[2]) \in DOMAIN filed'
               /\ filed'[KeyAt(t[1], t[2])].by = t[1]
    <3>1. KeyAt(t[1], t[2]) # KeyOf(p) \/ t[1] # p
        BY <1>2, <1>5, KeysDiffer, ActsAnew
    <3> QED BY <1>4, <2>1, <3>1
  <2>2. ASSUME NEW t \in took', t \notin took
        PROVE  t[1] = p /\ t[2] = presses[p].at
    BY <1>1, <2>2
  <2>3. Keyed(CallOf(p)) => KeyOf(p) \in DOMAIN filed' /\ filed'[KeyOf(p)].by = p
    BY <1>4
  <2> QED BY <1>2, <2>1, <2>2, <2>3, EffectsStay
<1>10. PassedIsDone'
  <2> SUFFICES ASSUME NEW q \in 1..Latest, NEW i \in presses[q].start..Len(form.calls),
                      Passed(q, i)'
               PROVE  /\ DoneAt(q, i)'
                      /\ Keyed(form.calls[i]) =>
                           /\ KeyAt(q, i) \in DOMAIN filed' /\ filed'[KeyAt(q, i)].done
                           /\ presses'[filed'[KeyAt(q, i)].by].payload = presses'[q].payload
    BY <1>3 DEF PassedIsDone, Keyed, StaysPut
  <2>1. CASE Passed(q, i)
    <3>1. /\ DoneAt(q, i)
          /\ Keyed(form.calls[i]) =>
               /\ KeyAt(q, i) \in DOMAIN filed /\ filed[KeyAt(q, i)].done
               /\ presses[filed[KeyAt(q, i)].by].payload = presses[q].payload
        BY <2>1 DEF ServerInv, PassedIsDone
    <3> QED BY <1>3, <1>4, <3>1 DEF StaysPut
  <2>2. CASE ~Passed(q, i)
    <3>1. q = p /\ i = presses[p].at
        BY <1>2, <1>3, <2>2 DEF Passed, StaysPut
    <3>2. Keyed(form.calls[i]) =>
            KeyAt(q, i) \in DOMAIN filed' /\ filed'[KeyAt(q, i)] = [by |-> p, done |-> TRUE]
        BY <1>4, <1>5, <3>1 DEF CallOf
    <3> QED BY <1>6, <3>1, <3>2
  <2> QED BY <2>1, <2>2
<1> QED BY <1>3, <1>7, <1>8, <1>9, <1>10 DEF ServerInv, StaysPut

LEMMA InitServer == Init => ServerInv
<1> SUFFICES ASSUME Init PROVE ServerInv
    OBVIOUS
<1>1. Latest = 0 /\ 1..Latest = {} /\ took = {}
    BY EmptySeq DEF Init, Latest
<1> QED BY <1>1
        DEF ServerInv, Records, RunningOnRecord, EffectsOnRecord, PassedIsDone, ClientsAnswered

LEMMA ServerNext ==
    ASSUME TypeInv, ClientInv, ServerInv, [Next]_vars
    PROVE  ServerInv'
<1>1. CASE UNCHANGED vars \/ Refocus \/ AnswerRead \/ Deliver
    BY <1>1, ServerQuiet
<1>2. ASSUME NEW p \in DOMAIN scene.shows, Open(p)
      PROVE  ServerInv'
    BY <1>2, ServerOpen
<1>3. ASSUME NEW payload \in Payloads, NEW start \in 1..2, NEW clicks \in 1..2,
             PressButton(payload, start, clicks)
      PROVE  ServerInv'
    BY <1>3, ServerPress
<1>4. ASSUME NEW p \in 1..Latest, NextCall(p) \/ Succeed(p) \/ Settle(p) \/ GiveUp(p)
      PROVE  ServerInv'
    BY <1>4, ServerNextCall, ServerSucceed, ServerSettle, ServerGiveUp
<1>5. ASSUME NEW p \in 1..Latest, Serves(p)
      PROVE  ServerInv'
    BY <1>5, ServerDeny, ServerClaim, ServerReplay, ServerFinish, ServerFails DEF Serves
<1>6. CASE FailRead
    BY <1>6, ServerFailRead
<1> QED BY <1>1, <1>2, <1>3, <1>4, <1>5, <1>6 DEF Next, Serves

TabInv == TypeInv /\ ClientInv /\ ServerInv

LEMMA TabInvariant == Spec => []TabInv
<1>1. Init => TabInv
    BY InitType, InitClient, InitServer DEF TabInv
<1>2. TabInv /\ [Next]_vars => TabInv'
    BY TypeStep, ClientNext, ServerNext DEF TabInv
<1> QED BY <1>1, <1>2, PTL DEF Spec

(* What the page reports as done has been done, for any number of presses,   *)
(* double clicks and lost answers: no replay answers for something else.    *)
THEOREM ReportsAreTrue == Spec => []ReportedIsDone
<1>1. TabInv => ReportedIsDone
  <2> SUFFICES ASSUME TabInv,
                      NEW p \in 1..Latest, presses[p].client \in {"settling", "ok"},
                      NEW i \in presses[p].start..Len(form.calls)
               PROVE  \E r \in 1..Latest : Same(p, r) /\ <<r, i>> \in took
    BY DEF ReportedIsDone
  <2>1. presses[p].at = Len(form.calls) /\ presses[p].server = "ok"
    BY DEF TabInv, ServerInv, ClientsAnswered
  <2>2. Len(form.calls) \in Int /\ presses[p].start \in Int
    BY RowTypes, FormFacts DEF TabInv, TypeInv
  <2>3. Passed(p, i)
    BY <2>1, <2>2 DEF Passed
  <2>4. DoneAt(p, i)
    BY <2>3 DEF TabInv, ServerInv, PassedIsDone
  <2> QED BY <2>4 DEF DoneAt, Same
<1> QED BY <1>1, TabInvariant, PTL

-----------------------------------------------------------------------------
(* Refusals.                                                                *)

(* Only a refusal makes a press refused.                                    *)
LEMMA OnlyRefused ==
    ASSUME TypeInv, [Next]_vars, NEW p \in 1..Latest,
           Arrives(p), presses'[p].server = "refused"
    PROVE  Refuse(p)
<1> SUFFICES ASSUME ~Refuse(p) PROVE presses'[p].server # "refused"
    OBVIOUS
<1>0. presses[p].server = "sent"
    BY DEF Arrives
<1>1. CASE UNCHANGED vars \/ Refocus \/ AnswerRead \/ Deliver
    BY <1>0, <1>1 DEF vars, Refocus, AnswerRead, Deliver
<1>2. ASSUME NEW to \in DOMAIN scene.shows, Open(to)
      PROVE  presses'[p].server # "refused"
    BY <1>0, <1>2, OpenLeaves DEF Leaving
<1>3. ASSUME NEW payload \in Payloads, NEW start \in 1..2, NEW clicks \in 1..2,
             PressButton(payload, start, clicks)
      PROVE  presses'[p].server # "refused"
    BY <1>0, <1>3, PressPushes
<1>4. ASSUME NEW q \in 1..Latest, NextCall(q) \/ Succeed(q) \/ GiveUp(q)
      PROVE  presses'[p].server # "refused"
  <2>1. Moves(q) /\ presses'[q].server \in {"sent", "unheard", presses[q].server}
    BY <1>4, NextCallMoves, SucceedMoves, GiveUpMoves
  <2> QED BY <1>0, <2>1 DEF Moves
<1>5. ASSUME NEW q \in 1..Latest, Settle(q)
      PROVE  presses'[p].server # "refused"
  <2>1. CASE Moves(q) /\ presses'[q].server = presses[q].server
    BY <1>0, <2>1 DEF Moves
  <2>2. CASE Leaving
    BY <1>0, <2>2 DEF Leaving
  <2> QED BY <1>5, <2>1, <2>2, SettleMoves
<1>6. ASSUME NEW q \in 1..Latest, Serves(q)
      PROVE  presses'[p].server # "refused"
  <2>1. CASE q # p
    <3>1. Moves(q)
        BY <1>6, ServerMoves
    <3> QED BY <1>0, <2>1, <3>1 DEF Moves
  <2>2. CASE q = p
    <3>1. PICK answer \in {"failed", "running", "ok"} : Answer(p, answer)
        BY <1>6, <2>2 DEF Serves, Deny, Claim, Replay, Finish, Reject, FailAfterwards
    <3>2. presses'[p].server = Heard(p, answer)
        BY <3>1, AnswerMoves
    <3> QED BY <3>2 DEF Heard
  <2> QED BY <2>1, <2>2
<1>7. CASE FailRead
    BY <1>0, <1>7, FailReadMoves DEF Leaving
<1> QED BY <1>1, <1>2, <1>3, <1>4, <1>5, <1>6, <1>7 DEF Next, Serves

(* A press that is waited for is refused for the record of another press     *)
(* under its key: of one that has not succeeded, or of one with another      *)
(* filling, and then one of the two was followed by a failure.              *)
LEMMA RefusedForAnother ==
    ASSUME TabInv, NEW p \in 1..Latest, Refuse(p), presses[p].client = "pending"
    PROVE  \E r \in (1..Latest) \ {p} :
             presses[r].gen = presses[p].gen /\ presses[r].client # "ok"
<1> DEFINE k == KeyOf(p)
           b == filed[k].by
<1>1. /\ k \in DOMAIN filed /\ presses[p].server = "sent"
      /\ filed[k].done => presses[b].payload # presses[p].payload
    BY DEF Refuse, Guarded, SameRequest, Arrives
<1>2. k = KeyAt(p, presses[p].at)
    BY KeyOfIs
<1>3. /\ b \in 1..Latest /\ Recorded(k, b, presses[p].at)
      /\ b = p \/ presses[b].gen = presses[p].gen
    BY <1>1, <1>2, UnderKeyOf DEF TabInv
<1>4. b # p
    BY <1>1, <1>3 DEF Recorded
<1> HIDE DEF b, k
<1>5. presses[b].gen = presses[p].gen /\ presses[p].gen = presses[b].gen
    BY <1>3, <1>4
<1>6. CASE presses[b].client # "ok"
    BY <1>3, <1>4, <1>5, <1>6
<1>7. CASE presses[b].client = "ok"
  <2>1. presses[b].server = "ok"
    BY <1>3, <1>7 DEF TabInv, ServerInv, ClientsAnswered
  <2>2. filed[k].done
    BY <1>3, <2>1 DEF Recorded
  <2>3. presses[b].payload # presses[p].payload
    BY <1>1, <2>2 DEF b
  <2>4. ASSUME NEW q \in 1..Latest, NEW s \in 1..Latest, q < s,
               presses[q].gen = presses[s].gen, presses[q].gen = presses[p].gen,
               presses[q].payload # presses[s].payload, presses[q].client # "error",
               q # p => s = p
        PROVE  \E r \in (1..Latest) \ {p} :
                 presses[r].gen = presses[p].gen /\ presses[r].client # "ok"
    <3>1. presses[q + 1].client = "error" /\ presses[q + 1].gen = presses[q].gen
        BY <2>4 DEF TabInv, ClientInv, FollowedByFailure
    <3>2. q + 1 \in 1..Latest /\ (q + 1 = p => q # p)
        BY <2>4, Gens DEF TabInv
    <3>3. q + 1 # p
        BY <3>1
    <3> QED BY <2>4, <3>1, <3>2, <3>3
  <2>5. b < p \/ p < b
    BY <1>3, <1>4
  <2> QED BY <1>3, <1>5, <1>7, <2>3, <2>4, <2>5
<1> QED BY <1>6, <1>7

(* A press that its page waits for is refused for its key only while another *)
(* press under that key has not been answered with success: the keys a page  *)
(* draws and the interceptor's records fit together for any number of       *)
(* presses.                                                                 *)
THEOREM RefusalsFollowFailures == Spec => RefusedOnlyAfterFailure
<1> DEFINE Refusals ==
             \A p \in 1..Latest :
               presses'[p].server = "refused" /\ Arrives(p) /\ presses[p].client = "pending" =>
                 \E r \in (1..Latest) \ {p} : presses[r].gen = presses[p].gen
                                                /\ presses[r].client # "ok"
<1>1. TabInv /\ [Next]_vars => Refusals
    BY OnlyRefused, RefusedForAnother DEF TabInv
<1>2. TabInv /\ [Next]_vars => [Refusals]_vars
    BY <1>1
<1>3. RefusedOnlyAfterFailure <=> [][Refusals]_vars
    BY DEF RefusedOnlyAfterFailure
<1> HIDE DEF Refusals
<1> QED BY <1>2, <1>3, TabInvariant, PTL DEF Spec

-----------------------------------------------------------------------------
(* What the page shows of its user's work.                                  *)

(* What was reported done by a press with the keys it was done under.        *)
Told(t) ==
    /\ Touches(form.calls[t[2]].call, query)
    /\ \E p \in 1..Latest : /\ Same(p, t[1]) /\ presses[p].gen = presses[t[1]].gen
                            /\ presses[p].start <= t[2]
                            /\ p = t[1] \/ Keyed(form.calls[t[2]])
                            /\ presses[p].client = "ok"

(* The answer the page shows, or one that is to come, has seen it, if the    *)
(* fetch for it has not failed.                                             *)
Reaches(t) ==
    \/ fetch = Asked
    \/ fetch.step = "got" /\ t \in fetch.brings
    \/ fetch = Idle /\ (data = Nothing \/ failed \/ t \in data)

ReportsReachThePage ==
    Mounted /\ ~joined /\ query \in form.refreshes => \A t \in took : Told(t) => Reaches(t)

NoNewReports ==
    /\ UNCHANGED scene /\ Latest \in Nat /\ Latest' \in Nat /\ Latest <= Latest'
    /\ \A p \in 1..Latest : Fixed(p) /\ (presses'[p].client = "ok" => presses[p].client = "ok")
    /\ \A p \in (Latest + 1)..Latest' : presses'[p].client # "ok"

LEMMA ToldBefore ==
    ASSUME NoNewReports, NEW t, t[1] \in 1..Latest, Told(t)'
    PROVE  Told(t)
<1>1. form' = form /\ query' = query
    BY DEF NoNewReports, form, query
<1>2. /\ Touches(form.calls[t[2]].call, query)
      /\ \E p \in 1..Latest' : /\ presses'[p].intent = presses'[t[1]].intent
                               /\ presses'[p].gen = presses'[t[1]].gen
                               /\ presses'[p].start <= t[2]
                               /\ p = t[1] \/ Keyed(form.calls[t[2]])
                               /\ presses'[p].client = "ok"
    BY <1>1 DEF Told, Same, Touches, Keyed
<1>3. PICK p \in 1..Latest' : /\ presses'[p].intent = presses'[t[1]].intent
                              /\ presses'[p].gen = presses'[t[1]].gen
                              /\ presses'[p].start <= t[2]
                              /\ p = t[1] \/ Keyed(form.calls[t[2]])
                              /\ presses'[p].client = "ok"
    BY <1>2
<1>4. p \in 1..Latest
    BY <1>3 DEF NoNewReports
<1>5. Fixed(p) /\ presses[p].client = "ok" /\ Fixed(t[1])
    BY <1>3, <1>4 DEF NoNewReports
<1> QED BY <1>2, <1>3, <1>4, <1>5 DEF Told, Same, Fixed

(* The pages visited show what the tables say.                              *)
LEMMA ShownBeside ==
    ASSUME TypeInv, Shows(page, "form"), Mounted
    PROVE  query \in form.refreshes \cup form.ends \cup {"audit"}
<1>1. page \in Destinations(form, query) /\ page \in PagesOf(form)
    BY PagesVisited DEF TypeInv, ConsoleTypeOK, Destinations
<1>2. scene.shows[page] = {what \in {"form", "query"} :
                             \/ what = "form" /\ form \in FormsOf(page)
                             \/ what = "query" /\ query \in QueriesOf(page)}
    BY <1>1 DEF TypeInv, SceneInv, Scene
<1>3. form \in FormsOf(page) /\ query \in QueriesOf(page)
    BY <1>2 DEF Shows, Mounted
<1>4. query \in QueriesFor(form) /\ ShowsItsWork(form)
    BY FormFacts DEF TypeInv, SceneInv
<1> QED BY <1>1, <1>3, <1>4 DEF ShowsItsWork

(* A step that neither reports anything nor touches the page's query.        *)
LEMMA QueryLeftAlone ==
    ASSUME TypeInv, ReportsReachThePage, NoNewReports, UNCHANGED <<page, cache>>,
           \A t \in took' : t \in took \/ ~Told(t)'
    PROVE  ReportsReachThePage'
<1>1. UNCHANGED <<form, query, Mounted, data, fetch, failed, joined>>
    BY DEF NoNewReports, form, query, Mounted, Shows, cache
<1>2. ASSUME Mounted, ~joined, query \in form.refreshes, NEW t \in took', Told(t)'
      PROVE  Reaches(t)
  <2>1. t \in took /\ t[1] \in 1..Latest
    BY <1>2 DEF TypeInv, ConsoleTypeOK
  <2>2. Told(t)
    BY <1>2, <2>1, ToldBefore
  <2> QED BY <1>2, <2>1, <2>2 DEF ReportsReachThePage
<1> QED BY <1>1, <1>2 DEF ReportsReachThePage, Reaches

(* An answer the page asks for will have seen everything.                    *)
LEMMA AskedReaches ==
    ASSUME fetch' = Asked
    PROVE  ReportsReachThePage'
    BY DEF ReportsReachThePage, Reaches

(* A page that is opened asks, or joins, or had asked before.               *)
LEMMA GoesToReaches ==
    ASSUME TypeInv, NEW p, NEW underWay, GoTo(p, underWay), UNCHANGED scene
    PROVE  /\ fetch' = Asked \/ ~Mounted' \/ joined' \/ (Mounted /\ ~joined /\ fetch' = underWay)
           /\ UNCHANGED <<data, failed>>
    BY DEF GoTo, Mounted, Shows, TypeInv, ConsoleTypeOK

LEMMA Keeping ==
    ASSUME TypeInv, UNCHANGED scene, Latest' = Latest,
           \A p \in 1..Latest : Fixed(p) /\ presses'[p].client = presses[p].client
    PROVE  NoNewReports
    BY Gens DEF NoNewReports

LEMMA OpenReaches ==
    ASSUME TypeInv, ReportsReachThePage, NEW p, Open(p)
    PROVE  ReportsReachThePage'
<1>1. NoNewReports
    BY OpenLeaves, Keeping DEF Leaving, Open
<1>2. UNCHANGED <<form, query, took>>
    BY DEF Open, form, query, server
<1>3. /\ fetch' = Asked \/ ~Mounted' \/ joined' \/ (Mounted /\ ~joined /\ fetch' = fetch)
      /\ UNCHANGED <<data, failed>>
    BY GoesToReaches DEF Open
<1>4. ASSUME Mounted, ~joined, fetch' = fetch, query \in form.refreshes, NEW t \in took, Told(t)'
      PROVE  Reaches(t)'
  <2>1. t[1] \in 1..Latest
    BY <1>4 DEF TypeInv, ConsoleTypeOK
  <2>2. Told(t)
    BY <1>1, <1>4, <2>1, ToldBefore
  <2> QED BY <1>3, <1>4, <2>2 DEF ReportsReachThePage, Reaches
<1> QED BY <1>2, <1>3, <1>4, AskedReaches DEF ReportsReachThePage

LEMMA ReadReaches ==
    ASSUME TypeInv, ReportsReachThePage, Refocus \/ AnswerRead \/ Deliver
    PROVE  ReportsReachThePage'
<1>1. CASE Refocus
    BY <1>1, AskedReaches DEF Refocus
<1>2. UNCHANGED <<scene, presses, page, took, Latest, form, query, Mounted>>
    BY DEF Refocus, AnswerRead, Deliver, server, Latest, form, query, Mounted, Shows
<1>3. NoNewReports
    BY <1>2, Gens DEF NoNewReports, Fixed
<1>4. \A t \in took : Told(t)' => Told(t)
    BY <1>3, ToldBefore DEF TypeInv, ConsoleTypeOK
<1>5. CASE AnswerRead
  <2>1. fetch' = Got({t \in took : Touches(form.calls[t[2]].call, query)})
    BY <1>5 DEF AnswerRead
  <2>2. fetch'.step = "got" /\ \A t \in took : Told(t) => t \in fetch'.brings
    BY <2>1 DEF Told, Got
  <2> QED BY <1>2, <1>4, <2>2 DEF ReportsReachThePage, Reaches
<1>6. CASE Deliver
  <2>1. /\ fetch.step = "got" /\ fetch # Asked /\ fetch # Idle
        /\ data' = fetch.brings /\ fetch' = Idle /\ joined' = joined
    BY <1>6 DEF Deliver, Idle, Asked
  <2>2. \A t \in took : Reaches(t) => Reaches(t)'
    BY <2>1 DEF Reaches
  <2> QED BY <1>2, <1>4, <2>1, <2>2 DEF ReportsReachThePage
<1> QED BY <1>1, <1>5, <1>6

(* What fails brings nothing: the page has no answer, or shows an old one.   *)
LEMMA FailReadReaches ==
    ASSUME FailRead
    PROVE  ReportsReachThePage'
<1>1. fetch' = Idle /\ (data' = Nothing \/ failed')
    BY DEF FailRead
<1> QED BY <1>1 DEF ReportsReachThePage, Reaches

LEMMA PressReaches ==
    ASSUME TypeInv, ReportsReachThePage,
           NEW payload \in Payloads, NEW start, NEW clicks \in 1..2,
           PressButton(payload, start, clicks)
    PROVE  ReportsReachThePage'
<1>1. Pushes(payload, start, clicks)
    BY Pressed
<1>2. Latest \in Nat /\ Latest' \in Nat /\ Latest <= Latest'
    BY <1>1 DEF Pushes
<1>3. NoNewReports
    BY <1>1, <1>2 DEF NoNewReports, Pushes, Fixed
<1> QED BY <1>3, QueryLeftAlone DEF PressButton, server

LEMMA MoveKeeps ==
    ASSUME TypeInv, NEW p \in 1..Latest, Moves(p), UNCHANGED scene,
           presses'[p].client = "ok" => presses[p].client = "ok"
    PROVE  NoNewReports
<1>1. \A q \in 1..Latest : Fixed(q) /\ (presses'[q].client = "ok" => presses[q].client = "ok")
    BY DEF Moves, Fixed
<1> QED BY <1>1, Gens DEF NoNewReports, Moves

LEMMA ClientReaches ==
    ASSUME TypeInv, ReportsReachThePage, NEW p \in 1..Latest,
           NextCall(p) \/ Succeed(p) \/ GiveUp(p)
    PROVE  ReportsReachThePage'
<1>1. /\ Moves(p) /\ (presses'[p].client = "ok" => presses[p].client = "ok")
      /\ UNCHANGED <<scene, page, data, failed, took>>
    BY NextCallMoves, SucceedMoves, GiveUpMoves DEF NextCall, Succeed, GiveUp, cache, server
<1>2. NoNewReports
    BY <1>1, MoveKeeps
<1>3. fetch' = Asked \/ UNCHANGED <<fetch, joined>>
    BY DEF NextCall, Succeed, GiveUp, cache, Invalidated, TypeInv, ConsoleTypeOK
<1> QED BY <1>1, <1>2, <1>3, AskedReaches, QueryLeftAlone DEF cache

LEMMA SettleReaches ==
    ASSUME TypeInv, ReportsReachThePage, NEW p \in 1..Latest, Settle(p)
    PROVE  ReportsReachThePage'
<1>1. UNCHANGED <<scene, form, query>>
    BY DEF Settle, form, query
<1>2. CASE query \notin form.refreshes
    BY <1>1, <1>2 DEF ReportsReachThePage
<1>3. CASE query \in form.refreshes
  <2>1. CASE form.opens \in {"same", page}
    <3>1. page' = page /\ fetch' = Invalidated
        BY <1>3, <2>1 DEF Settle
    <3>2. Mounted' => fetch' = Asked
        BY <1>1, <3>1 DEF Invalidated, Mounted, Shows
    <3> QED BY <3>2, AskedReaches DEF ReportsReachThePage
  <2>2. CASE form.opens \notin {"same", page}
    <3>1. GoTo(form.opens, Invalidated)
        BY <1>3, <2>2 DEF Settle
    <3>2. fetch' = Asked \/ ~Mounted' \/ joined' \/ (Mounted /\ fetch' = Invalidated)
        BY <1>1, <3>1, GoesToReaches
    <3>3. fetch' = Asked \/ ~Mounted' \/ joined'
        BY <3>2 DEF Invalidated
    <3> QED BY <3>3, AskedReaches DEF ReportsReachThePage
  <2> QED BY <2>1, <2>2
<1> QED BY <1>2, <1>3

(* What has just been done was reported by no other press: it would be on    *)
(* record, or would not have been done again.                               *)
LEMMA NewIsUntold ==
    ASSUME TabInv, NEW p \in 1..Latest, Finish(p) \/ FailAfterwards(p),
           NEW t \in took', t \notin took
    PROVE  ~Told(t)
<1>1. /\ t = <<p, presses[p].at>> /\ presses[p].server = "running"
      /\ t[1] = p /\ t[2] = presses[p].at
  <2>1. t = <<p, presses[p].at>> /\ presses[p].server = "running"
    BY Works DEF Finish, FailAfterwards
  <2> QED BY <2>1
<1>2. Writes[CallOf(p).call].repeatable \/ ~DoneFor(p)
    BY <1>1 DEF Finish, FailAfterwards, Work
<1> SUFFICES ASSUME NEW q \in 1..Latest, Same(q, p), presses[q].gen = presses[p].gen,
                    presses[q].start <= presses[p].at, q = p \/ Keyed(CallOf(p)),
                    presses[q].client = "ok"
             PROVE  FALSE
    BY <1>1 DEF Told, CallOf
<1>3. presses[q].at = Len(form.calls) /\ presses[q].server = "ok"
    BY DEF TabInv, ServerInv, ClientsAnswered
<1>4. q # p /\ Keyed(CallOf(p))
    BY <1>1, <1>3
<1>5. /\ presses[p].at \in 1..Len(form.calls) /\ presses[p].at \in presses[q].start..Len(form.calls)
      /\ Passed(q, presses[p].at)
  <2>1. presses[p].at \in 1..Len(form.calls) /\ presses[q].start \in Int /\ Len(form.calls) \in Int
    BY RowTypes, FormFacts DEF TabInv, TypeInv
  <2> QED BY <1>3, <2>1 DEF Passed
<1>6. /\ DoneAt(q, presses[p].at)
      /\ KeyAt(q, presses[p].at) \in DOMAIN filed /\ filed[KeyAt(q, presses[p].at)].done
    BY <1>4, <1>5 DEF TabInv, ServerInv, PassedIsDone, CallOf
<1>7. KeyOf(p) = KeyAt(p, presses[p].at) /\ ~filed[KeyOf(p)].done
    BY <1>1, <1>4, KeyOfIs, RunningRecord DEF TabInv
<1>8. CallOf(p).key = "press"
    BY <1>6, <1>7 DEF KeyAt, CallOf
<1>9. DoneFor(p)
    BY <1>6 DEF DoneAt, DoneFor, Same
<1>10. Exposed(form.calls[presses[p].at])
    BY <1>2, <1>4, <1>9 DEF Exposed, CallOf
<1>11. HoldsItsKey(form) /\ presses[p].at \in DOMAIN form.calls
    BY <1>5, FormFacts DEF TabInv, TypeInv
<1>12. CallOf(p).key = "mount"
    BY <1>10, <1>11 DEF HoldsItsKey, CallOf
<1> QED BY <1>8, <1>12

LEMMA ServerReaches ==
    ASSUME TabInv, ReportsReachThePage, NEW p \in 1..Latest, Serves(p)
    PROVE  ReportsReachThePage'
<1>1. /\ Moves(p) /\ presses'[p].client = presses[p].client
      /\ UNCHANGED <<scene, page, cache>>
    BY ServerMoves DEF TabInv
<1>2. NoNewReports
    BY <1>1, MoveKeeps DEF TabInv
<1>3. ASSUME NEW t \in took', t \notin took
      PROVE  ~Told(t)'
  <2>1. Finish(p) \/ FailAfterwards(p)
    BY <1>3 DEF Serves, Deny, Claim, Replay, Refuse, Reject, server
  <2>2. ~Told(t)
    BY <1>3, <2>1, NewIsUntold
  <2>3. t[1] \in 1..Latest
    <3>1. t = <<p, presses[p].at>>
        BY <1>3, <2>1, Works DEF Finish, FailAfterwards
    <3> QED BY <3>1
  <2> QED BY <1>2, <2>2, <2>3, ToldBefore
<1> QED BY <1>1, <1>2, <1>3, QueryLeftAlone DEF TabInv

LEMMA ReachesNext ==
    ASSUME TabInv, ReportsReachThePage, [Next]_vars
    PROVE  ReportsReachThePage'
<1> USE DEF TabInv
<1>1. CASE UNCHANGED vars
  <2>1. UNCHANGED <<scene, page, cache, took, presses, Latest>>
    BY <1>1 DEF vars, server, Latest
  <2>2. NoNewReports
    BY <2>1, Gens DEF NoNewReports, Fixed
  <2> QED BY <2>1, <2>2, QueryLeftAlone
<1>2. CASE Refocus \/ AnswerRead \/ Deliver
    BY <1>2, ReadReaches
<1>3. ASSUME NEW p \in DOMAIN scene.shows, Open(p)
      PROVE  ReportsReachThePage'
    BY <1>3, OpenReaches
<1>4. ASSUME NEW payload \in Payloads, NEW start \in 1..2, NEW clicks \in 1..2,
             PressButton(payload, start, clicks)
      PROVE  ReportsReachThePage'
    BY <1>4, PressReaches
<1>5. ASSUME NEW p \in 1..Latest, NextCall(p) \/ Succeed(p) \/ Settle(p) \/ GiveUp(p)
      PROVE  ReportsReachThePage'
    BY <1>5, ClientReaches, SettleReaches
<1>6. ASSUME NEW p \in 1..Latest, Serves(p)
      PROVE  ReportsReachThePage'
    BY <1>6, ServerReaches
<1>7. CASE FailRead
    BY <1>7, FailReadReaches
<1> QED BY <1>1, <1>2, <1>3, <1>4, <1>5, <1>6, <1>7 DEF Next, Serves

(* A page whose last fetch succeeded, and that has nothing to fetch, shows   *)
(* what its user was told is done: what a form invalidates is asked for      *)
(* again, and what stands beside it is among that.                          *)
THEOREM PagesShowOwnWork == Spec => []OwnWritesSeen
<1>1. Init => ReportsReachThePage
    BY DEF Init, ReportsReachThePage
<1>2. TabInv /\ ReportsReachThePage /\ [Next]_vars => ReportsReachThePage'
    BY ReachesNext
<1>3. Spec => []ReportsReachThePage
    BY <1>1, <1>2, TabInvariant, PTL DEF Spec
<1>4. TabInv /\ ReportsReachThePage => OwnWritesSeen
  <2> SUFFICES ASSUME TabInv, ReportsReachThePage,
                      Mounted, fetch = Idle, data # Nothing, ~failed, ~joined,
                      query \notin form.ends \cup {"audit"},
                      NEW t \in took, Touches(form.calls[t[2]].call, query),
                      NEW p \in 1..Latest, Same(p, t[1]), presses[p].gen = presses[t[1]].gen,
                      presses[p].start <= t[2], p = t[1] \/ Keyed(form.calls[t[2]]),
                      presses[p].client = "ok", presses[p].here \/ query \in form.refreshes
               PROVE  t \in data
    BY DEF OwnWritesSeen
  <2>1. query \in form.refreshes
    <3>1. presses[p].here => Shows(page, "form")
        BY DEF TabInv, ClientInv, OnThePage
    <3> QED BY <3>1, ShownBeside DEF TabInv
  <2>2. Told(t)
    BY DEF Told
  <2>3. Reaches(t)
    BY <2>1, <2>2 DEF ReportsReachThePage
  <2> QED BY <2>3 DEF Reaches, Idle, Asked
<1> QED BY <1>3, <1>4, TabInvariant, PTL

-----------------------------------------------------------------------------
(* Once for each purpose.                                                    *)

(* A press whose key another filling has used can have no effect any more.   *)
LockedOut(p) ==
    \E k \in DOMAIN filed :
      /\ k = <<"mount", presses[p].gen, 1>> /\ filed[k].done
      /\ presses[filed[k].by].payload # presses[p].payload

(* A purpose that will not be pressed for again.                            *)
Over(p) ==
    \A q \in 1..Latest : Same(q, p) => \E r \in q..Latest :
      \/ presses[r].client = "ok"
      \/ (r = Latest /\ presses[r].client = "settling")

(* The forms whose one call only its key keeps from being done again.       *)
HeldKey ==
    Len(form.calls) = 1 /\ form.calls[1].key = "mount" /\ form.replacesKey = {"ok"}
      /\ Keyed(form.calls[1])

(* The purpose of a press is pressed for under its key, unless it is excused, *)
(* locked out, or over.                                                     *)
PurposeKeepsKey ==
    \A p \in 1..Latest : presses[p].here =>
      presses[p].gen = key \/ presses[p].intent \in excused \/ LockedOut(p) \/ Over(p)

(* Of two presses for one purpose under different keys the first is locked   *)
(* out, if the purpose is not excused.                                      *)
OneKeyActs ==
    \A p, q \in 1..Latest : p < q /\ Same(p, q) /\ presses[p].gen # presses[q].gen =>
      presses[p].intent \in excused \/ LockedOut(p)

PurposeInv == HeldKey => PurposeKeepsKey /\ OneKeyActs

(* What every step keeps: what was filed as done, and who is excused.        *)
Keeps ==
    /\ UNCHANGED scene /\ excused \subseteq excused'
    /\ \A k \in DOMAIN filed : filed[k].done => k \in DOMAIN filed' /\ filed'[k] = filed[k]

LEMMA StepKeeps == ASSUME TabInv, [Next]_vars PROVE Keeps
<1> USE DEF TabInv
<1>1. CASE UNCHANGED vars \/ Refocus \/ AnswerRead \/ Deliver
    BY <1>1 DEF vars, Refocus, AnswerRead, Deliver, server, Keeps
<1>2. ASSUME NEW p \in DOMAIN scene.shows, Open(p)
      PROVE  Keeps
    BY <1>2 DEF Open, server, Keeps
<1>3. ASSUME NEW payload \in Payloads, NEW start \in 1..2, NEW clicks \in 1..2,
             PressButton(payload, start, clicks)
      PROVE  Keeps
    BY <1>3 DEF PressButton, server, Keeps
<1>4. ASSUME NEW p \in 1..Latest, NextCall(p) \/ Succeed(p) \/ Settle(p) \/ GiveUp(p)
      PROVE  Keeps
    BY <1>4 DEF NextCall, Succeed, Settle, GiveUp, NewKeys, server, Keeps
<1>5. ASSUME NEW p \in 1..Latest, Deny(p) \/ Replay(p) \/ Refuse(p)
      PROVE  Keeps
    BY <1>5 DEF Deny, Replay, Refuse, server, Keeps
<1>6. ASSUME NEW p \in 1..Latest, Claim(p)
      PROVE  Keeps
    BY <1>6 DEF Claim, Guarded, Reserved, Keeps
<1>7. ASSUME NEW p \in 1..Latest, Finish(p)
      PROVE  Keeps
  <2>1. UNCHANGED <<scene, excused>>
    BY <1>7 DEF Finish
  <2>2. \A k \in DOMAIN filed : filed[k].done => k \in DOMAIN filed' /\ filed'[k] = filed[k]
    BY <1>7, FinishDoes
  <2> QED BY <2>1, <2>2 DEF Keeps
<1>8. ASSUME NEW p \in 1..Latest, Reject(p) \/ FailAfterwards(p)
      PROVE  Keeps
  <2>1. /\ presses[p].server = "running" /\ UNCHANGED <<scene, excused>>
        /\ filed' = filed \/ (Keyed(CallOf(p)) /\ filed' = Unfiled(p))
    BY <1>8, FailsDoes
  <2>2. Keyed(CallOf(p)) => ~filed[KeyOf(p)].done
    BY <2>1, RunningRecord
  <2> QED BY <2>1, <2>2 DEF Unfiled, Keeps
<1>9. CASE FailRead
    BY <1>9, FailReadMoves DEF server, Keeps
<1> QED BY <1>1, <1>2, <1>3, <1>4, <1>5, <1>6, <1>7, <1>8, <1>9 DEF Next

LEMMA LockedStays ==
    ASSUME TypeInv, Keeps, \A q \in 1..Latest : Fixed(q), NEW p \in 1..Latest, LockedOut(p)
    PROVE  LockedOut(p)'
<1>1. PICK k \in DOMAIN filed :
        /\ k = <<"mount", presses[p].gen, 1>> /\ filed[k].done
        /\ presses[filed[k].by].payload # presses[p].payload
    BY DEF LockedOut
<1>2. k \in DOMAIN filed' /\ filed'[k] = filed[k] /\ filed[k].by \in 1..Latest
    BY <1>1 DEF Keeps, TypeInv, ConsoleTypeOK
<1> QED BY <1>1, <1>2 DEF LockedOut, Fixed

LEMMA OneKeyStays ==
    ASSUME TypeInv, Keeps, \A q \in 1..Latest : Fixed(q), Latest' = Latest, OneKeyActs
    PROVE  OneKeyActs'
<1> SUFFICES ASSUME NEW p \in 1..Latest, NEW q \in 1..Latest,
                    p < q, Same(p, q)', presses'[p].gen # presses'[q].gen
             PROVE  presses'[p].intent \in excused' \/ LockedOut(p)'
    BY DEF OneKeyActs
<1>1. Same(p, q) /\ presses[p].gen # presses[q].gen
    BY DEF Same, Fixed
<1>2. presses[p].intent \in excused \/ LockedOut(p)
    BY <1>1 DEF OneKeyActs
<1> QED BY <1>2, LockedStays DEF Keeps, Fixed

LEMMA OverStays ==
    ASSUME TypeInv, Latest' = Latest, \A q \in 1..Latest : Fixed(q) /\ ClientStep(q),
           NEW p \in 1..Latest, Over(p)
    PROVE  Over(p)'
<1> SUFFICES ASSUME NEW q \in 1..Latest, Same(q, p)'
             PROVE  \E r \in q..Latest : \/ presses'[r].client = "ok"
                                         \/ (r = Latest /\ presses'[r].client = "settling")
    BY DEF Over
<1>1. Same(q, p)
    BY DEF Same, Fixed
<1>2. PICK r \in q..Latest : \/ presses[r].client = "ok"
                             \/ (r = Latest /\ presses[r].client = "settling")
    BY <1>1 DEF Over
<1>3. r \in 1..Latest
    BY Gens
<1>4. \/ presses'[r].client = "ok"
      \/ (r = Latest /\ presses'[r].client = "settling")
    BY <1>2, <1>3 DEF ClientStep
<1> QED BY <1>4

LEMMA PurposeStays ==
    ASSUME TabInv, PurposeInv, Keeps, Stays, key' = key
    PROVE  PurposeInv'
<1> SUFFICES ASSUME HeldKey PROVE PurposeKeepsKey' /\ OneKeyActs'
    BY DEF PurposeInv, HeldKey, form, Keeps, Keyed
<1>1. Latest' = Latest /\ \A q \in 1..Latest : Fixed(q) /\ ClientStep(q)
    BY DEF Stays
<1>2. OneKeyActs'
    BY <1>1, OneKeyStays DEF TabInv, PurposeInv
<1>3. ASSUME NEW p \in 1..Latest, presses'[p].here
      PROVE  \/ presses'[p].gen = key' \/ presses'[p].intent \in excused'
             \/ LockedOut(p)' \/ Over(p)'
  <2>1. presses[p].here /\ Fixed(p)
    BY <1>3 DEF Stays
  <2>2. presses[p].gen = key \/ presses[p].intent \in excused \/ LockedOut(p) \/ Over(p)
    BY <2>1 DEF PurposeInv, PurposeKeepsKey
  <2> QED BY <1>1, <2>1, <2>2, LockedStays, OverStays DEF TabInv, Keeps, Fixed
<1> QED BY <1>1, <1>2, <1>3 DEF PurposeKeepsKey

LEMMA PurposeLeaves ==
    ASSUME TabInv, PurposeInv, Keeps, Leaves
    PROVE  PurposeInv'
<1> SUFFICES ASSUME HeldKey PROVE PurposeKeepsKey' /\ OneKeyActs'
    BY DEF PurposeInv, HeldKey, form, Keeps, Keyed
<1>1. Latest' = Latest /\ \A q \in 1..Latest : Fixed(q) /\ presses'[q].here = FALSE
    BY DEF Leaves
<1>2. OneKeyActs'
    BY <1>1, OneKeyStays DEF TabInv, PurposeInv
<1> QED BY <1>1, <1>2 DEF PurposeKeepsKey

(* A success replaces the key: what was pressed under it before was for the  *)
(* same purpose or is locked out, and what was pressed after it is excused.  *)
LEMMA PurposeSucceed ==
    ASSUME TabInv, PurposeInv, Keeps, NEW p \in 1..Latest, Succeed(p)
    PROVE  PurposeInv'
<1> SUFFICES ASSUME HeldKey PROVE PurposeKeepsKey' /\ OneKeyActs'
    BY DEF PurposeInv, HeldKey, form, Keeps, Keyed
<1> USE DEF TabInv
<1>1. Stays /\ Moves(p) /\ presses'[p].client = "settling"
    BY SucceedStays, SucceedMoves
<1>2. /\ Latest' = Latest /\ Latest \in Nat
      /\ \A q \in 1..Latest : Fixed(q) /\ ClientStep(q) /\ presses'[q].here = presses[q].here
    BY <1>1, Gens DEF Stays
<1>3. OneKeyActs'
    BY <1>2, OneKeyStays DEF PurposeInv
<1>4. CASE ~presses[p].here
  <2>1. key' = key
    BY <1>4 DEF Succeed, NewKeys
  <2> QED BY <1>1, <2>1, PurposeStays DEF PurposeInv, HeldKey, form, Keeps, Keyed
<1>5. CASE presses[p].here
  <2>1. excused' = excused \cup {presses[r].intent : r \in (p + 1)..Latest}
    BY <1>5 DEF Succeed, NewKeys, Replaces, HeldKey
  <2>2. Waiting(p)
    BY <1>5 DEF Succeed, Waiting
  <2> SUFFICES ASSUME NEW x \in 1..Latest, presses[x].here
               PROVE  presses[x].intent \in excused' \/ LockedOut(x)' \/ Over(x)'
    BY <1>2, <1>3 DEF PurposeKeepsKey, Fixed
  <2>3. presses[x].gen = key \/ presses[x].intent \in excused \/ LockedOut(x) \/ Over(x)
    BY DEF PurposeInv, PurposeKeepsKey
  <2>4. CASE presses[x].gen # key
    BY <1>2, <2>3, <2>4, LockedStays, OverStays DEF Keeps
  <2>5. CASE presses[x].gen = key /\ p = Latest
    <3>1. \A q \in 1..Latest : Latest \in q..Latest
        BY <1>2
    <3> QED BY <1>1, <1>2, <2>5, <3>1 DEF Over
  <2>6. CASE presses[x].gen = key /\ p # Latest
    <3>1. p < Latest /\ p + 1 \in (p + 1)..Latest /\ p + 1 \in 1..Latest
        BY <1>2, <2>6
    <3>2. presses[p].intent \in excused'
        BY <2>1, <2>2, <3>1 DEF ClientInv, Doubles, Same
    <3>3. CASE x > p
        <4>1. x \in (p + 1)..Latest
            BY <3>3
        <4> QED BY <2>1, <4>1
    <3>4. CASE x = p
        BY <3>2, <3>4
    <3>5. CASE x < p
        <4>1. presses[x].gen <= presses[p].gen /\ presses[p].gen <= presses[Latest].gen
            BY <1>2, <3>1, <3>5 DEF ClientInv, KeysInOrder
        <4>2. /\ key = presses[Latest].gen /\ presses[x].gen \in 1..x
              /\ presses[p].gen \in 1..p /\ Latest \in 1..Latest
            BY <1>2, <2>6, Gens DEF ClientInv, KeysInOrder
        <4>3. presses[x].gen = presses[p].gen
            BY <2>6, <4>1, <4>2
        <4>4. CASE presses[x].payload = presses[p].payload
            BY <3>2, <3>5, <4>3, <4>4 DEF ClientInv, SamePurpose, Same
        <4>5. CASE presses[x].payload # presses[p].payload
            <5>1. presses[p].server = "ok" /\ presses[p].at = 1 /\ presses[p].start \in 1..presses[p].at
                BY RowTypes DEF Succeed, HeldKey
            <5>2. Passed(p, 1) /\ 1 \in presses[p].start..Len(form.calls)
                BY <5>1 DEF Passed, HeldKey
            <5>3. /\ KeyAt(p, 1) \in DOMAIN filed /\ filed[KeyAt(p, 1)].done
                  /\ presses[filed[KeyAt(p, 1)].by].payload = presses[p].payload
                BY <5>2 DEF ServerInv, PassedIsDone, HeldKey
            <5>4. KeyAt(p, 1) = <<"mount", presses[x].gen, 1>>
                BY <4>3 DEF KeyAt, HeldKey
            <5>5. LockedOut(x)
                BY <4>5, <5>3, <5>4 DEF LockedOut
            <5> QED BY <1>2, <5>5, LockedStays
        <4> QED BY <4>4, <4>5
    <3> QED BY <3>3, <3>4, <3>5
  <2> QED BY <2>4, <2>5, <2>6
<1> QED BY <1>4, <1>5

LEMMA PurposeSettle ==
    ASSUME TabInv, PurposeInv, Keeps, NEW p \in 1..Latest, Settle(p)
    PROVE  PurposeInv'
<1>1. CASE UNCHANGED key
    BY <1>1, SettleStays, PurposeStays, PurposeLeaves DEF TabInv
<1>2. CASE Leaving /\ key' = 0
  <2>1. /\ presses[p].client = "settling" /\ presses'[p].client = "ok" /\ UNCHANGED scene
        /\ \A q \in 1..Latest : q # p => presses'[q].client = presses[q].client
    BY SettleMoves DEF Settle, TabInv
  <2>2. Leaves
    BY <1>2, <2>1 DEF Leaves, Leaving, ClientStep
  <2> QED BY <2>2, PurposeLeaves
<1> QED BY <1>1, <1>2, SettleMoves DEF TabInv

LEMMA PurposeGiveUp ==
    ASSUME TabInv, PurposeInv, Keeps, NEW p \in 1..Latest, GiveUp(p)
    PROVE  PurposeInv'
<1>1. CASE HeldKey
  <2>1. key' = key
    BY <1>1 DEF GiveUp, NewKeys, Replaces, HeldKey
  <2> QED BY <2>1, GiveUpStays, PurposeStays DEF TabInv
<1>2. CASE ~HeldKey
    BY <1>2 DEF PurposeInv, HeldKey, form, Keeps, Keyed
<1> QED BY <1>1, <1>2

(* What is pressed for again was not over, and was pressed for under the     *)
(* present key, is excused or locked out.                                   *)
LEMMA AgainUnderKey ==
    ASSUME TabInv, PurposeKeepsKey,
           NEW payload \in Payloads, NEW start, NEW clicks \in 1..2,
           PressButton(payload, start, clicks),
           NEW p \in 1..Latest, PressRow(payload, start).intent = presses[p].intent
    PROVE  /\ presses[p].here /\ ~Over(p)
           /\ presses[p].gen = key \/ presses[p].intent \in excused \/ LockedOut(p)
<1> USE DEF TabInv
<1>1. PICK r \in Retried(payload) : presses[r].intent = presses[p].intent
  <2>1. IsNew(PressRow(payload, start), payload, start)
    BY PressRows
  <2>2. presses[p].intent \in 1..p /\ Latest \in Nat
    BY Gens
  <2> QED BY <2>1, <2>2 DEF IsNew
<1>2. /\ r \in 1..Latest /\ presses[r].here /\ Same(r, p) /\ Latest \in 1..Latest
      /\ \A s \in r..Latest : presses[s].client # "ok"
    BY <1>1, Gens DEF Retried, Same
<1>3. presses[p].here /\ presses[Latest].here
  <2>1. presses[r].here = presses[p].here
    BY <1>2 DEF ClientInv, OnThePage
  <2>2. r <= Latest
    BY <1>2
  <2> QED BY <1>2, <2>1, <2>2 DEF ClientInv, OnThePage
<1>4. presses[Latest].client # "settling"
    BY <1>2, <1>3, Gens DEF PressButton, Ready
<1>5. ~Over(p)
    BY <1>2, <1>4 DEF Over
<1> QED BY <1>3, <1>5 DEF PurposeKeepsKey

LEMMA PurposePress ==
    ASSUME TabInv, PurposeInv, Keeps,
           NEW payload \in Payloads, NEW start, NEW clicks \in 1..2,
           PressButton(payload, start, clicks)
    PROVE  PurposeInv'
<1> SUFFICES ASSUME HeldKey PROVE PurposeKeepsKey' /\ OneKeyActs'
    BY DEF PurposeInv, HeldKey, form, Keeps, Keyed
<1> USE DEF TabInv
<1> DEFINE row == PressRow(payload, start)
           Old == 1..Latest
           New == (Latest + 1)..Latest'
<1>13. Pushes(payload, start, clicks)
    BY Pressed
<1>1. /\ Latest \in Nat /\ Latest' = Latest + clicks
      /\ \A q \in Old : presses'[q] = presses[q] /\ Fixed(q)
      /\ \A q \in New : presses'[q] = row /\ presses'[q].gen = key'
      /\ key' = (IF key = 0 THEN Latest + 1 ELSE key)
      /\ Latest > 0 /\ presses[Latest].here => presses[Latest].client \in {"ok", "error"}
    BY <1>13 DEF Pushes, Fixed
<1>2. /\ \A q \in 1..Latest' : q \in Old \/ q \in New
      /\ \A p \in New, q \in Old : ~(p < q)
    BY <1>1
<1>3. PurposeKeepsKey /\ OneKeyActs
    BY DEF PurposeInv
<1>4. \A p \in Old : LockedOut(p) => LockedOut(p)'
    BY <1>1, LockedStays
<1>5. \A p \in Old : presses[p].gen = key => presses[p].gen = key'
    BY <1>1, Gens
<1>6. \A p \in Old : row.intent = presses[p].intent =>
        ~Over(p) /\ (presses[p].gen = key \/ presses[p].intent \in excused \/ LockedOut(p))
    BY <1>3, AgainUnderKey
<1> HIDE DEF row
<1>7. ASSUME NEW p \in 1..Latest', presses'[p].here
      PROVE  \/ presses'[p].gen = key' \/ presses'[p].intent \in excused'
             \/ LockedOut(p)' \/ Over(p)'
  <2>1. CASE p \in New
    BY <1>1, <2>1
  <2>2. CASE p \in Old
    <3>1. presses[p].here /\ presses'[p] = presses[p]
        BY <1>1, <1>7, <2>2
    <3>2. presses[p].gen = key \/ presses[p].intent \in excused \/ LockedOut(p) \/ Over(p)
        BY <1>3, <2>2, <3>1 DEF PurposeKeepsKey
    <3>3. ASSUME Over(p)
          PROVE  Over(p)'
      <4>1. presses[Latest].here /\ Latest \in Old /\ presses[Latest].client # "settling"
        <5>1. Latest \in Old /\ p <= Latest /\ Latest > 0
            BY <1>1, <2>2
        <5> QED BY <1>1, <2>2, <3>1, <5>1 DEF ClientInv, OnThePage
      <4>2. row.intent # presses[p].intent
        BY <1>6, <2>2, <3>3
      <4> SUFFICES ASSUME NEW q \in 1..Latest', Same(q, p)'
                   PROVE  \E r \in q..Latest' : presses'[r].client = "ok"
        BY DEF Over
      <4>3. q \in Old
        BY <1>1, <1>2, <2>2, <4>2 DEF Same
      <4>4. Same(q, p)
        BY <1>1, <2>2, <4>3 DEF Same
      <4>5. PICK r \in q..Latest : presses[r].client = "ok"
        BY <3>3, <4>1, <4>3, <4>4 DEF Over
      <4>6. r \in Old /\ r \in q..Latest'
        BY <1>1, <4>3
      <4> QED BY <1>1, <4>5, <4>6
    <3> QED BY <1>4, <1>5, <2>2, <3>1, <3>2, <3>3 DEF Keeps
  <2> QED BY <1>2, <2>1, <2>2
<1>8. ASSUME NEW p \in 1..Latest', NEW q \in 1..Latest',
             p < q, Same(p, q)', presses'[p].gen # presses'[q].gen
      PROVE  presses'[p].intent \in excused' \/ LockedOut(p)'
  <2>1. CASE p \in Old /\ q \in Old
    <3>1. Same(p, q) /\ presses[p].gen # presses[q].gen
        BY <1>1, <1>8, <2>1 DEF Same
    <3>2. presses[p].intent \in excused \/ LockedOut(p)
        BY <1>3, <1>8, <2>1, <3>1 DEF OneKeyActs
    <3> QED BY <1>1, <1>4, <2>1, <3>2 DEF Keeps
  <2>2. CASE p \in Old /\ q \in New
    <3>1. row.intent = presses[p].intent /\ presses[p].gen # key'
        BY <1>1, <1>8, <2>2 DEF Same
    <3>2. presses[p].intent \in excused \/ LockedOut(p)
        BY <1>5, <1>6, <2>2, <3>1
    <3> QED BY <1>1, <1>4, <2>2, <3>2 DEF Keeps
  <2>3. CASE p \in New /\ q \in New
    BY <1>1, <1>8, <2>3
  <2> QED BY <1>2, <1>8, <2>1, <2>2, <2>3
<1> QED BY <1>7, <1>8 DEF PurposeKeepsKey, OneKeyActs

LEMMA PurposeNext ==
    ASSUME TabInv, PurposeInv, [Next]_vars
    PROVE  PurposeInv'
<1> USE DEF TabInv
<1>0. Keeps
    BY StepKeeps
<1>1. CASE UNCHANGED vars \/ Refocus \/ AnswerRead \/ Deliver
  <2>1. UNCHANGED <<scene, page, key, presses>>
    BY <1>1 DEF vars, Refocus, AnswerRead, Deliver
  <2>2. Stays
    BY <2>1 DEF Stays, Fixed, ClientStep, Latest
  <2> QED BY <1>0, <2>1, <2>2, PurposeStays
<1>2. ASSUME NEW p \in DOMAIN scene.shows, Open(p)
      PROVE  PurposeInv'
    BY <1>0, <1>2, OpenStep, PurposeLeaves
<1>3. ASSUME NEW payload \in Payloads, NEW start \in 1..2, NEW clicks \in 1..2,
             PressButton(payload, start, clicks)
      PROVE  PurposeInv'
    BY <1>0, <1>3, PurposePress
<1>4. ASSUME NEW p \in 1..Latest, NextCall(p)
      PROVE  PurposeInv'
  <2>1. Stays /\ key' = key
    BY <1>4, NextCallMoves, QuietStays DEF NextCall
  <2> QED BY <1>0, <2>1, PurposeStays
<1>5. ASSUME NEW p \in 1..Latest, Succeed(p) \/ GiveUp(p) \/ Settle(p)
      PROVE  PurposeInv'
    BY <1>0, <1>5, PurposeSucceed, PurposeGiveUp, PurposeSettle
<1>6. ASSUME NEW p \in 1..Latest, Serves(p)
      PROVE  PurposeInv'
  <2>1. Stays /\ key' = key
    BY <1>6, ServerMoves, QuietStays
  <2> QED BY <1>0, <2>1, PurposeStays
<1>7. CASE FailRead
    BY <1>0, <1>7, FailReadStep, PurposeStays, PurposeLeaves
<1> QED BY <1>1, <1>2, <1>3, <1>4, <1>5, <1>6, <1>7 DEF Next, Serves

(* A call that is done again for its purpose, though it has a key, is one of *)
(* a form that holds its key.                                               *)
LEMMA ExposedHolds ==
    ASSUME TypeInv, NEW p \in 1..Latest, Exposed(CallOf(p))
    PROVE  HeldKey /\ presses[p].at = 1
<1>1. presses[p].at \in 1..Len(form.calls) /\ DOMAIN form.calls = 1..Len(form.calls)
        /\ HoldsItsKey(form)
    BY RowTypes, FormFacts DEF TypeInv
<1>2. /\ Len(form.calls) = 1 /\ form.calls[presses[p].at].key = "mount"
      /\ form.replacesKey = {"ok"}
    BY <1>1 DEF HoldsItsKey, CallOf
<1>3. presses[p].at = 1
    BY <1>1, <1>2
<1> QED BY <1>2, <1>3 DEF HeldKey, Exposed, CallOf

(* Of two presses for one purpose one runs and the other has taken effect    *)
(* and kept its key: the keys differ, and the first is not locked out.      *)
LEMMA NotDoneAgain ==
    ASSUME TabInv, PurposeInv, NEW p \in 1..Latest,
           presses[p].server = "running", Exposed(CallOf(p)),
           NEW s \in took, s \notin freed, s[1] # p, s[2] = presses[p].at, Same(s[1], p)
    PROVE  presses[p].intent \in excused
<1> USE DEF TabInv
<1> DEFINE r == s[1]
<1>1. HeldKey /\ presses[p].at = 1 /\ Keyed(CallOf(p))
    BY ExposedHolds DEF Exposed
<1>2. r \in 1..Latest /\ Keyed(form.calls[s[2]]) /\ s[2] = 1
    BY <1>1 DEF TypeInv, ConsoleTypeOK, HeldKey
<1>4. filed[KeyAt(r, 1)].by = r
    BY <1>2 DEF ServerInv, EffectsOnRecord
<1>5. KeyOf(p) = KeyAt(p, 1) /\ filed[KeyAt(p, 1)].by = p /\ ~filed[KeyAt(p, 1)].done
    BY <1>1, KeyOfIs, RunningRecord
<1>6. \A q : KeyAt(q, 1) = <<"mount", presses[q].gen, 1>>
    BY <1>1 DEF HeldKey, KeyAt
<1>7. presses[r].gen # presses[p].gen
    BY <1>4, <1>5, <1>6
<1>8. ~LockedOut(r)
    BY <1>4, <1>6 DEF LockedOut
<1>9. ~LockedOut(p)
    BY <1>5, <1>6 DEF LockedOut
<1>10. r < p \/ p < r
    BY <1>2
<1>11. OneKeyActs
    BY <1>1 DEF PurposeInv
<1> HIDE DEF r
<1>12. Same(r, p) /\ r # p
    BY DEF r
<1>13. CASE r < p
    BY <1>2, <1>7, <1>8, <1>11, <1>12, <1>13 DEF OneKeyActs, Same
<1>14. CASE p < r
    BY <1>2, <1>7, <1>9, <1>11, <1>12, <1>14 DEF OneKeyActs, Same
<1> QED BY <1>10, <1>13, <1>14

(* Only a press that has done its work takes effect, and only with it.      *)
LEMMA OnlyWorkTakes ==
    ASSUME TypeInv, [Next]_vars, NEW t \in took' \ took
    PROVE  \E p \in 1..Latest :
             /\ t[1] = p /\ t[2] = presses[p].at /\ presses[p].server = "running"
             /\ Writes[CallOf(p).call].repeatable \/ ~DoneFor(p)
             /\ UNCHANGED <<scene, excused>>
<1>1. ASSUME NEW p \in 1..Latest, Finish(p) \/ FailAfterwards(p)
      PROVE  /\ t[1] = p /\ t[2] = presses[p].at /\ presses[p].server = "running"
             /\ Writes[CallOf(p).call].repeatable \/ ~DoneFor(p)
             /\ UNCHANGED <<scene, excused>>
  <2>1. Work(p) /\ presses[p].server = "running" /\ UNCHANGED <<scene, excused>>
    BY <1>1 DEF Finish, FailAfterwards
  <2>2. t = <<p, presses[p].at>> /\ took' # took
    BY <2>1, Works
  <2>3. Writes[CallOf(p).call].repeatable \/ ~DoneFor(p)
    BY <2>1, <2>2 DEF Work
  <2> QED BY <2>1, <2>2, <2>3
<1>2. took' # took
    OBVIOUS
<1>3. UNCHANGED took \/ \E p \in 1..Latest : Finish(p) \/ FailAfterwards(p)
    BY FailReadMoves
       DEF Next, vars, server, Open, Refocus, AnswerRead, Deliver, PressButton, NextCall,
           Succeed, Settle, GiveUp, Deny, Claim, Replay, Refuse, Reject
<1> QED BY <1>1, <1>2, <1>3

(* What a user sets out to do is done once, however often the button is      *)
(* pressed for it: a call has a key that outlives its failures, or its work  *)
(* cannot be repeated, or a late success has replaced the key, or the first  *)
(* failed after its work was done and gave its key up (the page's useState   *)
(* key against the interceptor's record).                                   *)
THEOREM PressesActOnce == Spec => PressedOnce
<1> DEFINE Once ==
             \A t \in took' \ took, s \in took :
               s[2] = t[2] /\ Same(s[1], t[1])
                 => \/ ~Keyed(form.calls[s[2]])
                    \/ presses[s[1]].intent \in excused
                    \/ s \in freed
<1>1. TabInv /\ PurposeInv /\ [Next]_vars => Once
  <2> SUFFICES ASSUME TabInv, PurposeInv, [Next]_vars,
                      NEW t \in took' \ took, NEW s \in took,
                      s[2] = t[2], Same(s[1], t[1]), Keyed(form.calls[s[2]]), s \notin freed
               PROVE  presses[s[1]].intent \in excused
    OBVIOUS
  <2>1. PICK p \in 1..Latest :
          /\ t[1] = p /\ t[2] = presses[p].at /\ presses[p].server = "running"
          /\ Writes[CallOf(p).call].repeatable \/ ~DoneFor(p)
    BY OnlyWorkTakes DEF TabInv
  <2>2. s = <<s[1], s[2]>> /\ s[1] \in 1..Latest
    BY DEF TabInv, TypeInv, ConsoleTypeOK
  <2>3. DoneFor(p)
    BY <2>1, <2>2 DEF DoneFor
  <2>4. Exposed(CallOf(p))
    BY <2>1, <2>3 DEF Exposed, CallOf
  <2>5. s[1] # p
    <3>1. presses[p].at \in Int
        BY RowTypes DEF TabInv
    <3>2. ~(s[1] = p /\ s[2] = presses[p].at)
        BY <2>1, <3>1 DEF TabInv, ServerInv, EffectsOnRecord, Answered
    <3> QED BY <2>1, <3>2
  <2> QED BY <2>1, <2>4, <2>5, NotDoneAgain DEF Same
<1>2. TabInv /\ PurposeInv /\ [Next]_vars => [Once]_vars
    BY <1>1
<1>3. Init => PurposeInv
  <2>1. Init => Latest = 0 /\ 1..Latest = {}
    BY EmptySeq DEF Init, Latest
  <2> QED BY <2>1 DEF PurposeInv, PurposeKeepsKey, OneKeyActs
<1>4. TabInv /\ PurposeInv /\ [Next]_vars => PurposeInv'
    BY PurposeNext
<1>5. PressedOnce <=> [][Once]_vars
    BY DEF PressedOnce
<1> HIDE DEF Once
<1> QED BY <1>2, <1>3, <1>4, <1>5, TabInvariant, PTL DEF Spec
=============================================================================
