----------------------------- MODULE MCConsole -----------------------------
(***************************************************************************)
(* Console for TLC.  What a form may be filled in with is told apart only   *)
(* by whether it is the same.  What follows a failed fetch is explored      *)
(* while the form can still be pressed.  A query that its form neither      *)
(* refreshes nor stands beside may show what was true before, so that only  *)
(* the keys are at stake, as they are with any other query of the form; and *)
(* of forms that are alike one is explored.                                 *)
(***************************************************************************)
EXTENDS Console

FailuresFollowed == failed => PressesLeft > 0

Telling ==
    \/ query \in form.refreshes \cup {NoQuery} \/ form.refreshes = {}
    \/ query # "audit" /\ \E p \in DOMAIN scene.shows : scene.shows[p] = {"form", "query"}

(* All that a behaviour looks at, but for the names of forms and pages.      *)
Shape(f, q) ==
    LET s == Scene(f, q)
    IN  [calls |-> [i \in DOMAIN f.calls |->
                     LET call == f.calls[i].call
                     IN  <<f.calls[i].key, Keyed(f.calls[i]), Writes[call].repeatable,
                           Admits(Writes[call].who, TRUE, s.roles), Touches(call, q)>>],
         answers |-> <<f.starts, f.replacesKey, f.opens = "same", f.name \in Persistent>>,
         changes |-> <<q \in f.refreshes, q \in f.rereads, q \in f.ends, q = "audit">>,
         card |-> <<s.waits, s.hides, s.drops>>,
         read |-> Admits(Reads[Asks[q]].who, TRUE, s.roles),
         pages |-> {<<s.shows[p], p = f.opens>> : p \in DOMAIN s.shows}]

(* Forms that are, with each query they refresh, as others are with one of   *)
(* theirs.                                                                  *)
Likes ==
    "recordAppraisal" :> {"placeOffer"} @@ "withdraw" :> {"runReconciliation"} @@
    "reclaimOffer" :> {"issueReceipt"} @@ "claimReceipt" :> {"issueReceipt"} @@
    "cancelListing" :> {"issueReceipt", "requestRedemption"} @@
    "unpauseSystem" :> {"pauseSystem"} @@ "openLiquidation" :> {"closeLiquidation"}

ASSUME LikesAreAlike ==
    \A f \in {f \in Forms : f.name \in DOMAIN Likes} :
      \A q \in QueriesFor(f) \cap f.refreshes :
        \E g \in {g \in Forms : g.name \in Likes[f.name]} :
          \E r \in QueriesFor(g) \cap g.refreshes : Shape(f, q) = Shape(g, r)

Explored == Telling /\ form.name \notin DOMAIN Likes

Fillings == Permutations(Payloads)
=============================================================================
