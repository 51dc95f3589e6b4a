------------------------------ MODULE Browsing ------------------------------
(***************************************************************************)
(* A member pages through the open listings while listings come and go.     *)
(* Each page is a query of its own, served by some process by its clock; it *)
(* goes on after a cursor that holds the last row's place in the order: the *)
(* sorted value, which listings share, and the identifier, which they do    *)
(* not.                                                                     *)
(***************************************************************************)
EXTENDS DemoClock, FiniteSets

CONSTANTS Rows,        \* the listings; identifiers grow with time
          RateOf,      \* the most each borrower would pay
          ExpiresAt,   \* and the instant each closes at
          PageSize

ASSUME BrowsingAssumption ==
    /\ Rows \subseteq Nat \ {0} /\ IsFiniteSet(Rows)
    /\ DOMAIN RateOf = Rows /\ \A i \in Rows : RateOf[i] \in Nat
    /\ DOMAIN ExpiresAt = Rows /\ \A i \in Rows : ExpiresAt[i] \in Nat
    /\ PageSize \in Nat \ {0}

Sorts == {"newest", "rate", "closing"}
Start == 0   \* the cursor of the first page

VARIABLES status,   \* of each listing
          reader,   \* the order and the cursor of the member who reads
          seen,     \* how many of the pages so far each listing was on
          steady    \* the listings that were open on every page of them

browsingVars == <<status, reader, seen, steady>>

Reader == [sort : Sorts, cursor : Rows \cup {Start}, step : {"none", "more", "end"}]

BrowsingTypeOK ==
    /\ status \in [Rows -> {"DRAFT", "ACTIVE", "CLOSED"}]
    /\ reader \in Reader
    /\ seen \in [Rows -> Nat] /\ steady \subseteq Rows

BrowsingInit ==
    /\ status = [i \in Rows |-> "DRAFT"]
    /\ reader \in [sort : Sorts, cursor : {Start}, step : {"none"}]
    /\ seen = [i \in Rows |-> 0] /\ steady = {}

PublishRow(i) ==
    /\ status[i] = "DRAFT" /\ status' = [status EXCEPT ![i] = "ACTIVE"]
    /\ UNCHANGED <<reader, seen, steady>>

(* Cancelled, or matched.                                                   *)
CloseRow(i) ==
    /\ status[i] = "ACTIVE" /\ status' = [status EXCEPT ![i] = "CLOSED"]
    /\ steady' = steady \ {i}
    /\ UNCHANGED <<reader, seen>>

(* Variant: the cursor is the sorted value alone.                           *)
ComesAfterValue(i, j) ==
    CASE reader.sort = "newest" -> i < j
      [] reader.sort = "rate" -> RateOf[i] > RateOf[j]
      [] reader.sort = "closing" -> ExpiresAt[i] > ExpiresAt[j]

(* Whether listing i comes after listing j in the reader's order.           *)
ComesAfter(i, j) ==
    CASE reader.sort = "newest" -> i < j
      [] reader.sort = "rate" -> \/ RateOf[i] > RateOf[j]
                                 \/ RateOf[i] = RateOf[j] /\ i > j
      [] reader.sort = "closing" -> \/ ExpiresAt[i] > ExpiresAt[j]
                                    \/ ExpiresAt[i] = ExpiresAt[j] /\ i > j

OpenAt(p) == {i \in Rows : status[i] = "ACTIVE" /\ ExpiresAt[i] > Now(p)}

(* The rows after the cursor.                                               *)
After(p) == {i \in OpenAt(p) : reader.cursor = Start \/ ComesAfter(i, reader.cursor)}

(* Whether the query puts listing i before listing j.                       *)
ComesBefore(i, j) ==
    CASE reader.sort = "newest" -> i > j
      [] reader.sort = "rate" -> RateOf[i] < RateOf[j] \/ (RateOf[i] = RateOf[j] /\ i < j)
      [] reader.sort = "closing" ->
           ExpiresAt[i] < ExpiresAt[j] \/ (ExpiresAt[i] = ExpiresAt[j] /\ i < j)

(* The first rows in that order, as many as fit on a page, and the last of   *)
(* them.                                                                    *)
PageOf(rows) == {i \in rows : Cardinality({j \in rows : ComesBefore(j, i)}) < PageSize}
LastOf(items) == CHOOSE i \in items : \A j \in items \ {i} : ComesBefore(j, i)

(* One row more than a page is asked for, to know whether there is another.  *)
ReadPage(p) ==
    LET rows == After(p)
        items == PageOf(rows)
        more == items # rows
    IN  /\ reader.step # "end"
        /\ seen' = [i \in Rows |-> IF i \in items THEN seen[i] + 1 ELSE seen[i]]
        /\ steady' = IF reader.step = "none" THEN OpenAt(p) ELSE steady \cap OpenAt(p)
        /\ reader' = [reader EXCEPT !.cursor = IF more THEN LastOf(items) ELSE @,
                                    !.step = IF more THEN "more" ELSE "end"]
        /\ UNCHANGED status

BrowsingStep ==
    \/ \E i \in Rows : PublishRow(i) \/ CloseRow(i)
    \/ \E p \in Processes : ReadPage(p)

-----------------------------------------------------------------------------
(* Who has paged to the end has seen every listing that was open throughout, *)
(* and none twice, whatever was published, closed or expired on the way and  *)
(* whichever clocks served the pages ("a cursor on the id alone would skip   *)
(* or repeat rows at a page boundary").                                     *)
BrowsedOnce ==
    /\ \A i \in Rows : seen[i] <= 1
    /\ reader.step = "end" => \A i \in steady : seen[i] = 1
=============================================================================
