------------------------------ MODULE Reviews ------------------------------
(***************************************************************************)
(* Reviews: internal/reviews.                                              *)
(*                                                                         *)
(* A handler reads the review of the path, compares its author with the    *)
(* session's user, and writes by id in a statement of its own.  The id is  *)
(* an INTEGER PRIMARY KEY without AUTOINCREMENT: a new row takes the       *)
(* highest id in use plus one, so that an id can come back.                *)
(***************************************************************************)
EXTENDS Servers

CONSTANTS
    MaxReviews,     \* bound: ids
    StarterAuthors  \* the authors of the starter data, a sequence

Ids == 1..MaxReviews
NoReview == [user |-> Nobody, text |-> Nobody]

VARIABLES
    review, \* [Ids -> the author and whose text it is, or NoReview]
    target, \* [Requests -> the id in its path]
    \* history
    given,  \* [Ids -> how many rows have had the id]
    known   \* [Requests -> given[target] when the request read the row]

reviewVars == <<review, target, given, known>>

InUse == {i \in Ids : review[i] # NoReview}

\* Fault: the row is found, whoever wrote it.
OwnsAny(u, i) == review[i] # NoReview

\* A request for another's review is answered "not found".
Owns(u, i) == review[i].user = u

\* Create, after ActiveProductExists.
OpenReview(r, s, u) ==
    /\ Arrive(r, s, u, "review")
    /\ UNCHANGED reviewVars

\* CreateReview: INSERT takes the next id.
CreateReview(r) ==
    /\ at[r] = "review"
    /\ \E i \in Ids :
          /\ \A j \in InUse : j < i
          /\ i = 1 \/ i - 1 \in InUse
          /\ review' = [review EXCEPT ![i] =
                           [user |-> who[r], text |-> who[r]]]
          /\ given' = [given EXCEPT ![i] = @ + 1]
    /\ Answer(r)
    /\ UNCHANGED <<target, known>>

\* Update and Delete, up to the comparison.
Require(r, s, u, place) ==
    /\ Arrive(r, s, u, place)
    /\ \E i \in InUse :
          /\ Owns(u, i)
          /\ target' = [target EXCEPT ![r] = i]
          /\ known' = [known EXCEPT ![r] = given[i]]
    /\ UNCHANGED <<review, given>>

Reworded(row, u) ==
    IF row = NoReview THEN NoReview ELSE [user |-> row.user, text |-> u]

\* UpdateReview: the user_id stays, and no row is no error.
UpdateReview(r) ==
    /\ at[r] = "edit"
    /\ review' = [review EXCEPT ![target[r]] = Reworded(@, who[r])]
    /\ Answer(r)
    /\ UNCHANGED <<target, given, known>>

DeleteReview(r) ==
    /\ at[r] = "remove"
    /\ review' = [review EXCEPT ![target[r]] = NoReview]
    /\ Answer(r)
    /\ UNCHANGED <<target, given, known>>

\* Reset: the table is emptied, and filled from id 1.
Starter(i) == IF i \in DOMAIN StarterAuthors
              THEN [user |-> StarterAuthors[i], text |-> StarterAuthors[i]]
              ELSE NoReview

RestoreReviews ==
    /\ review' = [i \in Ids |-> Starter(i)]
    /\ given' = [i \in Ids |-> IF Starter(i) = NoReview THEN given[i]
                               ELSE given[i] + 1]
    /\ UNCHANGED <<target, known>>

ReviewsInit ==
    /\ review = [i \in Ids |-> Starter(i)]
    /\ given = [i \in Ids |-> IF Starter(i) = NoReview THEN 0 ELSE 1]
    /\ target = [r \in Requests |-> 1]
    /\ known = [r \in Requests |-> 0]

ReviewStep ==
    \/ \E r \in Requests, s \in Servers, u \in Users :
          \/ OpenReview(r, s, u)
          \/ \E place \in {"edit", "remove"} : Require(r, s, u, place)
    \/ \E r \in Requests :
          CreateReview(r) \/ UpdateReview(r) \/ DeleteReview(r)
=============================================================================
