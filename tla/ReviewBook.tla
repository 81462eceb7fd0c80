----------------------------- MODULE ReviewBook -----------------------------
(***************************************************************************)
(* ReviewService and the numbers that ProductRepository.updateRatingStats  *)
(* keeps of a product's reviews.  Every change of a review is followed by  *)
(* a SELECT over all reviews of the product and an UPDATE of the product   *)
(* with what it found.  A step is what happens between two awaits; texts   *)
(* and pictures are left out.                                              *)
(*                                                                         *)
(* races is TRUE once a handler has counted while another held what it had *)
(* counted.                                                                *)
(***************************************************************************)
EXTENDS Integers, FiniteSets, Functions

CONSTANTS
    None,
    Items,        \* order items of the product, each of its own customer
    Ratings,
    Catalogue,    \* number of products in the shop
    Handlers,     \* requests that may be under way
    MaxReviews,   \* bound on the ids of reviews
    MaxDeaths     \* bound on the handlers that die half-way

VARIABLES
    review,   \* review[i]: the row of reviews with id i, or None
    nextId,
    stats,    \* the product's reviewCount, and its ratingAvg as total / rows
    task,     \* task[h]: what handler h is doing
    races,
    deaths

vars == <<review, nextId, stats, task, races, deaths>>

Ids == {i \in 1 .. MaxReviews : review[i] # None}
NoStats == [count |-> 0, total |-> 0, rows |-> 0]
NoTask == [pc |-> "idle", id |-> 0, row |-> None, found |-> NoStats]

Init ==
    /\ review = [i \in 1 .. MaxReviews |-> None]
    /\ nextId = 1
    /\ stats = NoStats
    /\ task = [h \in Handlers |-> NoTask]
    /\ races = FALSE
    /\ deaths = 0

At(h, pc) == task[h].pc = pc
Done(h) == task' = [task EXCEPT ![h] = NoTask]
Start(h, t) == At(h, "idle") /\ task' = [task EXCEPT ![h] = t]

-----------------------------------------------------------------------------
Reviewed(item) == \E i \in Ids : review[i].item = item

\* create, until it has found that the item has no review.
FindReview(h, item, rating) ==
    /\ ~Reviewed(item)
    /\ Start(h, [NoTask EXCEPT !.pc = "insert", !.row = [item |-> item, rating |-> rating]])
    /\ UNCHANGED <<review, nextId, stats, races, deaths>>

InsertReview(h) ==
    /\ At(h, "insert")
    /\ nextId <= MaxReviews
    /\ review' = [review EXCEPT ![nextId] = task[h].row]
    /\ nextId' = nextId + 1
    /\ task' = [task EXCEPT ![h] = [NoTask EXCEPT !.pc = "count"]]
    /\ UNCHANGED <<stats, races, deaths>>

LoadReview(h, pc, i) ==
    /\ Start(h, [NoTask EXCEPT !.pc = pc, !.id = i, !.row = review[i]])
    /\ UNCHANGED <<review, nextId, stats, races, deaths>>

\* The save of an entity whose row is gone inserts it again.
SaveReview(h) ==
    LET t == task[h] IN
    /\ At(h, "update")
    /\ \E r \in Ratings : review' = [review EXCEPT ![t.id] = [t.row EXCEPT !.rating = r]]
    /\ task' = [task EXCEPT ![h] = [NoTask EXCEPT !.pc = "count"]]
    /\ UNCHANGED <<nextId, stats, races, deaths>>

\* Mutant of DeleteReview: the product's numbers are left alone.
DeleteReviewOnly(h) ==
    /\ At(h, "remove")
    /\ review' = [review EXCEPT ![task[h].id] = None]
    /\ Done(h)
    /\ UNCHANGED <<nextId, stats, races, deaths>>

DeleteReview(h) ==
    /\ At(h, "remove")
    /\ review' = [review EXCEPT ![task[h].id] = None]
    /\ task' = [task EXCEPT ![h] = [NoTask EXCEPT !.pc = "count"]]
    /\ UNCHANGED <<nextId, stats, races, deaths>>

\* The query builder starts from products and adds reviews: it counts pairs of a product and a
\* review.  The average is not changed by that.
Counted ==
    [count |-> Cardinality(Ids) * Catalogue,
     total |-> SumFunctionOnSet([i \in Ids |-> review[i].rating], Ids),
     rows |-> Cardinality(Ids)]

CountReviews(h) ==
    /\ At(h, "count")
    /\ task' = [task EXCEPT ![h].pc = "stats", ![h].found = Counted]
    /\ races' = (races \/ \E g \in Handlers \ {h} : At(g, "stats"))
    /\ UNCHANGED <<review, nextId, stats, deaths>>

SaveStats(h) ==
    /\ At(h, "stats")
    /\ stats' = task[h].found
    /\ Done(h)
    /\ UNCHANGED <<review, nextId, races, deaths>>

\* The process, or its connection to MySQL, goes away.
Die(h) ==
    /\ ~At(h, "idle")
    /\ deaths < MaxDeaths
    /\ deaths' = deaths + 1
    /\ Done(h)
    /\ UNCHANGED <<review, nextId, stats, races>>

Next == \E h \in Handlers :
    \/ \E item \in Items, r \in Ratings : FindReview(h, item, r)
    \/ InsertReview(h)
    \/ \E i \in Ids : LoadReview(h, "update", i) \/ LoadReview(h, "remove", i)
    \/ SaveReview(h)
    \/ DeleteReview(h)
    \/ CountReviews(h)
    \/ SaveStats(h)
    \/ Die(h)

Spec == Init /\ [][Next]_vars

-----------------------------------------------------------------------------
\* Reviews, numbers and handlers have their shapes.
ReviewTypeOK ==
    /\ review \in [1 .. MaxReviews -> [item : Items, rating : Ratings] \union {None}]
    /\ nextId \in 1 .. MaxReviews + 1
    /\ \A h \in Handlers : task[h].id \in 0 .. nextId - 1
    /\ races \in BOOLEAN
    /\ deaths \in 0 .. MaxDeaths

\* The product's rating is computed again after every change, in two statements.  Whenever no
\* change is under way it is what the query answers for the reviews in the table, the right
\* average and their number times that of the products (product.repository.ts:155), however
\* creations, updates and removals overlap, unless two were between those two statements at
\* once or one died.
StatsCurrent ==
    /\ ~races /\ deaths = 0
    /\ \A h \in Handlers : task[h].pc \notin {"count", "stats"}
    => stats = Counted

=============================================================================
