--------------------------- MODULE ProductListing ---------------------------
(***************************************************************************)
(* ProductRepository.findWithQuery: which products a query finds, in which *)
(* order, and which page of them is answered.  A column of a query is None *)
(* when the request leaves it out.  What a text matches is data: texts is  *)
(* the set of searches a product's name or description contains.  The      *)
(* other listings page in the same way.                                    *)
(***************************************************************************)
EXTENDS Integers, Sequences, FiniteSets, SequencesExt

CONSTANT None

Given(column, test) == column # None => test

Found(query, products) ==
    {p \in products :
        /\ Given(query.search, query.search \in p.texts)
        /\ Given(query.category, p.category = query.category)
        /\ Given(query.brand, p.brand = query.brand)
        /\ Given(query.status, p.status = query.status)
        /\ Given(query.minPrice, p.price >= query.minPrice)
        /\ Given(query.maxPrice, p.price <= query.maxPrice)}

\* Any other column is ignored.
SortColumn(query) ==
    IF query.sortBy \in {"price", "name", "createdAt", "viewCount", "sortOrder"} THEN query.sortBy ELSE "createdAt"

\* A query without its own paging gets the first page of twelve.
Page(query) == IF query.page = None THEN 1 ELSE query.page
Limit(query) == IF query.limit = None THEN 12 ELSE query.limit

\* MySQL leaves rows with the same key in any order, and in another one in the next query.
Orders(query, products) ==
    LET column == SortColumn(query)
        Before(p, q) == IF query.sortOrder = "ASC" THEN p[column] <= q[column] ELSE p[column] >= q[column] IN
    {s \in SetToSeqs(Found(query, products)) : \A i \in 1 .. Len(s) - 1 : Before(s[i], s[i + 1])}

\* What findWithQuery may answer: the rows and the number of pages.
Answers(query, products) ==
    LET first == (Page(query) - 1) * Limit(query) + 1
        total == Cardinality(Found(query, products)) IN
    {[data |-> SubSeq(s, first, IF first + Limit(query) - 1 < total THEN first + Limit(query) - 1 ELSE total),
      total |-> total,
      totalPages |-> (total + Limit(query) - 1) \div Limit(query)] : s \in Orders(query, products)}

ActiveAnswers(query, products) == Answers([query EXCEPT !.status = "active"], products)

\* findFeatured
Featured(products, limit) ==
    LET Before(p, q) == p.sortOrder < q.sortOrder \/ (p.sortOrder = q.sortOrder /\ p.createdAt >= q.createdAt)
        rows == {p \in products : p.featured /\ p.status = "active"} IN
    {SubSeq(s, 1, IF limit < Len(s) THEN limit ELSE Len(s)) :
        s \in {t \in SetToSeqs(rows) : \A i \in 1 .. Len(t) - 1 : Before(t[i], t[i + 1])}}

-----------------------------------------------------------------------------
\* A client that asks for one page after the other sees every product it searches for exactly
\* once, whatever MySQL answers each time, if no two of them have the same sort key.
PagesCover(query, products) ==
    LET rows == Found(query, products)
        PageAnswers(n) == Answers([query EXCEPT !.page = n], products)
        pages == 1 .. (CHOOSE a \in Answers(query, products) : TRUE).totalPages
        column == SortColumn(query) IN
    (\A p, q \in rows : p[column] = q[column] => p = q) =>
        \A answer \in [pages -> UNION {PageAnswers(n) : n \in pages}] :
            (\A n \in pages : answer[n] \in PageAnswers(n)) =>
                \A p \in rows : Cardinality({n \in pages : p \in Range(answer[n].data)}) = 1
=============================================================================
