------------------------------ MODULE Listing -------------------------------
(***************************************************************************)
(* What the lists of dishes and of menus have in common: one browser walks *)
(* through a filtered, sorted and paginated list by following the links    *)
(* and submitting the forms of its pages.  The state is the query string   *)
(* of the page shown; everything else on the page follows from it and from *)
(* the rows of the table, which do not change meanwhile.                   *)
(*                                                                         *)
(* Every link rebuilds the query string from some of its parameters; the   *)
(* constants ...Keeps say which filter criteria it carries over.           *)
(***************************************************************************)
EXTENDS Integers, FiniteSets

CONSTANTS
    Rows,             \* the keys of the table
    TieOrders,        \* orders in which the database may return rows that the
                      \* ORDER BY clause leaves undecided: a rank of every row
    ScanOrder,        \* the order in which it reads the table without such a clause
    Null,             \* a criterion that is not given
    Criteria,         \* names of the filter criteria
    FilterForms,      \* what users submit in the filter form: a value or Null
                      \* for every criterion
    Retains(_, _, _), \* Retains(c, v, r): row r satisfies criterion c with value v
    DbColumns,        \* columns the query sorts by
    MemColumns,       \* columns the controller sorts the page by, in memory
    Key(_, _),        \* Key(col, r): what is compared to sort by col
    Sizes,            \* page sizes offered
    DefaultSize,
    PageKeeps,        \* criteria carried by the page links
    SortKeeps(_),     \* criteria carried by the link that sorts by a column
    SizeKeeps,        \* criteria carried by the choice of the page size
    ReturnKeeps       \* criteria carried through the pages of one row and back

VARIABLE query        \* the query string of the page shown

NoFilter == [c \in Criteria |-> Null]
NoSort == [col |-> "", desc |-> FALSE]
Sorts == {NoSort} \cup [col : DbColumns \cup MemColumns, desc : BOOLEAN]

Keep(f, kept) == [c \in Criteria |-> IF c \in kept THEN f[c] ELSE Null]

-----------------------------------------------------------------------------
\* The rows the WHERE clause retains.
Matches(q) ==
    {r \in Rows : \A c \in Criteria : q.filter[c] # Null => Retains(c, q.filter[c], r)}

\* Page.getTotalPages.
TotalPages(q) == (Cardinality(Matches(q)) + q.size - 1) \div q.size

\* Row a comes before row b in the order of the column sorted by.
SortedBefore(q, a, b) ==
    LET k(r) == Key(q.sort.col, r)
    IN IF q.sort.desc THEN k(a) > k(b) ELSE k(a) < k(b)

\* Row a comes before row b in the result of the query.  Rows that sort alike
\* come in an order t that may differ from one request to the next; without
\* an ORDER BY clause every request gets them in the same order, whichever it
\* is: the database promises no such thing, but reads the table as it lies.
Before(q, t, a, b) ==
    IF q.sort.col \in DbColumns
    THEN SortedBefore(q, a, b) \/ (~SortedBefore(q, b, a) /\ t[a] < t[b])
    ELSE ScanOrder[a] < ScanOrder[b]

\* The number of rows of the result that come before row r.
Rank(q, t, r) == Cardinality({s \in Matches(q) : Before(q, t, s, r)})

\* The rows of the page that PageRequest.of asks for.
Slice(q, t) == {r \in Matches(q) : Rank(q, t, r) \div q.size = q.page}

\* Row a is listed above row b: the controller sorts the page again, in
\* memory, if the column is one of those.
Above(q, t, a, b) ==
    IF q.sort.col \in MemColumns
    THEN SortedBefore(q, a, b) \/ (~SortedBefore(q, b, a) /\ Before(q, t, a, b))
    ELSE Before(q, t, a, b)

-----------------------------------------------------------------------------
\* A numbered page link.
PageLink(q, i) == [q EXCEPT !.page = i, !.filter = Keep(@, PageKeeps)]

MutPageNumbersOneTooMany(q) == 0 .. TotalPages(q)

\* #numbers.sequence(0, page.totalPages - 1).
PageNumbers(q) == 0 .. TotalPages(q) - 1

\* The page links are there when there is more than one page.
FollowPage(i) ==
    /\ TotalPages(query) > 1
    /\ i \in PageNumbers(query)
    /\ query' = PageLink(query, i)

\* The arrows are disabled by page.first and page.last: beyond the end, where
\* a filter may lead, only the second one is.
HasPrevious(q) == q.page > 0

MutHasNextOneTooMany(q) == q.page < TotalPages(q)

HasNext(q) == q.page + 1 < TotalPages(q)

FollowPrevious ==
    /\ TotalPages(query) > 1
    /\ HasPrevious(query)
    /\ query' = PageLink(query, query.page - 1)

FollowNext ==
    /\ TotalPages(query) > 1
    /\ HasNext(query)
    /\ query' = PageLink(query, query.page + 1)

\* The header of a column: ascending first, descending when it already is.
SortBy(col) ==
    query' = [query EXCEPT
        !.sort = [col |-> col, desc |-> query.sort = [col |-> col, desc |-> FALSE]],
        !.filter = Keep(@, SortKeeps(col))]

ChooseSize(n) == query' = [query EXCEPT !.size = n, !.filter = Keep(@, SizeKeeps)]

\* "Filtrer": the criteria are those of the form; the page and its size stay.
SubmitFilter(f) == query' = [query EXCEPT !.filter = f, !.sort = NoSort]

\* The list as the navigation bar, the home page and "Reinitialiser" link to it.
FirstPage == [page |-> 0, size |-> DefaultSize, filter |-> NoFilter, sort |-> NoSort]

Reset == query' = FirstPage

\* Through the details or the form of a row and back to the list.
Return == query' = [query EXCEPT !.filter = Keep(@, ReturnKeeps), !.sort = NoSort]

Init == query = FirstPage

Next ==
    \/ \E i \in 0 .. Cardinality(Rows) : FollowPage(i)
    \/ FollowPrevious
    \/ FollowNext
    \/ \E col \in DbColumns \cup MemColumns : SortBy(col)
    \/ \E n \in Sizes : ChooseSize(n)
    \/ \E f \in FilterForms : SubmitFilter(f)
    \/ Reset
    \/ Return

Spec == Init /\ [][Next]_query

-----------------------------------------------------------------------------
\* How the database may order the undecided rows of each page when a user
\* follows all numbered page links of a page.
Walks(q) == [PageNumbers(q) -> TieOrders]

\* The walk shows every row that matches the page it started from, once.
WalkComplete(q) ==
    \A walk \in Walks(q) :
        LET shown(i) == Slice(PageLink(q, i), walk[i])
        IN /\ UNION {shown(i) : i \in PageNumbers(q)} = Matches(q)
           /\ \A i, j \in PageNumbers(q) : i # j => shown(i) \cap shown(j) = {}

\* The walk shows the rows in the order of what the column sorted by displays.
WalkSorted(q, Shown(_, _)) ==
    \A walk \in Walks(q) : \A i, j \in PageNumbers(q) :
        \A a \in Slice(PageLink(q, i), walk[i]), b \in Slice(PageLink(q, j), walk[j]) :
            i < j \/ (i = j /\ Above(q, walk[i], a, b))
                => IF q.sort.desc THEN Shown(q.sort.col, a) >= Shown(q.sort.col, b)
                                  ELSE Shown(q.sort.col, a) <= Shown(q.sort.col, b)

\* The column sorted by decides the order of the matching rows, or there is
\* none and the database reads them in its own order.
Decided(q) ==
    q.sort.col \in DbColumns =>
        \A a, b \in Matches(q) : a # b => Key(q.sort.col, a) # Key(q.sort.col, b)

\* The links that lead to an empty page: never a numbered one, never the next
\* arrow, even where they drop criteria; the previous arrow only from a page
\* that is two or more beyond the end of the filtered list.
LinksLeadToRows(q) ==
    TotalPages(q) > 1 =>
        \A t \in TieOrders :
            LET leads(i) == Slice(PageLink(q, i), t) # {}
            IN /\ \A i \in PageNumbers(q) : leads(i)
               /\ HasNext(q) => leads(q.page + 1)
               /\ HasPrevious(q) => leads(q.page - 1) \/ q.page > TotalPages(q)
=============================================================================
