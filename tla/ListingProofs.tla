---------------------------- MODULE ListingProofs ----------------------------
(***************************************************************************)
(* What the page links of a list show, for every table, every filter,      *)
(* every page size and every order the database may give to rows that sort *)
(* alike.                                                                  *)
(*                                                                         *)
(* The argument is about Rank.  For one order it is a bijection from the   *)
(* matching rows to 0 .. n - 1 (RankRange, RankStrict, RankOnto), which    *)
(* \div q.size cuts into TotalPages(q) pages none of which is empty        *)
(* (RankOnPage, PageHasRank).  Two pages are two queries and may be two    *)
(* orders: a row that sorts strictly before another one has the smaller    *)
(* rank even across orders (RankAcrossOrders).                             *)
(***************************************************************************)
EXTENDS Listing, FiniteSetTheorems, TLAPS

Values == {f[c] : f \in FilterForms, c \in Criteria} \cup {Null}

QueryRecord ==
    [page : Nat, size : Nat \ {0}, filter : [Criteria -> Values], sort : Sorts]

\* What a list gives to this module is what the module expects.
ListingOK ==
    /\ Rows \subseteq Int
    /\ IsFiniteSet(Rows)
    /\ \A t \in TieOrders : \A a, b \in Rows : t[a] \in Int /\ (a # b => t[a] # t[b])
    /\ \A a, b \in Rows : ScanOrder[a] \in Int /\ (a # b => ScanOrder[a] # ScanOrder[b])
    /\ \A col \in DbColumns : \A r \in Rows : Key(col, r) \in Int
    /\ FilterForms \subseteq [Criteria -> Values]
    /\ DefaultSize \in Nat \ {0}
    /\ Sizes \subseteq Nat \ {0}

-----------------------------------------------------------------------------
\* The rows a query retains are finitely many.
LEMMA MatchesFinite ==
    ASSUME ListingOK, NEW q
    PROVE  /\ Matches(q) \subseteq Rows
           /\ IsFiniteSet(Matches(q))
           /\ Cardinality(Matches(q)) \in Nat
<1>1. Matches(q) \subseteq Rows
  BY DEF Matches
<1>2. IsFiniteSet(Matches(q))
  BY <1>1, FS_Subset DEF ListingOK
<1> QED
  BY <1>1, <1>2, FS_CardinalityType

\* The database returns the rows in some strict total order.
LEMMA BeforeIsOrder ==
    ASSUME ListingOK, NEW q, NEW t \in TieOrders,
           NEW a \in Rows, NEW b \in Rows, NEW c \in Rows
    PROVE  /\ ~Before(q, t, a, a)
           /\ Before(q, t, a, b) /\ Before(q, t, b, c) => Before(q, t, a, c)
           /\ a # b => Before(q, t, a, b) \/ Before(q, t, b, a)
<1>1. CASE q.sort.col \in DbColumns
  <2> DEFINE k(r) == Key(q.sort.col, r)
  <2>1. /\ k(a) \in Int /\ k(b) \in Int /\ k(c) \in Int
        /\ t[a] \in Int /\ t[b] \in Int /\ t[c] \in Int
        /\ a # b => t[a] # t[b]
    BY <1>1 DEF ListingOK
  <2> QED
    BY <1>1, <2>1 DEF Before, SortedBefore
<1>2. CASE q.sort.col \notin DbColumns
  BY <1>2 DEF Before, ListingOK
<1> QED
  BY <1>1, <1>2

\* Ranks count from 0 to the number of matching rows less one.
LEMMA RankRange ==
    ASSUME ListingOK, NEW q, NEW t \in TieOrders, NEW r \in Matches(q)
    PROVE  /\ Rank(q, t, r) \in Nat
           /\ Rank(q, t, r) < Cardinality(Matches(q))
<1> DEFINE S == Matches(q)
           B == {s \in S : Before(q, t, s, r)}
<1>1. IsFiniteSet(S) /\ S \subseteq Rows /\ Cardinality(S) \in Nat
  BY MatchesFinite
<1>2. B \in SUBSET S /\ r \notin B
  BY <1>1, BeforeIsOrder
<1>3. B # S
  BY <1>2
<1> HIDE DEF S, B
<1>4. IsFiniteSet(B) /\ Cardinality(B) <= Cardinality(S) /\ Cardinality(B) # Cardinality(S)
  BY <1>1, <1>2, <1>3, FS_Subset
<1>5. Cardinality(B) \in Nat
  BY <1>4, FS_CardinalityType
<1>6. Cardinality(B) < Cardinality(S)
  BY <1>1, <1>4, <1>5
<1> QED
  BY <1>5, <1>6 DEF Rank, S, B

\* A row that comes before another one has the smaller rank.
LEMMA RankStrict ==
    ASSUME ListingOK, NEW q, NEW t \in TieOrders,
           NEW a \in Matches(q), NEW b \in Matches(q), Before(q, t, a, b)
    PROVE  Rank(q, t, a) < Rank(q, t, b)
<1> DEFINE A == {s \in Matches(q) : Before(q, t, s, a)}
           B == {s \in Matches(q) : Before(q, t, s, b)}
<1>1. IsFiniteSet(Matches(q)) /\ Matches(q) \subseteq Rows
  BY MatchesFinite
<1>2. A \in SUBSET B
  BY <1>1, BeforeIsOrder
<1>3. a \in B /\ a \notin A
  BY <1>1, BeforeIsOrder
<1>4. IsFiniteSet(B)
  BY <1>1, FS_Subset
<1>5. A # B
  BY <1>3
<1>6. Cardinality(A) = Rank(q, t, a) /\ Cardinality(B) = Rank(q, t, b)
  BY DEF Rank
<1> HIDE DEF A, B
<1>7. Cardinality(A) <= Cardinality(B) /\ Cardinality(A) # Cardinality(B)
  BY <1>2, <1>4, <1>5, FS_Subset
<1> QED
  BY <1>6, <1>7, RankRange

\* There are m numbers below m.
LEMMA IntervalSize ==
    ASSUME NEW m \in Nat
    PROVE  IsFiniteSet(0 .. (m - 1)) /\ Cardinality(0 .. (m - 1)) = m
<1>1. 0 \in Int /\ m - 1 \in Int
  OBVIOUS
<1>2. /\ IsFiniteSet(0 .. (m - 1))
      /\ Cardinality(0 .. (m - 1)) = IF 0 > m - 1 THEN 0 ELSE (m - 1) - 0 + 1
  BY <1>1, FS_Interval
<1> QED
  BY <1>2

\* Every number in between is the rank of some row.
LEMMA RankOnto ==
    ASSUME ListingOK, NEW q, NEW t \in TieOrders,
           NEW n \in Nat, n < Cardinality(Matches(q))
    PROVE  \E r \in Matches(q) : Rank(q, t, r) = n
<1> DEFINE S == Matches(q)
           N == 0 .. (Cardinality(S) - 1)
           f == [r \in S |-> Rank(q, t, r)]
<1>1. IsFiniteSet(S) /\ S \subseteq Rows /\ Cardinality(S) \in Nat
  BY MatchesFinite
<1>2. f \in [S -> N]
  BY <1>1, RankRange
<1>3. \A a, b \in S : f[a] = f[b] => a = b
  <2> SUFFICES ASSUME NEW a \in S, NEW b \in S, a # b PROVE f[a] # f[b]
    OBVIOUS
  <2>1. Before(q, t, a, b) \/ Before(q, t, b, a)
    BY <1>1, BeforeIsOrder
  <2>2. Rank(q, t, a) < Rank(q, t, b) \/ Rank(q, t, b) < Rank(q, t, a)
    BY <2>1, RankStrict
  <2> QED
    BY <2>2, RankRange
<1>4. IsFiniteSet(N) /\ Cardinality(N) = Cardinality(S)
  BY <1>1, IntervalSize
<1>5. n \in N
  BY <1>1
<1> HIDE DEF S, N, f
<1>6. f \in Injection(S, N)
  BY <1>2, <1>3 DEF Injection, IsInjective
<1>7. f \in Surjection(S, N)
  BY <1>4, <1>6, FS_Injection
<1>8. \E r \in S : f[r] = n
  BY <1>5, <1>7 DEF Surjection
<1> QED
  BY <1>8 DEF S, f

\* If the column says that row b comes strictly before row a, then b has the
\* smaller rank, even if two queries order the undecided rows differently.
LEMMA RankAcrossOrders ==
    ASSUME ListingOK, NEW q, q.sort.col \in DbColumns,
           NEW t \in TieOrders, NEW u \in TieOrders,
           NEW a \in Matches(q), NEW b \in Matches(q), SortedBefore(q, b, a)
    PROVE  Rank(q, u, b) < Rank(q, t, a)
<1> DEFINE A == {s \in Matches(q) : Before(q, t, s, a)}
           B == {s \in Matches(q) : Before(q, u, s, b)}
<1>1. IsFiniteSet(Matches(q)) /\ Matches(q) \subseteq Rows
  BY MatchesFinite
<1>2. \A s \in Matches(q) : Key(q.sort.col, s) \in Int
  BY <1>1 DEF ListingOK
<1>3. B \in SUBSET A
  BY <1>2 DEF Before, SortedBefore
<1>4. b \in A
  BY DEF Before
<1>5. b \notin B
  BY <1>1, BeforeIsOrder
<1>6. IsFiniteSet(A) /\ A # B
  BY <1>1, <1>4, <1>5, FS_Subset
<1>7. Cardinality(A) = Rank(q, t, a) /\ Cardinality(B) = Rank(q, u, b)
  BY DEF Rank
<1> HIDE DEF A, B
<1>8. Cardinality(B) <= Cardinality(A) /\ Cardinality(A) # Cardinality(B)
  BY <1>3, <1>6, FS_Subset
<1> QED
  BY <1>7, <1>8, RankRange

\* Where the column decides, there is only one order.
LEMMA RankDecided ==
    ASSUME ListingOK, NEW q, Decided(q),
           NEW t \in TieOrders, NEW u \in TieOrders, NEW r \in Matches(q)
    PROVE  Rank(q, t, r) = Rank(q, u, r)
<1>1. Matches(q) \subseteq Rows
  BY MatchesFinite
<1>2. \A s \in Matches(q) : Before(q, t, s, r) <=> Before(q, u, s, r)
  <2> SUFFICES ASSUME NEW s \in Matches(q)
               PROVE  Before(q, t, s, r) <=> Before(q, u, s, r)
    OBVIOUS
  <2>1. CASE q.sort.col \notin DbColumns
    BY <2>1 DEF Before
  <2>2. CASE s = r
    BY <1>1, <2>2, BeforeIsOrder
  <2>3. CASE q.sort.col \in DbColumns /\ s # r
    <3>1. /\ Key(q.sort.col, s) \in Int /\ Key(q.sort.col, r) \in Int
          /\ Key(q.sort.col, s) # Key(q.sort.col, r)
      BY <1>1, <2>3 DEF Decided, ListingOK
    <3>2. SortedBefore(q, s, r) \/ SortedBefore(q, r, s)
      BY <3>1 DEF SortedBefore
    <3> QED
      BY <2>3, <3>2 DEF Before
  <2> QED
    BY <2>1, <2>2, <2>3
<1> QED
  BY <1>2 DEF Rank

-----------------------------------------------------------------------------
(***************************************************************************)
(* From ranks to pages.                                                    *)
(***************************************************************************)
\* The rank m of one of n rows is on one of the pages of size k.
LEMMA RankOnPage ==
    ASSUME NEW n \in Nat, NEW k \in Nat \ {0}, NEW m \in Nat, m < n
    PROVE  m \div k \in 0 .. ((n + k - 1) \div k) - 1
OBVIOUS

\* Page i of size k of n rows begins with one of them.
LEMMA PageHasRank ==
    ASSUME NEW n \in Nat, NEW k \in Nat \ {0}, NEW i \in 0 .. ((n + k - 1) \div k) - 1
    PROVE  i * k \in Nat /\ i * k < n /\ (i * k) \div k = i
OBVIOUS

\* A page before another one has the smaller ranks.
LEMMA PagesInOrder ==
    ASSUME NEW k \in Nat \ {0}, NEW m \in Nat, NEW l \in Nat, m \div k < l \div k
    PROVE  m < l
OBVIOUS

-----------------------------------------------------------------------------
\* Following links and submitting forms leads from query string to query
\* string of the right shape.
LEMMA QueryInvariant == ListingOK /\ Spec => [](query \in QueryRecord)
<1> SUFFICES ASSUME ListingOK PROVE Spec => [](query \in QueryRecord)
  OBVIOUS
<1>1. ASSUME NEW f \in [Criteria -> Values], NEW kept
      PROVE  Keep(f, kept) \in [Criteria -> Values]
  BY DEF Keep, Values
<1>2. FirstPage \in QueryRecord
  BY DEF FirstPage, QueryRecord, NoFilter, NoSort, Sorts, Values, ListingOK
<1>3. query \in QueryRecord /\ [Next]_query => (query \in QueryRecord)'
  <2> SUFFICES ASSUME query \in QueryRecord, [Next]_query
               PROVE  query' \in QueryRecord
    OBVIOUS
  <2>0. /\ query.page \in Nat /\ query.size \in Nat \ {0}
        /\ query.filter \in [Criteria -> Values] /\ query.sort \in Sorts
    BY DEF QueryRecord
  <2>a. NoSort \in Sorts
    BY DEF Sorts
  <2>1. ASSUME NEW i \in Nat, query' = PageLink(query, i)
        PROVE  query' \in QueryRecord
    BY <1>1, <2>0, <2>1 DEF PageLink, QueryRecord
  <2>2. ASSUME NEW i \in 0 .. Cardinality(Rows), FollowPage(i)
        PROVE  query' \in QueryRecord
    <3>1. i \in Nat
      BY <2>2, FS_CardinalityType DEF ListingOK
    <3> QED
      BY <2>1, <2>2, <3>1 DEF FollowPage
  <2>3. CASE FollowPrevious
    BY <2>0, <2>1, <2>3 DEF FollowPrevious, HasPrevious
  <2>4. CASE FollowNext
    BY <2>0, <2>1, <2>4 DEF FollowNext
  <2>5. ASSUME NEW col \in DbColumns \cup MemColumns, SortBy(col)
        PROVE  query' \in QueryRecord
    <3>1. [col |-> col, desc |-> query.sort = [col |-> col, desc |-> FALSE]] \in Sorts
      BY DEF Sorts
    <3> QED
      BY <1>1, <2>0, <2>5, <3>1 DEF SortBy, QueryRecord
  <2>6. ASSUME NEW n \in Sizes, ChooseSize(n)
        PROVE  query' \in QueryRecord
    BY <1>1, <2>0, <2>6 DEF ChooseSize, QueryRecord, ListingOK
  <2>7. ASSUME NEW f \in FilterForms, SubmitFilter(f)
        PROVE  query' \in QueryRecord
    BY <2>0, <2>a, <2>7 DEF SubmitFilter, QueryRecord, ListingOK
  <2>8. CASE Reset
    BY <1>2, <2>8 DEF Reset
  <2>9. CASE Return
    BY <1>1, <2>0, <2>a, <2>9 DEF Return, QueryRecord
  <2> QED
    BY <2>2, <2>3, <2>4, <2>5, <2>6, <2>7, <2>8, <2>9 DEF Next
<1>4. Init => query \in QueryRecord
  BY <1>2 DEF Init
<1> QED
  BY <1>3, <1>4, PTL DEF Spec

\* A page link that drops no criterion finds the same rows, in the same order.
LEMMA SameQuery ==
    ASSUME NEW q \in QueryRecord, q.filter = Keep(q.filter, PageKeeps), NEW i \in Nat
    PROVE  LET p == PageLink(q, i)
           IN /\ p.page = i /\ p.size = q.size /\ p.sort = q.sort
              /\ Matches(p) = Matches(q)
              /\ \A t, r : Rank(p, t, r) = Rank(q, t, r)
<1> DEFINE p == PageLink(q, i)
<1>1. p.page = i /\ p.size = q.size /\ p.sort = q.sort /\ p.filter = q.filter
  BY DEF PageLink, QueryRecord
<1> HIDE DEF p
<1>2. Matches(p) = Matches(q)
  BY <1>1 DEF Matches
<1>3. \A t, a, b : Before(p, t, a, b) <=> Before(q, t, a, b)
  BY <1>1 DEF Before, SortedBefore
<1>4. \A t, r : Rank(p, t, r) = Rank(q, t, r)
  BY <1>2, <1>3 DEF Rank
<1> QED
  BY <1>1, <1>2, <1>4 DEF p

\* A row that has rank m in the order of page i is on page i iff m is.
LEMMA SliceByRank ==
    ASSUME NEW q \in QueryRecord, q.filter = Keep(q.filter, PageKeeps),
           NEW i \in Nat, NEW t \in TieOrders
    PROVE  Slice(PageLink(q, i), t) = {r \in Matches(q) : Rank(q, t, r) \div q.size = i}
<1> DEFINE p == PageLink(q, i)
<1>1. /\ p.page = i /\ p.size = q.size /\ Matches(p) = Matches(q)
      /\ \A u, r : Rank(p, u, r) = Rank(q, u, r)
  BY SameQuery
<1> HIDE DEF p
<1>2. Slice(p, t) = {r \in Matches(q) : Rank(q, t, r) \div q.size = i}
  BY <1>1 DEF Slice
<1> QED
  BY <1>2 DEF p

\* The page links lead through every matching row exactly once if they carry
\* the filter and the column sorted by decides the order of the rows.
THEOREM CompleteWalk ==
    ASSUME ListingOK, NEW q \in QueryRecord, q.filter = Keep(q.filter, PageKeeps), Decided(q)
    PROVE  WalkComplete(q)
<1> SUFFICES ASSUME NEW walk \in Walks(q)
             PROVE  LET shown(i) == Slice(PageLink(q, i), walk[i])
                    IN /\ UNION {shown(i) : i \in PageNumbers(q)} = Matches(q)
                       /\ \A i, j \in PageNumbers(q) : i # j => shown(i) \cap shown(j) = {}
  BY DEF WalkComplete
<1> DEFINE shown(i) == Slice(PageLink(q, i), walk[i])
<1>0. q.size \in Nat \ {0} /\ Cardinality(Matches(q)) \in Nat
  BY MatchesFinite DEF QueryRecord
<1>1. ASSUME NEW i \in PageNumbers(q)
      PROVE  /\ i \in Nat /\ walk[i] \in TieOrders
             /\ shown(i) = {r \in Matches(q) : Rank(q, walk[i], r) \div q.size = i}
  <2>1. i \in Nat /\ walk[i] \in TieOrders
    BY <1>0 DEF PageNumbers, TotalPages, Walks
  <2> QED
    BY <2>1, SliceByRank
<1>2. ASSUME NEW r \in Matches(q) PROVE \E i \in PageNumbers(q) : r \in shown(i)
  <2>1. CASE PageNumbers(q) = {}
    <3>1. Cardinality(Matches(q)) # 0
      BY MatchesFinite, FS_EmptySet
    <3>2. 0 \in PageNumbers(q)
      BY <1>0, <3>1, RankOnPage DEF PageNumbers, TotalPages
    <3> QED
      BY <2>1, <3>2
  <2>2. CASE PageNumbers(q) # {}
    <3>1. PICK j \in PageNumbers(q) : TRUE
      BY <2>2
    <3> DEFINE i == Rank(q, walk[j], r) \div q.size
    <3>2. walk[j] \in TieOrders
      BY <1>1
    <3>3. /\ Rank(q, walk[j], r) \in Nat
          /\ Rank(q, walk[j], r) < Cardinality(Matches(q))
      BY <3>2, RankRange
    <3>4. i \in PageNumbers(q)
      BY <1>0, <3>3, RankOnPage DEF PageNumbers, TotalPages
    <3>5. walk[i] \in TieOrders
      BY <1>1, <3>4
    <3>6. Rank(q, walk[i], r) = Rank(q, walk[j], r)
      BY <3>2, <3>5, RankDecided
    <3>7. r \in shown(i)
      BY <1>1, <3>4, <3>6
    <3> QED
      BY <3>4, <3>7
  <2> QED
    BY <2>1, <2>2
<1>3. ASSUME NEW i \in PageNumbers(q), NEW j \in PageNumbers(q), NEW r \in shown(i), r \in shown(j)
      PROVE  i = j
  <2>1. r \in Matches(q) /\ Rank(q, walk[i], r) \div q.size = i
    BY <1>1
  <2>2. Rank(q, walk[j], r) \div q.size = j
    BY <1>1, <1>3
  <2>3. Rank(q, walk[i], r) = Rank(q, walk[j], r)
    BY <1>1, <2>1, RankDecided
  <2> QED
    BY <2>1, <2>2, <2>3
<1>4. \A i \in PageNumbers(q) : shown(i) \subseteq Matches(q)
  BY <1>1
<1> HIDE DEF shown
<1>5. UNION {shown(i) : i \in PageNumbers(q)} = Matches(q)
  BY <1>2, <1>4
<1>6. \A i, j \in PageNumbers(q) : i # j => shown(i) \cap shown(j) = {}
  BY <1>3
<1> QED
  BY <1>5, <1>6 DEF shown

\* Sorted by a column of the table, the rows stay in order from page to page,
\* however each page orders the rows that are alike in that column.
THEOREM SortedWalk ==
    ASSUME ListingOK, NEW q \in QueryRecord, q.filter = Keep(q.filter, PageKeeps),
           q.sort.col \in DbColumns, q.sort.col \notin MemColumns
    PROVE  WalkSorted(q, Key)
<1> SUFFICES ASSUME NEW walk \in Walks(q), NEW i \in PageNumbers(q), NEW j \in PageNumbers(q),
                    NEW a \in Slice(PageLink(q, i), walk[i]),
                    NEW b \in Slice(PageLink(q, j), walk[j]),
                    i < j \/ (i = j /\ Above(q, walk[i], a, b))
             PROVE  IF q.sort.desc THEN Key(q.sort.col, a) >= Key(q.sort.col, b)
                                   ELSE Key(q.sort.col, a) <= Key(q.sort.col, b)
  BY DEF WalkSorted
<1>0. q.size \in Nat \ {0} /\ Cardinality(Matches(q)) \in Nat /\ Matches(q) \subseteq Rows
  BY MatchesFinite DEF QueryRecord
<1>1. /\ i \in Nat /\ j \in Nat /\ walk[i] \in TieOrders /\ walk[j] \in TieOrders
  BY <1>0 DEF PageNumbers, TotalPages, Walks
<1>2. /\ a \in Matches(q) /\ Rank(q, walk[i], a) \div q.size = i
      /\ b \in Matches(q) /\ Rank(q, walk[j], b) \div q.size = j
  BY <1>1, SliceByRank
<1>3. Key(q.sort.col, a) \in Int /\ Key(q.sort.col, b) \in Int
  BY <1>0, <1>2 DEF ListingOK
<1>4. ~SortedBefore(q, b, a)
  <2>1. CASE i < j
    <3>1. Rank(q, walk[i], a) \in Nat /\ Rank(q, walk[j], b) \in Nat
      BY <1>1, <1>2, RankRange
    <3>2. Rank(q, walk[i], a) < Rank(q, walk[j], b)
      BY <1>0, <1>2, <2>1, <3>1, PagesInOrder
    <3>3. SortedBefore(q, b, a) => Rank(q, walk[j], b) < Rank(q, walk[i], a)
      BY <1>1, <1>2, RankAcrossOrders
    <3> QED
      BY <3>1, <3>2, <3>3
  <2>2. CASE i = j /\ Above(q, walk[i], a, b)
    BY <1>3, <2>2 DEF Above, Before, SortedBefore
  <2> QED
    BY <2>1, <2>2
<1> QED
  BY <1>3, <1>4 DEF SortedBefore

\* A numbered link leads to rows: it may drop criteria, which adds rows.
LEMMA NumberedLink ==
    ASSUME ListingOK, NEW q \in QueryRecord, NEW i \in PageNumbers(q), NEW t \in TieOrders
    PROVE  Slice(PageLink(q, i), t) # {}
<1> DEFINE p == PageLink(q, i)
           n == Cardinality(Matches(q))
<1>1. n \in Nat /\ q.size \in Nat \ {0}
  BY MatchesFinite DEF QueryRecord
<1>2. p.page = i /\ p.size = q.size /\ p.filter = Keep(q.filter, PageKeeps)
  BY DEF PageLink, QueryRecord
<1> HIDE DEF p
<1>3. Matches(q) \in SUBSET Matches(p)
  BY <1>2 DEF Matches, Keep
<1>4. n <= Cardinality(Matches(p)) /\ Cardinality(Matches(p)) \in Nat
  BY <1>3, MatchesFinite, FS_Subset
<1>5. i * q.size \in Nat /\ i * q.size < n /\ (i * q.size) \div q.size = i
  BY <1>1, PageHasRank DEF PageNumbers, TotalPages
<1>6. i * q.size < Cardinality(Matches(p))
  BY <1>1, <1>4, <1>5
<1>7. PICK r \in Matches(p) : Rank(p, t, r) = i * q.size
  BY <1>5, <1>6, RankOnto
<1>8. r \in Slice(p, t)
  BY <1>2, <1>5, <1>7 DEF Slice
<1> QED
  BY <1>8 DEF p

\* The arrows lead where a numbered link does, unless the page shown is beyond
\* the end by two or more.
THEOREM NoEmptyLink ==
    ASSUME ListingOK, NEW q \in QueryRecord
    PROVE  LinksLeadToRows(q)
<1>1. /\ q.page \in Nat /\ q.size \in Nat \ {0} /\ Cardinality(Matches(q)) \in Nat
  BY MatchesFinite DEF QueryRecord
<1>2. TotalPages(q) \in Int
  BY <1>1 DEF TotalPages
<1>3. HasNext(q) => q.page + 1 \in PageNumbers(q)
  BY <1>1, <1>2 DEF HasNext, PageNumbers
<1>4. HasPrevious(q) => q.page - 1 \in PageNumbers(q) \/ q.page > TotalPages(q)
  BY <1>1, <1>2 DEF HasPrevious, PageNumbers
<1> QED
  BY <1>3, <1>4, NumberedLink DEF LinksLeadToRows
=============================================================================
