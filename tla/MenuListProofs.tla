--------------------------- MODULE MenuListProofs ---------------------------
(***************************************************************************)
(* The properties of the list of menus, for every table of menus and every *)
(* filter: those of ListingProofs, which this list satisfies, and how far  *)
(* the calorie filter of the query and the totals of the page agree.       *)
(***************************************************************************)
EXTENDS MenuList, TLAPS

L == INSTANCE ListingProofs WITH Rows <- MenuIds

\* The list of menus is one of the lists ListingProofs is about.
LEMMA MenusListingOK == L!ListingOK
<1>1. \A col \in DbColumns : \A r \in MenuIds : Key(col, r) \in Int
  BY MenuListAssumption DEF DbColumns, Key
<1>2. FilterForms \subseteq [Criteria -> L!Values]
  BY MenuFormsAssumption DEF L!Values
<1> QED
  BY <1>1, <1>2, MenuListAssumption DEF L!ListingOK, IsFiniteSet, L!IsFiniteSet

\* MenuList and ListingProofs instantiate the same definitions of Listing.
LEMMA MenusSame ==
    ASSUME NEW q
    PROVE  /\ Keep(q.filter, PageKeeps) = L!Keep(q.filter, PageKeeps)
           /\ Decided(q) <=> L!Decided(q)
           /\ WalkComplete(q) <=> L!WalkComplete(q)
           /\ WalkSorted(q, Key) <=> L!WalkSorted(q, Key)
           /\ LinksLeadToRows(q) <=> L!LinksLeadToRows(q)
<1> USE DEF Keep, L!Keep, PageLink, L!PageLink, Matches, L!Matches, Cardinality, L!Cardinality,
            TotalPages, L!TotalPages, PageNumbers, L!PageNumbers, Walks, L!Walks,
            HasPrevious, L!HasPrevious, HasNext, L!HasNext,
            SortedBefore, L!SortedBefore, Before, L!Before, Above, L!Above,
            Rank, L!Rank, Slice, L!Slice
<1>1. Keep(q.filter, PageKeeps) = L!Keep(q.filter, PageKeeps)
  OBVIOUS
<1>2. Decided(q) <=> L!Decided(q)
  BY DEF Decided, L!Decided
<1>3. WalkComplete(q) <=> L!WalkComplete(q)
  BY DEF WalkComplete, L!WalkComplete
<1>4. WalkSorted(q, Key) <=> L!WalkSorted(q, Key)
  BY DEF WalkSorted, L!WalkSorted
<1>5. LinksLeadToRows(q) <=> L!LinksLeadToRows(q)
  BY DEF LinksLeadToRows, L!LinksLeadToRows
<1> QED
  BY <1>1, <1>2, <1>3, <1>4, <1>5

\* The query string of the page shown has the right shape.
LEMMA MenusQuery == Spec => [](query \in L!QueryRecord)
<1>1. Init => L!Init
  BY DEF Init, L!Init, FirstPage, L!FirstPage, NoFilter, L!NoFilter, NoSort, L!NoSort
<1>2. [Next]_query => [L!Next]_query
  BY DEF Next, L!Next, PageNumbers, L!PageNumbers, FollowPage, L!FollowPage,
         FollowPrevious, L!FollowPrevious, HasPrevious, L!HasPrevious, HasNext, L!HasNext,
         FollowNext, L!FollowNext, SortBy, L!SortBy, ChooseSize, L!ChooseSize,
         SubmitFilter, L!SubmitFilter, Reset, L!Reset, Return, L!Return,
         PageLink, L!PageLink, FirstPage, L!FirstPage, NoFilter, L!NoFilter, NoSort, L!NoSort,
         Keep, L!Keep, TotalPages, L!TotalPages, Matches, L!Matches, Cardinality, L!Cardinality
<1>3. Spec => L!Spec
  BY <1>1, <1>2, PTL DEF Spec, L!Spec
<1> QED
  BY <1>3, MenusListingOK, L!QueryInvariant, PTL

\* With a text search, or no filter at all, the page links of menus.html lead
\* through every matching menu exactly once if no two of them sort alike.
THEOREM SearchedMenusAllShown == Spec => []SearchWalkComplete
<1>1. query \in L!QueryRecord => SearchWalkComplete
  BY MenusListingOK, MenusSame, L!CompleteWalk DEF SearchWalkComplete, PageKeeps
<1> QED
  BY <1>1, MenusQuery, PTL

\* Sorted by name or price, the menus stay in order from one page to the next,
\* although each page is a query of its own.
THEOREM MenusSortedAcrossPages == Spec => []SortSpansPages
<1>1. query \in L!QueryRecord => SortSpansPages
  <2> SUFFICES ASSUME query \in L!QueryRecord, query.sort.col \in {"nom", "prix"},
                      query.filter = Keep(query.filter, PageKeeps)
               PROVE  WalkSorted(query, Shown)
    BY DEF SortSpansPages, PageKeeps
  <2>1. query.sort.col \in DbColumns /\ query.sort.col \notin MemColumns
    BY DEF DbColumns, MemColumns
  <2>2. WalkSorted(query, Key)
    BY <2>1, MenusListingOK, MenusSame, L!SortedWalk
  <2> QED
    BY <2>2 DEF WalkSorted, Shown, Key
<1> QED
  BY <1>1, MenusQuery, PTL

\* Whatever the filter, no link of the pagination of menus.html leads to an
\* empty page, but for the previous arrow two or more pages beyond the end.
THEOREM MenuLinksNeverEmpty == Spec => []MenuLinksLeadToRows
<1>1. query \in L!QueryRecord => MenuLinksLeadToRows
  BY MenusListingOK, MenusSame, L!NoEmptyLink DEF MenuLinksLeadToRows
<1> QED
  BY <1>1, MenusQuery, PTL

-----------------------------------------------------------------------------
\* A number kept in an int stays what it is, or becomes smaller because it was
\* too large.
LEMMA WrapOnlyLowers ==
    ASSUME NEW half \in Nat \ {0}, NEW n \in Nat
    PROVE  LET w == ((n + half) % (2 * half)) - half
           IN /\ w \in Int /\ w <= n
              /\ w # n => n >= half
<1> DEFINE d == 2 * half
           m == (n + half) % d
<1>1. d \in Nat \ {0} /\ n + half \in Nat
  OBVIOUS
<1>2. m \in Nat /\ m <= n + half
  BY <1>1
<1>3. n < half => m = n + half
  BY <1>1
<1> HIDE DEF m
<1>4. /\ m - half \in Int /\ m - half <= n
      /\ m - half # n => n >= half
  BY <1>2, <1>3
<1> QED
  BY <1>4 DEF m

\* The bounds on the calories of the page shown are those of some filter form,
\* or dropped by a link.
BoundsOK == \A c \in {"calMin", "calMax"} : query.filter[c] \in Int \cup {Null}

\* Every filter form gives numbers or nothing, and so does every page link.
LEMMA MenusBounds == Spec => []BoundsOK
<1>1. Init => BoundsOK
  BY DEF Init, FirstPage, NoFilter, Criteria, BoundsOK
<1>2. query \in L!QueryRecord /\ BoundsOK /\ [Next]_query => BoundsOK'
  <2> SUFFICES ASSUME query \in L!QueryRecord, BoundsOK, [Next]_query
               PROVE  BoundsOK'
    OBVIOUS
  <2>1. ASSUME NEW kept, query'.filter = Keep(query.filter, kept)
        PROVE  BoundsOK'
    BY <2>1 DEF Keep, Criteria, BoundsOK
  <2>2. ASSUME NEW i, query' = PageLink(query, i)
        PROVE  BoundsOK'
    BY <2>1, <2>2 DEF PageLink, L!QueryRecord
  <2>3. ASSUME NEW col, SortBy(col)
        PROVE  BoundsOK'
    BY <2>1, <2>3 DEF SortBy, L!QueryRecord
  <2>4. ASSUME NEW n, ChooseSize(n)
        PROVE  BoundsOK'
    BY <2>1, <2>4 DEF ChooseSize, L!QueryRecord
  <2>5. ASSUME NEW f \in FilterForms, SubmitFilter(f)
        PROVE  BoundsOK'
    <3>1. query'.filter = f
      BY <2>5 DEF SubmitFilter, L!QueryRecord
    <3> QED
      BY <3>1, MenuFormsAssumption DEF BoundsOK
  <2>6. CASE Reset
    BY <2>6 DEF Reset, FirstPage, NoFilter, Criteria, BoundsOK
  <2>7. CASE Return
    BY <2>1, <2>7 DEF Return, L!QueryRecord
  <2>8. CASE UNCHANGED query
    BY <2>8 DEF BoundsOK
  <2> QED
    BY <2>2, <2>3, <2>4, <2>5, <2>6, <2>7, <2>8
    DEF Next, FollowPage, FollowPrevious, FollowNext
<1> QED
  BY <1>1, <1>2, MenusQuery, PTL DEF Spec

\* The total that getTotalCalories displays for a listed menu leaves the bounds
\* that findFiltered applied in the database only downwards, and only if the
\* calories do not fit into an int.
THEOREM ListedOutsideOnlyByOverflow == Spec => []OutsideOnlyByOverflow
<1>1. ASSUME NEW m \in MenuIds
      PROVE  /\ SumCalories(m) \in Nat /\ 2 ^ (IntBits - 1) \in Nat
             /\ getTotalCalories(m) \in Int /\ getTotalCalories(m) <= SumCalories(m)
             /\ getTotalCalories(m) # SumCalories(m) => SumCalories(m) >= 2 ^ (IntBits - 1)
  <2> DEFINE half == 2 ^ (IntBits - 1)
             n == SumCalories(m)
  <2>1. half \in Nat \ {0} /\ n \in Nat
    BY MenuListAssumption, SumsAssumption
  <2>2. getTotalCalories(m) = ((n + half) % (2 * half)) - half
    BY DEF getTotalCalories, Wrap
  <2> HIDE DEF half, n
  <2>3. /\ getTotalCalories(m) \in Int /\ getTotalCalories(m) <= n
        /\ getTotalCalories(m) # n => n >= half
    BY <2>1, <2>2, WrapOnlyLowers
  <2> QED
    BY <2>1, <2>3 DEF half, n
<1>2. BoundsOK => OutsideOnlyByOverflow
  <2> HAVE BoundsOK
  <2> DEFINE min == query.filter["calMin"]
             max == query.filter["calMax"]
  <2> SUFFICES ASSUME NEW t \in TieOrders, NEW m \in Slice(query, t)
               PROVE  /\ max # Null => getTotalCalories(m) <= max
                      /\ min # Null /\ getTotalCalories(m) < min
                            => SumCalories(m) >= 2 ^ (IntBits - 1)
    BY DEF OutsideOnlyByOverflow
  <2>1. m \in MenuIds /\ \A c \in Criteria :
            query.filter[c] # Null => Retains(c, query.filter[c], m)
    BY DEF Slice, Matches
  <2>2. /\ max # Null => SumCalories(m) <= max
        /\ min # Null => SumCalories(m) >= min
    BY <2>1 DEF Criteria, Retains
  <2>3. min \in Int \cup {Null} /\ max \in Int \cup {Null}
    BY DEF BoundsOK
  <2> HIDE DEF min, max
  <2> QED
    BY <1>1, <2>1, <2>2, <2>3
<1> QED
  BY <1>2, MenusBounds, PTL
=============================================================================
