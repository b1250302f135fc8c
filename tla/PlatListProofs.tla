--------------------------- MODULE PlatListProofs ---------------------------
(***************************************************************************)
(* The properties of the list of dishes, for every table of dishes and     *)
(* every filter: those of ListingProofs, which this list satisfies.        *)
(***************************************************************************)
EXTENDS PlatList, TLAPS

L == INSTANCE ListingProofs WITH Rows <- PlatIds

\* The list of dishes is one of the lists ListingProofs is about.
LEMMA DishesListingOK == L!ListingOK
<1>1. \A col \in DbColumns : \A r \in PlatIds : Key(col, r) \in Int
  BY PlatListAssumption DEF DbColumns, Key, Nutriments
<1>2. FilterForms \subseteq [Criteria -> L!Values]
  BY DishFormsAssumption DEF L!Values
<1> QED
  BY <1>1, <1>2, PlatListAssumption DEF L!ListingOK, IsFiniteSet, L!IsFiniteSet

\* PlatList and ListingProofs instantiate the same definitions of Listing.
LEMMA DishesSame ==
    ASSUME NEW q
    PROVE  /\ Keep(q.filter, PageKeeps) = L!Keep(q.filter, PageKeeps)
           /\ Decided(q) <=> L!Decided(q)
           /\ WalkComplete(q) <=> L!WalkComplete(q)
           /\ WalkSorted(q, Key) <=> L!WalkSorted(q, Key)
           /\ LinksLeadToRows(q) <=> L!LinksLeadToRows(q)
<1> USE DEF Keep, L!Keep, PageLink, L!PageLink, Matches, L!Matches, Cardinality, L!Cardinality,
            TotalPages, L!TotalPages, PageNumbers, L!PageNumbers, Walks, L!Walks,
            HasPrevious, L!HasPrevious, HasNext, L!HasNext,
            SortedBefore, L!SortedBefore, Before, L!Before, Above, L!Above,
            Rank, L!Rank, Slice, L!Slice
<1>1. Keep(q.filter, PageKeeps) = L!Keep(q.filter, PageKeeps)
  OBVIOUS
<1>2. Decided(q) <=> L!Decided(q)
  BY DEF Decided, L!Decided
<1>3. WalkComplete(q) <=> L!WalkComplete(q)
  BY DEF WalkComplete, L!WalkComplete
<1>4. WalkSorted(q, Key) <=> L!WalkSorted(q, Key)
  BY DEF WalkSorted, L!WalkSorted
<1>5. LinksLeadToRows(q) <=> L!LinksLeadToRows(q)
  BY DEF LinksLeadToRows, L!LinksLeadToRows
<1> QED
  BY <1>1, <1>2, <1>3, <1>4, <1>5

\* The query string of the page shown has the right shape.
LEMMA DishesQuery == Spec => [](query \in L!QueryRecord)
<1>1. Init => L!Init
  BY DEF Init, L!Init, FirstPage, L!FirstPage, NoFilter, L!NoFilter, NoSort, L!NoSort
<1>2. [Next]_query => [L!Next]_query
  BY DEF Next, L!Next, PageNumbers, L!PageNumbers, FollowPage, L!FollowPage,
         FollowPrevious, L!FollowPrevious, HasPrevious, L!HasPrevious, HasNext, L!HasNext,
         FollowNext, L!FollowNext, SortBy, L!SortBy, ChooseSize, L!ChooseSize,
         SubmitFilter, L!SubmitFilter, Reset, L!Reset, Return, L!Return,
         PageLink, L!PageLink, FirstPage, L!FirstPage, NoFilter, L!NoFilter, NoSort, L!NoSort,
         Keep, L!Keep, TotalPages, L!TotalPages, Matches, L!Matches, Cardinality, L!Cardinality
<1>3. Spec => L!Spec
  BY <1>1, <1>2, PTL DEF Spec, L!Spec
<1> QED
  BY <1>3, DishesListingOK, L!QueryInvariant, PTL

\* Filtered by text, category and calories, the page links of plats.html lead
\* through every matching dish exactly once if no two of them sort alike.
THEOREM FilteredDishesAllShown == Spec => []CalorieWalkComplete
<1>1. query \in L!QueryRecord => CalorieWalkComplete
  BY DishesListingOK, DishesSame, L!CompleteWalk DEF CalorieWalkComplete, Carried, PageKeeps
<1> QED
  BY <1>1, DishesQuery, PTL

\* Sorted by any column, the dishes stay in order from one page to the next,
\* although each page is a query of its own.
THEOREM DishesSortedAcrossPages == Spec => []DishSortSpansPages
<1>1. query \in L!QueryRecord => DishSortSpansPages
  <2> SUFFICES ASSUME query \in L!QueryRecord, query.sort.col # "",
                      query.filter = Keep(query.filter, PageKeeps)
               PROVE  WalkSorted(query, Shown)
    BY DEF DishSortSpansPages, Carried, PageKeeps
  <2>0. query.sort \in L!Sorts
    BY DEF L!QueryRecord
  <2>1. query.sort.col \in DbColumns /\ query.sort.col \notin MemColumns
    <3>1. CASE query.sort = L!NoSort
      <4>1. L!NoSort.col = ""
        BY DEF L!NoSort
      <4> QED
        BY <3>1, <4>1
    <3>2. CASE query.sort \in [col : DbColumns \cup MemColumns, desc : BOOLEAN]
      BY <3>2 DEF MemColumns
    <3> QED
      BY <2>0, <3>1, <3>2 DEF L!Sorts
  <2>2. WalkSorted(query, Key)
    BY <2>1, DishesListingOK, DishesSame, L!SortedWalk
  <2> QED
    BY <2>2 DEF WalkSorted, Shown, Key
<1> QED
  BY <1>1, DishesQuery, PTL

\* Whatever the filter, no link of the pagination of plats.html leads to an
\* empty page, but for the previous arrow two or more pages beyond the end.
THEOREM DishLinksNeverEmpty == Spec => []DishLinksLeadToRows
<1>1. query \in L!QueryRecord => DishLinksLeadToRows
  BY DishesListingOK, DishesSame, L!NoEmptyLink DEF DishLinksLeadToRows
<1> QED
  BY <1>1, DishesQuery, PTL
=============================================================================
