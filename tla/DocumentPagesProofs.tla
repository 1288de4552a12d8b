-------------------------- MODULE DocumentPagesProofs --------------------------
(***************************************************************************)
(* Theorems about the parts of the client that stand between a user and    *)
(* the documents: SearchPage, Documents and Uploads.                       *)
(***************************************************************************)
EXTENDS SearchPage, Documents, Uploads, ListLemmas

(***************************************************************************)
(* The search page: the address, the query that is current and the results *)
(* agree, for any texts, filters and number of searches in flight.  The    *)
(* invariant adds what makes it inductive: the queries that are kept       *)
(* elsewhere, in the history and by an update that is still to come, are   *)
(* queries too, and say each filter once.                                  *)
(***************************************************************************)

\* A query that says each filter once.
Once(query) == Main \in query.filters \/ Subs \subseteq query.filters => query.filters = {Main}
Proper(query) == query \in SearchQueries /\ Once(query)

\* The history: each of its addresses says each filter once.
TrailProper ==
  /\ trail \in Seq(SearchEntries) /\ here \in DOMAIN trail
  /\ \A n \in DOMAIN trail : Proper(trail[n].query)

SearchTypes ==
  /\ Proper(params) /\ TrailProper
  /\ searched \in SearchQueries \cup {NoSearch} /\ results \in SearchQueries \cup {NoSearch}
  /\ searches \in Seq(SearchQueries)
  /\ at \in {"search", "document"}
  /\ visible \in BoxTexts \cup {Empty} /\ typed.text \in BoxTexts \cup {Empty}
  /\ stray.text \in BoxTexts \cup {Empty} /\ stray.params \in SearchQueries \cup {NoSearch}
  /\ stray # NothingStray => stray.params \in SearchQueries

SearchInv == SearchTypes /\ AddressIsSearched /\ ResultsGiveWay

-----------------------------------------------------------------------------
(* Filters *)

LEMMA MainFilterOnce ==
  ASSUME NEW f \in SUBSET (Subs \cup {Main}), Main \in f \/ Subs \subseteq f => f = {Main}
  PROVE  LET g == ToggleMainSearchFilter(f) IN
         /\ g \in SUBSET (Subs \cup {Main})
         /\ Main \in g \/ Subs \subseteq g => g = {Main}
BY SearchAssumption DEF ToggleMainSearchFilter

LEMMA SubFilterOnce ==
  ASSUME NEW f \in SUBSET (Subs \cup {Main}), Main \in f \/ Subs \subseteq f => f = {Main},
         NEW sub \in Subs
  PROVE  LET g == ToggleSubOptionSearchFilter(f, sub) IN
         /\ g \in SUBSET (Subs \cup {Main})
         /\ Main \in g \/ Subs \subseteq g => g = {Main}
<1>1. Main \notin Subs
  BY SearchAssumption
<1>2. CASE Main \in f
  BY <1>1, <1>2 DEF ToggleSubOptionSearchFilter
<1>3. CASE Main \notin f /\ sub \in f
  BY <1>1, <1>3 DEF ToggleSubOptionSearchFilter
<1>4. CASE Main \notin f /\ sub \notin f /\ Subs \subseteq f \cup {sub}
  BY <1>1, <1>4 DEF ToggleSubOptionSearchFilter
<1>5. CASE Main \notin f /\ sub \notin f /\ ~(Subs \subseteq f \cup {sub})
  BY <1>1, <1>5 DEF ToggleSubOptionSearchFilter
<1>6. QED
  BY <1>2, <1>3, <1>4, <1>5

\* The changes of a query that leave its filters alone, or drop them.
LEMMA SameFiltersOnce ==
  ASSUME NEW query, Proper(query), NEW other \in SearchQueries,
         other.filters = query.filters \/ other.filters = {}
  PROVE  Proper(other)
BY SearchAssumption DEF Proper, Once

LEMMA TextProper ==
  ASSUME NEW query, Proper(query), NEW text \in BoxTexts \cup {Empty}
  PROVE  /\ Proper([query EXCEPT !.q = text])
         /\ [query EXCEPT !.q = text].q = text
<1>1. query \in SearchQueries /\ 1 \in ResultPages
  BY DEF Proper, ResultPages
<1>2. /\ [query EXCEPT !.q = text] \in SearchQueries /\ [query EXCEPT !.q = text].q = text
      /\ [query EXCEPT !.q = text].filters = query.filters
  BY <1>1 DEF SearchQueries
<1>3. QED
  BY <1>2, SameFiltersOnce

LEMMA PageProper ==
  ASSUME NEW query, Proper(query), NEW n \in ResultPages
  PROVE  /\ Proper([query EXCEPT !.page = n])
         /\ [query EXCEPT !.page = n].q = query.q
<1>1. query \in SearchQueries /\ 1 \in ResultPages
  BY DEF Proper, ResultPages
<1>2. /\ [query EXCEPT !.page = n] \in SearchQueries /\ [query EXCEPT !.page = n].q = query.q
      /\ [query EXCEPT !.page = n].filters = query.filters
  BY <1>1 DEF SearchQueries
<1>3. QED
  BY <1>2, SameFiltersOnce

LEMMA OrderProper ==
  ASSUME NEW query, Proper(query), NEW order \in Orders
  PROVE  /\ Proper([query EXCEPT !.page = 1, !.order = order])
         /\ [query EXCEPT !.page = 1, !.order = order].q = query.q
<1>1. query \in SearchQueries /\ 1 \in ResultPages
  BY DEF Proper, ResultPages
<1>2. /\ [query EXCEPT !.page = 1, !.order = order] \in SearchQueries /\ [query EXCEPT !.page = 1, !.order = order].q = query.q
      /\ [query EXCEPT !.page = 1, !.order = order].filters = query.filters
  BY <1>1 DEF SearchQueries
<1>3. QED
  BY <1>2, SameFiltersOnce

LEMMA LinkProper ==
  ASSUME NEW query, Proper(query), NEW text \in BoxTexts \cup {Empty}
  PROVE  /\ Proper([query EXCEPT !.q = text, !.page = 1])
         /\ [query EXCEPT !.q = text, !.page = 1].q = text
<1>1. query \in SearchQueries /\ 1 \in ResultPages
  BY DEF Proper, ResultPages
<1>2. /\ [query EXCEPT !.q = text, !.page = 1] \in SearchQueries /\ [query EXCEPT !.q = text, !.page = 1].q = text
      /\ [query EXCEPT !.q = text, !.page = 1].filters = query.filters
  BY <1>1 DEF SearchQueries
<1>3. QED
  BY <1>2, SameFiltersOnce

LEMMA ClearedProper ==
  ASSUME NEW query, Proper(query), NEW text \in BoxTexts \cup {Empty}
  PROVE  /\ Proper([query EXCEPT !.q = text, !.filters = {}, !.page = 1])
         /\ [query EXCEPT !.q = text, !.filters = {}, !.page = 1].q = text
<1>1. query \in SearchQueries /\ 1 \in ResultPages
  BY DEF Proper, ResultPages
<1>2. /\ [query EXCEPT !.q = text, !.filters = {}, !.page = 1] \in SearchQueries /\ [query EXCEPT !.q = text, !.filters = {}, !.page = 1].q = text
      /\ [query EXCEPT !.q = text, !.filters = {}, !.page = 1].filters = {}
  BY <1>1 DEF SearchQueries
<1>3. QED
  BY <1>2, SameFiltersOnce

-----------------------------------------------------------------------------
(* Searching *)

\* Whatever is searched for, the last of it is current and in flight.
LEMMA TriggerStep ==
  ASSUME SearchInv, NEW asked \in Seq(SearchQueries), TriggerSearch(asked)
  PROVE  /\ searches' \in Seq(SearchQueries) /\ searched' \in SearchQueries \cup {NoSearch}
         /\ results' = results
         /\ ResultsGiveWay'
         /\ searched' = IF asked = <<>> THEN searched ELSE asked[Len(asked)]
<1>1. searches \in Seq(SearchQueries) /\ ResultsGiveWay /\ searched \in SearchQueries \cup {NoSearch}
  BY DEF SearchInv, SearchTypes
<1>2. CASE asked = <<>>
  BY <1>1, <1>2 DEF TriggerSearch, ResultsGiveWay
<1>3. CASE asked # <<>>
  <2>1. /\ searches' = searches \o asked /\ searched' = asked[Len(asked)] /\ results' = results
    BY <1>3 DEF TriggerSearch, PerformSearch, Last
  <2>2. Len(asked) \in DOMAIN asked /\ Len(asked) \in 1..Len(asked)
    BY <1>3
  <2>3. /\ searches' \in Seq(SearchQueries) /\ asked[Len(asked)] \in SearchQueries
        /\ Len(searches) + Len(asked) \in DOMAIN searches'
        /\ searches'[Len(searches) + Len(asked)] = asked[Len(asked)]
    BY <1>1, <2>1, <2>2
  <2>4. searched' \in ToSet(searches')
    BY <2>1, <2>3 DEF ToSet
  <2>5. QED
    BY <1>3, <2>1, <2>3, <2>4 DEF ResultsGiveWay
<1>4. QED
  BY <1>2, <1>3

LEMMA AskedType ==
  ASSUME NEW query \in SearchQueries
  PROVE  /\ Asked(query) \in Seq(SearchQueries)
         /\ query.q # Empty => /\ Asked(query) # <<>> /\ Len(Asked(query)) = 1
                               /\ Asked(query)[1] = query
         /\ query.q = Empty => Asked(query) = <<>>
BY DEF Asked

LEMMA LastOfTwo ==
  ASSUME NEW S, NEW a \in Seq(S), NEW b \in Seq(S), b # <<>>
  PROVE  a \o b # <<>> /\ (a \o b)[Len(a \o b)] = b[Len(b)]
<1>1. Len(a \o b) = Len(a) + Len(b) /\ Len(a) \in Nat /\ Len(b) \in Nat /\ Len(b) > 0
  OBVIOUS
<1>2. (a \o b)[Len(a) + Len(b)] = b[Len(b)]
  BY <1>1
<1>3. QED
  BY <1>1, <1>2

\* What an update that was waiting makes current.
LEMMA DebouncedStep ==
  ASSUME SearchInv, NEW text \in BoxTexts \cup {Empty}, NEW seen \in SearchQueries,
         NEW mounted \in BOOLEAN,
         Debounced(text, seen, mounted)
  PROVE  /\ Proper(params') /\ searches' \in Seq(SearchQueries)
         /\ searched' \in SearchQueries \cup {NoSearch} /\ results' = results
         /\ ResultsGiveWay'
         /\ params'.q # Empty => searched' # NoSearch /\ searched'.q = params'.q
<1> DEFINE paged == IF text # seen.q THEN [params EXCEPT !.page = 1] ELSE params
<1> DEFINE queried == [paged EXCEPT !.q = text]
<1> DEFINE final == IF mounted THEN queried ELSE [seen EXCEPT !.q = text]
<1> DEFINE first == IF at = "search" THEN Changed(params, paged) ELSE <<>>
<1>1. Proper(params) /\ params \in SearchQueries /\ 1 \in ResultPages
  BY DEF SearchInv, SearchTypes, Proper, ResultPages
<1>2. Proper([params EXCEPT !.page = 1])
  BY <1>1, PageProper
<1>3. Proper(paged)
  BY <1>1, <1>2
<1> HIDE DEF paged
<1>4. Proper(queried) /\ queried.q = text
  BY <1>3, TextProper
<1>5. [seen EXCEPT !.q = text] \in SearchQueries /\ [seen EXCEPT !.q = text].q = text
  BY DEF SearchQueries
<1> HIDE DEF queried
<1>6. final \in SearchQueries /\ final.q = text
  BY <1>4, <1>5 DEF Proper
<1>7. first \in Seq(SearchQueries)
  BY <1>3, AskedType DEF Changed, Proper
<1>8. params' = queried /\ TriggerSearch(first \o Asked(final))
  BY DEF Debounced, paged, queried
<1> HIDE DEF final, first
<1>9. first \o Asked(final) \in Seq(SearchQueries)
  BY <1>6, <1>7, AskedType
<1>10. ASSUME text # Empty
       PROVE  /\ first \o Asked(final) # <<>>
              /\ (first \o Asked(final))[Len(first \o Asked(final))] = final
  <2>1. Asked(final) \in Seq(SearchQueries) /\ Len(Asked(final)) = 1 /\ Asked(final)[1] = final
    BY <1>6, <1>10, AskedType
  <2>2. Asked(final) # <<>>
    BY <2>1
  <2>3. QED
    BY <1>7, <2>1, <2>2, LastOfTwo
<1>11. /\ searches' \in Seq(SearchQueries) /\ searched' \in SearchQueries \cup {NoSearch}
       /\ results' = results /\ ResultsGiveWay'
       /\ text # Empty => searched' = final
  BY <1>8, <1>9, <1>10, TriggerStep
<1>12. QED
  BY <1>4, <1>6, <1>8, <1>11, NoSearchAssumption

-----------------------------------------------------------------------------
(* The steps *)

\* A page that is opened searches, or shows what is current.
LEMMA MountStep ==
  ASSUME SearchInv, NEW query, Proper(query), Mount(query), at' = "search", TrailProper'
  PROVE  SearchInv'
<1>1. query \in SearchQueries
  BY DEF Proper
<1> DEFINE asked == IF TriggersOnMount(query) THEN Asked(query) ELSE <<>>
<1>2. asked \in Seq(SearchQueries)
  BY <1>1, AskedType
<1>3. TriggerSearch(asked) /\ params' = query /\ UNCHANGED stray
  BY DEF Mount
<1>4. /\ searches' \in Seq(SearchQueries) /\ searched' \in SearchQueries \cup {NoSearch}
      /\ results' = results /\ ResultsGiveWay'
      /\ searched' = IF asked = <<>> THEN searched ELSE asked[Len(asked)]
  BY <1>2, <1>3, TriggerStep
<1>5. query.q # Empty => searched' # NoSearch /\ searched'.q = query.q
  <2>1. CASE query.q # Empty /\ TriggersOnMount(query)
    <3>1. asked # <<>> /\ asked[Len(asked)] = query
      BY <1>1, <2>1, AskedType
    <3>2. QED
      BY <1>1, <1>4, <3>1, NoSearchAssumption
  <2>2. CASE ~TriggersOnMount(query)
    BY <1>4, <2>2 DEF TriggersOnMount
  <2>3. QED
    BY <2>1, <2>2
<1>6. /\ typed'.text = Empty
      /\ visible' \in BoxTexts \cup {Empty}
  BY <1>1, SearchAssumption DEF Mount, Untyped, SearchQueries
<1>7. QED
  BY <1>3, <1>4, <1>5, <1>6 DEF SearchInv, SearchTypes, AddressIsSearched

\* Other parameters for a page that stays: a search, or the text passed over.
LEMMA ReceiveStep ==
  ASSUME SearchInv, NEW after, Proper(after), ReceiveProps(after),
         at = "search", at' = "search", TrailProper'
  PROVE  SearchInv'
<1>1. after \in SearchQueries
  BY DEF Proper
<1> DEFINE asked == Changed(params, after)
<1>2. asked \in Seq(SearchQueries) /\ (asked # <<>> => after.q # Empty /\ asked[Len(asked)] = after)
  BY <1>1, AskedType DEF Changed
<1>3. /\ TriggerSearch(asked) /\ params' = after
      /\ UNCHANGED <<visible, typed, stray>>
      /\ passedOver' = (asked = <<>> /\ (passedOver \/ after.q # params.q))
  BY DEF ReceiveProps
<1> HIDE DEF asked
<1>4. /\ searches' \in Seq(SearchQueries) /\ searched' \in SearchQueries \cup {NoSearch}
      /\ results' = results /\ ResultsGiveWay'
      /\ searched' = IF asked = <<>> THEN searched ELSE asked[Len(asked)]
  BY <1>2, <1>3, TriggerStep
<1>5. ~passedOver' /\ after.q # Empty => searched' # NoSearch /\ searched'.q = after.q
  <2>1. CASE asked = <<>>
    <3>1. ~passedOver' => ~passedOver /\ after.q = params.q
      BY <1>3, <2>1
    <3>2. QED
      BY <1>4, <2>1, <3>1 DEF SearchInv, AddressIsSearched
  <2>2. CASE asked # <<>>
    BY <1>1, <1>2, <1>4, <2>2, NoSearchAssumption
  <2>3. QED
    BY <2>1, <2>2
<1>6. QED
  BY <1>3, <1>4, <1>5 DEF SearchInv, SearchTypes, AddressIsSearched

LEMMA ChangeStep ==
  ASSUME SearchInv, NEW after, Proper(after), Change(after)
  PROVE  SearchInv'
<1>1. at = "search" /\ at' = "search" /\ ReceiveProps(after) /\ UNCHANGED <<trail, here>>
  BY DEF Change, addressVars
<1>2. TrailProper'
  BY <1>1 DEF SearchInv, SearchTypes, TrailProper
<1>3. QED
  BY <1>1, <1>2, ReceiveStep

LEMMA FilterStep ==
  ASSUME SearchInv,
         \/ UpdateMainFilter
         \/ \E sub \in Subs : UpdateSubFilter(sub)
         \/ \E order \in Orders : UpdateSortBy(order)
         \/ \E n \in 1..2 : PageSelectCallback(n)
  PROVE  SearchInv'
<1>1. Proper(params) /\ params \in SearchQueries /\ Once(params)
  BY DEF SearchInv, SearchTypes, Proper
<1>2. params.q \in BoxTexts \cup {Empty} /\ params.page \in ResultPages /\ params.order \in Orders
      /\ params.filters \in SUBSET (Subs \cup {Main})
  BY <1>1 DEF SearchQueries
<1>3. ASSUME NEW f \in SUBSET (Subs \cup {Main}), Main \in f \/ Subs \subseteq f => f = {Main}
      PROVE  Proper([params EXCEPT !.filters = f]) /\ [params EXCEPT !.filters = f].q = params.q
  <2>1. /\ [params EXCEPT !.filters = f] \in SearchQueries
        /\ [params EXCEPT !.filters = f].filters = f /\ [params EXCEPT !.filters = f].q = params.q
    BY <1>1 DEF SearchQueries
  <2>2. QED
    BY <1>3, <2>1 DEF Proper, Once
<1>4. CASE UpdateMainFilter
  BY <1>1, <1>2, <1>3, <1>4, MainFilterOnce, ChangeStep DEF UpdateMainFilter, Once
<1>5. ASSUME NEW sub \in Subs, UpdateSubFilter(sub) PROVE SearchInv'
  BY <1>1, <1>2, <1>3, <1>5, SubFilterOnce, ChangeStep DEF UpdateSubFilter, Once
<1>6. ASSUME NEW order \in Orders, UpdateSortBy(order) PROVE SearchInv'
  <2> DEFINE after == [params EXCEPT !.page = 1, !.order = order]
  <2>1. Proper(after) /\ after.q = params.q
    BY <1>1, OrderProper
  <2>2. Change(after)
    BY <1>6 DEF UpdateSortBy
  <2> HIDE DEF after
  <2>3. QED
    BY <2>1, <2>2, ChangeStep
<1>7. ASSUME NEW n \in 1..2, PageSelectCallback(n) PROVE SearchInv'
  <2> DEFINE after == [params EXCEPT !.page = n]
  <2>1. n \in ResultPages
    BY DEF ResultPages
  <2>2. Proper(after) /\ after.q = params.q
    BY <1>1, <2>1, PageProper
  <2>3. Change(after)
    BY <1>7 DEF PageSelectCallback
  <2> HIDE DEF after
  <2>4. QED
    BY <2>2, <2>3, ChangeStep
<1>8. QED
  BY <1>4, <1>5, <1>6, <1>7

LEMMA BoxStep ==
  ASSUME SearchInv,
         \/ \E text \in BoxTexts : Type(text)
         \/ UpdateSearchText \/ DebouncedUpdate \/ StrayUpdate \/ ClearSearch
  PROVE  SearchInv'
<1>1. /\ Proper(params) /\ params \in SearchQueries /\ ResultsGiveWay /\ AddressIsSearched
      /\ SearchTypes
  BY DEF SearchInv, SearchTypes, Proper
<1>2. ASSUME NEW text \in BoxTexts, Type(text) PROVE SearchInv'
  BY <1>1, <1>2 DEF Type, addressVars, SearchInv, SearchTypes, TrailProper, AddressIsSearched, ResultsGiveWay
<1>3. CASE UpdateSearchText
  BY <1>1, <1>3 DEF UpdateSearchText, addressVars, SearchInv, SearchTypes, TrailProper, AddressIsSearched, ResultsGiveWay
<1>4. CASE DebouncedUpdate
  <2>1. /\ Proper(params') /\ searches' \in Seq(SearchQueries)
        /\ searched' \in SearchQueries \cup {NoSearch} /\ results' = results /\ ResultsGiveWay'
        /\ params'.q # Empty => searched' # NoSearch /\ searched'.q = params'.q
    BY <1>1, <1>4, DebouncedStep DEF DebouncedUpdate, SearchTypes
  <2>2. typed'.text = Empty /\ UNCHANGED <<at, trail, here, visible, stray>>
    BY <1>4 DEF DebouncedUpdate, addressVars, Untyped
  <2>3. QED
    BY <1>1, <2>1, <2>2 DEF SearchInv, SearchTypes, TrailProper, AddressIsSearched
<1>5. CASE StrayUpdate
  <2>1. /\ Proper(params') /\ searches' \in Seq(SearchQueries)
        /\ searched' \in SearchQueries \cup {NoSearch} /\ results' = results /\ ResultsGiveWay'
        /\ params'.q # Empty => searched' # NoSearch /\ searched'.q = params'.q
    BY <1>1, <1>5, DebouncedStep DEF StrayUpdate, SearchTypes
  <2>2. stray' = NothingStray /\ UNCHANGED <<at, trail, here, visible, typed>>
    BY <1>5 DEF StrayUpdate, addressVars
  <2>3. stray'.text = Empty /\ stray'.params = NoSearch
    BY <2>2 DEF NothingStray
  <2>4. QED
    BY <1>1, <2>1, <2>2, <2>3 DEF SearchInv, SearchTypes, TrailProper, AddressIsSearched
<1>6. CASE ClearSearch
  <2> DEFINE cleared == [params EXCEPT !.q = Empty, !.filters = {}, !.page = 1]
  <2>1. Proper(cleared) /\ cleared.q = Empty
    BY <1>1, ClearedProper
  <2>2. params' = cleared
    BY <1>6 DEF ClearSearch
  <2> HIDE DEF cleared
  <2>4. Proper(params') /\ params'.q = Empty
    BY <2>1, <2>2
  <2>5. /\ searched' = NoSearch /\ results' = NoSearch /\ visible' \in BoxTexts \cup {Empty}
        /\ UNCHANGED <<at, trail, here, typed, stray, searches>>
    BY <1>1, <1>6, SearchAssumption DEF ClearSearch, addressVars
  <2>6. QED
    BY <1>1, <2>4, <2>5 DEF SearchInv, SearchTypes, TrailProper, AddressIsSearched, ResultsGiveWay
<1>7. QED
  BY <1>2, <1>3, <1>4, <1>5, <1>6

\* What an address leaves out is retained.
LEMMA RetainedProper ==
  ASSUME SearchInv, NEW query, Proper(query)
  PROVE  Proper(Retained(query))
<1>1. /\ params \in SearchQueries /\ Once(params) /\ query \in SearchQueries /\ Once(query)
  BY DEF SearchInv, SearchTypes, Proper
<1>2. /\ params.q \in BoxTexts \cup {Empty} /\ params.page \in ResultPages
      /\ params.filters \in SUBSET (Subs \cup {Main}) /\ params.order \in Orders
      /\ query.q \in BoxTexts \cup {Empty} /\ query.page \in ResultPages /\ query.order \in Orders
      /\ query.filters \in SUBSET (Subs \cup {Main})
  BY <1>1 DEF SearchQueries
<1>3. Retained(query) \in SearchQueries
  BY <1>2 DEF Retained, SearchQueries
<1>4. Retained(query).filters \in {params.filters, query.filters}
  BY DEF Retained
<1>5. QED
  BY <1>1, <1>3, <1>4 DEF Proper, Once

\* The address that is left is kept as the parameters have it.
LEMMA RecordedProper ==
  ASSUME SearchInv
  PROVE  /\ Recorded \in Seq(SearchEntries) /\ DOMAIN Recorded = DOMAIN trail /\ Len(Recorded) = Len(trail)
         /\ \A n \in DOMAIN Recorded : Proper(Recorded[n].query)
<1> DEFINE entry == [at |-> at, query |-> params]
<1>1. /\ trail \in Seq(SearchEntries) /\ here \in DOMAIN trail
      /\ \A n \in DOMAIN trail : Proper(trail[n].query)
      /\ Proper(params) /\ at \in {"search", "document"}
  BY DEF SearchInv, SearchTypes, TrailProper
<1>2. entry \in SearchEntries /\ entry.query = params
  BY <1>1 DEF SearchEntries, Proper
<1> HIDE DEF entry
<1>3. [trail EXCEPT ![here] = entry] \in Seq(SearchEntries)
  BY <1>1, <1>2
<1>4. Recorded = [trail EXCEPT ![here] = entry]
  BY DEF Recorded, entry
<1>5. DOMAIN Recorded = DOMAIN trail /\ Len(Recorded) = Len(trail)
  BY <1>1, <1>3, <1>4
<1>6. \A n \in DOMAIN Recorded : Recorded[n] = IF n = here THEN entry ELSE trail[n]
  BY <1>1, <1>4, <1>5
<1>7. QED
  BY <1>1, <1>2, <1>3, <1>4, <1>5, <1>6

\* Wherever the user arrives.
LEMMA ArrivesStep ==
  ASSUME SearchInv, NEW to \in {"search", "document"}, NEW query, Proper(query),
         Arrives(to, query), TrailProper'
  PROVE  SearchInv'
<1>1. Proper(Retained(query)) /\ SearchTypes /\ ResultsGiveWay /\ Proper(params)
  BY RetainedProper DEF SearchInv, SearchTypes
<1>2. CASE to = "document"
  <2>1. Unmount(Retained(query)) /\ at' = "document"
    BY <1>2 DEF Arrives
  <2>2. /\ params' = Retained(query) /\ typed'.text = Empty
        /\ UNCHANGED <<searched, results, visible, searches>>
    BY <2>1 DEF Unmount, Untyped
  <2>3. /\ stray'.text \in BoxTexts \cup {Empty} /\ stray'.params \in SearchQueries \cup {NoSearch}
        /\ stray' # NothingStray => stray'.params \in SearchQueries
    BY <1>1, <2>1 DEF Unmount, SearchTypes, Proper
  <2>4. QED
    BY <1>1, <2>1, <2>2, <2>3 DEF SearchInv, SearchTypes, AddressIsSearched, ResultsGiveWay
<1>3. CASE to = "search" /\ at = "search"
  <2>1. ReceiveProps(Retained(query)) /\ at' = "search"
    BY <1>3 DEF Arrives
  <2>2. QED
    BY <1>1, <1>3, <2>1, ReceiveStep
<1>4. CASE to = "search" /\ at # "search"
  <2>1. Mount(Retained(query)) /\ at' = "search"
    BY <1>4 DEF Arrives
  <2>2. QED
    BY <1>1, <2>1, MountStep
<1>5. QED
  BY <1>2, <1>3, <1>4

\* A link puts its address after the one it is on.
LEMMA FollowStep ==
  ASSUME SearchInv, NEW to \in {"search", "document"}, NEW query, Proper(query), Follow(to, query)
  PROVE  SearchInv'
<1> DEFINE before == SubSeq(Recorded, 1, here)
<1> DEFINE entry == [at |-> to, query |-> query]
<1>1. /\ Recorded \in Seq(SearchEntries) /\ Len(Recorded) = Len(trail)
      /\ \A n \in DOMAIN Recorded : Proper(Recorded[n].query)
      /\ trail \in Seq(SearchEntries) /\ here \in 1..Len(trail)
  BY RecordedProper DEF SearchInv, SearchTypes, TrailProper
<1>2. entry \in SearchEntries /\ entry.query = query
  BY DEF SearchEntries, Proper
<1>3. trail' = Append(before, entry) /\ here' = here + 1 /\ Arrives(to, query)
  BY DEF Follow
<1>4. before \in Seq(SearchEntries) /\ Len(before) = here
  BY <1>1
<1>5. \A n \in 1..here : before[n] = Recorded[n] /\ n \in DOMAIN Recorded
  BY <1>1
<1> HIDE DEF before, entry
<1>6. /\ trail' \in Seq(SearchEntries) /\ here' \in DOMAIN trail'
      /\ DOMAIN trail' = 1..(here + 1)
      /\ trail'[here + 1] = entry /\ \A n \in 1..here : trail'[n] = before[n]
  BY <1>1, <1>2, <1>3, <1>4
<1>7. \A n \in DOMAIN trail' : n \in 1..here \/ n = here + 1
  BY <1>1, <1>6
<1>8. TrailProper'
  BY <1>1, <1>2, <1>5, <1>6, <1>7 DEF TrailProper
<1>9. QED
  BY <1>3, <1>8, ArrivesStep

LEMMA TravelStep ==
  ASSUME SearchInv, NEW n \in DOMAIN trail, Travel(n)
  PROVE  SearchInv'
<1>1. /\ trail \in Seq(SearchEntries) /\ Proper(trail[n].query)
  BY DEF SearchInv, SearchTypes, TrailProper
<1> DEFINE entry == trail[n]
<1>2. entry \in SearchEntries
  BY <1>1
<1> HIDE DEF entry
<1>3. entry.at \in {"search", "document"}
  BY <1>2 DEF SearchEntries
<1> USE DEF entry
<1>4. trail' = Recorded /\ here' = n /\ Arrives(trail[n].at, trail[n].query)
  BY DEF Travel
<1>5. TrailProper'
  BY <1>4, RecordedProper DEF TrailProper
<1>6. QED
  BY <1>1, <1>3, <1>4, <1>5, ArrivesStep

LEMMA NavigationStep ==
  ASSUME SearchInv,
         \/ OpenResult \/ HeaderLink
         \/ \E text \in BoxTexts : SearchFor(text)
         \/ \E n \in DOMAIN trail : Travel(n)
  PROVE  SearchInv'
<1>1. Proper(params)
  BY DEF SearchInv, SearchTypes
<1>2. CASE OpenResult
  BY <1>1, <1>2, FollowStep DEF OpenResult
<1>3. CASE HeaderLink
  BY <1>1, <1>3, FollowStep DEF HeaderLink
<1>4. ASSUME NEW text \in BoxTexts, SearchFor(text) PROVE SearchInv'
  <2>1. Proper(BuildLink(text))
    BY <1>1, LinkProper DEF BuildLink
  <2>2. QED
    BY <1>4, <2>1, FollowStep DEF SearchFor
<1>5. QED
  BY <1>2, <1>3, <1>4, TravelStep

LEMMA AnswerStep ==
  ASSUME SearchInv, NEW i \in DOMAIN searches, ReceiveSearch(i) \/ ErrorReceivingSearch(i)
  PROVE  SearchInv'
<1>1. SearchTypes /\ AddressIsSearched /\ ResultsGiveWay /\ searches \in Seq(SearchQueries)
  BY DEF SearchInv, SearchTypes
<1>2. searches' = RemoveAt(searches, i) /\ searches' \in Seq(SearchQueries)
  BY <1>1, RemoveAtOld DEF ReceiveSearch, ErrorReceivingSearch
<1>3. UNCHANGED <<at, params, trail, here, searched, visible, typed, stray, passedOver>>
  BY DEF ReceiveSearch, ErrorReceivingSearch, addressVars
<1>4. results' \in SearchQueries \cup {NoSearch} /\ ResultsGiveWay'
  <2>1. CASE ErrorReceivingSearch(i)
    BY <2>1 DEF ErrorReceivingSearch, ResultsGiveWay
  <2>2. CASE ReceiveSearch(i) /\ searches[i] = searched
    BY <1>1, <1>3, <2>2 DEF ReceiveSearch, HandleSearchResults, ResultsGiveWay, SearchTypes
  <2>3. CASE ReceiveSearch(i) /\ searches[i] # searched
    <3>1. results' = results
      BY <2>3 DEF ReceiveSearch, HandleSearchResults
    <3>2. ASSUME searched \in ToSet(searches) PROVE searched \in ToSet(searches')
      <4>1. PICK k \in DOMAIN searches : searches[k] = searched
        BY <3>2 DEF ToSet
      <4>2. k # i
        BY <2>3, <4>1
      <4>3. PICK j \in DOMAIN searches' : searches'[j] = searches[k]
        BY <1>1, <1>2, <4>2, RemoveAtKeeps
      <4>4. QED
        BY <4>1, <4>3 DEF ToSet
    <3>3. QED
      BY <1>1, <1>3, <3>1, <3>2 DEF ResultsGiveWay, SearchTypes
  <2>4. QED
    BY <2>1, <2>2, <2>3
<1>5. QED
  BY <1>1, <1>2, <1>3, <1>4 DEF SearchInv, SearchTypes, TrailProper, AddressIsSearched

LEMMA SearchStep ==
  ASSUME SearchInv, [SearchNext]_searchVars
  PROVE  SearchInv'
<1>1. CASE SearchNext
  BY <1>1, BoxStep, FilterStep, NavigationStep, AnswerStep DEF SearchNext
<1>2. CASE UNCHANGED searchVars
  BY <1>2 DEF searchVars, SearchInv, SearchTypes, TrailProper, AddressIsSearched, ResultsGiveWay
<1>3. QED
  BY <1>1, <1>2

\* Whatever is typed, cleared, linked to, travelled back to or answered late: the
\* query of the address is the one that was searched last, unless the address
\* was given it under the page and nothing has been searched since; results of
\* another query give way to its answer, and each filter is said once (Search.tsx,
\* searchReducer.js, SearchFilterOption.js).
THEOREM SearchFollowsAddress == SearchSpec => []SearchIsOfAddress
<1>1. SearchInit /\ Unsorted \in Orders => SearchInv
  <2> SUFFICES ASSUME SearchInit, Unsorted \in Orders PROVE SearchInv
    OBVIOUS
  <2> DEFINE entry == [at |-> "search", query |-> Unasked]
  <2>1. Unasked \in SearchQueries /\ Unasked.q = Empty /\ Unasked.filters = {}
    BY DEF Unasked, SearchQueries, ResultPages
  <2>2. Proper(Unasked)
    BY <2>1, SearchAssumption DEF Proper, Once
  <2>3. searches \in Seq(SearchQueries)
    BY DEF SearchInit
  <2>4. stray.text = Empty /\ stray.params = NoSearch /\ typed.text = Empty /\ visible \in BoxTexts
    BY SearchAssumption DEF SearchInit, NothingStray, Untyped
  <2>5. entry \in SearchEntries /\ entry.query = Unasked /\ trail = <<entry>> /\ here = 1
    BY <2>1 DEF SearchInit, SearchEntries
  <2> HIDE DEF entry
  <2>6. TrailProper
    BY <2>2, <2>5 DEF TrailProper
  <2>7. QED
    BY <2>1, <2>2, <2>3, <2>4, <2>6
       DEF SearchInit, SearchInv, SearchTypes, AddressIsSearched, ResultsGiveWay
<1>2. SearchInv => SearchIsOfAddress
  BY DEF SearchInv, SearchTypes, SearchIsOfAddress, OptionSaidOnce, Proper, Once
<1>3. QED
  BY <1>1, <1>2, SearchAssumption, SearchStep, PTL DEF SearchSpec

(***************************************************************************)
(* The documents: whatever is afterwards, stepped to, answered or failed, a    *)
(* document that is waited for has been asked for, once, and what has been *)
(* opened is shown.  The invariant is stated of a store and the requests   *)
(* made so far, so that it can be followed through every component that a  *)
(* step mounts, updates or removes.                                        *)
(***************************************************************************)

Full == {f \in Requests : f.kind = "full"}
Basic == {f \in Requests : f.kind = "basic"}
Loading == Full \cup Basic

StoreStates == [store : Stores, asked : Seq(Requests)]

\* What is in flight after a step that keeps some requests and makes others.
Queue(kept, s) == kept \o s.asked

\* Only resources that were loaded have an address.
Loaded(s) == s.store.resource.uri # NoUri => s.store.resource.some

\* One document loads, and it is waited for.
OneLoad(kept, s) ==
  /\ AtMostOne(Queue(kept, s), Full) /\ ~Has(Queue(kept, s), Basic)
  /\ Has(Queue(kept, s), Full) => s.store.loading

\* What is waited for has been asked for.
AskedFor(kept, s) == s.store.loading => Has(Queue(kept, s), Full)

\* With the directories and redirections, m, and the failures, f, there have been.
Good(kept, s, m, f) ==
  /\ s \in StoreStates /\ Loaded(s)
  /\ ~m => OneLoad(kept, s)
  /\ ~f => AskedFor(kept, s)

\* The viewer shows something of its document.
Shows(s) == Displays(s.store)

\* A directory shows what its address names, or has asked for it.
Finds(kept, s, u) == s.store.resource.uri = u \/ Has(Queue(kept, s), Loading)

RouteInv ==
  /\ page = "viewer" => uri \in Docs
  /\ page = "directory" => uri \in Dirs
  /\ page # "viewer" => counts = <<>>
  /\ ~mixed => page \in {"elsewhere", "viewer"}

ShowsInv ==
  /\ page = "viewer" => Shows(Now)
  /\ page = "directory" /\ ~failed => Finds(flights, Now, uri)

DocumentsInv == DocumentsTypeOK /\ RouteInv /\ Good(flights, Now, mixed, failed) /\ ShowsInv

-----------------------------------------------------------------------------
(* Requests *)

LEMMA NoRequestMore ==
  ASSUME NEW kept \in Seq(Requests), NEW st
  PROVE  Queue(kept, State(st, <<>>)) = kept
BY DEF Queue, State

LEMMA RequestMore ==
  ASSUME NEW kept \in Seq(Requests), NEW a \in Seq(Requests), NEW e \in Requests
  PROVE  /\ Append(a, e) \in Seq(Requests)
         /\ kept \o a \in Seq(Requests)
         /\ kept \o Append(a, e) = Append(kept \o a, e)
OBVIOUS

LEMMA HasMore ==
  ASSUME NEW S, NEW s \in Seq(S), NEW e \in S, NEW T
  PROVE  Has(Append(s, e), T) <=> Has(s, T) \/ e \in T
<1> DEFINE r == Append(s, e)
<1>1. /\ Len(s) \in Nat /\ DOMAIN r = 1..Len(s) + 1 /\ r[Len(s) + 1] = e
      /\ DOMAIN s = 1..Len(s)
      /\ \A i \in DOMAIN s : r[i] = s[i]
  OBVIOUS
<1> HIDE DEF r
<1>2. DOMAIN r = DOMAIN s \cup {Len(s) + 1}
  BY <1>1
<1>3. QED
  BY <1>1, <1>2 DEF Has, r

\* A store that differs only in what requests do not depend on.
LEMMA SameLoading ==
  ASSUME NEW kept, NEW s, NEW st \in Stores, NEW m \in BOOLEAN, NEW f \in BOOLEAN,
         Good(kept, s, m, f), st.loading = s.store.loading,
         st.resource.uri # NoUri => st.resource.some
  PROVE  Good(kept, State(st, s.asked), m, f)
BY DEF Good, StoreStates, Loaded, OneLoad, AskedFor, Queue, State

LEMMA GetResourceGood ==
  ASSUME NEW kept \in Seq(Requests), NEW s, NEW u \in Uris, NEW m \in BOOLEAN, NEW f \in BOOLEAN,
         Good(kept, s, m, f), ~s.store.loading
  PROVE  /\ Good(kept, GetResource(s, u), m, f)
         /\ GetResource(s, u).store.resource = s.store.resource
         /\ GetResource(s, u).store.response = s.store.response
         /\ GetResource(s, u).store.view = s.store.view
<1> DEFINE st == [s.store EXCEPT !.loading = TRUE]
           e == Request("full", u)
<1>1. /\ s.store \in Stores /\ s.asked \in Seq(Requests) /\ Loaded(s)
      /\ ~m => OneLoad(kept, s)
  BY DEF Good, StoreStates, State
<1>2. /\ st \in Stores /\ st.loading /\ st.resource = s.store.resource
      /\ st.response = s.store.response /\ st.view = s.store.view
  BY <1>1 DEF Stores
<1>3. e \in Requests /\ e \in Full /\ e \notin Basic
  BY DEF Request, Requests, Full, Basic
<1> HIDE DEF st, e
<1>4. /\ Append(s.asked, e) \in Seq(Requests)
      /\ Queue(kept, s) \in Seq(Requests)
      /\ Queue(kept, State(st, Append(s.asked, e))) = Append(Queue(kept, s), e)
  BY <1>1, <1>3, RequestMore DEF Queue, State
<1>5. Has(Append(Queue(kept, s), e), Full)
  BY <1>3, <1>4, HasMore
<1>6. ASSUME ~m PROVE AtMostOne(Append(Queue(kept, s), e), Full) /\ ~Has(Append(Queue(kept, s), e), Basic)
  <2>1. AtMostOne(Queue(kept, s), Full) /\ ~Has(Queue(kept, s), Full) /\ ~Has(Queue(kept, s), Basic)
    BY <1>1, <1>6 DEF OneLoad
  <2>2. QED
    BY <2>1, <1>3, <1>4, HasMore, AppendOne
<1>7. GetResource(s, u) = State(st, Append(s.asked, e))
  BY DEF GetResource, st, e
<1>8. Good(kept, State(st, Append(s.asked, e)), m, f)
  BY <1>1, <1>2, <1>4, <1>5, <1>6 DEF Good, StoreStates, Loaded, OneLoad, AskedFor, State
<1>9. QED
  BY <1>2, <1>7, <1>8 DEF State

\* A directory and a redirection load whatever else does.
LEMMA GetBasicResourceGood ==
  ASSUME NEW kept \in Seq(Requests), NEW s, NEW u \in Uris, NEW f \in BOOLEAN,
         Good(kept, s, TRUE, f)
  PROVE  /\ Good(kept, GetBasicResource(s, u), TRUE, f)
         /\ GetBasicResource(s, u).store = s.store
         /\ Has(Queue(kept, GetBasicResource(s, u)), Loading)
<1> DEFINE e == Request("basic", u)
<1>1. s.store \in Stores /\ s.asked \in Seq(Requests)
  BY DEF Good, StoreStates, State
<1>2. e \in Requests /\ e \in Loading
  BY DEF Request, Requests, Basic, Loading
<1> HIDE DEF e
<1>3. /\ Append(s.asked, e) \in Seq(Requests)
      /\ Queue(kept, s) \in Seq(Requests)
      /\ Queue(kept, State(s.store, Append(s.asked, e))) = Append(Queue(kept, s), e)
  BY <1>1, <1>2, RequestMore DEF Queue, State
<1>4. /\ Has(Append(Queue(kept, s), e), Loading)
      /\ Has(Queue(kept, s), Full) => Has(Append(Queue(kept, s), e), Full)
  BY <1>2, <1>3, HasMore
<1>5. GetBasicResource(s, u) = State(s.store, Append(s.asked, e))
  BY DEF GetBasicResource, e
<1>6. Good(kept, State(s.store, Append(s.asked, e)), TRUE, f)
  BY <1>1, <1>3, <1>4 DEF Good, StoreStates, Loaded, AskedFor, State
<1>7. State(s.store, Append(s.asked, e)).store = s.store
  BY DEF State
<1>8. Has(Queue(kept, State(s.store, Append(s.asked, e))), Loading)
  BY <1>3, <1>4
<1>9. QED
  BY <1>5, <1>6, <1>7, <1>8

LEMMA ResetResourceGood ==
  ASSUME NEW kept, NEW s, NEW m \in BOOLEAN, NEW f \in BOOLEAN, Good(kept, s, m, f)
  PROVE  /\ Good(kept, ResetResource(s), m, f)
         /\ ResetResource(s).store.resource = NoResource
         /\ ResetResource(s).asked = s.asked
<1> DEFINE st == [s.store EXCEPT !.resource = NoResource]
<1>1. s.store \in Stores
  BY DEF Good, StoreStates
<1>2. /\ st \in Stores /\ st.loading = s.store.loading
      /\ st.resource = NoResource /\ st.resource.uri = NoUri
  BY <1>1 DEF Stores, Resources, NoResource
<1> HIDE DEF st
<1>3. Good(kept, State(st, s.asked), m, f)
  BY <1>2, SameLoading
<1>4. ResetResource(s) = State(st, s.asked)
  BY DEF ResetResource, st
<1>5. QED
  BY <1>2, <1>3, <1>4 DEF State

-----------------------------------------------------------------------------
(* Components *)

LEMMA SidebarMountsGood ==
  ASSUME NEW kept \in Seq(Requests), NEW s, NEW u \in Uris, NEW m \in BOOLEAN, NEW f \in BOOLEAN,
         Good(kept, s, m, f)
  PROVE  Good(kept, SidebarMounts(s, u), m, f)
BY GetResourceGood DEF SidebarMounts

LEMMA SidebarReceivesGood ==
  ASSUME NEW kept \in Seq(Requests), NEW s, NEW u \in Uris, NEW m \in BOOLEAN, NEW f \in BOOLEAN,
         Good(kept, s, m, f)
  PROVE  Good(kept, SidebarReceives(s, u), m, f)
BY GetResourceGood DEF SidebarReceives

LEMMA ViewerMountsGood ==
  ASSUME NEW kept \in Seq(Requests), NEW s, NEW u \in Uris, NEW m \in BOOLEAN, NEW f \in BOOLEAN,
         Good(kept, s, m, f)
  PROVE  Good(kept, ViewerMounts(s, u), m, f)
BY GetResourceGood DEF ViewerMounts

LEMMA LeavesGood ==
  ASSUME NEW kept, NEW s, NEW m \in BOOLEAN, NEW f \in BOOLEAN, Good(kept, s, m, f)
  PROVE  /\ Good(kept, Leaves(s), m, f)
         /\ Leaves(s).asked = s.asked
BY ResetResourceGood DEF Leaves

\* fetchResourceIfRequired, mounted or updated.
LEMMA DirectoryUpdatesGood ==
  ASSUME NEW kept \in Seq(Requests), NEW s, NEW u \in Uris, NEW f \in BOOLEAN, Good(kept, s, TRUE, f)
  PROVE  /\ Good(kept, DirectoryUpdates(s, u), TRUE, f)
         /\ Finds(kept, DirectoryUpdates(s, u), u)
BY GetBasicResourceGood DEF DirectoryUpdates, Finds

-----------------------------------------------------------------------------
(* Views *)

LEMMA DefaultViewIsAView ==
  ASSUME NEW r
  PROVE  /\ DefaultView(r) \in Views
         /\ r.uri \in Blobs /\ Contained(r) \cap Fallbacks # {}
              => DefaultView(r) # "none" /\ DefaultView(r) \in Contained(r)
<1>1. Contained(r) \subseteq Views
  BY DEF Contained, Views
<1>2. Contained(r) # {} => r.full
  BY DEF Contained
<1>3. DefaultView(r) \in {"none", "text"} \cup Contained(r)
  BY DEF DefaultView
<1>4. DefaultView(r) \in Views
  BY <1>1, <1>3 DEF Views
<1>5. ASSUME r.uri \in Blobs, Contained(r) \cap Fallbacks # {}
      PROVE  DefaultView(r) # "none" /\ DefaultView(r) \in Contained(r)
  <2> DEFINE has == Contained(r)
  <2>1. r.full /\ ("transcript" \in has \/ "text" \in has \/ "ocr" \in has \/ "preview" \in has)
    BY <1>2, <1>5 DEF Fallbacks
  <2>2. DefaultView(r) = IF "transcript" \in has THEN "transcript"
                         ELSE IF "text" \notin has /\ "ocr" \in has THEN "ocr"
                         ELSE IF "text" \notin has /\ "preview" \in has THEN "preview"
                         ELSE "text"
    BY <1>5, <2>1 DEF DefaultView
  <2> HIDE DEF has
  <2>3. DefaultView(r) \in has /\ DefaultView(r) # "none"
    BY <2>1, <2>2
  <2>4. QED
    BY <2>3 DEF has
<1>6. QED
  BY <1>4, <1>5

\* What a document has in a view is what is shown of it in that view.
LEMMA ShownInItsViews ==
  ASSUME NEW r, NEW v \in Contained(r)
  PROVE  Contents(r, v) = v
<1>1. r.full /\ r.uri \in Docs /\ v \in ViewsOf[r.uri]
  BY DEF Contained
<1>2. v \in {"text", "preview", "ocr", "transcript", "vttTranscript", "table"}
  BY <1>1, DocumentsAssumption
<1>3. QED
  BY <1>1, <1>2 DEF Contents

\* A change of the view, and of nothing else.
LEMMA ViewChanged ==
  ASSUME NEW kept, NEW s, NEW v \in Views, NEW m \in BOOLEAN, NEW f \in BOOLEAN, Good(kept, s, m, f)
  PROVE  LET t == State([s.store EXCEPT !.view = v], s.asked) IN
         /\ Good(kept, t, m, f)
         /\ t.store.view = v /\ t.asked = s.asked
         /\ t.store.resource = s.store.resource /\ t.store.response = s.store.response
<1> DEFINE st == [s.store EXCEPT !.view = v]
<1>1. s.store \in Stores /\ Loaded(s)
  BY DEF Good, StoreStates
<1>2. /\ st \in Stores /\ st.loading = s.store.loading /\ st.resource = s.store.resource
      /\ st.response = s.store.response /\ st.view = v
  BY <1>1 DEF Stores
<1> HIDE DEF st
<1>3. Good(kept, State(st, s.asked), m, f)
  BY <1>1, <1>2, SameLoading DEF Loaded
<1>4. QED
  BY <1>2, <1>3 DEF State, st

LEMMA CombinedViewGood ==
  ASSUME NEW kept, NEW s, NEW m \in BOOLEAN, NEW f \in BOOLEAN, Good(kept, s, m, f)
  PROVE  LET t == CombinedView(s) IN
         /\ Good(kept, t, m, f)
         /\ t.store.resource = s.store.resource /\ t.store.response = s.store.response
<1>1. "combined" \in Views
  BY DEF Views
<1>2. QED
  BY <1>1, ViewChanged DEF CombinedView

\* An updated viewer comes to have a view, if its document has one.
LEMMA ResourceViewGood ==
  ASSUME NEW kept, NEW s, NEW m \in BOOLEAN, NEW f \in BOOLEAN, Good(kept, s, m, f)
  PROVE  LET t == ResourceView(s) IN
         /\ Good(kept, t, m, f)
         /\ t.store.resource = s.store.resource /\ t.store.response = s.store.response
         /\ t.asked = s.asked
         /\ s.store.response \in Unpaged /\ t.store.view = "none"
              => DefaultView(s.store.resource) = "none"
<1> DEFINE v == DefaultView(s.store.resource)
<1>1. v \in Views
  BY DefaultViewIsAView
<1>2. CASE s.store.response \in Unpaged /\ s.store.view = "none"
  <2>1. ResourceView(s) = State([s.store EXCEPT !.view = v], s.asked)
    BY <1>2 DEF ResourceView
  <2> HIDE DEF v
  <2>2. QED
    BY <1>1, <2>1, ViewChanged DEF v
<1>3. CASE ~(s.store.response \in Unpaged /\ s.store.view = "none")
  BY <1>3 DEF ResourceView
<1>4. QED
  BY <1>2, <1>3

\* Displays, of a viewer in a view.
DisplaysInView(st) ==
  LET has == Contained(st.resource) IN
  /\ st.response \in Unpaged /\ st.resource.uri \in Blobs /\ has \cap Fallbacks # {}
  /\ st.view \in NeverLookedFor => st.view \in has
  /\ st.view # "none"
  => Contents(st.resource, st.view) \in has

LEMMA FallbackViewGood ==
  ASSUME NEW kept, NEW s, NEW m \in BOOLEAN, NEW f \in BOOLEAN, Good(kept, s, m, f)
  PROVE  LET t == FallbackView(s) IN
         /\ Good(kept, t, m, f) /\ DisplaysInView(t.store)
         /\ t.store.resource = s.store.resource /\ t.store.response = s.store.response
         /\ t.asked = s.asked
         /\ t.store.view = "none" => s.store.view = "none"
<1> DEFINE r == s.store.resource
           v == DefaultView(r)
           falls == s.store.response # "unknown" /\ s.store.view # "none" /\ v # "none" /\ ~ViewIsValid(s.store.view, r)
<1>1. /\ v \in Views
      /\ r.uri \in Blobs /\ Contained(r) \cap Fallbacks # {} => v # "none" /\ v \in Contained(r)
  BY DefaultViewIsAView
<1>2. \A w \in Contained(r) : Contents(r, w) = w
  BY ShownInItsViews
<1>3. CASE falls
  <2>1. FallbackView(s) = State([s.store EXCEPT !.view = v], s.asked)
    BY <1>3 DEF FallbackView
  <2> HIDE DEF v
  <2>2. LET t == State([s.store EXCEPT !.view = v], s.asked) IN
        /\ Good(kept, t, m, f)
        /\ t.store.view = v /\ t.asked = s.asked
        /\ t.store.resource = s.store.resource /\ t.store.response = s.store.response
    BY <1>1, ViewChanged
  <2>3. v # "none"
    BY <1>3 DEF v
  <2>4. QED
    BY <1>1, <1>2, <2>1, <2>2, <2>3 DEF DisplaysInView
<1>4. CASE ~falls
  <2>1. FallbackView(s) = s
    BY <1>4 DEF FallbackView
  <2>2. DisplaysInView(s.store)
    <3>1. SUFFICES ASSUME s.store.response \in Unpaged, r.uri \in Blobs, Contained(r) \cap Fallbacks # {},
                          s.store.view \in NeverLookedFor => s.store.view \in Contained(r),
                          s.store.view # "none"
                   PROVE  Contents(r, s.store.view) \in Contained(r)
      BY DEF DisplaysInView
    <3>2. s.store.response # "unknown" /\ v # "none"
      BY <1>1, <3>1 DEF Unpaged
    <3>3. s.store.view \in Contained(r)
      BY <1>4, <3>1, <3>2 DEF ViewIsValid
    <3>4. QED
      BY <1>2, <3>3
  <2>3. QED
    BY <2>1, <2>2
<1>5. QED
  BY <1>3, <1>4

LEMMA FreshGood ==
  ASSUME NEW kept, NEW s, NEW fresh \in BOOLEAN, NEW m \in BOOLEAN, NEW f \in BOOLEAN, Good(kept, s, m, f)
  PROVE  LET t == Fresh(s, fresh) IN
         /\ Good(kept, t, m, f)
         /\ t.store.view = s.store.view /\ t.asked = s.asked /\ t.store.fresh = fresh
         /\ t.store.resource = s.store.resource /\ t.store.response = s.store.response
<1> DEFINE st == [s.store EXCEPT !.fresh = fresh]
<1>1. s.store \in Stores /\ Loaded(s)
  BY DEF Good, StoreStates
<1>2. /\ st \in Stores /\ st.loading = s.store.loading /\ st.resource = s.store.resource
      /\ st.response = s.store.response /\ st.view = s.store.view /\ st.fresh = fresh
  BY <1>1 DEF Stores
<1>3. Fresh(s, fresh) = State(st, s.asked)
  BY DEF Fresh
<1> HIDE DEF st
<1>4. Good(kept, State(st, s.asked), m, f)
  BY <1>1, <1>2, SameLoading DEF Loaded
<1>5. QED
  BY <1>2, <1>3, <1>4 DEF State

LEMMA UpdatedGood ==
  ASSUME NEW kept, NEW s, NEW m \in BOOLEAN, NEW f \in BOOLEAN, Good(kept, s, m, f)
  PROVE  /\ Good(kept, Updated(s), m, f) /\ Shows(Updated(s))
         /\ Updated(s).asked = s.asked
<1> DEFINE c == CombinedView(s)
           r == ResourceView(c)
           b == FallbackView(r)
           fresh == FALSE
           u == Fresh(b, fresh)
<1>1. Good(kept, c, m, f) /\ c.asked = s.asked
  BY CombinedViewGood DEF CombinedView, State
<1> HIDE DEF c
<1>2. /\ Good(kept, r, m, f) /\ r.asked = c.asked
      /\ r.store.resource = c.store.resource /\ r.store.response = c.store.response
      /\ c.store.response \in Unpaged /\ r.store.view = "none" => DefaultView(c.store.resource) = "none"
  BY <1>1, ResourceViewGood
<1> HIDE DEF r
<1>3. /\ Good(kept, b, m, f) /\ DisplaysInView(b.store) /\ b.asked = r.asked
      /\ b.store.resource = r.store.resource /\ b.store.response = r.store.response
      /\ b.store.view = "none" => r.store.view = "none"
  BY <1>2, FallbackViewGood
<1> HIDE DEF b
<1>4. /\ Good(kept, u, m, f)
      /\ u.store.view = b.store.view /\ u.asked = b.asked /\ u.store.fresh = fresh
      /\ u.store.resource = b.store.resource /\ u.store.response = b.store.response
  <2>1. fresh \in BOOLEAN
    BY DEF fresh
  <2> HIDE DEF fresh
  <2>2. QED
    BY <1>3, <2>1, FreshGood
<1> HIDE DEF u
<1>5. Updated(s) = u
  BY DEF Updated, c, r, b, u
<1>6. u.store.resource.uri \in Blobs /\ Contained(u.store.resource) \cap Fallbacks # {}
        => DefaultView(u.store.resource) # "none"
  BY DefaultViewIsAView
<1>7. Displays(u.store)
  BY <1>2, <1>3, <1>4, <1>6 DEF Displays, DisplaysInView
<1>8. QED
  BY <1>1, <1>2, <1>3, <1>4, <1>5, <1>7 DEF Shows

LEMMA MountedGood ==
  ASSUME NEW kept, NEW s, NEW m \in BOOLEAN, NEW f \in BOOLEAN, Good(kept, s, m, f)
  PROVE  Good(kept, Mounted(s), m, f) /\ Shows(Mounted(s))
<1> DEFINE fresh == s.store.response \in Unpaged /\ s.store.view = "none" /\ s.store.resource.some
           c == CombinedView(s)
           b == FallbackView(c)
           u == Fresh(b, fresh)
<1>1. /\ Good(kept, c, m, f)
      /\ c.store.resource = s.store.resource /\ c.store.response = s.store.response
      /\ s.store.response \in Unpaged => c.store.view = s.store.view
  BY CombinedViewGood DEF CombinedView, Unpaged
<1>2. s.store \in Stores /\ Loaded(s)
  BY DEF Good, StoreStates
<1>3. fresh \in BOOLEAN
  BY <1>2 DEF Stores, Resources
<1> HIDE DEF c
<1>4. /\ Good(kept, b, m, f) /\ DisplaysInView(b.store)
      /\ b.store.resource = c.store.resource /\ b.store.response = c.store.response
      /\ b.store.view = "none" => c.store.view = "none"
  BY <1>1, FallbackViewGood
<1> HIDE DEF b
<1>5. /\ Good(kept, u, m, f)
      /\ u.store.view = b.store.view /\ u.store.fresh = fresh
      /\ u.store.resource = b.store.resource /\ u.store.response = b.store.response
  <2> HIDE DEF fresh
  <2>1. QED
    BY <1>3, <1>4, FreshGood
<1> HIDE DEF u
<1>6. Mounted(s) = u
  BY DEF Mounted, c, b, u
<1>7. u.store.resource.uri \in Blobs => s.store.resource.some
  <2>1. \A d \in Blobs : d # NoUri
    BY DocumentsAssumption
  <2>2. QED
    BY <1>1, <1>2, <1>4, <1>5, <2>1 DEF Loaded
<1>8. Displays(u.store)
  BY <1>1, <1>4, <1>5, <1>7 DEF Displays, DisplaysInView
<1>9. QED
  BY <1>5, <1>6, <1>8 DEF Shows

-----------------------------------------------------------------------------
(* Coming and going *)

LEMMA EntersViewerGood ==
  ASSUME NEW kept \in Seq(Requests), NEW s, NEW u \in Docs, NEW v \in Views,
         NEW m \in BOOLEAN, NEW f \in BOOLEAN, Good(kept, s, m, f)
  PROVE  Good(kept, EntersViewer(s, u, v), m, f) /\ Shows(EntersViewer(s, u, v))
<1> DEFINE st == [s.store EXCEPT !.view = v, !.response = IF page = "viewer" THEN @ ELSE "unknown"]
           afterwards == State(st, s.asked)
<1>1. u \in Uris /\ s.store \in Stores /\ Loaded(s)
  BY DEF Uris, Good, StoreStates
<1>2. st \in Stores /\ st.loading = s.store.loading /\ st.resource = s.store.resource
  BY <1>1 DEF Stores
<1>3. Good(kept, afterwards, m, f)
  <2> HIDE DEF st
  <2>1. QED
    BY <1>1, <1>2, SameLoading DEF Loaded
<1>4. EntersViewer(s, u, v)
        = Mounted(IF page = "viewer" THEN Leaves(SidebarReceives(afterwards, u)) ELSE SidebarMounts(afterwards, u))
  BY DEF EntersViewer
<1> HIDE DEF afterwards
<1>5. /\ Good(kept, Leaves(SidebarReceives(afterwards, u)), m, f)
      /\ Good(kept, SidebarMounts(afterwards, u), m, f)
  BY <1>1, <1>3, SidebarMountsGood, SidebarReceivesGood, LeavesGood
<1>6. QED
  BY <1>4, <1>5, MountedGood

\* The viewer of the old address, mounted and given another document: that it loads
\* beside its sidebar is an exception.
LEMMA EntersOldViewerGood ==
  ASSUME NEW kept \in Seq(Requests), NEW s, NEW u \in Docs, NEW v \in Views,
         NEW m \in BOOLEAN, NEW f \in BOOLEAN, Good(kept, s, m, f)
  PROVE  Good(kept, EntersOldViewer(s, u, v), m, f) /\ Shows(EntersOldViewer(s, u, v))
<1> DEFINE st == [s.store EXCEPT !.view = v, !.response = "uncounted"]
           afterwards == State(st, s.asked)
           sidebar == SidebarMounts(afterwards, u)
           viewer == ViewerMounts(sidebar, u)
<1>1. u \in Uris /\ s.store \in Stores /\ Loaded(s)
  BY DEF Uris, Good, StoreStates
<1>2. st \in Stores /\ st.loading = s.store.loading /\ st.resource = s.store.resource
  BY <1>1 DEF Stores
<1>3. Good(kept, afterwards, m, f)
  <2> HIDE DEF st
  <2>1. QED
    BY <1>1, <1>2, SameLoading DEF Loaded
<1> HIDE DEF afterwards
<1>4. Good(kept, sidebar, m, f)
  BY <1>1, <1>3, SidebarMountsGood
<1> HIDE DEF sidebar
<1>5. Good(kept, viewer, m, f)
  BY <1>1, <1>4, ViewerMountsGood
<1> HIDE DEF viewer
<1>6. EntersOldViewer(s, u, v) = Mounted(viewer)
  BY DEF EntersOldViewer, viewer, sidebar, afterwards
<1>7. QED
  BY <1>5, <1>6, MountedGood

\* Two loads of one document: only what is waited for matters.
LEMMA GetAgainGood ==
  ASSUME NEW kept \in Seq(Requests), NEW s, NEW u \in Uris, NEW f \in BOOLEAN, Good(kept, s, TRUE, f)
  PROVE  Good(kept, GetResource(s, u), TRUE, f)
<1> DEFINE st == [s.store EXCEPT !.loading = TRUE]
           e == Request("full", u)
<1>1. s.store \in Stores /\ s.asked \in Seq(Requests) /\ Loaded(s)
  BY DEF Good, StoreStates, State
<1>2. st \in Stores /\ st.resource = s.store.resource
  BY <1>1 DEF Stores
<1>3. e \in Requests /\ e \in Full
  BY DEF Request, Requests, Full
<1> HIDE DEF st, e
<1>4. /\ Append(s.asked, e) \in Seq(Requests)
      /\ Queue(kept, s) \in Seq(Requests)
      /\ Queue(kept, State(st, Append(s.asked, e))) = Append(Queue(kept, s), e)
  BY <1>1, <1>3, RequestMore DEF Queue, State
<1>5. Has(Append(Queue(kept, s), e), Full)
  BY <1>3, <1>4, HasMore
<1>6. GetResource(s, u) = State(st, Append(s.asked, e))
  BY DEF GetResource, st, e
<1>7. Good(kept, State(st, Append(s.asked, e)), TRUE, f)
  BY <1>1, <1>2, <1>4, <1>5 DEF Good, StoreStates, Loaded, AskedFor, State
<1>8. QED
  BY <1>6, <1>7

LEMMA OldViewerReceivesGood ==
  ASSUME NEW kept \in Seq(Requests), NEW s, NEW u \in Uris, NEW f \in BOOLEAN, Good(kept, s, TRUE, f)
  PROVE  Good(kept, OldViewerReceives(s, u), TRUE, f)
<1>1. Good(kept, SidebarReceives(s, u), TRUE, f)
  BY SidebarReceivesGood
<1>2. Good(kept, GetResource(SidebarReceives(s, u), u), TRUE, f)
  BY <1>1, GetAgainGood
<1>3. QED
  BY <1>1, <1>2 DEF OldViewerReceives

\* What is drawn of a store when there is no viewer.
LEMMA NoViewGood ==
  ASSUME NEW kept, NEW s, NEW m \in BOOLEAN, NEW f \in BOOLEAN, Good(kept, s, m, f)
  PROVE  LET t == NoView(s) IN
         /\ Good(kept, t, m, f)
         /\ t.store.resource = s.store.resource /\ t.asked = s.asked
<1> DEFINE st == [s.store EXCEPT !.view = "none", !.response = "unknown", !.fresh = FALSE]
<1>1. s.store \in Stores /\ Loaded(s) /\ "none" \in Views
  BY DEF Good, StoreStates, Views
<1>2. st \in Stores /\ st.loading = s.store.loading /\ st.resource = s.store.resource
  BY <1>1 DEF Stores
<1> HIDE DEF st
<1>3. Good(kept, State(st, s.asked), m, f)
  BY <1>1, <1>2, SameLoading DEF Loaded
<1>4. QED
  BY <1>2, <1>3 DEF State, st, NoView

\* The viewer that a directory replaces resets its resource after the directory looks.
LEMMA EntersDirectoryGood ==
  ASSUME NEW kept \in Seq(Requests), NEW s, NEW u \in Dirs, NEW f \in BOOLEAN, Good(kept, s, TRUE, f)
  PROVE  Good(kept, EntersDirectory(s, u), TRUE, f) /\ Finds(kept, EntersDirectory(s, u), u)
<1> DEFINE mounted == IF s.store.resource.uri # u THEN GetBasicResource(s, u) ELSE s
           others == Leaves(mounted)
           after == IF others.store # mounted.store THEN DirectoryUpdates(others, u) ELSE others
           shown == NoView(after)
<1>1. u \in Uris
  BY DEF Uris
<1>2. Good(kept, mounted, TRUE, f) /\ Finds(kept, mounted, u)
  BY <1>1, GetBasicResourceGood DEF Finds
<1>3. EntersDirectory(s, u) = shown
  BY DEF EntersDirectory
<1> HIDE DEF mounted
<1>4. Good(kept, others, TRUE, f) /\ others.asked = mounted.asked
  BY <1>2, LeavesGood
<1> HIDE DEF others
<1>5. others.store = mounted.store => Finds(kept, others, u)
  BY <1>2, <1>4 DEF Finds, Queue
<1>6. Good(kept, after, TRUE, f) /\ Finds(kept, after, u)
  BY <1>1, <1>4, <1>5, DirectoryUpdatesGood
<1> HIDE DEF after
<1>7. /\ Good(kept, shown, TRUE, f)
      /\ shown.store.resource = after.store.resource /\ shown.asked = after.asked
  BY <1>6, NoViewGood
<1>8. Finds(kept, shown, u)
  <2> HIDE DEF shown
  <2>1. QED
    BY <1>6, <1>7 DEF Finds, Queue
<1>9. QED
  BY <1>3, <1>7, <1>8

LEMMA SetCommentsGood ==
  ASSUME NEW kept, NEW s, NEW u \in Uris, NEW m \in BOOLEAN, NEW f \in BOOLEAN, Good(kept, s, m, f)
  PROVE  /\ Good(kept, SetComments(s, u), m, f)
<1> DEFINE r == [s.store.resource EXCEPT !.some = TRUE, !.comments = u]
           st == [s.store EXCEPT !.resource = r]
<1>1. s.store \in Stores
  BY DEF Good, StoreStates
<1>2. st \in Stores /\ st.loading = s.store.loading /\ st.resource.some
  <2>1. s.store.resource \in Resources
    BY <1>1 DEF Stores
  <2>2. r \in Resources /\ r.some
    BY <2>1 DEF Resources
  <2> HIDE DEF r
  <2>3. QED
    BY <1>1, <2>2 DEF Stores
<1>3. SetComments(s, u) = State(st, s.asked)
  BY <1>1 DEF SetComments, Stores
<1> HIDE DEF st
<1>4. QED
  BY <1>2, <1>3, SameLoading

-----------------------------------------------------------------------------
(* Steps *)

\* The requests of a step are in flight after it.
SentFor(kept, s) == store' = s.store /\ flights' = Queue(kept, s)

LEMMA SentGood ==
  ASSUME NEW kept \in Seq(Requests), NEW s, NEW m \in BOOLEAN, NEW f \in BOOLEAN,
         Good(kept, s, m, f), SentFor(kept, s)
  PROVE  /\ store' \in Stores /\ flights' \in Seq(Requests)
         /\ Good(flights', State(store', <<>>), m, f)
         /\ Shows(s) => Shows(State(store', <<>>))
         /\ \A u : Finds(kept, s, u) => Finds(flights', State(store', <<>>), u)
<1>1. /\ s.store \in Stores /\ s.asked \in Seq(Requests)
      /\ store' = s.store /\ flights' = Queue(kept, s)
  BY DEF Good, StoreStates, SentFor, Queue
<1>2. flights' \in Seq(Requests)
  BY <1>1 DEF Queue
<1>3. Queue(flights', State(store', <<>>)) = Queue(kept, s)
  BY <1>1, <1>2 DEF Queue, State
<1>4. State(store', <<>>).store = s.store /\ State(store', <<>>) \in StoreStates
  BY <1>1 DEF State, StoreStates
<1>5. QED
  BY <1>1, <1>2, <1>3, <1>4 DEF Good, Loaded, OneLoad, AskedFor, Shows, Finds

LEMMA ComesToViewer ==
  ASSUME DocumentsInv, NEW kept \in Seq(Requests), NEW u \in Docs, NEW s,
         NEW m \in BOOLEAN, NEW f \in BOOLEAN, Good(kept, s, m, f), Shows(s),
         page' = "viewer", uri' = u, counts' \in {<<>>, Counting("viewer", u)}, SentFor(kept, s),
         moves' \in 0..MaxMoves, mixed' = m, failed' = f
  PROVE  DocumentsInv'
<1>1. /\ store' \in Stores /\ flights' \in Seq(Requests)
      /\ Good(flights', State(store', <<>>), m, f) /\ Shows(State(store', <<>>))
  BY SentGood
<1>2. counts' \in Seq(Docs)
  <2>1. counts \in Seq(Docs)
    BY DEF DocumentsInv, DocumentsTypeOK
  <2>2. Append(counts, u) \in Seq(Docs) /\ Append(<<>>, u) \in Seq(Docs) /\ <<>> \in Seq(Docs)
    BY <2>1
  <2>3. Counting("viewer", u) \in Seq(Docs)
    BY <2>2 DEF Counting
  <2>4. QED
    BY <2>2, <2>3
<1>3. DocumentsTypeOK'
  BY <1>1, <1>2 DEF DocumentsTypeOK, Uris
<1>4. RouteInv' /\ ShowsInv' /\ Good(flights, Now, mixed, failed)'
  BY <1>1 DEF RouteInv, ShowsInv, Now
<1>5. QED
  BY <1>3, <1>4 DEF DocumentsInv

LEMMA ComesToDirectory ==
  ASSUME DocumentsInv, NEW kept \in Seq(Requests), NEW u \in Dirs, NEW s,
         NEW f \in BOOLEAN, Good(kept, s, TRUE, f), Finds(kept, s, u),
         page' = "directory", uri' = u, counts' = Counting("directory", u), SentFor(kept, s),
         moves' \in 0..MaxMoves, mixed', failed' = f
  PROVE  DocumentsInv'
<1>1. /\ store' \in Stores /\ flights' \in Seq(Requests)
      /\ Good(flights', State(store', <<>>), TRUE, f) /\ Finds(flights', State(store', <<>>), u)
  BY SentGood
<1>2. counts' = <<>> /\ counts' \in Seq(Docs)
  BY DEF Counting
<1>3. mixed' \in BOOLEAN /\ (mixed' = TRUE)
  BY DEF DocumentsInv
<1>4. DocumentsTypeOK'
  BY <1>1, <1>2, <1>3 DEF DocumentsTypeOK, Uris
<1>5. RouteInv' /\ ShowsInv' /\ Good(flights, Now, mixed, failed)'
  BY <1>1, <1>2, <1>3 DEF RouteInv, ShowsInv, Now
<1>6. QED
  BY <1>4, <1>5 DEF DocumentsInv

\* A page that draws nothing of the document: no viewer and no directory.
LEMMA ComesElsewhere ==
  ASSUME DocumentsInv, NEW kept \in Seq(Requests), NEW s,
         NEW m \in BOOLEAN, NEW f \in BOOLEAN, Good(kept, s, m, f),
         page' = "elsewhere" \/ (page' = "resources" /\ m), uri' \in Uris \cup {NoUri}, counts' = <<>>, SentFor(kept, s),
         moves' \in 0..MaxMoves, mixed' = m, failed' = f
  PROVE  DocumentsInv'
<1>1. /\ store' \in Stores /\ flights' \in Seq(Requests)
      /\ Good(flights', State(store', <<>>), m, f)
  BY SentGood
<1>2. counts' \in Seq(Docs)
  OBVIOUS
<1>3. DocumentsTypeOK'
  BY <1>1, <1>2 DEF DocumentsTypeOK, Uris
<1>4. RouteInv' /\ ShowsInv' /\ Good(flights, Now, mixed, failed)'
  BY <1>1 DEF RouteInv, ShowsInv, Now
<1>5. QED
  BY <1>3, <1>4 DEF DocumentsInv

\* A page that stays.
LEMMA StaysThere ==
  ASSUME DocumentsInv, NEW kept \in Seq(Requests), NEW s, NEW f \in BOOLEAN,
         Good(kept, s, mixed, f), page = "viewer" => Shows(s),
         page = "directory" /\ ~f => Finds(kept, s, uri),
         UNCHANGED <<page, uri, mixed>>, SentFor(kept, s),
         counts' \in Seq(Docs), page # "viewer" => counts' = <<>>,
         moves' \in 0..MaxMoves, failed' = f
  PROVE  DocumentsInv'
<1>1. mixed \in BOOLEAN
  BY DEF DocumentsInv, DocumentsTypeOK
<1>2. /\ store' \in Stores /\ flights' \in Seq(Requests)
      /\ Good(flights', State(store', <<>>), mixed, f)
      /\ page = "viewer" => Shows(State(store', <<>>))
      /\ page = "directory" /\ ~f => Finds(flights', State(store', <<>>), uri)
  BY <1>1, SentGood
<1>3. DocumentsTypeOK'
  BY <1>2 DEF DocumentsTypeOK, DocumentsInv
<1>4. RouteInv' /\ ShowsInv' /\ Good(flights, Now, mixed, failed)'
  BY <1>2 DEF RouteInv, ShowsInv, Now, DocumentsInv
<1>5. QED
  BY <1>3, <1>4 DEF DocumentsInv

LEMMA MovesOn ==
  ASSUME DocumentsInv, Moves
  PROVE  moves' \in 0..MaxMoves
<1>1. MaxMoves \in Nat
  BY DocumentsAssumption
<1>2. moves \in 0..MaxMoves
  BY DEF DocumentsInv, DocumentsTypeOK
<1>3. QED
  BY <1>1, <1>2 DEF Moves

\* A directory or a redirection that loads is no exception any more.
LEMMA MixedGood ==
  ASSUME NEW kept, NEW s, NEW m \in BOOLEAN, NEW f \in BOOLEAN, Good(kept, s, m, f)
  PROVE  Good(kept, s, TRUE, f)
BY DEF Good

-----------------------------------------------------------------------------
(* The steps of the user *)

LEMMA OpenDocumentSafe ==
  ASSUME DocumentsInv, NEW d \in Docs, NEW v \in Views, OpenDocument(d, v)
  PROVE  DocumentsInv'
<1>1. /\ flights \in Seq(Requests) /\ mixed \in BOOLEAN /\ failed \in BOOLEAN
      /\ Good(flights, Now, mixed, failed)
  BY DEF DocumentsInv, DocumentsTypeOK
<1>2. /\ Good(flights, EntersViewer(Now, d, v), mixed, failed)
      /\ Shows(EntersViewer(Now, d, v))
  BY <1>1, EntersViewerGood
<1>3. QED
  BY <1>1, <1>2, MovesOn, ComesToViewer DEF OpenDocument, Goes, Sends, SentFor, Queue

LEMMA StepToDocumentSafe ==
  ASSUME DocumentsInv, NEW d \in Docs, StepToDocument(d)
  PROVE  DocumentsInv'
<1>1. /\ flights \in Seq(Requests) /\ mixed \in BOOLEAN /\ failed \in BOOLEAN
      /\ Good(flights, Now, mixed, failed) /\ "none" \in Views
  BY DEF DocumentsInv, DocumentsTypeOK, Views
<1>2. PICK v \in {"none", IF store.response = "none" THEN DefaultView(store.resource) ELSE "none"} :
             Goes("viewer", d, EntersViewer(Now, d, v))
  BY DEF StepToDocument
<1>3. v \in Views
  BY <1>1, DefaultViewIsAView
<1>4. /\ Good(flights, EntersViewer(Now, d, v), mixed, failed)
      /\ Shows(EntersViewer(Now, d, v))
  BY <1>1, <1>3, EntersViewerGood
<1>5. mixed' = mixed /\ failed' = failed /\ moves' \in 0..MaxMoves
  BY MovesOn DEF StepToDocument
<1>6. QED
  BY <1>1, <1>2, <1>4, <1>5, ComesToViewer DEF Goes, Sends, SentFor, Queue

LEMMA OpenOldAddressSafe ==
  ASSUME DocumentsInv, NEW d \in Docs, NEW v \in Views, OpenOldAddress(d, v)
  PROVE  DocumentsInv'
<1> DEFINE s == EntersOldViewer(Now, d, v)
<1>1. /\ flights \in Seq(Requests) /\ mixed \in BOOLEAN /\ failed \in BOOLEAN
      /\ Good(flights, Now, mixed, failed)
  BY DEF DocumentsInv, DocumentsTypeOK
<1>2. Good(flights, s, mixed, failed) /\ Shows(s)
  BY <1>1, EntersOldViewerGood
<1> HIDE DEF s
<1>3. /\ page' = "viewer" /\ uri' = d /\ counts' = <<>> /\ SentFor(flights, s)
      /\ mixed' = mixed /\ failed' = failed /\ moves' \in 0..MaxMoves
  BY MovesOn DEF OpenOldAddress, Sends, SentFor, Queue, s
<1>4. QED
  BY <1>1, <1>2, <1>3, ComesToViewer

LEMMA StepOnOldAddressSafe ==
  ASSUME DocumentsInv, NEW d \in Docs, StepOnOldAddress(d)
  PROVE  DocumentsInv'
<1> DEFINE now == Now
           t == State([now.store EXCEPT !.view = "none"], now.asked)
           l == OldViewerReceives(t, d)
           s == Updated(l)
<1>1. /\ flights \in Seq(Requests) /\ failed \in BOOLEAN /\ "none" \in Views
      /\ Good(flights, Now, TRUE, failed) /\ d \in Uris
  BY MixedGood DEF DocumentsInv, DocumentsTypeOK, Views, Uris
<1>2. t = State([store EXCEPT !.view = "none"], <<>>)
  BY DEF Now, State
<1>3. Good(flights, t, TRUE, failed)
  <2> DEFINE m == TRUE
             v == "none"
  <2>1. Good(flights, now, m, failed) /\ m \in BOOLEAN /\ v \in Views
    BY <1>1
  <2> HIDE DEF now, m, v
  <2>2. Good(flights, State([now.store EXCEPT !.view = v], now.asked), m, failed)
    BY <1>1, <2>1, ViewChanged
  <2>3. QED
    BY <2>2 DEF m, v
<1> HIDE DEF t
<1>4. Good(flights, l, TRUE, failed)
  BY <1>1, <1>3, OldViewerReceivesGood
<1> HIDE DEF l
<1>5. Good(flights, s, TRUE, failed) /\ Shows(s)
  BY <1>1, <1>4, UpdatedGood
<1> HIDE DEF s
<1>6. /\ page' = "viewer" /\ uri' = d /\ counts' = <<>> /\ SentFor(flights, s)
      /\ mixed' = TRUE /\ failed' = failed /\ moves' \in 0..MaxMoves
  BY <1>2, MovesOn DEF StepOnOldAddress, Sends, SentFor, Queue, s, l
<1>7. QED
  BY <1>1, <1>5, <1>6, ComesToViewer

\* No view is drawn by a request.
LEMMA SetResourceViewSafe ==
  ASSUME DocumentsInv, NEW v \in Views, SetResourceView(v)
  PROVE  DocumentsInv'
<1> DEFINE t == State([store EXCEPT !.view = v], <<>>)
           w == Updated(t)
<1>1. /\ flights \in Seq(Requests) /\ counts \in Seq(Docs) /\ mixed \in BOOLEAN /\ failed \in BOOLEAN
      /\ Good(flights, Now, mixed, failed) /\ page = "viewer"
      /\ Now.store = store /\ Now.asked = <<>>
  BY DEF DocumentsInv, DocumentsTypeOK, SetResourceView, Now, State
<1>2. Good(flights, t, mixed, failed) /\ t.asked = <<>>
  BY <1>1, ViewChanged
<1>3. store' = w.store
  BY DEF SetResourceView
<1> HIDE DEF t
<1>4. Good(flights, w, mixed, failed) /\ Shows(w) /\ w.asked = t.asked
  BY <1>1, <1>2, UpdatedGood
<1> HIDE DEF w
<1>5. SentFor(flights, w)
  BY <1>1, <1>2, <1>3, <1>4 DEF SentFor, Queue, SetResourceView
<1>6. QED
  BY <1>1, <1>4, <1>5, MovesOn, StaysThere DEF SetResourceView

LEMMA ViewerUpdatesSafe ==
  ASSUME DocumentsInv, ViewerUpdates
  PROVE  DocumentsInv'
<1> DEFINE w == Updated(Now)
<1>1. /\ flights \in Seq(Requests) /\ counts \in Seq(Docs) /\ mixed \in BOOLEAN /\ failed \in BOOLEAN
      /\ Good(flights, Now, mixed, failed) /\ page = "viewer" /\ Now.asked = <<>>
      /\ moves \in 0..MaxMoves
  BY DEF DocumentsInv, DocumentsTypeOK, ViewerUpdates, Now, State
<1>2. store' = w.store
  BY DEF ViewerUpdates
<1>3. Good(flights, w, mixed, failed) /\ Shows(w) /\ w.asked = <<>>
  BY <1>1, UpdatedGood
<1> HIDE DEF w
<1>4. SentFor(flights, w)
  BY <1>1, <1>2, <1>3 DEF SentFor, Queue, ViewerUpdates
<1>5. QED
  BY <1>1, <1>3, <1>4, StaysThere DEF ViewerUpdates

LEMMA OpenDirectorySafe ==
  ASSUME DocumentsInv, NEW u \in Dirs, OpenDirectory(u)
  PROVE  DocumentsInv'
<1>1. /\ flights \in Seq(Requests) /\ failed \in BOOLEAN
      /\ Good(flights, Now, TRUE, failed)
  BY MixedGood DEF DocumentsInv, DocumentsTypeOK
<1>2. /\ Good(flights, EntersDirectory(Now, u), TRUE, failed)
      /\ Finds(flights, EntersDirectory(Now, u), u)
  BY <1>1, EntersDirectoryGood
<1>3. QED
  BY <1>1, <1>2, MovesOn, ComesToDirectory DEF OpenDirectory, Goes, Sends, SentFor, Queue

LEMMA LeaveSafe ==
  ASSUME DocumentsInv, Leave
  PROVE  DocumentsInv'
<1> DEFINE others == Leaves(Now)
           t == NoView(others)
<1>1. /\ flights \in Seq(Requests) /\ mixed \in BOOLEAN /\ failed \in BOOLEAN
      /\ Good(flights, Now, mixed, failed)
  BY DEF DocumentsInv, DocumentsTypeOK
<1>2. Good(flights, others, mixed, failed)
  BY <1>1, LeavesGood
<1>3. page' = "elsewhere" /\ uri' = NoUri /\ counts' = <<>> /\ SentFor(flights, t)
  BY DEF Leave, Goes, Counting, Sends, SentFor, Queue
<1> HIDE DEF others
<1>4. Good(flights, t, mixed, failed)
  BY <1>1, <1>2, NoViewGood
<1> HIDE DEF t
<1>5. /\ uri' \in Uris \cup {NoUri} /\ mixed' = mixed /\ failed' = failed
      /\ moves' \in 0..MaxMoves
  BY <1>3, MovesOn DEF Leave
<1>6. QED
  BY <1>1, <1>3, <1>4, <1>5, ComesElsewhere

LEMMA SearchSafe ==
  ASSUME DocumentsInv, Search
  PROVE  DocumentsInv'
<1> DEFINE t == ResetResource(Now)
<1>1. /\ flights \in Seq(Requests) /\ counts \in Seq(Docs) /\ mixed \in BOOLEAN /\ failed \in BOOLEAN
      /\ Good(flights, Now, mixed, failed) /\ Now.asked = <<>>
      /\ page # "viewer" => counts = <<>>
  BY DEF DocumentsInv, DocumentsTypeOK, RouteInv, Now, State
<1>2. Good(flights, t, mixed, failed) /\ t.asked = <<>>
  BY <1>1, ResetResourceGood
<1>3. SentFor(flights, t) /\ page = "elsewhere"
  <2>1. flights \o <<>> = flights
    BY <1>1
  <2>2. QED
    BY <1>2, <2>1 DEF Search, SentFor, Queue
<1> HIDE DEF t
<1>4. QED
  BY <1>1, <1>2, <1>3, MovesOn, StaysThere DEF Search

\* To a document, or to a directory.
LEMMA RedirectsSafe ==
  ASSUME DocumentsInv, NEW kept \in Seq(Requests), NEW u \in Uris, NEW s, NEW f \in BOOLEAN,
         Good(kept, s, TRUE, f), Redirects(kept, u, s),
         moves' \in 0..MaxMoves, mixed' = TRUE, failed' = f
  PROVE  DocumentsInv'
<1> DEFINE reset == ResetResource(s)
           to == Destination(u)
<1>1. Good(kept, reset, TRUE, f) /\ "none" \in Views
  BY ResetResourceGood DEF Views
<1> HIDE DEF reset
<1>2. to \in Docs \/ (to \in Dirs /\ to \notin Docs)
  BY DocumentsAssumption DEF Destination, Uris
<1>3. /\ page' = (IF to \in Docs THEN "viewer" ELSE "directory") /\ uri' = to
      /\ counts' = Counting(IF to \in Docs THEN "viewer" ELSE "directory", to)
      /\ SentFor(kept, IF to \in Docs THEN EntersViewer(reset, to, "none") ELSE EntersDirectory(reset, to))
  BY DEF Redirects, Sends, SentFor, Queue, reset
<1> HIDE DEF to
<1>4. CASE to \in Docs
  <2>1. Good(kept, EntersViewer(reset, to, "none"), TRUE, f) /\ Shows(EntersViewer(reset, to, "none"))
    BY <1>1, <1>4, EntersViewerGood
  <2>2. QED
    BY <1>3, <1>4, <2>1, ComesToViewer
<1>5. CASE to \in Dirs /\ to \notin Docs
  <2>1. Good(kept, EntersDirectory(reset, to), TRUE, f) /\ Finds(kept, EntersDirectory(reset, to), to)
    BY <1>1, <1>5, EntersDirectoryGood
  <2>2. QED
    BY <1>3, <1>5, <2>1, ComesToDirectory
<1>6. QED
  BY <1>2, <1>4, <1>5

\* /resources redirects at once if the resource is there, and else loads it.
LEMMA OpenResourceSafe ==
  ASSUME DocumentsInv, NEW u \in Uris, OpenResource(u)
  PROVE  DocumentsInv'
<1>1. /\ flights \in Seq(Requests) /\ failed \in BOOLEAN
      /\ Good(flights, Now, TRUE, failed)
      /\ page \in {"elsewhere", "directory"} /\ mixed' = TRUE /\ failed' = failed
      /\ moves' \in 0..MaxMoves
  BY MixedGood, MovesOn DEF DocumentsInv, DocumentsTypeOK, OpenResource
<1>2. CASE store.resource.uri = u
  <2>1. Redirects(flights, u, Now)
    BY <1>2 DEF OpenResource
  <2>2. QED
    BY <1>1, <2>1, RedirectsSafe
<1>3. CASE store.resource.uri # u
  <2>1. Good(flights, GetBasicResource(Now, u), TRUE, failed)
    BY <1>1, GetBasicResourceGood
  <2>2. Goes("resources", u, GetBasicResource(Now, u))
    BY <1>3 DEF OpenResource
  <2>3. page' = "resources" /\ uri' \in Uris \cup {NoUri} /\ counts' = <<>> /\ SentFor(flights, GetBasicResource(Now, u))
    BY <2>2 DEF Goes, Counting, Sends, SentFor, Queue
  <2>4. QED
    BY <1>1, <2>1, <2>3, ComesElsewhere
<1>4. QED
  BY <1>2, <1>3

LEMMA PostCommentSafe ==
  ASSUME DocumentsInv, PostComment
  PROVE  DocumentsInv'
<1> DEFINE e == Request("comments", store.resource.uri)
           q == Append(flights, e)
<1>1. /\ flights \in Seq(Requests) /\ counts \in Seq(Docs) /\ mixed \in BOOLEAN /\ failed \in BOOLEAN
      /\ Good(flights, Now, mixed, failed) /\ page = "viewer" /\ Shows(Now)
      /\ moves' \in 0..MaxMoves
  BY MovesOn DEF DocumentsInv, DocumentsTypeOK, ShowsInv, PostComment
<1>2. e \in Requests /\ e \notin Full /\ e \notin Basic
  BY DEF PostComment, Request, Requests, Full, Basic, Uris
<1>3. flights' = q
  BY DEF PostComment
<1> HIDE DEF e
<1>4. /\ q \in Seq(Requests)
      /\ Has(q, Full) <=> Has(flights, Full)
      /\ Has(q, Basic) <=> Has(flights, Basic)
      /\ AtMostOne(flights, Full) => AtMostOne(q, Full)
  BY <1>1, <1>2, AppendOne, HasMore
<1> HIDE DEF q
<1>5. Queue(flights, Now) = flights /\ Queue(q, Now) = q
  BY <1>1, <1>4, NoRequestMore DEF Now
<1>6. Good(q, Now, mixed, failed)
  BY <1>1, <1>4, <1>5 DEF Good, OneLoad, AskedFor
<1>7. SentFor(q, Now)
  BY <1>3, <1>5 DEF PostComment, SentFor, Now, State
<1>8. QED
  BY <1>1, <1>4, <1>6, <1>7, StaysThere DEF PostComment

-----------------------------------------------------------------------------
(* The answers *)

\* What is left in flight when one is answered.
LEMMA OthersGood ==
  ASSUME DocumentsInv, NEW i \in DOMAIN flights
  PROVE  /\ flights[i] \in Requests
         /\ OtherFlights(i) \in Seq(Requests)
         /\ AtMostOne(flights, Full) => AtMostOne(OtherFlights(i), Full)
         /\ AtMostOne(flights, Full) /\ flights[i] \in Full => ~Has(OtherFlights(i), Full)
         /\ Has(OtherFlights(i), Full) => Has(flights, Full)
         /\ Has(OtherFlights(i), Basic) => Has(flights, Basic)
         /\ flights[i] \notin Full => (Has(flights, Full) => Has(OtherFlights(i), Full))
<1> DEFINE r == RemoveAt(flights, i)
<1>1. flights \in Seq(Requests) /\ flights[i] \in Requests
  BY DEF DocumentsInv, DocumentsTypeOK
<1>2. r \in Seq(Requests)
  BY <1>1, RemoveAtEntries
<1>3. /\ AtMostOne(flights, Full) => AtMostOne(r, Full)
      /\ AtMostOne(flights, Full) /\ flights[i] \in Full => ~Has(r, Full)
  BY <1>1, RemoveOne
<1>4. \A j \in DOMAIN r : \E k \in DOMAIN flights : r[j] = flights[k]
  BY <1>1, RemoveAtOld
<1>5. \A k \in DOMAIN flights : k # i => \E j \in DOMAIN r : r[j] = flights[k]
  BY <1>1, RemoveAtKeeps
<1> HIDE DEF r
<1>6. OtherFlights(i) = r
  BY DEF OtherFlights, r
<1>7. QED
  BY <1>1, <1>2, <1>3, <1>4, <1>5, <1>6 DEF Has

\* What the page makes of what has come: it shows it, finds it, or has nothing to draw.
LEMMA ReactsGood ==
  ASSUME DocumentsInv, NEW kept \in Seq(Requests), NEW s, Good(kept, s, mixed, failed)
  PROVE  /\ Good(kept, Reacts(s), mixed, failed)
         /\ page = "viewer" => Shows(Reacts(s))
         /\ page = "directory" => Finds(kept, Reacts(s), uri)
<1>1. mixed \in BOOLEAN /\ failed \in BOOLEAN
  BY DEF DocumentsInv, DocumentsTypeOK
<1>2. CASE page = "viewer"
  BY <1>1, <1>2, UpdatedGood DEF Reacts
<1>3. CASE page = "directory"
  <2>1. uri \in Uris /\ mixed = TRUE
    BY <1>1, <1>3 DEF DocumentsInv, RouteInv, Uris
  <2>2. QED
    BY <1>1, <1>3, <2>1, DirectoryUpdatesGood DEF Reacts
<1>4. CASE page # "viewer" /\ page # "directory"
  BY <1>4 DEF Reacts
<1>5. QED
  BY <1>2, <1>3, <1>4

\* A page that stays settles with the requests that are left and the ones made.
LEMMA SettlesSafe ==
  ASSUME DocumentsInv, NEW i \in DOMAIN flights, NEW s, Settles(i, s),
         NEW f \in BOOLEAN, Good(OtherFlights(i), s, mixed, f), page = "viewer" => Shows(s),
         page = "directory" /\ ~f => Finds(OtherFlights(i), s, uri),
         UNCHANGED <<moves, mixed>>, failed' = f
  PROVE  DocumentsInv'
<1>1. /\ OtherFlights(i) \in Seq(Requests) /\ SentFor(OtherFlights(i), s)
      /\ UNCHANGED <<page, uri>> /\ moves' \in 0..MaxMoves
  BY OthersGood DEF Settles, Sends, SentFor, Queue, DocumentsInv, DocumentsTypeOK
<1>2. counts' \in Seq(Docs) /\ (page # "viewer" => counts' = <<>>)
  BY DEF Settles, DocumentsInv, DocumentsTypeOK, RouteInv
<1>3. QED
  BY <1>1, <1>2, StaysThere

LEMMA ResourceAnsweredSafe ==
  ASSUME DocumentsInv, NEW i \in DOMAIN flights, ResourceAnswered(i)
  PROVE  DocumentsInv'
<1> DEFINE kept == OtherFlights(i)
           s == HandleResourceResponse(flights[i])
<1>1. /\ flights[i].uri \in Uris /\ kept \in Seq(Requests)
      /\ flights[i] \in Full \/ flights[i] \in Basic
      /\ UNCHANGED <<moves, mixed, failed>>
  BY OthersGood DEF ResourceAnswered, Requests, Full, Basic
<1>2. /\ flights \in Seq(Requests) /\ mixed \in BOOLEAN /\ failed \in BOOLEAN
      /\ store \in Stores /\ moves' \in 0..MaxMoves
      /\ Good(flights, Now, mixed, failed) /\ Queue(flights, Now) = flights
  BY <1>1, NoRequestMore DEF DocumentsInv, DocumentsTypeOK, Now
<1>3. s \in StoreStates /\ ~s.store.loading /\ s.store.resource.some /\ s.asked = <<>>
  <2> DEFINE r == [some |-> TRUE, uri |-> flights[i].uri, comments |-> flights[i].uri,
                   full |-> flights[i].kind = "full" /\ flights[i].uri \notin Bare]
             st == [store EXCEPT !.resource = r, !.loading = FALSE]
  <2>1. r \in Resources /\ r.some
    BY <1>1 DEF Resources
  <2>2. s = State(st, <<>>)
    BY DEF HandleResourceResponse
  <2> HIDE DEF r
  <2>3. st \in Stores /\ ~st.loading /\ st.resource.some
    BY <1>2, <2>1 DEF Stores
  <2> HIDE DEF st
  <2>4. QED
    BY <2>2, <2>3 DEF State, StoreStates
<1>4. Queue(kept, s) = kept
  BY <1>1, <1>3 DEF Queue
<1>5. ASSUME ~mixed PROVE AtMostOne(kept, Full) /\ ~Has(kept, Full) /\ ~Has(kept, Basic)
  <2>1. AtMostOne(flights, Full) /\ ~Has(flights, Basic)
    BY <1>2, <1>5 DEF Good, OneLoad
  <2>2. flights[i] \in Full
    BY <1>1, <2>1 DEF Has
  <2>3. /\ AtMostOne(flights, Full) => AtMostOne(kept, Full)
        /\ AtMostOne(flights, Full) /\ flights[i] \in Full => ~Has(kept, Full)
        /\ Has(kept, Basic) => Has(flights, Basic)
    BY OthersGood
  <2>4. QED
    BY <2>1, <2>2, <2>3
<1> HIDE DEF s
<1>6. Good(kept, s, mixed, failed)
  BY <1>3, <1>4, <1>5 DEF Good, Loaded, OneLoad, AskedFor
<1>7. CASE page = "resources" /\ flights[i].uri = uri
  <2>1. mixed = TRUE
    BY <1>2, <1>7 DEF DocumentsInv, RouteInv
  <2>2. Redirects(kept, uri, s)
    BY <1>7 DEF ResourceAnswered, s
  <2>3. QED
    BY <1>1, <1>2, <1>6, <1>7, <2>1, <2>2, RedirectsSafe
<1>8. CASE ~(page = "resources" /\ flights[i].uri = uri)
  <2>1. Settles(i, Reacts(s))
    BY <1>8 DEF ResourceAnswered, s
  <2>2. /\ Good(kept, Reacts(s), mixed, failed)
        /\ page = "viewer" => Shows(Reacts(s))
        /\ page = "directory" => Finds(kept, Reacts(s), uri)
    BY <1>1, <1>6, ReactsGood
  <2>3. QED
    BY <1>1, <1>2, <2>1, <2>2, SettlesSafe
<1>9. QED
  BY <1>7, <1>8

\* One that waits for an answer, or has seen another come, keeps the rest in flight.
LEMMA OtherAnswerGood ==
  ASSUME DocumentsInv, NEW i \in DOMAIN flights, NEW f \in BOOLEAN,
         f \/ (f = failed /\ flights[i] \notin Full)
  PROVE  Good(OtherFlights(i), Now, mixed, f)
<1> DEFINE kept == OtherFlights(i)
<1>1. /\ flights \in Seq(Requests) /\ kept \in Seq(Requests)
      /\ Good(flights, Now, mixed, failed)
  BY OthersGood DEF DocumentsInv, DocumentsTypeOK
<1>2. Queue(flights, Now) = flights /\ Queue(kept, Now) = kept
  BY <1>1, NoRequestMore DEF Now
<1>3. /\ AtMostOne(flights, Full) => AtMostOne(kept, Full)
      /\ Has(kept, Full) => Has(flights, Full)
      /\ Has(kept, Basic) => Has(flights, Basic)
      /\ flights[i] \notin Full => (Has(flights, Full) => Has(kept, Full))
  BY OthersGood
<1> HIDE DEF kept
<1>4. ~mixed => OneLoad(kept, Now)
  BY <1>1, <1>2, <1>3 DEF Good, OneLoad
<1>5. ~f => AskedFor(kept, Now)
  BY <1>1, <1>2, <1>3 DEF Good, AskedFor
<1>6. QED
  BY <1>1, <1>4, <1>5 DEF Good, kept

LEMMA CommentsAnsweredSafe ==
  ASSUME DocumentsInv, NEW i \in DOMAIN flights, CommentsAnswered(i)
  PROVE  DocumentsInv'
<1> DEFINE kept == OtherFlights(i)
           s == SetComments(Now, flights[i].uri)
<1>1. /\ flights[i].uri \in Uris /\ flights[i] \notin Full /\ kept \in Seq(Requests)
      /\ mixed \in BOOLEAN /\ failed \in BOOLEAN
  BY OthersGood DEF CommentsAnswered, Requests, Full, DocumentsInv, DocumentsTypeOK
<1>2. Good(kept, s, mixed, failed)
  BY <1>1, OtherAnswerGood, SetCommentsGood
<1>3. /\ Good(kept, Reacts(s), mixed, failed)
      /\ page = "viewer" => Shows(Reacts(s))
      /\ page = "directory" => Finds(kept, Reacts(s), uri)
  BY <1>1, <1>2, ReactsGood
<1>4. Settles(i, Reacts(s)) /\ UNCHANGED <<moves, mixed, failed>>
  BY DEF CommentsAnswered
<1>5. QED
  BY <1>1, <1>3, <1>4, SettlesSafe

LEMMA RequestFailedSafe ==
  ASSUME DocumentsInv, NEW i \in DOMAIN flights, RequestFailed(i)
  PROVE  DocumentsInv'
<1>1. Good(OtherFlights(i), Now, mixed, TRUE)
  BY OtherAnswerGood
<1>2. page = "viewer" => Shows(Now)
  BY DEF DocumentsInv, ShowsInv
<1>3. Settles(i, Now) /\ UNCHANGED <<moves, mixed>> /\ failed' = TRUE
  BY DEF RequestFailed
<1>4. QED
  BY <1>1, <1>2, <1>3, SettlesSafe

\* A count is waited for in the viewer only; without pages, it is the viewer that loads.
LEMMA PagesCountedSafe ==
  ASSUME DocumentsInv, NEW i \in DOMAIN counts, NEW response \in {"pages", "none"},
         PagesCounted(i, response), NEW f \in BOOLEAN, failed' = f, failed => f
  PROVE  DocumentsInv'
<1> DEFINE st == [store EXCEPT !.response = response]
           counted == State(st, <<>>)
           s == IF store.response = response THEN Updated(counted)
                ELSE IF response = "none" THEN Mounted(ViewerMounts(counted, uri))
                ELSE IF store.response = "none" THEN Updated(ResetResource(counted))
                ELSE Updated(counted)
<1>1. /\ flights \in Seq(Requests) /\ counts \in Seq(Docs) /\ store \in Stores
      /\ mixed \in BOOLEAN /\ moves \in 0..MaxMoves
      /\ Good(flights, Now, mixed, f) /\ Now.store = store /\ Now.asked = <<>>
  BY DEF DocumentsInv, DocumentsTypeOK, Good, Now, State
<1>2. page = "viewer" /\ uri \in Uris
  BY DEF DocumentsInv, RouteInv, Uris
<1>3. Good(flights, counted, mixed, f)
  <2>1. st \in Stores /\ st.loading = store.loading /\ st.resource = store.resource
    BY <1>1 DEF Stores
  <2> HIDE DEF st
  <2>2. st.resource.uri # NoUri => st.resource.some
    BY <1>1, <2>1 DEF Good, Loaded
  <2>3. QED
    BY <1>1, <2>1, <2>2, SameLoading
<1>4. PagesCounted(i, response)
        <=> /\ UNCHANGED <<page, uri, moves, mixed>>
            /\ counts' = RemoveAt(counts, i)
            /\ Sends(flights, s)
  BY DEF PagesCounted
<1> HIDE DEF counted
<1>5. Good(flights, ViewerMounts(counted, uri), mixed, f) /\ Good(flights, ResetResource(counted), mixed, f)
  BY <1>1, <1>2, <1>3, ViewerMountsGood, ResetResourceGood
<1>6. Good(flights, s, mixed, f) /\ Shows(s)
  <2>1. /\ Good(flights, Updated(counted), mixed, f) /\ Shows(Updated(counted))
        /\ Good(flights, Updated(ResetResource(counted)), mixed, f) /\ Shows(Updated(ResetResource(counted)))
    BY <1>1, <1>3, <1>5, UpdatedGood
  <2>2. /\ Good(flights, Mounted(ViewerMounts(counted, uri)), mixed, f)
        /\ Shows(Mounted(ViewerMounts(counted, uri)))
    BY <1>1, <1>5, MountedGood
  <2>3. QED
    BY <2>1, <2>2
<1> HIDE DEF s
<1>7. counts' \in Seq(Docs)
  BY <1>1, <1>4, RemoveAtEntries
<1>8. SentFor(flights, s)
  BY <1>4 DEF Sends, SentFor, Queue
<1>9. QED
  BY <1>1, <1>2, <1>4, <1>6, <1>7, <1>8, StaysThere

-----------------------------------------------------------------------------
(* The theorems *)

LEMMA DocumentsStart == DocumentsInit => DocumentsInv
<1> SUFFICES ASSUME DocumentsInit
             PROVE  DocumentsInv
  OBVIOUS
<1>1. /\ page = "elsewhere" /\ uri = NoUri /\ flights = <<>> /\ counts = <<>>
      /\ store = [resource |-> NoResource, loading |-> FALSE, response |-> "unknown",
                  view |-> "none", fresh |-> FALSE]
      /\ moves = 0 /\ mixed = FALSE /\ failed = FALSE
  BY DEF DocumentsInit
<1>2. store \in Stores /\ ~store.loading /\ store.resource.uri = NoUri
  BY <1>1 DEF Stores, Resources, NoResource, Views
<1>3. DocumentsTypeOK
  <2>1. MaxMoves \in Nat
    BY DocumentsAssumption
  <2>2. ASSUME NEW S PROVE <<>> \in Seq(S)
    OBVIOUS
  <2>3. {mixed, failed} \subseteq BOOLEAN /\ uri \in Uris \cup {NoUri}
    BY <1>1
  <2>4. moves \in 0..MaxMoves
    BY <1>1, <2>1
  <2>5. QED
    BY <1>1, <1>2, <2>2, <2>3, <2>4 DEF DocumentsTypeOK
<1>4. Now \in StoreStates /\ Now.store = store /\ Queue(flights, Now) = <<>>
  BY <1>1, <1>2 DEF Now, State, StoreStates, Queue
<1>5. Good(flights, Now, mixed, failed)
  <2>1. \A T : AtMostOne(<<>>, T) /\ ~Has(<<>>, T)
    BY DEF AtMostOne, Has
  <2>2. QED
    BY <1>1, <1>2, <1>4, <2>1 DEF Good, Loaded, OneLoad, AskedFor
<1>6. RouteInv /\ ShowsInv
  BY <1>1 DEF RouteInv, ShowsInv
<1>7. QED
  BY <1>3, <1>5, <1>6 DEF DocumentsInv

LEMMA DocumentsStep == DocumentsInv /\ [DocumentsNext]_documentsVars => DocumentsInv'
<1> SUFFICES ASSUME DocumentsInv, [DocumentsNext]_documentsVars
             PROVE  DocumentsInv'
  OBVIOUS
<1>1. CASE \E d \in Docs : StepToDocument(d) \/ StepOnOldAddress(d)
  BY <1>1, StepToDocumentSafe, StepOnOldAddressSafe
<1>2. CASE \E v \in Views : SetResourceView(v)
  BY <1>2, SetResourceViewSafe
<1>3. CASE \E d \in Docs, v \in Views : OpenDocument(d, v) \/ OpenOldAddress(d, v)
  BY <1>3, OpenDocumentSafe, OpenOldAddressSafe
<1>4. CASE \E u \in Dirs : OpenDirectory(u)
  BY <1>4, OpenDirectorySafe
<1>5. CASE \E u \in Uris : OpenResource(u)
  BY <1>5, OpenResourceSafe
<1>6. CASE Leave
  BY <1>6, LeaveSafe
<1>7. CASE Search
  BY <1>7, SearchSafe
<1>8. CASE PostComment \/ ViewerUpdates
  BY <1>8, PostCommentSafe, ViewerUpdatesSafe
<1>9. CASE \E i \in DOMAIN flights : ResourceAnswered(i) \/ CommentsAnswered(i) \/ RequestFailed(i)
  BY <1>9, ResourceAnsweredSafe, CommentsAnsweredSafe, RequestFailedSafe
<1>10. CASE \E i \in DOMAIN counts : PagesAnswered(i) \/ PagesFailed(i)
  <2>1. failed \in BOOLEAN
    BY DEF DocumentsInv, DocumentsTypeOK
  <2>2. ASSUME NEW i \in DOMAIN counts, PagesAnswered(i) PROVE DocumentsInv'
    <3> DEFINE response == IF counts[i] \in Paged THEN "pages" ELSE "none"
    <3>1. response \in {"pages", "none"} /\ PagesCounted(i, response) /\ failed' = failed
      BY <2>2 DEF PagesAnswered
    <3>2. QED
      BY <2>1, <2>2, <3>1, PagesCountedSafe
  <2>3. ASSUME NEW i \in DOMAIN counts, PagesFailed(i) PROVE DocumentsInv'
    BY <2>3, PagesCountedSafe DEF PagesFailed
  <2>4. QED
    BY <1>10, <2>2, <2>3
<1>11. CASE UNCHANGED documentsVars
  BY <1>11 DEF documentsVars, DocumentsInv, DocumentsTypeOK, RouteInv, ShowsInv, Now
<1>12. QED
  BY <1>1, <1>2, <1>3, <1>4, <1>5, <1>6, <1>7, <1>8, <1>9, <1>10, <1>11 DEF DocumentsNext

LEMMA DocumentsSafe == DocumentsSpec => []DocumentsInv
<1>1. QED
  BY DocumentsStart, DocumentsStep, PTL DEF DocumentsSpec

\* For any documents, directories and views, and any number of requests in flight:
\* while only the viewer by pages and its sidebar load, they never have two documents
\* loading at once, and what the viewer waits for is in flight, or a request has
\* failed (Viewer.tsx:103, ViewerSidebar.js:47, resourceReducer.js).
THEOREM LoadsWaitedFor == DocumentsSpec => []LoadsAreWaitedFor
<1>1. DocumentsInv => LoadsAreWaitedFor
  <2> SUFFICES ASSUME DocumentsInv
               PROVE  LoadsAreWaitedFor
    OBVIOUS
  <2>1. /\ flights \in Seq(Requests) /\ Good(flights, Now, mixed, failed)
        /\ Queue(flights, Now) = flights /\ Now.store = store
    BY NoRequestMore DEF DocumentsInv, DocumentsTypeOK, Now, State
  <2>2. Loads = {i \in DOMAIN flights : flights[i] \in Full}
    BY <2>1 DEF Loads, Full
  <2>3. OneLoadAtATime
    <3>1. ASSUME ~mixed PROVE Cardinality(Loads) \in {0, 1}
      BY <2>1, <2>2, <3>1, CountOne DEF Good, OneLoad
    <3>2. QED
      BY <3>1 DEF OneLoadAtATime
  <2>4. LoadingIsAskedFor
    BY <2>1, <2>2 DEF LoadingIsAskedFor, Good, AskedFor, Has
  <2>5. QED
    BY <2>3, <2>4 DEF LoadsAreWaitedFor
<1>2. QED
  BY <1>1, DocumentsSafe, PTL

\* For any of them too: a directory whose address is open comes to show it, once all
\* is answered, and a viewer without pages, updated since it was mounted or in a view,
\* shows something of the file it has, whatever view an address or an answer gave it,
\* but for those of pages and transcripts (Directory.tsx, PreviewSwitcher.tsx, Viewer.tsx
\* componentDidUpdate, resourceUtils.ts getDefaultView).
THEOREM OpenedShown == DocumentsSpec => []OpenedIsShown
<1>1. DocumentsInv => OpenedIsShown
  <2> SUFFICES ASSUME DocumentsInv
               PROVE  OpenedIsShown
    OBVIOUS
  <2>1. /\ ShowsInv /\ flights \in Seq(Requests)
        /\ Queue(flights, Now) = flights /\ Now.store = store
    BY NoRequestMore DEF DocumentsInv, DocumentsTypeOK, Now, State
  <2>2. DirectoryShowsItself
    BY <2>1 DEF DirectoryShowsItself, ShowsInv, Finds, Has
  <2>3. page = "viewer" => Displays(store)
    BY <2>1 DEF ShowsInv, Shows
  <2>4. QED
    BY <2>2, <2>3 DEF OpenedIsShown
<1>2. QED
  BY <1>1, DocumentsSafe, PTL

(***************************************************************************)
(* The uploads: the invariant says of each loop what it waits for and      *)
(* which folders it has created, of each request and each file stored that *)
(* its folder is the one of its path, and of the dialog what it shows of   *)
(* the loop that runs.                                                     *)
(***************************************************************************)

\* The folder of a file, once those on the way to it are there.
Placed(loop, path, folder) ==
  MissingDirs(loop, path) = {} /\ folder = FolderOf(loop, Directories(path))

\* Folders that a loop has created, each in the one of the shorter path.
OneKey(cache) == \A c, d \in cache : c.key = d.key => c = d
Nested(loop, c) == c.key # <<>> /\ (Front(c.key) = <<>> \/ Cached(loop, Front(c.key)))
FolderMade(i, loop, c) == [id |-> c.id, parent |-> FolderOf(loop, Front(c.key)), name |-> Last(c.key), loop |-> i]

WaitsRightly(loop) ==
  /\ loop.waits = "done" <=> loop.queue = <<>>
  /\ loop.waits = "folder" => MissingDirs(loop, Head(loop.queue)) # {}
  /\ loop.waits \in {"upload", "pause"} => MissingDirs(loop, Head(loop.queue)) = {}
  /\ loop.waits = "pause" => loop.retry < RetryLimit
CacheSound(i, loop, made) ==
  OneKey(loop.cache) /\ \A c \in loop.cache : Nested(loop, c) /\ FolderMade(i, loop, c) \in made

WaitedBy(loop, r) == loop.waits = "upload" /\ r.path = Head(loop.queue) /\ r.retry = loop.retry
HeldIn(kept, r) == \E item \in kept : item.folder = r.folder /\ item.path = r.path
\* A file that the server missed is not there yet.
NotYet(kept, r) == \A item \in kept : item.loop = r.loop /\ item.path = r.path => item.late
RequestSound(ls, kept, r) ==
  /\ r.loop \in DOMAIN ls /\ Placed(ls[r.loop], r.path, r.folder)
  /\ r.awaited => WaitedBy(ls[r.loop], r)
  /\ r.stage \in {"found", "stored"} => HeldIn(kept, r)
  /\ r.stage = "missing" /\ r.awaited => NotYet(kept, r)
AwaitedOnce(rs) == \A r, s \in rs : r.awaited /\ s.awaited /\ r.loop = s.loop => r = s
ItemSound(ls, item) == item.loop \in DOMAIN ls /\ Placed(ls[item.loop], item.path, item.folder)

FoldersInv ==
  /\ IsFiniteSet(folders)
  /\ \A f \in folders : f.id \in 2..(Cardinality(folders) + 1) /\ f.parent < f.id
                        /\ (f.parent \in Targets \/ \E g \in folders : g.id = f.parent)
  /\ \A f, g \in folders : f.id = g.id => f = g
LoopsInv ==
  /\ Len(loops) <= MaxLoops
  /\ \A i \in DOMAIN loops : WaitsRightly(loops[i]) /\ CacheSound(i, loops[i], folders)
RequestsInv == AwaitedOnce(requests) /\ \A r \in requests : RequestSound(loops, items, r)
ItemsInv == \A item \in items : ItemSound(loops, item)

\* While no file that was being sent has been dropped again.
Undisturbed(ls, number) == \A i \in DOMAIN ls : ls[i].session = number => ~ls[i].replaced
Running(loop, s) == loop.waits # "done" /\ loop.session = s.number /\ s.active
ShownRunning(loop, fs) == Range(loop.queue) \subseteq DOMAIN fs /\ fs[Head(loop.queue)] = "uploading"
OneShown(ls, s, fs) ==
  \A i \in DOMAIN ls : Running(ls[i], s) =>
     ShownRunning(ls[i], fs) /\ \A j \in DOMAIN ls : j # i => ~Running(ls[j], s)
DialogInv ==
  /\ \A i \in DOMAIN loops : loops[i].session <= session.number
  /\ Undisturbed(loops, session.number) => OneShown(loops, session, files)

UploadInv ==
  /\ UploadsTypeOK /\ FoldersInv /\ LoopsInv /\ RequestsInv /\ ItemsInv /\ DialogInv
  /\ UploadedIsKept /\ TwiceOnlyWhenGivenUp

-----------------------------------------------------------------------------
(* The files of a submission *)

LEMMA InOrderIs ==
  ASSUME NEW P \in SUBSET Paths
  PROVE  InOrder(P) \in Seq(P)
<1> DEFINE N == Len(PathOrder)
<1> DEFINE D == 0..N
<1> DEFINE Base == {n \in D : n = 0}
<1> DEFINE back == [n \in D |-> n - 1]
<1> DEFINE step == [x \in D \X Seq(P) |-> IF PathOrder[x[1]] \in P THEN Append(x[2], PathOrder[x[1]]) ELSE x[2]]
<1> DEFINE chosen == CHOOSE f : f = [n \in D |-> IF n = 0 THEN <<>>
                                       ELSE IF PathOrder[n] \in P THEN Append(f[n - 1], PathOrder[n]) ELSE f[n - 1]]
<1>1. N \in Nat /\ <<>> \in Seq(P)
  BY PathOrderAssumption
<1>2. Descends(D, Seq(P), Base, back, step)
  <2>1. ASSUME NEW n \in D \ Base
        PROVE  back[n] \in D /\ back[n] < n /\ \A v \in Seq(P) : step[<<n, v>>] \in Seq(P)
    BY <1>1
  <2> HIDE DEF D, Base, back, step
  <2>2. QED
    BY <2>1 DEF Descends
<1>3. \E f \in [D -> Seq(P)] : Recursive(f, D, Base, <<>>, back, step)
  <2>1. D \subseteq 0..N
    OBVIOUS
  <2> HIDE DEF D, Base, back, step, N
  <2>2. QED
    BY <1>1, <1>2, <2>1, RecursionExists
<1>4. PICK f \in [D -> Seq(P)] : \A n \in D : f[n] = IF n \in Base THEN <<>> ELSE step[<<n, f[back[n]]>>]
  BY <1>3 DEF Recursive
<1>5. ASSUME NEW n \in D
      PROVE  f[n] = IF n = 0 THEN <<>> ELSE IF PathOrder[n] \in P THEN Append(f[n - 1], PathOrder[n]) ELSE f[n - 1]
  <2>1. f[n] = IF n \in Base THEN <<>> ELSE step[<<n, f[back[n]]>>]
    BY <1>4
  <2>2. CASE n = 0
    BY <2>1, <2>2
  <2>3. CASE n # 0
    <3>1. back[n] = n - 1 /\ n - 1 \in D
      BY <1>1, <2>3
    <3>2. f[n - 1] \in Seq(P)
      BY <3>1
    <3>3. QED
      BY <2>1, <2>3, <3>1, <3>2
  <2>4. QED
    BY <2>2, <2>3
<1>6. f = [n \in D |-> IF n = 0 THEN <<>> ELSE IF PathOrder[n] \in P THEN Append(f[n - 1], PathOrder[n]) ELSE f[n - 1]]
  <2> HIDE DEF D
  <2>1. f = [n \in D |-> f[n]]
    OBVIOUS
  <2>2. QED
    BY <1>5, <2>1
<1>7. chosen = [n \in D |-> IF n = 0 THEN <<>>
                  ELSE IF PathOrder[n] \in P THEN Append(chosen[n - 1], PathOrder[n]) ELSE chosen[n - 1]]
  <2> HIDE DEF D
  <2>1. QED
    BY <1>6
<1>8. InOrder(P) = chosen[N]
  BY DEF InOrder
<1> HIDE DEF chosen
<1>9. chosen \in [D -> Seq(P)]
  <2> DEFINE Reached == {n \in Nat : n \in D => chosen[n] \in Seq(P)}
  <2>1. 0 \in Reached
    <3>1. 0 \in D /\ chosen[0] = <<>>
      BY <1>1, <1>7
    <3> HIDE DEF D
    <3>2. QED
      BY <1>1, <3>1
  <2>2. ASSUME NEW n \in Nat, n \in Reached PROVE n + 1 \in Reached
    <3>1. SUFFICES ASSUME n + 1 \in D PROVE chosen[n + 1] \in Seq(P)
      OBVIOUS
    <3>2. n \in D /\ n + 1 # 0 /\ (n + 1) - 1 = n
      BY <1>1, <3>1
    <3> HIDE DEF D
    <3>3. chosen[n] \in Seq(P)
      BY <2>2, <3>2
    <3>4. chosen[n + 1] = IF PathOrder[n + 1] \in P THEN Append(chosen[n], PathOrder[n + 1]) ELSE chosen[n]
      BY <1>7, <3>1, <3>2
    <3>5. PathOrder[n + 1] \in P => Append(chosen[n], PathOrder[n + 1]) \in Seq(P)
      BY <3>3, AppendProperties
    <3>6. QED
      BY <3>3, <3>4, <3>5
  <2> HIDE DEF Reached
  <2>3. Nat \subseteq Reached
    BY <2>1, <2>2, Induction
  <2>4. D \subseteq Nat /\ \A n \in Reached : n \in D => chosen[n] \in Seq(P)
    BY <1>1 DEF Reached
  <2> HIDE DEF D
  <2>5. DOMAIN chosen = D /\ chosen = [n \in D |-> chosen[n]]
    BY <1>7
  <2>6. QED
    BY <2>3, <2>4, <2>5
<1>10. N \in D
  BY <1>1
<1> HIDE DEF D, N
<1>11. QED
  BY <1>8, <1>9, <1>10

-----------------------------------------------------------------------------
(* Paths and the folders on the way *)

LEMMA PathsAre == \A p \in Paths : p \in Seq(STRING) /\ p # <<>>
BY PathOrderAssumption DEF Paths, Range

LEMMA PrefixIs ==
  ASSUME NEW S, NEW p \in Seq(S), NEW n \in 1..Len(p)
  PROVE  /\ SubSeq(p, 1, n) \in Seq(S) /\ Len(SubSeq(p, 1, n)) = n /\ SubSeq(p, 1, n) # <<>>
         /\ Front(SubSeq(p, 1, n)) = SubSeq(p, 1, n - 1)
         /\ Last(SubSeq(p, 1, n)) = p[n]
<1> DEFINE d == SubSeq(p, 1, n)
<1>1. d \in Seq(S) /\ Len(d) = n /\ d # <<>> /\ \A i \in 1..n : d[i] = p[i]
  OBVIOUS
<1>2. Last(d) = p[n]
  BY <1>1 DEF Last
<1>3. SubSeq(d, 1, n - 1) = SubSeq(p, 1, n - 1)
  <2>1. /\ SubSeq(d, 1, n - 1) \in Seq(S) /\ SubSeq(p, 1, n - 1) \in Seq(S)
        /\ Len(SubSeq(d, 1, n - 1)) = n - 1 /\ Len(SubSeq(p, 1, n - 1)) = n - 1
        /\ \A i \in 1..(n - 1) : SubSeq(d, 1, n - 1)[i] = SubSeq(p, 1, n - 1)[i]
    BY <1>1
  <2>2. QED
    BY <2>1, SeqEqual
<1>4. Front(d) = SubSeq(p, 1, n - 1)
  BY <1>1, <1>3 DEF Front
<1> HIDE DEF d
<1>5. QED
  BY <1>1, <1>2, <1>4 DEF d

LEMMA NoPrefix ==
  ASSUME NEW S, NEW p \in Seq(S)
  PROVE  SubSeq(p, 1, 0) = <<>>
OBVIOUS

LEMMA DirectoriesAre ==
  ASSUME NEW p \in Paths
  PROVE  /\ Directories(p) \in Seq(STRING) /\ Directories(p) = SubSeq(p, 1, Len(p) - 1) /\ Len(p) \in Nat \ {0}
         /\ Len(p) = 1 => Directories(p) = <<>>
         /\ Len(p) # 1 => Len(p) - 1 \in 1..(Len(p) - 1) /\ Directories(p) # <<>>
<1>1. p \in Seq(STRING) /\ p # <<>>
  BY PathsAre
<1>2. Directories(p) = SubSeq(p, 1, Len(p) - 1)
  BY DEF Directories, Front
<1>3. Len(p) \in Nat \ {0}
  BY <1>1
<1>4. Len(p) = 1 => Directories(p) = <<>>
  BY <1>1, <1>2, NoPrefix
<1>5. Len(p) # 1 => Len(p) - 1 \in 1..(Len(p) - 1) /\ Directories(p) # <<>>
  <2>1. SUFFICES ASSUME Len(p) # 1 PROVE Len(p) - 1 \in 1..(Len(p) - 1) /\ Directories(p) # <<>>
    OBVIOUS
  <2> DEFINE n == Len(p) - 1
  <2>2. n \in 1..Len(p) /\ n \in 1..n
    BY <1>3, <2>1
  <2> HIDE DEF n
  <2>3. SubSeq(p, 1, n) # <<>>
    BY <1>1, <2>2, PrefixIs
  <2>4. QED
    BY <1>2, <2>2, <2>3 DEF n
<1>6. QED
  BY <1>1, <1>2, <1>3, <1>4, <1>5

LEMMA FolderIs ==
  ASSUME NEW loop, OneKey(loop.cache), NEW c \in loop.cache, c.key # <<>>
  PROVE  FolderOf(loop, c.key) = c.id
<1>1. (CHOOSE d \in loop.cache : d.key = c.key) = c
  BY DEF OneKey
<1>2. QED
  BY <1>1 DEF FolderOf, CacheKey

\* A loop that has the folders of another, and maybe more.
Extends(loop, next) ==
  /\ next.target = loop.target /\ next.session = loop.session
  /\ loop.cache \subseteq next.cache /\ OneKey(loop.cache) /\ OneKey(next.cache)

LEMMA SameFolder ==
  ASSUME NEW loop, NEW next, Extends(loop, next), NEW dirs, dirs = <<>> \/ Cached(loop, dirs)
  PROVE  FolderOf(next, dirs) = FolderOf(loop, dirs) /\ (dirs = <<>> \/ Cached(next, dirs))
<1>1. CASE dirs = <<>>
  BY <1>1 DEF FolderOf, Extends
<1>2. CASE dirs # <<>>
  <2>1. PICK c \in loop.cache : c.key = dirs
    BY <1>2 DEF Cached, CacheKey
  <2>2. c \in next.cache /\ OneKey(loop.cache) /\ OneKey(next.cache)
    BY <2>1 DEF Extends
  <2>3. FolderOf(next, c.key) = c.id /\ FolderOf(loop, c.key) = c.id
    BY <1>2, <2>1, <2>2, FolderIs
  <2>4. QED
    BY <2>1, <2>2, <2>3 DEF Cached, CacheKey
<1>3. QED
  BY <1>1, <1>2

LEMMA StillPlaced ==
  ASSUME NEW loop, NEW next, Extends(loop, next), NEW path \in Paths, NEW folder, Placed(loop, path, folder)
  PROVE  Placed(next, path, folder)
<1>1. MissingDirs(next, path) = {}
  BY DEF Placed, MissingDirs, Cached, Extends
<1>2. Directories(path) = <<>> \/ Cached(loop, Directories(path))
  BY DirectoriesAre DEF Placed, MissingDirs
<1>3. FolderOf(next, Directories(path)) = FolderOf(loop, Directories(path))
  BY <1>2, SameFolder
<1>4. QED
  BY <1>1, <1>3 DEF Placed

LEMMA MissingSame ==
  ASSUME NEW loop, NEW next, next.cache = loop.cache, NEW path
  PROVE  MissingDirs(next, path) = MissingDirs(loop, path)
BY DEF MissingDirs, Cached

LEMMA FolderTyped ==
  ASSUME NEW loop \in Loops, NEW dirs, dirs = <<>> \/ Cached(loop, dirs)
  PROVE  FolderOf(loop, dirs) \in FolderIds
<1>1. loop.target \in Targets /\ \A c \in loop.cache : c.id \in FolderIds
  BY DEF Loops
<1>2. Targets \subseteq FolderIds
  BY UploadBoundsAssumption DEF Targets, FolderIds, RootFolder, Existing
<1>3. CASE dirs = <<>>
  BY <1>1, <1>2, <1>3 DEF FolderOf
<1>4. CASE dirs # <<>>
  <2>1. PICK c \in loop.cache : c.key = dirs
    BY <1>4 DEF Cached, CacheKey
  <2>2. (CHOOSE d \in loop.cache : d.key = dirs) \in loop.cache
    BY <2>1
  <2>3. QED
    BY <1>1, <1>4, <2>2 DEF FolderOf, CacheKey
<1>5. QED
  BY <1>3, <1>4

-----------------------------------------------------------------------------
(* The next file of a loop *)

LEMMA FirstIs ==
  ASSUME NEW q \in Seq(Paths), ToSend(q) # {}
  PROVE  First(q) \in ToSend(q) /\ First(q) \in 1..Len(q) /\ q[First(q)] \in Paths
<1>1. ToSend(q) \subseteq 1..Len(q)
  BY DEF ToSend
<1>2. ToSend(q) \subseteq Nat
  BY <1>1
<1>3. \E j \in ToSend(q) : \A k \in ToSend(q) : j <= k
  BY <1>2, Least
<1>4. First(q) \in ToSend(q)
  BY <1>3 DEF First
<1>5. QED
  BY <1>1, <1>4

LEMMA Suffix ==
  ASSUME NEW S, NEW q \in Seq(S), NEW j \in 1..Len(q)
  PROVE  /\ SubSeq(q, j, Len(q)) \in Seq(S) /\ SubSeq(q, j, Len(q)) # <<>> /\ Head(SubSeq(q, j, Len(q))) = q[j]
         /\ Range(SubSeq(q, j, Len(q))) \subseteq Range(q)
<1> DEFINE t == SubSeq(q, j, Len(q))
<1>1. t \in Seq(S) /\ Len(t) = Len(q) - j + 1 /\ \A i \in 1..Len(t) : t[i] = q[j + i - 1]
  OBVIOUS
<1>2. t # <<>> /\ Head(t) = q[j]
  <2>1. Len(t) \in Nat \ {0} /\ 1 \in 1..Len(t) /\ j + 1 - 1 = j
    BY <1>1
  <2>2. t[1] = q[j]
    BY <1>1, <2>1
  <2> HIDE DEF t
  <2>3. QED
    BY <1>1, <2>1, <2>2
<1>3. ASSUME NEW x \in Range(t) PROVE x \in Range(q)
  <2>1. PICK i \in DOMAIN t : x = t[i]
    BY DEF Range
  <2>2. j + i - 1 \in DOMAIN q /\ x = q[j + i - 1]
    BY <1>1, <2>1
  <2>3. QED
    BY <2>2 DEF Range
<1> HIDE DEF t
<1>4. QED
  BY <1>1, <1>2, <1>3 DEF t

\* A loop that goes on with the first file of q that is not too large.
GoesOn(loop, q, next) ==
  /\ next \in Loops /\ WaitsRightly(next) /\ next.waits # "pause"
  /\ next.cache = loop.cache /\ next.target = loop.target /\ next.session = loop.session
  /\ next.replaced = loop.replaced
  /\ Range(next.queue) \subseteq Range(q)
  /\ IF ToSend(q) = {} THEN next.queue = <<>> ELSE next.queue # <<>> /\ Head(next.queue) = q[First(q)]

LEMMA ProceedingIs ==
  ASSUME NEW loop \in Loops, session.active \in BOOLEAN, loop.queue # <<>>, NEW next, next = Proceeding(loop)
  PROVE  /\ next \in Loops /\ WaitsRightly(next) /\ next.waits # "pause" /\ next.cache = loop.cache
         /\ next.target = loop.target /\ next.session = loop.session /\ next.queue = loop.queue
         /\ next.retry = loop.retry /\ next.replaced = loop.replaced
<1>1. loop = [session |-> loop.session, target |-> loop.target, queue |-> loop.queue, cache |-> loop.cache,
              waits |-> loop.waits, token |-> loop.token, retry |-> loop.retry, replaced |-> loop.replaced]
  BY DEF Loops
<1> DEFINE w == IF MissingDirs(loop, Head(loop.queue)) = {} THEN "upload" ELSE "folder"
<1>2. next = [loop EXCEPT !.waits = w, !.token = session.active]
  BY DEF Proceeding
<1>3. w \in {"upload", "folder"} /\ (w = "upload" <=> MissingDirs(loop, Head(loop.queue)) = {})
  OBVIOUS
<1> HIDE DEF w
<1>4. /\ next \in Loops /\ next.waits = w /\ next.cache = loop.cache
      /\ next.target = loop.target /\ next.session = loop.session /\ next.queue = loop.queue
      /\ next.retry = loop.retry /\ next.replaced = loop.replaced
  BY <1>1, <1>2, <1>3 DEF Loops, Waits
<1>5. MissingDirs(next, Head(next.queue)) = MissingDirs(loop, Head(loop.queue))
  BY <1>4, MissingSame
<1>6. WaitsRightly(next)
  BY <1>3, <1>4, <1>5 DEF WaitsRightly
<1>7. QED
  BY <1>3, <1>4, <1>6

LEMMA NextFileIs ==
  ASSUME NEW loop \in Loops, NEW q \in Seq(Paths), session.active \in BOOLEAN
  PROVE  GoesOn(loop, q, NextFile(loop, q))
<1> DEFINE next == NextFile(loop, q)
<1>1. loop = [session |-> loop.session, target |-> loop.target, queue |-> loop.queue, cache |-> loop.cache,
              waits |-> loop.waits, token |-> loop.token, retry |-> loop.retry, replaced |-> loop.replaced]
  BY DEF Loops
<1>2. CASE ToSend(q) = {}
  <2>1. next = [loop EXCEPT !.queue = <<>>, !.waits = "done"]
    BY <1>2 DEF NextFile
  <2>0. <<>> \in Seq(Paths) /\ Range(<<>>) = {}
    BY DEF Range
  <2>2. /\ next \in Loops /\ next.waits = "done" /\ next.queue = <<>> /\ next.cache = loop.cache
        /\ next.target = loop.target /\ next.session = loop.session /\ next.replaced = loop.replaced
    BY <1>1, <2>0, <2>1 DEF Loops, Waits
  <2> HIDE DEF next
  <2>3. WaitsRightly(next)
    BY <2>2 DEF WaitsRightly
  <2>4. GoesOn(loop, q, next)
    BY <1>2, <2>0, <2>2, <2>3 DEF GoesOn
  <2>5. QED
    BY <2>4 DEF next
<1>3. CASE ToSend(q) # {}
  <2> DEFINE t == SubSeq(q, First(q), Len(q))
  <2> DEFINE start == [loop EXCEPT !.queue = t, !.retry = 0]
  <2>1. t \in Seq(Paths) /\ t # <<>> /\ Head(t) = q[First(q)] /\ Range(t) \subseteq Range(q)
    BY <1>3, FirstIs, Suffix
  <2>2. next = Proceeding(start)
    BY <1>3 DEF NextFile
  <2> HIDE DEF t
  <2>3. /\ start \in Loops /\ start.queue = t /\ start.cache = loop.cache
        /\ start.target = loop.target /\ start.session = loop.session /\ start.replaced = loop.replaced
    <3>1. start = [loop EXCEPT !.queue = t, !.retry = 0]
      OBVIOUS
    <3>2. 0 \in 0..RetryLimit
      BY RetryLimitAssumption
    <3> HIDE DEF start
    <3>3. QED
      BY <1>1, <2>1, <3>1, <3>2 DEF Loops
  <2> HIDE DEF start, next
  <2>4. /\ next \in Loops /\ WaitsRightly(next) /\ next.waits # "pause" /\ next.cache = start.cache
        /\ next.target = start.target /\ next.session = start.session /\ next.queue = start.queue
        /\ next.replaced = start.replaced
    BY <2>1, <2>2, <2>3, ProceedingIs
  <2>5. GoesOn(loop, q, next)
    BY <1>3, <2>1, <2>3, <2>4 DEF GoesOn
  <2>6. QED
    BY <2>5 DEF next
<1>4. QED
  BY <1>2, <1>3

-----------------------------------------------------------------------------
(* A loop goes on, or starts *)

LEMMA SentIs ==
  ASSUME NEW i \in 1..MaxLoops, NEW loop \in Loops, WaitsRightly(loop), NEW r \in Sent(i, loop)
  PROVE  /\ r \in UploadRequests /\ r.loop = i /\ r.awaited /\ r.stage = "sent"
         /\ WaitedBy(loop, r) /\ Placed(loop, r.path, r.folder)
         /\ \A s \in Sent(i, loop) : s = r
<1> DEFINE path == Head(loop.queue)
<1>1. loop.waits = "upload" /\ loop.queue # <<>> /\ loop.queue \in Seq(Paths)
  BY DEF Sent, WaitsRightly, Loops
<1>2. path \in Paths /\ MissingDirs(loop, path) = {}
  BY <1>1 DEF WaitsRightly
<1>3. r = [loop |-> i, path |-> path, folder |-> FolderOf(loop, Directories(path)),
           retry |-> loop.retry, token |-> loop.token, stage |-> "sent", awaited |-> TRUE]
      /\ \A s \in Sent(i, loop) : s = r
  BY <1>1 DEF Sent
<1>4. Directories(path) = <<>> \/ Cached(loop, Directories(path))
  BY <1>2, DirectoriesAre DEF MissingDirs
<1>5. FolderOf(loop, Directories(path)) \in FolderIds
  BY <1>4, FolderTyped
<1>6. loop.retry \in 0..RetryLimit /\ loop.token \in BOOLEAN
  BY DEF Loops
<1> HIDE DEF path
<1>7. r \in UploadRequests
  BY <1>2, <1>3, <1>5, <1>6 DEF UploadRequests
<1>8. WaitedBy(loop, r)
  BY <1>1, <1>3 DEF WaitedBy, path
<1>9. Placed(loop, r.path, r.folder)
  BY <1>2, <1>3 DEF Placed
<1>10. QED
  BY <1>3, <1>7, <1>8, <1>9

\* The loops and requests as they are, with more folders and other requests kept.
Kept(rest, i) ==
  /\ rest \subseteq UploadRequests /\ AwaitedOnce(rest)
  /\ \A r \in rest : RequestSound(loops, items, r) /\ (r.awaited => r.loop # i)

LEMMA LoopGoes ==
  ASSUME UploadInv, NEW i \in DOMAIN loops, NEW next \in Loops, Extends(loops[i], next), WaitsRightly(next),
         CacheSound(i, next, folders'), folders \subseteq folders', NEW rest, Kept(rest, i),
         loops' = [loops EXCEPT ![i] = next], requests' = rest \cup Sent(i, next), items' = items
  PROVE  /\ loops' \in Seq(Loops) /\ requests' \subseteq UploadRequests
         /\ LoopsInv' /\ RequestsInv' /\ ItemsInv' /\ TwiceOnlyWhenGivenUp'
<1>1. loops \in Seq(Loops) /\ LoopsInv /\ RequestsInv /\ ItemsInv /\ TwiceOnlyWhenGivenUp /\ items \subseteq Items
  BY DEF UploadInv, UploadsTypeOK
<1>2. /\ loops' \in Seq(Loops) /\ Len(loops') = Len(loops) /\ DOMAIN loops' = DOMAIN loops
      /\ loops'[i] = next /\ \A j \in DOMAIN loops : j # i => loops'[j] = loops[j]
  BY <1>1
<1>3. i \in 1..MaxLoops
  BY <1>1, UploadBoundsAssumption DEF LoopsInv
<1>4. LoopsInv'
  <2>1. Len(loops') <= MaxLoops
    BY <1>1, <1>2 DEF LoopsInv
  <2>2. ASSUME NEW j \in DOMAIN loops' PROVE WaitsRightly(loops'[j]) /\ CacheSound(j, loops'[j], folders')
    BY <1>1, <1>2 DEF LoopsInv, CacheSound
  <2>3. QED
    BY <2>1, <2>2 DEF LoopsInv
<1>5. ASSUME NEW j \in DOMAIN loops, NEW path \in Paths, NEW folder, Placed(loops[j], path, folder)
      PROVE  Placed(loops'[j], path, folder)
  BY <1>2, <1>5, StillPlaced
<1>6. ASSUME NEW r \in requests' PROVE RequestSound(loops', items', r) /\ r \in UploadRequests
  <2>1. CASE r \in Sent(i, next)
    <3>1. /\ r \in UploadRequests /\ r.loop = i /\ r.stage = "sent"
          /\ WaitedBy(next, r) /\ Placed(next, r.path, r.folder)
      BY <1>3, <2>1, SentIs
    <3>2. QED
      BY <1>2, <3>1 DEF RequestSound
  <2>2. CASE r \in rest
    <3>1. r \in UploadRequests /\ RequestSound(loops, items, r) /\ (r.awaited => r.loop # i)
      BY <2>2 DEF Kept
    <3>2. r.path \in Paths /\ r.loop \in DOMAIN loops
      BY <3>1 DEF UploadRequests, RequestSound
    <3>3. Placed(loops'[r.loop], r.path, r.folder)
      BY <1>5, <3>1, <3>2 DEF RequestSound
    <3>4. r.awaited => loops'[r.loop] = loops[r.loop]
      BY <1>2, <3>1, <3>2
    <3>5. QED
      BY <1>2, <3>1, <3>2, <3>3, <3>4 DEF RequestSound
  <2>3. QED
    BY <2>1, <2>2
<1>7. AwaitedOnce(requests')
  <2>1. ASSUME NEW r \in Sent(i, next) PROVE r.loop = i /\ \A s \in Sent(i, next) : s = r
    BY <1>3, SentIs
  <2>2. QED
    BY <2>1 DEF Kept, AwaitedOnce
<1>8. RequestsInv'
  BY <1>6, <1>7 DEF RequestsInv, AwaitedOnce, RequestSound, HeldIn, NotYet
<1>9. ItemsInv'
  <2>1. ASSUME NEW item \in items PROVE ItemSound(loops', item)
    <3>1. item.path \in Paths /\ ItemSound(loops, item)
      BY <1>1 DEF Items, ItemsInv
    <3>2. QED
      BY <1>2, <1>5, <3>1 DEF ItemSound
  <2>2. QED
    BY <2>1 DEF ItemsInv, ItemSound
<1>10. TwiceOnlyWhenGivenUp'
  BY <1>1 DEF TwiceOnlyWhenGivenUp
<1>11. QED
  BY <1>2, <1>4, <1>6, <1>8, <1>9, <1>10

-----------------------------------------------------------------------------
(* What the dialog shows *)

\* The files of the dialog after another loop step.
FilesNow(old, now, q, p, state) ==
  /\ DOMAIN now = DOMAIN old /\ now \in [DOMAIN old -> States]
  /\ \A x \in DOMAIN old : now[x] \in {old[x], "failed", "uploading"} \/ (x = p /\ now[x] = state)
  /\ ToSend(q) # {} /\ q[First(q)] \in DOMAIN old => now[q[First(q)]] = "uploading"

LEMMA ShownForIs ==
  ASSUME NEW D, NEW old \in [D -> States], NEW q \in Seq(Paths), NEW p, NEW state \in States
  PROVE  FilesNow(old, ShownFor(q, SetUploadState(old, p, state)), q, p, state)
<1> DEFINE set == SetUploadState(old, p, state)
<1> DEFINE skipped == {q[j] : j \in {j \in DOMAIN q : ToSend(q) # {} => j < First(q)}}
<1> DEFINE current == IF ToSend(q) = {} THEN {} ELSE {q[First(q)]}
<1>1. set \in [D -> States] /\ \A x \in D : set[x] = old[x] \/ (x = p /\ set[x] = state)
  BY DEF SetUploadState
<1>2. ToSend(q) # {} => q[First(q)] \in current /\ q[First(q)] \notin skipped
  <2>1. SUFFICES ASSUME ToSend(q) # {} PROVE q[First(q)] \in current /\ q[First(q)] \notin skipped
    OBVIOUS
  <2>2. First(q) \in ToSend(q) /\ q[First(q)] \notin TooLarge /\ First(q) \in 1..Len(q)
    BY <2>1, FirstIs DEF ToSend
  <2>3. \A k \in ToSend(q) : First(q) <= k
    <3>1. ToSend(q) \subseteq Nat
      BY DEF ToSend
    <3>2. \E j \in ToSend(q) : \A k \in ToSend(q) : j <= k
      BY <2>1, <3>1, Least
    <3>3. QED
      BY <3>2 DEF First
  <2>4. ASSUME NEW j \in DOMAIN q, j < First(q) PROVE q[j] \in TooLarge
    BY <2>2, <2>3, <2>4 DEF ToSend
  <2>5. QED
    BY <2>1, <2>2, <2>4
<1> HIDE DEF set, skipped, current
<1>3. ShownFor(q, set) = [x \in DOMAIN set |-> IF x \in skipped THEN "failed"
                                               ELSE IF x \in current THEN "uploading" ELSE set[x]]
  BY DEF ShownFor, skipped, current
<1> DEFINE now == ShownFor(q, set)
<1>4. now \in [D -> States] /\ \A x \in D : now[x] \in {set[x], "failed", "uploading"}
  BY <1>1, <1>3 DEF States
<1>5. ToSend(q) # {} /\ q[First(q)] \in D => now[q[First(q)]] = "uploading"
  BY <1>1, <1>2, <1>3
<1> HIDE DEF now
<1>6. FilesNow(old, now, q, p, state)
  BY <1>1, <1>4, <1>5 DEF FilesNow
<1>7. QED
  BY <1>6 DEF now, set

LEMMA RangeOfTail ==
  ASSUME NEW S, NEW q \in Seq(S), q # <<>>
  PROVE  Range(Tail(q)) \subseteq Range(q) /\ Tail(q) \in Seq(S) /\ Head(q) \in Range(q) /\ Head(q) \in S
<1>1. \A i \in DOMAIN Tail(q) : i + 1 \in DOMAIN q /\ Tail(q)[i] = q[i + 1]
  OBVIOUS
<1>2. QED
  BY <1>1 DEF Range

\* What a step of loop i has to leave as it was for the other loops.
Alike(loop, next) == next.session = loop.session /\ next.replaced = loop.replaced

LEMMA UndisturbedSame ==
  ASSUME NEW ls, NEW now, DOMAIN now = DOMAIN ls, \A j \in DOMAIN ls : Alike(ls[j], now[j]), NEW number
  PROVE  Undisturbed(now, number) <=> Undisturbed(ls, number)
BY DEF Undisturbed, Alike

\* The current file is uploaded or has failed.
LEMMA DialogGoesOn ==
  ASSUME UploadInv, NEW i \in DOMAIN loops, loops[i].waits # "done", NEW next,
         GoesOn(loops[i], Tail(loops[i].queue), next), loops' = [loops EXCEPT ![i] = next],
         NEW state \in {"failed", "uploaded"}, session' = session, items \subseteq items',
         Dispatched(loops[i], ShownFor(Tail(loops[i].queue), SetUploadState(files, Head(loops[i].queue), state))),
         state = "uploaded" => \E item \in items : item.path = Head(loops[i].queue)
  PROVE  DOMAIN files' = DOMAIN files /\ files' \in [DOMAIN files -> States] /\ DialogInv' /\ UploadedIsKept'
<1> DEFINE q == Tail(loops[i].queue)
<1> DEFINE p == Head(loops[i].queue)
<1> DEFINE new == ShownFor(q, SetUploadState(files, p, state))
<1>1. loops \in Seq(Loops) /\ LoopsInv /\ DialogInv /\ UploadedIsKept /\ files \in [DOMAIN files -> States]
      /\ session \in [number : 1..MaxSessions, active : BOOLEAN]
  BY DEF UploadInv, UploadsTypeOK
<1>2. loops[i].queue \in Seq(Paths) /\ loops[i].queue # <<>>
  <2>1. loops[i] \in Loops
    BY <1>1
  <2>2. QED
    BY <1>1, <2>1 DEF Loops, LoopsInv, WaitsRightly
<1>3. q \in Seq(Paths) /\ Range(q) \subseteq Range(loops[i].queue)
  BY <1>2, RangeOfTail
<1>4. state \in States
  BY DEF States
<1>5. FilesNow(files, new, q, p, state)
  <2> HIDE DEF q, p
  <2>1. QED
    BY <1>1, <1>3, <1>4, ShownForIs
<1>6. /\ DOMAIN loops' = DOMAIN loops /\ loops'[i] = next
      /\ \A j \in DOMAIN loops : j # i => loops'[j] = loops[j]
  BY <1>1
<1>7. GoesOn(loops[i], q, next)
  OBVIOUS
<1>8. files' = IF session.active /\ loops[i].session = session.number THEN new ELSE files
  BY DEF Dispatched, Shown
<1>9. state = "uploaded" => \E item \in items : item.path = p
  OBVIOUS
<1> HIDE DEF q, p, new
<1>10. DOMAIN files' = DOMAIN files /\ files' \in [DOMAIN files -> States]
  BY <1>1, <1>5, <1>8 DEF FilesNow
<1>11. UploadedIsKept'
  <2>1. ASSUME NEW x \in DOMAIN files, files'[x] = "uploaded" PROVE \E item \in items : item.path = x
    <3>1. CASE files' = files
      BY <1>1, <2>1, <3>1 DEF UploadedIsKept
    <3>2. CASE files' = new
      <4>1. files[x] = "uploaded" \/ (x = p /\ state = "uploaded")
        BY <1>5, <2>1, <3>2 DEF FilesNow
      <4>2. QED
        BY <1>1, <1>9, <4>1 DEF UploadedIsKept
    <3>3. QED
      BY <1>8, <3>1, <3>2
  <2>2. QED
    BY <1>10, <2>1 DEF UploadedIsKept
<1>12. \A j \in DOMAIN loops : Alike(loops[j], loops'[j])
  BY <1>6, <1>7 DEF Alike, GoesOn
<1>13. ASSUME Undisturbed(loops', session.number) PROVE OneShown(loops', session, files')
  <2>1. OneShown(loops, session, files)
    BY <1>1, <1>6, <1>12, <1>13, UndisturbedSame DEF DialogInv
  <2>2. ASSUME NEW j \in DOMAIN loops, Running(loops'[j], session) PROVE Running(loops[j], session)
    <3>1. CASE j = i
      BY <1>6, <1>7, <2>2, <3>1 DEF Running, GoesOn
    <3>2. CASE j # i
      BY <1>6, <2>2, <3>2
    <3>3. QED
      BY <3>1, <3>2
  <2>3. ASSUME NEW j \in DOMAIN loops, Running(loops'[j], session) PROVE ShownRunning(loops'[j], files')
    <3>1. Running(loops[j], session) /\ ShownRunning(loops[j], files) /\ \A k \in DOMAIN loops : k # j => ~Running(loops[k], session)
      BY <2>1, <2>2, <2>3 DEF OneShown
    <3>2. CASE j = i
      <4>1. files' = new
        BY <1>8, <3>1, <3>2 DEF Running
      <4>2. Range(next.queue) \subseteq DOMAIN files
        BY <1>3, <1>7, <3>1, <3>2 DEF GoesOn, ShownRunning
      <4>3. next.waits # "done" /\ next.queue # <<>> /\ next.queue \in Seq(Paths)
        BY <1>6, <1>7, <2>3, <3>2 DEF Running, GoesOn, WaitsRightly, Loops
      <4>4. ToSend(q) # {} /\ Head(next.queue) = q[First(q)]
        BY <1>7, <4>3 DEF GoesOn
      <4>5. Head(next.queue) \in DOMAIN files
        BY <4>2, <4>3, RangeOfTail
      <4>6. QED
        BY <1>5, <1>6, <3>2, <4>1, <4>2, <4>4, <4>5 DEF FilesNow, ShownRunning
    <3>3. CASE j # i
      <4>1. ~Running(loops[i], session)
        BY <3>1, <3>3
      <4>2. files' = files
        BY <1>8, <4>1 DEF Running
      <4>3. QED
        BY <1>6, <3>1, <3>3, <4>2
    <3>4. QED
      BY <3>2, <3>3
  <2>4. \A j, k \in DOMAIN loops : Running(loops'[j], session) /\ k # j => ~Running(loops'[k], session)
    BY <2>1, <2>2 DEF OneShown
  <2>5. QED
    BY <1>6, <2>3, <2>4 DEF OneShown
<1>14. \A j \in DOMAIN loops' : loops'[j].session <= session.number
  BY <1>1, <1>6, <1>12 DEF DialogInv, Alike
<1>15. DialogInv'
  BY <1>13, <1>14 DEF DialogInv, Undisturbed, OneShown, Running, ShownRunning
<1>16. QED
  BY <1>10, <1>11, <1>15

\* The loop stays at its file, and what is shown stays too.
LEMMA DialogStays ==
  ASSUME UploadInv, DOMAIN loops' = DOMAIN loops, session' = session, files' = files, items \subseteq items',
         \A j \in DOMAIN loops : /\ Alike(loops[j], loops'[j]) /\ loops'[j].queue = loops[j].queue
                                 /\ loops'[j].waits = "done" <=> loops[j].waits = "done"
  PROVE  DialogInv' /\ UploadedIsKept'
<1>1. DialogInv /\ UploadedIsKept
  BY DEF UploadInv
<1>2. Undisturbed(loops', session.number) <=> Undisturbed(loops, session.number)
  BY UndisturbedSame
<1>3. \A j \in DOMAIN loops : (Running(loops'[j], session) <=> Running(loops[j], session))
                              /\ (ShownRunning(loops'[j], files) <=> ShownRunning(loops[j], files))
  BY DEF Running, ShownRunning, Alike
<1>4. OneShown(loops', session, files) <=> OneShown(loops, session, files)
  BY <1>3 DEF OneShown
<1>5. \A j \in DOMAIN loops' : loops'[j].session <= session.number
  BY <1>1 DEF DialogInv, Alike
<1>6. DialogInv'
  BY <1>1, <1>2, <1>4, <1>5 DEF DialogInv, Undisturbed, OneShown, Running, ShownRunning
<1>7. UploadedIsKept'
  BY <1>1 DEF UploadedIsKept
<1>8. QED
  BY <1>6, <1>7

-----------------------------------------------------------------------------
(* The steps of a loop *)

LEMMA LoopIs ==
  ASSUME UploadInv, NEW i \in DOMAIN loops
  PROVE  /\ loops[i] \in Loops /\ WaitsRightly(loops[i]) /\ CacheSound(i, loops[i], folders)
         /\ OneKey(loops[i].cache) /\ Extends(loops[i], loops[i]) /\ i \in 1..MaxLoops /\ session.active \in BOOLEAN
         /\ loops[i].waits # "done" =>
              /\ loops[i].queue \in Seq(Paths) /\ loops[i].queue # <<>> /\ Head(loops[i].queue) \in Paths
              /\ Tail(loops[i].queue) \in Seq(Paths)
         /\ loops[i].waits # "upload" => Kept(requests, i)
<1>1. loops \in Seq(Loops) /\ LoopsInv /\ RequestsInv /\ requests \subseteq UploadRequests
      /\ session \in [number : 1..MaxSessions, active : BOOLEAN]
  BY DEF UploadInv, UploadsTypeOK
<1>2. loops[i] \in Loops /\ WaitsRightly(loops[i]) /\ CacheSound(i, loops[i], folders)
  BY <1>1 DEF LoopsInv
<1>3. i \in 1..MaxLoops
  BY <1>1, UploadBoundsAssumption DEF LoopsInv
<1>4. OneKey(loops[i].cache) /\ Extends(loops[i], loops[i])
  BY <1>2 DEF CacheSound, Extends
<1>5. loops[i].waits # "done" => loops[i].queue \in Seq(Paths) /\ loops[i].queue # <<>>
  BY <1>2 DEF Loops, WaitsRightly
<1>6. loops[i].waits # "upload" => Kept(requests, i)
  BY <1>1 DEF RequestsInv, RequestSound, WaitedBy, Kept
<1>7. QED
  BY <1>1, <1>2, <1>3, <1>4, <1>5, <1>6

\* What stays of the types.
LEMMA TypesKept ==
  ASSUME UploadsTypeOK, session' \in [number : 1..MaxSessions, active : BOOLEAN], open' \in BOOLEAN,
         DOMAIN files' \subseteq Paths, files' \in [DOMAIN files' -> States], focus' \in Targets,
         reading' \subseteq [paths : SUBSET Paths, folder : Targets, opens : BOOLEAN],
         loops' \in Seq(Loops), requests' \subseteq UploadRequests, folders' \subseteq Folders, items' \subseteq Items,
         faults' \in 0..MaxFaults, uploadEdits' \in 0..MaxUploadEdits
  PROVE  UploadsTypeOK'
BY DEF UploadsTypeOK

LEMMA FolderShape ==
  ASSUME UploadInv
  PROVE  /\ UploadsTypeOK /\ DOMAIN files \subseteq Paths /\ files \in [DOMAIN files -> States]
         /\ folders \subseteq Folders /\ items \subseteq Items /\ loops \in Seq(Loops)
         /\ Cardinality(folders) \in Nat /\ IsFiniteSet(folders)
BY FS_CardinalityType DEF UploadInv, UploadsTypeOK, FoldersInv

\* A loop that ends with its current file, whether its answer came or it failed.
LEMMA FinishKeeps ==
  ASSUME UploadInv, NEW i \in DOMAIN loops, loops[i].waits # "done", NEW rest, Kept(rest, i),
         NEW state \in {"failed", "uploaded"}, Finish(i, state, rest), DialogUnchanged, items' = items,
         state = "uploaded" => \E item \in items : item.path = Head(loops[i].queue),
         FoldersInv', folders \subseteq folders', folders' \subseteq Folders,
         faults' \in 0..MaxFaults, uploadEdits' = uploadEdits
  PROVE  UploadInv'
<1> DEFINE next == NextFile(loops[i], Tail(loops[i].queue))
<1>1. /\ loops' = [loops EXCEPT ![i] = next] /\ requests' = rest \cup Sent(i, next)
      /\ Dispatched(loops[i], ShownFor(Tail(loops[i].queue), SetUploadState(files, Head(loops[i].queue), state)))
  BY DEF Finish
<1>2. /\ loops[i] \in Loops /\ Tail(loops[i].queue) \in Seq(Paths) /\ session.active \in BOOLEAN
      /\ OneKey(loops[i].cache) /\ CacheSound(i, loops[i], folders)
  BY LoopIs
<1>3. GoesOn(loops[i], Tail(loops[i].queue), next)
  BY <1>2, NextFileIs
<1>4. session' = session /\ open' = open /\ focus' = focus /\ reading' = reading
  BY DEF DialogUnchanged
<1> HIDE DEF next
<1>5. next \in Loops /\ WaitsRightly(next) /\ Extends(loops[i], next)
  BY <1>2, <1>3 DEF GoesOn, Extends
<1>6. CacheSound(i, next, folders')
  <2>1. ASSUME NEW c \in next.cache PROVE Nested(next, c) /\ FolderMade(i, next, c) \in folders'
    <3>1. c \in loops[i].cache /\ Nested(loops[i], c) /\ FolderMade(i, loops[i], c) \in folders
      BY <1>2, <1>3 DEF GoesOn, CacheSound
    <3>2. FolderOf(next, Front(c.key)) = FolderOf(loops[i], Front(c.key))
          /\ (Front(c.key) = <<>> \/ Cached(next, Front(c.key)))
      BY <1>5, <3>1, SameFolder DEF Nested
    <3>3. QED
      BY <3>1, <3>2 DEF Nested, FolderMade
  <2>2. QED
    BY <1>5, <2>1 DEF CacheSound, Extends
<1>7. /\ loops' \in Seq(Loops) /\ requests' \subseteq UploadRequests
      /\ LoopsInv' /\ RequestsInv' /\ ItemsInv' /\ TwiceOnlyWhenGivenUp'
  BY <1>1, <1>5, <1>6, LoopGoes
<1>8. DOMAIN files' = DOMAIN files /\ files' \in [DOMAIN files -> States] /\ DialogInv' /\ UploadedIsKept'
  BY <1>1, <1>3, <1>4, DialogGoesOn
<1>9. UploadsTypeOK'
  <2>1. session \in [number : 1..MaxSessions, active : BOOLEAN] /\ open \in BOOLEAN /\ focus \in Targets
        /\ reading \subseteq [paths : SUBSET Paths, folder : Targets, opens : BOOLEAN]
        /\ uploadEdits \in 0..MaxUploadEdits /\ DOMAIN files \subseteq Paths /\ items \subseteq Items
    BY DEF UploadInv, UploadsTypeOK
  <2>2. UploadsTypeOK
    BY DEF UploadInv
  <2>3. QED
    BY <1>4, <1>7, <1>8, <2>1, <2>2, TypesKept
<1>10. QED
  BY <1>7, <1>8, <1>9 DEF UploadInv

LEMMA OthersKept ==
  ASSUME UploadInv, NEW r \in requests, r.awaited
  PROVE  /\ r.loop \in DOMAIN loops /\ WaitedBy(loops[r.loop], r)
         /\ Kept(requests \ {r}, r.loop)
         /\ Kept((requests \ {r}) \cup {[r EXCEPT !.awaited = FALSE]}, r.loop)
<1>1. RequestsInv /\ requests \subseteq UploadRequests
  BY DEF UploadInv, UploadsTypeOK
<1>2. r.loop \in DOMAIN loops /\ WaitedBy(loops[r.loop], r) /\ RequestSound(loops, items, r)
  BY <1>1 DEF RequestsInv, RequestSound
<1>3. \A s \in requests \ {r} : s.awaited => s.loop # r.loop
  BY <1>1 DEF RequestsInv, AwaitedOnce
<1>4. Kept(requests \ {r}, r.loop)
  BY <1>1, <1>3 DEF Kept, RequestsInv, AwaitedOnce
<1> DEFINE old == [r EXCEPT !.awaited = FALSE]
<1>5. /\ old \in UploadRequests /\ ~old.awaited /\ old.loop = r.loop /\ old.path = r.path /\ old.folder = r.folder
      /\ old.stage = r.stage
  BY <1>1 DEF UploadRequests
<1> HIDE DEF old
<1>6. RequestSound(loops, items, old)
  BY <1>2, <1>5 DEF RequestSound, HeldIn
<1>7. Kept((requests \ {r}) \cup {old}, r.loop)
  BY <1>4, <1>5, <1>6 DEF Kept, AwaitedOnce
<1>8. QED
  BY <1>2, <1>4, <1>7 DEF old

LEMMA UploadSucceedsKeeps ==
  ASSUME UploadInv, NEW i \in DOMAIN loops, NEW r \in requests, UploadSucceeds(i, r)
  PROVE  UploadInv'
<1>1. r.awaited /\ r.loop = i /\ loops[i].waits = "upload" /\ r.stage = "stored"
      /\ Finish(i, "uploaded", requests \ {r}) /\ DialogUnchanged
      /\ UNCHANGED <<folders, items, faults, uploadEdits>>
  BY DEF UploadSucceeds, AwaitedUpload, Succeeded
<1>2. Kept(requests \ {r}, i) /\ r.path = Head(loops[i].queue)
  BY <1>1, OthersKept DEF WaitedBy
<1>3. HeldIn(items, r)
  BY <1>1 DEF UploadInv, RequestsInv, RequestSound
<1>4. \E item \in items : item.path = Head(loops[i].queue)
  BY <1>2, <1>3 DEF HeldIn
<1>5. FoldersInv' /\ folders' \subseteq Folders /\ faults' \in 0..MaxFaults
  BY <1>1 DEF UploadInv, FoldersInv, UploadsTypeOK
<1>6. QED
  BY <1>1, <1>2, <1>4, <1>5, FinishKeeps

\* The folder that a loop asks for next: the one it is in is there.
LEMMA NextDirsIs ==
  ASSUME NEW loop, Head(loop.queue) \in Paths, MissingDirs(loop, Head(loop.queue)) # {}
  PROVE  /\ NextDirs(loop) \in Seq(STRING) /\ NextDirs(loop) # <<>> /\ ~Cached(loop, NextDirs(loop))
         /\ Front(NextDirs(loop)) = <<>> \/ Cached(loop, Front(NextDirs(loop)))
<1> DEFINE path == Head(loop.queue)
<1> DEFINE missing == MissingDirs(loop, path)
<1> DEFINE d == NextDirs(loop)
<1>1. path \in Seq(STRING) /\ missing # {}
  BY PathsAre
<1>2. d = CHOOSE x \in missing : \A e \in missing : Len(x) <= Len(e)
  BY DEF NextDirs
<1> HIDE DEF path, d
<1>3. missing = {x \in {SubSeq(path, 1, n) : n \in 1..(Len(path) - 1)} : ~Cached(loop, x)}
  BY DEF MissingDirs
<1> HIDE DEF missing
<1>4. ASSUME NEW x \in missing
      PROVE  \E n \in 1..(Len(path) - 1) : n \in 1..Len(path) /\ x = SubSeq(path, 1, n) /\ Len(x) = n /\ x \in Seq(STRING)
  <2>1. PICK n \in 1..(Len(path) - 1) : x = SubSeq(path, 1, n)
    BY <1>3
  <2>2. n \in 1..Len(path)
    BY <1>1
  <2>3. QED
    BY <1>1, <2>1, <2>2, PrefixIs
<1>5. \E x \in missing : \A e \in missing : Len(x) <= Len(e)
  <2> DEFINE T == {Len(x) : x \in missing}
  <2>1. T \subseteq Nat /\ T # {}
    BY <1>1, <1>4
  <2>2. \E m \in T : \A y \in T : m <= y
    <3> HIDE DEF T
    <3>1. QED
      BY <2>1, Least
  <2>3. QED
    BY <2>2
<1>6. d \in missing /\ \A e \in missing : Len(d) <= Len(e)
  BY <1>2, <1>5
<1>7. PICK n \in 1..(Len(path) - 1) : n \in 1..Len(path) /\ d = SubSeq(path, 1, n) /\ Len(d) = n /\ d \in Seq(STRING)
  BY <1>4, <1>6
<1>8. d # <<>> /\ Front(d) = SubSeq(path, 1, n - 1)
  BY <1>1, <1>7, PrefixIs
<1>9. Front(d) = <<>> \/ Cached(loop, Front(d))
  <2>1. CASE n = 1
    BY <1>1, <1>8, <2>1, NoPrefix
  <2>2. CASE n # 1
    <3>1. n - 1 \in 1..(Len(path) - 1) /\ n - 1 \in 1..Len(path)
      BY <1>1, <1>7, <2>2
    <3>2. Len(Front(d)) = n - 1
      BY <1>1, <1>8, <3>1, PrefixIs
    <3>3. Front(d) \notin missing
      BY <1>6, <1>7, <3>1, <3>2
    <3>4. QED
      BY <1>3, <1>8, <3>1, <3>3
  <2>3. QED
    BY <2>1, <2>2
<1>10. ~Cached(loop, d)
  BY <1>3, <1>6
<1>11. QED
  BY <1>7, <1>8, <1>9, <1>10 DEF d

LEMMA FrontTyped ==
  ASSUME NEW S, NEW d \in Seq(S), d # <<>>
  PROVE  Front(d) \in Seq(S) /\ Last(d) \in S
BY DEF Front, Last

LEMMA NextFolderIs ==
  ASSUME UploadInv, NEW i \in DOMAIN loops, loops[i].waits = "folder", NewId <= MaxFolders,
         folders' = folders \cup {NextFolder(i, NewId)}
  PROVE  FoldersInv' /\ folders' \subseteq Folders /\ NewId \in FolderIds
<1> DEFINE d == NextDirs(loops[i])
<1> DEFINE f == NextFolder(i, NewId)
<1>1. loops[i] \in Loops /\ WaitsRightly(loops[i]) /\ CacheSound(i, loops[i], folders) /\ i \in 1..MaxLoops
      /\ Head(loops[i].queue) \in Paths
  BY LoopIs
<1>2. MissingDirs(loops[i], Head(loops[i].queue)) # {}
  BY <1>1 DEF WaitsRightly
<1>3. d \in Seq(STRING) /\ d # <<>> /\ (Front(d) = <<>> \/ Cached(loops[i], Front(d)))
  BY <1>1, <1>2, NextDirsIs
<1>4. FoldersInv /\ IsFiniteSet(folders) /\ Cardinality(folders) \in Nat /\ folders \subseteq Folders
  BY FolderShape DEF UploadInv
<1>5. NewId = Cardinality(folders) + 2 /\ NewId \in FolderIds
  BY <1>4, UploadBoundsAssumption DEF NewId, FolderIds
<1>6. f = [id |-> NewId, parent |-> FolderOf(loops[i], Front(d)), name |-> Last(d), loop |-> i]
  BY DEF NextFolder
<1> HIDE DEF d, f
<1>7. FolderOf(loops[i], Front(d)) \in FolderIds /\ Last(d) \in STRING
  BY <1>1, <1>3, FolderTyped, FrontTyped
<1>8. f \in Folders
  BY <1>1, <1>5, <1>6, <1>7 DEF Folders
<1>9. FolderOf(loops[i], Front(d)) \in Targets \/ \E g \in folders : g.id = FolderOf(loops[i], Front(d))
  <2>1. CASE Front(d) = <<>>
    BY <1>1, <2>1 DEF FolderOf, Loops
  <2>2. CASE Front(d) # <<>>
    <3>1. PICK c \in loops[i].cache : c.key = Front(d)
      BY <1>3, <2>2 DEF Cached, CacheKey
    <3>2. FolderOf(loops[i], c.key) = c.id
      BY <1>1, <2>2, <3>1, FolderIs DEF CacheSound
    <3>3. FolderMade(i, loops[i], c) \in folders /\ FolderMade(i, loops[i], c).id = c.id
      BY <1>1 DEF CacheSound, FolderMade
    <3>4. QED
      BY <3>1, <3>2, <3>3
  <2>3. QED
    BY <2>1, <2>2
<1>10. \A g \in folders : g.id \in 2..(Cardinality(folders) + 1) /\ g.id < NewId
  BY <1>4, <1>5 DEF FoldersInv
<1>11. f \notin folders /\ f.id = NewId /\ f.parent < NewId
  <2>1. \A t \in Targets : t < NewId
    BY <1>4, <1>5 DEF Targets, RootFolder, Existing
  <2>2. QED
    BY <1>4, <1>6, <1>9, <1>10, <1>5, <2>1
<1>12. folders' = folders \cup {f} /\ IsFiniteSet(folders') /\ Cardinality(folders') = Cardinality(folders) + 1
  BY <1>4, <1>11, FS_AddElement DEF f
<1>13. ASSUME NEW g \in folders'
       PROVE  g.id \in 2..(Cardinality(folders') + 1) /\ g.parent < g.id
              /\ (g.parent \in Targets \/ \E h \in folders' : h.id = g.parent)
  <2>1. CASE g = f
    BY <1>4, <1>5, <1>6, <1>9, <1>11, <1>12, <2>1
  <2>2. CASE g \in folders
    BY <1>4, <1>10, <1>12, <2>2 DEF FoldersInv
  <2>3. QED
    BY <1>12, <2>1, <2>2
<1>14. \A g, h \in folders' : g.id = h.id => g = h
  BY <1>4, <1>10, <1>11, <1>12 DEF FoldersInv
<1>15. FoldersInv'
  BY <1>12, <1>13, <1>14 DEF FoldersInv
<1>16. QED
  BY <1>4, <1>5, <1>8, <1>12, <1>15

LEMMA FolderFailsKeeps ==
  ASSUME UploadInv, NEW i \in DOMAIN loops, FolderFails(i)
  PROVE  UploadInv'
<1>1. /\ loops[i].waits = "folder" /\ Fault /\ Finish(i, "failed", requests) /\ DialogUnchanged
      /\ items' = items /\ uploadEdits' = uploadEdits
      /\ folders' = folders \/ (NewId <= MaxFolders /\ folders' = folders \cup {NextFolder(i, NewId)})
  BY DEF FolderFails
<1>2. Kept(requests, i) /\ loops[i].waits # "done"
  BY <1>1, LoopIs
<1>3. FoldersInv' /\ folders' \subseteq Folders /\ folders \subseteq folders'
  <2>1. CASE folders' = folders
    BY <2>1 DEF UploadInv, FoldersInv, UploadsTypeOK
  <2>2. CASE NewId <= MaxFolders /\ folders' = folders \cup {NextFolder(i, NewId)}
    BY <1>1, <2>2, NextFolderIs
  <2>3. QED
    BY <1>1, <2>1, <2>2
<1>4. faults' \in 0..MaxFaults
  BY <1>1, UploadBoundsAssumption DEF Fault, UploadInv, UploadsTypeOK
<1>5. QED
  BY <1>1, <1>2, <1>3, <1>4, FinishKeeps

\* A loop stays at its file, and maybe has one more folder.
LEMMA AtFileKeeps ==
  ASSUME UploadInv, NEW i \in DOMAIN loops, loops[i].waits # "done", NEW next \in Loops, Extends(loops[i], next),
         WaitsRightly(next), CacheSound(i, next, folders'), next.queue = loops[i].queue, next.waits # "done",
         Alike(loops[i], next), NEW rest, Kept(rest, i),
         loops' = [loops EXCEPT ![i] = next], requests' = rest \cup Sent(i, next), items' = items, files' = files,
         FoldersInv', folders \subseteq folders', folders' \subseteq Folders,
         DialogUnchanged, faults' \in 0..MaxFaults, uploadEdits' = uploadEdits
  PROVE  UploadInv'
<1>1. session' = session /\ open' = open /\ focus' = focus /\ reading' = reading
  BY DEF DialogUnchanged
<1>2. /\ loops' \in Seq(Loops) /\ requests' \subseteq UploadRequests
      /\ LoopsInv' /\ RequestsInv' /\ ItemsInv' /\ TwiceOnlyWhenGivenUp'
  BY LoopGoes
<1>3. DialogInv' /\ UploadedIsKept'
  <2>1. DOMAIN loops' = DOMAIN loops /\ loops'[i] = next /\ \A j \in DOMAIN loops : j # i => loops'[j] = loops[j]
    BY FolderShape
  <2>2. \A j \in DOMAIN loops : /\ Alike(loops[j], loops'[j]) /\ loops'[j].queue = loops[j].queue
                                /\ loops'[j].waits = "done" <=> loops[j].waits = "done"
    BY <2>1 DEF Alike
  <2>3. QED
    BY <1>1, <2>1, <2>2, DialogStays
<1>4. UploadsTypeOK'
  <2>1. session \in [number : 1..MaxSessions, active : BOOLEAN] /\ open \in BOOLEAN /\ focus \in Targets
        /\ reading \subseteq [paths : SUBSET Paths, folder : Targets, opens : BOOLEAN]
        /\ uploadEdits \in 0..MaxUploadEdits /\ items \subseteq Items
        /\ DOMAIN files \subseteq Paths /\ files \in [DOMAIN files -> States] /\ UploadsTypeOK
    BY DEF UploadInv, UploadsTypeOK
  <2>2. QED
    BY <1>1, <1>2, <2>1, TypesKept
<1>5. QED
  BY <1>2, <1>3, <1>4 DEF UploadInv

LEMMA FolderCreatedKeeps ==
  ASSUME UploadInv, NEW i \in DOMAIN loops, FolderCreated(i)
  PROVE  UploadInv'
<1> DEFINE loop == loops[i]
<1> DEFINE d == NextDirs(loop)
<1> DEFINE new == [key |-> d, id |-> NewId]
<1> DEFINE grown == [loop EXCEPT !.cache = @ \cup {new}]
<1> DEFINE next == Proceeding(grown)
<1>1. /\ loop.waits = "folder" /\ NewId <= MaxFolders /\ folders' = folders \cup {NextFolder(i, NewId)}
      /\ loops' = [loops EXCEPT ![i] = next] /\ requests' = requests \cup Sent(i, next)
      /\ DialogUnchanged /\ UNCHANGED <<files, items, faults, uploadEdits>>
  BY DEF FolderCreated, CacheKey
<1>2. /\ loop \in Loops /\ WaitsRightly(loop) /\ CacheSound(i, loop, folders) /\ OneKey(loop.cache)
      /\ session.active \in BOOLEAN /\ loop.queue # <<>> /\ Head(loop.queue) \in Paths /\ Kept(requests, i)
  BY <1>1, LoopIs
<1>3. MissingDirs(loop, Head(loop.queue)) # {}
  BY <1>1, <1>2 DEF WaitsRightly
<1>4. /\ FoldersInv' /\ folders' \subseteq Folders /\ NewId \in FolderIds
  BY <1>1, NextFolderIs
<1>5. d \in Seq(STRING) /\ d # <<>> /\ ~Cached(loop, d) /\ (Front(d) = <<>> \/ Cached(loop, Front(d)))
  BY <1>2, <1>3, NextDirsIs
<1>6. NextFolder(i, NewId) = [id |-> NewId, parent |-> FolderOf(loop, Front(d)), name |-> Last(d), loop |-> i]
  BY DEF NextFolder
<1>7. next = Proceeding(grown)
  OBVIOUS
<1>8. grown = [loop EXCEPT !.cache = @ \cup {new}]
  OBVIOUS
<1> HIDE DEF d, grown, next
<1>9. new \in [key : Seq(STRING), id : FolderIds] /\ new.key = d /\ new.id = NewId
  BY <1>4, <1>5
<1> HIDE DEF new
<1>10. /\ grown \in Loops /\ grown.cache = loop.cache \cup {new} /\ grown.queue = loop.queue
       /\ grown.target = loop.target /\ grown.session = loop.session /\ grown.replaced = loop.replaced
       /\ grown.waits = loop.waits
  BY <1>2, <1>8, <1>9 DEF Loops
<1> HIDE DEF loop
<1>11. /\ next \in Loops /\ WaitsRightly(next) /\ next.cache = grown.cache /\ next.target = grown.target
       /\ next.session = grown.session /\ next.queue = grown.queue /\ next.replaced = grown.replaced
  BY <1>2, <1>7, <1>10, ProceedingIs
<1>12. OneKey(next.cache)
  BY <1>2, <1>5, <1>9, <1>10, <1>11 DEF OneKey, Cached, CacheKey
<1>13. Extends(loop, next)
  BY <1>2, <1>10, <1>11, <1>12 DEF Extends
<1>14. ASSUME NEW c \in next.cache PROVE Nested(next, c) /\ FolderMade(i, next, c) \in folders'
  <2>1. Nested(loop, c) /\ FolderMade(i, loop, c) \in folders'
    <3>1. CASE c = new
      BY <1>1, <1>5, <1>6, <1>9, <3>1 DEF Nested, FolderMade
    <3>2. CASE c \in loop.cache
      BY <1>1, <1>2, <3>2 DEF CacheSound
    <3>3. QED
      BY <1>10, <1>11, <3>1, <3>2
  <2>2. FolderOf(next, Front(c.key)) = FolderOf(loop, Front(c.key))
        /\ (Front(c.key) = <<>> \/ Cached(next, Front(c.key)))
    BY <1>13, <2>1, SameFolder DEF Nested
  <2>3. QED
    BY <2>1, <2>2 DEF Nested, FolderMade
<1>15. CacheSound(i, next, folders')
  BY <1>12, <1>14 DEF CacheSound
<1>16. next.queue = loop.queue /\ next.waits # "done" /\ Alike(loop, next)
  BY <1>2, <1>10, <1>11 DEF WaitsRightly, Alike
<1>17. faults' \in 0..MaxFaults
  BY <1>1 DEF UploadInv, UploadsTypeOK
<1>18. QED
  BY <1>1, <1>2, <1>4, <1>11, <1>13, <1>15, <1>16, <1>17, AtFileKeeps DEF loop

\* A loop of which only what it waits for, its token and its retries change.
LEMMA SameCacheSound ==
  ASSUME NEW i, NEW loop, NEW next, NEW made, CacheSound(i, loop, made), next.cache = loop.cache,
         next.target = loop.target, next.session = loop.session
  PROVE  CacheSound(i, next, made) /\ Extends(loop, next)
<1>1. Extends(loop, next)
  BY DEF Extends, CacheSound
<1>2. ASSUME NEW c \in next.cache PROVE Nested(next, c) /\ FolderMade(i, next, c) \in made
  <2>1. Nested(loop, c) /\ FolderMade(i, loop, c) \in made
    BY DEF CacheSound
  <2>2. FolderOf(next, Front(c.key)) = FolderOf(loop, Front(c.key))
        /\ (Front(c.key) = <<>> \/ Cached(next, Front(c.key)))
    BY <1>1, <2>1, SameFolder DEF Nested
  <2>3. QED
    BY <2>1, <2>2 DEF Nested, FolderMade
<1>3. QED
  BY <1>1, <1>2 DEF CacheSound, Extends

LEMMA RetryKeeps ==
  ASSUME UploadInv, NEW i \in DOMAIN loops, Retry(i)
  PROVE  UploadInv'
<1> DEFINE next == [loops[i] EXCEPT !.waits = "upload", !.retry = @ + 1, !.token = session.active]
<1>1. /\ loops[i].waits = "pause" /\ loops' = [loops EXCEPT ![i] = next] /\ requests' = requests \cup Sent(i, next)
      /\ DialogUnchanged /\ UNCHANGED <<files, folders, items, faults, uploadEdits>>
  BY DEF Retry
<1>2. /\ loops[i] \in Loops /\ WaitsRightly(loops[i]) /\ CacheSound(i, loops[i], folders)
      /\ session.active \in BOOLEAN /\ Kept(requests, i) /\ loops[i].queue # <<>>
  BY <1>1, LoopIs
<1>3. loops[i].retry < RetryLimit /\ MissingDirs(loops[i], Head(loops[i].queue)) = {}
  BY <1>1, <1>2 DEF WaitsRightly
<1>4. next = [loops[i] EXCEPT !.waits = "upload", !.retry = @ + 1, !.token = session.active]
  OBVIOUS
<1> HIDE DEF next
<1>5. loops[i].retry + 1 \in 0..RetryLimit
  BY <1>2, <1>3, RetryLimitAssumption DEF Loops
<1>6. /\ next \in Loops /\ next.waits = "upload" /\ next.cache = loops[i].cache /\ next.target = loops[i].target
      /\ next.session = loops[i].session /\ next.replaced = loops[i].replaced /\ next.queue = loops[i].queue
  BY <1>2, <1>4, <1>5 DEF Loops, Waits
<1>7. WaitsRightly(next)
  BY <1>2, <1>3, <1>6, MissingSame DEF WaitsRightly
<1>8. CacheSound(i, next, folders) /\ Extends(loops[i], next)
  BY <1>2, <1>6, SameCacheSound
<1>9. Alike(loops[i], next)
  BY <1>6 DEF Alike
<1>10. FoldersInv' /\ folders' \subseteq Folders /\ faults' \in 0..MaxFaults
  BY <1>1 DEF UploadInv, FoldersInv, UploadsTypeOK
<1>11. QED
  BY <1>1, <1>2, <1>6, <1>7, <1>8, <1>9, <1>10, AtFileKeeps

\* The loop pauses before it sends its request again.
PausedLoop(i) == [loops[i] EXCEPT !.waits = "pause"]

LEMMA PausedIs ==
  ASSUME UploadInv, NEW i \in DOMAIN loops, loops[i].waits = "upload", loops[i].retry < RetryLimit
  PROVE  /\ PausedLoop(i) \in Loops /\ WaitsRightly(PausedLoop(i)) /\ CacheSound(i, PausedLoop(i), folders)
         /\ Extends(loops[i], PausedLoop(i)) /\ Alike(loops[i], PausedLoop(i))
         /\ PausedLoop(i).queue = loops[i].queue /\ PausedLoop(i).waits # "done"
         /\ Sent(i, PausedLoop(i)) = {} /\ Paused(i) = [loops EXCEPT ![i] = PausedLoop(i)]
<1> DEFINE next == PausedLoop(i)
<1>1. loops[i] \in Loops /\ WaitsRightly(loops[i]) /\ CacheSound(i, loops[i], folders) /\ loops[i].queue # <<>>
  BY LoopIs
<1>2. next = [loops[i] EXCEPT !.waits = "pause"]
  BY DEF PausedLoop
<1>3. Paused(i) = [loops EXCEPT ![i] = next]
  BY DEF Paused, PausedLoop
<1> HIDE DEF next
<1>4. /\ next \in Loops /\ next.waits = "pause" /\ next.cache = loops[i].cache /\ next.target = loops[i].target
      /\ next.session = loops[i].session /\ next.replaced = loops[i].replaced /\ next.queue = loops[i].queue
      /\ next.retry = loops[i].retry
  BY <1>1, <1>2 DEF Loops, Waits
<1>5. WaitsRightly(next)
  BY <1>1, <1>4, MissingSame DEF WaitsRightly
<1>6. CacheSound(i, next, folders) /\ Extends(loops[i], next)
  BY <1>1, <1>4, SameCacheSound
<1>7. QED
  BY <1>3, <1>4, <1>5, <1>6 DEF next, Alike, Sent

LEMMA UploadFailsKeeps ==
  ASSUME UploadInv, NEW i \in DOMAIN loops, NEW r \in requests, UploadFails(i, r)
  PROVE  UploadInv'
<1>1. PICK lost \in {{}, {[r EXCEPT !.awaited = FALSE]}} :
        IF MayRetry(r)
        THEN loops' = Paused(i) /\ requests' = (requests \ {r}) \cup lost /\ UNCHANGED files
        ELSE Finish(i, "failed", (requests \ {r}) \cup lost)
  BY DEF UploadFails
<1>2. /\ r.awaited /\ r.loop = i /\ loops[i].waits = "upload" /\ Fault
      /\ DialogUnchanged /\ UNCHANGED <<folders, items, uploadEdits>>
  BY DEF UploadFails, AwaitedUpload
<1> DEFINE rest == (requests \ {r}) \cup lost
<1>3. Kept(rest, i) /\ WaitedBy(loops[i], r)
  BY <1>2, OthersKept
<1>4. faults' \in 0..MaxFaults
  BY <1>2, UploadBoundsAssumption DEF Fault, UploadInv, UploadsTypeOK
<1>5. FoldersInv' /\ folders' \subseteq Folders
  BY <1>2 DEF UploadInv, FoldersInv, UploadsTypeOK
<1>6. CASE MayRetry(r)
  <2>1. loops[i].retry < RetryLimit
    BY <1>3, <1>6 DEF MayRetry, WaitedBy
  <2>2. /\ PausedLoop(i) \in Loops /\ WaitsRightly(PausedLoop(i)) /\ CacheSound(i, PausedLoop(i), folders)
        /\ Extends(loops[i], PausedLoop(i)) /\ Alike(loops[i], PausedLoop(i))
        /\ PausedLoop(i).queue = loops[i].queue /\ PausedLoop(i).waits # "done"
        /\ Sent(i, PausedLoop(i)) = {} /\ Paused(i) = [loops EXCEPT ![i] = PausedLoop(i)]
    BY <1>2, <2>1, PausedIs
  <2>3. loops' = [loops EXCEPT ![i] = PausedLoop(i)] /\ requests' = rest \cup Sent(i, PausedLoop(i)) /\ files' = files
    BY <1>1, <1>6, <2>2
  <2> HIDE DEF rest
  <2>4. QED
    BY <1>2, <1>3, <1>4, <1>5, <2>2, <2>3, AtFileKeeps
<1>7. CASE ~MayRetry(r)
  <2>1. Finish(i, "failed", rest)
    BY <1>1, <1>7
  <2> HIDE DEF rest
  <2>2. QED
    BY <1>2, <1>3, <1>4, <1>5, <2>1, FinishKeeps
<1>8. QED
  BY <1>6, <1>7

\* The session is over: the dialog is unmounted, and the loop goes on.
LEMMA UnmountedDialog ==
  ASSUME UploadInv, Unmounted, session' = [session EXCEPT !.active = FALSE], DOMAIN loops' = DOMAIN loops,
         \A j \in DOMAIN loops : loops'[j].session = loops[j].session
  PROVE  /\ session' \in [number : 1..MaxSessions, active : BOOLEAN]
         /\ open' = FALSE /\ DOMAIN files' = {} /\ files' \in [DOMAIN files' -> States]
         /\ focus' \in Targets /\ reading' = {} /\ DialogInv' /\ UploadedIsKept'
<1>1. session \in [number : 1..MaxSessions, active : BOOLEAN] /\ DialogInv
  BY DEF UploadInv, UploadsTypeOK
<1>2. /\ session' \in [number : 1..MaxSessions, active : BOOLEAN] /\ ~session'.active
      /\ session'.number = session.number
  BY <1>1
<1>3. open' = FALSE /\ files' = NoFiles /\ focus' = RootFolder /\ reading' = {}
  BY DEF Unmounted
<1>4. DOMAIN files' = {}
  BY <1>3 DEF NoFiles
<1>5. files' \in [DOMAIN files' -> States]
  <2>1. files' \in [{} -> States]
    BY <1>3 DEF NoFiles
  <2>2. QED
    BY <1>4, <2>1
<1>6. OneShown(loops', session', files')
  BY <1>2 DEF OneShown, Running
<1>7. DialogInv'
  BY <1>1, <1>2, <1>6 DEF DialogInv, OneShown, Running, ShownRunning
<1>8. UploadedIsKept'
  BY <1>4 DEF UploadedIsKept
<1>9. QED
  BY <1>2, <1>3, <1>4, <1>5, <1>7, <1>8 DEF Targets

LEMMA RefusedKeeps ==
  ASSUME UploadInv, NEW i \in DOMAIN loops, NEW next \in Loops, Extends(loops[i], next), WaitsRightly(next),
         CacheSound(i, next, folders), NEW rest, Kept(rest, i),
         loops' = [loops EXCEPT ![i] = next], requests' = rest \cup Sent(i, next),
         session' = [session EXCEPT !.active = FALSE], Unmounted, UNCHANGED <<folders, items, faults, uploadEdits>>
  PROVE  UploadInv'
<1>1. /\ loops' \in Seq(Loops) /\ requests' \subseteq UploadRequests
      /\ LoopsInv' /\ RequestsInv' /\ ItemsInv' /\ TwiceOnlyWhenGivenUp'
  BY LoopGoes
<1>2. DOMAIN loops' = DOMAIN loops /\ \A j \in DOMAIN loops : loops'[j].session = loops[j].session
  BY FolderShape DEF Extends
<1>3. /\ session' \in [number : 1..MaxSessions, active : BOOLEAN]
      /\ open' = FALSE /\ DOMAIN files' = {} /\ files' \in [DOMAIN files' -> States]
      /\ focus' \in Targets /\ reading' = {} /\ DialogInv' /\ UploadedIsKept'
  BY <1>2, UnmountedDialog
<1>4. /\ UploadsTypeOK /\ FoldersInv' /\ folders' \subseteq Folders /\ items' \subseteq Items
      /\ faults' \in 0..MaxFaults /\ uploadEdits' \in 0..MaxUploadEdits
  BY DEF UploadInv, UploadsTypeOK, FoldersInv
<1>5. UploadsTypeOK'
  BY <1>1, <1>3, <1>4, TypesKept
<1>6. QED
  BY <1>1, <1>3, <1>4, <1>5 DEF UploadInv

\* The next file, to be sent without a token.
LEMMA TokenLost ==
  ASSUME UploadInv, NEW i \in DOMAIN loops, loops[i].waits # "done", NEW next,
         next = [NextFile(loops[i], Tail(loops[i].queue)) EXCEPT !.token = FALSE]
  PROVE  next \in Loops /\ WaitsRightly(next) /\ CacheSound(i, next, folders) /\ Extends(loops[i], next)
<1> DEFINE sent == NextFile(loops[i], Tail(loops[i].queue))
<1>1. /\ loops[i] \in Loops /\ CacheSound(i, loops[i], folders) /\ session.active \in BOOLEAN
      /\ Tail(loops[i].queue) \in Seq(Paths)
  BY LoopIs
<1>2. GoesOn(loops[i], Tail(loops[i].queue), sent)
  BY <1>1, NextFileIs
<1>3. next = [sent EXCEPT !.token = FALSE]
  OBVIOUS
<1> HIDE DEF sent
<1>4. sent \in Loops /\ WaitsRightly(sent) /\ sent.cache = loops[i].cache /\ sent.target = loops[i].target
      /\ sent.session = loops[i].session
  BY <1>2 DEF GoesOn
<1>5. /\ next \in Loops /\ next.waits = sent.waits /\ next.cache = sent.cache /\ next.target = sent.target
      /\ next.session = sent.session /\ next.queue = sent.queue /\ next.retry = sent.retry
  BY <1>3, <1>4 DEF Loops
<1>6. WaitsRightly(next)
  <2> DEFINE path == Head(sent.queue)
  <2> HIDE DEF path
  <2>1. MissingDirs(next, path) = MissingDirs(sent, path)
    BY <1>5 DEF MissingDirs, Cached
  <2>2. QED
    BY <1>4, <1>5, <2>1 DEF WaitsRightly, path
<1>7. CacheSound(i, next, folders) /\ Extends(loops[i], next)
  <2> DEFINE loop == loops[i]
  <2> HIDE DEF loop
  <2>1. CacheSound(i, loop, folders) /\ next.cache = loop.cache /\ next.target = loop.target
        /\ next.session = loop.session
    BY <1>1, <1>4, <1>5 DEF loop
  <2>2. CacheSound(i, next, folders) /\ Extends(loop, next)
    BY <2>1, SameCacheSound
  <2>3. QED
    BY <2>2 DEF loop
<1>8. QED
  BY <1>5, <1>6, <1>7

LEMMA FolderRefusedKeeps ==
  ASSUME UploadInv, NEW i \in DOMAIN loops, FolderRefused(i)
  PROVE  UploadInv'
<1> DEFINE next == [NextFile(loops[i], Tail(loops[i].queue)) EXCEPT !.token = FALSE]
<1>1. /\ loops[i].waits = "folder" /\ session' = [session EXCEPT !.active = FALSE] /\ Unmounted
      /\ loops' = [loops EXCEPT ![i] = next] /\ requests' = requests \cup Sent(i, loops'[i])
      /\ UNCHANGED <<folders, items, faults, uploadEdits>>
  BY DEF FolderRefused
<1>2. next \in Loops /\ WaitsRightly(next) /\ CacheSound(i, next, folders) /\ Extends(loops[i], next)
  BY <1>1, TokenLost
<1>3. Kept(requests, i)
  BY <1>1, LoopIs
<1> HIDE DEF next
<1>4. requests' = requests \cup Sent(i, next)
  BY <1>1, FolderShape
<1>5. QED
  BY <1>1, <1>2, <1>3, <1>4, RefusedKeeps

LEMMA UploadRefusedKeeps ==
  ASSUME UploadInv, NEW i \in DOMAIN loops, NEW r \in requests, UploadRefused(i, r)
  PROVE  UploadInv'
<1> DEFINE next == [NextFile(loops[i], Tail(loops[i].queue)) EXCEPT !.token = FALSE]
<1> DEFINE rest == requests \ {r}
<1>1. /\ r.awaited /\ r.loop = i /\ loops[i].waits = "upload"
      /\ session' = [session EXCEPT !.active = FALSE] /\ Unmounted
      /\ UNCHANGED <<folders, items, faults, uploadEdits>>
  BY DEF UploadRefused, AwaitedUpload
<1>2. IF MayRetry(r) THEN loops' = Paused(i) /\ requests' = rest
      ELSE loops' = [loops EXCEPT ![i] = next] /\ requests' = rest \cup Sent(i, next)
  BY DEF UploadRefused
<1>3. Kept(rest, i) /\ WaitedBy(loops[i], r)
  BY <1>1, OthersKept
<1>4. next \in Loops /\ WaitsRightly(next) /\ CacheSound(i, next, folders) /\ Extends(loops[i], next)
  BY <1>1, TokenLost
<1> HIDE DEF next, rest
<1>5. CASE MayRetry(r)
  <2>1. loops[i].retry < RetryLimit
    BY <1>3, <1>5 DEF MayRetry, WaitedBy
  <2>2. /\ PausedLoop(i) \in Loops /\ WaitsRightly(PausedLoop(i)) /\ CacheSound(i, PausedLoop(i), folders)
        /\ Extends(loops[i], PausedLoop(i))
        /\ Sent(i, PausedLoop(i)) = {} /\ Paused(i) = [loops EXCEPT ![i] = PausedLoop(i)]
    BY <1>1, <2>1, PausedIs
  <2>3. loops' = [loops EXCEPT ![i] = PausedLoop(i)] /\ requests' = rest \cup Sent(i, PausedLoop(i))
    BY <1>2, <1>5, <2>2
  <2>4. QED
    BY <1>1, <1>3, <2>2, <2>3, RefusedKeeps
<1>6. CASE ~MayRetry(r)
  BY <1>1, <1>2, <1>3, <1>4, <1>6, RefusedKeeps
<1>7. QED
  BY <1>5, <1>6

-----------------------------------------------------------------------------
(* The dialog, the server and the session *)

LEMMA EditKeeps ==
  ASSUME UploadInv, ServerIdle, session' = session, DialogInv', UploadedIsKept',
         DOMAIN files' \subseteq Paths, files' \in [DOMAIN files' -> States], open' \in BOOLEAN, focus' \in Targets,
         reading' \subseteq [paths : SUBSET Paths, folder : Targets, opens : BOOLEAN],
         uploadEdits' \in 0..MaxUploadEdits
  PROVE  UploadInv'
<1>1. UNCHANGED <<loops, requests, folders, items, faults>>
  BY DEF ServerIdle
<1>2. FoldersInv' /\ LoopsInv' /\ RequestsInv' /\ ItemsInv' /\ TwiceOnlyWhenGivenUp'
  BY <1>1 DEF UploadInv, FoldersInv, LoopsInv, RequestsInv, ItemsInv, TwiceOnlyWhenGivenUp
<1>3. UploadsTypeOK'
  BY <1>1 DEF UploadInv, UploadsTypeOK
<1>4. QED
  BY <1>2, <1>3 DEF UploadInv

\* Nothing runs that the dialog does not show.
LEMMA NobodyRuns ==
  ASSUME UploadInv, ~IsUploading, Undisturbed(loops, session.number), NEW i \in DOMAIN loops
  PROVE  ~Running(loops[i], session)
<1>1. SUFFICES ASSUME Running(loops[i], session) PROVE FALSE
  OBVIOUS
<1>2. ShownRunning(loops[i], files)
  BY <1>1 DEF UploadInv, DialogInv, OneShown
<1>3. loops[i].queue \in Seq(Paths) /\ loops[i].queue # <<>>
  BY <1>1, LoopIs DEF Running
<1>4. Head(loops[i].queue) \in DOMAIN files
  BY <1>2, <1>3, RangeOfTail DEF ShownRunning
<1>5. QED
  BY <1>2, <1>4 DEF ShownRunning, IsUploading, SomeFile

LEMMA QuietDialog ==
  ASSUME UploadInv, ~IsUploading, loops' = loops, session' = session
  PROVE  DialogInv'
<1>1. ASSUME Undisturbed(loops, session.number) PROVE OneShown(loops, session, files')
  BY <1>1, NobodyRuns DEF OneShown
<1>2. DialogInv
  BY DEF UploadInv
<1>3. QED
  BY <1>1, <1>2 DEF DialogInv, Undisturbed, OneShown, Running, ShownRunning

LEMMA TypesAre ==
  ASSUME UploadInv
  PROVE  /\ session \in [number : 1..MaxSessions, active : BOOLEAN] /\ open \in BOOLEAN /\ focus \in Targets
         /\ reading \subseteq [paths : SUBSET Paths, folder : Targets, opens : BOOLEAN]
         /\ DOMAIN files \subseteq Paths /\ files \in [DOMAIN files -> States]
         /\ faults \in 0..MaxFaults /\ uploadEdits \in 0..MaxUploadEdits
         /\ loops \in Seq(Loops) /\ requests \subseteq UploadRequests /\ items \subseteq Items
BY DEF UploadInv, UploadsTypeOK

LEMMA EditIs ==
  ASSUME UploadInv, Edit
  PROVE  uploadEdits' \in 0..MaxUploadEdits
BY UploadBoundsAssumption, TypesAre DEF Edit

LEMMA OpenKeeps ==
  ASSUME UploadInv, NEW folder \in Targets, OpenUploadDialog(folder)
  PROVE  UploadInv'
<1>1. Edit /\ open' = TRUE /\ focus' \in {folder, focus} /\ UNCHANGED <<session, files, reading>> /\ ServerIdle
  BY DEF OpenUploadDialog
<1>2. loops' = loops /\ items' = items
  BY <1>1 DEF ServerIdle
<1>3. DialogInv' /\ UploadedIsKept'
  BY <1>1, <1>2, DialogStays DEF Alike
<1>4. QED
  BY <1>1, <1>3, EditIs, EditKeeps, TypesAre

LEMMA DropKeeps ==
  ASSUME UploadInv, NEW paths \in DroppedSelections, NEW folder \in Targets, Drop(paths, folder)
  PROVE  UploadInv'
<1> DEFINE new == [paths |-> FilterSystemFiles(paths), folder |-> folder, opens |-> ~open]
<1>1. Edit /\ reading' = reading \cup {new} /\ UNCHANGED <<session, open, files, focus>> /\ ServerIdle
  BY DEF Drop
<1>2. loops' = loops /\ items' = items
  BY <1>1 DEF ServerIdle
<1>3. DialogInv' /\ UploadedIsKept'
  BY <1>1, <1>2, DialogStays DEF Alike
<1>4. new \in [paths : SUBSET Paths, folder : Targets, opens : BOOLEAN]
  BY DEF DroppedSelections, FilterSystemFiles
<1> HIDE DEF new
<1>5. QED
  BY <1>1, <1>3, <1>4, EditIs, EditKeeps, TypesAre

LEMMA AddFilesIs ==
  ASSUME NEW D, NEW old \in [D -> States], NEW paths
  PROVE  /\ DOMAIN AddFiles(old, paths) = D \cup paths /\ AddFiles(old, paths) \in [D \cup paths -> States]
         /\ \A p \in D \cup paths : AddFiles(old, paths)[p] = IF p \in paths THEN "pending" ELSE old[p]
BY DEF AddFiles, States

LEMMA PickFilesKeeps ==
  ASSUME UploadInv, NEW paths \in DroppedSelections, PickFiles(paths)
  PROVE  UploadInv'
<1> DEFINE P == FilterSystemFiles(paths)
<1>1. /\ Edit /\ ~IsUploading /\ files' = AddFiles(files, P)
      /\ UNCHANGED <<session, open, focus, reading>> /\ ServerIdle
  BY DEF PickFiles, IsEditDisabled
<1>2. P \subseteq Paths
  BY DEF DroppedSelections, FilterSystemFiles
<1> HIDE DEF P
<1>3. /\ DOMAIN files' = DOMAIN files \cup P /\ files' \in [DOMAIN files' -> States]
      /\ \A p \in DOMAIN files' : files'[p] = IF p \in P THEN "pending" ELSE files[p]
  <2> DEFINE D == DOMAIN files
  <2>1. files \in [D -> States]
    BY TypesAre
  <2> HIDE DEF D
  <2>2. /\ DOMAIN AddFiles(files, P) = D \cup P /\ AddFiles(files, P) \in [D \cup P -> States]
        /\ \A p \in D \cup P : AddFiles(files, P)[p] = IF p \in P THEN "pending" ELSE files[p]
    BY <2>1, AddFilesIs
  <2>3. QED
    BY <1>1, <2>2 DEF D
<1>4. loops' = loops /\ items' = items
  BY <1>1 DEF ServerIdle
<1>5. DialogInv'
  BY <1>1, <1>4, QuietDialog
<1>6. UploadedIsKept'
  BY <1>3, <1>4 DEF UploadInv, UploadedIsKept
<1>7. QED
  BY <1>1, <1>2, <1>3, <1>5, <1>6, EditIs, EditKeeps, TypesAre

LEMMA RemoveFilesKeeps ==
  ASSUME UploadInv, NEW path, RemoveFiles(path)
  PROVE  UploadInv'
<1>1. /\ Edit /\ ~IsUploading /\ files' = RemovePath(files, path)
      /\ UNCHANGED <<session, open, focus, reading>> /\ ServerIdle
  BY DEF RemoveFiles, IsEditDisabled
<1>2. /\ DOMAIN files' \subseteq DOMAIN files /\ files' \in [DOMAIN files' -> States]
      /\ \A p \in DOMAIN files' : files'[p] = files[p]
  BY <1>1, TypesAre DEF RemovePath
<1>3. loops' = loops /\ items' = items
  BY <1>1 DEF ServerIdle
<1>4. DialogInv'
  BY <1>1, <1>3, QuietDialog
<1>5. UploadedIsKept'
  BY <1>2, <1>3 DEF UploadInv, UploadedIsKept
<1>6. QED
  BY <1>1, <1>2, <1>4, <1>5, EditIs, EditKeeps, TypesAre

LEMMA ClosedKeeps ==
  ASSUME UploadInv, ~IsUploading, Reset, open' = FALSE, focus' \in Targets,
         UNCHANGED <<session, reading, uploadEdits>>, ServerIdle
  PROVE  UploadInv'
<1>1. loops' = loops
  BY DEF ServerIdle
<1>2. DialogInv'
  BY <1>1, QuietDialog
<1>3. DOMAIN files' = {} /\ files' \in [{} -> States]
  BY DEF Reset, NoFiles
<1>4. UploadedIsKept' /\ files' \in [DOMAIN files' -> States]
  BY <1>3 DEF UploadedIsKept
<1>5. QED
  BY <1>2, <1>3, <1>4, EditKeeps, TypesAre

LEMMA DismissOrCloseKeeps ==
  ASSUME UploadInv, Dismiss \/ Close
  PROVE  UploadInv'
BY ClosedKeeps, TypesAre DEF Dismiss, Close, Targets

LEMMA NewLoopIs ==
  ASSUME UploadInv
  PROVE  /\ NewLoop \in Loops /\ NewLoop.session = session.number /\ NewLoop.cache = {}
         /\ NewLoop.replaced = FALSE
<1>1. session.number \in Nat /\ focus \in Targets
  BY TypesAre, UploadBoundsAssumption
<1>2. <<>> \in Seq(Paths) /\ 0 \in 0..RetryLimit
  BY RetryLimitAssumption
<1>3. QED
  BY <1>1, <1>2 DEF NewLoop, Loops, Waits

LEMMA SubmitKeeps ==
  ASSUME UploadInv, Submit
  PROVE  UploadInv'
<1> DEFINE queue == InOrder(DOMAIN files)
<1> DEFINE loop == NextFile(NewLoop, queue)
<1> DEFINE n == Len(loops) + 1
<1>1. /\ Shown /\ ~IsUploading /\ Len(loops) < MaxLoops /\ files' = ShownFor(queue, files)
      /\ loops' = Append(loops, loop) /\ requests' = requests \cup Sent(Len(loops'), loop)
      /\ UNCHANGED <<session, open, focus, reading, folders, items, faults, uploadEdits>>
  BY DEF Submit, CanSubmit
<1>2. queue \in Seq(DOMAIN files) /\ queue \in Seq(Paths) /\ Range(queue) \subseteq DOMAIN files
  <2>1. queue \in Seq(DOMAIN files) /\ DOMAIN files \subseteq Paths
    BY InOrderIs, TypesAre
  <2> HIDE DEF queue
  <2>2. QED
    BY <2>1 DEF Range
<1>3. GoesOn(NewLoop, queue, loop)
  BY <1>2, NewLoopIs, NextFileIs, TypesAre
<1> HIDE DEF queue, loop
<1>4. /\ loop \in Loops /\ WaitsRightly(loop) /\ loop.cache = {} /\ loop.session = session.number
      /\ loop.replaced = FALSE /\ Range(loop.queue) \subseteq DOMAIN files
  BY <1>2, <1>3, NewLoopIs DEF GoesOn
<1>5. /\ loops' \in Seq(Loops) /\ Len(loops') = n /\ n \in 1..MaxLoops /\ n \notin DOMAIN loops
      /\ DOMAIN loops' = DOMAIN loops \cup {n} /\ loops'[n] = loop /\ \A j \in DOMAIN loops : loops'[j] = loops[j]
  BY <1>1, <1>4, TypesAre, UploadBoundsAssumption
<1>6. requests' = requests \cup Sent(n, loop)
  BY <1>1, <1>5
<1> HIDE DEF n
<1>7. LoopsInv'
  <2>1. CacheSound(n, loop, folders)
    BY <1>4 DEF CacheSound, OneKey
  <2>2. QED
    BY <1>1, <1>4, <1>5, <2>1 DEF UploadInv, LoopsInv
<1>8. ASSUME NEW r \in requests' PROVE RequestSound(loops', items, r) /\ r \in UploadRequests
  <2>1. CASE r \in Sent(n, loop)
    BY <1>4, <1>5, <2>1, SentIs DEF RequestSound
  <2>2. CASE r \in requests
    BY <1>5, <2>2, TypesAre DEF UploadInv, RequestsInv, RequestSound
  <2>3. QED
    BY <1>6, <2>1, <2>2
<1>9. AwaitedOnce(requests')
  <2>1. \A r \in Sent(n, loop) : r.loop = n /\ \A s \in Sent(n, loop) : s = r
    BY <1>4, <1>5, SentIs
  <2>2. \A r \in requests : r.loop # n
    BY <1>5 DEF UploadInv, RequestsInv, RequestSound
  <2>3. QED
    BY <1>6, <2>1, <2>2 DEF AwaitedOnce, UploadInv, RequestsInv
<1>10. RequestsInv'
  BY <1>1, <1>8, <1>9 DEF RequestsInv, AwaitedOnce, RequestSound, HeldIn, NotYet
<1>11. ItemsInv'
  BY <1>1, <1>5 DEF UploadInv, ItemsInv, ItemSound
<1>12. FilesNow(files, files', queue, <<>>, "pending")
  <2> DEFINE D == DOMAIN files
  <2> DEFINE p == <<>>
  <2> DEFINE state == "pending"
  <2>1. files \in [D -> States] /\ state \in States /\ p \notin D
    BY TypesAre, PathOrderAssumption DEF States, Paths
  <2>2. SetUploadState(files, p, state) = files
    BY <2>1 DEF SetUploadState
  <2> HIDE DEF D, p, state
  <2>3. FilesNow(files, ShownFor(queue, SetUploadState(files, p, state)), queue, p, state)
    BY <1>2, <2>1, ShownForIs
  <2>4. QED
    BY <1>1, <2>2, <2>3 DEF p, state
<1>13. DOMAIN files' = DOMAIN files /\ files' \in [DOMAIN files -> States] /\ UploadedIsKept'
  <2>1. \A x \in DOMAIN files : files'[x] = "uploaded" => files[x] = "uploaded"
    BY <1>12 DEF FilesNow
  <2>2. DOMAIN files' = DOMAIN files /\ files' \in [DOMAIN files -> States]
    BY <1>12 DEF FilesNow
  <2>3. QED
    BY <1>1, <2>1, <2>2 DEF UploadInv, UploadedIsKept
<1>14. ASSUME Undisturbed(loops', session.number) PROVE OneShown(loops', session, files')
  <2>1. Undisturbed(loops, session.number)
    BY <1>5, <1>14 DEF Undisturbed
  <2>2. \A j \in DOMAIN loops : ~Running(loops'[j], session)
    BY <1>1, <1>5, <2>1, NobodyRuns
  <2>3. ASSUME Running(loop, session) PROVE ShownRunning(loop, files')
    <3>1. loop.queue # <<>> /\ loop.queue \in Seq(Paths)
      BY <1>4, <2>3 DEF Running, WaitsRightly, Loops
    <3>2. ToSend(queue) # {} /\ Head(loop.queue) = queue[First(queue)]
      BY <1>3, <3>1 DEF GoesOn
    <3>3. Head(loop.queue) \in DOMAIN files
      BY <1>4, <3>1, RangeOfTail
    <3>4. QED
      BY <1>4, <1>12, <1>13, <3>2, <3>3 DEF FilesNow, ShownRunning
  <2>4. QED
    BY <1>5, <2>2, <2>3 DEF OneShown
<1>15. DialogInv'
  <2>1. \A j \in DOMAIN loops' : loops'[j].session <= session.number
    BY <1>4, <1>5, TypesAre, UploadBoundsAssumption DEF UploadInv, DialogInv
  <2>2. QED
    BY <1>1, <1>14, <2>1 DEF DialogInv, Undisturbed, OneShown, Running, ShownRunning
<1>16. UploadsTypeOK'
  <2>1. requests' \subseteq UploadRequests /\ UploadsTypeOK /\ folders \subseteq Folders
    BY <1>8 DEF UploadInv, UploadsTypeOK
  <2>2. QED
    BY <1>1, <1>5, <1>13, <2>1, TypesAre, TypesKept
<1>17. FoldersInv' /\ TwiceOnlyWhenGivenUp'
  BY <1>1 DEF UploadInv, FoldersInv, TwiceOnlyWhenGivenUp
<1>18. QED
  BY <1>7, <1>10, <1>11, <1>13, <1>15, <1>16, <1>17 DEF UploadInv

LEMMA ProgressKeeps ==
  ASSUME UploadInv, NEW i \in DOMAIN loops, Progress(i)
  PROVE  UploadInv'
<1> DEFINE p == Head(loops[i].queue)
<1> DEFINE new == SetUploadState(files, p, "uploading")
<1>1. /\ files' \in {files, new} /\ UNCHANGED <<session, open, focus, reading>>
      /\ UNCHANGED <<loops, requests, folders, items, faults, uploadEdits>>
  BY DEF Progress, Dispatched, DialogUnchanged
<1>2. /\ DOMAIN files' = DOMAIN files /\ files' \in [DOMAIN files -> States]
      /\ \A x \in DOMAIN files : files'[x] \in {files[x], "uploading"}
  BY <1>1, TypesAre DEF SetUploadState, States
<1> HIDE DEF p, new
<1>3. UploadedIsKept'
  BY <1>1, <1>2 DEF UploadInv, UploadedIsKept
<1>4. DialogInv'
  <2>1. ASSUME NEW j \in DOMAIN loops, Running(loops[j], session), ShownRunning(loops[j], files)
        PROVE  ShownRunning(loops[j], files')
    <3>1. loops[j].queue \in Seq(Paths) /\ loops[j].queue # <<>>
      BY <2>1, LoopIs DEF Running
    <3>2. Head(loops[j].queue) \in DOMAIN files
      BY <2>1, <3>1, RangeOfTail DEF ShownRunning
    <3>3. QED
      BY <1>2, <2>1, <3>2 DEF ShownRunning
  <2>2. OneShown(loops, session, files) => OneShown(loops, session, files')
    BY <2>1 DEF OneShown
  <2>3. QED
    BY <1>1, <2>2 DEF UploadInv, DialogInv, Undisturbed, OneShown, Running, ShownRunning
<1>5. ServerIdle
  BY <1>1 DEF ServerIdle
<1>6. QED
  BY <1>1, <1>2, <1>3, <1>4, <1>5, EditKeeps, TypesAre

\* The server goes on with a request: it changes its stage, or is over, and
\* maybe a file is kept.
LEMMA ServerKeeps ==
  ASSUME UploadInv, UNCHANGED <<session, open, files, focus, reading, loops, folders, faults, uploadEdits>>,
         requests' \subseteq UploadRequests, items' \subseteq Items, items \subseteq items',
         RequestsInv', ItemsInv', TwiceOnlyWhenGivenUp'
  PROVE  UploadInv'
<1>1. DialogInv' /\ UploadedIsKept'
  BY DialogStays DEF Alike
<1>2. FoldersInv' /\ LoopsInv'
  BY DEF UploadInv, FoldersInv, LoopsInv
<1>3. UploadsTypeOK'
  BY DEF UploadInv, UploadsTypeOK
<1>4. QED
  BY <1>1, <1>2, <1>3 DEF UploadInv

\* The folder of a file of a loop is always the same.
LEMMA OnePlace ==
  ASSUME UploadInv, NEW r \in requests, NEW item \in items, item.loop = r.loop, item.path = r.path
  PROVE  item.folder = r.folder
BY DEF UploadInv, RequestsInv, ItemsInv, RequestSound, ItemSound, Placed

LEMMA ServerLooksKeeps ==
  ASSUME UploadInv, NEW r \in requests, ServerLooks(r)
  PROVE  UploadInv'
<1> DEFINE new == [r EXCEPT !.stage = IF Held(r) THEN "found" ELSE "missing"]
<1>1. /\ requests' = (requests \ {r}) \cup {new} /\ items' = items
      /\ UNCHANGED <<session, open, files, focus, reading, loops, folders, faults, uploadEdits>>
  BY DEF ServerLooks
<1>2. r \in UploadRequests /\ RequestSound(loops, items, r) /\ AwaitedOnce(requests)
  BY TypesAre DEF UploadInv, RequestsInv
<1>3. /\ new \in UploadRequests /\ new.stage = (IF Held(r) THEN "found" ELSE "missing")
      /\ new.loop = r.loop /\ new.path = r.path /\ new.folder = r.folder /\ new.retry = r.retry
      /\ new.awaited = r.awaited
  BY <1>2 DEF UploadRequests
<1> HIDE DEF new
<1>4. RequestSound(loops, items, new)
  <2>1. CASE Held(r)
    BY <1>2, <1>3, <2>1 DEF RequestSound, WaitedBy, Held, HeldIn
  <2>2. CASE ~Held(r)
    <3>1. \A item \in items : ~(item.loop = r.loop /\ item.path = r.path)
      BY <2>2, OnePlace DEF Held
    <3>2. QED
      BY <1>2, <1>3, <2>2, <3>1 DEF RequestSound, WaitedBy, NotYet
  <2>3. QED
    BY <2>1, <2>2
<1>5. AwaitedOnce(requests')
  BY <1>1, <1>2, <1>3 DEF AwaitedOnce
<1>6. RequestsInv'
  BY <1>1, <1>4, <1>5 DEF UploadInv, RequestsInv, AwaitedOnce, RequestSound, HeldIn, NotYet
<1>7. ItemsInv' /\ TwiceOnlyWhenGivenUp'
  BY <1>1 DEF UploadInv, ItemsInv, TwiceOnlyWhenGivenUp
<1>8. QED
  BY <1>1, <1>3, <1>6, <1>7, ServerKeeps, TypesAre

LEMMA ServerStoresKeeps ==
  ASSUME UploadInv, NEW r \in requests, ServerStores(r)
  PROVE  UploadInv'
<1> DEFINE done == [r EXCEPT !.stage = "stored"]
<1> DEFINE item == [loop |-> r.loop, path |-> r.path, folder |-> r.folder, retry |-> r.retry, late |-> ~r.awaited]
<1>1. /\ r.stage \in {"found", "missing"}
      /\ requests' = IF r.awaited THEN (requests \ {r}) \cup {done} ELSE requests \ {r}
      /\ items' = IF r.stage = "found" THEN items ELSE items \cup {item}
      /\ UNCHANGED <<session, open, files, focus, reading, loops, folders, faults, uploadEdits>>
  BY DEF ServerStores
<1>2. r \in UploadRequests /\ RequestSound(loops, items, r) /\ AwaitedOnce(requests) /\ items \subseteq Items
  BY TypesAre DEF UploadInv, RequestsInv
<1>3. /\ done \in UploadRequests /\ done.stage = "stored"
      /\ done.loop = r.loop /\ done.path = r.path /\ done.folder = r.folder /\ done.retry = r.retry
      /\ done.awaited = r.awaited
  BY <1>2 DEF UploadRequests
<1>4. /\ item \in Items /\ item.loop = r.loop /\ item.path = r.path /\ item.folder = r.folder
      /\ item.late = ~r.awaited
  BY <1>2 DEF UploadRequests, Items
<1> HIDE DEF done, item
<1>5. items \subseteq items' /\ items' \subseteq Items /\ HeldIn(items', r)
  BY <1>1, <1>2, <1>4 DEF RequestSound, HeldIn
<1>6. RequestSound(loops, items', done)
  BY <1>2, <1>3, <1>5 DEF RequestSound, WaitedBy, HeldIn
<1>7. ASSUME NEW s \in requests, s # r PROVE RequestSound(loops, items', s)
  <2>1. RequestSound(loops, items, s)
    BY DEF UploadInv, RequestsInv
  <2>2. s.stage = "missing" /\ s.awaited => NotYet(items', s)
    <3>1. s.awaited /\ s.loop = r.loop => ~r.awaited
      BY <1>2, <1>7 DEF AwaitedOnce
    <3>2. QED
      BY <1>1, <1>4, <2>1, <3>1 DEF RequestSound, NotYet
  <2>3. QED
    BY <1>5, <2>1, <2>2 DEF RequestSound, HeldIn
<1>8. AwaitedOnce(requests')
  BY <1>1, <1>2, <1>3 DEF AwaitedOnce
<1>9. RequestsInv'
  BY <1>1, <1>6, <1>7, <1>8 DEF RequestsInv, AwaitedOnce, RequestSound, HeldIn, NotYet
<1>10. ItemsInv'
  BY <1>1, <1>2, <1>4 DEF UploadInv, ItemsInv, ItemSound, RequestSound
<1>11. TwiceOnlyWhenGivenUp'
  <2>1. CASE r.stage = "found"
    BY <1>1, <2>1 DEF UploadInv, TwiceOnlyWhenGivenUp
  <2>2. CASE r.stage = "missing"
    <3>1. ASSUME NEW other \in items, other.loop = item.loop, other.path = item.path
          PROVE  other.late \/ item.late
      BY <1>2, <1>4, <2>2, <3>1 DEF RequestSound, NotYet
    <3>2. items' = items \cup {item}
      BY <1>1, <2>2
    <3>3. QED
      BY <3>1, <3>2 DEF UploadInv, TwiceOnlyWhenGivenUp
  <2>3. QED
    BY <1>1, <2>1, <2>2
<1>12. requests' \subseteq UploadRequests
  BY <1>1, <1>3, TypesAre
<1>13. QED
  BY <1>1, <1>5, <1>9, <1>10, <1>11, <1>12, ServerKeeps

\* Files that were dropped have been read: those that are being sent are marked.
LEMMA FilesReadKeeps ==
  ASSUME UploadInv, NEW drop \in reading, FilesRead(drop)
  PROVE  UploadInv'
<1> DEFINE P == drop.paths
<1>1. /\ Shown /\ reading' = reading \ {drop} /\ files' = AddFiles(files, P)
      /\ open' = (open \/ drop.opens) /\ focus' = IF drop.opens THEN drop.folder ELSE focus
      /\ loops' = Replacing(P) /\ UNCHANGED <<session, requests, folders, items, faults, uploadEdits>>
  BY DEF FilesRead
<1>2. P \subseteq Paths /\ drop.folder \in Targets /\ drop.opens \in BOOLEAN
  BY TypesAre
<1> HIDE DEF P
<1>3. /\ DOMAIN files' = DOMAIN files \cup P /\ files' \in [DOMAIN files' -> States]
      /\ \A p \in DOMAIN files' : files'[p] = IF p \in P THEN "pending" ELSE files[p]
  <2> DEFINE D == DOMAIN files
  <2>1. files \in [D -> States]
    BY TypesAre
  <2> HIDE DEF D
  <2>2. /\ DOMAIN AddFiles(files, P) = D \cup P /\ AddFiles(files, P) \in [D \cup P -> States]
        /\ \A p \in D \cup P : AddFiles(files, P)[p] = IF p \in P THEN "pending" ELSE files[p]
    BY <2>1, AddFilesIs
  <2>3. QED
    BY <1>1, <2>2 DEF D
<1>4. ASSUME NEW j \in DOMAIN loops
      PROVE  /\ loops'[j] \in Loops /\ loops'[j].session = loops[j].session /\ loops'[j].target = loops[j].target
             /\ loops'[j].queue = loops[j].queue /\ loops'[j].cache = loops[j].cache
             /\ loops'[j].waits = loops[j].waits /\ loops'[j].retry = loops[j].retry
             /\ loops'[j].replaced = (loops[j].replaced \/ (/\ loops[j].waits # "done"
                                                            /\ loops[j].session = session.number
                                                            /\ Head(loops[j].queue) \in P))
  <2> DEFINE b == loops[j].replaced \/ (/\ loops[j].waits # "done" /\ loops[j].session = session.number
                                       /\ Head(loops[j].queue) \in P)
  <2>1. loops'[j] = [loops[j] EXCEPT !.replaced = b] /\ loops[j] \in Loops
    BY <1>1, TypesAre DEF Replacing
  <2>2. b \in BOOLEAN
    BY <2>1 DEF Loops
  <2> HIDE DEF b
  <2>3. QED
    BY <2>1, <2>2 DEF Loops, b
<1>5. loops' \in Seq(Loops) /\ DOMAIN loops' = DOMAIN loops /\ Len(loops') = Len(loops)
  <2>1. loops' = [j \in 1..Len(loops) |-> loops'[j]] /\ Len(loops) \in Nat /\ DOMAIN loops = 1..Len(loops)
    BY <1>1, TypesAre DEF Replacing
  <2>2. QED
    BY <1>4, <2>1
<1>6. ASSUME NEW j \in DOMAIN loops
      PROVE  WaitsRightly(loops'[j]) /\ CacheSound(j, loops'[j], folders) /\ Extends(loops[j], loops'[j])
  <2>1. WaitsRightly(loops[j]) /\ CacheSound(j, loops[j], folders)
    BY LoopIs
  <2>2. CacheSound(j, loops'[j], folders) /\ Extends(loops[j], loops'[j])
    BY <1>4, <2>1, SameCacheSound
  <2> DEFINE path == Head(loops[j].queue)
  <2> HIDE DEF path
  <2>3. MissingDirs(loops'[j], path) = MissingDirs(loops[j], path)
    BY <1>4, MissingSame
  <2>4. WaitsRightly(loops'[j])
    BY <1>4, <2>1, <2>3 DEF WaitsRightly, path
  <2>5. QED
    BY <2>2, <2>4
<1>7. LoopsInv'
  BY <1>1, <1>5, <1>6 DEF UploadInv, LoopsInv
<1>8. ASSUME NEW j \in DOMAIN loops, NEW path \in Paths, NEW folder, Placed(loops[j], path, folder)
      PROVE  Placed(loops'[j], path, folder)
  BY <1>6, <1>8, StillPlaced
<1>9. RequestsInv'
  <2>1. ASSUME NEW r \in requests PROVE RequestSound(loops', items, r)
    <3>1. RequestSound(loops, items, r) /\ r.path \in Paths
      BY TypesAre DEF UploadInv, RequestsInv, UploadRequests
    <3>2. r.loop \in DOMAIN loops' /\ Placed(loops'[r.loop], r.path, r.folder)
      BY <1>5, <1>8, <3>1 DEF RequestSound
    <3>3. r.awaited => WaitedBy(loops'[r.loop], r)
      BY <1>4, <3>1 DEF RequestSound, WaitedBy
    <3>4. QED
      BY <3>1, <3>2, <3>3 DEF RequestSound
  <2>2. QED
    BY <1>1, <2>1 DEF UploadInv, RequestsInv, AwaitedOnce, RequestSound, HeldIn, NotYet
<1>10. ItemsInv'
  <2>1. ASSUME NEW item \in items PROVE ItemSound(loops', item)
    <3>1. item.path \in Paths /\ ItemSound(loops, item)
      BY TypesAre DEF Items, UploadInv, ItemsInv
    <3>2. QED
      BY <1>5, <1>8, <3>1 DEF ItemSound
  <2>2. QED
    BY <1>1, <2>1 DEF ItemsInv, ItemSound
<1>11. ASSUME Undisturbed(loops', session.number) PROVE OneShown(loops', session, files')
  <2>1. Undisturbed(loops, session.number)
    BY <1>4, <1>5, <1>11 DEF Undisturbed
  <2>2. OneShown(loops, session, files)
    BY <2>1 DEF UploadInv, DialogInv
  <2>3. \A j \in DOMAIN loops : Running(loops'[j], session) <=> Running(loops[j], session)
    BY <1>4 DEF Running
  <2>4. ASSUME NEW j \in DOMAIN loops, Running(loops'[j], session) PROVE ShownRunning(loops'[j], files')
    <3>1. ShownRunning(loops[j], files) /\ loops[j].queue \in Seq(Paths) /\ loops[j].queue # <<>>
      BY <2>2, <2>3, <2>4, LoopIs DEF OneShown, Running
    <3>2. Head(loops[j].queue) \in DOMAIN files /\ Range(loops[j].queue) \subseteq DOMAIN files
      BY <3>1, RangeOfTail DEF ShownRunning
    <3>3. Head(loops[j].queue) \notin P
      BY <1>4, <1>5, <1>11, <2>4 DEF Undisturbed, Running
    <3>4. QED
      BY <1>3, <1>4, <3>1, <3>2, <3>3 DEF ShownRunning
  <2>5. QED
    BY <1>5, <2>2, <2>3, <2>4 DEF OneShown
<1>12. DialogInv'
  <2>1. \A j \in DOMAIN loops' : loops'[j].session <= session.number
    BY <1>4, <1>5 DEF UploadInv, DialogInv
  <2>2. QED
    BY <1>1, <1>11, <2>1 DEF DialogInv, Undisturbed, OneShown, Running, ShownRunning
<1>13. UploadedIsKept' /\ FoldersInv' /\ TwiceOnlyWhenGivenUp'
  BY <1>1, <1>3 DEF UploadInv, UploadedIsKept, FoldersInv, TwiceOnlyWhenGivenUp
<1>14. UploadsTypeOK'
  <2>1. open' \in BOOLEAN /\ focus' \in Targets /\ DOMAIN files' \subseteq Paths /\ UploadsTypeOK /\ folders \subseteq Folders
        /\ reading' \subseteq [paths : SUBSET Paths, folder : Targets, opens : BOOLEAN]
    BY <1>1, <1>2, <1>3, TypesAre DEF UploadInv, UploadsTypeOK
  <2>2. QED
    BY <1>1, <1>3, <1>5, <2>1, TypesAre, TypesKept
<1>15. QED
  BY <1>7, <1>9, <1>10, <1>12, <1>13, <1>14 DEF UploadInv

LEMMA SessionEndsKeeps ==
  ASSUME UploadInv, SessionEnds
  PROVE  UploadInv'
<1>1. /\ session' = [session EXCEPT !.active = FALSE] /\ Unmounted
      /\ UNCHANGED <<loops, requests, folders, items, faults, uploadEdits>>
  BY DEF SessionEnds
<1>2. /\ session' \in [number : 1..MaxSessions, active : BOOLEAN]
      /\ open' = FALSE /\ DOMAIN files' = {} /\ files' \in [DOMAIN files' -> States]
      /\ focus' \in Targets /\ reading' = {} /\ DialogInv' /\ UploadedIsKept'
  BY <1>1, UnmountedDialog
<1>3. FoldersInv' /\ LoopsInv' /\ RequestsInv' /\ ItemsInv' /\ TwiceOnlyWhenGivenUp'
  BY <1>1 DEF UploadInv, FoldersInv, LoopsInv, RequestsInv, ItemsInv, TwiceOnlyWhenGivenUp
<1>4. UploadsTypeOK'
  BY <1>1, <1>2 DEF UploadInv, UploadsTypeOK
<1>5. QED
  BY <1>2, <1>3, <1>4 DEF UploadInv

LEMMA SessionStartsKeeps ==
  ASSUME UploadInv, SessionStarts
  PROVE  UploadInv'
<1>1. /\ session' = [number |-> session.number + 1, active |-> TRUE] /\ session.number < MaxSessions
      /\ UNCHANGED <<open, files, focus, reading, loops, requests, folders, items, faults, uploadEdits>>
  BY DEF SessionStarts
<1>2. session.number \in 1..MaxSessions /\ session' \in [number : 1..MaxSessions, active : BOOLEAN]
  BY <1>1, TypesAre, UploadBoundsAssumption
<1>3. FoldersInv' /\ LoopsInv' /\ RequestsInv' /\ ItemsInv' /\ TwiceOnlyWhenGivenUp' /\ UploadedIsKept'
  BY <1>1 DEF UploadInv, FoldersInv, LoopsInv, RequestsInv, ItemsInv, TwiceOnlyWhenGivenUp, UploadedIsKept
<1>4. UploadsTypeOK'
  BY <1>1, <1>2 DEF UploadInv, UploadsTypeOK
<1>5. \A j \in DOMAIN loops : loops[j].session \in Nat /\ loops[j].session <= session.number
  <2>1. SUFFICES ASSUME NEW j \in DOMAIN loops
                 PROVE  loops[j].session \in Nat /\ loops[j].session <= session.number
    OBVIOUS
  <2>2. loops[j] \in Loops
    BY TypesAre
  <2>3. QED
    BY <2>2 DEF Loops, UploadInv, DialogInv
<1>6. \A j \in DOMAIN loops : loops[j].session # session'.number /\ loops[j].session <= session'.number
  BY <1>1, <1>2, <1>5
<1>7. DialogInv'
  BY <1>1, <1>6 DEF DialogInv, OneShown, Running
<1>8. QED
  BY <1>3, <1>4, <1>7 DEF UploadInv

LEMMA UploadsInitially == UploadsInit => UploadInv
<1> SUFFICES ASSUME UploadsInit PROVE UploadInv
  OBVIOUS
<1>1. /\ session = [number |-> 1, active |-> TRUE] /\ open = FALSE /\ files = NoFiles /\ focus = RootFolder
      /\ reading = {} /\ loops = <<>> /\ requests = {} /\ folders = {} /\ items = {} /\ faults = 0 /\ uploadEdits = 0
  BY DEF UploadsInit
<1>2. DOMAIN files = {} /\ files \in [{} -> States]
  BY <1>1 DEF NoFiles
<1>3. loops \in Seq(Loops) /\ DOMAIN loops = {} /\ Len(loops) = 0
  BY <1>1
<1>4. 1 \in 1..MaxSessions /\ 0 \in 0..MaxFaults /\ 0 \in 0..MaxUploadEdits /\ RootFolder \in Targets /\ 0 <= MaxLoops
  BY UploadBoundsAssumption DEF Targets
<1>5. UploadsTypeOK
  <2>1. session \in [number : 1..MaxSessions, active : BOOLEAN]
    BY <1>1, <1>4
  <2>2. files \in [DOMAIN files -> States]
    BY <1>2
  <2>3. QED
    BY <1>1, <1>2, <1>3, <1>4, <2>1, <2>2 DEF UploadsTypeOK
<1>6. FoldersInv
  BY <1>1, FS_EmptySet DEF FoldersInv
<1>7. LoopsInv /\ RequestsInv /\ ItemsInv
  BY <1>1, <1>3, <1>4 DEF LoopsInv, RequestsInv, AwaitedOnce, ItemsInv
<1>8. DialogInv
  BY <1>3 DEF DialogInv, OneShown
<1>9. UploadedIsKept /\ TwiceOnlyWhenGivenUp
  BY <1>1, <1>2 DEF UploadedIsKept, TwiceOnlyWhenGivenUp
<1>10. QED
  BY <1>5, <1>6, <1>7, <1>8, <1>9 DEF UploadInv

LEMMA UploadsNextKeeps ==
  ASSUME UploadInv, UploadsNext
  PROVE  UploadInv'
<1>1. CASE User
  BY <1>1, OpenKeeps, PickFilesKeeps, RemoveFilesKeeps, DropKeeps, DismissOrCloseKeeps, SubmitKeeps DEF User
<1>2. CASE \E i \in DOMAIN loops : Loop(i)
  <2>1. PICK i \in DOMAIN loops : Loop(i)
    BY <1>2
  <2>2. CASE FolderCreated(i) \/ FolderFails(i) \/ FolderRefused(i) \/ Retry(i) \/ Progress(i)
    BY <2>2, FolderCreatedKeeps, FolderFailsKeeps, FolderRefusedKeeps, RetryKeeps, ProgressKeeps
  <2>3. CASE \E r \in requests : UploadSucceeds(i, r) \/ UploadFails(i, r) \/ UploadRefused(i, r)
    BY <2>3, UploadSucceedsKeeps, UploadFailsKeeps, UploadRefusedKeeps
  <2>4. QED
    BY <2>1, <2>2, <2>3 DEF Loop
<1>3. CASE Server
  BY <1>3, ServerLooksKeeps, ServerStoresKeeps DEF Server
<1>4. CASE \E drop \in reading : FilesRead(drop)
  BY <1>4, FilesReadKeeps
<1>5. CASE SessionEnds \/ SessionStarts
  BY <1>5, SessionEndsKeeps, SessionStartsKeeps
<1>6. QED
  BY <1>1, <1>2, <1>3, <1>4, <1>5 DEF UploadsNext

LEMMA UploadsStutter ==
  ASSUME UploadInv, UNCHANGED uploadVars
  PROVE  UploadInv'
BY DEF UploadInv, uploadVars, UploadsTypeOK, FoldersInv, LoopsInv, RequestsInv, ItemsInv, DialogInv,
       UploadedIsKept, TwiceOnlyWhenGivenUp

LEMMA UploadInvHolds == UploadsSpec => []UploadInv
<1>1. UploadInv /\ [UploadsNext]_uploadVars => UploadInv'
  BY UploadsNextKeeps, UploadsStutter
<1>2. QED
  BY <1>1, UploadsInitially, PTL DEF UploadsSpec

-----------------------------------------------------------------------------
(* Where the files are *)

\* The folder with the given number, as FolderPath finds it.
FolderAt(id) == CHOOSE f \in folders : f.id = id
Ids == Targets \cup {f.id : f \in folders}

LEMMA FolderAtIs ==
  ASSUME FoldersInv, UploadsTypeOK, NEW f \in folders
  PROVE  /\ FolderAt(f.id) = f /\ f.id \in Ids \ Targets /\ f.parent \in Ids /\ f.parent < f.id
         /\ f.parent \in 0..MaxFolders /\ f.id \in 0..MaxFolders /\ f.name \in STRING
<1>1. f \in Folders
  BY DEF UploadsTypeOK
<1>2. f.parent \in 0..MaxFolders /\ f.id \in 0..MaxFolders /\ f.name \in STRING
  BY <1>1 DEF Folders, FolderIds
<1>3. f.id \in 2..(Cardinality(folders) + 1) /\ f.parent < f.id
      /\ (f.parent \in Targets \/ \E g \in folders : g.id = f.parent)
  BY DEF FoldersInv
<1>4. f.id \notin Targets
  BY <1>2, <1>3 DEF Targets, RootFolder, Existing
<1>5. FolderAt(f.id) = f
  BY DEF FoldersInv, FolderAt
<1>6. QED
  BY <1>2, <1>3, <1>4, <1>5 DEF Ids

LEMMA FolderPathIs ==
  ASSUME FoldersInv, UploadsTypeOK
  PROVE  /\ \A id \in Targets : FolderPath[id] = <<>>
         /\ \A f \in folders : FolderPath[f.id] = Append(FolderPath[f.parent], f.name)
<1> DEFINE back == [id \in Ids \ Targets |-> FolderAt(id).parent]
<1> DEFINE step == [x \in (Ids \ Targets) \X Seq(STRING) |-> Append(x[2], FolderAt(x[1]).name)]
<1> DEFINE Body(g) == [id \in Ids |-> IF id \in Targets THEN <<>>
                                      ELSE LET f == CHOOSE f \in folders : f.id = id IN Append(g[f.parent], f.name)]
<1>1. ASSUME NEW id \in Ids \ Targets
      PROVE  FolderAt(id) \in folders /\ FolderAt(id).id = id
  <2>1. PICK f \in folders : f.id = id
    BY DEF Ids
  <2>2. QED
    BY <2>1, FolderAtIs
<1>2. Ids \subseteq 0..MaxFolders /\ MaxFolders \in Nat
  <2>1. Targets \subseteq 0..MaxFolders
    BY UploadBoundsAssumption DEF Targets, RootFolder, Existing
  <2>2. QED
    BY <2>1, FolderAtIs, UploadBoundsAssumption DEF Ids
<1>3. Descends(Ids, Seq(STRING), Targets, back, step)
  <2>1. ASSUME NEW id \in Ids \ Targets
        PROVE  back[id] \in Ids /\ back[id] < id /\ \A v \in Seq(STRING) : step[<<id, v>>] \in Seq(STRING)
    <3>1. FolderAt(id) \in folders /\ FolderAt(id).id = id
      BY <1>1
    <3>2. FolderAt(id).parent \in Ids /\ FolderAt(id).parent < id /\ FolderAt(id).name \in STRING
      BY <3>1, FolderAtIs
    <3>3. back[id] = FolderAt(id).parent
      OBVIOUS
    <3>4. ASSUME NEW v \in Seq(STRING) PROVE step[<<id, v>>] \in Seq(STRING)
      <4>1. step[<<id, v>>] = Append(v, FolderAt(id).name)
        OBVIOUS
      <4> HIDE DEF back, step
      <4>2. Append(v, FolderAt(id).name) \in Seq(STRING)
        BY <3>2, AppendProperties
      <4>3. QED
        BY <4>1, <4>2
    <3> HIDE DEF back, step
    <3>5. QED
      BY <3>2, <3>3, <3>4
  <2> HIDE DEF back, step
  <2>2. QED
    BY <2>1 DEF Descends
<1>4. \E g \in [Ids -> Seq(STRING)] : Recursive(g, Ids, Targets, <<>>, back, step)
  <2>1. <<>> \in Seq(STRING)
    OBVIOUS
  <2> HIDE DEF back, step
  <2>2. QED
    BY <1>2, <1>3, <2>1, RecursionExists
<1>5. PICK g \in [Ids -> Seq(STRING)] : \A id \in Ids : g[id] = IF id \in Targets THEN <<>> ELSE step[<<id, g[back[id]]>>]
  BY <1>4 DEF Recursive
<1>6. g = Body(g)
  <2>1. ASSUME NEW id \in Ids PROVE g[id] = Body(g)[id]
    <3>1. CASE id \in Targets
      BY <1>5, <3>1
    <3>2. CASE id \notin Targets
      <4>1. FolderAt(id) \in folders /\ FolderAt(id).id = id
        BY <1>1, <3>2
      <4>2. FolderAt(id).parent \in Ids
        BY <4>1, FolderAtIs
      <4>3. g[id] = Append(g[FolderAt(id).parent], FolderAt(id).name)
        BY <1>5, <3>2, <4>2
      <4>4. QED
        BY <3>2, <4>3 DEF FolderAt
    <3>3. QED
      BY <3>1, <3>2
  <2>2. QED
    BY <2>1
<1>7. FolderPath = Body(FolderPath)
  <2> HIDE DEF Body
  <2>1. (CHOOSE h : h = Body(h)) = Body(CHOOSE h : h = Body(h))
    BY <1>6
  <2>2. FolderPath = CHOOSE h : h = Body(h)
    BY DEF FolderPath, Body, Ids
  <2>3. QED
    BY <2>1, <2>2
<1>8. \A id \in Targets : FolderPath[id] = <<>>
  BY <1>7 DEF Ids
<1>9. ASSUME NEW f \in folders PROVE FolderPath[f.id] = Append(FolderPath[f.parent], f.name)
  <2>1. FolderAt(f.id) = f /\ f.id \in Ids \ Targets
    BY FolderAtIs
  <2>2. QED
    BY <1>7, <2>1 DEF FolderAt
<1>10. QED
  BY <1>8, <1>9

\* A folder that a loop has created has the path it was created for.
LEMMA MadeOnItsPath ==
  ASSUME UploadInv, NEW i \in DOMAIN loops, NEW dirs \in Seq(STRING), dirs = <<>> \/ Cached(loops[i], dirs)
  PROVE  FolderPath[FolderOf(loops[i], dirs)] = dirs
<1> DEFINE Right(d) == d = <<>> \/ Cached(loops[i], d) => FolderPath[FolderOf(loops[i], d)] = d
<1> DEFINE Reached == {n \in Nat : \A d \in Seq(STRING) : Len(d) = n => Right(d)}
<1>0. FoldersInv /\ UploadsTypeOK /\ loops[i] \in Loops /\ CacheSound(i, loops[i], folders) /\ OneKey(loops[i].cache)
  BY LoopIs DEF UploadInv
<1>1. Right(<<>>)
  <2>1. FolderOf(loops[i], <<>>) = loops[i].target
    BY DEF FolderOf
  <2>2. loops[i].target \in Targets
    BY <1>0 DEF Loops
  <2>3. QED
    BY <1>0, <2>1, <2>2, FolderPathIs
<1>2. 0 \in Reached
  <2>1. \A d \in Seq(STRING) : Len(d) = 0 => d = <<>>
    OBVIOUS
  <2> HIDE DEF Right
  <2>2. QED
    BY <1>1, <2>1
<1>3. ASSUME NEW n \in Nat, n \in Reached PROVE n + 1 \in Reached
  <2>1. SUFFICES ASSUME NEW d \in Seq(STRING), Len(d) = n + 1, Cached(loops[i], d)
                 PROVE  FolderPath[FolderOf(loops[i], d)] = d
    <3>1. \A d \in Seq(STRING) : Len(d) = n + 1 => d # <<>>
      OBVIOUS
    <3>2. QED
      BY <3>1
  <2>2. PICK c \in loops[i].cache : c.key = d
    BY <2>1 DEF Cached, CacheKey
  <2>3. Nested(loops[i], c) /\ FolderMade(i, loops[i], c) \in folders
    BY <1>0 DEF CacheSound
  <2>4. FolderOf(loops[i], d) = c.id
    <3>1. c.key # <<>>
      BY <2>3 DEF Nested
    <3>2. QED
      BY <1>0, <2>2, <3>1, FolderIs
  <2> DEFINE parent == FolderOf(loops[i], Front(d))
  <2>5. \E f \in folders : f.id = c.id /\ f.parent = parent /\ f.name = Last(d)
    <3>1. FolderMade(i, loops[i], c) = [id |-> c.id, parent |-> parent, name |-> Last(d), loop |-> i]
      BY <2>2 DEF FolderMade
    <3> HIDE DEF parent
    <3>2. QED
      BY <2>3, <3>1
  <2>6. PICK f \in folders : f.id = c.id /\ f.parent = parent /\ f.name = Last(d)
    BY <2>5
  <2>7. FolderPath[c.id] = Append(FolderPath[parent], Last(d))
    BY <1>0, <2>6, FolderPathIs
  <2>8. Front(d) \in Seq(STRING) /\ Len(Front(d)) = n /\ d = Append(Front(d), Last(d))
    <3>1. Front(d) = SubSeq(d, 1, n) /\ Last(d) = d[n + 1]
      BY <2>1 DEF Front, Last
    <3>2. QED
      BY <2>1, <3>1
  <2>9. FolderPath[parent] = Front(d)
    <3>1. Front(d) = <<>> \/ Cached(loops[i], Front(d))
      BY <2>2, <2>3 DEF Nested
    <3>2. Right(Front(d))
      BY <1>3, <2>8
    <3>3. QED
      BY <3>1, <3>2
  <2>10. QED
    BY <2>4, <2>7, <2>8, <2>9
<1> HIDE DEF Reached
<1>4. Nat \subseteq Reached
  BY <1>2, <1>3, Induction
<1>5. Len(dirs) \in Reached
  BY <1>4
<1> HIDE DEF Right
<1>6. Right(dirs)
  BY <1>5 DEF Reached
<1>7. QED
  BY <1>6 DEF Right

LEMMA UploadsInPlace == UploadInv => EachFileInItsPlace
<1> SUFFICES ASSUME UploadInv, NEW item \in items
             PROVE  FolderPath[item.folder] = Directories(item.path)
  BY DEF EachFileInItsPlace, FoldersMirrorPaths, UploadInv
<1>1. item.loop \in DOMAIN loops /\ Placed(loops[item.loop], item.path, item.folder)
  BY DEF UploadInv, ItemsInv, ItemSound
<1>2. item.path \in Paths
  BY DEF UploadInv, UploadsTypeOK, Items
<1> DEFINE p == item.path
<1> HIDE DEF p
<1>3. MissingDirs(loops[item.loop], p) = {} /\ item.folder = FolderOf(loops[item.loop], Directories(p)) /\ p \in Paths
  BY <1>1, <1>2 DEF Placed, p
<1>4. Directories(p) \in Seq(STRING) /\ (Directories(p) = <<>> \/ Cached(loops[item.loop], Directories(p)))
  BY <1>3, DirectoriesAre DEF MissingDirs
<1>5. QED
  BY <1>1, <1>3, <1>4, MadeOnItsPath DEF p

LEMMA UploadsTold == UploadInv => DialogIsTrue
<1> SUFFICES ASSUME UploadInv PROVE OneLoopAtATime
  BY DEF DialogIsTrue, UploadInv
<1>1. SUFFICES ASSUME \A j \in DOMAIN loops : loops[j].session = session.number => ~loops[j].replaced,
                      NEW i \in DOMAIN loops, Active(i)
               PROVE  /\ files[Head(loops[i].queue)] = "uploading"
                      /\ \A j \in DOMAIN loops : j # i => ~Active(j)
  BY DEF OneLoopAtATime
<1>2. OneShown(loops, session, files)
  BY <1>1 DEF UploadInv, DialogInv, Undisturbed
<1>3. Running(loops[i], session)
  BY <1>1 DEF Active, Running
<1>4. QED
  BY <1>2, <1>3 DEF OneShown, ShownRunning, Active, Running

(* Every file that is uploaded to a workspace is in the folder that its    *)
(* path says: the folders on the way to it are created once for each       *)
(* submission, one in the other, whatever fails and is tried again; and it *)
(* is there twice only if the server stored it for a request that the      *)
(* client had given up (createIntermediateDirectories, uploadFileWithRetry,*)
(* uploadFileWithNewIngestion).                                            *)
THEOREM FilesInPlace == UploadsSpec => []EachFileInItsPlace
BY UploadInvHolds, UploadsInPlace, PTL

(* What the upload dialog shows is so: the file it shows as uploading is   *)
(* the one the only running loop is at, unless it was dropped again, and   *)
(* what it shows as uploaded is in the workspace (the reducer of           *)
(* UploadFiles, uploadFiles).                                              *)
THEOREM DialogTrue == UploadsSpec => []DialogIsTrue
BY UploadInvHolds, UploadsTold, PTL
==============================================================================
