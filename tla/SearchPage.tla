------------------------------ MODULE SearchPage ------------------------------
(***************************************************************************)
(* The search page: the query that is typed, the parameters of the         *)
(* address, the filters, and the searches whose answers come in any order. *)
(***************************************************************************)
EXTENDS Integers, Sequences, FiniteSets, SequencesExt

CONSTANTS
  BoxTexts,       \* what the box can hold
  Blank,          \* the one of them without words
  Empty,          \* the query that is not there
  Main, Subs,     \* a filter option and its suboptions
  Orders,         \* sortBy
  Unsorted,       \* the one of them that is not in the address
  NoSearch,
  MaxSearches,    \* bound: searches in flight
  MaxSearchUses   \* bound: what the user does

ASSUME SearchAssumption ==
  Blank \in BoxTexts /\ Empty \notin BoxTexts /\ Main \notin Subs /\ Subs # {} /\ Unsorted \in Orders

VARIABLES
  at,          \* "search" or "document"
  params,      \* state.urlParams
  trail,       \* the history: pages and the queries of their addresses
  here,        \* where in it the user is
  searched,    \* state.search.currentQuery
  results,     \* the query state.search.currentResults answers
  inProgress, searchFailed,
  listed,      \* the query whose results SearchResults has rendered
  visible,     \* visibleText
  typed,       \* what the debounced update of this page waits to apply
  stray,       \* what that of a page that was left waits to apply
  searches,
  opened,      \* state.resource
  passedOver,  \* the text of the address was changed under the page, and nothing searched since
  searchUses

searchVars == <<at, params, trail, here, searched, results, inProgress, searchFailed, listed, visible,
                typed, stray, searches, opened, passedOver, searchUses>>
addressVars == <<trail, here>>

ResultPages == 0..2    \* 0: undefined
SearchQueries == [q : BoxTexts \cup {Empty}, page : ResultPages,
                  filters : SUBSET (Subs \cup {Main}), order : Orders]

SearchEntries == [at : {"search", "document"}, query : SearchQueries]

ASSUME NoSearchAssumption == NoSearch \notin SearchQueries

NothingStray == [text |-> Empty, params |-> NoSearch]

SearchTypeOK ==
  /\ at \in {"search", "document"}
  /\ params \in SearchQueries
  /\ trail \in Seq(SearchEntries) /\ here \in DOMAIN trail
  /\ {searched, results, listed} \subseteq SearchQueries \cup {NoSearch}
  /\ {inProgress, searchFailed, opened, passedOver} \subseteq BOOLEAN
  /\ visible \in BoxTexts \cup {Empty}
  /\ typed \in [some : BOOLEAN, text : BoxTexts \cup {Empty}]
  /\ stray.text \in BoxTexts \cup {Empty} /\ stray.params \in SearchQueries \cup {NoSearch}
  /\ searches \in Seq(SearchQueries)
  /\ searchUses \in 0..MaxSearchUses

(***************************************************************************)
(* Searching.                                                              *)
(***************************************************************************)

Untyped == [some |-> FALSE, text |-> Empty]

\* SearchResults.shouldComponentUpdate.
Renders == listed' = IF inProgress' # inProgress THEN results' ELSE listed

\* SEARCH_GET_REQUEST, for each of the queries in turn.
PerformSearch(asked) ==
  /\ Len(searches) + Len(asked) <= MaxSearches
  /\ searches' = searches \o asked
  /\ searched' = Last(asked)
  /\ inProgress' = TRUE /\ searchFailed' = FALSE
  /\ UNCHANGED results

\* A query that is not there is not searched for.
Asked(query) == IF query.q = Empty THEN <<>> ELSE <<query>>

\* The document that is loaded is reset with each of them.
TriggerSearch(asked) ==
  IF asked = <<>>
  THEN UNCHANGED <<searches, searched, inProgress, searchFailed, opened, results>>
  ELSE PerformSearch(asked) /\ opened' = FALSE

\* componentWillReceiveProps.
Changed(before, after) ==
  IF [before EXCEPT !.q = Empty] = [after EXCEPT !.q = Empty] THEN <<>> ELSE Asked(after)

\* Mutant: the results of whatever is answered.
HandleAnyResults(query) == query

HandleSearchResults(query) == IF query = searched THEN query ELSE results

ReceiveSearch(i) ==
  /\ searches' = RemoveAt(searches, i)
  /\ results' = HandleSearchResults(searches[i])
  /\ inProgress' = FALSE
  /\ Renders
  /\ UNCHANGED <<at, params, addressVars, searched, searchFailed, visible, typed, stray, opened, passedOver, searchUses>>

ErrorReceivingSearch(i) ==
  /\ searches' = RemoveAt(searches, i)
  /\ results' = NoSearch /\ inProgress' = FALSE /\ searchFailed' = TRUE
  /\ Renders
  /\ UNCHANGED <<at, params, addressVars, searched, visible, typed, stray, opened, passedOver, searchUses>>

(***************************************************************************)
(* The box.                                                                *)
(***************************************************************************)

UsesSearch == searchUses < MaxSearchUses /\ searchUses' = searchUses + 1

Type(text) ==
  /\ at = "search" /\ text # visible /\ UsesSearch
  /\ visible' = text
  /\ UNCHANGED <<at, params, addressVars, searched, results, inProgress, searchFailed, listed, typed, stray,
                 searches, opened, passedOver>>

\* Enter is not disabled by a search in progress, the button is.
UpdateSearchText ==
  /\ at = "search" /\ UsesSearch
  /\ typed' = [some |-> TRUE, text |-> visible]
  /\ UNCHANGED <<at, params, addressVars, searched, results, inProgress, searchFailed, listed, visible, stray,
                 searches, opened, passedOver>>

\* updatePage renders a page that is mounted before updateSearchText is dispatched;
\* the props of one that was left stay what they were.
Debounced(text, seen, mounted) ==
  LET paged == IF text # seen.q THEN [params EXCEPT !.page = 1] ELSE params
      queried == [paged EXCEPT !.q = text]
  IN  /\ params' = queried
      /\ TriggerSearch((IF at = "search" THEN Changed(params, paged) ELSE <<>>)
                       \o Asked(IF mounted THEN queried ELSE [seen EXCEPT !.q = text]))
      /\ passedOver' = FALSE
      /\ Renders

DebouncedUpdate ==
  /\ typed.some
  /\ typed' = Untyped
  /\ Debounced(typed.text, params, TRUE)
  /\ UNCHANGED <<at, addressVars, visible, stray, searchUses>>

\* Nothing cancels it when its page is left.
StrayUpdate ==
  /\ stray # NothingStray
  /\ stray' = NothingStray
  /\ Debounced(stray.text, stray.params, FALSE)
  /\ UNCHANGED <<at, addressVars, visible, typed, searchUses>>

\* One batch; InputSupper hands back an empty query unless it holds one.
ClearSearch ==
  /\ at = "search" /\ ~inProgress /\ UsesSearch
  /\ params' = [params EXCEPT !.q = Empty, !.filters = {}, !.page = 1]
  /\ visible' = IF visible \in {Blank, Empty} THEN Empty ELSE Blank
  /\ searched' = NoSearch /\ results' = NoSearch
  /\ UNCHANGED <<at, addressVars, inProgress, searchFailed, listed, typed, stray, searches, opened, passedOver>>

(***************************************************************************)
(* Filters, pages and order.                                               *)
(***************************************************************************)

ToggleMainSearchFilter(selected) ==
  IF Main \in selected THEN selected \ {Main} ELSE (selected \ Subs) \cup {Main}

ToggleSubOptionSearchFilter(selected, sub) ==
  IF Main \in selected THEN (selected \ {Main}) \cup (Subs \ {sub})
  ELSE IF sub \in selected THEN selected \ {sub}
  ELSE IF Subs \subseteq selected \cup {sub} THEN (selected \ Subs) \cup {Main}
  ELSE selected \cup {sub}

\* The page is given other parameters: a change of the text alone is not searched for.
ReceiveProps(after) ==
  LET asked == Changed(params, after) IN
  /\ params' = after
  /\ TriggerSearch(asked)
  /\ passedOver' = (asked = <<>> /\ (passedOver \/ after.q # params.q))
  /\ Renders
  /\ UNCHANGED <<visible, typed, stray>>

Change(after) ==
  /\ at = "search" /\ UsesSearch
  /\ ReceiveProps(after)
  /\ UNCHANGED <<at, addressVars>>

UpdateMainFilter == Change([params EXCEPT !.filters = ToggleMainSearchFilter(@)])
UpdateSubFilter(sub) == Change([params EXCEPT !.filters = ToggleSubOptionSearchFilter(@, sub)])
UpdateSortBy(order) == order \notin {Unsorted, params.order} /\ Change([params EXCEPT !.page = 1, !.order = order])

\* The pages of the results, but for the one that is shown.
PageButton(n) == results # NoSearch /\ n # results.page

PageSelectCallback(n) ==
  /\ PageButton(n)
  /\ Change([params EXCEPT !.page = n])

(***************************************************************************)
(* Coming and going.                                                       *)
(***************************************************************************)

TriggersOnMount(query) == searched = NoSearch \/ results = NoSearch \/ query.q # searched.q

\* componentDidMount; InputSupper hands back an empty query.
Mount(query) ==
  /\ params' = query
  /\ visible' = IF query.q = Empty THEN Blank ELSE query.q
  /\ TriggerSearch(IF TriggersOnMount(query) THEN Asked(query) ELSE <<>>)
  /\ passedOver' = FALSE
  /\ listed' = results
  /\ typed' = Untyped
  /\ UNCHANGED stray

\* What waits to be applied goes on waiting.
Unmount(query) ==
  /\ typed.some => stray = NothingStray
  /\ stray' = IF typed.some THEN [text |-> typed.text, params |-> params] ELSE stray
  /\ typed' = Untyped
  /\ params' = query /\ opened' = TRUE
  /\ UNCHANGED <<searched, results, inProgress, searchFailed, listed, visible, searches, passedOver>>

\* URLPARAMS_UPDATE.
Retained(query) ==
  [q       |-> IF query.q = Empty THEN params.q ELSE query.q,
   page    |-> IF query.page = 0 THEN params.page ELSE query.page,
   filters |-> IF query.filters = {} THEN params.filters ELSE query.filters,
   order   |-> IF query.order = Unsorted THEN params.order ELSE query.order]

\* The address changes: the search page stays mounted under another address of its own.
Arrives(to, query) ==
  /\ at' = to
  /\ IF to = "document" THEN Unmount(Retained(query))
     ELSE IF at = "search" THEN ReceiveProps(Retained(query))
     ELSE Mount(Retained(query))

\* The middleware keeps the address at the parameters.
Recorded == [trail EXCEPT ![here] = [at |-> at, query |-> params]]

Follow(to, query) ==
  /\ UsesSearch
  /\ Arrives(to, query)
  /\ trail' = Append(SubSeq(Recorded, 1, here), [at |-> to, query |-> query])
  /\ here' = here + 1

\* Links keep what they do not set.
BuildLink(text) == [params EXCEPT !.q = text, !.page = 1]

ResultsAreListed == listed # NoSearch

OpenResult == at = "search" /\ ResultsAreListed /\ Follow("document", params)

\* HoverSearchLink, in the details of a document.
SearchFor(text) == at = "document" /\ text # Blank /\ Follow("search", BuildLink(text))

\* NavSearchLink, in the header: it is pushed unless it is, to the letter, the address there is.
HeaderLink == Follow("search", params)

\* Back, forward, or further along the history.
Travel(n) ==
  /\ n # here /\ UsesSearch
  /\ Arrives(trail[n].at, trail[n].query)
  /\ trail' = Recorded /\ here' = n

(***************************************************************************)
(* The specification.                                                      *)
(***************************************************************************)

Unasked == [q |-> Empty, page |-> 0, filters |-> {}, order |-> Unsorted]

SearchInit ==
  /\ at = "search"
  /\ params = Unasked /\ trail = << [at |-> "search", query |-> Unasked] >> /\ here = 1
  /\ searched = NoSearch /\ results = NoSearch /\ listed = NoSearch
  /\ inProgress = FALSE /\ searchFailed = FALSE /\ opened = FALSE /\ passedOver = FALSE
  /\ visible = Blank /\ typed = Untyped /\ stray = NothingStray
  /\ searches = <<>> /\ searchUses = 0

SearchNext ==
  \/ \E text \in BoxTexts : Type(text) \/ SearchFor(text)
  \/ UpdateSearchText \/ DebouncedUpdate \/ StrayUpdate
  \/ ClearSearch \/ UpdateMainFilter
  \/ \E sub \in Subs : UpdateSubFilter(sub)
  \/ \E order \in Orders : UpdateSortBy(order)
  \/ \E n \in 1..2 : PageSelectCallback(n)
  \/ OpenResult \/ HeaderLink
  \/ \E n \in DOMAIN trail : Travel(n)
  \/ \E i \in DOMAIN searches : ReceiveSearch(i) \/ ErrorReceivingSearch(i)

SearchSpec == SearchInit /\ [][SearchNext]_searchVars

(***************************************************************************)
(* Properties.                                                             *)
(***************************************************************************)

\* Results that are not of the query that is current are there only until it
\* is answered: no answer of an older query replaces it, whichever order the
\* answers come in (searchReducer.js, handleSearchResults).
ResultsGiveWay == results \notin {NoSearch, searched} => searched \in ToSet(searches)

\* The query of the address is the one that was searched last, whether it was
\* typed, cleared, linked to, travelled back to or applied after its page was
\* left; only a text that the address is given under the mounted page waits for
\* the next search (Search.tsx, componentDidMount, debouncedUpdate, clearSearch,
\* componentWillReceiveProps).
AddressIsSearched ==
  at = "search" /\ ~passedOver /\ params.q # Empty => searched # NoSearch /\ searched.q = params.q

\* An option and its suboptions are never ticked together, and never all the
\* suboptions one by one: what the server filters by is said once
\* (SearchFilterOption.js, toggleMainSearchFilter, toggleSubOptionSearchFilter).
OptionSaidOnce == Main \in params.filters \/ Subs \subseteq params.filters => params.filters = {Main}

\* The address, the query and the results agree, and the query says each filter
\* once (Search.tsx, searchReducer.js).
SearchIsOfAddress == AddressIsSearched /\ ResultsGiveWay /\ OptionSaidOnce

\* Refuted.  "const spinner = this.props.isSearchInProgress"
\* (components/Search/SearchBox.tsx:33): the answer of an older query ends it.
SpinnerIsTrue == searched \in ToSet(searches) => inProgress

\* Refuted.  "Search failed, check your query" (components/Search/SearchStatus.js:15)
\* above the results of the query.
FailedHasNoResults == searchFailed => results = NoSearch

\* Refuted.  "Clear search query and filters" (components/Search/SearchBox.tsx:61):
\* the list is rendered only when a search begins or ends.
ListedAreTheResults == ~inProgress /\ at = "search" => listed = results

\* Refuted: the header's link leaves an address behind; back at it, after another
\* query, the page shows the results of the other and searches nothing.
AddressIsAlwaysSearched ==
  at = "search" /\ params.q # Empty => searched # NoSearch /\ searched.q = params.q

\* Refuted.  "If we're mounting with a different query or without any results,
\* trigger a search" (components/Search/Search.tsx:136): the page is not compared.
ParametersAreSearched ==
  at = "search" /\ ~passedOver /\ params.q # Empty => searched = params

\* Refuted: a debounced update resets the document that was opened meanwhile.
OpenedStays == at = "document" => opened
================================================================================
