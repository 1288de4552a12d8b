------------------------------ MODULE PageViewer ------------------------------
(***************************************************************************)
(* The combined view of a paged document (PageViewer/VirtualScroll.tsx,    *)
(* PageCache.ts, Page.tsx): a window of pages around the viewport is       *)
(* mounted, their data and previews come from two caches of promises, and  *)
(* finding, stepping through highlights, scrolling and zooming change what *)
(* the cached promises should hold while requests are in flight.           *)
(*                                                                         *)
(* An event handler of the browser runs to its end.  Its loop over pages   *)
(* is a job list here: no other event is handled while work is left.       *)
(***************************************************************************)
EXTENDS HighlightNavigation, LruCache, FiniteSets

CONSTANTS
  PreloadDistance, \* PRELOAD_PAGES
  SmoothDistance,  \* a longer move of the viewport is debounced
  MaxCachedPages,
  MaxScale,        \* bound: zoom steps
  MaxEvents,       \* bound: things the user does, and requests for page data that fail
  NoTimer          \* a debounced function has nothing scheduled

ASSUME MaxCachedPagesAssumption == MaxCachedPages \in Nat \ {0}
ASSUME MaxScaleAssumption == MaxScale \in Nat \ {0}
ASSUME DistancesAssumption == PreloadDistance \in Nat /\ SmoothDistance \in Nat
ASSUME NoTimerAssumption == NoTimer \notin Nat

Scales == 1..MaxScale

VARIABLES
  scale,      \* the zoom; containerSize is 1000 times it
  cacheSize,  \* containerSize of the page cache
  zoomTimer,  \* argument of debouncedRefreshPreview, when scheduled
  cacheQuery, \* findQuery of the page cache
  previews,   \* cache: page -> containerSize its preview is rendered for
  data,       \* cache: page -> promise of its text and highlights
  requests,   \* the requests for page data made so far
  middle,     \* the page in the middle of the viewport
  jump,       \* the last jumpRequest: a page and a nonce
  lastJump,   \* lastAppliedJumpNonce
  pageRange,  \* the middle of the range that is rendered
  rangeTimer, \* argument of debouncedSetPageRange, when scheduled
  throttle,   \* the 75 ms window of throttledHandleScroll
  leftBehind, \* trailing calls that zooming has left behind: their scales
  reported,   \* the page last worked out by handleScroll; the footer reads it
  misled,     \* the last handleScroll was a stale one, and was wrong
  mounted,    \* page -> its Page component
  refreshes,  \* Promise.all of a find, whose continuation is to come
  lost,       \* a refresh was given up since that of the last find began
  work,       \* what the running handler still has to do
  events

cacheVars == <<cacheSize, cacheQuery, previews, data, requests>>
timers == <<zoomTimer, rangeTimer>>
throttleVars == <<throttle, leftBehind, reported, misled>>
viewerVars == <<scale, cacheVars, timers, throttleVars, middle, jump, lastJump, pageRange, mounted,
                refreshes, lost, work, events>>
vars == <<navVars, viewerVars>>

JobNames == {"render", "preload", "refresh", "background", "resize", "await", "scrolled"}
\* A loop of a handler over pages, or what follows it.
Jobs == [job : JobNames, pages : SUBSET DocumentPages]

RequestStates == {"pending", "loaded", "failed", "aborted"}
DataRequests == [query : FindQueries \cup {NoFindQuery}, state : RequestStates]

\* A promise of page data: the request it waits for, and whether the find
\* highlights were filtered out of it since.
Promises == [request : Nat, wiped : BOOLEAN]

\* A Page component: the promises and size it was last given, the promises
\* it has subscribed to, whose find highlights it shows, and whether one of
\* its promises was aborted.
NothingShown == "nothing"
PageComponents ==
  [data : Promises, size : Scales, subscribed : SUBSET Promises,
   shown : FindQueries \cup {NoFindQuery, NothingShown}, aborted : BOOLEAN]

\* No call of handleScroll within 75 ms; one; one, and another to come.
ThrottleStates == {"open", "shut", "trailing"}

\* A Promise.all over the pages of a find.
Refreshes == [promises : SUBSET Promises, pages : SUBSET DocumentPages]

ViewerTypeOK ==
  /\ NavTypeOK
  /\ scale \in Scales /\ cacheSize \in Scales
  /\ zoomTimer \in Scales \cup {NoTimer}
  /\ rangeTimer \in DocumentPages \cup {NoTimer}
  /\ cacheQuery \in FindQueries \cup {NoFindQuery}
  /\ previews.queue \in Seq(DocumentPages) /\ previews.entries \in [Cached(previews) -> Scales]
  /\ data.queue \in Seq(DocumentPages) /\ data.entries \in [Cached(data) -> Promises]
  /\ requests \in Seq(DataRequests)
  /\ throttle \in ThrottleStates /\ leftBehind \in Seq(Scales)
  /\ reported \in DocumentPages /\ misled \in BOOLEAN
  /\ middle \in DocumentPages /\ pageRange \in DocumentPages
  /\ jump \in [page : DocumentPages, nonce : Nat] /\ lastJump \in Nat
  /\ DOMAIN mounted \subseteq DocumentPages /\ mounted \in [DOMAIN mounted -> PageComponents]
  /\ refreshes \subseteq Refreshes
  /\ lost \in BOOLEAN
  /\ work \in Seq(Jobs)
  /\ events \in Nat

(***************************************************************************)
(* The window and the list of jobs.                                        *)
(***************************************************************************)

\* setPageRangeFromScrollPosition, for a viewport with page m in its middle.
Bottom(m) == IF m + PreloadDistance > NumPages THEN NumPages ELSE m + PreloadDistance
Top(m) == IF m < PreloadDistance + 2 THEN 1 ELSE m - 1 - PreloadDistance
Window(m) == Top(m)..Bottom(m)

Distance(m, n) == IF m > n THEN m - n ELSE n - m

Job(name, pages) == IF pages = {} THEN <<>> ELSE <<[job |-> name, pages |-> pages]>>

Position(queue, p) == CHOOSE i \in DOMAIN queue : queue[i] = p

\* Pages are taken in page order; those to preload in the order of the
\* highlights around the focused one, cached ones the least recent first.
Before(name, p, q) ==
  CASE name = "background" -> Position(data.queue, p) <= Position(data.queue, q)
    [] name = "preload" ->
         \E i \in 0..5 : /\ HighlightAround(i) = p
                         /\ \A j \in 0..(i - 1) : HighlightAround(j) # q
    [] OTHER -> p <= q

NextPage == LET now == Head(work) IN
  CHOOSE p \in now.pages : \A q \in now.pages : Before(now.job, p, q)

Doing(name) == work # <<>> /\ Head(work).job = name
Done(p) ==
  IF Head(work).pages = {p} THEN Tail(work)
  ELSE <<[Head(work) EXCEPT !.pages = @ \ {p}]>> \o Tail(work)

\* A Promise.all that has been fulfilled runs its continuation before the
\* browser handles another event.
Fulfilled(promises) == \A s \in promises : requests[s.request].state = "loaded"
Ready == {t \in refreshes : Fulfilled(t.promises)}
Idle == work = <<>> /\ Ready = {}

(***************************************************************************)
(* Promises of page data.                                                  *)
(***************************************************************************)

\* The highlights a promise brings, once its request is loaded.
Content(promise) == IF promise.wiped THEN NoFindQuery ELSE requests[promise.request].query

NewPromise == [request |-> Len(requests) + 1, wiped |-> FALSE]
PromiseFor(p) == IF p \in Cached(data) THEN data.entries[p] ELSE NewPromise

\* A Page is given a promise and a preview: its effects subscribe to them,
\* and a promise that is fulfilled already is shown at once.
Given(p, promise, size) ==
  LET old == IF p \in DOMAIN mounted THEN mounted[p]
             ELSE [subscribed |-> {}, shown |-> NothingShown, aborted |-> FALSE]
      fulfilled == /\ promise.request \in DOMAIN requests
                   /\ requests[promise.request].state = "loaded"
  IN  [q \in DOMAIN mounted \cup {p} |->
         IF q # p THEN mounted[q]
         ELSE [data |-> promise, size |-> size,
               subscribed |-> old.subscribed \cup {promise},
               shown |-> IF fulfilled THEN Content(promise) ELSE old.shown,
               aborted |-> old.aborted]]

Subscribes(component, ids) == \E s \in component.subscribed : s.request \in ids

Pending(ids) == {r \in ids : r \in DOMAIN requests /\ requests[r].state = "pending"}

(* The data cache becomes cache; values leave it and are aborted; a        *)
(* request is sent for a new promise.  An abort rejects what waits for it. *)
DataBecomes(cache, evicted, sends, components) ==
  LET aborts == Pending({data.entries[k].request : k \in evicted})
      sent == IF sends THEN Append(requests, [query |-> cacheQuery, state |-> "pending"])
              ELSE requests
  IN  /\ data' = cache
      /\ requests' = [r \in DOMAIN sent |-> IF r \in aborts THEN [sent[r] EXCEPT !.state = "aborted"]
                                             ELSE sent[r]]
      /\ mounted' = [p \in DOMAIN components |->
                       IF Subscribes(components[p], aborts)
                       THEN [components[p] EXCEPT !.aborted = TRUE] ELSE components[p]]
      /\ refreshes' = {t \in refreshes : \A s \in t.promises : s.request \notin aborts}
      /\ lost' = (lost \/ refreshes' # refreshes)

GetData(p, components) ==
  DataBecomes(CacheGet(data, p, NewPromise, MaxCachedPages),
              EvictedByGet(data, p, MaxCachedPages), p \notin Cached(data), components)

\* The promise that getPageAndRefreshHighlights leaves in the cache: with a
\* find query a new one, without one the old one without its highlights.
RefreshedPromise(p) ==
  IF cacheQuery # NoFindQuery THEN NewPromise ELSE [PromiseFor(p) EXCEPT !.wiped = TRUE]

RefreshData(p, components) ==
  IF cacheQuery # NoFindQuery
  THEN DataBecomes(GetAndForceRefresh(data, p, NewPromise, MaxCachedPages),
                   EvictedByRefresh(data, p, MaxCachedPages), TRUE, components)
  ELSE LET got == CacheGet(data, p, NewPromise, MaxCachedPages)
       IN  DataBecomes([got EXCEPT !.entries = WithEntry(@, p, RefreshedPromise(p))],
                       EvictedByGet(data, p, MaxCachedPages), p \notin Cached(data), components)

GetPreview(p) == CacheGet(previews, p, cacheSize, MaxCachedPages)

(***************************************************************************)
(* The jobs of a handler.                                                  *)
(***************************************************************************)

JobUnchanged == UNCHANGED <<navVars, scale, timers, throttleVars, middle, jump, lastJump, pageRange,
                            cacheQuery, events>>

\* getCachedPage for a page of the new range: a preview of another size than
\* the cache's is rendered again, for the current containerSize.
RenderPage ==
  LET p == NextPage
      got == GetPreview(p)
      fits == got.entries[p] = cacheSize
      size == IF fits THEN cacheSize ELSE scale
  IN  /\ Doing("render")
      /\ cacheSize' = size
      /\ previews' = IF fits THEN got ELSE Replace(got, p, size, MaxCachedPages)
      /\ GetData(p, Given(p, PromiseFor(p), size))
      /\ work' = Done(p)
      /\ JobUnchanged

PreloadPage ==
  LET p == NextPage IN
  /\ Doing("preload")
  /\ previews' = GetPreview(p)
  /\ GetData(p, mounted)
  /\ work' = Done(p)
  /\ UNCHANGED cacheSize
  /\ JobUnchanged

\* getPageAndRefreshHighlights, for a page on screen or one only cached.
RefreshPage ==
  LET p == NextPage
      component == IF Doing("refresh") THEN Given(p, RefreshedPromise(p), mounted[p].size)
                   ELSE mounted
  IN  /\ Doing("refresh") \/ Doing("background")
      /\ previews' = GetPreview(p)
      /\ RefreshData(p, component)
      /\ work' = Done(p)
      /\ UNCHANGED cacheSize
      /\ JobUnchanged

\* reRenderPagePreview for a mounted page.
ResizePage ==
  LET p == NextPage IN
  /\ Doing("resize")
  /\ previews' = Replace(GetPreview(p), p, cacheSize, MaxCachedPages)
  /\ GetData(p, Given(p, PromiseFor(p), cacheSize))
  /\ work' = Done(p)
  /\ UNCHANGED cacheSize
  /\ JobUnchanged

\* Promise.all over the refreshed pages; it rejects when one of them does.
AwaitPages ==
  LET pages == Head(work).pages
      promises == {mounted[p].data : p \in pages}
      rejected == \E s \in promises : requests[s.request].state \in {"failed", "aborted"}
  IN  /\ Doing("await")
      /\ refreshes' = IF rejected THEN refreshes
                      ELSE refreshes \cup {[promises |-> promises, pages |-> pages]}
      /\ lost' = rejected
      /\ work' = Tail(work)
      /\ UNCHANGED <<cacheSize, previews, data, requests, mounted>>
      /\ JobUnchanged

\* The pages between top and bottom of the range are mounted when those changed.
SetPageRange(m, rest) ==
  LET moves == Window(m) # Window(pageRange) IN
  /\ pageRange' = m
  /\ mounted' = IF moves THEN [p \in DOMAIN mounted \cap Window(m) |-> mounted[p]] ELSE mounted
  /\ work' = IF moves THEN Job("render", Window(m)) \o rest ELSE rest

(* setPageRangeFromScrollPosition and reportVisiblePage, for a call that     *)
(* works out page m: a long move of the range is put off, another one       *)
(* cancels what was put off before.                                         *)
\* Mutant: a move that is handled at once leaves the debounced one scheduled.
SetRangeKeepingTimer(m, rest) ==
  LET far == Distance(m, pageRange) > SmoothDistance IN
  /\ rangeTimer' = IF far THEN m ELSE rangeTimer
  /\ IF far THEN work' = rest /\ UNCHANGED <<pageRange, mounted>> ELSE SetPageRange(m, rest)
  /\ reported' = m
  /\ misled' = (m # middle)
  /\ UNCHANGED <<navVars, scale, cacheVars, zoomTimer, middle, jump, lastJump, refreshes, lost, events>>

SetRangeFromScrollPosition(m, rest) ==
  LET far == Distance(m, pageRange) > SmoothDistance IN
  /\ rangeTimer' = IF far THEN m ELSE NoTimer
  /\ IF far THEN work' = rest /\ UNCHANGED <<pageRange, mounted>> ELSE SetPageRange(m, rest)
  /\ reported' = m
  /\ misled' = (m # middle)
  /\ UNCHANGED <<navVars, scale, cacheVars, zoomTimer, middle, jump, lastJump, refreshes, lost, events>>

\* A scroll event reaches throttledHandleScroll: the first one is handled at
\* once, one within its 75 ms is left to the trailing call.
HandleScroll ==
  /\ Doing("scrolled")
  /\ IF throttle = "open"
     THEN throttle' = "shut" /\ SetRangeFromScrollPosition(NextPage, Tail(work))
     ELSE /\ throttle' = "trailing"
          /\ work' = Tail(work)
          /\ UNCHANGED <<navVars, scale, cacheVars, timers, reported, misled, middle, jump, lastJump, pageRange,
                         mounted, refreshes, lost, events>>
  /\ UNCHANGED leftBehind

Work == RenderPage \/ PreloadPage \/ RefreshPage \/ ResizePage \/ AwaitPages \/ HandleScroll

(***************************************************************************)
(* Events: the user, timers, answers.                                      *)
(***************************************************************************)

AnEvent == events < MaxEvents /\ events' = events + 1

UserEvent == Idle /\ AnEvent

\* Where the layout effects that run leave the viewport.
FocusedPage == IF focusedIndex = 0 THEN middle ELSE highlights[focusedIndex]

ScrollTo(m) ==
  /\ middle' = m
  /\ work' = Job("scrolled", {m})

Scroll(m) ==
  /\ UserEvent
  /\ ScrollTo(m)
  /\ UNCHANGED <<navVars, scale, cacheVars, timers, throttleVars, jump, lastJump, pageRange, mounted,
                 refreshes, lost>>

\* Mutant: a page number past the end is taken as it is.
ClampBelow(typed) == IF typed < 1 THEN 1 ELSE typed

Clamp(typed) == IF typed < 1 THEN 1 ELSE IF typed > NumPages THEN NumPages ELSE typed

\* PageNavInput.commit and the layout effect of a new jumpRequest.
JumpToPage(typed) ==
  /\ UserEvent
  /\ Clamp(typed) # reported
  /\ jump' = [page |-> Clamp(typed), nonce |-> jump.nonce + 1]
  /\ lastJump' = jump'.nonce
  /\ ScrollTo(Clamp(typed))
  /\ UNCHANGED <<navVars, scale, cacheVars, timers, throttleVars, pageRange, mounted, refreshes, lost>>

\* A jump is applied once, whatever else runs its layout effect.
AppliedJump == IF jump.nonce # lastJump THEN jump.page ELSE middle

\* The new page height runs every layout effect, in order: the scroll is
\* preserved, a new jump applied, the focused highlight scrolled to.  It makes
\* a new throttle; the trailing call of the old one is not cancelled.
Zoom(s) ==
  LET m == IF focusedIndex = 0 THEN AppliedJump ELSE FocusedPage IN
  /\ UserEvent
  /\ Distance(s, scale) = 1
  /\ scale' = s
  /\ zoomTimer' = IF s # cacheSize THEN s ELSE zoomTimer
  /\ lastJump' = jump.nonce
  /\ middle' = m
  /\ work' = Job("render", Window(pageRange)) \o Job("scrolled", {m})
  /\ throttle' = "open"
  /\ leftBehind' = IF throttle = "trailing" THEN Append(leftBehind, scale) ELSE leftBehind
  /\ UNCHANGED <<navVars, cacheVars, rangeTimer, reported, misled, jump, pageRange, mounted, refreshes, lost>>

\* The effect of a new findQuery.
NewFindQuery(q) ==
  IF q = query THEN UNCHANGED <<cacheQuery, work>>
  ELSE /\ cacheQuery' = q
       /\ work' = Job("refresh", DOMAIN mounted) \o Job("await", DOMAIN mounted)

Find(q) ==
  /\ UserEvent
  /\ FetchHighlights(q)
  /\ NewFindQuery(q)
  /\ UNCHANGED <<scale, cacheSize, previews, data, requests, timers, throttleVars, middle, jump,
                 lastJump, pageRange, mounted,
                 refreshes, lost>>

ClearFind ==
  /\ UserEvent
  /\ ClearHighlights
  /\ NewFindQuery(NoFindQuery)
  /\ UNCHANGED <<scale, cacheSize, previews, data, requests, timers, throttleVars, middle, jump,
                 lastJump, pageRange, mounted,
                 refreshes, lost>>

\* The neighbours of the highlight in focus are preloaded, and the viewport
\* moves to it.
ShowHighlights(q) ==
  /\ Idle
  /\ HighlightsArrive(q)
  /\ middle' = IF focusedIndex' = 0 THEN middle ELSE highlights'[focusedIndex']
  /\ work' = IF focusedIndex' = 0 THEN <<>>
             ELSE Job("preload", PreloadPages') \o Job("scrolled", {middle'})
  /\ UNCHANGED <<scale, cacheVars, timers, throttleVars, jump, lastJump, pageRange, mounted, refreshes,
                 lost, events>>

StepToHighlight ==
  /\ UserEvent
  /\ JumpToNext \/ JumpToPrevious
  /\ middle' = highlights[focusedIndex']
  /\ work' = Job("preload", PreloadPages') \o Job("scrolled", {middle'})
  /\ UNCHANGED <<scale, cacheVars, timers, throttleVars, jump, lastJump, pageRange, mounted, refreshes, lost>>

LoseHighlights(q) ==
  /\ Idle
  /\ HighlightsFail(q)
  /\ UNCHANGED viewerVars

RangeTimerFires ==
  /\ Idle
  /\ rangeTimer # NoTimer
  /\ rangeTimer' = NoTimer
  /\ SetPageRange(rangeTimer, <<>>)
  /\ UNCHANGED <<navVars, scale, cacheVars, zoomTimer, throttleVars, middle, jump, lastJump, refreshes,
                 lost, events>>

\* 75 ms after the call of a throttle; those of older throttles end first.
ThrottleEnds ==
  /\ Idle
  /\ leftBehind = <<>>
  /\ \/ /\ throttle = "shut"
        /\ throttle' = "open"
        /\ UNCHANGED <<navVars, scale, cacheVars, timers, reported, misled, middle, jump, lastJump, pageRange,
                       mounted, refreshes, lost, work, events>>
     \/ /\ throttle = "trailing"
        /\ throttle' = "shut"
        /\ SetRangeFromScrollPosition(middle, <<>>)
  /\ UNCHANGED leftBehind

\* The page in the middle of the viewport, reckoned with the page height of an
\* older zoom (a page past the end counts as the last here).
Reckoned(old) == {m \in DocumentPages : /\ old <= scale => m >= middle
                                        /\ old >= scale => m <= middle}

\* The trailing call of a throttle from before a zoom.
StaleScroll(m) ==
  /\ Idle
  /\ leftBehind # <<>>
  /\ m \in Reckoned(Head(leftBehind))
  /\ leftBehind' = Tail(leftBehind)
  /\ SetRangeFromScrollPosition(m, <<>>)
  /\ UNCHANGED throttle

ZoomTimerFires ==
  /\ Idle
  /\ zoomTimer # NoTimer
  /\ zoomTimer' = NoTimer
  /\ cacheSize' = zoomTimer
  /\ work' = Job("resize", DOMAIN mounted)
  /\ UNCHANGED <<navVars, scale, cacheQuery, previews, data, requests, rangeTimer, throttleVars, middle, jump,
                 lastJump, pageRange, mounted, refreshes, lost, events>>

\* The subscribers of a request are called with its answer, those of a
\* promise derived from it after those of the promise itself.
Answered(component, r) ==
  IF ~Subscribes(component, {r}) THEN component
  ELSE [component EXCEPT !.shown = IF [request |-> r, wiped |-> TRUE] \in component.subscribed
                                   THEN NoFindQuery ELSE requests[r].query]

Respond(r) ==
  /\ Idle
  /\ r \in Pending(DOMAIN requests)
  /\ requests' = [requests EXCEPT ![r] = [@ EXCEPT !.state = "loaded"]]
  /\ mounted' = [p \in DOMAIN mounted |-> Answered(mounted[p], r)]
  /\ UNCHANGED <<navVars, scale, cacheSize, cacheQuery, previews, data, timers, throttleVars, middle,
                 jump, lastJump,
                 pageRange, refreshes, lost, work, events>>

\* The request fails; the rejected promise stays in the cache.
FailRequest(r) ==
  /\ Idle
  /\ AnEvent
  /\ r \in Pending(DOMAIN requests)
  /\ requests' = [requests EXCEPT ![r] = [@ EXCEPT !.state = "failed"]]
  /\ refreshes' = {t \in refreshes : \A s \in t.promises : s.request # r}
  /\ lost' = (lost \/ refreshes' # refreshes)
  /\ UNCHANGED <<navVars, scale, cacheSize, cacheQuery, previews, data, timers, throttleVars, middle,
                 jump, lastJump,
                 pageRange, mounted, work>>

\* The continuation of Promise.all: the cached pages that were not on screen.
RefreshCachedPages ==
  /\ work = <<>>
  /\ \E t \in Ready :
       /\ refreshes' = refreshes \ {t}
       /\ work' = Job("background", Cached(data) \ t.pages)
  /\ UNCHANGED <<navVars, scale, cacheVars, timers, throttleVars, middle, jump, lastJump, pageRange,
                 mounted, lost, events>>

User ==
  \/ \E m \in DocumentPages : Scroll(m)
  \/ \E typed \in 0..(NumPages + 1) : JumpToPage(typed)
  \/ \E s \in Scales : Zoom(s)
  \/ \E q \in FindQueries : Find(q)
  \/ ClearFind
  \/ StepToHighlight

Answers ==
  \/ \E q \in FindQueries : ShowHighlights(q) \/ LoseHighlights(q)
  \/ \E r \in DOMAIN requests : Respond(r) \/ FailRequest(r)

Init ==
  /\ NavInit
  /\ scale = 1 /\ cacheSize = 1
  /\ zoomTimer = NoTimer /\ rangeTimer = NoTimer
  /\ throttle = "open" /\ leftBehind = <<>>
  /\ reported = 1 /\ misled = FALSE
  /\ cacheQuery = NoFindQuery
  /\ previews = EmptyCache /\ data = EmptyCache
  /\ requests = <<>>
  /\ middle = 1 /\ pageRange = 1
  /\ jump = [page |-> 1, nonce |-> 0] /\ lastJump = 0
  /\ mounted = [p \in {} |-> p]
  /\ refreshes = {}
  /\ lost = FALSE
  /\ work = Job("render", Window(1))
  /\ events = 0

Timers ==
  \/ RangeTimerFires \/ ZoomTimerFires \/ ThrottleEnds
  \/ \E m \in DocumentPages : StaleScroll(m)

Next == Work \/ RefreshCachedPages \/ Timers \/ User \/ Answers

Spec == Init /\ [][Next]_vars

(***************************************************************************)
(* Properties.                                                             *)
(***************************************************************************)

(* The two caches keep the same pages in the same order of use, no page    *)
(* twice, and no more than they may: getPage puts an entry of each         *)
(* together, and a find refreshes the pages of the data cache only.        *)
CachesAgree ==
  /\ WellFormed(data, MaxCachedPages)
  /\ data.queue = previews.queue
  /\ Cached(data) = Cached(previews)

(* When no change of the range is scheduled, the pages that are mounted    *)
(* are those around the page the footer shows: a move that is handled at   *)
(* once cancels the debounced one before it                                *)
(* (setPageRangeFromScrollPosition).                                       *)
ReportedIsRendered ==
  work = <<>> /\ rangeTimer = NoTimer => DOMAIN mounted = Window(reported)

(* That page is the one in the middle of the viewport, unless a scroll is  *)
(* left to the trailing call, or the last call came from before a zoom and *)
(* reckoned with the page height it had.                                   *)
ReportsTheViewport ==
  work = <<>> /\ throttle # "trailing" /\ ~misled => reported = middle

(* So the viewport is rendered when nothing of it is put off.              *)
ViewportRendered == ReportedIsRendered /\ ReportsTheViewport

(* Refuted.  Scrolling twice and zooming within 75 ms leaves the pages     *)
(* around another page than the viewport's until the next scroll           *)
(* (VirtualScroll.tsx:262-265).                                            *)
ViewportAlwaysRendered ==
  work = <<>> /\ rangeTimer = NoTimer /\ throttle # "trailing" => DOMAIN mounted = Window(middle)

(* The highlight in focus is one there is, and the pages on screen are     *)
(* the ones the viewport asks for (useHighlightNavigation.ts,              *)
(* VirtualScroll.tsx).                                                     *)
InView == FocusIsAHighlight /\ ViewportRendered

(* A page whose promise is fulfilled shows what that promise brings: the   *)
(* answer to a request it had before does not overwrite it, since whatever *)
(* leaves the cache is aborted (onDataCacheEvict, Page.tsx).               *)
ShowsLatestAnswer ==
  \A p \in DOMAIN mounted :
    LET promise == mounted[p].data IN
    requests[promise.request].state = "loaded" => mounted[p].shown = Content(promise)

(* A cached page holds highlights of another query than the one last       *)
(* searched for only while the refresh of a find is to come that will      *)
(* fetch it again, unless that refresh was given up because a page on      *)
(* screen failed to load.                                                  *)
StaleOnlyWhileRefreshing ==
  work = <<>> /\ ~lost =>
    \A p \in Cached(data) :
      Content(data.entries[p]) # cacheQuery => \E t \in refreshes : p \notin t.pages

(* The pages show what was searched for last, or are about to be fetched   *)
(* again (PageCache.ts, usePageFind.ts).                                   *)
PagesShowFind == ShowsLatestAnswer /\ StaleOnlyWhileRefreshing

(* Refuted.  Page.tsx:38 says of the cache that "we should never get an    *)
(* eviction on a visible page".                                            *)
VisibleNeverAborted ==
  \A p \in DOMAIN mounted \cap Window(middle) : ~mounted[p].aborted

(* Refuted.  With no zoom scheduled, the previews on screen are rendered   *)
(* for the zoom that is set (VirtualScroll.tsx:115-116).                   *)
PreviewsMatchZoom ==
  work = <<>> /\ zoomTimer = NoTimer => \A p \in DOMAIN mounted : mounted[p].size = scale
===============================================================================
