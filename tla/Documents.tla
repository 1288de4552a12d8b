------------------------------- MODULE Documents -------------------------------
(***************************************************************************)
(* The document that is loaded: one place in the store, which the viewer,  *)
(* its sidebar, the directories and the redirection of a resource all load *)
(* for themselves, and the answers of the server fill in any order.        *)
(***************************************************************************)
EXTENDS Integers, Sequences, FiniteSets, SequencesExt

CONSTANTS
  Docs,         \* what the viewer shows
  Paged,        \* those of them that have pages
  Blobs,        \* those of them that are files; the others are emails
  Bare,         \* those of them that are too long to be sent with their contents
  ViewsOf,      \* the views a document has something to show in
  Dirs,         \* files and ingestions with children
  SingleChild,  \* the document that is all there is in a file, or NoUri
  NoUri,
  MaxFlights,   \* bound: requests in flight, page counts among them
  MaxMoves      \* bound: what the user opens, and comments

ASSUME DocumentsAssumption ==
  /\ Paged \subseteq Docs /\ Blobs \subseteq Docs /\ Bare \subseteq Docs /\ Docs \cap Dirs = {}
  /\ NoUri \notin Docs \cup Dirs
  /\ \A d \in Docs : ViewsOf[d] \subseteq {"text", "preview", "ocr", "transcript", "vttTranscript", "table"}
  /\ \A f \in Dirs : SingleChild[f] \in Docs \cup {NoUri}
  /\ MaxFlights \in Nat /\ MaxMoves \in Nat

VARIABLES
  page, uri,   \* the route
  store,       \* what the page has mounted and loaded
  flights,     \* requests in flight
  counts,      \* documents whose pages the viewer has asked for
  moves,
  mixed,       \* a directory, a redirection or the old viewer has loaded beside the sidebar
  failed       \* a request has failed

documentsVars == <<page, uri, store, flights, counts, moves, mixed, failed>>

Uris == Docs \cup Dirs
Views == {"none", "combined", "text"} \cup UNION {ViewsOf[d] : d \in Docs}
Requests == [kind : {"full", "basic", "comments"}, uri : Uris]

\* full: with its contents, the text there is of it, its OCR and its transcripts.
Resources == [some : BOOLEAN, uri : Uris \cup {NoUri}, comments : Uris \cup {NoUri}, full : BOOLEAN]
NoResource == [some |-> FALSE, uri |-> NoUri, comments |-> NoUri, full |-> FALSE]

\* response: the page count, which outlives a change of document; the old viewer,
\* at /viewer-old, asks for none.  fresh: the viewer has not been updated since it
\* was mounted on a resource, in no view.
Stores == [resource : Resources, loading : BOOLEAN,
           response : {"unknown", "pages", "none", "uncounted"}, view : Views, fresh : BOOLEAN]

Unpaged == {"none", "uncounted"}

DocumentsTypeOK ==
  /\ page \in {"elsewhere", "viewer", "directory", "resources"}
  /\ uri \in Uris \cup {NoUri}
  /\ store \in Stores
  /\ flights \in Seq(Requests)
  /\ counts \in Seq(Docs)
  /\ moves \in 0..MaxMoves
  /\ {mixed, failed} \subseteq BOOLEAN

Request(kind, u) == [kind |-> kind, uri |-> u]
State(s, asked) == [store |-> s, asked |-> asked]

(***************************************************************************)
(* Loading.  Each operator takes and returns a store and the requests made *)
(* so far.                                                                 *)
(***************************************************************************)

GetResource(s, u) == State([s.store EXCEPT !.loading = TRUE], Append(s.asked, Request("full", u)))
GetBasicResource(s, u) == State(s.store, Append(s.asked, Request("basic", u)))
ResetResource(s) == State([s.store EXCEPT !.resource = NoResource], s.asked)

\* ViewerSidebar, mounted and given another document.
SidebarMounts(s, u) ==
  IF ~s.store.loading /\ ~s.store.resource.some THEN GetResource(s, u) ELSE s

SidebarReceives(s, u) == IF ~s.store.loading THEN GetResource(s, u) ELSE s

\* Mutant: without asking whether the sidebar is loading.
ViewerMountsAnyway(s, u) == IF ~s.store.resource.some THEN GetResource(s, u) ELSE s

ViewerMounts(s, u) ==
  IF ~s.store.loading /\ ~s.store.resource.some THEN GetResource(s, u) ELSE s

\* componentDidUpdate, for each change of the resource.
DirectoryUpdates(s, u) == IF s.store.resource.uri # u THEN GetBasicResource(s, u) ELSE s

(***************************************************************************)
(* Views.                                                                  *)
(***************************************************************************)

\* What there is to show of a resource.  A text or an OCR that is blank, or has not
\* been extracted yet, is none.
Contained(r) == IF r.full /\ r.uri \in Docs THEN ViewsOf[r.uri] ELSE {}

\* "none" for an email, and for what has come without its contents.
DefaultView(r) ==
  LET has == Contained(r) IN
  IF ~r.full \/ r.uri \notin Blobs THEN "none"
  ELSE IF "transcript" \in has THEN "transcript"
  ELSE IF "text" \notin has /\ "ocr" \in has THEN "ocr"
  ELSE IF "text" \notin has /\ "preview" \in has THEN "preview"
  ELSE "text"

\* The page viewer's own, while there are pages.
CombinedView(s) ==
  IF s.store.response = "pages" /\ s.store.view = "none"
  THEN State([s.store EXCEPT !.view = "combined"], s.asked)
  ELSE s

\* The viewer's, whenever it is updated, and not when it is mounted.
ResourceView(s) ==
  IF s.store.response \in Unpaged /\ s.store.view = "none"
  THEN State([s.store EXCEPT !.view = DefaultView(s.store.resource)], s.asked)
  ELSE s

\* Nothing looks for the pages of a document that has none, nor for its transcripts.
NeverLookedFor == {"combined", "transcript", "vttTranscript"}

ViewIsValid(view, r) == view \in NeverLookedFor \cup Contained(r)

\* Mutant: the text of a document is not looked for.
FallbackToAnyView(s) ==
  LET default == DefaultView(s.store.resource) IN
  IF s.store.response # "unknown" /\ s.store.view # "none" /\ default # "none"
     /\ s.store.view \notin NeverLookedFor \cup {"text"} \cup Contained(s.store.resource)
  THEN State([s.store EXCEPT !.view = default], s.asked)
  ELSE s

\* PreviewSwitcher, mounted and updated.
FallbackView(s) ==
  LET default == DefaultView(s.store.resource) IN
  IF s.store.response # "unknown" /\ s.store.view # "none" /\ default # "none"
     /\ ~ViewIsValid(s.store.view, s.store.resource)
  THEN State([s.store EXCEPT !.view = default], s.asked)
  ELSE s

Fresh(s, fresh) == State([s.store EXCEPT !.fresh = fresh], s.asked)

Updated(s) == Fresh(FallbackView(ResourceView(CombinedView(s))), FALSE)

Mounted(s) ==
  Fresh(FallbackView(CombinedView(s)),
        s.store.response \in Unpaged /\ s.store.view = "none" /\ s.store.resource.some)

\* The links of the footer; the shortcut for the text is there without one.
Links(r) ==
  LET has == Contained(r) IN
  {"text"} \cup (IF "transcript" \in has THEN has \ {"ocr"} ELSE has)
    \cup (IF store.response = "pages" THEN {"combined"} ELSE {})
    \cup (IF r.uri \in Docs THEN {"table"} \cap ViewsOf[r.uri] ELSE {})

\* What the viewer displays of a resource in a view: the text, which may be blank,
\* in any that is none of the others.
Contents(r, view) ==
  CASE view \in {"none", "text", "combined"} /\ r.full -> "text"
    [] view = "table" /\ r.full                        -> "table"
    [] view = "preview"                                -> "preview"
    [] view \in {"ocr", "transcript", "vttTranscript"} /\ view \in Contained(r) -> view
    [] OTHER                                           -> "no preview"

(***************************************************************************)
(* Coming and going.                                                       *)
(***************************************************************************)

\* The viewer resets the resource when it is unmounted, the page viewer does not.
Leaves(s) ==
  IF page = "viewer" /\ s.store.response \in Unpaged THEN ResetResource(s) ELSE s

NoView(s) == State([s.store EXCEPT !.view = "none", !.response = "unknown", !.fresh = FALSE], s.asked)

EntersViewer(s, u, view) ==
  LET opened == State([s.store EXCEPT !.view = view,
                         !.response = IF page = "viewer" THEN @ ELSE "unknown"], s.asked)
      loaded == IF page = "viewer" THEN Leaves(SidebarReceives(opened, u)) ELSE SidebarMounts(opened, u)
  IN  Mounted(loaded)

\* The viewer of the old address, beside the same sidebar.
EntersOldViewer(s, u, view) ==
  LET opened == State([s.store EXCEPT !.view = view, !.response = "uncounted"], s.asked)
  IN  Mounted(ViewerMounts(SidebarMounts(opened, u), u))

\* Given another document it stays, and loads it if it knows of no load: it has not
\* been told of the sidebar's.
OldViewerReceives(s, u) ==
  LET told == SidebarReceives(s, u) IN IF ~s.store.loading THEN GetResource(told, u) ELSE told

\* Mounted before the viewer it takes the place of resets the resource.
EntersDirectory(s, u) ==
  LET mounted == IF s.store.resource.uri # u THEN GetBasicResource(s, u) ELSE s
      left == Leaves(mounted)
      after == IF left.store # mounted.store THEN DirectoryUpdates(left, u) ELSE left
  IN  NoView(after)

\* A viewer asks for the pages of each document it is given; those of a viewer
\* that is gone are not waited for.
Counting(to, u) ==
  IF to = "viewer" THEN Append(IF page = "viewer" THEN counts ELSE <<>>, u) ELSE <<>>

Sends(before, s) ==
  /\ Len(before) + Len(s.asked) + Len(counts') <= MaxFlights
  /\ store' = s.store
  /\ flights' = before \o s.asked

Goes(to, u, s) ==
  /\ page' = to /\ uri' = u
  /\ counts' = Counting(to, u)
  /\ Sends(flights, s)

Now == State(store, <<>>)
Moves == moves < MaxMoves /\ moves' = moves + 1

OpenDocument(d, view) ==
  /\ page # "viewer" /\ Moves
  /\ Goes("viewer", d, EntersViewer(Now, d, view))
  /\ UNCHANGED <<mixed, failed>>

\* Nothing in the pages leads there.
OpenOldAddress(d, view) ==
  /\ page = "elsewhere" /\ Moves
  /\ page' = "viewer" /\ uri' = d /\ counts' = <<>>
  /\ Sends(flights, EntersOldViewer(Now, d, view))
  /\ UNCHANGED <<mixed, failed>>

SetResourceView(view) ==
  /\ page = "viewer" /\ store.response # "unknown" /\ store.resource.uri \in Docs
  /\ view \in Links(store.resource) \ {store.view} /\ Moves
  /\ store' = Updated(State([store EXCEPT !.view = view], <<>>)).store
  /\ UNCHANGED <<page, uri, flights, counts, mixed, failed>>

\* Something else the viewer draws has changed: the session was prolonged, or the user's
\* preferences were set.
ViewerUpdates ==
  /\ page = "viewer" /\ store.fresh
  /\ store' = Updated(Now).store
  /\ UNCHANGED <<page, uri, flights, counts, moves, mixed, failed>>

\* The footer is there with the resource.  By a shortcut, the viewer that is left is
\* updated before it goes, with the new address, which has no view, and its own resource.
StepToDocument(d) ==
  /\ page = "viewer" /\ store.response # "uncounted"
  /\ d # uri /\ store.resource.some /\ Moves
  /\ \E view \in {"none", IF store.response = "none" THEN DefaultView(store.resource) ELSE "none"} :
       Goes("viewer", d, EntersViewer(Now, d, view))
  /\ UNCHANGED <<mixed, failed>>

StepOnOldAddress(d) ==
  /\ page = "viewer" /\ store.response = "uncounted"
  /\ d # uri /\ store.resource.some /\ Moves
  /\ uri' = d /\ counts' = <<>> /\ mixed' = TRUE
  /\ Sends(flights, Updated(OldViewerReceives(State([store EXCEPT !.view = "none"], <<>>), d)))
  /\ UNCHANGED <<page, failed>>

OpenDirectory(f) ==
  /\ ~(page = "directory" /\ uri = f) /\ Moves
  /\ Goes("directory", f, EntersDirectory(Now, f))
  /\ mixed' = TRUE /\ UNCHANGED failed

Leave ==
  /\ page # "elsewhere" /\ Moves
  /\ Goes("elsewhere", NoUri, NoView(Leaves(Now)))
  /\ UNCHANGED <<mixed, failed>>

\* A search resets what is loaded.
Search ==
  /\ page = "elsewhere" /\ store.resource.some /\ Moves
  /\ store' = ResetResource(Now).store
  /\ UNCHANGED <<page, uri, flights, counts, mixed, failed>>

(***************************************************************************)
(* /resources: load, reset and redirect.                                   *)
(***************************************************************************)

\* A file with one document in it stands for the document.
Destination(u) == IF u \in Dirs /\ SingleChild[u] \in Docs THEN SingleChild[u] ELSE u

Redirects(kept, u, s) ==
  LET reset == ResetResource(s)
      to == Destination(u)
      there == IF to \in Docs THEN "viewer" ELSE "directory"
  IN  /\ page' = there /\ uri' = to
      /\ counts' = Counting(there, to)
      /\ Sends(kept, IF to \in Docs THEN EntersViewer(reset, to, "none") ELSE EntersDirectory(reset, to))

OpenResource(u) ==
  /\ page \in {"elsewhere", "directory"} /\ Moves
  /\ IF store.resource.uri = u THEN Redirects(flights, u, Now)
     ELSE Goes("resources", u, GetBasicResource(Now, u))
  /\ mixed' = TRUE /\ UNCHANGED failed

(***************************************************************************)
(* Comments.                                                               *)
(***************************************************************************)

PostComment ==
  /\ page = "viewer" /\ store.resource.uri \in Docs /\ Moves
  /\ Len(flights) + Len(counts) < MaxFlights
  /\ flights' = Append(flights, Request("comments", store.resource.uri))
  /\ UNCHANGED <<page, uri, store, counts, mixed, failed>>

\* The comments go to the resource there is, and make one where there is none.
SetComments(s, u) ==
  State([s.store EXCEPT !.resource = [@ EXCEPT !.some = TRUE, !.comments = u]], s.asked)

(***************************************************************************)
(* Answers.                                                                *)
(***************************************************************************)

OtherFlights(i) == RemoveAt(flights, i)

Settles(i, s) ==
  /\ UNCHANGED <<page, uri, counts>>
  /\ Sends(OtherFlights(i), s)

\* What the page makes of a resource that has come.
Reacts(s) ==
  CASE page = "directory" -> DirectoryUpdates(s, uri)
    [] page = "viewer"    -> Updated(s)
    [] OTHER              -> s

HandleResourceResponse(request) ==
  State([store EXCEPT !.resource = [some |-> TRUE, uri |-> request.uri, comments |-> request.uri,
                                    full |-> request.kind = "full" /\ request.uri \notin Bare],
                      !.loading = FALSE], <<>>)

ResourceAnswered(i) ==
  LET s == HandleResourceResponse(flights[i]) IN
      /\ flights[i].kind \in {"full", "basic"}
      /\ IF page = "resources" /\ flights[i].uri = uri THEN Redirects(OtherFlights(i), uri, s)
         ELSE Settles(i, Reacts(s))
      /\ UNCHANGED <<moves, mixed, failed>>

\* None of them is cancelled by a change of document.
PagesCounted(i, response) ==
  LET counted == State([store EXCEPT !.response = response], <<>>)
      s == IF store.response = response THEN Updated(counted)
           ELSE IF response = "none" THEN Mounted(ViewerMounts(counted, uri))
           ELSE IF store.response = "none" THEN Updated(ResetResource(counted))
           ELSE Updated(counted)
  IN  /\ UNCHANGED <<page, uri, moves, mixed>>
      /\ counts' = RemoveAt(counts, i)
      /\ Sends(flights, s)

PagesAnswered(i) ==
  /\ PagesCounted(i, IF counts[i] \in Paged THEN "pages" ELSE "none")
  /\ UNCHANGED failed

\* The page count has a value for it.
PagesFailed(i) == PagesCounted(i, "none") /\ failed' = TRUE

CommentsAnswered(i) ==
  /\ flights[i].kind = "comments"
  /\ Settles(i, Reacts(SetComments(Now, flights[i].uri)))
  /\ UNCHANGED <<moves, mixed, failed>>

\* The error is shown.
RequestFailed(i) ==
  /\ Settles(i, Now)
  /\ failed' = TRUE
  /\ UNCHANGED <<moves, mixed>>

(***************************************************************************)
(* The specification.                                                      *)
(***************************************************************************)

DocumentsInit ==
  /\ page = "elsewhere" /\ uri = NoUri
  /\ store = [resource |-> NoResource, loading |-> FALSE, response |-> "unknown",
              view |-> "none", fresh |-> FALSE]
  /\ flights = <<>> /\ counts = <<>> /\ moves = 0 /\ mixed = FALSE /\ failed = FALSE

DocumentsNext ==
  \/ \E d \in Docs : StepToDocument(d) \/ StepOnOldAddress(d)
  \/ \E v \in Views : SetResourceView(v)
  \/ \E d \in Docs, v \in Views : OpenDocument(d, v) \/ OpenOldAddress(d, v)
  \/ \E f \in Dirs : OpenDirectory(f)
  \/ \E u \in Uris : OpenResource(u)
  \/ Leave \/ Search \/ PostComment \/ ViewerUpdates
  \/ \E i \in DOMAIN flights : ResourceAnswered(i) \/ CommentsAnswered(i) \/ RequestFailed(i)
  \/ \E i \in DOMAIN counts : PagesAnswered(i) \/ PagesFailed(i)

DocumentsSpec == DocumentsInit /\ [][DocumentsNext]_documentsVars

(***************************************************************************)
(* Properties.                                                             *)
(***************************************************************************)

Loads == {i \in DOMAIN flights : flights[i].kind = "full"}

\* As long as nothing loads but the viewer by pages and its sidebar, they never have
\* two documents loading at once, however fast the user steps from one to the
\* next ("avoid duplicate requests which race each other": Viewer.tsx:103,
\* ViewerSidebar.js:47).
OneLoadAtATime == ~mixed => Cardinality(Loads) <= 1

\* The viewer waits only for what has been asked for, or has failed.
LoadingIsAskedFor == store.loading /\ ~failed => Loads # {}

\* What is loading is one document, and one that will be answered (Viewer.tsx,
\* ViewerSidebar.js, resourceReducer.js).
LoadsAreWaitedFor == OneLoadAtATime /\ LoadingIsAskedFor

\* A directory comes to show what its address names, whatever answers of other
\* pages arrive while it is shown (Directory.tsx, fetchResourceIfRequired).
DirectoryShowsItself ==
  page = "directory" /\ flights = <<>> /\ ~failed => store.resource.uri = uri

\* What a document falls back to.
Fallbacks == {"transcript", "text", "ocr", "preview"}

\* The viewer of a file without pages shows something of it, if there is something to
\* fall back to: a view that the file has nothing in gives way to one it has, whatever
\* address or answer brought the two together.  Nothing does if the view is of pages or
\* transcripts, and before the first update of a viewer mounted in no view, once the
\* file was there (PreviewSwitcher.tsx, Viewer.tsx componentDidUpdate,
\* renderFullContents, resourceUtils.ts getDefaultView).
Displays(s) ==
  LET has == Contained(s.resource) IN
  /\ s.response \in Unpaged /\ s.resource.uri \in Blobs
  /\ has \cap Fallbacks # {}
  /\ s.view \in NeverLookedFor => s.view \in has
  /\ s.view = "none" => ~s.fresh
  => Contents(s.resource, s.view) \in has

\* What was opened is shown, once all is answered (Directory.tsx,
\* PreviewSwitcher.tsx).
OpenedIsShown == DirectoryShowsItself /\ (page = "viewer" => Displays(store))

\* Refuted: whatever the view is, the document, and the time since the viewer was mounted.
DisplaysAlways ==
  page = "viewer" /\ store.response \in Unpaged /\ Contained(store.resource) \cap Fallbacks # {}
    => Contents(store.resource, store.view) \in Contained(store.resource)

Quiet == flights = <<>> /\ counts = <<>> /\ ~failed

\* Refuted: a document stepped to while another loads is never loaded, and
\* neither is one opened after pages.
ViewerShowsItself == page = "viewer" /\ Quiet => store.resource.uri = uri

\* Refuted: comments that come when nothing is loaded make a resource of
\* comments only, and the viewer takes it for the document.
ViewerHasADocument == page = "viewer" /\ store.resource.some => store.resource.uri # NoUri

\* Refuted.  "Combined view is only available when the document has been
\* ingested as pages" (components/viewer/PreviewSwitcher.tsx:97).
CombinedHasPages == page = "viewer" /\ Quiet /\ store.view = "combined" => uri \in Paged

\* Refuted.  "avoid duplicate requests which race each other"
\* (components/viewer/Viewer.tsx:103).
NoLoadsRace == Cardinality(Loads) <= 1
================================================================================
