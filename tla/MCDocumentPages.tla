-------------------------- MODULE MCDocumentPages --------------------------
(***************************************************************************)
(* Small instances of what a user has open to bring, find and read         *)
(* documents, one of them at a time: the dialog of uploads, the page of    *)
(* searches, its search box, the documents opened, and the comments on the *)
(* text of one, in the margin and in the text.  The rest stays as it opens.*)
(***************************************************************************)
EXTENDS Uploads, Documents, SearchPage, ChipEditor, CommentPanel, CommentHighlighter, TLC

CONSTANTS scan, song, sheet, letter, tome, folder, file, text, date, word, plus, minus

VARIABLE part

documentPagesVars ==
  <<part, uploadVars, documentsVars, searchVars, chipVars, panelVars, highlighterVars>>

\* One folder is named like the one it is in, and like the beginning of another; one
\* file is too large and one a system file, dropped with them but not uploaded.
DroppedFiles == << <<"a", "DS_Store">>, <<"a", "Film">>, <<"a", "a", "f">>, <<"a", "ab", "g">> >>
Large == {<<"a", "Film">>}
Beginnings == {<<"a", "ab">>}
System == {"DS_Store"}

\* A file with pages, a recording, a scan without pages, an email and a book.
SomeViews ==
  scan :> {"text", "preview"} @@ song :> {"transcript"} @@ sheet :> {"ocr"} @@ letter :> {"text"} @@ tome :> {"text"}
SomeChildren == folder :> NoUri @@ file :> sheet

SomeFields == <<text, date>>
SomeTexts == {<<>>, <<word, minus>>, <<plus, word>>}
Typed(words) == Input(words, 0, 0)
SomeQueries == {
  <<Typed(<<word>>)>>,
  <<Typed(<<>>), Chip(text, "x", FALSE), Typed(<<word>>), Chip(date, "x", TRUE), Typed(<<>>)>> }

DocumentPagesInit ==
  /\ part \in {"uploads", "documents", "search", "chips", "panel", "highlighter"}
  /\ CommentPanelInit
  /\ IF part = "panel" THEN top[2] = 0 ELSE \A c \in Ids : top[c] = 0 /\ tall[c] = 1
  /\ (part = "highlighter" \/ given = <<>>) /\ HighlighterInit
  /\ UploadsInit /\ DocumentsInit /\ SearchInit /\ ChipInit

UseUploads == part = "uploads" /\ UploadsNext
  /\ UNCHANGED <<part, documentsVars, searchVars, chipVars, panelVars, highlighterVars>>
UseDocuments == part = "documents" /\ DocumentsNext
  /\ UNCHANGED <<part, uploadVars, searchVars, chipVars, panelVars, highlighterVars>>
UseSearch == part = "search" /\ SearchNext
  /\ UNCHANGED <<part, uploadVars, documentsVars, chipVars, panelVars, highlighterVars>>
UseChips == part = "chips" /\ ChipNext
  /\ UNCHANGED <<part, uploadVars, documentsVars, searchVars, panelVars, highlighterVars>>
UsePanel == part = "panel" /\ CommentPanelNext
  /\ UNCHANGED <<part, uploadVars, documentsVars, searchVars, chipVars, highlighterVars>>
UseHighlighter == part = "highlighter" /\ HighlighterNext
  /\ UNCHANGED <<part, uploadVars, documentsVars, searchVars, chipVars, panelVars>>

DocumentPagesNext ==
  UseUploads \/ UseDocuments \/ UseSearch \/ UseChips \/ UsePanel \/ UseHighlighter

DocumentPagesSpec == DocumentPagesInit /\ [][DocumentPagesNext]_documentPagesVars

\* Each page has states of its type.
DocumentPagesTypeOK ==
  UploadsTypeOK /\ DocumentsTypeOK /\ SearchTypeOK /\ ChipsTypeOK /\ CommentPanelTypeOK /\ HighlighterTypeOK
=============================================================================
