------------------------- MODULE MCMarkdownPipeline -------------------------
EXTENDS MarkdownPipeline

(***************************************************************************)
(* Three paths in sorted order; path 3 stands for a file under a skipped  *)
(* directory.  Texts: t1 and t2 are ordinary UTF-8 documents, e is empty, *)
(* x holds a byte sequence that is not UTF-8 and decodes to x0, and s is  *)
(* a document that quotes a "**Source**: `...`" line naming path 3.       *)
(* Each run picks the texts it needs.                                     *)
(***************************************************************************)
MCPaths == {1, 2, 3}
MCSkipped == {3}
MCIsEmpty(c) == c = "e"
MCCites(c) == IF c = "s" THEN {3} ELSE {}

\* Clean texts only: decoding is the identity, nothing quotes a header.
CleanContents == {"t1", "t2", "e"}
CleanDecoded(c) == c

\* With the non-UTF-8 text x, which decodes to x0.
LossyContents == {"t1", "x", "x0"}
LossyDecoded(c) == IF c = "x" THEN "x0" ELSE c

\* With the text s that quotes a Source line.
QuotingContents == {"t1", "s"}

\* Developers write files at any time, or only before the first run.
EditAnyTime(n) == TRUE
EditBeforeRuns(n) == n = 0

=============================================================================
