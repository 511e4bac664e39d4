-------------------------- MODULE MarkdownPipeline --------------------------
(***************************************************************************)
(* The documentation clean-up pair of scripts:                             *)
(*   scripts/archive/consolidate-markdown.py walks the tree, reads every  *)
(*   markdown file and writes one CONSOLIDATED_DOCUMENTATION.md in which  *)
(*   each file appears as a "**Source**: `path`" header and its content;  *)
(*   scripts/delete-original-md.py reads that document back, extracts    *)
(*   every "**Source**: `...`" match and removes the file at that path.   *)
(* Developers edit and remove markdown files at any time (the             *)
(* environment).  A file's text is abstracted to a member of Contents;    *)
(* the MC module says which contents are empty, which hold bytes that are *)
(* not UTF-8 and which themselves contain "**Source**: `p`" lines.        *)
(***************************************************************************)
EXTENDS Naturals, Sequences, FiniteSets

CONSTANTS
    Paths,          \* markdown paths under root_dir, numbered in the order
                    \* the script reads them (sorted categories, then sorted
                    \* paths within a category)
    Skipped,        \* paths os.walk never reports (.git, node_modules, ...
                    \* or a nested CONSOLIDATED_DOCUMENTATION.md)
    Contents,       \* the texts a markdown file can hold
    IsEmpty(_),     \* content.strip() is empty
    Decoded(_),     \* the text open(..., errors='ignore').read() returns
    Cites(_),       \* paths named by "**Source**: `...`" lines inside it
    EditAllowed(_), \* whether developers may write files after n runs
    Crashes,        \* whether the consolidator can die while writing
    Absent, ErrorText, EmptyNote, NoDoc,
    MaxRuns,        \* bound on the runs of each script
    MaxEdits        \* bound on the environment's writes and removals

ASSUME PathsAssumption == Paths \subseteq Nat /\ IsFiniteSet(Paths) /\ Skipped \subseteq Paths
ASSUME ContentsAssumption ==
    /\ \A c \in Contents : IsEmpty(c) \in BOOLEAN /\ Decoded(c) \in Contents
    /\ \A c \in Contents : Cites(c) \subseteq Paths
    /\ {Absent, ErrorText, EmptyNote, NoDoc} \cap Contents = {}
ASSUME BoundsAssumption == MaxRuns \in Nat /\ MaxEdits \in Nat /\ Crashes \in BOOLEAN

\* What one "## path / **Source** / content" block of the document holds:
\* the text written after the header, and whether the write got past it.
Entry == [path : Paths, body : Contents \cup {ErrorText, EmptyNote}, whole : BOOLEAN]

VARIABLES
    fs,        \* the markdown tree: path -> content, or Absent
    doc,       \* CONSOLIDATED_DOCUMENTATION.md: a sequence of entries, or NoDoc
    cPhase,    \* consolidate-markdown.py: "idle" or "reading"
    cTodo,     \* walked paths not yet read
    cAcc,      \* the entries built so far (the list "consolidated")
    dPhase,    \* delete-original-md.py: "idle" or "deleting"
    dTodo,     \* extracted source paths not yet handled
    dCur,      \* the loop variable "source": the path being removed, or Absent
    errors,    \* paths whose os.remove raised (the script's "errors" list)
    deleted,   \* history: <<path, content>> of every file the script removed
    runs,      \* script runs started so far
    edits      \* environment steps so far

vars == <<fs, doc, cPhase, cTodo, cAcc, dPhase, dTodo, dCur, errors, deleted, runs, edits>>

TypeOK ==
    /\ fs \in [Paths -> Contents \cup {Absent}]
    /\ doc \in Seq(Entry) \cup {NoDoc}
    /\ cPhase \in {"idle", "reading"} /\ dPhase \in {"idle", "deleting", "removing"}
    /\ cTodo \subseteq Paths /\ dTodo \subseteq Paths /\ dCur \in Paths \cup {Absent}
    /\ errors \subseteq Paths
    /\ cAcc \in Seq(Entry)
    /\ deleted \subseteq Paths \X Contents
    /\ runs \in 0..MaxRuns /\ edits \in 0..MaxEdits

Init ==
    /\ fs \in [Paths -> Contents \cup {Absent}]
    /\ doc = NoDoc
    /\ cPhase = "idle" /\ cTodo = {} /\ cAcc = <<>>
    /\ dPhase = "idle" /\ dTodo = {} /\ dCur = Absent /\ errors = {}
    /\ deleted = {}
    /\ runs = 0 /\ edits = 0

\* The first of a set of paths in that order.
SmallestOf(S) == CHOOSE p \in S : \A q \in S : p <= q

-----------------------------------------------------------------------------
(***************************************************************************)
(* consolidate-markdown.py                                                 *)
(***************************************************************************)

\* Mutant: the walk without the "dirs[:] = ..." and file-name filters.
MdFilesUnfiltered == {p \in Paths : fs[p] # Absent}

\* os.walk with the directory and file-name filters: the files it reports.
MdFiles == {p \in Paths \ Skipped : fs[p] # Absent}

\* read_file_content: the decoded text, or the "Error reading file" comment
\* when the file cannot be opened (here: it was removed after the walk).
ReadFileContent(p) == IF fs[p] = Absent THEN ErrorText ELSE Decoded(fs[p])

\* Mutant: the two branches of "if content.strip()" swapped.
BlockSwapped(p) == LET text == ReadFileContent(p)
                   IN  IF text \in Contents /\ ~IsEmpty(text) THEN EmptyNote ELSE text

\* The block appended for one file: its text, or the "(File is empty)" note.
Block(p) == LET text == ReadFileContent(p)
            IN  IF text \in Contents /\ IsEmpty(text) THEN EmptyNote ELSE text

\* The walk and sort: the list of files is fixed before anything is read.
ConsolidateWalk ==
    /\ cPhase = "idle" /\ runs < MaxRuns
    /\ cPhase' = "reading" /\ cTodo' = MdFiles /\ cAcc' = <<>>
    /\ runs' = runs + 1
    /\ UNCHANGED <<fs, doc, dPhase, dTodo, dCur, errors, deleted, edits>>

\* The next file in sorted order gets its header and its content.
ConsolidateRead ==
    /\ cPhase = "reading" /\ cTodo # {}
    /\ LET p == SmallestOf(cTodo)
       IN  /\ cAcc' = Append(cAcc, [path |-> p, body |-> Block(p), whole |-> TRUE])
           /\ cTodo' = cTodo \ {p}
    /\ UNCHANGED <<fs, doc, cPhase, dPhase, dTodo, dCur, errors, deleted, runs, edits>>

\* open(output_file, 'w') and one write of the joined text.
ConsolidateWrite ==
    /\ cPhase = "reading" /\ cTodo = {}
    /\ doc' = cAcc /\ cPhase' = "idle" /\ cAcc' = <<>>
    /\ UNCHANGED <<fs, cTodo, dPhase, dTodo, dCur, errors, deleted, runs, edits>>

\* The process dies while writing (killed, disk full): open(..., 'w') has
\* truncated the old document and only a prefix of the new text is on
\* disk, its last block possibly cut inside the content.
ConsolidateWriteCrash ==
    /\ Crashes /\ cPhase = "reading" /\ cTodo = {}
    /\ \E k \in 0..Len(cAcc), cut \in BOOLEAN :
          doc' = IF k = 0 THEN <<>>
                 ELSE [SubSeq(cAcc, 1, k) EXCEPT ![k].whole = ~cut]
    /\ cPhase' = "idle" /\ cAcc' = <<>>
    /\ UNCHANGED <<fs, cTodo, dPhase, dTodo, dCur, errors, deleted, runs, edits>>

-----------------------------------------------------------------------------
(***************************************************************************)
(* delete-original-md.py                                                   *)
(***************************************************************************)

\* re.findall(r'\*\*Source\*\*: `([^`]+)`', content) over the document:
\* every header, and every such line inside a block that was written whole.
Sources(d) == {d[i].path : i \in DOMAIN d}
              \cup UNION {Cites(d[i].body) : i \in {j \in DOMAIN d : d[j].whole /\ d[j].body \in Contents}}

\* Read the document and extract the paths; open() fails when there is none.
DeleteParse ==
    /\ dPhase = "idle" /\ doc # NoDoc /\ runs < MaxRuns
    /\ dPhase' = "deleting" /\ dTodo' = Sources(doc) /\ errors' = {}
    /\ runs' = runs + 1
    /\ UNCHANGED <<fs, doc, cPhase, cTodo, cAcc, dCur, deleted, edits>>

\* os.path.exists(source) holds for the next source path: the remove is next.
DeleteCheck ==
    /\ dPhase = "deleting" /\ dTodo # {}
    /\ LET p == SmallestOf(dTodo)
       IN  /\ fs[p] # Absent
           /\ dCur' = p
           /\ dTodo' = dTodo \ {p}
    /\ dPhase' = "removing"
    /\ UNCHANGED <<fs, doc, cPhase, cTodo, cAcc, errors, deleted, runs, edits>>

\* Mutant: deleted.append(source) before os.remove(source), so a remove
\* that raises is still reported as a deletion.
DeleteOneAppendFirst ==
    /\ dPhase = "removing"
    /\ deleted' = deleted \cup {<<dCur, fs[dCur]>>}
    /\ fs' = [fs EXCEPT ![dCur] = Absent]
    /\ dPhase' = "deleting"
    /\ UNCHANGED <<doc, cPhase, cTodo, cAcc, dTodo, dCur, errors, runs, edits>>

\* os.remove(source) succeeds, then deleted.append(source).
DeleteOne ==
    /\ dPhase = "removing" /\ fs[dCur] # Absent
    /\ fs' = [fs EXCEPT ![dCur] = Absent]
    /\ deleted' = deleted \cup {<<dCur, fs[dCur]>>}
    /\ dPhase' = "deleting"
    /\ UNCHANGED <<doc, cPhase, cTodo, cAcc, dTodo, dCur, errors, runs, edits>>

\* os.remove(source) raises because the file went away after the exists
\* check: the path joins "errors" and the loop goes on.
DeleteError ==
    /\ dPhase = "removing" /\ fs[dCur] = Absent
    /\ errors' = errors \cup {dCur}
    /\ dPhase' = "deleting"
    /\ UNCHANGED <<fs, doc, cPhase, cTodo, cAcc, dTodo, dCur, deleted, runs, edits>>

\* The next source path does not exist: it joins "not_found".
DeleteNotFound ==
    /\ dPhase = "deleting" /\ dTodo # {}
    /\ LET p == SmallestOf(dTodo)
       IN  /\ fs[p] = Absent
           /\ dCur' = p
           /\ dTodo' = dTodo \ {p}
    /\ UNCHANGED <<fs, doc, cPhase, cTodo, cAcc, dPhase, errors, deleted, runs, edits>>

DeleteFinish ==
    /\ dPhase = "deleting" /\ dTodo = {}
    /\ dPhase' = "idle"
    /\ UNCHANGED <<fs, doc, cPhase, cTodo, cAcc, dTodo, dCur, errors, deleted, runs, edits>>

-----------------------------------------------------------------------------
(***************************************************************************)
(* The environment: developers write and remove markdown files.           *)
(***************************************************************************)

EditFile ==
    /\ edits < MaxEdits /\ EditAllowed(runs)
    /\ \E p \in Paths, c \in Contents : fs' = [fs EXCEPT ![p] = c]
    /\ edits' = edits + 1
    /\ UNCHANGED <<doc, cPhase, cTodo, cAcc, dPhase, dTodo, dCur, errors, deleted, runs>>

RemoveFile ==
    /\ edits < MaxEdits
    /\ \E p \in Paths : fs[p] # Absent /\ fs' = [fs EXCEPT ![p] = Absent]
    /\ edits' = edits + 1
    /\ UNCHANGED <<doc, cPhase, cTodo, cAcc, dPhase, dTodo, dCur, errors, deleted, runs>>

Next == \/ ConsolidateWalk \/ ConsolidateRead \/ ConsolidateWrite \/ ConsolidateWriteCrash
        \/ DeleteParse \/ DeleteCheck \/ DeleteOne \/ DeleteError \/ DeleteNotFound
        \/ DeleteFinish
        \/ EditFile \/ RemoveFile

Spec == Init /\ [][Next]_vars

-----------------------------------------------------------------------------
\* The purpose of the pair (delete-original-md.py: "Delete original markdown
\* files after consolidation"): every file the delete script removed has its
\* exact text, or the empty note for an empty file, in a block of the
\* current consolidated document that was written whole.
NoContentLost ==
    \A d \in deleted :
       /\ doc # NoDoc
       /\ \E i \in DOMAIN doc :
             /\ doc[i].path = d[1] /\ doc[i].whole
             /\ doc[i].body = IF IsEmpty(d[2]) THEN EmptyNote ELSE d[2]


\* os.walk's filters keep .git, node_modules, dist, build, .next and nested
\* CONSOLIDATED_DOCUMENTATION.md files out of the document, so the delete
\* script, which removes only what the document names, never removes them.
SkippedNeverDeleted == \A d \in deleted : d[1] \notin Skipped

=============================================================================
