----------------------------- MODULE PatchParser -----------------------------
(***************************************************************************)
(* What GitSource::visit in crates/rustleaks-sources/src/git.rs makes of   *)
(* the output of Git that GitCommand collected: parse_patch reads all of   *)
(* it, line by line, and the fragments of the files it found are emitted.  *)
(*                                                                         *)
(* A line is what the parser can tell about it: the header its beginning   *)
(* looks like (is), its first byte (op), and what follows.  Inside a hunk  *)
(* only op counts, outside only is, and a line may look like both: an      *)
(* added "++ x" is the line "+++ x".  What Git writes for a history is     *)
(* the operator Written; an input may also be anything else.               *)
(***************************************************************************)
EXTENDS Integers, Sequences, FiniteSets, SequencesExt

CONSTANTS
  None,       \* no commit, no path, no history
  DevNull,    \* the path /dev/null
  Histories,  \* what Git may be asked to print
  Damage,     \* what may happen to a written patch: an operator's values
  Limits,     \* values of GitLimits: lines, files and hunks
  TooLong,    \* paths and commits over their byte ceilings
  Archives    \* paths that name an archive, when archives are enabled

\* The first byte of a line says which headers it can look like.
IsLine(line) ==
  /\ line.at \in Nat /\ line.old \in Nat /\ line.new \in Nat
  /\ line.op = "added" => line.is \in {"newPath", "other"}
  /\ line.op = "removed" => line.is \in {"oldPath", "other"}
  /\ line.op \in {"context", "marker"} => line.is \in {"blank", "other"}

VARIABLES
  history,  \* what Git printed, or None if the patch was damaged
  patch,    \* the lines of the output
  limits,   \* GitSource.limits
  cancelled,    \* the caller's Cancellation
  doing,    \* the loop in progress
  outcome,   \* what visit returns
  index,    \* the line in hand
  commit,   \* current_commit
  file,     \* the ParsedFile in hand, with the headers seen
  hunk,     \* the hunk in hand: lines still to come, and the lines added
  hunks,    \* total_hunks
  files,    \* what parse_patch returns
  next,     \* the file and the hunk to be emitted next
  events    \* the fragments and archive blobs that were emitted

inputVars == <<history, patch, limits>>
parseVars == <<commit, file, hunk, hunks, files>>
patchVars == <<inputVars, cancelled, doing, outcome, index, parseVars, next, events>>

-----------------------------------------------------------------------------
(* What Git writes.                                                        *)

Line(is, op, value) == [is |-> is, op |-> op, value |-> value, old |-> 0, new |-> 0, at |-> 0]
Header(is, value) == Line(is, "none", value)
Blank == Line("blank", "context", None)
OldPath(path) == Line("oldPath", "removed", path)
NewPath(path) == Line("newPath", "added", path)

\* The parts one after another.
Concat(parts) ==
  LET upTo[i \in {0} \cup DOMAIN parts] ==
        IF i = 0 THEN <<>> ELSE upTo[i - 1] \o parts[i]
  IN upTo[Cardinality(DOMAIN parts)]

CountOf(body, ops) == Cardinality({i \in DOMAIN body : body[i].op \in ops})

HunkLines(h) ==
  <<[Header("hunk", None) EXCEPT !.at = h.at, !.old = CountOf(h.body, {"removed", "context"}),
                                 !.new = CountOf(h.body, {"added", "context"})]>> \o h.body

\* The headers of a change; those of its paths are only there when it has a hunk.
Paths(old, new, c) ==
  IF c.hunks = <<>> THEN <<>> ELSE <<Header("index", None), OldPath(old), NewPath(new)>>

Headers(c) ==
  CASE c.kind = "modify" -> <<Header("diff", c.path)>> \o Paths(c.path, c.path, c)
    [] c.kind = "create" ->
         <<Header("diff", c.path), Header("newFile", None)>> \o Paths(DevNull, c.path, c)
    [] c.kind = "delete" ->
         <<Header("diff", c.path), Header("deleted", None)>> \o Paths(c.path, DevNull, c)
    [] c.kind = "rename" ->
         <<Header("diff", None), Header("index", None), Header("renameFrom", c.from),
           Header("renameTo", c.path)>> \o Paths(c.from, c.path, c)
    [] c.kind = "copy" ->
         <<Header("diff", None), Header("index", None), Header("copyFrom", c.from),
           Header("copyTo", c.path)>> \o Paths(c.from, c.path, c)
    [] c.kind = "mode" ->
         <<Header("diff", c.path), Header("oldMode", None), Header("newMode", None)>>
    [] c.kind = "binary" ->
         <<Header("diff", c.path), Header("index", None), Header("binary", None)>>
    [] c.kind = "payload" ->
         <<Header("diff", c.path), Header("index", None), Header("payload", None),
           Header("other", None), Line("other", "added", None), Blank>>

ChangeLines(c) == Headers(c) \o Concat([i \in DOMAIN c.hunks |-> HunkLines(c.hunks[i])])

\* The lines before and behind the changes of a commit; a diff has none.
Opening(c) ==
  IF c.sha = None THEN <<>>
  ELSE <<Header("commit", c.sha), Header("other", None), Blank, Line("other", "context", None), Blank>>
Closing(c) == IF c.sha = None THEN <<>> ELSE <<Blank>>

CommitLines(c) ==
  Opening(c) \o Concat([j \in DOMAIN c.changes |-> ChangeLines(c.changes[j])]) \o Closing(c)

Written(h) == Concat([k \in DOMAIN h |-> CommitLines(h[k])])

\* Git marks a line, not a marker; a change of content has hunks, one of mode or of binary
\* content has none; a diff is a history of one nameless commit.
Kinds == {"modify", "create", "delete", "rename", "copy", "mode", "binary", "payload"}
IsHunk(h) ==
  /\ h.body \in Seq(Range(h.body))
  /\ \A i \in DOMAIN h.body :
       /\ h.body[i].op \in {"added", "removed", "context", "marker"}
       /\ i < Len(h.body) /\ h.body[i].op = "marker" => h.body[i + 1].op # "marker"
IsChange(c) ==
  /\ c.kind \in Kinds /\ c.path \notin {None, DevNull}
  /\ c.hunks \in Seq(Range(c.hunks)) /\ \A i \in DOMAIN c.hunks : IsHunk(c.hunks[i])
  /\ c.kind = "modify" => c.hunks # <<>>
  /\ c.kind \in {"mode", "binary", "payload"} => c.hunks = <<>>
IsHistory(h) ==
  /\ h \in Seq(Range(h))
  /\ \A k \in DOMAIN h : /\ h[k].sha = None => Len(h) = 1
                         /\ h[k].changes \in Seq(Range(h[k].changes))
                         /\ \A j \in DOMAIN h[k].changes : IsChange(h[k].changes[j])

ASSUME HistoryAssumption == \A h \in Histories : IsHistory(h)

\* Every input is made of lines.
ASSUME PatchAssumption ==
  /\ \A h \in Histories : \A p \in Damage[h] \cup {Written(h)} :
       p \in Seq(Range(p)) /\ \A i \in DOMAIN p : IsLine(p[i])
  /\ \A l \in Limits : l.lines \in Nat /\ l.files \in Nat /\ l.hunks \in Nat

-----------------------------------------------------------------------------
NoFile == [path |-> None, commit |-> None, deleted |-> FALSE, binary |-> FALSE,
           payload |-> FALSE, saw |-> {}, hunks |-> <<>>]
NoHunk == [at |-> 0, old |-> 0, new |-> 0, added |-> <<>>, previous |-> FALSE, start |-> 0]

PatchInit ==
  /\ limits \in Limits
  /\ \E h \in Histories :
       \/ history = h /\ patch = Written(h)
       \/ history = None /\ patch \in Damage[h]
  /\ cancelled = FALSE
  /\ doing = "stderr" /\ outcome = "Continue"
  /\ index = 1
  /\ commit = None /\ file = NoFile /\ hunk = NoHunk
  /\ hunks = 0 /\ files = <<>>
  /\ next = [file |-> 1, hunk |-> 1]
  /\ events = <<>>

More == index <= Len(patch)
This == patch[index]
AtRecord == More /\ This.is \in {"diff", "commit"}

Do(what) == doing' = what /\ UNCHANGED outcome
Returns(r) == doing' = "done" /\ outcome' = r
Advance == index' = index + 1
Stay == UNCHANGED index

CancelVisit ==
  /\ ~cancelled /\ doing # "done"
  /\ cancelled' = TRUE
  /\ UNCHANGED <<inputVars, doing, outcome, index, parseVars, next, events>>

\* Standard error that is not empty is an issue, and the callback may stop there.
StderrIssue ==
  /\ doing = "stderr"
  /\ \/ Do("split")
     \/ \E answer \in {"Stop", "Callback"} : Returns(answer)
  /\ UNCHANGED <<inputVars, cancelled, index, parseVars, next, events>>

-----------------------------------------------------------------------------
(* parse_patch.                                                            *)

\* Every loop polls before each line; a hunk does so until it is complete.
Polls ==
  \/ doing \in {"split", "patch"} /\ More
  \/ doing \in {"header", "file"} /\ More /\ ~AtRecord
  \/ doing = "hunk" /\ (hunk.old > 0 \/ hunk.new > 0)
  \/ doing = "emit" /\ next.file <= Len(files) /\ next.hunk = 1

IsCancelled ==
  /\ cancelled /\ Polls
  /\ Returns("Cancelled")
  /\ UNCHANGED <<inputVars, cancelled, index, parseVars, next, events>>

Goes(where) ==
  /\ doing = where
  /\ ~(cancelled /\ Polls)
  /\ UNCHANGED <<inputVars, cancelled, next, events>>

SplitLines ==
  /\ Goes("split")
  /\ IF Len(patch) > limits.lines THEN Returns("Limit") ELSE Do("patch")
  /\ UNCHANGED <<index, parseVars>>

CommitLine ==
  /\ Goes("patch") /\ More /\ This.is = "commit"
  /\ IF This.value \in TooLong
     THEN Returns("Limit") /\ Stay /\ UNCHANGED commit
     ELSE Do("header") /\ Advance /\ commit' = This.value
  /\ UNCHANGED <<file, hunk, hunks, files>>

\* parse_commit_header keeps author, date and message, whatever else is there.
HeaderLine ==
  /\ Goes("header")
  /\ IF ~More \/ AtRecord THEN Do("patch") /\ Stay ELSE Advance /\ UNCHANGED <<doing, outcome>>
  /\ UNCHANGED parseVars

\* The names in a diff line are a path only if they agree.
DiffLine ==
  /\ Goes("patch") /\ More /\ This.is = "diff"
  /\ IF This.value \in TooLong
     THEN Returns("Limit") /\ Stay /\ UNCHANGED file
     ELSE /\ Do("file") /\ Advance
          /\ file' = [NoFile EXCEPT !.path = This.value, !.commit = commit]
  /\ UNCHANGED <<commit, hunk, hunks, files>>

Preamble ==
  /\ Goes("patch") /\ More /\ ~AtRecord
  /\ IF This.is = "blank" THEN Advance /\ UNCHANGED <<doing, outcome>>
     ELSE Returns("Invalid") /\ Stay
  /\ UNCHANGED parseVars

ParseEnds ==
  /\ Goes("patch") /\ ~More
  /\ Do("emit")
  /\ UNCHANGED <<index, parseVars>>

Refuse(r) == Returns(r) /\ UNCHANGED <<index, file>>
Note(changed) ==
  /\ Advance /\ UNCHANGED <<doing, outcome>>
  /\ file' = [changed EXCEPT !.saw = @ \cup {This.is}]

PathHeader ==
  IF This.is = "newPath" /\ This.value = DevNull THEN Note([file EXCEPT !.deleted = TRUE])
  ELSE IF This.value \in TooLong THEN Refuse("Limit")
  ELSE Note([file EXCEPT !.path = This.value])

\* The headers of a record; what names a path must come after what it belongs to.
FileHeader ==
  CASE file.payload -> Advance /\ UNCHANGED <<doing, outcome, file>>
    [] ~file.payload /\ This.is = "deleted" -> Note([file EXCEPT !.deleted = TRUE])
    [] ~file.payload /\ This.is = "newPath" ->
         IF "oldPath" \notin file.saw THEN Refuse("Invalid") ELSE PathHeader
    [] ~file.payload /\ This.is = "renameTo" ->
         IF "renameFrom" \notin file.saw THEN Refuse("Invalid") ELSE PathHeader
    [] ~file.payload /\ This.is = "copyTo" ->
         IF "copyFrom" \notin file.saw THEN Refuse("Invalid") ELSE PathHeader
    [] ~file.payload /\ This.is = "binary" -> Note([file EXCEPT !.binary = TRUE])
    [] ~file.payload /\ This.is = "payload" ->
         Note([file EXCEPT !.binary = TRUE, !.payload = TRUE])
    [] ~file.payload
       /\ This.is \in {"oldPath", "oldMode", "newFile", "newMode", "renameFrom", "copyFrom",
                       "index", "blank"} -> Note(file)
    [] OTHER -> Refuse("Invalid")

FileLine ==
  /\ Goes("file") /\ More /\ ~AtRecord
  /\ file.payload \/ This.is \notin {"hunk", "badHunk"}
  /\ FileHeader
  /\ UNCHANGED <<commit, hunk, hunks, files>>

\* A hunk's header has both ranges and their end, or it is refused.
HunkLine ==
  /\ Goes("file") /\ More /\ This.is \in {"hunk", "badHunk"} /\ ~file.payload
  /\ hunks' = hunks + 1
  /\ IF hunks' > limits.hunks THEN Returns("Limit") /\ Stay /\ UNCHANGED hunk
     ELSE IF This.is = "badHunk" THEN Returns("Invalid") /\ Stay /\ UNCHANGED hunk
     ELSE /\ Do("hunk") /\ Advance
          /\ hunk' = [NoHunk EXCEPT !.at = This.at, !.old = This.old, !.new = This.new,
                                    !.start = index]
  /\ UNCHANGED <<commit, file, files>>

\* "\ No newline at end of file" is about the line before, if that one was added.
WithoutNewlineAlways(h) ==
  IF h.added # <<>> THEN [h EXCEPT !.added[Len(h.added)].newline = FALSE] ELSE h

WithoutNewline(h) ==
  IF h.previous /\ h.added # <<>> THEN [h EXCEPT !.added[Len(h.added)].newline = FALSE] ELSE h

\* A line of a hunk, by its first byte; checked_sub refuses one that the header has not.
HunkAfter(h, line) ==
  CASE line.op = "added" -> [h EXCEPT !.new = @ - 1, !.previous = TRUE,
                                  !.added = Append(@, [line |-> index, newline |-> TRUE])]
    [] line.op = "removed" -> [h EXCEPT !.old = @ - 1, !.previous = FALSE]
    [] line.op = "context" -> [h EXCEPT !.old = @ - 1, !.new = @ - 1, !.previous = FALSE]
    [] line.op = "marker" -> WithoutNewline(h)
    [] OTHER -> [h EXCEPT !.old = -1]

HunkBodyUntilEnd ==
  /\ Goes("hunk") /\ (hunk.old > 0 \/ hunk.new > 0)
  /\ IF ~More
     THEN hunk' = [hunk EXCEPT !.old = 0, !.new = 0] /\ Stay /\ UNCHANGED <<doing, outcome>>
     ELSE LET h == HunkAfter(hunk, This) IN
       IF h.old < 0 \/ h.new < 0 THEN Returns("Invalid") /\ Stay /\ UNCHANGED hunk
       ELSE hunk' = h /\ Advance /\ UNCHANGED <<doing, outcome>>
  /\ UNCHANGED <<commit, file, hunks, files>>

HunkBody ==
  /\ Goes("hunk") /\ (hunk.old > 0 \/ hunk.new > 0)
  /\ IF ~More THEN Returns("Invalid") /\ Stay /\ UNCHANGED hunk
     ELSE LET h == HunkAfter(hunk, This) IN
       IF h.old < 0 \/ h.new < 0 THEN Returns("Invalid") /\ Stay /\ UNCHANGED hunk
       ELSE hunk' = h /\ Advance /\ UNCHANGED <<doing, outcome>>
  /\ UNCHANGED <<commit, file, hunks, files>>

\* A complete hunk takes the marker that may follow it.
HunkEnds ==
  /\ Goes("hunk") /\ hunk.old = 0 /\ hunk.new = 0
  /\ LET marked == More /\ This.op = "marker"
         h == IF marked THEN WithoutNewline(hunk) ELSE hunk IN
       /\ index' = IF marked THEN index + 1 ELSE index
       /\ file' = [file EXCEPT !.hunks =
                     Append(@, [at |-> h.at, added |-> h.added, start |-> h.start, end |-> index])]
  /\ Do("file")
  /\ UNCHANGED <<commit, hunk, hunks, files>>

ValidStructure ==
  \/ file.binary \/ file.hunks # <<>>
  \/ \E headers \in {{"oldPath", "newPath"}, {"oldMode", "newMode"},
                     {"deleted"}, {"newFile"},
                     {"renameFrom", "renameTo"}, {"copyFrom", "copyTo"}} :
       headers \subseteq file.saw

\* A record ends with the next one; without a path it is dropped.
FileEnds ==
  /\ Goes("file") /\ (~More \/ AtRecord)
  /\ IF ~ValidStructure THEN Returns("Invalid") /\ UNCHANGED files
     ELSE IF file.path = None THEN Do("patch") /\ UNCHANGED files
     ELSE IF Len(files) >= limits.files THEN Returns("Limit") /\ UNCHANGED files
     ELSE Do("patch") /\ files' = Append(files, file)
  /\ UNCHANGED <<index, commit, file, hunk, hunks>>

-----------------------------------------------------------------------------
(* The rest of visit: the fragments of the files.                          *)

NextFile == next' = [file |-> next.file + 1, hunk |-> 1]
Emitting == doing = "emit" /\ next.file <= Len(files) /\ ~(cancelled /\ Polls)
Parsed == files[next.file]

SkipFile ==
  /\ Emitting
  /\ \/ Parsed.deleted
     \/ Parsed.binary /\ Parsed.path \notin Archives
     \/ ~Parsed.binary /\ next.hunk > Len(Parsed.hunks)
  /\ NextFile
  /\ UNCHANGED <<inputVars, cancelled, doing, outcome, index, parseVars, events>>

Emit(event) ==
  /\ events' = Append(events, event)
  /\ \/ UNCHANGED <<doing, outcome>>
     \/ \E answer \in {"Stop", "Callback"} : Returns(answer)

EmitHunk ==
  /\ Emitting /\ ~Parsed.deleted /\ ~Parsed.binary /\ next.hunk <= Len(Parsed.hunks)
  /\ LET h == Parsed.hunks[next.hunk] IN
       Emit([commit |-> Parsed.commit, path |-> Parsed.path, is |-> "fragment", at |-> h.at,
             added |-> [i \in DOMAIN h.added |->
                          [value |-> patch[h.added[i].line].value, newline |-> h.added[i].newline]]])
  /\ next' = [next EXCEPT !.hunk = @ + 1]
  /\ UNCHANGED <<inputVars, cancelled, index, parseVars>>

\* visit_archive_blob: a second command for the blob, and a visit of its members with
\* the commit laid over them.
VisitBlob ==
  /\ Emitting /\ ~Parsed.deleted /\ Parsed.binary /\ Parsed.path \in Archives
  /\ \/ Returns("Failed") /\ UNCHANGED events
     \/ Emit([commit |-> Parsed.commit, path |-> Parsed.path, is |-> "blob", at |-> 0,
              added |-> <<>>])
  /\ NextFile
  /\ UNCHANGED <<inputVars, cancelled, index, parseVars>>

VisitEnds ==
  /\ doing = "emit" /\ next.file > Len(files)
  /\ Do("done")
  /\ UNCHANGED <<inputVars, cancelled, index, parseVars, next, events>>

Done == doing = "done" /\ UNCHANGED patchVars

Parse ==
  \/ SplitLines
  \/ CommitLine \/ HeaderLine \/ DiffLine \/ Preamble \/ ParseEnds
  \/ FileLine \/ FileEnds
  \/ HunkLine \/ HunkBody \/ HunkEnds

PatchNext ==
  \/ CancelVisit \/ IsCancelled
  \/ StderrIssue
  \/ Parse
  \/ SkipFile \/ EmitHunk \/ VisitBlob \/ VisitEnds
  \/ Done

PatchSpec == PatchInit /\ [][PatchNext]_patchVars

-----------------------------------------------------------------------------
(* Properties.                                                             *)

\* The lines that a hunk adds, each with the newline it has in the new file.
AddedBy(body) ==
  LET marked(i) == i < Len(body) /\ body[i + 1].op = "marker"
  IN  Concat([i \in DOMAIN body |->
                IF body[i].op = "added" THEN <<[value |-> body[i].value, newline |-> ~marked(i)]>>
                ELSE <<>>])

EventsOfChange(sha, c) ==
  LET event(is, at, added) ==
        [commit |-> sha, path |-> c.path, is |-> is, at |-> at, added |-> added]
  IN  IF c.kind \in {"delete", "mode"} THEN <<>>
      ELSE IF c.kind \in {"binary", "payload"}
      THEN IF c.path \in Archives THEN <<event("blob", 0, <<>>)>> ELSE <<>>
      ELSE [i \in DOMAIN c.hunks |->
              event("fragment", c.hunks[i].at, AddedBy(c.hunks[i].body))]

Meaning(h) ==
  Concat([i \in DOMAIN h |->
            Concat([j \in DOMAIN h[i].changes |->
                      EventsOfChange(h[i].sha, h[i].changes[j])])])

\* The fragments of a history are what its commits added, in the order of Git, each line
\* with its newline, under the right commit, path and position; a visit that ends
\* normally has emitted them all, and the parser never refuses what Git writes,
\* whatever the added and deleted lines look like.
ReadAsWritten ==
  history # None =>
    /\ IsPrefix(events, Meaning(history))
    /\ doing = "done" /\ outcome = "Continue" => events = Meaning(history)
    /\ outcome # "Invalid"

Accepted ==
  \/ doing = "emit"
  \/ doing = "done" /\ (outcome = "Continue" \/ events # <<>>)

Record(i) ==
  LET starts == {d \in 1 .. i : patch[d].is \in {"diff", "commit"}}
  IN  IF starts = {} THEN 0 ELSE CHOOSE d \in starts : \A e \in starts : e <= d

InDiff(i) ==
  /\ Record(i) # 0 /\ patch[Record(i)].is = "diff"
  /\ \A j \in Record(i) .. i : patch[j].is # "payload"

\* No header of the record names a path, or one names an empty path.
Unnamed(r) ==
  \/ patch[r].value = None
  \/ \E j \in DOMAIN patch : /\ Record(j) = r /\ patch[j].value = None
                            /\ patch[j].is \in {"newPath", "renameTo", "copyTo"}

HunksOf(f) == {f.hunks[i] : i \in DOMAIN f.hunks}
LinesOf(h) == {h.added[i].line : i \in DOMAIN h.added}

\* Whatever the input was, a patch that is accepted is complete: every hunk has all the
\* lines that its header announces and no other, no added line is outside of a hunk
\* or in two of them, and the ceilings on lines, files and hunks are kept.
AcceptedIsComplete ==
  Accepted =>
    /\ Len(patch) <= limits.lines /\ Len(files) <= limits.files /\ hunks <= limits.hunks
    /\ \A f \in DOMAIN files : \A h \in HunksOf(files[f]) :
         LET body == SubSeq(patch, h.start + 1, h.end - 1) IN
           /\ patch[h.start].old = CountOf(body, {"removed", "context"})
           /\ patch[h.start].new = CountOf(body, {"added", "context"})
           /\ LinesOf(h) = {i \in h.start + 1 .. h.end - 1 : patch[i].op = "added"}
           /\ \A g \in DOMAIN files : \A k \in HunksOf(files[g]) :
                k # h => LinesOf(k) \cap LinesOf(h) = {}
    /\ \A i \in DOMAIN patch :
         patch[i].op = "added" /\ patch[i].is # "newPath" /\ InDiff(i) =>
           \/ \E f \in DOMAIN files : \E h \in HunksOf(files[f]) : i \in LinesOf(h)
           \/ Unnamed(Record(i))

=============================================================================
