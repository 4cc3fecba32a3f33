------------------------------ MODULE FileChunks ------------------------------
(***************************************************************************)
(* FileSource::visit, its buffered reader and the search for a safe        *)
(* boundary in crates/rustleaks-sources/src/file.rs.                       *)
(*                                                                         *)
(* A byte is named by its position in the file, so that a byte that is     *)
(* lost, repeated or moved can be seen; file tells what stands there.  The *)
(* reader is any SourceReader: short counts, errors and the end of file    *)
(* with or without bytes, no progress, and counts larger than the buffer.  *)
(***************************************************************************)
EXTENDS Integers, Sequences, SequencesExt, FiniteSets

CONSTANTS
  None,            \* Rust's None
  MaxFile,         \* bound: bytes in a file
  ChunkSizes,      \* values of FileOptions::chunk_size
  ReaderCapacity,  \* BUFFERED_READER_CAPACITY
  MaxReadAhead     \* FileOptions::max_boundary_read_ahead

Status == {"Continue", "Eof", "Error"}

\* How a visit ends.
Results ==
  {"Limit", "Cancelled", "Ended", "Stalled", "Application", "Failed", "Stop", "Callback"}

ASSUME FileAssumption ==
  /\ None \notin Status \cup Results
  /\ MaxFile \in Nat
  /\ ChunkSizes \subseteq Nat \ {0}
  /\ ReaderCapacity \in Nat \ {0}
  /\ MaxReadAhead \in Nat

\* A line feed, other white space, the first byte of an application's magic number,
\* and any other byte.
Byte == {"lf", "space", "magic", "text"}

VARIABLES
  file,        \* the bytes of the file
  chunkSize,   \* options.chunk_size
  cancelled,   \* the caller's Cancellation
  pc,          \* where visit is
  taken,       \* bytes the inner reader has handed out
  buffered,    \* BufferedSourceReader.buffered
  pending,     \* BufferedSourceReader.pending
  chunk,       \* the bytes of the fragment being built
  nominal,     \* how many of them the nominal read returned
  status,      \* the status of the nominal read
  newlines,    \* newline_count of the boundary search
  totalLines,  \* total_lines
  delivered,   \* the fragments with content emitted so far
  reported,    \* an issue was emitted
  result       \* what visit returned, or None

readerVars == <<taken, buffered, pending>>
chunkVars == <<chunk, nominal, status, newlines>>
outputVars == <<totalLines, delivered, reported, result>>
fileVars == <<file, chunkSize, cancelled, pc, readerVars, chunkVars, outputVars>>

FileInit ==
  /\ file \in UNION {[1 .. n -> Byte] : n \in 0 .. MaxFile}
  /\ chunkSize \in ChunkSizes
  /\ cancelled = FALSE
  /\ pc = "start"
  /\ taken = 0
  /\ buffered = <<>>
  /\ pending = None
  /\ chunk = <<>>
  /\ nominal = 0
  /\ status = "Continue"
  /\ newlines = 0
  /\ totalLines = 0
  /\ delivered = <<>>
  /\ reported = FALSE
  /\ result = None

IsWhite(p) == file[p] \in {"lf", "space"}
LineFeeds(bytes) == Cardinality({i \in 1 .. Len(bytes) : file[bytes[i]] = "lf"})

\* The positions of the next n bytes.
NextBytes(n) == [i \in 1 .. n |-> taken + i]

\* suffix_is_safe: white space with two line feeds ends the bytes.
SuffixIsSafe(bytes) ==
  \E i \in 1 .. Len(bytes) :
    LET suffix == SubSeq(bytes, i, Len(bytes)) IN
      /\ \A j \in 1 .. Len(suffix) : IsWhite(suffix[j])
      /\ LineFeeds(suffix) >= 2

Returns(r) ==
  /\ pc' = "done"
  /\ result' = r
  /\ UNCHANGED <<totalLines, delivered, reported>>

Goto(l) ==
  /\ pc' = l
  /\ UNCHANGED outputVars

-----------------------------------------------------------------------------
(* The reader.                                                             *)

\* What read_source may answer for a buffer of a given size: a count and a status.
\* The end of the file is reported only there.
Answers(size) ==
  {a \in [count : 0 .. size, status : Status] :
     /\ taken + a.count <= Len(file)
     /\ a.status = "Eof" => taken + a.count = Len(file)}

Pend(s) == IF s = "Continue" THEN None ELSE s

\* fill: what the inner reader answered goes to the end of the buffer.
Fill(a) ==
  /\ taken' = taken + a.count
  /\ pending' = Pend(a.status)

CancelVisit ==
  /\ pc # "done"
  /\ cancelled' = TRUE
  /\ UNCHANGED <<file, chunkSize, pc, readerVars, chunkVars, outputVars>>

-----------------------------------------------------------------------------
(* The nominal read.                                                       *)

Start ==
  /\ pc = "start"
  /\ Goto("top")
  /\ UNCHANGED <<file, chunkSize, cancelled, readerVars, chunkVars>>

\* No memory for the nominal buffer or for the fragment.
AllocationFails ==
  /\ pc \in {"start", "allocate"}
  /\ Returns("Limit")
  /\ UNCHANGED <<file, chunkSize, cancelled, readerVars, chunkVars>>

PollToken ==
  /\ pc = "top"
  /\ IF cancelled THEN Returns("Cancelled") ELSE Goto("read")
  /\ UNCHANGED <<file, chunkSize, cancelled, readerVars, chunkVars>>

\* visit after its read: an empty read ends the file or reports an error; an application
\* is skipped, and that is asked of every chunk before the first line feed.
NominalReadTrusting(bytes, s) ==
  /\ chunk' = bytes
  /\ nominal' = Len(bytes)
  /\ status' = s
  /\ newlines' = 0
  /\ IF bytes = <<>> THEN Returns("Ended")
     ELSE IF totalLines = 0 /\ file[bytes[1]] = "magic" THEN Returns("Application")
     ELSE Goto("allocate")

NominalRead(bytes, s) ==
  /\ chunk' = bytes
  /\ nominal' = Len(bytes)
  /\ status' = s
  /\ newlines' = 0
  /\ IF bytes = <<>> /\ s = "Error" THEN Goto("emitError")
     ELSE IF bytes = <<>> THEN Returns(IF s = "Eof" THEN "Ended" ELSE "Stalled")
     ELSE IF totalLines = 0 /\ file[bytes[1]] = "magic" THEN Returns("Application")
     ELSE Goto("allocate")

\* The first bytes of a sequence that fit into the nominal buffer, and the others.
Fitting(bytes) == SubSeq(bytes, 1, IF Len(bytes) < chunkSize THEN Len(bytes) ELSE chunkSize)
Rest(bytes) == SubSeq(bytes, chunkSize + 1, Len(bytes))

ReadBuffered ==
  /\ pc = "read"
  /\ buffered # <<>>
  /\ NominalRead(Fitting(buffered), "Continue")
  /\ buffered' = Rest(buffered)
  /\ UNCHANGED <<file, chunkSize, cancelled, taken, pending>>

ReadPending ==
  /\ pc = "read"
  /\ buffered = <<>> /\ pending # None
  /\ NominalRead(<<>>, pending)
  /\ pending' = None
  /\ UNCHANGED <<file, chunkSize, cancelled, taken, buffered>>

\* A large nominal buffer is filled by the inner reader itself ...
ReadDirectAlways ==
  /\ pc = "read"
  /\ chunkSize >= ReaderCapacity
  /\ \E a \in Answers(chunkSize) :
       /\ NominalRead(NextBytes(a.count), a.status)
       /\ taken' = taken + a.count
  /\ UNCHANGED <<file, chunkSize, cancelled, buffered, pending>>

ReadDirect ==
  /\ pc = "read"
  /\ buffered = <<>> /\ pending = None
  /\ chunkSize >= ReaderCapacity
  /\ \E a \in Answers(chunkSize) :
       /\ NominalRead(NextBytes(a.count), a.status)
       /\ taken' = taken + a.count
  /\ UNCHANGED <<file, chunkSize, cancelled, buffered, pending>>

\* ... a small one goes through the buffer.
ReadThroughBuffer ==
  /\ pc = "read"
  /\ buffered = <<>> /\ pending = None
  /\ chunkSize < ReaderCapacity
  /\ \E a \in Answers(ReaderCapacity) :
       IF a.count = 0
       THEN /\ NominalRead(<<>>, a.status)
            /\ UNCHANGED readerVars
       ELSE /\ NominalRead(Fitting(NextBytes(a.count)), "Continue")
            /\ buffered' = Rest(NextBytes(a.count))
            /\ Fill(a)
  /\ UNCHANGED <<file, chunkSize, cancelled>>

\* The inner reader claims more bytes than the buffer holds.
ReadOverreports ==
  /\ pc = "read"
  /\ buffered = <<>> /\ pending = None
  /\ pc' = "emitIssue"
  /\ UNCHANGED <<file, chunkSize, cancelled, readerVars, chunkVars, outputVars>>

Allocate ==
  /\ pc = "allocate"
  /\ Goto(IF SuffixIsSafe(chunk) THEN "emit" ELSE "boundary")
  /\ UNCHANGED <<file, chunkSize, cancelled, readerVars, chunkVars>>

-----------------------------------------------------------------------------
(* read_until_safe_boundary: one byte at a time, after a poll of the token. *)

NewlinesIgnoringText ==
  IF file[Last(chunk)] = "lf" THEN newlines + 1 ELSE newlines

\* newline_count after the last byte is looked at.
Newlines ==
  IF file[Last(chunk)] = "lf" THEN newlines + 1
  ELSE IF IsWhite(Last(chunk)) THEN newlines ELSE 0

BoundaryFound == Newlines >= 2 \/ Len(chunk) - nominal >= MaxReadAhead

BoundaryEnds ==
  /\ pc = "boundary"
  /\ BoundaryFound
  /\ Goto("emit")
  /\ UNCHANGED <<file, chunkSize, cancelled, readerVars, chunkVars>>

BoundaryIsCancelled ==
  /\ pc = "boundary"
  /\ ~BoundaryFound /\ cancelled
  /\ Goto("failed")
  /\ UNCHANGED <<file, chunkSize, cancelled, readerVars, chunkVars>>

BoundaryGoesOn ==
  /\ pc = "boundary"
  /\ ~BoundaryFound /\ ~cancelled
  /\ newlines' = Newlines
  /\ Goto("readByte")
  /\ UNCHANGED <<file, chunkSize, cancelled, readerVars, chunk, nominal, status>>

Extend(p) ==
  /\ chunk' = Append(chunk, p)
  /\ Goto("boundary")
  /\ UNCHANGED <<nominal, status, newlines>>

AfterStatusRetrying(s) ==
  /\ Goto(CASE s = "Eof" -> "emit" [] s = "Error" -> "failed" [] OTHER -> "boundary")
  /\ UNCHANGED chunkVars

\* A status without a byte: the end of the file, or an error (no progress is one).
AfterStatus(s) ==
  /\ Goto(IF s = "Eof" THEN "emit" ELSE "failed")
  /\ UNCHANGED chunkVars

BoundaryTakesByte ==
  /\ pc = "readByte"
  /\ buffered # <<>>
  /\ Extend(Head(buffered))
  /\ buffered' = Tail(buffered)
  /\ UNCHANGED <<file, chunkSize, cancelled, taken, pending>>

BoundaryTakesPending ==
  /\ pc = "readByte"
  /\ buffered = <<>> /\ pending # None
  /\ AfterStatus(pending)
  /\ pending' = None
  /\ UNCHANGED <<file, chunkSize, cancelled, taken, buffered>>

BoundaryFills ==
  /\ pc = "readByte"
  /\ buffered = <<>> /\ pending = None
  /\ \E a \in Answers(ReaderCapacity) :
       IF a.count = 0
       THEN /\ AfterStatus(a.status)
            /\ UNCHANGED readerVars
       ELSE /\ Extend(taken + 1)
            /\ buffered' = Tail(NextBytes(a.count))
            /\ Fill(a)
  /\ UNCHANGED <<file, chunkSize, cancelled>>

BoundaryOverreports ==
  /\ pc = "readByte"
  /\ buffered = <<>> /\ pending = None
  /\ Goto("failed")
  /\ UNCHANGED <<file, chunkSize, cancelled, readerVars, chunkVars>>

\* The error of a cancelled search is not reported.
BoundaryFailed ==
  /\ pc = "failed"
  /\ IF cancelled THEN Returns("Cancelled") ELSE Goto("emitError")
  /\ UNCHANGED <<file, chunkSize, cancelled, readerVars, chunkVars>>

-----------------------------------------------------------------------------
(* Emission: the callback continues, stops or fails.                       *)

\* An issue, alone or with an empty fragment, is the last thing visit emits.
EmitIssue ==
  /\ pc \in {"emitIssue", "emitError"}
  /\ reported' = TRUE
  /\ pc' = "done"
  /\ result' \in {"Failed", "Stop", "Callback"}
  /\ UNCHANGED <<file, chunkSize, cancelled, readerVars, chunkVars, totalLines, delivered>>

LinesInChunk == LineFeeds(chunk)

Deliver ==
  /\ totalLines' = totalLines + LinesInChunk
  /\ delivered' = Append(delivered, [bytes |-> chunk, nominal |-> nominal,
                                     startLine |-> totalLines + 1])
  /\ reported' = (reported \/ status = "Error")
  /\ chunk' = <<>>

EmitFragment ==
  /\ pc = "emit"
  /\ Deliver
  /\ \/ status # "Eof" /\ pc' = "top" /\ UNCHANGED result
     \/ status = "Eof" /\ pc' = "done" /\ result' = "Ended"
     \/ pc' = "done" /\ result' \in {"Stop", "Callback"}
  /\ UNCHANGED <<file, chunkSize, cancelled, readerVars, nominal, status, newlines>>

-----------------------------------------------------------------------------
Visit ==
  \/ Start
  \/ AllocationFails
  \/ PollToken
  \/ ReadBuffered
  \/ ReadPending
  \/ ReadDirect
  \/ ReadThroughBuffer
  \/ ReadOverreports
  \/ Allocate
  \/ BoundaryEnds
  \/ BoundaryIsCancelled
  \/ BoundaryGoesOn
  \/ BoundaryTakesByte
  \/ BoundaryTakesPending
  \/ BoundaryFills
  \/ BoundaryOverreports
  \/ BoundaryFailed
  \/ EmitIssue
  \/ EmitFragment

Returned == pc = "done" /\ UNCHANGED fileVars

FileNext == CancelVisit \/ Visit \/ Returned

FileSpec == FileInit /\ [][FileNext]_fileVars

\* The thread that visits runs, and a read returns; nobody has to cancel.
FairSpec == FileSpec /\ WF_fileVars(Visit)

-----------------------------------------------------------------------------
(* Properties.                                                             *)

Position == 1 .. Len(file)

\* The variables have their types.
TypeOK ==
  /\ file \in UNION {[1 .. n -> Byte] : n \in 0 .. MaxFile}
  /\ chunkSize \in ChunkSizes
  /\ cancelled \in BOOLEAN /\ reported \in BOOLEAN
  /\ pc \in {"start", "top", "read", "allocate", "boundary", "readByte", "failed", "emit",
             "emitError", "emitIssue", "done"}
  /\ taken \in 0 .. Len(file)
  /\ buffered \in Seq(Position) /\ Len(buffered) <= ReaderCapacity
  /\ pending \in {None, "Eof", "Error"}
  /\ chunk \in Seq(Position)
  /\ nominal \in 0 .. chunkSize
  /\ status \in Status
  /\ newlines \in 0 .. 1
  /\ totalLines \in 0 .. Len(file)
  /\ delivered \in Seq([bytes : Seq(Position), nominal : Nat, startLine : Nat])
  /\ result \in Results \cup {None}

\* Where the first i fragments end.
FragmentEnd(i) == IF i = 0 THEN 0 ELSE Last(delivered[i].bytes)
Delivered == FragmentEnd(Len(delivered))

\* The bytes of the file that follow a position, in their order.
Follows(bytes, after) == \A k \in 1 .. Len(bytes) : bytes[k] = after + k

\* Fragments, the fragment being built and the reader's buffer are consecutive pieces of
\* the file: whichever way the bytes came (directly, through the buffer, one by one), none
\* is lost, repeated or moved, and each starts in the line where the one before it ended.
NoGapNoOverlap ==
  /\ \A i \in 1 .. Len(delivered) :
       /\ delivered[i].bytes # <<>>
       /\ Follows(delivered[i].bytes, FragmentEnd(i - 1))
       /\ delivered[i].startLine = 1 + Cardinality({p \in 1 .. FragmentEnd(i - 1) : file[p] = "lf"})
  /\ Follows(chunk, Delivered)
  /\ Follows(buffered, Delivered + Len(chunk))
  /\ taken = Delivered + Len(chunk) + Len(buffered)

\* A fragment is split from the next one at a blank line, unless the read-ahead ended; the
\* counter of the search agrees with suffix_is_safe although it starts in the middle.
SplitIsSafe ==
  \A i \in 1 .. Len(delivered) :
    LET f == delivered[i] IN
      /\ Len(f.bytes) <= f.nominal + MaxReadAhead
      /\ \/ SuffixIsSafe(f.bytes)
         \/ Len(f.bytes) = f.nominal + MaxReadAhead
         \/ Last(f.bytes) = Len(file)

\* A visit that ends normally has delivered the whole file, also when an error that came
\* with bytes was reported on the way.  (Skipped applications and a reader that makes no
\* progress end a visit differently here; for the caller the three are the same.)
NothingSilentlyMissing == result = "Ended" => Delivered = Len(file)

\* Every visit ends, whatever the reader answers.
Terminates == <>(pc = "done")
=============================================================================
