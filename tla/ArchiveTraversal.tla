--------------------------- MODULE ArchiveTraversal ---------------------------
(***************************************************************************)
(* ArchiveSource::visit and ArchiveState in                                *)
(* crates/rustleaks-sources/src/archive.rs: the recursive extraction of a  *)
(* file that is an archive by its name, and of the archives in it, under   *)
(* one set of limits.                                                      *)
(*                                                                         *)
(* What a container or a codec yields is data: an archive is the sequence  *)
(* of the entries its reader finds, each with the flaw its bytes have.     *)
(* What is kept is which entry is processed, skipped or reported, what is  *)
(* charged for it, and what each level makes of the answer of the level    *)
(* below.                                                                  *)
(***************************************************************************)
EXTENDS Integers, Sequences, FiniteSetsExt, SequencesExt

CONSTANTS
  None,        \* Rust's None: a name that is no archive
  Limits,      \* values of ArchiveLimits, with emit_limit_issues
  Entry,       \* what a container may hold
  Sizes,       \* bytes a compressed stream may expand to
  MaxEntries   \* bound: entries of all archives together

Listed == {"7z", "rar"}
Formats == {"tar", "zip", "gz", "tar.gz"} \cup Listed

ASSUME ArchiveAssumption ==
  /\ None \notin Formats
  /\ \A l \in Limits :
       /\ l.depth \in Nat /\ l.silent \in BOOLEAN
       /\ {l.entries, l.memberBytes, l.totalBytes} \subseteq Nat \ {0}
  /\ \A e \in Entry :
       /\ e.is \in {"file", "directory", "longName"} /\ e.size \in Nat
       /\ e.format \in Formats \cup {None}
       /\ e.allowed \in BOOLEAN
       /\ e.flaw \in {"none", "header", "entry", "data", "padding"}
  /\ Sizes \subseteq Nat
  /\ MaxEntries \in Nat

VARIABLES
  limits,     \* the limits of this traversal
  token,      \* the caller's Cancellation
  doing,      \* visit, open, next, scan, return or done
  control,    \* what the call that ends returns: Continue, Stop or an error
  file,       \* the file in hand: its place and its format
  stack,      \* the extractions in progress: archive and number of the next entry
  archives,   \* the archives opened so far, with the entries found in them
  entries,    \* ArchiveState.entries
  expanded,   \* ArchiveState.expanded
  scanned,    \* the places whose bytes a FileSource has visited
  extracted,  \* the places that were opened as archives
  skipped,    \* the places that an issue reports
  abandoned   \* the places from which on an issue reports an archive

chargeVars == <<entries, expanded>>
contentVars == <<archives, extracted>>
eventVars == <<scanned, skipped, abandoned>>
vars == <<limits, token, doing, control, file, stack, contentVars, chargeVars, eventVars>>

\* A place is an archive and the number of an entry; 0 is the archive as a whole.
Root == <<0, 0>>

Init ==
  /\ limits \in Limits
  /\ token = FALSE
  /\ doing = "visit" /\ control = "Continue"
  /\ file \in [at : {Root}, format : Formats \cup {None}]
  /\ stack = <<>> /\ archives = <<>>
  /\ entries = 0 /\ expanded = 0
  /\ scanned = {} /\ extracted = {} /\ skipped = {} /\ abandoned = {}

Depth == Len(stack)
Top == Last(stack)
Here == archives[Top.archive]
Place == <<Top.archive, Top.next>>
New == Len(archives) + 1

Do(what) == doing' = what /\ UNCHANGED control
Return(c) == doing' = "return" /\ control' = c
Pop == stack' = Front(stack)

\* An issue is emitted, and its caller returns what the callback answers.
Report == \E answer \in {"Continue", "Stop", "Callback"} : Return(answer)

\* The issue is about one place, and the extraction may go on.
Skip(place) ==
  /\ Report
  /\ skipped' = skipped \cup {place}
  /\ UNCHANGED <<scanned, abandoned>>

\* The issue ends the extraction, with the entries that are left.
Abandon(place) ==
  /\ Report
  /\ abandoned' = abandoned \cup {place}
  /\ UNCHANGED <<scanned, skipped>>

AtMost(a, b) == IF a < b THEN a ELSE b
Remaining == IF expanded < limits.totalBytes THEN limits.totalBytes - expanded ELSE 0
MemberLimit == AtMost(Remaining, limits.memberBytes)

Cancel ==
  /\ doing # "done" /\ ~token
  /\ token' = TRUE
  /\ UNCHANGED <<limits, doing, control, file, stack, contentVars, chargeVars, eventVars>>

-----------------------------------------------------------------------------
(* visit and process: what a file is opened as.                            *)

\* Every poll of the token in visit, process, FileSource and the loops of TAR and ZIP.
Polls ==
  \/ doing \in {"visit", "open", "scan"}
  \/ doing = "next" /\ Here.format \notin Listed /\ ~Here.broken

IsCancelled ==
  /\ Polls /\ token
  /\ Return("Cancelled")
  /\ stack' = IF doing = "next" THEN Front(stack) ELSE stack
  /\ UNCHANGED <<limits, token, file, contentVars, chargeVars, eventVars>>

\* A file without an archive's name is not spooled, and a depth of zero turns archives off.
Visit ==
  /\ doing = "visit" /\ ~token
  /\ IF file.format = None THEN Do("scan")
     ELSE IF limits.depth = 0 THEN Return("Continue")
     ELSE Do("open")
  /\ UNCHANGED <<limits, token, file, stack, contentVars, chargeVars, eventVars>>

SpoolFails ==
  /\ doing = "visit" /\ ~token
  /\ file.format # None /\ limits.depth > 0
  /\ Skip(Root)
  /\ UNCHANGED <<limits, token, file, stack, contentVars, chargeVars>>

OpenPlain ==
  /\ doing = "open" /\ ~token
  /\ file.format = None
  /\ Do("scan")
  /\ UNCHANGED <<limits, token, file, stack, contentVars, chargeVars, eventVars>>

OpenTooDeep ==
  /\ doing = "open" /\ ~token
  /\ file.format # None /\ Depth >= limits.depth
  /\ IF limits.silent THEN Return("Continue") /\ UNCHANGED eventVars ELSE Skip(file.at)
  /\ UNCHANGED <<limits, token, file, stack, contentVars, chargeVars>>

Opens(formats) ==
  /\ doing = "open" /\ ~token
  /\ file.format \in formats /\ Depth < limits.depth
  /\ extracted' = extracted \cup {file.at}
  /\ UNCHANGED <<limits, token>>

\* An archive as its extraction begins.
Opened(found, decoded) ==
  archives' = Append(archives, [format |-> file.format, depth |-> Depth, decoded |-> decoded,
                                entries |-> found, ended |-> FALSE, broken |-> FALSE])

Push == stack' = Append(stack, [archive |-> New, next |-> 1])

\* A TAR is read from its first header, a ZIP from its central directory.
OpenContainer ==
  /\ Opens({"tar", "zip"})
  /\ Opened(<<>>, 0)
  /\ \/ Push /\ Do("next") /\ UNCHANGED eventVars
     \/ file.format = "zip" /\ Abandon(<<New, 0>>) /\ UNCHANGED stack
  /\ UNCHANGED <<file, chargeVars>>

\* decode: the stream is charged as a member of its own.
OpenStream ==
  /\ Opens({"gz", "tar.gz"})
  /\ \E size \in Sizes, flaw \in BOOLEAN :
       IF flaw \/ MemberLimit = 0 \/ size > MemberLimit
       THEN /\ Opened(<<>>, 0)
            /\ Abandon(<<New, 0>>)
            /\ UNCHANGED <<file, stack, expanded>>
       ELSE /\ Opened(<<>>, size)
            /\ expanded' = expanded + size
            /\ IF file.format = "gz"
               THEN Do("scan") /\ file' = [at |-> <<New, 0>>, format |-> None] /\ UNCHANGED stack
               ELSE Do("next") /\ Push /\ UNCHANGED file
            /\ UNCHANGED eventVars
  /\ UNCHANGED entries

Bytes(found) == MapThenSumSet(LAMBDA i : found[i].size, DOMAIN found)

\* Every member is decoded and retained before the first is processed, or none is.
Decodes(found) ==
  /\ \A i \in DOMAIN found : found[i].flaw = "none" /\ found[i].size <= limits.memberBytes
  /\ Bytes(found) <= Remaining

Found == MapThenSumSet(LAMBDA a : Len(archives[a].entries), DOMAIN archives)
ListedEntry == {e \in Entry : e.is # "longName" /\ e.flaw \in {"none", "data"}}

Publish(found, whole) ==
  /\ Opened(found, 0)
  /\ IF whole THEN Push /\ Do("next") /\ UNCHANGED eventVars
     ELSE Abandon(<<New, 0>>) /\ UNCHANGED stack
  /\ UNCHANGED <<file, expanded>>

\* A RAR or a 7z may be corrupt before its entries are known, or one of them may be.
\* The extractor of RAR is told how many entries are left, which are counted later.
OpenRar ==
  /\ Opens({"rar"})
  /\ \/ Publish(<<>>, FALSE)
     \/ \E found \in SeqOf(ListedEntry, MaxEntries - Found) :
          Publish(found, entries + Len(found) <= limits.entries /\ Decodes(found))
  /\ UNCHANGED entries

\* 7z counts its entries at once, if they are not too many.
OpenSevenZip ==
  /\ Opens({"7z"})
  /\ \/ Publish(<<>>, FALSE) /\ UNCHANGED entries
     \/ \E found \in SeqOf(ListedEntry, MaxEntries - Found) :
          LET fits == entries + Len(found) <= limits.entries IN
            /\ Publish(found, fits /\ Decodes(found))
            /\ entries' = IF fits THEN entries + Len(found) ELSE entries

-----------------------------------------------------------------------------
(* The loops over the entries of an archive.                               *)

Forward == stack' = [stack EXCEPT ![Depth].next = @ + 1]

\* member: a path of the first level may be allowlisted; the bytes are charged before the
\* member is processed, and stay charged when they are too many.
MemberWithoutTotal(e) ==
  /\ Forward
  /\ IF e.allowed /\ Depth = 1
     THEN Do("next") /\ UNCHANGED <<file, expanded, eventVars>>
     ELSE IF e.size > limits.memberBytes
     THEN Skip(Place) /\ UNCHANGED <<file, expanded>>
     ELSE /\ expanded' = expanded + e.size
          /\ file' = [at |-> Place, format |-> e.format]
          /\ Do(IF Here.format = "7z" /\ e.format = None THEN "scan" ELSE "open")
          /\ UNCHANGED eventVars

Member(e) ==
  /\ Forward
  /\ IF e.allowed /\ Depth = 1
     THEN Do("next") /\ UNCHANGED <<file, expanded, eventVars>>
     ELSE IF e.size > limits.memberBytes
     THEN Skip(Place) /\ UNCHANGED <<file, expanded>>
     ELSE /\ expanded' = expanded + e.size
          /\ IF expanded' > limits.totalBytes
             THEN Skip(Place) /\ UNCHANGED file
             ELSE /\ file' = [at |-> Place, format |-> e.format]
                  /\ Do(IF Here.format = "7z" /\ e.format = None THEN "scan" ELSE "open")
                  /\ UNCHANGED eventVars

GiveUp == Pop /\ Abandon(Place) /\ UNCHANGED <<file, expanded>>
PassOver == Forward /\ Do("next") /\ UNCHANGED <<file, expanded, eventVars>>

TarEntry(e) ==
  IF entries' > limits.entries THEN GiveUp
  ELSE IF e.is = "directory" THEN PassOver
  ELSE IF e.is = "longName"
  THEN IF e.size > limits.memberBytes THEN GiveUp ELSE PassOver
  ELSE IF e.size > MemberLimit THEN GiveUp
  ELSE Member(e)

\* A member that cannot be decoded, or is not what the directory says, is skipped.
ZipEntrySilently(e) ==
  IF entries' > limits.entries THEN GiveUp
  ELSE IF e.is = "directory" THEN PassOver
  ELSE IF e.size > limits.memberBytes \/ e.flaw = "entry" THEN GiveUp
  ELSE IF e.size > MemberLimit \/ e.flaw = "data" THEN PassOver
  ELSE Member(e)

ZipEntry(e) ==
  IF entries' > limits.entries THEN GiveUp
  ELSE IF e.is = "directory" THEN PassOver
  ELSE IF e.size > limits.memberBytes \/ e.flaw = "entry" THEN GiveUp
  ELSE IF e.size > MemberLimit \/ e.flaw = "data"
  THEN Forward /\ Skip(Place) /\ UNCHANGED <<file, expanded>>
  ELSE Member(e)

Reads(e) ==
  IF Here.format = "zip" THEN e.is # "longName" /\ e.flaw \in {"none", "header", "entry", "data"}
  ELSE e.flaw \in {"none", "header", "padding"}

\* The header of the next entry of a TAR or a ZIP, good or bad.
ReadEntry ==
  /\ doing = "next" /\ Here.format \notin Listed
  /\ ~token /\ ~Here.broken
  /\ Found < MaxEntries
  /\ \E e \in Entry :
       /\ Reads(e)
       /\ archives' = [archives EXCEPT ![Top.archive].entries = Append(@, e),
                                       ![Top.archive].broken = (e.flaw = "padding")]
       /\ IF e.flaw = "header"
          THEN GiveUp /\ UNCHANGED entries
          ELSE /\ entries' = entries + 1
               /\ IF Here.format = "zip" THEN ZipEntry(e) ELSE TarEntry(e)
  /\ UNCHANGED <<limits, token, extracted>>

\* A TAR that ends in the padding of the member just processed.
PaddingIsTruncated ==
  /\ doing = "next" /\ Here.broken
  /\ GiveUp
  /\ UNCHANGED <<limits, token, contentVars, entries>>

\* The end of a TAR or a ZIP; a TAR without a header may also be a corrupt one.
EntriesEnd ==
  /\ doing = "next" /\ Here.format \notin Listed /\ ~Here.broken
  /\ archives' = [archives EXCEPT ![Top.archive].ended = TRUE]
  /\ Pop
  /\ \/ Return("Continue") /\ UNCHANGED eventVars
     \/ Here.format # "zip" /\ Here.entries = <<>> /\ Abandon(Place)
  /\ UNCHANGED <<limits, token, file, extracted, chargeVars>>

\* A member of a 7z or a RAR, all of which are in memory; RAR counts its entries now.
NextListed ==
  /\ doing = "next" /\ Here.format \in Listed
  /\ Top.next <= Len(Here.entries)
  /\ entries' = IF Here.format = "rar" THEN entries + 1 ELSE entries
  /\ LET e == Here.entries[Top.next] IN
       IF Here.format = "rar" /\ entries' > limits.entries THEN GiveUp
       ELSE IF e.is = "directory" THEN PassOver
       ELSE Member(e)
  /\ UNCHANGED <<limits, token, contentVars>>

ListEnds ==
  /\ doing = "next" /\ Here.format \in Listed
  /\ Top.next > Len(Here.entries)
  /\ archives' = [archives EXCEPT ![Top.archive].ended = TRUE]
  /\ Pop
  /\ Return("Continue")
  /\ UNCHANGED <<limits, token, file, extracted, chargeVars, eventVars>>

-----------------------------------------------------------------------------
(* What comes back.                                                        *)

\* The bytes of the file in hand go through a FileSource, to the callback.
Scan ==
  /\ doing = "scan" /\ ~token
  /\ Report
  /\ scanned' = scanned \cup {file.at}
  /\ UNCHANGED <<limits, token, file, stack, contentVars, chargeVars, skipped, abandoned>>

ResumeUnlessError ==
  /\ doing = "return" /\ stack # <<>>
  /\ IF control \in {"Continue", "Stop"}
     THEN doing' = "next" /\ control' = "Continue" /\ UNCHANGED stack
     ELSE Pop /\ UNCHANGED <<doing, control>>
  /\ UNCHANGED <<limits, token, file, contentVars, chargeVars, eventVars>>

\* An extraction goes on after Continue; Stop and errors end it too.
Resume ==
  /\ doing = "return" /\ stack # <<>>
  /\ IF control = "Continue" THEN Do("next") /\ UNCHANGED stack
     ELSE Pop /\ UNCHANGED <<doing, control>>
  /\ UNCHANGED <<limits, token, file, contentVars, chargeVars, eventVars>>

VisitReturns ==
  /\ doing = "return" /\ stack = <<>>
  /\ Do("done")
  /\ UNCHANGED <<limits, token, file, stack, contentVars, chargeVars, eventVars>>

Done == doing = "done" /\ UNCHANGED vars

Open == OpenPlain \/ OpenTooDeep \/ OpenContainer \/ OpenStream \/ OpenRar \/ OpenSevenZip
Extract == ReadEntry \/ PaddingIsTruncated \/ EntriesEnd \/ NextListed \/ ListEnds

Next ==
  \/ Cancel \/ IsCancelled
  \/ Visit \/ SpoolFails
  \/ Open
  \/ Extract
  \/ Scan
  \/ Resume \/ VisitReturns
  \/ Done

Spec == Init /\ [][Next]_vars

-----------------------------------------------------------------------------
(* Properties.                                                             *)

EntryAt(place) == archives[place[1]].entries[place[2]]
IsMember(place) == place[1] > 0 /\ place[2] > 0
Handed == {place \in scanned \cup extracted : IsMember(place)}

\* Each member that was scanned or extracted, and each stream that was decoded, fits the
\* limits for one of them, and no archive was opened too deep.
EachFits ==
  /\ \A a \in DOMAIN archives :
       /\ archives[a].depth < limits.depth
       /\ archives[a].decoded <= limits.memberBytes
  /\ \A place \in Handed : EntryAt(place).size <= limits.memberBytes

\* There are no more of them than entries are allowed.
EntriesFit == Cardinality(Handed) <= limits.entries

\* The bytes of these members, and of the streams that were decoded, one by one.
BytesOut ==
  (UNION {{place} \X (1 .. EntryAt(place).size) : place \in Handed})
    \cup (UNION {{<<a, 0>>} \X (1 .. archives[a].decoded) : a \in DOMAIN archives})

\* Together they have no more bytes than are allowed.
BytesFit == Cardinality(BytesOut) <= limits.totalBytes

\* ArchiveLimits: "ceilings applied across one archive traversal".  Whatever is nested in
\* what, the members that were scanned or extracted and the streams that were decoded
\* stay within the ceilings, together and one by one, although entries and
\* bytes are counted in different places for each format.
LimitsHold == EachFits /\ EntriesFit /\ BytesFit

Allowlisted(place) == archives[place[1]].depth = 0 /\ EntryAt(place).allowed

TooDeep(place) ==
  EntryAt(place).format # None /\ archives[place[1]].depth + 1 >= limits.depth

\* An issue reports the archive, from the entry on or from an earlier one.
AbandonedBy(a, i) == \E place \in abandoned : place[1] = a /\ place[2] <= i

\* A file in an archive was scanned or extracted, or there is a reason why not.
Accounted(place) ==
  \/ EntryAt(place).is # "file"
  \/ place \in scanned \cup extracted \cup skipped
  \/ AbandonedBy(place[1], place[2])
  \/ Allowlisted(place)
  \/ limits.silent /\ TooDeep(place)

\* An archive was read to its end, or an issue says that it was not.
Finished(a) ==
  archives[a].ended \/ <<a, 0>> \in scanned \/ \E place \in abandoned : place[1] = a

\* A traversal that ends normally has scanned or extracted every file in every archive it
\* opened, unless the user allowlisted it, asked for silence about the depth, or
\* was told: of the member, or of the archive from some entry on.
NothingHidden ==
  doing = "done" /\ control = "Continue" =>
    /\ Root \in scanned \cup extracted \cup skipped \/ limits.depth = 0
    /\ \A a \in DOMAIN archives :
         Finished(a) /\ \A i \in DOMAIN archives[a].entries : Accounted(<<a, i>>)

\* What the callback answers is what visit returns: once it said Stop or failed, or the
\* token was seen, no level of the recursion emits, charges or opens anything more.
StopIsFinal ==
  [][/\ control # "Continue" =>
          control' = control /\ UNCHANGED <<contentVars, chargeVars, eventVars>>
     /\ control' = "Cancelled" => token]_vars

=============================================================================
