---------------------------- MODULE DirectoryWalk ----------------------------
(***************************************************************************)
(* DirectorySource in crates/rustleaks-sources/src/directory.rs: the       *)
(* recursive walk over a tree of files, directories and symbolic links     *)
(* that other programs may change between any two calls of the file        *)
(* system.                                                                 *)
(*                                                                         *)
(* A path is the sequence of its names, from the root of the file system;  *)
(* names are numbers, in the order in which file_name sorts them, and Up   *)
(* is the parent component.  What a file holds is not kept: opening one    *)
(* hands it to a FileSource or an ArchiveSource, whose visit is one step.  *)
(***************************************************************************)
EXTENDS Integers, Sequences, FiniteSets, SequencesExt

CONSTANTS
  Absent, Up,  \* no such entry; the component ".."
  Options,     \* values of DirectoryOptions
  Trees,       \* what the file system may be at first: a node for each path
  Changes,     \* what other programs may do: a path and its new node
  Root,        \* DirectorySource.root
  MaxHops,     \* max_symlink_hops
  OsHops,      \* links that the operating system follows in one path
  MaxChanges   \* bound: changes of the tree

Prefix(path, n) == SubSeq(path, 1, n)
IsPrefixOf(p, q) == Len(p) <= Len(q) /\ Prefix(q, Len(p)) = p

\* A link leads along names and "..".
IsNode(node) == node # Absent /\ node.is = "link" => node.target \in Seq(Nat \cup {Up})

ASSUME DirectoryAssumption ==
  /\ Up \notin Nat
  /\ \A o \in Options : o.follow \in BOOLEAN /\ o.maxSize \in Nat /\ o.report \in BOOLEAN
  /\ MaxHops \in Nat \ {0} /\ OsHops \in Nat /\ OsHops >= MaxHops /\ MaxChanges \in Nat

\* The root is there, and no link leads to it.
ASSUME TreeAssumption ==
  /\ Absent # [is |-> "dir"] /\ Root \in Seq(Nat)
  /\ \A t \in Trees :
       /\ Root \in DOMAIN t /\ DOMAIN t \subseteq Seq(Nat)
       /\ \A n \in 1 .. Len(Root) - 1 :
            /\ Prefix(Root, n) \in DOMAIN t
            /\ t[Prefix(Root, n)] # Absent /\ t[Prefix(Root, n)].is = "dir"
       /\ \A path \in DOMAIN t : IsNode(t[path])
  /\ \A c \in Changes : IsNode(c.node)

VARIABLES
  options,   \* the options of this walk
  tree,      \* the file system
  changed,   \* the paths that another program has changed
  token,     \* the caller's Cancellation
  doing,     \* the call in progress
  control,   \* what the call that ends returns: Continue, Stop or an error
  here,      \* the path that walk examines
  link,      \* resolve_symlink: current, visited, hops, and the length of link
  stack,     \* the directories being walked, with the children still to come
  answers    \* the files scanned and the issues, in order: for which path, and of which

worldVars == <<tree, changed, token>>
vars == <<options, worldVars, doing, control, here, link, stack, answers>>

NoLink == [current |-> <<>>, visited |-> {}, hops |-> 0, at |-> 0]

Init ==
  /\ options \in Options
  /\ tree \in Trees /\ changed = {}
  /\ token = FALSE
  /\ doing = "walk" /\ control = "Continue"
  /\ here = Root
  /\ link = NoLink /\ stack = <<>> /\ answers = <<>>

-----------------------------------------------------------------------------
(* The file system.                                                        *)

\* clean_native_path of an absolute path: purely lexical, name by name.
Clean(path) ==
  LET done[n \in 0 .. Len(path)] ==
        IF n = 0 THEN <<>>
        ELSE IF path[n] # Up THEN Append(done[n - 1], path[n])
        ELSE IF done[n - 1] = <<>> THEN <<>> ELSE Front(done[n - 1])
  IN  done[Len(path)]

Node(path) ==
  IF path = <<>> THEN [is |-> "dir"]
  ELSE IF path \in DOMAIN tree THEN tree[path] ELSE Absent

IsA(path, kind) == Node(path) # Absent /\ Node(path).is = kind

\* first_symlink_component: the length of the first prefix that is a link, 0 if no
\* prefix is one, or -1 when a component is not there before a link is found.
FirstLink(path) ==
  LET dirs(n) == \A i \in 0 .. n - 1 : IsA(Prefix(path, i), "dir")
      links == {n \in 1 .. Len(path) : dirs(n) /\ IsA(Prefix(path, n), "link")}
  IN  IF links # {} THEN CHOOSE n \in links : TRUE
      ELSE IF dirs(Len(path)) /\ Node(path) # Absent THEN 0 ELSE -1

\* A path with its link, the prefix of length n, replaced by what the link says.
Through(path, n, node) ==
  LET base == IF node.absolute THEN <<>> ELSE Prefix(path, n - 1)
  IN  Clean(base \o node.target \o SubSeq(path, n + 1, Len(path)))

\* One link further; a path without a link stays, and so does one that leads nowhere.
Follow(path) ==
  LET n == FirstLink(path)
  IN  IF n > 0 THEN Through(path, n, Node(Prefix(path, n))) ELSE path

\* What a path becomes with every further link.
Chain(path) ==
  LET chain[n \in 0 .. OsHops] == IF n = 0 THEN path ELSE Follow(chain[n - 1])
  IN  chain

\* What a call that follows links finds at a path; lstat does not follow the last name.
End(path) == Chain(path)[OsHops]
Stat(path) == IF FirstLink(End(path)) = 0 THEN Node(End(path)) ELSE Absent

Lstat(path) ==
  IF path = <<>> THEN Node(path)
  ELSE LET parent == End(Front(path))
       IN  IF FirstLink(parent) = 0 /\ IsA(parent, "dir")
           THEN Node(Append(parent, Last(path))) ELSE Absent

\* The names in a directory, which the call reaches through links.
NamesIn(path) ==
  {Last(p) : p \in {q \in DOMAIN tree :
                      q # <<>> /\ Front(q) = End(path) /\ Node(q) # Absent}}

-----------------------------------------------------------------------------
(* Other programs.                                                         *)

Change ==
  /\ Cardinality(changed) < MaxChanges /\ doing # "done"
  /\ \E c \in Changes :
       /\ c.path \in DOMAIN tree /\ tree[c.path] # c.node
       /\ tree' = [tree EXCEPT ![c.path] = c.node]
       /\ changed' = changed \cup {c.path}
  /\ UNCHANGED <<options, token, doing, control, here, link, stack, answers>>

Cancel ==
  /\ ~token /\ doing # "done"
  /\ token' = TRUE
  /\ UNCHANGED <<options, tree, changed, doing, control, here, link, stack, answers>>

-----------------------------------------------------------------------------
(* walk: one path.                                                         *)

Do(what) == doing' = what /\ UNCHANGED control
Return(c) == doing' = "return" /\ control' = c

Answer(what, target) ==
  answers' = Append(answers, [path |-> here, is |-> what, target |-> target])

\* emit_issue: the caller returns what the callback answers.
Report(issue) ==
  /\ Answer(issue, here)
  /\ \E answer \in {"Continue", "Stop", "Callback"} : Return(answer)

Quietly == UNCHANGED answers
Allowed(path) == path \in options.allowed
TooBig(node) == node.size > options.maxSize

IsCancelled ==
  /\ token
  /\ \/ doing \in {"walk", "scan"}
     \/ doing = "list" /\ Last(stack).pending # {}
  /\ Return("Cancelled")
  /\ stack' = IF doing = "list" THEN Front(stack) ELSE stack
  /\ UNCHANGED <<options, worldVars, here, link, answers>>

MetadataFails ==
  /\ doing = "walk" /\ ~token
  /\ Report("Failed")
  /\ UNCHANGED <<options, worldVars, here, link, stack>>

\* The size of a link is that of its text, and it is tested before the link is resolved.
WalkOn(node) ==
  IF node.is = "dir"
  THEN IF Allowed(here) THEN Return("Continue") /\ Quietly ELSE Do("readDir") /\ Quietly
  ELSE IF node.size = 0 THEN Return("Continue") /\ Quietly
  ELSE IF TooBig(node)
  THEN IF options.report THEN Report("TooBig") ELSE Return("Continue") /\ Quietly
  ELSE IF node.is = "link"
  THEN IF options.follow THEN Do("hop") /\ Quietly ELSE Return("Continue") /\ Quietly
  ELSE IF Allowed(here) THEN Return("Continue") /\ Quietly
  ELSE Do("open") /\ Quietly

MetadataFollowing ==
  /\ doing = "walk" /\ ~token
  /\ Stat(here) # Absent
  /\ WalkOn(Stat(here))
  /\ link' = [NoLink EXCEPT !.current = Clean(here)]
  /\ UNCHANGED <<options, worldVars, here, stack>>

Metadata ==
  /\ doing = "walk" /\ ~token
  /\ Lstat(here) # Absent
  /\ WalkOn(Lstat(here))
  /\ link' = [NoLink EXCEPT !.current = Clean(here)]
  /\ UNCHANGED <<options, worldVars, here, stack>>

-----------------------------------------------------------------------------
(* resolve_symlink.                                                        *)

\* A round of the loop: the bound, the first link in the path, and whether it was here.
HopFrom ==
  LET n == FirstLink(link.current) IN
  IF link.hops = MaxHops THEN Report("Loop") /\ UNCHANGED link
  ELSE IF n = -1 THEN Report("Dangling") /\ UNCHANGED link
  ELSE IF n = 0 THEN Do("target") /\ Quietly /\ UNCHANGED link
  ELSE IF link.current \in link.visited THEN Report("Loop") /\ UNCHANGED link
  ELSE /\ Do("readLink") /\ Quietly
       /\ link' = [link EXCEPT !.visited = @ \cup {link.current}, !.at = n]

Hop ==
  /\ doing = "hop"
  /\ HopFrom
  /\ UNCHANGED <<options, worldVars, here, stack>>

ReadLink ==
  /\ doing = "readLink"
  /\ LET found == Lstat(Prefix(link.current, link.at)) IN
       IF found # Absent /\ found.is = "link"
       THEN /\ Do("hop") /\ Quietly
            /\ link' = [link EXCEPT !.current = Through(@, link.at, found), !.hops = @ + 1]
       ELSE Report("Dangling") /\ UNCHANGED link
  /\ UNCHANGED <<options, worldVars, here, stack>>

\* The resolved target is looked at before the path is tested against the allowlist.
Target ==
  /\ doing = "target"
  /\ LET node == Stat(link.current) IN
       \/ Report("Dangling")
       \/ /\ node # Absent
          /\ IF node.is = "dir" THEN Report("DirectoryLink")
             ELSE Quietly /\ IF Allowed(here) THEN Return("Continue") ELSE Do("open")
  /\ UNCHANGED <<options, worldVars, here, link, stack>>

-----------------------------------------------------------------------------
(* What is opened.                                                         *)

\* The issue names the target, where all others name the path that was met.
OpenFails ==
  /\ doing = "open"
  /\ Answer("Failed", link.current)
  /\ \E answer \in {"Continue", "Stop", "Callback"} : Return(answer)
  /\ UNCHANGED <<options, worldVars, here, link, stack>>

OpenFile ==
  /\ doing = "open"
  /\ Stat(link.current) # Absent
  /\ Do("scan")
  /\ UNCHANGED <<options, worldVars, here, link, stack, answers>>

\* The visit of a FileSource or an ArchiveSource, with an alias if here is a link.
Scan ==
  /\ doing = "scan" /\ ~token
  /\ Answer("scanned", link.current)
  /\ \E answer \in {"Continue", "Stop", "Callback"} : Return(answer)
  /\ UNCHANGED <<options, worldVars, here, link, stack>>

ReadDirFails ==
  /\ doing = "readDir"
  /\ Report("Failed")
  /\ UNCHANGED <<options, worldVars, here, link, stack>>

ReadDir ==
  /\ doing = "readDir"
  /\ Stat(here) # Absent /\ Stat(here).is = "dir"
  /\ stack' = Append(stack, [dir |-> here, pending |-> NamesIn(here), children |-> {}])
  /\ Do("list")
  /\ UNCHANGED <<options, worldVars, here, link, answers>>

\* An entry is retained, in the order in which the system returns them.
ListEntry ==
  /\ doing = "list" /\ ~token
  /\ \E name \in Last(stack).pending :
       stack' = [stack EXCEPT ![Len(stack)].pending = @ \ {name},
                              ![Len(stack)].children = @ \cup {name}]
  /\ UNCHANGED <<options, worldVars, doing, control, here, link, answers>>

\* An entry that cannot be read is reported, and the listing goes on.
EntryFails ==
  /\ doing = "list" /\ ~token
  /\ \E name \in Last(stack).pending :
       /\ Answer("Failed", here)
       /\ \/ /\ stack' = [stack EXCEPT ![Len(stack)].pending = @ \ {name}]
             /\ UNCHANGED <<doing, control>>
          \/ /\ stack' = Front(stack)
             /\ \E answer \in {"Stop", "Callback"} : Return(answer)
  /\ UNCHANGED <<options, worldVars, here, link>>

\* An entry that cannot be retained ends the directory, with the entries that were.
ReserveFails ==
  /\ doing = "list" /\ ~token
  /\ Last(stack).pending # {}
  /\ Report("Failed")
  /\ stack' = Front(stack)
  /\ UNCHANGED <<options, worldVars, here, link>>

ListEnds ==
  /\ doing = "list" /\ Last(stack).pending = {}
  /\ Do("children")
  /\ UNCHANGED <<options, worldVars, here, link, stack, answers>>

NextChildUnsorted ==
  /\ doing = "children" /\ Last(stack).children # {}
  /\ \E name \in Last(stack).children :
       /\ here' = Append(Last(stack).dir, name)
       /\ stack' = [stack EXCEPT ![Len(stack)].children = @ \ {name}]
  /\ Do("walk")
  /\ UNCHANGED <<options, worldVars, link, answers>>

\* The children are sorted by their names before the first is walked.
NextChild ==
  /\ doing = "children" /\ Last(stack).children # {}
  /\ \E name \in Last(stack).children :
       /\ \A other \in Last(stack).children : name <= other
       /\ here' = Append(Last(stack).dir, name)
       /\ stack' = [stack EXCEPT ![Len(stack)].children = @ \ {name}]
  /\ Do("walk")
  /\ UNCHANGED <<options, worldVars, link, answers>>

ChildrenEnd ==
  /\ doing = "children" /\ Last(stack).children = {}
  /\ stack' = Front(stack)
  /\ Return("Continue")
  /\ UNCHANGED <<options, worldVars, here, link, answers>>

\* A directory goes on after Continue; Stop and errors end it too.
Resume ==
  /\ doing = "return" /\ stack # <<>>
  /\ IF control = "Continue" THEN Do("children") /\ UNCHANGED stack
     ELSE stack' = Front(stack) /\ UNCHANGED <<doing, control>>
  /\ UNCHANGED <<options, worldVars, here, link, answers>>

VisitReturns ==
  /\ doing = "return" /\ stack = <<>>
  /\ Do("done")
  /\ UNCHANGED <<options, worldVars, here, link, stack, answers>>

Done == doing = "done" /\ UNCHANGED vars

Walk == Metadata \/ MetadataFails \/ Hop \/ ReadLink \/ Target
Files == OpenFile \/ OpenFails \/ Scan
Directories ==
  \/ ReadDir \/ ReadDirFails
  \/ ListEntry \/ EntryFails \/ ReserveFails \/ ListEnds
  \/ NextChild \/ ChildrenEnd \/ Resume

Next ==
  \/ Change \/ Cancel \/ IsCancelled
  \/ Walk \/ Files \/ Directories
  \/ VisitReturns
  \/ Done

Spec == Init /\ [][Next]_vars

-----------------------------------------------------------------------------
(* Properties.                                                             *)

\* The paths that decide what a path is: it, where its links lead, and what is above.
Above(path) == {Prefix(path, i) : i \in 0 .. Len(path)}
Consulted(path) == UNION {Above(Chain(path)[n]) : n \in 0 .. OsHops}

Untouched(path) == Consulted(path) \cap changed = {}

\* The walk descends through directories that are not allowlisted, never through a link.
Reached(path) ==
  /\ IsPrefixOf(Root, path)
  /\ \A i \in Len(Root) .. Len(path) - 1 :
       IsA(Prefix(path, i), "dir") /\ ~Allowed(Prefix(path, i))

\* Where a link ends: fewer than MaxHops links, none of them twice.
Ending(path, n) ==
  {Chain(path)[i] : i \in {j \in 0 .. MaxHops - 1 : FirstLink(Chain(path)[j]) = n}}
IsDead(path) == Ending(path, -1) # {}
IsLoop(path) == Ending(path, 0) = {} /\ ~IsDead(path)
EndOf(path) == CHOOSE end \in Ending(path, 0) : TRUE

\* What a link that is followed calls for, and what any path does: what is to be reported
\* or scanned for it.
Gated(path) == IF Allowed(path) THEN "nothing" ELSE "scanned"

DueOfLink(path) ==
  IF IsDead(path) THEN "Dangling"
  ELSE IF IsLoop(path) THEN "Loop"
  ELSE IF IsA(EndOf(path), "dir") THEN "DirectoryLink"
  ELSE Gated(path)

Due(path) ==
  LET node == Node(path) IN
    IF node = Absent \/ node.is = "dir" \/ node.size = 0 THEN "nothing"
    ELSE IF TooBig(node) THEN IF options.report THEN "TooBig" ELSE "nothing"
    ELSE IF node.is # "link" THEN Gated(path)
    ELSE IF options.follow THEN DueOfLink(path)
    ELSE "nothing"

\* A call of the file system may fail for reasons of its own; it is then reported.
FailureOf(answer) ==
  \/ answer.is = "Failed"
  \/ answer.is = "Dangling" /\ IsA(answer.path, "link")

\* What the walk makes of a path that nobody changes is what its node, its links and the
\* options call for, whatever changes around it: it is only met below directories,
\* a link is scanned as its last target or reported for what is wrong with it, and
\* when the visit ends normally no file is missing without an issue about it or
\* a directory above it.
EveryPathAnswered ==
  /\ \A i \in DOMAIN answers :
       LET a == answers[i] IN
       Untouched(a.path) =>
         /\ Reached(a.path)
         /\ FailureOf(a) \/ a.is = Due(a.path)
         /\ a.is = "scanned" => a.target = IF IsA(a.path, "link") THEN EndOf(a.path) ELSE a.path
  /\ doing = "done" /\ control = "Continue" =>
       \A path \in DOMAIN tree :
         Untouched(path) /\ Reached(path) /\ Due(path) # "nothing" =>
           \E i \in DOMAIN answers :
             \/ answers[i].path = path
             \/ answers[i].is = "Failed" /\ IsPrefixOf(answers[i].path, path)

Precedes(p, q) ==
  \/ IsPrefixOf(p, q) /\ p # q
  \/ \E n \in 1 .. Len(p) :
       n <= Len(q) /\ Prefix(p, n - 1) = Prefix(q, n - 1) /\ p[n] < q[n]

\* The walk is lexical, whatever order a directory is listed in and whatever changes: of
\* the events of a visit none goes back, and only the issues about the entries of
\* one directory share a path.  Once the callback said Stop or failed, or the token
\* was seen, there is no further event and the visit returns just that.
LexicalUntilStopped ==
  [][/\ answers' # answers /\ answers # <<>> =>
          LET last == Last(answers)
              new == Last(answers')
          IN  \/ Precedes(last.path, new.path)
              \/ last.path = new.path /\ new.is = "Failed"
     /\ control # "Continue" => UNCHANGED <<answers, control>>
     /\ control' = "Cancelled" => token]_vars

=============================================================================
