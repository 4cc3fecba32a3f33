---------------------------- MODULE MCPatchParser ----------------------------
(***************************************************************************)
(* The histories, their damaged patches and the limits that PatchParser is *)
(* checked with.                                                           *)
(***************************************************************************)
EXTENDS PatchParser

Plus(is, value) == Line(is, "added", value)
Minus(is, value) == Line(is, "removed", value)
Context == Line("other", "context", "same")
Marker == Line("other", "marker", None)

\* Lines that look like headers, the end of a file without a newline on either side,
\* lines of context, and a hunk that adds nothing.
Odd == [at |-> 3, body |-> <<Minus("oldPath", "q"), Plus("newPath", "q"), Plus("newPath", DevNull)>>]
Ends == [at |-> 5, body |-> <<Minus("other", "x"), Marker, Plus("other", "y"), Marker>>]
Around == [at |-> 1, body |-> <<Plus("other", "a"), Context, Marker>>]
Removes == [at |-> 4, body |-> <<Minus("other", "x"), Context>>]
Adds == [at |-> 1, body |-> <<Plus("other", "a"), Plus("other", "b")>>]

Change(kind, path, bodies) == [kind |-> kind, path |-> path, from |-> "p", hunks |-> bodies]

MCChanges ==
  {Change("modify", "p", <<Odd, Ends>>), Change("modify", "p", <<Around, Removes>>),
   Change("create", "q", <<Adds>>), Change("create", "p", <<>>),
   Change("delete", "p", <<Removes>>),
   Change("rename", "q", <<Ends>>), Change("copy", "long", <<>>),
   Change("mode", "p", <<>>),
   Change("binary", "zip", <<>>), Change("payload", "p", <<>>)}

Commit(sha, changes) == [sha |-> sha, changes |-> changes]

\* Two changes of one commit, or of two commits; the second form is also a diff's.
MCHistories ==
  {<<Commit("c", <<a, b>>)>> : a, b \in MCChanges}
  \cup {<<Commit("c", <<a>>), Commit("d", <<b>>)>> : a, b \in MCChanges}
  \cup {<<Commit(None, <<a>>)>> : a \in MCChanges}
  \cup {<<Commit("long", <<>>)>>}

\* A line is lost, comes twice or changes places with the next one, the end is lost, or
\* the header of a hunk is.
DamagedLines(lines) ==
  LET n == Len(lines) IN
    {SubSeq(lines, 1, i - 1) \o SubSeq(lines, i + 1, n) : i \in 1 .. n}
    \cup {SubSeq(lines, 1, i) \o SubSeq(lines, i, n) : i \in 1 .. n}
    \cup {SubSeq(lines, 1, i - 1) \o <<lines[i + 1], lines[i]>> \o SubSeq(lines, i + 2, n) :
            i \in 1 .. n - 1}
    \cup {SubSeq(lines, 1, i) : i \in 1 .. n - 1}
    \cup {[lines EXCEPT ![i].is = "badHunk"] : i \in {j \in 1 .. n : lines[j].is = "hunk"}}

MCDamage ==
  [h \in MCHistories |-> IF Len(h[1].changes) < 2 THEN DamagedLines(Written(h)) ELSE {}]

MCLimits ==
  {[lines |-> 50, files |-> 9, hunks |-> 9], [lines |-> 20, files |-> 1, hunks |-> 1]}

==============================================================================
