---------------------------- MODULE MCDirectoryWalk ----------------------------
(***************************************************************************)
(* The trees, their changes and the options that DirectoryWalk is checked  *)
(* with.  The walk starts at <<1>>; <<2>> is outside of it.                *)
(***************************************************************************)
EXTENDS DirectoryWalk

Dir == [is |-> "dir"]
File(size) == [is |-> "file", size |-> size]
Link(absolute, target) ==
  [is |-> "link", size |-> 1, absolute |-> absolute, target |-> target]

MCRoot == <<1>>

Around(nodes) == [p \in {<<1>>, <<2>>, <<2, 1>>} |-> IF p = <<2, 1>> THEN File(1) ELSE Dir] @@ nodes

\* Files of every size around a directory; a link to a file outside through a link to
\* a directory; a link to itself, a circle of two, a link that leads into itself,
\* a link to nothing; a link without a text; a file as the root.
MCTrees ==
  {Around(<<1, 1>> :> File(0) @@ <<1, 2>> :> Dir @@ <<1, 2, 1>> :> File(2)
            @@ <<1, 2, 2>> :> File(1) @@ <<1, 3>> :> File(1)),
   Around(<<1, 1>> :> Link(TRUE, <<2>>) @@ <<1, 2>> :> Link(FALSE, <<1, 1>>)
            @@ <<1, 3>> :> Link(FALSE, <<2>>)),
   Around(<<1, 1>> :> Link(FALSE, <<1>>) @@ <<1, 2>> :> Link(FALSE, <<3>>)
            @@ <<1, 3>> :> Link(FALSE, <<2>>)),
   Around(<<1, 1>> :> Link(FALSE, <<1, 1>>) @@ <<1, 2>> :> Link(FALSE, <<Up, 2, 2>>)
            @@ <<1, 3>> :> [Link(TRUE, <<2, 1>>) EXCEPT !.size = 0]),
   [p \in {<<1>>} |-> File(1)]}

MCChanges ==
  [path : {<<1, 2>>}, node : {Absent, File(1), Link(TRUE, <<2>>)}]
  \cup [path : {<<1, 1>>}, node : {File(1), Dir, Link(FALSE, <<3>>)}]
  \cup [path : {<<2, 1>>}, node : {Absent, Dir}]

MCOptions ==
  [follow : BOOLEAN, maxSize : {1}, report : BOOLEAN, allowed : {{}}]
  \cup [follow : {TRUE}, maxSize : {2}, report : {FALSE}, allowed : {{<<1, 2>>}, {<<1, 3>>}}]

================================================================================
