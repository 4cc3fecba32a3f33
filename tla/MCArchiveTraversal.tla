-------------------------- MODULE MCArchiveTraversal --------------------------
(***************************************************************************)
(* The entries and limits that ArchiveTraversal is checked with.           *)
(***************************************************************************)
EXTENDS ArchiveTraversal

Plain(size) ==
  [is |-> "file", size |-> size, format |-> None, allowed |-> FALSE, flaw |-> "none"]

MCEntry ==
  {Plain(1), Plain(2), [Plain(1) EXCEPT !.allowed = TRUE]}
  \cup {[Plain(1) EXCEPT !.format = f] : f \in {"zip", "7z", "tar.gz"}}
  \cup {[Plain(1) EXCEPT !.flaw = f] : f \in {"header", "entry", "data", "padding"}}
  \cup {[Plain(1) EXCEPT !.is = i] : i \in {"directory", "longName"}}

\* Bytes run out before entries do, and the other way round; no nesting; no archives.
MCLimits ==
  {[depth |-> 2, entries |-> 4, memberBytes |-> 2, totalBytes |-> 3, silent |-> FALSE],
   [depth |-> 2, entries |-> 2, memberBytes |-> 1, totalBytes |-> 9, silent |-> TRUE],
   [depth |-> 1, entries |-> 9, memberBytes |-> 9, totalBytes |-> 9, silent |-> FALSE],
   [depth |-> 0, entries |-> 9, memberBytes |-> 9, totalBytes |-> 9, silent |-> FALSE]}

===============================================================================
