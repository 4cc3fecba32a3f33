-------------------------- MODULE DirectorySource_proofs --------------------------
(***************************************************************************)
(* Theorems about the source of a directory.  DirectoryWalk, for every     *)
(* tree, every option and whatever other programs change; FileChunks, for  *)
(* every file, chunk size, buffer and read-ahead: its fragments are the    *)
(* file, each split from the next one where it may be, and a visit that    *)
(* ends normally has delivered all.                                        *)
(*                                                                         *)
(* What was delivered of a file is judged by operators of the file and the *)
(* fragments alone, so that a step that changes neither keeps the verdict. *)
(***************************************************************************)
EXTENDS DirectoryWalk, FileChunks, FiniteSetTheorems, WellFoundedInduction, TLAPS

-----------------------------------------------------------------------------
(* Induction.  A set takes the place of the property, so that the provers  *)
(* can apply it.                                                           *)

\* A set of natural numbers has a least element.
LEMMA LeastNumber ==
  ASSUME NEW T \in SUBSET Nat, T # {}
  PROVE  \E m \in T : \A n \in T : m <= n
<1> DEFINE Less == OpToRel(<, Nat)
<1>1. IsWellFoundedOn(Less, Nat)
  BY NatLessThanWellFounded, Zenon
<1>2. \A m \in Nat, n \in Nat : n < m => <<n, m>> \in Less
  BY Zenon DEF OpToRel
<1> HIDE DEF Less
<1>3. PICK m \in T : \A n \in T : ~(<<n, m>> \in Less)
  BY <1>1, WFMin
<1>4. \A n \in T : ~(n < m)
  BY <1>2, <1>3, Zenon
<1>5. \A n \in T : m <= n
  BY <1>4
<1> QED
  BY <1>5

\* Induction over the natural numbers.
LEMMA Inductive ==
  ASSUME NEW T \in SUBSET Nat, 0 \in T, \A n \in T : n + 1 \in T
  PROVE  T = Nat
<1> SUFFICES ASSUME Nat \ T # {} PROVE FALSE
  OBVIOUS
<1>1. PICK m \in Nat \ T : \A n \in Nat \ T : m <= n
  BY LeastNumber
<1>2. m # 0 /\ m - 1 \in Nat
  BY <1>1
<1>3. m - 1 \in T
  BY <1>1, <1>2
<1>4. (m - 1) + 1 \in T
  BY <1>3
<1> QED
  BY <1>1, <1>2, <1>4

-----------------------------------------------------------------------------
(* Prefixes.                                                               *)

LEMMA PrefixFacts ==
  ASSUME NEW S, NEW p \in Seq(S), NEW n \in 0 .. Len(p)
  PROVE  /\ Prefix(p, n) \in Seq(S)
         /\ Len(Prefix(p, n)) = n
         /\ \A i \in 1 .. n : Prefix(p, n)[i] = p[i]
         /\ \A i \in 0 .. n : Prefix(Prefix(p, n), i) = Prefix(p, i)
         /\ Prefix(p, Len(p)) = p
         /\ Prefix(p, 0) = <<>>
BY DEF Prefix

LEMMA AppendFacts ==
  ASSUME NEW S, NEW p \in Seq(S), NEW a \in S
  PROVE  /\ Append(p, a) \in Seq(S)
         /\ Len(Append(p, a)) = Len(p) + 1
         /\ Append(p, a)[Len(p) + 1] = a
         /\ \A i \in 1 .. Len(p) : Append(p, a)[i] = p[i]
         /\ \A i \in 0 .. Len(p) : Prefix(Append(p, a), i) = Prefix(p, i)
         /\ Prefix(Append(p, a), Len(p)) = p
         /\ Front(Append(p, a)) = p
         /\ Last(Append(p, a)) = a
BY DEF Prefix, Front, Last

LEMMA FrontFacts ==
  ASSUME NEW S, NEW p \in Seq(S), p # <<>>
  PROVE  /\ Front(p) = Prefix(p, Len(p) - 1)
         /\ Len(p) - 1 \in Nat
         /\ Front(p) \in Seq(S)
         /\ Last(p) \in S
         /\ Append(Front(p), Last(p)) = p
BY DEF Prefix, Front, Last

\* The beginning of a path is determined by its prefix that is one shorter.
LEMMA PrefixGrows ==
  ASSUME NEW S, NEW p \in Seq(S), NEW n \in 1 .. Len(p)
  PROVE  Prefix(p, n) = Append(Prefix(p, n - 1), p[n])
BY DEF Prefix

-----------------------------------------------------------------------------
(* Cleaning a path.                                                        *)

CleanStep(done, name) ==
  IF name # Up THEN Append(done, name) ELSE IF done = <<>> THEN <<>> ELSE Front(done)

IsCleaning(d, path, k) ==
  d = [n \in 0 .. k |->
         IF n = 0 THEN <<>>
         ELSE IF path[n] # Up THEN Append(d[n - 1], path[n])
         ELSE IF d[n - 1] = <<>> THEN <<>> ELSE Front(d[n - 1])]

\* The names of a path can be gone through one by one.
LEMMA CleaningExists ==
  ASSUME NEW path, NEW l \in Nat
  PROVE  \E d : IsCleaning(d, path, l)
<1> DEFINE T == {k \in Nat : \E d : IsCleaning(d, path, k)}
<1>1. 0 \in T
  <2> DEFINE d == [n \in 0 .. 0 |-> <<>>]
  <2>1. IsCleaning(d, path, 0)
    BY DEF IsCleaning
  <2> QED
    BY <2>1
<1>2. ASSUME NEW k \in T PROVE k + 1 \in T
  <2>1. PICK d : IsCleaning(d, path, k)
    BY <1>2
  <2>0. d[0] = <<>>
    BY <2>1, <1>2 DEF IsCleaning
  <2> DEFINE e == [n \in 0 .. k + 1 |->
                     IF n = k + 1 THEN CleanStep(d[k], path[k + 1]) ELSE d[n]]
  <2>2. \A n \in 0 .. k : e[n] = d[n]
    BY <1>2
  <2>3. e[k + 1] = CleanStep(d[k], path[k + 1])
    BY <1>2
  <2>4. \A n \in 0 .. k + 1 : e[n] = IF n = 0 THEN <<>> ELSE CleanStep(e[n - 1], path[n])
    <3> HIDE DEF e
    <3> TAKE n \in 0 .. k + 1
    <3>1. CASE n = 0
      <4>1. e[0] = <<>>
        BY <2>0, <2>2, <1>2
      <4> QED
        BY <4>1, <3>1
    <3>2. CASE n \in 1 .. k
      <4>0. n \in 0 .. k /\ n # 0
        BY <1>2, <3>2
      <4>1. d[n] = CleanStep(d[n - 1], path[n])
        BY <2>1, <4>0 DEF IsCleaning, CleanStep
      <4>2. e[n] = d[n] /\ e[n - 1] = d[n - 1]
        BY <2>2, <3>2, <1>2
      <4> QED
        BY <4>1, <4>2, <3>2
    <3>3. CASE n = k + 1
      <4>1. e[n - 1] = d[k]
        BY <2>2, <3>3, <1>2
      <4> QED
        BY <2>3, <4>1, <3>3, <1>2
    <3> QED
      BY <3>1, <3>2, <3>3, <1>2
  <2>5. IsCleaning(e, path, k + 1)
    <3>1. e = [n \in 0 .. k + 1 |-> e[n]]
      OBVIOUS
    <3> HIDE DEF e
    <3> QED
      BY <3>1, <2>4 DEF IsCleaning, CleanStep
  <2> QED
    BY <2>5, <1>2
<1>3. T = Nat
  <2>1. T \subseteq Nat
    OBVIOUS
  <2> HIDE DEF T
  <2> QED
    BY <1>1, <1>2, <2>1, Inductive
<1> QED
  BY <1>3

\* Cleaning yields names only, and leaves a path of names as it is.
LEMMA CleanFacts ==
  ASSUME NEW path \in Seq(Nat \cup {Up})
  PROVE  /\ Clean(path) \in Seq(Nat)
         /\ path \in Seq(Nat) => Clean(path) = path
<1>1. PICK d : IsCleaning(d, path, Len(path)) /\ Clean(path) = d[Len(path)]
  <2>1. \E d : IsCleaning(d, path, Len(path))
    BY CleaningExists
  <2>2. IsCleaning(CHOOSE d : IsCleaning(d, path, Len(path)), path, Len(path))
    BY <2>1
  <2>3. Clean(path) = (CHOOSE d : IsCleaning(d, path, Len(path)))[Len(path)]
    BY DEF Clean, IsCleaning
  <2> QED
    BY <2>2, <2>3
<1>2. d[0] = <<>>
  BY <1>1 DEF IsCleaning
<1>3. \A n \in 1 .. Len(path) : d[n] = CleanStep(d[n - 1], path[n])
  <2> TAKE n \in 1 .. Len(path)
  <2>1. n \in 0 .. Len(path) /\ n # 0
    OBVIOUS
  <2> QED
    BY <1>1, <2>1 DEF IsCleaning, CleanStep
<1>4. d[Len(path)] \in Seq(Nat)
  <2> DEFINE T == {n \in Nat : n <= Len(path) => d[n] \in Seq(Nat)}
  <2>1. 0 \in T
    <3>1. d[0] \in Seq(Nat)
      BY <1>2
    <3> QED
      BY <3>1
  <2>2. ASSUME NEW n \in T PROVE n + 1 \in T
    <3> SUFFICES ASSUME n + 1 <= Len(path) PROVE d[n + 1] \in Seq(Nat)
      BY <2>2
    <3>1. d[n] \in Seq(Nat)
      BY <2>2
    <3>2. n + 1 \in 1 .. Len(path) /\ (n + 1) - 1 = n
      BY <2>2
    <3>3. d[n + 1] = CleanStep(d[n], path[n + 1])
      BY <1>3, <3>2
    <3>4. path[n + 1] \in Nat \cup {Up}
      BY <3>2
    <3>5. CASE path[n + 1] # Up
      BY <3>1, <3>3, <3>4, <3>5 DEF CleanStep
    <3>6. CASE path[n + 1] = Up
      BY <3>1, <3>3, <3>6, FrontFacts DEF CleanStep
    <3> QED
      BY <3>5, <3>6
  <2>3. T = Nat
    <3>1. T \subseteq Nat
      OBVIOUS
    <3> HIDE DEF T
    <3> QED
      BY <2>1, <2>2, <3>1, Inductive
  <2> QED
    BY <2>3
<1>5. ASSUME path \in Seq(Nat) PROVE d[Len(path)] = path
  <2> DEFINE T == {n \in Nat : n <= Len(path) => d[n] = Prefix(path, n)}
  <2>1. 0 \in T
    BY <1>2, <1>5, PrefixFacts
  <2>2. ASSUME NEW n \in T PROVE n + 1 \in T
    <3> SUFFICES ASSUME n + 1 <= Len(path) PROVE d[n + 1] = Prefix(path, n + 1)
      BY <2>2
    <3>1. d[n] = Prefix(path, n)
      BY <2>2
    <3>2. n + 1 \in 1 .. Len(path) /\ (n + 1) - 1 = n
      BY <2>2
    <3>3. d[n + 1] = CleanStep(d[n], path[n + 1])
      BY <1>3, <3>2
    <3>4. path[n + 1] # Up
      BY <3>2, <1>5, DirectoryAssumption
    <3>5. d[n + 1] = Append(Prefix(path, n), path[n + 1])
      BY <3>1, <3>3, <3>4 DEF CleanStep
    <3> QED
      BY <3>2, <3>5, PrefixGrows
  <2>3. T = Nat
    <3>1. T \subseteq Nat
      OBVIOUS
    <3> HIDE DEF T
    <3> QED
      BY <2>1, <2>2, <3>1, Inductive
  <2>4. Len(path) \in T
    BY <2>3
  <2>5. d[Len(path)] = Prefix(path, Len(path))
    BY <2>4
  <2> QED
    BY <2>5, PrefixFacts
<1> QED
  BY <1>1, <1>4, <1>5

-----------------------------------------------------------------------------
(* Types.                                                                  *)

Following == [current : Seq(Nat), visited : SUBSET Seq(Nat), hops : Nat, at : Int]
Listing == [dir : Seq(Nat), pending : SUBSET Nat, children : SUBSET Nat]
Verdict == {"Failed", "Dangling", "Loop", "DirectoryLink", "TooBig", "scanned"}
Given == [path : Seq(Nat), is : Verdict, target : Seq(Nat)]

TreeTypes ==
  /\ DOMAIN tree \subseteq Seq(Nat)
  /\ \A path \in DOMAIN tree : IsNode(tree[path])

LinkTypes ==
  /\ link \in Following
  /\ doing = "readLink" => link.at \in 1 .. Len(link.current)

Types ==
  /\ options \in Options
  /\ TreeTypes
  /\ here \in Seq(Nat)
  /\ LinkTypes
  /\ stack \in Seq(Listing)
  /\ answers \in Seq(Given)

\* The call in progress is about one path, or about the entries of a directory.
OnPath == {"walk", "hop", "readLink", "target", "open", "scan", "readDir"}

PlaceInv ==
  /\ doing \in OnPath \cup {"list", "children", "return", "done"}
  /\ doing \in {"list", "children"} => stack # <<>>
  /\ doing = "list" => here = Last(stack).dir
  /\ doing = "done" => stack = <<>>

ControlInv ==
  /\ control # "Continue" => doing \in {"return", "done"}
  /\ control = "Cancelled" => token

\* What is known of the first link in a path.
LEMMA FirstLinkFacts ==
  \A path \in Seq(Nat) :
    /\ FirstLink(path) \in -1 .. Len(path)
    /\ FirstLink(path) > 0 =>
         /\ IsA(Prefix(path, FirstLink(path)), "link")
         /\ \A i \in 0 .. FirstLink(path) - 1 : IsA(Prefix(path, i), "dir")
    /\ FirstLink(path) = 0 =>
         /\ \A i \in 0 .. Len(path) - 1 : IsA(Prefix(path, i), "dir")
         /\ Node(path) # Absent
<1> TAKE path \in Seq(Nat)
<1> DEFINE Dirs(n) == \A i \in 0 .. n - 1 : IsA(Prefix(path, i), "dir")
           Links == {n \in 1 .. Len(path) : Dirs(n) /\ IsA(Prefix(path, n), "link")}
<1>1. FirstLink(path) = IF Links # {} THEN CHOOSE n \in Links : TRUE
                        ELSE IF Dirs(Len(path)) /\ Node(path) # Absent THEN 0 ELSE -1
  BY DEF FirstLink
<1>2. CASE Links # {}
  <2>1. FirstLink(path) \in Links
    BY <1>1, <1>2
  <2> QED
    BY <2>1
<1>3. CASE Links = {}
  BY <1>1, <1>3
<1> QED
  BY <1>2, <1>3

\* It is -1 only when a component is missing or is neither a directory nor a link.
LEMMA DeadFacts ==
  ASSUME NEW path \in Seq(Nat), Node(path) # Absent,
         \A i \in 0 .. Len(path) - 1 : IsA(Prefix(path, i), "dir")
  PROVE  FirstLink(path) # -1
<1> DEFINE Dirs(n) == \A i \in 0 .. n - 1 : IsA(Prefix(path, i), "dir")
           Links == {n \in 1 .. Len(path) : Dirs(n) /\ IsA(Prefix(path, n), "link")}
<1>1. FirstLink(path) = IF Links # {} THEN CHOOSE n \in Links : TRUE
                        ELSE IF Dirs(Len(path)) /\ Node(path) # Absent THEN 0 ELSE -1
  BY DEF FirstLink
<1>2. CASE Links # {}
  <2>1. FirstLink(path) \in Links
    BY <1>1, <1>2
  <2> QED
    BY <2>1
<1>3. CASE Links = {}
  BY <1>1, <1>3
<1> QED
  BY <1>2, <1>3

\* Where a link leads is a path of names.
LEMMA ThroughFacts ==
  ASSUME NEW path \in Seq(Nat), NEW n \in 1 .. Len(path),
         NEW node, IsNode(node), node # Absent, node.is = "link"
  PROVE  Through(path, n, node) \in Seq(Nat)
<1>1. node.target \in Seq(Nat \cup {Up})
  BY DEF IsNode
<1>2. Prefix(path, n - 1) \in Seq(Nat \cup {Up})
  <2>1. Prefix(path, n - 1) \in Seq(Nat)
    BY PrefixFacts
  <2> QED
    BY <2>1
<1>3. SubSeq(path, n + 1, Len(path)) \in Seq(Nat \cup {Up})
  OBVIOUS
<1>4. <<>> \in Seq(Nat \cup {Up})
  OBVIOUS
<1> DEFINE base == IF node.absolute THEN <<>> ELSE Prefix(path, n - 1)
           whole == base \o node.target \o SubSeq(path, n + 1, Len(path))
<1>5. base \in Seq(Nat \cup {Up})
  BY <1>2, <1>4
<1>6. Through(path, n, node) = Clean(whole)
  BY DEF Through
<1> HIDE DEF base
<1>7. whole \in Seq(Nat \cup {Up})
  BY <1>1, <1>3, <1>5
<1> HIDE DEF whole
<1> QED
  BY <1>6, <1>7, CleanFacts

\* What the file system says of a path is a node, or that there is none.
LEMMA NodeTypes ==
  ASSUME TreeTypes
  PROVE  /\ \A path : IsNode(Node(path))
         /\ \A path : IsNode(Lstat(path))
<1>1. IsNode(Absent) /\ IsNode([is |-> "dir"])
  BY DEF IsNode
<1>2. ASSUME NEW path PROVE IsNode(Node(path))
  BY <1>1 DEF TreeTypes, Node
<1>3. ASSUME NEW path PROVE IsNode(Lstat(path))
  BY <1>1, <1>2 DEF Lstat
<1> QED
  BY <1>2, <1>3

\* The directory on top of the stack.
LEMMA StackFacts ==
  ASSUME NEW S, NEW s \in Seq(S), s # <<>>
  PROVE  /\ Len(s) \in Nat /\ Len(s) > 0 /\ Last(s) = s[Len(s)]
         /\ Last(s) \in S
         /\ Front(s) \in Seq(S) /\ Len(Front(s)) = Len(s) - 1
         /\ \A i \in 1 .. Len(s) - 1 : Front(s)[i] = s[i]
<1>1. /\ Len(s) \in Nat /\ Len(s) > 0 /\ Last(s) = s[Len(s)]
      /\ Last(s) \in S
  BY DEF Last
<1>2. ASSUME NEW n, n = Len(s) - 1
      PROVE  /\ SubSeq(s, 1, n) \in Seq(S) /\ Len(SubSeq(s, 1, n)) = n
             /\ \A i \in 1 .. n : SubSeq(s, 1, n)[i] = s[i]
  <2>1. n \in Nat /\ n <= Len(s)
    BY <1>2
  <2> QED
    BY <2>1
<1>3. /\ Front(s) \in Seq(S) /\ Len(Front(s)) = Len(s) - 1
      /\ \A i \in 1 .. Len(s) - 1 : Front(s)[i] = s[i]
  BY <1>2, Zenon DEF Front
<1> QED
  BY <1>1, <1>3

LEMMA TopFacts ==
  ASSUME NEW s \in Seq(Listing), s # <<>>
  PROVE  /\ Len(s) \in Nat /\ Len(s) > 0 /\ Last(s) = s[Len(s)]
         /\ Last(s) \in Listing
         /\ Last(s).dir \in Seq(Nat) /\ Last(s).pending \in SUBSET Nat
         /\ Last(s).children \in SUBSET Nat
         /\ Front(s) \in Seq(Listing) /\ Len(Front(s)) = Len(s) - 1
         /\ \A i \in 1 .. Len(s) - 1 : Front(s)[i] = s[i]
<1>1. /\ Len(s) \in Nat /\ Len(s) > 0 /\ Last(s) = s[Len(s)]
      /\ Last(s) \in Listing
      /\ Front(s) \in Seq(Listing) /\ Len(Front(s)) = Len(s) - 1
      /\ \A i \in 1 .. Len(s) - 1 : Front(s)[i] = s[i]
  BY StackFacts
<1>2. \A l \in Listing :
        l.dir \in Seq(Nat) /\ l.pending \in SUBSET Nat /\ l.children \in SUBSET Nat
  BY DEF Listing
<1> QED
  BY <1>1, <1>2

LEMMA LastUpdated ==
  ASSUME NEW s \in Seq(Listing), s # <<>>, NEW top \in Listing
  PROVE  LET t == [s EXCEPT ![Len(s)] = top] IN
         /\ t \in Seq(Listing) /\ Len(t) = Len(s) /\ t # <<>>
         /\ Last(t) = top
         /\ \A i \in 1 .. Len(s) - 1 : t[i] = s[i]
BY DEF Last

\* What listing and walking do to it.
LEMMA FieldOfUpdated ==
  ASSUME NEW A, NEW B, NEW C, NEW l \in [dir : A, pending : B, children : C], NEW q
  PROVE  /\ [l EXCEPT !.pending = q] = [dir |-> l.dir, pending |-> q, children |-> l.children]
         /\ [l EXCEPT !.children = q] = [dir |-> l.dir, pending |-> l.pending, children |-> q]
OBVIOUS

LEMMA FieldsUpdated ==
  ASSUME NEW l \in Listing, NEW q, NEW e
  PROVE  /\ [l EXCEPT !.pending = q] = [dir |-> l.dir, pending |-> q, children |-> l.children]
         /\ [l EXCEPT !.children = q] = [dir |-> l.dir, pending |-> l.pending, children |-> q]
         /\ [l EXCEPT !.pending = q, !.children = e] =
              [dir |-> l.dir, pending |-> q, children |-> e]
<1>1. l \in [dir : Seq(Nat), pending : SUBSET Nat, children : SUBSET Nat]
  BY DEF Listing
<1>2. /\ [l EXCEPT !.pending = q] = [dir |-> l.dir, pending |-> q, children |-> l.children]
      /\ [l EXCEPT !.children = q] = [dir |-> l.dir, pending |-> l.pending, children |-> q]
  BY <1>1, FieldOfUpdated
<1>3. [l EXCEPT !.pending = q, !.children = e] =
        [dir |-> l.dir, pending |-> q, children |-> e]
  <2> DEFINE m == [dir |-> l.dir, pending |-> q, children |-> l.children]
  <2>1. m.dir = l.dir /\ m.pending = q
    OBVIOUS
  <2>2. m \in [dir : Seq(Nat), pending : {q}, children : SUBSET Nat]
    BY <1>1
  <2>3. [m EXCEPT !.children = e] = [dir |-> m.dir, pending |-> m.pending, children |-> e]
    <3> HIDE DEF m
    <3> QED
      BY <2>2, FieldOfUpdated
  <2> QED
    BY <1>2, <2>1, <2>3
<1> QED
  BY <1>2, <1>3

LEMMA TopUpdated ==
  ASSUME NEW S, NEW s \in Seq(S), s # <<>>, NEW name
  PROVE  /\ [s EXCEPT ![Len(s)].pending = @ \ {name}] =
              [s EXCEPT ![Len(s)] = [Last(s) EXCEPT !.pending = @ \ {name}]]
         /\ [s EXCEPT ![Len(s)].children = @ \ {name}] =
              [s EXCEPT ![Len(s)] = [Last(s) EXCEPT !.children = @ \ {name}]]
         /\ [s EXCEPT ![Len(s)].pending = @ \ {name}, ![Len(s)].children = @ \cup {name}] =
              [s EXCEPT ![Len(s)] = [Last(s) EXCEPT !.pending = @ \ {name},
                                                    !.children = @ \cup {name}]]
BY DEF Last

\* A stack with other entries on its top.
TopIs(t, s, unread, children) ==
  /\ t \in Seq(Listing) /\ t # <<>> /\ Len(t) = Len(s)
  /\ Last(t).dir = Last(s).dir
  /\ Last(t).pending = unread
  /\ Last(t).children = children
  /\ \A i \in 1 .. Len(s) - 1 : t[i] = s[i]

LEMMA TopReplaced ==
  ASSUME NEW s \in Seq(Listing), s # <<>>,
         NEW unread \in SUBSET Nat, NEW children \in SUBSET Nat, NEW top,
         top = [dir |-> Last(s).dir, pending |-> unread, children |-> children]
  PROVE  TopIs([s EXCEPT ![Len(s)] = top], s, unread, children)
<1>1. /\ top \in Listing
      /\ top.dir = Last(s).dir /\ top.pending = unread /\ top.children = children
  BY TopFacts DEF Listing
<1> DEFINE t == [s EXCEPT ![Len(s)] = top]
<1>2. /\ t \in Seq(Listing) /\ Len(t) = Len(s) /\ t # <<>>
      /\ Last(t) = top
      /\ \A i \in 1 .. Len(s) - 1 : t[i] = s[i]
  BY <1>1, LastUpdated
<1> HIDE DEF t
<1>3. TopIs(t, s, unread, children)
  BY <1>1, <1>2 DEF TopIs
<1> QED
  BY <1>3 DEF t

\* An entry is taken off the list, with or without becoming a child, or a child is walked.
LEMMA EntryTaken ==
  ASSUME NEW s \in Seq(Listing), s # <<>>, NEW name \in Nat
  PROVE  /\ TopIs([s EXCEPT ![Len(s)].pending = @ \ {name}],
                  s, Last(s).pending \ {name}, Last(s).children)
         /\ TopIs([s EXCEPT ![Len(s)].children = @ \ {name}],
                  s, Last(s).pending, Last(s).children \ {name})
         /\ TopIs([s EXCEPT ![Len(s)].pending = @ \ {name}, ![Len(s)].children = @ \cup {name}],
                  s, Last(s).pending \ {name}, Last(s).children \cup {name})
<1>1. /\ Last(s).pending \in SUBSET Nat /\ Last(s).children \in SUBSET Nat
      /\ Last(s) \in Listing
  BY TopFacts
<1>2. TopIs([s EXCEPT ![Len(s)].pending = @ \ {name}],
            s, Last(s).pending \ {name}, Last(s).children)
  <2>1. [Last(s) EXCEPT !.pending = @ \ {name}] =
          [dir |-> Last(s).dir, pending |-> Last(s).pending \ {name},
           children |-> Last(s).children]
    BY <1>1, FieldsUpdated
  <2>2. TopIs([s EXCEPT ![Len(s)] = [Last(s) EXCEPT !.pending = @ \ {name}]],
              s, Last(s).pending \ {name}, Last(s).children)
    BY <1>1, <2>1, TopReplaced
  <2> QED
    BY <2>2, TopUpdated
<1>3. TopIs([s EXCEPT ![Len(s)].children = @ \ {name}],
            s, Last(s).pending, Last(s).children \ {name})
  <2>1. [Last(s) EXCEPT !.children = @ \ {name}] =
          [dir |-> Last(s).dir, pending |-> Last(s).pending,
           children |-> Last(s).children \ {name}]
    BY <1>1, FieldsUpdated
  <2>2. TopIs([s EXCEPT ![Len(s)] = [Last(s) EXCEPT !.children = @ \ {name}]],
              s, Last(s).pending, Last(s).children \ {name})
    BY <1>1, <2>1, TopReplaced
  <2> QED
    BY <2>2, TopUpdated
<1>4. TopIs([s EXCEPT ![Len(s)].pending = @ \ {name}, ![Len(s)].children = @ \cup {name}],
            s, Last(s).pending \ {name}, Last(s).children \cup {name})
  <2>1. [Last(s) EXCEPT !.pending = @ \ {name}, !.children = @ \cup {name}] =
          [dir |-> Last(s).dir, pending |-> Last(s).pending \ {name},
           children |-> Last(s).children \cup {name}]
    BY <1>1, FieldsUpdated
  <2>2. TopIs([s EXCEPT ![Len(s)] = [Last(s) EXCEPT !.pending = @ \ {name},
                                                    !.children = @ \cup {name}]],
              s, Last(s).pending \ {name}, Last(s).children \cup {name})
    BY <1>1, <2>1, TopReplaced
  <2> QED
    BY <2>2, TopUpdated
<1> QED
  BY <1>2, <1>3, <1>4

-----------------------------------------------------------------------------
(* Steps about one path.                                                   *)

PathStep ==
  /\ doing \in OnPath /\ doing' \in OnPath \cup {"return"}
  /\ UNCHANGED <<options, worldVars, here, stack>>
  /\ \/ answers' = answers
     \/ doing' = "return" /\ \E is \in Verdict, target \in Seq(Nat) : Answer(is, target)
  /\ \/ control' = control
     \/ doing' = "return" /\ control' \in {"Continue", "Stop", "Callback"}
  /\ LinkTypes'

\* A call that reports goes back to its caller.
LEMMA Reporting ==
  ASSUME Types, NEW issue \in Verdict, Report(issue)
  PROVE  /\ doing' = "return" /\ control' \in {"Continue", "Stop", "Callback"}
         /\ \E is \in Verdict, target \in Seq(Nat) : Answer(is, target)
BY DEF Types, Report, Return

\* What metadata says about a path may lead on.
LEMMA WalkingOn ==
  ASSUME Types, NEW node, WalkOn(node)
  PROVE  /\ doing' \in {"return", "readDir", "hop", "open"}
         /\ \/ answers' = answers
            \/ doing' = "return" /\ \E is \in Verdict, target \in Seq(Nat) : Answer(is, target)
         /\ \/ control' = control
            \/ doing' = "return" /\ control' \in {"Continue", "Stop", "Callback"}
<1>1. \/ Report("TooBig")
      \/ Quietly /\ (Return("Continue") \/ Do("readDir") \/ Do("hop") \/ Do("open"))
  BY Zenon DEF WalkOn
<1>2. CASE Report("TooBig")
  <2>1. "TooBig" \in Verdict
    BY DEF Verdict
  <2> QED
    BY <1>2, <2>1, Reporting
<1>3. CASE Quietly /\ (Return("Continue") \/ Do("readDir") \/ Do("hop") \/ Do("open"))
  BY <1>3 DEF Quietly, Return, Do
<1> QED
  BY <1>1, <1>2, <1>3

\* What a round of resolve_symlink does to the link.
LEMMA RoundOf ==
  ASSUME NEW A, NEW B, NEW C, NEW D,
         NEW l \in [current : A, visited : B, hops : C, at : D],
         NEW visited \in B, NEW at \in D
  PROVE  /\ LET m == [l EXCEPT !.visited = visited] IN
            /\ m \in [current : A, visited : B, hops : C, at : D]
            /\ m.current = l.current /\ m.visited = visited /\ m.hops = l.hops
         /\ LET m == [l EXCEPT !.at = at] IN
            /\ m \in [current : A, visited : B, hops : C, at : D]
            /\ m.current = l.current /\ m.visited = l.visited /\ m.hops = l.hops /\ m.at = at
OBVIOUS

LEMMA RoundEndOf ==
  ASSUME NEW A, NEW B, NEW C, NEW D,
         NEW l \in [current : A, visited : B, hops : C, at : D],
         NEW current \in A, NEW hops \in C
  PROVE  LET m == [l EXCEPT !.current = current, !.hops = hops] IN
         /\ m \in [current : A, visited : B, hops : C, at : D]
         /\ m.current = current /\ m.visited = l.visited /\ m.hops = hops /\ m.at = l.at
OBVIOUS

LEMMA FollowingFacts ==
  ASSUME NEW l \in Following
  PROVE  /\ l.current \in Seq(Nat) /\ l.visited \in SUBSET Seq(Nat)
         /\ l.hops \in Nat /\ l.at \in Int
BY DEF Following

LEMMA LinkVisits ==
  ASSUME NEW l \in Following, NEW v \in SUBSET Seq(Nat), NEW n \in Int
  PROVE  /\ LET m == [l EXCEPT !.visited = v] IN
            m \in Following /\ m.current = l.current /\ m.visited = v /\ m.hops = l.hops
         /\ LET m == [l EXCEPT !.at = n] IN
            /\ m \in Following /\ m.current = l.current
            /\ m.visited = l.visited /\ m.hops = l.hops /\ m.at = n
BY RoundOf DEF Following

LEMMA LinkHops ==
  ASSUME NEW l \in Following, NEW current \in Seq(Nat), NEW hops \in Nat
  PROVE  /\ LET m == [l EXCEPT !.current = current] IN
            m \in Following /\ m.current = current /\ m.visited = l.visited /\ m.hops = l.hops
         /\ LET m == [l EXCEPT !.hops = hops] IN
            m \in Following /\ m.current = l.current /\ m.visited = l.visited /\ m.hops = hops
BY DEF Following

LEMMA ReadHops ==
  ASSUME link \in Following, NEW current \in Seq(Nat), NEW hops \in Nat,
         link' = [link EXCEPT !.current = current, !.hops = hops]
  PROVE  /\ link' \in Following
         /\ link'.current = current /\ link'.hops = hops /\ link'.visited = link.visited
<1> DEFINE l == [link EXCEPT !.current = current]
<1>1. link' = [l EXCEPT !.hops = hops]
  OBVIOUS
<1>2. l \in Following /\ l.current = current /\ l.visited = link.visited
  BY LinkHops
<1> QED
  <2> HIDE DEF l
  <2>1. link' \in Following /\ link'.current = l.current /\ link'.visited = l.visited /\ link'.hops = hops
    BY ONLY <1>1, <1>2, hops \in Nat, LinkHops
  <2> QED
    BY ONLY <1>2, <2>1

LEMMA HopVisits ==
  ASSUME link \in Following,
         FirstLink(link.current) # 0, FirstLink(link.current) # -1,
         link' = [link EXCEPT !.visited = @ \cup {link.current},
                              !.at = FirstLink(link.current)]
  PROVE  /\ link' \in Following
         /\ link'.current = link.current /\ link'.hops = link.hops
         /\ link'.visited = link.visited \cup {link.current}
         /\ link'.at = FirstLink(link.current)
         /\ FirstLink(link.current) \in 1 .. Len(link.current)
         /\ FirstLink(link.current) > 0
<1>1. link.current \in Seq(Nat) /\ link.visited \in SUBSET Seq(Nat)
  BY FollowingFacts
<1>2. FirstLink(link.current) \in 1 .. Len(link.current)
  BY <1>1, FirstLinkFacts
<1> DEFINE at == FirstLink(link.current)
           visited == link.visited \cup {link.current}
           l == [link EXCEPT !.visited = visited]
<1>3. link' = [l EXCEPT !.at = at]
  OBVIOUS
<1>4. at \in Int /\ at > 0 /\ visited \in SUBSET Seq(Nat)
  BY <1>1, <1>2
<1>5. /\ l \in Following /\ l.current = link.current /\ l.visited = visited
      /\ l.hops = link.hops
  <2> HIDE DEF at, visited
  <2> QED
    BY <1>4, LinkVisits
<1>6. /\ link' \in Following /\ link'.current = l.current /\ link'.visited = l.visited
      /\ link'.hops = l.hops /\ link'.at = at
  <2> HIDE DEF at, visited, l
  <2> QED
    BY ONLY <1>3, <1>4, <1>5, LinkVisits
<1> QED
  BY <1>2, <1>4, <1>5, <1>6

LEMMA PathSteps ==
  ASSUME Types, Walk \/ Files \/ ReadDirFails
  PROVE  PathStep
<1> USE DEF OnPath
<1>1. link \in Following
  BY DEF Types, LinkTypes
<1>2. /\ link.current \in Seq(Nat) /\ link.visited \in SUBSET Seq(Nat)
      /\ link.hops \in Nat /\ link.at \in Int
  BY <1>1, FollowingFacts
<1>3. /\ "Failed" \in Verdict /\ "Loop" \in Verdict /\ "Dangling" \in Verdict
      /\ "DirectoryLink" \in Verdict /\ "scanned" \in Verdict
  BY DEF Verdict
<1>4. ASSUME UNCHANGED link, doing' # "readLink"
      PROVE  LinkTypes'
  BY <1>1, <1>4 DEF LinkTypes
<1>5. CASE Metadata
  <2>1. /\ doing = "walk"
        /\ UNCHANGED <<options, worldVars, here, stack>>
        /\ link' = [NoLink EXCEPT !.current = Clean(here)]
        /\ WalkOn(Lstat(here))
    BY <1>5 DEF Metadata
  <2>2. Clean(here) \in Seq(Nat)
    <3>1. here \in Seq(Nat \cup {Up})
      BY DEF Types
    <3> QED
      BY <3>1, CleanFacts
  <2>3. link' \in Following
    <3>2. link' = [current |-> Clean(here), visited |-> {}, hops |-> 0, at |-> 0]
      BY <2>1 DEF NoLink
    <3> QED
      BY <2>2, <3>2 DEF Following
  <2>4. /\ doing' \in {"return", "readDir", "hop", "open"}
        /\ \/ answers' = answers
           \/ doing' = "return" /\ \E is \in Verdict, target \in Seq(Nat) : Answer(is, target)
        /\ \/ control' = control
           \/ doing' = "return" /\ control' \in {"Continue", "Stop", "Callback"}
    BY <2>1, WalkingOn
  <2>5. LinkTypes'
    BY <2>3, <2>4 DEF LinkTypes
  <2> QED
    BY <2>1, <2>4, <2>5 DEF PathStep
<1>6. CASE MetadataFails
  <2>1. /\ doing = "walk" /\ Report("Failed")
        /\ UNCHANGED <<options, worldVars, here, link, stack>>
    BY <1>6 DEF MetadataFails
  <2> QED
    BY <1>3, <1>4, <2>1, Reporting DEF PathStep
<1>7. CASE Hop
  <2>1. doing = "hop" /\ HopFrom /\ UNCHANGED <<options, worldVars, here, stack>>
    BY <1>7 DEF Hop
  <2>2. CASE UNCHANGED link /\ (Report("Loop") \/ Report("Dangling"))
    BY <1>3, <1>4, <2>1, <2>2, Reporting DEF PathStep
  <2>3. CASE Do("target") /\ Quietly /\ UNCHANGED link
    BY <1>4, <2>1, <2>3 DEF PathStep, Do, Quietly
  <2>4. CASE /\ Do("readLink") /\ Quietly
             /\ FirstLink(link.current) # -1 /\ FirstLink(link.current) # 0
             /\ link' = [link EXCEPT !.visited = @ \cup {link.current},
                                     !.at = FirstLink(link.current)]
    <3>2. /\ link'.current = link.current
          /\ link'.at = FirstLink(link.current)
          /\ link' \in Following
          /\ FirstLink(link.current) \in 1 .. Len(link.current)
      BY <1>1, <2>4, HopVisits
    <3>3. LinkTypes'
      BY <3>2 DEF LinkTypes
    <3> QED
      BY <2>1, <2>4, <3>3 DEF PathStep, Do, Quietly
  <2> QED
    BY <2>1, <2>2, <2>3, <2>4 DEF HopFrom
<1>8. CASE ReadLink
  <2> DEFINE found == Lstat(Prefix(link.current, link.at))
  <2>1. /\ doing = "readLink" /\ UNCHANGED <<options, worldVars, here, stack>>
        /\ IF found # Absent /\ found.is = "link"
           THEN /\ Do("hop") /\ Quietly
                /\ link' = [link EXCEPT !.current = Through(@, link.at, found), !.hops = @ + 1]
           ELSE Report("Dangling") /\ UNCHANGED link
    BY <1>8 DEF ReadLink
  <2>2. IsNode(found)
    BY NodeTypes DEF Types
  <2> HIDE DEF found
  <2>3. CASE found # Absent /\ found.is = "link"
    <3>1. Through(link.current, link.at, found) \in Seq(Nat)
      BY <1>2, <2>1, <2>2, <2>3, ThroughFacts DEF Types, LinkTypes
    <3>4. link.hops + 1 \in Nat
      BY <1>2
    <3>2. link' \in Following
      <4> DEFINE current == Through(link.current, link.at, found)
                 hops == link.hops + 1
      <4>1. link' = [link EXCEPT !.current = current, !.hops = hops]
        BY <2>1, <2>3
      <4> HIDE DEF current, hops
      <4>2. current \in Seq(Nat) /\ hops \in Nat
        BY <3>1, <3>4 DEF current, hops
      <4> QED
        BY <1>1, <4>1, <4>2, ReadHops
    <3>3. LinkTypes'
      BY <2>1, <2>3, <3>2 DEF LinkTypes, Do
    <3> QED
      BY <2>1, <2>3, <3>3 DEF PathStep, Do, Quietly
  <2>4. CASE ~(found # Absent /\ found.is = "link")
    BY <1>3, <1>4, <2>1, <2>4, Reporting DEF PathStep
  <2> QED
    BY <2>3, <2>4
<1>9. CASE Target
  <2>1. doing = "target" /\ UNCHANGED <<options, worldVars, here, link, stack>>
    BY <1>9 DEF Target
  <2>2. CASE Report("Dangling") \/ Report("DirectoryLink")
    BY <1>3, <1>4, <2>1, <2>2, Reporting DEF PathStep
  <2>3. CASE Quietly /\ (Return("Continue") \/ Do("open"))
    BY <1>4, <2>1, <2>3 DEF PathStep, Quietly, Return, Do
  <2> QED
    BY <1>9, <2>2, <2>3 DEF Target
<1>10. CASE OpenFails \/ Scan
  <2>1. /\ doing \in {"open", "scan"}
        /\ UNCHANGED <<options, worldVars, here, link, stack>>
        /\ Answer("Failed", link.current) \/ Answer("scanned", link.current)
        /\ doing' = "return" /\ control' \in {"Continue", "Stop", "Callback"}
    BY <1>10 DEF OpenFails, Scan, Return
  <2> QED
    BY <1>2, <1>3, <1>4, <2>1 DEF PathStep
<1>11. CASE OpenFile
  BY <1>4, <1>11 DEF OpenFile, PathStep, Do
<1>12. CASE ReadDirFails
  <2>1. /\ doing = "readDir" /\ Report("Failed")
        /\ UNCHANGED <<options, worldVars, here, link, stack>>
    BY <1>12 DEF ReadDirFails
  <2> QED
    BY <1>3, <1>4, <2>1, Reporting DEF PathStep
<1> QED
  BY <1>5, <1>6, <1>7, <1>8, <1>9, <1>10, <1>11, <1>12 DEF Walk, Files

-----------------------------------------------------------------------------
(* Types and places.                                                       *)

WalkInv == Types /\ PlaceInv /\ ControlInv

LEMMA Initially ==
  Init => WalkInv
<1> SUFFICES ASSUME Init PROVE WalkInv
  OBVIOUS
<1> USE DEF Init
<1>1. /\ Root \in DOMAIN tree /\ DOMAIN tree \subseteq Seq(Nat)
      /\ \A path \in DOMAIN tree : IsNode(tree[path])
  BY TreeAssumption
<1>2. NoLink \in Following
  BY DEF NoLink, Following
<1>3. Types
  BY <1>1, <1>2 DEF Types, TreeTypes, LinkTypes
<1> QED
  BY <1>3 DEF WalkInv, PlaceInv, ControlInv, OnPath

\* What another program puts in the place of a node is a node.
LEMMA ChangeTypes ==
  ASSUME TreeTypes, Change
  PROVE  TreeTypes'
<1>1. PICK c \in Changes : c.path \in DOMAIN tree /\ tree' = [tree EXCEPT ![c.path] = c.node]
  BY DEF Change
<1>2. IsNode(c.node)
  BY TreeAssumption
<1>3. DOMAIN tree' = DOMAIN tree /\ \A path \in DOMAIN tree : tree'[path] \in {tree[path], c.node}
  BY <1>1
<1> QED
  BY <1>2, <1>3 DEF TreeTypes

\* An answer about the path of this step.
LEMMA AnswerTypes ==
  ASSUME answers \in Seq(Given), here \in Seq(Nat),
         NEW is \in Verdict, NEW target \in Seq(Nat), Answer(is, target)
  PROVE  /\ answers' \in Seq(Given) /\ answers' # <<>> /\ answers' # answers
         /\ Last(answers') = [path |-> here, is |-> is, target |-> target]
         /\ Last(answers').path = here
<1> DEFINE a == [path |-> here, is |-> is, target |-> target]
<1>1. a \in Given /\ a.path = here
  BY DEF Given
<1>2. answers' = Append(answers, a)
  BY DEF Answer
<1> HIDE DEF a
<1>3. answers' \in Seq(Given) /\ Len(answers') = Len(answers) + 1 /\ answers'[Len(answers')] = a
  BY <1>1, <1>2
<1>4. answers' # <<>> /\ answers' # answers /\ Last(answers') = a
  BY <1>3 DEF Last
<1> QED
  BY <1>1, <1>3, <1>4 DEF a

LEMMA PathTypes ==
  ASSUME WalkInv, PathStep
  PROVE  WalkInv'
<1>1. answers' \in Seq(Given)
  BY AnswerTypes DEF WalkInv, Types, PathStep
<1>2. Types'
  BY <1>1 DEF WalkInv, Types, PathStep, worldVars, TreeTypes
<1>3. PlaceInv'
  BY DEF WalkInv, PlaceInv, PathStep, OnPath
<1>4. ControlInv'
  BY DEF WalkInv, ControlInv, PathStep, OnPath, worldVars
<1> QED
  BY <1>2, <1>3, <1>4 DEF WalkInv

\* The file system names the entries of a directory by numbers.
LEMMA NamesTypes ==
  ASSUME TreeTypes
  PROVE  \A path : NamesIn(path) \in SUBSET Nat
<1>1. ASSUME NEW q \in Seq(Nat), q # <<>> PROVE Last(q) \in Nat
  BY <1>1, FrontFacts
<1> QED
  BY <1>1 DEF NamesIn, TreeTypes

\* An entry of the directory on top is taken off the list, or a child of it is walked.
LEMMA EntrySteps ==
  ASSUME Types, stack # <<>>,
         NEW name, name \in Last(stack).pending \cup Last(stack).children,
         NEW unread, NEW children,
         \/ /\ stack' = [stack EXCEPT ![Len(stack)].pending = @ \ {name}]
            /\ unread = Last(stack).pending \ {name} /\ children = Last(stack).children
         \/ /\ stack' = [stack EXCEPT ![Len(stack)].children = @ \ {name}]
            /\ unread = Last(stack).pending /\ children = Last(stack).children \ {name}
         \/ /\ stack' = [stack EXCEPT ![Len(stack)].pending = @ \ {name},
                                      ![Len(stack)].children = @ \cup {name}]
            /\ unread = Last(stack).pending \ {name}
            /\ children = Last(stack).children \cup {name}
  PROVE  name \in Nat /\ TopIs(stack', stack, unread, children)
<1>1. stack \in Seq(Listing)
  BY DEF Types
<1>2. name \in Nat
  BY <1>1, TopFacts
<1> QED
  BY <1>1, <1>2, EntryTaken

LEMMA StackTypes ==
  ASSUME WalkInv, UNCHANGED <<options, tree, token, answers>>, link' = link,
         doing' # "readLink", here' \in Seq(Nat), stack' \in Seq(Listing)
  PROVE  Types'
BY DEF WalkInv, Types, TreeTypes, LinkTypes

LEMMA DirectoryTypes ==
  ASSUME WalkInv, Directories
  PROVE  WalkInv'
<1> USE DEF WalkInv, OnPath
<1>1. /\ stack \in Seq(Listing) /\ here \in Seq(Nat) /\ answers \in Seq(Given)
      /\ TreeTypes /\ LinkTypes
  BY DEF Types
<1>2. "Failed" \in Verdict
  BY DEF Verdict
<1>3. CASE ReadDir
  <2>1. /\ doing = "readDir" /\ doing' = "list" /\ control' = control
        /\ stack' = Append(stack, [dir |-> here, pending |-> NamesIn(here), children |-> {}])
        /\ UNCHANGED <<options, worldVars, here, link, answers>>
    BY <1>3 DEF ReadDir, Do
  <2> DEFINE top == [dir |-> here, pending |-> NamesIn(here), children |-> {}]
  <2>2. top \in Listing /\ top.dir = here
    BY <1>1, NamesTypes DEF Listing
  <2>3. stack' \in Seq(Listing) /\ stack' # <<>> /\ Last(stack') = top
    <3> HIDE DEF top
    <3> QED
      BY <1>1, <2>1, <2>2, AppendFacts DEF top
  <2>4. Types'
    BY <1>1, <2>1, <2>3, StackTypes DEF worldVars
  <2>5. PlaceInv'
    BY <2>1, <2>2, <2>3 DEF PlaceInv
  <2>6. ControlInv'
    BY <2>1 DEF ControlInv, worldVars
  <2> QED
    BY <2>4, <2>5, <2>6
<1>4. CASE ReadDirFails
  BY <1>4, PathSteps, PathTypes
<1>5. CASE ListEntry
  <2>1. /\ doing = "list" /\ stack # <<>> /\ here = Last(stack).dir
        /\ UNCHANGED <<options, worldVars, doing, control, here, link, answers>>
    BY <1>5 DEF ListEntry, PlaceInv
  <2>2. PICK name \in Last(stack).pending :
          stack' = [stack EXCEPT ![Len(stack)].pending = @ \ {name},
                                 ![Len(stack)].children = @ \cup {name}]
    BY <1>5 DEF ListEntry
  <2>3. TopIs(stack', stack, Last(stack).pending \ {name}, Last(stack).children \cup {name})
    BY <2>1, <2>2, EntrySteps
  <2>4. stack' \in Seq(Listing) /\ stack' # <<>> /\ Last(stack').dir = Last(stack).dir
    BY <2>3 DEF TopIs
  <2> QED
    BY <1>1, <2>1, <2>4, StackTypes DEF PlaceInv, ControlInv, worldVars
<1>6. CASE EntryFails
  <2>1. /\ doing = "list" /\ stack # <<>> /\ here = Last(stack).dir
        /\ UNCHANGED <<options, worldVars, here, link>>
        /\ Answer("Failed", here)
    BY <1>6 DEF EntryFails, PlaceInv
  <2>2. answers' \in Seq(Given)
    BY <1>1, <1>2, <2>1, AnswerTypes
  <2>3. PICK name \in Last(stack).pending :
          \/ /\ stack' = [stack EXCEPT ![Len(stack)].pending = @ \ {name}]
             /\ UNCHANGED <<doing, control>>
          \/ /\ stack' = Front(stack)
             /\ doing' = "return" /\ control' \in {"Stop", "Callback"}
    BY <1>6 DEF EntryFails, Return
  <2>4. CASE /\ stack' = [stack EXCEPT ![Len(stack)].pending = @ \ {name}]
             /\ UNCHANGED <<doing, control>>
    <3>1. TopIs(stack', stack, Last(stack).pending \ {name}, Last(stack).children)
      BY <2>1, <2>4, EntrySteps
    <3>2. stack' \in Seq(Listing) /\ stack' # <<>> /\ Last(stack').dir = Last(stack).dir
      BY <3>1 DEF TopIs
    <3>3. Types'
      BY <1>1, <2>1, <2>2, <2>4, <3>2 DEF Types, TreeTypes, LinkTypes, worldVars
    <3> QED
      BY <2>1, <2>4, <3>2, <3>3 DEF PlaceInv, ControlInv, worldVars
  <2>5. CASE stack' = Front(stack) /\ doing' = "return" /\ control' \in {"Stop", "Callback"}
    <3>1. stack' \in Seq(Listing)
      BY <1>1, <2>1, <2>5, TopFacts
    <3>3. Types'
      BY <1>1, <2>1, <2>2, <2>5, <3>1 DEF Types, TreeTypes, LinkTypes, worldVars
    <3> QED
      BY <2>1, <2>5, <3>3 DEF PlaceInv, ControlInv, worldVars
  <2> QED
    BY <2>3, <2>4, <2>5
<1>7. CASE ReserveFails
  <2>1. /\ doing = "list" /\ stack # <<>> /\ stack' = Front(stack)
        /\ UNCHANGED <<options, worldVars, here, link>>
        /\ Report("Failed")
    BY <1>7 DEF ReserveFails, PlaceInv
  <2>2. /\ doing' = "return" /\ control' \in {"Continue", "Stop", "Callback"}
        /\ \E is \in Verdict, target \in Seq(Nat) : Answer(is, target)
    BY <1>2, <2>1, Reporting
  <2>3. answers' \in Seq(Given)
    BY <1>1, <2>2, AnswerTypes
  <2>4. stack' \in Seq(Listing)
    BY <1>1, <2>1, TopFacts
  <2>5. Types'
    BY <1>1, <2>1, <2>2, <2>3, <2>4 DEF Types, TreeTypes, LinkTypes, worldVars
  <2> QED
    BY <2>1, <2>2, <2>5 DEF PlaceInv, ControlInv, worldVars
<1>8. CASE ListEnds
  <2>1. /\ doing = "list" /\ doing' = "children" /\ control' = control
        /\ UNCHANGED <<options, worldVars, here, link, stack, answers>>
    BY <1>8 DEF ListEnds, Do
  <2>2. Types'
    BY <1>1, <2>1, StackTypes DEF worldVars
  <2> QED
    BY <2>1, <2>2 DEF PlaceInv, ControlInv, worldVars
<1>9. CASE NextChild
  <2>1. /\ doing = "children" /\ stack # <<>>
        /\ doing' = "walk" /\ control' = control
        /\ UNCHANGED <<options, worldVars, link, answers>>
    BY <1>9 DEF NextChild, PlaceInv, Do
  <2>2. PICK name \in Last(stack).children :
          /\ here' = Append(Last(stack).dir, name)
          /\ stack' = [stack EXCEPT ![Len(stack)].children = @ \ {name}]
    BY <1>9 DEF NextChild
  <2>3. /\ name \in Nat
        /\ TopIs(stack', stack, Last(stack).pending, Last(stack).children \ {name})
    BY <2>1, <2>2, EntrySteps
  <2>4. stack' \in Seq(Listing) /\ stack' # <<>>
    BY <2>3 DEF TopIs
  <2>5. here' \in Seq(Nat)
    BY <1>1, <2>1, <2>2, <2>3, TopFacts
  <2>6. Types'
    BY <1>1, <2>1, <2>4, <2>5, StackTypes DEF worldVars
  <2> QED
    BY <2>1, <2>4, <2>6 DEF PlaceInv, ControlInv, worldVars
<1>10. CASE ChildrenEnd
  <2>1. /\ doing = "children" /\ stack # <<>> /\ stack' = Front(stack)
        /\ doing' = "return" /\ control' = "Continue"
        /\ UNCHANGED <<options, worldVars, here, link, answers>>
    BY <1>10 DEF ChildrenEnd, PlaceInv, Return
  <2>2. stack' \in Seq(Listing)
    BY <1>1, <2>1, TopFacts
  <2>3. Types'
    BY <1>1, <2>1, <2>2, StackTypes DEF worldVars
  <2> QED
    BY <2>1, <2>3 DEF PlaceInv, ControlInv, worldVars
<1>11. CASE Resume
  <2>1. /\ doing = "return" /\ stack # <<>>
        /\ UNCHANGED <<options, worldVars, here, link, answers>>
        /\ control' = control
        /\ \/ doing' = "children" /\ stack' = stack /\ control = "Continue"
           \/ doing' = doing /\ stack' = Front(stack)
    BY <1>11 DEF Resume, Do
  <2>2. stack' \in Seq(Listing)
    BY <1>1, <2>1, TopFacts
  <2>3. Types'
    BY <1>1, <2>1, <2>2, StackTypes DEF worldVars
  <2> QED
    BY <2>1, <2>3 DEF PlaceInv, ControlInv, worldVars
<1> QED
  BY <1>3, <1>4, <1>5, <1>6, <1>7, <1>8, <1>9, <1>10, <1>11 DEF Directories

LEMMA Stepping ==
  WalkInv /\ [Next]_vars => WalkInv'
<1> SUFFICES ASSUME WalkInv, [Next]_vars PROVE WalkInv'
  OBVIOUS
<1> USE DEF WalkInv, OnPath
<1>1. /\ stack \in Seq(Listing) /\ here \in Seq(Nat) /\ answers \in Seq(Given)
      /\ TreeTypes /\ LinkTypes
  BY DEF Types
<1>2. CASE UNCHANGED vars \/ Done
  BY <1>2 DEF Done, vars, worldVars, Types, TreeTypes, LinkTypes, PlaceInv, ControlInv
<1>3. CASE Change
  <2>1. /\ TreeTypes'
        /\ UNCHANGED <<options, token, doing, control, here, link, stack, answers>>
    BY <1>1, <1>3, ChangeTypes DEF Change
  <2> QED
    BY <2>1 DEF Types, LinkTypes, PlaceInv, ControlInv
<1>4. CASE Cancel
  BY <1>4 DEF Cancel, Types, TreeTypes, LinkTypes, PlaceInv, ControlInv
<1>5. CASE IsCancelled
  <2>1. /\ token /\ doing' = "return" /\ control' = "Cancelled"
        /\ doing \in {"walk", "scan", "list"}
        /\ stack' = IF doing = "list" THEN Front(stack) ELSE stack
        /\ UNCHANGED <<options, worldVars, here, link, answers>>
    BY <1>5 DEF IsCancelled, Return
  <2>2. stack' \in Seq(Listing)
    BY <1>1, <2>1, TopFacts DEF PlaceInv
  <2>3. Types'
    BY <1>1, <2>1, <2>2, StackTypes DEF worldVars
  <2> QED
    BY <2>1, <2>3 DEF PlaceInv, ControlInv, worldVars
<1>6. CASE Walk \/ Files
  BY <1>6, PathSteps, PathTypes
<1>7. CASE Directories
  BY <1>7, DirectoryTypes
<1>8. CASE VisitReturns
  BY <1>8 DEF VisitReturns, Do, worldVars, Types, TreeTypes, LinkTypes, PlaceInv, ControlInv
<1> QED
  BY <1>2, <1>3, <1>4, <1>5, <1>6, <1>7, <1>8 DEF Next

-----------------------------------------------------------------------------
(* The lexical order.                                                      *)

\* Two paths part at a name, and the first goes on with the smaller one.
Branches(p, q) ==
  \E n \in 1 .. Len(p) :
    n <= Len(q) /\ Prefix(p, n - 1) = Prefix(q, n - 1) /\ p[n] < q[n]

\* Prefixes of both do not change that.
LEMMA BranchesGrow ==
  ASSUME NEW p \in Seq(Nat), NEW q \in Seq(Nat), NEW a \in Nat, Branches(p, q)
  PROVE  Branches(Append(p, a), q) /\ Branches(p, Append(q, a))
<1>1. PICK n \in 1 .. Len(p) :
        n <= Len(q) /\ Prefix(p, n - 1) = Prefix(q, n - 1) /\ p[n] < q[n]
  BY DEF Branches
<1>2. /\ Len(Append(p, a)) = Len(p) + 1 /\ Len(Append(q, a)) = Len(q) + 1
      /\ Append(p, a)[n] = p[n] /\ Append(q, a)[n] = q[n]
  BY <1>1, AppendFacts
<1>3. n - 1 \in 0 .. Len(p) /\ n - 1 \in 0 .. Len(q)
  BY <1>1
<1>4. /\ Prefix(Append(p, a), n - 1) = Prefix(p, n - 1)
      /\ Prefix(Append(q, a), n - 1) = Prefix(q, n - 1)
  <2>1. /\ \A k \in 0 .. Len(p) : Prefix(Append(p, a), k) = Prefix(p, k)
        /\ \A k \in 0 .. Len(q) : Prefix(Append(q, a), k) = Prefix(q, k)
    BY AppendFacts, SMTT(30)
  <2> QED
    BY ONLY <1>3, <2>1
<1>5. n \in 1 .. Len(p) + 1 /\ n <= Len(q) + 1
  BY <1>1
<1>6. Branches(Append(p, a), q)
  BY <1>1, <1>2, <1>4, <1>5 DEF Branches
<1>7. Branches(p, Append(q, a))
  BY <1>1, <1>2, <1>4, <1>5 DEF Branches
<1> QED
  BY <1>6, <1>7

LEMMA SiblingsBranch ==
  ASSUME NEW p \in Seq(Nat), NEW a \in Nat, NEW b \in Nat, a < b
  PROVE  Branches(Append(p, a), Append(p, b))
<1> DEFINE n == Len(p) + 1
<1>1. n \in 1 .. Len(Append(p, a)) /\ n <= Len(Append(p, b))
  BY AppendFacts
<1>2. Append(p, a)[n] = a /\ Append(p, b)[n] = b
  BY AppendFacts
<1>3. Prefix(Append(p, a), n - 1) = p /\ Prefix(Append(p, b), n - 1) = p
  <2>1. n - 1 = Len(p)
    OBVIOUS
  <2>2. Prefix(Append(p, a), Len(p)) = p /\ Prefix(Append(p, b), Len(p)) = p
    BY AppendFacts, PrefixFacts
  <2> QED
    BY <2>1, <2>2
<1> QED
  BY <1>1, <1>2, <1>3 DEF Branches

\* Paths that part are in order; so is a path and what lies below it.
LEMMA PrecedesFacts ==
  ASSUME NEW p \in Seq(Nat), NEW q \in Seq(Nat)
  PROVE  /\ Branches(p, q) => Precedes(p, q)
         /\ \A a \in Nat : Precedes(p, Append(p, a))
         /\ \A a \in Nat : Precedes(p, q) => Precedes(p, Append(q, a))
<1>1. Branches(p, q) => Precedes(p, q)
  BY DEF Branches, Precedes
<1>2. ASSUME NEW a \in Nat PROVE Precedes(p, Append(p, a))
  <2>1. /\ Len(p) <= Len(Append(p, a)) /\ Prefix(Append(p, a), Len(p)) = p
        /\ p # Append(p, a)
    BY AppendFacts, PrefixFacts
  <2> QED
    BY <2>1 DEF Precedes, IsPrefixOf
<1>3. ASSUME NEW a \in Nat, Precedes(p, q) PROVE Precedes(p, Append(q, a))
  <2>0. Append(q, a) \in Seq(Nat) /\ Len(Append(q, a)) = Len(q) + 1
    BY AppendFacts
  <2>1. CASE IsPrefixOf(p, q)
    <3>1. Len(p) <= Len(q) /\ Prefix(q, Len(p)) = p
      BY <2>1 DEF IsPrefixOf
    <3>2. Prefix(Append(q, a), Len(p)) = p
      BY <3>1, AppendFacts
    <3>3. Len(p) <= Len(Append(q, a)) /\ p # Append(q, a)
      BY <2>0, <3>1
    <3> QED
      BY <3>2, <3>3 DEF Precedes, IsPrefixOf
  <2>2. CASE Branches(p, q)
    BY <2>2, BranchesGrow DEF Branches, Precedes
  <2> QED
    BY <1>3, <2>1, <2>2 DEF Precedes, Branches
<1> QED
  BY <1>1, <1>2, <1>3

\* The paths that are still to be walked lie after the directories that are being
\* listed or walked above them, after the path in progress and after every answer.
Coming(s, i) == {Append(s[i].dir, c) : c \in s[i].children}

OrderInv ==
  /\ \A i, j \in 1 .. Len(stack) : i < j =>
       \A q \in Coming(stack, i) : Branches(stack[j].dir, q)
  /\ doing \in OnPath =>
       \A i \in 1 .. Len(stack) : \A q \in Coming(stack, i) : Branches(here, q)
  /\ answers # <<>> =>
       \A i \in 1 .. Len(stack) : \A q \in Coming(stack, i) : Precedes(Last(answers).path, q)
  /\ answers # <<>> /\ doing \in OnPath => Precedes(Last(answers).path, here)
  /\ answers # <<>> /\ doing = "list" =>
       Precedes(Last(answers).path, here) \/ Last(answers).path = here

LEMMA ComingTypes ==
  ASSUME NEW s \in Seq(Listing), NEW i \in 1 .. Len(s)
  PROVE  /\ s[i].dir \in Seq(Nat) /\ s[i].children \in SUBSET Nat
         /\ \A q \in Coming(s, i) : q \in Seq(Nat)
<1>1. s[i] \in Listing
  OBVIOUS
<1>2. s[i].dir \in Seq(Nat) /\ s[i].children \in SUBSET Nat
  BY <1>1 DEF Listing
<1>3. \A c \in s[i].children : Append(s[i].dir, c) \in Seq(Nat)
  BY <1>2
<1> QED
  BY <1>2, <1>3 DEF Coming

\* The order is kept when nothing is added to what is still to come.
LEMMA OrderKept ==
  ASSUME OrderInv, stack' = stack, answers' = answers,
         doing' \in OnPath => doing \in OnPath /\ here' = here,
         doing' = "list" => doing = "list" /\ here' = here
  PROVE  OrderInv'
BY DEF OrderInv, OnPath

\* Taking the directory on top off the stack leaves less to come.
LEMMA OrderPopped ==
  ASSUME WalkInv, OrderInv, stack # <<>>, stack' = Front(stack), answers' = answers,
         doing' = "return"
  PROVE  OrderInv'
<1>1. stack \in Seq(Listing)
  BY DEF WalkInv, Types
<1>2. /\ Len(stack) \in Nat /\ Len(stack') = Len(stack) - 1
      /\ \A i \in 1 .. Len(stack) - 1 : stack'[i] = stack[i]
  BY <1>1, TopFacts
<1>3. \A i \in 1 .. Len(stack') :
        i \in 1 .. Len(stack) /\ stack'[i] = stack[i] /\ Coming(stack', i) = Coming(stack, i)
  BY <1>2 DEF Coming
<1> QED
  BY <1>3 DEF OrderInv, OnPath

\* The path in progress, or the directory being listed, lies before what is to come.
LEMMA HereIsBefore ==
  ASSUME WalkInv, OrderInv, doing \in OnPath \cup {"list"}
  PROVE  \A i \in 1 .. Len(stack) : \A q \in Coming(stack, i) : Precedes(here, q)
<1>1. stack \in Seq(Listing) /\ here \in Seq(Nat)
  BY DEF WalkInv, Types
<1> SUFFICES ASSUME NEW i \in 1 .. Len(stack), NEW q \in Coming(stack, i)
             PROVE  Precedes(here, q)
  OBVIOUS
<1>2. q \in Seq(Nat)
  BY <1>1, ComingTypes
<1>3. CASE Branches(here, q)
  BY <1>1, <1>2, <1>3, PrecedesFacts
<1>4. CASE doing \in OnPath
  BY <1>3, <1>4 DEF OrderInv
<1>5. CASE doing = "list"
  <2>1. stack # <<>> /\ here = Last(stack).dir
    BY <1>5 DEF WalkInv, PlaceInv
  <2>2. Len(stack) \in Nat /\ Len(stack) > 0 /\ here = stack[Len(stack)].dir
    BY <1>1, <2>1, TopFacts
  <2>3. CASE i < Len(stack)
    BY <1>3, <2>2, <2>3 DEF OrderInv
  <2>4. CASE i = Len(stack)
    <3>1. PICK c \in stack[i].children : q = Append(here, c)
      BY <2>2, <2>4 DEF Coming
    <3>2. c \in Nat
      BY <1>1, ComingTypes
    <3> QED
      BY <1>1, <3>1, <3>2, PrecedesFacts
  <2> QED
    BY <2>2, <2>3, <2>4
<1> QED
  BY <1>4, <1>5

\* A step about one path keeps the order: what it answers lies before what is to come.
LEMMA OrderPath ==
  ASSUME WalkInv, OrderInv, PathStep
  PROVE  OrderInv'
<1>1. CASE answers' = answers
  BY <1>1, OrderKept DEF PathStep, OnPath
<1>2. CASE doing' = "return" /\ \E is \in Verdict, target \in Seq(Nat) : Answer(is, target)
  <2>1. Last(answers').path = here
    BY <1>2, AnswerTypes DEF WalkInv, Types
  <2>2. \A i \in 1 .. Len(stack) : \A q \in Coming(stack, i) : Precedes(here, q)
    BY HereIsBefore DEF PathStep
  <2> QED
    BY <1>2, <2>1, <2>2 DEF OrderInv, PathStep, OnPath
<1> QED
  BY <1>1, <1>2 DEF PathStep

\* What is to come when the directory on top has other children.
LEMMA ComingUnder ==
  ASSUME NEW s \in Seq(Listing), s # <<>>, NEW t, NEW unread, NEW children,
         TopIs(t, s, unread, children)
  PROVE  /\ Len(t) = Len(s) /\ Len(s) \in Nat /\ Len(s) > 0
         /\ \A i \in 1 .. Len(s) : t[i].dir = s[i].dir
         /\ \A i \in 1 .. Len(s) - 1 : Coming(t, i) = Coming(s, i)
         /\ Coming(t, Len(s)) = {Append(Last(s).dir, c) : c \in children}
         /\ Coming(s, Len(s)) = {Append(Last(s).dir, c) : c \in Last(s).children}
<1>1. /\ Len(s) \in Nat /\ Len(s) > 0 /\ Last(s) = s[Len(s)]
  BY TopFacts
<1>2. /\ t \in Seq(Listing) /\ t # <<>> /\ Len(t) = Len(s)
      /\ Last(t).dir = Last(s).dir /\ Last(t).children = children
      /\ \A i \in 1 .. Len(s) - 1 : t[i] = s[i]
  BY DEF TopIs
<1>3. Last(t) = t[Len(s)]
  BY <1>2, TopFacts
<1>4. \A i \in 1 .. Len(s) - 1 : Coming(t, i) = Coming(s, i)
  BY <1>2 DEF Coming
<1>5. \A i \in 1 .. Len(s) : t[i].dir = s[i].dir
  <2> TAKE i \in 1 .. Len(s)
  <2>1. CASE i = Len(s)
    BY <1>1, <1>2, <1>3, <2>1
  <2>2. CASE i \in 1 .. Len(s) - 1
    BY <1>2, <2>2
  <2> QED
    BY <1>1, <2>1, <2>2
<1>6. Coming(t, Len(s)) = {Append(Last(s).dir, c) : c \in children}
  BY <1>2, <1>3 DEF Coming
<1>7. Coming(s, Len(s)) = {Append(Last(s).dir, c) : c \in Last(s).children}
  BY <1>1 DEF Coming
<1> QED
  BY <1>1, <1>2, <1>4, <1>5, <1>6, <1>7

\* With fewer children to come, or the one more that was listed, the order is kept.
LEMMA OrderListed ==
  ASSUME WalkInv, OrderInv, doing = "list", stack # <<>>,
         NEW unread, NEW children, TopIs(stack', stack, unread, children),
         children \in SUBSET Nat, here' = here, doing' = doing,
         \/ answers' = answers
         \/ answers' # <<>> /\ Last(answers').path = here
  PROVE  OrderInv'
<1>1. stack \in Seq(Listing) /\ here \in Seq(Nat) /\ here = Last(stack).dir
      /\ answers \in Seq(Given)
  BY DEF WalkInv, Types, PlaceInv
<1>2. /\ Len(stack') = Len(stack) /\ Len(stack) \in Nat /\ Len(stack) > 0
      /\ \A i \in 1 .. Len(stack) : stack'[i].dir = stack[i].dir
      /\ \A i \in 1 .. Len(stack) - 1 : Coming(stack', i) = Coming(stack, i)
      /\ Coming(stack', Len(stack)) = {Append(here, c) : c \in children}
  <2>1. /\ Len(stack') = Len(stack) /\ Len(stack) \in Nat /\ Len(stack) > 0
        /\ \A i \in 1 .. Len(stack) : stack'[i].dir = stack[i].dir
        /\ \A i \in 1 .. Len(stack) - 1 : Coming(stack', i) = Coming(stack, i)
        /\ Coming(stack', Len(stack)) = {Append(Last(stack).dir, c) : c \in children}
    BY <1>1, ComingUnder
  <2> QED
    BY <1>1, <2>1
<1>3. \A i, j \in 1 .. Len(stack') : i < j =>
        \A q \in Coming(stack', i) : Branches(stack'[j].dir, q)
  <2> SUFFICES ASSUME NEW i \in 1 .. Len(stack'), NEW j \in 1 .. Len(stack'), i < j,
                      NEW q \in Coming(stack', i)
               PROVE  Branches(stack'[j].dir, q)
    OBVIOUS
  <2>1. i \in 1 .. Len(stack) - 1 /\ i \in 1 .. Len(stack) /\ j \in 1 .. Len(stack)
    BY <1>2
  <2>2. q \in Coming(stack, i) /\ stack'[j].dir = stack[j].dir
    BY <1>2, <2>1
  <2> QED
    BY <2>1, <2>2 DEF OrderInv
<1>4. ASSUME NEW p \in Seq(Nat), p = here \/ Precedes(p, here),
             \A i \in 1 .. Len(stack) : \A q \in Coming(stack, i) : Precedes(p, q),
             NEW i \in 1 .. Len(stack'), NEW q \in Coming(stack', i)
      PROVE  Precedes(p, q)
  <2>1. CASE i \in 1 .. Len(stack) - 1
    BY <1>2, <1>4, <2>1
  <2>2. CASE i = Len(stack)
    <3>1. PICK c \in children : q = Append(here, c)
      BY <1>2, <2>2
    <3> QED
      BY <1>1, <1>4, <3>1, PrecedesFacts
  <2> QED
    BY <1>2, <2>1, <2>2
<1>5. CASE answers' = answers
  <2>1. answers # <<>> => Last(answers).path \in Seq(Nat)
    <3>1. answers # <<>> => Last(answers) \in Given
      BY <1>1, FrontFacts
    <3> QED
      BY <3>1 DEF Given
  <2>2. answers # <<>> =>
          \A i \in 1 .. Len(stack') : \A q \in Coming(stack', i) :
            Precedes(Last(answers).path, q)
    BY <1>4, <2>1 DEF OrderInv
  <2> QED
    BY <1>3, <1>5, <2>2 DEF OrderInv, OnPath
<1>6. CASE answers' # <<>> /\ Last(answers').path = here
  <2>1. \A i \in 1 .. Len(stack) : \A q \in Coming(stack, i) : Precedes(here, q)
    BY HereIsBefore
  <2>2. \A i \in 1 .. Len(stack') : \A q \in Coming(stack', i) : Precedes(here, q)
    BY <1>1, <1>4, <2>1
  <2> QED
    BY <1>3, <1>6, <2>2 DEF OrderInv, OnPath
<1> QED
  BY <1>5, <1>6

\* A directory ends with an answer about it.
LEMMA OrderEnded ==
  ASSUME WalkInv, OrderInv, doing = "list", stack # <<>>,
         stack' = Front(stack), doing' = "return",
         answers' # <<>>, Last(answers').path = here
  PROVE  OrderInv'
<1>1. stack \in Seq(Listing)
  BY DEF WalkInv, Types
<1>2. /\ Len(stack) \in Nat /\ Len(stack') = Len(stack) - 1
      /\ \A i \in 1 .. Len(stack) - 1 : stack'[i] = stack[i]
  BY <1>1, TopFacts
<1>3. \A i \in 1 .. Len(stack') :
        i \in 1 .. Len(stack) /\ stack'[i] = stack[i] /\ Coming(stack', i) = Coming(stack, i)
  BY <1>2 DEF Coming
<1>4. \A i \in 1 .. Len(stack) : \A q \in Coming(stack, i) : Precedes(here, q)
  BY HereIsBefore
<1> QED
  BY <1>3, <1>4 DEF OrderInv, OnPath

\* A directory that begins to be listed has no child to come.
LEMMA OrderEntered ==
  ASSUME WalkInv, OrderInv, ReadDir
  PROVE  OrderInv'
<1>1. /\ doing = "readDir" /\ doing' = "list" /\ here' = here /\ answers' = answers
      /\ stack' = Append(stack, [dir |-> here, pending |-> NamesIn(here), children |-> {}])
  BY DEF ReadDir, Do
<1> DEFINE top == [dir |-> here, pending |-> NamesIn(here), children |-> {}]
<1>2. stack \in Seq(Listing) /\ top \in Listing /\ top.dir = here /\ top.children = {}
  BY NamesTypes DEF WalkInv, Types, Listing
<1> HIDE DEF top
<1>3. /\ Len(stack') = Len(stack) + 1 /\ Len(stack) \in Nat /\ stack'[Len(stack) + 1] = top
      /\ \A i \in 1 .. Len(stack) : stack'[i] = stack[i]
  BY <1>1, <1>2 DEF top
<1>4. \A i \in 1 .. Len(stack) : Coming(stack', i) = Coming(stack, i)
  BY <1>3 DEF Coming
<1>5. Coming(stack', Len(stack) + 1) = {}
  BY <1>2, <1>3 DEF Coming
<1>6. \A i, j \in 1 .. Len(stack') : i < j =>
        \A q \in Coming(stack', i) : Branches(stack'[j].dir, q)
  <2> SUFFICES ASSUME NEW i \in 1 .. Len(stack'), NEW j \in 1 .. Len(stack'), i < j,
                      NEW q \in Coming(stack', i)
               PROVE  Branches(stack'[j].dir, q)
    OBVIOUS
  <2>1. i \in 1 .. Len(stack) /\ q \in Coming(stack, i)
    BY <1>3, <1>4
  <2>2. CASE j = Len(stack) + 1
    BY <1>1, <1>2, <1>3, <2>1, <2>2 DEF OrderInv, OnPath
  <2>3. CASE j \in 1 .. Len(stack)
    BY <1>3, <2>1, <2>3 DEF OrderInv
  <2> QED
    BY <1>3, <2>2, <2>3
<1>7. answers # <<>> =>
        \A i \in 1 .. Len(stack') : \A q \in Coming(stack', i) :
          Precedes(Last(answers).path, q)
  <2> SUFFICES ASSUME answers # <<>>,
                      NEW i \in 1 .. Len(stack'), NEW q \in Coming(stack', i)
               PROVE  Precedes(Last(answers).path, q)
    OBVIOUS
  <2>1. i \in 1 .. Len(stack) /\ q \in Coming(stack, i)
    BY <1>3, <1>4, <1>5
  <2> QED
    BY <2>1 DEF OrderInv
<1> QED
  BY <1>1, <1>6, <1>7 DEF OrderInv, OnPath

\* The child that is walked is the first of those to come.
LEMMA OrderDescended ==
  ASSUME WalkInv, OrderInv, NextChild
  PROVE  OrderInv'
<1>1. /\ doing = "children" /\ stack # <<>> /\ doing' = "walk" /\ answers' = answers
      /\ stack \in Seq(Listing)
  BY DEF NextChild, Do, WalkInv, PlaceInv, Types
<1>2. PICK name \in Last(stack).children :
        /\ \A other \in Last(stack).children : name <= other
        /\ here' = Append(Last(stack).dir, name)
        /\ stack' = [stack EXCEPT ![Len(stack)].children = @ \ {name}]
  BY DEF NextChild
<1>3. /\ name \in Nat
      /\ TopIs(stack', stack, Last(stack).pending, Last(stack).children \ {name})
  BY <1>1, <1>2, EntrySteps DEF WalkInv
<1>4. /\ Len(stack') = Len(stack) /\ Len(stack) \in Nat /\ Len(stack) > 0
      /\ \A i \in 1 .. Len(stack) : stack'[i].dir = stack[i].dir
      /\ \A i \in 1 .. Len(stack) - 1 : Coming(stack', i) = Coming(stack, i)
      /\ Coming(stack', Len(stack)) =
           {Append(Last(stack).dir, c) : c \in Last(stack).children \ {name}}
      /\ Coming(stack, Len(stack)) = {Append(Last(stack).dir, c) : c \in Last(stack).children}
  BY <1>1, <1>3, ComingUnder
<1>5. /\ Last(stack).dir \in Seq(Nat) /\ Last(stack).children \in SUBSET Nat
      /\ Last(stack).dir = stack[Len(stack)].dir
  BY <1>1, TopFacts
<1>6. \A i \in 1 .. Len(stack') : Coming(stack', i) \subseteq Coming(stack, i)
  <2> TAKE i \in 1 .. Len(stack')
  <2>1. CASE i = Len(stack)
    BY <1>4, <2>1
  <2>2. CASE i \in 1 .. Len(stack) - 1
    BY <1>4, <2>2
  <2> QED
    BY <1>4, <2>1, <2>2
<1>7. \A i, j \in 1 .. Len(stack') : i < j =>
        \A q \in Coming(stack', i) : Branches(stack'[j].dir, q)
  BY <1>4, <1>6 DEF OrderInv
<1>8. \A i \in 1 .. Len(stack') : \A q \in Coming(stack', i) : Branches(here', q)
  <2> SUFFICES ASSUME NEW i \in 1 .. Len(stack'), NEW q \in Coming(stack', i)
               PROVE  Branches(here', q)
    OBVIOUS
  <2>1. CASE i \in 1 .. Len(stack) - 1
    <3>1. i \in 1 .. Len(stack) /\ Len(stack) \in 1 .. Len(stack) /\ i < Len(stack)
      BY <1>4, <2>1
    <3>2. q \in Coming(stack, i)
      BY <1>6
    <3>3. Branches(Last(stack).dir, q)
      BY <1>5, <3>1, <3>2 DEF OrderInv
    <3>4. q \in Seq(Nat)
      BY <1>1, <3>1, <3>2, ComingTypes
    <3> QED
      BY <1>2, <1>3, <1>5, <3>3, <3>4, BranchesGrow
  <2>2. CASE i = Len(stack)
    <3>1. PICK c \in Last(stack).children \ {name} : q = Append(Last(stack).dir, c)
      BY <1>4, <2>2
    <3>2. c \in Nat /\ name < c
      BY <1>2, <1>3, <1>5, <3>1
    <3> QED
      BY <1>2, <1>3, <1>5, <3>1, <3>2, SiblingsBranch
  <2> QED
    BY <1>4, <2>1, <2>2
<1>9. answers # <<>> =>
        /\ \A i \in 1 .. Len(stack') : \A q \in Coming(stack', i) :
             Precedes(Last(answers).path, q)
        /\ Precedes(Last(answers).path, here')
  <2> SUFFICES ASSUME answers # <<>>
               PROVE  /\ \A i \in 1 .. Len(stack') : \A q \in Coming(stack', i) :
                           Precedes(Last(answers).path, q)
                      /\ Precedes(Last(answers).path, here')
    OBVIOUS
  <2>1. \A i \in 1 .. Len(stack) : \A q \in Coming(stack, i) : Precedes(Last(answers).path, q)
    BY DEF OrderInv
  <2>2. here' \in Coming(stack, Len(stack))
    BY <1>2, <1>4
  <2> QED
    BY <1>4, <1>6, <2>1, <2>2
<1> QED
  BY <1>1, <1>7, <1>8, <1>9 DEF OrderInv, OnPath

LEMMA OrderStepping ==
  WalkInv /\ OrderInv /\ [Next]_vars => OrderInv'
<1> SUFFICES ASSUME WalkInv, OrderInv, [Next]_vars PROVE OrderInv'
  OBVIOUS
<1> USE DEF OnPath
<1>1. /\ stack \in Seq(Listing) /\ here \in Seq(Nat) /\ answers \in Seq(Given)
      /\ doing = "list" => here = Last(stack).dir
      /\ doing \in {"list", "children"} => stack # <<>>
  BY DEF WalkInv, Types, PlaceInv
<1>2. "Failed" \in Verdict
  BY DEF Verdict
<1>3. CASE UNCHANGED vars \/ Done \/ Change \/ Cancel \/ ListEnds \/ VisitReturns
  BY <1>3, OrderKept DEF Done, vars, Change, Cancel, ListEnds, VisitReturns, Do
<1>4. CASE IsCancelled
  <2>1. /\ doing' = "return" /\ answers' = answers
        /\ stack' = IF doing = "list" THEN Front(stack) ELSE stack
    BY <1>4 DEF IsCancelled, Return
  <2> QED
    BY <1>1, <2>1, OrderKept, OrderPopped
<1>5. CASE Walk \/ Files \/ ReadDirFails
  BY <1>5, PathSteps, OrderPath DEF WalkInv
<1>6. CASE ReadDir
  BY <1>6, OrderEntered
<1>7. CASE ListEntry
  <2>1. /\ doing = "list" /\ UNCHANGED <<doing, here, answers>>
    BY <1>7 DEF ListEntry
  <2>2. PICK name \in Last(stack).pending :
          stack' = [stack EXCEPT ![Len(stack)].pending = @ \ {name},
                                 ![Len(stack)].children = @ \cup {name}]
    BY <1>7 DEF ListEntry
  <2>3. /\ name \in Nat
        /\ TopIs(stack', stack, Last(stack).pending \ {name}, Last(stack).children \cup {name})
    BY <1>1, <2>1, <2>2, EntrySteps DEF WalkInv
  <2>4. Last(stack).children \cup {name} \in SUBSET Nat
    BY <1>1, <2>1, <2>3, TopFacts
  <2> QED
    BY <1>1, <2>1, <2>3, <2>4, OrderListed
<1>8. CASE EntryFails
  <2>1. /\ doing = "list" /\ here' = here /\ Answer("Failed", here)
    BY <1>8 DEF EntryFails
  <2>2. answers' # <<>> /\ Last(answers').path = here
    BY <1>1, <1>2, <2>1, AnswerTypes
  <2>3. PICK name \in Last(stack).pending :
          \/ /\ stack' = [stack EXCEPT ![Len(stack)].pending = @ \ {name}]
             /\ UNCHANGED <<doing, control>>
          \/ /\ stack' = Front(stack)
             /\ doing' = "return" /\ control' \in {"Stop", "Callback"}
    BY <1>8 DEF EntryFails, Return
  <2>4. CASE /\ stack' = [stack EXCEPT ![Len(stack)].pending = @ \ {name}]
             /\ UNCHANGED <<doing, control>>
    <3>1. TopIs(stack', stack, Last(stack).pending \ {name}, Last(stack).children)
      BY <1>1, <2>1, <2>4, EntrySteps DEF WalkInv
    <3>2. Last(stack).children \in SUBSET Nat
      BY <1>1, <2>1, TopFacts
    <3> QED
      BY <1>1, <2>1, <2>2, <2>4, <3>1, <3>2, OrderListed
  <2>5. CASE stack' = Front(stack) /\ doing' = "return" /\ control' \in {"Stop", "Callback"}
    BY <1>1, <2>1, <2>2, <2>5, OrderEnded
  <2> QED
    BY <2>3, <2>4, <2>5
<1>9. CASE ReserveFails
  <2>1. doing = "list" /\ stack' = Front(stack) /\ here' = here /\ Report("Failed")
    BY <1>9 DEF ReserveFails
  <2>2. /\ doing' = "return"
        /\ \E is \in Verdict, target \in Seq(Nat) : Answer(is, target)
    BY <1>2, <2>1, Reporting DEF WalkInv
  <2>3. answers' # <<>> /\ Last(answers').path = here
    BY <1>1, <2>2, AnswerTypes
  <2> QED
    BY <1>1, <2>1, <2>2, <2>3, OrderEnded
<1>10. CASE NextChild
  BY <1>10, OrderDescended
<1>11. CASE ChildrenEnd
  BY <1>1, <1>11, OrderPopped DEF ChildrenEnd, Return
<1>12. CASE Resume
  <2>1. /\ doing = "return" /\ stack # <<>> /\ UNCHANGED <<here, answers>>
        /\ \/ doing' = "children" /\ stack' = stack
           \/ doing' = doing /\ stack' = Front(stack)
    BY <1>12 DEF Resume, Do
  <2> QED
    BY <2>1, OrderKept, OrderPopped
<1> QED
  BY <1>3, <1>4, <1>5, <1>6, <1>7, <1>8, <1>9, <1>10, <1>11, <1>12 DEF Next, Directories

LexicalStep ==
  /\ answers' # answers /\ answers # <<>> =>
       LET last == Last(answers)
           new == Last(answers')
       IN  \/ Precedes(last.path, new.path)
           \/ last.path = new.path /\ new.is = "Failed"
  /\ control # "Continue" => UNCHANGED <<answers, control>>
  /\ control' = "Cancelled" => token

\* An answer is about the path in progress, or a failure to list a directory.
LEMMA AnswersSteps ==
  ASSUME WalkInv, Next, answers' # answers
  PROVE  /\ Last(answers').path = here
         /\ doing \in OnPath \/ (doing = "list" /\ Last(answers').is = "Failed")
<1>1. here \in Seq(Nat) /\ answers \in Seq(Given) /\ "Failed" \in Verdict
  BY DEF WalkInv, Types, Verdict
<1>2. CASE Walk \/ Files \/ ReadDirFails
  <2>1. PathStep
    BY <1>2, PathSteps DEF WalkInv
  <2> QED
    BY <1>1, <2>1, AnswerTypes DEF PathStep
<1>3. CASE EntryFails \/ ReserveFails
  <2>1. doing = "list" /\ Answer("Failed", here)
    BY <1>3 DEF EntryFails, ReserveFails, Report
  <2>2. Last(answers') = [path |-> here, is |-> "Failed", target |-> here]
    BY <1>1, <2>1, AnswerTypes
  <2> QED
    BY <2>1, <2>2
<1> QED
  BY <1>2, <1>3 DEF Next, Done, vars, Change, Cancel, IsCancelled, Directories, ReadDir,
     ListEntry, ListEnds, NextChild, ChildrenEnd, Resume, VisitReturns

\* Once a call has returned Stop or an error, nothing else changes it.
LEMMA ControlSteps ==
  ASSUME WalkInv, Next
  PROVE  /\ control # "Continue" => UNCHANGED <<answers, control>>
         /\ control' = "Cancelled" => token
<1>1. ASSUME control # "Continue" PROVE UNCHANGED <<answers, control>>
  <2>1. doing \in {"return", "done"}
    BY <1>1 DEF WalkInv, ControlInv
  <2>2. doing \notin OnPath
    BY <2>1 DEF OnPath
  <2>3. ~(Walk \/ Files \/ ReadDirFails)
    BY <2>2, PathSteps DEF WalkInv, PathStep
  <2> QED
    BY <1>1, <2>1, <2>3 DEF Next, Done, vars, Change, Cancel, IsCancelled, Directories,
       ReadDir, ListEntry, EntryFails, ReserveFails, ListEnds, NextChild, ChildrenEnd,
       Resume, VisitReturns, Do
<1>2. ASSUME control' = "Cancelled" PROVE token
  <2>1. CASE control = "Cancelled"
    BY <2>1 DEF WalkInv, ControlInv
  <2>2. CASE Walk \/ Files \/ ReadDirFails
    BY <1>2, <2>1, <2>2, PathSteps DEF WalkInv, PathStep
  <2>3. CASE IsCancelled
    BY <2>3 DEF IsCancelled
  <2> QED
    BY <1>2, <2>1, <2>2, <2>3 DEF Next, Done, vars, Change, Cancel, Directories,
       ReadDir, ListEntry, EntryFails, ReserveFails, ListEnds, NextChild, ChildrenEnd,
       Resume, VisitReturns, Do, Return, Report
<1> QED
  BY <1>1, <1>2

LEMMA LexicalSteps ==
  WalkInv /\ OrderInv /\ [Next]_vars => [LexicalStep]_vars
<1> SUFFICES ASSUME WalkInv, OrderInv, Next PROVE LexicalStep
  OBVIOUS
<1>1. ASSUME answers' # answers, answers # <<>>
      PROVE  \/ Precedes(Last(answers).path, Last(answers').path)
             \/ Last(answers).path = Last(answers').path /\ Last(answers').is = "Failed"
  <2>1. /\ Last(answers').path = here
        /\ doing \in OnPath \/ (doing = "list" /\ Last(answers').is = "Failed")
    BY <1>1, AnswersSteps
  <2> QED
    BY <1>1, <2>1 DEF OrderInv
<1> QED
  BY <1>1, ControlSteps DEF LexicalStep

LEMMA OrderInitially ==
  Init => OrderInv
<1> SUFFICES ASSUME Init PROVE OrderInv
  OBVIOUS
<1>1. stack = <<>> /\ answers = <<>> /\ doing = "walk"
  BY DEF Init
<1>2. Len(stack) = 0
  BY <1>1
<1> QED
  BY <1>1, <1>2 DEF OrderInv

\* Every state is of its type, and each call knows where it is: directories are on the
\* stack while they are listed and walked, and once a call returned Stop or an
\* error the walk does nothing but return.
THEOREM WalkIsTyped == Spec => []WalkInv
<1>1. Init => WalkInv
  BY Initially
<1>2. WalkInv /\ [Next]_vars => WalkInv'
  BY Stepping
<1> QED
  BY <1>1, <1>2, PTL DEF Spec

\* For every tree, whatever order the system lists a directory in and whatever other
\* programs change, the events of a visit come in lexical order, and none comes
\* after Stop, an error or the cancellation.
THEOREM AlwaysLexical == Spec => LexicalUntilStopped
<1>1. Init => WalkInv /\ OrderInv
  BY Initially, OrderInitially
<1>2. WalkInv /\ OrderInv /\ [Next]_vars => (WalkInv /\ OrderInv)'
  BY Stepping, OrderStepping
<1>3. WalkInv /\ OrderInv /\ [Next]_vars => [LexicalStep]_vars
  BY LexicalSteps
<1> QED
  BY <1>1, <1>2, <1>3, PTL DEF Spec, LexicalUntilStopped, LexicalStep

-----------------------------------------------------------------------------
(* Links, one after the other.                                             *)

IsChain(c, path, k) ==
  c = [n \in 0 .. k |-> IF n = 0 THEN path ELSE Follow(c[n - 1])]

LEMMA ChainExists ==
  ASSUME NEW path, NEW l \in Nat
  PROVE  \E c : IsChain(c, path, l)
<1> DEFINE T == {k \in Nat : \E c : IsChain(c, path, k)}
<1>1. 0 \in T
  <2> DEFINE c == [n \in 0 .. 0 |-> path]
  <2>1. IsChain(c, path, 0)
    BY DEF IsChain
  <2> QED
    BY <2>1
<1>2. ASSUME NEW k \in T PROVE k + 1 \in T
  <2>1. PICK c : IsChain(c, path, k)
    BY <1>2
  <2>0. c[0] = path
    BY <2>1, <1>2 DEF IsChain
  <2> DEFINE e == [n \in 0 .. k + 1 |-> IF n = k + 1 THEN Follow(c[k]) ELSE c[n]]
  <2>2. \A n \in 0 .. k : e[n] = c[n]
    BY <1>2
  <2>3. e[k + 1] = Follow(c[k])
    BY <1>2
  <2>4. \A n \in 0 .. k + 1 : e[n] = IF n = 0 THEN path ELSE Follow(e[n - 1])
    <3> HIDE DEF e
    <3> TAKE n \in 0 .. k + 1
    <3>1. CASE n = 0
      <4>1. e[0] = path
        BY <2>0, <2>2, <1>2
      <4> QED
        BY <4>1, <3>1
    <3>2. CASE n \in 1 .. k
      <4>0. n \in 0 .. k /\ n # 0
        BY <1>2, <3>2
      <4>1. c[n] = Follow(c[n - 1])
        BY <2>1, <4>0 DEF IsChain
      <4>2. e[n] = c[n] /\ e[n - 1] = c[n - 1]
        BY <2>2, <3>2, <1>2
      <4> QED
        BY <4>1, <4>2, <3>2
    <3>3. CASE n = k + 1
      <4>1. e[n - 1] = c[k]
        BY <2>2, <3>3, <1>2
      <4> QED
        BY <2>3, <4>1, <3>3, <1>2
    <3> QED
      BY <3>1, <3>2, <3>3, <1>2
  <2>5. IsChain(e, path, k + 1)
    <3>1. e = [n \in 0 .. k + 1 |-> e[n]]
      OBVIOUS
    <3> HIDE DEF e
    <3> QED
      BY <3>1, <2>4 DEF IsChain
  <2> QED
    BY <2>5, <1>2
<1>3. T = Nat
  <2>1. T \subseteq Nat
    OBVIOUS
  <2> HIDE DEF T
  <2> QED
    BY <1>1, <1>2, <2>1, Inductive
<1> QED
  BY <1>3

\* A chain begins with the path and follows one link at a time.
LEMMA ChainFacts ==
  \A path :
    /\ Chain(path)[0] = path
    /\ \A n \in 1 .. OsHops : Chain(path)[n] = Follow(Chain(path)[n - 1])
<1> TAKE path
<1>0. OsHops \in Nat
  BY DirectoryAssumption
<1>1. IsChain(Chain(path), path, OsHops)
  <2>1. \E c : IsChain(c, path, OsHops)
    BY <1>0, ChainExists
  <2> QED
    BY <2>1 DEF Chain, IsChain
<1> DEFINE c == Chain(path)
<1>2. c = [n \in 0 .. OsHops |-> IF n = 0 THEN path ELSE Follow(c[n - 1])]
  BY <1>1 DEF IsChain
<1> HIDE DEF c
<1>3. c[0] = path
  BY <1>0, <1>2
<1>4. \A n \in 1 .. OsHops : c[n] = Follow(c[n - 1])
  <2> TAKE n \in 1 .. OsHops
  <2>1. n \in 0 .. OsHops /\ n # 0
    BY <1>0
  <2> QED
    BY <1>2, <2>1
<1> QED
  BY <1>3, <1>4 DEF c

\* A link is followed to a path of names; a path without one stays.
LEMMA FollowFacts ==
  TreeTypes =>
    \A path \in Seq(Nat) :
      /\ Follow(path) \in Seq(Nat)
      /\ FirstLink(path) <= 0 => Follow(path) = path
<1> SUFFICES ASSUME TreeTypes, NEW path \in Seq(Nat)
             PROVE  /\ Follow(path) \in Seq(Nat)
                    /\ FirstLink(path) <= 0 => Follow(path) = path
  OBVIOUS
<1> DEFINE n == FirstLink(path)
           node == Node(Prefix(path, n))
<1>1. n \in -1 .. Len(path) /\ (n > 0 => IsA(Prefix(path, n), "link"))
  BY FirstLinkFacts
<1>2. Follow(path) = IF n > 0 THEN Through(path, n, node) ELSE path
  BY DEF Follow
<1>3. IsNode(node)
  BY NodeTypes
<1>4. ASSUME n > 0 PROVE Through(path, n, node) \in Seq(Nat)
  <2>1. n \in 1 .. Len(path)
    BY <1>1, <1>4
  <2>2. node # Absent /\ node.is = "link"
    BY <1>1, <1>4 DEF IsA
  <2> HIDE DEF n, node
  <2> QED
    BY <1>3, <2>1, <2>2, ThroughFacts
<1> HIDE DEF n, node
<1>5. n \in Int
  BY <1>1
<1>6. (n <= 0) => ~(n > 0)
  BY <1>5
<1>7. Follow(path) \in Seq(Nat) /\ (n <= 0 => Follow(path) = path)
  BY <1>2, <1>4, <1>6
<1> QED
  BY <1>7 DEF n

LEMMA ChainTypes ==
  TreeTypes => \A path \in Seq(Nat) : \A n \in 0 .. OsHops : Chain(path)[n] \in Seq(Nat)
<1> SUFFICES ASSUME TreeTypes, NEW path \in Seq(Nat)
             PROVE  \A n \in 0 .. OsHops : Chain(path)[n] \in Seq(Nat)
  OBVIOUS
<1> DEFINE c == Chain(path)
           T == {n \in Nat : n <= OsHops => c[n] \in Seq(Nat)}
<1>0. OsHops \in Nat
  BY DirectoryAssumption
<1>1. c[0] = path /\ \A n \in 1 .. OsHops : c[n] = Follow(c[n - 1])
  BY ChainFacts
<1> HIDE DEF c
<1>2. 0 \in T
  BY <1>1
<1>3. ASSUME NEW n \in T PROVE n + 1 \in T
  <2> SUFFICES ASSUME n + 1 <= OsHops PROVE c[n + 1] \in Seq(Nat)
    BY <1>3
  <2>1. c[n] \in Seq(Nat)
    BY <1>0, <1>3
  <2>2. n + 1 \in 1 .. OsHops /\ (n + 1) - 1 = n
    BY <1>0, <1>3
  <2>3. c[n + 1] = Follow(c[n])
    BY <1>1, <2>2
  <2> QED
    BY <2>1, <2>3, FollowFacts
<1>4. T = Nat
  <2>1. T \subseteq Nat
    OBVIOUS
  <2> HIDE DEF T
  <2> QED
    BY <1>2, <1>3, <2>1, Inductive
<1>5. \A n \in 0 .. OsHops : c[n] \in Seq(Nat)
  BY <1>0, <1>4
<1> QED
  BY <1>5 DEF c

\* Once there is no further link, a chain stays where it is.
LEMMA ChainRests ==
  ASSUME TreeTypes, NEW path \in Seq(Nat), NEW k \in 0 .. OsHops,
         FirstLink(Chain(path)[k]) <= 0
  PROVE  \A n \in k .. OsHops : Chain(path)[n] = Chain(path)[k]
<1> DEFINE c == Chain(path)
           T == {n \in Nat : k + n <= OsHops => c[k + n] = c[k]}
<1>0. OsHops \in Nat
  BY DirectoryAssumption
<1>1. \A n \in 1 .. OsHops : c[n] = Follow(c[n - 1])
  BY ChainFacts
<1>2. c[k] \in Seq(Nat)
  BY ChainTypes
<1>3. Follow(c[k]) = c[k]
  BY <1>2, FollowFacts
<1> HIDE DEF c
<1>4. 0 \in T
  BY <1>0
<1>5. ASSUME NEW n \in T PROVE n + 1 \in T
  <2> SUFFICES ASSUME k + (n + 1) <= OsHops PROVE c[k + (n + 1)] = c[k]
    BY <1>5
  <2>1. c[k + n] = c[k]
    BY <1>0, <1>5
  <2>2. k + (n + 1) \in 1 .. OsHops /\ (k + (n + 1)) - 1 = k + n
    BY <1>0, <1>5
  <2> QED
    BY <1>1, <1>3, <2>1, <2>2
<1>6. T = Nat
  <2>1. T \subseteq Nat
    OBVIOUS
  <2> HIDE DEF T
  <2> QED
    BY <1>4, <1>5, <2>1, Inductive
<1>7. \A n \in k .. OsHops : c[n] = c[k]
  <2> TAKE n \in k .. OsHops
  <2>0. n - k \in Nat
    BY <1>0
  <2>1. n - k \in T
    <3> HIDE DEF T
    <3> QED
      BY <1>6, <2>0
  <2>2. k + (n - k) = n /\ n <= OsHops
    BY <1>0
  <2> QED
    BY <2>1, <2>2
<1> QED
  BY <1>7 DEF c

\* A path without a link leads to itself.
LEMMA RestsAtOnce ==
  ASSUME TreeTypes, NEW path \in Seq(Nat), FirstLink(path) <= 0
  PROVE  End(path) = path
<1>1. OsHops \in Nat
  BY DirectoryAssumption
<1>2. 0 \in 0 .. OsHops /\ OsHops \in 0 .. OsHops
  BY <1>1
<1>3. Chain(path)[0] = path
  BY ChainFacts
<1>4. \A n \in 0 .. OsHops : Chain(path)[n] = path
  BY <1>2, <1>3, ChainRests
<1> QED
  BY <1>2, <1>4 DEF End

\* Below directories that are no links, lstat sees the node that is there, and so does
\* whatever follows links when there is none in the path.
LEMMA SeenAsItIs ==
  ASSUME TreeTypes, NEW path \in Seq(Nat),
         \A i \in 0 .. Len(path) - 1 : IsA(Prefix(path, i), "dir")
  PROVE  Lstat(path) = Node(path)
<1>1. CASE path = <<>>
  BY <1>1 DEF Lstat
<1>2. CASE path # <<>>
  <2> DEFINE above == Front(path)
  <2>1. /\ above = Prefix(path, Len(path) - 1) /\ Len(path) - 1 \in Nat
        /\ above \in Seq(Nat) /\ Append(above, Last(path)) = path
    BY <1>2, FrontFacts
  <2>2. Len(path) - 1 \in 0 .. Len(path)
    BY <2>1
  <2>3. Len(above) = Len(path) - 1 /\ \A i \in 0 .. Len(above) : Prefix(above, i) = Prefix(path, i)
    <3> DEFINE n == Len(path) - 1
    <3>1. n \in 0 .. Len(path) /\ above = Prefix(path, n)
      BY <2>1, <2>2
    <3> HIDE DEF n, above
    <3>2. /\ Len(Prefix(path, n)) = n
          /\ \A i \in 0 .. n : Prefix(Prefix(path, n), i) = Prefix(path, i)
      BY <3>1, PrefixFacts
    <3>3. Len(above) = n /\ \A i \in 0 .. Len(above) : Prefix(above, i) = Prefix(path, i)
      BY <3>1, <3>2
    <3> QED
      BY <3>3 DEF n
  <2> HIDE DEF above
  <2>4. \A i \in 0 .. Len(above) : IsA(Prefix(above, i), "dir")
    BY <2>1, <2>3
  <2>5. Prefix(above, Len(above)) = above
    BY <2>1, PrefixFacts
  <2>6. IsA(above, "dir")
    BY <2>1, <2>4, <2>5
  <2>7. FirstLink(above) = 0
    <3>1. FirstLink(above) \in -1 .. Len(above)
      BY <2>1, FirstLinkFacts
    <3>2. ~(FirstLink(above) > 0)
      <4> SUFFICES ASSUME FirstLink(above) > 0 PROVE FALSE
        OBVIOUS
      <4>1. IsA(Prefix(above, FirstLink(above)), "link")
        BY <2>1, FirstLinkFacts
      <4>2. FirstLink(above) \in 0 .. Len(above)
        BY <3>1
      <4>3. IsA(Prefix(above, FirstLink(above)), "dir")
        BY <2>4, <4>2
      <4> QED
        BY <4>1, <4>3 DEF IsA
    <3>3. FirstLink(above) # -1
      <4>1. /\ \A i \in 0 .. Len(above) - 1 : IsA(Prefix(above, i), "dir")
            /\ Node(above) # Absent
        BY <2>1, <2>4, <2>6 DEF IsA
      <4> QED
        BY <4>1, <2>1, DeadFacts
    <3> QED
      BY <3>1, <3>2, <3>3
  <2>8. End(above) = above
    BY <2>1, <2>7, RestsAtOnce
  <2>9. Lstat(path) = Node(Append(above, Last(path)))
    BY <1>2, <2>6, <2>7, <2>8 DEF Lstat, above
  <2> QED
    BY <2>1, <2>9
<1> QED
  BY <1>1, <1>2

-----------------------------------------------------------------------------
(* Where a link ends.                                                      *)

LEMMA EndingFacts ==
  ASSUME NEW path, NEW n
  PROVE  /\ \A j \in 0 .. MaxHops - 1 :
              FirstLink(Chain(path)[j]) = n => Chain(path)[j] \in Ending(path, n)
         /\ \A q \in Ending(path, n) : \E j \in 0 .. MaxHops - 1 :
              q = Chain(path)[j] /\ FirstLink(Chain(path)[j]) = n
BY DEF Ending

\* As many links as the walk follows, or more, are a loop.
LEMMA LinksOnly ==
  ASSUME NEW path, \A j \in 0 .. MaxHops - 1 : FirstLink(Chain(path)[j]) > 0
  PROVE  ~IsDead(path) /\ IsLoop(path)
<1>1. Ending(path, -1) = {}
  BY EndingFacts
<1>2. Ending(path, 0) = {}
  BY EndingFacts
<1> QED
  BY <1>1, <1>2 DEF IsDead, IsLoop

\* The same path for a second time means that there is no end.
LEMMA LinksAgain ==
  ASSUME NEW path, NEW h \in 0 .. OsHops, NEW i \in 0 .. h - 1,
         Chain(path)[h] = Chain(path)[i],
         \A j \in 0 .. h - 1 : FirstLink(Chain(path)[j]) > 0
  PROVE  ~IsDead(path) /\ IsLoop(path)
<1> DEFINE c == Chain(path)
           T == {k \in Nat : k <= OsHops => \E m \in 0 .. h - 1 : c[k] = c[m]}
<1>0. OsHops \in Nat /\ MaxHops \in Nat /\ MaxHops <= OsHops
  BY DirectoryAssumption
<1>1. \A n \in 1 .. OsHops : c[n] = Follow(c[n - 1])
  BY ChainFacts
<1>2. c[h] = c[i] /\ \A j \in 0 .. h - 1 : FirstLink(c[j]) > 0
  OBVIOUS
<1> HIDE DEF c
<1>3. 0 \in T
  <2>1. 0 \in 0 .. h - 1
    BY <1>0
  <2> QED
    BY <2>1
<1>4. ASSUME NEW k \in T PROVE k + 1 \in T
  <2> SUFFICES ASSUME k + 1 <= OsHops PROVE \E m \in 0 .. h - 1 : c[k + 1] = c[m]
    BY <1>4
  <2>1. PICK m \in 0 .. h - 1 : c[k] = c[m]
    BY <1>0, <1>4
  <2>2. k + 1 \in 1 .. OsHops /\ (k + 1) - 1 = k
    BY <1>0, <1>4
  <2>3. m + 1 \in 1 .. OsHops /\ (m + 1) - 1 = m
    BY <1>0
  <2>4. c[k + 1] = c[m + 1]
    BY <1>1, <2>1, <2>2, <2>3
  <2>5. CASE m + 1 = h
    BY <1>2, <2>4, <2>5
  <2>6. CASE m + 1 # h
    <3>1. m + 1 \in 0 .. h - 1
      BY <1>0, <2>6
    <3> QED
      BY <2>4, <3>1
  <2> QED
    BY <2>5, <2>6
<1>5. T = Nat
  <2>1. T \subseteq Nat
    OBVIOUS
  <2> HIDE DEF T
  <2> QED
    BY <1>3, <1>4, <2>1, Inductive
<1>6. \A j \in 0 .. MaxHops - 1 : FirstLink(c[j]) > 0
  <2> TAKE j \in 0 .. MaxHops - 1
  <2>1. j \in Nat /\ j <= OsHops
    BY <1>0
  <2>2. PICK m \in 0 .. h - 1 : c[j] = c[m]
    BY <1>5, <2>1
  <2> QED
    BY <1>2, <2>2
<1> QED
  BY <1>6, LinksOnly DEF c

\* The first path without a link is where a link ends.
LEMMA LinkEnds ==
  ASSUME TreeTypes, NEW path \in Seq(Nat), NEW h \in 0 .. MaxHops - 1,
         FirstLink(Chain(path)[h]) = 0,
         \A j \in 0 .. h - 1 : FirstLink(Chain(path)[j]) > 0
  PROVE  ~IsDead(path) /\ ~IsLoop(path) /\ EndOf(path) = Chain(path)[h]
<1>0. OsHops \in Nat /\ MaxHops \in Nat /\ MaxHops <= OsHops
  BY DirectoryAssumption
<1>1. h \in 0 .. OsHops
  BY <1>0
<1>2. \A n \in h .. OsHops : Chain(path)[n] = Chain(path)[h]
  BY <1>1, ChainRests
<1>3. ASSUME NEW j \in 0 .. MaxHops - 1
      PROVE  \/ FirstLink(Chain(path)[j]) > 0
             \/ Chain(path)[j] = Chain(path)[h]
  <2>1. j \in 0 .. h - 1 \/ j \in h .. OsHops
    BY <1>0
  <2> QED
    BY <1>2, <2>1
<1>4. Ending(path, -1) = {}
  <2> SUFFICES ASSUME NEW q \in Ending(path, -1) PROVE FALSE
    OBVIOUS
  <2>1. PICK j \in 0 .. MaxHops - 1 : FirstLink(Chain(path)[j]) = -1
    BY EndingFacts
  <2> QED
    BY <1>3, <2>1
<1>5. Ending(path, 0) = {Chain(path)[h]}
  <2>1. Chain(path)[h] \in Ending(path, 0)
    BY EndingFacts
  <2>2. ASSUME NEW q \in Ending(path, 0) PROVE q = Chain(path)[h]
    <3>1. PICK j \in 0 .. MaxHops - 1 : q = Chain(path)[j] /\ FirstLink(Chain(path)[j]) = 0
      BY EndingFacts
    <3> QED
      BY <1>3, <3>1
  <2> QED
    BY <2>1, <2>2
<1> QED
  BY <1>4, <1>5 DEF IsDead, IsLoop, EndOf

-----------------------------------------------------------------------------
(* What nobody touches.                                                    *)

\* Nobody touched a path or what is above it.
Clear(path) == Above(path) \cap changed = {}

LEMMA ClearFacts ==
  ASSUME NEW path, NEW i \in 0 .. Len(path), Clear(path)
  PROVE  Prefix(path, i) \notin changed
BY DEF Clear, Above

LEMMA UntouchedFacts ==
  \A path : Untouched(path) => \A n \in 0 .. OsHops : Clear(Chain(path)[n])
BY DEF Untouched, Consulted, Clear

LEMMA UntouchedIsClear ==
  \A path : Untouched(path) => Clear(path)
<1> SUFFICES ASSUME NEW path, Untouched(path) PROVE Clear(path)
  OBVIOUS
<1>1. 0 \in 0 .. OsHops
  BY DirectoryAssumption
<1>2. Chain(path)[0] = path
  BY ChainFacts
<1> QED
  BY <1>1, <1>2, UntouchedFacts

\* A step changes the node of a path only if it adds it to those that were changed.
LEMMA NodesKept ==
  ASSUME [Next]_vars
  PROVE  /\ options' = options /\ changed \subseteq changed'
         /\ DOMAIN tree' = DOMAIN tree
         /\ \A q : q \notin changed' => Node(q)' = Node(q)
<1>1. CASE Change
  <2>1. PICK c \in Changes : /\ tree' = [tree EXCEPT ![c.path] = c.node]
                             /\ changed' = changed \cup {c.path}
    BY <1>1 DEF Change
  <2>2. DOMAIN tree' = DOMAIN tree /\ \A q : q # c.path => tree'[q] = tree[q]
    BY <2>1
  <2>3. options' = options
    BY <1>1 DEF Change
  <2> QED
    BY <2>1, <2>2, <2>3 DEF Node
<1>2. CASE UNCHANGED <<options, tree, changed>>
  BY <1>2 DEF Node
<1>3. Change \/ UNCHANGED <<options, tree, changed>>
  BY DEF Next, vars, worldVars, Done, Cancel, IsCancelled, Walk, Files, Directories,
     VisitReturns, Metadata, MetadataFails, Hop, ReadLink, Target, OpenFile, OpenFails, Scan,
     ReadDir, ReadDirFails, ListEntry, EntryFails, ReserveFails, ListEnds, NextChild,
     ChildrenEnd, Resume
<1> QED
  BY <1>1, <1>2, <1>3

\* The nodes of a path and of what is above it decide on its first link.
LEMMA FirstLinkKept ==
  ASSUME NEW path \in Seq(Nat),
         \A i \in 0 .. Len(path) : Node(Prefix(path, i))' = Node(Prefix(path, i))
  PROVE  FirstLink(path)' = FirstLink(path) /\ Follow(path)' = Follow(path)
<1>1. \A i \in 0 .. Len(path) : \A kind :
        IsA(Prefix(path, i), kind)' <=> IsA(Prefix(path, i), kind)
  BY DEF IsA
<1>2. Node(path)' = Node(path)
  BY PrefixFacts
<1> DEFINE Dirs(n) == \A i \in 0 .. n - 1 : IsA(Prefix(path, i), "dir")
           Links == {n \in 1 .. Len(path) : Dirs(n) /\ IsA(Prefix(path, n), "link")}
<1>3. \A n \in 0 .. Len(path) : Dirs(n)' <=> Dirs(n)
  BY <1>1
<1>4. Links' = Links
  BY <1>1, <1>3, SMTT(30)
<1>5. /\ FirstLink(path) = IF Links # {} THEN CHOOSE n \in Links : TRUE
                           ELSE IF Dirs(Len(path)) /\ Node(path) # Absent THEN 0 ELSE -1
      /\ FirstLink(path)' = IF Links' # {} THEN CHOOSE n \in Links' : TRUE
                            ELSE IF Dirs(Len(path))' /\ Node(path)' # Absent THEN 0 ELSE -1
  BY DEF FirstLink
<1>6. FirstLink(path)' = FirstLink(path)
  <2>1. Dirs(Len(path))' <=> Dirs(Len(path))
    BY <1>3
  <2> HIDE DEF Dirs, Links
  <2> QED
    BY <1>2, <1>4, <1>5, <2>1
<1>7. Follow(path)' = Follow(path)
  <2> SUFFICES ASSUME NEW n, n = FirstLink(path), n = FirstLink(path)'
               PROVE  Follow(path)' = Follow(path)
    BY <1>6
  <2>1. n \in -1 .. Len(path)
    BY FirstLinkFacts
  <2>2. /\ Follow(path) = IF n > 0 THEN Through(path, n, Node(Prefix(path, n))) ELSE path
        /\ Follow(path)' = IF n > 0 THEN Through(path, n, Node(Prefix(path, n))') ELSE path
    BY DEF Follow
  <2>3. n > 0 => Node(Prefix(path, n))' = Node(Prefix(path, n))
    BY <2>1
  <2> QED
    BY <2>2, <2>3
<1> QED
  BY <1>6, <1>7

LEMMA RootFacts ==
  Root \in Seq(Nat) /\ Len(Root) \in Nat
BY TreeAssumption

\* What holds of a path that is clear after a step held before it.
LEMMA ClearKept ==
  ASSUME WalkInv, [Next]_vars, NEW path \in Seq(Nat), Clear(path)'
  PROVE  /\ Clear(path)
         /\ \A i \in 0 .. Len(path) : Node(Prefix(path, i))' = Node(Prefix(path, i))
         /\ Node(path)' = Node(path)
         /\ FirstLink(path)' = FirstLink(path) /\ Follow(path)' = Follow(path)
         /\ Reached(path)' <=> Reached(path)
<1>1. /\ options' = options /\ changed \subseteq changed'
      /\ \A q : q \notin changed' => Node(q)' = Node(q)
  BY NodesKept
<1>2. Above(path) \cap changed' = {}
  BY DEF Clear, Above
<1>3. \A i \in 0 .. Len(path) : Prefix(path, i) \notin changed'
  BY <1>2 DEF Above
<1>4. \A i \in 0 .. Len(path) : Node(Prefix(path, i))' = Node(Prefix(path, i))
  BY <1>1, <1>3
<1>5. Node(path)' = Node(path)
  BY <1>4, PrefixFacts
<1>6. Reached(path)' <=> Reached(path)
  <2>1. \A i \in 0 .. Len(path) : \A kind :
          IsA(Prefix(path, i), kind)' <=> IsA(Prefix(path, i), kind)
    BY <1>4 DEF IsA
  <2>2. \A q : Allowed(q)' <=> Allowed(q)
    BY <1>1 DEF Allowed
  <2>3. \A i \in Len(Root) .. Len(path) - 1 : i \in 0 .. Len(path)
    BY RootFacts
  <2> QED
    BY <2>1, <2>2, <2>3 DEF Reached
<1>7. Clear(path)
  BY <1>1, <1>2 DEF Clear
<1> QED
  BY <1>4, <1>5, <1>6, <1>7, FirstLinkKept

LEMMA ChainFactsNext ==
  (\A path :
     /\ Chain(path)[0] = path
     /\ \A n \in 1 .. OsHops : Chain(path)[n] = Follow(Chain(path)[n - 1]))'
BY ChainFacts, PTL

LEMMA UntouchedFactsNext ==
  (\A path : Untouched(path) => \A n \in 0 .. OsHops : Clear(Chain(path)[n]))'
BY UntouchedFacts, PTL

LEMMA UntouchedIsClearNext ==
  (\A path : Untouched(path) => Clear(path))'
BY UntouchedIsClear, PTL

\* The same of a path whose links nobody touched.
LEMMA UntouchedKept ==
  ASSUME WalkInv, [Next]_vars, NEW path \in Seq(Nat), Untouched(path)'
  PROVE  /\ Untouched(path) /\ Clear(path)' /\ Clear(path)
         /\ \A n \in 0 .. OsHops : Chain(path)'[n] = Chain(path)[n]
         /\ \A n \in 0 .. OsHops :
              \A q : q = Chain(path)[n] =>
                /\ q \in Seq(Nat) /\ Clear(q)' /\ Clear(q)
                /\ FirstLink(q)' = FirstLink(q)
<1>0. OsHops \in Nat
  BY DirectoryAssumption
<1>1. TreeTypes /\ TreeTypes'
  BY Stepping DEF WalkInv, Types
<1>2. /\ Chain(path)[0] = path
      /\ \A n \in 1 .. OsHops : Chain(path)[n] = Follow(Chain(path)[n - 1])
  BY ChainFacts
<1>3. /\ Chain(path)'[0] = path
      /\ \A n \in 1 .. OsHops : Chain(path)'[n] = Follow(Chain(path)[n - 1])'
  BY ChainFactsNext
<1>4. \A n \in 0 .. OsHops : Clear(Chain(path)[n])'
  BY UntouchedFactsNext
<1>5. \A n \in 0 .. OsHops : Chain(path)[n] \in Seq(Nat)
  BY <1>1, ChainTypes
<1> DEFINE T == {n \in Nat : n <= OsHops => Chain(path)'[n] = Chain(path)[n]}
<1>6. 0 \in T
  BY <1>2, <1>3
<1>7. ASSUME NEW n \in T PROVE n + 1 \in T
  <2> SUFFICES ASSUME n + 1 <= OsHops PROVE Chain(path)'[n + 1] = Chain(path)[n + 1]
    BY <1>7
  <2>1. n \in 0 .. OsHops /\ n + 1 \in 1 .. OsHops /\ (n + 1) - 1 = n
    BY <1>0, <1>7
  <2>2. Chain(path)'[n] = Chain(path)[n]
    BY <1>7, <2>1
  <2>3. ASSUME NEW q, q = Chain(path)[n] PROVE Follow(q)' = Follow(q)
    <3>1. q \in Seq(Nat) /\ Clear(q)'
      BY <1>4, <1>5, <2>1, <2>2, <2>3
    <3> QED
      BY <3>1, ClearKept
  <2> QED
    BY <1>2, <1>3, <2>1, <2>2, <2>3
<1>8. \A n \in 0 .. OsHops : Chain(path)'[n] = Chain(path)[n]
  <2>1. T = Nat
    <3>1. T \subseteq Nat
      OBVIOUS
    <3> HIDE DEF T
    <3> QED
      BY <1>6, <1>7, <3>1, Inductive
  <2> QED
    BY <1>0, <2>1
<1>9. ASSUME NEW n \in 0 .. OsHops, NEW q, q = Chain(path)[n]
      PROVE  q \in Seq(Nat) /\ Clear(q)' /\ Clear(q) /\ FirstLink(q)' = FirstLink(q)
  <2>1. q \in Seq(Nat) /\ q = Chain(path)'[n]
    BY <1>5, <1>8, <1>9
  <2>2. Clear(q)'
    BY <1>4, <2>1
  <2> QED
    BY <2>1, <2>2, ClearKept
<1>10. Clear(path)'
  BY UntouchedIsClearNext
<1>11. Untouched(path)
  <2> SUFFICES ASSUME NEW n \in 0 .. OsHops, NEW q \in Above(Chain(path)[n]), q \in changed
               PROVE  FALSE
    BY DEF Untouched, Consulted
  <2>1. Clear(Chain(path)[n])
    BY <1>9
  <2> QED
    BY <2>1 DEF Clear
<1> QED
  BY <1>8, <1>9, <1>10, <1>11, ClearKept

\* So what it calls for has not changed either.
LEMMA DueKept ==
  ASSUME WalkInv, [Next]_vars, NEW path \in Seq(Nat), Untouched(path)'
  PROVE  /\ Due(path)' = Due(path)
         /\ EndOf(path)' = EndOf(path)
         /\ \A kind : IsA(path, kind)' <=> IsA(path, kind)
<1>0. OsHops \in Nat /\ MaxHops \in Nat /\ MaxHops <= OsHops
  BY DirectoryAssumption
<1>1. /\ \A n \in 0 .. OsHops : Chain(path)'[n] = Chain(path)[n]
      /\ \A n \in 0 .. OsHops :
           \A q : q = Chain(path)[n] =>
             q \in Seq(Nat) /\ Clear(q)' /\ Clear(q) /\ FirstLink(q)' = FirstLink(q)
      /\ Clear(path)'
  BY UntouchedKept
<1>2. \A n : Ending(path, n)' = Ending(path, n)
  <2> TAKE n
  <2>1. \A j \in 0 .. MaxHops - 1 :
          /\ Chain(path)'[j] = Chain(path)[j]
          /\ FirstLink(Chain(path)[j])' = FirstLink(Chain(path)[j])
    <3> TAKE j \in 0 .. MaxHops - 1
    <3>1. j \in 0 .. OsHops
      BY <1>0
    <3>2. Chain(path)'[j] = Chain(path)[j]
      BY <1>1, <3>1
    <3>3. ASSUME NEW q, q = Chain(path)[j] PROVE FirstLink(q)' = FirstLink(q)
      BY <1>1, <3>1, <3>3
    <3> QED
      BY <3>2, <3>3
  <2>2. {j \in 0 .. MaxHops - 1 : FirstLink(Chain(path)[j])' = n} =
          {j \in 0 .. MaxHops - 1 : FirstLink(Chain(path)[j]) = n}
    BY <2>1
  <2>3. /\ Ending(path, n) =
             {Chain(path)[i] : i \in {j \in 0 .. MaxHops - 1 : FirstLink(Chain(path)[j]) = n}}
        /\ Ending(path, n)' =
             {Chain(path)'[i] : i \in {j \in 0 .. MaxHops - 1 : FirstLink(Chain(path)[j])' = n}}
    BY DEF Ending
  <2> DEFINE J == {j \in 0 .. MaxHops - 1 : FirstLink(Chain(path)[j]) = n}
  <2>4. Ending(path, n) = {Chain(path)[i] : i \in J} /\ Ending(path, n)' = {Chain(path)'[i] : i \in J}
    BY <2>2, <2>3
  <2>5. \A j \in J : Chain(path)'[j] = Chain(path)[j]
    BY <2>1
  <2> HIDE DEF J
  <2> QED
    BY <2>4, <2>5
<1>3. IsDead(path)' = IsDead(path) /\ IsLoop(path)' = IsLoop(path)
  BY <1>2 DEF IsDead, IsLoop
<1>4. EndOf(path)' = EndOf(path)
  <2>1. Ending(path, 0)' = Ending(path, 0)
    BY <1>2
  <2> QED
    BY <2>1 DEF EndOf
<1>5. Node(path)' = Node(path)
  BY <1>1, ClearKept
<1>6. \A kind : IsA(path, kind)' <=> IsA(path, kind)
  BY <1>5 DEF IsA
<1>7. options' = options
  BY NodesKept
<1>8. ASSUME ~IsDead(path), ~IsLoop(path)
      PROVE  IsA(EndOf(path), "dir")' <=> IsA(EndOf(path), "dir")
  <2>1. EndOf(path) \in Ending(path, 0)
    BY <1>8 DEF IsLoop, EndOf
  <2>2. PICK j \in 0 .. MaxHops - 1 : EndOf(path) = Chain(path)[j]
    BY <2>1, EndingFacts
  <2>3. j \in 0 .. OsHops
    BY <1>0
  <2>4. ASSUME NEW q, q = EndOf(path) PROVE IsA(q, "dir")' <=> IsA(q, "dir")
    <3>1. q \in Seq(Nat) /\ Clear(q)'
      BY <1>1, <2>2, <2>3, <2>4
    <3>2. Node(q)' = Node(q)
      BY <3>1, ClearKept
    <3> QED
      BY <3>2 DEF IsA
  <2> QED
    BY <1>4, <2>4
<1>9. Gated(path)' = Gated(path)
  BY <1>7 DEF Gated, Allowed
<1>10. DueOfLink(path)' = DueOfLink(path)
  BY <1>3, <1>8, <1>9 DEF DueOfLink
<1>11. Due(path)' = Due(path)
  BY <1>5, <1>7, <1>9, <1>10 DEF Due, TooBig
<1> QED
  BY <1>4, <1>6, <1>11

-----------------------------------------------------------------------------
(* What the walk knows of paths that nobody touched.                       *)

\* What is above the root is a directory.
RootInv ==
  \A n \in 0 .. Len(Root) - 1 : Clear(Prefix(Root, n)) => IsA(Prefix(Root, n), "dir")

\* A directory that is being walked.
IsWalked(dir) ==
  /\ IsPrefixOf(Root, dir)
  /\ Clear(dir) => Reached(dir) /\ IsA(dir, "dir") /\ ~Allowed(dir)

\* The path in progress, before the call d.
Resolved == {"hop", "readLink", "target", "open", "scan"}

Located(p, d) ==
  /\ IsPrefixOf(Root, p)
  /\ Clear(p) =>
       /\ Reached(p)
       /\ d = "readDir" => IsA(p, "dir") /\ ~Allowed(p)
       /\ d \in Resolved => ~IsA(p, "dir")

\* The link in progress: it has been followed for as many hops as l says, over links only.
FollowedTo(p, d, l) ==
  /\ IsA(p, "link") /\ Node(p).size # 0 /\ ~TooBig(Node(p)) /\ options.follow
  /\ l.hops \in 0 .. MaxHops /\ l.current = Chain(p)[l.hops]
  /\ \A j \in 0 .. l.hops - 1 : FirstLink(Chain(p)[j]) > 0
  /\ \A q \in l.visited :
       \E j \in 0 .. l.hops : Chain(p)[j] = q /\ (j < l.hops \/ d = "readLink")
  /\ d = "readLink" =>
       l.hops < MaxHops /\ l.at = FirstLink(Chain(p)[l.hops]) /\ FirstLink(Chain(p)[l.hops]) > 0
  /\ d = "target" => l.hops < MaxHops /\ FirstLink(Chain(p)[l.hops]) = 0

Opened(p, l) ==
  /\ Due(p) = "scanned"
  /\ l.current = IF IsA(p, "link") THEN EndOf(p) ELSE p

Resolves(p, d, l) ==
  Untouched(p) =>
    /\ d \in {"hop", "readLink", "target"} => FollowedTo(p, d, l)
    /\ d \in {"open", "scan"} => Opened(p, l)

\* An answer that is what the path calls for.
Rightly(a) ==
  Untouched(a.path) =>
    /\ Reached(a.path)
    /\ FailureOf(a) \/ a.is = Due(a.path)
    /\ a.is = "scanned" => a.target = IF IsA(a.path, "link") THEN EndOf(a.path) ELSE a.path

RightInv ==
  /\ RootInv
  /\ \A i \in 1 .. Len(stack) : IsWalked(stack[i].dir)
  /\ doing \in OnPath => Located(here, doing) /\ Resolves(here, doing, link)
  /\ \A i \in DOMAIN answers : Rightly(answers[i])

\* None of this is lost by what other programs do.
LEMMA WalkedKept ==
  ASSUME WalkInv, [Next]_vars
  PROVE  /\ \A p \in Seq(Nat) : IsWalked(p) => IsWalked(p)'
         /\ \A p \in Seq(Nat) : \A d : Located(p, d) => Located(p, d)'
         /\ RootInv => RootInv'
<1>1. \A q : Allowed(q)' <=> Allowed(q)
  BY NodesKept DEF Allowed
<1>2. \A p \in Seq(Nat) : Clear(p)' =>
        /\ Clear(p) /\ (Reached(p)' <=> Reached(p))
        /\ \A kind : IsA(p, kind)' <=> IsA(p, kind)
  BY ClearKept DEF IsA
<1>3. \A n \in 0 .. Len(Root) - 1 : Prefix(Root, n) \in Seq(Nat)
  BY RootFacts, PrefixFacts
<1>4. ASSUME NEW p \in Seq(Nat), IsWalked(p) PROVE IsWalked(p)'
  BY <1>1, <1>2, <1>4 DEF IsWalked, IsPrefixOf
<1>5. ASSUME NEW p \in Seq(Nat), NEW d, Located(p, d) PROVE Located(p, d)'
  BY <1>1, <1>2, <1>5 DEF Located, IsPrefixOf
<1>6. ASSUME RootInv PROVE RootInv'
  BY <1>2, <1>3, <1>6 DEF RootInv
<1> QED
  BY <1>4, <1>5, <1>6

LEMMA ResolvesKept ==
  ASSUME WalkInv, [Next]_vars, NEW p \in Seq(Nat), NEW d, NEW l, Resolves(p, d, l)
  PROVE  Resolves(p, d, l)'
<1> SUFFICES ASSUME Untouched(p)'
             PROVE  /\ d \in {"hop", "readLink", "target"} => FollowedTo(p, d, l)'
                    /\ d \in {"open", "scan"} => Opened(p, l)'
  BY DEF Resolves
<1>0. OsHops \in Nat /\ MaxHops \in Nat /\ MaxHops <= OsHops
  BY DirectoryAssumption
<1>1. /\ Untouched(p) /\ Clear(p)'
      /\ \A n \in 0 .. OsHops : Chain(p)'[n] = Chain(p)[n]
      /\ \A n \in 0 .. OsHops : \A q : q = Chain(p)[n] => FirstLink(q)' = FirstLink(q)
  BY UntouchedKept
<1>2. /\ Due(p)' = Due(p) /\ EndOf(p)' = EndOf(p)
      /\ \A kind : IsA(p, kind)' <=> IsA(p, kind)
  BY DueKept
<1>3. Node(p)' = Node(p) /\ options' = options
  BY <1>1, ClearKept, NodesKept
<1>4. ASSUME Opened(p, l) PROVE Opened(p, l)'
  BY <1>2, <1>4 DEF Opened
<1>5. ASSUME FollowedTo(p, d, l) PROVE FollowedTo(p, d, l)'
  <2>1. \A n \in 0 .. OsHops : FirstLink(Chain(p)[n])' = FirstLink(Chain(p)[n])
    BY <1>1
  <2>2. l.hops \in 0 .. MaxHops /\ l.hops \in 0 .. OsHops
    BY <1>0, <1>5 DEF FollowedTo
  <2>3. \A j \in 0 .. l.hops : j \in 0 .. OsHops
    BY <1>0, <2>2
  <2>4. /\ IsA(p, "link")' /\ Node(p)'.size # 0 /\ ~TooBig(Node(p))' /\ options'.follow
    BY <1>2, <1>3, <1>5 DEF FollowedTo, TooBig
  <2>5. l.current = Chain(p)'[l.hops]
    BY <1>1, <1>5, <2>2 DEF FollowedTo
  <2>6. \A j \in 0 .. l.hops - 1 : FirstLink(Chain(p)[j])' > 0
    BY <1>5, <2>1, <2>2, <2>3 DEF FollowedTo
  <2>7. \A q \in l.visited :
          \E j \in 0 .. l.hops : Chain(p)'[j] = q /\ (j < l.hops \/ d = "readLink")
    BY <1>1, <1>5, <2>3 DEF FollowedTo
  <2>8. FirstLink(Chain(p)[l.hops])' = FirstLink(Chain(p)[l.hops])
    BY <2>1, <2>2
  <2> QED
    BY <1>5, <2>2, <2>4, <2>5, <2>6, <2>7, <2>8 DEF FollowedTo
<1> QED
  BY <1>1, <1>4, <1>5 DEF Resolves

LEMMA RightlyKept ==
  ASSUME WalkInv, [Next]_vars, NEW a \in Given, Rightly(a)
  PROVE  Rightly(a)'
<1>1. a.path \in Seq(Nat)
  BY DEF Given
<1> SUFFICES ASSUME NEW p \in Seq(Nat), p = a.path, Untouched(p)'
             PROVE  /\ Reached(p)'
                    /\ FailureOf(a)' \/ a.is = Due(p)'
                    /\ a.is = "scanned" => a.target = IF IsA(p, "link")' THEN EndOf(p)' ELSE p
  BY <1>1 DEF Rightly
<1>2. /\ Due(p)' = Due(p) /\ EndOf(p)' = EndOf(p)
      /\ \A kind : IsA(p, kind)' <=> IsA(p, kind)
  BY DueKept
<1>3. Untouched(p) /\ (Reached(p)' <=> Reached(p))
  BY UntouchedKept, ClearKept
<1>4. FailureOf(a)' <=> FailureOf(a)
  BY <1>2 DEF FailureOf
<1> QED
  BY <1>2, <1>3, <1>4 DEF Rightly

-----------------------------------------------------------------------------
(* What a call makes of the path in progress.                              *)

\* A directory above a path that the walk reaches.
LEMMA BelowFacts ==
  ASSUME NEW p \in Seq(Nat), NEW path \in Seq(Nat),
         IsPrefixOf(Root, p), IsPrefixOf(p, path), Clear(path)
  PROVE  /\ Clear(p)
         /\ Reached(path) => Reached(p)
         /\ Reached(path) /\ p # path => IsA(p, "dir") /\ ~Allowed(p)
<1>1. /\ Len(p) \in 0 .. Len(path) /\ Prefix(path, Len(p)) = p
      /\ Len(Root) \in 0 .. Len(p) /\ Prefix(p, Len(Root)) = Root
  BY RootFacts DEF IsPrefixOf
<1>2. \A i \in 0 .. Len(p) : Prefix(p, i) = Prefix(path, i)
  BY <1>1, PrefixFacts
<1>3. Above(p) \subseteq Above(path)
  BY <1>1, <1>2 DEF Above
<1>4. Clear(p)
  BY <1>3 DEF Clear
<1>5. ASSUME Reached(path) PROVE Reached(p)
  <2>1. \A i \in Len(Root) .. Len(path) - 1 :
          IsA(Prefix(path, i), "dir") /\ ~Allowed(Prefix(path, i))
    BY <1>5 DEF Reached
  <2>2. \A i \in Len(Root) .. Len(p) - 1 :
          i \in Len(Root) .. Len(path) - 1 /\ Prefix(p, i) = Prefix(path, i)
    BY <1>1, <1>2
  <2> QED
    BY <2>1, <2>2 DEF Reached
<1>6. ASSUME Reached(path), p # path PROVE IsA(p, "dir") /\ ~Allowed(p)
  <2>1. Len(p) # Len(path)
    BY <1>1, <1>6, PrefixFacts
  <2>2. Len(p) \in Len(Root) .. Len(path) - 1
    BY <1>1, <2>1
  <2>3. IsA(Prefix(path, Len(p)), "dir") /\ ~Allowed(Prefix(path, Len(p)))
    BY <1>6, <2>2 DEF Reached
  <2> QED
    BY <1>1, <2>3
<1> QED
  BY <1>4, <1>5, <1>6

\* Above a path that the walk reaches there are directories only.
LEMMA ReachedBelowDirs ==
  ASSUME RootInv, NEW p \in Seq(Nat), Clear(p), Reached(p)
  PROVE  \A i \in 0 .. Len(p) - 1 : IsA(Prefix(p, i), "dir")
<1> TAKE i \in 0 .. Len(p) - 1
<1>1. /\ Len(Root) \in 0 .. Len(p) /\ Prefix(p, Len(Root)) = Root
      /\ Root \in Seq(Nat)
  BY RootFacts DEF Reached, IsPrefixOf
<1>2. CASE i \in Len(Root) .. Len(p) - 1
  BY <1>2 DEF Reached
<1>3. CASE i \in 0 .. Len(Root) - 1
  <2>1. i \in 0 .. Len(Root) /\ i \in 0 .. Len(p)
    BY <1>1, <1>3
  <2>2. Prefix(Root, i) = Prefix(p, i)
    BY <1>1, <2>1, PrefixFacts
  <2>3. Len(Prefix(Root, i)) = i /\ \A k \in 0 .. i : Prefix(Prefix(Root, i), k) = Prefix(p, k)
    <3>1. /\ Len(Prefix(p, i)) = i
          /\ \A k \in 0 .. i : Prefix(Prefix(p, i), k) = Prefix(p, k)
      BY <2>1, PrefixFacts
    <3> QED
      BY <2>2, <3>1
  <2>4. Above(Prefix(Root, i)) \subseteq Above(p)
    BY <2>1, <2>3 DEF Above
  <2>5. Clear(Prefix(Root, i))
    BY <2>4 DEF Clear
  <2> QED
    BY <1>3, <2>2, <2>5 DEF RootInv
<1> QED
  BY <1>1, <1>2, <1>3

\* Nothing at or below a path is to be reported or scanned.
Ignored(p) ==
  \A path \in Seq(Nat) :
    IsPrefixOf(p, path) => ~(Untouched(path) /\ Reached(path) /\ Due(path) # "nothing")

LEMMA IgnoredFacts ==
  ASSUME NEW p \in Seq(Nat), IsPrefixOf(Root, p),
         Untouched(p) => Due(p) = "nothing",
         Clear(p) => ~IsA(p, "dir") \/ Allowed(p)
  PROVE  Ignored(p)
<1> SUFFICES ASSUME NEW path \in Seq(Nat), IsPrefixOf(p, path),
                    Untouched(path), Reached(path), Due(path) # "nothing"
             PROVE  FALSE
  BY DEF Ignored
<1>1. Clear(path)
  BY UntouchedIsClear
<1>2. CASE path = p
  BY <1>2
<1>3. CASE path # p
  BY <1>1, <1>3, BelowFacts
<1> QED
  BY <1>2, <1>3

\* A step about one path is right: it calls for the next step, or answers what the path
\* calls for, or returns without a word because nothing is called for.
PathRight ==
  /\ doing' \in OnPath => Located(here, doing') /\ Resolves(here, doing', link')
  /\ \/ answers' = answers
     \/ \E a \in Given :
          /\ answers' = Append(answers, a) /\ Rightly(a) /\ a.path = here
          /\ a.is = "Failed" \/ (Clear(here) => ~IsA(here, "dir"))
  /\ doing' = "return" /\ control' = "Continue" /\ answers' = answers => Ignored(here)

\* An answer of a step.
LEMMA AnswersRight ==
  ASSUME WalkInv, NEW is \in Verdict, NEW target \in Seq(Nat), Answer(is, target),
         doing' = "return",
         Clear(here) => Reached(here),
         is = "Failed" \/ (Clear(here) => ~IsA(here, "dir")),
         Untouched(here) =>
           /\ is = "Failed" \/ is = Due(here) \/ (is = "Dangling" /\ IsA(here, "link"))
           /\ is = "scanned" => target = IF IsA(here, "link") THEN EndOf(here) ELSE here
  PROVE  PathRight
<1> DEFINE a == [path |-> here, is |-> is, target |-> target]
<1>1. here \in Seq(Nat) /\ answers \in Seq(Given)
  BY DEF WalkInv, Types
<1>2. a \in Given /\ a.path = here /\ a.is = is /\ a.target = target
  BY <1>1 DEF Given
<1>3. answers' = Append(answers, a)
  BY DEF Answer
<1>4. answers' # answers
  BY <1>1, AnswerTypes
<1> HIDE DEF a
<1>5. Rightly(a)
  BY <1>2, UntouchedIsClear DEF Rightly, FailureOf
<1> QED
  BY <1>2, <1>3, <1>4, <1>5 DEF PathRight, OnPath

\* What lstat says of an untouched path decides whether it is ignored, reported, listed,
\* opened or followed.
LEMMA MetadataRight ==
  ASSUME WalkInv, RightInv, Metadata
  PROVE  PathRight
<1> DEFINE node == Lstat(here)
<1>1. /\ doing = "walk" /\ node # Absent /\ WalkOn(node)
      /\ link' = [NoLink EXCEPT !.current = Clean(here)]
  BY DEF Metadata
<1>2. here \in Seq(Nat) /\ answers \in Seq(Given) /\ TreeTypes
  BY DEF WalkInv, Types
<1>3. IsPrefixOf(Root, here) /\ (Clear(here) => Reached(here))
  BY <1>1 DEF RightInv, Located, OnPath
<1>4. ASSUME Clear(here) PROVE Node(here) = node
  <2>1. \A i \in 0 .. Len(here) - 1 : IsA(Prefix(here, i), "dir")
    BY <1>2, <1>3, <1>4, ReachedBelowDirs DEF RightInv
  <2> QED
    BY <1>2, <2>1, SeenAsItIs
<1> HIDE DEF node
<1>5. Clear(here) => \A kind : IsA(here, kind) <=> node.is = kind
  BY <1>1, <1>4 DEF IsA
<1>6. Untouched(here) => Clear(here)
  BY UntouchedIsClear
<1>7. Clean(here) = here
  <2>1. here \in Seq(Nat \cup {Up})
    BY <1>2
  <2> QED
    BY <1>2, <2>1, CleanFacts
<1>8. link' = [current |-> here, visited |-> {}, hops |-> 0, at |-> 0]
  BY <1>1, <1>7 DEF NoLink
<1>9. link'.current = here /\ link'.visited = {} /\ link'.hops = 0
  BY <1>8
<1>10. ASSUME Untouched(here)
       PROVE  Due(here) = IF node.is = "dir" \/ node.size = 0 THEN "nothing"
                          ELSE IF TooBig(node)
                               THEN IF options.report THEN "TooBig" ELSE "nothing"
                          ELSE IF node.is # "link" THEN Gated(here)
                          ELSE IF options.follow THEN DueOfLink(here) ELSE "nothing"
  BY <1>1, <1>4, <1>6, <1>10 DEF Due
<1>11. ASSUME Return("Continue"), Quietly,
              Untouched(here) => Due(here) = "nothing",
              Clear(here) => ~IsA(here, "dir") \/ Allowed(here)
       PROVE  PathRight
  <2>1. Ignored(here)
    BY <1>2, <1>3, <1>11, IgnoredFacts
  <2> QED
    BY <1>11, <2>1 DEF PathRight, Quietly, Return, OnPath
<1>12. CASE node.is = "dir"
  <2>1. CASE Allowed(here) /\ Return("Continue") /\ Quietly
    BY <1>10, <1>11, <1>12, <2>1
  <2>2. CASE ~Allowed(here) /\ Do("readDir") /\ Quietly
    <3>1. Located(here, "readDir")
      BY <1>3, <1>5, <1>12, <2>2 DEF Located, Resolved
    <3>2. Resolves(here, "readDir", link')
      BY DEF Resolves
    <3> QED
      BY <2>2, <3>1, <3>2 DEF PathRight, Quietly, Do, OnPath
  <2> QED
    BY <1>1, <1>12, <2>1, <2>2 DEF WalkOn
<1>13. CASE node.is # "dir" /\ node.size = 0
  <2>1. Return("Continue") /\ Quietly
    BY <1>1, <1>13 DEF WalkOn
  <2> QED
    BY <1>5, <1>10, <1>11, <1>13, <2>1
<1>14. CASE node.is # "dir" /\ node.size # 0 /\ TooBig(node)
  <2>1. CASE options.report /\ Report("TooBig")
    <3>1. "TooBig" \in Verdict /\ Answer("TooBig", here) /\ doing' = "return"
      BY <2>1 DEF Report, Return, Verdict
    <3> QED
      BY <1>2, <1>3, <1>5, <1>6, <1>10, <1>14, <2>1, <3>1, AnswersRight
  <2>2. CASE ~options.report /\ Return("Continue") /\ Quietly
    BY <1>5, <1>10, <1>11, <1>14, <2>2
  <2> QED
    BY <1>1, <1>14, <2>1, <2>2 DEF WalkOn
<1>15. CASE node.is # "dir" /\ node.size # 0 /\ ~TooBig(node) /\ node.is = "link"
  <2>1. CASE options.follow /\ Do("hop") /\ Quietly
    <3>1. Located(here, "hop")
      BY <1>3, <1>5, <1>15 DEF Located
    <3>2. ASSUME Untouched(here) PROVE FollowedTo(here, "hop", link')
      <4>1. Chain(here)[0] = here
        BY ChainFacts
      <4>2. 0 \in 0 .. MaxHops
        BY DirectoryAssumption
      <4>3. IsA(here, "link") /\ Node(here).size # 0 /\ ~TooBig(Node(here))
        BY <1>4, <1>5, <1>6, <1>15, <3>2
      <4> QED
        BY <1>9, <2>1, <4>1, <4>2, <4>3 DEF FollowedTo
    <3>3. Resolves(here, "hop", link')
      BY <3>2 DEF Resolves
    <3> QED
      BY <2>1, <3>1, <3>3 DEF PathRight, Quietly, Do, OnPath
  <2>2. CASE ~options.follow /\ Return("Continue") /\ Quietly
    BY <1>5, <1>10, <1>11, <1>15, <2>2
  <2> QED
    BY <1>1, <1>15, <2>1, <2>2 DEF WalkOn
<1>16. CASE node.is # "dir" /\ node.size # 0 /\ ~TooBig(node) /\ node.is # "link"
  <2>1. CASE Allowed(here) /\ Return("Continue") /\ Quietly
    BY <1>5, <1>10, <1>11, <1>16, <2>1 DEF Gated
  <2>2. CASE ~Allowed(here) /\ Do("open") /\ Quietly
    <3>1. Located(here, "open")
      BY <1>3, <1>5, <1>16 DEF Located
    <3>2. Resolves(here, "open", link')
      BY <1>5, <1>6, <1>9, <1>10, <1>16, <2>2 DEF Resolves, Opened, Gated
    <3> QED
      BY <2>2, <3>1, <3>2 DEF PathRight, Quietly, Do, OnPath
  <2> QED
    BY <1>1, <1>16, <2>1, <2>2 DEF WalkOn
<1> QED
  BY <1>12, <1>13, <1>14, <1>15, <1>16

\* The call for a link, when nobody touched it.
LEMMA DueOfFollowed ==
  ASSUME NEW p, NEW d, NEW l, FollowedTo(p, d, l)
  PROVE  Due(p) = DueOfLink(p)
BY DEF FollowedTo, Due, IsA

LEMMA FollowedFacts ==
  ASSUME WalkInv, RightInv, doing \in {"hop", "readLink", "target"}
  PROVE  /\ here \in Seq(Nat) /\ TreeTypes
         /\ IsPrefixOf(Root, here) /\ (Clear(here) => Reached(here) /\ ~IsA(here, "dir"))
         /\ Untouched(here) => Clear(here) /\ FollowedTo(here, doing, link)
BY UntouchedIsClear DEF WalkInv, Types, RightInv, Located, Resolves, OnPath, Resolved

\* A round of the loop over the links.
LEMMA HopRight ==
  ASSUME WalkInv, RightInv, Hop
  PROVE  PathRight
<1>1. doing = "hop" /\ HopFrom
  BY DEF Hop
<1>2. /\ here \in Seq(Nat) /\ TreeTypes
      /\ IsPrefixOf(Root, here) /\ (Clear(here) => Reached(here) /\ ~IsA(here, "dir"))
      /\ Untouched(here) => Clear(here) /\ FollowedTo(here, "hop", link)
  BY <1>1, FollowedFacts
<1>3. link.hops \in Nat /\ link.current \in Seq(Nat) /\ link.visited \in SUBSET Seq(Nat)
  BY FollowingFacts DEF WalkInv, Types, LinkTypes
<1>4. /\ "Loop" \in Verdict /\ "Dangling" \in Verdict
      /\ MaxHops \in Nat /\ OsHops \in Nat /\ MaxHops <= OsHops
  BY DirectoryAssumption DEF Verdict
<1>5. ASSUME Untouched(here)
      PROVE  /\ link.hops \in 0 .. MaxHops /\ link.current = Chain(here)[link.hops]
             /\ \A j \in 0 .. link.hops - 1 : FirstLink(Chain(here)[j]) > 0
             /\ \A q \in link.visited : \E j \in 0 .. link.hops - 1 : Chain(here)[j] = q
             /\ IsA(here, "link") /\ Due(here) = DueOfLink(here)
  <2>1. FollowedTo(here, "hop", link)
    BY <1>2, <1>5
  <2>2. Due(here) = DueOfLink(here)
    BY <2>1, DueOfFollowed
  <2>3. \A q \in link.visited : \E j \in 0 .. link.hops - 1 : Chain(here)[j] = q
    BY <1>3, <2>1 DEF FollowedTo
  <2> QED
    BY <2>1, <2>2, <2>3 DEF FollowedTo
<1>6. CASE link.hops = MaxHops /\ Report("Loop")
  <2>1. ASSUME Untouched(here) PROVE Due(here) = "Loop"
    <3>1. ~IsDead(here) /\ IsLoop(here)
      BY <1>5, <1>6, <2>1, LinksOnly
    <3> QED
      BY <1>5, <2>1, <3>1 DEF DueOfLink
  <2>2. Answer("Loop", here) /\ doing' = "return"
    BY <1>6 DEF Report, Return
  <2> QED
    BY <1>2, <1>4, <2>1, <2>2, AnswersRight
<1>7. CASE Report("Dangling")
  <2>1. Answer("Dangling", here) /\ doing' = "return"
    BY <1>7 DEF Report, Return
  <2> QED
    BY <1>2, <1>4, <1>5, <2>1, AnswersRight
<1>8. CASE /\ link.hops # MaxHops /\ FirstLink(link.current) = 0
           /\ Do("target") /\ Quietly /\ UNCHANGED link
  <2>1. Located(here, "target")
    BY <1>2, <1>8 DEF Located, Resolved
  <2>2. ASSUME Untouched(here) PROVE FollowedTo(here, "target", link)
    <3>1. FollowedTo(here, "hop", link)
      BY <1>2, <2>2
    <3>2. link.hops < MaxHops
      BY <1>4, <1>5, <1>8, <2>2
    <3> QED
      BY <1>5, <1>8, <2>2, <3>1, <3>2 DEF FollowedTo
  <2>3. Resolves(here, "target", link)
    BY <2>2 DEF Resolves
  <2> QED
    BY <1>8, <2>1, <2>3 DEF PathRight, Quietly, Do, OnPath
<1>9. CASE link.current \in link.visited /\ Report("Loop")
  <2>1. ASSUME Untouched(here) PROVE Due(here) = "Loop"
    <3>1. PICK j \in 0 .. link.hops - 1 : Chain(here)[j] = link.current
      BY <1>5, <1>9, <2>1
    <3>2. link.hops \in 0 .. OsHops
      BY <1>4, <1>5, <2>1
    <3>3. ~IsDead(here) /\ IsLoop(here)
      <4> DEFINE h == link.hops
      <4>1. /\ h \in 0 .. OsHops /\ j \in 0 .. h - 1 /\ Chain(here)[h] = Chain(here)[j]
            /\ \A k \in 0 .. h - 1 : FirstLink(Chain(here)[k]) > 0
        BY <1>5, <2>1, <3>1, <3>2
      <4> HIDE DEF h
      <4> QED
        BY <4>1, LinksAgain
    <3> QED
      BY <1>5, <2>1, <3>3 DEF DueOfLink
  <2>2. Answer("Loop", here) /\ doing' = "return"
    BY <1>9 DEF Report, Return
  <2> QED
    BY <1>2, <1>4, <2>1, <2>2, AnswersRight
<1>10. CASE /\ link.hops # MaxHops /\ FirstLink(link.current) # 0
            /\ FirstLink(link.current) # -1
            /\ Do("readLink") /\ Quietly
            /\ link' = [link EXCEPT !.visited = @ \cup {link.current},
                                    !.at = FirstLink(link.current)]
  <2>1. Located(here, "readLink")
    BY <1>2 DEF Located, Resolved
  <2>2. /\ link'.current = link.current /\ link'.hops = link.hops
        /\ link'.visited = link.visited \cup {link.current}
        /\ link'.at = FirstLink(link.current) /\ FirstLink(link.current) > 0
    BY <1>10, HopVisits DEF WalkInv, Types, LinkTypes
  <2>3. ASSUME Untouched(here) PROVE FollowedTo(here, "readLink", link')
    <3>1. FollowedTo(here, "hop", link)
      BY <1>2, <2>3
    <3>2. link.hops < MaxHops /\ link.hops \in 0 .. link.hops
      BY <1>4, <1>5, <1>10, <2>3
    <3>3. \A q \in link'.visited : \E j \in 0 .. link.hops : Chain(here)[j] = q
      BY <1>5, <2>2, <2>3, <3>2
    <3> QED
      BY <1>5, <2>2, <2>3, <3>1, <3>2, <3>3 DEF FollowedTo
  <2>4. Resolves(here, "readLink", link')
    BY <2>3 DEF Resolves
  <2> QED
    BY <1>10, <2>1, <2>4 DEF PathRight, Quietly, Do, OnPath
<1> QED
  BY <1>1, <1>6, <1>7, <1>8, <1>9, <1>10 DEF HopFrom

\* The text of a link is that of the first link in the path, and leads one link further.
LEMMA ReadLinkRight ==
  ASSUME WalkInv, RightInv, ReadLink
  PROVE  PathRight
<1> DEFINE at == link.at
           q == Prefix(link.current, at)
           found == Lstat(q)
<1>1. /\ doing = "readLink"
      /\ IF found # Absent /\ found.is = "link"
         THEN /\ Do("hop") /\ Quietly
              /\ link' = [link EXCEPT !.current = Through(@, link.at, found), !.hops = @ + 1]
         ELSE Report("Dangling") /\ UNCHANGED link
  BY DEF ReadLink
<1>2. /\ here \in Seq(Nat) /\ TreeTypes
      /\ IsPrefixOf(Root, here) /\ (Clear(here) => Reached(here) /\ ~IsA(here, "dir"))
      /\ Untouched(here) => Clear(here) /\ FollowedTo(here, "readLink", link)
  BY <1>1, FollowedFacts
<1>3. /\ link \in Following /\ link.hops \in Nat /\ link.current \in Seq(Nat)
      /\ at \in 1 .. Len(link.current)
  BY <1>1, FollowingFacts DEF WalkInv, Types, LinkTypes
<1>4. /\ "Dangling" \in Verdict
      /\ MaxHops \in Nat /\ OsHops \in Nat /\ MaxHops <= OsHops
  BY DirectoryAssumption DEF Verdict
<1>5. CASE found # Absent /\ found.is = "link"
  <2>1. /\ Do("hop") /\ Quietly
        /\ link' = [link EXCEPT !.current = Through(link.current, link.at, found),
                                !.hops = link.hops + 1]
    BY <1>1, <1>5
  <2>2. IsNode(found)
    BY <1>2, NodeTypes
  <2>3. Through(link.current, at, found) \in Seq(Nat)
    <3> HIDE DEF found, at
    <3> QED
      BY <1>3, <1>5, <2>2, ThroughFacts
  <2>4. /\ link'.current = Through(link.current, at, found) /\ link'.hops = link.hops + 1
        /\ link'.visited = link.visited
    <3> DEFINE current == Through(link.current, at, found)
               hops == link.hops + 1
    <3>1. link' = [link EXCEPT !.current = current, !.hops = hops]
      BY <2>1
    <3>2. current \in Seq(Nat) /\ hops \in Nat
      BY <1>3, <2>3
    <3> HIDE DEF current, hops
    <3>3. link'.current = current /\ link'.hops = hops /\ link'.visited = link.visited
      <4>1. link \in Following
        BY <1>3
      <4> QED
        BY ONLY <3>1, <3>2, <4>1, ReadHops
    <3> QED
      BY ONLY <3>3 DEF current, hops
  <2>5. ASSUME Untouched(here) PROVE FollowedTo(here, "hop", link')
    <3>1. FollowedTo(here, "readLink", link)
      BY <1>2, <2>5
    <3>2. /\ link.hops \in 0 .. MaxHops /\ link.hops < MaxHops
          /\ link.current = Chain(here)[link.hops]
          /\ at = FirstLink(link.current) /\ at > 0
          /\ \A j \in 0 .. link.hops - 1 : FirstLink(Chain(here)[j]) > 0
          /\ \A p \in link.visited : \E j \in 0 .. link.hops : Chain(here)[j] = p
      BY <3>1 DEF FollowedTo
    <3>3. \A i \in 0 .. at - 1 : IsA(Prefix(link.current, i), "dir")
      BY <1>3, <3>2, FirstLinkFacts
    <3>4. found = Node(q)
      <4>1. at \in 0 .. Len(link.current)
        BY <1>3
      <4> HIDE DEF at
      <4>2. /\ q \in Seq(Nat) /\ Len(q) = at
            /\ \A i \in 0 .. at : Prefix(q, i) = Prefix(link.current, i)
        BY <1>3, <4>1, PrefixFacts
      <4> HIDE DEF q
      <4>3. \A i \in 0 .. Len(q) - 1 : IsA(Prefix(q, i), "dir")
        BY <3>3, <4>1, <4>2
      <4> QED
        BY <1>2, <4>2, <4>3, SeenAsItIs
    <3>5. Follow(link.current) = Through(link.current, at, found)
      BY <3>2, <3>4 DEF Follow
    <3>6. link.hops + 1 \in 1 .. OsHops /\ (link.hops + 1) - 1 = link.hops
      BY <1>4, <3>2
    <3>7. Chain(here)[link.hops + 1] = link'.current
      BY <2>4, <3>2, <3>5, <3>6, ChainFacts
    <3>8. link'.hops \in 0 .. MaxHops
      BY <1>4, <2>4, <3>2
    <3>9. \A j \in 0 .. link'.hops - 1 : FirstLink(Chain(here)[j]) > 0
      <4> TAKE j \in 0 .. link'.hops - 1
      <4>1. j \in 0 .. link.hops - 1 \/ j = link.hops
        BY <1>3, <2>4
      <4> QED
        BY <3>2, <4>1
    <3>10. \A p \in link'.visited : \E j \in 0 .. link'.hops : Chain(here)[j] = p /\ j < link'.hops
      <4> TAKE p \in link'.visited
      <4>1. PICK j \in 0 .. link.hops : Chain(here)[j] = p
        BY <2>4, <3>2
      <4>2. j \in 0 .. link'.hops /\ j < link'.hops
        BY <1>3, <2>4, <4>1
      <4> QED
        BY <4>1, <4>2
    <3>11. IsA(here, "link") /\ Node(here).size # 0 /\ ~TooBig(Node(here)) /\ options.follow
      BY <3>1 DEF FollowedTo
    <3>12. link'.current = Chain(here)[link'.hops]
      BY <2>4, <3>7
    <3> HIDE DEF found, q, at
    <3> QED
      BY <3>8, <3>9, <3>10, <3>11, <3>12 DEF FollowedTo
  <2>6. Located(here, "hop")
    BY <1>2 DEF Located, Resolved
  <2>7. Resolves(here, "hop", link')
    BY <2>5 DEF Resolves
  <2> QED
    BY <2>1, <2>6, <2>7 DEF PathRight, Quietly, Do, OnPath
<1>6. CASE ~(found # Absent /\ found.is = "link")
  <2>1. Answer("Dangling", here) /\ doing' = "return"
    BY <1>1, <1>6 DEF Report, Return
  <2>2. Untouched(here) => IsA(here, "link")
    BY <1>2 DEF FollowedTo
  <2> QED
    BY <1>2, <1>4, <2>1, <2>2, AnswersRight
<1> QED
  BY <1>5, <1>6

\* What the last target is decides what becomes of the link.
LEMMA TargetRight ==
  ASSUME WalkInv, RightInv, Target
  PROVE  PathRight
<1> DEFINE node == Stat(link.current)
<1>1. /\ doing = "target" /\ link' = link
      /\ \/ Report("Dangling")
         \/ /\ node # Absent
            /\ IF node.is = "dir" THEN Report("DirectoryLink")
               ELSE Quietly /\ IF Allowed(here) THEN Return("Continue") ELSE Do("open")
  BY DEF Target
<1>2. /\ here \in Seq(Nat) /\ TreeTypes
      /\ IsPrefixOf(Root, here) /\ (Clear(here) => Reached(here) /\ ~IsA(here, "dir"))
      /\ Untouched(here) => Clear(here) /\ FollowedTo(here, "target", link)
  BY <1>1, FollowedFacts
<1>3. link.current \in Seq(Nat)
  BY FollowingFacts DEF WalkInv, Types, LinkTypes
<1>4. "Dangling" \in Verdict /\ "DirectoryLink" \in Verdict /\ MaxHops \in Nat
  BY DirectoryAssumption DEF Verdict
<1>5. ASSUME Untouched(here)
      PROVE  /\ IsA(here, "link") /\ EndOf(here) = link.current
             /\ node = Node(link.current)
             /\ Due(here) = IF IsA(link.current, "dir") THEN "DirectoryLink" ELSE Gated(here)
  <2>1. FollowedTo(here, "target", link)
    BY <1>2, <1>5
  <2>2. /\ link.hops \in 0 .. MaxHops /\ link.hops < MaxHops
        /\ link.current = Chain(here)[link.hops] /\ FirstLink(Chain(here)[link.hops]) = 0
        /\ \A j \in 0 .. link.hops - 1 : FirstLink(Chain(here)[j]) > 0
        /\ IsA(here, "link")
    BY <2>1 DEF FollowedTo
  <2>3. ~IsDead(here) /\ ~IsLoop(here) /\ EndOf(here) = Chain(here)[link.hops]
    <3> DEFINE h == link.hops
    <3>1. /\ h \in 0 .. MaxHops - 1 /\ FirstLink(Chain(here)[h]) = 0
          /\ \A j \in 0 .. h - 1 : FirstLink(Chain(here)[j]) > 0
      BY <1>4, <2>2
    <3> HIDE DEF h
    <3>2. ~IsDead(here) /\ ~IsLoop(here) /\ EndOf(here) = Chain(here)[h]
      BY <1>2, <3>1, LinkEnds
    <3> QED
      BY <3>2 DEF h
  <2>4. End(link.current) = link.current
    BY <1>2, <1>3, <2>2, RestsAtOnce
  <2>5. node = Node(link.current)
    BY <2>2, <2>4 DEF Stat
  <2>6. Due(here) = DueOfLink(here)
    BY <2>1, DueOfFollowed
  <2> QED
    BY <2>2, <2>3, <2>5, <2>6 DEF DueOfLink
<1> HIDE DEF node
<1>6. CASE Report("Dangling")
  <2>1. Answer("Dangling", here) /\ doing' = "return"
    BY <1>6 DEF Report, Return
  <2> QED
    BY <1>2, <1>4, <1>5, <2>1, AnswersRight
<1>7. CASE node # Absent /\ node.is = "dir" /\ Report("DirectoryLink")
  <2>1. Answer("DirectoryLink", here) /\ doing' = "return"
    BY <1>7 DEF Report, Return
  <2>2. Untouched(here) => Due(here) = "DirectoryLink"
    BY <1>5, <1>7 DEF IsA
  <2> QED
    BY <1>2, <1>4, <2>1, <2>2, AnswersRight
<1>8. CASE /\ node # Absent /\ node.is # "dir" /\ Quietly
           /\ Allowed(here) /\ Return("Continue")
  <2>1. Untouched(here) => Due(here) = "nothing"
    BY <1>5, <1>8 DEF IsA, Gated
  <2>2. Ignored(here)
    BY <1>2, <2>1, IgnoredFacts
  <2> QED
    BY <1>8, <2>2 DEF PathRight, Quietly, Return, OnPath
<1>9. CASE node # Absent /\ node.is # "dir" /\ Quietly /\ ~Allowed(here) /\ Do("open")
  <2>1. Located(here, "open")
    BY <1>2 DEF Located, Resolved
  <2>2. Resolves(here, "open", link')
    BY <1>1, <1>5, <1>9 DEF Resolves, Opened, IsA, Gated
  <2> QED
    BY <1>9, <2>1, <2>2 DEF PathRight, Quietly, Do, OnPath
<1> QED
  BY <1>1, <1>6, <1>7, <1>8, <1>9

\* Whatever else is done about a path.
LEMMA PathsRight ==
  ASSUME WalkInv, RightInv, Walk \/ Files \/ ReadDirFails
  PROVE  PathRight
<1>1. "Failed" \in Verdict /\ "scanned" \in Verdict
  BY DEF Verdict
<1>2. here \in Seq(Nat) /\ link.current \in Seq(Nat)
  BY FollowingFacts DEF WalkInv, Types, LinkTypes
<1>3. CASE MetadataFails \/ ReadDirFails
  <2>1. doing \in OnPath /\ Answer("Failed", here) /\ doing' = "return"
    BY <1>3 DEF MetadataFails, ReadDirFails, Report, Return, OnPath
  <2>2. Clear(here) => Reached(here)
    BY <2>1 DEF RightInv, Located
  <2> QED
    BY <1>1, <1>2, <2>1, <2>2, AnswersRight
<1>4. CASE OpenFails
  <2>1. doing \in OnPath /\ Answer("Failed", link.current) /\ doing' = "return"
    BY <1>4 DEF OpenFails, Return, OnPath
  <2>2. Clear(here) => Reached(here)
    BY <2>1 DEF RightInv, Located
  <2> QED
    BY <1>1, <1>2, <2>1, <2>2, AnswersRight
<1>5. CASE OpenFile
  <2>1. doing = "open" /\ doing' = "scan" /\ UNCHANGED <<here, link, answers>>
    BY <1>5 DEF OpenFile, Do
  <2>2. Located(here, "open") /\ Resolves(here, "open", link)
    BY <2>1 DEF RightInv, OnPath
  <2>3. Located(here, "scan") /\ Resolves(here, "scan", link)
    BY <2>2 DEF Located, Resolves, Resolved
  <2> QED
    BY <2>1, <2>3 DEF PathRight
<1>6. CASE Scan
  <2>1. doing = "scan" /\ Answer("scanned", link.current) /\ doing' = "return"
    BY <1>6 DEF Scan, Return
  <2>2. Located(here, "scan") /\ Resolves(here, "scan", link)
    BY <2>1 DEF RightInv, OnPath
  <2>3. Clear(here) => Reached(here) /\ ~IsA(here, "dir")
    BY <2>2 DEF Located, Resolved
  <2>4. Untouched(here) =>
          Due(here) = "scanned" /\ link.current = IF IsA(here, "link") THEN EndOf(here) ELSE here
    BY <2>2 DEF Resolves, Opened
  <2> QED
    BY <1>1, <1>2, <2>1, <2>3, <2>4, AnswersRight
<1> QED
  BY <1>3, <1>4, <1>5, <1>6, MetadataRight, HopRight, ReadLinkRight, TargetRight
  DEF Walk, Files

-----------------------------------------------------------------------------
(* What the walk knows is kept by every step.                              *)

\* Each directory on the stack was there before, or has just been read.
LEMMA DirsSteps ==
  ASSUME WalkInv, [Next]_vars
  PROVE  \A i \in 1 .. Len(stack') :
           \/ \E j \in 1 .. Len(stack) : stack'[i].dir = stack[j].dir
           \/ doing = "readDir" /\ stack'[i].dir = here
<1> DEFINE Kept == \A i \in 1 .. Len(stack') :
                     \E j \in 1 .. Len(stack) : stack'[i].dir = stack[j].dir
<1>1. /\ stack \in Seq(Listing) /\ here \in Seq(Nat)
      /\ doing \in {"list", "children"} => stack # <<>>
      /\ TreeTypes
  BY DEF WalkInv, Types, PlaceInv
<1>2. ASSUME UNCHANGED stack PROVE Kept
  BY <1>1, <1>2
<1>3. ASSUME stack # <<>>, stack' = Front(stack) PROVE Kept
  <2>1. /\ Len(stack) \in Nat /\ Len(stack') = Len(stack) - 1
        /\ \A i \in 1 .. Len(stack) - 1 : stack'[i] = stack[i]
    BY <1>1, <1>3, TopFacts
  <2> QED
    BY <2>1
<1>4. ASSUME stack # <<>>, NEW unread, NEW children, TopIs(stack', stack, unread, children)
      PROVE  Kept
  <2>1. /\ Len(stack') = Len(stack) /\ \A i \in 1 .. Len(stack) : stack'[i].dir = stack[i].dir
    BY <1>1, <1>4, ComingUnder
  <2> QED
    BY <2>1
<1>5. CASE ListEntry \/ EntryFails \/ NextChild
  <2>1. stack # <<>>
    BY <1>1, <1>5 DEF ListEntry, EntryFails, NextChild
  <2>2. CASE stack' = Front(stack)
    BY <1>3, <2>1, <2>2
  <2>3. CASE stack' # Front(stack)
    <3>1. PICK name \in Last(stack).pending \cup Last(stack).children :
            \/ stack' = [stack EXCEPT ![Len(stack)].pending = @ \ {name}]
            \/ stack' = [stack EXCEPT ![Len(stack)].children = @ \ {name}]
            \/ stack' = [stack EXCEPT ![Len(stack)].pending = @ \ {name},
                                      ![Len(stack)].children = @ \cup {name}]
      BY <1>5, <2>3, Zenon DEF ListEntry, EntryFails, NextChild
    <3>2. \E unread, children : TopIs(stack', stack, unread, children)
      BY <2>1, <3>1, EntrySteps DEF WalkInv
    <3> QED
      BY <1>4, <2>1, <3>2
  <2> QED
    BY <2>2, <2>3
<1>6. CASE ReadDir
  <2> DEFINE top == [dir |-> here, pending |-> NamesIn(here), children |-> {}]
  <2>1. doing = "readDir" /\ stack' = Append(stack, top) /\ top.dir = here /\ top \in Listing
    BY <1>1, <1>6, NamesTypes DEF ReadDir, Listing
  <2> HIDE DEF top
  <2>2. /\ Len(stack') = Len(stack) + 1 /\ stack'[Len(stack) + 1] = top
        /\ \A i \in 1 .. Len(stack) : stack'[i] = stack[i]
    BY <1>1, <2>1
  <2>3. \A i \in 1 .. Len(stack') : i \in 1 .. Len(stack) \/ i = Len(stack) + 1
    BY <1>1, <2>2
  <2> QED
    BY <2>1, <2>2, <2>3
<1>7. CASE IsCancelled \/ ReserveFails \/ ChildrenEnd \/ Resume
  <2>1. UNCHANGED stack \/ (stack # <<>> /\ stack' = Front(stack))
    BY <1>1, <1>7 DEF IsCancelled, ReserveFails, ChildrenEnd, Resume
  <2> QED
    BY <1>2, <1>3, <2>1
<1>8. CASE Walk \/ Files \/ ReadDirFails
  BY <1>2, <1>8, PathSteps DEF WalkInv, PathStep
<1>9. CASE UNCHANGED vars \/ Done \/ Change \/ Cancel \/ ListEnds \/ VisitReturns
  BY <1>2, <1>9 DEF Done, vars, Change, Cancel, ListEnds, VisitReturns
<1> QED
  BY <1>5, <1>6, <1>7, <1>8, <1>9 DEF Next, Directories

LEMMA RightKept ==
  ASSUME WalkInv, RightInv, [Next]_vars,
         \A i \in 1 .. Len(stack') : IsWalked(stack'[i].dir),
         doing' \in OnPath => Located(here', doing') /\ Resolves(here', doing', link'),
         \/ answers' = answers
         \/ \E a \in Given : answers' = Append(answers, a) /\ Rightly(a)
  PROVE  RightInv'
<1>1. /\ stack' \in Seq(Listing) /\ here' \in Seq(Nat) /\ answers \in Seq(Given)
  <2>1. WalkInv'
    BY Stepping
  <2> QED
    BY <2>1 DEF WalkInv, Types
<1>2. RootInv'
  BY WalkedKept DEF RightInv
<1>3. ASSUME NEW i \in 1 .. Len(stack'), NEW q, q = stack'[i].dir PROVE IsWalked(q)'
  <2>1. q \in Seq(Nat) /\ IsWalked(q)
    BY <1>1, <1>3, ComingTypes
  <2> QED
    BY <2>1, WalkedKept
<1>4. ASSUME NEW p, p = here', NEW d, d = doing', NEW l, l = link', d \in OnPath
      PROVE  Located(p, d)' /\ Resolves(p, d, l)'
  <2>1. p \in Seq(Nat) /\ Located(p, d) /\ Resolves(p, d, l)
    BY <1>1, <1>4
  <2> QED
    BY <2>1, WalkedKept, ResolvesKept
<1>5. ASSUME NEW a \in Given, Rightly(a) PROVE Rightly(a)'
  BY <1>5, RightlyKept
<1>6. \A i \in DOMAIN answers' : answers'[i] \in Given /\ Rightly(answers'[i])
  <2>1. \A i \in DOMAIN answers : answers[i] \in Given /\ Rightly(answers[i])
    BY <1>1 DEF RightInv
  <2>2. CASE answers' = answers
    BY <2>1, <2>2
  <2>3. CASE \E a \in Given : answers' = Append(answers, a) /\ Rightly(a)
    <3>1. PICK a \in Given : answers' = Append(answers, a) /\ Rightly(a)
      BY <2>3
    <3>2. \A i \in DOMAIN answers' :
            answers'[i] = a \/ (i \in DOMAIN answers /\ answers'[i] = answers[i])
      BY <1>1, <3>1
    <3> QED
      BY <2>1, <3>1, <3>2
  <2> QED
    BY <2>2, <2>3
<1>7. ASSUME NEW i \in DOMAIN answers', NEW a, a = answers'[i] PROVE Rightly(a)'
  BY <1>5, <1>6, <1>7
<1>8. (\A i \in 1 .. Len(stack) : IsWalked(stack[i].dir))'
  BY <1>3
<1>9. (doing \in OnPath => Located(here, doing) /\ Resolves(here, doing, link))'
  BY <1>4 DEF OnPath
<1>10. (\A i \in DOMAIN answers : Rightly(answers[i]))'
  BY <1>7
<1> QED
  BY <1>2, <1>8, <1>9, <1>10 DEF RightInv

\* A child of a directory that is being walked is a path that the walk reaches.
LEMMA ChildLocated ==
  ASSUME NEW dir \in Seq(Nat), NEW name \in Nat, IsWalked(dir), NEW p, p = Append(dir, name)
  PROVE  Located(p, "walk")
<1>1. /\ p \in Seq(Nat) /\ Len(p) = Len(dir) + 1 /\ Prefix(p, Len(dir)) = dir
      /\ \A i \in 0 .. Len(dir) : Prefix(p, i) = Prefix(dir, i)
  BY AppendFacts
<1>2. Len(dir) \in Nat /\ Len(Root) \in 0 .. Len(dir) /\ Prefix(dir, Len(Root)) = Root
  BY RootFacts DEF IsWalked, IsPrefixOf
<1>3. IsPrefixOf(Root, p)
  BY <1>1, <1>2 DEF IsPrefixOf
<1>4. Above(dir) \subseteq Above(p)
  BY <1>1 DEF Above
<1>5. ASSUME Clear(p) PROVE Reached(p)
  <2>1. Reached(dir) /\ IsA(dir, "dir") /\ ~Allowed(dir)
    BY <1>4, <1>5 DEF IsWalked, Clear
  <2>2. \A i \in Len(Root) .. Len(p) - 1 : i \in Len(Root) .. Len(dir) - 1 \/ i = Len(dir)
    BY <1>1, <1>2
  <2>3. \A i \in Len(Root) .. Len(dir) - 1 :
          /\ Prefix(p, i) = Prefix(dir, i)
          /\ IsA(Prefix(dir, i), "dir") /\ ~Allowed(Prefix(dir, i))
    BY <1>1, <1>2, <2>1 DEF Reached
  <2> QED
    BY <1>1, <1>3, <2>1, <2>2, <2>3 DEF Reached
<1> QED
  BY <1>3, <1>5 DEF Located, Resolved

LEMMA RightStepping ==
  WalkInv /\ RightInv /\ [Next]_vars => RightInv'
<1> SUFFICES ASSUME WalkInv, RightInv, [Next]_vars PROVE RightInv'
  OBVIOUS
<1>1. /\ stack \in Seq(Listing) /\ here \in Seq(Nat) /\ answers \in Seq(Given)
      /\ doing = "list" => here = Last(stack).dir
      /\ doing \in {"list", "children"} => stack # <<>>
  BY DEF WalkInv, Types, PlaceInv
<1>8. ASSUME stack # <<>>
      PROVE  /\ Last(stack).dir \in Seq(Nat) /\ Last(stack).children \in SUBSET Nat
             /\ IsWalked(Last(stack).dir)
  <2>1. /\ Len(stack) \in 1 .. Len(stack) /\ Last(stack) = stack[Len(stack)]
        /\ Last(stack).dir \in Seq(Nat) /\ Last(stack).children \in SUBSET Nat
    BY <1>1, <1>8, TopFacts
  <2> QED
    BY <2>1 DEF RightInv
<1>2. \A i \in 1 .. Len(stack') : IsWalked(stack'[i].dir)
  <2>1. doing = "readDir" => IsWalked(here)
    BY DEF RightInv, OnPath, Located, IsWalked
  <2> QED
    BY <2>1, DirsSteps DEF RightInv
<1>3. CASE Walk \/ Files \/ ReadDirFails
  <2>1. here' = here
    BY <1>3, PathSteps DEF WalkInv, PathStep
  <2>2. PathRight
    BY <1>3, PathsRight
  <2> QED
    BY <1>2, <2>1, <2>2, RightKept DEF PathRight
<1>4. CASE NextChild
  <2>1. PICK name \in Last(stack).children : here' = Append(Last(stack).dir, name)
    BY <1>4 DEF NextChild
  <2>2. /\ doing = "children" /\ doing' = "walk" /\ answers' = answers
    BY <1>4 DEF NextChild, Do
  <2>3. name \in Nat /\ Last(stack).dir \in Seq(Nat) /\ IsWalked(Last(stack).dir)
    BY <1>1, <1>8, <2>1, <2>2
  <2>4. Located(here', "walk")
    BY <2>1, <2>3, ChildLocated
  <2>5. Resolves(here', "walk", link')
    BY DEF Resolves
  <2> QED
    BY <1>2, <2>2, <2>4, <2>5, RightKept
<1>5. CASE EntryFails \/ ReserveFails
  <2>1. /\ doing = "list" /\ doing' \in {"list", "return"} /\ Answer("Failed", here)
    BY <1>5 DEF EntryFails, ReserveFails, Report, Return
  <2> DEFINE a == [path |-> here, is |-> "Failed", target |-> here]
  <2>2. a \in Given /\ a.path = here /\ a.is = "Failed"
    BY <1>1 DEF Given, Verdict
  <2>3. answers' = Append(answers, a)
    BY <2>1 DEF Answer
  <2> HIDE DEF a
  <2>4. IsWalked(here)
    BY <1>1, <1>8, <2>1
  <2>5. Rightly(a)
    BY <2>2, <2>4, UntouchedIsClear DEF Rightly, IsWalked, FailureOf
  <2> QED
    BY <1>2, <2>1, <2>2, <2>3, <2>5, RightKept DEF OnPath
<1>6. CASE UNCHANGED vars \/ Done \/ Change \/ Cancel
  <2>1. UNCHANGED <<doing, here, link, answers>>
    BY <1>6 DEF Done, vars, Change, Cancel
  <2> QED
    BY <1>2, <2>1, RightKept DEF RightInv
<1>7. CASE IsCancelled \/ ReadDir \/ ListEntry \/ ListEnds \/ ChildrenEnd \/ Resume \/ VisitReturns
  <2>1. answers' = answers /\ doing' \notin OnPath
    BY <1>7 DEF IsCancelled, ReadDir, ListEntry, ListEnds, ChildrenEnd, Resume, VisitReturns,
       Do, Return, OnPath
  <2> QED
    BY <1>2, <2>1, RightKept
<1> QED
  BY <1>3, <1>4, <1>5, <1>6, <1>7 DEF Next, Directories

LEMMA RightInitially ==
  Init => RightInv
<1> SUFFICES ASSUME Init PROVE RightInv
  OBVIOUS
<1>1. /\ stack = <<>> /\ answers = <<>> /\ doing = "walk" /\ here = Root /\ tree \in Trees
  BY DEF Init
<1>2. Root \in Seq(Nat) /\ Len(Root) \in Nat /\ Prefix(Root, Len(Root)) = Root
  BY RootFacts, PrefixFacts
<1>3. RootInv
  <2> SUFFICES ASSUME NEW n \in 0 .. Len(Root) - 1 PROVE IsA(Prefix(Root, n), "dir")
    BY DEF RootInv
  <2>1. Absent # [is |-> "dir"]
    BY TreeAssumption
  <2>2. CASE n = 0
    <3>1. Prefix(Root, n) = <<>>
      BY <1>2, <2>2, PrefixFacts
    <3> QED
      BY <2>1, <3>1 DEF IsA, Node
  <2>3. CASE n # 0
    <3>1. n \in 1 .. Len(Root) - 1
      BY <1>2, <2>3
    <3>2. /\ Prefix(Root, n) \in DOMAIN tree
          /\ tree[Prefix(Root, n)] # Absent /\ tree[Prefix(Root, n)].is = "dir"
      BY <1>1, <3>1, TreeAssumption
    <3>3. Len(Prefix(Root, n)) = n
      BY <1>2, PrefixFacts
    <3>4. Prefix(Root, n) # <<>>
      BY <2>3, <3>3
    <3> QED
      BY <3>2, <3>4 DEF IsA, Node
  <2> QED
    BY <2>2, <2>3
<1>4. Reached(Root) /\ IsPrefixOf(Root, Root)
  BY <1>2 DEF Reached, IsPrefixOf
<1>5. Located(here, doing) /\ Resolves(here, doing, link)
  BY <1>1, <1>4 DEF Located, Resolves, Resolved
<1> QED
  BY <1>1, <1>3, <1>5 DEF RightInv

-----------------------------------------------------------------------------
(* No path is forgotten.                                                   *)

Answered(path) ==
  \E i \in DOMAIN answers :
    \/ answers[i].path = path
    \/ answers[i].is = "Failed" /\ IsPrefixOf(answers[i].path, path)

\* Something at or above the path is in progress, or is a child or an entry to come.
Waiting(path) ==
  \/ doing \in OnPath /\ IsPrefixOf(here, path)
  \/ \E i \in 1 .. Len(stack) : \E q \in Coming(stack, i) : IsPrefixOf(q, path)
  \/ doing = "list" /\ \E c \in Last(stack).pending : IsPrefixOf(Append(here, c), path)

Called(path) == Untouched(path) /\ Reached(path) /\ Due(path) # "nothing"

CoverInv ==
  control = "Continue" =>
    \A path \in DOMAIN tree : Called(path) => Answered(path) \/ Waiting(path)

\* What is called for is called for until someone touches it.
LEMMA CalledKept ==
  ASSUME WalkInv, [Next]_vars, NEW path \in Seq(Nat), Called(path)'
  PROVE  Called(path)
BY UntouchedKept, ClearKept, DueKept DEF Called

\* Answers are only added.
LEMMA AnswersGrow ==
  ASSUME WalkInv, [Next]_vars
  PROVE  /\ answers \in Seq(Given)
         /\ answers' = answers \/ \E a \in Given : answers' = Append(answers, a) /\ a.path = here
<1>1. /\ here \in Seq(Nat) /\ answers \in Seq(Given) /\ "Failed" \in Verdict
  BY DEF WalkInv, Types, Verdict
<1>2. ASSUME NEW is \in Verdict, NEW target \in Seq(Nat), Answer(is, target)
      PROVE  \E a \in Given : answers' = Append(answers, a) /\ a.path = here
  BY <1>1, <1>2 DEF Answer, Given
<1>3. CASE Walk \/ Files \/ ReadDirFails
  BY <1>1, <1>2, <1>3, PathSteps DEF WalkInv, PathStep
<1>4. CASE EntryFails \/ ReserveFails
  BY <1>1, <1>2, <1>4 DEF EntryFails, ReserveFails, Report
<1>5. CASE UNCHANGED vars \/ Done \/ Change \/ Cancel \/ IsCancelled \/ ReadDir \/ ListEntry
           \/ ListEnds \/ NextChild \/ ChildrenEnd \/ Resume \/ VisitReturns
  BY <1>1, <1>5 DEF Done, vars, Change, Cancel, IsCancelled, ReadDir, ListEntry, ListEnds,
     NextChild, ChildrenEnd, Resume, VisitReturns
<1> QED
  BY <1>1, <1>3, <1>4, <1>5 DEF Next, Directories

LEMMA AnsweredKept ==
  ASSUME WalkInv, [Next]_vars, NEW path, Answered(path)
  PROVE  Answered(path)'
<1>1. \A i \in DOMAIN answers : i \in DOMAIN answers' /\ answers'[i] = answers[i]
  BY AnswersGrow
<1> QED
  BY <1>1 DEF Answered

LEMMA AnsweredNow ==
  ASSUME answers \in Seq(Given), NEW a \in Given, answers' = Append(answers, a), NEW path,
         a.path = path \/ (a.is = "Failed" /\ IsPrefixOf(a.path, path))
  PROVE  Answered(path)'
<1>1. Len(answers) + 1 \in DOMAIN answers' /\ answers'[Len(answers) + 1] = a
  OBVIOUS
<1> QED
  BY <1>1 DEF Answered

LEMMA ChildIsBelow ==
  ASSUME NEW dir \in Seq(Nat), NEW c \in Nat, NEW path \in Seq(Nat),
         IsPrefixOf(Append(dir, c), path)
  PROVE  IsPrefixOf(dir, path)
<1> DEFINE q == Append(dir, c)
<1>1. /\ q \in Seq(Nat) /\ Len(q) = Len(dir) + 1 /\ Prefix(q, Len(dir)) = dir
  BY AppendFacts
<1>2. Len(q) <= Len(path) /\ Prefix(path, Len(q)) = q
  BY DEF IsPrefixOf
<1> HIDE DEF q
<1>3. Len(q) \in 0 .. Len(path) /\ Len(dir) \in 0 .. Len(q) /\ Len(dir) <= Len(path)
  BY <1>1, <1>2
<1>4. Prefix(q, Len(dir)) = Prefix(path, Len(dir))
  BY <1>2, <1>3, PrefixFacts
<1> QED
  BY <1>1, <1>3, <1>4 DEF IsPrefixOf

\* A directory below directories is where it is, whoever follows links to it.
LEMMA DirsRest ==
  ASSUME TreeTypes, NEW path \in Seq(Nat),
         \A i \in 0 .. Len(path) : IsA(Prefix(path, i), "dir")
  PROVE  End(path) = path
<1>1. FirstLink(path) \in -1 .. Len(path)
  BY FirstLinkFacts
<1>2. ~(FirstLink(path) > 0)
  <2> SUFFICES ASSUME FirstLink(path) > 0 PROVE FALSE
    OBVIOUS
  <2>1. IsA(Prefix(path, FirstLink(path)), "link")
    BY FirstLinkFacts
  <2>2. IsA(Prefix(path, FirstLink(path)), "dir")
    BY <1>1
  <2> QED
    BY <2>1, <2>2 DEF IsA
<1>3. FirstLink(path) <= 0
  BY <1>1, <1>2
<1> QED
  BY <1>3, RestsAtOnce

\* So the entries of a directory that is read lead to everything that is below it.
LEMMA EntryFound ==
  ASSUME WalkInv, RightInv, IsWalked(here), NEW path \in DOMAIN tree,
         Called(path), IsPrefixOf(here, path)
  PROVE  \E c \in NamesIn(here) : IsPrefixOf(Append(here, c), path)
<1>1. /\ here \in Seq(Nat) /\ path \in Seq(Nat) /\ TreeTypes
      /\ RootInv /\ IsPrefixOf(Root, here) /\ Clear(path)
  BY UntouchedIsClear DEF WalkInv, Types, TreeTypes, RightInv, IsWalked, Called
<1>2. Clear(here) /\ Reached(here) /\ IsA(here, "dir")
  BY <1>1, BelowFacts DEF IsWalked
<1>3. End(here) = here
  <2>1. \A i \in 0 .. Len(here) - 1 : IsA(Prefix(here, i), "dir")
    BY <1>1, <1>2, ReachedBelowDirs
  <2>2. Prefix(here, Len(here)) = here /\ Len(here) \in Nat
    BY <1>1, PrefixFacts
  <2>3. \A i \in 0 .. Len(here) : i \in 0 .. Len(here) - 1 \/ i = Len(here)
    BY <2>2
  <2> QED
    BY <1>1, <1>2, <2>1, <2>2, <2>3, DirsRest
<1>4. Due(path) # "nothing" /\ Reached(path)
  BY DEF Called
<1>5. here # path
  BY <1>2, <1>4 DEF Due, IsA
<1> DEFINE n == Len(here) + 1
           q == Prefix(path, n)
           c == path[n]
<1>6. /\ Len(here) \in 0 .. Len(path) /\ Prefix(path, Len(here)) = here
      /\ Len(here) # Len(path)
  BY <1>1, <1>5, PrefixFacts DEF IsPrefixOf
<1>7. n \in 1 .. Len(path) /\ n - 1 = Len(here) /\ c \in Nat
  BY <1>1, <1>6
<1> HIDE DEF n
<1>8. q = Append(here, c)
  BY <1>1, <1>6, <1>7, PrefixGrows
<1>9. q \in Seq(Nat) /\ Len(q) = n /\ IsPrefixOf(q, path)
  BY <1>1, <1>7, PrefixFacts DEF IsPrefixOf
<1>10. Front(q) = here /\ Last(q) = c /\ q # <<>>
  BY <1>1, <1>7, <1>8, AppendFacts
<1> HIDE DEF q, c
<1>11. Node(q) # Absent
  <2>1. CASE q = path
    BY <1>4, <2>1 DEF Due
  <2>2. CASE q # path
    <3>1. IsPrefixOf(Root, q)
      <4>1. Located(q, "walk")
        BY <1>1, <1>7, <1>8, ChildLocated
      <4> QED
        BY <4>1 DEF Located
    <3> QED
      BY <1>1, <1>4, <1>9, <2>2, <3>1, BelowFacts DEF IsA
  <2> QED
    BY <2>1, <2>2
<1>12. q \in DOMAIN tree
  BY <1>10, <1>11 DEF Node
<1>13. c \in NamesIn(here)
  BY <1>3, <1>10, <1>11, <1>12 DEF NamesIn
<1> QED
  BY <1>8, <1>9, <1>13

Met(path) == Answered(path) \/ Waiting(path)

\* What waits goes on waiting when nothing is taken away.
LEMMA WaitingKept ==
  ASSUME WalkInv, [Next]_vars, NEW path, Met(path), UNCHANGED <<stack, here>>,
         doing \in OnPath \cup {"list"} => doing' = doing
  PROVE  Met(path)'
BY AnsweredKept DEF Met, Waiting

\* What waits below the directory on top, and what waits elsewhere.
LEMMA WaitingOnTop ==
  ASSUME WalkInv, stack # <<>>, doing \in {"list", "children"}, NEW path \in Seq(Nat),
         Waiting(path)
  PROVE  \/ \E c \in Last(stack).children : IsPrefixOf(Append(Last(stack).dir, c), path)
         \/ doing = "list" /\ \E c \in Last(stack).pending :
                                IsPrefixOf(Append(Last(stack).dir, c), path)
         \/ \E i \in 1 .. Len(stack) - 1 : \E q \in Coming(stack, i) : IsPrefixOf(q, path)
<1>1. stack \in Seq(Listing) /\ (doing = "list" => here = Last(stack).dir)
  BY DEF WalkInv, Types, PlaceInv
<1>2. Len(stack) \in Nat /\ Len(stack) > 0 /\ Last(stack) = stack[Len(stack)]
  BY <1>1, TopFacts
<1>3. doing \notin OnPath
  BY DEF OnPath
<1>4. ASSUME NEW i \in 1 .. Len(stack), NEW q \in Coming(stack, i), IsPrefixOf(q, path)
      PROVE  \/ \E c \in Last(stack).children : IsPrefixOf(Append(Last(stack).dir, c), path)
             \/ i \in 1 .. Len(stack) - 1
  <2>1. CASE i = Len(stack)
    <3>1. q \in {Append(Last(stack).dir, c) : c \in Last(stack).children}
      BY <1>2, <1>4, <2>1 DEF Coming
    <3> QED
      BY <1>4, <3>1
  <2>2. CASE i # Len(stack)
    BY <1>2, <2>2
  <2> QED
    BY <2>1, <2>2
<1> QED
  BY <1>1, <1>3, <1>4 DEF Waiting

\* A step about one path ends with an answer to it, or when nothing below it is called for.
LEMMA CoverPath ==
  ASSUME WalkInv, RightInv, [Next]_vars, Walk \/ Files \/ ReadDirFails, control' = "Continue",
         NEW path \in DOMAIN tree, Called(path), Met(path)
  PROVE  Met(path)'
<1>1. /\ doing \in OnPath /\ doing' \in OnPath \cup {"return"}
      /\ here' = here /\ stack' = stack
  BY PathSteps DEF WalkInv, PathStep
<1>2. PathRight
  BY PathsRight
<1>3. path \in Seq(Nat) /\ here \in Seq(Nat) /\ Clear(path) /\ doing # "list"
  BY <1>1, UntouchedIsClear DEF WalkInv, Types, TreeTypes, Called, OnPath
<1>4. CASE Answered(path)
  BY <1>4, AnsweredKept DEF Met
<1>5. CASE \E i \in 1 .. Len(stack) : \E q \in Coming(stack, i) : IsPrefixOf(q, path)
  BY <1>1, <1>5 DEF Met, Waiting
<1>6. CASE IsPrefixOf(here, path)
  <2>1. CASE doing' \in OnPath
    BY <1>1, <1>6, <2>1 DEF Met, Waiting
  <2>2. CASE doing' = "return" /\ answers' = answers
    <3>1. Ignored(here)
      BY <1>2, <2>2 DEF PathRight
    <3> QED
      BY <1>3, <1>6, <3>1 DEF Ignored, Called
  <2>3. CASE answers' # answers
    <3>1. PICK a \in Given : /\ answers' = Append(answers, a) /\ a.path = here
                             /\ a.is = "Failed" \/ (Clear(here) => ~IsA(here, "dir"))
      BY <1>2, <2>3 DEF PathRight
    <3>2. CASE a.is = "Failed"
      BY <1>6, <3>1, <3>2, AnswersGrow, AnsweredNow DEF Met
    <3>3. CASE Clear(here) => ~IsA(here, "dir")
      <4>1. IsPrefixOf(Root, here)
        BY <1>1 DEF RightInv, Located
      <4>2. here = path
        BY <1>3, <1>6, <3>3, <4>1, BelowFacts DEF Called
      <4> QED
        BY <3>1, <4>2, AnswersGrow, AnsweredNow DEF Met
    <3> QED
      BY <3>1, <3>2, <3>3
  <2> QED
    BY <1>1, <2>1, <2>2, <2>3
<1> QED
  BY <1>1, <1>3, <1>4, <1>5, <1>6 DEF Met, Waiting

\* What is below a directory that is read is below one of its entries.
LEMMA CoverRead ==
  ASSUME WalkInv, RightInv, [Next]_vars, ReadDir,
         NEW path \in DOMAIN tree, Called(path), Met(path)
  PROVE  Met(path)'
<1> DEFINE top == [dir |-> here, pending |-> NamesIn(here), children |-> {}]
<1>1. /\ doing = "readDir" /\ doing' = "list" /\ here' = here
      /\ stack' = Append(stack, top)
  BY DEF ReadDir, Do
<1>2. /\ stack \in Seq(Listing) /\ here \in Seq(Nat) /\ path \in Seq(Nat)
      /\ top \in Listing /\ top.dir = here /\ top.pending = NamesIn(here)
  BY NamesTypes DEF WalkInv, Types, TreeTypes, Listing
<1> HIDE DEF top
<1>3. /\ Len(stack') = Len(stack) + 1 /\ Len(stack) \in Nat /\ Last(stack') = top
      /\ \A i \in 1 .. Len(stack) : stack'[i] = stack[i]
  BY <1>1, <1>2 DEF Last
<1>4. CASE Answered(path)
  BY <1>4, AnsweredKept DEF Met
<1>5. CASE \E i \in 1 .. Len(stack) : \E q \in Coming(stack, i) : IsPrefixOf(q, path)
  <2>1. \A i \in 1 .. Len(stack) : i \in 1 .. Len(stack') /\ Coming(stack', i) = Coming(stack, i)
    BY <1>3 DEF Coming
  <2> QED
    BY <1>5, <2>1 DEF Met, Waiting
<1>6. CASE IsPrefixOf(here, path)
  <2>1. IsWalked(here)
    BY <1>1 DEF RightInv, Located, IsWalked, OnPath
  <2>2. PICK c \in NamesIn(here) : IsPrefixOf(Append(here, c), path)
    BY <1>6, <2>1, EntryFound
  <2> QED
    BY <1>1, <1>2, <1>3, <2>2 DEF Met, Waiting
<1> QED
  BY <1>1, <1>4, <1>5, <1>6 DEF Met, Waiting

\* Below the directory on top nothing else changes.
LEMMA CoverBelowTop ==
  ASSUME WalkInv, stack # <<>>,
         \/ stack' = Front(stack)
         \/ \E unread, children : TopIs(stack', stack, unread, children)
  PROVE  \A i \in 1 .. Len(stack) - 1 : i \in 1 .. Len(stack') /\ Coming(stack', i) = Coming(stack, i)
<1>1. stack \in Seq(Listing)
  BY DEF WalkInv, Types
<1>2. Len(stack) \in Nat /\ Len(stack) > 0
  BY <1>1, TopFacts
<1>3. CASE stack' = Front(stack)
  <2>1. Len(stack') = Len(stack) - 1 /\ \A i \in 1 .. Len(stack) - 1 : stack'[i] = stack[i]
    BY <1>1, <1>3, TopFacts
  <2> QED
    BY <1>2, <2>1 DEF Coming
<1>4. CASE \E unread, children : TopIs(stack', stack, unread, children)
  <2>1. Len(stack') = Len(stack) /\ \A i \in 1 .. Len(stack) - 1 : stack'[i] = stack[i]
    BY <1>4 DEF TopIs
  <2> QED
    BY <1>2, <2>1 DEF Coming
<1> QED
  BY <1>3, <1>4

LEMMA TopComing ==
  ASSUME stack \in Seq(Listing), stack # <<>>, NEW unread, NEW children,
         TopIs(stack', stack, unread, children)
  PROVE  /\ Len(stack') = Len(stack) /\ Len(stack) \in 1 .. Len(stack)
         /\ \A c \in children : Append(Last(stack).dir, c) \in Coming(stack', Len(stack))
         /\ Last(stack').pending = unread
<1>1. /\ Len(stack') = Len(stack) /\ Len(stack) \in Nat /\ Len(stack) > 0
      /\ Coming(stack', Len(stack)) = {Append(Last(stack).dir, c) : c \in children}
  BY ComingUnder
<1>2. Last(stack').pending = unread
  BY DEF TopIs
<1> QED
  BY <1>1, <1>2

\* An entry that is retained becomes a child.
LEMMA CoverListEntry ==
  ASSUME WalkInv, [Next]_vars, ListEntry, NEW path \in Seq(Nat), Met(path)
  PROVE  Met(path)'
<1>1. /\ stack \in Seq(Listing) /\ stack # <<>> /\ here = Last(stack).dir
      /\ doing = "list" /\ doing' = "list" /\ here' = here
  BY DEF WalkInv, Types, PlaceInv, ListEntry
<1>2. PICK name \in Last(stack).pending :
        stack' = [stack EXCEPT ![Len(stack)].pending = @ \ {name},
                               ![Len(stack)].children = @ \cup {name}]
  BY DEF ListEntry
<1>3. TopIs(stack', stack, Last(stack).pending \ {name}, Last(stack).children \cup {name})
  BY <1>1, <1>2, EntrySteps DEF WalkInv
<1>4. /\ Len(stack') = Len(stack) /\ Len(stack) \in 1 .. Len(stack)
      /\ \A c \in Last(stack).children \cup {name} :
           Append(Last(stack).dir, c) \in Coming(stack', Len(stack))
      /\ Last(stack').pending = Last(stack).pending \ {name}
  BY <1>1, <1>3, TopComing
<1>5. \A i \in 1 .. Len(stack) - 1 : i \in 1 .. Len(stack') /\ Coming(stack', i) = Coming(stack, i)
  BY <1>1, <1>3, CoverBelowTop
<1>6. CASE Answered(path)
  BY <1>6, AnsweredKept DEF Met
<1>7. ASSUME NEW c \in Last(stack).children \cup {name}, IsPrefixOf(Append(Last(stack).dir, c), path)
      PROVE  Met(path)'
  <2>1. Append(Last(stack).dir, c) \in Coming(stack', Len(stack))
    BY <1>4
  <2> QED
    BY <1>4, <1>7, <2>1 DEF Met, Waiting
<1>8. ASSUME NEW c \in Last(stack).pending, c # name, IsPrefixOf(Append(Last(stack).dir, c), path)
      PROVE  Met(path)'
  BY <1>1, <1>4, <1>8 DEF Met, Waiting
<1>9. ASSUME NEW i \in 1 .. Len(stack) - 1, NEW q \in Coming(stack, i), IsPrefixOf(q, path)
      PROVE  Met(path)'
  BY <1>5, <1>9 DEF Met, Waiting
<1> QED
  BY <1>1, <1>6, <1>7, <1>8, <1>9, WaitingOnTop DEF Met

\* What cannot be listed has been reported, at the directory above it.
LEMMA CoverFails ==
  ASSUME WalkInv, [Next]_vars, EntryFails \/ ReserveFails, NEW path \in Seq(Nat), Met(path)
  PROVE  Met(path)'
<1>1. /\ stack \in Seq(Listing) /\ here \in Seq(Nat) /\ stack # <<>> /\ here = Last(stack).dir
      /\ doing = "list" /\ Answer("Failed", here)
  BY DEF WalkInv, Types, PlaceInv, EntryFails, ReserveFails, Report
<1>2. \/ stack' = Front(stack)
      \/ \E name \in Last(stack).pending : stack' = [stack EXCEPT ![Len(stack)].pending = @ \ {name}]
  BY DEF EntryFails, ReserveFails
<1>3. \/ stack' = Front(stack)
      \/ \E unread, children : TopIs(stack', stack, unread, children)
  BY <1>1, <1>2, EntrySteps DEF WalkInv
<1>4. \A i \in 1 .. Len(stack) - 1 : i \in 1 .. Len(stack') /\ Coming(stack', i) = Coming(stack, i)
  BY <1>1, <1>3, CoverBelowTop
<1>5. CASE Answered(path)
  BY <1>5, AnsweredKept DEF Met
<1>6. CASE IsPrefixOf(here, path)
  <2> DEFINE a == [path |-> here, is |-> "Failed", target |-> here]
  <2>1. a \in Given /\ a.path = here /\ a.is = "Failed" /\ answers' = Append(answers, a)
    BY <1>1 DEF Given, Verdict, Answer
  <2> HIDE DEF a
  <2> QED
    BY <1>6, <2>1, AnswersGrow, AnsweredNow DEF Met
<1>7. ASSUME NEW c \in Last(stack).children \cup Last(stack).pending,
             IsPrefixOf(Append(Last(stack).dir, c), path)
      PROVE  IsPrefixOf(here, path)
  <2>1. c \in Nat
    BY <1>1, TopFacts
  <2> QED
    BY <1>1, <1>7, <2>1, ChildIsBelow
<1>8. ASSUME NEW i \in 1 .. Len(stack) - 1, NEW q \in Coming(stack, i), IsPrefixOf(q, path)
      PROVE  Met(path)'
  BY <1>4, <1>8 DEF Met, Waiting
<1> QED
  BY <1>1, <1>5, <1>6, <1>7, <1>8, WaitingOnTop DEF Met

\* The child that is walked is the path in progress, and the others go on waiting.
LEMMA CoverNextChild ==
  ASSUME WalkInv, [Next]_vars, NextChild, NEW path \in Seq(Nat), Met(path)
  PROVE  Met(path)'
<1>1. /\ stack \in Seq(Listing) /\ stack # <<>> /\ doing = "children" /\ doing' = "walk"
  BY DEF WalkInv, Types, PlaceInv, NextChild, Do
<1>2. PICK name \in Last(stack).children :
        /\ here' = Append(Last(stack).dir, name)
        /\ stack' = [stack EXCEPT ![Len(stack)].children = @ \ {name}]
  BY DEF NextChild
<1>3. TopIs(stack', stack, Last(stack).pending, Last(stack).children \ {name})
  BY <1>1, <1>2, EntrySteps DEF WalkInv
<1>4. /\ Len(stack') = Len(stack) /\ Len(stack) \in 1 .. Len(stack)
      /\ \A c \in Last(stack).children \ {name} :
           Append(Last(stack).dir, c) \in Coming(stack', Len(stack))
  BY <1>1, <1>3, TopComing
<1>5. \A i \in 1 .. Len(stack) - 1 : i \in 1 .. Len(stack') /\ Coming(stack', i) = Coming(stack, i)
  BY <1>1, <1>3, CoverBelowTop
<1>6. CASE Answered(path)
  BY <1>6, AnsweredKept DEF Met
<1>7. ASSUME NEW c \in Last(stack).children, IsPrefixOf(Append(Last(stack).dir, c), path)
      PROVE  Met(path)'
  <2>1. CASE c = name
    BY <1>1, <1>2, <1>7, <2>1 DEF Met, Waiting, OnPath
  <2>2. CASE c # name
    <3>1. Append(Last(stack).dir, c) \in Coming(stack', Len(stack))
      BY <1>4, <2>2
    <3> QED
      BY <1>4, <1>7, <3>1 DEF Met, Waiting
  <2> QED
    BY <2>1, <2>2
<1>8. ASSUME NEW i \in 1 .. Len(stack) - 1, NEW q \in Coming(stack, i), IsPrefixOf(q, path)
      PROVE  Met(path)'
  BY <1>5, <1>8 DEF Met, Waiting
<1> QED
  BY <1>1, <1>6, <1>7, <1>8, WaitingOnTop DEF Met

\* A directory is left when none of its children is to come.
LEMMA CoverChildrenEnd ==
  ASSUME WalkInv, [Next]_vars, ChildrenEnd, NEW path \in Seq(Nat), Met(path)
  PROVE  Met(path)'
<1>1. /\ stack # <<>> /\ doing = "children" /\ Last(stack).children = {}
      /\ stack' = Front(stack)
  BY DEF WalkInv, PlaceInv, ChildrenEnd
<1>2. \A i \in 1 .. Len(stack) - 1 : i \in 1 .. Len(stack') /\ Coming(stack', i) = Coming(stack, i)
  BY <1>1, CoverBelowTop
<1>3. CASE Answered(path)
  BY <1>3, AnsweredKept DEF Met
<1>4. ASSUME NEW i \in 1 .. Len(stack) - 1, NEW q \in Coming(stack, i), IsPrefixOf(q, path)
      PROVE  Met(path)'
  BY <1>2, <1>4 DEF Met, Waiting
<1> QED
  BY <1>1, <1>3, <1>4, WaitingOnTop DEF Met

LEMMA CoverStepping ==
  WalkInv /\ RightInv /\ CoverInv /\ [Next]_vars => CoverInv'
<1> SUFFICES ASSUME WalkInv, RightInv, CoverInv, [Next]_vars, control' = "Continue",
                    NEW path \in DOMAIN tree', Called(path)'
             PROVE  Met(path)'
  BY DEF CoverInv, Met
<1>1. path \in DOMAIN tree /\ path \in Seq(Nat)
  BY NodesKept DEF WalkInv, Types, TreeTypes
<1>2. Called(path)
  BY <1>1, CalledKept
<1>3. control = "Continue"
  BY ControlSteps DEF vars
<1>4. Met(path)
  BY <1>1, <1>2, <1>3 DEF CoverInv, Met
<1>5. CASE Walk \/ Files \/ ReadDirFails
  BY <1>1, <1>2, <1>4, <1>5, CoverPath
<1>6. CASE ReadDir
  BY <1>1, <1>2, <1>4, <1>6, CoverRead
<1>7. CASE ListEntry
  BY <1>1, <1>4, <1>7, CoverListEntry
<1>8. CASE EntryFails \/ ReserveFails
  BY <1>1, <1>4, <1>8, CoverFails
<1>9. CASE NextChild
  BY <1>1, <1>4, <1>9, CoverNextChild
<1>10. CASE ChildrenEnd
  BY <1>1, <1>4, <1>10, CoverChildrenEnd
<1>11. CASE ListEnds
  <2>1. /\ doing = "list" /\ Last(stack).pending = {} /\ UNCHANGED <<stack, here, answers>>
    BY <1>11 DEF ListEnds
  <2> QED
    BY <1>4, <2>1 DEF Met, Answered, Waiting, OnPath
<1>12. CASE Resume \/ VisitReturns
  <2>1. doing = "return" /\ UNCHANGED <<stack, here>>
    BY <1>3, <1>12 DEF Resume, VisitReturns
  <2> QED
    BY <1>4, <2>1, WaitingKept DEF OnPath
<1>13. CASE UNCHANGED vars \/ Done \/ Change \/ Cancel
  <2>1. UNCHANGED <<doing, stack, here>>
    BY <1>13 DEF Done, vars, Change, Cancel
  <2> QED
    BY <1>4, <2>1, WaitingKept
<1>14. ~IsCancelled
  BY DEF IsCancelled, Return
<1> QED
  BY <1>5, <1>6, <1>7, <1>8, <1>9, <1>10, <1>11, <1>12, <1>13, <1>14 DEF Next, Directories

LEMMA CoverInitially ==
  Init => CoverInv
<1> SUFFICES ASSUME Init, NEW path, Called(path) PROVE Waiting(path)
  BY DEF CoverInv
<1>1. doing = "walk" /\ here = Root
  BY DEF Init
<1>2. IsPrefixOf(Root, path)
  BY DEF Called, Reached
<1> QED
  BY <1>1, <1>2 DEF Waiting, OnPath

LEMMA NothingForgotten ==
  WalkInv /\ RightInv /\ CoverInv => EveryPathAnswered
<1> SUFFICES ASSUME WalkInv, RightInv, CoverInv PROVE EveryPathAnswered
  OBVIOUS
<1>1. ASSUME doing = "done", control = "Continue", NEW path \in DOMAIN tree, Called(path)
      PROVE  Answered(path)
  <2>1. stack = <<>> /\ doing \notin OnPath /\ doing # "list"
    BY <1>1 DEF WalkInv, PlaceInv, OnPath
  <2>2. Len(stack) = 0
    BY <2>1
  <2> QED
    BY <1>1, <2>1, <2>2 DEF CoverInv, Waiting
<1> QED
  BY <1>1 DEF EveryPathAnswered, RightInv, Rightly, Answered, Called

\* For every tree, every option and whatever other programs change: what is made of a
\* path that nobody touches is what it calls for, and a visit that ends normally
\* has answered every such path, or failed on a directory above it.
THEOREM PathsAreAnswered == Spec => []EveryPathAnswered
<1>1. Init => WalkInv /\ RightInv /\ CoverInv
  BY Initially, RightInitially, CoverInitially
<1>2. WalkInv /\ RightInv /\ CoverInv /\ [Next]_vars => (WalkInv /\ RightInv /\ CoverInv)'
  BY Stepping, RightStepping, CoverStepping
<1> QED
  BY <1>1, <1>2, NothingForgotten, PTL DEF Spec

-----------------------------------------------------------------------------
(* The fragments of a file.                                                *)

EndIn(d, i) == IF i = 0 THEN 0 ELSE d[i].bytes[Len(d[i].bytes)]
Total(d) == EndIn(d, Len(d))

LineFeedsIn(f, n) == {p \in 1 .. n : f[p] = "lf"}

White(f, p) == f[p] \in {"lf", "space"}

\* Two line feeds with nothing but white space from the first one on.
Safe(f, bytes) ==
  \E i \in 1 .. Len(bytes) :
    LET suffix == SubSeq(bytes, i, Len(bytes)) IN
      /\ \A j \in 1 .. Len(suffix) : White(f, suffix[j])
      /\ Cardinality({k \in 1 .. Len(suffix) : f[suffix[k]] = "lf"}) >= 2

SplitWell(f, bytes, n) ==
  /\ Len(bytes) <= n + MaxReadAhead
  /\ \/ Safe(f, bytes)
     \/ Len(bytes) = n + MaxReadAhead
     \/ bytes[Len(bytes)] = Len(f)

\* The fragments are consecutive pieces from the start of the file, each one with the right
\* line and split where it may be.
Good(f, d) ==
  \A i \in 1 .. Len(d) :
    /\ d[i].bytes # <<>>
    /\ Follows(d[i].bytes, EndIn(d, i - 1))
    /\ d[i].startLine = 1 + Cardinality(LineFeedsIn(f, EndIn(d, i - 1)))
    /\ SplitWell(f, d[i].bytes, d[i].nominal)

Building == {"allocate", "boundary", "readByte", "emit"}

\* What is in hand follows what was delivered, up to what was taken from the reader.
InHand ==
  /\ Follows(chunk, Total(delivered))
  /\ Follows(buffered, Total(delivered) + Len(chunk))
  /\ taken = Total(delivered) + Len(chunk) + Len(buffered)

ChunkPlace ==
  /\ pc \in {"start", "top", "read"} => chunk = <<>>
  /\ pc \in Building => chunk # <<>> /\ Len(chunk) <= nominal + MaxReadAhead
  /\ pc = "readByte" => Len(chunk) < nominal + MaxReadAhead
  /\ pc = "allocate" => newlines = 0
  /\ pc # "done" => result = None

\* The end of the file is only known when everything has been taken.
EofInv ==
  /\ pending = "Eof" => taken = Len(file)
  /\ pc \in Building /\ status = "Eof" => taken = Len(file) /\ buffered = <<>>

\* A counted line feed is followed by white space only, up to the n-th byte.
Lone(f, bytes, n) ==
  \E a \in 1 .. n : f[bytes[a]] = "lf" /\ \A j \in a .. n : White(f, bytes[j])

SearchInv ==
  /\ pc = "boundary" /\ newlines = 1 => Lone(file, chunk, Len(chunk) - 1)
  /\ pc = "readByte" /\ newlines = 1 => Lone(file, chunk, Len(chunk))
  /\ pc = "emit" => SplitWell(file, chunk, nominal)

LinesInv == totalLines = Cardinality(LineFeedsIn(file, Total(delivered)))

EndedInv == result = "Ended" => Total(delivered) = Len(file)

FileInv ==
  /\ TypeOK /\ Good(file, delivered) /\ InHand
  /\ ChunkPlace /\ EofInv /\ SearchInv /\ LinesInv /\ EndedInv

-----------------------------------------------------------------------------
(* Lemmas about bytes, lines and ends.                                     *)

\* The invariant says what the properties say.
LEMMA InvariantImplies ==
  FileInv => NoGapNoOverlap /\ SplitIsSafe /\ NothingSilentlyMissing
<1> SUFFICES ASSUME FileInv PROVE NoGapNoOverlap /\ SplitIsSafe /\ NothingSilentlyMissing
  OBVIOUS
<1>1. \A i : FragmentEnd(i) = EndIn(delivered, i)
  BY DEF FragmentEnd, EndIn, Last
<1>2. Delivered = Total(delivered)
  BY <1>1 DEF Delivered, Total
<1>3. NoGapNoOverlap
  BY <1>1, <1>2 DEF FileInv, Good, InHand, NoGapNoOverlap, LineFeedsIn
<1>4. ASSUME NEW bytes PROVE SuffixIsSafe(bytes) <=> Safe(file, bytes)
  BY DEF SuffixIsSafe, Safe, IsWhite, White, LineFeeds
<1>5. SplitIsSafe
  BY <1>4 DEF FileInv, Good, SplitWell, SplitIsSafe, Last
<1>6. NothingSilentlyMissing
  BY <1>2 DEF FileInv, EndedInv, NothingSilentlyMissing
<1> QED
  BY <1>3, <1>5, <1>6

\* A file is a sequence.
LEMMA FileIsSequence ==
  ASSUME TypeOK
  PROVE  file \in Seq(Byte) /\ Len(file) \in Nat /\ MaxReadAhead \in Nat
BY FileAssumption DEF TypeOK

\* The line feeds up to a position are finitely many, and no more than the position.
LEMMA LinesAreFinite ==
  ASSUME NEW f, NEW n \in Nat
  PROVE  /\ IsFiniteSet(LineFeedsIn(f, n))
         /\ Cardinality(LineFeedsIn(f, n)) \in 0 .. n
<1>1. IsFiniteSet(1 .. n) /\ Cardinality(1 .. n) = n
  BY FS_Interval
<1>2. LineFeedsIn(f, n) \in SUBSET (1 .. n)
  BY DEF LineFeedsIn
<1>3. IsFiniteSet(LineFeedsIn(f, n)) /\ Cardinality(LineFeedsIn(f, n)) <= n
  BY <1>1, <1>2, FS_Subset
<1> QED
  BY <1>3, FS_CardinalityType

\* Bytes that follow a position bring the line feeds that LineFeeds counts.
LEMMA LinesAdd ==
  ASSUME NEW f, NEW after \in Nat, NEW bytes \in Seq(Nat), Follows(bytes, after)
  PROVE  LET count == Cardinality({i \in 1 .. Len(bytes) : f[bytes[i]] = "lf"}) IN
           Cardinality(LineFeedsIn(f, after + Len(bytes))) =
             Cardinality(LineFeedsIn(f, after)) + count
<1> DEFINE new == {i \in 1 .. Len(bytes) : f[bytes[i]] = "lf"}
           moved == {p \in after + 1 .. after + Len(bytes) : f[p] = "lf"}
           shift == [i \in new |-> after + i]
<1>1. IsFiniteSet(1 .. Len(bytes)) /\ new \in SUBSET (1 .. Len(bytes))
  BY FS_Interval
<1>2. IsFiniteSet(new) /\ Cardinality(new) \in Nat
  BY <1>1, FS_Subset, FS_CardinalityType
<1>3. \A i \in 1 .. Len(bytes) : bytes[i] = after + i
  BY DEF Follows
<1>4. \A i \in new : i \in 1 .. Len(bytes) /\ after + i \in moved
  BY <1>3
<1>5. \A p \in moved : p - after \in new /\ after + (p - after) = p
  BY <1>3
<1>6. shift \in Bijection(new, moved)
  <2>1. shift \in [new -> moved]
    BY <1>4
  <2>2. \A i, j \in new : shift[i] = shift[j] => i = j
    BY <1>4
  <2>3. \A p \in moved : \E i \in new : shift[i] = p
    BY <1>5
  <2> QED
    BY <2>1, <2>2, <2>3 DEF Bijection, Injection, Surjection, IsInjective
<1>7. IsFiniteSet(moved) /\ Cardinality(moved) = Cardinality(new)
  BY <1>2, <1>6, FS_Bijection DEF ExistsBijection
<1>8. /\ LineFeedsIn(f, after + Len(bytes)) = LineFeedsIn(f, after) \cup moved
      /\ LineFeedsIn(f, after) \cap moved = {}
  BY DEF LineFeedsIn
<1>9. IsFiniteSet(LineFeedsIn(f, after)) /\ Cardinality(LineFeedsIn(f, after)) \in Nat
  BY LinesAreFinite
<1> HIDE DEF new, moved, shift
<1>10. Cardinality(LineFeedsIn(f, after) \cup moved) =
         Cardinality(LineFeedsIn(f, after)) + Cardinality(moved) - 0
  BY <1>7, <1>8, <1>9, FS_Union, FS_EmptySet
<1>11. Cardinality(LineFeedsIn(f, after + Len(bytes))) =
         Cardinality(LineFeedsIn(f, after)) + Cardinality(new)
  <2>1. Cardinality(LineFeedsIn(f, after + Len(bytes))) =
          Cardinality(LineFeedsIn(f, after) \cup moved)
    BY <1>8
  <2>2. Cardinality(moved) = Cardinality(new) /\ Cardinality(new) \in Nat
    BY <1>2, <1>7
  <2> QED
    BY <1>9, <1>10, <2>1, <2>2
<1> QED
  BY <1>11 DEF new

\* Two different things are two.
LEMMA PairHasTwo ==
  ASSUME NEW a, NEW b, a # b
  PROVE  Cardinality({a, b}) = 2
<1>1. IsFiniteSet({a}) /\ Cardinality({a}) = 1
  BY FS_Singleton
<1>2. Cardinality({a} \cup {b}) = Cardinality({a}) + 1
  BY <1>1, FS_AddElement
<1>3. {a} \cup {b} = {a, b}
  OBVIOUS
<1> QED
  BY <1>1, <1>2, <1>3

\* A second line feed behind a lone one makes the end of the bytes a safe place.
LEMMA SecondLineFeed ==
  ASSUME NEW f, NEW bytes \in Seq(Nat), bytes # <<>>,
         Lone(f, bytes, Len(bytes) - 1), f[bytes[Len(bytes)]] = "lf"
  PROVE  Safe(f, bytes)
<1> DEFINE n == Len(bytes)
<1>1. PICK a \in 1 .. n - 1 :
        f[bytes[a]] = "lf" /\ \A j \in a .. n - 1 : White(f, bytes[j])
  BY DEF Lone
<1> DEFINE suffix == SubSeq(bytes, a, n)
           lfs == {k \in 1 .. Len(suffix) : f[suffix[k]] = "lf"}
<1>2. n \in Nat /\ a \in 1 .. n
  BY <1>1
<1>3. Len(suffix) = n - a + 1 /\ \A k \in 1 .. Len(suffix) : suffix[k] = bytes[a + k - 1]
  BY <1>2
<1>4. \A j \in a .. n : White(f, bytes[j])
  <2> SUFFICES ASSUME NEW j \in a .. n PROVE White(f, bytes[j])
    OBVIOUS
  <2>1. CASE j = n
    BY <2>1 DEF White
  <2>2. CASE j # n
    BY <1>1, <1>2, <2>2
  <2> QED
    BY <2>1, <2>2
<1>5. \A k \in 1 .. Len(suffix) : White(f, suffix[k])
  <2> SUFFICES ASSUME NEW k \in 1 .. Len(suffix) PROVE White(f, suffix[k])
    OBVIOUS
  <2>1. a + k - 1 \in a .. n /\ suffix[k] = bytes[a + k - 1]
    BY <1>2, <1>3
  <2> QED
    BY <1>4, <2>1
<1>6. 1 \in lfs /\ n - a + 1 \in lfs /\ n - a + 1 # 1
  <2>1. 1 \in 1 .. Len(suffix) /\ n - a + 1 \in 1 .. Len(suffix) /\ n - a + 1 # 1
    BY <1>1, <1>2, <1>3
  <2>2. suffix[1] = bytes[a] /\ suffix[n - a + 1] = bytes[n]
    BY <1>2, <1>3, <2>1
  <2> QED
    BY <1>1, <2>1, <2>2
<1>7. Cardinality({1, n - a + 1}) = 2
  BY <1>6, PairHasTwo
<1>8. IsFiniteSet(lfs)
  <2>1. IsFiniteSet(1 .. Len(suffix)) /\ lfs \in SUBSET (1 .. Len(suffix))
    BY <1>2, <1>3, FS_Interval
  <2> QED
    BY <2>1, FS_Subset
<1>9. Cardinality(lfs) >= 2
  <2>1. {1, n - a + 1} \in SUBSET lfs
    BY <1>6
  <2>2. Cardinality({1, n - a + 1}) <= Cardinality(lfs) /\ Cardinality(lfs) \in Nat
    BY <1>8, <2>1, FS_Subset, FS_CardinalityType
  <2> QED
    BY <1>7, <2>2
<1> QED
  BY <1>2, <1>5, <1>9 DEF Safe

\* One more fragment that is good.
LEMMA GoodAppend ==
  ASSUME NEW f, NEW d \in Seq([bytes : Seq(Nat), nominal : Nat, startLine : Nat]), Good(f, d),
         NEW x \in [bytes : Seq(Nat), nominal : Nat, startLine : Nat],
         x.bytes # <<>>, Follows(x.bytes, Total(d)),
         x.startLine = 1 + Cardinality(LineFeedsIn(f, Total(d))),
         SplitWell(f, x.bytes, x.nominal), Total(d) \in Nat
  PROVE  /\ Good(f, Append(d, x))
         /\ Total(Append(d, x)) = Total(d) + Len(x.bytes)
<1> DEFINE e == Append(d, x)
           n == Len(d)
<1>1. Len(e) = n + 1 /\ e[n + 1] = x /\ (\A i \in 1 .. n : e[i] = d[i]) /\ n \in Nat
  OBVIOUS
<1>2. \A i \in 0 .. n : EndIn(e, i) = EndIn(d, i)
  BY <1>1 DEF EndIn
<1>3. Total(d) = EndIn(e, n)
  BY <1>1, <1>2 DEF Total
<1>4. Total(e) = Total(d) + Len(x.bytes)
  <2>1. Total(e) = x.bytes[Len(x.bytes)]
    BY <1>1 DEF Total, EndIn
  <2>2. Len(x.bytes) \in 1 .. Len(x.bytes)
    OBVIOUS
  <2> QED
    BY <2>1, <2>2 DEF Follows
<1> HIDE DEF e, n
<1>5. ASSUME NEW i \in 1 .. n + 1
      PROVE  /\ e[i].bytes # <<>>
             /\ Follows(e[i].bytes, EndIn(e, i - 1))
             /\ e[i].startLine = 1 + Cardinality(LineFeedsIn(f, EndIn(e, i - 1)))
             /\ SplitWell(f, e[i].bytes, e[i].nominal)
  <2>1. CASE i = n + 1
    <3>1. e[i] = x /\ EndIn(e, i - 1) = Total(d)
      BY <1>1, <1>3, <2>1
    <3> QED
      BY <3>1
  <2>2. CASE i # n + 1
    <3>1. i \in 1 .. n /\ i - 1 \in 0 .. n
      BY <1>1, <2>2
    <3>2. e[i] = d[i] /\ EndIn(e, i - 1) = EndIn(d, i - 1)
      BY <1>1, <1>2, <3>1
    <3> QED
      BY <3>1, <3>2 DEF Good, n
  <2> QED
    BY <2>1, <2>2
<1>6. Good(f, e)
  BY <1>1, <1>5 DEF Good
<1> QED
  BY <1>4, <1>6 DEF e

-----------------------------------------------------------------------------
(* The steps.                                                              *)

\* What is in a sequence.
LEMMA SeqElement ==
  ASSUME NEW S, NEW s \in Seq(S), NEW i \in 1 .. Len(s)
  PROVE  s[i] \in S
OBVIOUS

\* A sequence over a set is one over a larger set.
LEMMA SeqWiden ==
  ASSUME NEW S, NEW T, S \subseteq T, NEW s \in Seq(S)
  PROVE  s \in Seq(T)
<1>1. Len(s) \in Nat /\ s = [i \in 1 .. Len(s) |-> s[i]] /\ \A i \in 1 .. Len(s) : s[i] \in T
  OBVIOUS
<1> QED
  BY <1>1

\* Where the invariant holds, everything in hand is made of positions of the file.
LEMMA Amounts ==
  ASSUME FileInv
  PROVE  /\ Total(delivered) \in Nat
         /\ chunk \in Seq(Nat) /\ buffered \in Seq(Nat)
         /\ Len(file) \in Nat /\ taken \in 0 .. Len(file)
         /\ nominal \in Nat /\ newlines \in {0, 1}
         /\ delivered \in Seq([bytes : Seq(Nat), nominal : Nat, startLine : Nat])
<1>1. Len(file) \in Nat /\ taken \in 0 .. Len(file)
  BY FileIsSequence DEF FileInv, TypeOK
<1>2. Position \subseteq Nat
  BY <1>1 DEF Position
<1>3. chunk \in Seq(Nat) /\ buffered \in Seq(Nat)
  BY <1>2, SeqWiden DEF FileInv, TypeOK
<1>4. delivered \in Seq([bytes : Seq(Nat), nominal : Nat, startLine : Nat])
  <2>1. Seq(Position) \subseteq Seq(Nat)
    BY <1>2, SeqWiden
  <2>2. [bytes : Seq(Position), nominal : Nat, startLine : Nat]
          \subseteq [bytes : Seq(Nat), nominal : Nat, startLine : Nat]
    BY <2>1
  <2> QED
    BY <2>2, SeqWiden DEF FileInv, TypeOK
<1>5. Total(delivered) \in Nat
  <2>1. CASE Len(delivered) = 0
    BY <2>1 DEF Total, EndIn
  <2>2. CASE Len(delivered) # 0
    <3> DEFINE last == delivered[Len(delivered)].bytes
    <3>1. Len(delivered) \in 1 .. Len(delivered)
      BY <1>4, <2>2
    <3>2. last \in Seq(Nat)
      <4>1. delivered[Len(delivered)] \in [bytes : Seq(Nat), nominal : Nat, startLine : Nat]
        BY <1>4, <3>1, SeqElement
      <4> QED
        BY <4>1
    <3>3. last # <<>>
      BY <3>1 DEF FileInv, Good
    <3> HIDE DEF last
    <3>4. last[Len(last)] \in Nat
      BY <3>2, <3>3
    <3> QED
      BY <2>2, <3>4 DEF last, Total, EndIn
  <2> QED
    BY <2>1, <2>2
<1>6. nominal \in Nat /\ newlines \in {0, 1}
  BY FileAssumption DEF FileInv, TypeOK
<1> QED
  BY <1>1, <1>3, <1>4, <1>5, <1>6

\* The invariant holds of a visit that has not begun.
LEMMA FileInvInitially == FileInit => FileInv
<1> SUFFICES ASSUME FileInit PROVE FileInv
  OBVIOUS
<1>1. /\ delivered = <<>> /\ chunk = <<>> /\ buffered = <<>> /\ taken = 0 /\ totalLines = 0
      /\ pc = "start" /\ result = None /\ pending = None /\ newlines = 0 /\ nominal = 0
  BY DEF FileInit
<1>2. TypeOK
  <2>1. file \in Seq(Byte) /\ Len(file) \in Nat /\ chunkSize \in Nat
    BY FileAssumption DEF FileInit
  <2>2. /\ chunk \in Seq(Position) /\ buffered \in Seq(Position) /\ Len(buffered) = 0
        /\ delivered \in Seq([bytes : Seq(Position), nominal : Nat, startLine : Nat])
    BY <1>1
  <2>3. Len(buffered) <= ReaderCapacity
    BY <2>2, FileAssumption
  <2>4. nominal \in 0 .. chunkSize /\ totalLines \in 0 .. Len(file) /\ taken \in 0 .. Len(file)
    BY <1>1, <2>1
  <2>5. newlines \in 0 .. 1
    BY <1>1
  <2>8. cancelled \in BOOLEAN /\ reported \in BOOLEAN
    BY DEF FileInit
  <2>6. /\ status \in Status /\ pending \in {None, "Eof", "Error"}
        /\ result \in Results \cup {None}
    BY <1>1 DEF FileInit, Status
  <2>7. /\ file \in UNION {[1 .. n -> Byte] : n \in 0 .. MaxFile}
        /\ chunkSize \in ChunkSizes
    BY DEF FileInit
  <2> QED
    BY <1>1, <2>2, <2>3, <2>4, <2>5, <2>6, <2>7, <2>8, Zenon DEF TypeOK
<1>3. Total(delivered) = 0
  BY <1>1 DEF Total, EndIn
<1>4. Good(file, delivered)
  BY <1>1 DEF Good
<1>5. InHand
  BY <1>1, <1>3 DEF InHand, Follows
<1>6. LinesInv
  <2>1. LineFeedsIn(file, 0) = {}
    BY DEF LineFeedsIn
  <2> QED
    BY <1>1, <1>3, <2>1, FS_EmptySet DEF LinesInv
<1>7. ChunkPlace /\ SearchInv
  BY <1>1 DEF ChunkPlace, SearchInv, Building
<1>8. EofInv /\ EndedInv
  BY <1>1, FileAssumption DEF EofInv, EndedInv, Building, Status, Results
<1> QED
  BY <1>2, <1>4, <1>5, <1>6, <1>7, <1>8 DEF FileInv

\* A step that only moves control keeps the rest of the invariant.
LEMMA QuietKeeps ==
  ASSUME FileInv,
         UNCHANGED <<file, chunkSize, readerVars, chunkVars, totalLines, delivered>>,
         cancelled' \in BOOLEAN, reported' \in BOOLEAN,
         pc' \in {"start", "top", "read", "allocate", "boundary", "readByte", "failed", "emit",
                 "emitError", "emitIssue", "done"},
         result' \in Results \cup {None},
         ChunkPlace', EofInv', SearchInv', result' # result => result' # "Ended"
  PROVE  FileInv'
<1>1. /\ file' = file /\ chunkSize' = chunkSize /\ taken' = taken /\ buffered' = buffered
      /\ pending' = pending /\ chunk' = chunk /\ nominal' = nominal /\ status' = status
      /\ newlines' = newlines /\ totalLines' = totalLines /\ delivered' = delivered
  BY DEF readerVars, chunkVars
<1>2. TypeOK'
  BY <1>1, Zenon DEF FileInv, TypeOK, Position
<1>3. Good(file, delivered)' /\ InHand' /\ LinesInv'
  BY <1>1 DEF FileInv, InHand, LinesInv
<1>4. EndedInv'
  BY <1>1 DEF FileInv, EndedInv
<1> QED
  BY <1>2, <1>3, <1>4 DEF FileInv

\* In particular when it leaves the places where a fragment is built.
LEMMA LeavingKeeps ==
  ASSUME FileInv,
         UNCHANGED <<file, chunkSize, readerVars, chunkVars, totalLines, delivered>>,
         cancelled' \in BOOLEAN, reported' \in BOOLEAN,
         pc' \in {"top", "read", "failed", "emitError", "emitIssue", "done"},
         pc' \in {"top", "read"} => chunk = <<>>,
         pc' # "done" => result' = None,
         result' \in (Results \ {"Ended"}) \cup {None}
  PROVE  FileInv'
<1>1. /\ file' = file /\ taken' = taken /\ buffered' = buffered /\ pending' = pending
      /\ chunk' = chunk /\ nominal' = nominal /\ status' = status /\ newlines' = newlines
  BY DEF readerVars, chunkVars
<1>2. ChunkPlace' /\ SearchInv' /\ EofInv'
  <2>1. pc' \notin Building /\ pc' # "start"
    BY DEF Building
  <2>2. ChunkPlace' /\ SearchInv'
    BY <1>1, <2>1 DEF ChunkPlace, SearchInv, Building
  <2>3. EofInv'
    BY <1>1, <2>1 DEF FileInv, EofInv, Building
  <2> QED
    BY <2>2, <2>3
<1>3. result' # "Ended" /\ result' \in Results \cup {None}
  BY FileAssumption DEF Results
<1> QED
  BY <1>2, <1>3, QuietKeeps

\* Every step that ends the work on a chunk, or has not begun it.
LEMMA LeavingSteps ==
  ASSUME FileInv,
         \/ Start \/ AllocationFails \/ PollToken \/ ReadOverreports \/ BoundaryIsCancelled
         \/ BoundaryOverreports \/ BoundaryFailed \/ EmitIssue
  PROVE  FileInv'
<1>1. /\ cancelled \in BOOLEAN /\ reported \in BOOLEAN
      /\ (pc \in {"start", "top", "read"} => chunk = <<>>) /\ (pc # "done" => result = None)
  BY DEF FileInv, TypeOK, ChunkPlace
<1>2. CASE Start \/ PollToken \/ ReadOverreports
  <2>1. UNCHANGED <<file, chunkSize, readerVars, chunkVars, totalLines, delivered>>
    BY <1>2 DEF Start, PollToken, ReadOverreports, Goto, Returns, outputVars
  <2>2. /\ pc' \in {"top", "read", "emitIssue", "done"}
        /\ cancelled' = cancelled /\ reported' = reported
        /\ chunk = <<>> /\ (pc' # "done" => result' = None) /\ result' \in {None, "Cancelled"}
    BY <1>1, <1>2 DEF Start, PollToken, ReadOverreports, Goto, Returns, outputVars
  <2> QED
    BY <1>1, <2>1, <2>2, LeavingKeeps DEF Results
<1>3. CASE AllocationFails \/ BoundaryIsCancelled \/ BoundaryOverreports \/ BoundaryFailed
  <2>1. UNCHANGED <<file, chunkSize, readerVars, chunkVars, totalLines, delivered>>
    BY <1>3 DEF AllocationFails, BoundaryIsCancelled, BoundaryOverreports, BoundaryFailed,
                Goto, Returns, outputVars
  <2>2. /\ pc' \in {"failed", "emitError", "done"} /\ cancelled' = cancelled /\ reported' = reported
        /\ (pc' # "done" => result' = None) /\ result' \in {None, "Cancelled", "Limit"}
    BY <1>1, <1>3 DEF AllocationFails, BoundaryIsCancelled, BoundaryOverreports, BoundaryFailed,
                      Goto, Returns, outputVars
  <2> QED
    BY <1>1, <2>1, <2>2, LeavingKeeps DEF Results
<1>4. CASE EmitIssue
  <2>1. UNCHANGED <<file, chunkSize, readerVars, chunkVars, totalLines, delivered>>
    BY <1>4 DEF EmitIssue
  <2>2. /\ pc' = "done" /\ cancelled' = cancelled /\ reported' = TRUE
        /\ result' \in {"Failed", "Stop", "Callback"}
    BY <1>4 DEF EmitIssue
  <2> QED
    BY <1>1, <2>1, <2>2, LeavingKeeps DEF Results
<1> QED
  BY <1>2, <1>3, <1>4

\* A raised token changes nothing that was read.
LEMMA CancelKeeps == FileInv /\ CancelVisit => FileInv'
<1> SUFFICES ASSUME FileInv, CancelVisit PROVE FileInv'
  OBVIOUS
<1>1. /\ UNCHANGED <<file, chunkSize, pc, readerVars, chunkVars, outputVars>>
      /\ cancelled' = TRUE
  BY DEF CancelVisit
<1>2. ChunkPlace' /\ EofInv' /\ SearchInv'
  BY <1>1 DEF FileInv, ChunkPlace, EofInv, SearchInv, readerVars, chunkVars, outputVars
<1>3. /\ UNCHANGED <<file, chunkSize, readerVars, chunkVars, totalLines, delivered>>
      /\ pc' = pc /\ result' = result /\ reported' = reported
  BY <1>1 DEF outputVars
<1> QED
  BY <1>1, <1>2, <1>3, QuietKeeps DEF FileInv, TypeOK

\* A chunk without a safe end is searched for one, the other is emitted as it is.
LEMMA AllocateKeeps == FileInv /\ Allocate => FileInv'
<1> SUFFICES ASSUME FileInv, Allocate PROVE FileInv'
  OBVIOUS
<1>1. /\ UNCHANGED <<file, chunkSize, readerVars, chunkVars, totalLines, delivered>>
      /\ cancelled' = cancelled /\ reported' = reported /\ result' = result
      /\ pc = "allocate" /\ pc' \in {"emit", "boundary"}
      /\ (pc' = "emit" => SuffixIsSafe(chunk))
  BY DEF Allocate, Goto, outputVars
<1>2. ChunkPlace' /\ EofInv'
  BY <1>1 DEF FileInv, ChunkPlace, EofInv, readerVars, chunkVars, Building
<1>3. SearchInv'
  <2>1. newlines = 0 /\ Len(chunk) <= nominal + MaxReadAhead
    BY <1>1 DEF FileInv, ChunkPlace, Building
  <2>2. pc' = "emit" => Safe(file, chunk)
    BY <1>1 DEF SuffixIsSafe, Safe, IsWhite, White, LineFeeds
  <2> QED
    BY <1>1, <2>1, <2>2 DEF SearchInv, SplitWell, chunkVars
<1> QED
  BY <1>1, <1>2, <1>3, QuietKeeps DEF FileInv, TypeOK

\* The counter of the search tells the truth about the last bytes.
LEMMA NewlinesMeans ==
  ASSUME FileInv, pc = "boundary"
  PROVE  /\ chunk \in Seq(Nat) /\ chunk # <<>> /\ Len(chunk) \in Nat \ {0}
         /\ Last(chunk) = chunk[Len(chunk)]
         /\ Newlines = 1 => Lone(file, chunk, Len(chunk))
         /\ Newlines >= 2 => Safe(file, chunk)
         /\ Newlines \in 0 .. 2
<1>1. chunk \in Seq(Nat) /\ chunk # <<>> /\ newlines \in {0, 1}
  BY Amounts DEF FileInv, ChunkPlace, Building
<1>2. Len(chunk) \in Nat \ {0} /\ Last(chunk) = chunk[Len(chunk)]
  BY <1>1 DEF Last
<1>3. newlines = 1 => Lone(file, chunk, Len(chunk) - 1)
  BY DEF FileInv, SearchInv
<1> DEFINE last == chunk[Len(chunk)]
<1>4. CASE file[last] = "lf"
  <2>1. Newlines = newlines + 1
    BY <1>2, <1>4 DEF Newlines
  <2>2. Lone(file, chunk, Len(chunk))
    BY <1>2, <1>4 DEF Lone, White
  <2>3. newlines = 1 => Safe(file, chunk)
    BY <1>1, <1>3, <1>4, SecondLineFeed
  <2> QED
    BY <1>1, <1>2, <2>1, <2>2, <2>3
<1>5. CASE file[last] # "lf" /\ White(file, last)
  <2>1. Newlines = newlines
    BY <1>2, <1>5 DEF Newlines, IsWhite, White
  <2>2. newlines = 1 => Lone(file, chunk, Len(chunk))
    <3> SUFFICES ASSUME newlines = 1 PROVE Lone(file, chunk, Len(chunk))
      OBVIOUS
    <3>1. PICK a \in 1 .. Len(chunk) - 1 :
            file[chunk[a]] = "lf" /\ \A j \in a .. Len(chunk) - 1 : White(file, chunk[j])
      BY <1>3 DEF Lone
    <3>2. \A j \in a .. Len(chunk) : White(file, chunk[j])
      <4> SUFFICES ASSUME NEW j \in a .. Len(chunk) PROVE White(file, chunk[j])
        OBVIOUS
      <4>1. CASE j = Len(chunk)
        BY <1>5, <4>1
      <4>2. CASE j # Len(chunk)
        BY <1>2, <3>1, <4>2
      <4> QED
        BY <4>1, <4>2
    <3> QED
      BY <1>2, <3>1, <3>2 DEF Lone
  <2> QED
    BY <1>1, <1>2, <2>1, <2>2
<1>6. CASE ~White(file, last)
  <2>1. Newlines = 0
    BY <1>2, <1>6 DEF Newlines, IsWhite, White
  <2> QED
    BY <1>1, <1>2, <2>1
<1> QED
  BY <1>4, <1>5, <1>6 DEF White

\* The search ends where a split is safe or the read-ahead is used up.
LEMMA BoundaryEndsKeeps == FileInv /\ BoundaryEnds => FileInv'
<1> SUFFICES ASSUME FileInv, BoundaryEnds PROVE FileInv'
  OBVIOUS
<1>1. /\ UNCHANGED <<file, chunkSize, readerVars, chunkVars, totalLines, delivered>>
      /\ cancelled' = cancelled /\ reported' = reported /\ result' = result
      /\ pc = "boundary" /\ pc' = "emit" /\ BoundaryFound
  BY DEF BoundaryEnds, Goto, outputVars
<1>2. ChunkPlace' /\ EofInv'
  BY <1>1 DEF FileInv, ChunkPlace, EofInv, readerVars, chunkVars, Building
<1>3. SearchInv'
  <2>1. Len(chunk) <= nominal + MaxReadAhead
    BY <1>1 DEF FileInv, ChunkPlace, Building
  <2>2. Len(chunk) \in Nat /\ nominal \in Nat /\ MaxReadAhead \in Nat
    BY <1>1, Amounts, NewlinesMeans, FileAssumption
  <2>3. Safe(file, chunk) \/ Len(chunk) = nominal + MaxReadAhead
    <3>1. CASE Newlines >= 2
      BY <1>1, <3>1, NewlinesMeans
    <3>2. CASE Len(chunk) - nominal >= MaxReadAhead
      BY <2>1, <2>2, <3>2
    <3> QED
      BY <1>1, <3>1, <3>2 DEF BoundaryFound
  <2>4. SplitWell(file, chunk, nominal)
    BY <2>1, <2>3 DEF SplitWell
  <2> QED
    BY <1>1, <2>4 DEF SearchInv, chunkVars
<1> QED
  BY <1>1, <1>2, <1>3, QuietKeeps DEF FileInv, TypeOK

\* The search goes on only below the read-ahead, with a counter that fits the last byte.
LEMMA BoundaryGoesOnKeeps == FileInv /\ BoundaryGoesOn => FileInv'
<1> SUFFICES ASSUME FileInv, BoundaryGoesOn PROVE FileInv'
  OBVIOUS
<1>1. /\ file' = file /\ chunkSize' = chunkSize /\ taken' = taken /\ buffered' = buffered
      /\ pending' = pending /\ chunk' = chunk /\ nominal' = nominal /\ status' = status
      /\ totalLines' = totalLines /\ delivered' = delivered /\ cancelled' = cancelled
      /\ reported' = reported /\ result' = result
      /\ pc = "boundary" /\ pc' = "readByte" /\ newlines' = Newlines /\ ~BoundaryFound
  BY DEF BoundaryGoesOn, Goto, outputVars, readerVars
<1>2. newlines' \in 0 .. 1 /\ Len(chunk) < nominal + MaxReadAhead
  <2>1. /\ Newlines \in 0 .. 2 /\ ~(Newlines >= 2) /\ ~(Len(chunk) - nominal >= MaxReadAhead)
        /\ Len(chunk) \in Nat /\ nominal \in Nat /\ MaxReadAhead \in Nat
    BY <1>1, Amounts, NewlinesMeans, FileAssumption DEF BoundaryFound
  <2> QED
    BY <1>1, <2>1
<1>3. TypeOK'
  <2>1. pc' \in {"start", "top", "read", "allocate", "boundary", "readByte", "failed", "emit",
                 "emitError", "emitIssue", "done"}
    BY <1>1
  <2> QED
    BY <1>1, <1>2, <2>1, Zenon DEF FileInv, TypeOK, Position
<1>4. Good(file, delivered)' /\ InHand' /\ LinesInv' /\ EndedInv'
  BY <1>1 DEF FileInv, InHand, LinesInv, EndedInv
<1>5. ChunkPlace' /\ EofInv'
  BY <1>1, <1>2 DEF FileInv, ChunkPlace, EofInv, Building
<1>6. SearchInv'
  BY <1>1, NewlinesMeans DEF SearchInv
<1> QED
  BY <1>3, <1>4, <1>5, <1>6 DEF FileInv

\* Bytes that follow a position and end inside the file are positions of the file.
LEMMA Positions ==
  ASSUME NEW n \in Nat, NEW after \in Nat, NEW bytes \in Seq(Nat), Follows(bytes, after),
         after + Len(bytes) <= n
  PROVE  bytes \in Seq(1 .. n)
<1>1. Len(bytes) \in Nat /\ bytes = [i \in 1 .. Len(bytes) |-> bytes[i]]
  OBVIOUS
<1>2. \A i \in 1 .. Len(bytes) : bytes[i] \in 1 .. n
  BY <1>1 DEF Follows
<1> QED
  BY <1>1, <1>2

\* What is in hand is typed when it lies in the file.
LEMMA HandIsTyped ==
  ASSUME FileInv, file' = file, delivered' = delivered, InHand',
         chunk' \in Seq(Nat), buffered' \in Seq(Nat), taken' \in 0 .. Len(file)
  PROVE  chunk' \in Seq(Position)' /\ buffered' \in Seq(Position)'
<1>1. Total(delivered) \in Nat /\ Len(file) \in Nat
  BY Amounts
<1>2. /\ Follows(chunk', Total(delivered)) /\ Follows(buffered', Total(delivered) + Len(chunk'))
      /\ taken' = Total(delivered) + Len(chunk') + Len(buffered')
  BY DEF InHand
<1>3. Len(chunk') \in Nat /\ Len(buffered') \in Nat
  OBVIOUS
<1>4. chunk' \in Seq(1 .. Len(file))
  BY <1>1, <1>2, <1>3, Positions
<1>5. buffered' \in Seq(1 .. Len(file))
  <2>1. Total(delivered) + Len(chunk') \in Nat
    BY <1>1, <1>3
  <2> QED
    BY <1>1, <1>2, <1>3, <2>1, Positions
<1> QED
  BY <1>4, <1>5 DEF Position

\* A nominal read keeps the invariant when its bytes are the next ones and those it leaves in
\* the buffer the ones after them.
LEMMA NominalReadKeeps ==
  ASSUME FileInv, pc = "read", NEW bytes \in Seq(Nat), NEW s \in Status,
         NominalRead(bytes, s), UNCHANGED <<file, chunkSize, cancelled>>,
         Len(bytes) <= chunkSize, Follows(bytes, Total(delivered)),
         buffered' \in Seq(Nat), Len(buffered') <= ReaderCapacity,
         Follows(buffered', Total(delivered) + Len(bytes)),
         taken' = Total(delivered) + Len(bytes) + Len(buffered'), taken' \in 0 .. Len(file),
         s = "Eof" => taken' = Len(file) /\ buffered' = <<>>,
         pending' \in {None, "Eof", "Error"}, pending' = "Eof" => taken' = Len(file)
  PROVE  FileInv'
<1>1. /\ file' = file /\ chunkSize' = chunkSize /\ cancelled' = cancelled
      /\ chunk' = bytes /\ nominal' = Len(bytes) /\ status' = s /\ newlines' = 0
      /\ totalLines' = totalLines /\ delivered' = delivered /\ reported' = reported
  BY DEF NominalRead, Goto, Returns, outputVars
<1>2. Len(bytes) \in Nat /\ chunkSize \in Nat /\ MaxReadAhead \in Nat /\ result = None
  BY FileAssumption DEF FileInv, TypeOK, ChunkPlace
<1>3. \/ pc' = "emitError" /\ result' = None
      \/ pc' = "done" /\ result' \in {"Stalled", "Application"}
      \/ pc' = "done" /\ result' = "Ended" /\ bytes = <<>> /\ s = "Eof"
      \/ pc' = "allocate" /\ result' = None /\ bytes # <<>>
  BY <1>2 DEF NominalRead, Goto, Returns, outputVars
<1>4. InHand'
  BY <1>1 DEF InHand
<1>5. Good(file, delivered)' /\ LinesInv'
  BY <1>1 DEF FileInv, LinesInv
<1>6. TypeOK'
  <2>1. chunk' \in Seq(Position)' /\ buffered' \in Seq(Position)'
    BY <1>1, <1>4, HandIsTyped
  <2>2. pc' \in {"start", "top", "read", "allocate", "boundary", "readByte", "failed", "emit",
                 "emitError", "emitIssue", "done"}
    BY <1>3
  <2>3. result' \in Results \cup {None}
    BY <1>3 DEF Results
  <2>4. nominal' \in 0 .. chunkSize /\ newlines' \in 0 .. 1
    BY <1>1, <1>2
  <2> QED
    BY <1>1, <2>1, <2>2, <2>3, <2>4, Zenon DEF FileInv, TypeOK, Position
<1>7. ChunkPlace'
  BY <1>1, <1>2, <1>3 DEF ChunkPlace, Building
<1>8. EofInv'
  BY <1>1 DEF EofInv, Building
<1>9. SearchInv'
  BY <1>1, <1>3 DEF SearchInv
<1>10. EndedInv'
  <2> SUFFICES ASSUME result' = "Ended" PROVE Total(delivered') = Len(file')
    BY DEF EndedInv
  <2>1. bytes = <<>> /\ s = "Eof"
    BY <1>3, FileAssumption DEF Results
  <2>2. taken' = Len(file) /\ Len(buffered') = 0 /\ Len(bytes) = 0
    BY <2>1
  <2> QED
    BY <1>1, <2>2, Amounts
<1> QED
  BY <1>4, <1>5, <1>6, <1>7, <1>8, <1>9, <1>10 DEF FileInv

\* The part that fits and the rest are the bytes in two pieces.
LEMMA Parts ==
  ASSUME FileInv, NEW bytes \in Seq(Nat), NEW after \in Nat, Follows(bytes, after)
  PROVE  /\ Fitting(bytes) \in Seq(Nat) /\ Rest(bytes) \in Seq(Nat)
         /\ Len(Fitting(bytes)) <= chunkSize
         /\ Len(bytes) = Len(Fitting(bytes)) + Len(Rest(bytes))
         /\ Follows(Fitting(bytes), after)
         /\ Follows(Rest(bytes), after + Len(Fitting(bytes)))
<1>1. chunkSize \in Nat \ {0} /\ Len(bytes) \in Nat
  BY FileAssumption DEF FileInv, TypeOK
<1>2. CASE Len(bytes) < chunkSize
  <2>1. Fitting(bytes) = bytes /\ Rest(bytes) = <<>>
    BY <1>1, <1>2 DEF Fitting, Rest
  <2> QED
    BY <1>1, <1>2, <2>1 DEF Follows
<1>3. CASE ~(Len(bytes) < chunkSize)
  <2> DEFINE c == chunkSize
             fits == SubSeq(bytes, 1, c)
             rest == SubSeq(bytes, c + 1, Len(bytes))
  <2>1. Fitting(bytes) = fits /\ Rest(bytes) = rest
    BY <1>3 DEF Fitting, Rest
  <2>2. /\ fits \in Seq(Nat) /\ Len(fits) = c /\ rest \in Seq(Nat) /\ Len(rest) = Len(bytes) - c
        /\ \A k \in 1 .. c : fits[k] = bytes[k]
        /\ \A k \in 1 .. Len(bytes) - c : rest[k] = bytes[c + k]
    BY <1>1, <1>3
  <2> HIDE DEF fits, rest
  <2>3. Follows(fits, after)
    <3>1. \A k \in 1 .. c : k \in 1 .. Len(bytes)
      BY <1>1, <1>3
    <3>2. \A k \in 1 .. c : fits[k] = after + k
      BY <2>2, <3>1 DEF Follows
    <3> QED
      BY <2>2, <3>2 DEF Follows
  <2>4. Follows(rest, after + c)
    <3>1. \A k \in 1 .. Len(bytes) - c : c + k \in 1 .. Len(bytes)
      BY <1>1, <1>3
    <3>2. \A k \in 1 .. Len(bytes) - c : rest[k] = after + (c + k)
      BY <2>2, <3>1 DEF Follows
    <3> QED
      BY <1>1, <2>2, <3>2 DEF Follows
  <2> QED
    BY <1>1, <1>3, <2>1, <2>2, <2>3, <2>4
<1> QED
  BY <1>2, <1>3

\* The next bytes follow what was taken.
LEMMA NextFollow ==
  ASSUME NEW n \in Nat, taken \in Nat
  PROVE  /\ NextBytes(n) \in Seq(Nat) /\ Len(NextBytes(n)) = n
         /\ Follows(NextBytes(n), taken)
BY DEF NextBytes, Follows

\* Where a chunk is read, nothing of it is there yet.
LEMMA Reading ==
  ASSUME FileInv, pc = "read"
  PROVE  /\ Follows(buffered, Total(delivered)) /\ buffered \in Seq(Nat)
         /\ taken = Total(delivered) + Len(buffered) /\ Total(delivered) \in Nat
         /\ Len(buffered) \in Nat /\ Len(buffered) <= ReaderCapacity /\ ReaderCapacity \in Nat
         /\ pending \in {None, "Eof", "Error"} /\ (pending = "Eof" => taken = Len(file))
         /\ taken \in 0 .. Len(file) /\ Len(file) \in Nat
         /\ chunkSize \in Nat \ {0}
<1>1. chunk = <<>> /\ Len(chunk) = 0
  BY DEF FileInv, ChunkPlace
<1>2. Total(delivered) \in Nat /\ buffered \in Seq(Nat) /\ Len(file) \in Nat
  BY Amounts
<1>3. /\ Follows(buffered, Total(delivered) + Len(chunk))
      /\ taken = Total(delivered) + Len(chunk) + Len(buffered)
  BY DEF FileInv, InHand
<1>4. /\ Len(buffered) <= ReaderCapacity /\ pending \in {None, "Eof", "Error"}
      /\ taken \in 0 .. Len(file) /\ chunkSize \in Nat \ {0} /\ ReaderCapacity \in Nat
  BY FileAssumption DEF FileInv, TypeOK
<1>5. pending = "Eof" => taken = Len(file)
  BY DEF FileInv, EofInv
<1>6. Total(delivered) + Len(chunk) = Total(delivered) /\ Len(buffered) \in Nat
  BY <1>1, <1>2
<1> QED
  BY <1>2, <1>3, <1>4, <1>5, <1>6

LEMMA ReadBufferedKeeps == FileInv /\ ReadBuffered => FileInv'
<1> SUFFICES ASSUME FileInv, ReadBuffered PROVE FileInv'
  OBVIOUS
<1>1. /\ pc = "read" /\ NominalRead(Fitting(buffered), "Continue") /\ buffered' = Rest(buffered)
      /\ UNCHANGED <<file, chunkSize, cancelled>> /\ taken' = taken /\ pending' = pending
  BY DEF ReadBuffered
<1> DEFINE fits == Fitting(buffered)
           rest == Rest(buffered)
<1>2. /\ fits \in Seq(Nat) /\ rest \in Seq(Nat) /\ Len(fits) <= chunkSize
      /\ Len(buffered) = Len(fits) + Len(rest) /\ Follows(fits, Total(delivered))
      /\ Follows(rest, Total(delivered) + Len(fits))
  BY <1>1, Reading, Parts
<1>3. Len(fits) \in Nat /\ Len(rest) \in Nat
  BY <1>2
<1> HIDE DEF fits, rest
<1>4. /\ Len(rest) <= ReaderCapacity /\ taken = Total(delivered) + Len(fits) + Len(rest)
      /\ taken \in 0 .. Len(file) /\ pending \in {None, "Eof", "Error"}
      /\ (pending = "Eof" => taken = Len(file))
  BY <1>1, <1>2, <1>3, Reading
<1>5. "Continue" \in Status /\ "Continue" # "Eof" /\ NominalRead(fits, "Continue")
      /\ buffered' = rest
  BY <1>1 DEF Status, fits, rest
<1> QED
  BY <1>1, <1>2, <1>4, <1>5, NominalReadKeeps

LEMMA ReadPendingKeeps == FileInv /\ ReadPending => FileInv'
<1> SUFFICES ASSUME FileInv, ReadPending PROVE FileInv'
  OBVIOUS
<1>1. /\ pc = "read" /\ NominalRead(<<>>, pending) /\ buffered = <<>> /\ buffered' = <<>>
      /\ UNCHANGED <<file, chunkSize, cancelled>> /\ taken' = taken /\ pending' = None
      /\ pending # None
  BY DEF ReadPending
<1>2. pending \in Status
  BY <1>1, Reading DEF Status
<1>3. None # "Eof"
  BY FileAssumption DEF Status
<1>4. /\ <<>> \in Seq(Nat) /\ Len(<<>>) = 0 /\ Follows(<<>>, Total(delivered))
      /\ Follows(<<>>, Total(delivered) + 0)
  BY DEF Follows
<1>5. /\ 0 <= chunkSize /\ 0 <= ReaderCapacity /\ taken' = Total(delivered) + 0 + 0
      /\ taken' \in 0 .. Len(file) /\ (pending = "Eof" => taken' = Len(file))
  BY <1>1, <1>4, Reading
<1> QED
  BY <1>1, <1>2, <1>3, <1>4, <1>5, NominalReadKeeps

LEMMA ReadDirectKeeps == FileInv /\ ReadDirect => FileInv'
<1> SUFFICES ASSUME FileInv, ReadDirect PROVE FileInv'
  OBVIOUS
<1>1. PICK a \in Answers(chunkSize) :
        NominalRead(NextBytes(a.count), a.status) /\ taken' = taken + a.count
  BY DEF ReadDirect
<1>2. /\ pc = "read" /\ buffered = <<>> /\ buffered' = <<>> /\ pending = None /\ pending' = None
      /\ UNCHANGED <<file, chunkSize, cancelled>>
  BY DEF ReadDirect
<1>3. /\ a.count \in 0 .. chunkSize /\ a.status \in Status /\ taken + a.count <= Len(file)
      /\ (a.status = "Eof" => taken + a.count = Len(file))
  BY DEF Answers
<1> DEFINE bytes == NextBytes(a.count)
<1>4. a.count \in Nat /\ taken \in Nat /\ taken = Total(delivered) /\ Len(buffered) = 0
  BY <1>2, <1>3, Reading
<1>5. bytes \in Seq(Nat) /\ Len(bytes) = a.count /\ Follows(bytes, Total(delivered))
  BY <1>4, NextFollow
<1> HIDE DEF bytes
<1>6. /\ Len(bytes) <= chunkSize /\ <<>> \in Seq(Nat) /\ Len(<<>>) <= ReaderCapacity
      /\ Follows(<<>>, Total(delivered) + Len(bytes))
      /\ taken' = Total(delivered) + Len(bytes) + Len(<<>>) /\ taken' \in 0 .. Len(file)
      /\ (a.status = "Eof" => taken' = Len(file))
  BY <1>1, <1>2, <1>3, <1>4, <1>5, Reading DEF Follows
<1>7. None # "Eof" /\ NominalRead(bytes, a.status)
  BY <1>1, FileAssumption DEF Status, bytes
<1> QED
  BY <1>2, <1>3, <1>5, <1>6, <1>7, NominalReadKeeps

LEMMA ReadThroughBufferKeeps == FileInv /\ ReadThroughBuffer => FileInv'
<1> SUFFICES ASSUME FileInv, ReadThroughBuffer PROVE FileInv'
  OBVIOUS
<1>1. PICK a \in Answers(ReaderCapacity) :
        IF a.count = 0
        THEN NominalRead(<<>>, a.status) /\ UNCHANGED readerVars
        ELSE /\ NominalRead(Fitting(NextBytes(a.count)), "Continue")
             /\ buffered' = Rest(NextBytes(a.count))
             /\ Fill(a)
  BY DEF ReadThroughBuffer
<1>2. /\ pc = "read" /\ buffered = <<>> /\ pending = None
      /\ UNCHANGED <<file, chunkSize, cancelled>>
  BY DEF ReadThroughBuffer
<1>3. /\ a.count \in 0 .. ReaderCapacity /\ a.status \in Status /\ taken + a.count <= Len(file)
      /\ (a.status = "Eof" => taken + a.count = Len(file))
  BY DEF Answers
<1>4. a.count \in Nat /\ taken \in Nat /\ taken = Total(delivered) /\ Len(buffered) = 0
  BY <1>2, <1>3, Reading
<1>5. None # "Eof" /\ "Continue" \in Status
  BY FileAssumption DEF Status
<1>6. CASE a.count = 0
  <2>1. /\ NominalRead(<<>>, a.status) /\ buffered' = <<>> /\ taken' = taken /\ pending' = None
    BY <1>1, <1>2, <1>6 DEF readerVars
  <2>2. /\ <<>> \in Seq(Nat) /\ Len(<<>>) = 0 /\ Follows(<<>>, Total(delivered))
        /\ Follows(<<>>, Total(delivered) + 0)
    BY DEF Follows
  <2>3. /\ 0 <= chunkSize /\ 0 <= ReaderCapacity /\ taken' = Total(delivered) + 0 + 0
        /\ taken' \in 0 .. Len(file) /\ (a.status = "Eof" => taken' = Len(file))
    BY <1>2, <1>3, <1>4, <1>6, <2>1, Reading
  <2> QED
    BY <1>2, <1>3, <1>5, <2>1, <2>2, <2>3, NominalReadKeeps
<1>7. CASE a.count # 0
  <2> DEFINE next == NextBytes(a.count)
             fits == Fitting(next)
             rest == Rest(next)
  <2>1. /\ NominalRead(fits, "Continue") /\ buffered' = rest /\ taken' = taken + a.count
        /\ pending' = Pend(a.status)
    BY <1>1, <1>7 DEF Fill
  <2>2. next \in Seq(Nat) /\ Len(next) = a.count /\ Follows(next, Total(delivered))
    BY <1>4, NextFollow
  <2>3. /\ fits \in Seq(Nat) /\ rest \in Seq(Nat) /\ Len(fits) <= chunkSize
        /\ Len(next) = Len(fits) + Len(rest) /\ Follows(fits, Total(delivered))
        /\ Follows(rest, Total(delivered) + Len(fits))
    BY <1>2, <2>2, Reading, Parts
  <2>4. Len(fits) \in Nat /\ Len(rest) \in Nat
    BY <2>3
  <2> HIDE DEF next, fits, rest
  <2>5. /\ Len(rest) <= ReaderCapacity /\ taken' = Total(delivered) + Len(fits) + Len(rest)
        /\ taken' \in 0 .. Len(file)
    BY <1>2, <1>3, <1>4, <2>1, <2>2, <2>3, <2>4, Reading
  <2>6. pending' \in {None, "Eof", "Error"} /\ (pending' = "Eof" => taken' = Len(file))
    BY <1>3, <1>5, <2>1 DEF Pend, Status
  <2> QED
    BY <1>2, <1>5, <2>1, <2>3, <2>5, <2>6, NominalReadKeeps
<1> QED
  BY <1>6, <1>7

\* What holds of the hand while a byte is looked for.
LEMMA Searching ==
  ASSUME FileInv, pc = "readByte"
  PROVE  /\ chunk \in Seq(Nat) /\ chunk # <<>> /\ Len(chunk) \in Nat \ {0}
         /\ Len(chunk) < nominal + MaxReadAhead /\ nominal \in Nat /\ MaxReadAhead \in Nat
         /\ Follows(chunk, Total(delivered)) /\ Follows(buffered, Total(delivered) + Len(chunk))
         /\ taken = Total(delivered) + Len(chunk) + Len(buffered)
         /\ Total(delivered) \in Nat /\ buffered \in Seq(Nat) /\ Len(buffered) \in Nat
         /\ Len(buffered) <= ReaderCapacity /\ ReaderCapacity \in Nat
         /\ pending \in {None, "Eof", "Error"} /\ (pending = "Eof" => taken = Len(file))
         /\ taken \in 0 .. Len(file) /\ Len(file) \in Nat /\ result = None
         /\ (status = "Eof" => taken = Len(file) /\ buffered = <<>>)
         /\ (newlines = 1 => Lone(file, chunk, Len(chunk)))
<1>1. /\ chunk \in Seq(Nat) /\ buffered \in Seq(Nat) /\ Total(delivered) \in Nat
      /\ Len(file) \in Nat /\ taken \in 0 .. Len(file) /\ nominal \in Nat
  BY Amounts
<1>2. chunk # <<>> /\ Len(chunk) < nominal + MaxReadAhead /\ result = None
  BY DEF FileInv, ChunkPlace, Building
<1>3. /\ Len(chunk) \in Nat \ {0} /\ Len(buffered) \in Nat
      /\ MaxReadAhead \in Nat /\ ReaderCapacity \in Nat
  BY <1>1, <1>2, FileAssumption
<1>4. /\ Follows(chunk, Total(delivered)) /\ Follows(buffered, Total(delivered) + Len(chunk))
      /\ taken = Total(delivered) + Len(chunk) + Len(buffered)
  BY DEF FileInv, InHand
<1>5. Len(buffered) <= ReaderCapacity /\ pending \in {None, "Eof", "Error"}
  BY DEF FileInv, TypeOK
<1>6. /\ (pending = "Eof" => taken = Len(file))
      /\ (status = "Eof" => taken = Len(file) /\ buffered = <<>>)
      /\ (newlines = 1 => Lone(file, chunk, Len(chunk)))
  BY DEF FileInv, EofInv, SearchInv, Building
<1> QED
  BY <1>1, <1>2, <1>3, <1>4, <1>5, <1>6

\* One more byte keeps the invariant when it is the next one.
LEMMA ExtendKeeps ==
  ASSUME FileInv, pc = "readByte", NEW p \in Nat, Extend(p),
         UNCHANGED <<file, chunkSize, cancelled>>, status # "Eof",
         p = Total(delivered) + Len(chunk) + 1,
         buffered' \in Seq(Nat), Len(buffered') <= ReaderCapacity,
         Follows(buffered', Total(delivered) + Len(chunk) + 1),
         taken' = Total(delivered) + Len(chunk) + 1 + Len(buffered'), taken' \in 0 .. Len(file),
         pending' \in {None, "Eof", "Error"}, pending' = "Eof" => taken' = Len(file)
  PROVE  FileInv'
<1>1. /\ file' = file /\ chunkSize' = chunkSize /\ cancelled' = cancelled
      /\ chunk' = Append(chunk, p) /\ nominal' = nominal /\ status' = status
      /\ newlines' = newlines /\ totalLines' = totalLines /\ delivered' = delivered
      /\ reported' = reported /\ result' = result /\ pc' = "boundary"
  BY DEF Extend, Goto, outputVars
<1>2. /\ chunk' \in Seq(Nat) /\ Len(chunk') = Len(chunk) + 1 /\ chunk'[Len(chunk) + 1] = p
      /\ chunk' # <<>>
      /\ \A k \in 1 .. Len(chunk) : chunk'[k] = chunk[k]
  <2>1. chunk \in Seq(Nat)
    BY Searching
  <2> QED
    BY <1>1, <2>1
<1>3. Follows(chunk', Total(delivered))
  <2>1. \A k \in 1 .. Len(chunk) : chunk'[k] = Total(delivered) + k
    BY <1>2, Searching DEF Follows
  <2>2. Total(delivered) \in Nat /\ Len(chunk) \in Nat
    BY Searching
  <2>3. \A k \in 1 .. Len(chunk) + 1 : k \in 1 .. Len(chunk) \/ k = Len(chunk) + 1
    BY <2>2
  <2>4. p = Total(delivered) + (Len(chunk) + 1)
    BY <2>2
  <2>5. \A k \in 1 .. Len(chunk) + 1 : chunk'[k] = Total(delivered) + k
    BY <1>2, <2>1, <2>3, <2>4
  <2> QED
    BY <1>2, <2>5 DEF Follows
<1>4. InHand'
  <2>1. Total(delivered) + Len(chunk) + 1 = Total(delivered) + Len(chunk')
    BY <1>2, Searching
  <2> QED
    BY <1>1, <1>3, <2>1 DEF InHand
<1>5. Good(file, delivered)' /\ LinesInv' /\ EndedInv'
  BY <1>1 DEF FileInv, LinesInv, EndedInv
<1>6. TypeOK'
  <2>1. chunk' \in Seq(Position)' /\ buffered' \in Seq(Position)'
    BY <1>1, <1>2, <1>4, HandIsTyped
  <2>2. pc' \in {"start", "top", "read", "allocate", "boundary", "readByte", "failed", "emit",
                 "emitError", "emitIssue", "done"}
    BY <1>1
  <2> QED
    BY <1>1, <2>1, <2>2, Zenon DEF FileInv, TypeOK, Position
<1>7. ChunkPlace'
  <2>1. Len(chunk') <= nominal + MaxReadAhead /\ result = None
    BY <1>2, Searching, SMTT(30)
  <2> QED
    BY <1>1, <1>2, <2>1 DEF ChunkPlace, Building
<1>8. EofInv'
  BY <1>1 DEF EofInv
<1>9. SearchInv'
  <2> SUFFICES ASSUME newlines = 1 PROVE Lone(file, chunk', Len(chunk') - 1)
    BY <1>1 DEF SearchInv
  <2>1. PICK a \in 1 .. Len(chunk) :
          file[chunk[a]] = "lf" /\ \A j \in a .. Len(chunk) : White(file, chunk[j])
    BY Searching DEF Lone
  <2>2. Len(chunk) \in Nat /\ Len(chunk') - 1 = Len(chunk)
    BY <1>2, Searching
  <2>3. \A j \in a .. Len(chunk) : j \in 1 .. Len(chunk)
    BY <2>2
  <2>4. file[chunk'[a]] = "lf" /\ \A j \in a .. Len(chunk) : White(file, chunk'[j])
    BY <1>2, <2>1, <2>3
  <2> QED
    BY <2>2, <2>4 DEF Lone
<1> QED
  BY <1>4, <1>5, <1>6, <1>7, <1>8, <1>9 DEF FileInv

\* Without its first byte a sequence follows the next position.
LEMMA TailFollows ==
  ASSUME NEW after \in Nat, NEW bytes \in Seq(Nat), Len(bytes) \in Nat \ {0},
         Follows(bytes, after)
  PROVE  /\ Tail(bytes) \in Seq(Nat) /\ Len(Tail(bytes)) = Len(bytes) - 1
         /\ Follows(Tail(bytes), after + 1)
<1> DEFINE n == Len(bytes)
<1>1. /\ Tail(bytes) \in Seq(Nat) /\ Len(Tail(bytes)) = n - 1 /\ n \in Nat
      /\ \A k \in 1 .. n - 1 : Tail(bytes)[k] = bytes[k + 1]
  OBVIOUS
<1>2. \A k \in 1 .. n - 1 : k + 1 \in 1 .. n
  OBVIOUS
<1>3. \A k \in 1 .. n - 1 : Tail(bytes)[k] = after + (k + 1)
  BY <1>1, <1>2 DEF Follows
<1>4. \A k \in 1 .. n - 1 : Tail(bytes)[k] = after + 1 + k
  BY <1>1, <1>3
<1> QED
  BY <1>1, <1>4 DEF Follows

LEMMA BoundaryTakesByteKeeps == FileInv /\ BoundaryTakesByte => FileInv'
<1> SUFFICES ASSUME FileInv, BoundaryTakesByte PROVE FileInv'
  OBVIOUS
<1>1. /\ pc = "readByte" /\ buffered # <<>> /\ Extend(Head(buffered))
      /\ buffered' = Tail(buffered) /\ UNCHANGED <<file, chunkSize, cancelled>>
      /\ taken' = taken /\ pending' = pending
  BY DEF BoundaryTakesByte
<1> DEFINE after == Total(delivered) + Len(chunk)
<1>2. after \in Nat /\ Follows(buffered, after) /\ buffered \in Seq(Nat)
  BY <1>1, Searching
<1> HIDE DEF after
<1>3. Head(buffered) = after + 1 /\ Head(buffered) \in Nat
  BY <1>1, <1>2 DEF Follows
<1>4. /\ Tail(buffered) \in Seq(Nat) /\ Len(Tail(buffered)) = Len(buffered) - 1
      /\ Len(buffered) \in Nat
  BY <1>1, <1>2
<1>5. Follows(Tail(buffered), after + 1)
  <2>1. Len(buffered) \in Nat \ {0}
    BY <1>1, <1>2
  <2> QED
    BY <1>2, <2>1, TailFollows
<1>6. /\ status # "Eof" /\ Len(Tail(buffered)) <= ReaderCapacity
      /\ taken = after + 1 + Len(Tail(buffered)) /\ taken \in 0 .. Len(file)
      /\ pending \in {None, "Eof", "Error"} /\ (pending = "Eof" => taken = Len(file))
  BY <1>1, <1>2, <1>4, Searching DEF after
<1> QED
  BY <1>1, <1>3, <1>4, <1>5, <1>6, ExtendKeeps DEF after

\* A status without a byte keeps the invariant when the end is only told at the end.
LEMMA AfterStatusKeeps ==
  ASSUME FileInv, pc = "readByte", buffered = <<>>, NEW s, AfterStatus(s),
         UNCHANGED <<file, chunkSize, cancelled, taken, buffered>>, pending' \in {pending, None},
         s = "Eof" => taken = Len(file)
  PROVE  FileInv'
<1>1. /\ file' = file /\ chunkSize' = chunkSize /\ taken' = taken /\ buffered' = buffered
      /\ chunk' = chunk /\ nominal' = nominal /\ status' = status /\ newlines' = newlines
      /\ totalLines' = totalLines /\ delivered' = delivered /\ cancelled' = cancelled
      /\ reported' = reported /\ result' = result
      /\ pc' \in {"emit", "failed"} /\ (pc' = "emit" => s = "Eof")
  BY DEF AfterStatus, Goto, outputVars, chunkVars
<1>2. None # "Eof"
  BY FileAssumption DEF Status
<1>3. TypeOK'
  <2>1. pc' \in {"start", "top", "read", "allocate", "boundary", "readByte", "failed", "emit",
                 "emitError", "emitIssue", "done"}
    BY <1>1
  <2>2. pending' \in {None, "Eof", "Error"}
    BY Searching
  <2> QED
    BY <1>1, <2>1, <2>2, Zenon DEF FileInv, TypeOK, Position
<1>4. Good(file, delivered)' /\ InHand' /\ LinesInv' /\ EndedInv'
  BY <1>1 DEF FileInv, InHand, LinesInv, EndedInv
<1>5. ChunkPlace'
  <2>1. chunk # <<>> /\ Len(chunk) <= nominal + MaxReadAhead /\ result = None
    BY Searching
  <2> QED
    BY <1>1, <2>1 DEF ChunkPlace, Building
<1>6. EofInv'
  BY <1>1, <1>2, Searching DEF EofInv
<1>7. SearchInv'
  <2> SUFFICES ASSUME pc' = "emit" PROVE SplitWell(file, chunk, nominal)
    BY <1>1 DEF SearchInv
  <2>1. taken = Len(file) /\ Len(buffered) = 0
    BY <1>1
  <2>2. chunk[Len(chunk)] = Total(delivered) + Len(chunk) /\ Len(chunk) \in Nat
    BY Searching DEF Follows
  <2>3. taken = Total(delivered) + Len(chunk) /\ Len(chunk) <= nominal + MaxReadAhead
    BY <2>1, Searching
  <2> QED
    BY <2>1, <2>2, <2>3 DEF SplitWell
<1> QED
  BY <1>3, <1>4, <1>5, <1>6, <1>7 DEF FileInv

LEMMA BoundaryTakesPendingKeeps == FileInv /\ BoundaryTakesPending => FileInv'
<1> SUFFICES ASSUME FileInv, BoundaryTakesPending PROVE FileInv'
  OBVIOUS
<1>1. /\ pc = "readByte" /\ buffered = <<>> /\ AfterStatus(pending) /\ pending' = None
      /\ UNCHANGED <<file, chunkSize, cancelled, taken, buffered>>
  BY DEF BoundaryTakesPending
<1>2. pending = "Eof" => taken = Len(file)
  BY <1>1, Searching
<1> QED
  BY <1>1, <1>2, AfterStatusKeeps

LEMMA BoundaryFillsKeeps == FileInv /\ BoundaryFills => FileInv'
<1> SUFFICES ASSUME FileInv, BoundaryFills PROVE FileInv'
  OBVIOUS
<1>1. PICK a \in Answers(ReaderCapacity) :
        IF a.count = 0
        THEN AfterStatus(a.status) /\ UNCHANGED readerVars
        ELSE Extend(taken + 1) /\ buffered' = Tail(NextBytes(a.count)) /\ Fill(a)
  BY DEF BoundaryFills
<1>2. /\ pc = "readByte" /\ buffered = <<>> /\ UNCHANGED <<file, chunkSize, cancelled>>
  BY DEF BoundaryFills
<1>3. /\ a.count \in 0 .. ReaderCapacity /\ a.status \in Status /\ taken + a.count <= Len(file)
      /\ (a.status = "Eof" => taken + a.count = Len(file))
  BY DEF Answers
<1>4. CASE a.count = 0
  <2>1. AfterStatus(a.status) /\ UNCHANGED <<taken, buffered>> /\ pending' = pending
    BY <1>1, <1>4 DEF readerVars
  <2>2. a.status = "Eof" => taken = Len(file)
    BY <1>2, <1>3, <1>4, Searching
  <2> QED
    BY <1>2, <2>1, <2>2, AfterStatusKeeps
<1>5. CASE a.count # 0
  <2> DEFINE after == Total(delivered) + Len(chunk)
             next == NextBytes(a.count)
  <2>1. /\ Extend(taken + 1) /\ buffered' = Tail(next) /\ taken' = taken + a.count
        /\ pending' = Pend(a.status)
    BY <1>1, <1>5 DEF Fill
  <2>2. after \in Nat /\ taken = after /\ a.count \in Nat \ {0} /\ Len(buffered) = 0
    BY <1>2, <1>3, <1>5, Searching
  <2>3. next \in Seq(Nat) /\ Len(next) = a.count /\ Follows(next, after)
    BY <2>2, NextFollow
  <2> HIDE DEF after, next
  <2>4. /\ Tail(next) \in Seq(Nat) /\ Len(Tail(next)) = a.count - 1
        /\ Follows(Tail(next), after + 1)
    BY <2>2, <2>3, TailFollows
  <2>5. Len(Tail(next)) <= ReaderCapacity
    <3>1. a.count <= ReaderCapacity /\ a.count - 1 <= a.count
      BY <1>2, <1>3, <2>2, Searching
    <3> QED
      BY <1>2, <2>2, <2>4, <3>1, Searching, SMTT(30)
  <2>6. /\ taken' = after + 1 + Len(Tail(next)) /\ taken' \in 0 .. Len(file)
        /\ taken + 1 \in Nat /\ taken + 1 = after + 1
    <3>1. taken' = after + 1 + (a.count - 1)
      BY <2>1, <2>2
    <3>2. taken' \in 0 .. Len(file)
      BY <1>2, <1>3, <2>1, <2>2, Searching, SMTT(30)
    <3> QED
      BY <2>2, <2>4, <3>1, <3>2
  <2>7. status # "Eof"
    BY <1>2, <1>3, <2>2, Searching
  <2>8. pending' \in {None, "Eof", "Error"} /\ (pending' = "Eof" => taken' = Len(file))
    <3>1. None # "Eof"
      BY FileAssumption DEF Status
    <3> QED
      BY <1>3, <2>1, <3>1 DEF Pend, Status
  <2> QED
    BY <1>2, <2>1, <2>4, <2>5, <2>6, <2>7, <2>8, ExtendKeeps DEF after
<1> QED
  BY <1>4, <1>5

\* An emitted fragment is good, and the lines after it are counted on from it.
LEMMA EmitFragmentKeeps == FileInv /\ EmitFragment => FileInv'
<1> SUFFICES ASSUME FileInv, EmitFragment PROVE FileInv'
  OBVIOUS
<1> DEFINE total == Total(delivered)
           x == [bytes |-> chunk, nominal |-> nominal, startLine |-> totalLines + 1]
           count == Cardinality({i \in 1 .. Len(chunk) : file[chunk[i]] = "lf"})
<1>1. /\ file' = file /\ chunkSize' = chunkSize /\ cancelled' = cancelled /\ taken' = taken
      /\ buffered' = buffered /\ pending' = pending /\ nominal' = nominal /\ status' = status
      /\ newlines' = newlines /\ pc = "emit" /\ pc' \in {"top", "done"}
      /\ delivered' = Append(delivered, x) /\ totalLines' = totalLines + count
      /\ reported' = (reported \/ status = "Error") /\ chunk' = <<>>
  BY DEF EmitFragment, Deliver, LinesInChunk, LineFeeds, readerVars
<1>2. /\ (pc' = "top" => result' = None) /\ result' \in Results \cup {None}
      /\ (result' = "Ended" => status = "Eof")
  <2>1. result = None /\ None # "Ended"
    BY <1>1, FileAssumption DEF FileInv, ChunkPlace, Results
  <2>2. \/ pc' = "top" /\ result' = result
        \/ pc' = "done" /\ status = "Eof" /\ result' = "Ended"
        \/ pc' = "done" /\ result' \in {"Stop", "Callback"}
    BY DEF EmitFragment
  <2> QED
    BY <2>1, <2>2 DEF Results
<1>3. /\ chunk # <<>> /\ SplitWell(file, chunk, nominal)
      /\ (status = "Eof" => taken = Len(file) /\ buffered = <<>>)
  BY <1>1 DEF FileInv, ChunkPlace, SearchInv, EofInv, Building
<1>4. /\ Follows(chunk, total) /\ Follows(buffered, total + Len(chunk))
      /\ taken = total + Len(chunk) + Len(buffered)
  BY DEF FileInv, InHand
<1>5. /\ total \in Nat /\ chunk \in Seq(Nat) /\ buffered \in Seq(Nat) /\ nominal \in Nat
      /\ Len(file) \in Nat /\ taken \in 0 .. Len(file)
      /\ delivered \in Seq([bytes : Seq(Nat), nominal : Nat, startLine : Nat])
  BY Amounts
<1>6. Len(chunk) \in Nat /\ Len(buffered) \in Nat
  BY <1>5
<1>7. totalLines \in Nat /\ totalLines = Cardinality(LineFeedsIn(file, total))
  BY <1>5 DEF FileInv, TypeOK, LinesInv
<1>8. Good(file, Append(delivered, x)) /\ Total(Append(delivered, x)) = total + Len(chunk)
  <2>1. x \in [bytes : Seq(Nat), nominal : Nat, startLine : Nat]
    BY <1>5, <1>7
  <2>2. x.bytes = chunk /\ x.nominal = nominal /\ x.startLine = 1 + totalLines
    BY <1>7
  <2>3. Good(file, delivered)
    BY DEF FileInv
  <2> HIDE DEF x
  <2> QED
    BY <1>3, <1>4, <1>5, <1>7, <2>1, <2>2, <2>3, GoodAppend
<1>9. LinesInv'
  <2>1. Cardinality(LineFeedsIn(file, total + Len(chunk))) =
          Cardinality(LineFeedsIn(file, total)) + count
    BY <1>4, <1>5, LinesAdd
  <2> HIDE DEF x, count
  <2> QED
    BY <1>1, <1>7, <1>8, <2>1 DEF LinesInv
<1>10. TypeOK'
  <2>1. delivered' \in Seq([bytes : Seq(Position), nominal : Nat, startLine : Nat])
    <3>1. x \in [bytes : Seq(Position), nominal : Nat, startLine : Nat]
      BY <1>5, <1>7 DEF FileInv, TypeOK
    <3>2. delivered \in Seq([bytes : Seq(Position), nominal : Nat, startLine : Nat])
      BY DEF FileInv, TypeOK
    <3> HIDE DEF x
    <3> QED
      BY <1>1, <3>1, <3>2
  <2>2. chunk' \in Seq(Position)
    BY <1>1
  <2>3. totalLines' \in 0 .. Len(file)
    <3>1. total + Len(chunk) \in Nat /\ total + Len(chunk) <= Len(file)
      BY <1>4, <1>5, <1>6
    <3>2. Cardinality(LineFeedsIn(file, total + Len(chunk))) \in 0 .. total + Len(chunk)
      BY <3>1, LinesAreFinite
    <3>3. totalLines' = Cardinality(LineFeedsIn(file, total + Len(chunk)))
      BY <1>1, <1>8, <1>9 DEF LinesInv
    <3> QED
      BY <1>5, <3>1, <3>2, <3>3
  <2>4. pc' \in {"start", "top", "read", "allocate", "boundary", "readByte", "failed", "emit",
                 "emitError", "emitIssue", "done"}
    BY <1>1
  <2>5. reported' \in BOOLEAN
    BY <1>1, Zenon DEF FileInv, TypeOK
  <2> QED
    BY <1>1, <1>2, <2>1, <2>2, <2>3, <2>4, <2>5, Zenon DEF FileInv, TypeOK, Position
<1> HIDE DEF x, count
<1>11. InHand'
  <2>1. Total(delivered') = total + Len(chunk) /\ Len(chunk') = 0
    BY <1>1, <1>8
  <2>2. Follows(chunk', Total(delivered'))
    BY <1>1, <2>1 DEF Follows
  <2>3. Total(delivered') + Len(chunk') = total + Len(chunk)
    BY <1>5, <1>6, <2>1
  <2> QED
    BY <1>1, <1>4, <2>2, <2>3 DEF InHand
<1>12. ChunkPlace' /\ SearchInv'
  BY <1>1, <1>2 DEF ChunkPlace, SearchInv, Building
<1>13. EofInv'
  BY <1>1 DEF FileInv, EofInv, Building
<1>14. EndedInv'
  <2> SUFFICES ASSUME result' = "Ended" PROVE Total(delivered') = Len(file')
    BY DEF EndedInv
  <2>1. taken = Len(file) /\ Len(buffered) = 0
    BY <1>2, <1>3
  <2> QED
    BY <1>1, <1>4, <1>5, <1>6, <1>8, <2>1
<1>15. Good(file, delivered)'
  BY <1>1, <1>8
<1> QED
  BY <1>9, <1>10, <1>11, <1>12, <1>13, <1>14, <1>15 DEF FileInv

-----------------------------------------------------------------------------
(* The theorems.                                                           *)

\* Every step of a visit keeps the invariant.
LEMMA VisitKeeps == FileInv /\ Visit => FileInv'
<1> SUFFICES ASSUME FileInv, Visit PROVE FileInv'
  OBVIOUS
<1>1. CASE Start \/ AllocationFails \/ PollToken \/ ReadOverreports \/ BoundaryIsCancelled
           \/ BoundaryOverreports \/ BoundaryFailed \/ EmitIssue
  BY <1>1, LeavingSteps
<1>2. CASE ReadBuffered
  BY <1>2, ReadBufferedKeeps
<1>3. CASE ReadPending
  BY <1>3, ReadPendingKeeps
<1>4. CASE ReadDirect
  BY <1>4, ReadDirectKeeps
<1>5. CASE ReadThroughBuffer
  BY <1>5, ReadThroughBufferKeeps
<1>6. CASE Allocate
  BY <1>6, AllocateKeeps
<1>7. CASE BoundaryEnds
  BY <1>7, BoundaryEndsKeeps
<1>8. CASE BoundaryGoesOn
  BY <1>8, BoundaryGoesOnKeeps
<1>9. CASE BoundaryTakesByte
  BY <1>9, BoundaryTakesByteKeeps
<1>10. CASE BoundaryTakesPending
  BY <1>10, BoundaryTakesPendingKeeps
<1>11. CASE BoundaryFills
  BY <1>11, BoundaryFillsKeeps
<1>12. CASE EmitFragment
  BY <1>12, EmitFragmentKeeps
<1> QED
  BY <1>1, <1>2, <1>3, <1>4, <1>5, <1>6, <1>7, <1>8, <1>9, <1>10, <1>11, <1>12 DEF Visit

\* The invariant holds throughout a visit (FileSource::visit).
THEOREM FileInvariant == FileSpec => []FileInv
<1>1. FileInv /\ [FileNext]_fileVars => FileInv'
  <2> SUFFICES ASSUME FileInv, [FileNext]_fileVars PROVE FileInv'
    OBVIOUS
  <2>1. CASE CancelVisit
    BY <2>1, CancelKeeps
  <2>2. CASE Visit
    BY <2>2, VisitKeeps
  <2>3. CASE UNCHANGED fileVars
    <3>1. /\ file' = file /\ chunkSize' = chunkSize /\ cancelled' = cancelled /\ pc' = pc
          /\ taken' = taken /\ buffered' = buffered /\ pending' = pending /\ chunk' = chunk
          /\ nominal' = nominal /\ status' = status /\ newlines' = newlines
          /\ totalLines' = totalLines /\ delivered' = delivered /\ reported' = reported
          /\ result' = result
      BY <2>3 DEF fileVars, readerVars, chunkVars, outputVars
    <3>2. ChunkPlace' /\ EofInv' /\ SearchInv'
      BY <3>1 DEF FileInv, ChunkPlace, EofInv, SearchInv
    <3> QED
      BY <3>1, <3>2, QuietKeeps DEF FileInv, TypeOK, readerVars, chunkVars
  <2> QED
    BY <2>1, <2>2, <2>3 DEF FileNext, Returned
<1> QED
  BY FileInvInitially, <1>1, PTL DEF FileSpec

\* The variables keep their types: no count leaves the file, no buffer its capacity.
THEOREM TypeCorrect == FileSpec => []TypeOK
<1>1. FileInv => TypeOK
  BY DEF FileInv
<1> QED
  BY <1>1, FileInvariant, PTL

\* The fragments of a visit are the file, piece by piece, however its bytes came.
THEOREM FragmentsAreTheFile == FileSpec => []NoGapNoOverlap
BY InvariantImplies, FileInvariant, PTL

\* Two fragments are only divided at a blank line or where the read-ahead ends.
THEOREM SplitsAreSafe == FileSpec => []SplitIsSafe
BY InvariantImplies, FileInvariant, PTL

\* A visit that ends normally has delivered the whole file.
THEOREM NothingIsMissing == FileSpec => []NothingSilentlyMissing
BY InvariantImplies, FileInvariant, PTL
==================================================================================
