----------------------- MODULE ArchiveTraversal_proofs -----------------------
(***************************************************************************)
(* Proofs about ArchiveTraversal: for all limits, all containers and every *)
(* number of entries, an answer of the callback that ends the visit is     *)
(* final, the members that were scanned or extracted and the streams that  *)
(* were decoded stay within the limits, one by one and together, and a     *)
(* visit that ends normally has forgotten nothing.                         *)
(*                                                                         *)
(* Entries are counted when they are met, but those of a 7z all at once,   *)
(* before any of them is handed out.  So what the counter stands for is    *)
(* not only what has been handed out: it is that, the file in hand, and    *)
(* the members of 7z archives that are still to come.  Bytes are charged   *)
(* before it is known whether they are too many, and stay charged, so the  *)
(* counter may be beyond the limit: what it stands for never is.           *)
(*                                                                         *)
(* Nothing is forgotten because, until an answer ends the visit, an entry  *)
(* that is not accounted for is in hand, or comes after the place where    *)
(* the extraction of its archive, somewhere on the stack, will go on.      *)
(***************************************************************************)
EXTENDS ArchiveTraversal, FiniteSetTheorems, TLAPS

Frame == [archive : Nat \ {0}, next : Nat \ {0}]
Archive ==
  [format : Formats, depth : Nat, decoded : Nat, entries : Seq(Entry),
   ended : BOOLEAN, broken : BOOLEAN]

\* A place that an archive of `arcs` has, and what is there.
Valid(place, arcs) ==
  /\ place[1] \in 1 .. Len(arcs)
  /\ place[2] \in 1 .. Len(arcs[place[1]].entries)
EntryIn(place, arcs) == arcs[place[1]].entries[place[2]]
SizeIn(place, arcs) == EntryIn(place, arcs).size

\* Every extraction in progress is of another archive, and where entries are read one by
\* one, the next one comes after all that were found.
StackOf(stk, arcs) ==
  /\ stk \in Seq(Frame)
  /\ \A i \in 1 .. Len(stk) :
       /\ stk[i].archive \in 1 .. Len(arcs)
       /\ arcs[stk[i].archive].format \notin Listed =>
            stk[i].next = Len(arcs[stk[i].archive].entries) + 1
       /\ \A j \in 1 .. Len(stk) : j # i => stk[j].archive # stk[i].archive

\* The members of 7z archives that are counted and still to come.
ToCome(stk, arcs) ==
  {place \in Nat \X Nat :
     \E i \in 1 .. Len(stk) :
       /\ place[1] = stk[i].archive /\ arcs[place[1]].format = "7z"
       /\ place[2] \in stk[i].next .. Len(arcs[place[1]].entries)}

TypesInv ==
  /\ limits \in Limits
  /\ doing \in {"visit", "open", "next", "scan", "return", "done"}
  /\ control \in {"Continue", "Stop", "Callback", "Cancelled"}
  /\ token \in BOOLEAN
  /\ file \in [at : Nat \X Nat, format : Formats \cup {None}]
  /\ archives \in Seq(Archive)
  /\ entries \in Nat /\ expanded \in Nat
  /\ scanned \in SUBSET (Nat \X Nat) /\ extracted \in SUBSET (Nat \X Nat)

\* Only a visit that returns has an answer, and only a raised token cancels.
ControlInv ==
  /\ control # "Continue" => doing \in {"return", "done"}
  /\ control = "Cancelled" => token

StackInv ==
  /\ StackOf(stack, archives)
  /\ doing = "next" => stack # <<>>

\* What was handed out, or is in hand.
Out == {place \in scanned \cup extracted \cup {file.at} : IsMember(place)}

FitInv ==
  /\ \A a \in 1 .. Len(archives) :
       archives[a].depth < limits.depth /\ archives[a].decoded <= limits.memberBytes
  /\ \A place \in Out : Valid(place, archives) /\ SizeIn(place, archives) <= limits.memberBytes

Counted == Out \cup ToCome(stack, archives)

CountInv ==
  /\ IsFiniteSet(Counted)
  /\ Cardinality(Counted) <= entries
  /\ Cardinality(Counted) <= limits.entries

\* The bytes of what was handed out or is in hand, and of the streams that were decoded.
Spent ==
  {byte \in (Nat \X Nat) \X Nat :
     \/ byte[1] \in Out /\ byte[2] \in 1 .. SizeIn(byte[1], archives)
     \/ /\ byte[1][1] \in 1 .. Len(archives) /\ byte[1][2] = 0
        /\ byte[2] \in 1 .. archives[byte[1][1]].decoded}

SpentInv ==
  /\ IsFiniteSet(Spent)
  /\ Cardinality(Spent) <= expanded
  /\ Cardinality(Spent) <= limits.totalBytes

ArchiveInv == TypesInv /\ ControlInv /\ StackInv /\ FitInv /\ CountInv /\ SpentInv

-----------------------------------------------------------------------------
(* Stacks of extractions.                                                  *)

\* What the first elements of a sequence are.
LEMMA Beginning ==
  ASSUME NEW S, NEW s \in Seq(S), NEW n \in Nat, n <= Len(s)
  PROVE  /\ SubSeq(s, 1, n) \in Seq(S)
         /\ Len(SubSeq(s, 1, n)) = n
         /\ \A i \in 1 .. n : SubSeq(s, 1, n)[i] = s[i]
<1>1. SubSeq(s, 1, n) \in Seq(S)
  OBVIOUS
<1>2. Len(SubSeq(s, 1, n)) = n
  OBVIOUS
<1>3. \A i \in 1 .. n : SubSeq(s, 1, n)[i] = s[i]
  OBVIOUS
<1> QED
  BY <1>1, <1>2, <1>3

\* What Front and Last are of a sequence that is not empty.
LEMMA FrontAndLast ==
  ASSUME NEW S, NEW s \in Seq(S), s # <<>>
  PROVE  /\ Len(s) \in Nat \ {0}
         /\ Front(s) \in Seq(S)
         /\ Len(Front(s)) = Len(s) - 1
         /\ \A i \in 1 .. Len(s) - 1 : Front(s)[i] = s[i]
         /\ Last(s) = s[Len(s)] /\ Last(s) \in S
<1> DEFINE n == Len(s) - 1
<1>1. Len(s) \in Nat \ {0} /\ n \in Nat /\ n <= Len(s)
  OBVIOUS
<1>2. Last(s) = s[Len(s)] /\ Last(s) \in S
  BY <1>1 DEF Last
<1>3. Front(s) = SubSeq(s, 1, n)
  BY DEF Front
<1> HIDE DEF n
<1>4. /\ SubSeq(s, 1, n) \in Seq(S)
      /\ Len(SubSeq(s, 1, n)) = n
      /\ \A i \in 1 .. n : SubSeq(s, 1, n)[i] = s[i]
  BY <1>1, Beginning
<1> USE DEF n
<1> QED
  BY <1>1, <1>2, <1>3, <1>4

\* An extraction ends.
LEMMA PopStack ==
  ASSUME NEW stk, NEW arcs \in Seq(Archive), StackOf(stk, arcs), stk # <<>>
  PROVE  /\ StackOf(Front(stk), arcs)
         /\ ToCome(Front(stk), arcs) \subseteq ToCome(stk, arcs)
<1>1. stk \in Seq(Frame)
  BY DEF StackOf
<1>2. /\ Len(stk) \in Nat \ {0} /\ Front(stk) \in Seq(Frame)
      /\ Len(Front(stk)) = Len(stk) - 1
      /\ \A i \in 1 .. Len(stk) - 1 : Front(stk)[i] = stk[i]
  BY <1>1, FrontAndLast
<1> HIDE DEF Frame, Archive
<1>3. StackOf(Front(stk), arcs)
  BY <1>2 DEF StackOf
<1>4. ToCome(Front(stk), arcs) \subseteq ToCome(stk, arcs)
  BY <1>2 DEF ToCome
<1> QED
  BY <1>3, <1>4

\* Entries and formats are all that a stack needs to know of archives.
LEMMA SameEntries ==
  ASSUME NEW stk, NEW arcs \in Seq(Archive), NEW new \in Seq(Archive), StackOf(stk, arcs),
         Len(new) = Len(arcs),
         \A a \in 1 .. Len(arcs) : new[a].format = arcs[a].format /\ new[a].entries = arcs[a].entries
  PROVE  StackOf(stk, new) /\ ToCome(stk, new) = ToCome(stk, arcs)
<1>1. StackOf(stk, new)
  BY DEF StackOf
<1>2. ToCome(stk, new) = ToCome(stk, arcs)
  BY DEF StackOf, ToCome
<1> QED
  BY <1>1, <1>2

\* An archive is opened, and its extraction is not begun.
LEMMA AddArchive ==
  ASSUME NEW stk, NEW arcs \in Seq(Archive), StackOf(stk, arcs), NEW arc \in Archive
  PROVE  /\ StackOf(stk, Append(arcs, arc))
         /\ ToCome(stk, Append(arcs, arc)) = ToCome(stk, arcs)
         /\ \A place : Valid(place, arcs) =>
              Valid(place, Append(arcs, arc))
              /\ EntryIn(place, Append(arcs, arc)) = EntryIn(place, arcs)
<1> DEFINE new == Append(arcs, arc)
<1>1. /\ new \in Seq(Archive) /\ Len(new) = Len(arcs) + 1 /\ Len(arcs) \in Nat
      /\ \A a \in 1 .. Len(arcs) : new[a] = arcs[a]
  OBVIOUS
<1> HIDE DEF new
<1>2. StackOf(stk, new)
  BY <1>1 DEF StackOf
<1>3. ToCome(stk, new) = ToCome(stk, arcs)
  BY <1>1 DEF StackOf, ToCome
<1>4. \A place : Valid(place, arcs) =>
        Valid(place, new) /\ EntryIn(place, new) = EntryIn(place, arcs)
  BY <1>1 DEF Valid, EntryIn, SizeIn
<1> QED
  BY <1>2, <1>3, <1>4 DEF new

\* Its extraction is begun.
LEMMA PushArchive ==
  ASSUME NEW stk, NEW arcs \in Seq(Archive), StackOf(stk, arcs), NEW arc \in Archive,
         arc.format \notin Listed => arc.entries = <<>>
  PROVE  LET new == Append(arcs, arc)
             pushed == Append(stk, [archive |-> Len(arcs) + 1, next |-> 1])
         IN /\ StackOf(pushed, new)
            /\ arc.format # "7z" => ToCome(pushed, new) \subseteq ToCome(stk, arcs)
            /\ ToCome(pushed, new) \subseteq
                 ToCome(stk, arcs) \cup {<<Len(arcs) + 1, n>> : n \in 1 .. Len(arc.entries)}
<1> DEFINE new == Append(arcs, arc)
           top == [archive |-> Len(arcs) + 1, next |-> 1]
           pushed == Append(stk, top)
<1>1. /\ new \in Seq(Archive) /\ Len(new) = Len(arcs) + 1 /\ Len(arcs) \in Nat
      /\ \A a \in 1 .. Len(arcs) : new[a] = arcs[a]
      /\ new[Len(arcs) + 1] = arc
  OBVIOUS
<1>2. stk \in Seq(Frame) /\ top \in Frame
  BY <1>1 DEF StackOf, Frame
<1>3. /\ pushed \in Seq(Frame) /\ Len(pushed) = Len(stk) + 1 /\ Len(stk) \in Nat
      /\ \A i \in 1 .. Len(stk) : pushed[i] = stk[i]
      /\ pushed[Len(stk) + 1] = top
  BY <1>2
<1>4. top.archive = Len(arcs) + 1 /\ top.next = 1
  OBVIOUS
<1>5. arc.entries \in Seq(Entry) /\ (arc.format \notin Listed => Len(arc.entries) = 0)
  BY DEF Archive
<1> HIDE DEF new, top, pushed
<1>6. StackOf(pushed, new)
  <2>1. \A i \in 1 .. Len(pushed) : i \in 1 .. Len(stk) \/ i = Len(stk) + 1
    BY <1>3
  <2>2. \A i \in 1 .. Len(stk) : stk[i].archive \in 1 .. Len(arcs)
    BY DEF StackOf
  <2>3. \A i \in 1 .. Len(pushed) : pushed[i].archive \in 1 .. Len(new)
    BY <1>1, <1>3, <1>4, <2>1, <2>2
  <2>4. \A i \in 1 .. Len(pushed) :
          new[pushed[i].archive].format \notin Listed =>
            pushed[i].next = Len(new[pushed[i].archive].entries) + 1
    <3> SUFFICES ASSUME NEW i \in 1 .. Len(pushed),
                        new[pushed[i].archive].format \notin Listed
                 PROVE  pushed[i].next = Len(new[pushed[i].archive].entries) + 1
      OBVIOUS
    <3>1. CASE i \in 1 .. Len(stk)
      BY <1>1, <1>3, <2>2, <3>1 DEF StackOf
    <3>2. CASE i = Len(stk) + 1
      BY <1>1, <1>3, <1>4, <1>5, <3>2
    <3> QED
      BY <2>1, <3>1, <3>2
  <2>5. \A i, j \in 1 .. Len(pushed) : j # i => pushed[j].archive # pushed[i].archive
    BY <1>1, <1>3, <1>4, <2>1, <2>2 DEF StackOf
  <2> QED
    BY <1>3, <2>3, <2>4, <2>5 DEF StackOf
<1>7. ASSUME NEW place \in ToCome(pushed, new)
      PROVE  \/ place \in ToCome(stk, arcs)
             \/ /\ arc.format = "7z"
                /\ place \in {<<Len(arcs) + 1, n>> : n \in 1 .. Len(arc.entries)}
  <2>1. PICK i \in 1 .. Len(pushed) :
          /\ place[1] = pushed[i].archive /\ new[place[1]].format = "7z"
          /\ place[2] \in pushed[i].next .. Len(new[place[1]].entries)
    BY DEF ToCome
  <2>2. place \in Nat \X Nat
    BY DEF ToCome
  <2>3. CASE i \in 1 .. Len(stk)
    <3>1. pushed[i] = stk[i] /\ stk[i].archive \in 1 .. Len(arcs)
      BY <1>3, <2>3 DEF StackOf
    <3> QED
      BY <1>1, <2>1, <2>2, <2>3, <3>1 DEF ToCome
  <2>4. CASE i = Len(stk) + 1
    <3>1. place[1] = Len(arcs) + 1 /\ new[place[1]] = arc /\ place[2] \in 1 .. Len(arc.entries)
      BY <1>1, <1>3, <1>4, <2>1, <2>4
    <3>2. place = <<Len(arcs) + 1, place[2]>>
      BY <2>2, <3>1
    <3> QED
      BY <2>1, <3>1, <3>2
  <2> QED
    BY <1>3, <2>1, <2>3, <2>4
<1> QED
  BY <1>6, <1>7 DEF new, top, pushed

\* The extraction on top goes on with the next entry.
LEMMA ForwardOnStack ==
  ASSUME NEW stk \in Seq(Frame), stk # <<>>
  PROVE  LET on == [stk EXCEPT ![Len(stk)].next = @ + 1]
         IN /\ Len(stk) \in Nat \ {0}
            /\ on \in Seq(Frame) /\ Len(on) = Len(stk)
            /\ \A i \in 1 .. Len(stk) : i # Len(stk) => on[i] = stk[i]
            /\ on[Len(stk)].archive = stk[Len(stk)].archive
            /\ on[Len(stk)].next = stk[Len(stk)].next + 1
<1> DEFINE n == Len(stk)
           on == [stk EXCEPT ![n].next = @ + 1]
<1>1. n \in Nat \ {0} /\ stk[n] \in Frame
  OBVIOUS
<1>2. /\ stk[n].archive \in Nat \ {0} /\ stk[n].next \in Nat \ {0}
      /\ [stk[n] EXCEPT !.next = @ + 1] \in Frame
      /\ [stk[n] EXCEPT !.next = @ + 1].archive = stk[n].archive
      /\ [stk[n] EXCEPT !.next = @ + 1].next = stk[n].next + 1
  BY <1>1 DEF Frame
<1>3. on = [stk EXCEPT ![n] = [stk[n] EXCEPT !.next = @ + 1]]
  OBVIOUS
<1>4. /\ on \in Seq(Frame) /\ Len(on) = Len(stk)
      /\ \A i \in 1 .. Len(stk) : i # Len(stk) => on[i] = stk[i]
      /\ on[n] = [stk[n] EXCEPT !.next = @ + 1]
  BY <1>1, <1>2, <1>3
<1> QED
  BY <1>1, <1>2, <1>4

\* What an extraction is.
LEMMA FrameHas ==
  ASSUME NEW stk \in Seq(Frame), NEW i \in 1 .. Len(stk)
  PROVE  stk[i].archive \in Nat \ {0} /\ stk[i].next \in Nat \ {0}
<1>1. stk[i] \in Frame
  OBVIOUS
<1> QED
  BY <1>1 DEF Frame

\* What an archive is.
LEMMA ArchiveHas ==
  ASSUME NEW arc \in Archive
  PROVE  /\ arc.format \in Formats /\ arc.depth \in Nat /\ arc.decoded \in Nat
         /\ arc.entries \in Seq(Entry) /\ Len(arc.entries) \in Nat
BY DEF Archive

\* An archive of which another entry is read.
ReadOne(arc, e, broken) == [arc EXCEPT !.entries = Append(@, e), !.broken = broken]

\* It has one entry more, and stays the archive that it was.
LEMMA ArchiveReads ==
  ASSUME NEW arc \in Archive, NEW e \in Entry, NEW broken \in BOOLEAN
  PROVE  LET new == ReadOne(arc, e, broken)
         IN /\ new \in Archive
            /\ new.format = arc.format /\ new.depth = arc.depth
            /\ new.decoded = arc.decoded /\ new.entries = Append(arc.entries, e)
            /\ new.ended = arc.ended
<1>1. arc.entries \in Seq(Entry) /\ Append(arc.entries, e) \in Seq(Entry)
  BY ArchiveHas
<1> QED
  BY <1>1 DEF Archive, ReadOne

\* The archives after an entry was read, and the extractions with the next entry.
Read(arcs, a, e, broken) ==
  [arcs EXCEPT ![a].entries = Append(@, e), ![a].broken = broken]
On(stk) == [stk EXCEPT ![Len(stk)].next = @ + 1]

\* The next entry of a TAR or a ZIP is read.
LEMMA ReadOnStack ==
  ASSUME NEW stk, NEW arcs \in Seq(Archive), StackOf(stk, arcs), stk # <<>>,
         NEW e \in Entry, NEW broken \in BOOLEAN,
         arcs[Last(stk).archive].format \notin Listed
  PROVE  LET top == Last(stk)
             new == Read(arcs, top.archive, e, broken)
             on == On(stk)
             place == <<top.archive, top.next>>
         IN /\ new \in Seq(Archive) /\ Len(new) = Len(arcs)
            /\ \A a \in 1 .. Len(arcs) :
                 new[a].depth = arcs[a].depth /\ new[a].decoded = arcs[a].decoded
            /\ \A a \in 1 .. Len(arcs) : new[a].ended = arcs[a].ended
            /\ \A p : Valid(p, new) /\ ~Valid(p, arcs) => p[1] = top.archive /\ p[2] = top.next
            /\ \A p : Valid(p, arcs) => Valid(p, new) /\ EntryIn(p, new) = EntryIn(p, arcs)
            /\ Valid(place, new) /\ EntryIn(place, new) = e /\ place \in Nat \X Nat
            /\ StackOf(on, new) /\ ToCome(on, new) \subseteq ToCome(stk, arcs)
            /\ StackOf(Front(stk), new)
            /\ ToCome(Front(stk), new) \subseteq ToCome(stk, arcs)
<1> DEFINE top == Last(stk)
           t == top.archive
           new == [arcs EXCEPT ![t].entries = Append(@, e), ![t].broken = broken]
           on == [stk EXCEPT ![Len(stk)].next = @ + 1]
           front == Front(stk)
           place == <<top.archive, top.next>>
<1>1. /\ stk \in Seq(Frame) /\ Len(stk) \in Nat \ {0} /\ top \in Frame /\ top = stk[Len(stk)]
      /\ front \in Seq(Frame) /\ Len(front) = Len(stk) - 1
      /\ \A i \in 1 .. Len(stk) - 1 : front[i] = stk[i]
  <2> HIDE DEF Frame
  <2>1. stk \in Seq(Frame)
    BY DEF StackOf
  <2> QED
    BY <2>1, FrontAndLast
<1>2. /\ t \in 1 .. Len(arcs) /\ top.next = Len(arcs[t].entries) + 1
      /\ \A i \in 1 .. Len(stk) - 1 : stk[i].archive \in 1 .. Len(arcs) /\ stk[i].archive # t
      /\ \A i, j \in 1 .. Len(stk) : j # i => stk[j].archive # stk[i].archive
  BY <1>1 DEF StackOf
<1>3. /\ on \in Seq(Frame) /\ Len(on) = Len(stk)
      /\ \A i \in 1 .. Len(stk) - 1 : on[i] = stk[i]
      /\ on[Len(stk)].archive = t /\ on[Len(stk)].next = top.next + 1
  BY <1>1, ForwardOnStack
<1>4. /\ arcs[t] \in Archive /\ arcs[t].entries \in Seq(Entry)
      /\ Len(arcs[t].entries) \in Nat
  BY <1>2, ArchiveHas
<1> DEFINE read == ReadOne(arcs[t], e, broken)
<1>a. read \in Archive
  BY <1>4, ArchiveReads
<1>b. new = [arcs EXCEPT ![t] = read]
  BY <1>2 DEF ReadOne
<1>5. /\ new \in Seq(Archive) /\ Len(new) = Len(arcs)
      /\ \A a \in 1 .. Len(arcs) : a # t => new[a] = arcs[a]
      /\ new[t] = read
  <2> HIDE DEF t, read, new
  <2> QED
    BY <1>2, <1>a, <1>b
<1>6. /\ new[t].entries = Append(arcs[t].entries, e) /\ new[t].format = arcs[t].format
      /\ new[t].depth = arcs[t].depth /\ new[t].decoded = arcs[t].decoded
      /\ new[t].ended = arcs[t].ended
  <2>1. /\ read.entries = Append(arcs[t].entries, e) /\ read.format = arcs[t].format
        /\ read.depth = arcs[t].depth /\ read.decoded = arcs[t].decoded
        /\ read.ended = arcs[t].ended
    <3> HIDE DEF t
    <3> QED
      BY <1>4, ArchiveReads
  <2> HIDE DEF t, read, new
  <2> QED
    BY <1>5, <2>1
<1>7. /\ Len(new[t].entries) = Len(arcs[t].entries) + 1
      /\ \A n \in 1 .. Len(arcs[t].entries) : new[t].entries[n] = arcs[t].entries[n]
      /\ new[t].entries[top.next] = e
  BY <1>2, <1>4, <1>6
<1>8. t \in Nat /\ top.next \in Nat \ {0} /\ new[t].format \notin Listed /\ new[t].format # "7z"
  BY <1>2, <1>4, <1>6 DEF Listed
<1> HIDE DEF top, t, read, new, on, front
<1>9. \A a \in 1 .. Len(arcs) : new[a].depth = arcs[a].depth /\ new[a].decoded = arcs[a].decoded
  BY <1>5, <1>6
<1>10. \A p : Valid(p, arcs) => Valid(p, new) /\ EntryIn(p, new) = EntryIn(p, arcs)
  <2> SUFFICES ASSUME NEW p, Valid(p, arcs)
               PROVE  Valid(p, new) /\ EntryIn(p, new) = EntryIn(p, arcs)
    OBVIOUS
  <2>1. CASE p[1] = t
    <3>1. p[1] \in 1 .. Len(new) /\ p[2] \in 1 .. Len(arcs[t].entries)
      BY <1>5, <2>1 DEF Valid
    <3>2. p[2] \in 1 .. Len(new[t].entries) /\ new[t].entries[p[2]] = arcs[t].entries[p[2]]
      BY <1>4, <1>7, <3>1
    <3> QED
      BY <2>1, <3>1, <3>2 DEF Valid, EntryIn, SizeIn
  <2>2. CASE p[1] # t
    BY <1>5, <2>2 DEF Valid, EntryIn, SizeIn
  <2> QED
    BY <2>1, <2>2
<1>11. Valid(place, new) /\ EntryIn(place, new) = e /\ place \in Nat \X Nat
  <2>1. place[1] = t /\ place[2] = top.next /\ place \in Nat \X Nat
    BY <1>8 DEF t
  <2>2. top.next \in 1 .. Len(new[t].entries)
    BY <1>2, <1>4, <1>7
  <2> HIDE DEF place
  <2> QED
    BY <1>2, <1>5, <1>7, <2>1, <2>2 DEF Valid, EntryIn, SizeIn
<1>12. \A i \in 1 .. Len(stk) - 1 :
         /\ new[stk[i].archive].format \notin Listed =>
              stk[i].next = Len(new[stk[i].archive].entries) + 1
         /\ new[stk[i].archive] = arcs[stk[i].archive]
  <2>1. \A i \in 1 .. Len(stk) - 1 : new[stk[i].archive] = arcs[stk[i].archive]
    BY <1>2, <1>5
  <2>2. \A i \in 1 .. Len(stk) - 1 : i \in 1 .. Len(stk)
    BY <1>1
  <2> QED
    BY <2>1, <2>2 DEF StackOf
<1>13. StackOf(on, new)
  <2>1. \A i \in 1 .. Len(on) : i \in 1 .. Len(stk) - 1 \/ i = Len(stk)
    BY <1>1, <1>3
  <2>2. \A i \in 1 .. Len(on) : on[i].archive = stk[i].archive
    BY <1>1, <1>3, <2>1 DEF t
  <2>3. \A i \in 1 .. Len(on) : on[i].archive \in 1 .. Len(new)
    BY <1>2, <1>3, <1>5, <2>1
  <2>4. \A i \in 1 .. Len(on) : new[on[i].archive].format \notin Listed =>
          on[i].next = Len(new[on[i].archive].entries) + 1
    BY <1>2, <1>3, <1>7, <1>12, <2>1
  <2> QED
    BY <1>2, <1>3, <2>2, <2>3, <2>4 DEF StackOf
<1>14. ToCome(on, new) \subseteq ToCome(stk, arcs)
  <2> SUFFICES ASSUME NEW p \in ToCome(on, new)
               PROVE  p \in ToCome(stk, arcs)
    OBVIOUS
  <2>1. PICK i \in 1 .. Len(stk) :
          /\ p[1] = on[i].archive /\ new[p[1]].format = "7z"
          /\ p[2] \in on[i].next .. Len(new[p[1]].entries)
    BY <1>3 DEF ToCome
  <2>2. i \in 1 .. Len(stk) - 1
    BY <1>1, <1>3, <1>8, <2>1
  <2>3. on[i] = stk[i] /\ new[stk[i].archive] = arcs[stk[i].archive]
    BY <1>3, <1>12, <2>2
  <2> QED
    BY <2>1, <2>3 DEF ToCome
<1>15. StackOf(front, new)
  <2>1. \A i \in 1 .. Len(front) :
          i \in 1 .. Len(stk) - 1 /\ i \in 1 .. Len(stk) /\ front[i] = stk[i]
    BY <1>1
  <2>2. \A i \in 1 .. Len(front) : front[i].archive \in 1 .. Len(new)
    BY <1>2, <1>5, <2>1
  <2>3. \A i \in 1 .. Len(front) : new[front[i].archive].format \notin Listed =>
          front[i].next = Len(new[front[i].archive].entries) + 1
    BY <1>12, <2>1
  <2>4. \A i, j \in 1 .. Len(front) : j # i => front[j].archive # front[i].archive
    BY <1>2, <2>1
  <2> QED
    BY <1>1, <2>2, <2>3, <2>4 DEF StackOf
<1>16. ToCome(front, new) \subseteq ToCome(stk, arcs)
  BY <1>1, <1>8, <1>12 DEF ToCome
<1>17. \A a \in 1 .. Len(arcs) : new[a].ended = arcs[a].ended
  BY <1>5, <1>6
<1>18. ASSUME NEW p, Valid(p, new), ~Valid(p, arcs)
       PROVE  p[1] = t /\ p[2] = top.next
  <2>1. p[1] = t
    BY <1>5, <1>18 DEF Valid
  <2>2. /\ p[2] \in 1 .. Len(new[t].entries) /\ p[2] \notin 1 .. Len(arcs[t].entries)
    BY <1>2, <1>18, <2>1 DEF Valid
  <2> QED
    BY <1>2, <1>4, <1>7, <2>1, <2>2
<1> QED
  BY <1>17, <1>18, <1>5, <1>9, <1>10, <1>11, <1>13, <1>14, <1>15, <1>16
  DEF top, t, new, on, front, Read, On

\* The next member of a 7z or a RAR is handed out.
LEMMA ListOnStack ==
  ASSUME NEW stk, NEW arcs \in Seq(Archive), StackOf(stk, arcs), stk # <<>>,
         arcs[Last(stk).archive].format \in Listed,
         Last(stk).next <= Len(arcs[Last(stk).archive].entries)
  PROVE  LET top == Last(stk)
             on == [stk EXCEPT ![Len(stk)].next = @ + 1]
             place == <<top.archive, top.next>>
         IN /\ StackOf(on, arcs) /\ ToCome(on, arcs) \subseteq ToCome(stk, arcs)
            /\ Valid(place, arcs) /\ place \in Nat \X Nat
            /\ arcs[top.archive].entries[top.next] \in Entry
            /\ EntryIn(place, arcs) = arcs[top.archive].entries[top.next]
            /\ arcs[top.archive].format = "7z" => place \in ToCome(stk, arcs)
<1> DEFINE top == Last(stk)
           on == [stk EXCEPT ![Len(stk)].next = @ + 1]
           place == <<top.archive, top.next>>
<1>1. /\ stk \in Seq(Frame) /\ Len(stk) \in Nat \ {0} /\ top \in Frame /\ top = stk[Len(stk)]
  <2> HIDE DEF Frame
  <2>1. stk \in Seq(Frame)
    BY DEF StackOf
  <2> QED
    BY <2>1, FrontAndLast
<1>2. top.archive \in 1 .. Len(arcs) /\ top.next \in Nat \ {0}
  BY <1>1 DEF StackOf, Frame
<1>3. arcs[top.archive].entries \in Seq(Entry)
  BY <1>2, ArchiveHas
<1>4. /\ on \in Seq(Frame) /\ Len(on) = Len(stk)
      /\ \A i \in 1 .. Len(stk) : i # Len(stk) => on[i] = stk[i]
      /\ \A i \in 1 .. Len(stk) : on[i].archive = stk[i].archive /\ on[i].next >= stk[i].next
      /\ on[Len(stk)].archive = top.archive
  <2>1. stk \in Seq(Frame) /\ stk # <<>>
    BY <1>1
  <2>2. /\ on \in Seq(Frame) /\ Len(on) = Len(stk)
        /\ \A i \in 1 .. Len(stk) : i # Len(stk) => on[i] = stk[i]
        /\ on[Len(stk)].archive = stk[Len(stk)].archive
        /\ on[Len(stk)].next = stk[Len(stk)].next + 1
    BY <2>1, ForwardOnStack
  <2>3. \A i \in 1 .. Len(stk) : stk[i].next \in Nat
    BY <1>1, FrameHas
  <2> HIDE DEF on, top
  <2>4. ASSUME NEW i \in 1 .. Len(stk)
        PROVE  on[i].archive = stk[i].archive /\ on[i].next >= stk[i].next
    <3>1. CASE i = Len(stk)
      BY <2>2, <2>3, <3>1
    <3>2. CASE i # Len(stk)
      <4>1. on[i] = stk[i]
        BY <2>2, <3>2
      <4>2. stk[i].next \in Nat
        BY <2>3
      <4> QED
        BY <4>1, <4>2
    <3> QED
      BY <3>1, <3>2
  <2> QED
    BY <1>1, <2>2, <2>4
<1> HIDE DEF on, top
<1>5. StackOf(on, arcs)
  BY <1>1, <1>4 DEF StackOf, top
<1>6. ToCome(on, arcs) \subseteq ToCome(stk, arcs)
  <2> SUFFICES ASSUME NEW p \in ToCome(on, arcs)
               PROVE  p \in ToCome(stk, arcs)
    OBVIOUS
  <2>1. PICK i \in 1 .. Len(stk) :
          /\ p[1] = on[i].archive /\ arcs[p[1]].format = "7z"
          /\ p[2] \in on[i].next .. Len(arcs[p[1]].entries)
    BY <1>4 DEF ToCome
  <2>2. stk[i].next \in Nat /\ on[i].next \in Nat
    BY <1>1, <1>4, FrameHas
  <2>3. p[2] \in stk[i].next .. Len(arcs[p[1]].entries)
    BY <1>4, <2>1, <2>2
  <2> QED
    BY <1>4, <2>1, <2>3 DEF ToCome
<1>7. Valid(place, arcs) /\ place \in Nat \X Nat
  BY <1>2, <1>3 DEF Valid, top
<1>8. arcs[top.archive].entries[top.next] \in Entry
  BY <1>2, <1>3 DEF top
<1>9. arcs[top.archive].format = "7z" => place \in ToCome(stk, arcs)
  BY <1>1, <1>2, <1>3, <1>7 DEF ToCome, Valid, top
<1> QED
  BY <1>5, <1>6, <1>7, <1>8, <1>9 DEF on, top, EntryIn, SizeIn

-----------------------------------------------------------------------------
(* Counting.                                                               *)

\* One more element.
LEMMA OneMore ==
  ASSUME NEW S, IsFiniteSet(S), NEW x, NEW T \in SUBSET (S \cup {x})
  PROVE  IsFiniteSet(T) /\ Cardinality(T) <= Cardinality(S) + 1
<1>1. IsFiniteSet(S \cup {x}) /\ Cardinality(S \cup {x}) <= Cardinality(S) + 1
  <2>1. Cardinality(S) \in Nat
    BY FS_CardinalityType
  <2>2. /\ IsFiniteSet(S \cup {x})
        /\ Cardinality(S \cup {x}) = IF x \in S THEN Cardinality(S) ELSE Cardinality(S) + 1
    BY FS_AddElement
  <2>3. CASE x \in S
    BY <2>1, <2>2, <2>3
  <2>4. CASE x \notin S
    BY <2>1, <2>2, <2>4
  <2> QED
    BY <2>3, <2>4
<1>2. IsFiniteSet(T) /\ Cardinality(T) <= Cardinality(S \cup {x})
  BY <1>1, FS_Subset
<1>3. /\ Cardinality(S) \in Nat /\ Cardinality(T) \in Nat
      /\ Cardinality(S \cup {x}) \in Nat
  BY <1>1, <1>2, FS_CardinalityType
<1> QED
  BY <1>1, <1>2, <1>3

\* The entries of one more archive.
LEMMA ManyMore ==
  ASSUME NEW S, IsFiniteSet(S), NEW a, NEW k \in Nat,
         NEW T \in SUBSET (S \cup {<<a, n>> : n \in 1 .. k})
  PROVE  IsFiniteSet(T) /\ Cardinality(T) <= Cardinality(S) + k
<1> DEFINE E == {<<a, n>> : n \in 1 .. k}
           f == [n \in 1 .. k |-> <<a, n>>]
<1>1. IsFiniteSet(1 .. k) /\ Cardinality(1 .. k) = k
  BY FS_Interval
<1>2. f \in Surjection(1 .. k, E)
  BY DEF Surjection
<1>3. IsFiniteSet(E) /\ Cardinality(E) <= k
  BY <1>1, <1>2, FS_Surjection
<1> HIDE DEF E
<1>4. IsFiniteSet(S \cup E)
      /\ Cardinality(S \cup E) = Cardinality(S) + Cardinality(E) - Cardinality(S \cap E)
  BY <1>3, FS_Union
<1>5. IsFiniteSet(S \cap E)
  BY <1>3, FS_Subset
<1>6. IsFiniteSet(T) /\ Cardinality(T) <= Cardinality(S \cup E)
  BY <1>4, FS_Subset DEF E
<1>7. /\ Cardinality(S) \in Nat /\ Cardinality(E) \in Nat /\ Cardinality(T) \in Nat
      /\ Cardinality(S \cap E) \in Nat /\ Cardinality(S \cup E) \in Nat
  BY <1>3, <1>4, <1>5, <1>6, FS_CardinalityType
<1> QED
  BY <1>3, <1>4, <1>6, <1>7

\* Nothing new is counted.
LEMMA KeepsCount ==
  ASSUME TypesInv, CountInv, Counted' \subseteq Counted,
         entries' \in Nat, entries' >= entries, UNCHANGED limits
  PROVE  CountInv'
<1>1. IsFiniteSet(Counted') /\ Cardinality(Counted') <= Cardinality(Counted)
  BY FS_Subset DEF CountInv
<1>2. Cardinality(Counted') \in Nat /\ Cardinality(Counted) \in Nat
  BY <1>1, FS_CardinalityType DEF CountInv
<1>3. limits.entries \in Nat /\ limits'.entries \in Nat
  BY ArchiveAssumption DEF TypesInv
<1> QED
  BY <1>1, <1>2, <1>3 DEF CountInv, TypesInv

\* What is new is counted, and entries are left.
LEMMA AddsCount ==
  ASSUME TypesInv, CountInv, NEW x, Counted' \subseteq Counted \cup {x},
         entries' = entries + 1, entries' <= limits.entries, UNCHANGED limits
  PROVE  CountInv'
<1>1. IsFiniteSet(Counted') /\ Cardinality(Counted') <= Cardinality(Counted) + 1
  BY OneMore DEF CountInv
<1>2. Cardinality(Counted') \in Nat /\ Cardinality(Counted) \in Nat
  BY <1>1, FS_CardinalityType DEF CountInv
<1>3. limits.entries \in Nat /\ limits'.entries \in Nat
  BY ArchiveAssumption DEF TypesInv
<1> QED
  BY <1>1, <1>2, <1>3 DEF CountInv, TypesInv

\* The entries of a 7z are counted when it is opened.
LEMMA AddsEntries ==
  ASSUME TypesInv, CountInv, NEW a, NEW k \in Nat,
         Counted' \subseteq Counted \cup {<<a, n>> : n \in 1 .. k},
         entries' = entries + k, entries' <= limits.entries, UNCHANGED limits
  PROVE  CountInv'
<1>1. IsFiniteSet(Counted') /\ Cardinality(Counted') <= Cardinality(Counted) + k
  BY ManyMore DEF CountInv
<1>2. Cardinality(Counted') \in Nat /\ Cardinality(Counted) \in Nat
  BY <1>1, FS_CardinalityType DEF CountInv
<1>3. limits.entries \in Nat /\ limits'.entries \in Nat
  BY ArchiveAssumption DEF TypesInv
<1> QED
  BY <1>1, <1>2, <1>3 DEF CountInv, TypesInv

\* What has been handed out stays what it was.
LEMMA KeepsFit ==
  ASSUME TypesInv, FitInv, Out' \subseteq Out, UNCHANGED limits,
         Len(archives') = Len(archives),
         \A a \in 1 .. Len(archives) :
           archives'[a].depth = archives[a].depth /\ archives'[a].decoded = archives[a].decoded,
         \A place : Valid(place, archives) =>
           Valid(place, archives') /\ EntryIn(place, archives') = EntryIn(place, archives)
  PROVE  FitInv'
BY DEF FitInv, SizeIn

\* One more member is handed out.
LEMMA AddsFit ==
  ASSUME TypesInv, FitInv, NEW new, Out' \subseteq Out \cup {new}, UNCHANGED limits,
         Len(archives') = Len(archives),
         \A a \in 1 .. Len(archives) :
           archives'[a].depth = archives[a].depth /\ archives'[a].decoded = archives[a].decoded,
         \A place : Valid(place, archives) =>
           Valid(place, archives') /\ EntryIn(place, archives') = EntryIn(place, archives),
         Valid(new, archives'), SizeIn(new, archives') <= limits.memberBytes
  PROVE  FitInv'
BY DEF FitInv, SizeIn

\* What was read stays what it was.
Kept ==
  /\ Len(archives') = Len(archives)
  /\ \A a \in 1 .. Len(archives) :
       archives'[a].depth = archives[a].depth /\ archives'[a].decoded = archives[a].decoded
  /\ \A place : Valid(place, archives) =>
       Valid(place, archives') /\ EntryIn(place, archives') = EntryIn(place, archives)

\* No byte is spent.
LEMMA KeepsSpent ==
  ASSUME TypesInv, SpentInv, Spent' \subseteq Spent,
         expanded' \in Nat, expanded' >= expanded, UNCHANGED limits
  PROVE  SpentInv'
<1>1. IsFiniteSet(Spent') /\ Cardinality(Spent') <= Cardinality(Spent)
  BY FS_Subset DEF SpentInv
<1>2. Cardinality(Spent') \in Nat /\ Cardinality(Spent) \in Nat
  BY <1>1, FS_CardinalityType DEF SpentInv
<1>3. limits.totalBytes \in Nat /\ limits'.totalBytes \in Nat
  BY ArchiveAssumption DEF TypesInv
<1> QED
  BY <1>1, <1>2, <1>3 DEF SpentInv, TypesInv

\* The bytes of one more place are charged, and they are not too many.
LEMMA AddsSpent ==
  ASSUME TypesInv, SpentInv, NEW place, NEW k \in Nat,
         Spent' \subseteq Spent \cup {<<place, n>> : n \in 1 .. k},
         expanded' = expanded + k, expanded' <= limits.totalBytes, UNCHANGED limits
  PROVE  SpentInv'
<1>1. IsFiniteSet(Spent') /\ Cardinality(Spent') <= Cardinality(Spent) + k
  BY ManyMore DEF SpentInv
<1>2. Cardinality(Spent') \in Nat /\ Cardinality(Spent) \in Nat
  BY <1>1, FS_CardinalityType DEF SpentInv
<1>3. limits.totalBytes \in Nat /\ limits'.totalBytes \in Nat
  BY ArchiveAssumption DEF TypesInv
<1> QED
  BY <1>1, <1>2, <1>3 DEF SpentInv, TypesInv

\* What is spent when no archive is opened and no member handed out.
LEMMA SameSpent ==
  ASSUME FitInv, Kept, Out' \subseteq Out
  PROVE  Spent' \subseteq Spent
BY DEF FitInv, Kept, Spent, SizeIn

\* What is spent when a member is handed out.
LEMMA MemberSpent ==
  ASSUME FitInv, Kept, NEW new, Out' \subseteq Out \cup {new}
  PROVE  Spent' \subseteq Spent \cup {<<new, n>> : n \in 1 .. SizeIn(new, archives')}
<1> SUFFICES ASSUME NEW byte \in Spent', byte \notin Spent
             PROVE  byte \in {<<new, n>> : n \in 1 .. SizeIn(new, archives')}
  OBVIOUS
<1>1. byte \in (Nat \X Nat) \X Nat
  BY DEF Spent
<1>2. byte[1] = new /\ byte[2] \in 1 .. SizeIn(new, archives')
  BY DEF FitInv, Kept, Spent, SizeIn
<1>3. byte = <<byte[1], byte[2]>>
  BY <1>1
<1> QED
  BY <1>2, <1>3

-----------------------------------------------------------------------------
(* The steps.                                                              *)

\* Everything but the control of the call stays as it is.
LEMMA Untouched ==
  ASSUME ArchiveInv, UNCHANGED <<limits, file, archives, entries, expanded>>,
         stack' = stack \/ (stack # <<>> /\ stack' = Front(stack)),
         scanned' \subseteq scanned \cup {file.at},
         extracted' \subseteq extracted \cup {file.at}
  PROVE  StackOf(stack, archives)' /\ FitInv' /\ CountInv' /\ SpentInv'
<1>1. StackOf(stack, archives)' /\ ToCome(stack, archives)' \subseteq ToCome(stack, archives)
  BY PopStack DEF ArchiveInv, TypesInv, StackInv
<1>2. Out' \subseteq Out
  BY DEF Out, IsMember
<1>3. Counted' \subseteq Counted
  BY <1>1, <1>2 DEF Counted
<1>4. CountInv'
  BY <1>3, KeepsCount DEF ArchiveInv, TypesInv
<1>5. FitInv'
  BY <1>2, KeepsFit DEF ArchiveInv
<1>6. SpentInv'
  <2>1. Spent' \subseteq Spent
    BY <1>2, SameSpent DEF ArchiveInv, Kept
  <2> QED
    BY <2>1, KeepsSpent DEF ArchiveInv, TypesInv
<1> QED
  BY <1>1, <1>4, <1>5, <1>6

File == [at : Nat \X Nat, format : Formats \cup {None}]

\* What a callback may answer, and where the visit goes on.
Answered ==
  /\ doing' \in {"open", "next", "scan", "return"}
  /\ control' \in {"Continue", "Stop", "Callback"}
  /\ control' # "Continue" => doing' = "return"

\* An entry of which a member may be handed out.
Processed(e) ==
  /\ Forward /\ Answered
  /\ expanded' \in Nat /\ expanded' >= expanded /\ scanned' = scanned
  /\ \/ file' = file
     \/ /\ file' \in File /\ file'.at = Place /\ e.size <= limits.memberBytes
        /\ expanded' = expanded + e.size /\ expanded' <= limits.totalBytes

\* An entry with which the extraction ends.
GivenUp ==
  /\ Pop /\ Answered /\ doing' = "return"
  /\ UNCHANGED <<file, expanded, scanned>>

\* What becomes of a member.
LEMMA MemberProcessed ==
  ASSUME ArchiveInv, NEW e \in Entry, Place \in Nat \X Nat, doing = "next", Member(e)
  PROVE  Processed(e)
<1>1. /\ e.size \in Nat /\ e.format \in Formats \cup {None}
      /\ limits.memberBytes \in Nat /\ limits.totalBytes \in Nat
      /\ expanded \in Nat /\ control = "Continue"
  BY ArchiveAssumption DEF ArchiveInv, TypesInv, ControlInv
<1>2. CASE e.allowed /\ Depth = 1
  BY <1>1, <1>2 DEF Member, Do, Processed, Answered, eventVars
<1>3. CASE ~(e.allowed /\ Depth = 1) /\ e.size > limits.memberBytes
  BY <1>1, <1>3 DEF Member, Skip, Report, Return, Processed, Answered
<1>4. CASE ~(e.allowed /\ Depth = 1) /\ ~(e.size > limits.memberBytes)
  <2>1. /\ Forward /\ expanded' = expanded + e.size /\ e.size <= limits.memberBytes
    BY <1>1, <1>4 DEF Member
  <2>2. CASE expanded' > limits.totalBytes
    BY <1>1, <1>4, <2>1, <2>2 DEF Member, Skip, Report, Return, Processed, Answered
  <2>3. CASE ~(expanded' > limits.totalBytes)
    <3>1. /\ file' = [at |-> Place, format |-> e.format]
          /\ Do(IF Here.format = "7z" /\ e.format = None THEN "scan" ELSE "open")
          /\ UNCHANGED eventVars
      BY <1>4, <2>3 DEF Member
    <3>2. file' \in File /\ file'.at = Place
      BY <1>1, <3>1 DEF File
    <3>3. Answered
      BY <1>1, <3>1 DEF Do, Answered
    <3>4. expanded' \in Nat /\ expanded' >= expanded /\ expanded' <= limits.totalBytes
      BY <1>1, <2>1, <2>3
    <3> QED
      BY <2>1, <3>1, <3>2, <3>3, <3>4 DEF Processed, eventVars
  <2> QED
    BY <2>2, <2>3
<1> QED
  BY <1>2, <1>3, <1>4

\* What becomes of an entry of a TAR or a ZIP.
LEMMA EntryProcessed ==
  ASSUME ArchiveInv, NEW e \in Entry, Place \in Nat \X Nat, doing = "next",
         entries' \in Nat, TarEntry(e) \/ ZipEntry(e)
  PROVE  GivenUp \/ (Processed(e) /\ entries' <= limits.entries)
<1>1. expanded \in Nat /\ control = "Continue"
  BY DEF ArchiveInv, TypesInv, ControlInv
<1>2. GiveUp => GivenUp
  BY DEF GiveUp, Abandon, Report, Return, GivenUp, Answered
<1>3. PassOver => Processed(e)
  BY <1>1 DEF PassOver, Do, Processed, Answered, eventVars
<1>4. Forward /\ Skip(Place) /\ UNCHANGED <<file, expanded>> => Processed(e)
  BY <1>1 DEF Skip, Report, Return, Processed, Answered
<1>5. Member(e) => Processed(e)
  BY MemberProcessed
<1>6. \/ GiveUp
      \/ /\ ~(entries' > limits.entries)
         /\ \/ PassOver \/ Member(e)
            \/ Forward /\ Skip(Place) /\ UNCHANGED <<file, expanded>>
  BY DEF TarEntry, ZipEntry
<1>7. ~(entries' > limits.entries) => entries' <= limits.entries
  BY ArchiveAssumption DEF ArchiveInv, TypesInv
<1> QED
  BY <1>2, <1>3, <1>4, <1>5, <1>6, <1>7, Zenon

\* The initial states.
LEMMA InitInv == Init => ArchiveInv
<1> SUFFICES ASSUME Init PROVE ArchiveInv
  OBVIOUS
<1> USE DEF Init
<1>1. TypesInv
  <2>1. file \in [at : Nat \X Nat, format : Formats \cup {None}]
    BY DEF Root
  <2>2. archives \in Seq(Archive)
    OBVIOUS
  <2>3. scanned \in SUBSET (Nat \X Nat) /\ extracted \in SUBSET (Nat \X Nat)
    OBVIOUS
  <2> QED
    BY <2>1, <2>2, <2>3 DEF TypesInv
<1>2. ControlInv
  BY DEF ControlInv
<1>3. StackInv
  BY DEF StackInv, StackOf
<1>4. Out = {} /\ ToCome(stack, archives) = {}
  BY DEF Out, IsMember, Root, ToCome
<1>5. FitInv
  BY <1>4 DEF FitInv
<1>6. limits.entries \in Nat
  BY ArchiveAssumption
<1>7. CountInv
  <2>1. Counted = {}
    BY <1>4 DEF Counted
  <2> QED
    BY <1>6, <2>1, FS_EmptySet DEF CountInv
<1>8. SpentInv
  <2>1. Spent = {} /\ limits.totalBytes \in Nat
    BY <1>4, ArchiveAssumption DEF Spent
  <2> QED
    BY <2>1, FS_EmptySet DEF SpentInv
<1> QED
  BY <1>1, <1>2, <1>3, <1>5, <1>7, <1>8 DEF ArchiveInv

\* The steps that touch neither the archives nor what is counted.
LEMMA QuietStep ==
  ASSUME ArchiveInv,
         \/ Cancel \/ IsCancelled \/ Visit \/ SpoolFails \/ OpenPlain \/ OpenTooDeep
         \/ PaddingIsTruncated \/ Scan \/ Resume \/ VisitReturns \/ UNCHANGED vars
  PROVE  ArchiveInv'
<1> USE DEF chargeVars, contentVars, eventVars, Do, Return, Report, Skip, Abandon, Pop
<1>1. TypesInv /\ ControlInv /\ StackInv
  BY DEF ArchiveInv
<1>2. /\ UNCHANGED <<limits, file, archives, entries, expanded>>
      /\ stack' = stack \/ (stack # <<>> /\ stack' = Front(stack))
      /\ scanned' \subseteq scanned \cup {file.at}
      /\ extracted' = extracted
  <2>1. CASE Cancel
    BY <2>1 DEF Cancel
  <2>2. CASE IsCancelled
    BY <1>1, <2>2 DEF IsCancelled, StackInv
  <2>3. CASE Visit
    BY <2>3 DEF Visit
  <2>4. CASE SpoolFails
    BY <2>4 DEF SpoolFails
  <2>5. CASE OpenPlain
    BY <2>5 DEF OpenPlain
  <2>6. CASE OpenTooDeep
    BY <2>6 DEF OpenTooDeep
  <2>7. CASE PaddingIsTruncated
    BY <1>1, <2>7 DEF PaddingIsTruncated, GiveUp, StackInv
  <2>8. CASE Scan
    BY <2>8 DEF Scan
  <2>9. CASE Resume
    BY <2>9 DEF Resume
  <2>10. CASE VisitReturns
    BY <2>10 DEF VisitReturns
  <2>11. CASE UNCHANGED vars
    BY <2>11 DEF vars
  <2> QED
    BY <2>1, <2>2, <2>3, <2>4, <2>5, <2>6, <2>7, <2>8, <2>9, <2>10, <2>11
<1>3. /\ doing' \in {"visit", "open", "next", "scan", "return", "done"}
      /\ control' \in {"Continue", "Stop", "Callback", "Cancelled"}
      /\ token' \in BOOLEAN
      /\ control' # "Continue" => doing' \in {"return", "done"}
      /\ control' = "Cancelled" => token'
      /\ doing' = "next" => stack' = stack /\ stack # <<>>
  <2> USE <1>1 DEF TypesInv, ControlInv, StackInv
  <2>1. CASE Cancel
    BY <2>1 DEF Cancel
  <2>2. CASE IsCancelled
    BY <2>2 DEF IsCancelled
  <2>3. CASE Visit
    BY <2>3 DEF Visit
  <2>4. CASE SpoolFails
    BY <2>4 DEF SpoolFails
  <2>5. CASE OpenPlain
    BY <2>5 DEF OpenPlain
  <2>6. CASE OpenTooDeep
    BY <2>6 DEF OpenTooDeep
  <2>7. CASE PaddingIsTruncated
    BY <2>7 DEF PaddingIsTruncated, GiveUp
  <2>8. CASE Scan
    BY <2>8 DEF Scan
  <2>9. CASE Resume
    BY <2>9 DEF Resume
  <2>10. CASE VisitReturns
    BY <2>10 DEF VisitReturns
  <2>11. CASE UNCHANGED vars
    BY <2>11 DEF vars
  <2> QED
    BY <2>1, <2>2, <2>3, <2>4, <2>5, <2>6, <2>7, <2>8, <2>9, <2>10, <2>11
<1>4. StackOf(stack, archives)' /\ FitInv' /\ CountInv' /\ SpentInv'
  BY <1>2, Untouched
<1>5. TypesInv'
  <2>1. file.at \in Nat \X Nat
    BY <1>1 DEF TypesInv
  <2> QED
    BY <1>1, <1>2, <1>3, <2>1 DEF TypesInv
<1>6. ControlInv' /\ StackInv'
  BY <1>3, <1>4 DEF ControlInv, StackInv
<1> QED
  BY <1>4, <1>5, <1>6 DEF ArchiveInv

\* An archive is opened, and its extraction is begun or not.
LEMMA OpenedOnStack ==
  ASSUME ArchiveInv, NEW found \in Seq(Entry), NEW decoded \in Nat,
         Opened(found, decoded), file.format \in Formats, Depth < limits.depth,
         decoded <= limits.memberBytes,
         file.format \notin Listed => found = <<>>,
         UNCHANGED <<limits, scanned>>, extracted' = extracted \cup {file.at},
         file' = file \/ file'.at = <<New, 0>>,
         stack' = stack \/ Push
  PROVE  /\ archives' \in Seq(Archive) /\ StackOf(stack, archives)' /\ FitInv'
         /\ Spent' \subseteq Spent \cup {<<<<New, 0>>, n>> : n \in 1 .. decoded}
         /\ \/ Counted' \subseteq Counted
            \/ /\ file.format = "7z" /\ Push
               /\ Counted' \subseteq Counted \cup {<<New, n>> : n \in 1 .. Len(found)}
<1> DEFINE arc == [format |-> file.format, depth |-> Depth, decoded |-> decoded,
                   entries |-> found, ended |-> FALSE, broken |-> FALSE]
<1>1. /\ TypesInv /\ FitInv /\ StackOf(stack, archives) /\ archives \in Seq(Archive)
      /\ Depth \in Nat
  <2>1. /\ TypesInv /\ FitInv /\ StackOf(stack, archives) /\ archives \in Seq(Archive)
    BY DEF ArchiveInv, StackInv, TypesInv
  <2>2. stack \in Seq(Frame)
    BY <2>1 DEF StackOf
  <2> QED
    BY <2>1, <2>2 DEF Depth
<1>2. arc \in Archive /\ archives' = Append(archives, arc)
  BY <1>1 DEF Archive, Opened
<1>3. /\ arc.format = file.format /\ arc.entries = found /\ arc.depth = Depth
      /\ arc.decoded = decoded
  OBVIOUS
<1> HIDE DEF arc
<1>4. /\ archives' \in Seq(Archive) /\ Len(archives') = Len(archives) + 1
      /\ Len(archives) \in Nat
      /\ \A a \in 1 .. Len(archives) : archives'[a] = archives[a]
      /\ archives'[Len(archives) + 1] = arc
  BY <1>1, <1>2
<1>5. \A place : Valid(place, archives) =>
        Valid(place, archives') /\ EntryIn(place, archives') = EntryIn(place, archives)
  BY <1>1, <1>2, AddArchive
<1>6. Out' \subseteq Out
  BY DEF Out, IsMember
<1>7. FitInv'
  <2>1. ASSUME NEW a \in 1 .. Len(archives')
        PROVE  archives'[a].depth < limits.depth /\ archives'[a].decoded <= limits.memberBytes
    <3>1. CASE a \in 1 .. Len(archives)
      BY <1>1, <1>4, <3>1 DEF FitInv
    <3>2. CASE a = Len(archives) + 1
      BY <1>3, <1>4, <3>2
    <3> QED
      BY <1>4, <3>1, <3>2
  <2> QED
    BY <1>1, <1>5, <1>6, <2>1 DEF FitInv, SizeIn
<1>10. Spent' \subseteq Spent \cup {<<<<New, 0>>, n>> : n \in 1 .. decoded}
  <2> SUFFICES ASSUME NEW byte \in Spent', byte \notin Spent
               PROVE  byte \in {<<<<New, 0>>, n>> : n \in 1 .. decoded}
    OBVIOUS
  <2>1. byte \in (Nat \X Nat) \X Nat
    BY DEF Spent
  <2>2. byte[1][1] = New /\ byte[1][2] = 0 /\ byte[2] \in 1 .. decoded
    BY <1>1, <1>3, <1>4, <1>5, <1>6 DEF FitInv, Spent, New, SizeIn
  <2>3. byte = <<<<byte[1][1], byte[1][2]>>, byte[2]>>
    BY <2>1
  <2> QED
    BY <2>2, <2>3
<1>8. CASE stack' = stack
  <2>1. /\ StackOf(stack, archives')
        /\ ToCome(stack, archives') = ToCome(stack, archives)
    BY <1>1, <1>2, AddArchive
  <2>2. StackOf(stack, archives)' /\ ToCome(stack, archives)' = ToCome(stack, archives)
    BY <1>8, <2>1
  <2> QED
    BY <1>4, <1>6, <1>7, <1>10, <2>2 DEF Counted
<1>9. CASE Push
  <2>1. stack' = Append(stack, [archive |-> Len(archives) + 1, next |-> 1])
    BY <1>9 DEF Push, New
  <2>2. /\ StackOf(stack', archives')
        /\ arc.format # "7z" => ToCome(stack', archives') \subseteq ToCome(stack, archives)
        /\ ToCome(stack', archives') \subseteq
             ToCome(stack, archives) \cup {<<Len(archives) + 1, n>> : n \in 1 .. Len(arc.entries)}
    <3>1. arc.format \notin Listed => arc.entries = <<>>
      BY <1>3
    <3> QED
      BY <1>1, <1>2, <2>1, <3>1, PushArchive
  <2>3. CASE file.format = "7z"
    BY <1>3, <1>4, <1>6, <1>7, <1>9, <1>10, <2>2, <2>3 DEF Counted, New
  <2>4. CASE file.format # "7z"
    BY <1>3, <1>4, <1>6, <1>7, <1>10, <2>2, <2>4 DEF Counted
  <2> QED
    BY <2>3, <2>4
<1> QED
  BY <1>8, <1>9

\* The sequences that a RAR or a 7z may hold.
LEMMA FoundIsSeq ==
  ASSUME NEW n, NEW found \in SeqOf(ListedEntry, n)
  PROVE  found \in Seq(Entry) /\ Len(found) \in Nat
BY DEF SeqOf, ListedEntry

\* A file is opened as an archive.
LEMMA OpenStep ==
  ASSUME ArchiveInv, OpenContainer \/ OpenStream \/ OpenRar \/ OpenSevenZip
  PROVE  ArchiveInv'
<1> USE DEF chargeVars, contentVars, eventVars
<1>1. /\ TypesInv /\ ControlInv /\ StackInv /\ CountInv /\ SpentInv
      /\ entries \in Nat /\ expanded \in Nat /\ Len(archives) \in Nat
      /\ limits.memberBytes \in Nat /\ limits.entries \in Nat
      /\ token \in BOOLEAN /\ limits \in Limits
      /\ scanned \in SUBSET (Nat \X Nat) /\ extracted \in SUBSET (Nat \X Nat)
      /\ file \in File /\ file.at \in Nat \X Nat
  BY ArchiveAssumption DEF ArchiveInv, TypesInv, File
<1>2. PICK found \in Seq(Entry), decoded \in Nat :
        /\ Opened(found, decoded) /\ decoded <= limits.memberBytes
        /\ file.format \notin Listed => found = <<>>
        /\ \/ /\ entries' = entries
              /\ ~(Push /\ file.format = "7z") \/ Len(found) = 0
           \/ entries' = entries + Len(found) /\ entries' <= limits.entries
        /\ expanded' = expanded + decoded /\ (decoded = 0 \/ expanded' <= limits.totalBytes)
        /\ file' = file \/ (file' \in File /\ file'.at = <<New, 0>>)
        /\ stack' = stack \/ Push
        /\ UNCHANGED scanned
        /\ doing' \in {"next", "scan", "return"}
        /\ doing' = "next" => Push
        /\ control' \in {"Continue", "Stop", "Callback"}
        /\ control' # "Continue" => doing' = "return"
  <2> USE <1>1
  <2>a. expanded + 0 = expanded
    OBVIOUS
  <2>0. control = "Continue" /\ expanded + 0 = expanded
    BY <2>a DEF OpenContainer, OpenStream, OpenRar, OpenSevenZip, Opens, ControlInv
  <2>1. CASE OpenContainer
    <3>1. <<>> \in Seq(Entry) /\ 0 \in Nat /\ 0 <= limits.memberBytes
      OBVIOUS
    <3>2. file.format # "7z"
      BY <2>1 DEF OpenContainer, Opens
    <3> QED
      BY <2>0, <2>1, <3>1, <3>2 DEF OpenContainer, Do, Abandon, Report, Return
  <2>2. CASE OpenStream
    <3>1. PICK size \in Sizes, flaw \in BOOLEAN :
            IF flaw \/ MemberLimit = 0 \/ size > MemberLimit
            THEN /\ Opened(<<>>, 0)
                 /\ Abandon(<<New, 0>>)
                 /\ UNCHANGED <<file, stack, expanded>>
            ELSE /\ Opened(<<>>, size)
                 /\ expanded' = expanded + size
                 /\ IF file.format = "gz"
                    THEN Do("scan") /\ file' = [at |-> <<New, 0>>, format |-> None] /\ UNCHANGED stack
                    ELSE Do("next") /\ Push /\ UNCHANGED file
                 /\ UNCHANGED eventVars
      BY <2>2 DEF OpenStream
    <3>2. /\ size \in Nat /\ <<>> \in Seq(Entry) /\ 0 \in Nat /\ 0 <= limits.memberBytes
          /\ entries' = entries /\ file.format # "7z"
      BY <2>2, ArchiveAssumption DEF OpenStream, Opens
    <3>3. CASE flaw \/ MemberLimit = 0 \/ size > MemberLimit
      BY <2>0, <3>1, <3>2, <3>3 DEF Do, Abandon, Report, Return
    <3>4. CASE ~(flaw \/ MemberLimit = 0 \/ size > MemberLimit)
      <4>1. size <= limits.memberBytes /\ expanded + size <= limits.totalBytes
        <5>1. limits.totalBytes \in Nat
          BY ArchiveAssumption
        <5> QED
          BY <3>2, <3>4, <5>1 DEF MemberLimit, AtMost, Remaining
      <4>2. /\ Opened(<<>>, size) /\ expanded' = expanded + size /\ UNCHANGED scanned
            /\ doing' \in {"next", "scan"} /\ control' = "Continue"
        BY <2>0, <3>1, <3>2, <3>4 DEF Do
      <4>3. CASE file.format = "gz"
        <5>1. /\ doing' = "scan" /\ file' = [at |-> <<New, 0>>, format |-> None]
              /\ stack' = stack
          BY <3>1, <3>4, <4>3 DEF Do
        <5>2. file' \in File /\ file'.at = <<New, 0>>
          BY <5>1 DEF File, New
        <5> QED
          BY <3>2, <4>1, <4>2, <5>1, <5>2
      <4>4. CASE file.format # "gz"
        <5>1. file' = file /\ Push
          BY <3>1, <3>4, <4>4
        <5> QED
          BY <3>2, <4>1, <4>2, <5>1
      <4> QED
        BY <4>3, <4>4
    <3> QED
      BY <3>3, <3>4
  <2>3. ASSUME NEW found \in Seq(Entry), NEW whole \in BOOLEAN, Publish(found, whole)
        PROVE  /\ Opened(found, 0) /\ expanded' = expanded /\ UNCHANGED <<file, scanned>>
               /\ doing' \in {"next", "scan", "return"}
               /\ doing' = "next" => Push
               /\ (whole /\ Push) \/ (~whole /\ stack' = stack)
               /\ control' \in {"Continue", "Stop", "Callback"}
               /\ control' # "Continue" => doing' = "return"
    <3>1. /\ Opened(found, 0) /\ expanded' = expanded /\ UNCHANGED file
      BY <2>3 DEF Publish
    <3>2. CASE whole
      <4>1. Push /\ Do("next") /\ UNCHANGED eventVars
        BY <2>3, <3>2 DEF Publish
      <4> QED
        BY <2>0, <3>1, <3>2, <4>1 DEF Do
    <3>3. CASE ~whole
      <4>1. Abandon(<<New, 0>>) /\ UNCHANGED stack
        BY <2>3, <3>3 DEF Publish
      <4> QED
        BY <3>1, <3>3, <4>1 DEF Abandon, Report, Return
    <3> QED
      BY <3>2, <3>3
  <2>4. <<>> \in Seq(Entry) /\ Len(<<>>) = 0 /\ 0 \in Nat /\ 0 <= limits.memberBytes
        /\ FALSE \in BOOLEAN
    OBVIOUS
  <2>5. CASE OpenRar
    <3>1. file.format \in Listed /\ file.format # "7z" /\ entries' = entries
      BY <2>5 DEF OpenRar, Opens, Listed
    <3>2. PICK found \in Seq(Entry), whole \in BOOLEAN : Publish(found, whole)
      <4>1. CASE Publish(<<>>, FALSE)
        BY <2>4, <4>1
      <4>2. CASE \E found \in SeqOf(ListedEntry, MaxEntries - Found) :
                   Publish(found, entries + Len(found) <= limits.entries /\ Decodes(found))
        BY <4>2, FoundIsSeq
      <4> QED
        BY <2>5, <4>1, <4>2 DEF OpenRar
    <3> QED
      BY <2>0, <2>3, <2>4, <3>1, <3>2
  <2>6. CASE OpenSevenZip
    <3>1. file.format \in Listed
      BY <2>6 DEF OpenSevenZip, Opens, Listed
    <3>2. CASE Publish(<<>>, FALSE) /\ UNCHANGED entries
      <4>1. /\ Opened(<<>>, 0) /\ expanded' = expanded /\ UNCHANGED <<file, scanned>>
            /\ doing' \in {"next", "scan", "return"}
            /\ doing' = "next" => Push
            /\ stack' = stack
            /\ control' \in {"Continue", "Stop", "Callback"}
            /\ control' # "Continue" => doing' = "return"
        BY <2>3, <2>4, <3>2
      <4> QED
        BY <2>0, <2>4, <3>1, <3>2, <4>1
    <3>3. CASE \E found \in SeqOf(ListedEntry, MaxEntries - Found) :
                 LET fits == entries + Len(found) <= limits.entries IN
                   /\ Publish(found, fits /\ Decodes(found))
                   /\ entries' = IF fits THEN entries + Len(found) ELSE entries
      <4>1. PICK found \in SeqOf(ListedEntry, MaxEntries - Found) :
              LET fits == entries + Len(found) <= limits.entries IN
                /\ Publish(found, fits /\ Decodes(found))
                /\ entries' = IF fits THEN entries + Len(found) ELSE entries
        BY <3>3
      <4> DEFINE fits == entries + Len(found) <= limits.entries
      <4>2. found \in Seq(Entry) /\ Len(found) \in Nat
        BY FoundIsSeq
      <4>3. PICK whole \in BOOLEAN : Publish(found, whole) /\ (whole => fits)
        BY <4>1
      <4>4. /\ Opened(found, 0) /\ expanded' = expanded /\ UNCHANGED <<file, scanned>>
            /\ doing' \in {"next", "scan", "return"}
            /\ doing' = "next" => Push
            /\ (whole /\ Push) \/ (~whole /\ stack' = stack)
            /\ control' \in {"Continue", "Stop", "Callback"}
            /\ control' # "Continue" => doing' = "return"
        BY <2>3, <4>2, <4>3
      <4>5. CASE fits
        <5>1. entries' = entries + Len(found) /\ entries' <= limits.entries
          BY <4>1, <4>5
        <5> QED
          BY <2>0, <2>4, <3>1, <4>2, <4>4, <5>1
      <4>6. CASE ~fits
        <5>1. entries' = entries /\ stack' = stack
          BY <4>1, <4>3, <4>4, <4>6
        <5>2. ~Push
          <6>1. stack \in Seq(Frame)
            BY DEF StackInv, StackOf
          <6> QED
            BY <5>1, <6>1 DEF Push
        <5> QED
          BY <2>0, <2>4, <3>1, <4>2, <4>4, <5>1, <5>2
      <4> QED
        BY <4>5, <4>6
    <3> QED
      BY <2>6, <3>2, <3>3 DEF OpenSevenZip
  <2> QED
    BY <2>1, <2>2, <2>5, <2>6
<1>3. /\ file.format \in Formats /\ Depth < limits.depth
      /\ UNCHANGED <<limits, token>> /\ extracted' = extracted \cup {file.at}
      /\ doing = "open"
  BY DEF OpenContainer, OpenStream, OpenRar, OpenSevenZip, Opens, Formats, Listed
<1>4. /\ archives' \in Seq(Archive) /\ StackOf(stack, archives)' /\ FitInv'
      /\ Spent' \subseteq Spent \cup {<<<<New, 0>>, n>> : n \in 1 .. decoded}
      /\ \/ Counted' \subseteq Counted
         \/ /\ file.format = "7z" /\ Push
            /\ Counted' \subseteq Counted \cup {<<New, n>> : n \in 1 .. Len(found)}
  BY <1>2, <1>3, OpenedOnStack
<1>5. Len(found) \in Nat /\ control = "Continue"
  BY <1>1, <1>3 DEF ControlInv
<1>6. TypesInv'
  <2>1. extracted' \in SUBSET (Nat \X Nat) /\ entries' \in Nat /\ expanded' \in Nat
    BY <1>1, <1>2, <1>3, <1>5
  <2> QED
    BY <1>1, <1>2, <1>3, <1>4, <2>1 DEF TypesInv, File
<1>7. ControlInv'
  BY <1>2 DEF ControlInv
<1>8. StackInv'
  <2>1. Push => stack' # <<>>
    <3>1. stack \in Seq(Frame)
      BY <1>1 DEF StackInv, StackOf
    <3> QED
      BY <3>1 DEF Push
  <2> QED
    BY <1>2, <1>4, <2>1 DEF StackInv
<1>9. CountInv'
  <2>1. CASE Counted' \subseteq Counted
    <3>1. entries' \in Nat /\ entries' >= entries
      BY <1>1, <1>2, <1>5
    <3> QED
      BY <1>1, <1>3, <2>1, <3>1, KeepsCount
  <2>2. CASE /\ file.format = "7z" /\ Push
             /\ Counted' \subseteq Counted \cup {<<New, n>> : n \in 1 .. Len(found)}
    <3>1. CASE entries' = entries + Len(found) /\ entries' <= limits.entries
      BY <1>1, <1>3, <1>5, <2>2, <3>1, AddsEntries
    <3>2. CASE entries' = entries /\ Len(found) = 0
      <4>1. Counted' \subseteq Counted
        BY <2>2, <3>2
      <4>2. entries' \in Nat /\ entries' >= entries
        BY <1>1, <3>2
      <4> QED
        BY <1>1, <1>3, <4>1, <4>2, KeepsCount
    <3> QED
      BY <1>2, <2>2, <3>1, <3>2
  <2> QED
    BY <1>4, <2>1, <2>2
<1>10. SpentInv'
  <2>1. CASE decoded = 0
    <3>1. Spent' \subseteq Spent
      BY <1>4, <2>1
    <3>2. expanded' \in Nat /\ expanded' >= expanded
      BY <1>1, <1>2, <2>1
    <3> QED
      BY <1>1, <1>3, <3>1, <3>2, KeepsSpent
  <2>2. CASE expanded' <= limits.totalBytes
    BY <1>1, <1>2, <1>3, <1>4, <2>2, AddsSpent
  <2> QED
    BY <1>2, <2>1, <2>2
<1> QED
  BY <1>4, <1>6, <1>7, <1>8, <1>9, <1>10 DEF ArchiveInv

\* What is known of the extraction on top.
LEMMA OnTop ==
  ASSUME ArchiveInv, doing = "next"
  PROVE  /\ TypesInv /\ FitInv /\ CountInv /\ SpentInv
         /\ StackOf(stack, archives) /\ stack # <<>>
         /\ archives \in Seq(Archive) /\ Len(archives) \in Nat
         /\ Top.archive \in 1 .. Len(archives) /\ Here \in Archive
         /\ entries \in Nat /\ expanded \in Nat /\ token \in BOOLEAN
         /\ limits \in Limits /\ limits.memberBytes \in Nat /\ limits.entries \in Nat
         /\ file \in File /\ control = "Continue"
<1>1. /\ TypesInv /\ FitInv /\ CountInv /\ SpentInv
      /\ StackOf(stack, archives) /\ stack # <<>> /\ control = "Continue"
  BY DEF ArchiveInv, StackInv, ControlInv
<1>2. /\ archives \in Seq(Archive) /\ Len(archives) \in Nat
      /\ entries \in Nat /\ expanded \in Nat /\ token \in BOOLEAN
      /\ limits \in Limits /\ limits.memberBytes \in Nat /\ limits.entries \in Nat
      /\ file \in File
  BY <1>1, ArchiveAssumption DEF TypesInv, File
<1>3. stack \in Seq(Frame)
  BY <1>1 DEF StackOf
<1>4. Top = stack[Len(stack)] /\ Len(stack) \in Nat \ {0}
  BY <1>1, <1>3, FrontAndLast DEF Top
<1>5. Top.archive \in 1 .. Len(archives)
  BY <1>1, <1>4 DEF StackOf
<1>6. Here \in Archive
  BY <1>2, <1>5 DEF Here
<1> QED
  BY <1>1, <1>2, <1>5, <1>6

\* What an entry leaves behind, by whichever loop it was processed.
LEMMA EntryStep ==
  ASSUME ArchiveInv, doing = "next", NEW e \in Entry,
         UNCHANGED <<limits, token, extracted>>,
         archives' \in Seq(Archive), Len(archives') = Len(archives),
         \A a \in 1 .. Len(archives) :
           archives'[a].depth = archives[a].depth /\ archives'[a].decoded = archives[a].decoded,
         \A place : Valid(place, archives) =>
           Valid(place, archives') /\ EntryIn(place, archives') = EntryIn(place, archives),
         StackOf(stack', archives'), ToCome(stack', archives') \subseteq ToCome(stack, archives),
         entries' = entries \/ entries' = entries + 1,
         \/ GivenUp
         \/ /\ Processed(e) /\ Place \in Nat \X Nat
            /\ Valid(Place, archives') /\ EntryIn(Place, archives') = e
            /\ Place \in Counted \/ (entries' = entries + 1 /\ entries' <= limits.entries)
  PROVE  ArchiveInv'
<1>1. /\ TypesInv /\ FitInv /\ CountInv /\ SpentInv /\ entries \in Nat /\ expanded \in Nat
      /\ limits.memberBytes \in Nat /\ limits.entries \in Nat /\ e.size \in Nat
  BY OnTop, ArchiveAssumption
<1>2. entries' \in Nat /\ entries' >= entries
  BY <1>1
<1>3. TypesInv'
  <2>1. /\ limits' \in Limits /\ token' \in BOOLEAN /\ extracted' \in SUBSET (Nat \X Nat)
    BY <1>1 DEF TypesInv
  <2>2. /\ file' \in File /\ expanded' \in Nat /\ scanned' \in SUBSET (Nat \X Nat)
    BY <1>1 DEF TypesInv, GivenUp, Processed, File
  <2>3. /\ doing' \in {"visit", "open", "next", "scan", "return", "done"}
        /\ control' \in {"Continue", "Stop", "Callback", "Cancelled"}
    BY DEF GivenUp, Processed, Answered
  <2> QED
    BY <1>2, <2>1, <2>2, <2>3 DEF TypesInv, File
<1>4. ControlInv'
  BY DEF GivenUp, Processed, Answered, ControlInv
<1>5. StackInv'
  <2>1. CASE GivenUp
    BY <2>1 DEF GivenUp, StackInv
  <2>2. CASE Processed(e)
    <3>1. stack \in Seq(Frame) /\ stack # <<>>
      BY OnTop DEF StackOf
    <3>2. stack' # <<>>
      <4>1. /\ Len(stack) \in Nat \ {0}
            /\ Len([stack EXCEPT ![Len(stack)].next = @ + 1]) = Len(stack)
        BY <3>1, ForwardOnStack
      <4>2. stack' = [stack EXCEPT ![Len(stack)].next = @ + 1]
        BY <2>2 DEF Processed, Forward, Depth
      <4>3. Len(stack') # 0
        BY <4>1, <4>2
      <4> QED
        BY <4>3
    <3> QED
      BY <3>2 DEF StackInv
  <2> QED
    BY <2>1, <2>2
<1>7. Kept
  BY DEF Kept
<1>6. FitInv' /\ CountInv' /\ SpentInv'
  <2>1. CASE GivenUp
    <3>1. Out' \subseteq Out
      BY <2>1 DEF GivenUp, Out, IsMember
    <3>2. Counted' \subseteq Counted
      BY <3>1 DEF Counted
    <3>3. SpentInv'
      <4>1. expanded' \in Nat /\ expanded' >= expanded
        BY <1>1, <2>1 DEF GivenUp
      <4> QED
        BY <1>1, <1>7, <3>1, <4>1, SameSpent, KeepsSpent
    <3> QED
      BY <1>1, <1>2, <3>1, <3>2, <3>3, KeepsFit, KeepsCount
  <2>2. CASE /\ Processed(e) /\ Place \in Nat \X Nat
             /\ Valid(Place, archives') /\ EntryIn(Place, archives') = e
             /\ Place \in Counted \/ (entries' = entries + 1 /\ entries' <= limits.entries)
    <3>1. CASE file' = file
      <4>1. Out' \subseteq Out
        BY <2>2, <3>1 DEF Processed, Out, IsMember
      <4>2. Counted' \subseteq Counted
        BY <4>1 DEF Counted
      <4>3. SpentInv'
        <5>1. expanded' \in Nat /\ expanded' >= expanded
          BY <2>2 DEF Processed
        <5> QED
          BY <1>1, <1>7, <4>1, <5>1, SameSpent, KeepsSpent
      <4> QED
        BY <1>1, <1>2, <4>1, <4>2, <4>3, KeepsFit, KeepsCount
    <3>2. CASE /\ file'.at = Place /\ e.size <= limits.memberBytes
               /\ expanded' = expanded + e.size /\ expanded' <= limits.totalBytes
      <4>1. Out' \subseteq Out \cup {Place}
        BY <2>2, <3>2 DEF Processed, Out, IsMember
      <4>2. FitInv'
        BY <1>1, <2>2, <3>2, <4>1, AddsFit DEF SizeIn
      <4>6. SpentInv'
        <5>1. Spent' \subseteq Spent \cup {<<Place, n>> : n \in 1 .. e.size}
          BY <1>1, <1>7, <2>2, <4>1, MemberSpent DEF SizeIn
        <5>2. UNCHANGED limits
          OBVIOUS
        <5> QED
          BY ONLY <1>1, <3>2, <5>1, <5>2, AddsSpent
      <4>3. Counted' \subseteq Counted \cup {Place}
        BY <4>1 DEF Counted
      <4>4. CASE Place \in Counted
        <5>1. Counted' \subseteq Counted
          BY <4>3, <4>4
        <5> QED
          BY <1>1, <1>2, <4>2, <4>6, <5>1, KeepsCount
      <4>5. CASE entries' = entries + 1 /\ entries' <= limits.entries
        BY <1>1, <4>2, <4>3, <4>5, <4>6, AddsCount
      <4> QED
        BY <2>2, <4>4, <4>5
    <3> QED
      BY <2>2, <3>1, <3>2 DEF Processed
  <2> QED
    BY <2>1, <2>2
<1> QED
  BY <1>3, <1>4, <1>5, <1>6 DEF ArchiveInv

\* An entry of a TAR or a ZIP.
LEMMA ReadStep ==
  ASSUME ArchiveInv, ReadEntry
  PROVE  ArchiveInv'
<1>1. PICK e \in Entry :
        /\ archives' = [archives EXCEPT ![Top.archive].entries = Append(@, e),
                                        ![Top.archive].broken = (e.flaw = "padding")]
        /\ IF e.flaw = "header"
           THEN GiveUp /\ UNCHANGED entries
           ELSE /\ entries' = entries + 1
                /\ IF Here.format = "zip" THEN ZipEntry(e) ELSE TarEntry(e)
  BY DEF ReadEntry
<1>2. doing = "next" /\ Here.format \notin Listed /\ UNCHANGED <<limits, token, extracted>>
  BY DEF ReadEntry
<1>3. /\ StackOf(stack, archives) /\ stack # <<>> /\ archives \in Seq(Archive)
      /\ entries \in Nat /\ control = "Continue"
  BY <1>2, OnTop
<1>4. /\ archives' \in Seq(Archive) /\ Len(archives') = Len(archives)
      /\ \A a \in 1 .. Len(archives) :
           archives'[a].depth = archives[a].depth /\ archives'[a].decoded = archives[a].decoded
      /\ \A place : Valid(place, archives) =>
           Valid(place, archives') /\ EntryIn(place, archives') = EntryIn(place, archives)
      /\ Valid(Place, archives') /\ EntryIn(Place, archives') = e /\ Place \in Nat \X Nat
      /\ StackOf(On(stack), archives') /\ ToCome(On(stack), archives') \subseteq ToCome(stack, archives)
      /\ StackOf(Front(stack), archives')
      /\ ToCome(Front(stack), archives') \subseteq ToCome(stack, archives)
  <2>1. PICK broken \in BOOLEAN : broken = (e.flaw = "padding")
    OBVIOUS
  <2>2. Top = Last(stack) /\ archives[Last(stack).archive].format \notin Listed
    BY <1>2 DEF Top, Here
  <2>3. Place = <<Last(stack).archive, Last(stack).next>>
    BY DEF Place, Top
  <2>4. archives' = Read(archives, Last(stack).archive, e, broken)
    BY <1>1, <2>1, <2>2 DEF Read
  <2> QED
    BY <1>3, <2>2, <2>3, <2>4, ReadOnStack
<1>5. /\ entries' = entries \/ entries' = entries + 1
      /\ GivenUp \/ (Processed(e) /\ entries' = entries + 1 /\ entries' <= limits.entries)
  <2>1. CASE e.flaw = "header"
    BY <1>1, <2>1 DEF GiveUp, Abandon, Report, Return, GivenUp, Answered
  <2>2. CASE e.flaw # "header"
    <3>1. entries' = entries + 1 /\ entries' \in Nat /\ (ZipEntry(e) \/ TarEntry(e))
      BY <1>1, <1>3, <2>2
    <3> QED
      BY <1>2, <1>4, <3>1, EntryProcessed
  <2> QED
    BY <2>1, <2>2
<1>6. /\ StackOf(stack', archives')
      /\ ToCome(stack', archives') \subseteq ToCome(stack, archives)
  <2>1. CASE GivenUp
    BY <1>4, <2>1 DEF GivenUp, Pop
  <2>2. CASE Processed(e)
    BY <1>4, <2>2 DEF Processed, Forward, Depth, On
  <2> QED
    BY <1>5, <2>1, <2>2
<1> QED
  BY <1>2, <1>4, <1>5, <1>6, EntryStep

\* A member of a 7z or a RAR.
LEMMA ListStep ==
  ASSUME ArchiveInv, NextListed
  PROVE  ArchiveInv'
<1> DEFINE e == Here.entries[Top.next]
           on == [stack EXCEPT ![Len(stack)].next = @ + 1]
<1>1. /\ doing = "next" /\ Here.format \in Listed
      /\ Top.next <= Len(Here.entries)
      /\ UNCHANGED <<limits, token, contentVars>>
      /\ entries' = IF Here.format = "rar" THEN entries + 1 ELSE entries
      /\ IF Here.format = "rar" /\ entries' > limits.entries THEN GiveUp
         ELSE IF e.is = "directory" THEN PassOver
         ELSE Member(e)
  BY DEF NextListed
<1>2. /\ StackOf(stack, archives) /\ stack # <<>> /\ archives \in Seq(Archive)
      /\ entries \in Nat /\ expanded \in Nat /\ limits.entries \in Nat /\ control = "Continue"
  BY <1>1, OnTop
<1>3. archives' = archives /\ extracted' = extracted
  BY <1>1 DEF contentVars
<1>4. /\ StackOf(on, archives) /\ ToCome(on, archives) \subseteq ToCome(stack, archives)
      /\ Valid(Place, archives) /\ Place \in Nat \X Nat
      /\ e \in Entry /\ EntryIn(Place, archives) = e
      /\ Here.format = "7z" => Place \in ToCome(stack, archives)
  <2>1. /\ archives[Last(stack).archive].format \in Listed
        /\ Last(stack).next <= Len(archives[Last(stack).archive].entries)
    BY <1>1 DEF Top, Here
  <2>2. Place = <<Last(stack).archive, Last(stack).next>>
    BY DEF Place, Top
  <2>3. e = archives[Last(stack).archive].entries[Last(stack).next]
        /\ Here = archives[Last(stack).archive]
    BY DEF Top, Here
  <2> HIDE DEF e
  <2> QED
    BY <1>2, <2>1, <2>2, <2>3, ListOnStack
<1>5. /\ StackOf(Front(stack), archives)
      /\ ToCome(Front(stack), archives) \subseteq ToCome(stack, archives)
  BY <1>2, PopStack
<1> HIDE DEF e, on
<1>6. /\ entries' = entries \/ entries' = entries + 1
      /\ \/ GivenUp
         \/ /\ Processed(e)
            /\ Place \in Counted \/ (entries' = entries + 1 /\ entries' <= limits.entries)
  <2>1. PassOver => Processed(e)
    BY <1>1, <1>2 DEF PassOver, Do, Processed, Answered, eventVars
  <2>2. Member(e) => Processed(e)
    BY <1>1, <1>4, MemberProcessed
  <2>3. CASE Here.format = "rar" /\ entries' > limits.entries
    BY <1>1, <2>3 DEF GiveUp, Abandon, Report, Return, GivenUp, Answered
  <2>4. CASE Here.format = "rar" /\ ~(entries' > limits.entries)
    <3>1. entries' = entries + 1 /\ entries' <= limits.entries
      BY <1>1, <1>2, <2>4
    <3> QED
      BY <1>1, <2>1, <2>2, <2>4, <3>1
  <2>5. CASE Here.format # "rar"
    <3>1. entries' = entries /\ Place \in Counted
      BY <1>1, <1>4, <2>5 DEF Listed, Counted
    <3> QED
      BY <1>1, <2>1, <2>2, <2>5, <3>1
  <2> QED
    BY <2>3, <2>4, <2>5
<1>7. /\ StackOf(stack', archives')
      /\ ToCome(stack', archives') \subseteq ToCome(stack, archives)
  <2>1. CASE GivenUp
    BY <1>3, <1>5, <2>1 DEF GivenUp, Pop
  <2>2. CASE Processed(e)
    BY <1>3, <1>4, <2>2 DEF Processed, Forward, Depth, on
  <2> QED
    BY <1>6, <2>1, <2>2
<1>8. /\ \A a \in 1 .. Len(archives) :
           archives'[a].depth = archives[a].depth /\ archives'[a].decoded = archives[a].decoded
      /\ \A place : Valid(place, archives) =>
           Valid(place, archives') /\ EntryIn(place, archives') = EntryIn(place, archives)
      /\ Len(archives') = Len(archives) /\ archives' \in Seq(Archive)
  BY <1>2, <1>3
<1>9. UNCHANGED <<limits, token, extracted>> /\ Valid(Place, archives') /\ EntryIn(Place, archives') = e
  BY <1>1, <1>3, <1>4
<1> QED
  BY <1>1, <1>4, <1>6, <1>7, <1>8, <1>9, EntryStep

\* An extraction ends with its last entry.
LEMMA EndStep ==
  ASSUME ArchiveInv, EntriesEnd \/ ListEnds
  PROVE  ArchiveInv'
<1> DEFINE t == Top.archive
           arc == [archives[t] EXCEPT !.ended = TRUE]
<1>1. /\ doing = "next"
      /\ archives' = [archives EXCEPT ![t].ended = TRUE]
      /\ Pop /\ UNCHANGED <<limits, token, file, extracted, entries, expanded, scanned>>
      /\ doing' = "return" /\ control' \in {"Continue", "Stop", "Callback"}
  BY DEF EntriesEnd, ListEnds, Return, Abandon, Report, chargeVars, eventVars
<1>2. /\ TypesInv /\ FitInv /\ CountInv /\ SpentInv
      /\ StackOf(stack, archives) /\ stack # <<>>
      /\ archives \in Seq(Archive) /\ t \in 1 .. Len(archives) /\ archives[t] \in Archive
  BY <1>1, OnTop DEF Here
<1>3. /\ arc \in Archive /\ arc.format = archives[t].format /\ arc.depth = archives[t].depth
      /\ arc.decoded = archives[t].decoded /\ arc.entries = archives[t].entries
  <2> HIDE DEF t
  <2> QED
    BY <1>2 DEF Archive
<1>4. archives' = [archives EXCEPT ![t] = arc]
  BY <1>1
<1> HIDE DEF t, arc
<1>5. /\ archives' \in Seq(Archive) /\ Len(archives') = Len(archives)
      /\ \A a \in 1 .. Len(archives) :
           /\ archives'[a].format = archives[a].format
           /\ archives'[a].entries = archives[a].entries
           /\ archives'[a].depth = archives[a].depth
           /\ archives'[a].decoded = archives[a].decoded
  BY <1>2, <1>3, <1>4
<1>6. /\ StackOf(stack', archives')
      /\ ToCome(stack', archives') \subseteq ToCome(stack, archives)
  <2>1. /\ StackOf(stack, archives') /\ ToCome(stack, archives') = ToCome(stack, archives)
    BY <1>2, <1>5, SameEntries
  <2>2. /\ StackOf(Front(stack), archives')
        /\ ToCome(Front(stack), archives') \subseteq ToCome(stack, archives')
    BY <1>2, <1>5, <2>1, PopStack
  <2> QED
    BY <1>1, <2>1, <2>2 DEF Pop
<1>7. Out' \subseteq Out
  BY <1>1 DEF Out, IsMember
<1>8. \A place : Valid(place, archives) =>
        Valid(place, archives') /\ EntryIn(place, archives') = EntryIn(place, archives)
  BY <1>5 DEF Valid, EntryIn, SizeIn
<1>9. FitInv'
  BY <1>1, <1>2, <1>5, <1>7, <1>8, KeepsFit
<1>10. CountInv'
  <2>1. Counted' \subseteq Counted
    BY <1>6, <1>7 DEF Counted
  <2>2. entries' \in Nat /\ entries' >= entries
    BY <1>1, <1>2 DEF TypesInv
  <2> QED
    BY <1>1, <1>2, <2>1, <2>2, KeepsCount
<1>11. TypesInv'
  BY <1>1, <1>2, <1>5 DEF TypesInv
<1>12. ControlInv' /\ StackInv'
  BY <1>1, <1>6 DEF ControlInv, StackInv
<1>13. SpentInv'
  <2>1. Kept
    BY <1>5, <1>8 DEF Kept
  <2>2. expanded' \in Nat /\ expanded' >= expanded
    BY <1>1, <1>2 DEF TypesInv
  <2> QED
    BY <1>1, <1>2, <1>7, <2>1, <2>2, SameSpent, KeepsSpent
<1> QED
  BY <1>9, <1>10, <1>11, <1>12, <1>13 DEF ArchiveInv

-----------------------------------------------------------------------------
(* What was seen.                                                          *)

InHand(place) == doing \in {"open", "scan"} /\ file.at = place
OnStack(a) == \E k \in 1 .. Len(stack) : stack[k].archive = a
Waits(a, i) == \E k \in 1 .. Len(stack) : stack[k].archive = a /\ stack[k].next <= i

\* An archive is as deep as there are extractions below its own, and what may be opened is
\* the first file or a member of the extraction on top.
NestInv ==
  /\ \A k \in 1 .. Len(stack) : archives[stack[k].archive].depth = k - 1
  /\ doing = "visit" => file.at = Root /\ stack = <<>>
  /\ doing = "open" =>
       \/ file.at = Root /\ stack = <<>> /\ limits.depth > 0
       \/ /\ stack # <<>> /\ file.at[1] = Top.archive /\ Valid(file.at, archives)
          /\ file.format = EntryIn(file.at, archives).format
  /\ doing = "done" => stack = <<>>

RootSeen ==
  \/ doing = "visit" \/ InHand(Root)
  \/ Root \in scanned \cup extracted \cup skipped \/ limits.depth = 0
ArchiveSeen(a) == Finished(a) \/ InHand(<<a, 0>>) \/ OnStack(a)
EntrySeen(a, i) == Accounted(<<a, i>>) \/ InHand(<<a, i>>) \/ Waits(a, i)

\* While no answer ends the visit, what is not accounted for is in hand or is still to come.
SeenInv ==
  control = "Continue" =>
    /\ RootSeen
    /\ \A a \in 1 .. Len(archives) : ArchiveSeen(a)
    /\ \A a \in 1 .. Len(archives) : \A i \in 1 .. Len(archives[a].entries) : EntrySeen(a, i)

\* Nothing that was read or reported is taken back.
Grows ==
  /\ limits' = limits
  /\ scanned \subseteq scanned' /\ extracted \subseteq extracted'
  /\ skipped \subseteq skipped' /\ abandoned \subseteq abandoned'
  /\ \A a \in 1 .. Len(archives) :
       archives'[a].depth = archives[a].depth /\ (archives[a].ended => archives'[a].ended)
  /\ \A place : Valid(place, archives) =>
       Valid(place, archives') /\ EntryIn(place, archives') = EntryIn(place, archives)

\* What is accounted for stays so.
LEMMA Remains ==
  ASSUME Grows
  PROVE  /\ \A a \in 1 .. Len(archives) : Finished(a) => Finished(a)'
         /\ \A a \in 1 .. Len(archives) : \A i \in 1 .. Len(archives[a].entries) :
              Accounted(<<a, i>>) => Accounted(<<a, i>>)'
<1>1. ASSUME NEW a \in 1 .. Len(archives), Finished(a)
      PROVE  Finished(a)'
  BY <1>1 DEF Grows, Finished
<1>2. ASSUME NEW a \in 1 .. Len(archives), NEW i \in 1 .. Len(archives[a].entries),
             Accounted(<<a, i>>)
      PROVE  Accounted(<<a, i>>)'
  <2> DEFINE place == <<a, i>>
  <2>1. /\ EntryAt(place)' = EntryAt(place)
        /\ archives'[place[1]].depth = archives[place[1]].depth
    BY DEF Grows, Valid, EntryIn, EntryAt
  <2>2. AbandonedBy(place[1], place[2]) => AbandonedBy(place[1], place[2])'
    BY DEF Grows, AbandonedBy
  <2>3. Accounted(place)
    BY <1>2
  <2> HIDE DEF place
  <2>4. Accounted(place)'
    BY <2>1, <2>2, <2>3 DEF Grows, Accounted, Allowlisted, TooDeep
  <2> QED
    BY <2>4 DEF place
<1> QED
  BY <1>1, <1>2

\* The steps that leave the archives and, unless they end the visit, the stack.
LEMMA QuietSeen ==
  ASSUME ArchiveInv, NestInv, SeenInv,
         \/ Cancel \/ IsCancelled \/ Visit \/ SpoolFails \/ OpenPlain \/ OpenTooDeep
         \/ Scan \/ Resume \/ VisitReturns \/ UNCHANGED vars
  PROVE  NestInv' /\ SeenInv'
<1> USE DEF chargeVars, contentVars, eventVars, Do, Return, Report, Skip, Pop
<1>1. /\ control # "Continue" => doing \in {"return", "done"}
      /\ stack \in Seq(Frame) /\ archives \in Seq(Archive)
      /\ doing = "next" => stack # <<>>
      /\ limits.depth \in Nat
      /\ \A k \in 1 .. Len(archives) : archives[k].depth < limits.depth
  BY ArchiveAssumption DEF ArchiveInv, ControlInv, StackInv, StackOf, TypesInv, FitInv
<1>2. /\ UNCHANGED <<limits, file, archives, extracted, abandoned>>
      /\ scanned \subseteq scanned' /\ skipped \subseteq skipped'
      /\ stack' = stack \/ (doing' # "visit" /\ doing' # "open" /\ stack # <<>> /\ stack' = Front(stack))
      /\ doing' = "visit" => doing = "visit" /\ stack' = stack
      /\ doing' = "open" => doing = "open" \/ (doing = "visit" /\ limits.depth # 0)
      /\ doing' = "done" => stack' = stack /\ (doing = "done" \/ stack = <<>>)
      /\ control' = "Continue" =>
           /\ control = "Continue" /\ stack' = stack
           /\ doing = "visit" =>
                \/ doing' \in {"visit", "open", "scan"}
                \/ Root \in skipped' \/ limits.depth = 0
           /\ doing = "scan" => doing' = "scan" \/ file.at \in scanned'
           /\ doing = "open" =>
                \/ doing' \in {"open", "scan"} \/ file.at \in skipped'
                \/ limits.silent /\ file.format # None /\ Depth >= limits.depth
  <2> USE <1>1
  <2>1. CASE Cancel
    BY <2>1 DEF Cancel
  <2>2. CASE IsCancelled
    BY <2>2 DEF IsCancelled
  <2>3. CASE Visit
    BY <2>3 DEF Visit
  <2>4. CASE SpoolFails
    BY <2>4 DEF SpoolFails
  <2>5. CASE OpenPlain
    BY <2>5 DEF OpenPlain
  <2>6. CASE OpenTooDeep
    BY <2>6 DEF OpenTooDeep
  <2>8. CASE Scan
    BY <2>8 DEF Scan
  <2>9. CASE Resume
    BY <2>9 DEF Resume
  <2>10. CASE VisitReturns
    BY <2>10 DEF VisitReturns
  <2>11. CASE UNCHANGED vars
    BY <2>11 DEF vars
  <2> QED
    BY <2>1, <2>2, <2>3, <2>4, <2>5, <2>6, <2>8, <2>9, <2>10, <2>11
<1>3. Grows
  BY <1>2 DEF Grows
<1>4. NestInv'
  <2>1. \A k \in 1 .. Len(stack') : archives'[stack'[k].archive].depth = k - 1
    <3>1. CASE stack' = stack
      BY <1>2, <3>1 DEF NestInv
    <3>2. CASE stack # <<>> /\ stack' = Front(stack)
      <4>1. /\ Len(stack) \in Nat \ {0} /\ Len(stack') = Len(stack) - 1
            /\ \A k \in 1 .. Len(stack) - 1 : stack'[k] = stack[k]
        BY <1>1, <3>2, FrontAndLast
      <4> QED
        BY <1>2, <4>1 DEF NestInv
    <3> QED
      BY <1>2, <3>1, <3>2
  <2>2. doing' = "visit" => file'.at = Root /\ stack' = <<>>
    BY <1>2 DEF NestInv
  <2>3. doing' = "open" =>
          \/ file'.at = Root /\ stack' = <<>> /\ limits'.depth > 0
          \/ /\ stack' # <<>> /\ file'.at[1] = Top'.archive /\ Valid(file'.at, archives')
             /\ file'.format = EntryIn(file'.at, archives').format
    BY <1>1, <1>2 DEF NestInv, Top
  <2>4. doing' = "done" => stack' = <<>>
    BY <1>2 DEF NestInv
  <2> QED
    BY <2>1, <2>2, <2>3, <2>4 DEF NestInv
<1>5. ASSUME control' = "Continue"
      PROVE  /\ RootSeen'
             /\ \A a \in 1 .. Len(archives') : ArchiveSeen(a)'
             /\ \A a \in 1 .. Len(archives') : \A i \in 1 .. Len(archives'[a].entries) :
                  EntrySeen(a, i)'
  <2>1. control = "Continue" /\ stack' = stack /\ archives' = archives
    BY <1>2, <1>5
  <2>2. RootSeen'
    <3>1. RootSeen
      BY <2>1 DEF SeenInv
    <3>2. CASE doing = "visit"
      <4>1. file.at = Root
        BY <3>2 DEF NestInv
      <4> QED
        BY <1>2, <1>5, <3>2, <4>1 DEF RootSeen, InHand
    <3>3. CASE InHand(Root)
      <4>1. CASE doing = "scan"
        BY <1>2, <1>5, <3>3, <4>1 DEF RootSeen, InHand
      <4>2. CASE doing = "open"
        <5>1. ~(Depth >= limits.depth)
          <6>1. Depth = 0 /\ limits.depth > 0
            BY <3>3, <4>2 DEF NestInv, InHand, Depth, Root, Valid
          <6> QED
            BY <1>1, <6>1
        <5> QED
          BY <1>2, <1>5, <3>3, <4>2, <5>1 DEF RootSeen, InHand
      <4> QED
        BY <3>3, <4>1, <4>2 DEF InHand
    <3>4. CASE Root \in scanned \cup extracted \cup skipped \/ limits.depth = 0
      BY <1>2, <3>4 DEF RootSeen
    <3> QED
      BY <3>1, <3>2, <3>3, <3>4 DEF RootSeen
  <2>3. doing = "open" /\ file.at # Root =>
          file.at[2] # 0 /\ (limits.silent /\ file.format # None /\ Depth >= limits.depth =>
                               limits.silent /\ TooDeep(file.at))
    <3> SUFFICES ASSUME doing = "open", file.at # Root
                 PROVE  file.at[2] # 0 /\ (file.format # None /\ Depth >= limits.depth => TooDeep(file.at))
      OBVIOUS
    <3>1. /\ stack # <<>> /\ file.at[1] = Top.archive /\ Valid(file.at, archives)
          /\ file.format = EntryIn(file.at, archives).format
      BY DEF NestInv
    <3>2. Len(stack) \in Nat \ {0} /\ Top = stack[Len(stack)]
      BY <1>1, <3>1, FrontAndLast DEF Top
    <3>3. archives[Top.archive].depth = Len(stack) - 1
      BY <3>2 DEF NestInv
    <3>4. file.at[2] # 0
      BY <3>1 DEF Valid
    <3> QED
      BY <1>1, <3>1, <3>2, <3>3, <3>4 DEF TooDeep, EntryAt, EntryIn, Depth
  <2>4. ASSUME NEW a \in 1 .. Len(archives')
        PROVE  ArchiveSeen(a)'
    <3>1. a \in 1 .. Len(archives) /\ ArchiveSeen(a) /\ <<a, 0>> # Root
      BY <2>1 DEF SeenInv, Root
    <3>2. CASE Finished(a)
      BY <1>3, <3>1, <3>2, Remains DEF ArchiveSeen
    <3>3. CASE InHand(<<a, 0>>)
      <4>1. doing = "scan"
        BY <2>3, <3>1, <3>3 DEF InHand
      <4> QED
        BY <1>2, <1>5, <3>3, <4>1 DEF ArchiveSeen, InHand, Finished
    <3>4. CASE OnStack(a)
      BY <2>1, <3>4 DEF ArchiveSeen, OnStack
    <3> QED
      BY <3>1, <3>2, <3>3, <3>4 DEF ArchiveSeen
  <2>5. ASSUME NEW a \in 1 .. Len(archives'), NEW i \in 1 .. Len(archives'[a].entries)
        PROVE  EntrySeen(a, i)'
    <3>1. /\ a \in 1 .. Len(archives) /\ i \in 1 .. Len(archives[a].entries)
          /\ EntrySeen(a, i) /\ <<a, i>> # Root
      BY <2>1 DEF SeenInv, Root
    <3>2. CASE Accounted(<<a, i>>)
      BY <1>3, <3>1, <3>2, Remains DEF EntrySeen
    <3>3. CASE InHand(<<a, i>>)
      <4>1. \/ InHand(<<a, i>>)' \/ <<a, i>> \in scanned' \cup skipped'
            \/ limits.silent /\ TooDeep(<<a, i>>)
        BY <1>2, <1>5, <2>3, <3>1, <3>3 DEF InHand
      <4>2. limits.silent /\ TooDeep(<<a, i>>) => (limits.silent /\ TooDeep(<<a, i>>))'
        BY <1>2 DEF TooDeep, EntryAt
      <4> QED
        BY <4>1, <4>2 DEF EntrySeen, Accounted
    <3>4. CASE Waits(a, i)
      BY <2>1, <3>4 DEF EntrySeen, Waits
    <3> QED
      BY <3>1, <3>2, <3>3, <3>4 DEF EntrySeen
  <2> QED
    BY <2>2, <2>4, <2>5
<1> QED
  BY <1>4, <1>5 DEF SeenInv

\* An archive that was opened has nothing in it yet that is accounted for: what was found
\* waits on the stack, or is reported, and a single stream is in hand.
Begun(found) ==
  \/ Push /\ doing' = "next" /\ file' = file
  \/ stack' = stack /\ doing' = "return" /\ <<New, 0>> \in abandoned'
  \/ stack' = stack /\ doing' = "scan" /\ file'.at = <<New, 0>> /\ found = <<>>

\* The step that opens an archive.
LEMMA OpenSeen ==
  ASSUME ArchiveInv, NestInv, SeenInv,
         OpenContainer \/ OpenStream \/ OpenRar \/ OpenSevenZip
  PROVE  NestInv' /\ SeenInv'
<1> USE DEF chargeVars, contentVars, eventVars
<1>1. /\ doing = "open" /\ control = "Continue" /\ extracted' = extracted \cup {file.at}
      /\ limits' = limits /\ file.format \in Formats
      /\ stack \in Seq(Frame) /\ archives \in Seq(Archive) /\ Depth \in Nat
      /\ \A k \in 1 .. Len(stack) : stack[k].archive \in 1 .. Len(archives)
  <2>1. /\ doing = "open" /\ extracted' = extracted \cup {file.at}
        /\ limits' = limits /\ file.format \in Formats
    BY DEF OpenContainer, OpenStream, OpenRar, OpenSevenZip, Opens, Formats, Listed
  <2>2. /\ stack \in Seq(Frame) /\ archives \in Seq(Archive)
        /\ \A k \in 1 .. Len(stack) : stack[k].archive \in 1 .. Len(archives)
    BY DEF ArchiveInv, TypesInv, StackInv, StackOf
  <2> QED
    BY <2>1, <2>2 DEF Depth, ArchiveInv, ControlInv
<1>2. PICK found \in Seq(Entry), decoded \in Nat :
        /\ Opened(found, decoded) /\ Begun(found)
        /\ scanned' = scanned /\ skipped' = skipped /\ abandoned \subseteq abandoned'
  <2>1. <<>> \in Seq(Entry) /\ 0 \in Nat
    OBVIOUS
  <2>2. Abandon(<<New, 0>>) => /\ doing' = "return" /\ <<New, 0>> \in abandoned'
                               /\ scanned' = scanned /\ skipped' = skipped
                               /\ abandoned \subseteq abandoned'
    BY DEF Abandon, Report, Return
  <2>3. ASSUME NEW found \in Seq(Entry), NEW whole \in BOOLEAN, Publish(found, whole)
        PROVE  /\ Opened(found, 0) /\ Begun(found)
               /\ scanned' = scanned /\ skipped' = skipped /\ abandoned \subseteq abandoned'
    BY <2>2, <2>3 DEF Publish, Begun, Do
  <2>4. CASE OpenContainer
    <3>1. Opened(<<>>, 0) /\ file' = file
      BY <2>4 DEF OpenContainer
    <3>2. CASE Push /\ Do("next") /\ UNCHANGED eventVars
      BY <2>1, <3>1, <3>2 DEF Begun, Do
    <3>3. CASE Abandon(<<New, 0>>) /\ UNCHANGED stack
      BY <2>1, <2>2, <3>1, <3>3 DEF Begun
    <3> QED
      BY <2>4, <3>2, <3>3 DEF OpenContainer
  <2>5. CASE OpenStream
    <3>1. PICK size \in Sizes, flaw \in BOOLEAN :
            IF flaw \/ MemberLimit = 0 \/ size > MemberLimit
            THEN /\ Opened(<<>>, 0)
                 /\ Abandon(<<New, 0>>)
                 /\ UNCHANGED <<file, stack, expanded>>
            ELSE /\ Opened(<<>>, size)
                 /\ expanded' = expanded + size
                 /\ IF file.format = "gz"
                    THEN Do("scan") /\ file' = [at |-> <<New, 0>>, format |-> None] /\ UNCHANGED stack
                    ELSE Do("next") /\ Push /\ UNCHANGED file
                 /\ UNCHANGED eventVars
      BY <2>5 DEF OpenStream
    <3>2. size \in Nat
      BY ArchiveAssumption
    <3>3. CASE flaw \/ MemberLimit = 0 \/ size > MemberLimit
      BY <2>1, <2>2, <3>1, <3>3 DEF Begun
    <3>4. CASE ~(flaw \/ MemberLimit = 0 \/ size > MemberLimit)
      <4>1. /\ Opened(<<>>, size) /\ UNCHANGED eventVars
            /\ \/ Do("scan") /\ file' = [at |-> <<New, 0>>, format |-> None] /\ UNCHANGED stack
               \/ Do("next") /\ Push /\ UNCHANGED file
        BY <3>1, <3>4
      <4>2. Begun(<<>>)
        BY <4>1 DEF Begun, Do
      <4> QED
        BY <2>1, <3>2, <4>1, <4>2
    <3> QED
      BY <3>3, <3>4
  <2>6. CASE OpenRar
    <3>1. \/ Publish(<<>>, FALSE)
          \/ \E found \in SeqOf(ListedEntry, MaxEntries - Found) :
               Publish(found, entries + Len(found) <= limits.entries /\ Decodes(found))
      BY <2>6 DEF OpenRar
    <3>2. PICK found \in Seq(Entry), whole \in BOOLEAN : Publish(found, whole)
      BY <2>1, <3>1, FoundIsSeq
    <3> QED
      BY <2>1, <2>3, <3>2
  <2>7. CASE OpenSevenZip
    <3>1. \/ Publish(<<>>, FALSE)
          \/ \E found \in SeqOf(ListedEntry, MaxEntries - Found) :
               Publish(found, entries + Len(found) <= limits.entries /\ Decodes(found))
      BY <2>7 DEF OpenSevenZip
    <3>2. PICK found \in Seq(Entry), whole \in BOOLEAN : Publish(found, whole)
      BY <2>1, <3>1, FoundIsSeq
    <3> QED
      BY <2>1, <2>3, <3>2
  <2> QED
    BY <2>4, <2>5, <2>6, <2>7
<1> DEFINE arc == [format |-> file.format, depth |-> Depth, decoded |-> decoded,
                   entries |-> found, ended |-> FALSE, broken |-> FALSE]
           top == [archive |-> New, next |-> 1]
<1>3. /\ arc \in Archive /\ archives' = Append(archives, arc)
      /\ arc.depth = Depth /\ arc.entries = found /\ top \in Frame
      /\ top.archive = New /\ top.next = 1
  BY <1>1, <1>2 DEF Archive, Opened, Frame, New
<1> HIDE DEF arc
<1>4. /\ Len(archives') = New /\ New = Len(archives) + 1 /\ Len(archives) \in Nat
      /\ \A a \in 1 .. Len(archives) : archives'[a] = archives[a]
      /\ archives'[New] = arc
  BY <1>1, <1>3 DEF New
<1>5. Push => /\ Len(stack') = Len(stack) + 1 /\ stack'[Len(stack) + 1] = top
              /\ \A k \in 1 .. Len(stack) : stack'[k] = stack[k]
  BY <1>1, <1>3 DEF Push
<1> HIDE DEF top
<1>6. Grows
  BY <1>1, <1>2, <1>4 DEF Grows, Valid, EntryIn
<1>7. NestInv'
  <2>1. doing' \notin {"visit", "open", "done"}
    BY <1>2 DEF Begun
  <2>2. ASSUME NEW k \in 1 .. Len(stack')
        PROVE  archives'[stack'[k].archive].depth = k - 1
    <3>1. CASE k \in 1 .. Len(stack) /\ stack'[k] = stack[k]
      BY <1>1, <1>4, <3>1 DEF NestInv
    <3>2. CASE k = Len(stack) + 1 /\ stack'[k] = top
      BY <1>1, <1>3, <1>4, <3>2 DEF Depth
    <3>3. CASE stack' = stack
      BY <3>1, <3>3
    <3>4. CASE Push
      BY <1>1, <1>5, <3>1, <3>2, <3>4 DEF Depth
    <3> QED
      BY <1>2, <3>3, <3>4 DEF Begun
  <2> QED
    BY <2>1, <2>2 DEF NestInv
<1>8. \A a \in 1 .. Len(archives) : OnStack(a) => OnStack(a)'
  <2> SUFFICES ASSUME NEW k \in 1 .. Len(stack)
               PROVE  k \in 1 .. Len(stack') /\ stack'[k] = stack[k]
    BY DEF OnStack
  <2> QED
    BY <1>1, <1>2, <1>5 DEF Begun, Depth
<1>9. \A a \in 1 .. Len(archives) : \A i : Waits(a, i) => Waits(a, i)'
  <2> SUFFICES ASSUME NEW k \in 1 .. Len(stack)
               PROVE  k \in 1 .. Len(stack') /\ stack'[k] = stack[k]
    BY DEF Waits
  <2> QED
    BY <1>1, <1>2, <1>5 DEF Begun, Depth
<1>10. ASSUME NEW a \in 1 .. Len(archives')
       PROVE  ArchiveSeen(a)'
  <2>1. CASE a \in 1 .. Len(archives)
    <3>1. ArchiveSeen(a)
      BY <1>1, <2>1 DEF SeenInv
    <3>2. ~InHand(<<a, 0>>)
      BY <1>1, <2>1 DEF NestInv, InHand, Root, Valid
    <3> QED
      BY <1>6, <1>8, <2>1, <3>1, <3>2, Remains DEF ArchiveSeen
  <2>2. CASE a = New
    <3>1. CASE Push
      <4>1. Len(stack') \in 1 .. Len(stack') /\ stack'[Len(stack')].archive = New
        BY <1>1, <1>3, <1>5, <3>1 DEF Depth
      <4> QED
        BY <2>2, <4>1 DEF ArchiveSeen, OnStack
    <3>2. CASE <<New, 0>> \in abandoned'
      <4>1. <<New, 0>>[1] = New
        OBVIOUS
      <4> QED
        BY <2>2, <3>2, <4>1 DEF ArchiveSeen, Finished
    <3>3. CASE doing' = "scan" /\ file'.at = <<New, 0>>
      BY <2>2, <3>3 DEF ArchiveSeen, InHand
    <3> QED
      BY <1>2, <3>1, <3>2, <3>3 DEF Begun
  <2> QED
    BY <1>4, <2>1, <2>2
<1>11. ASSUME NEW a \in 1 .. Len(archives'), NEW i \in 1 .. Len(archives'[a].entries)
       PROVE  EntrySeen(a, i)'
  <2>1. CASE a \in 1 .. Len(archives)
    <3>1. i \in 1 .. Len(archives[a].entries) /\ EntrySeen(a, i)
      BY <1>1, <1>4, <2>1 DEF SeenInv
    <3>2. CASE InHand(<<a, i>>)
      BY <1>1, <3>2 DEF EntrySeen, InHand, Accounted
    <3> QED
      BY <1>6, <1>9, <2>1, <3>1, <3>2, Remains DEF EntrySeen
  <2>2. CASE a = New
    <3>1. i \in 1 .. Len(found)
      BY <1>3, <1>4, <2>2
    <3>2. CASE Push
      <4>1. /\ Len(stack') \in 1 .. Len(stack') /\ stack'[Len(stack')].archive = New
            /\ stack'[Len(stack')].next <= i
        BY <1>1, <1>3, <1>5, <3>1, <3>2 DEF Depth
      <4> QED
        BY <2>2, <4>1 DEF EntrySeen, Waits
    <3>3. CASE <<New, 0>> \in abandoned'
      <4>1. <<New, 0>>[1] = New /\ <<New, 0>>[2] <= i
        BY <3>1
      <4>2. <<a, i>>[1] = a /\ <<a, i>>[2] = i
        OBVIOUS
      <4>3. AbandonedBy(a, i)'
        <5> DEFINE place == <<New, 0>>
        <5>1. place \in abandoned' /\ place[1] = New /\ place[2] <= i
          BY <3>3, <4>1
        <5> HIDE DEF place
        <5> QED
          BY <5>1, <2>2 DEF AbandonedBy
      <4> QED
        BY <4>2, <4>3 DEF EntrySeen, Accounted
    <3>4. CASE found = <<>>
      BY <3>1, <3>4
    <3> QED
      BY <1>2, <3>2, <3>3, <3>4 DEF Begun
  <2> QED
    BY <1>4, <2>1, <2>2
<1>12. RootSeen'
  <2>1. RootSeen
    BY <1>1 DEF SeenInv
  <2> QED
    BY <1>1, <1>2, <2>1 DEF RootSeen, InHand
<1> QED
  BY <1>7, <1>10, <1>11, <1>12 DEF SeenInv

\* What becomes of an entry that is passed over, skipped or taken in hand.
Dealt(e) ==
  /\ Forward /\ doing' \in {"next", "return", "open", "scan"}
  /\ doing' \in {"open", "scan"} => file' = [at |-> Place, format |-> e.format]
  /\ \/ e.is # "file" \/ (e.allowed /\ Depth = 1) \/ Place \in skipped'
     \/ doing' \in {"open", "scan"}
  /\ scanned' = scanned /\ skipped \subseteq skipped' /\ abandoned' = abandoned

\* An entry with which the extraction is given up.
Dropped ==
  /\ Pop /\ doing' = "return" /\ Place \in abandoned'
  /\ scanned' = scanned /\ skipped' = skipped /\ abandoned \subseteq abandoned'

\* Every way to deal with an entry is one of these.
LEMMA EntryDealt ==
  ASSUME NEW e \in Entry
  PROVE  /\ Member(e) => Dealt(e)
         /\ GiveUp => Dropped
         /\ PassOver /\ e.is # "file" => Dealt(e)
         /\ TarEntry(e) \/ ZipEntry(e) => Dropped \/ Dealt(e)
<1> USE DEF Do, Report, Return, Skip, Abandon, eventVars
<1>1. Member(e) => Dealt(e)
  <2> SUFFICES ASSUME Member(e) PROVE Dealt(e)
    OBVIOUS
  <2>1. CASE e.allowed /\ Depth = 1
    BY <2>1 DEF Member, Dealt
  <2>2. CASE Forward /\ Skip(Place)
    BY <2>2 DEF Dealt
  <2>3. CASE /\ Forward /\ UNCHANGED eventVars
             /\ file' = [at |-> Place, format |-> e.format]
             /\ Do(IF Here.format = "7z" /\ e.format = None THEN "scan" ELSE "open")
    BY <2>3 DEF Dealt
  <2> QED
    BY <2>1, <2>2, <2>3 DEF Member
<1>2. GiveUp => Dropped
  BY DEF GiveUp, Dropped
<1>3. PassOver /\ e.is # "file" => Dealt(e)
  BY DEF PassOver, Dealt
<1>4. Forward /\ Skip(Place) => Dealt(e)
  BY DEF Dealt
<1> QED
  BY <1>1, <1>2, <1>3, <1>4 DEF TarEntry, ZipEntry

\* What is known where an extraction goes on, and of the stack when it does.
LEMMA AtNext ==
  ASSUME ArchiveInv, NestInv, SeenInv, doing = "next"
  PROVE  /\ control = "Continue" /\ stack \in Seq(Frame) /\ stack # <<>>
         /\ Len(stack) \in Nat \ {0} /\ Top = stack[Len(stack)]
         /\ Top.archive \in Nat /\ Top.next \in Nat \ {0}
         /\ archives[Top.archive].depth = Len(stack) - 1 /\ limits.depth > 0
         /\ \A k \in 1 .. Len(stack) : stack[k].archive \in 1 .. Len(archives)
         /\ Root \in scanned \cup extracted \cup skipped \/ limits.depth = 0
         /\ \A a \in 1 .. Len(archives) : Finished(a) \/ OnStack(a)
         /\ \A a \in 1 .. Len(archives) : \A i \in 1 .. Len(archives[a].entries) :
              Accounted(<<a, i>>) \/ Waits(a, i)
<1>1. control = "Continue" /\ stack \in Seq(Frame) /\ stack # <<>> /\ limits.depth \in Nat
  BY ArchiveAssumption DEF ArchiveInv, TypesInv, ControlInv, StackInv, StackOf
<1>2. Len(stack) \in Nat \ {0} /\ Top = stack[Len(stack)]
  BY <1>1, FrontAndLast DEF Top
<1>3. Top.archive \in Nat /\ Top.next \in Nat \ {0}
  BY <1>1, <1>2, FrameHas
<1>4. \A k \in 1 .. Len(stack) : stack[k].archive \in 1 .. Len(archives)
  BY DEF ArchiveInv, StackInv, StackOf
<1>5. archives[Top.archive].depth = Len(stack) - 1
  BY <1>2 DEF NestInv
<1>6. limits.depth > 0
  <2>1. archives[Top.archive].depth < limits.depth
    BY <1>2, <1>4 DEF ArchiveInv, FitInv
  <2> QED
    BY <1>1, <1>2, <1>5, <2>1
<1>7. \A place : ~InHand(place)
  BY DEF InHand
<1> QED
  BY <1>1, <1>2, <1>3, <1>4, <1>5, <1>6, <1>7 DEF SeenInv, RootSeen, ArchiveSeen, EntrySeen

\* The extraction goes on with the next entry.
LEMMA ForwardSeen ==
  ASSUME ArchiveInv, NestInv, SeenInv, doing = "next", Grows,
         Len(archives') = Len(archives),
         \A p : Valid(p, archives') /\ ~Valid(p, archives) => p[1] = Top.archive /\ p[2] = Top.next,
         NEW e \in Entry, Valid(Place, archives'), EntryIn(Place, archives') = e, Dealt(e)
  PROVE  NestInv' /\ SeenInv'
<1> DEFINE n == Len(stack)
<1>1. /\ control = "Continue" /\ stack \in Seq(Frame) /\ stack # <<>>
      /\ n \in Nat \ {0} /\ Top = stack[n] /\ Top.archive \in Nat /\ Top.next \in Nat \ {0}
      /\ archives[Top.archive].depth = n - 1 /\ limits.depth > 0
      /\ \A k \in 1 .. n : stack[k].archive \in 1 .. Len(archives)
      /\ Root \in scanned \cup extracted \cup skipped \/ limits.depth = 0
      /\ \A a \in 1 .. Len(archives) : Finished(a) \/ OnStack(a)
      /\ \A a \in 1 .. Len(archives) : \A i \in 1 .. Len(archives[a].entries) :
           Accounted(<<a, i>>) \/ Waits(a, i)
  BY AtNext
<1>2. /\ stack' \in Seq(Frame) /\ Len(stack') = n
      /\ \A k \in 1 .. n : k # n => stack'[k] = stack[k]
      /\ stack'[n].archive = Top.archive /\ stack'[n].next = Top.next + 1
  BY <1>1, ForwardOnStack DEF Dealt, Forward, Depth
<1>3. Depth = n
  BY DEF Depth
<1> HIDE DEF n
<1>4. \A k \in 1 .. n : stack'[k].archive = stack[k].archive
  BY <1>1, <1>2
<1>5. Place[1] = Top.archive /\ Place[2] = Top.next /\ Place = <<Top.archive, Top.next>>
  BY DEF Place
<1>6. \A k \in 1 .. Len(archives) : archives'[k].depth = archives[k].depth
  BY DEF Grows
<1>7. NestInv'
  <2>1. \A k \in 1 .. Len(stack') : archives'[stack'[k].archive].depth = k - 1
    BY <1>1, <1>2, <1>4, <1>6 DEF NestInv, n
  <2>2. doing' # "visit" /\ doing' # "done"
    BY DEF Dealt
  <2>3. ASSUME doing' = "open"
        PROVE  /\ stack' # <<>> /\ file'.at[1] = Top'.archive /\ Valid(file'.at, archives')
               /\ file'.format = EntryIn(file'.at, archives').format
    <3>1. file'.at = Place /\ file'.format = e.format
      BY <2>3 DEF Dealt
    <3>2. stack' # <<>> /\ Top' = stack'[n]
      <4>1. stack' # <<>>
        BY <1>1, <1>2
      <4>2. Last(stack') = stack'[Len(stack')]
        BY <1>2, <4>1, FrontAndLast
      <4> QED
        BY <1>2, <4>1, <4>2 DEF Top
    <3> QED
      BY <1>2, <1>5, <3>1, <3>2
  <2> QED
    BY <2>1, <2>2, <2>3 DEF NestInv
<1>8. RootSeen'
  BY <1>1 DEF RootSeen, Grows
<1>9. ASSUME NEW a \in 1 .. Len(archives')
      PROVE  ArchiveSeen(a)'
  <2>1. CASE Finished(a)
    BY <2>1, Remains DEF ArchiveSeen
  <2>2. CASE OnStack(a)
    BY <1>2, <1>4, <2>2 DEF OnStack, ArchiveSeen, n
  <2> QED
    BY <1>1, <2>1, <2>2
<1> SUFFICES ASSUME NEW t, NEW m, t = Top.archive, m = Top.next
             PROVE  NestInv' /\ SeenInv'
  OBVIOUS
<1>a. Place = <<t, m>> /\ t \in 1 .. Len(archives) /\ m \in Nat \ {0}
  BY <1>1, <1>5
<1>10. Accounted(<<t, m>>)' \/ InHand(<<t, m>>)'
  <2>1. EntryAt(<<t, m>>)' = e
    BY <1>a DEF EntryAt, EntryIn
  <2>2. CASE e.is # "file"
    BY <2>1, <2>2 DEF Accounted
  <2>3. CASE e.allowed /\ Depth = 1
    <3>1. archives'[t].depth = 0
      BY <1>1, <1>3, <1>6, <1>a, <2>3
    <3> QED
      BY <2>1, <2>3, <3>1 DEF Accounted, Allowlisted
  <2>4. CASE Place \in skipped'
    BY <1>a, <2>4 DEF Accounted
  <2>5. CASE doing' \in {"open", "scan"}
    BY <1>a, <2>5 DEF Dealt, InHand
  <2> QED
    BY <2>2, <2>3, <2>4, <2>5 DEF Dealt
<1>11. ASSUME NEW a \in 1 .. Len(archives'), NEW i \in 1 .. Len(archives'[a].entries)
       PROVE  EntrySeen(a, i)'
  <2>1. CASE i \in 1 .. Len(archives[a].entries)
    <3>1. CASE Accounted(<<a, i>>)
      BY <2>1, <3>1, Remains DEF EntrySeen
    <3>2. CASE Waits(a, i)
      <4>1. PICK k \in 1 .. n : stack[k].archive = a /\ stack[k].next <= i
        BY <3>2 DEF Waits, n
      <4>2. CASE k # n
        BY <1>2, <4>1, <4>2 DEF EntrySeen, Waits
      <4>3. CASE k = n
        <5>1. a = t /\ m <= i
          BY <1>1, <4>1, <4>3
        <5>2. CASE i = m
          BY <1>10, <5>1, <5>2 DEF EntrySeen
        <5>3. CASE i # m
          <6>1. stack'[n].archive = a /\ stack'[n].next <= i /\ n \in 1 .. Len(stack')
            BY <1>1, <1>2, <1>a, <5>1, <5>3
          <6> QED
            BY <6>1 DEF EntrySeen, Waits
        <5> QED
          BY <5>2, <5>3
      <4> QED
        BY <4>2, <4>3
    <3> QED
      BY <1>1, <2>1, <3>1, <3>2
  <2>2. CASE i \notin 1 .. Len(archives[a].entries)
    <3> DEFINE p == <<a, i>>
    <3>1. p[1] = a /\ p[2] = i
      OBVIOUS
    <3> HIDE DEF p
    <3>2. Valid(p, archives') /\ ~Valid(p, archives)
      BY <2>2, <3>1 DEF Valid
    <3>3. a = t /\ i = m
      BY <3>1, <3>2
    <3> QED
      BY <1>10, <3>3 DEF EntrySeen
  <2> QED
    BY <2>1, <2>2
<1> QED
  BY <1>7, <1>8, <1>9, <1>11 DEF SeenInv

\* The extraction on top ends: its archive is finished, and what it has left is reported.
LEMMA PoppedSeen ==
  ASSUME ArchiveInv, NestInv, SeenInv, doing = "next", Grows,
         Len(archives') = Len(archives), Pop, doing' = "return",
         \A p : Valid(p, archives') /\ ~Valid(p, archives) => p[1] = Top.archive /\ p[2] = Top.next,
         NEW t, NEW m, t = Top.archive, m = Top.next, Finished(t)',
         \A i \in 1 .. Len(archives'[t].entries) : i >= m => AbandonedBy(t, i)'
  PROVE  NestInv' /\ SeenInv'
<1> DEFINE n == Len(stack)
<1>1. /\ control = "Continue" /\ stack \in Seq(Frame) /\ stack # <<>>
      /\ n \in Nat \ {0} /\ Top = stack[n] /\ Top.archive \in Nat /\ Top.next \in Nat \ {0}
      /\ \A k \in 1 .. n : stack[k].archive \in 1 .. Len(archives)
      /\ Root \in scanned \cup extracted \cup skipped \/ limits.depth = 0
      /\ \A a \in 1 .. Len(archives) : Finished(a) \/ OnStack(a)
      /\ \A a \in 1 .. Len(archives) : \A i \in 1 .. Len(archives[a].entries) :
           Accounted(<<a, i>>) \/ Waits(a, i)
  BY AtNext
<1>2. /\ Len(stack') = n - 1
      /\ \A k \in 1 .. n - 1 : stack'[k] = stack[k]
  BY <1>1, FrontAndLast DEF Pop
<1> HIDE DEF n
<1>3. \A k \in 1 .. Len(archives) : archives'[k].depth = archives[k].depth
  BY DEF Grows
<1>4. NestInv'
  <2>1. \A k \in 1 .. Len(stack') : archives'[stack'[k].archive].depth = k - 1
    BY <1>1, <1>2, <1>3 DEF NestInv, n
  <2> QED
    BY <2>1 DEF NestInv
<1>5. RootSeen'
  BY <1>1 DEF RootSeen, Grows
<1>6. ASSUME NEW a \in 1 .. Len(archives')
      PROVE  ArchiveSeen(a)'
  <2>1. CASE Finished(a)
    BY <2>1, Remains DEF ArchiveSeen
  <2>2. CASE OnStack(a)
    <3>1. PICK k \in 1 .. n : stack[k].archive = a
      BY <2>2 DEF OnStack, n
    <3>2. CASE k = n
      BY <1>1, <3>1, <3>2 DEF ArchiveSeen
    <3>3. CASE k # n
      <4>1. k \in 1 .. Len(stack') /\ stack'[k].archive = a
        BY <1>1, <1>2, <3>1, <3>3
      <4> QED
        BY <4>1 DEF ArchiveSeen, OnStack
    <3> QED
      BY <3>2, <3>3
  <2> QED
    BY <1>1, <2>1, <2>2
<1>7. ASSUME NEW a \in 1 .. Len(archives'), NEW i \in 1 .. Len(archives'[a].entries),
             a = t, i >= m
      PROVE  EntrySeen(a, i)'
  <2> DEFINE p == <<a, i>>
  <2>1. p[1] = a /\ p[2] = i /\ AbandonedBy(a, i)'
    BY <1>7
  <2> HIDE DEF p
  <2>2. Accounted(p)'
    BY <2>1 DEF Accounted
  <2> QED
    BY <2>2 DEF EntrySeen, p
<1>8. ASSUME NEW a \in 1 .. Len(archives'), NEW i \in 1 .. Len(archives'[a].entries)
      PROVE  EntrySeen(a, i)'
  <2>1. CASE i \in 1 .. Len(archives[a].entries)
    <3>1. CASE Accounted(<<a, i>>)
      BY <2>1, <3>1, Remains DEF EntrySeen
    <3>2. CASE Waits(a, i)
      <4>1. PICK k \in 1 .. n : stack[k].archive = a /\ stack[k].next <= i
        BY <3>2 DEF Waits, n
      <4>2. CASE k # n
        <5>1. k \in 1 .. Len(stack') /\ stack'[k].archive = a /\ stack'[k].next <= i
          BY <1>1, <1>2, <4>1, <4>2
        <5> QED
          BY <5>1 DEF EntrySeen, Waits
      <4>3. CASE k = n
        <5>1. a = t /\ i >= m
          BY <1>1, <4>1, <4>3
        <5> QED
          BY <1>7, <5>1
      <4> QED
        BY <4>2, <4>3
    <3> QED
      BY <1>1, <2>1, <3>1, <3>2
  <2>2. CASE i \notin 1 .. Len(archives[a].entries)
    <3> DEFINE p == <<a, i>>
    <3>1. p[1] = a /\ p[2] = i
      OBVIOUS
    <3> HIDE DEF p
    <3>2. Valid(p, archives') /\ ~Valid(p, archives)
      BY <2>2, <3>1 DEF Valid
    <3>3. a = t /\ i = m
      BY <3>1, <3>2
    <3>4. i >= m
      BY <3>3
    <3> QED
      BY <1>7, <3>3, <3>4
  <2> QED
    BY <2>1, <2>2
<1> QED
  BY <1>4, <1>5, <1>6, <1>8 DEF SeenInv

\* An entry with which the extraction is given up.
LEMMA DroppedSeen ==
  ASSUME ArchiveInv, NestInv, SeenInv, doing = "next", Grows,
         Len(archives') = Len(archives), Dropped,
         \A p : Valid(p, archives') /\ ~Valid(p, archives) => p[1] = Top.archive /\ p[2] = Top.next
  PROVE  NestInv' /\ SeenInv'
<1> SUFFICES ASSUME NEW t, NEW m, t = Top.archive, m = Top.next
             PROVE  NestInv' /\ SeenInv'
  OBVIOUS
<1>1. Place \in abandoned' /\ Place[1] = t /\ Place[2] = m
  BY DEF Dropped, Place
<1>2. PICK p \in abandoned' : p[1] = t /\ p[2] = m
  BY <1>1
<1>3. Finished(t)' /\ \A i \in 1 .. Len(archives'[t].entries) : i >= m => AbandonedBy(t, i)'
  BY <1>2 DEF Finished, AbandonedBy
<1> QED
  BY <1>3, PoppedSeen DEF Dropped

\* An entry of a TAR or a ZIP is read.
LEMMA ReadSeen ==
  ASSUME ArchiveInv, NestInv, SeenInv, ReadEntry
  PROVE  NestInv' /\ SeenInv'
<1>1. PICK e \in Entry :
        /\ archives' = [archives EXCEPT ![Top.archive].entries = Append(@, e),
                                        ![Top.archive].broken = (e.flaw = "padding")]
        /\ IF e.flaw = "header"
           THEN GiveUp /\ UNCHANGED entries
           ELSE /\ entries' = entries + 1
                /\ IF Here.format = "zip" THEN ZipEntry(e) ELSE TarEntry(e)
  BY DEF ReadEntry
<1>2. doing = "next" /\ Here.format \notin Listed /\ UNCHANGED <<limits, extracted>>
  BY DEF ReadEntry
<1>3. StackOf(stack, archives) /\ stack # <<>> /\ archives \in Seq(Archive)
  BY <1>2, OnTop
<1>4. /\ Len(archives') = Len(archives)
      /\ \A a \in 1 .. Len(archives) :
           archives'[a].depth = archives[a].depth /\ archives'[a].decoded = archives[a].decoded
      /\ \A a \in 1 .. Len(archives) : archives'[a].ended = archives[a].ended
      /\ \A p : Valid(p, archives) =>
           Valid(p, archives') /\ EntryIn(p, archives') = EntryIn(p, archives)
      /\ \A p : Valid(p, archives') /\ ~Valid(p, archives) =>
           p[1] = Top.archive /\ p[2] = Top.next
      /\ Valid(Place, archives') /\ EntryIn(Place, archives') = e
  <2>1. PICK broken \in BOOLEAN : broken = (e.flaw = "padding")
    OBVIOUS
  <2>2. Top = Last(stack) /\ archives[Last(stack).archive].format \notin Listed
    BY <1>2 DEF Top, Here
  <2>3. Place = <<Last(stack).archive, Last(stack).next>>
    BY DEF Place, Top
  <2>4. archives' = Read(archives, Last(stack).archive, e, broken)
    BY <1>1, <2>1, <2>2 DEF Read
  <2> QED
    BY <1>3, <2>2, <2>3, <2>4, ReadOnStack
<1>5. Dropped \/ Dealt(e)
  BY <1>1, EntryDealt
<1>6. Grows
  BY <1>2, <1>4, <1>5 DEF Grows, Dropped, Dealt
<1> QED
  BY <1>2, <1>4, <1>5, <1>6, DroppedSeen, ForwardSeen

\* A member of a 7z or a RAR, and the padding of a TAR that ends in it.
LEMMA ListSeen ==
  ASSUME ArchiveInv, NestInv, SeenInv, NextListed \/ PaddingIsTruncated
  PROVE  NestInv' /\ SeenInv'
<1>1. doing = "next" /\ UNCHANGED <<limits, archives, extracted>>
  BY DEF NextListed, PaddingIsTruncated, contentVars
<1>2. StackOf(stack, archives) /\ stack # <<>> /\ archives \in Seq(Archive)
  BY <1>1, OnTop
<1>3. /\ Len(archives') = Len(archives)
      /\ \A p : Valid(p, archives') /\ ~Valid(p, archives) =>
           p[1] = Top.archive /\ p[2] = Top.next
  BY <1>1
<1>4. Dropped \/ Dealt(Here.entries[Top.next]) => Grows
  BY <1>1 DEF Grows, Dropped, Dealt
<1>5. CASE PaddingIsTruncated
  <2>1. Dropped
    BY <1>5 DEF PaddingIsTruncated, GiveUp, Dropped, Abandon, Report, Return
  <2> QED
    BY <1>1, <1>3, <1>4, <2>1, DroppedSeen
<1>6. CASE NextListed
  <2> DEFINE e == Here.entries[Top.next]
  <2>1. /\ Here.format \in Listed /\ Top.next <= Len(Here.entries)
        /\ \/ GiveUp
           \/ PassOver /\ e.is = "directory"
           \/ Member(e)
    BY <1>6 DEF NextListed
  <2>2. Valid(Place, archives) /\ e \in Entry /\ EntryIn(Place, archives) = e
    <3>1. /\ archives[Last(stack).archive].format \in Listed
          /\ Last(stack).next <= Len(archives[Last(stack).archive].entries)
      BY <2>1 DEF Top, Here
    <3>2. Place = <<Last(stack).archive, Last(stack).next>>
      BY DEF Place, Top
    <3>3. e = archives[Last(stack).archive].entries[Last(stack).next]
      BY DEF Top, Here
    <3> HIDE DEF e
    <3> QED
      BY <1>2, <3>1, <3>2, <3>3, ListOnStack
  <2> HIDE DEF e
  <2>3. Dropped \/ Dealt(e)
    BY <2>1, <2>2, EntryDealt
  <2> QED
    BY <1>1, <1>3, <1>4, <2>2, <2>3, DroppedSeen, ForwardSeen DEF e
<1> QED
  BY <1>5, <1>6

\* An extraction ends with its last entry.
LEMMA EndSeen ==
  ASSUME ArchiveInv, NestInv, SeenInv, EntriesEnd \/ ListEnds
  PROVE  NestInv' /\ SeenInv'
<1> SUFFICES ASSUME NEW t, NEW m, t = Top.archive, m = Top.next
             PROVE  NestInv' /\ SeenInv'
  OBVIOUS
<1> DEFINE arc == [archives[t] EXCEPT !.ended = TRUE]
<1>1. /\ doing = "next"
      /\ archives' = [archives EXCEPT ![t].ended = TRUE]
      /\ Pop /\ doing' = "return"
      /\ UNCHANGED <<limits, extracted, scanned, skipped>> /\ abandoned \subseteq abandoned'
      /\ Here.format \notin Listed \/ Top.next > Len(Here.entries)
  BY DEF EntriesEnd, ListEnds, Return, Abandon, Report, chargeVars, eventVars
<1>2. /\ StackOf(stack, archives) /\ stack # <<>> /\ archives \in Seq(Archive)
      /\ t \in 1 .. Len(archives) /\ archives[t] \in Archive
  BY <1>1, OnTop DEF Here
<1>3. /\ arc \in Archive /\ arc.ended /\ arc.depth = archives[t].depth
      /\ arc.entries = archives[t].entries
  BY <1>2 DEF Archive
<1>4. archives' = [archives EXCEPT ![t] = arc]
  BY <1>1
<1> HIDE DEF arc
<1>5. /\ Len(archives') = Len(archives) /\ archives'[t].ended
      /\ \A a \in 1 .. Len(archives) :
           /\ archives'[a].entries = archives[a].entries
           /\ archives'[a].depth = archives[a].depth
           /\ archives[a].ended => archives'[a].ended
  BY <1>2, <1>3, <1>4
<1>6. Grows
  BY <1>1, <1>5 DEF Grows, Valid, EntryIn
<1>7. m > Len(archives[t].entries)
  <2>1. Top = stack[Len(stack)] /\ Len(stack) \in Nat \ {0}
    BY <1>1, AtNext
  <2>2. Len(archives[t].entries) \in Nat
    BY <1>2, ArchiveHas
  <2> QED
    BY <1>1, <1>2, <2>1, <2>2 DEF StackOf, Here
<1>8. \A i \in 1 .. Len(archives'[t].entries) : ~(i >= m)
  <2>1. Len(archives[t].entries) \in Nat /\ m \in Nat
    BY <1>1, <1>2, ArchiveHas, AtNext
  <2> QED
    BY <1>2, <1>5, <1>7, <2>1
<1>9. \A p : ~(Valid(p, archives') /\ ~Valid(p, archives))
  BY <1>5 DEF Valid
<1>10. Finished(t)'
  BY <1>5 DEF Finished
<1> QED
  BY <1>1, <1>5, <1>6, <1>8, <1>9, <1>10, PoppedSeen

-----------------------------------------------------------------------------
(* The theorems.                                                           *)

\* The invariant of a traversal.
LEMMA ArchiveInvariant == Spec => []ArchiveInv
<1>1. ArchiveInv /\ [Next]_vars => ArchiveInv'
  <2> SUFFICES ASSUME ArchiveInv, [Next]_vars PROVE ArchiveInv'
    OBVIOUS
  <2>1. CASE \/ Cancel \/ IsCancelled \/ Visit \/ SpoolFails \/ OpenPlain \/ OpenTooDeep
             \/ PaddingIsTruncated \/ Scan \/ Resume \/ VisitReturns \/ UNCHANGED vars
    BY <2>1, QuietStep
  <2>2. CASE OpenContainer \/ OpenStream \/ OpenRar \/ OpenSevenZip
    BY <2>2, OpenStep
  <2>3. CASE ReadEntry
    BY <2>3, ReadStep
  <2>4. CASE NextListed
    BY <2>4, ListStep
  <2>5. CASE EntriesEnd \/ ListEnds
    BY <2>5, EndStep
  <2> QED
    BY <2>1, <2>2, <2>3, <2>4, <2>5 DEF Next, Open, Extract, Done
<1> QED
  BY InitInv, <1>1, PTL DEF Spec

\* ArchiveLimits: whatever is nested in what, the members that were scanned or extracted
\* and the streams that were decoded stay within the limits, one by one and together,
\* although a 7z counts its entries long before it hands them out, a RAR decodes all of
\* them before one is charged, and a member that is too much stays charged.
THEOREM LimitsAlwaysHold == Spec => []LimitsHold
<1>1. ArchiveInv => LimitsHold
  <2> SUFFICES ASSUME ArchiveInv PROVE LimitsHold
    OBVIOUS
  <2>1. Handed \subseteq Out /\ Handed \subseteq Counted
    BY DEF Handed, Out, Counted
  <2>2. \A place \in Handed : EntryAt(place).size <= limits.memberBytes
    BY <2>1 DEF ArchiveInv, FitInv, EntryAt, EntryIn, SizeIn
  <2>3. archives \in Seq(Archive) /\ limits.entries \in Nat /\ limits.totalBytes \in Nat
    BY ArchiveAssumption DEF ArchiveInv, TypesInv
  <2>4. DOMAIN archives = 1 .. Len(archives)
    BY <2>3
  <2>5. EachFits
    BY <2>2, <2>4 DEF EachFits, ArchiveInv, FitInv
  <2>6. EntriesFit
    <3>1. IsFiniteSet(Handed) /\ Cardinality(Handed) <= Cardinality(Counted)
      BY <2>1, FS_Subset DEF ArchiveInv, CountInv
    <3>2. Cardinality(Handed) \in Nat /\ Cardinality(Counted) \in Nat
      BY <3>1, FS_CardinalityType DEF ArchiveInv, CountInv
    <3> QED
      BY <2>3, <3>1, <3>2 DEF EntriesFit, ArchiveInv, CountInv
  <2>7. BytesOut \subseteq Spent
    <3>1. Handed \subseteq Nat \X Nat
      BY DEF Handed, ArchiveInv, TypesInv
    <3>2. ASSUME NEW place \in Handed, NEW n \in 1 .. EntryAt(place).size
          PROVE  <<place, n>> \in Spent
      BY <2>1, <3>1 DEF Spent, EntryAt, EntryIn, SizeIn
    <3>3. ASSUME NEW a \in 1 .. Len(archives), NEW n \in 1 .. archives[a].decoded
          PROVE  <<<<a, 0>>, n>> \in Spent
      BY DEF Spent
    <3>4. ASSUME NEW place \in Handed, NEW byte \in {place} \X (1 .. EntryAt(place).size)
          PROVE  byte \in Spent
      <4>1. byte = <<place, byte[2]>> /\ byte[2] \in 1 .. EntryAt(place).size
        OBVIOUS
      <4> QED
        BY <3>2, <4>1
    <3>5. ASSUME NEW a \in DOMAIN archives,
                 NEW byte \in {<<a, 0>>} \X (1 .. archives[a].decoded)
          PROVE  byte \in Spent
      <4>1. byte = <<<<a, 0>>, byte[2]>> /\ byte[2] \in 1 .. archives[a].decoded
        OBVIOUS
      <4> QED
        BY <2>4, <3>3, <4>1
    <3> SUFFICES ASSUME NEW byte \in BytesOut PROVE byte \in Spent
      OBVIOUS
    <3>6. \/ \E place \in Handed : byte \in {place} \X (1 .. EntryAt(place).size)
          \/ \E a \in DOMAIN archives : byte \in {<<a, 0>>} \X (1 .. archives[a].decoded)
      BY Zenon DEF BytesOut
    <3> QED
      BY <3>4, <3>5, <3>6
  <2>8. BytesFit
    <3>1. IsFiniteSet(BytesOut) /\ Cardinality(BytesOut) <= Cardinality(Spent)
      BY <2>7, FS_Subset DEF ArchiveInv, SpentInv
    <3>2. Cardinality(BytesOut) \in Nat /\ Cardinality(Spent) \in Nat
      BY <3>1, FS_CardinalityType DEF ArchiveInv, SpentInv
    <3> QED
      BY <2>3, <3>1, <3>2 DEF BytesFit, ArchiveInv, SpentInv
  <2> QED
    BY <2>5, <2>6, <2>8 DEF LimitsHold
<1> QED
  BY ArchiveInvariant, <1>1, PTL

\* While the visit may still end normally, nothing is forgotten.
LEMMA SeenInvariant == Spec => [](NestInv /\ SeenInv)
<1>1. Init => NestInv /\ SeenInv
  <2> SUFFICES ASSUME Init PROVE NestInv /\ SeenInv
    OBVIOUS
  <2>1. NestInv
    BY DEF Init, NestInv
  <2>2. SeenInv
    BY DEF Init, SeenInv, RootSeen
  <2> QED
    BY <2>1, <2>2
<1>2. ArchiveInv /\ NestInv /\ SeenInv /\ [Next]_vars => NestInv' /\ SeenInv'
  <2> SUFFICES ASSUME ArchiveInv, NestInv, SeenInv, [Next]_vars PROVE NestInv' /\ SeenInv'
    OBVIOUS
  <2>1. CASE \/ Cancel \/ IsCancelled \/ Visit \/ SpoolFails \/ OpenPlain \/ OpenTooDeep
             \/ Scan \/ Resume \/ VisitReturns \/ UNCHANGED vars
    BY <2>1, QuietSeen
  <2>2. CASE OpenContainer \/ OpenStream \/ OpenRar \/ OpenSevenZip
    BY <2>2, OpenSeen
  <2>3. CASE ReadEntry
    BY <2>3, ReadSeen
  <2>4. CASE NextListed \/ PaddingIsTruncated
    BY <2>4, ListSeen
  <2>5. CASE EntriesEnd \/ ListEnds
    BY <2>5, EndSeen
  <2> QED
    BY <2>1, <2>2, <2>3, <2>4, <2>5 DEF Next, Open, Extract, Done
<1> QED
  BY ArchiveInvariant, <1>1, <1>2, PTL DEF Spec

\* ArchiveSource::visit: a visit that ends normally has scanned or extracted every file in
\* every archive that it opened, at any depth, or the user has asked for its omission, or was
\* told of it: no member is lost between the levels.
THEOREM NothingIsHidden == Spec => []NothingHidden
<1>1. ArchiveInv /\ NestInv /\ SeenInv => NothingHidden
  <2> SUFFICES ASSUME ArchiveInv, NestInv, SeenInv, doing = "done", control = "Continue"
               PROVE  /\ Root \in scanned \cup extracted \cup skipped \/ limits.depth = 0
                      /\ \A a \in DOMAIN archives :
                           Finished(a) /\ \A i \in DOMAIN archives[a].entries : Accounted(<<a, i>>)
    BY DEF NothingHidden
  <2>1. archives \in Seq(Archive)
    BY DEF ArchiveInv, TypesInv
  <2>2. DOMAIN archives = 1 .. Len(archives)
    BY <2>1
  <2>3. \A a \in 1 .. Len(archives) : DOMAIN archives[a].entries = 1 .. Len(archives[a].entries)
    BY <2>1, ArchiveHas
  <2>4. \A place : ~InHand(place)
    BY DEF InHand
  <2>5. (\A a : ~OnStack(a)) /\ (\A a, i : ~Waits(a, i))
    BY DEF NestInv, OnStack, Waits
  <2> QED
    BY <2>2, <2>3, <2>4, <2>5 DEF SeenInv, RootSeen, ArchiveSeen, EntrySeen
<1> QED
  BY ArchiveInvariant, SeenInvariant, <1>1, PTL

\* ArchiveSource::visit: once the callback said Stop or failed, or the token was seen, no
\* level of the recursion emits, charges or opens anything more, the answer is passed on
\* as it is, and Cancelled is never returned unless the caller's token was raised.
THEOREM AnswerIsFinal == Spec => StopIsFinal
<1>1. ArchiveInv /\ [Next]_vars =>
        [/\ control # "Continue" =>
              control' = control /\ UNCHANGED <<contentVars, chargeVars, eventVars>>
         /\ control' = "Cancelled" => token]_vars
  <2> SUFFICES ASSUME ArchiveInv, Next
               PROVE  /\ control # "Continue" =>
                           control' = control /\ UNCHANGED <<contentVars, chargeVars, eventVars>>
                      /\ control' = "Cancelled" => token
    OBVIOUS
  <2>1. /\ control # "Continue" => doing \in {"return", "done"}
        /\ control = "Cancelled" => token
    BY DEF ArchiveInv, ControlInv
  <2>2. CASE doing \notin {"return", "done"}
    <3>1. control = "Continue"
      BY <2>1, <2>2
    <3>2. control' = "Cancelled" => token
      <4>1. ReadEntry => control' # "Cancelled"
        <5> SUFFICES ASSUME ReadEntry PROVE control' # "Cancelled"
          OBVIOUS
        <5> QED
          BY <3>1 DEF ReadEntry, GiveUp, Abandon, Report, Return, ZipEntry, TarEntry, PassOver,
             Member, Skip, Do
      <4>2. NextListed => control' # "Cancelled"
        BY <3>1 DEF NextListed, GiveUp, Abandon, Report, Return, PassOver, Member, Skip, Do
      <4>3. OpenContainer \/ OpenStream \/ OpenRar \/ OpenSevenZip => control' # "Cancelled"
        BY <3>1 DEF OpenContainer, OpenStream, OpenRar, OpenSevenZip, Publish, Do, Abandon, Report,
           Return
      <4> QED
        BY <2>2, <3>1, <4>1, <4>2, <4>3 DEF Next, Open, Extract, Cancel, IsCancelled, Visit,
           SpoolFails, OpenPlain, OpenTooDeep, PaddingIsTruncated, GiveUp, EntriesEnd, ListEnds,
           Scan, Resume, VisitReturns, Done, vars, Do, Return, Report, Skip, Abandon
    <3> QED
      BY <3>1, <3>2
  <2>3. CASE doing \in {"return", "done"}
    <3>1. Cancel \/ Resume \/ VisitReturns \/ Done
      BY <2>3 DEF Next, Open, Extract, IsCancelled, Polls, Visit, SpoolFails, OpenPlain,
         OpenTooDeep, OpenContainer, OpenStream, OpenRar, OpenSevenZip, Opens, ReadEntry,
         PaddingIsTruncated, EntriesEnd, NextListed, ListEnds, Scan
    <3> QED
      BY <2>1, <3>1 DEF Cancel, Resume, VisitReturns, Done, vars, Do
  <2> QED
    BY <2>2, <2>3
<1> QED
  BY ArchiveInvariant, <1>1, PTL DEF Spec, StopIsFinal

=============================================================================
