---------------------------- MODULE DecodedText_proofs ----------------------------
(***************************************************************************)
(* What the decoder makes of a text and what the passes of a scan find in  *)
(* it, for every text and every decoding: lemmas about the operators of    *)
(* DecodedText and the passes of FragmentScan.                             *)
(*                                                                         *)
(* The segments of a text are in order and apart (Spaced), each byte of a  *)
(* decoded text comes from known bytes of the fragment (Traced), and a     *)
(* range of it, taken back through all texts before it, arrives at those   *)
(* bytes and takes in only encoded ones besides (LocatingAt): by induction *)
(* over the texts, every finding of every pass is located (LocatedPass).   *)
(***************************************************************************)
EXTENDS FragmentScan, FiniteSetTheorems, SequenceTheorems, WellFoundedInduction, TLAPS

-----------------------------------------------------------------------------
(* Sequences that are put together.                                        *)

\* Induction over a set of numbers, which needs no operator to be given.
LEMMA SetInduction ==
  ASSUME NEW S, 0 \in S, \A n \in Nat : n \in S => n + 1 \in S
  PROVE  Nat \subseteq S
<1> DEFINE R == OpToRel(<, Nat)
<1>1. IsWellFoundedOn(R, Nat)
  BY NatLessThanWellFounded, Zenon
<1>2. \A x, y \in Nat : x < y => <<x, y>> \in R
  BY DEF OpToRel
<1> HIDE DEF R
<1> SUFFICES ASSUME Nat \ S # {} PROVE FALSE
  OBVIOUS
<1>3. PICK n \in Nat \ S : \A m \in Nat \ S : ~(<<m, n>> \in R)
  BY WFMin, <1>1, Zenon
<1>4. n - 1 \in Nat /\ n - 1 < n
  OBVIOUS
<1>5. n - 1 \in S
  BY <1>2, <1>3, <1>4
<1> QED
  BY <1>3, <1>4, <1>5

LEMMA SumsCompare ==
  ASSUME NEW a \in Nat, NEW b \in Nat, NEW c \in Nat, NEW d \in Nat, a <= c, b <= d
  PROVE  a + b <= c + d
  OBVIOUS

LEMMA FunctionIsSeq ==
  ASSUME NEW T, NEW n \in Nat, NEW s \in [1 .. n -> T]
  PROVE  s \in Seq(T) /\ Len(s) = n
  OBVIOUS

\* f puts the parts together one after another.
Steps(f, parts, n) ==
  /\ f[0] = <<>>
  /\ \A i \in 1 .. n : f[i] = f[i - 1] \o parts[i]

\* Concat goes through such steps.
LEMMA ConcatSteps ==
  ASSUME NEW n \in Nat, NEW parts, DOMAIN parts = 1 .. n
  PROVE  \E f : Steps(f, parts, n) /\ Concat(parts) = f[n]
<1> DEFINE Is(f, m) == f = [i \in 0 .. m |-> IF i = 0 THEN <<>> ELSE f[i - 1] \o parts[i]]
           S == {m \in Nat : \E f : Is(f, m)}
<1>1. 0 \in S
  <2> DEFINE f == [i \in 0 .. 0 |-> <<>>]
  <2>1. Is(f, 0)
    OBVIOUS
  <2> QED
    BY <2>1
<1>2. ASSUME NEW m \in Nat, m \in S PROVE m + 1 \in S
  <2>1. PICK f : Is(f, m)
    BY <1>2
  <2> DEFINE g == [i \in 0 .. m + 1 |-> IF i \in 0 .. m THEN f[i] ELSE f[m] \o parts[m + 1]]
  <2>2. \A i \in 0 .. m : f[i] = IF i = 0 THEN <<>> ELSE f[i - 1] \o parts[i]
    BY <2>1
  <2>3. ASSUME NEW i \in 0 .. m + 1
        PROVE  g[i] = IF i = 0 THEN <<>> ELSE g[i - 1] \o parts[i]
    <3>1. CASE i = 0
      BY <3>1, <2>2
    <3>2. CASE i \in 1 .. m
      <4>1. i - 1 \in 0 .. m /\ i \in 0 .. m /\ i # 0
        BY <3>2
      <4>2. g[i] = f[i] /\ g[i - 1] = f[i - 1]
        BY <4>1
      <4> HIDE DEF g
      <4> QED
        BY <4>1, <4>2, <2>2
    <3>3. CASE i = m + 1
      <4>1. i - 1 = m /\ i \notin 0 .. m /\ m \in 0 .. m /\ m \in 0 .. m + 1 /\ i # 0
        BY <3>3
      <4> QED
        BY <4>1, <3>3
    <3> QED
      BY <3>1, <3>2, <3>3
  <2> HIDE DEF g
  <2>4. g = [i \in 0 .. m + 1 |-> g[i]]
    BY DEF g
  <2>5. Is(g, m + 1)
    BY <2>3, <2>4
  <2> QED
    BY <2>5, SMTT(30)
<1>3. n \in S
  <2> HIDE DEF S
  <2> QED
    BY <1>1, <1>2, SetInduction
<1>4. {0} \cup DOMAIN parts = 0 .. n
  OBVIOUS
<1>5. Cardinality(DOMAIN parts) = n
  BY FS_Interval
<1> DEFINE choice == CHOOSE f : Is(f, n)
<1>6. Is(choice, n)
  BY <1>3
<1>7. Concat(parts) = choice[n]
  BY <1>4, <1>5 DEF Concat
<1> HIDE DEF choice
<1>8. PICK f : Is(f, n) /\ Concat(parts) = f[n]
  BY <1>6, <1>7
<1>9. \A i \in 0 .. n : f[i] = IF i = 0 THEN <<>> ELSE f[i - 1] \o parts[i]
  BY <1>8
<1> HIDE DEF Is, S
<1>10. Steps(f, parts, n)
  <2>1. 0 \in 0 .. n /\ \A i \in 1 .. n : i \in 0 .. n /\ i # 0
    OBVIOUS
  <2> QED
    BY <1>9, <2>1, Zenon DEF Steps
<1> QED
  BY <1>8, <1>10

\* Two ways of taking the steps go together.
LEMMA ConcatUnique ==
  ASSUME NEW n \in Nat, NEW parts, DOMAIN parts = 1 .. n, NEW g, Steps(g, parts, n)
  PROVE  Concat(parts) = g[n]
<1>1. PICK f : Steps(f, parts, n) /\ Concat(parts) = f[n]
  BY ConcatSteps
<1> DEFINE S == {m \in Nat : m <= n => f[m] = g[m]}
<1>2. 0 \in S
  BY <1>1 DEF Steps
<1>3. ASSUME NEW m \in Nat, m \in S PROVE m + 1 \in S
  <2>1. SUFFICES ASSUME m + 1 <= n PROVE f[m + 1] = g[m + 1]
    OBVIOUS
  <2>2. m + 1 \in 1 .. n /\ (m + 1) - 1 = m /\ f[m] = g[m]
    BY <1>3, <2>1
  <2>3. f[m + 1] = f[m] \o parts[m + 1] /\ g[m + 1] = g[m] \o parts[m + 1]
    BY <1>1, <2>2, Zenon DEF Steps
  <2> QED
    BY <2>2, <2>3
<1>4. n \in S
  <2> HIDE DEF S
  <2> QED
    BY <1>2, <1>3, SetInduction
<1> QED
  BY <1>1, <1>4

\* Sequences put together are a sequence.
LEMMA ConcatType ==
  ASSUME NEW T, NEW n \in Nat, NEW parts, DOMAIN parts = 1 .. n,
         \A i \in 1 .. n : parts[i] \in Seq(T)
  PROVE  Concat(parts) \in Seq(T)
<1>1. PICK f : Steps(f, parts, n) /\ Concat(parts) = f[n]
  BY ConcatSteps
<1> DEFINE S == {m \in Nat : m <= n => f[m] \in Seq(T)}
<1>2. 0 \in S
  <2>1. f[0] = <<>>
    BY <1>1, Zenon DEF Steps
  <2> QED
    BY <2>1, EmptySeq
<1>3. ASSUME NEW m \in Nat, m \in S PROVE m + 1 \in S
  <2>1. SUFFICES ASSUME m + 1 <= n PROVE f[m + 1] \in Seq(T)
    OBVIOUS
  <2>2. m + 1 \in 1 .. n /\ (m + 1) - 1 = m /\ f[m] \in Seq(T)
    BY <1>3, <2>1
  <2>3. f[m + 1] = f[m] \o parts[m + 1]
    BY <1>1, <2>2, Zenon DEF Steps
  <2>4. f[m] \o parts[m + 1] \in Seq(T)
    BY <2>2
  <2> QED
    BY <2>3, <2>4
<1>4. n \in S
  <2> HIDE DEF S
  <2> QED
    BY <1>2, <1>3, SetInduction
<1> QED
  BY <1>1, <1>4

\* What no part is longer in than in the other is no longer when it is put together.
LEMMA ConcatLonger ==
  ASSUME NEW T, NEW U, NEW n \in Nat,
         NEW parts, DOMAIN parts = 1 .. n, \A i \in 1 .. n : parts[i] \in Seq(T),
         NEW others, DOMAIN others = 1 .. n, \A i \in 1 .. n : others[i] \in Seq(U),
         \A i \in 1 .. n : Len(parts[i]) <= Len(others[i])
  PROVE  Len(Concat(parts)) <= Len(Concat(others))
<1>1. PICK f : Steps(f, parts, n) /\ Concat(parts) = f[n]
  BY ConcatSteps
<1>2. PICK g : Steps(g, others, n) /\ Concat(others) = g[n]
  BY ConcatSteps
<1> DEFINE S == {m \in Nat : m <= n => /\ f[m] \in Seq(T)
                                       /\ g[m] \in Seq(U)
                                       /\ Len(f[m]) <= Len(g[m])}
<1>3. 0 \in S
  <2>1. f[0] = <<>> /\ g[0] = <<>>
    BY <1>1, <1>2, Zenon DEF Steps
  <2>2. <<>> \in Seq(T) /\ <<>> \in Seq(U) /\ Len(<<>>) <= Len(<<>>)
    OBVIOUS
  <2>3. f[0] \in Seq(T) /\ g[0] \in Seq(U) /\ Len(f[0]) <= Len(g[0])
    BY <2>1, <2>2
  <2> QED
    BY <2>3
<1>4. ASSUME NEW m \in Nat, m \in S PROVE m + 1 \in S
  <2>1. SUFFICES ASSUME m + 1 <= n
                 PROVE  /\ f[m + 1] \in Seq(T)
                        /\ g[m + 1] \in Seq(U)
                        /\ Len(f[m + 1]) <= Len(g[m + 1])
    OBVIOUS
  <2>2. /\ m + 1 \in 1 .. n /\ (m + 1) - 1 = m
        /\ f[m] \in Seq(T) /\ g[m] \in Seq(U) /\ Len(f[m]) <= Len(g[m])
    BY <1>4, <2>1
  <2>3. f[m + 1] = f[m] \o parts[m + 1] /\ g[m + 1] = g[m] \o others[m + 1]
    BY <1>1, <1>2, <2>2, Zenon DEF Steps
  <2>4. /\ parts[m + 1] \in Seq(T) /\ others[m + 1] \in Seq(U)
        /\ Len(parts[m + 1]) <= Len(others[m + 1])
    BY <2>2
  <2>5. /\ f[m] \o parts[m + 1] \in Seq(T) /\ g[m] \o others[m + 1] \in Seq(U)
        /\ Len(f[m] \o parts[m + 1]) = Len(f[m]) + Len(parts[m + 1])
        /\ Len(g[m] \o others[m + 1]) = Len(g[m]) + Len(others[m + 1])
    BY <2>2, <2>4
  <2>6. /\ Len(f[m]) \in Nat /\ Len(parts[m + 1]) \in Nat
        /\ Len(g[m]) \in Nat /\ Len(others[m + 1]) \in Nat
    BY <2>2, <2>4
  <2> HIDE DEF S
  <2>7. Len(f[m]) + Len(parts[m + 1]) <= Len(g[m]) + Len(others[m + 1])
    BY <2>2, <2>4, <2>6, SumsCompare
  <2> QED
    BY <2>3, <2>5, <2>7
<1>5. n \in S
  <2> HIDE DEF S
  <2> QED
    BY <1>3, <1>4, SetInduction
<1> QED
  BY <1>1, <1>2, <1>5

\* Parts of one element each.
LEMMA ConcatOfSingles ==
  ASSUME NEW n \in Nat, NEW s, DOMAIN s = 1 .. n, s = [i \in 1 .. n |-> s[i]],
         NEW parts, DOMAIN parts = 1 .. n, \A i \in 1 .. n : parts[i] = <<s[i]>>
  PROVE  Concat(parts) = s
<1> DEFINE g == [m \in 0 .. n |-> [i \in 1 .. m |-> s[i]]]
           T == {s[i] : i \in 1 .. n}
<1>0. g[n] = s
  <2>1. n \in 0 .. n
    OBVIOUS
  <2>2. g[n] = [i \in 1 .. n |-> s[i]]
    BY <2>1
  <2> QED
    BY <2>2
<1>1. g[0] = <<>>
  OBVIOUS
<1>2. ASSUME NEW m \in 1 .. n PROVE g[m] = g[m - 1] \o parts[m]
  <2>1. g[m] = [i \in 1 .. m |-> s[i]] /\ g[m - 1] = [i \in 1 .. m - 1 |-> s[i]]
    OBVIOUS
  <2>a. g[m] \in [1 .. m -> T] /\ g[m - 1] \in [1 .. m - 1 -> T] /\ s[m] \in T
    BY <2>1
  <2>b. m \in Nat /\ m - 1 \in Nat
    OBVIOUS
  <2> HIDE DEF g, T
  <2>2. g[m] \in Seq(T) /\ g[m - 1] \in Seq(T) /\ <<s[m]>> \in Seq(T)
    BY <2>a, <2>b, FunctionIsSeq
  <2>3. Len(g[m]) = m /\ Len(g[m - 1]) = m - 1
    BY <2>a, <2>b, FunctionIsSeq
  <2> DEFINE old == g[m - 1]
  <2>4. /\ Append(old, s[m]) \in Seq(T)
        /\ Len(Append(old, s[m])) = Len(old) + 1
        /\ \A i \in 1 .. Len(old) : Append(old, s[m])[i] = old[i]
        /\ Append(old, s[m])[Len(old) + 1] = s[m]
    BY <2>2, <2>a, AppendProperties
  <2>c. Len(old) = m - 1 /\ old \in Seq(T)
    BY <2>2, <2>3
  <2>5. \A i \in 1 .. m : g[m][i] = s[i]
    BY <2>1
  <2>6. \A i \in 1 .. m - 1 : old[i] = s[i]
    BY <2>1
  <2>7. \A i \in 1 .. m : Append(old, s[m])[i] = s[i]
    <3>1. TAKE i \in 1 .. m
    <3>2. CASE i = m
      BY <2>c, <2>4, <3>2
    <3>3. CASE i # m
      <4>1. i \in 1 .. m - 1
        BY <3>3
      <4> HIDE DEF old
      <4> QED
        BY <2>c, <2>4, <2>6, <4>1
    <3> QED
      BY <3>2, <3>3
  <2>8. Len(Append(old, s[m])) = Len(g[m])
    BY <2>3, <2>4
  <2>d. \A i \in 1 .. Len(g[m]) : g[m][i] = Append(old, s[m])[i]
    BY <2>3, <2>5, <2>7
  <2> HIDE DEF old
  <2>9. g[m] = Append(old, s[m])
    BY <2>2, <2>4, <2>8, <2>d, SeqEqual
  <2> USE DEF old
  <2>10. Append(old, s[m]) = old \o <<s[m]>>
    BY <2>2, <2>a, AppendIsConcat
  <2>11. parts[m] = <<s[m]>>
    OBVIOUS
  <2> QED
    BY <2>9, <2>10, <2>11
<1>3. Steps(g, parts, n)
  BY <1>1, <1>2 DEF Steps
<1> HIDE DEF g
<1> QED
  BY <1>0, <1>3, ConcatUnique

\* What is made of each element, put together.
Image(g, s) == Concat([i \in 1 .. Len(s) |-> g[s[i]]])

\* g makes a sequence over T of each element of S.
Makes(g, S, T) == g \in [S -> Seq(T)]

\* What is made of a sequence, of nothing, of two sequences that are joined, of one
\* element and of many sequences.
LEMMA ImageType ==
  ASSUME NEW S, NEW T, NEW g, Makes(g, S, T), NEW s \in Seq(S)
  PROVE  Image(g, s) \in Seq(T)
<1> DEFINE parts == [i \in 1 .. Len(s) |-> g[s[i]]]
<1>1. DOMAIN parts = 1 .. Len(s) /\ Len(s) \in Nat
  OBVIOUS
<1>2. \A i \in 1 .. Len(s) : parts[i] \in Seq(T)
  BY DEF Makes
<1> HIDE DEF parts
<1>3. Concat(parts) \in Seq(T)
  BY <1>1, <1>2, ConcatType
<1> QED
  BY <1>3 DEF Image, parts

LEMMA ImageEmpty ==
  ASSUME NEW g
  PROVE  Image(g, <<>>) = <<>>
<1> DEFINE parts == [i \in 1 .. 0 |-> g[<<>>[i]]]
           f == [i \in 0 .. 0 |-> <<>>]
<1>1. DOMAIN parts = 1 .. 0 /\ 0 \in Nat
  OBVIOUS
<1>2. Steps(f, parts, 0) /\ f[0] = <<>>
  BY DEF Steps
<1>3. Len(<<>>) = 0
  OBVIOUS
<1>4. Image(g, <<>>) = Concat(parts)
  BY <1>3 DEF Image
<1> HIDE DEF parts, f
<1> QED
  BY <1>1, <1>2, <1>4, ConcatUnique

LEMMA ImageJoins ==
  ASSUME NEW S, NEW T, NEW g, Makes(g, S, T), NEW s \in Seq(S), NEW t \in Seq(S)
  PROVE  Image(g, s \o t) = Image(g, s) \o Image(g, t)
<1> DEFINE n == Len(s)
           k == Len(t)
           parts == [i \in 1 .. Len(s \o t) |-> g[(s \o t)[i]]]
           first == [i \in 1 .. n |-> g[s[i]]]
           second == [i \in 1 .. k |-> g[t[i]]]
<1>1. n \in Nat /\ k \in Nat /\ s \o t \in Seq(S) /\ Len(s \o t) = n + k
  OBVIOUS
<1>2. DOMAIN parts = 1 .. n + k /\ DOMAIN first = 1 .. n /\ DOMAIN second = 1 .. k
  BY <1>1
<1>3. \A i \in 1 .. n : parts[i] = first[i] /\ first[i] \in Seq(T)
  <2>1. TAKE i \in 1 .. n
  <2>2. i \in 1 .. n + k /\ (s \o t)[i] = s[i] /\ s[i] \in S
    BY <1>1
  <2> QED
    BY <1>1, <2>2 DEF Makes
<1>4. \A i \in 1 .. k : parts[n + i] = second[i] /\ second[i] \in Seq(T)
  <2>1. TAKE i \in 1 .. k
  <2>2. n + i \in 1 .. n + k /\ (s \o t)[n + i] = t[i] /\ t[i] \in S
    BY <1>1
  <2> QED
    BY <1>1, <2>2 DEF Makes
<1>5. Image(g, s \o t) = Concat(parts) /\ Image(g, s) = Concat(first)
      /\ Image(g, t) = Concat(second)
  BY DEF Image
<1> HIDE DEF n, k, parts, first, second
<1>6. n + k \in Nat
  BY <1>1
<1>7. PICK f : Steps(f, parts, n + k) /\ Concat(parts) = f[n + k]
  BY <1>2, <1>6, ConcatSteps
<1>8. Steps(f, first, n)
  <2>1. \A i \in 1 .. n : i \in 1 .. n + k
    BY <1>1
  <2> QED
    BY <1>3, <1>7, <2>1, Zenon DEF Steps
<1>9. Concat(first) = f[n] /\ f[n] \in Seq(T)
  <2>1. Concat(first) = f[n]
    BY <1>1, <1>2, <1>8, ConcatUnique
  <2>2. Concat(first) \in Seq(T)
    BY <1>1, <1>2, <1>3, ConcatType
  <2> QED
    BY <2>1, <2>2
<1>10. PICK h : Steps(h, second, k) /\ Concat(second) = h[k]
  BY <1>1, <1>2, ConcatSteps
<1> DEFINE Good(m) == h[m] \in Seq(T) /\ f[n + m] = f[n] \o h[m]
           P == {m \in Nat : m <= k => Good(m)}
<1>11. 0 \in P
  <2>1. h[0] = <<>> /\ n + 0 = n
    BY <1>1, <1>10 DEF Steps
  <2>2. <<>> \in Seq(T) /\ f[n] \o <<>> = f[n]
    BY <1>9, ConcatEmptySeq
  <2> QED
    BY <2>1, <2>2
<1>12. ASSUME NEW m \in Nat, m \in P PROVE m + 1 \in P
  <2> HIDE DEF Good
  <2>1. SUFFICES ASSUME m + 1 <= k PROVE Good(m + 1)
    OBVIOUS
  <2>a. Good(m)
    BY <1>1, <1>12, <2>1
  <2> HIDE DEF P
  <2>2. h[m] \in Seq(T) /\ f[n + m] = f[n] \o h[m]
    BY <2>a DEF Good
  <2>3. /\ m + 1 \in 1 .. k /\ (m + 1) - 1 = m
        /\ n + (m + 1) \in 1 .. n + k /\ (n + (m + 1)) - 1 = n + m
    BY <1>1, <2>1
  <2>4. /\ h[m + 1] = h[m] \o second[m + 1]
        /\ f[n + (m + 1)] = f[n + m] \o parts[n + (m + 1)]
    BY <1>7, <1>10, <2>3, Zenon DEF Steps
  <2>5. parts[n + (m + 1)] = second[m + 1] /\ second[m + 1] \in Seq(T)
    BY <1>4, <2>3
  <2>6. (f[n] \o h[m]) \o second[m + 1] = f[n] \o (h[m] \o second[m + 1])
    <3>1. \A a, b, c \in Seq(T) : (a \o b) \o c = a \o (b \o c)
      BY ConcatAssociative, SMTT(30)
    <3> QED
      BY <1>9, <2>2, <2>5, <3>1, Zenon
  <2>7. h[m] \o second[m + 1] \in Seq(T)
    BY <2>2, <2>5, ConcatProperties
  <2> QED
    BY <2>2, <2>4, <2>5, <2>6, <2>7, Zenon DEF Good
<1>13. k \in P
  <2> HIDE DEF P
  <2> QED
    BY <1>1, <1>11, <1>12, SetInduction
<1>14. f[n + k] = f[n] \o h[k]
  <2> HIDE DEF Good
  <2>1. Good(k)
    BY <1>1, <1>13
  <2> QED
    BY <2>1 DEF Good
<1> QED
  BY <1>5, <1>7, <1>9, <1>10, <1>14

LEMMA ImageOne ==
  ASSUME NEW S, NEW T, NEW g, Makes(g, S, T), NEW x \in S
  PROVE  Image(g, <<x>>) = g[x]
<1> DEFINE parts == [i \in 1 .. 1 |-> g[<<x>>[i]]]
           f == [i \in 0 .. 1 |-> IF i = 0 THEN <<>> ELSE g[x]]
<1>1. Len(<<x>>) = 1 /\ <<x>>[1] = x
  OBVIOUS
<1>2. Image(g, <<x>>) = Concat(parts)
  BY <1>1 DEF Image
<1>3. parts[1] = g[x] /\ DOMAIN parts = 1 .. 1 /\ 1 \in Nat
  BY <1>1
<1>4. f[0] = <<>> /\ f[1] = g[x]
  OBVIOUS
<1>5. <<>> \o g[x] = g[x]
  BY ConcatEmptySeq DEF Makes
<1> HIDE DEF parts, f
<1>6. \A i \in 1 .. 1 : i = 1 /\ i - 1 = 0
  OBVIOUS
<1>7. Steps(f, parts, 1)
  BY <1>3, <1>4, <1>5, <1>6, Zenon DEF Steps
<1> QED
  BY <1>2, <1>3, <1>4, <1>7, ConcatUnique

LEMMA ImageOfConcat ==
  ASSUME NEW S, NEW T, NEW g, Makes(g, S, T),
         NEW n \in Nat, NEW parts, DOMAIN parts = 1 .. n,
         \A i \in 1 .. n : parts[i] \in Seq(S)
  PROVE  Image(g, Concat(parts)) = Concat([i \in 1 .. n |-> Image(g, parts[i])])
<1> DEFINE images == [i \in 1 .. n |-> Image(g, parts[i])]
<1>1. DOMAIN images = 1 .. n /\ \A i \in 1 .. n : images[i] = Image(g, parts[i])
  OBVIOUS
<1> HIDE DEF images
<1>2. PICK f : Steps(f, parts, n) /\ Concat(parts) = f[n]
  BY ConcatSteps
<1>3. PICK h : Steps(h, images, n) /\ Concat(images) = h[n]
  BY <1>1, ConcatSteps
<1> DEFINE P == {m \in Nat : m <= n => f[m] \in Seq(S) /\ h[m] = Image(g, f[m])}
<1>4. 0 \in P
  <2>1. f[0] = <<>> /\ h[0] = <<>>
    BY <1>2, <1>3, Zenon DEF Steps
  <2> QED
    BY <2>1, EmptySeq, ImageEmpty
<1>5. ASSUME NEW m \in Nat, m \in P PROVE m + 1 \in P
  <2>1. SUFFICES ASSUME m + 1 <= n PROVE f[m + 1] \in Seq(S) /\ h[m + 1] = Image(g, f[m + 1])
    OBVIOUS
  <2>2. f[m] \in Seq(S) /\ h[m] = Image(g, f[m])
    BY <1>5, <2>1
  <2> HIDE DEF P
  <2>3. m + 1 \in 1 .. n /\ (m + 1) - 1 = m
    BY <2>1
  <2>4. f[m + 1] = f[m] \o parts[m + 1] /\ h[m + 1] = h[m] \o Image(g, parts[m + 1])
    BY <1>1, <1>2, <1>3, <2>3, Zenon DEF Steps
  <2>5. parts[m + 1] \in Seq(S)
    BY <2>3
  <2>6. f[m] \o parts[m + 1] \in Seq(S)
    BY <2>2, <2>5, ConcatProperties
  <2>7. Image(g, f[m] \o parts[m + 1]) = Image(g, f[m]) \o Image(g, parts[m + 1])
    <3>1. ASSUME NEW a \in Seq(S), NEW b \in Seq(S)
          PROVE  Image(g, a \o b) = Image(g, a) \o Image(g, b)
      BY ImageJoins
    <3> QED
      BY <2>2, <2>5, <3>1, Zenon
  <2> QED
    BY <2>2, <2>4, <2>6, <2>7, Zenon
<1>6. n \in P
  <2> HIDE DEF P
  <2> QED
    BY <1>4, <1>5, SetInduction
<1> QED
  BY <1>2, <1>3, <1>6 DEF images

\* What makes more of each element makes more of all of them.
LEMMA ImageLonger ==
  ASSUME NEW S, NEW T, NEW U, NEW g, NEW h, Makes(g, S, T), Makes(h, S, U),
         \A x \in S : Len(g[x]) <= Len(h[x]),
         NEW s \in Seq(S)
  PROVE  Len(Image(g, s)) <= Len(Image(h, s))
<1> DEFINE n == Len(s)
           first == [i \in 1 .. n |-> g[s[i]]]
           second == [i \in 1 .. n |-> h[s[i]]]
<1>1. n \in Nat /\ DOMAIN first = 1 .. n /\ DOMAIN second = 1 .. n
  OBVIOUS
<1>2. \A i \in 1 .. n : s[i] \in S
  OBVIOUS
<1>3. \A i \in 1 .. n : first[i] \in Seq(T) /\ second[i] \in Seq(U)
  BY <1>2 DEF Makes
<1>4. \A i \in 1 .. n : Len(first[i]) <= Len(second[i])
  BY <1>2
<1> HIDE DEF n, first, second
<1>5. Len(Concat(first)) <= Len(Concat(second))
  BY <1>1, <1>3, <1>4, ConcatLonger
<1> QED
  BY <1>5 DEF Image, first, second, n

LEMMA JoinedAt ==
  ASSUME NEW S, NEW a \in Seq(S), NEW b \in Seq(S), NEW i \in 1 .. Len(a) + Len(b)
  PROVE  (a \o b)[i] = IF i <= Len(a) THEN a[i] ELSE b[i - Len(a)]
BY ConcatProperties

\* Where the cut of r \o t goes beyond the one of p \o q.
Beyond(p, q, r, t, S) == \E x \in Seq(S) : r = p \o x /\ q = x \o t

\* Of two cuts of one sequence the later one goes beyond the earlier.
LEMMA ShorterCut ==
  ASSUME NEW S, NEW p \in Seq(S), NEW q \in Seq(S), NEW r \in Seq(S), NEW t \in Seq(S),
         p \o q = r \o t, Len(p) <= Len(r)
  PROVE  Beyond(p, q, r, t, S)
<1> DEFINE x == SubSeq(r, Len(p) + 1, Len(r))
<1>1. /\ Len(p) \in Nat /\ Len(r) \in Nat /\ Len(q) \in Nat /\ Len(t) \in Nat
      /\ Len(p) + Len(q) = Len(r) + Len(t)
  <2>1. Len(p \o q) = Len(p) + Len(q) /\ Len(r \o t) = Len(r) + Len(t)
    OBVIOUS
  <2> QED
    BY <2>1
<1>2. x \in Seq(S) /\ Len(x) = Len(r) - Len(p)
  BY <1>1
<1>3. \A i \in 1 .. Len(r) - Len(p) : x[i] = r[Len(p) + i]
  BY <1>1
<1> HIDE DEF x
<1>4. ASSUME NEW i \in 1 .. Len(p) PROVE p[i] = r[i]
  <2>1. (p \o q)[i] = p[i] /\ (r \o t)[i] = r[i]
    BY <1>1
  <2> QED
    BY <2>1
<1>5. r = p \o x
  <2>1. Len(p \o x) = Len(r) /\ p \o x \in Seq(S)
    BY <1>1, <1>2
  <2>2. ASSUME NEW i \in 1 .. Len(r) PROVE r[i] = (p \o x)[i]
    <3>0. i \in 1 .. Len(p) + Len(x)
      BY <1>1, <1>2
    <3>1. (p \o x)[i] = IF i <= Len(p) THEN p[i] ELSE x[i - Len(p)]
      BY <1>2, <3>0, JoinedAt
    <3>2. CASE i <= Len(p)
      <4>1. i \in 1 .. Len(p)
        BY <1>1, <3>2
      <4> QED
        BY <1>4, <3>1, <3>2, <4>1
    <3>3. CASE ~(i <= Len(p))
      <4>1. i - Len(p) \in 1 .. Len(r) - Len(p) /\ Len(p) + (i - Len(p)) = i
        BY <1>1, <3>3
      <4>2. x[i - Len(p)] = r[i]
        BY <1>3, <4>1
      <4> QED
        BY <3>1, <3>3, <4>2
    <3> QED
      BY <3>2, <3>3
  <2> QED
    BY <2>1, <2>2, SeqEqual
<1>6. q = x \o t
  <2>1. Len(x \o t) = Len(q) /\ x \o t \in Seq(S)
    BY <1>1, <1>2
  <2>2. ASSUME NEW i \in 1 .. Len(q) PROVE q[i] = (x \o t)[i]
    <3> DEFINE j == Len(p) + i
    <3>0. /\ j \in 1 .. Len(p) + Len(q) /\ j \in 1 .. Len(r) + Len(t)
          /\ i \in 1 .. Len(x) + Len(t) /\ ~(j <= Len(p)) /\ j - Len(p) = i
      BY <1>1, <1>2
    <3>a. j <= Len(r) <=> i <= Len(x)
      BY <1>1, <1>2
    <3>b. j - Len(r) = i - Len(x)
      BY <1>1, <1>2
    <3> HIDE DEF j
    <3>1. (p \o q)[j] = q[i]
      BY <3>0, JoinedAt
    <3>2. (r \o t)[j] = IF j <= Len(r) THEN r[j] ELSE t[j - Len(r)]
      BY <3>0, JoinedAt
    <3>3. (x \o t)[i] = IF i <= Len(x) THEN x[i] ELSE t[i - Len(x)]
      BY <1>2, <3>0, JoinedAt
    <3>4. i <= Len(x) => x[i] = r[j]
      <4>1. i <= Len(x) => i \in 1 .. Len(r) - Len(p)
        BY <1>1, <1>2
      <4> QED
        BY <1>3, <4>1 DEF j
    <3> QED
      BY <3>1, <3>2, <3>3, <3>4, <3>a, <3>b
  <2> QED
    BY <2>1, <2>2, SeqEqual
<1> QED
  BY <1>2, <1>5, <1>6 DEF Beyond

\* Of two ways to cut a sequence, one cuts the first part of the other.
Cut(v, w, a, b, S) ==
  \/ \E x \in Seq(S) : v = a \o x /\ b = x \o w
  \/ \E x \in Seq(S) : a = v \o x /\ w = x \o b

LEMMA TwoCuts ==
  ASSUME NEW S, NEW a \in Seq(S), NEW b \in Seq(S), NEW v \in Seq(S), NEW w \in Seq(S),
         a \o b = v \o w
  PROVE  Cut(v, w, a, b, S)
<1>1. Len(a) <= Len(v) \/ Len(v) <= Len(a)
  <2>1. Len(a) \in Nat /\ Len(v) \in Nat
    OBVIOUS
  <2> QED
    BY <2>1
<1>2. CASE Len(a) <= Len(v)
  <2>1. Beyond(a, b, v, w, S)
    BY <1>2, ShorterCut
  <2> QED
    BY <2>1 DEF Beyond, Cut
<1>3. CASE Len(v) <= Len(a)
  <2>1. v \o w = a \o b
    OBVIOUS
  <2>2. Beyond(v, w, a, b, S)
    BY <1>3, <2>1, ShorterCut
  <2> QED
    BY <2>2 DEF Beyond, Cut
<1> QED
  BY <1>1, <1>2, <1>3

\* Sequences that are as long as two others together stay so.
AsLong(a, b, c, T) ==
  /\ a \in Seq(T) /\ b \in Seq(T) /\ c \in Seq(T)
  /\ Len(a) = Len(b) + Len(c)

LEMMA AsLongJoined ==
  ASSUME NEW T, NEW a, NEW b, NEW c, AsLong(a, b, c, T), NEW x, NEW y, NEW z, AsLong(x, y, z, T)
  PROVE  AsLong(a \o x, b \o y, c \o z, T)
<1>1. /\ a \in Seq(T) /\ b \in Seq(T) /\ c \in Seq(T) /\ Len(a) = Len(b) + Len(c)
      /\ x \in Seq(T) /\ y \in Seq(T) /\ z \in Seq(T) /\ Len(x) = Len(y) + Len(z)
  BY DEF AsLong
<1>2. /\ a \o x \in Seq(T) /\ b \o y \in Seq(T) /\ c \o z \in Seq(T)
      /\ Len(a \o x) = Len(a) + Len(x) /\ Len(b \o y) = Len(b) + Len(y)
      /\ Len(c \o z) = Len(c) + Len(z)
  <2>1. a \o x \in Seq(T) /\ Len(a \o x) = Len(a) + Len(x)
    BY <1>1, ConcatProperties
  <2>2. b \o y \in Seq(T) /\ Len(b \o y) = Len(b) + Len(y)
    BY <1>1, ConcatProperties
  <2>3. c \o z \in Seq(T) /\ Len(c \o z) = Len(c) + Len(z)
    BY <1>1, ConcatProperties
  <2> QED
    BY <2>1, <2>2, <2>3
<1>3. /\ Len(a) \in Nat /\ Len(b) \in Nat /\ Len(c) \in Nat
      /\ Len(x) \in Nat /\ Len(y) \in Nat /\ Len(z) \in Nat
  BY <1>1
<1>4. ASSUME NEW i \in Nat, NEW j \in Nat, NEW k \in Nat, NEW u \in Nat, NEW v \in Nat,
             NEW w \in Nat, i = j + k, u = v + w
      PROVE  i + u = (j + v) + (k + w)
  BY <1>4
<1>5. Len(a) + Len(x) = (Len(b) + Len(y)) + (Len(c) + Len(z))
  BY <1>1, <1>3, <1>4
<1>6. Len(a \o x) = Len(b \o y) + Len(c \o z)
  BY <1>2, <1>5, Zenon
<1> QED
  BY <1>2, <1>6 DEF AsLong

\* Parts that are each put together from two are as long as both lists of parts together.
Pairwise(parts, lefts, rights, n, T) ==
  /\ n \in Nat
  /\ DOMAIN parts = 1 .. n /\ DOMAIN lefts = 1 .. n /\ DOMAIN rights = 1 .. n
  /\ \A i \in 1 .. n : AsLong(parts[i], lefts[i], rights[i], T)

LEMMA LengthOfPairs ==
  ASSUME NEW T, NEW n, NEW parts, NEW lefts, NEW rights, Pairwise(parts, lefts, rights, n, T)
  PROVE  Len(Concat(parts)) = Len(Concat(lefts)) + Len(Concat(rights))
<1>0. /\ n \in Nat
      /\ DOMAIN parts = 1 .. n /\ DOMAIN lefts = 1 .. n /\ DOMAIN rights = 1 .. n
      /\ \A i \in 1 .. n : AsLong(parts[i], lefts[i], rights[i], T)
  BY DEF Pairwise
<1>1. PICK f : Steps(f, parts, n) /\ Concat(parts) = f[n]
  BY <1>0, ConcatSteps
<1>2. PICK g : Steps(g, lefts, n) /\ Concat(lefts) = g[n]
  BY <1>0, ConcatSteps
<1>3. PICK h : Steps(h, rights, n) /\ Concat(rights) = h[n]
  BY <1>0, ConcatSteps
<1> DEFINE P == {m \in Nat : m <= n => AsLong(f[m], g[m], h[m], T)}
<1>4. 0 \in P
  <2>1. f[0] = <<>> /\ g[0] = <<>> /\ h[0] = <<>>
    BY <1>1, <1>2, <1>3, Zenon DEF Steps
  <2>2. AsLong(<<>>, <<>>, <<>>, T)
    BY DEF AsLong
  <2> QED
    BY <2>1, <2>2
<1>5. ASSUME NEW m \in Nat, m \in P PROVE m + 1 \in P
  <2>1. SUFFICES ASSUME m + 1 <= n PROVE AsLong(f[m + 1], g[m + 1], h[m + 1], T)
    OBVIOUS
  <2>2. AsLong(f[m], g[m], h[m], T)
    BY <1>0, <1>5, <2>1
  <2> HIDE DEF P
  <2>3. m + 1 \in 1 .. n /\ (m + 1) - 1 = m
    BY <1>0, <2>1
  <2>4. /\ f[m + 1] = f[m] \o parts[m + 1] /\ g[m + 1] = g[m] \o lefts[m + 1]
        /\ h[m + 1] = h[m] \o rights[m + 1]
    BY <1>1, <1>2, <1>3, <2>3, Zenon DEF Steps
  <2>5. AsLong(parts[m + 1], lefts[m + 1], rights[m + 1], T)
    BY <1>0, <2>3
  <2>6. AsLong(f[m] \o parts[m + 1], g[m] \o lefts[m + 1], h[m] \o rights[m + 1], T)
    BY <2>2, <2>5, AsLongJoined
  <2> QED
    BY <2>4, <2>6, Zenon
<1>6. n \in P
  <2> HIDE DEF P
  <2> QED
    BY <1>0, <1>4, <1>5, SetInduction
<1>7. AsLong(f[n], g[n], h[n], T)
  <2>1. n <= n
    BY <1>0
  <2> QED
    BY <1>6, <2>1, Zenon
<1> QED
  BY <1>1, <1>2, <1>3, <1>7 DEF AsLong

\* One sequence begins with another.
Begins(some, all, T) ==
  some \in Seq(T) /\ all \in Seq(T) /\ \E rest \in Seq(T) : all = some \o rest

\* The first parts put together are the beginning of all of them.
LEMMA ConcatBegins ==
  ASSUME NEW T, NEW n \in Nat, NEW k \in 0 .. n,
         NEW parts, DOMAIN parts = 1 .. n, \A i \in 1 .. n : parts[i] \in Seq(T),
         NEW some, DOMAIN some = 1 .. k, \A i \in 1 .. k : some[i] = parts[i]
  PROVE  Begins(Concat(some), Concat(parts), T)
<1>1. PICK f : Steps(f, parts, n) /\ Concat(parts) = f[n]
  BY ConcatSteps
<1>2. Steps(f, some, k)
  <2>1. \A i \in 1 .. k : i \in 1 .. n
    OBVIOUS
  <2> QED
    BY <1>1, <2>1, Zenon DEF Steps
<1>3. Concat(some) = f[k]
  BY <1>2, ConcatUnique
<1>4. Concat(some) \in Seq(T)
  <2>1. \A i \in 1 .. k : some[i] \in Seq(T)
    OBVIOUS
  <2>2. k \in Nat
    OBVIOUS
  <2> QED
    BY <2>1, <2>2, ConcatType
<1> DEFINE Good(m) == \E rest \in Seq(T) : f[k + m] = f[k] \o rest
           P == {m \in Nat : k + m <= n => Good(m)}
<1>5. 0 \in P
  <2>1. <<>> \in Seq(T) /\ k + 0 = k /\ f[k] \o <<>> = f[k]
    BY <1>3, <1>4, ConcatEmptySeq
  <2> QED
    BY <2>1
<1>6. ASSUME NEW m \in Nat, m \in P PROVE m + 1 \in P
  <2> HIDE DEF Good
  <2>1. SUFFICES ASSUME k + (m + 1) <= n PROVE Good(m + 1)
    OBVIOUS
  <2>2. Good(m)
    BY <1>6, <2>1
  <2> HIDE DEF P
  <2>3. PICK rest \in Seq(T) : f[k + m] = f[k] \o rest
    BY <2>2 DEF Good
  <2>4. k + (m + 1) \in 1 .. n /\ (k + (m + 1)) - 1 = k + m
    BY <2>1
  <2>5. f[k + (m + 1)] = f[k + m] \o parts[k + (m + 1)] /\ parts[k + (m + 1)] \in Seq(T)
    BY <1>1, <2>4, Zenon DEF Steps
  <2> DEFINE more == rest \o parts[k + (m + 1)]
  <2>6. more \in Seq(T)
    BY <2>5, ConcatProperties
  <2>7. (f[k] \o rest) \o parts[k + (m + 1)] = f[k] \o more
    <3>1. \A a, b, c \in Seq(T) : (a \o b) \o c = a \o (b \o c)
      BY ConcatAssociative, SMTT(30)
    <3>2. f[k] \in Seq(T)
      BY <1>3, <1>4
    <3> QED
      BY <2>5, <3>1, <3>2, Zenon
  <2> QED
    BY <2>3, <2>5, <2>6, <2>7 DEF Good
<1>7. n - k \in P /\ k + (n - k) = n
  <2>1. n - k \in Nat /\ k + (n - k) = n
    OBVIOUS
  <2> HIDE DEF P, Good
  <2> QED
    BY <1>5, <1>6, <2>1, SetInduction
<1>8. \E rest \in Seq(T) : Concat(parts) = Concat(some) \o rest
  BY <1>1, <1>3, <1>7
<1>9. Concat(parts) \in Seq(T)
  BY ConcatType
<1> QED
  BY <1>4, <1>8, <1>9 DEF Begins

-----------------------------------------------------------------------------
(* The largest and the smallest of some numbers.                           *)

\* A set has a largest element.
HasMax(S) == \E x \in S : \A y \in S : x >= y

\* A set of numbers up to n that is not empty has one, and Max finds it.
LEMMA BoundedHasMax ==
  ASSUME NEW n \in Nat, NEW S \in SUBSET (1 .. n), S # {}
  PROVE  Max(S) \in S /\ \A y \in S : Max(S) >= y
<1> DEFINE P == {m \in Nat : \A U \in SUBSET (1 .. m) : U # {} => HasMax(U)}
<1>1. 0 \in P
  <2>1. 1 .. 0 = {}
    OBVIOUS
  <2> QED
    BY <2>1
<1>2. ASSUME NEW m \in Nat, m \in P PROVE m + 1 \in P
  <2>1. SUFFICES ASSUME NEW U \in SUBSET (1 .. m + 1), U # {} PROVE HasMax(U)
    OBVIOUS
  <2>2. CASE m + 1 \in U
    BY <2>2 DEF HasMax
  <2>3. CASE m + 1 \notin U
    <3>1. U \in SUBSET (1 .. m)
      <4>1. \A u \in U : u \in 1 .. m + 1 /\ u # m + 1
        BY <2>3
      <4> QED
        BY <4>1
    <3> QED
      BY <1>2, <2>1, <3>1
  <2> QED
    BY <2>2, <2>3
<1>3. n \in P
  <2> HIDE DEF P
  <2> QED
    BY <1>1, <1>2, SetInduction
<1>4. HasMax(S)
  BY <1>3
<1> QED
  BY <1>4 DEF HasMax, Max

\* Max and Min of a set that is known.
LEMMA MaxIs ==
  ASSUME NEW S \in SUBSET Int, NEW x \in S, \A y \in S : x >= y
  PROVE  Max(S) = x
<1>1. Max(S) \in S /\ \A y \in S : Max(S) >= y
  BY DEF Max
<1>2. x \in Int /\ Max(S) \in Int
  BY <1>1
<1>3. x >= Max(S) /\ Max(S) >= x
  BY <1>1
<1> QED
  BY <1>2, <1>3

\* A set of numbers up to n that is not empty has a smallest element, and Min finds it.
LEMMA BoundedHasMin ==
  ASSUME NEW n \in Nat, NEW S \in SUBSET (1 .. n), S # {}
  PROVE  Min(S) \in S /\ \A y \in S : Min(S) <= y
<1> DEFINE T == {n - s : s \in S}
           U == {n + 1 - s : s \in S}
<1>1. U \in SUBSET (1 .. n) /\ U # {}
  <2>1. PICK s \in S : TRUE
    OBVIOUS
  <2>2. n + 1 - s \in U
    OBVIOUS
  <2>3. \A t \in S : n + 1 - t \in 1 .. n
    OBVIOUS
  <2> QED
    BY <2>2, <2>3
<1> HIDE DEF U
<1>2. Max(U) \in U /\ \A y \in U : Max(U) >= y
  BY <1>1, BoundedHasMax
<1>3. PICK s \in S : Max(U) = n + 1 - s
  BY <1>2 DEF U
<1>4. \A t \in S : n + 1 - t \in U
  BY DEF U
<1>5. \A t \in S : s <= t
  <2>1. SUFFICES ASSUME NEW t \in S PROVE s <= t
    OBVIOUS
  <2>2. n + 1 - s >= n + 1 - t
    BY <1>2, <1>3, <1>4
  <2>3. s \in 1 .. n /\ t \in 1 .. n
    OBVIOUS
  <2> QED
    BY <2>2, <2>3
<1> QED
  BY <1>5 DEF Min

LEMMA MinIs ==
  ASSUME NEW S \in SUBSET Int, NEW x \in S, \A y \in S : x <= y
  PROVE  Min(S) = x
<1>1. Min(S) \in S /\ \A y \in S : Min(S) <= y
  BY DEF Min
<1>2. x \in Int /\ Min(S) \in Int
  BY <1>1
<1>3. x <= Min(S) /\ Min(S) <= x
  BY <1>1
<1> QED
  BY <1>2, <1>3

\* What has the indices of a sequence.
Sized(s) == \E n \in Nat : DOMAIN s = 1 .. n

\* What is in a sequence may be more.
LEMMA SeqOfMore ==
  ASSUME NEW S, NEW T, S \subseteq T, NEW s \in Seq(S)
  PROVE  s \in Seq(T)
<1>1. s \in [1 .. Len(s) -> S] /\ Len(s) \in Nat
  BY LenProperties
<1>2. s \in [1 .. Len(s) -> T]
  BY <1>1
<1> QED
  BY <1>1, <1>2, FunctionIsSeq

-----------------------------------------------------------------------------
(* Texts and passes.                                                       *)

\* The spans in a text.
SpansOf(current) == {Span(a, b) : a \in 0 .. Len(current) - 1, b \in 0 .. Len(current)}

\* The encoded runs, and the ones the decoder looks at, are spans of the text.
LEMMA CapturesType ==
  ASSUME NEW current \in Seq(Byte)
  PROVE  Captures(current) \in Seq(SpansOf(current))
<1> DEFINE Starts == {i \in 1 .. Len(current) : IsRun(current, i)}
           parts == [i \in 1 .. Len(current) |-> IF IsRun(current, i) THEN <<i>> ELSE <<>>]
           starts == Concat(parts)
<1>1. Len(current) \in Nat
  OBVIOUS
<1>2. DOMAIN parts = 1 .. Len(current) /\ \A i \in 1 .. Len(current) : parts[i] \in Seq(Starts)
  <2>1. ASSUME NEW i \in 1 .. Len(current) PROVE parts[i] \in Seq(Starts)
    <3>1. CASE IsRun(current, i)
      BY <3>1
    <3>2. CASE ~IsRun(current, i)
      BY <3>2
    <3> QED
      BY <3>1, <3>2
  <2> QED
    BY <2>1
<1>3. Captures(current) =
        [n \in DOMAIN starts |-> Span(starts[n] - 1, starts[n] - 1 + current[starts[n]].size)]
  BY DEF Captures, Numbers
<1>4. ASSUME NEW i \in Starts
      PROVE  Span(i - 1, i - 1 + current[i].size) \in SpansOf(current)
  <2>2. current[i].size \in Nat
    BY InputAssumption
  <2>3. i \in 1 .. Len(current) /\ i + current[i].size - 1 <= Len(current)
    BY DEF IsRun
  <2>4. i - 1 \in 0 .. Len(current) - 1 /\ i - 1 + current[i].size \in 0 .. Len(current)
    BY <1>1, <2>2, <2>3
  <2> QED
    BY <2>4 DEF SpansOf
<1> HIDE DEF parts, Starts
<1>5. starts \in Seq(Starts)
  BY <1>1, <1>2, ConcatType
<1> HIDE DEF starts
<1>6. \A n \in 1 .. Len(starts) : starts[n] \in Starts
  BY <1>5
<1>7. DOMAIN starts = 1 .. Len(starts) /\ Len(starts) \in Nat
  BY <1>5
<1>8. Captures(current) \in [1 .. Len(starts) -> SpansOf(current)]
  BY <1>3, <1>4, <1>6, <1>7
<1> QED
  BY <1>7, <1>8, FunctionIsSeq

LEMMA FindEncodingMatchesType ==
  ASSUME NEW current \in Seq(Byte)
  PROVE  FindEncodingMatches(current) \in Seq(SpansOf(current))
<1> DEFINE captures == Captures(current)
           n == Len(captures)
           parts == [i \in 1 .. n |-> IF ~Shadowed(current, captures, i) THEN <<i>> ELSE <<>>]
           kept == Concat(parts)
<1>1. captures \in Seq(SpansOf(current))
  BY CapturesType
<1>2. n \in Nat
  BY <1>1
<1>3. DOMAIN parts = 1 .. n /\ \A i \in 1 .. n : parts[i] \in Seq(1 .. n)
  <2>1. ASSUME NEW i \in 1 .. n PROVE parts[i] \in Seq(1 .. n)
    <3>1. CASE ~Shadowed(current, captures, i)
      BY <3>1
    <3>2. CASE Shadowed(current, captures, i)
      BY <3>2
    <3> QED
      BY <3>1, <3>2
  <2> QED
    BY <2>1
<1>4. FindEncodingMatches(current) = [i \in DOMAIN kept |-> captures[kept[i]]]
  BY DEF FindEncodingMatches, Numbers
<1>5. \A i \in 1 .. n : captures[i] \in SpansOf(current)
  BY <1>1
<1> HIDE DEF captures, n, parts
<1>6. kept \in Seq(1 .. n)
  BY <1>2, <1>3, ConcatType
<1> HIDE DEF kept
<1>7. /\ DOMAIN kept = 1 .. Len(kept) /\ Len(kept) \in Nat
      /\ \A i \in 1 .. Len(kept) : kept[i] \in 1 .. n
  BY <1>6, LenProperties
<1>8. FindEncodingMatches(current) \in [1 .. Len(kept) -> SpansOf(current)]
  BY <1>4, <1>5, <1>7
<1> QED
  BY <1>7, <1>8, FunctionIsSeq

\* Segments are spans of the text they were decoded from.
GoodSegments(segments, current) ==
  Sized(segments) /\ \A n \in DOMAIN segments : segments[n].encoded \in SpansOf(current)

LEMMA FindEncodedSegmentsType ==
  ASSUME NEW current \in Seq(Byte), NEW before
  PROVE  GoodSegments(FindEncodedSegments(current, before), current)
<1> DEFINE found == FindEncodingMatches(current)
           parts == [i \in DOMAIN found |->
                       IF RunAt(current, found[i]).inner # <<>> THEN <<found[i]>> ELSE <<>>]
           matches == Concat(parts)
           segments == FindEncodedSegments(current, before)
<1>1. found \in Seq(SpansOf(current))
  BY FindEncodingMatchesType
<1>2. DOMAIN segments = DOMAIN matches /\ \A n \in DOMAIN matches : segments[n].encoded = matches[n]
  BY DEF FindEncodedSegments, Only
<1> HIDE DEF found, segments
<1>3. DOMAIN found = 1 .. Len(found) /\ Len(found) \in Nat
      /\ \A i \in 1 .. Len(found) : found[i] \in SpansOf(current)
  BY <1>1
<1>4. DOMAIN parts = 1 .. Len(found) /\ \A i \in 1 .. Len(found) : parts[i] \in Seq(SpansOf(current))
  BY <1>3
<1> HIDE DEF parts
<1>5. matches \in Seq(SpansOf(current))
  BY <1>3, <1>4, ConcatType
<1> HIDE DEF matches
<1>6. DOMAIN matches = 1 .. Len(matches) /\ Len(matches) \in Nat
      /\ \A i \in 1 .. Len(matches) : matches[i] \in SpansOf(current)
  BY <1>5
<1> QED
  BY <1>2, <1>6 DEF GoodSegments, Sized, segments

\* A piece of a text is a text, and so is one with its segments replaced.
LEMMA BytesType ==
  ASSUME NEW current \in Seq(Byte), NEW a \in Nat, NEW b \in Int, b <= Len(current)
  PROVE  Bytes(current, Span(a, b)) \in Seq(Byte)
<1>1. Bytes(current, Span(a, b)) = SubSeq(current, a + 1, b)
  BY DEF Bytes, Span
<1>2. a + 1 \in 1 .. Len(current) + 1 \/ a + 1 > b
  OBVIOUS
<1>3. SubSeq(current, a + 1, b) \in Seq(Byte)
  OBVIOUS
<1> QED
  BY <1>1, <1>3

LEMMA ReplacedType ==
  ASSUME NEW current \in Seq(Byte), NEW segments, GoodSegments(segments, current), NEW inners,
         \A n \in DOMAIN segments : inners[n] \in Seq(Byte)
  PROVE  Replaced(current, segments, inners) \in Seq(Byte)
<1> DEFINE From(n) == IF n = 1 THEN 0 ELSE segments[n - 1].encoded.end
           Before(n) == Bytes(current, Span(From(n), segments[n].encoded.start))
           parts == [n \in DOMAIN segments |-> Before(n) \o inners[n]]
           tail == Bytes(current, Span(From(Len(segments) + 1), Len(current)))
<1>1. PICK k \in Nat : DOMAIN segments = 1 .. k
  BY DEF GoodSegments, Sized
<1>2. Len(segments) = k
  BY <1>1
<1>3. \A n \in 1 .. k : /\ segments[n].encoded.end \in 0 .. Len(current)
                        /\ segments[n].encoded.start \in 0 .. Len(current)
  <2>1. TAKE n \in 1 .. k
  <2>2. segments[n].encoded \in SpansOf(current)
    BY <1>1 DEF GoodSegments
  <2> QED
    BY <2>2 DEF SpansOf, Span
<1>4. \A n \in 1 .. k + 1 : From(n) \in 0 .. Len(current)
  <2>1. TAKE n \in 1 .. k + 1
  <2>2. CASE n = 1
    BY <2>2
  <2>3. CASE n # 1
    <3>1. n - 1 \in 1 .. k
      BY <2>3
    <3> QED
      BY <1>3, <2>3, <3>1
  <2> QED
    BY <2>2, <2>3
<1> HIDE DEF From
<1>5. \A n \in 1 .. k : Before(n) \in Seq(Byte)
  <2>1. TAKE n \in 1 .. k
  <2>2. n \in 1 .. k + 1
    OBVIOUS
  <2> QED
    <3>1. /\ From(n) \in Nat /\ segments[n].encoded.start \in Int
          /\ segments[n].encoded.start <= Len(current)
      BY <1>3, <1>4, <2>2
    <3> QED
      BY <3>1, BytesType
<1>6. tail \in Seq(Byte)
  <2>1. k + 1 \in 1 .. k + 1
    OBVIOUS
  <2>2. From(k + 1) \in Nat
    BY <1>4, <2>1
  <2>3. Len(current) \in Int /\ Len(current) <= Len(current)
    OBVIOUS
  <2>4. Bytes(current, Span(From(k + 1), Len(current))) \in Seq(Byte)
    BY <2>2, <2>3, BytesType
  <2> QED
    BY <1>2, <2>4
<1> HIDE DEF Before
<1>7. DOMAIN parts = 1 .. k /\ \A n \in 1 .. k : parts[n] \in Seq(Byte)
  <2>1. \A n \in 1 .. k : Before(n) \o inners[n] \in Seq(Byte)
    BY <1>1, <1>5, SMTT(30)
  <2> QED
    BY <1>1, <2>1
<1>8. Replaced(current, segments, inners) = Concat(parts) \o tail
  BY DEF Replaced, From, Before
<1> HIDE DEF parts, tail
<1>9. Concat(parts) \in Seq(Byte)
  BY <1>7, ConcatType
<1> QED
  BY <1>6, <1>8, <1>9

\* A text is one, and its segments are in it.
GoodText(level) == level.current \in Seq(Byte) /\ GoodSegments(level.next, level.current)

LEMMA LevelIsGood ==
  ASSUME NEW current \in Seq(Byte), NEW segments, NEW origins
  PROVE  GoodText(Level(current, segments, origins))
BY FindEncodedSegmentsType DEF GoodText, Level

LEMMA DecodedIsGood ==
  ASSUME NEW level, GoodText(level)
  PROVE  GoodText(Decoded(level))
<1> DEFINE inners == [n \in DOMAIN level.next |->
                        RunAt(level.current, level.next[n].encoded).inner]
           Origin(n) == UNION ToSet(Bytes(level.origins, level.next[n].encoded))
           sources == [n \in DOMAIN level.next |-> [i \in DOMAIN inners[n] |-> Origin(n)]]
           origins == Replaced(level.origins, level.next, sources)
<1>1. \A n \in DOMAIN level.next : inners[n] \in Seq(Byte)
  <2>1. SUFFICES ASSUME NEW n \in DOMAIN level.next PROVE inners[n] \in Seq(Byte)
    BY DEF inners
  <2>2. level.next[n].encoded \in SpansOf(level.current) /\ level.current \in Seq(Byte)
    BY DEF GoodText, GoodSegments
  <2>3. level.next[n].encoded.start + 1 \in 1 .. Len(level.current)
    BY <2>2 DEF SpansOf, Span
  <2>4. RunAt(level.current, level.next[n].encoded) \in Byte
    BY <2>2, <2>3 DEF RunAt
  <2> QED
    BY <2>4, InputAssumption
<1>2. Decoded(level) = Level(Replaced(level.current, level.next, inners), level.next, origins)
  BY DEF Decoded
<1> HIDE DEF inners, origins
<1>3. Replaced(level.current, level.next, inners) \in Seq(Byte)
  BY <1>1, ReplacedType DEF GoodText
<1> QED
  BY <1>2, <1>3, LevelIsGood

\* A pass counts, and has a list of candidates for every rule.
GoodPass(pass) ==
  /\ pass.bytes \in Nat /\ pass.hitCount \in Nat /\ pass.captures \in Nat
  /\ pass.kept \in Nat /\ pass.segments \in Nat
  /\ \A r \in DOMAIN Rules : Sized(pass.candidates[r])

\* Whatever decoding makes of a text, the passes over it are good ones.
LEMMA CandidatesAreSized ==
  ASSUME NEW current \in Seq(Byte), NEW r, NEW segments, NEW origins
  PROVE  Sized(CandidatesIn(r, current, segments, origins))
<1> DEFINE regex == Rules[r].regex
           In(i) == i \in DOMAIN current /\ current[i].mark \in regex
           parts == [i \in 1 .. Len(current) |-> IF In(i) /\ ~In(i - 1) THEN <<i>> ELSE <<>>]
           starts == Concat(parts)
<1>1. DOMAIN Matches(current, regex) = DOMAIN starts
  BY DEF Matches, Numbers
<1>2. DOMAIN parts = 1 .. Len(current) /\ Len(current) \in Nat
      /\ \A i \in 1 .. Len(current) : parts[i] \in Seq(1 .. Len(current))
  <2>1. ASSUME NEW i \in 1 .. Len(current) PROVE parts[i] \in Seq(1 .. Len(current))
    <3>1. parts[i] = <<i>> \/ parts[i] = <<>>
      OBVIOUS
    <3> DEFINE places == 1 .. Len(current)
    <3>2. i \in places
      OBVIOUS
    <3> HIDE DEF parts, places
    <3>3. <<i>> \in Seq(places) /\ <<>> \in Seq(places)
      BY <3>2
    <3> QED
      BY <3>1, <3>3 DEF places
  <2> QED
    BY <2>1
<1> HIDE DEF parts
<1>3. starts \in Seq(1 .. Len(current))
  BY <1>2, ConcatType
<1>4. DOMAIN starts = 1 .. Len(starts) /\ Len(starts) \in Nat
  BY <1>3
<1>5. \/ CandidatesIn(r, current, segments, origins) = <<>>
      \/ DOMAIN CandidatesIn(r, current, segments, origins) = DOMAIN Matches(current, regex)
  BY DEF CandidatesIn
<1>6. Sized(<<>>)
  <2>1. DOMAIN <<>> = 1 .. 0
    OBVIOUS
  <2> QED
    BY <2>1 DEF Sized
<1> HIDE DEF regex, starts
<1> QED
  BY <1>1, <1>4, <1>5, <1>6 DEF Sized

LEMMA PassOverIsGood ==
  ASSUME NEW level, GoodText(level)
  PROVE  GoodPass(PassOver(level))
<1> DEFINE current == level.current
           hits == {i \in DOMAIN current : current[i].mark \in engine.keywords}
<1>1. current \in Seq(Byte) /\ Len(current) \in Nat /\ DOMAIN current = 1 .. Len(current)
  BY DEF GoodText
<1>2. Cardinality(hits) \in Nat
  <2>1. IsFiniteSet(1 .. Len(current))
    BY <1>1, FS_Interval
  <2>2. IsFiniteSet(hits)
    BY <1>1, <2>1, FS_Subset
  <2> QED
    BY <2>2, FS_CardinalityType
<1>3. Len(Captures(current)) \in Nat /\ Len(FindEncodingMatches(current)) \in Nat
  <2>1. Captures(current) \in Seq(SpansOf(current))
    BY <1>1, CapturesType
  <2>2. FindEncodingMatches(current) \in Seq(SpansOf(current))
    BY <1>1, FindEncodingMatchesType
  <2> QED
    BY <2>1, <2>2
<1>4. Len(level.next) \in Nat
  <2>1. PICK k \in Nat : DOMAIN level.next = 1 .. k
    BY DEF GoodText, GoodSegments, Sized
  <2> QED
    BY <2>1
<1>5. \A r \in DOMAIN Rules :
        Sized(CandidatesIn(r, current, level.segments, level.origins))
  BY <1>1, CandidatesAreSized
<1> QED
  BY <1>1, <1>2, <1>3, <1>4, <1>5 DEF GoodPass, PassOver

\* So are all passes there are, up to the depth of decoding.
GoodPasses(some) == \E S : some \in Seq(S) /\ \A pass \in S : GoodPass(pass)

GoodStage(stage) == GoodPasses(stage.passes) /\ GoodText(stage.level)

LEMMA NoPassesAreGood ==
  ASSUME text \in Texts
  PROVE  GoodStage(NoPasses)
<1>1. GoodText(Undecoded)
  BY InputAssumption, LevelIsGood DEF Undecoded
<1>2. GoodPasses(<<>>)
  <2> DEFINE S == {}
  <2>1. <<>> \in Seq(S) /\ \A pass \in S : GoodPass(pass)
    OBVIOUS
  <2> HIDE DEF S
  <2> QED
    BY <2>1 DEF GoodPasses
<1> QED
  BY <1>1, <1>2 DEF GoodStage, NoPasses

LEMMA NextPassIsGood ==
  ASSUME NEW before, GoodStage(before)
  PROVE  GoodStage(NextPass(before))
<1> DEFINE level == Decoded(before.level)
           pass == PassOver(before.level)
<1>1. GoodText(level) /\ GoodPass(pass)
  BY DecodedIsGood, PassOverIsGood DEF GoodStage
<1> HIDE DEF level, pass
<1>2. PICK S : before.passes \in Seq(S) /\ \A old \in S : GoodPass(old)
  BY DEF GoodStage, GoodPasses
<1> DEFINE U == S \cup {pass}
<1>3. Append(before.passes, pass) \in Seq(U) /\ \A some \in U : GoodPass(some)
  <2>1. before.passes \in Seq(U)
    BY <1>2
  <2>2. pass \in U
    OBVIOUS
  <2> QED
    BY <1>1, <1>2, <2>1, <2>2
<1>4. GoodPasses(Append(before.passes, pass))
  BY <1>3 DEF GoodPasses
<1>5. NextPass(before) = before
      \/ NextPass(before) = [passes |-> Append(before.passes, pass), level |-> level]
  BY DEF NextPass, level, pass
<1>6. GoodStage([passes |-> Append(before.passes, pass), level |-> level])
  BY <1>1, <1>4 DEF GoodStage
<1> QED
  BY <1>5, <1>6

\* The stages that Passes goes through.
AreStages(stages, last) ==
  stages[0] = NoPasses /\ \A m \in 1 .. last : stages[m] = NextPass(stages[m - 1])

LEMMA PassesAreStages ==
  \E stages : /\ AreStages(stages, MaxDecodeDepth + 1)
              /\ Passes = stages[MaxDecodeDepth + 1].passes
<1> DEFINE last == MaxDecodeDepth + 1
           Is(f, m) == f = [i \in 0 .. m |-> IF i = 0 THEN NoPasses ELSE NextPass(f[i - 1])]
           S == {m \in Nat : \E f : Is(f, m)}
<1>1. 0 \in S
  <2> DEFINE f == [i \in 0 .. 0 |-> NoPasses]
  <2>1. Is(f, 0)
    OBVIOUS
  <2> QED
    BY <2>1
<1>2. ASSUME NEW m \in Nat, m \in S PROVE m + 1 \in S
  <2>1. PICK f : Is(f, m)
    BY <1>2
  <2> DEFINE g == [i \in 0 .. m + 1 |-> IF i \in 0 .. m THEN f[i] ELSE NextPass(f[m])]
  <2>2. \A i \in 0 .. m : f[i] = IF i = 0 THEN NoPasses ELSE NextPass(f[i - 1])
    BY <2>1
  <2>3. ASSUME NEW i \in 0 .. m + 1
        PROVE  g[i] = IF i = 0 THEN NoPasses ELSE NextPass(g[i - 1])
    <3>1. CASE i = 0
      BY <3>1, <2>2
    <3>2. CASE i \in 1 .. m
      <4>1. i - 1 \in 0 .. m /\ i \in 0 .. m /\ i # 0
        BY <3>2
      <4>2. g[i] = f[i] /\ g[i - 1] = f[i - 1]
        BY <4>1
      <4> HIDE DEF g
      <4> QED
        BY <4>1, <4>2, <2>2
    <3>3. CASE i = m + 1
      <4>1. i - 1 = m /\ i \notin 0 .. m /\ m \in 0 .. m /\ m \in 0 .. m + 1 /\ i # 0
        BY <3>3
      <4> QED
        BY <4>1, <3>3
    <3> QED
      BY <3>1, <3>2, <3>3
  <2> HIDE DEF g
  <2>4. g = [i \in 0 .. m + 1 |-> g[i]]
    BY DEF g
  <2>5. Is(g, m + 1)
    BY <2>3, <2>4
  <2> QED
    BY <2>5
<1>3. last \in Nat
  BY OptionAssumption
<1>4. last \in S
  <2> HIDE DEF S
  <2> QED
    BY <1>1, <1>2, <1>3, SetInduction
<1> DEFINE choice == CHOOSE f : Is(f, last)
<1>5. Is(choice, last)
  BY <1>4
<1>6. Passes = choice[last].passes
  BY DEF Passes
<1> HIDE DEF choice, S, last
<1>7. \A i \in 0 .. last :
        choice[i] = IF i = 0 THEN NoPasses ELSE NextPass(choice[i - 1])
  BY <1>5
<1> HIDE DEF Is
<1>8. 0 \in 0 .. last /\ \A m \in 1 .. last : m \in 0 .. last /\ m # 0
  BY <1>3
<1>9. AreStages(choice, last)
  BY <1>7, <1>8 DEF AreStages
<1> QED
  BY <1>6, <1>9 DEF last

LEMMA PassesAreGood ==
  ASSUME text \in Texts
  PROVE  GoodPasses(Passes)
<1> DEFINE last == MaxDecodeDepth + 1
<1>1. PICK stages : AreStages(stages, last) /\ Passes = stages[last].passes
  BY PassesAreStages
<1>2. last \in Nat
  BY OptionAssumption
<1> HIDE DEF last
<1> DEFINE P == {m \in Nat : m <= last => GoodStage(stages[m])}
<1>3. 0 \in P
  BY <1>1, NoPassesAreGood DEF AreStages
<1>4. ASSUME NEW m \in Nat, m \in P PROVE m + 1 \in P
  <2>1. SUFFICES ASSUME m + 1 <= last PROVE GoodStage(stages[m + 1])
    OBVIOUS
  <2>2. m + 1 \in 1 .. last /\ (m + 1) - 1 = m /\ GoodStage(stages[m])
    BY <1>2, <1>4, <2>1
  <2>3. stages[m + 1] = NextPass(stages[m])
    BY <1>1, <2>2 DEF AreStages
  <2> QED
    BY <2>2, <2>3, NextPassIsGood
<1>5. last \in P
  <2> HIDE DEF P
  <2> QED
    BY <1>2, <1>3, <1>4, SetInduction
<1> QED
  BY <1>1, <1>2, <1>5 DEF GoodStage

-----------------------------------------------------------------------------
(* Numbers in their order.                                                 *)

\* The numbers up to n that are in S, one after another.
Enumerated(n, S) == Concat([i \in 1 .. n |-> IF i \in S THEN <<i>> ELSE <<>>])

\* s is in increasing order, and has what is in S and no other.
Rising(s) == \A a, b \in 1 .. Len(s) : a < b => s[a] < s[b]
Enumerates(s, n, S) ==
  /\ s \in Seq(1 .. n) /\ Rising(s)
  /\ \A a \in 1 .. Len(s) : s[a] \in S
  /\ \A i \in 1 .. n : i \in S => \E a \in 1 .. Len(s) : s[a] = i

LEMMA WithOneMore ==
  ASSUME NEW T, NEW w \in Seq(T), NEW x \in T
  PROVE  /\ w \o <<x>> \in Seq(T) /\ Len(w \o <<x>>) = Len(w) + 1
         /\ (w \o <<x>>)[Len(w) + 1] = x
         /\ \A a \in 1 .. Len(w) : (w \o <<x>>)[a] = w[a]
  OBVIOUS

LEMMA OneMoreNumber ==
  ASSUME NEW m \in Nat, NEW S, NEW s, Enumerates(s, m, S), m + 1 \in S
  PROVE  Enumerates(s \o <<m + 1>>, m + 1, S)
<1> DEFINE k == Len(s)
           t == s \o <<m + 1>>
<1>1. s \in Seq(1 .. m) /\ k \in Nat /\ \A a \in 1 .. k : s[a] \in 1 .. m
  BY DEF Enumerates
<1>2. 1 .. m \subseteq 1 .. m + 1 /\ m + 1 \in 1 .. m + 1
  OBVIOUS
<1>3. s \in Seq(1 .. m + 1) /\ <<m + 1>> \in Seq(1 .. m + 1)
  BY <1>1, <1>2
<1>4. /\ t \in Seq(1 .. m + 1) /\ Len(t) = k + 1 /\ t[k + 1] = m + 1
      /\ \A a \in 1 .. k : t[a] = s[a]
  BY <1>3
<1> HIDE DEF t, k
<1>5. Rising(t)
  <2>1. SUFFICES ASSUME NEW a \in 1 .. k + 1, NEW b \in 1 .. k + 1, a < b PROVE t[a] < t[b]
    BY <1>4 DEF Rising
  <2>2. a \in 1 .. k
    BY <1>1, <2>1
  <2>3. t[a] = s[a] /\ s[a] \in 1 .. m
    BY <1>1, <1>4, <2>2
  <2>4. CASE b = k + 1
    BY <1>4, <2>3, <2>4
  <2>5. CASE b # k + 1
    <3>1. b \in 1 .. k
      BY <1>1, <2>5
    <3>2. s[a] < s[b]
      BY <2>1, <2>2, <3>1 DEF Enumerates, Rising, k
    <3> QED
      BY <1>4, <2>3, <3>1, <3>2
  <2> QED
    BY <2>4, <2>5
<1>6. \A a \in 1 .. Len(t) : t[a] \in S
  <2>1. \A a \in 1 .. k : s[a] \in S
    BY DEF Enumerates, k
  <2>2. \A a \in 1 .. k + 1 : a \in 1 .. k \/ a = k + 1
    BY <1>1
  <2> QED
    BY <1>4, <2>1, <2>2
<1>7. ASSUME NEW i \in 1 .. m + 1, i \in S PROVE \E a \in 1 .. Len(t) : t[a] = i
  <2>1. CASE i = m + 1
    BY <1>1, <1>4, <2>1
  <2>2. CASE i # m + 1
    <3>1. i \in 1 .. m
      BY <2>2
    <3>2. PICK a \in 1 .. k : s[a] = i
      BY <1>7, <3>1 DEF Enumerates, k
    <3>3. a \in 1 .. k + 1
      BY <1>1
    <3> QED
      BY <1>4, <3>2, <3>3
  <2> QED
    BY <2>1, <2>2
<1> QED
  BY <1>4, <1>5, <1>6, <1>7 DEF Enumerates, t

LEMMA NoMoreNumber ==
  ASSUME NEW m \in Nat, NEW S, NEW s, Enumerates(s, m, S), m + 1 \notin S
  PROVE  Enumerates(s, m + 1, S)
<1>1. 1 .. m \subseteq 1 .. m + 1
  OBVIOUS
<1>2. s \in Seq(1 .. m + 1)
  BY <1>1 DEF Enumerates
<1>3. \A i \in 1 .. m + 1 : i \in 1 .. m \/ i = m + 1
  OBVIOUS
<1> QED
  BY <1>2, <1>3 DEF Enumerates

LEMMA EnumeratedIs ==
  ASSUME NEW n \in Nat, NEW S
  PROVE  Enumerates(Enumerated(n, S), n, S)
<1> DEFINE parts == [i \in 1 .. n |-> IF i \in S THEN <<i>> ELSE <<>>]
<1>1. DOMAIN parts = 1 .. n
  OBVIOUS
<1>2. PICK f : Steps(f, parts, n) /\ Concat(parts) = f[n]
  BY <1>1, ConcatSteps
<1> DEFINE P == {m \in Nat : m <= n => Enumerates(f[m], m, S)}
<1>3. 0 \in P
  <2>1. f[0] = <<>> /\ 1 .. 0 = {} /\ <<>> \in Seq(1 .. 0) /\ Len(<<>>) = 0
    BY <1>2 DEF Steps
  <2> QED
    BY <2>1 DEF Enumerates, Rising
<1>4. ASSUME NEW m \in Nat, m \in P PROVE m + 1 \in P
  <2>1. SUFFICES ASSUME m + 1 <= n PROVE Enumerates(f[m + 1], m + 1, S)
    OBVIOUS
  <2>2. m + 1 \in 1 .. n /\ (m + 1) - 1 = m /\ Enumerates(f[m], m, S)
    BY <1>4, <2>1
  <2>3. f[m + 1] = f[m] \o parts[m + 1]
    BY <1>2, <2>2, Zenon DEF Steps
  <2>4. CASE m + 1 \in S
    <3>1. parts[m + 1] = <<m + 1>>
      BY <2>2, <2>4
    <3> HIDE DEF parts, P
    <3> QED
      BY <2>2, <2>3, <2>4, <3>1, OneMoreNumber
  <2>5. CASE m + 1 \notin S
    <3>1. parts[m + 1] = <<>>
      BY <2>2, <2>5
    <3>2. f[m] \o <<>> = f[m]
      BY <2>2 DEF Enumerates
    <3> HIDE DEF parts, P
    <3> QED
      BY <2>2, <2>3, <2>5, <3>1, <3>2, NoMoreNumber
  <2> QED
    BY <2>4, <2>5
<1>5. n \in P
  <2> HIDE DEF P
  <2> QED
    BY <1>3, <1>4, SetInduction
<1> QED
  BY <1>2, <1>5 DEF Enumerated

\* The elements of a sequence at the numbers that are in S.
Picked(s, S) == Concat([i \in 1 .. Len(s) |-> IF i \in S THEN <<s[i]>> ELSE <<>>])
Elements(s, at) == [a \in 1 .. Len(at) |-> s[at[a]]]

LEMMA PickedAre ==
  ASSUME NEW S, NEW T, NEW s \in Seq(T)
  PROVE  Picked(s, S) = Elements(s, Enumerated(Len(s), S))
<1>0. PICK n \in Nat : n = Len(s)
  OBVIOUS
<1> DEFINE parts == [i \in 1 .. n |-> IF i \in S THEN <<i>> ELSE <<>>]
           others == [i \in 1 .. n |-> IF i \in S THEN <<s[i]>> ELSE <<>>]
           Of(t) == [a \in 1 .. Len(t) |-> s[t[a]]]
<1>1. DOMAIN parts = 1 .. n /\ DOMAIN others = 1 .. n
  OBVIOUS
<1>a. \A i \in 1 .. n : s[i] \in T
  BY <1>0
<1>2. PICK f : Steps(f, parts, n) /\ Concat(parts) = f[n]
  BY <1>1, ConcatSteps
<1>3. PICK g : Steps(g, others, n) /\ Concat(others) = g[n]
  BY <1>1, ConcatSteps
<1> DEFINE P == {m \in Nat : m <= n => f[m] \in Seq(1 .. n) /\ g[m] = Of(f[m])}
<1>4. 0 \in P
  <2>1. f[0] = <<>> /\ g[0] = <<>> /\ <<>> \in Seq(1 .. n)
    BY <1>2, <1>3 DEF Steps
  <2> QED
    BY <2>1
<1>5. ASSUME NEW m \in Nat, m \in P PROVE m + 1 \in P
  <2>1. SUFFICES ASSUME m + 1 <= n
                 PROVE  f[m + 1] \in Seq(1 .. n) /\ g[m + 1] = Of(f[m + 1])
    OBVIOUS
  <2>2. m + 1 \in 1 .. n /\ (m + 1) - 1 = m /\ f[m] \in Seq(1 .. n) /\ g[m] = Of(f[m])
    BY <1>0, <1>5, <2>1
  <2>3. f[m + 1] = f[m] \o parts[m + 1] /\ g[m + 1] = g[m] \o others[m + 1]
    BY <1>2, <1>3, <2>2, Zenon DEF Steps
  <2>a. /\ \A a \in 1 .. Len(f[m]) : f[m][a] \in 1 .. n
        /\ Len(f[m]) \in Nat
    BY <2>2
  <2>b. g[m] \in [1 .. Len(f[m]) -> T]
    BY <1>a, <2>2, <2>a
  <2>c. g[m] \in Seq(T) /\ Len(g[m]) = Len(f[m])
    BY <2>a, <2>b, FunctionIsSeq
  <2>4. CASE m + 1 \in S
    <3>1. parts[m + 1] = <<m + 1>> /\ others[m + 1] = <<s[m + 1]>>
      BY <2>2, <2>4
    <3> DEFINE k == Len(f[m])
               u == f[m] \o <<m + 1>>
               v == g[m] \o <<s[m + 1]>>
    <3>2. <<m + 1>> \in Seq(1 .. n) /\ <<s[m + 1]>> \in Seq(T)
      BY <1>a, <2>2
    <3>3. u \in Seq(1 .. n) /\ Len(u) = k + 1 /\ u[k + 1] = m + 1
          /\ \A a \in 1 .. k : u[a] = f[m][a]
      BY <2>2, <3>2
    <3>4. v \in Seq(T) /\ Len(v) = k + 1 /\ v[k + 1] = s[m + 1]
          /\ \A a \in 1 .. k : v[a] = g[m][a]
      <4>1. g[m] \in Seq(T) /\ Len(g[m]) = k /\ s[m + 1] \in T
        BY <1>a, <2>2, <2>c
      <4> DEFINE w == g[m]
      <4>2. w \in Seq(T) /\ Len(w) = k
        BY <4>1
      <4> HIDE DEF k, w
      <4>3. LET y == s[m + 1] IN
              /\ w \o <<y>> \in Seq(T) /\ Len(w \o <<y>>) = Len(w) + 1
              /\ (w \o <<y>>)[Len(w) + 1] = y
              /\ \A a \in 1 .. Len(w) : (w \o <<y>>)[a] = w[a]
        BY <4>1, <4>2, WithOneMore
      <4>4. v = w \o <<s[m + 1]>>
        BY DEF w
      <4> HIDE DEF v
      <4>5. \A a \in 1 .. k : v[a] = w[a]
        BY <4>2, <4>3, <4>4
      <4>6. v \in Seq(T) /\ Len(v) = k + 1 /\ v[k + 1] = s[m + 1]
        BY <4>2, <4>3, <4>4
      <4> QED
        BY <4>5, <4>6 DEF w
    <3>5. f[m + 1] = u /\ g[m + 1] = v
      BY <2>3, <3>1
    <3>6. \A a \in 1 .. k : g[m][a] = s[f[m][a]]
      BY <2>2
    <3>7. k \in Nat
      BY <2>a
    <3> HIDE DEF u, v, k, parts, others, P
    <3>8. \A a \in 1 .. k + 1 : v[a] = s[u[a]]
      <4>1. TAKE a \in 1 .. k + 1
      <4>2. a = k + 1 \/ a \in 1 .. k
        BY <3>7
      <4> QED
        BY <3>3, <3>4, <3>6, <4>2
    <3>9. v = [a \in 1 .. k + 1 |-> v[a]]
      BY <3>4
    <3> QED
      BY <3>3, <3>5, <3>8, <3>9
  <2>5. CASE m + 1 \notin S
    <3>1. parts[m + 1] = <<>> /\ others[m + 1] = <<>>
      BY <2>2, <2>5
    <3>2. f[m] \o <<>> = f[m] /\ g[m] \o <<>> = g[m]
      BY <2>2, <2>c
    <3> QED
      BY <2>2, <2>3, <3>1, <3>2
  <2> QED
    BY <2>4, <2>5
<1>6. n \in P
  <2> HIDE DEF P
  <2> QED
    BY <1>4, <1>5, SetInduction
<1>7. f[n] = Enumerated(n, S)
  BY <1>2 DEF Enumerated
<1>8. g[n] = Of(f[n])
  BY <1>6
<1> HIDE DEF others, P
<1>9. Concat(others) = Of(Enumerated(n, S))
  BY <1>3, <1>7, <1>8
<1> QED
  BY <1>0, <1>9 DEF others, Picked, Elements

\* Numbers that have none of the sequence between them are next to each other in it.
LEMMA NextToEachOther ==
  ASSUME NEW n \in Nat, NEW s \in Seq(1 .. n), Rising(s),
         NEW a \in 1 .. Len(s), NEW b \in 1 .. Len(s), s[a] < s[b],
         \A c \in 1 .. Len(s) : ~(s[a] < s[c] /\ s[c] < s[b])
  PROVE  b = a + 1
<1>1. \A c \in 1 .. Len(s) : s[c] \in 1 .. n
  OBVIOUS
<1>2. a < b
  <2>1. CASE a = b
    BY <1>1, <2>1
  <2>2. CASE b < a
    <3>1. s[b] < s[a]
      BY <2>2 DEF Rising
    <3> QED
      BY <1>1, <3>1
  <2> QED
    BY <2>1, <2>2
<1>3. CASE a + 1 < b
  <2>1. a + 1 \in 1 .. Len(s)
    BY <1>3
  <2>2. s[a] < s[a + 1] /\ s[a + 1] < s[b]
    BY <1>3, <2>1 DEF Rising
  <2> QED
    BY <2>1, <2>2
<1> QED
  BY <1>2, <1>3

-----------------------------------------------------------------------------
(* The encoded runs of a text.                                             *)

\* What is known of a byte of a text, and of a run.
LEMMA ByteFacts ==
  ASSUME NEW current \in Seq(Byte), NEW i \in 1 .. Len(current)
  PROVE  LET byte == current[i]
         IN /\ byte = [mark |-> byte.mark, encoding |-> byte.encoding, inner |-> byte.inner,
                       at |-> byte.at, size |-> byte.size]
            /\ byte.inner \in Seq(Byte) /\ byte.size \in Nat /\ Len(byte.inner) < byte.size
<1>1. current[i] \in Byte
  OBVIOUS
<1> QED
  BY <1>1, InputAssumption

LEMMA RunFacts ==
  ASSUME NEW current \in Seq(Byte), NEW i \in 1 .. Len(current), IsRun(current, i)
  PROVE  /\ current[i].encoding # Unencoded
         /\ current[i].size \in Nat \ {0} /\ i + current[i].size - 1 <= Len(current)
         /\ current[i].at = 1
         /\ \A j \in i .. i + current[i].size - 1 :
              /\ j \in 1 .. Len(current) /\ current[j].at = j - i + 1
              /\ current[j].encoding = current[i].encoding
<1> DEFINE byte == current[i]
<1>1. /\ byte = [mark |-> byte.mark, encoding |-> byte.encoding, inner |-> byte.inner,
                 at |-> byte.at, size |-> byte.size]
      /\ byte.inner \in Seq(Byte) /\ byte.size \in Nat /\ Len(byte.inner) < byte.size
  BY ByteFacts
<1>2. Len(byte.inner) \in Nat
  BY <1>1
<1>3. byte.size \in Nat \ {0}
  BY <1>1, <1>2
<1>4. /\ byte.encoding # Unencoded /\ byte.at = 1 /\ i + byte.size - 1 <= Len(current)
      /\ \A k \in 1 .. byte.size : current[i + k - 1] = [byte EXCEPT !.at = k]
  BY DEF IsRun
<1>5. \A k : [byte EXCEPT !.at = k].at = k /\ [byte EXCEPT !.at = k].encoding = byte.encoding
  BY <1>1
<1> HIDE DEF byte
<1>6. ASSUME NEW j \in i .. i + byte.size - 1
      PROVE  /\ j \in 1 .. Len(current) /\ current[j].at = j - i + 1
             /\ current[j].encoding = byte.encoding
  <2>1. j - i + 1 \in 1 .. byte.size /\ i + (j - i + 1) - 1 = j /\ j \in 1 .. Len(current)
    BY <1>3, <1>4
  <2>2. current[j] = [byte EXCEPT !.at = j - i + 1]
    BY <1>4, <2>1
  <2> QED
    BY <1>5, <2>1, <2>2
<1> QED
  BY <1>3, <1>4, <1>6 DEF byte

\* Runs do not overlap.
LEMMA RunsAreApart ==
  ASSUME NEW current \in Seq(Byte), NEW i \in 1 .. Len(current), NEW j \in 1 .. Len(current),
         IsRun(current, i), IsRun(current, j), i < j
  PROVE  i + current[i].size <= j
<1>1. current[i].size \in Nat /\ \A k \in i .. i + current[i].size - 1 : current[k].at = k - i + 1
  BY RunFacts
<1>2. current[j].at = 1
  BY RunFacts
<1> SUFFICES ASSUME ~(i + current[i].size <= j) PROVE FALSE
  OBVIOUS
<1>3. j \in i .. i + current[i].size - 1
  BY <1>1
<1>4. j - i + 1 # 1
  OBVIOUS
<1> QED
  BY <1>1, <1>2, <1>3, <1>4

\* The span of the run at i.
RunSpan(current, i) == Span(i - 1, i - 1 + current[i].size)

\* c has the spans of all runs of a text, in their order.
IsSpanOfRun(span, current) ==
  /\ span \in SpansOf(current) /\ span.start + 1 \in 1 .. Len(current)
  /\ IsRun(current, span.start + 1) /\ span = RunSpan(current, span.start + 1)
  /\ span.start < span.end /\ span.end <= Len(current)
InOrder(c) == \A m, n \in 1 .. Len(c) : m < n => c[m].end <= c[n].start
AreCaptures(c, current) ==
  /\ c \in Seq(SpansOf(current)) /\ InOrder(c)
  /\ \A n \in 1 .. Len(c) : IsSpanOfRun(c[n], current)
  /\ \A i \in 1 .. Len(current) :
       IsRun(current, i) => \E n \in 1 .. Len(c) : c[n] = RunSpan(current, i)
  /\ \A m, n \in 1 .. Len(c) : c[m].end = c[n].start => n = m + 1

LEMMA RunIsSpan ==
  ASSUME NEW current \in Seq(Byte), NEW i \in 1 .. Len(current), IsRun(current, i)
  PROVE  /\ IsSpanOfRun(RunSpan(current, i), current)
         /\ RunSpan(current, i).start = i - 1
         /\ RunSpan(current, i).end = i - 1 + current[i].size
<1>1. current[i].size \in Nat \ {0} /\ i + current[i].size - 1 <= Len(current)
  BY RunFacts
<1>2. RunSpan(current, i).start = i - 1 /\ RunSpan(current, i).end = i - 1 + current[i].size
  BY DEF RunSpan, Span
<1>3. (i - 1) + 1 = i
  OBVIOUS
<1>4. i - 1 \in 0 .. Len(current) - 1 /\ i - 1 + current[i].size \in 0 .. Len(current)
  BY <1>1
<1>5. RunSpan(current, i) \in SpansOf(current)
  BY <1>4 DEF RunSpan, SpansOf
<1>6. i - 1 < i - 1 + current[i].size /\ i - 1 + current[i].size <= Len(current)
  BY <1>1
<1> QED
  BY <1>2, <1>3, <1>5, <1>6 DEF IsSpanOfRun

LEMMA CapturesAre ==
  ASSUME NEW current \in Seq(Byte)
  PROVE  AreCaptures(Captures(current), current)
<1> DEFINE c == Captures(current)
           S == {i \in 1 .. Len(current) : IsRun(current, i)}
           starts == Enumerated(Len(current), S)
<1>1. Len(current) \in Nat
  OBVIOUS
<1>2. Enumerates(starts, Len(current), S)
  BY <1>1, EnumeratedIs
<1>3. c = [n \in DOMAIN starts |-> Span(starts[n] - 1, starts[n] - 1 + current[starts[n]].size)]
  <2>1. starts = Numbers(Len(current), LAMBDA i : IsRun(current, i))
    <3>1. [i \in 1 .. Len(current) |-> IF i \in S THEN <<i>> ELSE <<>>]
            = [i \in 1 .. Len(current) |-> IF IsRun(current, i) THEN <<i>> ELSE <<>>]
      OBVIOUS
    <3> QED
      BY <3>1 DEF Numbers, Enumerated
  <2> QED
    BY <2>1 DEF Captures
<1>4. c \in Seq(SpansOf(current))
  BY CapturesType
<1> HIDE DEF c, starts, S
<1>5. /\ starts \in Seq(1 .. Len(current)) /\ DOMAIN starts = 1 .. Len(starts)
      /\ Len(starts) \in Nat /\ Rising(starts)
      /\ \A n \in 1 .. Len(starts) : starts[n] \in 1 .. Len(current) /\ IsRun(current, starts[n])
  BY <1>2 DEF Enumerates, S
<1>6. Len(c) = Len(starts) /\ \A n \in 1 .. Len(c) : c[n] = RunSpan(current, starts[n])
  BY <1>3, <1>5 DEF RunSpan
<1>7. \A n \in 1 .. Len(c) : /\ IsSpanOfRun(c[n], current) /\ c[n].start = starts[n] - 1
                            /\ c[n].end = starts[n] - 1 + current[starts[n]].size
  BY <1>5, <1>6, RunIsSpan
<1>8. ASSUME NEW i \in 1 .. Len(current), IsRun(current, i)
      PROVE  \E n \in 1 .. Len(c) : c[n] = RunSpan(current, i)
  <2>1. PICK n \in 1 .. Len(starts) : starts[n] = i
    BY <1>2, <1>8 DEF Enumerates, S
  <2> QED
    BY <1>6, <2>1
<1>9. ASSUME NEW m \in 1 .. Len(c), NEW n \in 1 .. Len(c), m < n
      PROVE  c[m].end <= c[n].start
  <2>1. starts[m] < starts[n]
    BY <1>5, <1>6, <1>9 DEF Rising
  <2>2. starts[m] + current[starts[m]].size <= starts[n]
    BY <1>5, <1>6, <2>1, RunsAreApart
  <2>3. current[starts[m]].size \in Nat /\ starts[m] \in Nat /\ starts[n] \in Nat
    BY <1>5, <1>6, RunFacts
  <2>4. c[m].end = starts[m] - 1 + current[starts[m]].size /\ c[n].start = starts[n] - 1
    BY <1>7
  <2> DEFINE size == current[starts[m]].size
             a == starts[m]
             b == starts[n]
  <2>5. c[m].end = a - 1 + size /\ c[n].start = b - 1 /\ a + size <= b
        /\ size \in Nat /\ a \in Nat /\ b \in Nat
    BY <2>2, <2>3, <2>4
  <2> HIDE DEF size, a, b
  <2> QED
    BY <2>5
<1>10. ASSUME NEW m \in 1 .. Len(c), NEW n \in 1 .. Len(c), c[m].end = c[n].start
       PROVE  n = m + 1
  <2>1. starts[n] = starts[m] + current[starts[m]].size /\ current[starts[m]].size \in Nat \ {0}
        /\ starts[m] \in 1 .. Len(current) /\ starts[n] \in 1 .. Len(current)
    <3>1. current[starts[m]].size \in Nat \ {0}
      BY <1>5, <1>6, RunFacts
    <3>2. starts[m] \in 1 .. Len(current) /\ starts[n] \in 1 .. Len(current)
      BY <1>5, <1>6
    <3>3. starts[m] - 1 + current[starts[m]].size = starts[n] - 1
      BY <1>7, <1>10
    <3> QED
      BY <3>1, <3>2, <3>3, SMTT(30)
  <2>2. starts[m] < starts[n]
    BY <2>1
  <2>3. ASSUME NEW k \in 1 .. Len(starts), starts[m] < starts[k], starts[k] < starts[n] PROVE FALSE
    <3>1. starts[m] + current[starts[m]].size <= starts[k]
      BY <1>5, <1>6, <2>3, RunsAreApart
    <3>2. starts[k] \in 1 .. Len(current)
      BY <1>5
    <3> QED
      BY <2>1, <2>3, <3>1, <3>2
  <2> QED
    BY <1>1, <1>5, <1>6, <2>2, <2>3, NextToEachOther
<1> QED
  BY <1>4, <1>7, <1>8, <1>9, <1>10 DEF AreCaptures, InOrder, c

-----------------------------------------------------------------------------
(* Segments.                                                               *)

\* The runs that are decoded: those that no neighbour shadows and that decode to something.
Unshadowed(current) ==
  {n \in 1 .. Len(Captures(current)) : ~Shadowed(current, Captures(current), n)}
InnerOf(current, span) == RunAt(current, span).inner
Chosen(current) ==
  {n \in Unshadowed(current) : InnerOf(current, Captures(current)[n]) # <<>>}

AreMatches(matches, current) ==
  /\ matches \in Seq(SpansOf(current)) /\ InOrder(matches)
  /\ \A n \in 1 .. Len(matches) : \E k \in Chosen(current) : matches[n] = Captures(current)[k]
  /\ \A k \in Chosen(current) : \E n \in 1 .. Len(matches) : matches[n] = Captures(current)[k]

\* What FindEncodedSegments keeps of the matches.
MatchesOf(current) ==
  LET found == FindEncodingMatches(current)
  IN Concat([i \in DOMAIN found |-> IF InnerOf(current, found[i]) # <<>> THEN <<found[i]>> ELSE <<>>])

LEMMA FoundAre ==
  ASSUME NEW current \in Seq(Byte)
  PROVE  LET found == FindEncodingMatches(current)
             kept == Enumerated(Len(Captures(current)), Unshadowed(current))
         IN /\ Enumerates(kept, Len(Captures(current)), Unshadowed(current))
            /\ found \in Seq(SpansOf(current)) /\ Len(found) = Len(kept)
            /\ \A i \in 1 .. Len(kept) : found[i] = Captures(current)[kept[i]]
<1> DEFINE c == Captures(current)
           S == Unshadowed(current)
           kept == Enumerated(Len(c), S)
           found == FindEncodingMatches(current)
<1>1. found \in Seq(SpansOf(current)) /\ c \in Seq(SpansOf(current))
  BY FindEncodingMatchesType, CapturesType
<1>2. Len(c) \in Nat
  BY <1>1
<1>3. Enumerates(kept, Len(c), S)
  BY <1>2, EnumeratedIs
<1>4. found = [i \in DOMAIN kept |-> c[kept[i]]]
  <2>1. kept = Numbers(Len(c), LAMBDA n : ~Shadowed(current, c, n))
    <3>1. [i \in 1 .. Len(c) |-> IF i \in S THEN <<i>> ELSE <<>>]
            = [i \in 1 .. Len(c) |-> IF ~Shadowed(current, c, i) THEN <<i>> ELSE <<>>]
      BY DEF Unshadowed
    <3> QED
      BY <3>1 DEF Numbers, Enumerated
  <2> QED
    BY <2>1 DEF FindEncodingMatches
<1>5. DOMAIN kept = 1 .. Len(kept) /\ Len(kept) \in Nat
  BY <1>3 DEF Enumerates
<1> HIDE DEF kept, found, c, S
<1>6. Len(found) = Len(kept) /\ \A i \in 1 .. Len(kept) : found[i] = c[kept[i]]
  BY <1>4, <1>5
<1> QED
  BY <1>1, <1>3, <1>6 DEF kept, found, c, S

LEMMA MatchesAre ==
  ASSUME NEW current \in Seq(Byte)
  PROVE  AreMatches(MatchesOf(current), current)
<1> DEFINE c == Captures(current)
           S == Unshadowed(current)
           kept == Enumerated(Len(c), S)
           found == FindEncodingMatches(current)
           T == {i \in 1 .. Len(found) : InnerOf(current, found[i]) # <<>>}
           at == Enumerated(Len(found), T)
           matches == MatchesOf(current)
<1>1. /\ Enumerates(kept, Len(c), S)
      /\ found \in Seq(SpansOf(current)) /\ Len(found) = Len(kept)
      /\ \A i \in 1 .. Len(kept) : found[i] = c[kept[i]]
  BY FoundAre
<1>2. AreCaptures(c, current)
  BY CapturesAre
<1>3. S \subseteq 1 .. Len(c)
  BY DEF Unshadowed
<1>4. matches = [a \in 1 .. Len(at) |-> found[at[a]]]
  <2>1. DOMAIN found = 1 .. Len(found) /\ Len(found) \in Nat
    BY <1>1
  <2>2. [i \in DOMAIN found |-> IF InnerOf(current, found[i]) # <<>> THEN <<found[i]>> ELSE <<>>]
          = [i \in 1 .. Len(found) |-> IF i \in T THEN <<found[i]>> ELSE <<>>]
    BY <2>1
  <2>3. matches = Picked(found, T)
    BY <2>2 DEF MatchesOf, Picked
  <2> HIDE DEF found, T, matches
  <2>4. found \in Seq(SpansOf(current))
    BY <1>1
  <2> QED
    BY <2>3, <2>4, PickedAre DEF Elements
<1>5. Len(found) \in Nat
  BY <1>1
<1>6. Enumerates(at, Len(found), T)
  BY <1>5, EnumeratedIs
<1>7. Chosen(current) = {n \in S : InnerOf(current, c[n]) # <<>>}
  BY DEF Chosen
<1>8. \A i \in 1 .. Len(found) : i \in T <=> InnerOf(current, found[i]) # <<>>
  OBVIOUS
<1> HIDE DEF c, S, kept, found, T, at, matches
<1>9. /\ at \in Seq(1 .. Len(found)) /\ Len(at) \in Nat /\ Rising(at)
      /\ \A a \in 1 .. Len(at) : at[a] \in 1 .. Len(found) /\ at[a] \in T
  BY <1>6 DEF Enumerates
<1>10. /\ kept \in Seq(1 .. Len(c)) /\ Rising(kept)
       /\ \A i \in 1 .. Len(kept) : kept[i] \in 1 .. Len(c) /\ kept[i] \in S
  BY <1>1 DEF Enumerates
<1>11. \A a \in 1 .. Len(at) : matches[a] \in SpansOf(current)
  BY <1>1, <1>4, <1>9
<1>12. matches \in [1 .. Len(at) -> SpansOf(current)]
  BY <1>4, <1>11
<1>13. matches \in Seq(SpansOf(current)) /\ Len(matches) = Len(at)
  BY <1>9, <1>12, FunctionIsSeq
<1>14. \A a \in 1 .. Len(at) : /\ matches[a] = c[kept[at[a]]] /\ kept[at[a]] \in 1 .. Len(c)
                              /\ kept[at[a]] \in Chosen(current)
  <2>1. TAKE a \in 1 .. Len(at)
  <2>2. at[a] \in 1 .. Len(kept) /\ at[a] \in T
    BY <1>1, <1>9
  <2>3. matches[a] = found[at[a]]
    BY <1>4
  <2>4. found[at[a]] = c[kept[at[a]]]
    BY <1>1, <2>2
  <2>5. InnerOf(current, found[at[a]]) # <<>>
    BY <1>8, <1>9, <2>2
  <2> QED
    BY <1>7, <1>10, <2>2, <2>3, <2>4, <2>5
<1>15. InOrder(matches)
  <2>1. SUFFICES ASSUME NEW m \in 1 .. Len(at), NEW n \in 1 .. Len(at), m < n
                 PROVE  matches[m].end <= matches[n].start
    BY <1>13 DEF InOrder
  <2>2. at[m] < at[n] /\ at[m] \in 1 .. Len(kept) /\ at[n] \in 1 .. Len(kept)
    BY <1>1, <1>9, <2>1 DEF Rising
  <2>3. kept[at[m]] < kept[at[n]]
    BY <1>10, <2>2 DEF Rising
  <2>4. c[kept[at[m]]].end <= c[kept[at[n]]].start
    BY <1>2, <1>14, <2>3 DEF AreCaptures, InOrder
  <2> QED
    BY <1>14, <2>4
<1>16. ASSUME NEW k \in Chosen(current) PROVE \E a \in 1 .. Len(at) : matches[a] = c[k]
  <2>1. k \in S /\ InnerOf(current, c[k]) # <<>> /\ k \in 1 .. Len(c)
    BY <1>3, <1>7
  <2>2. PICK i \in 1 .. Len(kept) : kept[i] = k
    BY <1>1, <2>1 DEF Enumerates
  <2>3. i \in 1 .. Len(found) /\ found[i] = c[k]
    BY <1>1, <2>2
  <2>4. PICK a \in 1 .. Len(at) : at[a] = i
    BY <1>6, <1>8, <2>1, <2>3 DEF Enumerates
  <2> QED
    BY <1>4, <2>3, <2>4
<1> QED
  BY <1>13, <1>14, <1>15, <1>16 DEF AreMatches, c, matches

-----------------------------------------------------------------------------
(* What decodes in a text, and what that makes of places.                  *)

\* How much further on a place is in the encoded text than in the decoded one, and where
\* the gap begins, before the n-th segment.
Offset(segments, n) ==
  IF n = 1 THEN 0 ELSE segments[n - 1].encoded.end - segments[n - 1].decoded.end
DecodedEnd(segments, n) == IF n = 1 THEN 0 ELSE segments[n - 1].decoded.end
EncodedEnd(segments, n) == IF n = 1 THEN 0 ELSE segments[n - 1].encoded.end

\* Segments are apart from each other in both texts, decode to less and to something,
\* and nothing else is moved.
IsSpaced(segments, n) ==
  LET e == segments[n].encoded
      d == segments[n].decoded
  IN /\ e = Span(e.start, e.end) /\ d = Span(d.start, d.end)
     /\ e.start \in Nat /\ e.end \in Nat /\ d.start \in Nat /\ d.end \in Nat
     /\ d.start < d.end /\ d.end - d.start < e.end - e.start
     /\ e.start = d.start + Offset(segments, n)
     /\ DecodedEnd(segments, n) <= d.start
Spaced(segments) ==
  /\ Len(segments) \in Nat /\ DOMAIN segments = 1 .. Len(segments)
  /\ \A n \in 1 .. Len(segments) : IsSpaced(segments, n)

\* The sum so far of what is longer or shorter.
Sums(f, n, x, y) ==
  f = [i \in 1 .. n |-> IF i = 1 THEN 0 ELSE f[i - 1] + x[i - 1] - y[i - 1]]

LEMMA RunningSum ==
  ASSUME NEW n \in Nat, NEW x, NEW y
  PROVE  \E f : Sums(f, n, x, y)
<1> DEFINE Is(f, m) ==
             f = [i \in 1 .. m |-> IF i = 1 THEN 0 ELSE f[i - 1] + x[i - 1] - y[i - 1]]
           S == {m \in Nat : \E f : Is(f, m)}
<1>1. 0 \in S
  <2>1. Is(<<>>, 0)
    OBVIOUS
  <2> QED
    BY <2>1
<1>2. ASSUME NEW m \in Nat, m \in S PROVE m + 1 \in S
  <2>1. PICK f : Is(f, m)
    BY <1>2
  <2> DEFINE last == IF m = 0 THEN 0 ELSE f[m] + x[m] - y[m]
             g == [i \in 1 .. m + 1 |-> IF i \in 1 .. m THEN f[i] ELSE last]
  <2>2. \A i \in 1 .. m : f[i] = IF i = 1 THEN 0 ELSE f[i - 1] + x[i - 1] - y[i - 1]
    BY <2>1
  <2>3. ASSUME NEW i \in 1 .. m + 1
        PROVE  g[i] = IF i = 1 THEN 0 ELSE g[i - 1] + x[i - 1] - y[i - 1]
    <3>1. CASE i \in 1 .. m
      <4>1. g[i] = f[i] /\ (i # 1 => i - 1 \in 1 .. m /\ g[i - 1] = f[i - 1])
        BY <3>1
      <4> HIDE DEF g
      <4> QED
        BY <2>2, <3>1, <4>1
    <3>2. CASE i = m + 1
      <4>1. g[i] = last /\ i - 1 = m /\ (i # 1 => m \in 1 .. m /\ g[m] = f[m])
        BY <3>2
      <4> HIDE DEF g
      <4> QED
        BY <3>2, <4>1
    <3> QED
      BY <3>1, <3>2
  <2> HIDE DEF g
  <2>4. g = [i \in 1 .. m + 1 |-> g[i]]
    BY DEF g
  <2>5. Is(g, m + 1)
    BY <2>3, <2>4
  <2> QED
    BY <2>5
<1>3. n \in S
  <2> HIDE DEF S
  <2> QED
    BY <1>1, <1>2, SetInduction
<1> QED
  BY <1>3 DEF Sums

\* What FindEncodedSegments makes of the runs that are chosen.
AreSegments(segments, current, before) ==
  LET matches == MatchesOf(current)
  IN /\ Spaced(segments) /\ Len(segments) = Len(matches)
     /\ \A n \in 1 .. Len(segments) :
          /\ segments[n].encoded = matches[n] /\ IsSpanOfRun(matches[n], current)
          /\ segments[n].decoded.end - segments[n].decoded.start = Len(InnerOf(current, matches[n]))
          /\ segments[n].original = ToOriginal(before, matches[n])
          /\ segments[n].predecessors = before

LEMMA SpanIs ==
  ASSUME NEW start, NEW end
  PROVE  Span(start, end).start = start /\ Span(start, end).end = end
  BY DEF Span

LEMMA ShiftedEnds ==
  ASSUME NEW before \in Nat, NEW size \in Nat, NEW len \in Nat, NEW shift \in Int,
         NEW start \in Nat, before + size <= start
  PROVE  /\ (before + size) - (before + shift + len) = 0 - (shift + len - size)
         /\ before + shift + len <= start + (shift + len - size)
  OBVIOUS

LEMMA SegmentsAre ==
  ASSUME NEW current \in Seq(Byte), NEW before
  PROVE  AreSegments(FindEncodedSegments(current, before), current, before)
<1> DEFINE matches == MatchesOf(current)
           N == Len(matches)
           Inner(n) == RunAt(current, matches[n]).inner
           Is(f) == f = [n \in DOMAIN matches |-> IF n = 1 THEN 0 ELSE
                           f[n - 1] + Len(Inner(n - 1)) - RunAt(current, matches[n - 1]).size]
           shift == CHOOSE f : Is(f)
           segments == FindEncodedSegments(current, before)
<1>1. AreMatches(matches, current)
  BY MatchesAre
<1>2. matches \in Seq(SpansOf(current)) /\ InOrder(matches) /\ DOMAIN matches = 1 .. N /\ N \in Nat
  BY <1>1 DEF AreMatches
<1>3. segments = [n \in DOMAIN matches |->
                    [encoded |-> matches[n],
                     decoded |-> Span(matches[n].start + shift[n],
                                      matches[n].start + shift[n] + Len(Inner(n))),
                     original |-> ToOriginal(before, matches[n]),
                     predecessors |-> before]]
  BY DEF FindEncodedSegments, MatchesOf, InnerOf, Only
<1> HIDE DEF segments, matches
<1>4. \E f : Is(f)
  <2> DEFINE x == [n \in 1 .. N |-> Len(Inner(n))]
             y == [n \in 1 .. N |-> RunAt(current, matches[n]).size]
  <2>1. PICK f : Sums(f, N, x, y)
    BY <1>2, RunningSum
  <2>2. \A i \in 1 .. N : i # 1 => /\ x[i - 1] = Len(Inner(i - 1))
                                  /\ y[i - 1] = RunAt(current, matches[i - 1]).size
    OBVIOUS
  <2> HIDE DEF x, y, Inner, N
  <2>3. Is(f)
    BY <1>2, <2>1, <2>2 DEF Sums
  <2> QED
    BY <2>3
<1>5. Is(shift)
  BY <1>4
<1> HIDE DEF shift
<1>6. \A n \in 1 .. N : shift[n] = IF n = 1 THEN 0 ELSE
                          shift[n - 1] + Len(Inner(n - 1)) - RunAt(current, matches[n - 1]).size
  BY <1>2, <1>5
<1>7. \A n \in 1 .. N :
        /\ IsSpanOfRun(matches[n], current) /\ Inner(n) # <<>>
        /\ Inner(n) \in Seq(Byte) /\ Len(Inner(n)) \in Nat \ {0}
        /\ RunAt(current, matches[n]).size \in Nat
        /\ Len(Inner(n)) < RunAt(current, matches[n]).size
        /\ matches[n].end = matches[n].start + RunAt(current, matches[n]).size
        /\ matches[n].start \in Nat /\ matches[n].end \in Nat
        /\ matches[n] = Span(matches[n].start, matches[n].end)
  <2>1. TAKE n \in 1 .. N
  <2>2. PICK k \in Chosen(current) : matches[n] = Captures(current)[k]
    BY <1>1 DEF AreMatches
  <2>3. k \in 1 .. Len(Captures(current)) /\ InnerOf(current, matches[n]) # <<>>
    BY <2>2 DEF Chosen, Unshadowed
  <2>4. IsSpanOfRun(matches[n], current)
    BY <2>2, <2>3, CapturesAre DEF AreCaptures
  <2> DEFINE i == matches[n].start + 1
  <2>5. i \in 1 .. Len(current) /\ matches[n] = RunSpan(current, i) /\ IsRun(current, i)
    BY <2>4 DEF IsSpanOfRun
  <2>6. RunAt(current, matches[n]) = current[i]
    BY DEF RunAt
  <2>7. /\ current[i].inner \in Seq(Byte) /\ current[i].size \in Nat
        /\ Len(current[i].inner) < current[i].size
    BY <2>5, ByteFacts
  <2>8. Inner(n) = current[i].inner /\ Inner(n) # <<>>
    BY <2>3, <2>6 DEF InnerOf
  <2>9. matches[n].start = i - 1 /\ matches[n].end = i - 1 + current[i].size
    BY <2>5, RunIsSpan
  <2> HIDE DEF Inner, i
  <2>10. Len(Inner(n)) \in Nat \ {0}
    BY <2>7, <2>8
  <2>11. matches[n].start \in Nat /\ matches[n].end \in Nat
         /\ matches[n].end = matches[n].start + current[i].size
    BY <2>5, <2>7, <2>9
  <2>12. matches[n] = Span(matches[n].start, matches[n].end)
    BY <2>5, <2>9 DEF RunSpan
  <2> QED
    BY <2>4, <2>6, <2>7, <2>8, <2>10, <2>11, <2>12
<1>8. \A m, n \in 1 .. N : m < n => matches[m].end <= matches[n].start
  BY <1>2 DEF InOrder
<1> DEFINE len == [n \in 1 .. N |-> Len(Inner(n))]
           size == [n \in 1 .. N |-> RunAt(current, matches[n]).size]
<1>9. \A n \in 1 .. N : /\ len[n] \in Nat \ {0} /\ size[n] \in Nat /\ len[n] < size[n]
                       /\ matches[n].end = matches[n].start + size[n]
                       /\ shift[n] = IF n = 1 THEN 0 ELSE shift[n - 1] + len[n - 1] - size[n - 1]
  <2>1. \A n \in 1 .. N : len[n] = Len(Inner(n)) /\ size[n] = RunAt(current, matches[n]).size
    OBVIOUS
  <2>2. \A n \in 1 .. N : n # 1 => n - 1 \in 1 .. N
    BY <1>2
  <2> HIDE DEF len, size, Inner
  <2> QED
    BY <1>6, <1>7, <2>1, <2>2
<1>10. /\ Len(segments) = N /\ DOMAIN segments = 1 .. N
       /\ \A n \in 1 .. N :
            /\ segments[n].encoded = matches[n]
            /\ segments[n].decoded = Span(matches[n].start + shift[n],
                                          matches[n].start + shift[n] + len[n])
            /\ segments[n].original = ToOriginal(before, matches[n])
            /\ segments[n].predecessors = before
  BY <1>2, <1>3
<1>11. \A n \in 1 .. N : Inner(n) = InnerOf(current, matches[n]) /\ len[n] = Len(Inner(n))
  BY DEF InnerOf
<1> HIDE DEF len, size, Inner, N
<1> DEFINE P == {n \in Nat : n \in 1 .. N => /\ shift[n] \in Int
                                            /\ matches[n].start + shift[n] >= 0}
<1>12. 0 \in P
  OBVIOUS
<1>13. ASSUME NEW n \in Nat, n \in P PROVE n + 1 \in P
  <2>1. SUFFICES ASSUME n + 1 \in 1 .. N
                 PROVE  shift[n + 1] \in Int /\ matches[n + 1].start + shift[n + 1] >= 0
    OBVIOUS
  <2>2. CASE n = 0
    <3>1. shift[1] = 0
      BY <1>9, <2>1, <2>2
    <3> QED
      BY <1>7, <2>1, <2>2, <3>1
  <2>3. CASE n # 0
    <3>1. n \in 1 .. N /\ n < n + 1 /\ (n + 1) - 1 = n
      BY <1>2, <2>1, <2>3
    <3>2. shift[n] \in Int /\ matches[n].start + shift[n] >= 0
      BY <1>13, <3>1
    <3>3. shift[n + 1] = shift[n] + len[n] - size[n]
      BY <1>9, <2>1, <2>3, <3>1
    <3>4. matches[n].end <= matches[n + 1].start
      BY <1>8, <2>1, <3>1
    <3>5. /\ len[n] \in Nat /\ size[n] \in Nat /\ matches[n].end = matches[n].start + size[n]
          /\ matches[n].start \in Nat /\ matches[n + 1].start \in Nat
      BY <1>7, <1>9, <2>1, <3>1
    <3> QED
      BY <3>2, <3>3, <3>4, <3>5
  <2> QED
    BY <2>2, <2>3
<1>14. \A n \in 1 .. N : shift[n] \in Int /\ matches[n].start + shift[n] >= 0
  <2>1. Nat \subseteq P
    <3> HIDE DEF P
    <3> QED
      BY <1>12, <1>13, SetInduction
  <2>2. \A n \in 1 .. N : n \in Nat
    BY <1>2
  <2> QED
    BY <2>1, <2>2
<1> HIDE DEF P
<1>15. \A n \in 1 .. N : /\ segments[n].decoded.start = matches[n].start + shift[n]
                        /\ segments[n].decoded.end = matches[n].start + shift[n] + len[n]
  <2>1. TAKE n \in 1 .. N
  <2>2. segments[n].decoded = Span(matches[n].start + shift[n], matches[n].start + shift[n] + len[n])
    BY <1>10
  <2> QED
    BY <2>2, SpanIs
<1>16. ASSUME NEW n \in 1 .. N PROVE IsSpaced(segments, n)
  <2> DEFINE e == segments[n].encoded
             d == segments[n].decoded
  <2>1. /\ e = matches[n] /\ d.start = matches[n].start + shift[n] /\ d.end = d.start + len[n]
        /\ matches[n].start \in Nat /\ matches[n].end \in Nat
        /\ matches[n].end = matches[n].start + size[n]
        /\ len[n] \in Nat \ {0} /\ size[n] \in Nat /\ len[n] < size[n]
        /\ shift[n] \in Int /\ matches[n].start + shift[n] >= 0
    BY <1>7, <1>9, <1>10, <1>14, <1>15
  <2>2. e = Span(e.start, e.end) /\ d = Span(d.start, d.end)
    BY <1>7, <1>10, <1>15
  <2>3. /\ e.start \in Nat /\ e.end \in Nat /\ d.start \in Nat /\ d.end \in Nat
        /\ d.start < d.end /\ d.end - d.start < e.end - e.start
    <3> HIDE DEF e, d
    <3> QED
      BY <2>1
  <2>4. Offset(segments, n) = 0 - shift[n] /\ DecodedEnd(segments, n) <= d.start
    <3>1. CASE n = 1
      <4>1. shift[n] = 0
        BY <1>9, <3>1
      <4> QED
        BY <2>3, <3>1, <4>1 DEF Offset, DecodedEnd
    <3>2. CASE n # 1
      <4>1. n - 1 \in 1 .. N /\ n - 1 < n
        BY <1>2, <3>2
      <4>2. /\ segments[n - 1].encoded.end = matches[n - 1].start + size[n - 1]
            /\ segments[n - 1].decoded.end = matches[n - 1].start + shift[n - 1] + len[n - 1]
            /\ matches[n - 1].start \in Nat /\ size[n - 1] \in Nat /\ len[n - 1] \in Nat
            /\ shift[n - 1] \in Int /\ shift[n] = shift[n - 1] + len[n - 1] - size[n - 1]
            /\ matches[n - 1].start + size[n - 1] <= matches[n].start
        BY <1>7, <1>8, <1>9, <1>10, <1>14, <1>15, <3>2, <4>1
      <4>3. Offset(segments, n) = segments[n - 1].encoded.end - segments[n - 1].decoded.end
            /\ DecodedEnd(segments, n) = segments[n - 1].decoded.end
        BY <3>2 DEF Offset, DecodedEnd
      <4> QED
        <5>1. d.start = matches[n].start + shift[n] /\ matches[n].start \in Nat
          BY <2>1
        <5> HIDE DEF d
        <5> QED
          BY <4>2, <4>3, <5>1, ShiftedEnds, SMTT(30)
    <3> QED
      BY <3>1, <3>2
  <2>5. e.start = d.start + Offset(segments, n)
    BY <2>1, <2>4
  <2> QED
    BY <2>2, <2>3, <2>4, <2>5 DEF IsSpaced
<1>17. Spaced(segments)
  BY <1>2, <1>10, <1>16 DEF Spaced
<1>18. \A n \in 1 .. N : segments[n].decoded.end - segments[n].decoded.start
                          = Len(InnerOf(current, matches[n]))
  <2>1. TAKE n \in 1 .. N
  <2>2. len[n] \in Nat /\ shift[n] \in Int /\ matches[n].start \in Nat
    BY <1>7, <1>9, <1>14
  <2> QED
    BY <1>11, <1>15, <2>2
<1> QED
  BY <1>7, <1>10, <1>17, <1>18 DEF AreSegments, segments, matches, N

\* What is known of one segment, and of where the next gap begins.
LEMMA SegmentFacts ==
  ASSUME NEW segments, Spaced(segments), NEW n \in 1 .. Len(segments)
  PROVE  LET e == segments[n].encoded
             d == segments[n].decoded
         IN /\ e.start \in Nat /\ e.end \in Nat /\ d.start \in Nat /\ d.end \in Nat
            /\ d.start < d.end /\ d.end - d.start < e.end - e.start
            /\ e.start = d.start + Offset(segments, n) /\ DecodedEnd(segments, n) <= d.start
            /\ Offset(segments, n + 1) = e.end - d.end
            /\ DecodedEnd(segments, n + 1) = d.end /\ EncodedEnd(segments, n + 1) = e.end
<1>1. IsSpaced(segments, n) /\ n \in Nat /\ n + 1 # 1 /\ (n + 1) - 1 = n
  BY DEF Spaced
<1> QED
  BY <1>1 DEF IsSpaced, Offset, DecodedEnd, EncodedEnd

\* The gaps, and the offsets in them, rise.
LEMMA GapsRise ==
  ASSUME NEW segments, Spaced(segments), NEW n \in 1 .. Len(segments) + 1
  PROVE  /\ Offset(segments, n) \in Nat /\ DecodedEnd(segments, n) \in Nat
         /\ EncodedEnd(segments, n) = DecodedEnd(segments, n) + Offset(segments, n)
         /\ \A m \in 1 .. n : /\ Offset(segments, m) <= Offset(segments, n)
                              /\ DecodedEnd(segments, m) <= DecodedEnd(segments, n)
                              /\ Offset(segments, m) \in Nat /\ DecodedEnd(segments, m) \in Nat
                              /\ EncodedEnd(segments, m)
                                   = DecodedEnd(segments, m) + Offset(segments, m)
<1> DEFINE N == Len(segments)
           Rises(k) ==
             /\ Offset(segments, k) \in Nat /\ DecodedEnd(segments, k) \in Nat
             /\ EncodedEnd(segments, k) = DecodedEnd(segments, k) + Offset(segments, k)
             /\ \A m \in 1 .. k : /\ Offset(segments, m) <= Offset(segments, k)
                                  /\ DecodedEnd(segments, m) <= DecodedEnd(segments, k)
                                  /\ Offset(segments, m) \in Nat /\ DecodedEnd(segments, m) \in Nat
                                  /\ EncodedEnd(segments, m)
                                       = DecodedEnd(segments, m) + Offset(segments, m)
           P == {k \in Nat : k <= N => Rises(k + 1)}
<1>1. N \in Nat
  BY DEF Spaced
<1>2. 0 \in P
  <2>1. Offset(segments, 1) = 0 /\ DecodedEnd(segments, 1) = 0 /\ EncodedEnd(segments, 1) = 0
    BY DEF Offset, DecodedEnd, EncodedEnd
  <2>2. \A m \in 1 .. 1 : m = 1
    OBVIOUS
  <2> QED
    BY <2>1, <2>2
<1>3. ASSUME NEW k \in Nat, k \in P PROVE k + 1 \in P
  <2>1. SUFFICES ASSUME k + 1 <= N PROVE Rises((k + 1) + 1)
    BY <1>1
  <2> DEFINE l == k + 1
             e == segments[l].encoded
             d == segments[l].decoded
  <2>2. l \in 1 .. N /\ l \in Nat /\ Rises(l)
    BY <1>1, <1>3, <2>1
  <2> HIDE DEF l
  <2>3. /\ e.start \in Nat /\ e.end \in Nat /\ d.start \in Nat /\ d.end \in Nat
        /\ d.start < d.end /\ d.end - d.start < e.end - e.start
        /\ e.start = d.start + Offset(segments, l) /\ DecodedEnd(segments, l) <= d.start
        /\ Offset(segments, l + 1) = e.end - d.end
        /\ DecodedEnd(segments, l + 1) = d.end /\ EncodedEnd(segments, l + 1) = e.end
    BY <2>2, SegmentFacts
  <2> HIDE DEF e, d
  <2>4. /\ Offset(segments, l + 1) \in Nat /\ DecodedEnd(segments, l + 1) \in Nat
        /\ EncodedEnd(segments, l + 1) = DecodedEnd(segments, l + 1) + Offset(segments, l + 1)
        /\ Offset(segments, l) <= Offset(segments, l + 1)
        /\ DecodedEnd(segments, l) <= DecodedEnd(segments, l + 1)
    <3>1. Offset(segments, l) \in Nat /\ DecodedEnd(segments, l) \in Nat
      BY <2>2
    <3> DEFINE o == Offset(segments, l)
               p == DecodedEnd(segments, l)
               a == e.start
               b == e.end
               u == d.start
               v == d.end
    <3>2. /\ a \in Nat /\ b \in Nat /\ u \in Nat /\ v \in Nat /\ o \in Nat /\ p \in Nat
          /\ u < v /\ v - u < b - a /\ a = u + o /\ p <= u
      BY <2>3, <3>1
    <3>3. /\ Offset(segments, l + 1) = b - v
          /\ DecodedEnd(segments, l + 1) = v /\ EncodedEnd(segments, l + 1) = b
      BY <2>3
    <3> HIDE DEF o, p, a, b, u, v
    <3>4. b - v \in Nat /\ b = v + (b - v) /\ o <= b - v /\ p <= v
      BY <3>2
    <3> QED
      BY <3>2, <3>3, <3>4 DEF o, p
  <2>5. \A m \in 1 .. l + 1 : m \in 1 .. l \/ m = l + 1
    BY <2>2
  <2>6. Rises(l + 1)
    BY <2>2, <2>4, <2>5
  <2> QED
    BY <2>6 DEF l
<1>4. \A k \in Nat : k \in P
  <2> HIDE DEF P
  <2> QED
    BY <1>2, <1>3, SetInduction
<1>5. n - 1 \in Nat /\ n - 1 <= N /\ (n - 1) + 1 = n
  BY <1>1
<1>6. Rises(n)
  <2> HIDE DEF Rises
  <2>1. Rises((n - 1) + 1)
    BY <1>4, <1>5
  <2> QED
    BY <1>5, <2>1
<1> QED
  BY <1>6

\* Where a segment is that comes before a gap, or behind it.
LEMMA SegmentBefore ==
  ASSUME NEW segments, Spaced(segments), NEW n \in 1 .. Len(segments) + 1,
         NEW k \in 1 .. Len(segments), k < n
  PROVE  /\ segments[k].decoded.end <= DecodedEnd(segments, n)
         /\ segments[k].encoded.end <= EncodedEnd(segments, n)
         /\ segments[k].encoded.end - segments[k].decoded.end <= Offset(segments, n)
<1>0. Len(segments) \in Nat
  BY DEF Spaced
<1>1. k + 1 \in 1 .. n
  BY <1>0
<1>2. /\ Offset(segments, k + 1) <= Offset(segments, n)
      /\ DecodedEnd(segments, k + 1) <= DecodedEnd(segments, n)
      /\ Offset(segments, k + 1) \in Nat /\ DecodedEnd(segments, k + 1) \in Nat
      /\ EncodedEnd(segments, k + 1) = DecodedEnd(segments, k + 1) + Offset(segments, k + 1)
      /\ Offset(segments, n) \in Nat /\ DecodedEnd(segments, n) \in Nat
      /\ EncodedEnd(segments, n) = DecodedEnd(segments, n) + Offset(segments, n)
  BY <1>1, GapsRise
<1>3. /\ Offset(segments, k + 1) = segments[k].encoded.end - segments[k].decoded.end
      /\ DecodedEnd(segments, k + 1) = segments[k].decoded.end
      /\ EncodedEnd(segments, k + 1) = segments[k].encoded.end
  BY SegmentFacts
<1> QED
  BY <1>2, <1>3

LEMMA SegmentBehind ==
  ASSUME NEW segments, Spaced(segments), NEW n \in 1 .. Len(segments),
         NEW k \in 1 .. Len(segments), n <= k
  PROVE  /\ segments[n].decoded.start <= segments[k].decoded.start
         /\ segments[n].encoded.start <= segments[k].encoded.start
         /\ Offset(segments, n) <= Offset(segments, k)
<1>0. Len(segments) \in Nat
  BY DEF Spaced
<1>1. n \in 1 .. k /\ k \in 1 .. Len(segments) + 1
  BY <1>0
<1>2. Offset(segments, n) <= Offset(segments, k) /\ Offset(segments, n) \in Nat
      /\ Offset(segments, k) \in Nat
  BY <1>1, GapsRise
<1>3. /\ segments[n].decoded.start \in Nat /\ segments[n].decoded.end \in Nat
      /\ segments[n].decoded.start < segments[n].decoded.end
      /\ segments[n].encoded.start = segments[n].decoded.start + Offset(segments, n)
      /\ segments[k].decoded.start \in Nat
      /\ segments[k].encoded.start = segments[k].decoded.start + Offset(segments, k)
      /\ DecodedEnd(segments, k) <= segments[k].decoded.start /\ DecodedEnd(segments, k) \in Nat
  BY <1>1, SegmentFacts, GapsRise
<1>4. CASE n = k
  BY <1>2, <1>3, <1>4
<1>5. CASE n < k
  <2>1. segments[n].decoded.end <= DecodedEnd(segments, k)
    BY <1>1, <1>5, SegmentBefore
  <2>2. segments[n].decoded.start <= segments[k].decoded.start
    BY <1>3, <2>1
  <2> QED
    BY <1>2, <1>3, <2>2
<1> QED
  BY <1>4, <1>5

\* The first of the numbers up to n that is in S, or the one behind them.
LEMMA FirstOf ==
  ASSUME NEW n \in Nat, NEW S
  PROVE  \E k \in 1 .. n + 1 : (k <= n => k \in S) /\ (k > 1 => k - 1 \notin S)
<1> DEFINE P == {m \in Nat : \E k \in 1 .. m + 1 : (k <= m => k \in S) /\ (k > 1 => k - 1 \notin S)}
<1>1. 0 \in P
  <2>1. 1 \in 1 .. 0 + 1 /\ ~(1 <= 0) /\ ~(1 > 1)
    OBVIOUS
  <2> QED
    BY <2>1
<1>2. ASSUME NEW m \in Nat, m \in P PROVE m + 1 \in P
  <2>1. PICK k \in 1 .. m + 1 : (k <= m => k \in S) /\ (k > 1 => k - 1 \notin S)
    BY <1>2
  <2>2. CASE k <= m \/ m + 1 \in S
    <3>1. k \in 1 .. (m + 1) + 1 /\ (k <= m + 1 => k \in S)
      BY <2>1, <2>2
    <3> QED
      BY <2>1, <3>1
  <2>3. CASE ~(k <= m) /\ m + 1 \notin S
    <3> DEFINE l == (m + 1) + 1
    <3>1. l \in 1 .. (m + 1) + 1 /\ ~(l <= m + 1) /\ l - 1 = m + 1
      OBVIOUS
    <3> QED
      BY <2>3, <3>1
  <2> QED
    BY <2>2, <2>3
<1> HIDE DEF P
<1>3. n \in P
  BY <1>1, <1>2, SetInduction
<1> QED
  BY <1>3 DEF P

\* A range that is in the n-th gap of the decoded text.
InGap(segments, n, start, end) ==
  /\ n \in 1 .. Len(segments) + 1
  /\ DecodedEnd(segments, n) <= start
  /\ n <= Len(segments) => end <= segments[n].decoded.start

\* Every place of the decoded text is in a segment or in a gap, and so is every place of the
\* encoded text, from which the place in the decoded one is known.
LEMMA DecodedPlace ==
  ASSUME NEW segments, Spaced(segments), NEW x \in Nat
  PROVE  \/ \E k \in 1 .. Len(segments) : /\ segments[k].decoded.start <= x
                                          /\ x < segments[k].decoded.end
         \/ \E n \in 1 .. Len(segments) + 1 : InGap(segments, n, x, x + 1)
<1> DEFINE N == Len(segments)
           S == {k \in 1 .. N : x < segments[k].decoded.end}
<1>1. N \in Nat
  BY DEF Spaced
<1>2. PICK n \in 1 .. N + 1 : (n <= N => n \in S) /\ (n > 1 => n - 1 \notin S)
  <2> HIDE DEF S, N
  <2> QED
    BY <1>1, FirstOf
<1>3. DecodedEnd(segments, n) <= x
  <2>1. CASE n = 1
    BY <2>1 DEF DecodedEnd
  <2>2. CASE n # 1
    <3>1. n - 1 \in 1 .. N /\ (n - 1) + 1 = n /\ n > 1
      BY <1>1, <2>2
    <3>2. segments[n - 1].decoded.end \in Nat /\ DecodedEnd(segments, n) = segments[n - 1].decoded.end
      BY <3>1, SegmentFacts
    <3>3. ~(x < segments[n - 1].decoded.end)
      BY <1>2, <3>1
    <3> QED
      BY <3>2, <3>3
  <2> QED
    BY <2>1, <2>2
<1>4. CASE n <= N
  <2>1. n \in 1 .. N /\ x < segments[n].decoded.end /\ segments[n].decoded.start \in Nat
    BY <1>1, <1>2, <1>4, SegmentFacts
  <2>2. CASE segments[n].decoded.start <= x
    BY <2>1, <2>2
  <2>3. CASE ~(segments[n].decoded.start <= x)
    <3>1. x + 1 <= segments[n].decoded.start
      BY <2>1, <2>3
    <3> QED
      BY <1>3, <3>1 DEF InGap
  <2> QED
    BY <2>2, <2>3
<1>5. CASE ~(n <= N)
  BY <1>3, <1>5 DEF InGap
<1> QED
  BY <1>4, <1>5

LEMMA EncodedPlace ==
  ASSUME NEW segments, Spaced(segments), NEW y \in Nat
  PROVE  \/ \E k \in 1 .. Len(segments) : /\ segments[k].encoded.start <= y
                                          /\ y < segments[k].encoded.end
         \/ \E n \in 1 .. Len(segments) + 1 :
              LET x == y - Offset(segments, n)
              IN x \in Nat /\ InGap(segments, n, x, x + 1)
<1> DEFINE N == Len(segments)
           S == {k \in 1 .. N : y < segments[k].encoded.end}
<1>1. N \in Nat
  BY DEF Spaced
<1>2. PICK n \in 1 .. N + 1 : (n <= N => n \in S) /\ (n > 1 => n - 1 \notin S)
  <2> HIDE DEF S, N
  <2> QED
    BY <1>1, FirstOf
<1>3. EncodedEnd(segments, n) <= y
  <2>1. CASE n = 1
    BY <2>1 DEF EncodedEnd
  <2>2. CASE n # 1
    <3>1. n - 1 \in 1 .. N /\ (n - 1) + 1 = n /\ n > 1
      BY <1>1, <2>2
    <3>2. segments[n - 1].encoded.end \in Nat /\ EncodedEnd(segments, n) = segments[n - 1].encoded.end
      BY <3>1, SegmentFacts
    <3>3. ~(y < segments[n - 1].encoded.end)
      BY <1>2, <3>1
    <3> QED
      BY <3>2, <3>3
  <2> QED
    BY <2>1, <2>2
<1>4. /\ Offset(segments, n) \in Nat /\ DecodedEnd(segments, n) \in Nat
      /\ EncodedEnd(segments, n) = DecodedEnd(segments, n) + Offset(segments, n)
  BY GapsRise
<1> DEFINE x == y - Offset(segments, n)
<1>5. x \in Nat /\ DecodedEnd(segments, n) <= x
  BY <1>3, <1>4
<1>6. CASE n <= N
  <2>1. /\ n \in 1 .. N /\ y < segments[n].encoded.end
        /\ segments[n].encoded.start = segments[n].decoded.start + Offset(segments, n)
        /\ segments[n].decoded.start \in Nat
    BY <1>1, <1>2, <1>6, SegmentFacts
  <2>2. CASE segments[n].encoded.start <= y
    BY <2>1, <2>2
  <2>3. CASE ~(segments[n].encoded.start <= y)
    <3>1. x + 1 <= segments[n].decoded.start
      BY <1>4, <2>1, <2>3
    <3> QED
      BY <1>5, <3>1 DEF InGap
  <2> QED
    BY <2>2, <2>3
<1>7. CASE ~(n <= N)
  BY <1>5, <1>7 DEF InGap
<1> QED
  BY <1>6, <1>7

\* A range that no segment is near to is in a gap, and touches none beside it.
Far(segments, span) == \A k \in 1 .. Len(segments) : ~Overlaps(segments[k].decoded, span)
InsideGap(segments, n, start, end) ==
  /\ n \in 1 .. Len(segments) + 1
  /\ n > 1 => DecodedEnd(segments, n) < start
  /\ n <= Len(segments) => end < segments[n].decoded.start

LEMMA FarIsInGap ==
  ASSUME NEW segments, Spaced(segments), NEW span, span.start \in Nat, span.end \in Nat,
         Far(segments, span)
  PROVE  \E n \in 1 .. Len(segments) + 1 : InsideGap(segments, n, span.start, span.end)
<1> DEFINE N == Len(segments)
           S == {k \in 1 .. N : span.end < segments[k].decoded.start}
<1>1. N \in Nat
  BY DEF Spaced
<1>2. PICK n \in 1 .. N + 1 : (n <= N => n \in S) /\ (n > 1 => n - 1 \notin S)
  <2> HIDE DEF S, N
  <2> QED
    BY <1>1, FirstOf
<1>3. ASSUME n > 1 PROVE DecodedEnd(segments, n) < span.start
  <2>1. n - 1 \in 1 .. N /\ (n - 1) + 1 = n
    BY <1>1, <1>3
  <2>2. /\ segments[n - 1].decoded.end \in Nat /\ segments[n - 1].decoded.start \in Nat
        /\ DecodedEnd(segments, n) = segments[n - 1].decoded.end
    BY <2>1, SegmentFacts
  <2>3. ~(span.end < segments[n - 1].decoded.start)
    BY <1>2, <1>3, <2>1
  <2>4. ~Overlaps(segments[n - 1].decoded, span)
    BY <2>1 DEF Far
  <2> QED
    BY <2>2, <2>3, <2>4 DEF Overlaps
<1> QED
  BY <1>2, <1>3 DEF InsideGap

-----------------------------------------------------------------------------
(* What replacing segments does to places.                                 *)

IsPiece(piece, whole, a, b) ==
  Len(piece) = b - a /\ \A i \in 1 .. b - a : piece[i] = whole[a + i]

LEMMA PieceOf ==
  ASSUME NEW T, NEW whole \in Seq(T), NEW a \in Nat, NEW b \in Nat, a <= b, b <= Len(whole)
  PROVE  /\ Bytes(whole, Span(a, b)) \in Seq(T)
         /\ IsPiece(Bytes(whole, Span(a, b)), whole, a, b)
<1> DEFINE piece == Bytes(whole, Span(a, b))
<1>1. piece = SubSeq(whole, a + 1, b)
  BY DEF Bytes, Span
<1>2. Len(whole) \in Nat
  OBVIOUS
<1>3. piece \in Seq(T) /\ Len(piece) = b - a
  BY <1>1, <1>2
<1>4. ASSUME NEW i \in 1 .. b - a PROVE piece[i] = whole[a + i]
  <2>1. SubSeq(whole, a + 1, b)[i] = whole[(a + 1) + i - 1]
    OBVIOUS
  <2>2. (a + 1) + i - 1 = a + i
    OBVIOUS
  <2> QED
    BY <1>1, <2>1, <2>2
<1> QED
  BY <1>3, <1>4 DEF IsPiece

\* What is at a place of two or three texts that are put together.
AreTwo(joined, a, b) ==
  /\ Len(joined) = Len(a) + Len(b)
  /\ \A i \in 1 .. Len(a) : joined[i] = a[i]
  /\ \A i \in 1 .. Len(b) : joined[Len(a) + i] = b[i]
AreThree(joined, a, b, c) ==
  /\ Len(joined) = Len(a) + Len(b) + Len(c)
  /\ \A i \in 1 .. Len(a) : joined[i] = a[i]
  /\ \A i \in 1 .. Len(b) : joined[Len(a) + i] = b[i]
  /\ \A i \in 1 .. Len(c) : joined[Len(a) + Len(b) + i] = c[i]

LEMMA TwoJoined ==
  ASSUME NEW T, NEW a \in Seq(T), NEW b \in Seq(T)
  PROVE  a \o b \in Seq(T) /\ AreTwo(a \o b, a, b)
<1>1. Len(a) \in Nat /\ Len(b) \in Nat
  OBVIOUS
<1>2. a \o b \in Seq(T) /\ Len(a \o b) = Len(a) + Len(b)
  OBVIOUS
<1>3. ASSUME NEW i \in 1 .. Len(a) PROVE (a \o b)[i] = a[i]
  <2>1. i \in 1 .. Len(a) + Len(b) /\ i <= Len(a)
    BY <1>1
  <2> QED
    BY <2>1, JoinedAt
<1>4. ASSUME NEW i \in 1 .. Len(b) PROVE (a \o b)[Len(a) + i] = b[i]
  <2>1. Len(a) + i \in 1 .. Len(a) + Len(b) /\ ~(Len(a) + i <= Len(a)) /\ (Len(a) + i) - Len(a) = i
    BY <1>1
  <2>2. (a \o b)[Len(a) + i] = IF Len(a) + i <= Len(a) THEN a[Len(a) + i] ELSE b[(Len(a) + i) - Len(a)]
    BY <2>1, JoinedAt
  <2> QED
    BY <2>1, <2>2
<1> QED
  BY <1>2, <1>3, <1>4 DEF AreTwo

LEMMA ThreeJoined ==
  ASSUME NEW T, NEW a \in Seq(T), NEW b \in Seq(T), NEW c \in Seq(T)
  PROVE  a \o (b \o c) \in Seq(T) /\ AreThree(a \o (b \o c), a, b, c)
<1> DEFINE bc == b \o c
           joined == a \o bc
<1>1. Len(a) \in Nat /\ Len(b) \in Nat /\ Len(c) \in Nat
  OBVIOUS
<1>2. /\ bc \in Seq(T) /\ Len(bc) = Len(b) + Len(c)
      /\ \A i \in 1 .. Len(b) : bc[i] = b[i]
      /\ \A i \in 1 .. Len(c) : bc[Len(b) + i] = c[i]
  BY TwoJoined DEF AreTwo
<1> HIDE DEF bc
<1>3. /\ joined \in Seq(T) /\ Len(joined) = Len(a) + Len(bc)
      /\ \A i \in 1 .. Len(a) : joined[i] = a[i]
      /\ \A i \in 1 .. Len(bc) : joined[Len(a) + i] = bc[i]
  <2>1. joined \in Seq(T) /\ AreTwo(joined, a, bc)
    BY <1>2, TwoJoined
  <2> HIDE DEF joined
  <2> QED
    BY <2>1 DEF AreTwo
<1> HIDE DEF joined
<1>4. ASSUME NEW i \in 1 .. Len(b) PROVE joined[Len(a) + i] = b[i]
  <2>1. i \in 1 .. Len(bc)
    BY <1>1, <1>2
  <2> QED
    BY <1>2, <1>3, <2>1
<1>5. ASSUME NEW i \in 1 .. Len(c) PROVE joined[Len(a) + Len(b) + i] = c[i]
  <2>1. Len(b) + i \in 1 .. Len(bc) /\ Len(a) + (Len(b) + i) = Len(a) + Len(b) + i
    BY <1>1, <1>2
  <2>2. joined[Len(a) + (Len(b) + i)] = bc[Len(b) + i]
    BY <1>3, <2>1
  <2> QED
    BY <1>2, <2>1, <2>2
<1>6. Len(joined) = Len(a) + Len(b) + Len(c)
  BY <1>1, <1>2, <1>3
<1>7. joined \in Seq(T) /\ AreThree(joined, a, b, c)
  BY <1>3, <1>4, <1>5, <1>6 DEF AreThree
<1> QED
  BY <1>7 DEF joined, bc

\* r is what replacing the segments before the (m + 1)-th makes of `whole`: what comes out of
\* a segment is in its place, and everything else has moved by its offset.
SegmentIn(r, segments, parts, n) ==
  \A x \in segments[n].decoded.start .. segments[n].decoded.end - 1 :
    r[x + 1] = parts[n][x - segments[n].decoded.start + 1]
GapIn(r, whole, segments, n) ==
  \A x \in 0 .. Len(r) - 1 :
    InGap(segments, n, x, x + 1) => r[x + 1] = whole[x + Offset(segments, n) + 1]
ReplacedUpTo(r, whole, segments, parts, m) ==
  /\ Len(r) = DecodedEnd(segments, m + 1)
  /\ \A n \in 1 .. m : SegmentIn(r, segments, parts, n) /\ GapIn(r, whole, segments, n)
IsReplaced(r, whole, segments, parts) ==
  /\ Len(r) \in Nat /\ Len(r) = Len(whole) - Offset(segments, Len(segments) + 1)
  /\ \A n \in 1 .. Len(segments) : SegmentIn(r, segments, parts, n)
  /\ \A n \in 1 .. Len(segments) + 1 : GapIn(r, whole, segments, n)

\* What can be replaced.
Replaceable(segments, whole, parts, T) ==
  /\ whole \in Seq(T) /\ Spaced(segments)
  /\ \A n \in 1 .. Len(segments) :
       /\ segments[n].encoded.end <= Len(whole)
       /\ parts[n] \in Seq(T)
       /\ Len(parts[n]) = segments[n].decoded.end - segments[n].decoded.start

\* What was there stays there when something is put behind it.
LEMMA StaysIn ==
  ASSUME NEW T, NEW r \in Seq(T), NEW s \in Seq(T), NEW whole, NEW segments, NEW parts, NEW n,
         segments[n].decoded.start \in Nat, segments[n].decoded.end \in Nat,
         segments[n].decoded.end <= Len(r), n <= Len(segments),
         segments[n].decoded.start < segments[n].decoded.end,
         SegmentIn(r, segments, parts, n), GapIn(r, whole, segments, n)
  PROVE  SegmentIn(r \o s, segments, parts, n) /\ GapIn(r \o s, whole, segments, n)
<1> DEFINE t == r \o s
<1>1. Len(r) \in Nat /\ Len(s) \in Nat /\ Len(t) = Len(r) + Len(s)
      /\ \A i \in 1 .. Len(r) : t[i] = r[i]
  BY TwoJoined DEF AreTwo
<1> HIDE DEF t
<1>2. SegmentIn(t, segments, parts, n)
  <2>1. SUFFICES ASSUME NEW x \in segments[n].decoded.start .. segments[n].decoded.end - 1
                 PROVE  t[x + 1] = parts[n][x - segments[n].decoded.start + 1]
    BY DEF SegmentIn
  <2>2. x + 1 \in 1 .. Len(r)
    BY <1>1
  <2>3. r[x + 1] = parts[n][x - segments[n].decoded.start + 1]
    BY DEF SegmentIn
  <2> QED
    BY <1>1, <2>2, <2>3
<1>3. GapIn(t, whole, segments, n)
  <2>1. SUFFICES ASSUME NEW x \in 0 .. Len(t) - 1, InGap(segments, n, x, x + 1)
                 PROVE  t[x + 1] = whole[x + Offset(segments, n) + 1]
    BY DEF GapIn
  <2>2. x + 1 <= segments[n].decoded.start
    BY <2>1 DEF InGap
  <2>3. x \in 0 .. Len(r) - 1 /\ x + 1 \in 1 .. Len(r)
    BY <1>1, <2>2
  <2>4. r[x + 1] = whole[x + Offset(segments, n) + 1]
    BY <2>1, <2>3 DEF GapIn
  <2> QED
    BY <1>1, <2>3, <2>4
<1> QED
  BY <1>2, <1>3 DEF t

LEMMA NextReplaced ==
  ASSUME NEW T, NEW segments, NEW whole, NEW parts, Replaceable(segments, whole, parts, T),
         NEW n \in 1 .. Len(segments), NEW r \in Seq(T),
         ReplacedUpTo(r, whole, segments, parts, n - 1)
  PROVE  LET next == r \o (Bytes(whole, Span(EncodedEnd(segments, n), segments[n].encoded.start))
                             \o parts[n])
         IN next \in Seq(T) /\ ReplacedUpTo(next, whole, segments, parts, n)
<1> DEFINE e == segments[n].encoded
           d == segments[n].decoded
           o == Offset(segments, n)
           p == DecodedEnd(segments, n)
           q == EncodedEnd(segments, n)
           piece == Bytes(whole, Span(q, e.start))
           next == r \o (piece \o parts[n])
<1>1. Spaced(segments) /\ whole \in Seq(T) /\ parts[n] \in Seq(T) /\ Len(segments) \in Nat
      /\ Len(parts[n]) = d.end - d.start /\ e.end <= Len(whole) /\ n \in 1 .. Len(segments) + 1
  BY DEF Replaceable, Spaced
<1>2. /\ e.start \in Nat /\ e.end \in Nat /\ d.start \in Nat /\ d.end \in Nat
      /\ d.start < d.end /\ d.end - d.start < e.end - e.start
      /\ e.start = d.start + o /\ p <= d.start /\ DecodedEnd(segments, n + 1) = d.end
  BY <1>1, SegmentFacts
<1>3. o \in Nat /\ p \in Nat /\ q = p + o
  BY <1>1, GapsRise
<1>4. (n - 1) + 1 = n /\ Len(r) = p
      /\ \A k \in 1 .. n - 1 : SegmentIn(r, segments, parts, k) /\ GapIn(r, whole, segments, k)
  <2>1. (n - 1) + 1 = n
    OBVIOUS
  <2> QED
    BY <2>1 DEF ReplacedUpTo
<1> HIDE DEF e, d, o, p, q
<1>5. Len(whole) \in Nat /\ q \in Nat /\ q <= e.start /\ e.start <= Len(whole)
      /\ e.start - q = d.start - p
  <2>1. Len(whole) \in Nat
    BY <1>1
  <2>2. p + o <= e.start /\ e.start <= Len(whole) /\ e.start - (p + o) = d.start - p
    <3> DEFINE a == e.start
               b == e.end
               u == d.start
               v == d.end
               l == Len(whole)
    <3>1. /\ p \in Nat /\ o \in Nat /\ a \in Nat /\ b \in Nat /\ u \in Nat /\ v \in Nat
          /\ l \in Nat /\ a = u + o /\ p <= u /\ u < v /\ v - u < b - a /\ b <= l
      BY <1>1, <1>2, <1>3, <2>1
    <3> HIDE DEF a, b, u, v, l
    <3>2. p + o <= a /\ a <= l /\ a - (p + o) = u - p
      BY <3>1
    <3> QED
      BY <3>2 DEF a, u, l
  <2> QED
    BY <1>3, <2>1, <2>2
<1>6. piece \in Seq(T) /\ Len(piece) = d.start - p /\ \A i \in 1 .. d.start - p : piece[i] = whole[q + i]
  <2> DEFINE a == e.start
  <2>1. a \in Nat /\ q \in Nat /\ q <= a /\ a <= Len(whole) /\ a - q = d.start - p
    BY <1>2, <1>5
  <2> HIDE DEF a
  <2>2. Bytes(whole, Span(q, a)) \in Seq(T) /\ IsPiece(Bytes(whole, Span(q, a)), whole, q, a)
    BY <1>1, <2>1, PieceOf
  <2>3. piece = Bytes(whole, Span(q, a))
    BY DEF a
  <2> HIDE DEF piece
  <2> QED
    BY <2>1, <2>2, <2>3 DEF IsPiece
<1> HIDE DEF piece
<1>7. /\ next \in Seq(T) /\ Len(next) = Len(r) + Len(piece) + Len(parts[n])
      /\ \A i \in 1 .. Len(r) : next[i] = r[i]
      /\ \A i \in 1 .. Len(piece) : next[Len(r) + i] = piece[i]
      /\ \A i \in 1 .. Len(parts[n]) : next[Len(r) + Len(piece) + i] = parts[n][i]
  <2> DEFINE part == parts[n]
  <2>1. part \in Seq(T) /\ piece \in Seq(T) /\ next = r \o (piece \o part)
    BY <1>1, <1>6
  <2> HIDE DEF part, next
  <2>2. next \in Seq(T) /\ AreThree(next, r, piece, part)
    BY <2>1, ThreeJoined
  <2> QED
    BY <2>2 DEF AreThree, part
<1> HIDE DEF next
<1>8. Len(next) = d.end /\ Len(r) + Len(piece) = d.start
  <2>1. Len(r) = p /\ Len(piece) = d.start - p /\ Len(parts[n]) = d.end - d.start
    BY <1>1, <1>4, <1>6
  <2>2. p \in Nat /\ d.start \in Nat /\ d.end \in Nat
    BY <1>2, <1>3
  <2>3. Len(next) = p + (d.start - p) + (d.end - d.start) /\ Len(r) + Len(piece) = p + (d.start - p)
    BY <1>7, <2>1
  <2> QED
    BY <2>2, <2>3
<1>9. \A k \in 1 .. n - 1 : SegmentIn(next, segments, parts, k) /\ GapIn(next, whole, segments, k)
  <2>1. SUFFICES ASSUME NEW k \in 1 .. n - 1
                 PROVE  SegmentIn(next, segments, parts, k) /\ GapIn(next, whole, segments, k)
    OBVIOUS
  <2>2. k \in 1 .. Len(segments) /\ k < n /\ k <= Len(segments)
    BY <1>1
  <2>3. segments[k].decoded.end <= Len(r)
    BY <1>1, <1>4, <2>2, SegmentBefore DEF p
  <2>4. segments[k].decoded.start \in Nat /\ segments[k].decoded.end \in Nat
        /\ segments[k].decoded.start < segments[k].decoded.end
    BY <1>1, <2>2, SegmentFacts
  <2>5. piece \o parts[n] \in Seq(T)
    BY <1>1, <1>6
  <2>6. SegmentIn(r, segments, parts, k) /\ GapIn(r, whole, segments, k)
    BY <1>4
  <2>7. /\ SegmentIn(r \o (piece \o parts[n]), segments, parts, k)
        /\ GapIn(r \o (piece \o parts[n]), whole, segments, k)
    BY <2>2, <2>3, <2>4, <2>5, <2>6, StaysIn
  <2> QED
    BY <2>7 DEF next
<1>10. SegmentIn(next, segments, parts, n)
  <2>1. SUFFICES ASSUME NEW x \in d.start .. d.end - 1 PROVE next[x + 1] = parts[n][x - d.start + 1]
    BY DEF SegmentIn, d
  <2> DEFINE i == x - d.start + 1
  <2>2. i \in 1 .. Len(parts[n]) /\ d.start + i = x + 1
    <3>1. Len(parts[n]) = d.end - d.start /\ d.start \in Nat /\ d.end \in Nat
      BY <1>1, <1>2
    <3> QED
      BY <3>1
  <2> HIDE DEF next, i
  <2>3. next[d.start + i] = parts[n][i]
    BY <1>7, <1>8, <2>2
  <2> QED
    BY <2>2, <2>3 DEF i
<1>11. GapIn(next, whole, segments, n)
  <2>1. SUFFICES ASSUME NEW x \in 0 .. Len(next) - 1, InGap(segments, n, x, x + 1)
                 PROVE  next[x + 1] = whole[x + o + 1]
    BY DEF GapIn, o
  <2>2. p <= x /\ x + 1 <= d.start /\ x \in Nat
    BY <1>2, <1>8, <2>1 DEF InGap, p, d
  <2> DEFINE i == x + 1 - p
  <2>3. i \in 1 .. d.start - p /\ p + i = x + 1 /\ q + i = x + o + 1
    BY <1>2, <1>3, <2>2
  <2> HIDE DEF next, i
  <2>4. next[p + i] = piece[i] /\ piece[i] = whole[q + i]
    BY <1>4, <1>6, <1>7, <2>3
  <2> QED
    BY <2>3, <2>4
<1>12. \A k \in 1 .. n : k \in 1 .. n - 1 \/ k = n
  OBVIOUS
<1> HIDE DEF next
<1>13. ReplacedUpTo(next, whole, segments, parts, n)
  BY <1>2, <1>8, <1>9, <1>10, <1>11, <1>12 DEF ReplacedUpTo
<1> QED
  BY <1>7, <1>13 DEF next, piece, q, e

LEMMA ReplacedIs ==
  ASSUME NEW T, NEW segments, NEW whole, NEW parts, Replaceable(segments, whole, parts, T)
  PROVE  /\ Replaced(whole, segments, parts) \in Seq(T)
         /\ IsReplaced(Replaced(whole, segments, parts), whole, segments, parts)
<1> DEFINE N == Len(segments)
           Piece(n) == Bytes(whole, Span(EncodedEnd(segments, n), segments[n].encoded.start))
           joined == [n \in DOMAIN segments |-> Piece(n) \o parts[n]]
           r == Replaced(whole, segments, parts)
           q == EncodedEnd(segments, N + 1)
           rest == Bytes(whole, Span(q, Len(whole)))
<1>1. N \in Nat /\ DOMAIN segments = 1 .. N /\ Spaced(segments) /\ whole \in Seq(T)
  BY DEF Replaceable, Spaced
<1>2. r = Concat(joined) \o rest
  BY <1>1 DEF Replaced, EncodedEnd
<1>3. DOMAIN joined = 1 .. N /\ \A n \in 1 .. N : joined[n] = Piece(n) \o parts[n]
  BY <1>1
<1> HIDE DEF joined, N
<1>4. PICK f : Steps(f, joined, N) /\ Concat(joined) = f[N]
  BY <1>1, <1>3, ConcatSteps
<1> DEFINE P == {m \in Nat : m <= N => f[m] \in Seq(T) /\ ReplacedUpTo(f[m], whole, segments, parts, m)}
<1>5. 0 \in P
  <2>1. f[0] = <<>>
    BY <1>4 DEF Steps
  <2>2. <<>> \in Seq(T) /\ Len(<<>>) = 0 /\ DecodedEnd(segments, 0 + 1) = 0 /\ 1 .. 0 = {}
    BY DEF DecodedEnd
  <2>3. ReplacedUpTo(<<>>, whole, segments, parts, 0)
    BY <2>2 DEF ReplacedUpTo
  <2> QED
    BY <2>1, <2>2, <2>3
<1>6. ASSUME NEW m \in Nat, m \in P PROVE m + 1 \in P
  <2>1. SUFFICES ASSUME m + 1 <= N
                 PROVE  f[m + 1] \in Seq(T) /\ ReplacedUpTo(f[m + 1], whole, segments, parts, m + 1)
    OBVIOUS
  <2> DEFINE n == m + 1
  <2>2. n \in 1 .. N /\ n - 1 = m /\ f[m] \in Seq(T) /\ ReplacedUpTo(f[m], whole, segments, parts, m)
    BY <1>1, <1>6, <2>1
  <2> HIDE DEF n
  <2>3. f[n] = f[m] \o (Piece(n) \o parts[n])
    BY <1>3, <1>4, <2>2, Zenon DEF Steps
  <2>4. f[n] \in Seq(T) /\ ReplacedUpTo(f[n], whole, segments, parts, n)
    BY <2>2, <2>3, NextReplaced DEF N
  <2> QED
    BY <2>4 DEF n
<1>7. f[N] \in Seq(T) /\ ReplacedUpTo(f[N], whole, segments, parts, N)
  <2>1. N \in P
    <3> HIDE DEF P
    <3> QED
      BY <1>1, <1>5, <1>6, SetInduction
  <2> QED
    BY <1>1, <2>1
<1> HIDE DEF P
<1> DEFINE p == DecodedEnd(segments, N + 1)
           o == Offset(segments, N + 1)
           g == f[N]
<1>8. N + 1 \in 1 .. N + 1
  BY <1>1
<1>9. o \in Nat /\ p \in Nat /\ q = p + o /\ Len(g) = p /\ Len(whole) \in Nat
  BY <1>1, <1>7, <1>8, GapsRise DEF N, ReplacedUpTo
<1>10. q <= Len(whole)
  <2>1. CASE N = 0
    BY <1>9, <2>1 DEF EncodedEnd
  <2>2. CASE N # 0
    <3>1. N \in 1 .. N /\ N + 1 # 1 /\ (N + 1) - 1 = N
      BY <1>1, <2>2
    <3>2. segments[N].encoded.end <= Len(whole)
      BY <3>1 DEF Replaceable, N
    <3> QED
      BY <3>1, <3>2 DEF EncodedEnd
  <2> QED
    BY <2>1, <2>2
<1> HIDE DEF p, o, q
<1>11. rest \in Seq(T) /\ IsPiece(rest, whole, q, Len(whole))
  <2> DEFINE l == Len(whole)
  <2>1. q \in Nat /\ l \in Nat /\ q <= l /\ l <= Len(whole)
    BY <1>9, <1>10
  <2> HIDE DEF l
  <2>2. Bytes(whole, Span(q, l)) \in Seq(T) /\ IsPiece(Bytes(whole, Span(q, l)), whole, q, l)
    BY <1>1, <2>1, PieceOf
  <2> QED
    BY <2>2 DEF l
<1> HIDE DEF rest, g
<1>12. g \in Seq(T) /\ r = g \o rest
  BY <1>2, <1>4, <1>7 DEF g
<1> HIDE DEF r
<1>13. r \in Seq(T) /\ AreTwo(r, g, rest)
  BY <1>11, <1>12, TwoJoined
<1>14. Len(r) = Len(whole) - o /\ Len(r) \in Nat
  BY <1>9, <1>10, <1>11, <1>13 DEF AreTwo, IsPiece
<1>15. ASSUME NEW n \in 1 .. N PROVE SegmentIn(r, segments, parts, n) /\ GapIn(r, whole, segments, n)
  <2>1. n \in 1 .. N + 1 /\ n < N + 1 /\ n <= N
    BY <1>1
  <2>2. segments[n].decoded.start \in Nat /\ segments[n].decoded.end \in Nat
        /\ segments[n].decoded.start < segments[n].decoded.end
    BY <1>1, SegmentFacts DEF N
  <2>3. segments[n].decoded.end <= Len(g)
    BY <1>1, <1>8, <1>9, <2>1, SegmentBefore DEF N, p
  <2>4. SegmentIn(g, segments, parts, n) /\ GapIn(g, whole, segments, n)
    BY <1>7 DEF ReplacedUpTo, g
  <2>5. SegmentIn(g \o rest, segments, parts, n) /\ GapIn(g \o rest, whole, segments, n)
    BY <1>11, <1>12, <2>1, <2>2, <2>3, <2>4, StaysIn DEF N
  <2> QED
    BY <1>12, <2>5
<1>16. GapIn(r, whole, segments, N + 1)
  <2>1. SUFFICES ASSUME NEW x \in 0 .. Len(r) - 1, InGap(segments, N + 1, x, x + 1)
                 PROVE  r[x + 1] = whole[x + o + 1]
    BY DEF GapIn, o
  <2>2. p <= x
    BY <2>1 DEF InGap, p
  <2> DEFINE i == x + 1 - p
  <2>3. /\ i \in 1 .. Len(whole) - q /\ p + i = x + 1 /\ q + i = x + o + 1
    BY <1>9, <1>10, <1>14, <2>2
  <2>4. Len(rest) = Len(whole) - q /\ Len(g) = p
    BY <1>9, <1>11 DEF IsPiece
  <2> HIDE DEF i
  <2>5. r[Len(g) + i] = rest[i]
    BY <1>13, <2>3, <2>4 DEF AreTwo
  <2>6. rest[i] = whole[q + i]
    BY <1>11, <2>3 DEF IsPiece
  <2> QED
    BY <2>3, <2>4, <2>5, <2>6
<1>17. \A n \in 1 .. N + 1 : n \in 1 .. N \/ n = N + 1
  BY <1>1
<1>18. \A n \in 1 .. N + 1 : GapIn(r, whole, segments, n)
  BY <1>15, <1>16, <1>17
<1> QED
  BY <1>13, <1>14, <1>15, <1>18 DEF IsReplaced, N, o, r

-----------------------------------------------------------------------------
(* Where the bytes of a decoded text come from.                            *)

\* Every byte comes from bytes of the fragment: itself, or encoded ones.
Places == 0 .. Len(text) - 1
Traced(level) ==
  /\ level.current \in Seq(Byte)
  /\ level.origins \in Seq(SUBSET Places) /\ Len(level.origins) = Len(level.current)
  /\ \A i \in 1 .. Len(level.current) : \A o \in level.origins[i] :
       text[o + 1].encoding # Unencoded \/ text[o + 1] = level.current[i]
  /\ level.next = FindEncodedSegments(level.current, level.segments)

\* What the bytes in a range come from.
Sources(level, span) == UNION {level.origins[i] : i \in span.start + 1 .. span.end}

\* A level is what the one before decodes to.
DecodesTo(before, after) ==
  /\ AreSegments(before.next, before.current, before.segments)
  /\ after.segments = before.next
  /\ Len(after.current) = Len(before.current) - Offset(before.next, Len(before.next) + 1)
  /\ \A n \in 1 .. Len(before.next) :
       LET d == before.next[n].decoded
       IN \A x \in d.start .. d.end - 1 :
            x < Len(after.current) /\ after.origins[x + 1] = Sources(before, before.next[n].encoded)
  /\ \A n \in 1 .. Len(before.next) + 1 : \A x \in 0 .. Len(after.current) - 1 :
       InGap(before.next, n, x, x + 1) =>
         /\ after.current[x + 1] = before.current[x + Offset(before.next, n) + 1]
         /\ after.origins[x + 1] = before.origins[x + Offset(before.next, n) + 1]

LEMMA UndecodedIsTraced ==
  ASSUME text \in Texts
  PROVE  Traced(Undecoded) /\ Undecoded.segments = <<>> /\ Undecoded.current = text
         /\ \A i \in 1 .. Len(text) : Undecoded.origins[i] = {i - 1}
<1> DEFINE origins == [i \in DOMAIN text |-> {i - 1}]
<1>1. text \in Seq(Byte) /\ Len(text) \in Nat /\ DOMAIN text = 1 .. Len(text)
  BY InputAssumption
<1>2. \A i \in 1 .. Len(text) : {i - 1} \in SUBSET Places
  BY <1>1 DEF Places
<1>3. origins \in [1 .. Len(text) -> SUBSET Places]
  BY <1>1, <1>2
<1>4. \A i \in 1 .. Len(text) : origins[i] = {i - 1}
  BY <1>1
<1> HIDE DEF origins
<1>5. origins \in Seq(SUBSET Places) /\ Len(origins) = Len(text)
  BY <1>1, <1>3, FunctionIsSeq
<1>6. /\ Undecoded.current = text /\ Undecoded.segments = <<>> /\ Undecoded.origins = origins
      /\ Undecoded.next = FindEncodedSegments(text, <<>>)
  BY DEF Undecoded, Level, origins
<1>7. \A i \in 1 .. Len(text) : \A o \in origins[i] : text[o + 1] = text[i]
  <2>1. \A i \in 1 .. Len(text) : (i - 1) + 1 = i
    OBVIOUS
  <2> QED
    BY <1>4, <2>1
<1> QED
  BY <1>1, <1>4, <1>5, <1>6, <1>7 DEF Traced

\* The bytes of the runs, and what they decode to.
LEMMA SegmentInText ==
  ASSUME NEW level, Traced(level), NEW n \in 1 .. Len(level.next)
  PROVE  LET e == level.next[n].encoded
             inner == InnerOf(level.current, e)
         IN /\ AreSegments(level.next, level.current, level.segments)
            /\ e.start \in Nat /\ e.end \in Nat /\ e.start < e.end /\ e.end <= Len(level.current)
            /\ IsRun(level.current, e.start + 1) /\ e = RunSpan(level.current, e.start + 1)
            /\ inner \in Seq(Byte)
            /\ Len(inner) = level.next[n].decoded.end - level.next[n].decoded.start
<1> DEFINE e == level.next[n].encoded
<1>1. AreSegments(level.next, level.current, level.segments) /\ level.current \in Seq(Byte)
  BY SegmentsAre DEF Traced
<1>2. IsSpanOfRun(e, level.current)
      /\ Len(InnerOf(level.current, e)) = level.next[n].decoded.end - level.next[n].decoded.start
  BY <1>1 DEF AreSegments
<1>3. e.start \in Nat /\ e.end \in Nat
  BY <1>1, SegmentFacts DEF AreSegments
<1>4. e.start + 1 \in 1 .. Len(level.current)
  BY <1>2 DEF IsSpanOfRun
<1>5. InnerOf(level.current, e) \in Seq(Byte)
  BY <1>1, <1>4, ByteFacts DEF InnerOf, RunAt
<1> QED
  BY <1>1, <1>2, <1>3, <1>5 DEF IsSpanOfRun

\* What is before a gap is in the text, and what the gap moves stays in it.
LEMMA GapInText ==
  ASSUME NEW level, Traced(level), NEW after, DecodesTo(level, after),
         NEW n \in 1 .. Len(level.next) + 1, NEW x \in Nat, x < Len(after.current),
         InGap(level.next, n, x, x + 1)
  PROVE  /\ Offset(level.next, n) \in Nat /\ x + Offset(level.next, n) < Len(level.current)
         /\ x \in 0 .. Len(after.current) - 1
<1> DEFINE N == Len(level.next)
<1>1. Spaced(level.next) /\ N \in Nat
  BY DEF DecodesTo, AreSegments, Spaced
<1>2. N + 1 \in 1 .. N + 1 /\ n \in 1 .. N + 1 /\ n \in 1 .. N + 1
  BY <1>1
<1>3. /\ Offset(level.next, n) \in Nat /\ Offset(level.next, N + 1) \in Nat
      /\ Offset(level.next, n) <= Offset(level.next, N + 1)
  BY <1>1, <1>2, GapsRise
<1>4. Len(level.current) \in Nat /\ Len(after.current) = Len(level.current) - Offset(level.next, N + 1)
  BY DEF Traced, DecodesTo
<1> QED
  BY <1>3, <1>4

LEMMA DecodedIsTraced ==
  ASSUME NEW level, Traced(level)
  PROVE  Traced(Decoded(level)) /\ DecodesTo(level, Decoded(level))
<1> DEFINE S == level.next
           N == Len(S)
           inners == [n \in DOMAIN S |-> RunAt(level.current, S[n].encoded).inner]
           Origin(n) == UNION ToSet(Bytes(level.origins, S[n].encoded))
           sources == [n \in DOMAIN S |-> [i \in DOMAIN inners[n] |-> Origin(n)]]
           current == Replaced(level.current, S, inners)
           origins == Replaced(level.origins, S, sources)
           after == Decoded(level)
<1>1. /\ AreSegments(S, level.current, level.segments) /\ Spaced(S) /\ N \in Nat
      /\ DOMAIN S = 1 .. N
  BY SegmentsAre DEF Traced, AreSegments, Spaced
<1>2. /\ level.current \in Seq(Byte) /\ level.origins \in Seq(SUBSET Places)
      /\ Len(level.origins) = Len(level.current) /\ Len(level.current) \in Nat
  BY DEF Traced
<1>3. /\ after.current = current /\ after.origins = origins /\ after.segments = S
      /\ after.next = FindEncodedSegments(current, S)
  BY DEF Decoded, Level
<1>4. \A n \in 1 .. N : inners[n] = InnerOf(level.current, S[n].encoded)
  BY <1>1 DEF InnerOf
<1>5. \A n \in 1 .. N : sources[n] = [i \in DOMAIN inners[n] |-> Origin(n)]
  BY <1>1
<1> HIDE DEF inners, sources, current, origins, after
<1>6. \A n \in 1 .. N :
        /\ S[n].encoded.start \in Nat /\ S[n].encoded.end \in Nat
        /\ S[n].encoded.start < S[n].encoded.end /\ S[n].encoded.end <= Len(level.current)
        /\ S[n].encoded = RunSpan(level.current, S[n].encoded.start + 1)
        /\ inners[n] \in Seq(Byte) /\ Len(inners[n]) = S[n].decoded.end - S[n].decoded.start
  BY <1>4, SegmentInText
<1>7. \A n \in 1 .. N : Origin(n) = Sources(level, S[n].encoded) /\ Origin(n) \in SUBSET Places
  <2>1. TAKE n \in 1 .. N
  <2> DEFINE a == S[n].encoded.start
             b == S[n].encoded.end
             piece == Bytes(level.origins, S[n].encoded)
  <2>2. a \in Nat /\ b \in Nat /\ a <= b /\ b <= Len(level.origins)
    BY <1>2, <1>6
  <2>3. S[n].encoded = Span(a, b)
    <3>1. IsSpaced(S, n)
      BY <1>1 DEF Spaced
    <3> QED
      BY <3>1 DEF IsSpaced
  <2> HIDE DEF a, b, S
  <2>4. piece \in Seq(SUBSET Places) /\ IsPiece(piece, level.origins, a, b)
    BY <1>2, <2>2, <2>3, PieceOf
  <2> HIDE DEF piece
  <2>5. DOMAIN piece = 1 .. b - a /\ \A i \in 1 .. b - a : piece[i] = level.origins[a + i]
    BY <2>2, <2>4 DEF IsPiece
  <2>6. ToSet(piece) = {piece[i] : i \in 1 .. b - a}
    BY <2>5 DEF ToSet
  <2>7. {piece[i] : i \in 1 .. b - a} = {level.origins[j] : j \in a + 1 .. b}
    <3>1. \A i \in 1 .. b - a : a + i \in a + 1 .. b
      BY <2>2
    <3>2. ASSUME NEW j \in a + 1 .. b
          PROVE  j - a \in 1 .. b - a /\ piece[j - a] = level.origins[j]
      <4>1. j - a \in 1 .. b - a /\ a + (j - a) = j
        BY <2>2
      <4> QED
        BY <2>5, <4>1
    <3> QED
      BY <2>5, <3>1, <3>2
  <2>8. Origin(n) = Sources(level, S[n].encoded)
    <3>1. UNION ToSet(piece) = UNION {level.origins[j] : j \in a + 1 .. b}
      BY <2>6, <2>7
    <3>2. Sources(level, S[n].encoded) = UNION {level.origins[j] : j \in a + 1 .. b}
      BY DEF Sources, a, b
    <3>3. Origin(n) = UNION ToSet(piece)
      BY DEF piece
    <3> HIDE DEF Origin, piece, a, b
    <3> QED
      BY <3>1, <3>2, <3>3, Zenon
  <2>9. \A i \in 1 .. b - a : piece[i] \in SUBSET Places
    <3> DEFINE T == SUBSET Places
    <3>1. piece \in Seq(T) /\ Len(piece) = b - a
      BY <2>4 DEF IsPiece
    <3> HIDE DEF T
    <3>2. \A i \in 1 .. Len(piece) : piece[i] \in T
      BY <3>1
    <3> QED
      BY <3>1, <3>2 DEF T
  <2>10. UNION ToSet(piece) \in SUBSET Places
    BY <2>6, <2>9
  <2> QED
    BY <2>8, <2>10 DEF piece
<1> HIDE DEF Origin
<1>8. \A n \in 1 .. N : sources[n] \in Seq(SUBSET Places) /\ Len(sources[n]) = Len(inners[n])
                       /\ \A i \in 1 .. Len(inners[n]) : sources[n][i] = Origin(n)
  <2>1. TAKE n \in 1 .. N
  <2> DEFINE l == Len(inners[n])
             some == sources[n]
  <2>2. l \in Nat /\ DOMAIN inners[n] = 1 .. l
    BY <1>6
  <2>3. some = [i \in 1 .. l |-> Origin(n)]
    BY <1>5, <2>2
  <2>4. some \in [1 .. l -> SUBSET Places] /\ \A i \in 1 .. l : some[i] = Origin(n)
    BY <1>7, <2>3
  <2> HIDE DEF l, some
  <2>5. some \in Seq(SUBSET Places) /\ Len(some) = l
    BY <2>2, <2>4, FunctionIsSeq
  <2> QED
    BY <2>4, <2>5 DEF l, some
<1>9. Replaceable(S, level.current, inners, Byte) /\ Replaceable(S, level.origins, sources, SUBSET Places)
  BY <1>1, <1>2, <1>6, <1>8 DEF Replaceable
<1>10. current \in Seq(Byte) /\ IsReplaced(current, level.current, S, inners)
  BY <1>9, ReplacedIs DEF current
<1>11. origins \in Seq(SUBSET Places) /\ IsReplaced(origins, level.origins, S, sources)
  BY <1>9, ReplacedIs DEF origins
<1>12. Len(origins) = Len(current) /\ Len(current) = Len(level.current) - Offset(S, N + 1)
       /\ Len(current) \in Nat
  BY <1>2, <1>10, <1>11 DEF IsReplaced
<1>13. ASSUME NEW n \in 1 .. N, NEW x \in S[n].decoded.start .. S[n].decoded.end - 1
       PROVE  x < Len(current) /\ origins[x + 1] = Sources(level, S[n].encoded)
  <2>1. SegmentIn(origins, S, sources, n)
    BY <1>11 DEF IsReplaced
  <2>2. origins[x + 1] = sources[n][x - S[n].decoded.start + 1]
    BY <2>1 DEF SegmentIn
  <2>3. S[n].decoded.start \in Nat /\ S[n].decoded.end \in Nat
    BY <1>1, SegmentFacts
  <2>4. x - S[n].decoded.start + 1 \in 1 .. Len(inners[n])
    BY <1>6, <2>3, SMTT(30)
  <2>5. origins[x + 1] = Sources(level, S[n].encoded)
    BY <1>7, <1>8, <2>2, <2>4
  <2>6. x < Len(current)
    <3>1. N + 1 \in 1 .. N + 1 /\ n < N + 1
      BY <1>1
    <3>2. /\ S[n].encoded.end - S[n].decoded.end <= Offset(S, N + 1)
          /\ S[n].decoded.end <= DecodedEnd(S, N + 1)
      BY <1>1, <3>1, SegmentBefore
    <3>3. EncodedEnd(S, N + 1) = DecodedEnd(S, N + 1) + Offset(S, N + 1)
          /\ DecodedEnd(S, N + 1) \in Nat /\ Offset(S, N + 1) \in Nat
      BY <1>1, <3>1, GapsRise
    <3>4. EncodedEnd(S, N + 1) <= Len(level.current)
      <4>1. N \in 1 .. N /\ (N + 1) - 1 = N /\ N + 1 # 1
        BY <1>1
      <4> QED
        BY <1>6, <4>1 DEF EncodedEnd
    <3> QED
      <4> DEFINE l == Len(level.current)
                 m == Len(current)
                 p == DecodedEnd(S, N + 1)
                 o == Offset(S, N + 1)
                 v == S[n].decoded.end
      <4>1. l \in Nat /\ m = l - o /\ p \in Nat /\ o \in Nat /\ v \in Nat /\ v <= p /\ p + o <= l
        BY <1>2, <1>12, <2>3, <3>2, <3>3, <3>4
      <4>2. x < v /\ x \in Int
        BY <2>3
      <4> HIDE DEF l, m, p, o, v
      <4>3. x < m
        BY <4>1, <4>2
      <4> QED
        BY <4>3 DEF m
  <2> QED
    BY <2>5, <2>6
<1>14. ASSUME NEW n \in 1 .. N + 1, NEW x \in 0 .. Len(current) - 1, InGap(S, n, x, x + 1)
       PROVE  /\ current[x + 1] = level.current[x + Offset(S, n) + 1]
              /\ origins[x + 1] = level.origins[x + Offset(S, n) + 1]
  <2>1. GapIn(current, level.current, S, n) /\ GapIn(origins, level.origins, S, n)
    BY <1>10, <1>11 DEF IsReplaced
  <2> QED
    BY <1>12, <1>14, <2>1 DEF GapIn
<1>15. DecodesTo(level, after)
  BY <1>1, <1>3, <1>12, <1>13, <1>14 DEF DecodesTo
<1>16. ASSUME NEW i \in 1 .. Len(current), NEW o \in origins[i]
       PROVE  text[o + 1].encoding # Unencoded \/ text[o + 1] = current[i]
  <2> DEFINE x == i - 1
  <2>1. x \in Nat /\ x \in 0 .. Len(current) - 1 /\ x + 1 = i /\ x < Len(current)
    BY <1>12
  <2> HIDE DEF x, S
  <2>2. CASE \E k \in 1 .. N : S[k].decoded.start <= x /\ x < S[k].decoded.end
    <3>1. PICK k \in 1 .. N : S[k].decoded.start <= x /\ x < S[k].decoded.end
      BY <2>2
    <3>2. x \in S[k].decoded.start .. S[k].decoded.end - 1
      <4>1. S[k].decoded.start \in Nat /\ S[k].decoded.end \in Nat
        BY <1>1, <3>1, SegmentFacts
      <4> QED
        BY <2>1, <3>1, <4>1
    <3>3. origins[i] = Sources(level, S[k].encoded)
      BY <1>13, <2>1, <3>2
    <3>4. PICK j \in S[k].encoded.start + 1 .. S[k].encoded.end : o \in level.origins[j]
      BY <1>16, <3>3 DEF Sources
    <3> DEFINE a == S[k].encoded.start + 1
    <3>5. IsRun(level.current, a) /\ a \in 1 .. Len(level.current)
          /\ S[k].encoded.end = a + level.current[a].size - 1
      <4>1. IsRun(level.current, a)
        BY SegmentInText DEF S
      <4>2. a \in 1 .. Len(level.current)
        BY <1>2, <1>6, SMTT(30)
      <4>3. S[k].encoded.end = RunSpan(level.current, a).end /\ S[k].encoded.end \in Nat
        BY <1>6
      <4>4. RunSpan(level.current, a).end = a - 1 + level.current[a].size
            /\ level.current[a].size \in Nat
        BY <1>2, <4>1, <4>2, RunIsSpan, RunFacts
      <4>5. a \in Nat
        BY <1>6
      <4> HIDE DEF a
      <4> QED
        BY <4>1, <4>2, <4>3, <4>4, <4>5
    <3>6. j \in a .. a + level.current[a].size - 1
      BY <3>4, <3>5
    <3> HIDE DEF a
    <3>7. j \in 1 .. Len(level.current) /\ level.current[j].encoding # Unencoded
      BY <1>2, <3>5, <3>6, RunFacts
    <3>8. text[o + 1].encoding # Unencoded \/ text[o + 1] = level.current[j]
      BY <3>4, <3>7 DEF Traced
    <3> QED
      BY <3>7, <3>8
  <2>3. CASE \E n \in 1 .. N + 1 : InGap(S, n, x, x + 1)
    <3>1. PICK n \in 1 .. N + 1 : InGap(S, n, x, x + 1)
      BY <2>3
    <3> DEFINE j == x + Offset(S, n) + 1
    <3>2. current[i] = level.current[j] /\ origins[i] = level.origins[j]
      BY <1>14, <2>1, <3>1
    <3>3. Offset(S, n) \in Nat /\ x + Offset(S, n) < Len(level.current)
      BY <1>3, <1>15, <2>1, <3>1, GapInText DEF S
    <3>4. j \in 1 .. Len(level.current)
      BY <1>2, <2>1, <3>3
    <3> HIDE DEF j
    <3> QED
      BY <1>16, <3>2, <3>4 DEF Traced
  <2> QED
    BY <1>1, <2>1, <2>2, <2>3, DecodedPlace
<1>17. Traced(after)
  BY <1>3, <1>10, <1>11, <1>12, <1>16 DEF Traced
<1> QED
  BY <1>15, <1>17 DEF after

-----------------------------------------------------------------------------
(* What a range that overlaps segments is mapped to.                       *)

NearOf(segments, span) == {k \in 1 .. Len(segments) : Overlaps(segments[k].decoded, span)}

\* What one segment makes of a range.
LEMMA MappedIs ==
  ASSUME NEW segments, Spaced(segments), NEW k \in 1 .. Len(segments),
         NEW span, span.start \in Nat, span.end \in Nat
  PROVE  LET e == segments[k].encoded
             d == segments[k].decoded
             mapped == Mapped(segments[k], span)
         IN /\ mapped.start \in Nat /\ mapped.end \in Nat
            /\ mapped = Span(mapped.start, mapped.end)
            /\ d.start <= span.start => mapped.start = e.start
            /\ span.start <= d.start => mapped.start = span.start + Offset(segments, k)
            /\ span.end <= d.end => mapped.end = e.end
            /\ d.end <= span.end => mapped.end = span.end + Offset(segments, k + 1)
            /\ mapped.start <= e.start /\ e.end <= mapped.end
<1> DEFINE e == segments[k].encoded
           d == segments[k].decoded
           mapped == Mapped(segments[k], span)
           low == Min({d.start, span.start})
           high == Max({d.end, span.end})
<1>1. /\ e.start \in Nat /\ e.end \in Nat /\ d.start \in Nat /\ d.end \in Nat
      /\ d.end - d.start < e.end - e.start
      /\ e.start = d.start + Offset(segments, k) /\ Offset(segments, k + 1) = e.end - d.end
  BY SegmentFacts
<1>2. Offset(segments, k) \in Nat
  <2>1. k \in 1 .. Len(segments) + 1
    BY DEF Spaced
  <2> QED
    BY <2>1, GapsRise
<1>3. mapped.start = e.start + low - d.start /\ mapped.end = e.end + high - d.end
      /\ mapped = Span(mapped.start, mapped.end)
  BY DEF Mapped, Span
<1> HIDE DEF e, d, mapped
<1>4. low = IF d.start <= span.start THEN d.start ELSE span.start
  <2>1. {d.start, span.start} \in SUBSET Int
    BY <1>1
  <2>2. CASE d.start <= span.start
    <3>1. \A y \in {d.start, span.start} : d.start <= y
      BY <1>1, <2>2
    <3>2. Min({d.start, span.start}) = d.start
      BY <2>1, <3>1, MinIs
    <3> QED
      BY <2>2, <3>2
  <2>3. CASE ~(d.start <= span.start)
    <3>1. \A y \in {d.start, span.start} : span.start <= y
      BY <1>1, <2>3
    <3>2. Min({d.start, span.start}) = span.start
      BY <2>1, <3>1, MinIs
    <3> QED
      BY <2>3, <3>2
  <2> QED
    BY <2>2, <2>3
<1>5. high = IF d.end >= span.end THEN d.end ELSE span.end
  <2>1. {d.end, span.end} \in SUBSET Int
    BY <1>1
  <2>2. CASE d.end >= span.end
    <3>1. \A y \in {d.end, span.end} : d.end >= y
      BY <1>1, <2>2
    <3>2. Max({d.end, span.end}) = d.end
      BY <2>1, <3>1, MaxIs
    <3> QED
      BY <2>2, <3>2
  <2>3. CASE ~(d.end >= span.end)
    <3>1. \A y \in {d.end, span.end} : span.end >= y
      BY <1>1, <2>3
    <3>2. Max({d.end, span.end}) = span.end
      BY <2>1, <3>1, MaxIs
    <3> QED
      BY <2>3, <3>2
  <2> QED
    BY <2>2, <2>3
<1> HIDE DEF low, high
<1> DEFINE a == span.start
           b == span.end
           o == Offset(segments, k)
           u == d.start
           v == d.end
           w == e.start
           z == e.end
           l == mapped.start
           h == mapped.end
<1>6. /\ a \in Nat /\ b \in Nat /\ o \in Nat /\ u \in Nat /\ v \in Nat /\ w \in Nat /\ z \in Nat
      /\ w = u + o /\ v - u < z - w
      /\ l = w + (IF u <= a THEN u ELSE a) - u /\ h = z + (IF v >= b THEN v ELSE b) - v
  BY <1>1, <1>2, <1>3, <1>4, <1>5
<1> HIDE DEF a, b, o, u, v, w, z, l, h
<1>7. /\ l \in Nat /\ h \in Nat /\ l <= w /\ z <= h
      /\ u <= a => l = w
      /\ a <= u => l = a + o
      /\ b <= v => h = z
      /\ v <= b => h = b + (z - v)
  BY <1>6
<1> QED
  BY <1>1, <1>3, <1>7 DEF a, b, o, u, v, w, z, l, h, e, d, mapped

\* The range that all near segments make of a range.
IsHull(hull, segments, span) ==
  LET near == NearOf(segments, span)
  IN /\ \E k \in near : hull.start = Mapped(segments[k], span).start
     /\ \E k \in near : hull.end = Mapped(segments[k], span).end
     /\ \A k \in near : /\ hull.start <= Mapped(segments[k], span).start
                        /\ Mapped(segments[k], span).end <= hull.end

\* The hull has what a range comes from.
LEMMA HullHasSegments ==
  ASSUME NEW segments, Spaced(segments), NEW span, span.start \in Nat, span.end \in Nat,
         NEW hull, IsHull(hull, segments, span), NEW x \in span.start .. span.end - 1,
         NEW k \in 1 .. Len(segments),
         segments[k].decoded.start <= x, x < segments[k].decoded.end
  PROVE  hull.start <= segments[k].encoded.start /\ segments[k].encoded.end <= hull.end
<1> DEFINE mapped == Mapped(segments[k], span)
<1>1. /\ segments[k].decoded.start \in Nat /\ segments[k].decoded.end \in Nat
      /\ segments[k].encoded.start \in Nat /\ segments[k].encoded.end \in Nat
  BY SegmentFacts
<1>2. k \in NearOf(segments, span)
  BY <1>1 DEF NearOf, Overlaps
<1>3. hull.start <= mapped.start /\ mapped.end <= hull.end
  BY <1>2 DEF IsHull
<1>4. mapped.start \in Nat /\ mapped.end \in Nat
      /\ mapped.start <= segments[k].encoded.start /\ segments[k].encoded.end <= mapped.end
  BY MappedIs
<1>5. hull.start \in Nat /\ hull.end \in Nat
  <2>1. \A j \in NearOf(segments, span) : j \in 1 .. Len(segments)
    BY DEF NearOf
  <2>2. \A j \in NearOf(segments, span) :
          Mapped(segments[j], span).start \in Nat /\ Mapped(segments[j], span).end \in Nat
    BY <2>1, MappedIs
  <2> QED
    BY <2>2 DEF IsHull
<1> HIDE DEF mapped
<1> QED
  BY <1>1, <1>3, <1>4, <1>5, SMTT(30)

LEMMA HullHasGaps ==
  ASSUME NEW segments, Spaced(segments), NEW span, span.start \in Nat, span.end \in Nat,
         NEW hull, IsHull(hull, segments, span), NEW x \in span.start .. span.end - 1,
         NEW n \in 1 .. Len(segments) + 1, InGap(segments, n, x, x + 1)
  PROVE  hull.start <= x + Offset(segments, n) /\ x + Offset(segments, n) < hull.end
<1> DEFINE N == Len(segments)
           o == Offset(segments, n)
           a == span.start
           b == span.end
<1>0. a \in Nat /\ b \in Nat /\ x \in Nat /\ a <= x /\ x < b
  OBVIOUS
<1>1. PICK k \in NearOf(segments, span) : TRUE
  BY DEF IsHull
<1>2. k \in 1 .. N /\ N \in Nat /\ Overlaps(segments[k].decoded, span)
  BY <1>1 DEF NearOf, Spaced
<1>3. o \in Nat /\ DecodedEnd(segments, n) <= x /\ DecodedEnd(segments, n) \in Nat
      /\ (n <= N => x + 1 <= segments[n].decoded.start)
  BY GapsRise DEF InGap
<1>4. hull.start \in Nat /\ hull.end \in Nat
  <2>1. \A j \in NearOf(segments, span) : j \in 1 .. Len(segments)
    BY DEF NearOf
  <2>2. \A j \in NearOf(segments, span) :
          Mapped(segments[j], span).start \in Nat /\ Mapped(segments[j], span).end \in Nat
    BY <2>1, MappedIs
  <2> QED
    BY <2>2 DEF IsHull
<1>5. /\ segments[k].decoded.start \in Nat /\ segments[k].decoded.end \in Nat
      /\ segments[k].decoded.start <= span.end /\ span.start <= segments[k].decoded.end
  BY <1>2, SegmentFacts DEF Overlaps
<1>6. CASE n <= k
  <2> DEFINE d == segments[n].decoded
             e == segments[n].encoded
             mapped == Mapped(segments[n], span)
  <2>1. n \in 1 .. N /\ x + 1 <= d.start
    BY <1>2, <1>3, <1>6
  <2>2. d.start <= segments[k].decoded.start
    BY <1>2, <1>6, <2>1, SegmentBehind
  <2>3. /\ d.start \in Nat /\ d.end \in Nat /\ d.start < d.end /\ e.start \in Nat /\ e.end \in Nat
        /\ e.start = d.start + o /\ d.end - d.start < e.end - e.start
    BY <2>1, SegmentFacts
  <2>4. n \in NearOf(segments, span)
    <3>1. d.start <= b /\ a <= d.end
      <4> HIDE DEF d, a, b
      <4>1. d.start <= b
        BY <1>0, <1>5, <2>2, <2>3, SMTT(30) DEF b
      <4>2. a <= d.end
        BY <1>0, <2>1, <2>3
      <4> QED
        BY <4>1, <4>2
    <3> QED
      BY <2>1, <3>1 DEF NearOf, Overlaps
  <2>5. hull.start <= mapped.start /\ mapped.end <= hull.end
    BY <2>4 DEF IsHull
  <2>6. /\ mapped.start \in Nat /\ mapped.end \in Nat /\ e.end <= mapped.end
        /\ span.start <= d.start => mapped.start = span.start + o
    BY <2>1, MappedIs
  <2> DEFINE l == mapped.start
             h == mapped.end
             u == d.start
             v == d.end
             w == e.start
             z == e.end
             hl == hull.start
             hh == hull.end
  <2>7. /\ l \in Nat /\ h \in Nat /\ u \in Nat /\ v \in Nat /\ w \in Nat /\ z \in Nat
        /\ hl \in Nat /\ hh \in Nat /\ o \in Nat /\ hl <= l /\ h <= hh /\ z <= h
        /\ w = u + o /\ u < v /\ v - u < z - w /\ x + 1 <= u /\ (a <= u => l = a + o)
    BY <1>3, <1>4, <2>1, <2>3, <2>5, <2>6
  <2> HIDE DEF l, h, u, v, w, z, hl, hh, d, e, mapped, o, a, b
  <2>8. l = a + o
    BY <1>0, <2>7
  <2>9. hl <= x + o /\ x + o < hh
    BY <1>0, <2>7, <2>8
  <2> QED
    BY <2>9 DEF hl, hh, o
<1>7. CASE k < n
  <2> DEFINE j == n - 1
             d == segments[j].decoded
             e == segments[j].encoded
             mapped == Mapped(segments[j], span)
  <2>1. j \in 1 .. N /\ j + 1 = n /\ k <= j
    BY <1>2, <1>7
  <2> HIDE DEF j
  <2>2. /\ d.start \in Nat /\ d.end \in Nat /\ d.start < d.end /\ e.start \in Nat /\ e.end \in Nat
        /\ o = e.end - d.end /\ DecodedEnd(segments, n) = d.end
        /\ d.end - d.start < e.end - e.start
    BY <2>1, SegmentFacts
  <2>3. segments[k].decoded.end <= d.end
    BY <1>2, <1>7, <2>2, SegmentBefore
  <2>4. j \in NearOf(segments, span)
    <3>1. d.start <= b /\ a <= d.end
      <4> HIDE DEF d, a, b
      <4>1. d.start <= b
        BY <1>0, <1>3, <2>2
      <4>2. a <= d.end
        BY <1>0, <1>5, <2>2, <2>3, SMTT(30) DEF a
      <4> QED
        BY <4>1, <4>2
    <3> QED
      BY <2>1, <3>1 DEF NearOf, Overlaps
  <2>5. hull.start <= mapped.start /\ mapped.end <= hull.end
    BY <2>4 DEF IsHull
  <2>6. /\ mapped.start \in Nat /\ mapped.end \in Nat /\ mapped.start <= e.start
        /\ d.end <= span.end => mapped.end = span.end + o
    BY <2>1, MappedIs
  <2> DEFINE l == mapped.start
             h == mapped.end
             u == d.start
             v == d.end
             w == e.start
             z == e.end
             hl == hull.start
             hh == hull.end
  <2>7. /\ l \in Nat /\ h \in Nat /\ u \in Nat /\ v \in Nat /\ w \in Nat /\ z \in Nat
        /\ hl \in Nat /\ hh \in Nat /\ o \in Nat /\ hl <= l /\ h <= hh /\ l <= w
        /\ o = z - v /\ u < v /\ v - u < z - w /\ v <= x /\ (v <= b => h = b + o)
    BY <1>3, <1>4, <2>2, <2>5, <2>6
  <2> HIDE DEF l, h, u, v, w, z, hl, hh, d, e, mapped, o, a, b
  <2>8. h = b + o
    BY <1>0, <2>7
  <2>9. hl <= x + o /\ x + o < hh
    BY <1>0, <2>7, <2>8
  <2> QED
    BY <2>9 DEF hl, hh, o
<1> QED
  BY <1>2, <1>6, <1>7

\* What it has besides are encoded bytes.
LEMMA HullHasOnly ==
  ASSUME NEW segments, Spaced(segments), NEW span, span.start \in Nat, span.end \in Nat,
         NEW hull, IsHull(hull, segments, span), NEW x \in Nat,
         NEW n \in 1 .. Len(segments) + 1, InGap(segments, n, x, x + 1),
         hull.start <= x + Offset(segments, n), x + Offset(segments, n) < hull.end
  PROVE  span.start <= x /\ x < span.end
<1> DEFINE N == Len(segments)
           o == Offset(segments, n)
<1>1. o \in Nat /\ DecodedEnd(segments, n) <= x /\ DecodedEnd(segments, n) \in Nat
      /\ EncodedEnd(segments, n) = DecodedEnd(segments, n) + o
      /\ (n <= N => x + 1 <= segments[n].decoded.start) /\ N \in Nat
  BY GapsRise DEF InGap, Spaced
<1>2. ASSUME NEW k \in NearOf(segments, span)
      PROVE  /\ k \in 1 .. N /\ segments[k].decoded.start <= span.end
             /\ span.start <= segments[k].decoded.end
  BY DEF NearOf, Overlaps
<1>3. span.start <= x
  <2>1. PICK k \in NearOf(segments, span) : hull.start = Mapped(segments[k], span).start
    BY DEF IsHull
  <2> DEFINE d == segments[k].decoded
             e == segments[k].encoded
             mapped == Mapped(segments[k], span)
             a == span.start
  <2>2. k \in 1 .. N /\ d.start <= span.end /\ a <= d.end
    BY <1>2, <2>1
  <2>3. /\ d.start \in Nat /\ d.end \in Nat /\ e.start \in Nat
        /\ e.start = d.start + Offset(segments, k)
    BY <2>2, SegmentFacts
  <2>4. mapped.start <= x + o /\ mapped.start \in Nat
        /\ (d.start <= a => mapped.start = e.start)
        /\ (a <= d.start => mapped.start = a + Offset(segments, k))
    BY <2>1, <2>2, MappedIs
  <2>5. CASE n <= k
    <3>1. n \in 1 .. N
      BY <1>1, <2>2, <2>5
    <3>2. /\ segments[n].encoded.start <= e.start /\ o <= Offset(segments, k)
          /\ segments[n].encoded.start = segments[n].decoded.start + o
          /\ segments[n].decoded.start \in Nat
      BY <2>2, <2>5, <3>1, SegmentBehind, SegmentFacts
    <3>3. Offset(segments, k) \in Nat
      <4>1. k \in 1 .. N + 1
        BY <1>1, <2>2
      <4> QED
        BY <4>1, GapsRise
    <3>4. x + 1 <= segments[n].decoded.start
      BY <1>1, <3>1
    <3> DEFINE ok == Offset(segments, k)
               dn == segments[n].decoded.start
               en == segments[n].encoded.start
    <3>5. /\ ok \in Nat /\ o \in Nat /\ o <= ok /\ en <= e.start /\ en = dn + o /\ dn \in Nat
          /\ x + 1 <= dn
      BY <1>1, <3>2, <3>3, <3>4
    <3> HIDE DEF ok, dn, en, d, e, mapped, a, o
    <3>6. a \in Nat
      BY DEF a
    <3>7. CASE d.start <= a
      BY <2>3, <2>4, <3>5, <3>6, <3>7
    <3>8. CASE ~(d.start <= a)
      <4>1. mapped.start = a + ok
        BY <2>3, <2>4, <3>6, <3>8 DEF ok
      <4> QED
        BY <2>4, <3>5, <3>6, <4>1 DEF a
    <3> QED
      BY <3>7, <3>8
  <2>6. CASE k < n
    <3>1. d.end <= DecodedEnd(segments, n)
      BY <2>2, <2>6, SegmentBefore
    <3> HIDE DEF d, a
    <3>2. a \in Nat
      BY DEF a
    <3> QED
      BY <1>1, <2>2, <2>3, <3>1, <3>2 DEF a
  <2> QED
    BY <2>2, <2>5, <2>6
<1>4. x < span.end
  <2>1. PICK k \in NearOf(segments, span) : hull.end = Mapped(segments[k], span).end
    BY DEF IsHull
  <2> DEFINE d == segments[k].decoded
             e == segments[k].encoded
             mapped == Mapped(segments[k], span)
             b == span.end
  <2>2. k \in 1 .. N /\ d.start <= b /\ span.start <= d.end
    BY <1>2, <2>1
  <2>3. d.start \in Nat /\ d.end \in Nat /\ e.start \in Nat /\ e.end \in Nat
        /\ Offset(segments, k + 1) = e.end - d.end
    BY <2>2, SegmentFacts
  <2>4. x + o < mapped.end /\ mapped.end \in Nat
        /\ (b <= d.end => mapped.end = e.end)
        /\ (d.end <= b => mapped.end = b + Offset(segments, k + 1))
    BY <2>1, <2>2, MappedIs
  <2>5. CASE n <= k
    <3>1. n \in 1 .. N
      BY <1>1, <2>2, <2>5
    <3>2. segments[n].decoded.start <= d.start /\ segments[n].decoded.start \in Nat
      BY <2>2, <2>5, <3>1, SegmentBehind, SegmentFacts
    <3>3. x + 1 <= segments[n].decoded.start
      BY <1>1, <3>1
    <3> HIDE DEF d, b
    <3>4. b \in Nat
      BY DEF b
    <3> QED
      BY <2>2, <2>3, <3>2, <3>3, <3>4, SMTT(30) DEF b
  <2>6. CASE k < n
    <3>1. e.end <= EncodedEnd(segments, n) /\ e.end - d.end <= o
      BY <2>2, <2>6, SegmentBefore
    <3> DEFINE ok == Offset(segments, k + 1)
    <3>2. ok <= o /\ ok \in Int
      BY <2>3, <3>1
    <3> HIDE DEF d, e, b, mapped, o, ok
    <3>3. b \in Nat
      BY DEF b
    <3>4. CASE b <= d.end
      <4>1. mapped.end <= EncodedEnd(segments, n)
        BY <2>4, <3>1, <3>4
      <4> QED
        BY <1>1, <2>3, <2>4, <4>1
    <3>5. CASE ~(b <= d.end)
      <4>1. mapped.end = b + ok
        BY <2>3, <2>4, <3>3, <3>5 DEF ok
      <4> QED
        BY <1>1, <2>4, <3>2, <3>3, <4>1 DEF b
    <3> QED
      BY <3>4, <3>5
  <2> QED
    BY <2>2, <2>5, <2>6
<1> QED
  BY <1>3, <1>4

\* And it is a range of the text before.
LEMMA HullIsSpan ==
  ASSUME NEW level, Traced(level), NEW after, DecodesTo(level, after), Len(after.current) \in Nat,
         NEW span, span.start \in Nat, span.end \in Nat,
         span.end <= Len(after.current), NEW hull, IsHull(hull, level.next, span)
  PROVE  /\ hull.start \in Nat /\ hull.end \in Nat /\ hull.start < hull.end
         /\ hull.end <= Len(level.current)
         /\ \E k \in 1 .. Len(level.next) : /\ hull.start <= level.next[k].encoded.start
                                            /\ level.next[k].encoded.end <= hull.end
<1> DEFINE S == level.next
           N == Len(S)
<1>1. Spaced(S) /\ N \in Nat
  BY DEF DecodesTo, AreSegments, Spaced
<1>2. \A j \in NearOf(S, span) : j \in 1 .. N
  BY DEF NearOf
<1>3. \A j \in NearOf(S, span) :
        LET mapped == Mapped(S[j], span)
        IN /\ mapped.start \in Nat /\ mapped.end \in Nat
           /\ hull.start <= mapped.start /\ mapped.end <= hull.end
           /\ mapped.start <= S[j].encoded.start /\ S[j].encoded.end <= mapped.end
  BY <1>1, <1>2, MappedIs DEF IsHull
<1>4. hull.start \in Nat /\ hull.end \in Nat
  BY <1>3 DEF IsHull
<1>5. \A j \in NearOf(S, span) :
        hull.start <= S[j].encoded.start /\ S[j].encoded.end <= hull.end
  <2>1. TAKE j \in NearOf(S, span)
  <2> DEFINE l == Mapped(S[j], span).start
             h == Mapped(S[j], span).end
  <2>2. l \in Nat /\ h \in Nat /\ hull.start <= l /\ h <= hull.end
        /\ l <= S[j].encoded.start /\ S[j].encoded.end <= h
    BY <1>3
  <2>3. S[j].encoded.start \in Nat /\ S[j].encoded.end \in Nat
    BY <1>1, <1>2, SegmentFacts
  <2> HIDE DEF l, h, S
  <2> QED
    BY <1>4, <2>2, <2>3
<1>6. PICK k \in NearOf(S, span) : hull.end = Mapped(S[k], span).end
  BY DEF IsHull
<1>7. k \in 1 .. N
  BY <1>2
<1>8. /\ S[k].encoded.start \in Nat /\ S[k].encoded.end \in Nat
      /\ S[k].encoded.start < S[k].encoded.end /\ S[k].encoded.end <= Len(level.current)
  BY <1>7, SegmentInText
<1>9. hull.start < hull.end
  <2>1. hull.start <= S[k].encoded.start /\ S[k].encoded.end <= hull.end
    BY <1>5
  <2> HIDE DEF S
  <2> QED
    BY <1>4, <1>8, <2>1
<1>10. hull.end <= Len(level.current)
  <2> DEFINE o == Offset(S, N + 1)
             ok == Offset(S, k + 1)
             l == Len(level.current)
             m == Len(after.current)
             b == span.end
             v == S[k].decoded.end
             h == hull.end
             z == S[k].encoded.end
  <2>1. o \in Nat /\ ok \in Nat /\ ok <= o
    <3>1. N + 1 \in 1 .. N + 1 /\ k + 1 \in 1 .. N + 1 /\ k + 1 \in 1 .. N + 1
      BY <1>1, <1>7
    <3> QED
      BY <1>1, <3>1, GapsRise
  <2>2. l \in Nat /\ m \in Nat /\ m = l - o /\ z <= l
    BY <1>8 DEF Traced, DecodesTo
  <2>3. v \in Nat /\ (b <= v => h = z) /\ (v <= b => h = b + ok)
    BY <1>1, <1>6, <1>7, MappedIs, SegmentFacts
  <2>4. b \in Nat /\ b <= m
    OBVIOUS
  <2> HIDE DEF o, ok, l, m, b, v, h, z
  <2>5. h <= l
    BY <2>1, <2>2, <2>3, <2>4
  <2> QED
    BY <2>5 DEF h, l
<1> QED
  BY <1>4, <1>5, <1>7, <1>9, <1>10

-----------------------------------------------------------------------------
(* The runs that a decoding leaves to the next are near to what it decoded. *)

\* The run at i of s stands at j of t as well.
CopiedAt(s, i, t, j) ==
  \A k \in 0 .. s[i].size - 1 : j + k \in 1 .. Len(t) /\ t[j + k] = s[i + k]

\* A run is one wherever its bytes stand.
LEMMA RunCopied ==
  ASSUME NEW s \in Seq(Byte), NEW t \in Seq(Byte), NEW i \in 1 .. Len(s), IsRun(s, i),
         NEW j \in Nat, CopiedAt(s, i, t, j)
  PROVE  j \in 1 .. Len(t) /\ IsRun(t, j) /\ t[j] = s[i]
<1>0. \A k \in 0 .. s[i].size - 1 : j + k \in 1 .. Len(t) /\ t[j + k] = s[i + k]
  BY DEF CopiedAt
<1>1. s[i].size \in Nat \ {0} /\ Len(t) \in Nat
  BY RunFacts
<1> DEFINE size == s[i].size
<1>2. 0 \in 0 .. size - 1 /\ size - 1 \in 0 .. size - 1
  BY <1>1
<1>3. j + 0 = j /\ i + 0 = i
  OBVIOUS
<1>4. j \in 1 .. Len(t) /\ t[j] = s[i]
  BY <1>0, <1>2, <1>3
<1>5. j + (size - 1) \in 1 .. Len(t)
  BY <1>0, <1>2
<1>6. ASSUME NEW k \in 1 .. size PROVE t[j + k - 1] = [t[j] EXCEPT !.at = k]
  <2>1. k - 1 \in 0 .. size - 1 /\ j + (k - 1) = j + k - 1 /\ i + (k - 1) = i + k - 1
    BY <1>1
  <2>2. t[j + k - 1] = s[i + k - 1]
    BY <1>0, <2>1
  <2>3. s[i + k - 1] = [s[i] EXCEPT !.at = k]
    BY DEF IsRun
  <2> QED
    BY <1>4, <2>2, <2>3
<1>7. t[j].encoding # Unencoded /\ t[j].at = 1 /\ t[j].size = size
  BY <1>4 DEF IsRun
<1>8. j + size - 1 <= Len(t)
  BY <1>1, <1>5
<1> QED
  BY <1>4, <1>6, <1>7, <1>8 DEF IsRun

\* Runs in a gap are runs in the text before and in the one after.
LEMMA RunMovesBack ==
  ASSUME NEW level, Traced(level), NEW after, Traced(after), DecodesTo(level, after),
         NEW i \in 1 .. Len(after.current), IsRun(after.current, i),
         NEW n \in 1 .. Len(level.next) + 1,
         InGap(level.next, n, i - 1, i - 1 + after.current[i].size)
  PROVE  LET j == i + Offset(level.next, n)
         IN /\ j \in 1 .. Len(level.current) /\ IsRun(level.current, j)
            /\ level.current[j] = after.current[i]
<1> DEFINE size == after.current[i].size
           o == Offset(level.next, n)
           j == i + o
<1>1. after.current \in Seq(Byte) /\ level.current \in Seq(Byte)
      /\ Len(after.current) \in Nat /\ Len(level.current) \in Nat
  BY DEF Traced
<1>2. size \in Nat \ {0} /\ i + size - 1 <= Len(after.current)
  BY <1>1, RunFacts
<1>3. o \in Nat
  BY GapsRise DEF DecodesTo, AreSegments
<1>4. ASSUME NEW k \in 0 .. size - 1
      PROVE  j + k \in 1 .. Len(level.current) /\ level.current[j + k] = after.current[i + k]
  <2> DEFINE x == i - 1 + k
  <2>1. x \in Nat /\ x < Len(after.current) /\ x + 1 = i + k /\ x + o + 1 = j + k
        /\ x \in 0 .. Len(after.current) - 1
    <3>1. Len(after.current) \in Nat /\ size \in Nat /\ i + size - 1 <= Len(after.current)
      BY <1>1, <1>2
    <3> HIDE DEF size, o
    <3> QED
      BY <1>3, <3>1
  <2>2. InGap(level.next, n, x, x + 1)
    <3>1. i - 1 <= x /\ x + 1 <= i - 1 + size /\ i - 1 \in Int /\ i - 1 + size \in Int
      BY <1>2
    <3>2. DecodedEnd(level.next, n) \in Nat
      BY GapsRise DEF DecodesTo, AreSegments
    <3>3. DecodedEnd(level.next, n) <= i - 1
      BY DEF InGap
    <3>4. ASSUME n <= Len(level.next)
          PROVE  /\ level.next[n].decoded.start \in Nat
                 /\ i - 1 + size <= level.next[n].decoded.start
      <4>1. n \in 1 .. Len(level.next)
        BY <3>4
      <4>2. level.next[n].decoded.start \in Nat
        BY <4>1, SegmentFacts DEF DecodesTo, AreSegments
      <4> QED
        BY <3>4, <4>2 DEF InGap
    <3> HIDE DEF x, size
    <3>5. DecodedEnd(level.next, n) <= x
      BY <2>1, <3>1, <3>2, <3>3
    <3>6. n <= Len(level.next) => x + 1 <= level.next[n].decoded.start
      BY <2>1, <3>1, <3>4
    <3> QED
      BY <3>5, <3>6 DEF InGap
  <2> HIDE DEF x
  <2>3. x + o < Len(level.current)
    BY <2>1, <2>2, GapInText
  <2>4. after.current[x + 1] = level.current[x + o + 1]
    BY <2>1, <2>2 DEF DecodesTo
  <2>5. x + o + 1 \in 1 .. Len(level.current)
    BY <1>1, <1>3, <2>1, <2>3
  <2> QED
    BY <2>1, <2>4, <2>5
<1>5. j \in Nat
  BY <1>3
<1>6. CopiedAt(after.current, i, level.current, j)
  <2> HIDE DEF j, o
  <2> QED
    BY <1>4 DEF CopiedAt
<1> HIDE DEF o
<1>7. j \in 1 .. Len(level.current) /\ IsRun(level.current, j)
      /\ level.current[j] = after.current[i]
  <2> HIDE DEF j
  <2> QED
    BY <1>1, <1>5, <1>6, RunCopied
<1> QED
  BY <1>7 DEF o

LEMMA RunMovesOn ==
  ASSUME NEW level, Traced(level), NEW after, Traced(after), DecodesTo(level, after),
         NEW j \in 1 .. Len(level.current), IsRun(level.current, j),
         NEW n \in 1 .. Len(level.next) + 1,
         EncodedEnd(level.next, n) <= j - 1,
         n <= Len(level.next)
           => j - 1 + level.current[j].size <= level.next[n].encoded.start
  PROVE  LET i == j - Offset(level.next, n)
         IN /\ i \in 1 .. Len(after.current) /\ IsRun(after.current, i)
            /\ after.current[i] = level.current[j]
<1> DEFINE size == level.current[j].size
           o == Offset(level.next, n)
           i == j - o
           N == Len(level.next)
<1>1. after.current \in Seq(Byte) /\ level.current \in Seq(Byte)
      /\ Len(after.current) \in Nat /\ Len(level.current) \in Nat
  BY DEF Traced
<1>2. size \in Nat \ {0} /\ j + size - 1 <= Len(level.current)
  BY <1>1, RunFacts
<1>3. Spaced(level.next) /\ N \in Nat
  BY DEF DecodesTo, AreSegments, Spaced
<1>4. o \in Nat /\ DecodedEnd(level.next, n) \in Nat
      /\ EncodedEnd(level.next, n) = DecodedEnd(level.next, n) + o
  BY <1>3, GapsRise
<1>5. ASSUME NEW k \in 0 .. size - 1
      PROVE  i + k \in 1 .. Len(after.current) /\ after.current[i + k] = level.current[j + k]
  <2> DEFINE x == i - 1 + k
  <2>1. x \in Nat /\ x + 1 = i + k /\ x + o + 1 = j + k /\ DecodedEnd(level.next, n) <= x
    BY <1>4, SMTT(30)
  <2>2. InGap(level.next, n, x, x + 1)
    <3>1. ASSUME n <= N PROVE x + 1 <= level.next[n].decoded.start
      <4>1. n \in 1 .. N
        BY <3>1
      <4>2. /\ level.next[n].decoded.start \in Nat
            /\ level.next[n].encoded.start = level.next[n].decoded.start + o
        BY <1>3, <4>1, SegmentFacts
      <4>3. j - 1 + size <= level.next[n].encoded.start
        BY <3>1
      <4> DEFINE u == level.next[n].decoded.start
      <4>4. u \in Nat /\ j - 1 + size <= u + o
        BY <4>2, <4>3
      <4> HIDE DEF u, size, o
      <4>5. j - o - 1 + k + 1 <= u
        BY <1>2, <1>4, <4>4
      <4> QED
        BY <4>5 DEF u
    <3> HIDE DEF x
    <3> QED
      BY <2>1, <3>1 DEF InGap
  <2>3. x < Len(after.current)
    <3> DEFINE l == Len(level.current)
               m == Len(after.current)
    <3>1. n \in 1 .. N + 1 /\ N + 1 \in 1 .. N + 1
      BY <1>3
    <3>2. Len(after.current) = Len(level.current) - Offset(level.next, N + 1)
      BY DEF DecodesTo
    <3>3. CASE n <= N
      <4>1. n \in 1 .. N /\ n < N + 1
        BY <1>3, <3>3
      <4>2. x + 1 <= level.next[n].decoded.start
        BY <2>2, <3>3 DEF InGap
      <4>3. /\ level.next[n].decoded.start \in Nat /\ level.next[n].decoded.end \in Nat
            /\ level.next[n].decoded.start < level.next[n].decoded.end
        BY <1>3, <4>1, SegmentFacts
      <4>4. \A y \in level.next[n].decoded.start .. level.next[n].decoded.end - 1 : y < m
        BY <4>1 DEF DecodesTo
      <4> DEFINE u == level.next[n].decoded.start
                 v == level.next[n].decoded.end
      <4>a. u \in u .. v - 1
        <5>1. u \in Nat /\ v \in Nat /\ u < v
          BY <4>3
        <5> HIDE DEF u, v
        <5> QED
          BY <5>1
      <4> HIDE DEF m
      <4>5. u < m
        BY <4>4, <4>a
      <4> HIDE DEF u, v
      <4> HIDE DEF x, m
      <4>6. x < m
        BY <1>1, <2>1, <4>2, <4>3, <4>5, SMTT(30) DEF m, u
      <4> QED
        BY <4>6 DEF m
    <3>4. CASE n = N + 1
      <4>1. m = l - o /\ l \in Nat /\ m \in Nat
        BY <1>1, <3>2, <3>4
      <4> HIDE DEF l, size, o, m
      <4>2. j + size - 1 <= l
        BY <1>2 DEF l
      <4>3. x < m
        BY <1>2, <1>4, <4>1, <4>2
      <4> QED
        BY <4>3 DEF m
    <3> QED
      BY <3>1, <3>3, <3>4
  <2> HIDE DEF x
  <2>4. x \in 0 .. Len(after.current) - 1 /\ x + 1 \in 1 .. Len(after.current)
    BY <1>1, <2>1, <2>3
  <2>5. after.current[x + 1] = level.current[x + o + 1]
    BY <2>2, <2>4 DEF DecodesTo
  <2> QED
    BY <2>1, <2>4, <2>5
<1>6. i \in Nat
  BY <1>4
<1>7. CopiedAt(level.current, j, after.current, i)
  <2> HIDE DEF i, o
  <2> QED
    BY <1>5 DEF CopiedAt
<1> HIDE DEF o
<1>8. i \in 1 .. Len(after.current) /\ IsRun(after.current, i)
      /\ after.current[i] = level.current[j]
  <2> HIDE DEF i
  <2> QED
    BY <1>1, <1>6, <1>7, RunCopied
<1> QED
  BY <1>8 DEF o

LEMMA SpansApart ==
  ASSUME NEW current \in Seq(Byte), NEW a, NEW b, IsSpanOfRun(a, current), IsSpanOfRun(b, current)
  PROVE  /\ a.start \in Nat /\ a.end \in Nat /\ b.start \in Nat /\ b.end \in Nat
         /\ a.start < a.end /\ b.start < b.end
         /\ a.start < b.start => a.end <= b.start
         /\ b.start < a.start => b.end <= a.start
         /\ a.start = b.start => a = b
<1> DEFINE i == a.start + 1
           j == b.start + 1
<1>1. /\ i \in 1 .. Len(current) /\ j \in 1 .. Len(current)
      /\ IsRun(current, i) /\ IsRun(current, j)
      /\ a = RunSpan(current, i) /\ b = RunSpan(current, j) /\ a.start < a.end /\ b.start < b.end
  BY DEF IsSpanOfRun
<1>2. a.start = i - 1 /\ a.end = i - 1 + current[i].size /\ current[i].size \in Nat
  BY <1>1, RunIsSpan, RunFacts
<1>3. b.start = j - 1 /\ b.end = j - 1 + current[j].size /\ current[j].size \in Nat
  BY <1>1, RunIsSpan, RunFacts
<1> HIDE DEF i, j
<1>4. i < j => i + current[i].size <= j
  BY <1>1, RunsAreApart
<1>5. j < i => j + current[j].size <= i
  BY <1>1, RunsAreApart
<1>6. i \in Nat /\ j \in Nat /\ i >= 1 /\ j >= 1
  BY <1>1
<1>7. a.start = b.start => i = j
  BY <1>2, <1>3, <1>6
<1> DEFINE u == current[i].size
           v == current[j].size
           x == a.start
           y == a.end
           z == b.start
           w == b.end
<1>8. /\ u \in Nat /\ v \in Nat /\ x = i - 1 /\ y = i - 1 + u /\ z = j - 1 /\ w = j - 1 + v
      /\ (i < j => i + u <= j) /\ (j < i => j + v <= i)
  BY <1>2, <1>3, <1>4, <1>5
<1> HIDE DEF u, v, x, y, z, w
<1>9. /\ x \in Nat /\ y \in Nat /\ z \in Nat /\ w \in Nat
      /\ (x < z => y <= z) /\ (z < x => w <= x)
  BY <1>6, <1>8
<1> QED
  BY <1>1, <1>7, <1>9 DEF x, y, z, w

LEMMA RunsAreNear ==
  ASSUME NEW level, Traced(level), NEW after, Traced(after), DecodesTo(level, after),
         NEW k \in 1 .. Len(after.next)
  PROVE  ~Far(level.next, after.next[k].encoded)
<1> DEFINE r == after.next[k].encoded
           i == r.start + 1
           S == level.next
           N == Len(S)
           c == Captures(level.current)
           cc == Captures(after.current)
<1> SUFFICES ASSUME Far(S, r) PROVE FALSE
  OBVIOUS
<1>1. /\ after.current \in Seq(Byte) /\ level.current \in Seq(Byte) /\ Spaced(S) /\ N \in Nat
      /\ AreSegments(S, level.current, level.segments)
  BY DEF Traced, DecodesTo, AreSegments, Spaced
<1>2. AreSegments(after.next, after.current, after.segments)
  BY <1>1, SegmentsAre DEF Traced
<1>3. PICK pp \in Chosen(after.current) : r = cc[pp]
  <2>1. AreMatches(MatchesOf(after.current), after.current)
    BY <1>1, MatchesAre
  <2> QED
    BY <1>2, <2>1 DEF AreMatches, AreSegments
<1>4. IsSpanOfRun(r, after.current)
  BY <1>2 DEF AreSegments
<1>5. AreCaptures(c, level.current) /\ AreCaptures(cc, after.current)
  BY <1>1, CapturesAre
<1>6. /\ pp \in 1 .. Len(cc) /\ ~Shadowed(after.current, cc, pp)
      /\ InnerOf(after.current, r) # <<>>
  BY <1>3 DEF Chosen, Unshadowed
<1> DEFINE size == after.current[i].size
<1>7. /\ r.start \in Nat /\ r.end \in Nat /\ r.start < r.end
      /\ i \in 1 .. Len(after.current) /\ IsRun(after.current, i)
      /\ r.start = i - 1 /\ r.end = i - 1 + size
  <2>1. i \in 1 .. Len(after.current) /\ IsRun(after.current, i) /\ r = RunSpan(after.current, i)
    BY <1>4 DEF IsSpanOfRun
  <2>2. r.start \in Nat /\ r.end \in Nat /\ r.start < r.end
    BY <1>1, <1>4, SpansApart
  <2>3. r.start = i - 1 /\ r.end = i - 1 + size
    BY <1>1, <2>1, RunIsSpan
  <2> QED
    BY <2>1, <2>2, <2>3
<1>8. PICK n \in 1 .. N + 1 : InsideGap(S, n, r.start, r.end)
  BY <1>1, <1>7, FarIsInGap
<1> DEFINE o == Offset(S, n)
           p0 == DecodedEnd(S, n)
<1>9. o \in Nat /\ p0 \in Nat /\ EncodedEnd(S, n) = p0 + o
      /\ (n > 1 => p0 < r.start) /\ (n = 1 => p0 = 0)
  BY <1>1, <1>8, GapsRise DEF InsideGap, DecodedEnd
<1>10. ASSUME n <= N
       PROVE  /\ n \in 1 .. N /\ r.end < S[n].decoded.start /\ S[n].decoded.start \in Nat
              /\ S[n].encoded.start = S[n].decoded.start + o /\ S[n].encoded.start \in Nat
              /\ r.end + o < S[n].encoded.start
  <2>1. n \in 1 .. N
    BY <1>10
  <2>2. r.end < S[n].decoded.start
    BY <1>8, <1>10 DEF InsideGap
  <2>3. S[n].decoded.start \in Nat /\ S[n].encoded.start \in Nat
        /\ S[n].encoded.start = S[n].decoded.start + o
    BY <1>1, <2>1, SegmentFacts
  <2> HIDE DEF r, o, S
  <2>4. r.end + o < S[n].encoded.start
    BY <1>7, <1>9, <2>2, <2>3, SMTT(30)
  <2> QED
    BY <2>1, <2>2, <2>3, <2>4
<1> HIDE DEF r, o, p0, N, c, cc
<1>11. InGap(S, n, i - 1, i - 1 + size)
  <2>1. p0 <= r.start
    <3>1. n \in Nat /\ n >= 1
      BY <1>1
    <3> QED
      BY <1>7, <1>9, <3>1
  <2>2. ASSUME n <= N PROVE r.end <= S[n].decoded.start
    <3> DEFINE u == S[n].decoded.start
    <3>1. r.end < u /\ u \in Nat
      BY <1>10, <2>2
    <3> HIDE DEF u
    <3>2. r.end <= u
      BY <1>7, <3>1
    <3> QED
      BY <3>2 DEF u
  <2> QED
    BY <1>7, <2>1, <2>2 DEF InGap, p0, N
<1> DEFINE j == i + o
<1>12. /\ j \in 1 .. Len(level.current) /\ IsRun(level.current, j)
       /\ level.current[j] = after.current[i]
  BY <1>7, <1>11, RunMovesBack, SMTT(30) DEF o, N
<1>13. PICK p \in 1 .. Len(c) : c[p] = RunSpan(level.current, j)
  BY <1>5, <1>12 DEF AreCaptures
<1>14. c[p].start = r.start + o /\ c[p].end = r.end + o /\ c[p].start + 1 = j
  <2>1. c[p].start = j - 1 /\ c[p].end = j - 1 + size
    BY <1>1, <1>12, <1>13, RunIsSpan
  <2>2. size \in Nat
    BY <1>1, <1>7, RunFacts
  <2> DEFINE x == c[p].start
             y == c[p].end
  <2>3. x = j - 1 /\ y = j - 1 + size
    BY <2>1
  <2>4. r.start \in Nat /\ r.start = i - 1 /\ r.end = i - 1 + size /\ i \in Nat
    BY <1>7
  <2> HIDE DEF size, x, y, i
  <2>5. x = r.start + o /\ y = r.end + o /\ x + 1 = j
    BY <1>9, <2>2, <2>3, <2>4
  <2> QED
    BY <2>5 DEF x, y
<1>15. InnerOf(level.current, c[p]) # <<>>
  BY <1>6, <1>12, <1>14 DEF InnerOf, RunAt
<1>16. \A m \in 1 .. N : /\ IsSpanOfRun(S[m].encoded, level.current)
                        /\ (m < n => S[m].encoded.end <= EncodedEnd(S, n))
                        /\ (n <= m => n <= N /\ S[n].encoded.start <= S[m].encoded.start)
  <2>1. TAKE m \in 1 .. N
  <2>2. IsSpanOfRun(S[m].encoded, level.current)
    BY <1>1 DEF AreSegments, N
  <2>3. m < n => S[m].encoded.end <= EncodedEnd(S, n)
    BY <1>1, SegmentBefore DEF N
  <2>4. n <= m => n <= N /\ n \in 1 .. N
    BY <1>1
  <2>5. n <= m => S[n].encoded.start <= S[m].encoded.start
    BY <1>1, <2>4, SegmentBehind DEF N
  <2> QED
    BY <2>2, <2>3, <2>4, <2>5
<1>17. p \notin Chosen(level.current)
  <2> SUFFICES ASSUME p \in Chosen(level.current) PROVE FALSE
    OBVIOUS
  <2>1. PICK m \in 1 .. N : S[m].encoded = c[p]
    <3>1. AreMatches(MatchesOf(level.current), level.current)
      BY <1>1, MatchesAre
    <3>2. PICK m \in 1 .. Len(MatchesOf(level.current)) : MatchesOf(level.current)[m] = c[p]
      BY <3>1 DEF AreMatches, c
    <3> QED
      BY <1>1, <3>2 DEF AreSegments, N
  <2>2. CASE m < n
    <3>1. r.end + o <= p0 + o
      BY <1>9, <1>14, <1>16, <2>1, <2>2
    <3>2. n > 1
      BY <1>1, <2>2
    <3> QED
      BY <1>7, <1>9, <3>1, <3>2
  <2>3. CASE n <= m
    <3>1. n <= N /\ S[n].encoded.start <= r.start + o
      BY <1>14, <1>16, <2>1, <2>3
    <3>2. r.end + o < S[n].encoded.start /\ S[n].encoded.start \in Nat
      BY <1>10, <3>1
    <3> HIDE DEF S
    <3> QED
      BY <1>7, <1>9, <3>1, <3>2, SMTT(30)
  <2> QED
    BY <1>1, <2>2, <2>3
<1>18. PICK q \in {p - 1, p + 1} \cap DOMAIN c :
         /\ Overlaps(c[p], c[q])
         /\ Precedence[RunAt(level.current, c[q]).encoding]
              > Precedence[RunAt(level.current, c[p]).encoding]
  <2>1. Shadowed(level.current, c, p)
    BY <1>13, <1>15, <1>17 DEF Chosen, Unshadowed, c
  <2> QED
    BY <2>1 DEF Shadowed
<1>19. q \in 1 .. Len(c) /\ Len(c) \in Nat /\ Len(cc) \in Nat
       /\ DOMAIN c = 1 .. Len(c) /\ DOMAIN cc = 1 .. Len(cc)
  BY <1>5 DEF AreCaptures
<1> DEFINE s == c[q]
<1>20. IsSpanOfRun(s, level.current) /\ IsSpanOfRun(c[p], level.current)
  BY <1>5, <1>13, <1>19 DEF AreCaptures
<1>21. s.start \in Nat /\ s.end \in Nat /\ s.start < s.end
  BY <1>1, <1>20, SpansApart
<1>22. s.end = r.start + o \/ s.start = r.end + o
  <2>1. c[p].start \in Nat /\ c[p].end \in Nat
    BY <1>1, <1>20, SpansApart
  <2>2. CASE q = p - 1
    <3>1. s.end <= c[p].start
      BY <1>5, <1>13, <1>19, <2>2, SMTT(30) DEF AreCaptures, InOrder
    <3>2. c[p].start <= s.end
      BY <1>18 DEF Overlaps
    <3> QED
      BY <1>14, <1>21, <2>1, <3>1, <3>2
  <2>3. CASE q = p + 1
    <3>1. c[p].end <= s.start
      BY <1>5, <1>13, <1>19, <2>3 DEF AreCaptures, InOrder
    <3>2. s.start <= c[p].end
      BY <1>18 DEF Overlaps
    <3> QED
      BY <1>14, <1>21, <2>1, <3>1, <3>2
  <2> QED
    BY <1>18, <2>2, <2>3
<1>23. EncodedEnd(S, n) <= s.start
  <2>1. CASE n = 1
    <3>1. EncodedEnd(S, n) = 0
      BY <2>1 DEF EncodedEnd
    <3> QED
      BY <1>21, <3>1
  <2>2. CASE n # 1
    <3> DEFINE m == n - 1
               e == S[m].encoded
    <3>1. m \in 1 .. N /\ m + 1 = n /\ n > 1
      BY <1>1, <2>2
    <3>2. EncodedEnd(S, n) = e.end
      BY <2>2 DEF EncodedEnd
    <3>3. /\ e.start \in Nat /\ e.end \in Nat /\ e.start < e.end
          /\ (e.start < s.start => e.end <= s.start)
          /\ (s.start < e.start => s.end <= e.start)
          /\ (s.start = e.start => s = e)
      BY <1>1, <1>16, <1>20, <3>1, SpansApart
    <3>4. e.end = p0 + o /\ p0 < r.start
      BY <1>9, <3>1, <3>2
    <3> HIDE DEF e, s, m
    <3>5. e.end < s.end
      BY <1>7, <1>9, <1>21, <1>22, <3>3, <3>4, SMTT(30)
    <3>6. s # e
      BY <3>3, <3>5
    <3> QED
      BY <1>21, <3>2, <3>3, <3>5, <3>6
  <2> QED
    BY <2>1, <2>2
<1>24. ASSUME n <= N PROVE s.end <= S[n].encoded.start
  <2> DEFINE e == S[n].encoded
  <2>1. n \in 1 .. N /\ r.end + o < e.start
    BY <1>10, <1>24
  <2>2. /\ e.start \in Nat /\ e.end \in Nat /\ e.start < e.end
        /\ (s.start < e.start => s.end <= e.start)
    BY <1>1, <1>16, <1>20, <2>1, SpansApart
  <2> HIDE DEF e, s
  <2>3. s.start < e.start
    BY <1>7, <1>9, <1>21, <1>22, <2>1, <2>2, SMTT(30)
  <2> QED
    BY <2>2, <2>3 DEF e
<1> DEFINE jq == s.start + 1
           iq == jq - o
<1>25. /\ jq \in 1 .. Len(level.current) /\ IsRun(level.current, jq)
       /\ s.start = jq - 1 /\ s.end = jq - 1 + level.current[jq].size
  <2>1. /\ jq \in 1 .. Len(level.current) /\ IsRun(level.current, jq)
        /\ s = RunSpan(level.current, jq)
    BY <1>20 DEF IsSpanOfRun
  <2> QED
    BY <1>1, <2>1, RunIsSpan
<1> HIDE DEF s, jq
<1>26. /\ iq \in 1 .. Len(after.current) /\ IsRun(after.current, iq)
       /\ after.current[iq] = level.current[jq]
  BY <1>23, <1>24, <1>25, RunMovesOn DEF o, N
<1> DEFINE t == RunSpan(after.current, iq)
<1>27. t.start = s.start - o /\ t.end = s.end - o /\ t.start + 1 = iq
  <2>1. t.start = iq - 1 /\ t.end = iq - 1 + level.current[jq].size
    BY <1>1, <1>26, RunIsSpan
  <2>2. level.current[jq].size \in Nat
    BY <1>1, <1>25, RunFacts
  <2> DEFINE x == t.start
             y == t.end
             z == level.current[jq].size
  <2>3. x = iq - 1 /\ y = iq - 1 + z /\ s.start = jq - 1 /\ s.end = jq - 1 + z
        /\ jq \in Nat /\ z \in Nat
    BY <1>25, <2>1, <2>2
  <2> HIDE DEF x, y, z
  <2>4. x = s.start - o /\ y = s.end - o /\ x + 1 = iq
    BY <1>9, <1>21, <2>3
  <2> QED
    BY <2>4 DEF x, y
<1>28. PICK qq \in 1 .. Len(cc) : cc[qq] = t
  BY <1>5, <1>26 DEF AreCaptures
<1> HIDE DEF t
<1>29. t.end = r.start \/ t.start = r.end
  <2>1. r.start \in Nat /\ r.end \in Nat
    BY <1>7
  <2> HIDE DEF i, iq
  <2> QED
    BY <1>9, <1>21, <1>22, <1>27, <2>1, SMTT(30)
<1>30. qq \in {pp - 1, pp + 1}
  <2>1. CASE t.end = r.start
    <3>1. pp = qq + 1
      BY <1>3, <1>5, <1>6, <1>28, <2>1 DEF AreCaptures
    <3> QED
      BY <1>6, <1>28, <3>1
  <2>2. CASE t.start = r.end
    <3>1. qq = pp + 1
      BY <1>3, <1>5, <1>6, <1>28, <2>2 DEF AreCaptures
    <3> QED
      BY <3>1
  <2> QED
    BY <1>29, <2>1, <2>2
<1>31. Overlaps(cc[pp], cc[qq])
  <2>1. t.start \in Int /\ t.end \in Int /\ t.start < t.end
    BY <1>9, <1>21, <1>27
  <2>2. t.start <= r.end /\ t.end >= r.start
    BY <1>7, <1>29, <2>1
  <2> QED
    BY <1>3, <1>28, <2>2 DEF Overlaps
<1>32. Precedence[RunAt(after.current, cc[qq]).encoding]
         > Precedence[RunAt(after.current, cc[pp]).encoding]
  <2>1. RunAt(after.current, cc[qq]) = RunAt(level.current, c[q])
    BY <1>26, <1>27, <1>28 DEF RunAt, jq, s
  <2>2. RunAt(after.current, cc[pp]) = RunAt(level.current, c[p])
    BY <1>3, <1>12, <1>14 DEF RunAt
  <2> QED
    BY <1>18, <2>1, <2>2
<1> QED
  BY <1>6, <1>19, <1>28, <1>30, <1>31, <1>32 DEF Shadowed

-----------------------------------------------------------------------------
(* Matches, trimmed or not.                                                *)

InRegex(current, regex, i) == i \in 1 .. Len(current) /\ current[i].mark \in regex

\* The longest runs of bytes that have a mark of the expression.
IsMatch(current, regex, span) ==
  /\ span = Span(span.start, span.end) /\ span.start \in Nat /\ span.end \in Nat
  /\ span.start < span.end /\ span.end <= Len(current)
  /\ \A i \in span.start + 1 .. span.end : InRegex(current, regex, i)
  /\ ~InRegex(current, regex, span.start) /\ ~InRegex(current, regex, span.end + 1)

AreAllMatches(spans, current, regex) ==
  /\ Len(spans) \in Nat /\ DOMAIN spans = 1 .. Len(spans)
  /\ \A n \in 1 .. Len(spans) : IsMatch(current, regex, spans[n])
  /\ \A span : IsMatch(current, regex, span) => \E n \in 1 .. Len(spans) : spans[n] = span

LEMMA MatchesAreAll ==
  ASSUME NEW current \in Seq(Byte), NEW regex
  PROVE  AreAllMatches(Matches(current, regex), current, regex)
<1> DEFINE L == Len(current)
           In(i) == i \in DOMAIN current /\ current[i].mark \in regex
           End(i) == Min({j \in i .. L : ~In(j + 1)})
           S == {i \in 1 .. L : In(i) /\ ~In(i - 1)}
           starts == Enumerated(L, S)
           spans == Matches(current, regex)
<1>1. L \in Nat /\ DOMAIN current = 1 .. L
  OBVIOUS
<1>2. Enumerates(starts, L, S)
  BY <1>1, EnumeratedIs
<1>3. spans = [n \in DOMAIN starts |-> Span(starts[n] - 1, End(starts[n]))]
  <2>1. starts = Numbers(L, LAMBDA i : In(i) /\ ~In(i - 1))
    <3>1. [i \in 1 .. L |-> IF i \in S THEN <<i>> ELSE <<>>]
            = [i \in 1 .. L |-> IF In(i) /\ ~In(i - 1) THEN <<i>> ELSE <<>>]
      OBVIOUS
    <3> QED
      BY <3>1 DEF Numbers, Enumerated
  <2> QED
    BY <2>1 DEF Matches
<1>4. \A i : In(i) <=> InRegex(current, regex, i)
  BY <1>1 DEF InRegex
<1>5. \A i : In(i) => i \in 1 .. L
  BY <1>1
<1>6. \A i \in S : i \in 1 .. L /\ In(i) /\ ~In(i - 1)
  OBVIOUS
<1>7. \A i \in 1 .. L : In(i) /\ ~In(i - 1) => i \in S
  OBVIOUS
<1> HIDE DEF In, starts, spans, S, L
<1>8. /\ DOMAIN starts = 1 .. Len(starts) /\ Len(starts) \in Nat
      /\ \A n \in 1 .. Len(starts) : starts[n] \in S
      /\ \A i \in 1 .. L : i \in S => \E n \in 1 .. Len(starts) : starts[n] = i
  BY <1>2 DEF Enumerates
<1>9. ASSUME NEW i \in 1 .. L
      PROVE  /\ End(i) \in i .. L /\ ~In(End(i) + 1)
             /\ \A y \in i .. L : ~In(y + 1) => End(i) <= y
  <2> DEFINE ends == {j \in i .. L : ~In(j + 1)}
  <2>1. L \in ends
    <3>1. ~In(L + 1)
      BY <1>1, <1>5
    <3> QED
      BY <1>1, <3>1
  <2>3. \A y : y \in ends <=> y \in i .. L /\ ~In(y + 1)
    OBVIOUS
  <2> HIDE DEF ends
  <2>2. ends \in SUBSET (1 .. L) /\ ends # {}
    <3>1. \A y \in i .. L : y \in 1 .. L
      BY <1>1
    <3> QED
      BY <2>1, <2>3, <3>1
  <2>4. Min(ends) \in ends /\ \A y \in ends : Min(ends) <= y
    BY <1>1, <2>2, BoundedHasMin
  <2>5. End(i) = Min(ends)
    BY DEF ends
  <2> HIDE DEF End
  <2> QED
    BY <2>3, <2>4, <2>5
<1> HIDE DEF End
<1>10. ASSUME NEW n \in 1 .. Len(starts) PROVE IsMatch(current, regex, spans[n])
  <2> DEFINE i == starts[n]
             e == End(i)
             a == i - 1
  <2>1. i \in 1 .. L /\ In(i) /\ ~In(i - 1)
    BY <1>6, <1>8
  <2>2. spans[n] = Span(a, e)
    BY <1>3, <1>8
  <2> HIDE DEF i
  <2>3. e \in i .. L /\ ~In(e + 1) /\ \A y \in i .. L : ~In(y + 1) => e <= y
    BY <1>9, <2>1
  <2> HIDE DEF e
  <2>4. ASSUME NEW j \in i .. e PROVE In(j)
    <3>1. CASE j = i
      BY <2>1, <3>1
    <3>2. CASE j # i
      <4>1. j - 1 \in i .. L /\ ~(e <= j - 1) /\ (j - 1) + 1 = j
        BY <1>1, <2>1, <2>3, <3>2
      <4>2. In((j - 1) + 1)
        BY <2>3, <4>1
      <4> QED
        BY <4>1, <4>2
    <3> QED
      BY <3>1, <3>2
  <2>5. a \in Nat /\ e \in Nat /\ a < e /\ e <= L /\ a + 1 = i
    BY <1>1, <2>1, <2>3
  <2> HIDE DEF a
  <2>6. spans[n].start = a /\ spans[n].end = e
    BY <2>2, SpanIs
  <2>7. \A j \in a + 1 .. e : InRegex(current, regex, j)
    BY <1>4, <2>4, <2>5
  <2>8. ~InRegex(current, regex, a) /\ ~InRegex(current, regex, e + 1)
    BY <1>4, <2>1, <2>3 DEF a
  <2> QED
    BY <2>2, <2>5, <2>6, <2>7, <2>8 DEF IsMatch, L
<1>11. ASSUME NEW span, IsMatch(current, regex, span)
       PROVE  \E n \in 1 .. Len(starts) : spans[n] = span
  <2> DEFINE a == span.start
             e == span.end
             i == a + 1
  <2>1. /\ a \in Nat /\ e \in Nat /\ a < e /\ e <= L /\ span = Span(a, e)
        /\ (\A j \in a + 1 .. e : In(j)) /\ ~In(a) /\ ~In(e + 1)
    BY <1>4, <1>11 DEF IsMatch, L
  <2> HIDE DEF a, e
  <2>2. i \in 1 .. L /\ In(i) /\ ~In(i - 1) /\ i - 1 = a
    <3>1. i \in a + 1 .. e /\ i \in 1 .. L /\ i - 1 = a
      BY <1>1, <2>1
    <3> QED
      BY <2>1, <3>1
  <2>3. PICK n \in 1 .. Len(starts) : starts[n] = i
    BY <1>7, <1>8, <2>2
  <2>4. End(i) \in i .. L /\ ~In(End(i) + 1) /\ \A y \in i .. L : ~In(y + 1) => End(i) <= y
    BY <1>9, <2>2
  <2>5. End(i) = e
    <3> DEFINE f == End(i)
    <3>1. f <= e
      <4>1. e \in i .. L
        BY <1>1, <2>1
      <4> QED
        BY <2>1, <2>4, <4>1
    <3>2. f \in Int /\ f >= i
      BY <2>1, <2>4
    <3> HIDE DEF f
    <3>3. CASE f < e
      <4>1. f + 1 \in a + 1 .. e
        BY <2>1, <3>2, <3>3
      <4>2. In(f + 1)
        BY <2>1, <4>1
      <4> QED
        BY <2>4, <4>2 DEF f
    <3> QED
      BY <2>1, <3>1, <3>2, <3>3 DEF f
  <2>6. spans[n] = Span(i - 1, End(i))
    BY <1>3, <1>8, <2>3
  <2> QED
    BY <2>1, <2>2, <2>5, <2>6
<1>12. Len(spans) = Len(starts) /\ DOMAIN spans = 1 .. Len(starts)
  BY <1>3, <1>8
<1> QED
  BY <1>8, <1>10, <1>11, <1>12 DEF AreAllMatches, spans

\* The marks in a range.
LEMMA MarksAre ==
  ASSUME NEW current \in Seq(Byte), NEW a \in Nat, NEW b \in Nat, b <= Len(current)
  PROVE  Marks(current, Span(a, b)) = {current[i].mark : i \in a + 1 .. b}
<1> DEFINE piece == SubSeq(current, a + 1, b)
           n == IF a + 1 <= b THEN b - a ELSE 0
<1>1. DOMAIN piece = 1 .. n /\ \A i \in 1 .. n : piece[i] = current[a + i]
  <2>1. CASE a + 1 <= b
    BY <2>1
  <2>2. CASE ~(a + 1 <= b)
    <3>1. Len(piece) = 0 /\ DOMAIN piece = 1 .. Len(piece)
      BY <2>2
    <3> QED
      BY <2>2, <3>1
  <2> QED
    BY <2>1, <2>2
<1>2. Marks(current, Span(a, b)) = {byte.mark : byte \in {piece[i] : i \in 1 .. n}}
  BY <1>1 DEF Marks, Bytes, Span, ToSet
<1> HIDE DEF piece
<1>3. \A i \in 1 .. n : a + i \in a + 1 .. b
  OBVIOUS
<1>4. \A j \in a + 1 .. b : j - a \in 1 .. n /\ a + (j - a) = j
  OBVIOUS
<1> HIDE DEF n
<1>5. {byte.mark : byte \in {piece[i] : i \in 1 .. n}} = {current[i].mark : i \in a + 1 .. b}
  <2>1. \A i \in 1 .. n : piece[i].mark = current[a + i].mark /\ a + i \in a + 1 .. b
    BY <1>1, <1>3
  <2>2. \A j \in a + 1 .. b : j - a \in 1 .. n /\ piece[j - a].mark = current[j].mark
    BY <1>1, <1>4
  <2> DEFINE left == {byte.mark : byte \in {piece[i] : i \in 1 .. n}}
             right == {current[i].mark : i \in a + 1 .. b}
  <2>3. \A m : m \in left <=> \E i \in 1 .. n : m = piece[i].mark
    OBVIOUS
  <2>4. \A m : m \in right <=> \E i \in a + 1 .. b : m = current[i].mark
    OBVIOUS
  <2> HIDE DEF left, right
  <2>5. \A m : m \in left <=> m \in right
    <3>1. ASSUME NEW m \in left PROVE m \in right
      <4>1. PICK i \in 1 .. n : m = piece[i].mark
        BY <2>3
      <4> QED
        BY <2>1, <2>4, <4>1
    <3>2. ASSUME NEW m \in right PROVE m \in left
      <4>1. PICK i \in a + 1 .. b : m = current[i].mark
        BY <2>4
      <4> QED
        BY <2>2, <2>3, <4>1
    <3> QED
      BY <3>1, <3>2
  <2>6. left = right
    BY <2>5
  <2> QED
    BY <2>6 DEF left, right
<1> QED
  BY <1>2, <1>5

\* What is left of a range without the line feeds around it.
IsTrimmed(trimmed, current, a, b) ==
  /\ trimmed = Span(trimmed.start, trimmed.end)
  /\ trimmed.start \in Nat /\ trimmed.end \in Nat
  /\ a <= trimmed.start /\ trimmed.start <= trimmed.end /\ trimmed.end <= b
  /\ \A i \in a + 1 .. b :
       i \notin trimmed.start + 1 .. trimmed.end => current[i].mark = Newline
KeptOf(current, a, b) == {i \in a + 1 .. b : current[i].mark # Newline}

LEMMA TrimmedIs ==
  ASSUME NEW current \in Seq(Byte), NEW a \in Nat, NEW b \in Nat, a < b
  PROVE  IsTrimmed(Trimmed(current, Span(a, b)), current, a, b)
<1> DEFINE kept == KeptOf(current, a, b)
           trimmed == Trimmed(current, Span(a, b))
<1>1. trimmed = IF kept = {} THEN Span(b, b) ELSE Span(Min(kept) - 1, Max(kept))
  BY DEF Trimmed, KeptOf, Span
<1>2. kept \in SUBSET (1 .. b) /\ \A i \in a + 1 .. b : i \notin kept => current[i].mark = Newline
  BY DEF KeptOf
<1>3. \A i \in kept : i \in a + 1 .. b
  BY DEF KeptOf
<1> HIDE DEF kept, trimmed
<1>4. CASE kept = {}
  <2>1. trimmed = Span(b, b)
    BY <1>1, <1>4
  <2>2. trimmed.start = b /\ trimmed.end = b
    BY <2>1, SpanIs
  <2> QED
    BY <1>2, <1>4, <2>1, <2>2 DEF IsTrimmed, trimmed
<1>5. CASE kept # {}
  <2> DEFINE low == Min(kept)
             high == Max(kept)
  <2>1. low \in kept /\ high \in kept /\ \A y \in kept : low <= y /\ high >= y
    BY <1>2, <1>5, BoundedHasMin, BoundedHasMax
  <2>2. trimmed = Span(low - 1, high)
    BY <1>1, <1>5
  <2> HIDE DEF low, high
  <2>3. trimmed.start = low - 1 /\ trimmed.end = high
    BY <2>2, SpanIs
  <2>4. low \in a + 1 .. b /\ high \in a + 1 .. b /\ low <= high
    BY <1>3, <2>1
  <2>5. \A i \in kept : i \in low .. high
    BY <1>3, <2>1, <2>4
  <2>6. low - 1 \in Nat /\ high \in Nat /\ a <= low - 1 /\ low - 1 <= high /\ high <= b
        /\ (low - 1) + 1 = low
    BY <2>4
  <2> QED
    BY <1>2, <2>2, <2>3, <2>5, <2>6 DEF IsTrimmed, trimmed
<1> QED
  BY <1>4, <1>5

\* What stands in a range of one text and further on in another is trimmed alike.
SameAt(s, t, a, b, o) == \A i \in a + 1 .. b : t[i + o] = s[i]
TrimmedAlike(s, t, a, b, o) ==
  LET trimmed == Trimmed(s, Span(a, b))
  IN Trimmed(t, Span(a + o, b + o)) = Span(trimmed.start + o, trimmed.end + o)

LEMMA TrimmedMoves ==
  ASSUME NEW s \in Seq(Byte), NEW t \in Seq(Byte), NEW a \in Nat, NEW b \in Nat, NEW o \in Nat, a < b,
         SameAt(s, t, a, b, o)
  PROVE  TrimmedAlike(s, t, a, b, o)
<1> DEFINE kept == KeptOf(s, a, b)
           other == KeptOf(t, a + o, b + o)
           trimmed == Trimmed(s, Span(a, b))
           moved == Trimmed(t, Span(a + o, b + o))
<1>1. trimmed = IF kept = {} THEN Span(b, b) ELSE Span(Min(kept) - 1, Max(kept))
  BY DEF Trimmed, KeptOf, Span
<1>2. moved = IF other = {} THEN Span(b + o, b + o) ELSE Span(Min(other) - 1, Max(other))
  BY DEF Trimmed, KeptOf, Span
<1>3. \A i \in kept : i \in a + 1 .. b /\ i + o \in other
  BY DEF KeptOf, SameAt
<1>4. \A i \in other : i - o \in kept /\ (i - o) + o = i /\ i \in Int
  <2>1. SUFFICES ASSUME NEW i \in other PROVE i - o \in kept /\ (i - o) + o = i /\ i \in Int
    OBVIOUS
  <2>2. i \in a + o + 1 .. b + o /\ t[i].mark # Newline
    BY DEF KeptOf
  <2>3. i - o \in a + 1 .. b /\ (i - o) + o = i /\ i \in Int
    BY <2>2
  <2>4. t[(i - o) + o] = s[i - o]
    BY <2>3 DEF SameAt
  <2> QED
    BY <2>2, <2>3, <2>4 DEF KeptOf
<1>5. kept \in SUBSET (1 .. b)
  BY DEF KeptOf
<1> HIDE DEF kept, other, trimmed, moved
<1>6. CASE kept = {}
  <2>1. other = {}
    BY <1>4, <1>6
  <2>2. trimmed.start = b /\ trimmed.end = b
    BY <1>1, <1>6, SpanIs
  <2> QED
    BY <1>2, <2>1, <2>2 DEF trimmed, moved, TrimmedAlike
<1>7. CASE kept # {}
  <2> DEFINE low == Min(kept)
             high == Max(kept)
  <2>1. low \in kept /\ high \in kept /\ \A y \in kept : low <= y /\ high >= y
    BY <1>5, <1>7, BoundedHasMin, BoundedHasMax
  <2>2. trimmed.start = low - 1 /\ trimmed.end = high
    BY <1>1, <1>7, SpanIs
  <2> HIDE DEF low, high
  <2>3. low \in Nat /\ high \in Nat
    BY <1>5, <2>1
  <2>4. low + o \in other /\ high + o \in other
    BY <1>3, <2>1
  <2>5. \A y \in other : low + o <= y /\ high + o >= y
    <3>1. TAKE y \in other
    <3>2. y - o \in kept /\ (y - o) + o = y /\ y \in Int
      BY <1>4
    <3>3. low <= y - o /\ high >= y - o
      BY <2>1, <3>2
    <3> QED
      BY <2>3, <3>2, <3>3
  <2>6. other \in SUBSET Int
    BY <1>4
  <2>7. Min(other) = low + o /\ Max(other) = high + o
    BY <2>4, <2>5, <2>6, MinIs, MaxIs
  <2>8. moved = Span(Min(other) - 1, Max(other))
    BY <1>2, <2>4
  <2>9. (low + o) - 1 = (low - 1) + o
    BY <2>3
  <2> QED
    BY <2>2, <2>7, <2>8, <2>9 DEF trimmed, moved, TrimmedAlike
<1> QED
  BY <1>6, <1>7

-----------------------------------------------------------------------------
(* A match that is near to no segment was there before.                    *)

LEMMA FarMoves ==
  ASSUME NEW level, Traced(level), NEW after, Traced(after), DecodesTo(level, after),
         NEW regex, NEW span, IsMatch(after.current, regex, span), Far(level.next, span)
  PROVE  \E o \in Nat :
           /\ IsMatch(level.current, regex, Span(span.start + o, span.end + o))
           /\ \A i \in span.start + 1 .. span.end :
                /\ level.current[i + o] = after.current[i]
                /\ level.origins[i + o] = after.origins[i]
<1> DEFINE L == Len(level.current)
           M == Len(after.current)
           N == Len(level.next)
           a == span.start
           b == span.end
<1>1. /\ a \in Nat /\ b \in Nat /\ a < b /\ b <= M
      /\ \A i \in a + 1 .. b : InRegex(after.current, regex, i)
      /\ ~InRegex(after.current, regex, a) /\ ~InRegex(after.current, regex, b + 1)
  BY DEF IsMatch
<1>2. L \in Nat /\ M \in Nat
  BY DEF Traced
<1>3. Spaced(level.next) /\ M = L - Offset(level.next, N + 1) /\ N \in Nat
  BY DEF DecodesTo, AreSegments, Spaced
<1>4. PICK n \in 1 .. N + 1 : InsideGap(level.next, n, a, b)
  BY <1>1, <1>3, FarIsInGap DEF InsideGap
<1> DEFINE o == Offset(level.next, n)
           low == DecodedEnd(level.next, n)
           high == level.next[n].decoded.start
<1>5. o \in Nat /\ low \in Nat
  BY <1>3, <1>4, GapsRise
<1>6. /\ n > 1 => low < a
      /\ n = 1 => low = 0 /\ o = 0
      /\ n <= N => b < high
  BY <1>4 DEF InsideGap, DecodedEnd, Offset
<1>7. n <= N => high \in Nat /\ high < M
  <2>1. SUFFICES ASSUME n <= N PROVE high \in Nat /\ high < M
    OBVIOUS
  <2>2. n \in 1 .. N
    BY <1>3, <1>4, <2>1
  <2>3. high \in Nat /\ level.next[n].decoded.end \in Nat /\ high < level.next[n].decoded.end
    BY <1>3, <2>2, SegmentFacts
  <2>4. high \in high .. level.next[n].decoded.end - 1
    BY <2>3
  <2> QED
    BY <2>2, <2>3, <2>4 DEF DecodesTo
<1>8. ASSUME NEW x \in Nat, x < M, low <= x, n <= N => x + 1 <= high
      PROVE  /\ x + o < L /\ level.current[x + o + 1] = after.current[x + 1]
             /\ level.origins[x + o + 1] = after.origins[x + 1]
  <2>1. InGap(level.next, n, x, x + 1)
    BY <1>4, <1>8 DEF InGap
  <2>2. x + o < L /\ x \in 0 .. M - 1
    BY <1>4, <1>8, <2>1, GapInText
  <2> QED
    BY <1>4, <2>1, <2>2 DEF DecodesTo
<1>9. n = N + 1 => M = L - o
  BY <1>3
<1> HIDE DEF o, low, high, N, M, L, a, b
<1>10. ASSUME NEW i \in a + 1 .. b
       PROVE  /\ i + o \in 1 .. L /\ level.current[i + o] = after.current[i]
              /\ level.origins[i + o] = after.origins[i]
  <2> DEFINE x == i - 1
  <2>1. x \in Nat /\ x < M /\ low <= x /\ (n <= N => x + 1 <= high)
    BY <1>1, <1>2, <1>4, <1>5, <1>6, <1>7, <1>3
  <2>2. x + 1 = i /\ x + o + 1 = i + o
    BY <1>1, <1>5
  <2> HIDE DEF x
  <2>3. /\ x + o < L /\ level.current[i + o] = after.current[i]
        /\ level.origins[i + o] = after.origins[i]
    BY <1>8, <2>1, <2>2
  <2>4. i + o \in 1 .. L
    BY <1>2, <1>5, <2>1, <2>2, <2>3
  <2> QED
    BY <2>3, <2>4
<1>11. \A i \in a + 1 + o .. b + o : InRegex(level.current, regex, i)
  <2>1. TAKE i \in a + 1 + o .. b + o
  <2> DEFINE j == i - o
  <2>2. j \in a + 1 .. b /\ j + o = i
    BY <1>1, <1>5
  <2> HIDE DEF j
  <2>3. i \in 1 .. L /\ level.current[i] = after.current[j]
    BY <1>10, <2>2
  <2>4. InRegex(after.current, regex, j)
    BY <1>1, <2>2
  <2> QED
    BY <2>3, <2>4 DEF InRegex, L
<1>12. ~InRegex(level.current, regex, a + o)
  <2>1. CASE a = 0
    <3>1. n = 1
      BY <1>3, <1>4, <1>5, <1>6, <2>1
    <3>2. a + o = 0
      BY <1>6, <2>1, <3>1
    <3> QED
      BY <1>2, <3>2 DEF InRegex, L
  <2>2. CASE a > 0
    <3> DEFINE x == a - 1
    <3>1. x \in Nat /\ x < M /\ low <= x /\ (n <= N => x + 1 <= high)
      BY <1>1, <1>2, <1>3, <1>4, <1>5, <1>6, <1>7, <2>2
    <3>2. x + 1 = a /\ x + o + 1 = a + o
      BY <1>1, <1>5
    <3> HIDE DEF x
    <3>3. level.current[a + o] = after.current[a]
      BY <1>8, <3>1, <3>2
    <3>4. a \in 1 .. M
      BY <1>1, <1>2, <2>2
    <3> QED
      BY <1>1, <3>3, <3>4 DEF InRegex, M
  <2> QED
    BY <1>1, <2>1, <2>2
<1>13. ~InRegex(level.current, regex, b + o + 1)
  <2>1. CASE b < M
    <3>1. low <= b /\ (n <= N => b + 1 <= high)
      BY <1>1, <1>3, <1>4, <1>5, <1>6, <1>7
    <3>2. level.current[b + o + 1] = after.current[b + 1]
      BY <1>1, <1>8, <2>1, <3>1
    <3>3. b + 1 \in 1 .. M
      BY <1>1, <1>2, <2>1
    <3> QED
      BY <1>1, <3>2, <3>3 DEF InRegex, M
  <2>2. CASE ~(b < M)
    <3>1. ~(n <= N)
      BY <1>1, <1>2, <1>6, <1>7, <2>2
    <3>2. n = N + 1
      BY <1>3, <1>4, <3>1
    <3>3. b + o = L
      BY <1>1, <1>2, <1>5, <1>9, <2>2, <3>2
    <3>4. ~(b + o + 1 \in 1 .. L)
      BY <1>2, <3>3
    <3> QED
      BY <3>4 DEF InRegex, L
  <2> QED
    BY <2>1, <2>2
<1>14. a + o \in Nat /\ b + o \in Nat /\ a + o < b + o /\ b + o <= L /\ (a + o) + 1 = a + 1 + o
  <2>1. b \in a + 1 .. b
    BY <1>1
  <2>2. b + o \in 1 .. L
    BY <1>10, <2>1
  <2> QED
    BY <1>1, <1>2, <1>5, <2>2
<1>15. IsMatch(level.current, regex, Span(a + o, b + o))
  <2> DEFINE moved == Span(a + o, b + o)
  <2>1. moved.start = a + o /\ moved.end = b + o
    BY SpanIs
  <2> HIDE DEF moved
  <2>2. moved = Span(moved.start, moved.end)
    BY <2>1 DEF moved
  <2> QED
    BY <1>11, <1>12, <1>13, <1>14, <2>1, <2>2 DEF IsMatch, L, moved
<1> QED
  BY <1>5, <1>10, <1>15 DEF a, b

\* What makes a candidate of a match, where it stands aside.
MatchOf(current, span) == Marks(current, Trimmed(current, span))
FromOf(current, origins, span) ==
  LET trimmed == Trimmed(current, span)
  IN UNION {origins[i] : i \in trimmed.start + 1 .. trimmed.end}

MatchedAlike(s, t, u, v, span, o) ==
  LET moved == Span(span.start + o, span.end + o)
  IN MatchOf(t, moved) = MatchOf(s, span) /\ FromOf(t, v, moved) = FromOf(s, u, span)

LEMMA MatchMoves ==
  ASSUME NEW s \in Seq(Byte), NEW t \in Seq(Byte), NEW u, NEW v,
         NEW span, span = Span(span.start, span.end), span.start \in Nat, span.end \in Nat,
         span.start < span.end, span.end <= Len(s),
         NEW o \in Nat, span.end + o <= Len(t),
         SameAt(s, t, span.start, span.end, o), SameAt(u, v, span.start, span.end, o)
  PROVE  MatchedAlike(s, t, u, v, span, o)
<1> DEFINE a == span.start
           b == span.end
           moved == Span(a + o, b + o)
           one == Trimmed(s, Span(a, b))
           two == Trimmed(t, moved)
           c == one.start
           d == one.end
<1>1. IsTrimmed(one, s, a, b)
  BY TrimmedIs
<1>2. two = Span(c + o, d + o)
  <2>1. span = Span(a, b) /\ a \in Nat /\ b \in Nat /\ a < b
        /\ \A i \in a + 1 .. b : t[i + o] = s[i]
    BY DEF SameAt
  <2> HIDE DEF a, b
  <2>2. Trimmed(t, Span(a + o, b + o))
          = Span(Trimmed(s, Span(a, b)).start + o, Trimmed(s, Span(a, b)).end + o)
    <3>1. SameAt(s, t, a, b, o)
      BY <2>1 DEF SameAt
    <3> QED
      BY <2>1, <3>1, TrimmedMoves DEF TrimmedAlike
  <2> QED
    BY <2>2
<1>3. /\ one = Span(c, d) /\ c \in Nat /\ d \in Nat /\ a <= c /\ c <= d /\ d <= b
  BY <1>1 DEF IsTrimmed
<1>4. two.start = c + o /\ two.end = d + o
  BY <1>2, SpanIs
<1>5. span = Span(a, b) /\ a \in Nat /\ b \in Nat /\ a < b /\ b <= Len(s) /\ b + o <= Len(t)
      /\ \A i \in a + 1 .. b : t[i + o] = s[i] /\ v[i + o] = u[i]
  BY DEF SameAt
<1> HIDE DEF a, b, one, two, c, d, moved
<1>6. \A i \in c + 1 .. d : i + o \in (c + o) + 1 .. d + o /\ t[i + o] = s[i] /\ v[i + o] = u[i]
  <2>1. TAKE i \in c + 1 .. d
  <2>2. i \in a + 1 .. b /\ i + o \in (c + o) + 1 .. d + o
    BY <1>3, <1>5, SMTT(30)
  <2> QED
    BY <1>5, <2>2
<1>7. \A i \in (c + o) + 1 .. d + o : i - o \in c + 1 .. d /\ (i - o) + o = i
  BY <1>3
<1>8. Len(s) \in Nat /\ Len(t) \in Nat
  OBVIOUS
<1>9. MatchOf(t, moved) = MatchOf(s, span)
  <2>1. MatchOf(s, span) = {s[i].mark : i \in c + 1 .. d}
    <3>1. d <= Len(s)
      BY <1>3, <1>5, <1>8
    <3>2. Marks(s, Span(c, d)) = {s[i].mark : i \in c + 1 .. d}
      BY <1>3, <3>1, MarksAre
    <3> QED
      BY <1>3, <1>5, <3>2 DEF MatchOf, one
  <2>2. MatchOf(t, moved) = {t[i].mark : i \in (c + o) + 1 .. d + o}
    <3>1. c + o \in Nat /\ d + o \in Nat /\ d + o <= Len(t)
      BY <1>3, <1>5, <1>8
    <3>2. Marks(t, Span(c + o, d + o)) = {t[i].mark : i \in (c + o) + 1 .. d + o}
      BY <3>1, MarksAre
    <3> QED
      BY <1>2, <3>2 DEF MatchOf, two
  <2> DEFINE left == {s[i].mark : i \in c + 1 .. d}
             right == {t[i].mark : i \in (c + o) + 1 .. d + o}
  <2>3. ASSUME NEW m \in left PROVE m \in right
    <3>1. PICK i \in c + 1 .. d : m = s[i].mark
      OBVIOUS
    <3>2. i + o \in (c + o) + 1 .. d + o /\ m = t[i + o].mark
      BY <1>6, <3>1
    <3> QED
      BY <3>2
  <2>4. ASSUME NEW m \in right PROVE m \in left
    <3>1. PICK i \in (c + o) + 1 .. d + o : m = t[i].mark
      OBVIOUS
    <3>2. i - o \in c + 1 .. d /\ t[i] = s[i - o]
      <4>1. i - o \in c + 1 .. d /\ (i - o) + o = i
        BY <1>7
      <4>2. t[(i - o) + o] = s[i - o]
        BY <1>6, <4>1
      <4> QED
        BY <4>1, <4>2
    <3> QED
      BY <3>1, <3>2
  <2> HIDE DEF left, right
  <2>5. left = right
    BY <2>3, <2>4
  <2> QED
    BY <2>1, <2>2, <2>5 DEF left, right
<1>10. FromOf(t, v, moved) = FromOf(s, u, span)
  <2> DEFINE left == UNION {u[i] : i \in c + 1 .. d}
             right == UNION {v[i] : i \in (c + o) + 1 .. d + o}
  <2>1. FromOf(s, u, span) = left
    BY <1>5 DEF FromOf, one, c, d
  <2>2. FromOf(t, v, moved) = right
    BY <1>4 DEF FromOf, two
  <2>3. ASSUME NEW m \in left PROVE m \in right
    <3>1. PICK i \in c + 1 .. d : m \in u[i]
      OBVIOUS
    <3>2. i + o \in (c + o) + 1 .. d + o /\ m \in v[i + o]
      BY <1>6, <3>1
    <3> QED
      BY <3>2
  <2>4. ASSUME NEW m \in right PROVE m \in left
    <3>1. PICK i \in (c + o) + 1 .. d + o : m \in v[i]
      OBVIOUS
    <3>2. i - o \in c + 1 .. d /\ v[i] = u[i - o]
      <4>1. i - o \in c + 1 .. d /\ (i - o) + o = i
        BY <1>7
      <4>2. v[(i - o) + o] = u[i - o]
        BY <1>6, <4>1
      <4> QED
        BY <4>1, <4>2
    <3> QED
      BY <3>1, <3>2
  <2> HIDE DEF left, right
  <2>5. left = right
    BY <2>3, <2>4
  <2> QED
    BY <2>1, <2>2, <2>5
<1> QED
  BY <1>9, <1>10 DEF moved, a, b, MatchedAlike

-----------------------------------------------------------------------------
(* The way back of a range through the texts before.                       *)

\* A list of segments that has all that are near to a range, and no others than those of
\* a text.
IsListed(list, segments, span) ==
  /\ Len(list) \in Nat /\ DOMAIN list = 1 .. Len(list)
  /\ \A j \in 1 .. Len(list) : \E k \in 1 .. Len(segments) : list[j] = segments[k]
  /\ \A k \in NearOf(segments, span) : \E j \in 1 .. Len(list) : list[j] = segments[k]

\* The segments of a text are a sequence.
LEMMA SegmentsAreSequence ==
  ASSUME NEW current \in Seq(Byte), NEW before
  PROVE  \E T : FindEncodedSegments(current, before) \in Seq(T)
<1> DEFINE segments == FindEncodedSegments(current, before)
           T == {segments[n] : n \in DOMAIN segments}
           N == Len(segments)
<1>1. DOMAIN segments = 1 .. N /\ N \in Nat
  BY SegmentsAre DEF AreSegments, Spaced
<1>2. segments = [n \in DOMAIN segments |-> segments[n]]
  BY DEF FindEncodedSegments
<1> HIDE DEF segments
<1>3. segments = [n \in 1 .. N |-> segments[n]]
  BY <1>1, <1>2
<1> HIDE DEF N
<1>4. \A n \in 1 .. N : segments[n] \in T
  BY <1>1
<1> HIDE DEF T
<1>5. segments \in Seq(T)
  BY <1>1, <1>3, <1>4
<1> QED
  BY <1>5 DEF segments

LEMMA AllAreListed ==
  ASSUME NEW segments, Len(segments) \in Nat, DOMAIN segments = 1 .. Len(segments), NEW span
  PROVE  IsListed(segments, segments, span)
BY DEF IsListed, NearOf

LEMMA NearAreListed ==
  ASSUME NEW T, NEW segments \in Seq(T), NEW span
  PROVE  /\ IsListed(NearTo(segments, span), segments, span)
         /\ NearTo(segments, span) = <<>> <=> Far(segments, span)
<1> DEFINE N == Len(segments)
           S == NearOf(segments, span)
           at == Enumerated(N, S)
           list == NearTo(segments, span)
<1>1. N \in Nat /\ DOMAIN segments = 1 .. N
  OBVIOUS
<1>2. list = Picked(segments, S)
  <2>1. [i \in DOMAIN segments |->
           IF Overlaps(segments[i].decoded, span) THEN <<segments[i]>> ELSE <<>>]
          = [i \in 1 .. Len(segments) |-> IF i \in S THEN <<segments[i]>> ELSE <<>>]
    BY <1>1 DEF NearOf
  <2> QED
    BY <2>1 DEF NearTo, Only, Picked
<1>3. list = Elements(segments, at)
  BY <1>2, PickedAre
<1>4. Enumerates(at, N, S)
  BY <1>1, EnumeratedIs
<1> HIDE DEF at, list
<1>5. /\ Len(at) \in Nat /\ \A a \in 1 .. Len(at) : at[a] \in 1 .. N /\ at[a] \in S
      /\ \A i \in 1 .. N : i \in S => \E a \in 1 .. Len(at) : at[a] = i
  BY <1>4 DEF Enumerates
<1>6. /\ Len(list) = Len(at) /\ DOMAIN list = 1 .. Len(at)
      /\ \A a \in 1 .. Len(at) : list[a] = segments[at[a]]
  BY <1>3, <1>5 DEF Elements
<1>7. IsListed(list, segments, span)
  <2>1. \A k \in S : k \in 1 .. N
    BY DEF NearOf
  <2> HIDE DEF S
  <2>2. \A j \in 1 .. Len(list) : \E k \in 1 .. N : list[j] = segments[k]
    BY <1>5, <1>6
  <2>3. \A k \in S : \E j \in 1 .. Len(list) : list[j] = segments[k]
    BY <1>5, <1>6, <2>1
  <2> QED
    BY <1>5, <1>6, <2>2, <2>3 DEF IsListed, S
<1>8. list = <<>> <=> Far(segments, span)
  <2>1. Far(segments, span) <=> S = {}
    BY DEF Far, NearOf
  <2>2. S = {} <=> Len(at) = 0
    <3>1. \A k \in S : k \in 1 .. N
      BY DEF NearOf
    <3> HIDE DEF S
    <3>2. S = {} => Len(at) = 0
      <4>1. SUFFICES ASSUME S = {}, Len(at) # 0 PROVE FALSE
        OBVIOUS
      <4>2. 1 \in 1 .. Len(at)
        BY <1>5, <4>1
      <4> QED
        BY <1>5, <4>1, <4>2
    <3>3. Len(at) = 0 => S = {}
      BY <1>5, <3>1
    <3> QED
      BY <3>2, <3>3
  <2>3. list = <<>> <=> Len(at) = 0
    <3>1. list = <<>> => Len(at) = 0
      BY <1>6
    <3>2. Len(at) = 0 => list = <<>>
      <4>1. SUFFICES ASSUME Len(at) = 0 PROVE list = <<>>
        OBVIOUS
      <4>2. list = [a \in 1 .. 0 |-> segments[at[a]]]
        BY <1>3, <4>1 DEF Elements
      <4> QED
        BY <4>2
    <3> QED
      BY <3>1, <3>2
  <2> QED
    BY <2>1, <2>2, <2>3
<1> QED
  BY <1>7, <1>8 DEF list

\* One step of ToOriginal, where it stops, and what it returns.
NearAt(at) == {j \in DOMAIN at.segments : Overlaps(at.segments[j].decoded, at.span)}
AroundAt(at) == {j \in NearAt(at) : Encloses(at.segments[j].decoded, at.span)}
MappedAt(at) == {Mapped(at.segments[j], at.span) : j \in NearAt(at)}
BeforeAt(at) ==
  [segments |-> at.segments[1].predecessors,
   span |-> Span(Min({m.start : m \in MappedAt(at)}), Max({m.end : m \in MappedAt(at)}))]
NextAt(at) == IF NearAt(at) = {} \/ AroundAt(at) # {} THEN at ELSE BeforeAt(at)
ResultAt(at) ==
  IF AroundAt(at) # {} THEN at.segments[Min(AroundAt(at))].original ELSE at.span

Backs(back, at, m) == back = [n \in 0 .. m |-> IF n = 0 THEN at ELSE NextAt(back[n - 1])]
BackSteps(back, at, m) == back[0] = at /\ \A n \in 1 .. m : back[n] = NextAt(back[n - 1])

LEMMA BacksIsSteps ==
  ASSUME NEW m \in Nat, NEW at, NEW back, Backs(back, at, m)
  PROVE  BackSteps(back, at, m)
<1> DEFINE Value(n) == IF n = 0 THEN at ELSE NextAt(back[n - 1])
<1>1. back = [n \in 0 .. m |-> Value(n)]
  BY DEF Backs
<1>2. \A n \in 0 .. m : back[n] = Value(n)
  BY <1>1
<1>3. 0 \in 0 .. m /\ \A n \in 1 .. m : n \in 0 .. m /\ n # 0
  OBVIOUS
<1>4. back[0] = at
  BY <1>2, <1>3
<1>5. \A n \in 1 .. m : back[n] = NextAt(back[n - 1])
  BY <1>2, <1>3
<1> QED
  BY <1>4, <1>5 DEF BackSteps

LEMMA ThereIsABack ==
  ASSUME NEW last \in Nat, NEW at
  PROVE  \E back : Backs(back, at, last)
<1> DEFINE Is(f, m) == f = [n \in 0 .. m |-> IF n = 0 THEN at ELSE NextAt(f[n - 1])]
           S == {m \in Nat : \E f : Is(f, m)}
<1>1. 0 \in S
  <2> DEFINE f == [n \in 0 .. 0 |-> at]
  <2>1. Is(f, 0)
    OBVIOUS
  <2> QED
    BY <2>1
<1>2. ASSUME NEW m \in Nat, m \in S PROVE m + 1 \in S
  <2>1. PICK f : Is(f, m)
    BY <1>2
  <2> DEFINE g == [i \in 0 .. m + 1 |-> IF i \in 0 .. m THEN f[i] ELSE NextAt(f[m])]
  <2>2. \A i \in 0 .. m : f[i] = IF i = 0 THEN at ELSE NextAt(f[i - 1])
    BY <2>1
  <2>3. ASSUME NEW i \in 0 .. m + 1
        PROVE  g[i] = IF i = 0 THEN at ELSE NextAt(g[i - 1])
    <3>1. CASE i = 0
      BY <3>1, <2>2
    <3>2. CASE i \in 1 .. m
      <4>1. i - 1 \in 0 .. m /\ i \in 0 .. m /\ i # 0
        BY <3>2
      <4>2. g[i] = f[i] /\ g[i - 1] = f[i - 1]
        BY <4>1
      <4> HIDE DEF g
      <4> QED
        BY <4>1, <4>2, <2>2
    <3>3. CASE i = m + 1
      <4>1. i - 1 = m /\ i \notin 0 .. m /\ m \in 0 .. m /\ m \in 0 .. m + 1 /\ i # 0
        BY <3>3
      <4> QED
        BY <4>1, <3>3
    <3> QED
      BY <3>1, <3>2, <3>3
  <2> HIDE DEF g
  <2>4. g = [i \in 0 .. m + 1 |-> g[i]]
    BY DEF g
  <2>5. Is(g, m + 1)
    BY <2>3, <2>4
  <2> QED
    BY <2>5
<1>3. last \in S
  <2> HIDE DEF S
  <2> QED
    BY <1>1, <1>2, SetInduction
<1> QED
  BY <1>3 DEF Backs

\* ToOriginal goes through such steps.
LEMMA ToOriginalIs ==
  ASSUME NEW segments, NEW span
  PROVE  LET at == [segments |-> segments, span |-> span]
         IN \E back : /\ BackSteps(back, at, MaxDecodeDepth)
                      /\ ToOriginal(segments, span) = ResultAt(back[MaxDecodeDepth])
<1> DEFINE at == [segments |-> segments, span |-> span]
           last == MaxDecodeDepth
           choice == CHOOSE back : Backs(back, at, last)
<1>1. last \in Nat
  BY OptionAssumption
<1>2. Backs(choice, at, last)
  BY <1>1, ThereIsABack
<1>3. ToOriginal(segments, span) = ResultAt(choice[last])
  BY DEF ToOriginal, Backs, ResultAt, NextAt, NearAt, AroundAt, BeforeAt, MappedAt
<1> HIDE DEF choice, last, at
<1>4. BackSteps(choice, at, last)
  BY <1>1, <1>2, BacksIsSteps
<1> QED
  BY <1>3, <1>4 DEF last, at

LEMMA BackStays ==
  ASSUME NEW m \in Nat, NEW at, NEW back, BackSteps(back, at, m), NextAt(at) = at
  PROVE  back[m] = at
<1> DEFINE P == {n \in Nat : n <= m => back[n] = at}
<1>1. 0 \in P
  BY DEF BackSteps
<1>2. ASSUME NEW n \in Nat, n \in P PROVE n + 1 \in P
  <2>1. SUFFICES ASSUME n + 1 <= m PROVE back[n + 1] = at
    OBVIOUS
  <2>2. n + 1 \in 1 .. m /\ (n + 1) - 1 = n /\ back[n] = at
    BY <1>2, <2>1
  <2> QED
    BY <2>2 DEF BackSteps
<1>3. m \in P
  <2> HIDE DEF P
  <2> QED
    BY <1>1, <1>2, SetInduction
<1> QED
  BY <1>3

LEMMA BackGoesOn ==
  ASSUME NEW m \in Nat, m > 0, NEW at, NEW back, BackSteps(back, at, m)
  PROVE  \E rest : BackSteps(rest, NextAt(at), m - 1) /\ rest[m - 1] = back[m]
<1> DEFINE rest == [n \in 0 .. m - 1 |-> back[n + 1]]
<1>1. \A n \in 0 .. m - 1 : rest[n] = back[n + 1]
  OBVIOUS
<1> HIDE DEF rest
<1>2. rest[0] = NextAt(at)
  <2>1. 0 \in 0 .. m - 1 /\ 1 \in 1 .. m /\ 0 + 1 = 1 /\ 1 - 1 = 0
    OBVIOUS
  <2> QED
    BY <1>1, <2>1 DEF BackSteps
<1>3. \A n \in 1 .. m - 1 : rest[n] = NextAt(rest[n - 1])
  <2>1. TAKE n \in 1 .. m - 1
  <2>2. n \in 0 .. m - 1 /\ n - 1 \in 0 .. m - 1 /\ (n - 1) + 1 = n /\ n + 1 \in 1 .. m
        /\ (n + 1) - 1 = n
    OBVIOUS
  <2> QED
    BY <1>1, <2>2 DEF BackSteps
<1>4. rest[m - 1] = back[m]
  <2>1. m - 1 \in 0 .. m - 1 /\ (m - 1) + 1 = m
    OBVIOUS
  <2> QED
    BY <1>1, <2>1
<1> QED
  BY <1>2, <1>3, <1>4 DEF BackSteps

\* What is known of a range on its way back: it is in its text, the list has the segments
\* that are near to it, and unless the text is the fragment itself there is such a segment.
KnownAt(level, i, at) ==
  /\ at.span.start \in Nat /\ at.span.end \in Nat
  /\ at.span.start < at.span.end /\ at.span.end <= Len(level.current)
  /\ IsListed(at.segments, level.segments, at.span)
  /\ i = 0 \/ ~Far(level.segments, at.span)

\* The range of the fragment has all that a range comes from, and besides only encoded bytes.
Located(level, span, range) ==
  /\ range.start \in Nat /\ range.end \in Nat
  /\ range.start < range.end /\ range.end <= Len(text)
  /\ Sources(level, span) \subseteq range.start .. range.end - 1
  /\ \A place \in range.start .. range.end - 1 :
       place \notin Sources(level, span) => text[place + 1].encoding # Unencoded

\* The i-th text, in which every range that is known is located by as many steps as
\* there are texts before it.
LocatingAt(level, i) ==
  /\ Traced(level) /\ Spaced(level.segments) /\ \E T : level.segments \in Seq(T)
  /\ i = 0 => level = Undecoded
  /\ \A k \in 1 .. Len(level.next) :
       i = 0 \/ ~Far(level.segments, level.next[k].encoded)
  /\ \A m \in i .. MaxDecodeDepth : \A at, back :
       KnownAt(level, i, at) /\ BackSteps(back, at, m)
         => Located(level, at.span, ResultAt(back[m]))

LEMMA SourcesAre ==
  ASSUME NEW level, NEW span, span.start \in Nat, span.end \in Nat, NEW place
  PROVE  place \in Sources(level, span)
           <=> \E x \in span.start .. span.end - 1 : place \in level.origins[x + 1]
<1> DEFINE a == span.start
           b == span.end
<1>1. place \in Sources(level, span) <=> \E i \in a + 1 .. b : place \in level.origins[i]
  BY DEF Sources
<1>2. a \in Nat /\ b \in Nat
  OBVIOUS
<1> HIDE DEF a, b
<1>3. ASSUME NEW i \in a + 1 .. b, place \in level.origins[i]
      PROVE  \E x \in a .. b - 1 : place \in level.origins[x + 1]
  <2>1. i - 1 \in a .. b - 1 /\ (i - 1) + 1 = i
    BY <1>2
  <2> QED
    BY <1>3, <2>1
<1>4. ASSUME NEW x \in a .. b - 1, place \in level.origins[x + 1]
      PROVE  \E i \in a + 1 .. b : place \in level.origins[i]
  <2>1. x + 1 \in a + 1 .. b
    BY <1>2
  <2> QED
    BY <1>4, <2>1
<1> QED
  BY <1>1, <1>3, <1>4 DEF a, b

\* In the fragment a range is where it is.
LEMMA UndecodedIsLocating ==
  ASSUME text \in Texts
  PROVE  LocatingAt(Undecoded, 0)
<1> DEFINE level == Undecoded
<1>1. /\ Traced(level) /\ level.segments = <<>> /\ level.current = text
      /\ \A i \in 1 .. Len(text) : level.origins[i] = {i - 1}
  BY UndecodedIsTraced
<1>2. Len(text) \in Nat
  BY <1>1 DEF Traced
<1>3. level = Undecoded
  OBVIOUS
<1> HIDE DEF level
<1>4. ASSUME NEW m \in 0 .. MaxDecodeDepth, NEW at, NEW back,
             KnownAt(level, 0, at), BackSteps(back, at, m)
      PROVE  Located(level, at.span, ResultAt(back[m]))
  <2> DEFINE a == at.span.start
             b == at.span.end
             list == at.segments
  <2>1. a \in Nat /\ b \in Nat /\ a < b /\ b <= Len(text)
    BY <1>1, <1>4 DEF KnownAt
  <2>2. DOMAIN list = {}
    <3>1. /\ Len(list) \in Nat /\ DOMAIN list = 1 .. Len(list)
          /\ \A j \in 1 .. Len(list) : \E k \in 1 .. 0 : list[j] = level.segments[k]
      BY <1>1, <1>4 DEF KnownAt, IsListed
    <3> HIDE DEF list
    <3> QED
      BY <3>1
  <2>3. NearAt(at) = {} /\ AroundAt(at) = {}
    BY <2>2 DEF NearAt, AroundAt
  <2>4. NextAt(at) = at /\ ResultAt(at) = at.span
    BY <2>3 DEF NextAt, ResultAt
  <2>5. back[m] = at
    BY <1>4, <2>4, BackStays, OptionAssumption
  <2>6. \A place : place \in Sources(level, at.span) <=> place \in a .. b - 1
    <3>1. TAKE place
    <3>2. place \in Sources(level, at.span) <=> \E x \in a .. b - 1 : place \in level.origins[x + 1]
      BY <2>1, SourcesAre
    <3>3. ASSUME NEW x \in a .. b - 1 PROVE level.origins[x + 1] = {x}
      <4> HIDE DEF a, b
      <4>1. x + 1 \in 1 .. Len(text) /\ (x + 1) - 1 = x
        BY <1>2, <2>1
      <4> QED
        BY <1>1, <4>1
    <3> HIDE DEF a, b
    <3> QED
      BY <3>2, <3>3
  <2>7. ResultAt(back[m]) = at.span
    BY <2>4, <2>5
  <2> QED
    BY <2>1, <2>6, <2>7 DEF Located
<1>5. Spaced(level.segments) /\ \E T : level.segments \in Seq(T)
  <2>1. <<>> \in Seq({})
    OBVIOUS
  <2>2. Spaced(<<>>)
    BY DEF Spaced
  <2> QED
    BY <1>1, <2>1, <2>2
<1>6. LocatingAt(level, 0)
  BY <1>1, <1>3, <1>4, <1>5 DEF LocatingAt
<1> QED
  BY <1>6 DEF level

-----------------------------------------------------------------------------
(* A range in what a segment decodes to is where the segment is.           *)

LEMMA EnclosedIsLocated ==
  ASSUME NEW level, Traced(level), NEW after, DecodesTo(level, after),
         NEW span, span.start \in Nat, span.end \in Nat, span.start < span.end,
         NEW k \in 1 .. Len(level.next), Encloses(level.next[k].decoded, span),
         NEW range, Located(level, level.next[k].encoded, range)
  PROVE  Located(after, span, range)
<1> DEFINE a == span.start
           b == span.end
           d == level.next[k].decoded
           u == d.start
           v == d.end
           e == level.next[k].encoded
<1>1. a \in Nat /\ b \in Nat /\ a < b /\ u <= a /\ b <= v
  BY DEF Encloses
<1>2. u \in Nat /\ v \in Nat
  BY SegmentFacts DEF DecodesTo, AreSegments
<1>3. \A x \in u .. v - 1 : after.origins[x + 1] = Sources(level, e)
  BY DEF DecodesTo
<1> HIDE DEF u, v, d, e
<1>4. \A place : place \in Sources(after, span) <=> place \in Sources(level, e)
  <2>1. TAKE place
  <2>2. place \in Sources(after, span) <=> \E x \in a .. b - 1 : place \in after.origins[x + 1]
    BY SourcesAre
  <2> HIDE DEF a, b
  <2>3. a \in a .. b - 1 /\ \A x \in a .. b - 1 : x \in u .. v - 1
    BY <1>1, <1>2
  <2> QED
    BY <1>3, <2>2, <2>3
<1>5. Sources(after, span) = Sources(level, e)
  BY <1>4
<1> QED
  BY <1>5 DEF Located, e

-----------------------------------------------------------------------------
(* Every other range is located with the range that it is mapped to.       *)

\* The bytes of a run are encoded.
LEMMA InRunIsEncoded ==
  ASSUME NEW level, Traced(level), NEW k \in 1 .. Len(level.next),
         NEW y \in Nat, level.next[k].encoded.start <= y, y < level.next[k].encoded.end
  PROVE  level.current[y + 1].encoding # Unencoded
<1> DEFINE e == level.next[k].encoded
           s == e.start
           i == s + 1
           size == level.current[i].size
<1>1. /\ s \in Nat /\ e.end \in Nat /\ s < e.end /\ e.end <= Len(level.current)
      /\ IsRun(level.current, i) /\ e = RunSpan(level.current, i)
  BY SegmentInText
<1>2. level.current \in Seq(Byte) /\ Len(level.current) \in Nat
  BY DEF Traced
<1>3. i \in 1 .. Len(level.current)
  BY <1>1, <1>2
<1>4. /\ level.current[i].encoding # Unencoded /\ size \in Nat
      /\ \A j \in i .. i + size - 1 : level.current[j].encoding = level.current[i].encoding
  BY <1>1, <1>2, <1>3, RunFacts
<1>5. e.end = i - 1 + size
  BY <1>1, <1>2, <1>3, RunIsSpan
<1>6. s <= y /\ y < e.end
  OBVIOUS
<1> DEFINE t == e.end
<1>7. t = i - 1 + size /\ s <= y /\ y < t
  BY <1>5, <1>6
<1> HIDE DEF e, size, t, s
<1>8. y + 1 \in i .. i + size - 1
  BY <1>1, <1>4, <1>7
<1> QED
  BY <1>4, <1>8

LEMMA HullIsLocated ==
  ASSUME NEW level, Traced(level), NEW after, Traced(after), DecodesTo(level, after),
         NEW span, span.start \in Nat, span.end \in Nat, span.start < span.end,
         span.end <= Len(after.current),
         NEW hull, IsHull(hull, level.next, span),
         NEW range, Located(level, hull, range)
  PROVE  Located(after, span, range)
<1> DEFINE a == span.start
           b == span.end
           h == hull.start
           l == hull.end
           L == Len(level.current)
           M == Len(after.current)
<1>1. L \in Nat /\ M \in Nat /\ Spaced(level.next)
  BY DEF Traced, DecodesTo, AreSegments
<1>2. h \in Nat /\ l \in Nat /\ h < l /\ l <= L
  BY <1>1, HullIsSpan
<1>3. a \in Nat /\ b \in Nat /\ a < b /\ b <= M
  OBVIOUS
<1>4. ASSUME NEW place PROVE place \in Sources(level, hull)
                               <=> \E y \in h .. l - 1 : place \in level.origins[y + 1]
  BY <1>2, SourcesAre
<1>5. ASSUME NEW place PROVE place \in Sources(after, span)
                               <=> \E x \in a .. b - 1 : place \in after.origins[x + 1]
  BY <1>3, SourcesAre
<1>6. ASSUME NEW place, place \in Sources(after, span) PROVE place \in Sources(level, hull)
  <2>1. PICK x \in a .. b - 1 : place \in after.origins[x + 1]
    BY <1>5, <1>6
  <2>2. x \in Nat /\ x < M
    BY <1>1, <1>3, <2>1
  <2>3. CASE \E k \in 1 .. Len(level.next) : /\ level.next[k].decoded.start <= x
                                             /\ x < level.next[k].decoded.end
    <3>1. PICK k \in 1 .. Len(level.next) : /\ level.next[k].decoded.start <= x
                                            /\ x < level.next[k].decoded.end
      BY <2>3
    <3> DEFINE e == level.next[k].encoded
               c == e.start
               f == e.end
    <3>2. c \in Nat /\ f \in Nat
      BY SegmentInText
    <3>3. level.next[k].decoded.start \in Nat /\ level.next[k].decoded.end \in Nat
      BY <1>1, SegmentFacts
    <3>4. x \in level.next[k].decoded.start .. level.next[k].decoded.end - 1
      BY <2>2, <3>1, <3>3
    <3>5. after.origins[x + 1] = Sources(level, e)
      BY <3>4 DEF DecodesTo
    <3>6. PICK y \in c .. f - 1 : place \in level.origins[y + 1]
      BY <2>1, <3>2, <3>5, SourcesAre
    <3>7. h <= c /\ f <= l
      BY <1>1, <1>3, <2>1, <3>1, HullHasSegments
    <3> HIDE DEF c, f, h, l, e
    <3>8. y \in h .. l - 1
      BY <1>2, <3>2, <3>6, <3>7
    <3> QED
      BY <1>4, <3>6, <3>8
  <2>4. CASE \E n \in 1 .. Len(level.next) + 1 : InGap(level.next, n, x, x + 1)
    <3>1. PICK n \in 1 .. Len(level.next) + 1 : InGap(level.next, n, x, x + 1)
      BY <2>4
    <3> DEFINE o == Offset(level.next, n)
               y == x + o
    <3>2. x \in 0 .. M - 1
      BY <1>1, <2>2
    <3>3. after.origins[x + 1] = level.origins[y + 1]
      BY <3>1, <3>2 DEF DecodesTo
    <3>4. h <= y /\ y < l
      BY <1>1, <1>3, <2>1, <3>1, HullHasGaps
    <3>5. o \in Nat
      BY <1>1, GapsRise
    <3> HIDE DEF h, l, o
    <3>6. y \in h .. l - 1
      BY <1>2, <2>2, <3>4, <3>5
    <3> QED
      BY <1>4, <2>1, <3>3, <3>6
  <2> QED
    BY <1>1, <2>2, <2>3, <2>4, DecodedPlace
<1>7. ASSUME NEW place, place \in Sources(level, hull), place \notin Sources(after, span)
      PROVE  text[place + 1].encoding # Unencoded
  <2>1. PICK y \in h .. l - 1 : place \in level.origins[y + 1]
    BY <1>4, <1>7
  <2>2. y \in Nat /\ y < L /\ y + 1 \in 1 .. L
    BY <1>1, <1>2, <2>1
  <2>3. CASE \E k \in 1 .. Len(level.next) : /\ level.next[k].encoded.start <= y
                                             /\ y < level.next[k].encoded.end
    <3>1. level.current[y + 1].encoding # Unencoded
      BY <2>2, <2>3, InRunIsEncoded
    <3>2. text[place + 1].encoding # Unencoded \/ text[place + 1] = level.current[y + 1]
      BY <2>1, <2>2 DEF Traced
    <3> QED
      BY <3>1, <3>2
  <2>4. ASSUME NEW n \in 1 .. Len(level.next) + 1,
               y - Offset(level.next, n) \in Nat,
               InGap(level.next, n, y - Offset(level.next, n), y - Offset(level.next, n) + 1)
        PROVE  FALSE
    <3> DEFINE o == Offset(level.next, n)
               x == y - o
    <3>1. o \in Nat
      BY <1>1, GapsRise
    <3>2. x \in Nat /\ x + o = y /\ InGap(level.next, n, x, x + 1)
      BY <2>2, <2>4, <3>1
    <3>3. h <= y /\ y < l
      BY <1>2, <2>1
    <3> HIDE DEF x
    <3>4. h <= x + o /\ x + o < l
      BY <3>2, <3>3
    <3>5. a <= x /\ x < b
      BY <1>1, <3>2, <3>4, HullHasOnly
    <3>6. x \in a .. b - 1 /\ x \in 0 .. M - 1
      BY <1>1, <1>3, <3>2, <3>5
    <3>7. after.origins[x + 1] = level.origins[y + 1]
      <4>1. after.origins[x + 1] = level.origins[x + o + 1]
        BY <3>2, <3>6 DEF DecodesTo
      <4> QED
        BY <3>2, <4>1
    <3> QED
      BY <1>5, <1>7, <2>1, <3>6, <3>7
  <2> QED
    BY <1>1, <2>2, <2>3, <2>4, EncodedPlace
<1>8. \A place \in range.start .. range.end - 1 :
        place \notin Sources(after, span) => text[place + 1].encoding # Unencoded
  <2>1. TAKE place \in range.start .. range.end - 1
  <2>2. place \notin Sources(level, hull) => text[place + 1].encoding # Unencoded
    BY DEF Located
  <2> QED
    BY <1>7, <2>2
<1>9. Sources(after, span) \subseteq range.start .. range.end - 1
  BY <1>6 DEF Located
<1> QED
  BY <1>8, <1>9 DEF Located

-----------------------------------------------------------------------------
(* The texts of a scan, one after another.                                 *)

\* Of some numbers one is the smallest and one the largest.
HasBest(S, x) ==
  /\ \E j \in S : \A i \in S : x[j] <= x[i]
  /\ \E j \in S : \A i \in S : x[i] <= x[j]

LEMMA OneIsBest ==
  ASSUME NEW n \in Nat, NEW S \in SUBSET (1 .. n), S # {}, NEW x, \A i \in S : x[i] \in Int
  PROVE  HasBest(S, x)
<1> DEFINE Good(T) == T # {} /\ (\A i \in T : x[i] \in Int) => HasBest(T, x)
           P == {m \in Nat : \A T \in SUBSET (1 .. m) : Good(T)}
<1>1. 0 \in P
  <2>1. \A T \in SUBSET (1 .. 0) : T = {}
    OBVIOUS
  <2> QED
    BY <2>1
<1>2. ASSUME NEW m \in Nat, m \in P PROVE m + 1 \in P
  <2>1. SUFFICES ASSUME NEW T \in SUBSET (1 .. m + 1), T # {}, \A i \in T : x[i] \in Int
                 PROVE  HasBest(T, x)
    OBVIOUS
  <2> DEFINE U == T \ {m + 1}
  <2>2. U \in SUBSET (1 .. m) /\ \A i \in U : i \in T
    BY <2>1
  <2>3. \A i \in T : i \in U \/ i = m + 1
    OBVIOUS
  <2>4. Good(U)
    BY <1>2, <2>2
  <2> HIDE DEF U
  <2>5. CASE m + 1 \notin T
    <3>1. U = T
      BY <2>5 DEF U
    <3> QED
      BY <2>1, <2>4, <3>1
  <2>6. CASE m + 1 \in T
    <3>1. CASE U = {}
      <4>1. \A i \in T : i = m + 1
        BY <2>3, <3>1
      <4>2. x[m + 1] \in Int /\ x[m + 1] <= x[m + 1]
        BY <2>1, <2>6
      <4> QED
        BY <2>6, <4>1, <4>2 DEF HasBest
    <3>2. CASE U # {}
      <4>1. HasBest(U, x)
        BY <2>1, <2>2, <2>4, <3>2
      <4>2. PICK a \in U : \A i \in U : x[a] <= x[i]
        BY <4>1 DEF HasBest
      <4>3. PICK b \in U : \A i \in U : x[i] <= x[b]
        BY <4>1 DEF HasBest
      <4>4. x[a] \in Int /\ x[b] \in Int /\ x[m + 1] \in Int /\ a \in T /\ b \in T
        BY <2>1, <2>2, <2>6
      <4>5. \E j \in T : \A i \in T : x[j] <= x[i]
        <5>1. CASE x[a] <= x[m + 1]
          BY <2>3, <4>2, <4>4, <5>1
        <5>2. CASE ~(x[a] <= x[m + 1])
          <6>1. \A i \in U : x[m + 1] <= x[i]
            <7>1. TAKE i \in U
            <7>2. x[i] \in Int /\ x[a] <= x[i]
              BY <2>1, <2>2, <4>2
            <7> QED
              BY <4>4, <5>2, <7>2
          <6> QED
            BY <2>3, <2>6, <4>4, <6>1
        <5> QED
          BY <5>1, <5>2
      <4>6. \E j \in T : \A i \in T : x[i] <= x[j]
        <5>1. CASE x[m + 1] <= x[b]
          BY <2>3, <4>3, <4>4, <5>1
        <5>2. CASE ~(x[m + 1] <= x[b])
          <6>1. \A i \in U : x[i] <= x[m + 1]
            <7>1. TAKE i \in U
            <7>2. x[i] \in Int /\ x[i] <= x[b]
              BY <2>1, <2>2, <4>3
            <7> QED
              BY <4>4, <5>2, <7>2
          <6> QED
            BY <2>3, <2>6, <4>4, <6>1
        <5> QED
          BY <5>1, <5>2
      <4> QED
        BY <4>5, <4>6 DEF HasBest
    <3> QED
      BY <3>1, <3>2
  <2> QED
    BY <2>5, <2>6
<1>3. n \in P
  <2> HIDE DEF P
  <2> QED
    BY <1>1, <1>2, SetInduction
<1> QED
  BY <1>3

\* What a step of ToOriginal maps a range to.
LEMMA StepIsHull ==
  ASSUME NEW segments, Spaced(segments), NEW at, IsListed(at.segments, segments, at.span),
         at.span.start \in Nat, at.span.end \in Nat, NearOf(segments, at.span) # {}
  PROVE  IsHull(BeforeAt(at).span, segments, at.span)
<1> DEFINE span == at.span
           list == at.segments
           near == NearOf(segments, span)
           S == NearAt(at)
           x == [j \in S |-> Mapped(list[j], span).start]
           y == [j \in S |-> Mapped(list[j], span).end]
           starts == {m.start : m \in MappedAt(at)}
           ends == {m.end : m \in MappedAt(at)}
           hull == BeforeAt(at).span
<1>1. /\ Len(list) \in Nat /\ DOMAIN list = 1 .. Len(list)
      /\ \A j \in 1 .. Len(list) : \E k \in 1 .. Len(segments) : list[j] = segments[k]
      /\ \A k \in near : \E j \in 1 .. Len(list) : list[j] = segments[k]
  BY DEF IsListed
<1>2. \A j : j \in S <=> j \in 1 .. Len(list) /\ Overlaps(list[j].decoded, span)
  BY <1>1 DEF NearAt
<1>3. \A k : k \in near <=> k \in 1 .. Len(segments) /\ Overlaps(segments[k].decoded, span)
  BY DEF NearOf
<1>4. \A j \in S : \E k \in near : list[j] = segments[k]
  BY <1>1, <1>2, <1>3
<1>5. \A k \in near : \E j \in S : list[j] = segments[k]
  BY <1>1, <1>2, <1>3
<1>6. \A k \in near : Mapped(segments[k], span).start \in Nat /\ Mapped(segments[k], span).end \in Nat
  BY <1>3, MappedIs
<1>7. S \in SUBSET (1 .. Len(list)) /\ S # {}
  BY <1>2, <1>5
<1>8. starts = {x[j] : j \in S} /\ ends = {y[j] : j \in S}
  BY DEF MappedAt
<1>9. hull = Span(Min(starts), Max(ends))
  BY DEF BeforeAt
<1>10. \A j \in S : x[j] = Mapped(list[j], span).start /\ y[j] = Mapped(list[j], span).end
  OBVIOUS
<1> HIDE DEF S, x, y, starts, ends, hull, near, list, span
<1>11. \A j \in S : x[j] \in Int /\ y[j] \in Int
  BY <1>4, <1>6, <1>10
<1>12. HasBest(S, x) /\ HasBest(S, y)
  BY <1>1, <1>7, <1>11, OneIsBest
<1>13. PICK a \in S : \A i \in S : x[a] <= x[i]
  BY <1>12 DEF HasBest
<1>14. PICK b \in S : \A i \in S : y[i] <= y[b]
  BY <1>12 DEF HasBest
<1>15. Min(starts) = x[a]
  <2>1. starts \in SUBSET Int /\ x[a] \in starts
    BY <1>8, <1>11
  <2>2. \A z \in starts : x[a] <= z
    BY <1>8, <1>13
  <2> QED
    BY <2>1, <2>2, MinIs
<1>16. Max(ends) = y[b]
  <2>1. ends \in SUBSET Int /\ y[b] \in ends
    BY <1>8, <1>11
  <2>2. \A z \in ends : y[b] >= z
    <3>1. TAKE z \in ends
    <3>2. PICK i \in S : z = y[i]
      BY <1>8
    <3>3. y[i] <= y[b] /\ y[i] \in Int /\ y[b] \in Int
      BY <1>11, <1>14
    <3> QED
      BY <3>2, <3>3
  <2> QED
    BY <2>1, <2>2, MaxIs
<1>17. hull.start = x[a] /\ hull.end = y[b]
  BY <1>9, <1>15, <1>16, SpanIs
<1>18. \E k \in near : hull.start = Mapped(segments[k], span).start
  <2>1. PICK k \in near : list[a] = segments[k]
    BY <1>4
  <2> QED
    BY <1>10, <1>17, <2>1
<1>19. \E k \in near : hull.end = Mapped(segments[k], span).end
  <2>1. PICK k \in near : list[b] = segments[k]
    BY <1>4
  <2> QED
    BY <1>10, <1>17, <2>1
<1>20. ASSUME NEW k \in near
       PROVE  /\ hull.start <= Mapped(segments[k], span).start
              /\ Mapped(segments[k], span).end <= hull.end
  <2>1. PICK j \in S : list[j] = segments[k]
    BY <1>5
  <2>2. x[j] = Mapped(segments[k], span).start /\ y[j] = Mapped(segments[k], span).end
    BY <1>10, <2>1
  <2> QED
    BY <1>13, <1>14, <1>17, <2>2
<1>21. IsHull(hull, segments, span)
  BY <1>18, <1>19, <1>20 DEF IsHull, near
<1> QED
  BY <1>21 DEF hull, span

\* What is located in one text is located in what it decodes to.
LEMMA LocatingOn ==
  ASSUME NEW level, NEW i \in Nat, LocatingAt(level, i)
  PROVE  LocatingAt(Decoded(level), i + 1)
<1> DEFINE after == Decoded(level)
<1>1. Traced(level) /\ Traced(after) /\ DecodesTo(level, after)
  BY DecodedIsTraced DEF LocatingAt
<1> HIDE DEF after
<1>2. AreSegments(level.next, level.current, level.segments) /\ Spaced(level.next)
      /\ after.segments = level.next
  BY <1>1 DEF DecodesTo, AreSegments
<1>3. \A k \in 1 .. Len(after.next) : ~Far(after.segments, after.next[k].encoded)
  BY <1>1, <1>2, RunsAreNear
<1>4. \A k \in 1 .. Len(level.next) :
        /\ level.next[k].original = ToOriginal(level.segments, level.next[k].encoded)
        /\ level.next[k].predecessors = level.segments
  BY <1>2 DEF AreSegments
<1>5. Len(level.current) \in Nat /\ Len(after.current) \in Nat
  BY <1>1 DEF Traced
<1>6. Len(level.segments) \in Nat /\ DOMAIN level.segments = 1 .. Len(level.segments)
  <2>1. PICK T : level.segments \in Seq(T)
    BY DEF LocatingAt
  <2> QED
    BY <2>1
<1>7. Spaced(after.segments) /\ \E T : after.segments \in Seq(T)
  BY <1>1, <1>2, SegmentsAreSequence DEF Traced
<1>8. ASSUME NEW m \in i + 1 .. MaxDecodeDepth, NEW at, NEW back,
             KnownAt(after, i + 1, at), BackSteps(back, at, m)
      PROVE  Located(after, at.span, ResultAt(back[m]))
  <2> DEFINE span == at.span
             list == at.segments
  <2>1. /\ span.start \in Nat /\ span.end \in Nat
        /\ span.start < span.end /\ span.end <= Len(after.current)
        /\ IsListed(list, level.next, span)
        /\ i + 1 # 0 /\ ~Far(level.next, span)
    BY <1>2, <1>8 DEF KnownAt
  <2>2. /\ Len(list) \in Nat /\ DOMAIN list = 1 .. Len(list)
        /\ \A j \in 1 .. Len(list) : \E k \in 1 .. Len(level.next) : list[j] = level.next[k]
        /\ \A k \in NearOf(level.next, span) : \E j \in 1 .. Len(list) : list[j] = level.next[k]
    BY <2>1 DEF IsListed
  <2>3. PICK near \in 1 .. Len(level.next) : Overlaps(level.next[near].decoded, span)
    BY <2>1 DEF Far
  <2>4. near \in NearOf(level.next, span)
    BY <2>3 DEF NearOf
  <2>5. \E j \in 1 .. Len(list) : list[j] = level.next[near]
    BY <2>2, <2>4
  <2>6. NearAt(at) # {} /\ 1 \in 1 .. Len(list)
    <3>1. PICK j \in 1 .. Len(list) : list[j] = level.next[near]
      BY <2>5
    <3>2. j \in NearAt(at)
      BY <2>2, <2>3, <3>1 DEF NearAt
    <3>3. 1 \in 1 .. Len(list)
      <4> HIDE DEF list
      <4> QED
        BY <2>2, <3>1
    <3> QED
      BY <3>2, <3>3
  <2>7. m \in Nat /\ m > 0 /\ m - 1 \in i .. MaxDecodeDepth /\ MaxDecodeDepth \in i .. MaxDecodeDepth
        /\ MaxDecodeDepth \in Nat
    BY <1>8, OptionAssumption
  <2>8. CASE AroundAt(at) # {}
    <3>1. NextAt(at) = at
      BY <2>8 DEF NextAt
    <3>2. back[m] = at
      BY <1>8, <2>7, <3>1, BackStays
    <3> DEFINE j == Min(AroundAt(at))
    <3>3. j \in AroundAt(at)
      <4>1. AroundAt(at) \in SUBSET (1 .. Len(list))
        BY <2>2 DEF AroundAt, NearAt
      <4> QED
        BY <2>2, <2>8, <4>1, BoundedHasMin
    <3>4. ResultAt(at) = list[j].original
      BY <2>8 DEF ResultAt
    <3>5. j \in 1 .. Len(list) /\ Encloses(list[j].decoded, span)
      BY <2>2, <3>3 DEF AroundAt, NearAt
    <3> HIDE DEF j
    <3>6. PICK k \in 1 .. Len(level.next) : list[j] = level.next[k]
      BY <2>2, <3>5
    <3> DEFINE e == level.next[k].encoded
               from == [segments |-> level.segments, span |-> e]
    <3>7. ResultAt(back[m]) = ToOriginal(level.segments, e) /\ Encloses(level.next[k].decoded, span)
      BY <1>4, <3>2, <3>4, <3>5, <3>6
    <3>8. KnownAt(level, i, from)
      <4>1. e.start \in Nat /\ e.end \in Nat /\ e.start < e.end /\ e.end <= Len(level.current)
        BY <1>1, SegmentInText
      <4>2. IsListed(level.segments, level.segments, e)
        BY <1>6, AllAreListed
      <4>3. i = 0 \/ ~Far(level.segments, e)
        BY DEF LocatingAt
      <4>4. from.segments = level.segments /\ from.span = e
        OBVIOUS
      <4> HIDE DEF e, from
      <4> QED
        BY <4>1, <4>2, <4>3, <4>4 DEF KnownAt
    <3>9. PICK rest : /\ BackSteps(rest, from, MaxDecodeDepth)
                      /\ ToOriginal(level.segments, e) = ResultAt(rest[MaxDecodeDepth])
      BY ToOriginalIs
    <3>10. from.span = e
      OBVIOUS
    <3> HIDE DEF from
    <3>11. Located(level, from.span, ResultAt(rest[MaxDecodeDepth]))
      BY <2>7, <3>8, <3>9 DEF LocatingAt
    <3>12. Located(level, e, ResultAt(back[m]))
      BY <3>7, <3>9, <3>10, <3>11
    <3> QED
      BY <1>1, <2>1, <3>7, <3>12, EnclosedIsLocated
  <2>9. CASE AroundAt(at) = {}
    <3> DEFINE from == BeforeAt(at)
               hull == from.span
    <3>1. NextAt(at) = from
      BY <2>6, <2>9 DEF NextAt
    <3>2. PICK rest : BackSteps(rest, from, m - 1) /\ rest[m - 1] = back[m]
      BY <1>8, <2>7, <3>1, BackGoesOn
    <3>3. IsHull(hull, level.next, span)
      BY <1>2, <2>1, <2>4, StepIsHull
    <3>4. from.segments = level.segments
      <4>1. from.segments = list[1].predecessors
        BY DEF BeforeAt
      <4>2. PICK k \in 1 .. Len(level.next) : list[1] = level.next[k]
        BY <2>2, <2>6
      <4> QED
        BY <1>4, <4>1, <4>2
    <3> HIDE DEF from
    <3>5. /\ hull.start \in Nat /\ hull.end \in Nat /\ hull.start < hull.end
          /\ hull.end <= Len(level.current)
          /\ \E k \in 1 .. Len(level.next) : /\ hull.start <= level.next[k].encoded.start
                                             /\ level.next[k].encoded.end <= hull.end
      BY <1>1, <1>5, <2>1, <3>3, HullIsSpan
    <3>6. i = 0 \/ ~Far(level.segments, hull)
      <4>1. SUFFICES ASSUME i # 0 PROVE ~Far(level.segments, hull)
        OBVIOUS
      <4>2. PICK k \in 1 .. Len(level.next) : /\ hull.start <= level.next[k].encoded.start
                                              /\ level.next[k].encoded.end <= hull.end
        BY <3>5
      <4> DEFINE e == level.next[k].encoded
                 c == e.start
                 f == e.end
                 h == hull.start
                 l == hull.end
      <4>3. ~Far(level.segments, e)
        BY <4>1 DEF LocatingAt
      <4>4. PICK g \in 1 .. Len(level.segments) : Overlaps(level.segments[g].decoded, e)
        BY <4>3 DEF Far
      <4>5. c \in Nat /\ f \in Nat
        BY <1>1, SegmentInText
      <4> DEFINE d == level.segments[g].decoded
                 u == d.start
                 v == d.end
      <4>6. u \in Int /\ v \in Int
        <5>1. Spaced(level.segments)
          BY DEF LocatingAt
        <5> QED
          BY <5>1, SegmentFacts
      <4>7. u <= f /\ v >= c
        BY <4>4 DEF Overlaps
      <4>8. h \in Nat /\ l \in Nat /\ h <= c /\ f <= l
        BY <3>5, <4>2
      <4> HIDE DEF u, v, c, f, h, l
      <4>9. u <= l /\ v >= h
        BY <4>5, <4>6, <4>7, <4>8
      <4>10. Overlaps(d, hull)
        BY <4>9 DEF Overlaps, u, v, h, l
      <4> QED
        BY <4>10 DEF Far
    <3>7. KnownAt(level, i, from)
      <4>1. IsListed(from.segments, level.segments, hull)
        BY <1>6, <3>4, AllAreListed
      <4> QED
        BY <3>5, <3>6, <4>1 DEF KnownAt
    <3>8. Located(level, hull, ResultAt(rest[m - 1]))
      BY <2>7, <3>2, <3>7 DEF LocatingAt
    <3>9. Located(level, hull, ResultAt(back[m]))
      BY <3>2, <3>8
    <3> QED
      BY <1>1, <2>1, <3>3, <3>9, HullIsLocated
  <2> QED
    BY <2>8, <2>9
<1>9. i + 1 # 0
  OBVIOUS
<1>10. LocatingAt(after, i + 1)
  BY <1>1, <1>3, <1>7, <1>8, <1>9 DEF LocatingAt
<1> QED
  BY <1>10 DEF after

-----------------------------------------------------------------------------
(* The line that a range begins in.                                        *)

LEMMA NewlinesAre ==
  ASSUME NEW current \in Seq(Byte)
  PROVE  LET S == {i \in 1 .. Len(current) : current[i].mark = Newline}
             places == Enumerated(Len(current), S)
             found == NewlinesOf(current)
         IN /\ Enumerates(places, Len(current), S)
            /\ Len(found) = Len(places) /\ DOMAIN found = 1 .. Len(places)
            /\ \A n \in 1 .. Len(places) : found[n] = places[n] - 1
            /\ found = <<>> <=> Len(places) = 0
<1> DEFINE L == Len(current)
           S == {i \in 1 .. L : current[i].mark = Newline}
           places == Enumerated(L, S)
           found == NewlinesOf(current)
<1>1. Enumerates(places, L, S)
  BY EnumeratedIs
<1>2. found = [n \in DOMAIN places |-> places[n] - 1]
  <2>1. [i \in 1 .. L |-> IF i \in S THEN <<i>> ELSE <<>>]
          = [i \in 1 .. L |-> IF current[i].mark = Newline THEN <<i>> ELSE <<>>]
    OBVIOUS
  <2> QED
    BY <2>1 DEF NewlinesOf, Numbers, Enumerated
<1> HIDE DEF found, places
<1>3. DOMAIN places = 1 .. Len(places) /\ Len(places) \in Nat
  BY <1>1 DEF Enumerates
<1>4. /\ Len(found) = Len(places) /\ DOMAIN found = 1 .. Len(places)
      /\ \A n \in 1 .. Len(places) : found[n] = places[n] - 1
  BY <1>2, <1>3
<1>5. found = <<>> <=> Len(places) = 0
  <2>1. found = <<>> => Len(places) = 0
    BY <1>3, <1>4
  <2>2. Len(places) = 0 => found = <<>>
    <3>1. SUFFICES ASSUME Len(places) = 0 PROVE found = <<>>
      OBVIOUS
    <3>2. found = [n \in 1 .. 0 |-> places[n] - 1]
      BY <1>2, <1>3, <3>1
    <3> QED
      BY <3>2
  <2> QED
    BY <2>1, <2>2
<1> QED
  BY <1>1, <1>4, <1>5 DEF found, places

LEMMA RowIs ==
  ASSUME text \in Seq(Byte), NEW span, span.start \in Nat, span.start < Len(text)
  PROVE  UpstreamLocation(text, span).row = NewlinesUpTo(span.start)
<1> DEFINE L == Len(text)
           S == {i \in 1 .. L : text[i].mark = Newline}
           places == Enumerated(L, S)
           found == NewlinesOf(text)
           s == span.start
           F == Len(places)
           newlines == IF found = <<>> THEN <<L>> ELSE found
           Previous(n) == IF n = 1 THEN 0 ELSE newlines[n - 1]
           starting == {n \in DOMAIN newlines : Previous(n) <= s /\ s < newlines[n]}
           here == {i \in DOMAIN text : i - 1 <= s /\ text[i].mark = Newline}
<1>1. UpstreamLocation(text, span).row
        = IF starting # {} THEN Max(starting) - 1 ELSE Len(newlines)
  BY DEF UpstreamLocation
<1>2. NewlinesUpTo(s) = Cardinality(here)
  BY DEF NewlinesUpTo
<1>3. \A i : i \in here <=> i \in 1 .. L /\ i \in S /\ i - 1 <= s
  OBVIOUS
<1>4. /\ Enumerates(places, L, S)
      /\ Len(found) = F /\ DOMAIN found = 1 .. F
      /\ \A n \in 1 .. F : found[n] = places[n] - 1
      /\ found = <<>> <=> F = 0
  BY NewlinesAre
<1>5. L \in Nat /\ s \in Nat /\ s < L
  OBVIOUS
<1> HIDE DEF here, places, found, s, L, S
<1>6. /\ F \in Nat /\ \A n \in 1 .. F : places[n] \in 1 .. L /\ places[n] \in S
      /\ \A i \in 1 .. L : i \in S => \E n \in 1 .. F : places[n] = i
      /\ \A a, b \in 1 .. F : a < b => places[a] < places[b]
  <2>1. /\ places \in Seq(1 .. L)
        /\ \A a, b \in 1 .. F : a < b => places[a] < places[b]
        /\ \A a \in 1 .. F : places[a] \in S
        /\ \A i \in 1 .. L : i \in S => \E a \in 1 .. F : places[a] = i
    BY <1>4 DEF Enumerates, Rising
  <2>2. F \in Nat /\ \A n \in 1 .. F : places[n] \in 1 .. L
    <3> DEFINE T == 1 .. L
    <3>1. places \in Seq(T)
      BY <2>1
    <3> HIDE DEF T
    <3>2. Len(places) \in Nat /\ \A n \in 1 .. Len(places) : places[n] \in T
      BY <3>1
    <3> QED
      BY <3>2 DEF T
  <2> HIDE DEF F
  <2> QED
    BY <2>1, <2>2
<1> HIDE DEF F
<1>7. PICK k \in 1 .. F + 1 : (k <= F => s < found[k]) /\ (k > 1 => ~(s < found[k - 1]))
  <2> DEFINE T == {n \in 1 .. F : s < found[n]}
  <2>1. PICK k \in 1 .. F + 1 : (k <= F => k \in T) /\ (k > 1 => k - 1 \notin T)
    BY <1>6, FirstOf
  <2>2. k > 1 => k - 1 \in 1 .. F
    BY <1>6, <2>1
  <2> QED
    BY <2>1, <2>2
<1>8. \A n \in 1 .. F : found[n] \in Nat
  <2>1. TAKE n \in 1 .. F
  <2>2. places[n] \in 1 .. L /\ found[n] = places[n] - 1
    BY <1>4, <1>6
  <2> QED
    BY <1>5, <2>2
<1>9. \A a, b \in 1 .. F : a <= b => found[a] <= found[b]
  <2>1. SUFFICES ASSUME NEW a \in 1 .. F, NEW b \in 1 .. F, a <= b PROVE found[a] <= found[b]
    OBVIOUS
  <2>2. a = b \/ a < b
    BY <1>6, <2>1
  <2>3. found[a] = places[a] - 1 /\ found[b] = places[b] - 1 /\ places[a] \in 1 .. L /\ places[b] \in 1 .. L
    BY <1>4, <1>6
  <2>4. places[a] <= places[b]
    BY <1>5, <1>6, <2>2, <2>3
  <2> QED
    BY <1>5, <2>3, <2>4
<1>10. \A n \in 1 .. F : (n < k => found[n] <= s) /\ (n >= k => s < found[n])
  <2>1. TAKE n \in 1 .. F
  <2>2. ASSUME n < k PROVE found[n] <= s
    <3>1. k - 1 \in 1 .. F /\ n <= k - 1 /\ k > 1
      BY <1>6, <2>2
    <3>2. found[n] <= found[k - 1] /\ ~(s < found[k - 1])
      BY <1>7, <1>9, <3>1
    <3> QED
      BY <1>5, <1>8, <3>1, <3>2
  <2>3. ASSUME n >= k PROVE s < found[n]
    <3>1. k \in 1 .. F /\ k <= n
      BY <1>6, <1>7, <2>3
    <3>2. found[k] <= found[n] /\ s < found[k]
      BY <1>7, <1>9, <3>1
    <3> QED
      BY <1>5, <1>8, <3>1, <3>2
  <2> QED
    BY <2>2, <2>3
<1>11. Cardinality(here) = k - 1
  <2> DEFINE q == k - 1
             f == [n \in 1 .. q |-> places[n]]
  <2>1. q \in Nat /\ q <= F /\ \A n \in 1 .. q : n \in 1 .. F /\ n < k
    BY <1>6, <1>7
  <2>2. \A n \in 1 .. q : f[n] \in here
    <3>1. TAKE n \in 1 .. q
    <3>2. n \in 1 .. F /\ n < k
      BY <2>1
    <3>3. found[n] <= s /\ found[n] = places[n] - 1 /\ places[n] \in 1 .. L /\ places[n] \in S
      BY <1>4, <1>6, <1>10, <3>2
    <3> QED
      BY <1>3, <3>3
  <2>3. \A i \in here : \E n \in 1 .. q : f[n] = i
    <3>1. TAKE i \in here
    <3>2. i \in 1 .. L /\ i \in S /\ i - 1 <= s
      BY <1>3
    <3>3. PICK n \in 1 .. F : places[n] = i
      BY <1>6, <3>2
    <3>4. found[n] = i - 1 /\ found[n] \in Nat
      BY <1>4, <1>8, <3>3
    <3>5. ~(n >= k)
      BY <1>5, <1>10, <3>2, <3>4
    <3>6. n \in 1 .. q
      BY <1>6, <1>7, <3>5
    <3> QED
      BY <3>3, <3>6
  <2>4. \A a, b \in 1 .. q : f[a] = f[b] => a = b
    <3>1. SUFFICES ASSUME NEW a \in 1 .. q, NEW b \in 1 .. q, a # b PROVE f[a] # f[b]
      OBVIOUS
    <3>2. a \in 1 .. F /\ b \in 1 .. F /\ (a < b \/ b < a)
      BY <2>1, <3>1
    <3>3. places[a] \in 1 .. L /\ places[b] \in 1 .. L /\ (places[a] < places[b] \/ places[b] < places[a])
      BY <1>6, <3>2
    <3> QED
      BY <1>5, <3>3
  <2>5. f \in Bijection(1 .. q, here)
    <3> HIDE DEF q
    <3>1. f \in [1 .. q -> here]
      BY <2>2
    <3> HIDE DEF f
    <3> QED
      BY <2>3, <2>4, <3>1 DEF Bijection, Injection, IsInjective, Surjection
  <2>6. IsFiniteSet(1 .. q) /\ Cardinality(1 .. q) = q
    <3> HIDE DEF q
    <3>1. q >= 1 \/ q = 0
      BY <2>1
    <3> QED
      BY <2>1, <3>1, FS_Interval
  <2> HIDE DEF q, f
  <2>7. Cardinality(here) = q
    BY <2>5, <2>6, FS_Bijection DEF ExistsBijection
  <2> QED
    BY <2>7 DEF q
<1>12. UpstreamLocation(text, span).row = k - 1
  <2>1. CASE F = 0
    <3>1. newlines = <<L>> /\ k = 1
      BY <1>4, <1>7, <2>1
    <3>2. starting = {1}
      BY <1>5, <3>1
    <3>3. Max(starting) = 1
      <4> HIDE DEF starting
      <4>1. starting \in SUBSET Int /\ 1 \in starting /\ \A y \in starting : 1 >= y
        BY <3>2
      <4> QED
        BY <4>1, MaxIs
    <3> QED
      BY <1>1, <3>1, <3>2, <3>3
  <2>2. CASE F # 0
    <3>1. newlines = found
      BY <1>4, <2>2
    <3>2. \A n : n \in starting <=> n \in 1 .. F /\ Previous(n) <= s /\ s < found[n]
      BY <1>4, <3>1
    <3>3. \A n \in 1 .. F : Previous(n) = IF n = 1 THEN 0 ELSE found[n - 1]
      BY <3>1
    <3> HIDE DEF starting, newlines
    <3>4. CASE k <= F
      <4>1. k \in 1 .. F /\ s < found[k]
        BY <1>6, <1>7, <3>4
      <4>2. k \in starting
        <5>1. Previous(k) <= s
          <6>1. CASE k = 1
            BY <1>5, <3>3, <4>1, <6>1
          <6>2. CASE k # 1
            <7>1. k - 1 \in 1 .. F /\ k - 1 < k /\ Previous(k) = found[k - 1]
              BY <1>6, <3>3, <4>1, <6>2
            <7> QED
              BY <1>10, <7>1
          <6> QED
            BY <6>1, <6>2
        <5> QED
          BY <3>2, <4>1, <5>1
      <4>3. \A n \in starting : n \in 1 .. F /\ n <= k
        <5>1. TAKE n \in starting
        <5>2. n \in 1 .. F /\ Previous(n) <= s
          BY <3>2
        <5>3. SUFFICES ASSUME ~(n <= k) PROVE FALSE
          BY <5>2
        <5>4. n - 1 \in 1 .. F /\ n - 1 >= k /\ n # 1
          BY <1>6, <4>1, <5>2, <5>3
        <5>5. Previous(n) = found[n - 1] /\ s < found[n - 1] /\ found[n - 1] \in Nat
          BY <1>8, <1>10, <3>3, <5>2, <5>4
        <5> QED
          BY <1>5, <5>2, <5>5
      <4>4. Max(starting) = k
        BY <1>6, <4>2, <4>3, MaxIs
      <4> QED
        BY <1>1, <4>2, <4>4
    <3>5. CASE ~(k <= F)
      <4>1. k = F + 1
        BY <1>6, <1>7, <3>5
      <4>2. \A n \in 1 .. F : found[n] <= s
        BY <1>6, <1>10, <4>1
      <4>3. starting = {}
        <5>1. SUFFICES ASSUME NEW n \in starting PROVE FALSE
          OBVIOUS
        <5>2. n \in 1 .. F /\ s < found[n]
          BY <3>2
        <5> QED
          BY <1>5, <1>8, <4>2, <5>2
      <4>4. UpstreamLocation(text, span).row = Len(found)
        BY <1>1, <3>1, <4>3
      <4> QED
        BY <1>4, <1>6, <4>1, <4>4
    <3> QED
      BY <3>4, <3>5
  <2> QED
    BY <2>1, <2>2
<1> QED
  BY <1>2, <1>11, <1>12 DEF s

-----------------------------------------------------------------------------
(* What is found in a pass.                                                *)

\* What a candidate says of where it is.
IsFoundAt(c, level, span) ==
  /\ c.match = MatchOf(level.current, span)
  /\ c.from = FromOf(level.current, level.origins, span)
  /\ c.mapped <=> level.segments = <<>> \/ NearTo(level.segments, span) # <<>>
  /\ c.raw = Adjusted(level.segments, level.current, span)
  /\ c.row = UpstreamLocation(text, c.raw).row

CandidateAt(r, level, span) ==
  Candidate(r, level.current, level.segments, level.origins, span)

LEMMA CandidateIsFoundAt ==
  ASSUME NEW r, NEW level, NEW span
  PROVE  IsFoundAt(CandidateAt(r, level, span), level, span)
<1> DEFINE c == CandidateAt(r, level, span)
<1>1. c.match = MatchOf(level.current, span)
  BY DEF CandidateAt, Candidate, MatchOf
<1>2. c.from = FromOf(level.current, level.origins, span)
  BY DEF CandidateAt, Candidate, FromOf
<1>3. c.mapped <=> level.segments = <<>> \/ NearTo(level.segments, span) # <<>>
  BY DEF CandidateAt, Candidate
<1>4. c.raw = Adjusted(level.segments, level.current, span)
  BY DEF CandidateAt, Candidate
<1>5. c.row = UpstreamLocation(text, Adjusted(level.segments, level.current, span)).row
  BY DEF CandidateAt, Candidate
<1> HIDE DEF c
<1>6. IsFoundAt(c, level, span)
  BY <1>1, <1>2, <1>3, <1>4, <1>5 DEF IsFoundAt
<1> QED
  BY <1>6 DEF c

\* The candidates of a rule are those of all its matches.
AreCandidates(list, r, level) ==
  /\ \A c \in ToSet(list) :
       /\ Rules[r].regex # Absent
       /\ \E span : IsMatch(level.current, Rules[r].regex, span) /\ c = CandidateAt(r, level, span)
  /\ Rules[r].regex # Absent =>
       \A span : IsMatch(level.current, Rules[r].regex, span)
                   => CandidateAt(r, level, span) \in ToSet(list)

LEMMA CandidatesAre ==
  ASSUME NEW r, NEW level, level.current \in Seq(Byte)
  PROVE  AreCandidates(CandidatesIn(r, level.current, level.segments, level.origins), r, level)
<1> DEFINE list == CandidatesIn(r, level.current, level.segments, level.origins)
           regex == Rules[r].regex
           spans == Matches(level.current, regex)
<1>1. CASE regex = Absent
  <2>1. list = <<>>
    BY <1>1 DEF CandidatesIn
  <2>2. ToSet(list) = {}
    BY <2>1 DEF ToSet
  <2> QED
    BY <1>1, <2>2 DEF AreCandidates
<1>2. CASE regex # Absent
  <2>1. list = [n \in DOMAIN spans |-> CandidateAt(r, level, spans[n])]
    BY <1>2 DEF CandidatesIn, CandidateAt
  <2>2. AreAllMatches(spans, level.current, regex)
    BY MatchesAreAll
  <2> HIDE DEF list, spans
  <2>3. DOMAIN spans = 1 .. Len(spans)
    BY <2>2 DEF AreAllMatches
  <2>4. \A c : c \in ToSet(list) <=> \E n \in 1 .. Len(spans) : c = CandidateAt(r, level, spans[n])
    BY <2>1, <2>3 DEF ToSet
  <2>5. \A n \in 1 .. Len(spans) : IsMatch(level.current, regex, spans[n])
    BY <2>2 DEF AreAllMatches
  <2>6. \A span : IsMatch(level.current, regex, span) => \E n \in 1 .. Len(spans) : spans[n] = span
    BY <2>2 DEF AreAllMatches
  <2>7. ASSUME NEW c \in ToSet(list)
        PROVE  \E span : IsMatch(level.current, regex, span) /\ c = CandidateAt(r, level, span)
    BY <2>4, <2>5
  <2>8. ASSUME NEW span, IsMatch(level.current, regex, span)
        PROVE  CandidateAt(r, level, span) \in ToSet(list)
    <3>1. PICK n \in 1 .. Len(spans) : spans[n] = span
      BY <2>6, <2>8
    <3> QED
      BY <2>4, <3>1
  <2> HIDE DEF regex
  <2>9. AreCandidates(list, r, level)
    BY <1>2, <2>7, <2>8 DEF AreCandidates, regex
  <2> QED
    BY <2>9 DEF list
<1> QED
  BY <1>1, <1>2

\* What is found at a match is located.
LEMMA FoundIsLocated ==
  ASSUME text \in Texts, NEW i \in 0 .. MaxDecodeDepth, NEW level, LocatingAt(level, i),
         i = 0 \/ level.segments # <<>>,
         NEW regex, NEW span, IsMatch(level.current, regex, span),
         NEW r, NEW c, IsFoundAt(c, level, span), i > 0 => c.mapped
  PROVE  IsLocated(ContentFinding(i + 1, r, c))
<1> DEFINE f == ContentFinding(i + 1, r, c)
           a == span.start
           b == span.end
           raw == c.raw
           trimmed == Trimmed(level.current, span)
           u == trimmed.start
           v == trimmed.end
           L == Len(text)
<1>1. f.row = c.row /\ f.raw = raw /\ f.from = c.from /\ f.pass = i + 1
  BY DEF ContentFinding
<1> HIDE DEF f
<1>2. /\ span = Span(a, b) /\ a \in Nat /\ b \in Nat /\ a < b /\ b <= Len(level.current)
  BY DEF IsMatch
<1>3. Traced(level) /\ level.current \in Seq(Byte) /\ text \in Seq(Byte) /\ L \in Nat
  BY InputAssumption DEF LocatingAt, Traced
<1>4. IsTrimmed(trimmed, level.current, a, b)
  BY <1>2, <1>3, TrimmedIs
<1>5. /\ u \in Nat /\ v \in Nat /\ a <= u /\ u <= v /\ v <= b
      /\ \A j \in a + 1 .. b : j \notin u + 1 .. v => level.current[j].mark = Newline
  BY <1>4 DEF IsTrimmed
<1>6. c.from = UNION {level.origins[j] : j \in u + 1 .. v} /\ c.row = UpstreamLocation(text, raw).row
      /\ raw = Adjusted(level.segments, level.current, span)
  BY DEF IsFoundAt, FromOf
<1> HIDE DEF trimmed
<1>7. \A place : place \in c.from <=> \E j \in u + 1 .. v : place \in level.origins[j]
  BY <1>6
<1>8. CASE i = 0
  <2>1. level = Undecoded
    BY <1>8 DEF LocatingAt
  <2>2. /\ level.segments = <<>> /\ level.current = text
        /\ \A j \in 1 .. L : level.origins[j] = {j - 1}
    BY <2>1, UndecodedIsTraced
  <2>3. raw = Span(a, a + v - u)
    BY <1>6, <2>2 DEF Adjusted, trimmed
  <2>4. raw.start = a
    BY <2>3, SpanIs
  <2>5. c.row = NewlinesUpTo(raw.start)
    <3>1. raw.start \in Nat /\ raw.start < L
      BY <1>2, <1>3, <2>2, <2>4
    <3> QED
      BY <1>3, <1>6, <3>1, RowIs
  <2>6. \A place \in c.from : raw.start <= place
    <3>1. TAKE place \in c.from
    <3>2. PICK j \in u + 1 .. v : place \in level.origins[j]
      BY <1>7
    <3> HIDE DEF a, b, u, v
    <3>3. j \in 1 .. L /\ a <= j - 1
      BY <1>2, <1>3, <1>5, <2>2
    <3> QED
      BY <2>2, <2>4, <3>2, <3>3
  <2>7. ~(f.pass > 1)
    BY <1>1, <1>8
  <2> QED
    BY <1>1, <2>5, <2>6, <2>7 DEF IsLocated, f
<1>9. CASE i # 0
  <2>1. i > 0 /\ level.segments # <<>> /\ NearTo(level.segments, span) # <<>>
    BY <1>9 DEF IsFoundAt
  <2> DEFINE list == NearTo(level.segments, span)
             from == [segments |-> list, span |-> span]
  <2>2. IsListed(list, level.segments, span) /\ ~Far(level.segments, span)
    <3>1. PICK T : level.segments \in Seq(T)
      BY DEF LocatingAt
    <3> QED
      BY <2>1, <3>1, NearAreListed
  <2>3. raw = ToOriginal(list, span)
    BY <1>6, <2>1 DEF Adjusted
  <2>4. PICK back : /\ BackSteps(back, from, MaxDecodeDepth)
                    /\ ToOriginal(list, span) = ResultAt(back[MaxDecodeDepth])
    BY ToOriginalIs
  <2>5. from.segments = list /\ from.span = span
    OBVIOUS
  <2> HIDE DEF from, list
  <2>6. KnownAt(level, i, from)
    BY <1>2, <2>2, <2>5 DEF KnownAt
  <2>7. MaxDecodeDepth \in i .. MaxDecodeDepth
    BY OptionAssumption
  <2>8. Located(level, span, raw)
    <3>1. Located(level, from.span, ResultAt(back[MaxDecodeDepth]))
      BY <2>4, <2>6, <2>7 DEF LocatingAt
    <3> QED
      BY <2>3, <2>4, <2>5, <3>1
  <2> DEFINE g == raw.start
             h == raw.end
  <2>9. /\ g \in Nat /\ h \in Nat /\ g < h /\ h <= L
        /\ Sources(level, span) \subseteq g .. h - 1
        /\ \A place \in g .. h - 1 :
             place \notin Sources(level, span) => text[place + 1].encoding # Unencoded
    BY <2>8 DEF Located
  <2>10. c.row = NewlinesUpTo(g)
    <3>1. g \in Nat /\ g < L
      BY <1>3, <2>9
    <3> QED
      BY <1>3, <1>6, <3>1, RowIs
  <2>11. \A place : place \in Sources(level, span)
                      <=> \E j \in a + 1 .. b : place \in level.origins[j]
    BY DEF Sources
  <2>12. c.from \subseteq Sources(level, span)
    <3>1. \A j \in u + 1 .. v : j \in a + 1 .. b
      <4> HIDE DEF a, b, u, v
      <4> QED
        BY <1>2, <1>5
    <3> QED
      BY <1>7, <2>11, <3>1
  <2>13. ASSUME NEW place \in g .. h - 1, place \notin c.from
         PROVE  text[place + 1].encoding # Unencoded \/ text[place + 1].mark = Newline
    <3>1. CASE place \notin Sources(level, span)
      BY <2>9, <3>1
    <3>2. CASE place \in Sources(level, span)
      <4>1. PICK j \in a + 1 .. b : place \in level.origins[j]
        BY <2>11, <3>2
      <4>2. j \notin u + 1 .. v
        BY <1>7, <2>13, <4>1
      <4>3. level.current[j].mark = Newline
        BY <1>5, <4>1, <4>2
      <4>4. j \in 1 .. Len(level.current)
        <5>1. Len(level.current) \in Nat
          BY <1>3
        <5> HIDE DEF a, b
        <5> QED
          BY <1>2, <4>1, <5>1
      <4>5. text[place + 1].encoding # Unencoded \/ text[place + 1] = level.current[j]
        BY <1>3, <4>1, <4>4 DEF Traced
      <4> QED
        BY <4>3, <4>5
    <3> QED
      BY <3>1, <3>2
  <2>14. c.from \subseteq g .. h - 1
    BY <2>9, <2>12
  <2>15. \A place \in c.from : g <= place
    <3> HIDE DEF g, h
    <3> QED
      BY <2>9, <2>14
  <2> QED
    BY <1>1, <2>10, <2>13, <2>14, <2>15 DEF IsLocated, f
<1> QED
  BY <1>8, <1>9

-----------------------------------------------------------------------------
(* What is found in all passes.                                            *)

\* A candidate is located, or a match that was there in the pass before.
LocatedPass(found, p) ==
  \A r \in DOMAIN Rules : \A c \in ToSet(found[p].candidates[r]) :
    /\ p > 1 => c.mapped \/ \E d \in ToSet(found[p - 1].candidates[r]) :
                              d.match = c.match /\ d.from = c.from
    /\ p = 1 => c.mapped
    /\ (p > 1 => c.mapped) => IsLocated(ContentFinding(p, r, c))

\* The pass has a candidate for every match that is far from what is decoded next.
HasFar(pass, level) ==
  \A r \in DOMAIN Rules : Rules[r].regex # Absent =>
    \A span : IsMatch(level.current, Rules[r].regex, span) /\ Far(level.segments, span) =>
      \E d \in ToSet(pass.candidates[r]) :
        /\ d.match = MatchOf(level.current, span)
        /\ d.from = FromOf(level.current, level.origins, span)

\* What is known of the passes so far and of the text of the next one.
StageIsLocated(stage) ==
  LET found == stage.passes
      level == stage.level
      n == Len(found)
  IN /\ \E S : found \in Seq(S)
     /\ LocatingAt(level, n)
     /\ \A p \in 1 .. n : LocatedPass(found, p)
     /\ n > 0 => found[n].segments = Len(level.segments) /\ HasFar(found[n], level)

LEMMA PassHas ==
  ASSUME NEW level, level.current \in Seq(Byte)
  PROVE  /\ PassOver(level).segments = Len(level.next)
         /\ \A r \in DOMAIN Rules : AreCandidates(PassOver(level).candidates[r], r, level)
<1>1. PassOver(level).segments = Len(level.next)
  BY DEF PassOver
<1>2. ASSUME NEW r \in DOMAIN Rules
      PROVE  PassOver(level).candidates[r]
               = CandidatesIn(r, level.current, level.segments, level.origins)
  BY DEF PassOver
<1> QED
  BY <1>1, <1>2, CandidatesAre

LEMMA PassHasFar ==
  ASSUME NEW level, NEW i, LocatingAt(level, i)
  PROVE  HasFar(PassOver(level), Decoded(level))
<1> DEFINE after == Decoded(level)
           pass == PassOver(level)
<1>1. Traced(level) /\ Traced(after) /\ DecodesTo(level, after)
  BY DecodedIsTraced DEF LocatingAt
<1>2. after.segments = level.next
  BY <1>1 DEF DecodesTo
<1>3. level.current \in Seq(Byte) /\ after.current \in Seq(Byte)
  BY <1>1 DEF Traced
<1>4. \A r \in DOMAIN Rules : AreCandidates(pass.candidates[r], r, level)
  BY <1>3, PassHas
<1> HIDE DEF after, pass
<1>5. ASSUME NEW r \in DOMAIN Rules, Rules[r].regex # Absent,
             NEW span, IsMatch(after.current, Rules[r].regex, span), Far(level.next, span)
      PROVE  \E d \in ToSet(pass.candidates[r]) :
               /\ d.match = MatchOf(after.current, span)
               /\ d.from = FromOf(after.current, after.origins, span)
  <2> DEFINE a == span.start
             b == span.end
  <2>1. /\ span = Span(a, b) /\ a \in Nat /\ b \in Nat /\ a < b /\ b <= Len(after.current)
    BY <1>5 DEF IsMatch
  <2>2. PICK o \in Nat :
           /\ IsMatch(level.current, Rules[r].regex, Span(a + o, b + o))
           /\ \A j \in a + 1 .. b :
                /\ level.current[j + o] = after.current[j]
                /\ level.origins[j + o] = after.origins[j]
    BY <1>1, <1>5, FarMoves
  <2> DEFINE moved == Span(a + o, b + o)
             d == CandidateAt(r, level, moved)
  <2>3. b + o <= Len(level.current)
    <3>1. moved.end <= Len(level.current)
      BY <2>2 DEF IsMatch
    <3> QED
      BY <3>1, SpanIs
  <2>4. /\ MatchOf(level.current, moved) = MatchOf(after.current, span)
        /\ FromOf(level.current, level.origins, moved) = FromOf(after.current, after.origins, span)
    <3>1. SameAt(after.current, level.current, a, b, o)
          /\ SameAt(after.origins, level.origins, a, b, o)
      BY <2>2 DEF SameAt
    <3>2. o \in Nat
      BY <2>2
    <3>3. MatchedAlike(after.current, level.current, after.origins, level.origins, span, o)
      BY <1>3, <2>1, <2>3, <3>1, <3>2, MatchMoves
    <3> QED
      BY <3>3 DEF MatchedAlike
  <2>5. d \in ToSet(pass.candidates[r])
    BY <1>4, <1>5, <2>2 DEF AreCandidates
  <2>6. IsFoundAt(d, level, moved)
    BY CandidateIsFoundAt
  <2> HIDE DEF d, moved
  <2>7. /\ d.match = MatchOf(after.current, span)
        /\ d.from = FromOf(after.current, after.origins, span)
    BY <2>4, <2>6 DEF IsFoundAt
  <2> QED
    BY <2>5, <2>7
<1>6. HasFar(pass, after)
  BY <1>2, <1>5 DEF HasFar
<1> QED
  BY <1>6 DEF after, pass

LEMMA NoPassesAreLocated ==
  ASSUME text \in Texts
  PROVE  StageIsLocated(NoPasses) /\ Len(NoPasses.passes) = 0
<1>1. NoPasses.passes = <<>> /\ NoPasses.level = Undecoded
  BY DEF NoPasses
<1>2. <<>> \in Seq({}) /\ Len(<<>>) = 0
  OBVIOUS
<1>3. LocatingAt(Undecoded, 0)
  BY UndecodedIsLocating
<1> QED
  BY <1>1, <1>2, <1>3 DEF StageIsLocated

\* The pass over a text that is located.
LEMMA NextIsLocated ==
  ASSUME text \in Texts, NEW stage, StageIsLocated(stage), Len(stage.passes) \in 0 .. MaxDecodeDepth,
         stage.passes # <<>> => Last(stage.passes).segments # 0
  PROVE  LET pass == PassOver(stage.level)
         IN LocatedPass(Append(stage.passes, pass), Len(stage.passes) + 1)
<1> DEFINE found == stage.passes
           level == stage.level
           n == Len(found)
           pass == PassOver(level)
           more == Append(found, pass)
<1>1. PICK S : found \in Seq(S)
  BY DEF StageIsLocated
<1>2. LocatingAt(level, n)
  BY DEF StageIsLocated
<1>3. n > 0 => found[n].segments = Len(level.segments) /\ HasFar(found[n], level)
  BY DEF StageIsLocated
<1>4. level.current \in Seq(Byte)
  BY <1>2 DEF LocatingAt, Traced
<1>5. \A r \in DOMAIN Rules : AreCandidates(pass.candidates[r], r, level)
  BY <1>4, PassHas
<1>6. n \in 0 .. MaxDecodeDepth
  OBVIOUS
<1>7. n = 0 \/ level.segments # <<>>
  <2>1. SUFFICES ASSUME n # 0, level.segments = <<>> PROVE FALSE
    OBVIOUS
  <2>2. found # <<>> /\ Last(found) = found[n]
    BY <1>1, <2>1 DEF Last
  <2> QED
    BY <1>3, <1>6, <2>1, <2>2
<1>8. more[n + 1] = pass /\ \A p \in 1 .. n : more[p] = found[p]
  BY <1>1
<1> HIDE DEF pass, more, n, level, found
<1>9. ASSUME NEW r \in DOMAIN Rules, NEW c \in ToSet(pass.candidates[r])
      PROVE  /\ n + 1 > 1 => c.mapped \/ \E d \in ToSet(found[n].candidates[r]) :
                                           d.match = c.match /\ d.from = c.from
             /\ n + 1 = 1 => c.mapped
             /\ (n + 1 > 1 => c.mapped) => IsLocated(ContentFinding(n + 1, r, c))
  <2>1. Rules[r].regex # Absent
        /\ \E span : IsMatch(level.current, Rules[r].regex, span) /\ c = CandidateAt(r, level, span)
    BY <1>5, <1>9 DEF AreCandidates
  <2>2. PICK span : IsMatch(level.current, Rules[r].regex, span) /\ c = CandidateAt(r, level, span)
    BY <2>1
  <2>3. IsFoundAt(c, level, span)
    BY <2>2, CandidateIsFoundAt
  <2>4. ASSUME n > 0, ~c.mapped
        PROVE  \E d \in ToSet(found[n].candidates[r]) : d.match = c.match /\ d.from = c.from
    <3>1. NearTo(level.segments, span) = <<>>
      BY <2>3, <2>4 DEF IsFoundAt
    <3>2. PICK T : level.segments \in Seq(T)
      BY <1>2 DEF LocatingAt
    <3>3. Far(level.segments, span)
      BY <3>1, <3>2, NearAreListed
    <3>4. \E d \in ToSet(found[n].candidates[r]) :
            /\ d.match = MatchOf(level.current, span)
            /\ d.from = FromOf(level.current, level.origins, span)
      BY <1>3, <2>1, <2>2, <2>4, <3>3 DEF HasFar
    <3> QED
      BY <2>3, <3>4 DEF IsFoundAt
  <2>5. n = 0 => c.mapped
    <3>1. SUFFICES ASSUME n = 0 PROVE c.mapped
      OBVIOUS
    <3>2. level = Undecoded
      BY <1>2, <3>1 DEF LocatingAt
    <3>3. level.segments = <<>>
      BY <3>2, UndecodedIsTraced
    <3> QED
      BY <2>3, <3>3 DEF IsFoundAt
  <2>6. ASSUME n > 0 => c.mapped PROVE IsLocated(ContentFinding(n + 1, r, c))
    BY <1>2, <1>6, <1>7, <2>2, <2>3, <2>6, FoundIsLocated
  <2>7. n + 1 > 1 <=> n > 0
    BY <1>6
  <2>8. n + 1 = 1 <=> n = 0
    BY <1>6
  <2> QED
    BY <2>4, <2>5, <2>6, <2>7, <2>8
<1>10. LocatedPass(more, n + 1)
  <2>1. more[n + 1] = pass
    BY <1>8
  <2>2. n + 1 > 1 => more[(n + 1) - 1] = found[n]
    BY <1>6, <1>8
  <2> QED
    BY <1>9, <2>1, <2>2 DEF LocatedPass
<1> QED
  BY <1>10 DEF more, n, pass, level, found

LEMMA NextStageIsLocated ==
  ASSUME text \in Texts, NEW stage, StageIsLocated(stage), Len(stage.passes) \in 0 .. MaxDecodeDepth
  PROVE  LET next == NextPass(stage)
         IN StageIsLocated(next) /\ Len(next.passes) \in 0 .. Len(stage.passes) + 1
<1> DEFINE found == stage.passes
           level == stage.level
           n == Len(found)
           pass == PassOver(level)
           more == Append(found, pass)
           after == Decoded(level)
           next == NextPass(stage)
<1>1. n \in 0 .. MaxDecodeDepth /\ n \in Nat
  BY OptionAssumption
<1>2. CASE found # <<>> /\ Last(found).segments = 0
  <2>1. next = stage
    BY <1>2 DEF NextPass
  <2>2. n \in 0 .. n + 1
    BY <1>1
  <2> QED
    BY <2>1, <2>2
<1>3. CASE ~(found # <<>> /\ Last(found).segments = 0)
  <2>1. next = [passes |-> more, level |-> after]
    BY <1>3 DEF NextPass
  <2>2. next.passes = more /\ next.level = after
    BY <2>1
  <2>3. PICK S : found \in Seq(S)
    BY DEF StageIsLocated
  <2>4. LocatingAt(level, n) /\ \A p \in 1 .. n : LocatedPass(found, p)
    BY DEF StageIsLocated
  <2>5. Len(more) = n + 1 /\ more[n + 1] = pass /\ \A p \in 1 .. n : more[p] = found[p]
    BY <2>3
  <2>6. \E U : more \in Seq(U)
    <3> DEFINE U == S \cup {pass}
    <3>1. found \in Seq(U) /\ pass \in U
      BY <2>3, SeqOfMore
    <3> HIDE DEF U, pass, found
    <3>2. more \in Seq(U)
      BY <3>1
    <3> QED
      BY <3>2
  <2>7. LocatedPass(more, n + 1)
    BY <1>3, <1>1, NextIsLocated
  <2>8. LocatingAt(after, n + 1)
    BY <1>1, <2>4, LocatingOn
  <2>9. HasFar(pass, after)
    BY <2>4, PassHasFar
  <2>10. pass.segments = Len(after.segments)
    <3>1. Traced(level) /\ level.current \in Seq(Byte)
      BY <2>4 DEF LocatingAt, Traced
    <3>2. after.segments = level.next
      BY <3>1, DecodedIsTraced DEF DecodesTo
    <3>3. pass.segments = Len(level.next)
      BY <3>1, PassHas
    <3> QED
      BY <3>2, <3>3
  <2> HIDE DEF more, pass, after, next, level, found, n
  <2>11. ASSUME NEW p \in 1 .. n + 1 PROVE LocatedPass(more, p)
    <3>1. CASE p = n + 1
      BY <2>7, <3>1
    <3>2. CASE p # n + 1
      <4>1. p \in 1 .. n /\ more[p] = found[p]
        BY <1>1, <2>5, <3>2
      <4>2. p > 1 => more[p - 1] = found[p - 1]
        <5>1. p > 1 => p - 1 \in 1 .. n
          BY <1>1, <4>1
        <5> QED
          BY <2>5, <5>1
      <4>3. LocatedPass(found, p)
        BY <2>4, <4>1
      <4> QED
        BY <4>1, <4>2, <4>3 DEF LocatedPass
    <3> QED
      BY <3>1, <3>2
  <2>12. StageIsLocated(next)
    BY <2>2, <2>5, <2>6, <2>8, <2>9, <2>10, <2>11 DEF StageIsLocated
  <2>13. Len(next.passes) \in 0 .. n + 1
    BY <1>1, <2>2, <2>5
  <2> QED
    BY <2>12, <2>13 DEF next, n, found
<1> QED
  BY <1>2, <1>3

LEMMA PassesAreLocated ==
  ASSUME text \in Texts
  PROVE  \A p \in DOMAIN Passes : LocatedPass(Passes, p)
<1> DEFINE last == MaxDecodeDepth + 1
<1>1. PICK stages : AreStages(stages, last) /\ Passes = stages[last].passes
  BY PassesAreStages
<1>2. last \in Nat /\ MaxDecodeDepth \in Nat /\ last = MaxDecodeDepth + 1
  BY OptionAssumption
<1> HIDE DEF last
<1> DEFINE P == {m \in Nat : m <= last =>
                   StageIsLocated(stages[m]) /\ Len(stages[m].passes) \in 0 .. m}
<1>3. 0 \in P
  BY <1>1, NoPassesAreLocated DEF AreStages
<1>4. ASSUME NEW m \in Nat, m \in P PROVE m + 1 \in P
  <2> DEFINE n == Len(stages[m].passes)
             next == NextPass(stages[m])
  <2>1. SUFFICES ASSUME m + 1 <= last
                 PROVE  StageIsLocated(stages[m + 1])
                        /\ Len(stages[m + 1].passes) \in 0 .. m + 1
    OBVIOUS
  <2>2. m + 1 \in 1 .. last /\ (m + 1) - 1 = m /\ m <= last
    BY <1>2, <2>1
  <2>3. StageIsLocated(stages[m]) /\ n \in 0 .. m
    BY <1>4, <2>2
  <2>4. stages[m + 1] = next
    BY <1>1, <2>2 DEF AreStages
  <2>5. n \in 0 .. MaxDecodeDepth
    <3> HIDE DEF n
    <3> QED
      BY <1>2, <2>1, <2>3
  <2>6. StageIsLocated(next) /\ Len(next.passes) \in 0 .. n + 1
    BY <2>3, <2>5, NextStageIsLocated
  <2> DEFINE k == Len(next.passes)
  <2>7. k \in 0 .. m + 1
    <3>1. k \in 0 .. n + 1
      BY <2>6
    <3> HIDE DEF n, k
    <3> QED
      BY <2>3, <3>1
  <2> QED
    BY <2>4, <2>6, <2>7
<1>5. last \in P
  <2> HIDE DEF P
  <2> QED
    BY <1>2, <1>3, <1>4, SetInduction
<1>6. StageIsLocated(stages[last])
  BY <1>2, <1>5
<1>7. \A p \in 1 .. Len(Passes) : LocatedPass(Passes, p)
  BY <1>1, <1>6 DEF StageIsLocated
<1>8. DOMAIN Passes = 1 .. Len(Passes)
  <2>1. PICK S : Passes \in Seq(S)
    BY <1>1, <1>6 DEF StageIsLocated
  <2> QED
    BY <2>1
<1> QED
  BY <1>7, <1>8
===================================================================================
