------------------------- MODULE SyscallNamesProofs -------------------------
(***************************************************************************)
(* What the operators of SyscallStream compute, for any table of names and *)
(* any window size: a closed form of Split (the pieces between separators, *)
(* by induction over the bytes), and what one more name, an END and a recv *)
(* do to NamesIn and Kept.                                                 *)
(***************************************************************************)
EXTENDS SyscallStream, WellFoundedInduction, TLAPS

-----------------------------------------------------------------------------
(* Sequences. *)

\* The empty sequence, and the only sequence without elements.
LEMMA EmptySequence ==
  ASSUME NEW S
  PROVE  /\ <<>> \in Seq(S) /\ Len(<<>>) = 0
         /\ \A s \in Seq(S) : s # <<>> => Len(s) \in Nat \ {0}
OBVIOUS

\* The indices of a sequence, and where its elements come from.
LEMMA Elements ==
  ASSUME NEW S, NEW s \in Seq(S)
  PROVE  /\ Len(s) \in Nat /\ DOMAIN s = 1..Len(s) /\ s \in [1..Len(s) -> S]
         /\ \A i \in 1..Len(s) : s[i] \in S
OBVIOUS

\* A function on 1..n is a sequence.
LEMMA FunctionIsSequence ==
  ASSUME NEW S, NEW n \in Nat, NEW t \in [1..n -> S]
  PROVE  t \in Seq(S) /\ Len(t) = n
OBVIOUS

\* Sequences with the same elements in the same places.
LEMMA SameSequence ==
  ASSUME NEW S, NEW s \in Seq(S), NEW t \in Seq(S),
         Len(s) = Len(t), \A i \in 1..Len(s) : s[i] = t[i]
  PROVE  s = t
OBVIOUS

\* The elements of a concatenation.
LEMMA Concatenation ==
  ASSUME NEW S, NEW s \in Seq(S), NEW t \in Seq(S)
  PROVE  /\ s \o t \in Seq(S) /\ Len(s \o t) = Len(s) + Len(t)
         /\ \A i \in 1..Len(s) + Len(t) :
              (s \o t)[i] = IF i <= Len(s) THEN s[i] ELSE t[i - Len(s)]
OBVIOUS

\* A part that ends before it begins is empty.
LEMMA EmptyPart ==
  ASSUME NEW s, NEW m \in Int, NEW n \in Int, n < m
  PROVE  SubSeq(s, m, n) = <<>>
OBVIOUS

-----------------------------------------------------------------------------
(* Induction, and the pieces Split makes. *)

\* A set of numbers that holds 0, and with every number the next, holds all.
LEMMA Induction ==
  ASSUME NEW T, 0 \in T, \A n \in Nat : n \in T => n + 1 \in T
  PROVE  Nat \subseteq T
<1> SUFFICES ASSUME Nat \ T # {} PROVE FALSE
  OBVIOUS
<1> DEFINE Less == {ss \in Nat \X Nat : ss[1] < ss[2]}
<1>1. \A m, n \in Nat : m < n => <<m, n>> \in Less
  OBVIOUS
<1>2. IsWellFoundedOn(Less, Nat)
  BY NatLessThanWellFounded DEF OpToRel
<1> HIDE DEF Less
<1>3. PICK x \in Nat \ T : \A y \in Nat \ T : ~(<<y, x>> \in Less)
  <2>1. Nat \ T \subseteq Nat
    OBVIOUS
  <2> QED BY <1>2, <2>1, WFMin, Zenon
<1>4. x # 0 /\ x - 1 \in Nat /\ x - 1 < x
  OBVIOUS
<1>5. x - 1 \in T
  BY <1>1, <1>3, <1>4, Zenon
<1> QED BY <1>3, <1>4, <1>5

-----------------------------------------------------------------------------
(* str.split *)

\* One character more.
Grown(pieces, x) ==
  IF x = SEPARATOR THEN Append(pieces, <<>>)
  ELSE [pieces EXCEPT ![Len(pieces)] = Append(@, x)]

\* f[k] are the pieces of the first k characters of s, for k up to n.
Splits(f, s, n) ==
  f = [k \in 0..n |-> IF k = 0 THEN << <<>> >> ELSE Grown(f[k - 1], s[k])]

\* Such a function exists: one more piece or one more byte at a time.
LEMMA SomethingSplits ==
  ASSUME NEW s, NEW n \in Nat
  PROVE  \E f : Splits(f, s, n)
<1> DEFINE T == {k \in Nat : \E f : Splits(f, s, k)}
<1>1. 0 \in T
  <2>1. Splits([k \in 0..0 |-> << <<>> >>], s, 0)
    BY DEF Splits
  <2> QED BY <2>1
<1>2. ASSUME NEW k \in Nat, k \in T PROVE k + 1 \in T
  <2>1. PICK f : Splits(f, s, k)
    BY <1>2
  <2> DEFINE g == [i \in 0..(k + 1) |-> IF i <= k THEN f[i] ELSE Grown(f[k], s[k + 1])]
  <2>2. \A i \in 0..(k + 1) : g[i] = IF i = 0 THEN << <<>> >> ELSE Grown(g[i - 1], s[i])
    <3> TAKE i \in 0..(k + 1)
    <3>1. CASE i = 0
      BY <2>1, <3>1 DEF Splits
    <3>2. CASE i \in 1..k
      <4>1. i - 1 \in 0..k /\ i \in 0..k /\ g[i] = f[i] /\ g[i - 1] = f[i - 1]
        BY <3>2
      <4>2. f[i] = Grown(f[i - 1], s[i])
        BY <2>1, <3>2, <4>1 DEF Splits
      <4> QED BY <3>2, <4>1, <4>2
    <3>3. CASE i = k + 1
      <4>1. i - 1 = k /\ g[i] = Grown(f[k], s[i]) /\ g[k] = f[k]
        BY <3>3
      <4> QED BY <3>3, <4>1
    <3> QED BY <3>1, <3>2, <3>3
  <2>3. Splits(g, s, k + 1)
    <3>1. g = [i \in 0..(k + 1) |-> g[i]]
      OBVIOUS
    <3> HIDE DEF g
    <3> QED BY <2>2, <3>1 DEF Splits
  <2> QED BY <2>3
<1> HIDE DEF T
<1>3. Nat \subseteq T
  BY <1>1, <1>2, Induction
<1> QED BY <1>3 DEF T

\* Split is the value such a function has at the end of its argument.
LEMMA SplitSplits ==
  ASSUME NEW s, Len(s) \in Nat
  PROVE  \E f : Splits(f, s, Len(s)) /\ Split(s) = f[Len(s)]
<1> DEFINE f == CHOOSE g : g = [k \in 0..Len(s) |-> IF k = 0 THEN << <<>> >>
                    ELSE IF s[k] = SEPARATOR THEN Append(g[k - 1], <<>>)
                    ELSE [g[k - 1] EXCEPT ![Len(g[k - 1])] = Append(@, s[k])]]
<1>1. Split(s) = f[Len(s)]
  BY DEF Split
<1>2. \A g : Splits(g, s, Len(s)) <=>
             g = [k \in 0..Len(s) |-> IF k = 0 THEN << <<>> >>
                    ELSE IF s[k] = SEPARATOR THEN Append(g[k - 1], <<>>)
                    ELSE [g[k - 1] EXCEPT ![Len(g[k - 1])] = Append(@, s[k])]]
  BY DEF Splits, Grown
<1>3. Splits(f, s, Len(s))
  <2>1. PICK g : Splits(g, s, Len(s))
    BY SomethingSplits
  <2> QED BY <1>2, <2>1, Zenon
<1> QED BY <1>1, <1>3, Zenon
\* sep[1] to sep[N - 1] are the places of the separators of s, in order, between
\* the places before and after it.
Seps(s, N, sep) ==
  /\ N \in Nat \ {0} /\ sep \in [0..N -> Nat] /\ sep[0] = 0 /\ sep[N] = Len(s) + 1
  /\ \A i, j \in 0..N : i < j => sep[i] < sep[j]
  /\ \A p \in 1..Len(s) : s[p] = SEPARATOR <=> \E i \in 1..(N - 1) : p = sep[i]

\* The first i pieces, the last of them up to place n.
Pieces(s, sep, i, n) ==
  [k \in 1..i |-> SubSeq(s, sep[k - 1] + 1, IF k < i THEN sep[k] - 1 ELSE n)]

\* The bytes a + 1 .. b of s, none of them when a is not below b.
LEMMA Stretch ==
  ASSUME NEW s \in Seq(Bytes), NEW a \in Nat, NEW b \in Nat, b <= Len(s)
  PROVE  /\ SubSeq(s, a + 1, b) \in Seq(Bytes)
         /\ Len(SubSeq(s, a + 1, b)) = IF a < b THEN b - a ELSE 0
         /\ \A j \in 1..(b - a) : SubSeq(s, a + 1, b)[j] = s[a + j]
<1>1. Len(s) \in Nat
  OBVIOUS
<1>2. CASE a < b
  BY <1>1, <1>2
<1>3. CASE ~(a < b)
  BY <1>1, <1>3
<1> QED BY <1>2, <1>3

\* One byte further.
LEMMA StretchGrows ==
  ASSUME NEW s \in Seq(Bytes), NEW a \in Nat, NEW b \in Nat, a <= b, b + 1 <= Len(s)
  PROVE  Append(SubSeq(s, a + 1, b), s[b + 1]) = SubSeq(s, a + 1, b + 1)
<1> DEFINE x == SubSeq(s, a + 1, b)
           y == SubSeq(s, a + 1, b + 1)
<1>0. Len(s) \in Nat /\ s[b + 1] \in Bytes
  BY Elements
<1>1. x \in Seq(Bytes) /\ Len(x) = b - a /\ \A j \in 1..(b - a) : x[j] = s[a + j]
  BY <1>0, Stretch
<1>2. y \in Seq(Bytes) /\ Len(y) = b + 1 - a /\ \A j \in 1..(b + 1 - a) : y[j] = s[a + j]
  BY <1>0, Stretch
<1> HIDE DEF x, y
<1>3. /\ Append(x, s[b + 1]) \in Seq(Bytes) /\ Len(Append(x, s[b + 1])) = b + 1 - a
      /\ \A j \in 1..(b + 1 - a) : Append(x, s[b + 1])[j] = IF j <= b - a THEN x[j] ELSE s[b + 1]
  BY <1>0, <1>1
<1>4. \A j \in 1..(b + 1 - a) : Append(x, s[b + 1])[j] = y[j]
  BY <1>1, <1>2, <1>3
<1>5. Append(x, s[b + 1]) = y
  BY <1>2, <1>3, <1>4, SameSequence
<1> QED BY <1>5 DEF x, y

\* The pieces are sequences of bytes.
LEMMA PiecesType ==
  ASSUME NEW s \in Seq(Bytes), NEW N, NEW sep, Seps(s, N, sep), NEW i \in 1..N, NEW n \in Nat, n <= Len(s)
  PROVE  Pieces(s, sep, i, n) \in Seq(Seq(Bytes)) /\ Len(Pieces(s, sep, i, n)) = i
<1>0. i \in Nat /\ N \in Nat /\ Len(s) \in Nat
  BY DEF Seps
<1>1. ASSUME NEW k \in 1..i
      PROVE  SubSeq(s, sep[k - 1] + 1, IF k < i THEN sep[k] - 1 ELSE n) \in Seq(Bytes)
  <2>1. k - 1 \in 0..N /\ k \in 0..N /\ N \in 0..N /\ sep[k - 1] \in Nat /\ sep[k] \in Nat
    BY <1>0 DEF Seps
  <2>2. k < i => sep[k] - 1 \in Nat /\ sep[k] - 1 <= Len(s)
    <3>1. k < i => sep[k] < sep[N] /\ sep[k - 1] < sep[k]
      BY <1>0, <2>1 DEF Seps
    <3> QED BY <1>0, <2>1, <3>1 DEF Seps
  <2> QED BY <2>1, <2>2, Stretch, Zenon
<1>2. Pieces(s, sep, i, n) \in [1..i -> Seq(Bytes)]
  BY <1>1, Zenon DEF Pieces
<1>3. \A t \in [1..i -> Seq(Bytes)] : t \in Seq(Seq(Bytes)) /\ Len(t) = i
  <2> TAKE t \in [1..i -> Seq(Bytes)]
  <2>1. t \in Seq(Seq(Bytes))
    BY <1>0, FunctionIsSequence
  <2> QED BY <1>0, <2>1, Elements
<1> QED BY <1>2, <1>3

\* Where a character is among the separators.
LEMMA Between ==
  ASSUME NEW s, NEW N, NEW sep, Seps(s, N, sep), NEW n \in Nat, Len(s) \in Nat, n + 1 <= Len(s),
         NEW i \in 1..N, sep[i - 1] <= n + 1, n + 1 < sep[i]
  PROVE  /\ s[n + 1] = SEPARATOR => i > 1 /\ sep[i - 1] = n + 1 /\ sep[i - 2] <= n
         /\ s[n + 1] # SEPARATOR => sep[i - 1] <= n
<1>0. /\ N \in Nat /\ i \in 0..N /\ i - 1 \in 0..N /\ \A k \in 0..N : sep[k] \in Nat
      /\ n + 1 \in 1..Len(s)
  BY DEF Seps
<1>1. ASSUME s[n + 1] = SEPARATOR PROVE i > 1 /\ sep[i - 1] = n + 1 /\ sep[i - 2] <= n
  <2>1. PICK j \in 1..(N - 1) : n + 1 = sep[j]
    BY <1>0, <1>1 DEF Seps
  <2>2. j < i
    <3>1. ~(i < j)
      BY <1>0, <2>1 DEF Seps
    <3> QED BY <1>0, <2>1, <3>1
  <2>3. ~(j < i - 1)
    BY <1>0, <2>1 DEF Seps
  <2>4. j = i - 1 /\ i > 1 /\ i - 2 \in 0..N /\ i - 2 < i - 1
    BY <1>0, <2>1, <2>2, <2>3
  <2>5. sep[i - 2] < sep[i - 1]
    BY <1>0, <2>4 DEF Seps
  <2> QED BY <1>0, <2>1, <2>4, <2>5
<1>2. ASSUME s[n + 1] # SEPARATOR PROVE sep[i - 1] <= n
  <2>1. CASE i = 1
    BY <2>1 DEF Seps
  <2>2. CASE i # 1
    <3>1. i - 1 \in 1..(N - 1)
      BY <1>0, <2>2
    <3>2. sep[i - 1] # n + 1
      BY <1>0, <1>2, <3>1 DEF Seps
    <3> QED BY <1>0, <3>2
  <2> QED BY <2>1, <2>2
<1> QED BY <1>1, <1>2

\* A piece that is complete runs from one separator to the next.
LEMMA PiecesAt ==
  ASSUME NEW s, NEW sep, NEW i, NEW n, NEW k \in 1..i
  PROVE  Pieces(s, sep, i, n)[k] = SubSeq(s, sep[k - 1] + 1, IF k < i THEN sep[k] - 1 ELSE n)
BY Zenon DEF Pieces

\* One character more: a separator begins a piece, another goes to the last one.
LEMMA PiecesGrow ==
  ASSUME NEW s \in Seq(Bytes), NEW N, NEW sep, Seps(s, N, sep), NEW n \in Nat, n + 1 <= Len(s),
         NEW i \in 1..N, sep[i - 1] <= n + 1, n + 1 < sep[i]
  PROVE  /\ s[n + 1] = SEPARATOR =>
              Grown(Pieces(s, sep, i - 1, n), s[n + 1]) = Pieces(s, sep, i, n + 1)
         /\ s[n + 1] # SEPARATOR =>
              Grown(Pieces(s, sep, i, n), s[n + 1]) = Pieces(s, sep, i, n + 1)
<1>0. Len(s) \in Nat /\ N \in Nat /\ i \in Nat /\ n + 1 \in Nat /\ \A k \in 0..N : sep[k] \in Nat
  BY DEF Seps
<1>4. \A m \in Nat : \A h \in 1..N : m <= Len(s) =>
        /\ Pieces(s, sep, h, m) \in Seq(Seq(Bytes)) /\ Len(Pieces(s, sep, h, m)) = h
        /\ \A k \in 1..h : Pieces(s, sep, h, m)[k] = SubSeq(s, sep[k - 1] + 1, IF k < h THEN sep[k] - 1 ELSE m)
  <2> TAKE m \in Nat
  <2> TAKE h \in 1..N
  <2> HAVE m <= Len(s)
  <2>1. Pieces(s, sep, h, m) \in Seq(Seq(Bytes)) /\ Len(Pieces(s, sep, h, m)) = h
    BY PiecesType
  <2>2. \A k \in 1..h : Pieces(s, sep, h, m)[k] = SubSeq(s, sep[k - 1] + 1, IF k < h THEN sep[k] - 1 ELSE m)
    BY PiecesAt, SMTT(40)
  <2> QED BY <2>1, <2>2, Zenon
<1> DEFINE new == Pieces(s, sep, i, n + 1)
<1>1. /\ new \in Seq(Seq(Bytes)) /\ Len(new) = i
      /\ \A k \in 1..i : new[k] = SubSeq(s, sep[k - 1] + 1, IF k < i THEN sep[k] - 1 ELSE n + 1)
  <2> QED BY <1>0, <1>4, Zenon
<1> HIDE DEF new
<1>2. ASSUME s[n + 1] = SEPARATOR PROVE Grown(Pieces(s, sep, i - 1, n), s[n + 1]) = new
  <2> DEFINE old == Pieces(s, sep, i - 1, n)
  <2>1. i > 1 /\ sep[i - 1] = n + 1 /\ i - 1 \in 1..N
    BY <1>0, <1>2, Between, SMTT(40)
  <2>2. /\ old \in Seq(Seq(Bytes)) /\ Len(old) = i - 1
        /\ \A k \in 1..(i - 1) : old[k] = SubSeq(s, sep[k - 1] + 1, IF k < i - 1 THEN sep[k] - 1 ELSE n)
    <3>1. n <= Len(s) /\ i - 1 \in 1..N
      BY <1>0, <2>1
    <3> QED BY <1>4, <3>1, Zenon
  <2> HIDE DEF old
  <2>3. \A k \in 1..(i - 1) : old[k] = new[k]
    <3> TAKE k \in 1..(i - 1)
    <3> DEFINE u == IF k < i - 1 THEN sep[k] - 1 ELSE n
               v == IF k < i THEN sep[k] - 1 ELSE n + 1
    <3>1. u = v
      BY <1>0, <2>1
    <3>2. old[k] = SubSeq(s, sep[k - 1] + 1, u)
      BY <2>2, Zenon
    <3>3. k \in 1..i
      BY <1>0
    <3>4. new[k] = SubSeq(s, sep[k - 1] + 1, v)
      BY <1>1, <3>3
    <3> HIDE DEF u, v
    <3> QED BY <3>1, <3>2, <3>4, Zenon
  <2>4. new[i] = <<>>
    <3>1. new[i] = SubSeq(s, (n + 1) + 1, n + 1)
      <4>1. i \in 1..i /\ ~(i < i)
        BY <1>0
      <4>2. new[i] = SubSeq(s, sep[i - 1] + 1, n + 1)
        BY <1>1, <4>1
      <4> QED BY <2>1, <4>2
    <3>2. SubSeq(s, (n + 1) + 1, n + 1) \in Seq(Bytes) /\ Len(SubSeq(s, (n + 1) + 1, n + 1)) = 0
      BY <1>0, Stretch
    <3> QED BY <3>1, <3>2, EmptySequence
  <2>5. /\ Append(old, <<>>) \in Seq(Seq(Bytes)) /\ Len(Append(old, <<>>)) = i
        /\ \A k \in 1..i : Append(old, <<>>)[k] = IF k <= i - 1 THEN old[k] ELSE <<>>
    BY <1>0, <2>1, <2>2
  <2>6. \A k \in 1..i : Append(old, <<>>)[k] = new[k]
    BY <1>0, <2>1, <2>3, <2>4, <2>5
  <2>7. Append(old, <<>>) = new
    BY <1>1, <2>5, <2>6, SameSequence, SMTT(40)
  <2> QED BY <1>2, <2>7 DEF Grown, old
<1>3. ASSUME s[n + 1] # SEPARATOR PROVE Grown(Pieces(s, sep, i, n), s[n + 1]) = new
  <2> DEFINE old == Pieces(s, sep, i, n)
             x == s[n + 1]
  <2>1. sep[i - 1] <= n /\ i - 1 \in 0..N
    BY <1>0, <1>3, Between
  <2>2. /\ old \in Seq(Seq(Bytes)) /\ Len(old) = i
        /\ \A k \in 1..i : old[k] = SubSeq(s, sep[k - 1] + 1, IF k < i THEN sep[k] - 1 ELSE n)
    <3>1. n <= Len(s)
      BY <1>0
    <3> QED BY <1>4, <3>1, Zenon
  <2>3. Append(old[i], x) = new[i]
    <3>1. old[i] = SubSeq(s, sep[i - 1] + 1, n) /\ new[i] = SubSeq(s, sep[i - 1] + 1, n + 1)
      <4>1. i \in 1..i /\ ~(i < i)
        BY <1>0
      <4> QED BY <1>1, <2>2, <4>1
    <3>2. sep[i - 1] \in Nat
      BY <1>0, <2>1
    <3>3. Append(SubSeq(s, sep[i - 1] + 1, n), s[n + 1]) = SubSeq(s, sep[i - 1] + 1, n + 1)
      BY <2>1, <3>2, StretchGrows, Zenon
    <3> QED BY <3>1, <3>3, Zenon DEF x
  <2>4. \A k \in 1..i : k # i => old[k] = new[k]
    <3> TAKE k \in 1..i
    <3> HAVE k # i
    <3>1. k < i
      BY <1>0
    <3> QED BY <1>1, <2>2, <3>1, Zenon
  <2> HIDE DEF old, x
  <2> DEFINE t == [old EXCEPT ![i] = Append(@, x)]
  <2>9. old = [k \in 1..i |-> old[k]]
    BY <1>0, <2>2
  <2>5. t = [k \in 1..i |-> IF k = i THEN Append(old[i], x) ELSE old[k]]
    <3>1. DOMAIN old = 1..i
      BY <2>9
    <3> QED BY <3>1, Zenon
  <2>6. new = [k \in 1..i |-> new[k]]
    BY <1>1
  <2>7. t = new
    <3> HIDE DEF t
    <3> QED BY <1>0, <2>3, <2>4, <2>5, <2>6
  <2>8. Grown(old, x) = t
    BY <1>3, <2>2 DEF Grown, x
  <2> QED BY <2>7, <2>8 DEF old, x
<1> QED BY <1>2, <1>3 DEF new

\* Split cuts at the separators and nowhere else.
LEMMA SplitAt ==
  ASSUME NEW s \in Seq(Bytes), NEW N, NEW sep, Seps(s, N, sep)
  PROVE  Split(s) = Pieces(s, sep, N, Len(s))
<1>0. Len(s) \in Nat /\ N \in Nat \ {0} /\ \A k \in 0..N : sep[k] \in Nat
  BY DEF Seps
<1>1. PICK f : Splits(f, s, Len(s)) /\ Split(s) = f[Len(s)]
  BY <1>0, SplitSplits
<1> DEFINE Right(n) == \A i \in 1..N : sep[i - 1] <= n /\ n < sep[i] => f[n] = Pieces(s, sep, i, n)
           T == {n \in Nat : n <= Len(s) => Right(n)}
<1>2. 0 \in T
  <2> SUFFICES ASSUME NEW i \in 1..N, sep[i - 1] <= 0, 0 < sep[i] PROVE f[0] = Pieces(s, sep, i, 0)
    BY <1>0
  <2>1. i = 1
    <3>1. i - 1 \in 0..N /\ 0 \in 0..N /\ sep[0] = 0
      BY <1>0 DEF Seps
    <3>2. ~(0 < i - 1)
      BY <1>0, <3>1 DEF Seps
    <3> QED BY <1>0, <3>2
  <2>2. f[0] = << <<>> >>
    BY <1>0, <1>1 DEF Splits
  <2>3. Pieces(s, sep, 1, 0) = [k \in 1..1 |-> SubSeq(s, 1, 0)]
    <3>1. \A k \in 1..1 : k - 1 = 0 /\ ~(k < 1)
      OBVIOUS
    <3> QED BY <1>0, <3>1 DEF Pieces, Seps
  <2>4. SubSeq(s, 1, 0) = <<>>
    <3>1. SubSeq(s, 0 + 1, 0) \in Seq(Bytes) /\ Len(SubSeq(s, 0 + 1, 0)) = 0
      BY <1>0, Stretch
    <3> QED BY <3>1, EmptySequence
  <2> QED BY <2>1, <2>2, <2>3, <2>4
<1>3. ASSUME NEW n \in Nat, n \in T PROVE n + 1 \in T
  <2> SUFFICES ASSUME n + 1 <= Len(s), NEW i \in 1..N, sep[i - 1] <= n + 1, n + 1 < sep[i]
               PROVE  f[n + 1] = Pieces(s, sep, i, n + 1)
    BY <1>0
  <2>1. f[n + 1] = Grown(f[n], s[n + 1])
    <3>1. n + 1 \in 0..Len(s) /\ n + 1 # 0 /\ (n + 1) - 1 = n
      BY <1>0
    <3> QED BY <1>1, <3>1 DEF Splits
  <2>2. Right(n) /\ i - 1 \in 0..N
    BY <1>0, <1>3
  <2> HIDE DEF T
  <2>3. CASE s[n + 1] = SEPARATOR
    <3>1. i > 1 /\ sep[i - 1] = n + 1 /\ sep[i - 2] <= n
      BY <1>0, <2>3, Between, Zenon
    <3>2. i - 1 \in 1..N /\ (i - 1) - 1 = i - 2 /\ n < sep[i - 1]
      BY <1>0, <3>1
    <3>3. f[n] = Pieces(s, sep, i - 1, n)
      BY <2>2, <3>1, <3>2
    <3> QED BY <2>1, <2>3, <3>3, PiecesGrow
  <2>4. CASE s[n + 1] # SEPARATOR
    <3>1. sep[i - 1] <= n /\ n < sep[i]
      <4>1. sep[i - 1] <= n
        BY <1>0, <2>4, Between
      <4> QED BY <1>0, <4>1
    <3>2. f[n] = Pieces(s, sep, i, n)
      BY <2>2, <3>1
    <3> QED BY <2>1, <2>4, <3>2, PiecesGrow
  <2> QED BY <2>3, <2>4
<1> HIDE DEF T
<1>4. Len(s) \in T
  <2>1. Nat \subseteq T
    BY <1>2, <1>3, Induction
  <2> QED BY <1>0, <2>1
<1>5. sep[N - 1] <= Len(s) /\ Len(s) < sep[N]
  <2>1. N - 1 \in 0..N /\ N \in 0..N /\ N - 1 < N
    BY <1>0
  <2>2. sep[N - 1] < sep[N] /\ sep[N] = Len(s) + 1
    BY <2>1 DEF Seps
  <2> QED BY <1>0, <2>1, <2>2
<1>6. f[Len(s)] = Pieces(s, sep, N, Len(s))
  BY <1>0, <1>4, <1>5 DEF T
<1> QED BY <1>1, <1>6

\* Every string has its separators.
Upto(s, n, N, sep) ==
  /\ N \in Nat \ {0} /\ sep \in [0..N -> Nat] /\ sep[0] = 0 /\ sep[N] = n + 1
  /\ \A i, j \in 0..N : i < j => sep[i] < sep[j]
  /\ \A p \in 1..n : s[p] = SEPARATOR <=> \E i \in 1..(N - 1) : p = sep[i]

\* Every sequence of bytes has its separators, numbered from the left.
LEMMA HasSeps ==
  ASSUME NEW s \in Seq(Bytes)
  PROVE  \E N, sep : Seps(s, N, sep)
<1>0. Len(s) \in Nat
  OBVIOUS
<1> DEFINE T == {n \in Nat : \E N, sep : Upto(s, n, N, sep)}
<1>1. 0 \in T
  <2>1. Upto(s, 0, 1, [i \in 0..1 |-> i])
    BY DEF Upto
  <2> QED BY <2>1
<1>2. ASSUME NEW n \in Nat, n \in T PROVE n + 1 \in T
  <2>1. PICK N, sep : Upto(s, n, N, sep)
    BY <1>2
  <2>2. N \in Nat /\ N \in 0..N /\ N # 0 /\ \A i \in 0..N : sep[i] \in Nat /\ (i < N => sep[i] < n + 1)
    BY <2>1 DEF Upto
  <2>3. CASE s[n + 1] = SEPARATOR
    <3> DEFINE t == [i \in 0..(N + 1) |-> IF i <= N THEN sep[i] ELSE n + 2]
    <3>1. t \in [0..(N + 1) -> Nat] /\ t[0] = 0 /\ t[N + 1] = n + 2 /\ \A i \in 0..N : t[i] = sep[i]
      BY <2>1, <2>2 DEF Upto
    <3> HIDE DEF t
    <3>2. \A i, j \in 0..(N + 1) : i < j => t[i] < t[j]
      <4> TAKE i, j \in 0..(N + 1)
      <4> HAVE i < j
      <4>1. CASE j <= N
        <5>1. i \in 0..N /\ j \in 0..N
          BY <2>2, <4>1
        <5>2. sep[i] < sep[j]
          BY <2>1, <5>1 DEF Upto
        <5> QED BY <3>1, <5>1, <5>2
      <4>2. CASE j = N + 1
        BY <2>1, <2>2, <3>1, <4>2 DEF Upto
      <4> QED BY <2>2, <4>1, <4>2
    <3>3. ASSUME NEW p \in 1..(n + 1) PROVE s[p] = SEPARATOR <=> \E i \in 1..N : p = t[i]
      <4>1. CASE p = n + 1
        BY <2>1, <2>2, <2>3, <3>1, <4>1 DEF Upto
      <4>2. CASE p \in 1..n
        <5>1. s[p] = SEPARATOR <=> \E i \in 1..(N - 1) : p = sep[i]
          BY <2>1, <4>2 DEF Upto
        <5>2. p # sep[N]
          BY <2>1, <4>2 DEF Upto
        <5> QED BY <2>2, <3>1, <5>1, <5>2
      <4> QED BY <3>3, <4>1, <4>2
    <3>4. Upto(s, n + 1, N + 1, t)
      BY <2>2, <3>1, <3>2, <3>3 DEF Upto
    <3> QED BY <3>4
  <2>4. CASE s[n + 1] # SEPARATOR
    <3> DEFINE t == [i \in 0..N |-> IF i < N THEN sep[i] ELSE n + 2]
    <3>1. t \in [0..N -> Nat] /\ t[0] = 0 /\ t[N] = n + 2 /\ \A i \in 0..(N - 1) : t[i] = sep[i]
      BY <2>1, <2>2 DEF Upto
    <3> HIDE DEF t
    <3>2. \A i, j \in 0..N : i < j => t[i] < t[j]
      <4> TAKE i, j \in 0..N
      <4> HAVE i < j
      <4>1. CASE j < N
        BY <2>1, <2>2, <3>1, <4>1 DEF Upto
      <4>2. CASE j = N
        BY <2>1, <2>2, <3>1, <4>2 DEF Upto
      <4> QED BY <2>2, <4>1, <4>2
    <3>3. ASSUME NEW p \in 1..(n + 1) PROVE s[p] = SEPARATOR <=> \E i \in 1..(N - 1) : p = t[i]
      <4>1. CASE p = n + 1
        <5>1. \A i \in 1..(N - 1) : t[i] < n + 1
          BY <2>2, <3>1
        <5> QED BY <2>4, <4>1, <5>1
      <4>2. CASE p \in 1..n
        BY <2>1, <2>2, <3>1, <4>2 DEF Upto
      <4> QED BY <3>3, <4>1, <4>2
    <3>4. Upto(s, n + 1, N, t)
      BY <2>1, <2>2, <3>1, <3>2, <3>3 DEF Upto
    <3> QED BY <3>4
  <2> QED BY <2>3, <2>4
<1> HIDE DEF T
<1>3. Len(s) \in T
  <2>1. Nat \subseteq T
    BY <1>1, <1>2, Induction
  <2> QED BY <1>0, <2>1
<1>4. PICK N, sep : Upto(s, Len(s), N, sep)
  BY <1>3 DEF T
<1>5. Seps(s, N, sep)
  BY <1>4 DEF Seps, Upto
<1> QED BY <1>5

\* A piece of a string of which the separators are known.
LEMMA PieceAt ==
  ASSUME NEW s \in Seq(Bytes), NEW N, NEW sep, Seps(s, N, sep), NEW i \in 1..N
  PROVE  Split(s)[i] = SubSeq(s, sep[i - 1] + 1, sep[i] - 1)
<1>0. N \in Nat /\ sep[N] - 1 = Len(s)
  BY DEF Seps
<1>1. Split(s) = Pieces(s, sep, N, Len(s))
  BY SplitAt
<1> DEFINE u == IF i < N THEN sep[i] - 1 ELSE Len(s)
<1>2. Pieces(s, sep, N, Len(s))[i] = SubSeq(s, sep[i - 1] + 1, u)
  <2>1. \A m : Pieces(s, sep, N, m)[i] = SubSeq(s, sep[i - 1] + 1, IF i < N THEN sep[i] - 1 ELSE m)
    BY PiecesAt
  <2> QED BY <2>1
<1>3. u = sep[i] - 1
  BY <1>0
<1> HIDE DEF u
<1> QED BY <1>1, <1>2, <1>3, Zenon

\* All of them.
LEMMA PieceIs ==
  ASSUME NEW s \in Seq(Bytes), NEW N, NEW sep, Seps(s, N, sep)
  PROVE  /\ Len(Split(s)) = N /\ Split(s) \in Seq(Seq(Bytes))
         /\ \A i \in 1..N : Split(s)[i] = SubSeq(s, sep[i - 1] + 1, sep[i] - 1)
<1>0. Len(s) \in Nat /\ N \in 1..N /\ N \in Nat
  BY DEF Seps
<1>1. Split(s) = Pieces(s, sep, N, Len(s))
  BY SplitAt
<1>2. Pieces(s, sep, N, Len(s)) \in Seq(Seq(Bytes)) /\ Len(Pieces(s, sep, N, Len(s))) = N
  <2>1. \A m \in Nat : m <= Len(s) =>
          Pieces(s, sep, N, m) \in Seq(Seq(Bytes)) /\ Len(Pieces(s, sep, N, m)) = N
    BY <1>0, PiecesType
  <2>2. Len(s) <= Len(s)
    BY <1>0
  <2> QED BY <1>0, <2>1, <2>2, Zenon
<1>3. \A i \in 1..N : Split(s)[i] = SubSeq(s, sep[i - 1] + 1, sep[i] - 1)
  BY PieceAt
<1> QED BY <1>1, <1>2, <1>3, Zenon

\* Split makes byte strings of byte strings.
LEMMA SplitType == \A s \in Seq(Bytes) : Split(s) \in Seq(Seq(Bytes))
<1> SUFFICES ASSUME NEW s \in Seq(Bytes) PROVE Split(s) \in Seq(Seq(Bytes))
  BY Zenon
<1>1. PICK N, sep : Seps(s, N, sep)
  BY HasSeps
<1> QED BY <1>1, PieceIs

\* Bounds of a piece.
LEMMA SepBounds ==
  ASSUME NEW s \in Seq(Bytes), NEW N, NEW sep, Seps(s, N, sep), NEW i \in 1..N
  PROVE  /\ sep[i - 1] \in Nat /\ sep[i] \in Nat /\ sep[i] - 1 \in Nat
         /\ sep[i - 1] <= sep[i] - 1 /\ sep[i] - 1 <= Len(s)
<1>0. Len(s) \in Nat /\ N \in Nat /\ i \in 0..N /\ i - 1 \in 0..N /\ i - 1 < i /\ N \in 0..N
  BY DEF Seps
<1>1. sep[i - 1] \in Nat /\ sep[i] \in Nat /\ sep[N] = Len(s) + 1
  BY <1>0 DEF Seps
<1>2. sep[i - 1] < sep[i] /\ (i < N => sep[i] < sep[N])
  BY <1>0 DEF Seps
<1> QED BY <1>0, <1>1, <1>2

\* Without its END a piece is still a sequence of bytes.
LEMMA BareType ==
  ASSUME NEW p \in Seq(Bytes)
  PROVE  Bare(p) \in Seq(Bytes)
BY DEF Bare

\* The names of a string of which the separators are known.
LEMMA NamesAre ==
  ASSUME NEW s \in Seq(Bytes), NEW N, NEW sep, Seps(s, N, sep)
  PROVE  /\ NamesIn(s) \in Seq(Seq(Bytes)) /\ Len(NamesIn(s)) = N - 1
         /\ \A i \in 1..(N - 1) : NamesIn(s)[i] = Bare(SubSeq(s, sep[i - 1] + 1, sep[i] - 1))
<1>0. N \in Nat /\ N - 1 \in Nat /\ 1..(N - 1) \subseteq 1..N
  BY DEF Seps
<1>1. NamesIn(s) = [i \in 1..(N - 1) |-> Bare(Split(s)[i])]
  BY PieceIs DEF NamesIn
<1>2. \A i \in 1..(N - 1) : /\ Split(s)[i] = SubSeq(s, sep[i - 1] + 1, sep[i] - 1)
                            /\ Split(s)[i] \in Seq(Bytes)
  <2>1. \A i \in 1..N : Split(s)[i] \in Seq(Bytes)
    BY PieceIs, <1>0
  <2> QED BY <1>0, <2>1, PieceIs
<1>3. \A t \in [1..(N - 1) -> Seq(Bytes)] : t \in Seq(Seq(Bytes)) /\ Len(t) = N - 1
  <2> TAKE t \in [1..(N - 1) -> Seq(Bytes)]
  <2>1. t \in Seq(Seq(Bytes))
    BY <1>0, FunctionIsSequence
  <2> QED BY <1>0, <2>1, Elements
<1>4. NamesIn(s) \in [1..(N - 1) -> Seq(Bytes)]
  BY <1>1, <1>2, BareType
<1>5. \A i \in 1..(N - 1) : NamesIn(s)[i] = Bare(SubSeq(s, sep[i - 1] + 1, sep[i] - 1))
  <2> TAKE i \in 1..(N - 1)
  <2>1. NamesIn(s)[i] = Bare(Split(s)[i])
    BY <1>1
  <2> QED BY <1>2, <2>1, Zenon
<1> QED BY <1>3, <1>4, <1>5

\* Two strings that agree on a stretch.
LEMMA StretchSame ==
  ASSUME NEW s \in Seq(Bytes), NEW t \in Seq(Bytes), NEW a \in Nat, NEW b \in Nat, NEW d \in Nat,
         b <= Len(s), b + d <= Len(t), \A j \in (a + 1)..b : s[j] = t[j + d]
  PROVE  SubSeq(s, a + 1, b) = SubSeq(t, (a + d) + 1, b + d)
<1>0. a + d \in Nat /\ b + d \in Nat /\ (b + d) - (a + d) = b - a
  OBVIOUS
<1> DEFINE x == SubSeq(s, a + 1, b)
           y == SubSeq(t, (a + d) + 1, b + d)
<1>1. x \in Seq(Bytes) /\ Len(x) = (IF a < b THEN b - a ELSE 0) /\ \A j \in 1..(b - a) : x[j] = s[a + j]
  BY Stretch, SMTT(40)
<1>2. y \in Seq(Bytes) /\ Len(y) = (IF a + d < b + d THEN (b + d) - (a + d) ELSE 0)
      /\ \A j \in 1..((b + d) - (a + d)) : y[j] = t[(a + d) + j]
  <2>1. \A u, v \in Nat : v <= Len(t) =>
           /\ SubSeq(t, u + 1, v) \in Seq(Bytes)
           /\ Len(SubSeq(t, u + 1, v)) = IF u < v THEN v - u ELSE 0
           /\ \A j \in 1..(v - u) : SubSeq(t, u + 1, v)[j] = t[u + j]
    BY Stretch
  <2> QED BY <1>0, <2>1, Zenon
<1> HIDE DEF x, y
<1>3. Len(x) = Len(y)
  BY <1>1, <1>2
<1>4. \A j \in 1..Len(x) : x[j] = y[j]
  <2> TAKE j \in 1..Len(x)
  <2>1. j \in 1..(b - a) /\ a + j \in (a + 1)..b /\ (a + j) + d = (a + d) + j
    BY <1>1
  <2>2. s[a + j] = t[(a + d) + j]
    <3>1. s[a + j] = t[(a + j) + d]
      BY <2>1
    <3> QED BY <2>1, <3>1
  <2> QED BY <1>0, <1>1, <1>2, <2>1, <2>2
<1>5. x = y
  BY <1>1, <1>2, <1>3, <1>4, SameSequence, Zenon
<1> QED BY <1>5, Zenon DEF x, y

\* A stretch of s is a stretch of everything that begins with s.
LEMMA StretchOfPrefix ==
  ASSUME NEW s \in Seq(Bytes), NEW t \in Seq(Bytes), NEW a \in Nat, NEW b \in Nat,
         b <= Len(s), Len(s) <= Len(t), \A j \in 1..Len(s) : t[j] = s[j]
  PROVE  SubSeq(s, a + 1, b) = SubSeq(t, a + 1, b)
<1>1. /\ b + 0 <= Len(t) /\ a + 0 = a /\ b + 0 = b
      /\ \A j \in (a + 1)..b : s[j] = t[j + 0]
  OBVIOUS
<1>2. \A d \in Nat : b + d <= Len(t) /\ (\A j \in (a + 1)..b : s[j] = t[j + d]) =>
        SubSeq(s, a + 1, b) = SubSeq(t, (a + d) + 1, b + d)
  BY StretchSame
<1>3. SubSeq(s, a + 1, b) = SubSeq(t, (a + 0) + 1, b + 0)
  BY <1>1, <1>2, Zenon
<1> QED BY <1>1, <1>3

\* The two marks are bytes and differ.
LEMMA Marks == SEPARATOR \in Bytes /\ END \in Bytes /\ SEPARATOR # END
<1>1. SEPARATOR \in Bytes /\ END \in Bytes
  BY DEF Bytes
<1>2. SEPARATOR # END
  BY DEF SEPARATOR, END
<1> QED BY <1>1, <1>2

\* A name and its separator at the end of whole frames are one name more.
LEMMA NamesGrow ==
  ASSUME NEW s \in Seq(Bytes), NEW name \in Seq(Chars), Len(name) > 0,
         \/ s = <<>>
         \/ s[Len(s)] = SEPARATOR
         \/ Len(s) > 1 /\ s[Len(s)] = END /\ s[Len(s) - 1] = SEPARATOR
  PROVE  NamesIn(s \o name \o <<SEPARATOR>>) = Append(NamesIn(s), name)
<1>0. Len(s) \in Nat /\ Len(name) \in Nat /\ name \in Seq(Bytes) /\ SEPARATOR \in Bytes /\ SEPARATOR # END
  <2>1. Chars \subseteq Bytes
    BY DEF Bytes
  <2> QED BY <2>1, Marks
<1> DEFINE t == s \o name \o <<SEPARATOR>>
           L == Len(s) + Len(name)
<1>1. /\ t \in Seq(Bytes) /\ Len(t) = L + 1 /\ t[L + 1] = SEPARATOR
      /\ \A j \in 1..Len(s) : t[j] = s[j]
      /\ \A j \in 1..Len(name) : t[Len(s) + j] = name[j]
  <2> HIDE DEF SEPARATOR
  <2> QED BY <1>0
<1>2. \A j \in 1..Len(name) : name[j] \in Chars /\ name[j] # SEPARATOR /\ name[j] # END
  BY TableAssumption, Elements
<1>14. L \in Nat /\ Len(s) < L
  BY <1>0
<1>15. t \in Seq(Bytes)
  BY <1>1
<1> HIDE DEF t
<1>3. PICK N, sep : Seps(s, N, sep)
  BY HasSeps
<1>4. /\ N \in Nat \ {0} /\ sep \in [0..N -> Nat] /\ sep[0] = 0 /\ sep[N] = Len(s) + 1
      /\ \A i, j \in 0..N : i < j => sep[i] < sep[j]
      /\ \A p \in 1..Len(s) : s[p] = SEPARATOR <=> \E i \in 1..(N - 1) : p = sep[i]
  BY <1>3 DEF Seps
<1>5. N - 1 \in 0..N /\ N \in 0..N /\ sep[N - 1] \in Nat /\ sep[N - 1] <= Len(s)
  BY <1>0, <1>4
<1> DEFINE sept == [i \in 0..(N + 1) |-> IF i < N THEN sep[i] ELSE IF i = N THEN L + 1 ELSE L + 2]
<1>6. /\ sept \in [0..(N + 1) -> Nat] /\ sept[N] = L + 1 /\ sept[N + 1] = L + 2
      /\ \A i \in 0..(N - 1) : sept[i] = sep[i]
  BY <1>0, <1>4
<1> HIDE DEF sept
<1>7. Seps(t, N + 1, sept)
  <2>1. N + 1 \in Nat \ {0} /\ sept[0] = 0 /\ sept[N + 1] = Len(t) + 1
    BY <1>0, <1>1, <1>4, <1>6
  <2>2. \A i, j \in 0..(N + 1) : i < j => sept[i] < sept[j]
    <3> TAKE i, j \in 0..(N + 1)
    <3> HAVE i < j
    <3>1. CASE j < N
      <4>1. i \in 0..N /\ j \in 0..N /\ i \in 0..(N - 1) /\ j \in 0..(N - 1)
        BY <1>4, <3>1
      <4>2. sep[i] < sep[j]
        BY <1>4, <4>1
      <4> QED BY <1>6, <4>1, <4>2
    <3>2. CASE j >= N /\ i < N
      <4>1. i \in 0..(N - 1) /\ i \in 0..N /\ (j = N \/ j = N + 1)
        BY <1>4, <3>2
      <4>2. sep[i] < sep[N] /\ sep[i] \in Nat
        BY <1>4, <1>5, <3>2, <4>1
      <4>3. sept[i] < L + 1
        <5> HIDE DEF L
        <5> QED BY <1>0, <1>4, <1>6, <1>14, <4>1, <4>2
      <4>4. sept[j] = L + 1 \/ sept[j] = L + 2
        BY <1>6, <4>1, SMTT(40)
      <4>5. sept[i] \in Nat
        BY <1>6
      <4> HIDE DEF L
      <4> QED BY <1>14, <4>3, <4>4, <4>5
    <3>3. CASE i >= N
      <4>1. i = N /\ j = N + 1
        BY <1>4, <3>3
      <4> QED BY <1>0, <1>6, <4>1
    <3> QED BY <1>4, <3>1, <3>2, <3>3
  <2>3. ASSUME NEW p \in 1..Len(t) PROVE t[p] = SEPARATOR <=> \E i \in 1..N : p = sept[i]
    <3>1. CASE p <= Len(s)
      <4>1. p \in 1..Len(s) /\ t[p] = s[p] /\ p # L + 1
        BY <1>0, <1>1, <2>3, <3>1
      <4>2. (\E i \in 1..N : p = sept[i]) <=> \E i \in 1..(N - 1) : p = sep[i]
        <5>1. ASSUME NEW i \in 1..N, p = sept[i] PROVE \E k \in 1..(N - 1) : p = sep[k]
          <6>1. i # N
            BY <1>6, <4>1, <5>1
          <6>2. i \in 1..(N - 1) /\ i \in 0..(N - 1)
            BY <1>4, <6>1
          <6>3. p = sep[i]
            BY <1>6, <5>1, <6>2
          <6> QED BY <6>2, <6>3
        <5>2. ASSUME NEW i \in 1..(N - 1), p = sep[i] PROVE \E k \in 1..N : p = sept[k]
          <6>1. i \in 1..N /\ i \in 0..(N - 1)
            BY <1>4
          <6>2. p = sept[i]
            BY <1>6, <5>2, <6>1
          <6> QED BY <6>1, <6>2
        <5> QED BY <5>1, <5>2
      <4> QED BY <1>4, <4>1, <4>2
    <3>2. CASE p > Len(s) /\ p <= L
      <4>1. p - Len(s) \in 1..Len(name) /\ Len(s) + (p - Len(s)) = p
        BY <1>0, <2>3, <3>2, <1>1
      <4>2. t[p] # SEPARATOR
        <5> DEFINE q == p - Len(s)
        <5>1. q \in 1..Len(name) /\ Len(s) + q = p
          BY <4>1
        <5> HIDE DEF q
        <5>2. t[Len(s) + q] = name[q] /\ name[q] # SEPARATOR
          BY <1>1, <1>2, <5>1
        <5> QED BY <5>1, <5>2
      <4>3. \A i \in 1..N : p # sept[i]
        <5> TAKE i \in 1..N
        <5>1. CASE i = N
          BY <1>0, <1>6, <3>2, <5>1
        <5>2. CASE i < N
          <6>1. i \in 0..N /\ i \in 0..(N - 1)
            BY <1>4, <5>2
          <6>2. sep[i] < sep[N] /\ sep[i] \in Nat
            BY <1>4, <1>5, <5>2, <6>1
          <6> QED BY <1>0, <1>4, <1>6, <3>2, <6>1, <6>2
        <5> QED BY <1>4, <5>1, <5>2
      <4> QED BY <4>2, <4>3
    <3>3. CASE p = L + 1
      <4>1. N \in 1..N /\ p = sept[N]
        BY <1>4, <1>6, <3>3
      <4> QED BY <1>1, <3>3, <4>1
    <3>4. p \in Nat /\ p <= L + 1
      BY <1>1, <2>3, <1>14
    <3>5. p <= Len(s) \/ (p > Len(s) /\ p <= L) \/ p = L + 1
      <4> HIDE DEF L
      <4> QED BY <1>0, <1>14, <3>4
    <3> QED BY <3>1, <3>2, <3>3, <3>5, Zenon
  <2>4. (N + 1) - 1 = N
    BY <1>4
  <2> QED BY <1>6, <2>1, <2>2, <2>3, <2>4 DEF Seps
<1>8. /\ NamesIn(s) \in Seq(Seq(Bytes)) /\ Len(NamesIn(s)) = N - 1
      /\ \A i \in 1..(N - 1) : NamesIn(s)[i] = Bare(SubSeq(s, sep[i - 1] + 1, sep[i] - 1))
  BY <1>3, NamesAre
<1>9. /\ NamesIn(t) \in Seq(Seq(Bytes)) /\ Len(NamesIn(t)) = N
      /\ \A i \in 1..N : NamesIn(t)[i] = Bare(SubSeq(t, sept[i - 1] + 1, sept[i] - 1))
  <2> DEFINE M == N + 1
  <2>2. Seps(t, M, sept)
    BY <1>7
  <2>3. M - 1 = N
    BY <1>4
  <2> HIDE DEF M
  <2>4. /\ NamesIn(t) \in Seq(Seq(Bytes)) /\ Len(NamesIn(t)) = M - 1
        /\ \A i \in 1..(M - 1) : NamesIn(t)[i] = Bare(SubSeq(t, sept[i - 1] + 1, sept[i] - 1))
    <3>1. \A K, f : Seps(t, K, f) =>
            /\ NamesIn(t) \in Seq(Seq(Bytes)) /\ Len(NamesIn(t)) = K - 1
            /\ \A i \in 1..(K - 1) : NamesIn(t)[i] = Bare(SubSeq(t, f[i - 1] + 1, f[i] - 1))
      BY <1>15, NamesAre
    <3> HIDE DEF L
    <3> QED BY <2>2, <3>1, Zenon
  <2> QED BY <2>3, <2>4
<1>10. ASSUME NEW i \in 1..(N - 1) PROVE NamesIn(t)[i] = NamesIn(s)[i]
  <2>1. i \in 1..N /\ i - 1 \in 0..(N - 1) /\ i \in 0..(N - 1)
    BY <1>4
  <2>2. sept[i - 1] = sep[i - 1] /\ sept[i] = sep[i]
    BY <1>6, <2>1
  <2>3. /\ sep[i - 1] \in Nat /\ sep[i] \in Nat /\ sep[i] - 1 \in Nat /\ sep[i] - 1 <= Len(s)
    BY <1>3, <2>1, SepBounds
  <2> DEFINE a == sep[i - 1]
             b == sep[i] - 1
  <2>4. SubSeq(s, a + 1, b) = SubSeq(t, a + 1, b)
    <3> HIDE DEF a, b
    <3>1. a \in Nat /\ b \in Nat /\ b <= Len(s)
      BY <2>3 DEF a, b
    <3>2. Len(s) <= Len(t)
      BY <1>0, <1>1
    <3> QED BY <1>1, <3>1, <3>2, StretchOfPrefix, Zenon
  <2>5. NamesIn(t)[i] = Bare(SubSeq(t, a + 1, b))
    BY <1>9, <2>1, <2>2
  <2>6. NamesIn(s)[i] = Bare(SubSeq(s, a + 1, b))
    BY <1>8
  <2> HIDE DEF a, b
  <2> QED BY <2>4, <2>5, <2>6, Zenon
<1>11. NamesIn(t)[N] = name
  <2>1. NamesIn(t)[N] = Bare(SubSeq(t, sep[N - 1] + 1, L))
    <3>1. N \in 1..N /\ N - 1 \in 0..(N - 1) /\ sept[N] - 1 = L
      BY <1>0, <1>4, <1>6
    <3>2. sept[N - 1] = sep[N - 1]
      BY <1>6, <3>1, SMTT(40)
    <3>3. NamesIn(t)[N] = Bare(SubSeq(t, sept[N - 1] + 1, sept[N] - 1))
      BY <1>9, <3>1
    <3> QED BY <3>1, <3>2, <3>3, Zenon
  <2>2. \A a \in Nat : a <= Len(s) =>
          /\ SubSeq(t, a + 1, L) \in Seq(Bytes) /\ Len(SubSeq(t, a + 1, L)) = L - a
          /\ \A j \in 1..(L - a) : SubSeq(t, a + 1, L)[j] = t[a + j]
    <3> TAKE a \in Nat
    <3> HAVE a <= Len(s)
    <3>1. L \in Nat /\ L <= Len(t) /\ a < L
      BY <1>0, <1>1
    <3> HIDE DEF L
    <3> QED BY <1>1, <3>1, Stretch
  <2>3. name = SubSeq(t, Len(s) + 1, L)
    <3> DEFINE y == SubSeq(t, Len(s) + 1, L)
    <3>1. y \in Seq(Bytes) /\ Len(y) = L - Len(s) /\ \A j \in 1..(L - Len(s)) : y[j] = t[Len(s) + j]
      BY <1>0, <2>2
    <3>2. L - Len(s) = Len(name)
      BY <1>0
    <3> HIDE DEF y, L
    <3>3. \A j \in 1..Len(name) : name[j] = y[j]
      BY <1>1, <3>1, <3>2, Zenon
    <3>4. name = y
      BY <1>0, <3>1, <3>2, <3>3, SameSequence, SMTT(40)
    <3> QED BY <3>4 DEF y
  <2>4. sep[N - 1] = Len(s) \/ (sep[N - 1] = Len(s) - 1 /\ Len(s) > 0 /\ s[Len(s)] = END)
    <3>1. ASSUME NEW p \in 1..Len(s), s[p] = SEPARATOR PROVE p <= sep[N - 1]
      <4>1. PICK i \in 1..(N - 1) : p = sep[i]
        BY <1>4, <3>1
      <4>2. i \in 0..N /\ (i = N - 1 \/ i < N - 1)
        BY <1>4
      <4>3. i < N - 1 => sep[i] < sep[N - 1]
        BY <1>4, <1>5, <4>2
      <4> QED BY <1>5, <4>1, <4>2, <4>3
    <3>2. CASE s = <<>>
      BY <1>5, <3>2
    <3>3. CASE s # <<>> /\ s[Len(s)] = SEPARATOR
      <4>1. Len(s) \in 1..Len(s)
        BY <3>3, <1>0, EmptySequence
      <4>2. Len(s) <= sep[N - 1]
        BY <3>1, <3>3, <4>1
      <4> QED BY <1>0, <1>5, <4>2
    <3>4. CASE Len(s) > 1 /\ s[Len(s)] = END /\ s[Len(s) - 1] = SEPARATOR
      <4>1. Len(s) - 1 \in 1..Len(s) /\ Len(s) \in 1..Len(s)
        BY <1>0, <3>4
      <4>2. Len(s) - 1 <= sep[N - 1]
        BY <3>1, <3>4, <4>1
      <4> QED BY <1>0, <1>5, <3>4, <4>2
    <3> QED BY <3>2, <3>3, <3>4
  <2>5. Bare(name) = name
    <3>1. name[1] # END
      BY <1>0, <1>2
    <3> QED BY <3>1 DEF Bare
  <2>6. CASE sep[N - 1] = Len(s)
    BY <2>1, <2>3, <2>5, <2>6, Zenon
  <2>7. CASE sep[N - 1] = Len(s) - 1 /\ Len(s) > 0 /\ s[Len(s)] = END
    <3> DEFINE y == SubSeq(t, (Len(s) - 1) + 1, L)
    <3>1. /\ y \in Seq(Bytes) /\ Len(y) = L - (Len(s) - 1)
          /\ \A j \in 1..(L - (Len(s) - 1)) : y[j] = t[(Len(s) - 1) + j]
      <4>1. Len(s) - 1 \in Nat /\ Len(s) - 1 <= Len(s)
        BY <1>0, <2>7
      <4> QED BY <2>2, <4>1, Zenon
    <3>2. L - (Len(s) - 1) = Len(name) + 1 /\ Len(s) \in 1..Len(s) /\ (Len(s) - 1) + 1 = Len(s)
      BY <1>0, <2>7
    <3> HIDE DEF y, L
    <3>3. y[1] = END /\ y # <<>>
      <4>1. y[1] = t[(Len(s) - 1) + 1] /\ Len(y) = Len(name) + 1
        BY <1>0, <3>1, <3>2
      <4>2. t[Len(s)] = END
        BY <1>1, <2>7, <3>2
      <4>3. y[1] = END
        BY <3>2, <4>1, <4>2
      <4> QED BY <1>0, <4>1, <4>3, EmptySequence
    <3>4. /\ Tail(y) \in Seq(Bytes) /\ Len(Tail(y)) = Len(name)
          /\ \A j \in 1..Len(name) : Tail(y)[j] = y[j + 1]
      BY <1>0, <3>1, <3>2, <3>3
    <3>5. \A j \in 1..Len(name) : Tail(y)[j] = name[j]
      <4> TAKE j \in 1..Len(name)
      <4>1. j + 1 \in 1..(Len(name) + 1) /\ (Len(s) - 1) + (j + 1) = Len(s) + j
        BY <1>0
      <4>2. y[j + 1] = t[Len(s) + j]
        BY <3>1, <3>2, <4>1
      <4> QED BY <1>1, <3>4, <4>2
    <3>6. Tail(y) = name
      BY <1>0, <3>4, <3>5, SameSequence
    <3>7. Bare(y) = name
      BY <3>3, <3>6 DEF Bare
    <3> QED BY <2>1, <2>7, <3>7, Zenon DEF y
  <2> QED BY <2>4, <2>6, <2>7
<1>12. name \in Seq(Bytes) /\ N \in 1..N /\ N - 1 + 1 = N
  BY <1>0, <1>4
<1>13. NamesIn(t) = Append(NamesIn(s), name)
  <2> DEFINE x == NamesIn(s)
             y == NamesIn(t)
  <2>1. /\ Append(x, name) \in Seq(Seq(Bytes)) /\ Len(Append(x, name)) = N
        /\ \A i \in 1..(N - 1) : Append(x, name)[i] = x[i]
        /\ Append(x, name)[N] = name
    <3> HIDE DEF x, y
    <3>1. x \in Seq(Seq(Bytes)) /\ Len(x) = N - 1
      BY <1>8 DEF x
    <3> QED BY <1>4, <1>12, <3>1
  <2>2. \A i \in 1..N : y[i] = Append(x, name)[i]
    <3> TAKE i \in 1..N
    <3>1. CASE i = N
      BY <1>11, <2>1, <3>1, Zenon
    <3>2. CASE i \in 1..(N - 1)
      BY <1>10, <2>1, <3>2
    <3>3. i = N \/ i \in 1..(N - 1)
      BY <1>4
    <3> QED BY <3>1, <3>2, <3>3, Zenon
  <2> HIDE DEF x, y
  <2>3. y \in Seq(Seq(Bytes)) /\ Len(y) = N
    BY <1>9 DEF y
  <2>4. y = Append(x, name)
    BY <2>1, <2>2, <2>3, SameSequence, SMTT(40)
  <2> QED BY <2>4 DEF x, y
<1> QED BY <1>13, SMTT(40) DEF t

\* A sequence with the elements of u and then those of v is their concatenation.
LEMMA ListSplice ==
  ASSUME NEW S, NEW u \in Seq(S), NEW v \in Seq(S), NEW z \in Seq(S), Len(z) = Len(u) + Len(v),
         \A i \in 1..Len(u) : z[i] = u[i], \A i \in 1..Len(v) : z[Len(u) + i] = v[i]
  PROVE  z = u \o v
<1>1. Len(u) \in Nat /\ Len(v) \in Nat
  OBVIOUS
<1>2. u \o v \in Seq(S) /\ Len(u \o v) = Len(u) + Len(v)
  OBVIOUS
<1>3. ASSUME NEW i \in 1..(Len(u) + Len(v)) PROVE z[i] = (u \o v)[i]
  <2>1. CASE i \in 1..Len(u)
    BY <2>1
  <2>2. CASE ~(i \in 1..Len(u))
    <3>1. i - Len(u) \in 1..Len(v) /\ Len(u) + (i - Len(u)) = i
      BY <1>1, <2>2
    <3> QED BY <1>1, <2>2, <3>1
  <2> QED BY <2>1, <2>2
<1> QED BY <1>2, <1>3, SameSequence

\* The END of a frame adds no name.
LEMMA NamesKeepEnd ==
  ASSUME NEW s \in Seq(Bytes)
  PROVE  NamesIn(s \o <<END>>) = NamesIn(s)
<1>0. Len(s) \in Nat /\ END \in Bytes /\ SEPARATOR # END
  BY Marks
<1> DEFINE t == s \o <<END>>
           L == Len(s)
<1>1. /\ t \in Seq(Bytes) /\ Len(t) = L + 1 /\ t[L + 1] = END
      /\ \A j \in 1..L : t[j] = s[j]
  <2> HIDE DEF END
  <2> QED BY <1>0
<1>15. t \in Seq(Bytes)
  BY <1>1
<1> HIDE DEF t
<1>3. PICK N, sep : Seps(s, N, sep)
  BY HasSeps
<1>4. /\ N \in Nat \ {0} /\ sep \in [0..N -> Nat] /\ sep[0] = 0 /\ sep[N] = L + 1
      /\ \A i, j \in 0..N : i < j => sep[i] < sep[j]
      /\ \A p \in 1..L : s[p] = SEPARATOR <=> \E i \in 1..(N - 1) : p = sep[i]
  BY <1>3 DEF Seps
<1>5. N \in 0..N /\ \A i \in 0..N : sep[i] \in Nat /\ (i < N => sep[i] < L + 1)
  BY <1>0, <1>4
<1> DEFINE sept == [i \in 0..N |-> IF i < N THEN sep[i] ELSE L + 2]
<1>6. /\ sept \in [0..N -> Nat] /\ sept[N] = L + 2
      /\ \A i \in 0..(N - 1) : sept[i] = sep[i]
  BY <1>0, <1>4
<1> HIDE DEF sept
<1>7. Seps(t, N, sept)
  <2>1. sept[0] = 0 /\ sept[N] = Len(t) + 1
    BY <1>0, <1>1, <1>4, <1>6
  <2>2. \A i, j \in 0..N : i < j => sept[i] < sept[j]
    <3> TAKE i, j \in 0..N
    <3> HAVE i < j
    <3>1. i \in 0..(N - 1) /\ (j = N \/ j \in 0..(N - 1))
      BY <1>4
    <3>2. sep[i] < sep[j] /\ sep[i] \in Nat /\ sep[i] < L + 1
      BY <1>4, <1>5, <3>1
    <3> QED BY <1>0, <1>6, <3>1, <3>2
  <2>3. ASSUME NEW p \in 1..Len(t) PROVE t[p] = SEPARATOR <=> \E i \in 1..(N - 1) : p = sept[i]
    <3>0. (\E i \in 1..(N - 1) : p = sept[i]) <=> (\E i \in 1..(N - 1) : p = sep[i])
      <4>1. \A i \in 1..(N - 1) : sept[i] = sep[i]
        BY <1>4, <1>6
      <4> QED BY <4>1
    <3>1. CASE p \in 1..L
      BY <1>1, <1>4, <3>0, <3>1, Zenon
    <3>2. CASE p = L + 1
      <4>1. \A i \in 1..(N - 1) : p # sep[i]
        <5> TAKE i \in 1..(N - 1)
        <5>1. i \in 0..N /\ i < N
          BY <1>4
        <5>2. sep[i] \in Nat /\ sep[i] < L + 1
          BY <1>5, <5>1
        <5> QED BY <1>0, <3>2, <5>2
      <4> QED BY <1>0, <1>1, <3>0, <3>2, <4>1
    <3>3. p \in 1..L \/ p = L + 1
      BY <1>0, <1>1
    <3> QED BY <3>1, <3>2, <3>3
  <2> QED BY <1>4, <1>6, <2>1, <2>2, <2>3 DEF Seps
<1>8. /\ NamesIn(s) \in Seq(Seq(Bytes)) /\ Len(NamesIn(s)) = N - 1
      /\ \A i \in 1..(N - 1) : NamesIn(s)[i] = Bare(SubSeq(s, sep[i - 1] + 1, sep[i] - 1))
  BY <1>3, NamesAre
<1>9. /\ NamesIn(t) \in Seq(Seq(Bytes)) /\ Len(NamesIn(t)) = N - 1
      /\ \A i \in 1..(N - 1) : NamesIn(t)[i] = Bare(SubSeq(t, sept[i - 1] + 1, sept[i] - 1))
  BY <1>15, <1>7, NamesAre
<1>10. ASSUME NEW i \in 1..(N - 1) PROVE NamesIn(t)[i] = NamesIn(s)[i]
  <2>1. i \in 1..N /\ i - 1 \in 0..(N - 1) /\ i \in 0..(N - 1)
    BY <1>4
  <2>2. sept[i - 1] = sep[i - 1] /\ sept[i] = sep[i]
    BY <1>6, <2>1
  <2>3. /\ sep[i - 1] \in Nat /\ sep[i] \in Nat /\ sep[i] - 1 \in Nat /\ sep[i] - 1 <= Len(s)
    BY <1>3, <2>1, SepBounds
  <2> DEFINE a == sep[i - 1]
             b == sep[i] - 1
  <2>4. SubSeq(s, a + 1, b) = SubSeq(t, a + 1, b)
    <3> HIDE DEF a, b
    <3>1. a \in Nat /\ b \in Nat /\ b <= Len(s)
      BY <2>3 DEF a, b
    <3>2. Len(s) <= Len(t)
      BY <1>0, <1>1
    <3> QED BY <1>1, <3>1, <3>2, StretchOfPrefix
  <2>5. NamesIn(t)[i] = Bare(SubSeq(t, a + 1, b))
    BY <1>9, <2>1, <2>2
  <2>6. NamesIn(s)[i] = Bare(SubSeq(s, a + 1, b))
    BY <1>8
  <2> HIDE DEF a, b
  <2> QED BY <2>4, <2>5, <2>6, Zenon
<1>11. NamesIn(t) = NamesIn(s)
  BY <1>8, <1>9, <1>10, SameSequence
<1> QED BY <1>11 DEF t

\* A frame in front: the pieces of its text, and then the names of the rest.
LEMMA NamesOfFrame ==
  ASSUME NEW s \in Seq(Bytes), NEW n \in Nat, 1 < n, n <= Len(s), s[n] = END, s[n - 1] = SEPARATOR,
         \A i \in 1..(n - 1) : s[i] # END, n < Len(s) => s[n + 1] # END
  PROVE  NamesIn(s) = Split(SubSeq(s, 1, n - 2)) \o NamesIn(SubSeq(s, n + 1, Len(s)))
<1> DEFINE L == Len(s)
           x == SubSeq(s, 1, n - 2)
           y == SubSeq(s, n + 1, L)
<1>0. L \in Nat /\ SEPARATOR # END /\ n - 2 \in Nat /\ n - 2 <= L /\ L - n \in Nat
  BY Marks
<1>1. x \in Seq(Bytes) /\ Len(x) = n - 2 /\ \A j \in 1..(n - 2) : x[j] = s[j]
  <2> DEFINE m == n - 2
  <2>1. m \in Nat /\ m <= Len(s)
    BY <1>0
  <2> HIDE DEF m
  <2>2. /\ SubSeq(s, 0 + 1, m) \in Seq(Bytes) /\ Len(SubSeq(s, 0 + 1, m)) = (IF 0 < m THEN m - 0 ELSE 0)
        /\ \A j \in 1..(m - 0) : SubSeq(s, 0 + 1, m)[j] = s[0 + j]
    BY <2>1, Stretch
  <2>3. /\ SubSeq(s, 1, m) \in Seq(Bytes) /\ Len(SubSeq(s, 1, m)) = m
        /\ \A j \in 1..m : SubSeq(s, 1, m)[j] = s[j]
    BY <2>1, <2>2
  <2> QED BY <2>3 DEF m
<1>2. y \in Seq(Bytes) /\ Len(y) = L - n /\ \A j \in 1..(L - n) : y[j] = s[n + j]
  <2>1. Len(s) \in Nat /\ Len(s) <= Len(s)
    BY <1>0
  <2>2. /\ y \in Seq(Bytes) /\ Len(y) = IF n < Len(s) THEN Len(s) - n ELSE 0
        /\ \A j \in 1..(Len(s) - n) : y[j] = s[n + j]
    BY <2>1, Stretch
  <2> HIDE DEF y
  <2> QED BY <1>0, <2>2
<1>12. x \in Seq(Bytes) /\ y \in Seq(Bytes)
  BY <1>1, <1>2
<1> HIDE DEF x, y
<1>3. PICK N, sep : Seps(s, N, sep)
  BY HasSeps
<1>4. /\ N \in Nat \ {0} /\ sep \in [0..N -> Nat] /\ sep[0] = 0 /\ sep[N] = L + 1
      /\ \A i, j \in 0..N : i < j => sep[i] < sep[j]
      /\ \A p \in 1..L : s[p] = SEPARATOR <=> \E i \in 1..(N - 1) : p = sep[i]
  BY <1>3 DEF Seps
<1>5. PICK K \in 1..(N - 1) : n - 1 = sep[K]
  <2>1. n - 1 \in 1..L
    BY <1>0
  <2> QED BY <1>4, <2>1, SMTT(40)
<1>6. K \in Nat /\ K \in 1..N /\ K \in 0..N /\ N - K \in Nat \ {0} /\ \A i \in 0..N : sep[i] \in Nat
  BY <1>4, <1>5
\* A separator after the frame is after its END.
<1>7. \A i \in 0..N : K < i => sep[i] > n
  <2> TAKE i \in 0..N
  <2> HAVE K < i
  <2>1. sep[K] < sep[i] /\ sep[i] \in Nat
    BY <1>4, <1>6
  <2>2. sep[i] # n
    <3>1. CASE i = N
      BY <1>0, <1>4, <3>1
    <3>2. CASE i # N
      <4>1. i \in 1..(N - 1) /\ n \in 1..L
        BY <1>0, <1>4, <1>6, <3>2
      <4> QED BY <1>0, <1>4, <4>1
    <3> QED BY <3>1, <3>2
  <2> QED BY <1>5, <2>1, <2>2
<1> DEFINE sepx == [i \in 0..K |-> sep[i]]
           M == N - K
           sepy == [i \in 0..M |-> IF i = 0 THEN 0 ELSE sep[K + i] - n]
<1>8. sepx \in [0..K -> Nat] /\ \A i \in 0..K : sepx[i] = sep[i]
  BY <1>4, <1>6
<1>9. /\ M \in Nat \ {0} /\ K + M = N
      /\ \A i \in 0..M : K + i \in 0..N /\ (i # 0 => K < K + i)
  BY <1>4, <1>6
<1>10. /\ sepy \in [0..M -> Nat] /\ sepy[0] = 0
       /\ \A i \in 1..M : sepy[i] = sep[K + i] - n /\ sepy[i] > 0
  <2> HIDE DEF M
  <2>1. \A i \in 1..M : sep[K + i] - n \in Nat /\ sep[K + i] - n > 0
    <3> TAKE i \in 1..M
    <3>1. i \in 0..M /\ i # 0
      BY <1>9
    <3>2. K + i \in 0..N /\ K < K + i
      BY <1>9, <3>1
    <3>3. sep[K + i] \in Nat /\ sep[K + i] > n
      BY <1>6, <1>7, <3>2
    <3> QED BY <3>3, SMTT(40)
  <2>2. \A i \in 0..M : i # 0 => i \in 1..M
    BY <1>9
  <2>3. sepy \in [0..M -> Nat]
    BY <1>9, <2>1, <2>2, Zenon
  <2>4. \A i \in 1..M : i \in 0..M /\ i # 0
    BY <1>9
  <2>5. 0 \in 0..M
    BY <1>9
  <2> QED BY <2>1, <2>3, <2>4, <2>5
<1> HIDE DEF sepx, sepy, M, L
<1>13. Seps(x, K, sepx)
  <2>1. K \in Nat \ {0} /\ 0 \in 0..K /\ K \in 0..K /\ 0..K \subseteq 0..N
    BY <1>4, <1>5, <1>6
  <2>2. sepx[0] = 0 /\ sepx[K] = Len(x) + 1
    BY <1>1, <1>4, <1>5, <1>8, <2>1
  <2>3. \A i, j \in 0..K : i < j => sepx[i] < sepx[j]
    BY <1>4, <1>8, <2>1, Zenon
  <2>4. ASSUME NEW p \in 1..Len(x) PROVE x[p] = SEPARATOR <=> \E i \in 1..(K - 1) : p = sepx[i]
    <3>1. x[p] = s[p] /\ p \in 1..L /\ p < n - 1
      BY <1>0, <1>1
    <3>2. ASSUME NEW i \in 1..(N - 1), p = sep[i] PROVE i \in 1..(K - 1)
      <4>1. i \in 0..N
        BY <1>4
      <4>2. ~(K < i) /\ i # K
        BY <1>4, <1>5, <1>6, <3>1, <3>2, <4>1, SMTT(40)
      <4> QED BY <1>6, <4>1, <4>2
    <3>3. \A i \in 1..(K - 1) : i \in 1..(N - 1) /\ sepx[i] = sep[i]
      BY <1>4, <1>5, <1>6, <1>8
    <3>4. s[p] = SEPARATOR <=> \E i \in 1..(N - 1) : p = sep[i]
      BY <1>4, <3>1, SMTT(40)
    <3> QED BY <3>1, <3>2, <3>3, <3>4
  <2> QED BY <1>8, <2>1, <2>2, <2>3, <2>4 DEF Seps
<1>14. Seps(y, M, sepy)
  <2>1. sepy[M] = Len(y) + 1
    <3>1. M \in 1..M
      BY <1>9
    <3>2. sepy[M] = sep[K + M] - n
      BY <1>10, <3>1
    <3>3. sep[K + M] = L + 1
      BY <1>4, <1>9, Zenon
    <3>4. sepy[M] = (L + 1) - n
      BY <3>2, <3>3
    <3> QED BY <1>0, <1>2, <3>4
  <2>2. ASSUME NEW i \in 0..M, NEW j \in 0..M, i < j PROVE sepy[i] < sepy[j]
    <3>1. j \in 1..M
      BY <1>9, <2>2
    <3>2. CASE i = 0
      BY <1>10, <3>1, <3>2
    <3>3. CASE i \in 1..M
      <4>1. K + i < K + j /\ K + i \in 0..N /\ K + j \in 0..N
        BY <1>6, <1>9, <2>2
      <4>2. sep[K + i] < sep[K + j] /\ sep[K + i] \in Nat /\ sep[K + j] \in Nat
        BY <1>4, <1>6, <4>1
      <4>3. sepy[i] = sep[K + i] - n /\ sepy[j] = sep[K + j] - n
        BY <1>10, <3>1, <3>3
      <4> QED BY <4>2, <4>3
    <3>4. i = 0 \/ i \in 1..M
      BY <1>9
    <3> QED BY <3>2, <3>3, <3>4
  <2>3. ASSUME NEW p \in 1..Len(y) PROVE y[p] = SEPARATOR <=> \E i \in 1..(M - 1) : p = sepy[i]
    <3>1. y[p] = s[n + p] /\ n + p \in 1..L /\ p \in Nat
      <4>1. p \in 1..(L - n)
        BY <1>2, Zenon
      <4>2. n + p \in 1..L /\ p \in Nat
        BY <1>0, <4>1
      <4> QED BY <1>2, <4>1, <4>2, Zenon
    <3>2. ASSUME NEW i \in 1..(N - 1), n + p = sep[i] PROVE \E k \in 1..(M - 1) : p = sepy[k]
      <4>1. i \in 0..N
        BY <1>4
      <4>2. K < i
        <5>1. ~(i < K) /\ i # K
          BY <1>0, <1>4, <1>5, <1>6, <3>1, <3>2, <4>1, SMTT(40)
        <5> QED BY <1>6, <4>1, <5>1
      <4>3. i - K \in 1..(M - 1) /\ i - K \in 1..M /\ K + (i - K) = i
        BY <1>4, <1>6, <1>9, <4>2
      <4>4. sepy[i - K] = sep[i] - n
        BY <1>10, <4>3
      <4>5. p = sepy[i - K]
        BY <3>1, <3>2, <4>4
      <4> QED BY <4>3, <4>5
    <3>3. ASSUME NEW k \in 1..(M - 1), p = sepy[k] PROVE \E i \in 1..(N - 1) : n + p = sep[i]
      <4>1. k \in 1..M /\ K + k \in 1..(N - 1) /\ K + k \in 0..N
        BY <1>4, <1>6, <1>9
      <4>2. sepy[k] = sep[K + k] - n /\ sep[K + k] \in Nat
        BY <1>6, <1>10, <4>1
      <4>3. n + p = sep[K + k]
        BY <3>3, <4>2
      <4> QED BY <4>1, <4>3
    <3>4. s[n + p] = SEPARATOR <=> \E i \in 1..(N - 1) : n + p = sep[i]
      BY <1>4, <3>1
    <3> QED BY <3>1, <3>2, <3>3, <3>4
  <2> QED BY <1>9, <1>10, <2>1, <2>2, <2>3 DEF Seps

<1>15. /\ NamesIn(s) \in Seq(Seq(Bytes)) /\ Len(NamesIn(s)) = N - 1
       /\ \A i \in 1..(N - 1) : NamesIn(s)[i] = Bare(SubSeq(s, sep[i - 1] + 1, sep[i] - 1))
  BY <1>3, NamesAre
<1>16. /\ Len(Split(x)) = K /\ Split(x) \in Seq(Seq(Bytes))
       /\ \A i \in 1..K : Split(x)[i] = SubSeq(x, sepx[i - 1] + 1, sepx[i] - 1)
  <2>1. \A k, f : Seps(x, k, f) =>
          /\ Len(Split(x)) = k /\ Split(x) \in Seq(Seq(Bytes))
          /\ \A i \in 1..k : Split(x)[i] = SubSeq(x, f[i - 1] + 1, f[i] - 1)
    BY <1>12, PieceIs
  <2> QED BY <1>13, <2>1, Zenon
<1>17. /\ NamesIn(y) \in Seq(Seq(Bytes)) /\ Len(NamesIn(y)) = M - 1
       /\ \A i \in 1..(M - 1) : NamesIn(y)[i] = Bare(SubSeq(y, sepy[i - 1] + 1, sepy[i] - 1))
  <2>1. \A k, f : Seps(y, k, f) =>
          /\ NamesIn(y) \in Seq(Seq(Bytes)) /\ Len(NamesIn(y)) = k - 1
          /\ \A i \in 1..(k - 1) : NamesIn(y)[i] = Bare(SubSeq(y, f[i - 1] + 1, f[i] - 1))
    BY <1>12, NamesAre
  <2> QED BY <1>14, <2>1, Zenon
<1>18. ASSUME NEW i \in 1..K PROVE NamesIn(s)[i] = Split(x)[i]
  <2>1. i \in 1..(N - 1) /\ i \in 0..K /\ i - 1 \in 0..K
    BY <1>4, <1>5, <1>6
  <2>2. sepx[i - 1] = sep[i - 1] /\ sepx[i] = sep[i]
    BY <1>8, <2>1
  <2>3. /\ sepx[i - 1] \in Nat /\ sepx[i] - 1 \in Nat /\ sepx[i] - 1 <= Len(x)
    <3>1. \A k, f : Seps(x, k, f) => \A h \in 1..k :
            f[h - 1] \in Nat /\ f[h] - 1 \in Nat /\ f[h] - 1 <= Len(x)
      BY <1>12, SepBounds
    <3> QED BY <1>13, <3>1, Zenon
  <2> DEFINE a == sepx[i - 1]
             b == sepx[i] - 1
             p == SubSeq(x, a + 1, b)
  <2>4. a \in Nat /\ b \in Nat /\ b <= Len(x)
    BY <2>3
  <2>5. NamesIn(s)[i] = Bare(SubSeq(s, a + 1, b))
    BY <1>15, <2>1, <2>2
  <2>6. Split(x)[i] = p
    BY <1>16
  <2> HIDE DEF a, b
  <2>7. p = SubSeq(s, a + 1, b)
    <3>1. Len(x) <= Len(s) /\ \A j \in 1..Len(x) : s[j] = x[j]
      BY <1>0, <1>1, Zenon DEF L
    <3>2. \A t \in Seq(Bytes) : b <= Len(t) /\ Len(t) <= Len(s) /\ (\A j \in 1..Len(t) : s[j] = t[j]) =>
            SubSeq(t, a + 1, b) = SubSeq(s, a + 1, b)
      BY <2>4, StretchOfPrefix
    <3> QED BY <1>12, <2>4, <3>1, <3>2, Zenon
  <2>8. p = <<>> \/ p[1] # END
    <3>1. /\ p \in Seq(Bytes) /\ Len(p) = IF a < b THEN b - a ELSE 0
          /\ \A j \in 1..(b - a) : p[j] = x[a + j]
      BY <1>12, <2>4, Stretch
    <3>2. CASE a < b
      <4>1. 1 \in 1..(b - a) /\ a + 1 \in 1..(n - 2) /\ a + 1 \in 1..(n - 1)
        BY <1>0, <1>1, <2>4, <3>2
      <4>2. p[1] = x[a + 1] /\ x[a + 1] = s[a + 1] /\ s[a + 1] # END
        BY <1>1, <3>1, <4>1, Zenon
      <4> QED BY <4>2, Zenon
    <3>3. CASE ~(a < b)
      BY <3>1, <3>3, EmptySequence
    <3> QED BY <3>2, <3>3, Zenon
  <2>9. Bare(p) = p
    <3> HIDE DEF p
    <3> QED BY <2>8 DEF Bare
  <2> HIDE DEF p
  <2> QED BY <2>5, <2>6, <2>7, <2>9, Zenon
\* A stretch of the rest, seen in the whole.
<1>19. ASSUME NEW a \in Nat, NEW b \in Nat, b <= Len(y)
       PROVE  SubSeq(y, a + 1, b) = SubSeq(s, (a + n) + 1, b + n)
  <2>1. b + n <= Len(s) /\ \A j \in (a + 1)..b : y[j] = s[j + n]
    <3>1. b + n <= Len(s)
      BY <1>0, <1>2, <1>19 DEF L
    <3>2. ASSUME NEW j \in (a + 1)..b PROVE y[j] = s[j + n]
      <4>1. j \in 1..(L - n) /\ n + j = j + n
        BY <1>0, <1>2, <1>19
      <4> QED BY <1>2, <4>1
    <3> QED BY <3>1, <3>2
  <2> QED BY <1>12, <1>19, <2>1, StretchSame
<1>20. ASSUME NEW i \in 1..(M - 1) PROVE NamesIn(s)[K + i] = NamesIn(y)[i]
  <2>1. i \in 1..M /\ i \in 0..M /\ i - 1 \in 0..M /\ K + i \in 1..(N - 1) /\ K + i - 1 = K + (i - 1)
    BY <1>6, <1>9
  <2>2. sepy[i] = sep[K + i] - n /\ sepy[i] \in Nat /\ sepy[i] > 0 /\ sepy[i - 1] \in Nat
    BY <1>10, <2>1, SMTT(40)
  <2>3. sepy[i] - 1 \in Nat /\ sepy[i] - 1 <= Len(y)
    <3>1. \A k, f : Seps(y, k, f) => \A h \in 1..k : f[h] - 1 \in Nat /\ f[h] - 1 <= Len(y)
      BY <1>12, SepBounds
    <3> QED BY <1>14, <2>1, <3>1, Zenon
  <2>4. NamesIn(s)[K + i] = Bare(SubSeq(s, sep[K + (i - 1)] + 1, sep[K + i] - 1))
    <3>1. NamesIn(s)[K + i] = Bare(SubSeq(s, sep[K + i - 1] + 1, sep[K + i] - 1))
      BY <1>15, <2>1
    <3> QED BY <2>1, <3>1
  <2> DEFINE b == sepy[i] - 1
  <2>5. b \in Nat /\ b <= Len(y) /\ b + n = sep[K + i] - 1
    <3>1. sep[K + i] \in Nat
      BY <1>6, <1>9, <2>1
    <3>2. b \in Nat /\ b <= Len(y)
      BY <2>3
    <3>3. (sepy[i] - 1) + n = sep[K + i] - 1
      BY <2>2, <3>1
    <3> QED BY <3>2, <3>3
  <2>6. NamesIn(y)[i] = Bare(SubSeq(y, sepy[i - 1] + 1, b))
    BY <1>17
  <2>7. CASE i = 1
    <3> DEFINE p == SubSeq(y, 0 + 1, b)
               q == SubSeq(s, (n - 1) + 1, b + n)
    <3>1. NamesIn(y)[i] = Bare(p)
      BY <1>10, <2>6, <2>7
    <3>2. NamesIn(s)[K + i] = Bare(q)
      <4>1. K + (i - 1) = K
        BY <1>6, <2>7
      <4>2. sep[K + (i - 1)] = n - 1
        BY <1>5, <4>1
      <4> QED BY <2>4, <2>5, <4>2
    <3> HIDE DEF b
    <3>3. n - 1 \in Nat /\ b + n \in Nat /\ b + n <= Len(s) /\ n - 1 < b + n /\ (b + n) - (n - 1) = b + 1
      BY <1>0, <1>2, <2>5 DEF L
    <3>4. q \in Seq(Bytes) /\ Len(q) = b + 1 /\ \A j \in 1..(b + 1) : q[j] = s[(n - 1) + j]
      <4>1. \A u, v \in Nat : v <= Len(s) =>
              /\ SubSeq(s, u + 1, v) \in Seq(Bytes)
              /\ Len(SubSeq(s, u + 1, v)) = IF u < v THEN v - u ELSE 0
              /\ \A j \in 1..(v - u) : SubSeq(s, u + 1, v)[j] = s[u + j]
        BY Stretch, SMTT(40)
      <4>2. /\ q \in Seq(Bytes) /\ Len(q) = IF n - 1 < b + n THEN (b + n) - (n - 1) ELSE 0
            /\ \A j \in 1..((b + n) - (n - 1)) : q[j] = s[(n - 1) + j]
        BY <3>3, <4>1, Zenon
      <4> HIDE DEF q
      <4> QED BY <3>3, <4>2
    <3>5. p \in Seq(Bytes) /\ Len(p) = b /\ \A j \in 1..b : p[j] = s[n + j]
      <4>1. /\ p \in Seq(Bytes) /\ Len(p) = IF 0 < b THEN b - 0 ELSE 0
            /\ \A j \in 1..(b - 0) : p[j] = y[0 + j]
        BY <1>12, <2>5, Stretch, SMTT(40)
      <4> HIDE DEF p
      <4>2. Len(p) = b /\ \A j \in 1..b : p[j] = y[j]
        BY <2>5, <4>1
      <4>3. \A j \in 1..b : j \in 1..(L - n)
        BY <1>0, <1>2, <2>5
      <4> QED BY <1>2, <4>1, <4>2, <4>3, SMTT(40)
    <3> HIDE DEF p, q
    <3>6. q # <<>> /\ q[1] = END
      <4>1. 1 \in 1..(b + 1) /\ (n - 1) + 1 = n
        BY <2>5
      <4>2. q[1] = END
        BY <3>4, <4>1
      <4>3. Len(q) # 0
        BY <2>5, <3>4
      <4> QED BY <3>4, <4>2, <4>3, EmptySequence
    <3>7. Tail(q) \in Seq(Bytes) /\ Len(Tail(q)) = b /\ \A j \in 1..b : Tail(q)[j] = q[j + 1]
      BY <2>5, <3>4, <3>6
    <3>8. \A j \in 1..b : Tail(q)[j] = p[j]
      <4> TAKE j \in 1..b
      <4>1. j + 1 \in 1..(b + 1) /\ (n - 1) + (j + 1) = n + j
        BY <2>5
      <4>2. q[j + 1] = s[n + j]
        BY <3>4, <4>1
      <4> QED BY <3>5, <3>7, <4>2
    <3>9. Tail(q) = p
      BY <3>5, <3>7, <3>8, SameSequence, SMTT(40)
    <3>10. Bare(q) = p
      BY <3>6, <3>9 DEF Bare
    <3>11. Bare(p) = p
      <4>1. CASE b = 0
        BY <3>5, <4>1, EmptySequence DEF Bare
      <4>2. CASE b # 0
        <5>1. 1 \in 1..b /\ n < Len(s)
          BY <1>0, <1>2, <2>5, <4>2 DEF L
        <5>2. p[1] # END
          BY <3>5, <5>1
        <5> QED BY <5>2 DEF Bare
      <4> QED BY <4>1, <4>2
    <3> QED BY <3>1, <3>2, <3>10, <3>11
  <2>8. CASE i # 1
    <3> DEFINE a == sepy[i - 1]
    <3>1. i - 1 \in 1..M
      BY <1>9, <2>1, <2>8
    <3>2. a = sep[K + (i - 1)] - n /\ sep[K + (i - 1)] \in Nat
      BY <1>6, <1>9, <1>10, <3>1, <2>1, SMTT(40)
    <3>3. a \in Nat /\ a + n = sep[K + (i - 1)]
      BY <2>2, <3>2
    <3>4. NamesIn(s)[K + i] = Bare(SubSeq(s, (a + n) + 1, b + n))
      BY <2>4, <2>5, <3>3
    <3>5. NamesIn(y)[i] = Bare(SubSeq(y, a + 1, b))
      BY <2>6
    <3> HIDE DEF a, b
    <3>6. SubSeq(y, a + 1, b) = SubSeq(s, (a + n) + 1, b + n)
      BY <1>19, <2>5, <3>3, Zenon
    <3> QED BY <3>4, <3>5, <3>6, Zenon
  <2> QED BY <2>7, <2>8
<1>21. NamesIn(s) = Split(x) \o NamesIn(y)
  <2> DEFINE U == Split(x)
             V == NamesIn(y)
             Z == NamesIn(s)
  <2>1. U \in Seq(Seq(Bytes)) /\ Len(U) = K /\ V \in Seq(Seq(Bytes)) /\ Len(V) = M - 1
        /\ Z \in Seq(Seq(Bytes)) /\ Len(Z) = N - 1
    BY <1>15, <1>16, <1>17, SMTT(40)
  <2>2. (\A i \in 1..K : Z[i] = U[i]) /\ (\A i \in 1..(M - 1) : Z[K + i] = V[i])
    BY <1>18, <1>20, SMTT(40)
  <2> HIDE DEF U, V, Z
  <2>3. K + (M - 1) = N - 1
    BY <1>4, <1>6, <1>9
  <2>4. /\ Len(Z) = Len(U) + Len(V)
        /\ \A i \in 1..Len(U) : Z[i] = U[i]
        /\ \A i \in 1..Len(V) : Z[Len(U) + i] = V[i]
    BY <2>1, <2>2, <2>3, Zenon
  <2> DEFINE S == Seq(Bytes)
  <2>5. U \in Seq(S) /\ V \in Seq(S) /\ Z \in Seq(S)
    BY <2>1
  <2> HIDE DEF S
  <2>6. Z = U \o V
    BY <2>4, <2>5, ListSplice, Zenon
  <2> QED BY <2>6 DEF U, V, Z
<1> QED BY <1>21 DEF x, y, L

\* Division by d of a multiple of d and a remainder.
LEMMA Quotient ==
  ASSUME NEW q \in Nat, NEW r \in Nat, NEW d \in Nat \ {0}, r < d
  PROVE  (q * d + r) \div d = q
<1> DEFINE a == q * d + r
           x == a \div d
           y == a % d
<1>1. q * d \in Nat
  OBVIOUS
<1>2. a \in Nat
  BY <1>1
<1>3. a = d * x + y /\ x \in Int /\ y \in 0..(d - 1)
  <2> HIDE DEF a
  <2> QED BY <1>2
<1>4. q * d + r = d * x + y
  BY <1>3
<1> HIDE DEF a, x, y
<1>5. ~(x < q)
  <2> SUFFICES ASSUME x + 1 <= q PROVE FALSE
    BY <1>3
  <2>1. (x + 1) * d <= q * d
    BY <1>3
  <2>2. (x + 1) * d = d * x + d
    BY <1>3
  <2> QED BY <1>1, <1>3, <1>4, <2>1, <2>2
<1>6. ~(q < x)
  <2> SUFFICES ASSUME q + 1 <= x PROVE FALSE
    BY <1>3
  <2>1. (q + 1) * d <= x * d
    BY <1>3
  <2>2. (q + 1) * d = q * d + d /\ x * d = d * x
    BY <1>3
  <2> QED BY <1>1, <1>3, <1>4, <2>1, <2>2
<1>7. x = q
  BY <1>3, <1>5, <1>6
<1> QED BY <1>7 DEF x, a

\* The quotient of a smaller number is no larger.
LEMMA QuotientBound ==
  ASSUME NEW a \in Nat, NEW c \in Nat, NEW d \in Nat \ {0}, a < (c + 1) * d
  PROVE  a \div d \in 0..c
<1> DEFINE x == a \div d
           y == a % d
<1>1. a = d * x + y /\ x \in Int /\ y \in 0..(d - 1)
  OBVIOUS
<1> HIDE DEF x, y
<1>2. ~(x < 0)
  <2> SUFFICES ASSUME x + 1 <= 0 PROVE FALSE
    BY <1>1
  <2>1. (x + 1) * d <= 0 * d
    BY <1>1
  <2>2. (x + 1) * d = d * x + d /\ 0 * d = 0 /\ d * x \in Int
    BY <1>1
  <2> QED BY <1>1, <2>1, <2>2
<1>3. ~(c < x)
  <2> SUFFICES ASSUME c + 1 <= x PROVE FALSE
    BY <1>1
  <2>1. (c + 1) * d <= x * d
    BY <1>1
  <2>2. x * d = d * x /\ d * x \in Int /\ (c + 1) * d \in Int
    BY <1>1
  <2> QED BY <1>1, <2>1, <2>2
<1>4. x \in 0..c
  BY <1>1, <1>2, <1>3
<1> QED BY <1>4 DEF x

\* Where the k-th call that is let through stands among all.
At(k) == k + (k - 1) \div window_size

\* After c full frames and b calls more.
LEMMA KeptIs ==
  ASSUME NEW p \in Seq(Names), NEW c \in Nat, NEW b \in 0..window_size,
         Len(p) = c * (window_size + 1) + b
  PROVE  /\ Kept(p) = [k \in 1..(c * window_size + b) |-> p[At(k)]]
         /\ \A k \in 1..(c * window_size + b) : At(k) \in 1..Len(p)
         /\ Kept(p) \in Seq(Names) /\ Len(Kept(p)) = c * window_size + b
<1> DEFINE W == window_size
<1>0. W \in Nat \ {0} /\ b \in Nat /\ b <= W /\ W + 1 \in Nat \ {0} /\ b < W + 1
  BY SizeAssumption
<1>1. c * W \in Nat /\ c * (W + 1) = c * W + c
  BY <1>0
<1> DEFINE d == W + 1
           m == c * W + b
<1>2. Len(p) \div d = c
  <2>1. d \in Nat \ {0} /\ b < d /\ Len(p) = c * d + b
    BY <1>0
  <2> HIDE DEF d
  <2>2. (c * d + b) \div d = c
    BY <1>0, <2>1, Quotient, Zenon
  <2> QED BY <2>1, <2>2
<1>3. Len(p) - Len(p) \div d = m /\ m \in Nat /\ Len(p) = m + c
  BY <1>0, <1>1, <1>2
<1>4. Kept(p) = [k \in 1..m |-> p[At(k)]]
  <2>1. Kept(p) = [k \in 1..(Len(p) - Len(p) \div d) |-> p[At(k)]]
    BY DEF Kept, At
  <2> HIDE DEF d, m
  <2> QED BY <1>3, <2>1, Zenon
<1>5. ASSUME NEW k \in 1..m PROVE At(k) \in 1..Len(p)
  <2>1. k - 1 \in Nat /\ k - 1 < (c + 1) * W
    <3>1. (c + 1) * W = c * W + W
      BY <1>0, <1>1
    <3> QED BY <1>0, <1>1, <3>1
  <2>2. (k - 1) \div W \in 0..c
    <3> DEFINE a == k - 1
    <3>1. a \in Nat /\ a < (c + 1) * W
      BY <2>1
    <3> HIDE DEF a
    <3>2. a \div W \in 0..c
      BY <1>0, <3>1, QuotientBound
    <3> QED BY <3>2 DEF a
  <2> DEFINE e == (k - 1) \div W
  <2>3. At(k) = k + e
    BY DEF At
  <2> HIDE DEF e, m
  <2> QED BY <1>3, <2>2, <2>3 DEF e
<1>6. \A k \in 1..m : p[At(k)] \in Names
  BY <1>5, Elements
<1> HIDE DEF m
<1>7. Kept(p) \in [1..m -> Names]
  BY <1>4, <1>6
<1>8. Kept(p) \in Seq(Names) /\ Len(Kept(p)) = m
  <2>1. \A t \in [1..m -> Names] : t \in Seq(Names) /\ Len(t) = m
    <3> TAKE t \in [1..m -> Names]
    <3>1. t \in Seq(Names)
      BY <1>3, FunctionIsSequence
    <3> QED BY <1>3, <3>1, Elements
  <2> QED BY <1>7, <2>1
<1> QED BY <1>4, <1>5, <1>8, Zenon DEF m

\* append_syscall lets a call through unless it finds the frame full.
LEMMA KeptGrows ==
  ASSUME NEW p \in Seq(Names), NEW c \in Nat, NEW b \in 0..window_size,
         Len(p) = c * (window_size + 1) + b, NEW x \in Names
  PROVE  /\ b # window_size => Kept(Append(p, x)) = Append(Kept(p), x)
         /\ b = window_size => Kept(Append(p, x)) = Kept(p)
<1> DEFINE W == window_size
           t == Append(p, x)
           m == c * W + b
<1>0. W \in Nat \ {0} /\ b \in Nat /\ b <= W /\ c * W \in Nat /\ m \in Nat
  BY SizeAssumption
<1>1. t \in Seq(Names) /\ Len(t) = Len(p) + 1 /\ t[Len(p) + 1] = x /\ \A i \in 1..Len(p) : t[i] = p[i]
  OBVIOUS
<1>2. /\ Kept(p) = [k \in 1..m |-> p[At(k)]]
      /\ \A k \in 1..m : At(k) \in 1..Len(p)
      /\ Kept(p) \in Seq(Names) /\ Len(Kept(p)) = m
  BY KeptIs
<1> HIDE DEF t
<1>3. \A k \in 1..m : Kept(p)[k] = t[At(k)]
  <2> HIDE DEF m
  <2> QED BY <1>1, <1>2
<1>4. ASSUME b # W PROVE Kept(t) = Append(Kept(p), x)
  <2>1. b + 1 \in 0..W /\ Len(t) = c * (W + 1) + (b + 1) /\ c * W + (b + 1) = m + 1
    <3>1. c * (W + 1) = c * W + c
      BY <1>0
    <3> QED BY <1>0, <1>1, <1>4, <3>1
  <2>2. /\ Kept(t) = [k \in 1..(m + 1) |-> t[At(k)]]
        /\ Kept(t) \in Seq(Names) /\ Len(Kept(t)) = m + 1
    <3> DEFINE e == b + 1
    <3>1. e \in 0..window_size /\ Len(t) = c * (window_size + 1) + e /\ c * window_size + e = m + 1
      BY <2>1
    <3> HIDE DEF e, m
    <3>2. /\ Kept(t) = [k \in 1..(c * window_size + e) |-> t[At(k)]]
          /\ Kept(t) \in Seq(Names) /\ Len(Kept(t)) = c * window_size + e
      BY <1>1, <3>1, KeptIs
    <3> QED BY <3>1, <3>2, Zenon
  <2>3. At(m + 1) = Len(p) + 1
    <3>1. (m + 1) - 1 = c * W + b /\ b < W
      BY <1>0, <1>4
    <3>2. (c * W + b) \div W = c
      BY <1>0, <3>1, Quotient, Zenon
    <3>3. ((m + 1) - 1) \div W = c
      BY <3>1, <3>2, Zenon
    <3>4. At(m + 1) = (m + 1) + c
      BY <3>3, Zenon DEF At
    <3>5. c * (W + 1) = c * W + c
      BY <1>0
    <3> QED BY <1>0, <3>4, <3>5
  <2> HIDE DEF m
  <2>4. \A k \in 1..(m + 1) : Kept(t)[k] = IF k <= m THEN Kept(p)[k] ELSE x
    <3> TAKE k \in 1..(m + 1)
    <3>1. Kept(t)[k] = t[At(k)]
      BY <2>2
    <3>2. CASE k \in 1..m
      BY <1>0, <1>3, <3>1, <3>2, SMTT(40)
    <3>3. CASE k = m + 1
      BY <1>0, <1>1, <2>3, <3>1, <3>3
    <3>4. k \in 1..m \/ k = m + 1
      BY <1>0
    <3> QED BY <3>2, <3>3, <3>4
  <2> DEFINE u == Kept(p)
             v == Kept(t)
  <2>5. u \in Seq(Names) /\ Len(u) = m /\ v \in Seq(Names) /\ Len(v) = m + 1
        /\ \A k \in 1..(m + 1) : v[k] = IF k <= m THEN u[k] ELSE x
    BY <1>2, <2>2, <2>4, Zenon
  <2> HIDE DEF u, v
  <2>6. /\ Append(u, x) \in Seq(Names) /\ Len(Append(u, x)) = m + 1
        /\ \A k \in 1..(m + 1) : Append(u, x)[k] = IF k <= m THEN u[k] ELSE x
    BY <1>0, <2>5
  <2>7. v = Append(u, x)
    BY <2>5, <2>6, SameSequence
  <2> QED BY <2>7 DEF u, v
<1>5. ASSUME b = W PROVE Kept(t) = Kept(p)
  <2> DEFINE cc == c + 1
  <2>1. /\ 0 \in 0..window_size /\ cc \in Nat /\ Len(t) = cc * (window_size + 1) + 0
        /\ cc * window_size + 0 = m
    <3>1. c * (W + 1) = c * W + c /\ (c + 1) * (W + 1) = c * W + c + W + 1 /\ (c + 1) * W = c * W + W
      BY <1>0
    <3> QED BY <1>0, <1>1, <1>5, <3>1
  <2> HIDE DEF cc, m
  <2>2. Kept(t) = [k \in 1..(cc * window_size + 0) |-> t[At(k)]]
    BY <1>1, <2>1, KeptIs
  <2>3. Kept(t) = [k \in 1..m |-> t[At(k)]]
    BY <2>1, <2>2
  <2> QED BY <1>2, <1>3, <2>3
<1> QED BY <1>4, <1>5 DEF t
=============================================================================
