------------------------- MODULE SyscallTraceProofs -------------------------
(***************************************************************************)
(* A labelling of every byte on its way to the server with the call it     *)
(* comes from: what a name, an END and a recv do to it, and why tokens     *)
(* whose labels are in order are no spliced calls.                         *)
(***************************************************************************)
EXTENDS SyscallNamesProofs

\* The k-th byte append_syscall writes for a name.
Byte(name, k) ==
  IF k <= Len(name) THEN name[k] ELSE IF k = Len(name) + 1 THEN SEPARATOR ELSE END

\* Byte i of s is byte pos[i] of the call lab[i].
Traced(s, lab, pos, calls) ==
  /\ lab \in [1..Len(s) -> 1..Len(calls)]
  /\ pos \in [1..Len(s) -> Nat]
  /\ \A i \in 1..Len(s) : /\ pos[i] \in 1..(Len(calls[lab[i]]) + 2)
                          /\ s[i] = Byte(calls[lab[i]], pos[i])
  /\ \A i \in 1..(Len(s) - 1) :
       \/ lab[i + 1] = lab[i] /\ pos[i + 1] = pos[i] + 1
       \/ lab[i + 1] > lab[i] /\ pos[i + 1] = 1 /\ pos[i] > Len(calls[lab[i]])

\* A name is a sequence of characters, at least one, and no mark is a character.
LEMMA NameType ==
  ASSUME NEW name \in Names
  PROVE  /\ name \in Seq(Chars) /\ name \in Seq(Bytes) /\ Len(name) \in Nat \ {0}
         /\ \A k \in 1..Len(name) : name[k] # SEPARATOR /\ name[k] # END
<1>1. PICK i \in DOMAIN SysIndex : name = SysIndex[i]
  BY DEF Names
<1>2. name \in Seq(Chars) /\ Len(name) \in 1..MaxName
  BY <1>1, TableAssumption
<1>3. Len(name) \in Nat \ {0}
  BY <1>2, SizeAssumption
<1>4. Chars \subseteq Bytes
  BY DEF Bytes
<1>5. name \in Seq(Bytes)
  BY <1>2, <1>4
<1>6. \A k \in 1..Len(name) : name[k] \in Chars
  BY <1>2, Elements
<1> QED BY <1>2, <1>3, <1>5, <1>6, TableAssumption

\* Of the bytes of a name the one before the last is the separator, the last the END.
LEMMA ByteKind ==
  ASSUME NEW name \in Names, NEW k \in 1..(Len(name) + 2)
  PROVE  /\ Byte(name, k) = SEPARATOR <=> k = Len(name) + 1
         /\ Byte(name, k) = END <=> k = Len(name) + 2
<1>1. Len(name) \in Nat /\ \A i \in 1..Len(name) : name[i] # SEPARATOR /\ name[i] # END
  BY NameType
<1>2. CASE k <= Len(name)
  <2>1. k \in 1..Len(name) /\ k # Len(name) + 1 /\ k # Len(name) + 2
    BY <1>1, <1>2
  <2> QED BY <1>1, <1>2, <2>1 DEF Byte
<1>3. CASE k = Len(name) + 1
  BY <1>1, <1>3, Marks DEF Byte
<1>4. CASE k = Len(name) + 2
  BY <1>1, <1>4, Marks DEF Byte
<1> QED BY <1>1, <1>2, <1>3, <1>4

\* What the labels of one byte say of it.
LEMMA TracedAt ==
  ASSUME NEW s \in Seq(Bytes), NEW calls \in Seq(Names), NEW lab, NEW pos, Traced(s, lab, pos, calls),
         NEW i \in 1..Len(s)
  PROVE  /\ lab[i] \in 1..Len(calls) /\ lab[i] \in Nat /\ pos[i] \in Nat /\ pos[i] >= 1
         /\ calls[lab[i]] \in Names /\ Len(calls[lab[i]]) \in Nat \ {0}
         /\ s[i] = SEPARATOR <=> pos[i] = Len(calls[lab[i]]) + 1
         /\ s[i] = END <=> pos[i] = Len(calls[lab[i]]) + 2
         /\ s[i] # SEPARATOR /\ s[i] # END =>
              pos[i] \in 1..Len(calls[lab[i]]) /\ s[i] = calls[lab[i]][pos[i]]
<1>0. Len(s) \in Nat /\ Len(calls) \in Nat
  OBVIOUS
<1> DEFINE name == calls[lab[i]]
           k == pos[i]
<1>1. lab[i] \in 1..Len(calls) /\ k \in 1..(Len(name) + 2) /\ s[i] = Byte(name, k)
  BY Zenon DEF Traced
<1>2. name \in Names
  BY <1>1, Elements
<1>3. Len(name) \in Nat \ {0}
  BY <1>2, NameType
<1>4. lab[i] \in Nat
  BY <1>0, <1>1
<1> HIDE DEF name, k
<1>5. /\ Byte(name, k) = SEPARATOR <=> k = Len(name) + 1
      /\ Byte(name, k) = END <=> k = Len(name) + 2
  BY <1>1, <1>2, ByteKind
<1>6. k \in Nat /\ k >= 1
  BY <1>1, <1>3
<1>7. s[i] # SEPARATOR /\ s[i] # END => k \in 1..Len(name) /\ s[i] = name[k]
  <2>1. ASSUME s[i] # SEPARATOR, s[i] # END PROVE k \in 1..Len(name) /\ s[i] = name[k]
    <3>1. k # Len(name) + 1 /\ k # Len(name) + 2
      BY <1>1, <1>5, <2>1
    <3>2. k \in 1..Len(name)
      BY <1>1, <1>3, <3>1
    <3> QED BY <1>1, <1>3, <3>2 DEF Byte
  <2> QED BY <2>1
<1> QED BY <1>1, <1>2, <1>3, <1>4, <1>5, <1>6, <1>7 DEF name, k

\* What the labels of two neighbouring bytes say of each other.
LEMMA TracedNext ==
  ASSUME NEW s \in Seq(Bytes), NEW calls \in Seq(Names), NEW lab, NEW pos, Traced(s, lab, pos, calls),
         NEW i \in 1..Len(s), i + 1 <= Len(s)
  PROVE  /\ \/ lab[i + 1] = lab[i] /\ pos[i + 1] = pos[i] + 1
            \/ lab[i + 1] > lab[i] /\ pos[i + 1] = 1
         /\ s[i] # SEPARATOR /\ s[i] # END => lab[i + 1] = lab[i] /\ pos[i + 1] = pos[i] + 1
         /\ s[i] = END => pos[i + 1] = 1
         /\ s[i + 1] = END => s[i] = SEPARATOR
         /\ pos[i + 1] = 1 => s[i + 1] # END
<1>0. Len(s) \in Nat /\ i + 1 \in 1..Len(s) /\ i \in 1..(Len(s) - 1)
  OBVIOUS
<1>1. \/ lab[i + 1] = lab[i] /\ pos[i + 1] = pos[i] + 1
      \/ lab[i + 1] > lab[i] /\ pos[i + 1] = 1 /\ pos[i] > Len(calls[lab[i]])
  BY <1>0 DEF Traced
<1> DEFINE n1 == Len(calls[lab[i]])
           n2 == Len(calls[lab[i + 1]])
<1>2. /\ pos[i] \in Nat /\ n1 \in Nat \ {0}
      /\ s[i] = SEPARATOR <=> pos[i] = n1 + 1
      /\ s[i] = END <=> pos[i] = n1 + 2
      /\ s[i] # SEPARATOR /\ s[i] # END => pos[i] \in 1..n1
  BY TracedAt
<1>3. /\ pos[i + 1] \in Nat /\ n2 \in Nat \ {0}
      /\ s[i + 1] = END <=> pos[i + 1] = n2 + 2
      /\ pos[i + 1] <= n2 + 2
  <2>1. \A j \in 1..Len(s) :
          /\ pos[j] \in Nat /\ Len(calls[lab[j]]) \in Nat \ {0}
          /\ s[j] = END <=> pos[j] = Len(calls[lab[j]]) + 2
    BY TracedAt
  <2>2. pos[i + 1] \in 1..(n2 + 2)
    BY <1>0 DEF Traced
  <2>3. /\ pos[i + 1] \in Nat /\ n2 \in Nat \ {0}
        /\ s[i + 1] = END <=> pos[i + 1] = n2 + 2
    BY <1>0, <2>1, Zenon
  <2> HIDE DEF n2
  <2> QED BY <2>2, <2>3
<1>4. lab[i + 1] = lab[i] => n1 = n2
  OBVIOUS
<1> HIDE DEF n1, n2
<1>5. pos[i] > n1 \/ (lab[i + 1] = lab[i] /\ pos[i + 1] = pos[i] + 1)
  BY <1>1 DEF n1
<1>6. s[i] # SEPARATOR /\ s[i] # END => lab[i + 1] = lab[i] /\ pos[i + 1] = pos[i] + 1
  BY <1>2, <1>5
<1>7. s[i] = END => pos[i + 1] = 1
  BY <1>1, <1>2, <1>3, <1>4
<1>8. s[i + 1] = END => s[i] = SEPARATOR
  BY <1>1, <1>2, <1>3, <1>4
<1>9. pos[i + 1] = 1 => s[i + 1] # END
  BY <1>3
<1> QED BY <1>1, <1>6, <1>7, <1>8, <1>9

\* The labels go forward.
LEMMA Ordered ==
  ASSUME NEW s \in Seq(Bytes), NEW calls \in Seq(Names), NEW lab, NEW pos, Traced(s, lab, pos, calls)
  PROVE  \A i, j \in 1..Len(s) : i <= j => lab[i] <= lab[j]
<1>0. Len(s) \in Nat /\ \A i \in 1..Len(s) : lab[i] \in Nat
  BY TracedAt
<1> DEFINE T == {d \in Nat : \A i \in 1..Len(s) : i + d <= Len(s) => lab[i] <= lab[i + d]}
<1>1. 0 \in T
  <2>1. \A i \in 1..Len(s) : i + 0 = i /\ lab[i] <= lab[i]
    BY <1>0
  <2> QED BY <2>1
<1>2. ASSUME NEW d \in Nat, d \in T PROVE d + 1 \in T
  <2> SUFFICES ASSUME NEW i \in 1..Len(s), i + (d + 1) <= Len(s) PROVE lab[i] <= lab[i + (d + 1)]
    OBVIOUS
  <2> DEFINE k == i + d
  <2>1. k \in 1..Len(s) /\ k + 1 = i + (d + 1) /\ k + 1 \in 1..Len(s)
    BY <1>0
  <2>2. lab[i] <= lab[k]
    BY <1>0, <1>2, <2>1
  <2> HIDE DEF k, T
  <2>3. lab[k] <= lab[k + 1]
    <3>1. lab[k + 1] = lab[k] \/ lab[k + 1] > lab[k]
      <4>1. k + 1 <= Len(s)
        BY <1>0, <2>1
      <4> QED BY <2>1, <4>1, TracedNext
    <3> QED BY <1>0, <2>1, <3>1
  <2>4. lab[i] <= lab[k + 1]
    BY <1>0, <2>1, <2>2, <2>3
  <2> QED BY <2>1, <2>4
<1> HIDE DEF T
<1>3. Nat \subseteq T
  BY <1>1, <1>2, Induction
<1> SUFFICES ASSUME NEW i \in 1..Len(s), NEW j \in 1..Len(s), i <= j PROVE lab[i] <= lab[j]
  OBVIOUS
<1>4. j - i \in T /\ i + (j - i) = j /\ j <= Len(s)
  BY <1>0, <1>3
<1> QED BY <1>4 DEF T

\* Bytes without a mark among them are of one name.
LEMMA Run ==
  ASSUME NEW s \in Seq(Bytes), NEW calls \in Seq(Names), NEW lab, NEW pos, Traced(s, lab, pos, calls),
         NEW i \in 1..Len(s), NEW j \in 1..Len(s), i <= j,
         \A q \in i..(j - 1) : s[q] # SEPARATOR /\ s[q] # END
  PROVE  lab[j] = lab[i] /\ pos[j] = pos[i] + (j - i)
<1>0. Len(s) \in Nat /\ \A k \in 1..Len(s) : pos[k] \in Nat
  BY TracedAt
<1> DEFINE T == {d \in Nat : i + d <= j => lab[i + d] = lab[i] /\ pos[i + d] = pos[i] + d}
<1>1. 0 \in T
  <2>1. i + 0 = i /\ pos[i] + 0 = pos[i]
    BY <1>0
  <2> QED BY <2>1
<1>2. ASSUME NEW d \in Nat, d \in T PROVE d + 1 \in T
  <2> SUFFICES ASSUME i + (d + 1) <= j PROVE lab[i + (d + 1)] = lab[i] /\ pos[i + (d + 1)] = pos[i] + (d + 1)
    OBVIOUS
  <2> DEFINE k == i + d
  <2>1. k \in 1..Len(s) /\ k + 1 = i + (d + 1) /\ k + 1 <= Len(s) /\ k \in i..(j - 1)
    BY <1>0
  <2>2. lab[k] = lab[i] /\ pos[k] = pos[i] + d
    <3>1. i + d <= j
      BY <1>0
    <3>2. lab[i + d] = lab[i] /\ pos[i + d] = pos[i] + d
      BY <1>2, <3>1
    <3> QED BY <3>2
  <2> HIDE DEF k, T
  <2>3. lab[k + 1] = lab[k] /\ pos[k + 1] = pos[k] + 1
    BY <2>1, TracedNext
  <2>4. pos[k + 1] = pos[i] + (d + 1)
    <3>1. pos[i] \in Nat
      BY <1>0
    <3>2. pos[k + 1] = (pos[i] + d) + 1
      BY <2>2, <2>3, Zenon
    <3>3. \A x \in Nat : (x + d) + 1 = x + (d + 1)
      OBVIOUS
    <3> QED BY <3>1, <3>2, <3>3, Zenon
  <2> QED BY <2>1, <2>2, <2>3, <2>4, Zenon
<1> HIDE DEF T
<1>3. Nat \subseteq T
  BY <1>1, <1>2, Induction
<1>4. j - i \in T /\ i + (j - i) = j /\ j <= j
  BY <1>0, <1>3
<1> QED BY <1>4 DEF T

\* A stretch without a mark is part of the name its first byte belongs to.
LEMMA PartOf ==
  ASSUME NEW s \in Seq(Bytes), NEW calls \in Seq(Names), NEW lab, NEW pos, Traced(s, lab, pos, calls),
         NEW a \in Nat, NEW b \in Nat, a < b, b <= Len(s),
         \A q \in (a + 1)..b : s[q] # SEPARATOR /\ s[q] # END
  PROVE  IsPartOf(SubSeq(s, a + 1, b), calls[lab[a + 1]])
<1>0. Len(s) \in Nat /\ a + 1 \in 1..Len(s) /\ b \in 1..Len(s) /\ a + 1 \in (a + 1)..b /\ b \in (a + 1)..b
  OBVIOUS
<1> DEFINE i == a + 1
           name == calls[lab[i]]
           k == pos[i]
           e == pos[i] + (b - i)
           t == SubSeq(s, a + 1, b)
<1>1. t \in Seq(Bytes) /\ Len(t) = b - a /\ \A j \in 1..(b - a) : t[j] = s[a + j]
  BY <1>0, Stretch
<1>2. \A j \in 1..Len(s) : s[j] # SEPARATOR /\ s[j] # END =>
        /\ pos[j] \in 1..Len(calls[lab[j]]) /\ s[j] = calls[lab[j]][pos[j]]
        /\ calls[lab[j]] \in Names
  BY TracedAt
<1>3. ASSUME NEW j \in i..b PROVE lab[j] = lab[i] /\ pos[j] = k + (j - i)
  <2>1. j \in 1..Len(s) /\ i \in 1..Len(s) /\ i <= j
    BY <1>0
  <2>2. \A q \in i..(j - 1) : s[q] # SEPARATOR /\ s[q] # END
    BY <1>0, <2>1
  <2> HIDE DEF i
  <2> QED BY <2>1, <2>2, Run
<1>4. name \in Names /\ k \in 1..Len(name)
  BY <1>0, <1>2
<1>5. name \in Seq(Bytes) /\ Len(name) \in Nat
  BY <1>4, NameType
<1>6. e \in 1..Len(name) /\ e = k + (b - i)
  <2>1. b \in i..b
    BY <1>0
  <2>2. lab[b] = lab[i] /\ pos[b] = e
    BY <1>3, <2>1
  <2>3. pos[b] \in 1..Len(calls[lab[b]])
    BY <1>0, <1>2
  <2> QED BY <2>2, <2>3
<1> DEFINE m == k - 1
           u == SubSeq(name, m + 1, e)
<1>7. m \in Nat /\ e \in Nat /\ e <= Len(name) /\ m + 1 = k /\ e - m = b - a /\ m < e
  <2> HIDE DEF k, e, name
  <2> QED BY <1>0, <1>4, <1>5, <1>6
<1> HIDE DEF m, name, e, k
<1>8. u \in Seq(Bytes) /\ Len(u) = e - m /\ \A j \in 1..(e - m) : u[j] = name[m + j]
  BY <1>5, <1>7, Stretch, Zenon
<1>9. ASSUME NEW j \in 1..(b - a) PROVE t[j] = u[j]
  <2>1. a + j \in i..b /\ a + j \in 1..Len(s) /\ a + j \in (a + 1)..b /\ (a + j) - i = j - 1
    BY <1>0
  <2>2. lab[a + j] = lab[i] /\ pos[a + j] = k + (j - 1)
    BY <1>3, <2>1
  <2>3. s[a + j] = calls[lab[a + j]][pos[a + j]]
    BY <1>2, <2>1
  <2>4. k + (j - 1) = m + j
    BY <1>4, <1>5, <1>7
  <2>5. s[a + j] = name[m + j]
    <3>1. s[a + j] = calls[lab[i]][m + j]
      BY <2>2, <2>3, <2>4
    <3> QED BY <3>1 DEF name
  <2>6. u[j] = name[m + j]
    BY <1>7, <1>8
  <2> HIDE DEF u, t
  <2> QED BY <1>1, <2>5, <2>6
<1> HIDE DEF t, u
<1>10. t = u
  <2>1. Len(t) = Len(u) /\ \A j \in 1..Len(t) : t[j] = u[j]
    BY <1>1, <1>7, <1>8, <1>9, Zenon
  <2> QED BY <1>1, <1>8, <2>1, SameSequence
<1>11. u = SubSeq(name, k, e)
  BY <1>7, Zenon DEF u
<1>12. k \in DOMAIN name /\ e \in DOMAIN name
  <2>1. DOMAIN name = 1..Len(name)
    BY <1>5, Elements
  <2> QED BY <1>4, <1>6, <2>1
<1>13. t = SubSeq(name, k, e)
  BY <1>10, <1>11
<1>14. IsPartOf(t, name)
  BY <1>12, <1>13, Zenon DEF IsPartOf
<1> QED BY <1>14 DEF t, name

\* A piece between two separators of what one recv returned has an owner.
LEMMA PieceOwned ==
  ASSUME NEW s \in Seq(Bytes), NEW calls \in Seq(Names), NEW lab, NEW pos, Traced(s, lab, pos, calls),
         NEW a \in Nat, NEW b \in Nat, a <= b, b < Len(s),
         \A q \in (a + 1)..b : s[q] # SEPARATOR
  PROVE  \E st \in (a + 1)..(b + 1) :
           Bare(SubSeq(s, a + 1, b)) # <<>> => IsPartOf(Bare(SubSeq(s, a + 1, b)), calls[lab[st]])
<1> DEFINE p == SubSeq(s, a + 1, b)
<1>0. Len(s) \in Nat /\ b <= Len(s)
  OBVIOUS
<1>1. p \in Seq(Bytes) /\ Len(p) = (IF a < b THEN b - a ELSE 0) /\ \A j \in 1..(b - a) : p[j] = s[a + j]
  BY <1>0, Stretch
\* An END can only be the first byte of the piece: there is a separator before it.
<1>2. \A q \in (a + 2)..b : s[q] # END
  <2> TAKE q \in (a + 2)..b
  <2> DEFINE i == q - 1
  <2>1. i \in 1..Len(s) /\ i + 1 = q /\ i + 1 <= Len(s) /\ i \in (a + 1)..b
    BY <1>0
  <2>2. s[i] # SEPARATOR
    BY <2>1
  <2> HIDE DEF i
  <2>3. s[i + 1] = END => s[i] = SEPARATOR
    BY <2>1, TracedNext
  <2> QED BY <2>1, <2>2, <2>3
<1>3. CASE ~(a < b)
  <2>1. p = <<>>
    BY <1>1, <1>3, EmptySequence
  <2>2. Bare(p) = <<>>
    BY <2>1 DEF Bare
  <2>3. a + 1 \in (a + 1)..(b + 1)
    OBVIOUS
  <2> QED BY <2>2, <2>3
<1>4. CASE a < b /\ s[a + 1] # END
  <2>1. p[1] = s[a + 1]
    BY <1>1, <1>4
  <2>2. Bare(p) = p
    BY <1>4, <2>1 DEF Bare
  <2>3. \A q \in (a + 1)..b : s[q] # SEPARATOR /\ s[q] # END
    <3> TAKE q \in (a + 1)..b
    <3>1. q = a + 1 \/ q \in (a + 2)..b
      OBVIOUS
    <3> QED BY <1>2, <1>4, <3>1
  <2>4. IsPartOf(p, calls[lab[a + 1]])
    BY <1>0, <1>4, <2>3, PartOf, Zenon
  <2>5. a + 1 \in (a + 1)..(b + 1)
    OBVIOUS
  <2> QED BY <2>2, <2>4, <2>5, Zenon
<1>5. CASE a < b /\ s[a + 1] = END
  <2> DEFINE c == a + 1
             u == SubSeq(s, c + 1, b)
  <2>0. c \in Nat /\ c <= b /\ b - c \in Nat
    BY <1>5
  <2>1. p[1] = END /\ p # <<>>
    <3>1. p[1] = s[a + 1] /\ Len(p) # 0
      BY <1>1, <1>5
    <3> QED BY <1>1, <1>5, <3>1, EmptySequence
  <2>2. Bare(p) = Tail(p)
    <3> HIDE DEF p
    <3> QED BY <2>1 DEF Bare
  <2> HIDE DEF p
  <2>3. Tail(p) \in Seq(Bytes) /\ Len(Tail(p)) = b - c /\ \A j \in 1..(b - c) : Tail(p)[j] = s[c + j]
    <3>1. Tail(p) \in Seq(Bytes) /\ Len(Tail(p)) = Len(p) - 1 /\ \A j \in 1..(Len(p) - 1) : Tail(p)[j] = p[j + 1]
      BY <1>1, <2>1
    <3>2. Len(p) - 1 = b - c
      BY <1>1, <1>5
    <3>3. ASSUME NEW j \in 1..(b - c) PROVE Tail(p)[j] = s[c + j]
      <4>1. j + 1 \in 1..(b - a) /\ a + (j + 1) = c + j /\ j \in 1..(Len(p) - 1)
        BY <1>5, <3>2
      <4>2. p[j + 1] = s[a + (j + 1)]
        BY <1>1, <4>1
      <4> QED BY <3>1, <4>1, <4>2
    <3> QED BY <3>1, <3>2, <3>3
  <2> HIDE DEF c
  <2>4. u \in Seq(Bytes) /\ Len(u) = (IF c < b THEN b - c ELSE 0) /\ \A j \in 1..(b - c) : u[j] = s[c + j]
    BY <1>0, <2>0, Stretch, SMTT(40)
  <2>5. Tail(p) = u
    <3> DEFINE v == Tail(p)
    <3>1. v \in Seq(Bytes) /\ Len(v) = b - c /\ \A j \in 1..(b - c) : v[j] = u[j]
      BY <2>3, <2>4, Zenon
    <3>2. Len(u) = b - c
      BY <2>0, <2>4
    <3> HIDE DEF u, v
    <3>3. v = u
      BY <2>4, <3>1, <3>2, SameSequence
    <3> QED BY <3>3 DEF v
  <2>6. CASE ~(c < b)
    <3>1. u = <<>>
      BY <2>4, <2>6, EmptySequence
    <3>2. a + 1 \in (a + 1)..(b + 1)
      OBVIOUS
    <3> QED BY <2>2, <2>5, <3>1, <3>2, Zenon DEF p
  <2>7. CASE c < b
    <3>1. \A q \in (c + 1)..b : s[q] # SEPARATOR /\ s[q] # END
      <4> TAKE q \in (c + 1)..b
      <4>1. q \in (a + 1)..b /\ q \in (a + 2)..b
        BY DEF c
      <4> QED BY <1>2, <4>1
    <3>2. IsPartOf(u, calls[lab[c + 1]])
      BY <1>0, <2>0, <2>7, <3>1, PartOf
    <3>3. c + 1 \in (a + 1)..(b + 1)
      BY <2>7 DEF c
    <3> QED BY <2>2, <2>5, <3>2, <3>3, Zenon DEF p
  <2> QED BY <2>6, <2>7
<1> QED BY <1>3, <1>4, <1>5

\* The last byte is a mark.
Marked(s) == s[Len(s)] = SEPARATOR \/ s[Len(s)] = END

\* append_syscall puts a name and its separator in the buffer.
LEMMA TraceName ==
  ASSUME NEW s \in Seq(Bytes), NEW calls \in Seq(Names), NEW lab, NEW pos, Traced(s, lab, pos, calls),
         s = <<>> \/ Marked(s), NEW x \in Names
  PROVE  LET n    == Len(s) + Len(x) + 1
             lab2 == [i \in 1..n |-> IF i <= Len(s) THEN lab[i] ELSE Len(calls) + 1]
             pos2 == [i \in 1..n |-> IF i <= Len(s) THEN pos[i] ELSE i - Len(s)]
         IN  Traced(s \o x \o <<SEPARATOR>>, lab2, pos2, Append(calls, x))
<1> DEFINE L == Len(s)
           K == Len(x)
           C == Len(calls)
           n == L + K + 1
           lab2 == [i \in 1..n |-> IF i <= L THEN lab[i] ELSE C + 1]
           pos2 == [i \in 1..n |-> IF i <= L THEN pos[i] ELSE i - L]
           t == s \o x \o <<SEPARATOR>>
           all == Append(calls, x)
<1>0. L \in Nat /\ C \in Nat /\ K \in Nat \ {0} /\ x \in Seq(Bytes) /\ n \in Nat
  BY NameType
<1>1. /\ t \in Seq(Bytes) /\ Len(t) = n /\ t[n] = SEPARATOR
      /\ \A j \in 1..L : t[j] = s[j]
      /\ \A j \in 1..K : t[L + j] = x[j]
  <2>1. SEPARATOR \in Bytes
    BY Marks
  <2> HIDE DEF SEPARATOR
  <2> QED BY <1>0, <2>1
<1>2. /\ all \in Seq(Names) /\ Len(all) = C + 1 /\ all[C + 1] = x
      /\ \A j \in 1..C : all[j] = calls[j]
  OBVIOUS
<1>3. \A i \in 1..L : /\ lab[i] \in 1..C /\ lab[i] \in Nat /\ pos[i] \in Nat
                      /\ pos[i] \in 1..(Len(calls[lab[i]]) + 2)
                      /\ s[i] = Byte(calls[lab[i]], pos[i])
  BY TracedAt DEF Traced
<1> HIDE DEF t, all, C, K
<1>4. /\ \A i \in 1..L : i \in 1..n /\ lab2[i] = lab[i] /\ pos2[i] = pos[i]
      /\ \A i \in (L + 1)..n : i \in 1..n /\ lab2[i] = C + 1 /\ pos2[i] = i - L
      /\ \A i \in 1..n : i \in 1..L \/ i \in (L + 1)..n
  BY <1>0
<1>5. lab2 \in [1..n -> 1..(C + 1)] /\ pos2 \in [1..n -> Nat]
  BY <1>0, <1>3
<1> HIDE DEF lab2, pos2, n
<1>6. ASSUME NEW i \in 1..n
      PROVE  pos2[i] \in 1..(Len(all[lab2[i]]) + 2) /\ t[i] = Byte(all[lab2[i]], pos2[i])
  <2>1. CASE i \in 1..L
    <3>1. lab2[i] = lab[i] /\ pos2[i] = pos[i] /\ t[i] = s[i]
      BY <1>1, <1>4, <2>1
    <3>2. all[lab[i]] = calls[lab[i]]
      BY <1>2, <1>3, <2>1
    <3>3. pos[i] \in 1..(Len(calls[lab[i]]) + 2) /\ s[i] = Byte(calls[lab[i]], pos[i])
      BY <1>3, <2>1
    <3> QED BY <3>1, <3>2, <3>3, Zenon
  <2>2. CASE i \in (L + 1)..n
    <3> DEFINE k == i - L
    <3>1. lab2[i] = C + 1 /\ pos2[i] = k /\ all[C + 1] = x
      BY <1>2, <1>4, <2>2
    <3>2. k \in 1..(K + 1) /\ L + k = i /\ k \in Nat /\ (k = K + 1 <=> i = n)
      BY <1>0, <2>2 DEF n
    <3>3. Byte(x, k) = t[i]
      <4>1. CASE k <= K
        <5>1. k \in 1..K
          BY <1>0, <3>2, <4>1
        <5>2. t[L + k] = x[k]
          BY <1>1, <5>1
        <5>3. Byte(x, k) = x[k]
          BY <4>1, Zenon DEF Byte, K
        <5> QED BY <3>2, <5>2, <5>3
      <4>2. CASE k = K + 1
        <5>1. Byte(x, k) = SEPARATOR
          BY <1>0, <4>2 DEF Byte, K
        <5> QED BY <1>1, <3>2, <4>2, <5>1
      <4>3. k <= K \/ k = K + 1
        <5> HIDE DEF k
        <5> QED BY <1>0, <3>2
      <4> QED BY <4>1, <4>2, <4>3, Zenon
    <3>4. k \in 1..(Len(x) + 2)
      BY <1>0, <3>2 DEF K
    <3> HIDE DEF k
    <3> QED BY <3>1, <3>3, <3>4, Zenon
  <2> QED BY <1>4, <2>1, <2>2
<1>7. ASSUME NEW i \in 1..(n - 1)
      PROVE  \/ lab2[i + 1] = lab2[i] /\ pos2[i + 1] = pos2[i] + 1
             \/ lab2[i + 1] > lab2[i] /\ pos2[i + 1] = 1 /\ pos2[i] > Len(all[lab2[i]])
  <2>1. CASE i < L
    <3>1. i \in 1..L /\ i + 1 \in 1..L /\ i \in 1..(L - 1)
      BY <1>0, <2>1
    <3>2. /\ lab2[i] = lab[i] /\ pos2[i] = pos[i] /\ lab2[i + 1] = lab[i + 1] /\ pos2[i + 1] = pos[i + 1]
          /\ all[lab[i]] = calls[lab[i]]
      BY <1>2, <1>3, <1>4, <3>1
    <3>3. \/ lab[i + 1] = lab[i] /\ pos[i + 1] = pos[i] + 1
          \/ lab[i + 1] > lab[i] /\ pos[i + 1] = 1 /\ pos[i] > Len(calls[lab[i]])
      BY <3>1 DEF Traced
    <3> QED BY <3>2, <3>3, Zenon
  <2>2. CASE i = L
    <3>1. L \in 1..L /\ L + 1 \in (L + 1)..n /\ (L + 1) - L = 1
      BY <1>0, <2>2 DEF n
    <3>2. lab2[L] = lab[L] /\ pos2[L] = pos[L] /\ lab2[L + 1] = C + 1 /\ pos2[L + 1] = 1
      BY <1>4, <3>1
    <3>3. lab[L] \in 1..C /\ all[lab[L]] = calls[lab[L]]
      BY <1>2, <1>3, <3>1
    <3>4. Marked(s)
      BY <3>1, <1>0
    <3>5. pos[L] > Len(calls[lab[L]])
      <4>1. /\ pos[L] \in Nat /\ Len(calls[lab[L]]) \in Nat
            /\ s[L] = SEPARATOR <=> pos[L] = Len(calls[lab[L]]) + 1
            /\ s[L] = END <=> pos[L] = Len(calls[lab[L]]) + 2
        BY <3>1, TracedAt
      <4> QED BY <3>4, <4>1 DEF Marked
    <3>6. C + 1 > lab[L]
      BY <1>0, <3>3
    <3> QED BY <2>2, <3>2, <3>3, <3>5, <3>6
  <2>3. CASE i > L
    <3>1. i \in (L + 1)..n /\ i + 1 \in (L + 1)..n /\ (i + 1) - L = (i - L) + 1
      BY <1>0, <2>3
    <3>2. lab2[i] = C + 1 /\ pos2[i] = i - L /\ lab2[i + 1] = C + 1 /\ pos2[i + 1] = (i + 1) - L
      BY <1>4, <3>1
    <3> QED BY <3>1, <3>2
  <2> QED BY <1>0, <2>1, <2>2, <2>3
<1>8. Traced(t, lab2, pos2, all)
  BY <1>1, <1>2, <1>5, <1>6, <1>7 DEF Traced
<1> QED BY <1>8 DEF t, lab2, pos2, all, n, K, C

\* append_syscall ends a frame; the call that found it full is not sent.
LEMMA TraceEnd ==
  ASSUME NEW s \in Seq(Bytes), NEW calls \in Seq(Names), NEW lab, NEW pos, Traced(s, lab, pos, calls),
         s # <<>>, s[Len(s)] = SEPARATOR, NEW x \in Names
  PROVE  LET n    == Len(s) + 1
             lab2 == [i \in 1..n |-> IF i <= Len(s) THEN lab[i] ELSE lab[Len(s)]]
             pos2 == [i \in 1..n |-> IF i <= Len(s) THEN pos[i] ELSE pos[Len(s)] + 1]
         IN  Traced(s \o <<END>>, lab2, pos2, Append(calls, x))
<1> DEFINE L == Len(s)
           C == Len(calls)
           n == L + 1
           lab2 == [i \in 1..n |-> IF i <= L THEN lab[i] ELSE lab[L]]
           pos2 == [i \in 1..n |-> IF i <= L THEN pos[i] ELSE pos[L] + 1]
           t == s \o <<END>>
           all == Append(calls, x)
<1>0. L \in Nat /\ C \in Nat /\ n \in Nat /\ L \in 1..L
  BY EmptySequence
<1>1. t \in Seq(Bytes) /\ Len(t) = n /\ t[n] = END /\ \A j \in 1..L : t[j] = s[j]
  <2>1. END \in Bytes
    BY Marks
  <2> HIDE DEF END
  <2> QED BY <1>0, <2>1
<1>2. all \in Seq(Names) /\ Len(all) = C + 1 /\ \A j \in 1..C : all[j] = calls[j]
  OBVIOUS
<1>3. \A i \in 1..L : /\ lab[i] \in 1..C /\ lab[i] \in Nat /\ pos[i] \in Nat
                      /\ pos[i] \in 1..(Len(calls[lab[i]]) + 2)
                      /\ s[i] = Byte(calls[lab[i]], pos[i])
  BY TracedAt DEF Traced
<1>4. pos[L] = Len(calls[lab[L]]) + 1 /\ Len(calls[lab[L]]) \in Nat /\ pos[L] \in Nat /\ lab[L] \in 1..C
      /\ calls[lab[L]] \in Names
  BY <1>0, TracedAt
<1> HIDE DEF t, all, C
<1>5. /\ \A i \in 1..L : i \in 1..n /\ lab2[i] = lab[i] /\ pos2[i] = pos[i]
      /\ lab2[n] = lab[L] /\ pos2[n] = pos[L] + 1
      /\ \A i \in 1..n : i \in 1..L \/ i = n
  BY <1>0
<1>6. lab2 \in [1..n -> 1..(C + 1)] /\ pos2 \in [1..n -> Nat]
  <2>1. 1..C \subseteq 1..(C + 1)
    BY <1>0
  <2>2. \A i \in 1..L : lab[i] \in 1..(C + 1) /\ pos[i] \in Nat
    BY <1>3, <2>1
  <2>3. lab[L] \in 1..(C + 1) /\ pos[L] + 1 \in Nat
    BY <1>4, <2>1
  <2>4. \A i \in 1..n : i <= L => i \in 1..L
    BY <1>0
  <2> HIDE DEF n
  <2> QED BY <2>2, <2>3, <2>4
<1> HIDE DEF lab2, pos2
<1>7. \A i \in 1..L : all[lab[i]] = calls[lab[i]]
  BY <1>2, <1>3
<1>8. ASSUME NEW i \in 1..n
      PROVE  pos2[i] \in 1..(Len(all[lab2[i]]) + 2) /\ t[i] = Byte(all[lab2[i]], pos2[i])
  <2>1. CASE i \in 1..L
    <3>1. lab2[i] = lab[i] /\ pos2[i] = pos[i] /\ t[i] = s[i] /\ all[lab[i]] = calls[lab[i]]
      BY <1>1, <1>5, <1>7, <2>1
    <3>2. pos[i] \in 1..(Len(calls[lab[i]]) + 2) /\ s[i] = Byte(calls[lab[i]], pos[i])
      BY <1>3, <2>1
    <3> QED BY <3>1, <3>2, Zenon
  <2>2. CASE i = n
    <3> DEFINE name == calls[lab[L]]
    <3>1. lab2[n] = lab[L] /\ pos2[n] = Len(name) + 2 /\ all[lab[L]] = name
      <4>1. all[lab[L]] = name
        BY <1>0, <1>7
      <4> QED BY <1>4, <1>5, <4>1
    <3>2. Byte(name, Len(name) + 2) = END
      BY <1>4 DEF Byte
    <3>3. Len(name) + 2 \in 1..(Len(name) + 2)
      BY <1>4
    <3>4. all[lab2[n]] = name /\ t[n] = END
      BY <1>1, <3>1
    <3> HIDE DEF n, name
    <3> QED BY <2>2, <3>1, <3>2, <3>3, <3>4, Zenon
  <2> QED BY <1>5, <2>1, <2>2
<1>9. ASSUME NEW i \in 1..(n - 1)
      PROVE  \/ lab2[i + 1] = lab2[i] /\ pos2[i + 1] = pos2[i] + 1
             \/ lab2[i + 1] > lab2[i] /\ pos2[i + 1] = 1 /\ pos2[i] > Len(all[lab2[i]])
  <2>1. CASE i < L
    <3>1. i \in 1..L /\ i + 1 \in 1..L /\ i \in 1..(L - 1)
      BY <1>0, <2>1
    <3>2. /\ lab2[i] = lab[i] /\ pos2[i] = pos[i] /\ lab2[i + 1] = lab[i + 1] /\ pos2[i + 1] = pos[i + 1]
          /\ all[lab[i]] = calls[lab[i]]
      BY <1>5, <1>7, <3>1
    <3>3. \/ lab[i + 1] = lab[i] /\ pos[i + 1] = pos[i] + 1
          \/ lab[i + 1] > lab[i] /\ pos[i + 1] = 1 /\ pos[i] > Len(calls[lab[i]])
      BY <3>1 DEF Traced
    <3> QED BY <3>2, <3>3
  <2>2. CASE i = L
    BY <1>0, <1>5, <2>2
  <2> QED BY <1>0, <2>1, <2>2
<1>10. Traced(t, lab2, pos2, all)
  <2>1. Len(t) = n /\ Len(all) = C + 1
    BY <1>1, <1>2
  <2> HIDE DEF n
  <2> QED BY <1>6, <1>8, <1>9, <2>1 DEF Traced
<1> QED BY <1>10 DEF t, lab2, pos2, all

\* recv takes n bytes.
LEMMA TraceDrop ==
  ASSUME NEW s \in Seq(Bytes), NEW calls \in Seq(Names), NEW lab, NEW pos, Traced(s, lab, pos, calls),
         NEW n \in Nat, n <= Len(s)
  PROVE  Traced(SubSeq(s, n + 1, Len(s)), [i \in 1..(Len(s) - n) |-> lab[i + n]],
                [i \in 1..(Len(s) - n) |-> pos[i + n]], calls)
<1> DEFINE L == Len(s)
           m == L - n
           t == SubSeq(s, n + 1, L)
           lab2 == [i \in 1..m |-> lab[i + n]]
           pos2 == [i \in 1..m |-> pos[i + n]]
<1>0. L \in Nat /\ m \in Nat /\ \A i \in 1..m : i + n \in 1..L
  OBVIOUS
<1>1. t \in Seq(Bytes) /\ Len(t) = m /\ \A j \in 1..m : t[j] = s[j + n]
  <2>1. Len(s) \in Nat /\ Len(s) <= Len(s)
    BY <1>0
  <2>2. Len(t) = (IF n < Len(s) THEN Len(s) - n ELSE 0) /\ t \in Seq(Bytes)
        /\ \A j \in 1..(Len(s) - n) : t[j] = s[n + j]
    BY <2>1, Stretch
  <2>3. \A j \in 1..m : n + j = j + n
    BY <1>0
  <2> HIDE DEF t
  <2> QED BY <1>0, <2>2, <2>3
<1>2. \A i \in 1..L : /\ lab[i] \in 1..Len(calls) /\ pos[i] \in Nat
                      /\ pos[i] \in 1..(Len(calls[lab[i]]) + 2)
                      /\ s[i] = Byte(calls[lab[i]], pos[i])
  BY TracedAt, Zenon DEF Traced
<1>3. lab2 \in [1..m -> 1..Len(calls)] /\ pos2 \in [1..m -> Nat]
  BY <1>0, <1>2
<1>4. \A i \in 1..m : lab2[i] = lab[i + n] /\ pos2[i] = pos[i + n]
  OBVIOUS
<1> HIDE DEF t, lab2, pos2
<1>5. ASSUME NEW i \in 1..m
      PROVE  pos2[i] \in 1..(Len(calls[lab2[i]]) + 2) /\ t[i] = Byte(calls[lab2[i]], pos2[i])
  <2>1. /\ pos[i + n] \in 1..(Len(calls[lab[i + n]]) + 2)
        /\ s[i + n] = Byte(calls[lab[i + n]], pos[i + n])
    BY <1>0, <1>2
  <2>2. t[i] = s[i + n] /\ lab2[i] = lab[i + n] /\ pos2[i] = pos[i + n]
    BY <1>1, <1>4
  <2> HIDE DEF m
  <2> QED BY <2>1, <2>2, Zenon
<1>6. ASSUME NEW i \in 1..(m - 1)
      PROVE  \/ lab2[i + 1] = lab2[i] /\ pos2[i + 1] = pos2[i] + 1
             \/ lab2[i + 1] > lab2[i] /\ pos2[i + 1] = 1 /\ pos2[i] > Len(calls[lab2[i]])
  <2> DEFINE j == i + n
  <2>1. i \in 1..m /\ i + 1 \in 1..m /\ j \in 1..(L - 1) /\ (i + 1) + n = j + 1
    BY <1>0
  <2>2. lab2[i] = lab[j] /\ pos2[i] = pos[j] /\ lab2[i + 1] = lab[j + 1] /\ pos2[i + 1] = pos[j + 1]
    <3>1. lab2[i + 1] = lab[(i + 1) + n] /\ pos2[i + 1] = pos[(i + 1) + n]
      BY <1>4, <2>1
    <3> QED BY <1>4, <2>1, <3>1
  <2> HIDE DEF j
  <2>3. \/ lab[j + 1] = lab[j] /\ pos[j + 1] = pos[j] + 1
        \/ lab[j + 1] > lab[j] /\ pos[j + 1] = 1 /\ pos[j] > Len(calls[lab[j]])
    BY <2>1 DEF Traced
  <2> QED BY <2>2, <2>3
<1>7. Traced(t, lab2, pos2, calls)
  <2> HIDE DEF m
  <2> QED BY <1>1, <1>3, <1>5, <1>6 DEF Traced
<1> QED BY <1>7 DEF t, lab2, pos2

\* A set of numbers has a least.
LEMMA Least ==
  ASSUME NEW S \in SUBSET Nat, NEW e \in S
  PROVE  Earliest(S) \in S /\ Earliest(S) <= e
<1> DEFINE T == {n \in Nat : (\E m \in S : m <= n) => \E x \in S : \A y \in S : x <= y}
<1>1. 0 \in T
  <2>1. ASSUME NEW m \in S, m <= 0 PROVE \A y \in S : m <= y
    <3> TAKE y \in S
    <3>1. m \in Nat /\ y \in Nat
      OBVIOUS
    <3> QED BY <2>1, <3>1
  <2> QED BY <2>1
<1>2. ASSUME NEW n \in Nat, n \in T PROVE n + 1 \in T
  <2> SUFFICES ASSUME NEW m \in S, m <= n + 1 PROVE \E x \in S : \A y \in S : x <= y
    OBVIOUS
  <2>1. CASE \E k \in S : k <= n
    BY <1>2, <2>1
  <2>2. CASE ~\E k \in S : k <= n
    <3>1. ASSUME NEW y \in S PROVE m <= y
      <4>1. m \in Nat /\ y \in Nat /\ ~(y <= n)
        BY <2>2
      <4> QED BY <4>1
    <3> QED BY <3>1
  <2> QED BY <2>1, <2>2
<1> HIDE DEF T
<1>3. Nat \subseteq T
  BY <1>1, <1>2, Induction
<1>4. e \in Nat /\ e <= e
  OBVIOUS
<1>5. \E x \in S : \A y \in S : x <= y
  <2>1. e \in T
    BY <1>3, <1>4
  <2> QED BY <1>4, <2>1 DEF T
<1>6. Earliest(S) \in S /\ \A y \in S : Earliest(S) <= y
  BY <1>5, Zenon DEF Earliest
<1> QED BY <1>6

\* Token k comes from the call own[k], and the tokens from calls in order.
Owned(own, toks, calls) ==
  /\ own \in [1..Len(toks) -> 1..Len(calls)]
  /\ \A i, j \in 1..Len(toks) : i <= j => own[i] <= own[j]
  /\ \A k \in 1..Len(toks) : Bare(toks[k]) # <<>> => IsPartOf(Bare(toks[k]), calls[own[k]])

\* The search of NoSplicedCall, one token further.
Further(k, t) == IF Bare(t) = <<>> THEN k ELSE FirstFrom(k, Bare(t))

\* f is the search of NoSplicedCall over the first n tokens.
Searches(f, n) == f = [k \in 0..n |-> IF k = 0 THEN 1 ELSE Further(f[k - 1], tokens[k])]

\* Such a function exists.
LEMMA SomethingSearches ==
  ASSUME NEW n \in Nat
  PROVE  \E f : Searches(f, n)
<1> DEFINE T == {k \in Nat : \E f : Searches(f, k)}
<1>1. 0 \in T
  <2>1. Searches([k \in 0..0 |-> 1], 0)
    BY DEF Searches
  <2> QED BY <2>1
<1>2. ASSUME NEW k \in Nat, k \in T PROVE k + 1 \in T
  <2>1. PICK f : Searches(f, k)
    BY <1>2
  <2> DEFINE g == [i \in 0..(k + 1) |-> IF i <= k THEN f[i] ELSE Further(f[k], tokens[k + 1])]
  <2>2. \A i \in 0..(k + 1) : g[i] = IF i = 0 THEN 1 ELSE Further(g[i - 1], tokens[i])
    <3> TAKE i \in 0..(k + 1)
    <3>1. CASE i = 0
      BY <2>1, <3>1 DEF Searches
    <3>2. CASE i \in 1..k
      <4>1. i - 1 \in 0..k /\ i \in 0..k /\ g[i] = f[i] /\ g[i - 1] = f[i - 1]
        BY <3>2
      <4>2. f[i] = Further(f[i - 1], tokens[i])
        BY <2>1, <3>2, <4>1 DEF Searches
      <4> QED BY <3>2, <4>1, <4>2
    <3>3. CASE i = k + 1
      <4>1. i - 1 = k /\ g[i] = Further(f[k], tokens[i]) /\ g[k] = f[k]
        BY <3>3
      <4> QED BY <3>3, <4>1
    <3> QED BY <3>1, <3>2, <3>3
  <2>3. Searches(g, k + 1)
    <3>1. g = [i \in 0..(k + 1) |-> g[i]]
      OBVIOUS
    <3> HIDE DEF g
    <3> QED BY <2>2, <3>1, Zenon DEF Searches
  <2> QED BY <2>3
<1> HIDE DEF T
<1>3. Nat \subseteq T
  BY <1>1, <1>2, Induction
<1> QED BY <1>3 DEF T

\* The search never gets past a call that owns the token.
LEMMA FirstBefore ==
  ASSUME printed \in Seq(Names), NEW k \in Nat, NEW t, NEW e \in 1..Len(printed), k <= e, k >= 1,
         Bare(t) # <<>> => IsPartOf(Bare(t), printed[e])
  PROVE  Further(k, t) \in Nat /\ Further(k, t) >= 1 /\ Further(k, t) <= e
<1>0. Len(printed) \in Nat /\ e \in Nat
  OBVIOUS
<1>1. CASE Bare(t) = <<>>
  BY <1>0, <1>1 DEF Further
<1>2. CASE Bare(t) # <<>>
  <2> DEFINE found == {j \in k..Len(printed) : IsPartOf(Bare(t), printed[j])}
  <2>1. e \in found
    BY <1>0, <1>2
  <2>2. found \in SUBSET Nat /\ \A j \in found : j >= 1
    BY <1>0
  <2>3. Further(k, t) = Earliest(found)
    BY <1>2, <2>1 DEF Further, FirstFrom
  <2> HIDE DEF found
  <2>4. Earliest(found) \in found /\ Earliest(found) <= e
    BY <2>1, <2>2, Least
  <2> QED BY <2>2, <2>3, <2>4, Zenon
<1> QED BY <1>1, <1>2

\* Tokens with owners in the order of the calls pass the search of NoSplicedCall.
LEMMA OwnedNotSpliced ==
  ASSUME printed \in Seq(Names), tokens \in Seq(Seq(Bytes)), NEW own, Owned(own, tokens, printed)
  PROVE  NoSplicedCall
<1>0. Len(tokens) \in Nat /\ Len(printed) \in Nat
  OBVIOUS
<1> DEFINE first == CHOOSE f : f = [k \in 0..Len(tokens) |->
                      IF k = 0 THEN 1
                      ELSE IF Bare(tokens[k]) = <<>> THEN f[k - 1]
                      ELSE FirstFrom(f[k - 1], Bare(tokens[k]))]
<1>1. NoSplicedCall <=> (tokens # <<>> => first[Len(tokens)] <= Len(printed))
  BY DEF NoSplicedCall
<1>2. \A f : Searches(f, Len(tokens)) <=>
             f = [k \in 0..Len(tokens) |->
                      IF k = 0 THEN 1
                      ELSE IF Bare(tokens[k]) = <<>> THEN f[k - 1]
                      ELSE FirstFrom(f[k - 1], Bare(tokens[k]))]
  BY DEF Searches, Further
<1>3. Searches(first, Len(tokens))
  <2>1. PICK g : Searches(g, Len(tokens))
    BY <1>0, SomethingSearches
  <2> QED BY <1>2, <2>1, Zenon
<1> HIDE DEF first
<1>4. /\ \A k \in 1..Len(tokens) : own[k] \in 1..Len(printed)
      /\ \A i, j \in 1..Len(tokens) : i <= j => own[i] <= own[j]
      /\ \A k \in 1..Len(tokens) :
           Bare(tokens[k]) # <<>> => IsPartOf(Bare(tokens[k]), printed[own[k]])
  BY Zenon DEF Owned
<1> DEFINE Behind(k) == first[k] \in Nat /\ first[k] >= 1 /\ (k # 0 => first[k] <= own[k])
           T == {k \in Nat : k <= Len(tokens) => Behind(k)}
<1>5. 0 \in T
  <2>1. first[0] = 1
    BY <1>0, <1>3 DEF Searches
  <2> QED BY <2>1
<1>6. ASSUME NEW k \in Nat, k \in T PROVE k + 1 \in T
  <2> SUFFICES ASSUME k + 1 <= Len(tokens) PROVE Behind(k + 1)
    OBVIOUS
  <2>1. Behind(k)
    <3>1. k <= Len(tokens)
      BY <1>0
    <3> QED BY <1>6, <3>1
  <2> DEFINE h == k + 1
  <2>2. h \in 1..Len(tokens) /\ h \in 0..Len(tokens) /\ h # 0 /\ h - 1 = k
    BY <1>0
  <2>3. first[h] = Further(first[k], tokens[h])
    BY <1>3, <2>2 DEF Searches
  <2>4. first[k] <= own[h]
    <3>1. CASE k = 0
      <4>1. first[0] = 1
        BY <1>0, <1>3 DEF Searches
      <4>2. own[h] \in 1..Len(printed)
        BY <1>4, <2>2
      <4> QED BY <1>0, <3>1, <4>1, <4>2
    <3>2. CASE k # 0
      <4>1. k \in 1..Len(tokens) /\ k <= h
        BY <1>0, <3>2
      <4>2. own[k] <= own[h] /\ own[k] \in 1..Len(printed) /\ own[h] \in 1..Len(printed)
        BY <1>4, <2>2, <4>1
      <4> QED BY <1>0, <2>1, <3>2, <4>2, SMTT(40)
    <3> QED BY <3>1, <3>2
  <2> HIDE DEF h, T
  <2>5. /\ own[h] \in 1..Len(printed)
        /\ Bare(tokens[h]) # <<>> => IsPartOf(Bare(tokens[h]), printed[own[h]])
    BY <1>4, <2>2
  <2>6. /\ Further(first[k], tokens[h]) \in Nat /\ Further(first[k], tokens[h]) >= 1
        /\ Further(first[k], tokens[h]) <= own[h]
    BY <2>1, <2>4, <2>5, FirstBefore, SMTT(40)
  <2>7. Behind(h)
    BY <2>3, <2>6
  <2> QED BY <2>7 DEF h
<1> HIDE DEF T
<1>7. Nat \subseteq T
  BY <1>5, <1>6, Induction, Zenon
<1>8. ASSUME tokens # <<>> PROVE first[Len(tokens)] <= Len(printed)
  <2> DEFINE k == Len(tokens)
  <2>1. k \in 1..Len(tokens) /\ k # 0 /\ k <= Len(tokens)
    BY <1>0, <1>8, EmptySequence
  <2>2. Behind(k)
    BY <1>7, <2>1 DEF T
  <2>3. own[k] \in 1..Len(printed)
    BY <1>4, <2>1
  <2> HIDE DEF k
  <2>4. first[k] <= Len(printed)
    BY <1>0, <2>1, <2>2, <2>3
  <2> QED BY <2>4 DEF k
<1> QED BY <1>1, <1>8

\* r is what was written and not received, and what is in the buffer.  It comes
\* from calls, none of them before the owner of a token; it ends with a mark;
\* and as long as each recv took one frame it begins with a name.
Flow(r, lab, pos, own, toks, calls, open, wh) ==
  /\ Traced(r, lab, pos, calls)
  /\ \A k \in 1..Len(toks) : \A i \in 1..Len(r) : own[k] <= lab[i]
  /\ r # <<>> => r[Len(r)] = (IF open THEN SEPARATOR ELSE END)
  /\ wh /\ r # <<>> => pos[1] = 1

\* A call printed later takes nothing from the owners.
LEMMA OwnedGrows ==
  ASSUME NEW toks \in Seq(Seq(Bytes)), NEW calls \in Seq(Names), NEW own, Owned(own, toks, calls),
         NEW x \in Names
  PROVE  Owned(own, toks, Append(calls, x))
<1> DEFINE all == Append(calls, x)
<1>0. Len(toks) \in Nat /\ Len(calls) \in Nat
  OBVIOUS
<1>1. Len(all) = Len(calls) + 1 /\ \A j \in 1..Len(calls) : all[j] = calls[j]
  OBVIOUS
<1> HIDE DEF all
<1>2. own \in [1..Len(toks) -> 1..Len(all)]
  <2>1. 1..Len(calls) \subseteq 1..Len(all)
    BY <1>0, <1>1
  <2> QED BY <2>1 DEF Owned
<1>3. ASSUME NEW k \in 1..Len(toks), Bare(toks[k]) # <<>> PROVE IsPartOf(Bare(toks[k]), all[own[k]])
  <2>1. own[k] \in 1..Len(calls) /\ IsPartOf(Bare(toks[k]), calls[own[k]])
    BY <1>3, SMTT(40) DEF Owned
  <2>2. all[own[k]] = calls[own[k]]
    BY <1>1, <2>1
  <2> QED BY <2>1, <2>2, Zenon
<1>4. Owned(own, toks, all)
  BY <1>2, <1>3 DEF Owned
<1> QED BY <1>4 DEF all

\* append_syscall adds a name and its separator.
LEMMA FlowName ==
  ASSUME NEW r \in Seq(Bytes), NEW calls \in Seq(Names), NEW toks \in Seq(Seq(Bytes)), NEW own,
         Owned(own, toks, calls), NEW lab, NEW pos, NEW open, NEW wh,
         Flow(r, lab, pos, own, toks, calls, open, wh), NEW x \in Names
  PROVE  \E lab2, pos2 : Flow(r \o x \o <<SEPARATOR>>, lab2, pos2, own, toks, Append(calls, x), TRUE, wh)
<1> DEFINE L == Len(r)
           n == L + Len(x) + 1
           lab2 == [i \in 1..n |-> IF i <= Len(r) THEN lab[i] ELSE Len(calls) + 1]
           pos2 == [i \in 1..n |-> IF i <= Len(r) THEN pos[i] ELSE i - Len(r)]
           t == r \o x \o <<SEPARATOR>>
           all == Append(calls, x)
<1>0. L \in Nat /\ Len(toks) \in Nat /\ Len(calls) \in Nat /\ x \in Seq(Bytes) /\ Len(x) \in Nat \ {0}
  BY NameType
<1>1. Len(t) = n /\ t[n] = SEPARATOR /\ n \in Nat /\ n >= 1
  <2>1. SEPARATOR \in Bytes
    BY Marks
  <2> HIDE DEF SEPARATOR
  <2> QED BY <1>0, <2>1
<1>2. Traced(t, lab2, pos2, all)
  <2>1. r = <<>> \/ Marked(r)
    BY DEF Flow, Marked
  <2>2. Traced(r, lab, pos, calls)
    BY DEF Flow
  <2> QED BY <2>1, <2>2, TraceName, Zenon
<1>3. ASSUME NEW k \in 1..Len(toks), NEW i \in 1..n PROVE own[k] <= lab2[i]
  <2>1. own[k] \in 1..Len(calls)
    BY Zenon DEF Owned
  <2>2. CASE i <= L
    <3>1. i \in 1..Len(r)
      BY <1>0, <2>2
    <3>2. own[k] <= lab[i]
      BY <3>1 DEF Flow
    <3> QED BY <2>2, <3>2
  <2>3. CASE ~(i <= L)
    <3>1. lab2[i] = Len(calls) + 1
      BY <2>3
    <3> QED BY <1>0, <2>1, <3>1
  <2> QED BY <2>2, <2>3
<1>4. wh => pos2[1] = 1
  <2>1. 1 \in 1..n
    BY <1>1
  <2>2. CASE L = 0
    <3>1. ~(1 <= L) /\ 1 - L = 1
      BY <2>2
    <3> QED BY <2>1, <3>1
  <2>3. CASE L # 0
    <3>1. 1 <= L /\ r # <<>>
      BY <1>0, <2>3, EmptySequence
    <3>2. wh => pos[1] = 1
      BY <3>1 DEF Flow
    <3> QED BY <2>1, <3>1, <3>2
  <2> QED BY <2>2, <2>3
<1> HIDE DEF t, lab2, pos2, all, n
<1>5. Flow(t, lab2, pos2, own, toks, all, TRUE, wh)
  BY <1>1, <1>2, <1>3, <1>4 DEF Flow
<1> QED BY <1>5, Zenon DEF t, all

\* append_syscall closes the frame with an END; the call that found it full goes nowhere.
LEMMA FlowEnd ==
  ASSUME NEW r \in Seq(Bytes), NEW calls \in Seq(Names), NEW toks \in Seq(Seq(Bytes)), NEW own,
         Owned(own, toks, calls), NEW lab, NEW pos, NEW wh, r # <<>>,
         Flow(r, lab, pos, own, toks, calls, TRUE, wh), NEW x \in Names
  PROVE  \E lab2, pos2 : Flow(r \o <<END>>, lab2, pos2, own, toks, Append(calls, x), FALSE, wh)
<1> DEFINE L == Len(r)
           n == L + 1
           lab2 == [i \in 1..n |-> IF i <= Len(r) THEN lab[i] ELSE lab[Len(r)]]
           pos2 == [i \in 1..n |-> IF i <= Len(r) THEN pos[i] ELSE pos[Len(r)] + 1]
           t == r \o <<END>>
           all == Append(calls, x)
<1>0. L \in Nat /\ Len(toks) \in Nat /\ L # 0 /\ L \in 1..Len(r)
  BY EmptySequence
<1>1. Len(t) = n /\ t[n] = END /\ n \in Nat /\ n >= 1
  <2>1. END \in Bytes
    BY Marks
  <2> HIDE DEF END
  <2> QED BY <1>0, <2>1
<1>2. Traced(t, lab2, pos2, all)
  <2>1. Traced(r, lab, pos, calls) /\ r[Len(r)] = SEPARATOR
    BY DEF Flow
  <2> QED BY <2>1, TraceEnd, Zenon
<1>3. ASSUME NEW k \in 1..Len(toks), NEW i \in 1..n PROVE own[k] <= lab2[i]
  <2>1. \A j \in 1..Len(r) : own[k] <= lab[j]
    BY DEF Flow
  <2>2. CASE i <= L
    <3>1. i \in 1..Len(r)
      BY <1>0, <2>2
    <3> QED BY <2>1, <2>2, <3>1
  <2>3. CASE ~(i <= L)
    BY <1>0, <2>1, <2>3
  <2> QED BY <2>2, <2>3
<1>4. wh => pos2[1] = 1
  <2>1. 1 \in 1..n /\ 1 <= L
    BY <1>0, <1>1
  <2>2. wh => pos[1] = 1
    BY DEF Flow
  <2> QED BY <2>1, <2>2
<1> HIDE DEF t, lab2, pos2, all, n
<1>5. Flow(t, lab2, pos2, own, toks, all, FALSE, wh)
  BY <1>1, <1>2, <1>3, <1>4 DEF Flow
<1> QED BY <1>5, Zenon DEF t, all
=============================================================================
