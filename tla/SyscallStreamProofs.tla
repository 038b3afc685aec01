------------------------ MODULE SyscallStreamProofs -------------------------
(***************************************************************************)
(* For any table of names and any window size that fits MAX_BUFSIZE: the   *)
(* client's buffer never overflows, and the tokens of the server are the   *)
(* calls the tracer printed.                                               *)
(*                                                                         *)
(* The second follows the labels of SyscallTraceProofs through write, recv *)
(* and the split into names.                                               *)
(***************************************************************************)
EXTENDS SyscallTraceProofs

(***************************************************************************)
(* Packed: the buffer holds frame_index names of at most MaxName           *)
(* characters, each with its separator.  Only the relation between the     *)
(* two variables makes the bound inductive.                                *)
(***************************************************************************)
Packed ==
  /\ buffer \in Seq(Bytes)
  /\ frame_index \in 0..window_size
  /\ Len(buffer) <= frame_index * (MaxName + 1)

\* A name takes its characters and one separator.
LEMMA Extend ==
  ASSUME NEW b \in Seq(Bytes), NEW i \in DOMAIN SysIndex
  PROVE  /\ b \o SysIndex[i] \o <<SEPARATOR>> \in Seq(Bytes)
         /\ Len(b \o SysIndex[i] \o <<SEPARATOR>>) <= Len(b) + MaxName + 1
<1>1. SysIndex[i] \in Seq(Bytes) /\ Len(SysIndex[i]) <= MaxName
  <2>1. SysIndex[i] \in Seq(Chars)
    BY TableAssumption
  <2> QED BY <2>1, TableAssumption DEF Bytes
<1>2. <<SEPARATOR>> \in Seq(Bytes) /\ Len(<<SEPARATOR>>) = 1
  BY DEF Bytes
<1> HIDE DEF SEPARATOR
<1>3. b \o SysIndex[i] \in Seq(Bytes) /\ Len(b \o SysIndex[i]) = Len(b) + Len(SysIndex[i])
  BY <1>1
<1> QED BY <1>1, <1>2, <1>3, SizeAssumption

\* The bound is inductive: append_syscall adds one name and one to frame_index,
\* or starts an empty frame.
LEMMA PackedStep == Packed /\ [Next]_vars => Packed'
<1> SUFFICES ASSUME Packed, [Next]_vars PROVE Packed'
  OBVIOUS
<1>1. ASSUME NEW i \in DOMAIN SysIndex, append_syscall(SysIndex[i]) PROVE Packed'
  <2>1. CASE frame_index = window_size
    BY <1>1, <2>1, SizeAssumption DEF append_syscall, Packed
  <2>2. CASE frame_index # window_size
    <3>1. buffer' = buffer \o SysIndex[i] \o <<SEPARATOR>> /\ frame_index' = frame_index + 1
      BY <1>1, <2>2 DEF append_syscall
    <3>2. frame_index' \in 0..window_size
      BY <2>2, <3>1, SizeAssumption DEF Packed
    <3>3. frame_index' * (MaxName + 1) = frame_index * (MaxName + 1) + MaxName + 1
      BY <3>1, SizeAssumption DEF Packed
    <3>4. buffer' \in Seq(Bytes) /\ Len(buffer') <= Len(buffer) + MaxName + 1
      BY <3>1, Extend DEF Packed
    <3>5. Len(buffer) \in Nat /\ Len(buffer') \in Nat /\ frame_index * (MaxName + 1) \in Nat
      BY <3>4, SizeAssumption DEF Packed
    <3> DEFINE p == frame_index * (MaxName + 1)
               q == frame_index' * (MaxName + 1)
    <3>6. Len(buffer) <= p /\ p \in Nat /\ q = p + MaxName + 1 /\ MaxName \in Nat
      BY <3>3, <3>5, SizeAssumption DEF Packed
    <3>7. Len(buffer') <= q
      <4> HIDE DEF p, q
      <4> QED BY <3>4, <3>5, <3>6
    <3> QED BY <3>2, <3>4, <3>7 DEF Packed
  <2> QED BY <2>1, <2>2
<1>2. CASE UNCHANGED <<buffer, frame_index>>
  BY <1>2 DEF Packed
<1>3. ASSUME NEW rax \in Rax, process_syscall(rax) PROVE Packed'
  BY <1>1, <1>2, <1>3 DEF process_syscall
<1> QED BY <1>2, <1>3 DEF Next, Close, threaded_client, ServerStops, vars, tracerVars

\* append_syscall never runs past MAX_BUFSIZE, whatever calls the guest makes and
\* whatever the server does with the frames: the two strcat and the terminating
\* zero stay inside buffer.
THEOREM NoOverflow == Spec => []BufferFits
<1>1. Init => Packed
  BY SizeAssumption DEF Init, Packed
<1>2. Packed => BufferFits
  <2> SUFFICES ASSUME Packed PROVE BufferFits
    OBVIOUS
  <2>1. frame_index * (MaxName + 1) <= window_size * (MaxName + 1)
    BY SizeAssumption DEF Packed
  <2>2. Len(buffer) \in Nat /\ frame_index * (MaxName + 1) \in Nat /\ Len(<<END>>) = 1
    BY SizeAssumption DEF Packed
  <2> QED BY <2>1, <2>2, SizeAssumption DEF Packed, BufferFits
<1> QED BY <1>1, <1>2, PackedStep, PTL DEF Spec

-----------------------------------------------------------------------------
(* The tokens of the server. *)

\* chunks[:-2] of n bytes, for n = 1 too.
LEMMA Cut ==
  ASSUME NEW r \in Seq(Bytes), NEW n \in 1..Len(r)
  PROVE  \E m \in Nat : /\ m < n /\ (n > 1 => m = n - 2)
                        /\ SubSeq(r, 1, n - 2) \in Seq(Bytes) /\ Len(SubSeq(r, 1, n - 2)) = m
                        /\ \A j \in 1..m : SubSeq(r, 1, n - 2)[j] = r[j]
<1>0. Len(r) \in Nat
  OBVIOUS
<1>1. CASE n = 1
  <2>1. 1 > n - 2
    BY <1>1
  <2>2. SubSeq(r, 1, n - 2) = <<>>
    BY <2>1, EmptyPart
  <2>3. <<>> \in Seq(Bytes) /\ Len(<<>>) = 0 /\ 0 < n /\ ~(n > 1) /\ 1..0 = {}
    BY <1>1
  <2> QED BY <2>2, <2>3
<1>2. CASE n # 1
  <2> DEFINE m == n - 2
  <2>1. m \in Nat /\ m <= Len(r) /\ m < n
    BY <1>0, <1>2
  <2> HIDE DEF m
  <2>2. /\ SubSeq(r, 0 + 1, m) \in Seq(Bytes) /\ Len(SubSeq(r, 0 + 1, m)) = (IF 0 < m THEN m - 0 ELSE 0)
        /\ \A j \in 1..(m - 0) : SubSeq(r, 0 + 1, m)[j] = r[0 + j]
    BY <2>1, Stretch
  <2>3. /\ SubSeq(r, 1, m) \in Seq(Bytes) /\ Len(SubSeq(r, 1, m)) = m
        /\ \A j \in 1..m : SubSeq(r, 1, m)[j] = r[j]
    BY <2>1, <2>2
  <2>4. m = n - 2
    BY DEF m
  <2> QED BY <2>1, <2>3, <2>4
<1> QED BY <1>1, <1>2

\* Between two neighbouring separators there is none.
LEMMA NoneBetween ==
  ASSUME NEW s \in Seq(Bytes), NEW N, NEW sep, Seps(s, N, sep), NEW k \in 1..N,
         NEW q \in (sep[k - 1] + 1)..(sep[k] - 1)
  PROVE  q \in 1..Len(s) /\ s[q] # SEPARATOR
<1>1. /\ sep[k - 1] \in Nat /\ sep[k] \in Nat /\ sep[k] - 1 <= Len(s)
  BY SepBounds
<1>2. q \in 1..Len(s) /\ sep[k - 1] < q /\ q < sep[k]
  BY <1>1
<1>3. /\ N \in Nat /\ k \in 0..N /\ k - 1 \in 0..N /\ \A i \in 0..N : sep[i] \in Nat
      /\ \A i, j \in 0..N : i < j => sep[i] < sep[j]
  BY DEF Seps
<1>4. ASSUME NEW i \in 1..(N - 1), q = sep[i] PROVE FALSE
  <2>1. i \in 0..N /\ (i < k - 1 \/ i = k - 1 \/ i = k \/ k < i)
    BY <1>3
  <2>2. (i < k - 1 => sep[i] < sep[k - 1]) /\ (k < i => sep[k] < sep[i])
    BY <1>3, <2>1
  <2> QED BY <1>1, <1>2, <1>4, <2>1, <2>2
<1> QED BY <1>2, <1>4 DEF Seps

\* st gives each piece of s a byte of it, or the separator after it, whose call it is part of.
Starts(st, s, N, sep, lab, calls) ==
  \A k \in 1..N :
    /\ st[k] \in (sep[k - 1] + 1)..sep[k]
    /\ Bare(Split(s)[k]) # <<>> => IsPartOf(Bare(Split(s)[k]), calls[lab[st[k]]])

\* The pieces of what a recv returned have owners, in order.
LEMMA PiecesOwned ==
  ASSUME NEW r \in Seq(Bytes), NEW calls \in Seq(Names), NEW lab, NEW pos, Traced(r, lab, pos, calls),
         NEW s \in Seq(Bytes), Len(s) < Len(r), \A j \in 1..Len(s) : r[j] = s[j],
         NEW N, NEW sep, Seps(s, N, sep)
  PROVE  \E st : Starts(st, s, N, sep, lab, calls)
<1>0. Len(r) \in Nat /\ Len(s) \in Nat
  OBVIOUS
<1> DEFINE Of(k, z) == Bare(Split(s)[k]) # <<>> => IsPartOf(Bare(Split(s)[k]), calls[lab[z]])
           st == [k \in 1..N |-> CHOOSE z \in (sep[k - 1] + 1)..sep[k] : Of(k, z)]
<1>1. ASSUME NEW k \in 1..N PROVE \E z \in (sep[k - 1] + 1)..sep[k] : Of(k, z)
  <2> DEFINE a == sep[k - 1]
             b == sep[k] - 1
  <2>1. a \in Nat /\ b \in Nat /\ a <= b /\ b <= Len(s) /\ b + 1 = sep[k]
    BY SepBounds
  <2>2. \A q \in (a + 1)..b : q \in 1..Len(s) /\ s[q] # SEPARATOR
    BY NoneBetween
  <2>3. Split(s)[k] = SubSeq(s, a + 1, b)
    BY PieceAt
  <2>5. (sep[k - 1] + 1)..sep[k] = (a + 1)..(b + 1)
    BY <2>1
  <2> HIDE DEF a, b
  <2>4. SubSeq(s, a + 1, b) = SubSeq(r, a + 1, b)
    <3>1. Len(s) <= Len(r)
      BY <1>0
    <3> QED BY <2>1, <3>1, StretchOfPrefix
  <2>6. b < Len(r) /\ \A q \in (a + 1)..b : r[q] # SEPARATOR
    <3>1. b < Len(r)
      BY <1>0, <2>1
    <3>2. \A q \in (a + 1)..b : r[q] # SEPARATOR
      BY <2>2, Zenon
    <3> QED BY <3>1, <3>2
  <2>7. \E z \in (a + 1)..(b + 1) :
           Bare(SubSeq(r, a + 1, b)) # <<>> => IsPartOf(Bare(SubSeq(r, a + 1, b)), calls[lab[z]])
    BY <2>1, <2>6, PieceOwned, Zenon
  <2>8. Split(s)[k] = SubSeq(r, a + 1, b)
    BY <2>3, <2>4, Zenon
  <2>9. \E z \in (a + 1)..(b + 1) : Of(k, z)
    BY <2>7, <2>8, Zenon
  <2> QED BY <2>5, <2>9, Zenon
<1> HIDE DEF Of
<1>2. \A k \in 1..N : st[k] \in (sep[k - 1] + 1)..sep[k] /\ Of(k, st[k])
  <2> TAKE k \in 1..N
  <2>1. st[k] = CHOOSE z \in (sep[k - 1] + 1)..sep[k] : Of(k, z)
    OBVIOUS
  <2> HIDE DEF st
  <2> QED BY <1>1, <2>1, Zenon
<1> HIDE DEF st
<1> QED BY <1>2, Zenon DEF Of, Starts

\* The tokens of a recv of n bytes get owners no later than the bytes that remain.
LEMMA OwnedTake ==
  ASSUME NEW r \in Seq(Bytes), NEW calls \in Seq(Names), NEW toks \in Seq(Seq(Bytes)), NEW own,
         Owned(own, toks, calls), NEW lab, NEW pos, NEW open, NEW wh,
         Flow(r, lab, pos, own, toks, calls, open, wh), NEW n \in 1..Len(r)
  PROVE  \E own2 :
           /\ Owned(own2, toks \o Split(SubSeq(r, 1, n - 2)), calls)
           /\ \A k \in 1..Len(toks \o Split(SubSeq(r, 1, n - 2))) :
                \A i \in 1..Len(r) : i >= n => own2[k] <= lab[i]
<1> DEFINE s == SubSeq(r, 1, n - 2)
           T == Len(toks)
<1>0. Len(r) \in Nat /\ T \in Nat /\ Len(calls) \in Nat /\ n \in Nat
  OBVIOUS
<1>1. PICK m \in Nat : m < n /\ s \in Seq(Bytes) /\ Len(s) = m /\ \A j \in 1..m : s[j] = r[j]
  BY Cut, Zenon
<1> HIDE DEF s
<1>2. PICK N, sep : Seps(s, N, sep)
  BY <1>1, HasSeps
<1>3. Traced(r, lab, pos, calls)
  BY DEF Flow
<1>4. PICK st : Starts(st, s, N, sep, lab, calls)
  <2>1. Len(s) < Len(r) /\ \A j \in 1..Len(s) : r[j] = s[j]
    BY <1>0, <1>1
  <2> QED BY <1>1, <1>2, <1>3, <2>1, PiecesOwned, Zenon
<1>5. /\ N \in Nat \ {0} /\ \A i \in 0..N : sep[i] \in Nat
      /\ \A i, j \in 0..N : i < j => sep[i] < sep[j]
      /\ sep[N] = m + 1
  BY <1>1, <1>2 DEF Seps
<1> DEFINE U == Split(s)
           V == toks \o U
           own2 == [k \in 1..(T + N) |-> IF k <= T THEN own[k] ELSE lab[st[k - T]]]
<1>6. U \in Seq(Seq(Bytes)) /\ Len(U) = N
  BY <1>1, <1>2, PieceIs
<1> HIDE DEF U
<1>7. /\ Len(V) = T + N
      /\ \A i \in 1..T : V[i] = toks[i]
      /\ \A i \in 1..N : V[T + i] = U[i]
  <2> DEFINE S == Seq(Bytes)
  <2>1. toks \in Seq(S) /\ U \in Seq(S)
    BY <1>6
  <2> HIDE DEF S
  <2>2. /\ Len(toks \o U) = Len(toks) + Len(U)
        /\ \A i \in 1..(Len(toks) + Len(U)) :
             (toks \o U)[i] = IF i <= Len(toks) THEN toks[i] ELSE U[i - Len(toks)]
    BY <2>1, Concatenation, Zenon
  <2>3. \A i \in 1..N : T + i \in 1..(T + N) /\ ~(T + i <= T) /\ (T + i) - T = i
    BY <1>0, <1>5
  <2>4. \A i \in 1..T : i \in 1..(T + N) /\ i <= T
    BY <1>0, <1>5
  <2> QED BY <1>6, <2>2, <2>3, <2>4
<1> HIDE DEF V
<1>8. \A k \in 1..N : st[k] \in 1..n /\ st[k] \in 1..Len(r) /\ st[k] <= sep[k] /\ sep[k - 1] < st[k]
  <2> TAKE k \in 1..N
  <2>1. st[k] \in (sep[k - 1] + 1)..sep[k]
    BY <1>4 DEF Starts
  <2>2. k \in 0..N /\ k - 1 \in 0..N /\ N \in 0..N /\ (k = N \/ k < N)
    BY <1>5
  <2>3. sep[k] <= m + 1 /\ sep[k] \in Nat /\ sep[k - 1] \in Nat
    BY <1>5, <2>2
  <2> QED BY <1>0, <1>1, <2>1, <2>3, SMTT(40)
<1>9. \A i, j \in 1..Len(r) : i <= j => lab[i] <= lab[j]
  BY <1>3, Ordered
<1>10. \A i \in 1..Len(r) : lab[i] \in 1..Len(calls)
  BY <1>3, Zenon DEF Traced
<1>11. \A k \in 1..T : own[k] \in 1..Len(calls) /\ \A i \in 1..Len(r) : own[k] <= lab[i]
  BY Zenon DEF Owned, Flow
<1>12. /\ \A k \in 1..T : k \in 1..(T + N) /\ own2[k] = own[k]
       /\ \A k \in 1..N : T + k \in 1..(T + N) /\ own2[T + k] = lab[st[k]]
  <2>1. \A k \in 1..T : k \in 1..(T + N) /\ k <= T
    BY <1>0, <1>5
  <2>2. \A k \in 1..N : T + k \in 1..(T + N) /\ ~(T + k <= T) /\ (T + k) - T = k
    BY <1>0, <1>5
  <2> QED BY <2>1, <2>2, Zenon
<1>13. \A k \in 1..(T + N) : k \in 1..T \/ (k - T \in 1..N /\ k = T + (k - T))
  BY <1>0, <1>5
<1>14. own2 \in [1..(T + N) -> 1..Len(calls)]
  <2>1. \A k \in 1..(T + N) : (IF k <= T THEN own[k] ELSE lab[st[k - T]]) \in 1..Len(calls)
    <3> TAKE k \in 1..(T + N)
    <3>1. CASE k <= T
      <4>1. k \in 1..T
        BY <1>0, <3>1
      <4> QED BY <1>11, <3>1, <4>1
    <3>2. CASE ~(k <= T)
      <4>1. k - T \in 1..N
        BY <1>0, <1>5, <3>2
      <4> QED BY <1>8, <1>10, <3>2, <4>1
    <3> QED BY <3>1, <3>2
  <2> QED BY <2>1
<1> HIDE DEF own2
<1>15. ASSUME NEW i \in 1..(T + N), NEW j \in 1..(T + N), i <= j PROVE own2[i] <= own2[j]
  <2>1. CASE j \in 1..T
    <3>1. i \in 1..T
      BY <1>0, <1>15, <2>1
    <3>2. own[i] <= own[j]
      BY <1>15, <2>1, <3>1 DEF Owned
    <3> QED BY <1>12, <2>1, <3>1, <3>2
  <2>2. CASE i \in 1..T /\ j \notin 1..T
    <3>1. j - T \in 1..N /\ j = T + (j - T)
      BY <1>13, <2>2
    <3>2. own2[j] = lab[st[j - T]] /\ st[j - T] \in 1..Len(r)
      BY <1>8, <1>12, <3>1, Zenon
    <3> QED BY <1>11, <1>12, <2>2, <3>2
  <2>3. CASE i \notin 1..T
    <3> DEFINE p == i - T
               q == j - T
    <3>1. p \in 1..N /\ q \in 1..N /\ i = T + p /\ j = T + q /\ p <= q
      BY <1>0, <1>5, <1>15, <2>3
    <3> HIDE DEF p, q
    <3>2. own2[i] = lab[st[p]] /\ own2[j] = lab[st[q]]
      BY <1>12, <3>1, Zenon
    <3>3. st[p] \in 1..Len(r) /\ st[q] \in 1..Len(r) /\ st[p] <= sep[p] /\ sep[q - 1] < st[q]
      BY <1>8, <3>1, SMTT(40)
    <3>4. CASE p = q
      BY <1>9, <3>2, <3>3, <3>4, <1>0
    <3>5. CASE p < q
      <4>1. p \in 0..N /\ q - 1 \in 0..N /\ (p = q - 1 \/ p < q - 1)
        BY <1>5, <3>1, <3>5
      <4>2. sep[p] \in Nat /\ sep[q - 1] \in Nat /\ sep[p] <= sep[q - 1]
        BY <1>5, <4>1, SMTT(40)
      <4>3. st[p] <= st[q]
        BY <1>0, <3>3, <4>2
      <4> QED BY <1>9, <3>2, <3>3, <4>3
    <3> QED BY <1>5, <3>1, <3>4, <3>5
  <2> QED BY <2>1, <2>2, <2>3
<1>16. ASSUME NEW k \in 1..(T + N), Bare(V[k]) # <<>> PROVE IsPartOf(Bare(V[k]), calls[own2[k]])
  <2>1. CASE k \in 1..T
    <3>1. V[k] = toks[k] /\ own2[k] = own[k]
      BY <1>7, <1>12, <2>1
    <3>2. Bare(toks[k]) # <<>> => IsPartOf(Bare(toks[k]), calls[own[k]])
      BY <2>1 DEF Owned
    <3> QED BY <1>16, <3>1, <3>2, Zenon
  <2>2. CASE k \notin 1..T
    <3> DEFINE p == k - T
    <3>1. p \in 1..N /\ k = T + p
      BY <1>13, <2>2
    <3> HIDE DEF p
    <3>2. V[k] = U[p] /\ own2[k] = lab[st[p]]
      BY <1>7, <1>12, <3>1
    <3>3. Bare(U[p]) # <<>> => IsPartOf(Bare(U[p]), calls[lab[st[p]]])
      BY <1>4, <3>1, Zenon DEF U, Starts
    <3> QED BY <1>16, <3>2, <3>3, Zenon
  <2> QED BY <2>1, <2>2, Zenon
<1>17. Owned(own2, V, calls)
  BY <1>7, <1>14, <1>15, <1>16, Zenon DEF Owned
<1>18. ASSUME NEW k \in 1..(T + N), NEW i \in 1..Len(r), i >= n PROVE own2[k] <= lab[i]
  <2>1. CASE k \in 1..T
    BY <1>11, <1>12, <2>1
  <2>2. CASE k \notin 1..T
    <3> DEFINE p == k - T
    <3>1. p \in 1..N /\ k = T + p
      BY <1>13, <2>2
    <3> HIDE DEF p
    <3>2. own2[k] = lab[st[p]] /\ st[p] \in 1..n /\ st[p] \in 1..Len(r)
      BY <1>8, <1>12, <3>1
    <3>3. st[p] <= i
      BY <1>0, <1>18, <3>2
    <3> QED BY <1>9, <3>2, <3>3
  <2> QED BY <2>1, <2>2
<1> QED BY <1>7, <1>17, <1>18, Zenon DEF V, U, s

\* A recv of n bytes: the tokens get owners, and what is left is as before.
LEMMA FlowTake ==
  ASSUME NEW r \in Seq(Bytes), NEW calls \in Seq(Names), NEW toks \in Seq(Seq(Bytes)), NEW own,
         Owned(own, toks, calls), NEW lab, NEW pos, NEW open, NEW wh,
         Flow(r, lab, pos, own, toks, calls, open, wh), NEW n \in 1..Len(r),
         NEW wh2, wh2 => r[n] = END
  PROVE  \E own2, lab2, pos2 :
           /\ Owned(own2, toks \o Split(SubSeq(r, 1, n - 2)), calls)
           /\ Flow(SubSeq(r, n + 1, Len(r)), lab2, pos2, own2,
                   toks \o Split(SubSeq(r, 1, n - 2)), calls, open, wh2)
<1> DEFINE V == toks \o Split(SubSeq(r, 1, n - 2))
           L == Len(r)
           r2 == SubSeq(r, n + 1, L)
           lab2 == [i \in 1..(L - n) |-> lab[i + n]]
           pos2 == [i \in 1..(L - n) |-> pos[i + n]]
<1>0. L \in Nat /\ n \in Nat /\ n <= L /\ L - n \in Nat
  OBVIOUS
<1>1. PICK own2 : /\ Owned(own2, V, calls)
                  /\ \A k \in 1..Len(V) : \A i \in 1..L : i >= n => own2[k] <= lab[i]
  BY OwnedTake, Zenon
<1> HIDE DEF V
<1>2. Traced(r, lab, pos, calls) /\ (r # <<>> => r[L] = (IF open THEN SEPARATOR ELSE END))
  BY DEF Flow
<1>3. Traced(r2, lab2, pos2, calls)
  BY <1>0, <1>2, TraceDrop, Zenon
<1>4. Len(r2) = L - n /\ \A j \in 1..(L - n) : r2[j] = r[n + j] /\ n + j = j + n /\ n + j \in 1..L /\ n + j >= n
  <2>1. /\ Len(SubSeq(r, n + 1, L)) = (IF n < L THEN L - n ELSE 0)
        /\ \A j \in 1..(L - n) : SubSeq(r, n + 1, L)[j] = r[n + j]
    <3>1. \A b \in Nat : b <= Len(r) =>
            /\ Len(SubSeq(r, n + 1, b)) = (IF n < b THEN b - n ELSE 0)
            /\ \A j \in 1..(b - n) : SubSeq(r, n + 1, b)[j] = r[n + j]
      BY <1>0, Stretch, Zenon
    <3>2. L <= Len(r)
      BY <1>0
    <3> QED BY <1>0, <3>1, <3>2, Zenon
  <2>2. \A j \in 1..(L - n) : n + j = j + n /\ n + j \in 1..L /\ n + j >= n
    BY <1>0
  <2>3. (IF n < L THEN L - n ELSE 0) = L - n
    BY <1>0
  <2> QED BY <2>1, <2>2, <2>3, Zenon
<1>5. r2 # <<>> => L - n \in 1..(L - n) /\ 1 \in 1..(L - n) /\ n + 1 <= L
  <2>1. r2 # <<>> => Len(r2) # 0
    BY <1>0, <1>2, Stretch
  <2> QED BY <1>0, <1>4, <2>1
<1> HIDE DEF r2
<1>6. ASSUME NEW k \in 1..Len(V), NEW i \in 1..Len(r2) PROVE own2[k] <= lab2[i]
  <2>1. i \in 1..(L - n)
    BY <1>4
  <2>2. lab2[i] = lab[n + i] /\ n + i \in 1..L /\ n + i >= n
    BY <1>4, <2>1, Zenon
  <2> QED BY <1>1, <2>2
<1>7. ASSUME r2 # <<>> PROVE r2[Len(r2)] = (IF open THEN SEPARATOR ELSE END)
  <2>1. r2[Len(r2)] = r[n + (L - n)]
    BY <1>4, <1>5, <1>7
  <2>2. n + (L - n) = L /\ L # 0
    BY <1>0
  <2>3. r # <<>>
    BY <2>2
  <2> QED BY <1>2, <2>1, <2>2, <2>3
<1>8. ASSUME wh2, r2 # <<>> PROVE pos2[1] = 1
  <2>1. r[n] = END /\ n + 1 <= L /\ 1 \in 1..(L - n)
    BY <1>5, <1>8
  <2>2. pos[n + 1] = 1
    BY <1>2, <2>1, TracedNext
  <2>3. pos2[1] = pos[1 + n] /\ 1 + n = n + 1
    BY <1>0, <2>1
  <2> QED BY <2>2, <2>3
<1> HIDE DEF lab2, pos2
<1>9. Flow(r2, lab2, pos2, own2, V, calls, open, wh2)
  BY <1>3, <1>6, <1>7, <1>8 DEF Flow
<1> QED BY <1>1, <1>9 DEF V, r2

\* Appending to the second of two sequences appends to both.
LEMMA ListAppend ==
  ASSUME NEW S, NEW u \in Seq(S), NEW v \in Seq(S), NEW x \in S
  PROVE  u \o Append(v, x) = Append(u \o v, x)
OBVIOUS

\* The names in a string of bytes are strings of bytes.
LEMMA NamesType ==
  ASSUME NEW s \in Seq(Bytes)
  PROVE  NamesIn(s) \in Seq(Seq(Bytes))
<1>1. PICK N, sep : Seps(s, N, sep)
  BY HasSeps
<1> QED BY <1>1, NamesAre

\* What is sent and not received, and what is in the buffer, begins with no END.
LEMMA FlowMarks ==
  ASSUME NEW r \in Seq(Bytes), NEW calls \in Seq(Names), NEW toks, NEW own, NEW lab, NEW pos, NEW open,
         Flow(r, lab, pos, own, toks, calls, open, TRUE), r # <<>>
  PROVE  /\ r[1] # END
         /\ \A n \in 1..Len(r) : r[n] = END =>
              /\ n > 1 /\ r[n - 1] = SEPARATOR
              /\ n < Len(r) => r[n + 1] # END
<1>0. Len(r) \in Nat \ {0}
  OBVIOUS
<1>1. Traced(r, lab, pos, calls) /\ pos[1] = 1
  BY DEF Flow
<1>2. r[1] # END
  <2>1. 1 \in 1..Len(r)
    BY <1>0
  <2>2. Len(calls[lab[1]]) \in Nat /\ (r[1] = END <=> pos[1] = Len(calls[lab[1]]) + 2)
    BY <1>1, <2>1, TracedAt
  <2> QED BY <1>1, <2>2
<1>3. ASSUME NEW n \in 1..Len(r), r[n] = END PROVE n > 1 /\ r[n - 1] = SEPARATOR
  <2>1. n # 1
    BY <1>2, <1>3
  <2>2. n > 1 /\ n - 1 \in 1..Len(r) /\ (n - 1) + 1 <= Len(r) /\ (n - 1) + 1 = n
    BY <1>0, <2>1
  <2>3. \A i \in 1..Len(r) : i + 1 <= Len(r) => (r[i + 1] = END => r[i] = SEPARATOR)
    BY <1>1, TracedNext
  <2>4. r[(n - 1) + 1] = END => r[n - 1] = SEPARATOR
    BY <2>2, <2>3, Zenon
  <2> QED BY <1>3, <2>2, <2>4
<1>4. ASSUME NEW n \in 1..Len(r), r[n] = END, n < Len(r) PROVE r[n + 1] # END
  <2>1. n + 1 <= Len(r)
    BY <1>0, <1>4
  <2> QED BY <1>1, <1>4, <2>1, TracedNext
<1> QED BY <1>2, <1>3, <1>4

\* A name that append_syscall lets through is the next one the server will see.
LEMMA FramesName ==
  ASSUME NEW r \in Seq(Bytes), NEW calls \in Seq(Names), NEW toks \in Seq(Seq(Bytes)), NEW own,
         NEW lab, NEW pos, NEW open, Flow(r, lab, pos, own, toks, calls, open, TRUE),
         NEW c \in Nat, NEW b \in 0..window_size, Len(calls) = c * (window_size + 1) + b,
         b # window_size, NEW x \in Names, toks \o NamesIn(r) = Kept(calls)
  PROVE  toks \o NamesIn(r \o x \o <<SEPARATOR>>) = Kept(Append(calls, x))
<1>0. Len(r) \in Nat /\ x \in Seq(Bytes) /\ x \in Seq(Chars) /\ Len(x) > 0
  <2>1. x \in Seq(Chars) /\ Len(x) \in 1..MaxName
    BY TableAssumption DEF Names
  <2> QED BY <2>1, NameType, SizeAssumption
<1>1. \/ r = <<>>
      \/ r[Len(r)] = SEPARATOR
      \/ Len(r) > 1 /\ r[Len(r)] = END /\ r[Len(r) - 1] = SEPARATOR
  <2>1. CASE r # <<>>
    <3>1. Len(r) \in 1..Len(r)
      BY <1>0, <2>1
    <3>2. r[Len(r)] = SEPARATOR \/ r[Len(r)] = END
      BY <2>1 DEF Flow
    <3>3. r[Len(r)] = END => Len(r) > 1 /\ r[Len(r) - 1] = SEPARATOR
      <4>1. \A n \in 1..Len(r) : r[n] = END => n > 1 /\ r[n - 1] = SEPARATOR
        BY <2>1, FlowMarks, Zenon
      <4> QED BY <3>1, <4>1, Zenon
    <3> QED BY <3>2, <3>3
  <2> QED BY <2>1
<1>2. NamesIn(r \o x \o <<SEPARATOR>>) = Append(NamesIn(r), x)
  BY <1>0, <1>1, NamesGrow, Zenon
<1>3. Kept(Append(calls, x)) = Append(Kept(calls), x)
  BY KeptGrows
<1>4. toks \o Append(NamesIn(r), x) = Append(toks \o NamesIn(r), x)
  <2> DEFINE S == Seq(Bytes)
  <2>1. toks \in Seq(S) /\ NamesIn(r) \in Seq(S) /\ x \in S
    BY <1>0, NamesType
  <2> HIDE DEF S
  <2>2. \A u \in Seq(S) : \A v \in Seq(S) : \A z \in S : u \o Append(v, z) = Append(u \o v, z)
    BY ListAppend, SMTT(40)
  <2> QED BY <2>1, <2>2, Zenon
<1> QED BY <1>2, <1>3, <1>4, Zenon

\* A recv of exactly one frame moves its names to the tokens and changes no other.
LEMMA FramesTake ==
  ASSUME NEW r \in Seq(Bytes), NEW calls \in Seq(Names), NEW toks \in Seq(Seq(Bytes)), NEW own,
         NEW lab, NEW pos, NEW open, Flow(r, lab, pos, own, toks, calls, open, TRUE),
         NEW n \in 1..Len(r), \A i \in 1..n : r[i] = END <=> i = n
  PROVE  (toks \o Split(SubSeq(r, 1, n - 2))) \o NamesIn(SubSeq(r, n + 1, Len(r))) = toks \o NamesIn(r)
<1>0. Len(r) \in Nat /\ n \in Nat /\ r # <<>> /\ n <= Len(r)
  OBVIOUS
<1>1. r[n] = END /\ \A i \in 1..(n - 1) : r[i] # END
  BY <1>0
<1>2. n > 1 /\ r[n - 1] = SEPARATOR /\ (n < Len(r) => r[n + 1] # END)
  <2>1. \A k \in 1..Len(r) : r[k] = END => k > 1 /\ r[k - 1] = SEPARATOR /\ (k < Len(r) => r[k + 1] # END)
    BY <1>0, FlowMarks, Zenon
  <2> QED BY <1>1, <2>1, Zenon
<1>3. NamesIn(r) = Split(SubSeq(r, 1, n - 2)) \o NamesIn(SubSeq(r, n + 1, Len(r)))
  <2>1. 1 < n
    BY <1>0, <1>2
  <2> QED BY <1>0, <1>1, <1>2, <2>1, NamesOfFrame, Zenon
<1> DEFINE S == Seq(Bytes)
           U == Split(SubSeq(r, 1, n - 2))
           Y == NamesIn(SubSeq(r, n + 1, Len(r)))
<1>4. U \in Seq(S)
  <2>1. SubSeq(r, 1, n - 2) \in Seq(Bytes)
    BY Cut, Zenon
  <2> QED BY <2>1, SplitType, Zenon
<1>5. Y \in Seq(S)
  <2>1. \A b \in Nat : b <= Len(r) => SubSeq(r, n + 1, b) \in Seq(Bytes)
    BY <1>0, Stretch
  <2>2. SubSeq(r, n + 1, Len(r)) \in Seq(Bytes)
    BY <1>0, <2>1
  <2>3. \A s \in Seq(Bytes) : NamesIn(s) \in Seq(Seq(Bytes))
    BY NamesType
  <2> QED BY <2>2, <2>3, Zenon
<1>6. toks \in Seq(S)
  OBVIOUS
<1> HIDE DEF S, U, Y
<1>7. (toks \o U) \o Y = toks \o (U \o Y)
  BY <1>4, <1>5, <1>6, SMTT(40)
<1> QED BY <1>3, <1>7, SMTT(40) DEF U, Y

\* r, the bytes written and not received and those of the buffer, agrees with the
\* calls printed and the tokens.
Good(r, toks, calls, open, wh) ==
  \E own, lab, pos :
    /\ Owned(own, toks, calls) /\ Flow(r, lab, pos, own, toks, calls, open, wh)
    /\ wh => toks \o NamesIn(r) = Kept(calls)

\* append_syscall with room in the frame.
LEMMA GoodName ==
  ASSUME NEW r \in Seq(Bytes), NEW calls \in Seq(Names), NEW toks \in Seq(Seq(Bytes)), NEW open, NEW wh,
         Good(r, toks, calls, open, wh), NEW c \in Nat, NEW b \in 0..window_size,
         Len(calls) = c * (window_size + 1) + b, b # window_size, NEW x \in Names
  PROVE  Good(r \o x \o <<SEPARATOR>>, toks, Append(calls, x), TRUE, wh)
<1>1. PICK own, lab, pos :
        /\ Owned(own, toks, calls) /\ Flow(r, lab, pos, own, toks, calls, open, wh)
        /\ wh => toks \o NamesIn(r) = Kept(calls)
  BY Zenon DEF Good
<1>2. PICK lab2, pos2 : Flow(r \o x \o <<SEPARATOR>>, lab2, pos2, own, toks, Append(calls, x), TRUE, wh)
  BY <1>1, FlowName, Zenon
<1>3. Owned(own, toks, Append(calls, x))
  BY <1>1, OwnedGrows
<1>4. ASSUME wh PROVE toks \o NamesIn(r \o x \o <<SEPARATOR>>) = Kept(Append(calls, x))
  <2>1. Flow(r, lab, pos, own, toks, calls, open, TRUE)
    BY <1>1, <1>4 DEF Flow
  <2>2. toks \o NamesIn(r) = Kept(calls)
    BY <1>1, <1>4, Zenon
  <2> QED BY <2>1, <2>2, FramesName, Zenon
<1> QED BY <1>2, <1>3, <1>4, Zenon DEF Good

\* append_syscall with a full frame.
LEMMA GoodEnd ==
  ASSUME NEW r \in Seq(Bytes), NEW calls \in Seq(Names), NEW toks \in Seq(Seq(Bytes)), NEW wh, r # <<>>,
         Good(r, toks, calls, TRUE, wh), NEW c \in Nat,
         Len(calls) = c * (window_size + 1) + window_size, NEW x \in Names
  PROVE  Good(r \o <<END>>, toks, Append(calls, x), FALSE, wh)
<1>1. PICK own, lab, pos :
        /\ Owned(own, toks, calls) /\ Flow(r, lab, pos, own, toks, calls, TRUE, wh)
        /\ wh => toks \o NamesIn(r) = Kept(calls)
  BY Zenon DEF Good
<1>2. PICK lab2, pos2 : Flow(r \o <<END>>, lab2, pos2, own, toks, Append(calls, x), FALSE, wh)
  BY <1>1, FlowEnd, Zenon
<1>3. Owned(own, toks, Append(calls, x))
  BY <1>1, OwnedGrows
<1>4. Kept(Append(calls, x)) = Kept(calls)
  <2>1. \A b \in 0..window_size : Len(calls) = c * (window_size + 1) + b =>
          (b = window_size => Kept(Append(calls, x)) = Kept(calls))
    BY KeptGrows, Zenon
  <2>2. window_size \in 0..window_size
    BY SizeAssumption
  <2> QED BY <2>1, <2>2, Zenon
<1>5. NamesIn(r \o <<END>>) = NamesIn(r)
  BY NamesKeepEnd
<1>6. wh => toks \o NamesIn(r \o <<END>>) = Kept(Append(calls, x))
  BY <1>1, <1>4, <1>5, Zenon
<1> QED BY <1>2, <1>3, <1>6, Zenon DEF Good

\* threaded_client takes n bytes.
LEMMA GoodTake ==
  ASSUME NEW r \in Seq(Bytes), NEW calls \in Seq(Names), NEW toks \in Seq(Seq(Bytes)), NEW open, NEW wh,
         Good(r, toks, calls, open, wh), NEW n \in 1..Len(r), NEW wh2,
         wh2 => wh /\ \A i \in 1..n : r[i] = END <=> i = n
  PROVE  Good(SubSeq(r, n + 1, Len(r)), toks \o Split(SubSeq(r, 1, n - 2)), calls, open, wh2)
<1> DEFINE V == toks \o Split(SubSeq(r, 1, n - 2))
           r2 == SubSeq(r, n + 1, Len(r))
<1>0. Len(r) \in Nat /\ n \in 1..n
  OBVIOUS
<1>1. PICK own, lab, pos :
        /\ Owned(own, toks, calls) /\ Flow(r, lab, pos, own, toks, calls, open, wh)
        /\ wh => toks \o NamesIn(r) = Kept(calls)
  BY Zenon DEF Good
<1>2. wh2 => r[n] = END
  BY <1>0
<1>3. PICK own2, lab2, pos2 : Owned(own2, V, calls) /\ Flow(r2, lab2, pos2, own2, V, calls, open, wh2)
  BY <1>1, <1>2, FlowTake, Zenon
<1>4. ASSUME wh2 PROVE V \o NamesIn(r2) = Kept(calls)
  <2>1. wh /\ \A i \in 1..n : r[i] = END <=> i = n
    BY <1>4
  <2>2. Flow(r, lab, pos, own, toks, calls, open, TRUE)
    BY <1>1, <2>1 DEF Flow
  <2>3. V \o NamesIn(r2) = toks \o NamesIn(r)
    BY <2>1, <2>2, FramesTake, Zenon
  <2> QED BY <1>1, <2>1, <2>3, Zenon
<1> QED BY <1>3, <1>4, Zenon DEF Good

(***************************************************************************)
(* Conveyed, the inductive invariant.  frame_index counts the calls since  *)
(* the last frame, so that Kept can be followed call by call; every token  *)
(* has an owner among the calls; and as long as there is a server the      *)
(* bytes on the wire and in the buffer, taken together, agree with both.   *)
(***************************************************************************)
Conveyed ==
  /\ TypeOK
  /\ frame_index # 0 => buffer # <<>>
  /\ Mode = "analyze" => \E c \in Nat : Len(printed) = c * (window_size + 1) + frame_index
  /\ Mode # "analyze" => tokens = <<>> /\ thread = "none"
  /\ \E own : Owned(own, tokens, printed)
  /\ Mode = "analyze" /\ thread # "stopped" =>
       Good(wire \o buffer, tokens, printed, buffer # <<>>, whole)

\* Good with the two ways of saying that the buffer holds something.
LEMMA SameOpen ==
  ASSUME NEW r, NEW toks, NEW calls, NEW p \in BOOLEAN, NEW q \in BOOLEAN, p <=> q, NEW wh,
         Good(r, toks, calls, p, wh)
  PROVE  Good(r, toks, calls, q, wh)
<1>1. p = q
  OBVIOUS
<1> QED BY <1>1, Zenon

\* append_syscall with room in the frame.
LEMMA ConveyedName ==
  ASSUME Conveyed, NEW x \in Names, Mode = "analyze", printed' = Append(printed, x),
         frame_index # window_size, append_syscall(x), UNCHANGED <<tokens, thread, whole>>
  PROVE  Conveyed'
<1>0. /\ printed \in Seq(Names) /\ buffer \in Seq(Bytes) /\ wire \in Seq(Bytes) /\ tokens \in Seq(Seq(Bytes))
      /\ frame_index \in 0..window_size /\ window_size \in Nat \ {0}
      /\ x \in Seq(Bytes) /\ Len(x) \in Nat \ {0} /\ whole \in BOOLEAN
  BY NameType, SizeAssumption DEF Conveyed, TypeOK
<1>1. /\ buffer' = buffer \o x \o <<SEPARATOR>> /\ frame_index' = frame_index + 1
      /\ wire' = wire /\ tracer' = tracer /\ tokens' = tokens /\ thread' = thread /\ whole' = whole
  BY DEF append_syscall
<1>2. /\ buffer' \in Seq(Bytes) /\ buffer' # <<>>
      /\ wire \o buffer' = (wire \o buffer) \o x \o <<SEPARATOR>> /\ wire \o buffer \in Seq(Bytes)
  <2>1. SEPARATOR \in Bytes
    BY Marks
  <2> HIDE DEF SEPARATOR
  <2>2. buffer \o x \in Seq(Bytes) /\ <<SEPARATOR>> \in Seq(Bytes) /\ wire \o buffer \in Seq(Bytes)
    BY <1>0, <2>1
  <2>3. (buffer \o x) \o <<SEPARATOR>> \in Seq(Bytes) /\ Len((buffer \o x) \o <<SEPARATOR>>) # 0
    BY <1>0, <2>1, <2>2
  <2>4. wire \o ((buffer \o x) \o <<SEPARATOR>>) = ((wire \o buffer) \o x) \o <<SEPARATOR>>
    BY <1>0, <2>2, SMTT(40)
  <2>5. \A e \in Seq(Bytes) : Len(e) # 0 => e # <<>>
    OBVIOUS
  <2> QED BY <1>1, <2>2, <2>3, <2>4, <2>5, ZenonT(40)
<1>3. PICK c \in Nat : Len(printed) = c * (window_size + 1) + frame_index
  BY DEF Conveyed
<1>4. Len(printed') = c * (window_size + 1) + frame_index' /\ printed' \in Seq(Names)
  <2>1. c * (window_size + 1) \in Nat
    BY <1>0
  <2> QED BY <1>0, <1>1, <1>3, <2>1, SMTT(40)
<1>5. TypeOK'
  BY <1>0, <1>1, <1>2, <1>4 DEF TypeOK, Conveyed
<1>6. \E own : Owned(own, tokens', printed')
  <2>1. PICK own : Owned(own, tokens, printed)
    BY DEF Conveyed
  <2>2. Owned(own, tokens, Append(printed, x))
    BY <1>0, <2>1, OwnedGrows
  <2> QED BY <1>1, <2>2
<1>7. ASSUME thread # "stopped"
      PROVE  Good(wire \o buffer', tokens, Append(printed, x), buffer' # <<>>, whole)
  <2> DEFINE open == buffer # <<>>
             r == wire \o buffer
  <2>1. Good(r, tokens, printed, open, whole)
    BY <1>7 DEF Conveyed
  <2>2. r \in Seq(Bytes)
    BY <1>2
  <2> HIDE DEF open, r
  <2>3. Good(r \o x \o <<SEPARATOR>>, tokens, Append(printed, x), TRUE, whole)
    BY <1>0, <1>3, <2>1, <2>2, GoodName, Zenon
  <2>4. Good(wire \o buffer', tokens, Append(printed, x), TRUE, whole)
    BY <1>2, <2>3, Zenon DEF r
  <2>5. TRUE <=> (buffer' # <<>>)
    BY <1>2
  <2> QED BY <2>4, <2>5, SameOpen, Zenon
<1>8. Mode = "analyze" /\ thread' # "stopped" =>
        Good(wire' \o buffer', tokens', printed', buffer' # <<>>, whole')
  BY <1>1, <1>7, Zenon
<1> QED BY <1>1, <1>2, <1>4, <1>5, <1>6, <1>8 DEF Conveyed

\* append_syscall with a full frame: the frame is written, or lost with the server.
LEMMA ConveyedFull ==
  ASSUME Conveyed, NEW x \in Names, Mode = "analyze", printed' = Append(printed, x),
         tracer = "running", frame_index = window_size, append_syscall(x),
         UNCHANGED <<tokens, thread, whole>>
  PROVE  Conveyed'
<1>0. /\ printed \in Seq(Names) /\ buffer \in Seq(Bytes) /\ wire \in Seq(Bytes) /\ tokens \in Seq(Seq(Bytes))
      /\ window_size \in Nat \ {0} /\ whole \in BOOLEAN /\ buffer # <<>>
      /\ thread \in {"none", "serving", "ended", "stopped"}
  BY SizeAssumption DEF Conveyed, TypeOK
<1>1. /\ buffer' = <<>> /\ frame_index' = 0
      /\ tokens' = tokens /\ thread' = thread /\ whole' = whole
      /\ \/ thread = "serving" /\ wire' = wire \o (buffer \o <<END>>) /\ tracer' = tracer
         \/ thread = "stopped" /\ wire' = wire /\ tracer' \in {"running", "killed"}
  BY Zenon DEF append_syscall, Write
<1>2. /\ wire \o buffer \in Seq(Bytes) /\ wire \o buffer # <<>>
      /\ wire \o (buffer \o <<END>>) \in Seq(Bytes)
      /\ (wire \o (buffer \o <<END>>)) \o <<>> = (wire \o buffer) \o <<END>>
  <2>1. END \in Bytes
    BY Marks
  <2> HIDE DEF END
  <2>2. /\ wire \o buffer \in Seq(Bytes) /\ Len(wire \o buffer) = Len(wire) + Len(buffer)
        /\ Len(wire) \in Nat /\ Len(buffer) \in Nat \ {0}
        /\ buffer \o <<END>> \in Seq(Bytes) /\ <<END>> \in Seq(Bytes)
    BY <1>0, <2>1
  <2>3. wire \o buffer # <<>>
    BY <2>2
  <2>4. wire \o (buffer \o <<END>>) = (wire \o buffer) \o <<END>> /\ wire \o (buffer \o <<END>>) \in Seq(Bytes)
    BY <1>0, <2>2
  <2>5. \A e \in Seq(Bytes) : e \o <<>> = e
    OBVIOUS
  <2> QED BY <2>2, <2>3, <2>4, <2>5, Zenon
<1>3. PICK c \in Nat : Len(printed) = c * (window_size + 1) + window_size
  BY DEF Conveyed
<1>4. \E d \in Nat : Len(printed') = d * (window_size + 1) + frame_index'
  <2>1. Len(printed') = (c + 1) * (window_size + 1) + 0 /\ c + 1 \in Nat
    BY <1>0, <1>3
  <2> QED BY <1>1, <2>1
<1>5. TypeOK'
  <2>1. printed' \in Seq(Names) /\ buffer' \in Seq(Bytes) /\ frame_index' \in 0..window_size
    BY <1>0, <1>1
  <2>2. wire' \in Seq(Bytes) /\ tracer' \in {"running", "exited", "killed"}
    BY <1>0, <1>1, <1>2, Zenon
  <2> QED BY <1>0, <1>1, <2>1, <2>2 DEF TypeOK
<1>6. \E own : Owned(own, tokens', printed')
  <2>1. PICK own : Owned(own, tokens, printed)
    BY DEF Conveyed
  <2>2. Owned(own, tokens, Append(printed, x))
    BY <1>0, <2>1, OwnedGrows
  <2> QED BY <1>1, <2>2
<1>7. ASSUME thread # "stopped"
      PROVE  Good(wire' \o buffer', tokens, Append(printed, x), buffer' # <<>>, whole)
  <2> DEFINE r == wire \o buffer
  <2>1. Good(r, tokens, printed, buffer # <<>>, whole)
    BY <1>7 DEF Conveyed
  <2>2. r \in Seq(Bytes) /\ r # <<>> /\ wire' \o buffer' = r \o <<END>>
    BY <1>1, <1>2, <1>7, Zenon
  <2> HIDE DEF r
  <2>3. Good(r, tokens, printed, TRUE, whole)
    <3>1. (buffer # <<>>) <=> TRUE
      BY <1>0
    <3> QED BY <2>1, <3>1, SameOpen, ZenonT(40)
  <2>4. Good(r \o <<END>>, tokens, Append(printed, x), FALSE, whole)
    BY <1>0, <1>3, <2>2, <2>3, GoodEnd, ZenonT(40)
  <2>5. FALSE <=> (buffer' # <<>>)
    BY <1>1
  <2>6. Good(wire' \o buffer', tokens, Append(printed, x), FALSE, whole)
    BY <2>2, <2>4, Zenon
  <2> QED BY <2>5, <2>6, SameOpen, ZenonT(40)
<1>8. Mode = "analyze" /\ thread' # "stopped" =>
        Good(wire' \o buffer', tokens', printed', buffer' # <<>>, whole')
  BY <1>1, <1>7, Zenon
<1> QED BY <1>1, <1>4, <1>5, <1>6, <1>8, SMTT(40) DEF Conveyed

\* What a recv of n bytes takes and leaves, seen in the wire and in all there is.
LEMMA Parts ==
  ASSUME NEW w \in Seq(Bytes), NEW b \in Seq(Bytes), NEW n \in 1..Len(w)
  PROVE  /\ n \in 1..Len(w \o b) /\ \A i \in 1..n : (w \o b)[i] = w[i]
         /\ Tokens(SubSeq(w, 1, n)) = Split(SubSeq(w \o b, 1, n - 2))
         /\ SubSeq(w, n + 1, Len(w)) \in Seq(Bytes)
         /\ SubSeq(w, n + 1, Len(w)) \o b = SubSeq(w \o b, n + 1, Len(w \o b))
<1> DEFINE r == w \o b
           L == Len(w)
           k == Len(b)
<1>0. /\ r \in Seq(Bytes) /\ Len(r) = L + k /\ L \in Nat /\ k \in Nat /\ n \in Nat /\ n <= L
      /\ \A i \in 1..L : r[i] = w[i]
      /\ \A i \in 1..k : r[L + i] = b[i]
  OBVIOUS
<1> HIDE DEF r
<1>1. n \in 1..Len(r) /\ \A i \in 1..n : r[i] = w[i]
  BY <1>0
<1> DEFINE p == SubSeq(w, 1, n)
<1>2. p \in Seq(Bytes) /\ Len(p) = n /\ \A i \in 1..n : p[i] = w[i]
  BY <1>0
<1> HIDE DEF p
<1>3. SubSeq(p, 1, Len(p) - 2) = SubSeq(r, 1, n - 2)
  <2>1. \E m \in Nat : /\ m < n /\ (n > 1 => m = n - 2)
                       /\ SubSeq(r, 1, n - 2) \in Seq(Bytes) /\ Len(SubSeq(r, 1, n - 2)) = m
                       /\ \A j \in 1..m : SubSeq(r, 1, n - 2)[j] = r[j]
    BY <1>0, <1>1, Cut, Zenon
  <2>2. \E m \in Nat : /\ m < n /\ (n > 1 => m = n - 2)
                       /\ SubSeq(p, 1, n - 2) \in Seq(Bytes) /\ Len(SubSeq(p, 1, n - 2)) = m
                       /\ \A j \in 1..m : SubSeq(p, 1, n - 2)[j] = p[j]
    <3>1. n \in 1..Len(p)
      BY <1>0, <1>2
    <3> QED BY <1>2, <3>1, Cut, ZenonT(40)
  <2> DEFINE u == SubSeq(r, 1, n - 2)
             v == SubSeq(p, 1, n - 2)
  <2>3. PICK m \in Nat : m < n /\ (n > 1 => m = n - 2) /\ u \in Seq(Bytes) /\ Len(u) = m
                         /\ \A j \in 1..m : u[j] = r[j]
    BY <2>1
  <2>4. PICK q \in Nat : q < n /\ (n > 1 => q = n - 2) /\ v \in Seq(Bytes) /\ Len(v) = q
                         /\ \A j \in 1..q : v[j] = p[j]
    BY <2>2, SMTT(40)
  <2> HIDE DEF u, v
  <2>5. m = q
    BY <1>0, <2>3, <2>4
  <2>6. \A j \in 1..m : u[j] = v[j]
    <3> TAKE j \in 1..m
    <3>1. j \in 1..n /\ j \in 1..q
      BY <1>0, <2>3, <2>5, SMTT(40)
    <3> QED BY <1>1, <1>2, <2>3, <2>4, <3>1, ZenonT(40)
  <2>7. u = v
    <3>1. Len(u) = Len(v) /\ \A i \in 1..Len(u) : u[i] = v[i]
      BY <2>3, <2>4, <2>5, <2>6
    <3> QED BY <2>3, <2>4, <3>1, SameSequence, SMTT(40)
  <2> QED BY <1>2, <2>7 DEF u, v
<1>4. Tokens(p) = Split(SubSeq(r, 1, n - 2))
  BY <1>3, Zenon DEF Tokens
<1> DEFINE y == SubSeq(w, n + 1, L)
           z == SubSeq(r, n + 1, Len(r))
<1>5. y \in Seq(Bytes) /\ Len(y) = L - n /\ \A j \in 1..(L - n) : y[j] = w[n + j]
  BY <1>0, SMTT(40)
<1>6. z \in Seq(Bytes) /\ Len(z) = (L - n) + k /\ \A j \in 1..((L - n) + k) : z[j] = r[n + j]
  <2>1. \A e \in Nat : n <= e /\ e <= Len(r) =>
          /\ SubSeq(r, n + 1, e) \in Seq(Bytes) /\ Len(SubSeq(r, n + 1, e)) = e - n
          /\ \A j \in 1..(e - n) : SubSeq(r, n + 1, e)[j] = r[n + j]
    BY <1>0
  <2>2. Len(r) \in Nat /\ n <= Len(r) /\ Len(r) <= Len(r) /\ Len(r) - n = (L - n) + k
    BY <1>0
  <2>3. /\ SubSeq(r, n + 1, Len(r)) \in Seq(Bytes) /\ Len(SubSeq(r, n + 1, Len(r))) = Len(r) - n
        /\ \A j \in 1..(Len(r) - n) : SubSeq(r, n + 1, Len(r))[j] = r[n + j]
    BY <2>1, <2>2, Zenon
  <2> QED BY <2>2, <2>3, SMTT(40)
<1> HIDE DEF y, z
<1>7. z = y \o b
  <2>1. Len(z) = Len(y) + Len(b)
    BY <1>5, <1>6
  <2>2. \A i \in 1..Len(y) : z[i] = y[i]
    <3> TAKE i \in 1..Len(y)
    <3>1. i \in 1..(L - n) /\ i \in 1..((L - n) + k) /\ n + i \in 1..L
      BY <1>0, <1>5
    <3> QED BY <1>0, <1>5, <1>6, <3>1, Zenon
  <2>3. \A i \in 1..Len(b) : z[Len(y) + i] = b[i]
    <3> TAKE i \in 1..Len(b)
    <3>1. Len(y) + i \in 1..((L - n) + k) /\ n + (Len(y) + i) = L + i /\ i \in 1..k
      BY <1>0, <1>5
    <3> QED BY <1>0, <1>6, <3>1, ZenonT(40)
  <2> QED BY <1>5, <1>6, <2>1, <2>2, <2>3, ListSplice, ZenonT(40)
<1> QED BY <1>1, <1>4, <1>5, <1>7, ZenonT(40) DEF p, y, z, r

\* threaded_client: one recv, of any number of the bytes that are there.
LEMMA ConveyedTake ==
  ASSUME Conveyed, thread = "serving", NEW n \in DOMAIN wire, Recv(n),
         tokens' = tokens \o Tokens(SubSeq(wire, 1, n)), UNCHANGED thread, UNCHANGED tracerVars
  PROVE  Conveyed'
<1>0. /\ printed \in Seq(Names) /\ buffer \in Seq(Bytes) /\ wire \in Seq(Bytes) /\ tokens \in Seq(Seq(Bytes))
      /\ whole \in BOOLEAN /\ Mode = "analyze" /\ n \in 1..Len(wire)
      /\ Good(wire \o buffer, tokens, printed, buffer # <<>>, whole)
  BY DEF Conveyed, TypeOK
<1>1. /\ printed' = printed /\ buffer' = buffer /\ frame_index' = frame_index /\ tracer' = tracer
      /\ thread' = thread /\ wire' = SubSeq(wire, n + 1, Len(wire))
      /\ whole' = (whole /\ \A i \in 1..n : wire[i] = END <=> i = n)
  BY DEF Recv, tracerVars
<1> DEFINE r == wire \o buffer
           U == Split(SubSeq(r, 1, n - 2))
           r2 == SubSeq(r, n + 1, Len(r))
<1>2. /\ n \in 1..Len(r) /\ (\A i \in 1..n : r[i] = wire[i])
      /\ Tokens(SubSeq(wire, 1, n)) = U
      /\ wire' \in Seq(Bytes) /\ wire' \o buffer = r2
  BY <1>0, <1>1, Parts, Zenon
<1>3. r \in Seq(Bytes)
  BY <1>0
<1>4. tokens' = tokens \o U
  BY <1>2, Zenon
<1>5. whole' \in BOOLEAN /\ (whole' => whole /\ \A i \in 1..n : r[i] = END <=> i = n)
  BY <1>1, <1>2, Zenon
<1>6. Good(r2, tokens \o U, printed, buffer # <<>>, whole')
  <2> DEFINE open == buffer # <<>>
             w2 == whole'
  <2>1. Good(r, tokens, printed, open, whole)
    BY <1>0
  <2>2. w2 => whole /\ \A i \in 1..n : r[i] = END <=> i = n
    BY <1>5
  <2> HIDE DEF open, w2, r
  <2>3. Good(r2, tokens \o U, printed, open, w2)
    BY <1>0, <1>2, <1>3, <2>1, <2>2, GoodTake, ZenonT(40)
  <2> QED BY <2>3 DEF open, w2
<1>7. Good(wire' \o buffer', tokens', printed', buffer' # <<>>, whole')
  BY <1>1, <1>2, <1>4, <1>6, Zenon
<1>8. \E own : Owned(own, tokens', printed')
  BY <1>7, Zenon DEF Good
<1>9. tokens' \in Seq(Seq(Bytes))
  <2>1. U \in Seq(Seq(Bytes))
    <3>1. SubSeq(r, 1, n - 2) \in Seq(Bytes)
      BY <1>2, <1>3, Cut, SMTT(40)
    <3> QED BY <3>1, SplitType, Zenon
  <2> DEFINE S == Seq(Bytes)
  <2>2. tokens \in Seq(S) /\ U \in Seq(S)
    BY <1>0, <2>1
  <2> HIDE DEF S, U
  <2>3. tokens \o U \in Seq(S)
    BY <2>2
  <2> QED BY <1>4, <2>3, Zenon DEF S
<1>10. TypeOK'
  BY <1>0, <1>1, <1>2, <1>5, <1>9, SMTT(40) DEF TypeOK, Conveyed
<1> QED BY <1>0, <1>1, <1>7, <1>8, <1>10 DEF Conveyed

\* Conveyed is inductive.
LEMMA ConveyedStep == Conveyed /\ [Next]_vars => Conveyed'
<1> SUFFICES ASSUME Conveyed, [Next]_vars PROVE Conveyed'
  OBVIOUS
<1>1. ASSUME NEW rax \in Rax, process_syscall(rax) PROVE Conveyed'
  <2>1. PICK x \in Names : /\ printed' = Append(printed, x) /\ tracer = "running"
                           /\ UNCHANGED <<tokens, thread, whole>>
                           /\ IF Mode = "analyze" THEN append_syscall(x)
                              ELSE UNCHANGED <<buffer, frame_index, wire, tracer>>
    <3>1. SysIndex[Index(rax)] \in Names
      BY <1>1 DEF process_syscall, Names
    <3> QED BY <1>1, <3>1 DEF process_syscall
  <2>2. CASE Mode = "analyze" /\ frame_index # window_size
    <3>1. append_syscall(x)
      BY <2>1, <2>2
    <3> QED BY <2>1, <2>2, <3>1, ConveyedName
  <2>3. CASE Mode = "analyze" /\ frame_index = window_size
    <3>1. append_syscall(x)
      BY <2>1, <2>3
    <3> QED BY <2>1, <2>3, <3>1, ConveyedFull
  <2>4. CASE Mode # "analyze"
    <3>1. /\ buffer' = buffer /\ frame_index' = frame_index /\ wire' = wire /\ tracer' = tracer
          /\ tokens' = tokens /\ thread' = thread /\ whole' = whole
      BY <2>1, <2>4
    <3>2. printed \in Seq(Names) /\ printed' \in Seq(Names) /\ tokens \in Seq(Seq(Bytes))
      BY <2>1 DEF Conveyed, TypeOK
    <3>3. \E own : Owned(own, tokens', printed')
      <4>1. PICK own : Owned(own, tokens, printed)
        BY DEF Conveyed
      <4>2. Owned(own, tokens, Append(printed, x))
        BY <3>2, <4>1, OwnedGrows
      <4> QED BY <2>1, <3>1, <4>2
    <3> QED BY <2>4, <3>1, <3>2, <3>3 DEF Conveyed, TypeOK
  <2> QED BY <2>2, <2>3, <2>4
<1>2. CASE Close
  BY <1>2 DEF Conveyed, Close, TypeOK
<1>3. CASE threaded_client
  <2>1. ASSUME NEW n \in DOMAIN wire, Recv(n), tokens' = tokens \o Tokens(SubSeq(wire, 1, n)), UNCHANGED thread
        PROVE  Conveyed'
    BY <1>3, <2>1, ConveyedTake, SMTT(40) DEF threaded_client
  <2>2. CASE /\ thread' = "ended" /\ UNCHANGED <<tokens, wire, whole>>
    BY <1>3, <2>2 DEF Conveyed, threaded_client, tracerVars, TypeOK
  <2> QED BY <1>3, <2>1, <2>2 DEF threaded_client
<1>4. CASE ServerStops
  BY <1>4 DEF Conveyed, ServerStops, tracerVars, TypeOK
<1>5. CASE UNCHANGED vars
  BY <1>5 DEF vars, tracerVars, Conveyed, TypeOK
<1> QED BY <1>1, <1>2, <1>3, <1>4, <1>5 DEF Next

\* Before the first call nothing is on its way.
LEMMA ConveyedStart == Init => Conveyed
<1> SUFFICES ASSUME Init PROVE Conveyed
  OBVIOUS
<1>1. /\ printed = <<>> /\ buffer = <<>> /\ frame_index = 0 /\ wire = <<>> /\ tokens = <<>>
      /\ tracer = "running" /\ whole = TRUE /\ thread = IF Mode = "analyze" THEN "serving" ELSE "none"
  BY DEF Init
<1>2. TypeOK
  BY <1>1, SizeAssumption DEF TypeOK
<1>3. Len(printed) = 0 * (window_size + 1) + frame_index
  BY <1>1, SizeAssumption
<1> DEFINE none == [i \in 1..0 |-> 1]
<1>4. none \in [1..0 -> 1..0] /\ none \in [1..0 -> Nat] /\ 1..0 = {}
  OBVIOUS
<1> HIDE DEF none
<1>5. Owned(none, tokens, printed)
  <2>1. Len(tokens) = 0 /\ Len(printed) = 0
    BY <1>1
  <2> QED BY <1>4, <2>1 DEF Owned
<1>6. wire \o buffer = <<>>
  BY <1>1
<1>7. Flow(<<>>, none, none, none, tokens, printed, buffer # <<>>, whole)
  <2>1. Len(<<>>) = 0 /\ Len(printed) = 0 /\ 1..(0 - 1) = {}
    BY <1>1
  <2>2. Traced(<<>>, none, none, printed)
    BY <1>4, <2>1 DEF Traced
  <2> QED BY <1>4, <2>1, <2>2 DEF Flow
<1>8. tokens \o NamesIn(<<>>) = Kept(printed)
  <2>1. Kept(<<>>) \in Seq(Names) /\ Len(Kept(<<>>)) = 0
    <3>1. <<>> \in Seq(Names) /\ 0 \in 0..window_size /\ Len(<<>>) = 0 * (window_size + 1) + 0 /\ 0 * window_size + 0 = 0
      BY SizeAssumption
    <3>2. \A p \in Seq(Names) : \A b \in 0..window_size : Len(p) = 0 * (window_size + 1) + b =>
            Kept(p) \in Seq(Names) /\ Len(Kept(p)) = 0 * window_size + b
      BY KeptIs
    <3> QED BY <3>1, <3>2, Zenon
  <2>2. Len(NamesIn(<<>>)) = 0 /\ NamesIn(<<>>) \in Seq(Seq(Bytes))
    <3>1. Seps(<<>>, 1, [i \in 0..1 |-> i])
      BY DEF Seps
    <3>2. \A s \in Seq(Bytes) : \A N, sep : Seps(s, N, sep) =>
            NamesIn(s) \in Seq(Seq(Bytes)) /\ Len(NamesIn(s)) = N - 1
      BY NamesAre
    <3>3. <<>> \in Seq(Bytes) /\ 1 - 1 = 0
      OBVIOUS
    <3> QED BY <3>1, <3>2, <3>3, ZenonT(40)
  <2>3. Kept(<<>>) = <<>> /\ NamesIn(<<>>) = <<>>
    BY <2>1, <2>2
  <2> QED BY <1>1, <2>3
<1>9. Good(wire \o buffer, tokens, printed, buffer # <<>>, whole)
  BY <1>5, <1>6, <1>7, <1>8, Zenon DEF Good
<1> QED BY <1>1, <1>2, <1>3, <1>5, <1>9, Zenon DEF Conveyed

\* Whatever the guest calls, however recv cuts the stream and whenever the server
\* stops: every token threaded_client passes on is part of the name of one call,
\* in the order of the calls; and while each recv returns one frame the tokens and
\* the names still on the way are the calls printed, less those append_syscall
\* drops.
THEOREM ServerJudgesThePrinted == Spec => []TokensFaithful
<1>1. Conveyed => TokensFaithful
  <2> SUFFICES ASSUME Conveyed PROVE FramesFaithful /\ NoSplicedCall
    BY DEF TokensFaithful
  <2>1. FramesFaithful
    BY Zenon DEF Conveyed, Good, FramesFaithful
  <2>2. PICK own : Owned(own, tokens, printed)
    BY DEF Conveyed
  <2>3. NoSplicedCall
    <3>1. printed \in Seq(Names) /\ tokens \in Seq(Seq(Bytes))
      BY DEF Conveyed, TypeOK
    <3> QED BY <2>2, <3>1, OwnedNotSpliced
  <2> QED BY <2>1, <2>3
<1> QED BY <1>1, ConveyedStart, ConveyedStep, PTL DEF Spec

=============================================================================
