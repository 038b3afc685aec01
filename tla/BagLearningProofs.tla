------------------------- MODULE BagLearningProofs --------------------------
(***************************************************************************)
(* Learning is complete and sound for every window size, every set of      *)
(* names and traces of any length.  The invariant says which rows the      *)
(* sliding window holds: the last WINDOW_SIZE of those handled.            *)
(*                                                                         *)
(* The loop of create_BoSC counts: by induction over the calls of the      *)
(* window, the n-th value of its bag is the number of times each place of  *)
(* the table occurs among the first n calls.                               *)
(***************************************************************************)
EXTENDS BagLearning, FiniteSetTheorems, WellFoundedInduction, TLAPS

\* Where the sliding window starts after n rows.
Start(n) == IF n < WINDOW_SIZE THEN 1 ELSE n - WINDOW_SIZE + 1

\* The sliding window is the stretch of df that ends at the row handled last.
Slides ==
  /\ df \in Seq(Names) /\ csv \in Seq(Names)
  /\ index \in 0..Len(df)
  /\ sliding_window = SubSeq(df, Start(index), index)
  /\ pc # "rows" => index = 0 /\ df = <<>>

\* The inductive invariant.
IInv == Slides /\ Learnt(index) \subseteq db

\* One more row, while the window is still growing.
LEMMA Grow ==
  ASSUME NEW s \in Seq(Names), NEW n \in Nat, n < Len(s), n < WINDOW_SIZE
  PROVE  /\ Len(SubSeq(s, Start(n), n)) = n
         /\ Append(SubSeq(s, Start(n), n), s[n + 1]) = SubSeq(s, Start(n + 1), n + 1)
  BY LearningAssumption DEF Start

\* One more row, when the window is full: it slides.
LEMMA Slip ==
  ASSUME NEW s \in Seq(Names), NEW n \in Nat, n < Len(s), n >= WINDOW_SIZE
  PROVE  /\ Len(SubSeq(s, Start(n), n)) = WINDOW_SIZE
         /\ Append(Tail(SubSeq(s, Start(n), n)), s[n + 1]) = SubSeq(s, Start(n + 1), n + 1)
<1>1. /\ WINDOW_SIZE \in Nat \ {0}
      /\ Start(n) = n - WINDOW_SIZE + 1
      /\ Start(n + 1) = n - WINDOW_SIZE + 2
  BY LearningAssumption DEF Start
<1> DEFINE w == SubSeq(s, Start(n), n)
<1>2. /\ w \in Seq(Names) /\ Len(w) = WINDOW_SIZE
      /\ \A i \in 1..WINDOW_SIZE : w[i] = s[n - WINDOW_SIZE + i]
  <2> DEFINE b == n - WINDOW_SIZE
  <2>1. b \in Nat /\ n - b = WINDOW_SIZE /\ b <= n /\ w = SubSeq(s, b + 1, n)
    BY <1>1
  <2>2. /\ SubSeq(s, b + 1, n) \in Seq(Names) /\ Len(SubSeq(s, b + 1, n)) = n - b
        /\ \A i \in 1..(n - b) : SubSeq(s, b + 1, n)[i] = s[b + i]
    <3> HIDE DEF b, w
    <3> QED BY <2>1
  <2> HIDE DEF w
  <2> QED BY <2>1, <2>2
<1>3. /\ Tail(w) \in Seq(Names) /\ Len(Tail(w)) = WINDOW_SIZE - 1
      /\ \A i \in 1..(WINDOW_SIZE - 1) : Tail(w)[i] = s[n - WINDOW_SIZE + i + 1]
  <2> HIDE DEF w
  <2> QED  BY <1>1, <1>2
<1> DEFINE a == Append(Tail(w), s[n + 1])
           b == SubSeq(s, Start(n + 1), n + 1)
<1>4. /\ a \in Seq(Names) /\ Len(a) = WINDOW_SIZE
      /\ \A i \in 1..WINDOW_SIZE : a[i] = s[n - WINDOW_SIZE + i + 1]
  <2> HIDE DEF w
  <2> QED  BY <1>1, <1>3
<1>5. /\ b \in Seq(Names) /\ Len(b) = WINDOW_SIZE
      /\ \A i \in 1..WINDOW_SIZE : b[i] = s[n - WINDOW_SIZE + i + 1]
  BY <1>1
<1>6. a = b
  <2> HIDE DEF a, b
  <2> QED  BY <1>1, <1>4, <1>5
<1> QED  BY <1>2, <1>6, Zenon

\* One round of create_learning_db: the bags learnt are those of one row more,
\* and at most one bag is added to the database.
LEMMA Round ==
  ASSUME IInv, create_learning_db
  PROVE  /\ Slides'
         /\ db' = db \cup Learnt(index + 1)
         /\ Learnt(index)' = Learnt(index + 1)
<1>0. /\ df' = df /\ syscall_LUT' = syscall_LUT /\ index' = index + 1
      /\ pc = "rows" /\ pc' = "rows" /\ csv' = csv /\ index < Len(df)
      /\ index \in Nat /\ WINDOW_SIZE \in Nat \ {0} /\ df \in Seq(Names)
      /\ sliding_window = SubSeq(df, Start(index), index)
  BY LearningAssumption DEF IInv, Slides, create_learning_db
<1>1. Learnt(index)' = Learnt(index + 1)
  BY <1>0 DEF Learnt, BagAt
<1>2. CASE index < WINDOW_SIZE
  <2>1. /\ Len(sliding_window) = index
        /\ Append(sliding_window, df[index + 1]) = SubSeq(df, Start(index + 1), index + 1)
    BY <1>0, <1>2, Grow, Zenon
  <2>2. db' = db /\ sliding_window' = Append(sliding_window, df[index + 1])
    BY <1>0, <1>2, <2>1 DEF create_learning_db
  <2>3. Learnt(index + 1) = {}
    BY <1>0, <1>2 DEF Learnt
  <2> QED  BY <1>0, <1>1, <2>1, <2>2, <2>3 DEF IInv, Slides
<1>3. CASE index >= WINDOW_SIZE
  <2>1. /\ Len(sliding_window) = WINDOW_SIZE
        /\ Append(Tail(sliding_window), df[index + 1]) = SubSeq(df, Start(index + 1), index + 1)
    BY <1>0, <1>3, Slip, Zenon
  <2>2. /\ db' = db \cup {create_BoSC(sliding_window, syscall_LUT)}
        /\ sliding_window' = Append(Tail(sliding_window), df[index + 1])
    BY <1>0, <2>1, Zenon DEF create_learning_db
  <2>3. create_BoSC(sliding_window, syscall_LUT) = BagAt(index + 1 - WINDOW_SIZE)
    <3>1. Start(index) = index + 1 - WINDOW_SIZE
      BY <1>0, <1>3 DEF Start
    <3>2. index + 1 - WINDOW_SIZE + WINDOW_SIZE - 1 = index
      BY <1>0
    <3> QED  BY <1>0, <3>1, <3>2 DEF BagAt
  <2>4. Learnt(index + 1) = Learnt(index) \cup {BagAt(index + 1 - WINDOW_SIZE)}
    <3> DEFINE A == 1..(index - WINDOW_SIZE)
               B == 1..(index + 1 - WINDOW_SIZE)
               k == index + 1 - WINDOW_SIZE
    <3>1. B = A \cup {k}
      BY <1>0, <1>3
    <3> DEFINE n == index + 1
    <3>2. Learnt(index) = {BagAt(i) : i \in A}
      BY DEF Learnt
    <3>3. Learnt(n) = {BagAt(i) : i \in B}
      <4>1. B = 1..(n - WINDOW_SIZE)
        BY <1>0
      <4> HIDE DEF n, B
      <4> QED  BY <4>1 DEF Learnt
    <3> HIDE DEF A, B, k
    <3>4. {BagAt(i) : i \in B} = {BagAt(i) : i \in A} \cup {BagAt(k)}
      BY <3>1
    <3>5. Learnt(index + 1) = Learnt(index) \cup {BagAt(k)}
      BY <3>2, <3>3, <3>4, Zenon
    <3> QED  BY <3>5 DEF k
  <2>5. Learnt(index) \subseteq db
    BY DEF IInv
  <2>6. Slides'
    <3>1. sliding_window' = SubSeq(df', Start(index'), index')
      BY <1>0, <2>1, <2>2, Zenon
    <3>2. df' \in Seq(Names) /\ csv' \in Seq(Names) /\ index' \in 0..Len(df')
      BY <1>0 DEF Slides, IInv
    <3> QED  BY <1>0, <3>1, <3>2, Zenon DEF Slides
  <2>7. db' = db \cup Learnt(index + 1)
    BY <2>2, <2>3, <2>4, <2>5, Zenon
  <2> QED  BY <1>1, <2>6, <2>7
<1> QED  BY <1>0, <1>2, <1>3

\* Every other step leaves the database alone, and either the learner too or
\* puts it before its first row.
LEMMA OtherSteps ==
  ASSUME IInv, [Next]_vars, ~create_learning_db
  PROVE  IInv' /\ db' = db
<1>0. WINDOW_SIZE \in Nat \ {0}
  BY LearningAssumption
<1>1. CASE create_csv_file \/ process_syscall \/ create_lookup_table \/ UNCHANGED vars
  <2>1. UNCHANGED <<db, df, index, syscall_LUT, sliding_window>>
    BY <1>1 DEF create_csv_file, process_syscall, create_lookup_table, vars, learner, files
  <2>2. csv' \in Seq(Names)
    <3>1. csv \in Seq(Names)
      BY DEF IInv, Slides
    <3>2. csv' = csv \/ csv' = <<>> \/ \E name \in Names : csv' = Append(csv, name)
      BY <1>1 DEF create_csv_file, process_syscall, create_lookup_table, vars, files
    <3>3. \A name \in Names : Append(csv, name) \in Seq(Names)
      BY <3>1
    <3>4. <<>> \in Seq(Names)
      OBVIOUS
    <3> QED  BY <3>1, <3>2, <3>3, <3>4, Zenon
  <2>3. pc' # "rows" => pc # "rows"
    BY <1>1 DEF create_csv_file, process_syscall, create_lookup_table, vars, learner
  <2> QED  BY <2>1, <2>2, <2>3 DEF IInv, Slides, Learnt, BagAt, Start
<1>2. CASE load_lookup_table \/ Stop
  <2>1. /\ index' = 0 /\ sliding_window' = <<>> /\ db' = db
        /\ df' \in Seq(Names) /\ csv' \in Seq(Names)
        /\ pc' # "rows" => df' = <<>>
    <3>1. CASE load_lookup_table
      <4>1. index = 0 /\ df = <<>>
        BY <3>1 DEF load_lookup_table, IInv, Slides
      <4>2. sliding_window = <<>>
        BY <1>0, <4>1 DEF IInv, Slides, Start
      <4> QED  BY <3>1, <4>2 DEF load_lookup_table, files, IInv, Slides
    <3>2. CASE Stop
      BY <3>2 DEF Stop, files, IInv, Slides
    <3> QED  BY <1>2, <3>1, <3>2
  <2>2. Learnt(index)' = {}
    BY <1>0, <2>1 DEF Learnt
  <2>3. SubSeq(df', Start(0), 0) = <<>>
    BY <1>0, <2>1 DEF Start
  <2> QED  BY <1>0, <2>1, <2>2, <2>3 DEF IInv, Slides, Start
<1> QED  BY <1>1, <1>2 DEF Next

\* The invariant holds initially.
LEMMA InitIInv == Init => IInv
<1> SUFFICES ASSUME Init PROVE IInv
  OBVIOUS
<1>1. WINDOW_SIZE \in Nat \ {0} /\ df = <<>> /\ csv = <<>> /\ index = 0 /\ sliding_window = <<>>
  BY LearningAssumption DEF Init
<1>2. Learnt(index) = {}
  BY <1>1 DEF Learnt
<1> QED  BY <1>1, <1>2 DEF IInv, Slides, Start

\* Steps keep the invariant and add to the database only what Learnt says.
LEMMA Step ==
  ASSUME IInv, [Next]_vars
  PROVE  IInv' /\ db \subseteq db' /\ db' \subseteq db \cup Learnt(index)'
<1>1. CASE create_learning_db
  BY <1>1, Round DEF IInv
<1>2. CASE ~create_learning_db
  BY <1>2, OtherSteps
<1> QED  BY <1>1, <1>2

\* create_learning_db misses no window but the last, whatever happens to the
\* files meanwhile and however often learners are killed and run again.
THEOREM Complete == Spec => []WindowsLearnt
<1>1. IInv => WindowsLearnt
  BY DEF IInv, WindowsLearnt
<1>2. IInv /\ [Next]_vars => IInv'
  BY Step
<1> QED  BY <1>1, <1>2, InitIInv, PTL DEF Spec

\* create_learning_db adds bags of windows of the rows it read, and no step of
\* the tracer or of a learner removes one.
THEOREM Sound == Spec => OnlyWindowsLearnt
<1>1. IInv /\ [Next]_vars => [db \subseteq db' /\ db' \subseteq db \cup Learnt(index)']_vars
  <2> SUFFICES ASSUME IInv, [Next]_vars
               PROVE  db \subseteq db' /\ db' \subseteq db \cup Learnt(index)'
    BY Step DEF OnlyWindowsLearnt
  <2> QED  BY Step
<1>2. IInv /\ [Next]_vars => IInv'
  BY Step
<1> QED  BY <1>1, <1>2, InitIInv, PTL DEF Spec, OnlyWindowsLearnt

-----------------------------------------------------------------------------
(* create_BoSC counts. *)

\* A set of numbers that holds 0, and with every number the next, holds all.
LEMMA Induction ==
  ASSUME NEW T, 0 \in T, \A n \in Nat : n \in T => n + 1 \in T
  PROVE  Nat \subseteq T
<1> SUFFICES ASSUME Nat \ T # {} PROVE FALSE
  OBVIOUS
<1> DEFINE Less == {ss \in Nat \X Nat : ss[1] < ss[2]}
<1>1. \A m, n \in Nat : m < n => <<m, n>> \in Less
  OBVIOUS
<1>2. IsWellFoundedOn(Less, Nat)
  BY NatLessThanWellFounded DEF OpToRel
<1> HIDE DEF Less
<1>3. PICK x \in Nat \ T : \A y \in Nat \ T : ~(<<y, x>> \in Less)
  <2>1. Nat \ T \subseteq Nat
    OBVIOUS
  <2> QED BY <1>2, <2>1, WFMin, Zenon
<1>4. x # 0 /\ x - 1 \in Nat /\ x - 1 < x
  OBVIOUS
<1>5. x - 1 \in T
  BY <1>1, <1>3, <1>4, Zenon
<1> QED BY <1>3, <1>4, <1>5

\* The calls among the first n that have place i.
At(place, n, i) == {k \in 1..n : place[k] = i}

LEMMA AtIsFinite ==
  ASSUME NEW place, NEW n \in Nat, NEW i
  PROVE  IsFiniteSet(At(place, n, i)) /\ Cardinality(At(place, n, i)) \in Nat
<1>1. IsFiniteSet(1..n)
  BY FS_Interval
<1>2. At(place, n, i) \subseteq 1..n
  BY DEF At
<1>3. IsFiniteSet(At(place, n, i))
  BY <1>1, <1>2, FS_Subset
<1> QED BY <1>3, FS_CardinalityType

\* One call more.
LEMMA AtOneMore ==
  ASSUME NEW place, NEW n \in Nat, NEW i
  PROVE  Cardinality(At(place, n + 1, i)) =
           Cardinality(At(place, n, i)) + (IF place[n + 1] = i THEN 1 ELSE 0)
<1>1. CASE place[n + 1] = i
  <2>1. At(place, n + 1, i) = At(place, n, i) \cup {n + 1} /\ n + 1 \notin At(place, n, i)
    BY <1>1 DEF At
  <2> QED BY <1>1, <2>1, AtIsFinite, FS_AddElement
<1>2. CASE place[n + 1] # i
  <2>1. At(place, n + 1, i) = At(place, n, i)
    BY <1>2 DEF At
  <2> QED BY <1>2, <2>1, AtIsFinite
<1> QED BY <1>1, <1>2

\* How often each of the places 1..K occurs among the first n calls.
Bag(place, K, n) == [i \in 1..K |-> Cardinality(At(place, n, i))]

LEMMA BagOneMore ==
  ASSUME NEW K \in Nat, NEW n \in Nat, NEW place, place[n + 1] \in 1..K
  PROVE  Bag(place, K, n + 1) = [Bag(place, K, n) EXCEPT ![place[n + 1]] = @ + 1]
<1> DEFINE p == place[n + 1]
           b == Bag(place, K, n)
<1>1. b = [i \in 1..K |-> Cardinality(At(place, n, i))]
  BY DEF Bag
<1>2. \A i \in 1..K : Cardinality(At(place, n + 1, i)) = IF i = p THEN b[i] + 1 ELSE b[i]
  <2> TAKE i \in 1..K
  <2>1. b[i] = Cardinality(At(place, n, i)) /\ b[i] \in Nat
    BY <1>1, AtIsFinite
  <2>2. Cardinality(At(place, n + 1, i)) = b[i] + (IF p = i THEN 1 ELSE 0)
    BY <2>1, AtOneMore
  <2> HIDE DEF b, p
  <2> QED BY <2>1, <2>2
<1>3. [b EXCEPT ![p] = @ + 1] = [i \in 1..K |-> IF i = p THEN b[i] + 1 ELSE b[i]]
  <2> HIDE DEF b, p
  <2> QED BY <1>1
<1> QED BY <1>2, <1>3 DEF Bag

LEMMA BagOfNone ==
  ASSUME NEW K \in Nat, NEW place
  PROVE  Bag(place, K, 0) = [i \in 1..K |-> 0]
<1>1. \A i : At(place, 0, i) = {}
  BY DEF At
<1> QED BY <1>1, FS_EmptySet DEF Bag

\* A loop that starts from an empty bag and adds one call at a time counts them.
Adds(bag, place, K, L) ==
  bag = [n \in 0..L |-> IF n = 0 THEN [i \in 1..K |-> 0] ELSE [bag[n - 1] EXCEPT ![place[n]] = @ + 1]]

LEMMA AddsCounts ==
  ASSUME NEW K \in Nat, NEW L \in Nat, NEW place, \A n \in 1..L : place[n] \in 1..K,
         NEW bag, Adds(bag, place, K, L)
  PROVE  \A n \in 0..L : bag[n] = Bag(place, K, n)
<1> DEFINE T == {n \in Nat : n <= L => bag[n] = Bag(place, K, n)}
<1>1. 0 \in T
  BY BagOfNone DEF Adds
<1>2. ASSUME NEW n \in Nat, n \in T PROVE n + 1 \in T
  <2> SUFFICES ASSUME n + 1 <= L PROVE bag[n + 1] = Bag(place, K, n + 1)
    OBVIOUS
  <2>1. n + 1 \in 0..L /\ n + 1 # 0 /\ (n + 1) - 1 = n /\ n + 1 \in 1..L
    OBVIOUS
  <2>2. bag[n + 1] = [bag[n] EXCEPT ![place[n + 1]] = @ + 1]
    BY <2>1, Zenon DEF Adds
  <2>3. bag[n] = Bag(place, K, n)
    BY <1>2, <2>1
  <2> QED BY <2>1, <2>2, <2>3, BagOneMore
<1> HIDE DEF T
<1>3. Nat \subseteq T
  BY <1>1, <1>2, Induction
<1> QED BY <1>3 DEF T

LEMMA SomethingAdds ==
  ASSUME NEW K \in Nat, NEW L \in Nat, NEW place, \A n \in 1..L : place[n] \in 1..K
  PROVE  \E bag : Adds(bag, place, K, L)
<1> DEFINE b == [n \in 0..L |-> Bag(place, K, n)]
<1>1. \A n \in 0..L : b[n] = IF n = 0 THEN [i \in 1..K |-> 0] ELSE [b[n - 1] EXCEPT ![place[n]] = @ + 1]
  <2> SUFFICES ASSUME NEW n \in 0..L, n # 0 PROVE b[n] = [b[n - 1] EXCEPT ![place[n]] = @ + 1]
    BY BagOfNone
  <2>1. n - 1 \in Nat /\ (n - 1) + 1 = n /\ n - 1 \in 0..L /\ n \in 1..L
    OBVIOUS
  <2>2. \A m \in Nat : m + 1 = n =>
          Bag(place, K, m + 1) = [Bag(place, K, m) EXCEPT ![place[m + 1]] = @ + 1]
    BY <2>1, BagOneMore
  <2>3. Bag(place, K, n) = [Bag(place, K, n - 1) EXCEPT ![place[n]] = @ + 1]
    BY <2>1, <2>2, Zenon
  <2> QED BY <2>1, <2>3
<1>2. b = [n \in 0..L |-> IF n = 0 THEN [i \in 1..K |-> 0] ELSE [b[n - 1] EXCEPT ![place[n]] = @ + 1]]
  <2>1. b = [n \in 0..L |-> b[n]]
    OBVIOUS
  <2> HIDE DEF b
  <2> QED BY <1>1, <2>1, Zenon
<1> QED BY <1>2, Zenon DEF Adds

LEMMA TablePlaces ==
  ASSUME NEW table \in Tables, NEW s
  PROVE  /\ Len(table) \in Nat /\ table \in Seq(Names) /\ Place(table, s) \in 1..(Len(table) + 1)
         /\ \A i \in 1..Len(table) : Place(table, s) = i <=> s = table[i]
         /\ Place(table, s) = Len(table) + 1 <=> s \notin ToSet(table)
<1>1. PICK n \in 0..Cardinality(Names) : table \in [1..n -> Names]
  BY DEF Tables
<1>2. Cardinality(Names) \in Nat
  BY LearningAssumption, FS_CardinalityType
<1>3. table \in Seq(Names) /\ Len(table) = n /\ n \in Nat /\ DOMAIN table = 1..n
  BY <1>1, <1>2
<1>4. \A i, j \in 1..n : table[i] = table[j] => i = j
  BY <1>3 DEF Tables, IsInjective
<1>5. ToSet(table) = {table[i] : i \in 1..n}
  BY <1>3 DEF ToSet
<1>6. CASE s \in ToSet(table)
  <2>1. PICK i \in 1..n : table[i] = s
    BY <1>5, <1>6
  <2>2. Place(table, s) \in 1..n /\ table[Place(table, s)] = s
    BY <1>3, <1>6, <2>1 DEF Place
  <2> QED BY <1>3, <1>4, <1>6, <2>2
<1>7. CASE s \notin ToSet(table)
  <2>1. Place(table, s) = n + 1
    BY <1>3, <1>7 DEF Place
  <2> QED BY <1>3, <1>5, <1>7, <2>1
<1> QED BY <1>6, <1>7

\* create_BoSC counts, for every window and table.
LEMMA BagCounts ==
  ASSUME NEW window \in Seq(Names), NEW table \in Tables
  PROVE  create_BoSC(window, table) = Counts(window, table)
<1> DEFINE K == Len(table) + 1
           L == Len(window)
           place == [n \in 1..L |-> Place(table, window[n])]
           bag == CHOOSE b : b = [n \in 0..L |-> IF n = 0 THEN [i \in 1..K |-> 0]
                                ELSE [b[n - 1] EXCEPT ![Place(table, window[n])] = @ + 1]]
<1>1. K \in Nat /\ L \in Nat /\ DOMAIN window = 1..L
  BY TablePlaces
<1>2. \A n \in 1..L : place[n] = Place(table, window[n]) /\ place[n] \in 1..K
  BY TablePlaces
<1>3. create_BoSC(window, table) = bag[L]
  BY DEF create_BoSC
<1>4. \A b : Adds(b, place, K, L) <=>
             b = [n \in 0..L |-> IF n = 0 THEN [i \in 1..K |-> 0]
                                ELSE [b[n - 1] EXCEPT ![Place(table, window[n])] = @ + 1]]
  <2> TAKE b
  <2>1. \A n \in 0..L : n # 0 => place[n] = Place(table, window[n])
    BY <1>1, <1>2
  <2> HIDE DEF K, L, place
  <2>2. [n \in 0..L |-> IF n = 0 THEN [i \in 1..K |-> 0] ELSE [b[n - 1] EXCEPT ![place[n]] = @ + 1]]
        = [n \in 0..L |-> IF n = 0 THEN [i \in 1..K |-> 0]
                                ELSE [b[n - 1] EXCEPT ![Place(table, window[n])] = @ + 1]]
    BY <2>1
  <2> QED BY <2>2, Zenon DEF Adds
<1> HIDE DEF place
<1>5. Adds(bag, place, K, L)
  <2> HIDE DEF K, L
  <2>1. PICK b : Adds(b, place, K, L)
    BY <1>1, <1>2, SomethingAdds, Zenon
  <2> QED BY <2>1, <1>4, Zenon
<1> HIDE DEF bag, K, L
<1>6. bag[L] = Bag(place, K, L)
  <2>1. L \in 0..L
    BY <1>1
  <2>2. \A n \in 1..L : place[n] \in 1..K
    BY <1>2
  <2>3. \A b : Adds(b, place, K, L) => \A n \in 0..L : b[n] = Bag(place, K, n)
    BY <1>1, <2>2, AddsCounts, Zenon
  <2> QED BY <2>1, <2>3, <1>5
<1>7. \A i \in 1..K : At(place, L, i) = {k \in DOMAIN window :
                    IF i <= Len(table) THEN window[k] = table[i]
                    ELSE window[k] \notin ToSet(table)}
  <2> TAKE i \in 1..K
  <2>1. \A k \in 1..L : place[k] = i <=> IF i <= Len(table) THEN window[k] = table[i]
                                         ELSE window[k] \notin ToSet(table)
    BY <1>1, <1>2, TablePlaces DEF K
  <2> QED BY <1>1, <2>1 DEF At
<1>8. Bag(place, K, L) = Counts(window, table)
  BY <1>7, Zenon DEF Bag, Counts, K
<1> QED BY <1>3, <1>6, <1>8

\* Tables are tables: distinct names.
Loaded == lut_csv \in Tables /\ syscall_LUT \in Tables

LEMMA LoadedAlways == Spec => []Loaded
<1>1. <<>> \in Tables
  <2>1. Cardinality(Names) \in Nat
    BY LearningAssumption, FS_CardinalityType
  <2>2. 0 \in 0..Cardinality(Names) /\ <<>> \in [1..0 -> Names]
    BY <2>1
  <2> QED BY <2>2 DEF Tables, IsInjective
<1>2. Init => Loaded
  BY <1>1 DEF Init, Loaded
<1>3. Loaded /\ [Next]_vars => Loaded'
  BY <1>1 DEF Loaded, Next, vars, files, learner, create_csv_file, process_syscall, create_lookup_table,
            load_lookup_table, create_learning_db, Stop
<1> QED BY <1>2, <1>3, PTL DEF Spec

\* Whatever the trace and the table are, a table older than the trace included:
\* create_BoSC makes the bag that has, for every call of the table, the number
\* of times it is in the window, and the number of calls that are not in it.
THEOREM BagsAreCounts == Spec => []BagsCounted
<1>1. Slides => sliding_window \in Seq(Names)
  BY LearningAssumption DEF Slides, Start
<1>2. IInv /\ Loaded => BagsCounted
  BY <1>1, BagCounts DEF IInv, Loaded, BagsCounted
<1>3. Spec => []IInv
  BY InitIInv, Step, PTL DEF Spec
<1> QED BY <1>2, <1>3, LoadedAlways, PTL
=============================================================================
