-------------------------- MODULE BagServerProofs ---------------------------
(***************************************************************************)
(* The analysis server.  For any number of connected tracers: racing       *)
(* increments never invent an anomaly, and a window that the races have    *)
(* made too long is never judged again; with two of them the window grows  *)
(* at most one call too long.  With a single tracer the server keeps the   *)
(* promise of BagWindow and counts every anomaly it shows.                 *)
(***************************************************************************)
EXTENDS BagServer, FiniteSetTheorems, TLAPS

\* A step that leaves the shared state alone and thread c with well-typed locals.
LEMMA LocalStep ==
  ASSUME TypeOK, NEW c \in Clients, NEW r \in Locals,
         thread' = [thread EXCEPT ![c] = r], UNCHANGED shared
  PROVE  TypeOK'
<1>1. Locals' = Locals
  BY DEF Locals, shared
<1>2. thread' \in [Clients -> Locals]
  BY DEF TypeOK
<1> QED
  BY <1>1, <1>2 DEF TypeOK, shared

\* Thread c's locals after an assignment to its pc.
LEMMA PcType ==
  ASSUME TypeOK, NEW c \in Clients, NEW p \in Steps
  PROVE  [thread[c] EXCEPT !.pc = p] \in Locals
<1>1. thread[c] \in Locals
  BY DEF TypeOK
<1> QED
  BY <1>1, SMTT(40) DEF Locals

\* A thread that leaves append_BoSC.
LEMMA OutsideType ==
  ASSUME TypeOK, NEW c \in Clients
  PROVE  Outside(thread[c].handled) \in Locals
<1>1. thread[c] \in Locals
  BY DEF TypeOK
<1>2. 1 \in DOMAIN lists
  BY DEF TypeOK
<1> QED
  BY <1>1, <1>2 DEF Locals, Outside, Steps

\* Loading self.sliding_window.
LEMMA LoadType ==
  ASSUME TypeOK, NEW c \in Clients, NEW from, NEW to \in Steps, Load(c, from, to)
  PROVE  TypeOK'
<1> DEFINE r == [thread[c] EXCEPT !.pc = to, !.ref = sliding_window]
<1>1. thread[c] \in Locals
  BY DEF TypeOK
<1>2. r \in Locals
  BY <1>1, ZenonT(40) DEF Locals, TypeOK
<1>3. thread' = [thread EXCEPT ![c] = r]
  BY ZenonT(40) DEF Load, TypeOK
<1> QED
  BY <1>2, <1>3, LocalStep, ZenonT(40) DEF Load

\* Types are kept by every step of a thread.
LEMMA TypeStep == TypeOK /\ [Next]_vars => TypeOK'
<1> SUFFICES ASSUME TypeOK, [Next]_vars PROVE TypeOK'
  OBVIOUS
<1>1. CASE UNCHANGED vars
  BY <1>1 DEF vars, shared, TypeOK, Locals
<1>2. ASSUME NEW c \in Clients, NextToken(c) PROVE TypeOK'
  <2>1. PICK s \in Syscalls :
          thread' = [thread EXCEPT ![c].pc = "test", ![c].syscall = <<s>>, ![c].handled = @ + 1]
    BY <1>2, Zenon DEF NextToken
  <2> DEFINE r == [thread[c] EXCEPT !.pc = "test", !.syscall = <<s>>,
                                    !.handled = thread[c].handled + 1]
  <2>2. thread[c] \in Locals /\ thread[c].handled < MaxTokens
    BY <1>2 DEF TypeOK, NextToken
  <2>3. thread[c].handled + 1 \in 0..MaxTokens /\ <<s>> \in Seq(Syscalls)
    BY <2>2, ServerAssumption DEF Locals
  <2>4. r \in Locals
    BY <2>2, <2>3, ZenonT(40) DEF Locals, Steps
  <2>5. thread' = [thread EXCEPT ![c] = r]
    BY <2>1, ZenonT(40) DEF TypeOK
  <2> QED
    BY <1>2, <2>4, <2>5, LocalStep, ZenonT(40) DEF NextToken
<1>3. ASSUME NEW c \in Clients, TestFull(c) PROVE TypeOK'
  <2> DEFINE p == IF Len(Window) = WINDOW_SIZE THEN "bag" ELSE "test_less"
  <2>1. p \in Steps
    BY DEF Steps
  <2>2. thread' = [thread EXCEPT ![c] = [thread[c] EXCEPT !.pc = p]]
    BY <1>3 DEF TestFull, Jump, TypeOK
  <2> QED
    BY <1>3, <2>1, <2>2, PcType, LocalStep, ZenonT(40) DEF TestFull, Jump
<1>4. ASSUME NEW c \in Clients, TestLess(c) PROVE TypeOK'
  <2>1. "grow" \in Steps
    BY DEF Steps
  <2>2. \/ thread' = [thread EXCEPT ![c] = [thread[c] EXCEPT !.pc = "grow"]]
        \/ thread' = [thread EXCEPT ![c] = Outside(thread[c].handled)]
    BY <1>4 DEF TestLess, TypeOK
  <2> QED
    BY <1>4, <2>1, <2>2, PcType, OutsideType, LocalStep DEF TestLess
<1>5. ASSUME NEW c \in Clients, create_BoSC(c) PROVE TypeOK'
  <2>1. CASE Load(c, "bag", "bag_read")
    BY <2>1, LoadType DEF Steps
  <2>2. CASE /\ judged' = Append(judged, lists[thread[c].ref])
             /\ thread' = [thread EXCEPT ![c].pc = "slice"]
             /\ UNCHANGED <<lists, sliding_window, anomalyCount>>
    <3>1. thread' = [thread EXCEPT ![c] = [thread[c] EXCEPT !.pc = "slice"]]
      BY <2>2 DEF TypeOK
    <3>2. [thread[c] EXCEPT !.pc = "slice"] \in Locals
      BY PcType, Zenon DEF Steps
    <3>3. thread' \in [Clients -> Locals]
      BY <3>1, <3>2 DEF TypeOK
    <3>4. thread[c].ref \in DOMAIN lists
      BY DEF TypeOK, Locals
    <3>5. judged' \in Seq(Seq(Syscalls))
      BY <2>2, <3>4 DEF TypeOK
    <3>6. Locals' = Locals
      BY <2>2 DEF Locals
    <3> QED
      BY <2>2, <3>3, <3>5, <3>6 DEF TypeOK
  <2> QED
    BY <1>5, <2>1, <2>2 DEF create_BoSC
<1>6. ASSUME NEW c \in Clients, Slide(c) PROVE TypeOK'
  <2>0. thread[c] \in Locals
    BY DEF TypeOK
  <2>1. CASE Load(c, "slice", "slice_read")
    BY <2>1, LoadType DEF Steps
  <2>2. CASE /\ LET list == lists[thread[c].ref]
                IN  thread' = [thread EXCEPT ![c].pc = "assign",
                                             ![c].slice = SubSeq(list, 2, Len(list))]
             /\ UNCHANGED shared
    <3> DEFINE list == lists[thread[c].ref]
               r == [thread[c] EXCEPT !.pc = "assign", !.slice = SubSeq(list, 2, Len(list))]
    <3>1. list \in Seq(Syscalls)
      BY <2>0 DEF TypeOK, Locals
    <3>2. SubSeq(list, 2, Len(list)) \in Seq(Syscalls)
      BY <3>1
    <3>3. r \in Locals
      BY <2>0, <3>2, ZenonT(40) DEF Locals, Steps
    <3>4. thread' = [thread EXCEPT ![c] = r]
      BY <2>2, ZenonT(40) DEF TypeOK
    <3> QED
      BY <2>2, <3>3, <3>4, LocalStep, ZenonT(40)
  <2>3. CASE /\ lists' = Append(lists, thread[c].slice)
             /\ sliding_window' = Len(lists) + 1
             /\ thread' = [thread EXCEPT ![c].pc = "append", ![c].slice = <<>>]
             /\ UNCHANGED <<anomalyCount, judged>>
    <3> DEFINE r == [thread[c] EXCEPT !.pc = "append", !.slice = <<>>]
    <3>1. lists' \in Seq(Seq(Syscalls)) /\ sliding_window' \in DOMAIN lists'
          /\ DOMAIN lists \subseteq DOMAIN lists'
      <4>1. thread[c].slice \in Seq(Syscalls) /\ lists \in Seq(Seq(Syscalls))
        BY <2>0 DEF TypeOK, Locals
      <4>2. /\ lists' \in Seq(Seq(Syscalls)) /\ Len(lists') = Len(lists) + 1
            /\ DOMAIN lists = 1..Len(lists) /\ DOMAIN lists' = 1..Len(lists')
        BY <2>3, <4>1
      <4>3. Len(lists) \in Nat
        BY <4>1
      <4> QED
        BY <2>3, <4>2, <4>3
    <3>0. <<>> \in Seq(Syscalls)
      OBVIOUS
    <3>2. r \in Locals
      BY <2>0, <3>0, ZenonT(40) DEF Locals, Steps
    <3>3. thread' = [thread EXCEPT ![c] = r]
      BY <2>3, ZenonT(40) DEF TypeOK
    <3>4. ASSUME NEW t \in Locals PROVE t \in Locals'
      BY <3>1 DEF Locals
    <3>5. thread' \in [Clients -> Locals']
      BY <3>2, <3>3, <3>4 DEF TypeOK
    <3> QED
      BY <2>3, <3>1, <3>5 DEF TypeOK
  <2> QED
    BY <1>6, <2>1, <2>2, <2>3 DEF Slide
<1>7. ASSUME NEW c \in Clients, AppendTo(c) PROVE TypeOK'
  <2>0. thread[c] \in Locals
    BY DEF TypeOK
  <2>1. CASE Load(c, "append", "append_write") \/ Load(c, "grow", "grow_write")
    BY <2>1, LoadType, SMTT(40) DEF Steps
  <2>2. CASE /\ lists' = [lists EXCEPT ![thread[c].ref] = @ \o thread[c].syscall]
             /\ thread' = [thread EXCEPT ![c] = IF @.pc = "append_write"
                                                THEN [@ EXCEPT !.pc = "verdict"]
                                                ELSE Outside(@.handled)]
             /\ UNCHANGED <<sliding_window, anomalyCount, judged>>
    <3>1. lists' \in Seq(Seq(Syscalls)) /\ DOMAIN lists' = DOMAIN lists
      <4>1. thread[c].ref \in DOMAIN lists /\ thread[c].syscall \in Seq(Syscalls)
        BY <2>0 DEF Locals
      <4>2. lists[thread[c].ref] \o thread[c].syscall \in Seq(Syscalls)
        BY <4>1 DEF TypeOK
      <4> QED
        BY <2>2, <4>1, <4>2, SMTT(40) DEF TypeOK
    <3>2. Locals' = Locals
      BY <3>1 DEF Locals
    <3>3. "verdict" \in Steps
      BY DEF Steps
    <3>4. thread' \in [Clients -> Locals]
      BY <2>2, <3>3, PcType, OutsideType, SMTT(40) DEF TypeOK
    <3> QED
      BY <2>2, <3>1, <3>2, <3>4, SMTT(40) DEF TypeOK
  <2> QED
    BY <1>7, <2>1, <2>2, ZenonT(40) DEF AppendTo
<1>8. ASSUME NEW c \in Clients, Verdict(c) PROVE TypeOK'
  <2>1. "count" \in Steps
    BY DEF Steps
  <2>2. \/ thread' = [thread EXCEPT ![c] = [thread[c] EXCEPT !.pc = "count"]]
        \/ thread' = [thread EXCEPT ![c] = Outside(thread[c].handled)]
    BY <1>8, ZenonT(40) DEF Verdict, TypeOK
  <2> QED
    BY <1>8, <2>1, <2>2, PcType, OutsideType, LocalStep, ZenonT(40) DEF Verdict
<1>9. ASSUME NEW c \in Clients, Count(c) PROVE TypeOK'
  <2>0. thread[c] \in Locals
    BY DEF TypeOK
  <2>1. CASE /\ thread' = [thread EXCEPT ![c].pc = "count_write", ![c].count = anomalyCount]
             /\ UNCHANGED shared
    <3> DEFINE r == [thread[c] EXCEPT !.pc = "count_write", !.count = anomalyCount]
    <3>1. r \in Locals
      BY <2>0, ZenonT(40) DEF Locals, Steps, TypeOK
    <3>2. thread' = [thread EXCEPT ![c] = r]
      BY <2>1, ZenonT(40) DEF TypeOK
    <3> QED
      BY <2>1, <3>1, <3>2, LocalStep, ZenonT(40)
  <2>2. CASE /\ anomalyCount' = thread[c].count + 1
             /\ thread' = [thread EXCEPT ![c] = Outside(@.handled)]
             /\ UNCHANGED <<lists, sliding_window, judged>>
    <3>1. Locals' = Locals
      BY <2>2 DEF Locals
    <3>2. thread' \in [Clients -> Locals]
      BY <2>2, OutsideType DEF TypeOK
    <3>3. anomalyCount' \in Nat
      BY <2>0, <2>2 DEF Locals
    <3> QED
      BY <2>2, <3>1, <3>2, <3>3 DEF TypeOK
  <2> QED
    BY <1>9, <2>1, <2>2 DEF Count
<1> QED
  BY <1>1, <1>2, <1>3, <1>4, <1>5, <1>6, <1>7, <1>8, <1>9 DEF Next, append_BoSC

-----------------------------------------------------------------------------
(* No anomaly is invented. *)

\* The threads that have judged a window and not yet counted it.
Uncounted == {"slice", "slice_read", "assign", "append", "append_write", "verdict",
              "count", "count_write"}
Owing == {c \in Clients : thread[c].pc \in Uncounted}

\* Every judged window is counted at most once.  anomalyCount may go down, when a
\* thread stores an old value plus one, so the bound is needed for each value that
\* was read and not only for the current one.
IInv ==
  /\ TypeOK
  /\ anomalyCount + Cardinality(Owing) <= Len(judged)
  /\ \A c \in Clients :
       thread[c].pc = "count_write" => thread[c].count + Cardinality(Owing) <= Len(judged)

\* There are finitely many of them.
LEMMA OwingFinite == IsFiniteSet(Owing) /\ Cardinality(Owing) \in Nat
BY ServerAssumption, FS_Subset, FS_CardinalityType, SMTT(40) DEF Owing

\* A step of thread c that judges nothing and counts nothing, and with which it
\* does not come to owe anything.
LEMMA QuietStep ==
  ASSUME IInv, TypeOK', NEW c \in Clients, NEW r,
         thread' = [thread EXCEPT ![c] = r],
         r.pc \in Uncounted => thread[c].pc \in Uncounted,
         r.pc = "count_write" => r.count = anomalyCount,
         UNCHANGED <<anomalyCount, judged>>
  PROVE  IInv'
<1>0. thread \in [Clients -> Locals]
  BY DEF IInv, TypeOK
<1>1. Owing' \subseteq Owing
  BY <1>0 DEF Owing
<1>2. Cardinality(Owing') \in Nat /\ Cardinality(Owing') <= Cardinality(Owing)
  BY <1>1, OwingFinite, FS_Subset, FS_CardinalityType, SMTT(40)
<1>3. anomalyCount \in Nat /\ Len(judged) \in Nat
  BY DEF IInv, TypeOK
<1>4. ASSUME NEW d \in Clients, thread'[d].pc = "count_write"
      PROVE  thread'[d].count + Cardinality(Owing) <= Len(judged)
  BY <1>4 DEF IInv, TypeOK
<1>5. ASSUME NEW d \in Clients PROVE thread'[d].count \in Nat
  BY DEF TypeOK, Locals
<1>6. (anomalyCount + Cardinality(Owing) <= Len(judged))'
  BY <1>2, <1>3, OwingFinite DEF IInv
<1>7. ASSUME NEW d \in Clients, thread'[d].pc = "count_write"
      PROVE  thread'[d].count + Cardinality(Owing') <= Len(judged')
  BY <1>2, <1>3, <1>4, <1>5, <1>7, OwingFinite, SMTT(40)
<1> QED
  BY <1>6, <1>7 DEF IInv

\* Judging a window: one more judged, one more thread that owes.
LEMMA JudgeStep ==
  ASSUME IInv, TypeOK', NEW c \in Clients, thread[c].pc = "bag_read",
         judged' = Append(judged, lists[thread[c].ref]),
         thread' = [thread EXCEPT ![c].pc = "slice"], UNCHANGED anomalyCount
  PROVE  IInv'
<1>1. thread[c] \in Locals
  BY DEF IInv, TypeOK
<1>2. c \notin Owing /\ Owing' = Owing \cup {c}
  BY <1>1, ZenonT(40) DEF Owing, Uncounted, IInv, TypeOK, Locals
<1>3. Cardinality(Owing') = Cardinality(Owing) + 1
  BY <1>2, OwingFinite, FS_AddElement, ZenonT(40)
<1>4. Len(judged') = Len(judged) + 1 /\ Len(judged) \in Nat
  BY <1>1 DEF IInv, TypeOK, Locals
<1>5. ASSUME NEW d \in Clients, thread'[d].pc = "count_write"
      PROVE  thread[d].pc = "count_write" /\ thread'[d].count = thread[d].count
             /\ thread[d].count \in Nat
  BY <1>5 DEF IInv, TypeOK, Locals
<1>6. anomalyCount' + Cardinality(Owing') <= Len(judged')
  BY <1>3, <1>4, OwingFinite, SMTT(40) DEF IInv, TypeOK
<1>7. ASSUME NEW d \in Clients, thread'[d].pc = "count_write"
      PROVE  thread'[d].count + Cardinality(Owing') <= Len(judged')
  BY <1>3, <1>4, <1>5, <1>7, OwingFinite, SMTT(40) DEF IInv
<1> QED
  BY <1>6, <1>7 DEF IInv

\* Counting one: the thread no longer owes, whatever value it had read.
LEMMA CountStep ==
  ASSUME IInv, TypeOK', NEW c \in Clients, thread[c].pc = "count_write",
         anomalyCount' = thread[c].count + 1,
         thread' = [thread EXCEPT ![c] = Outside(@.handled)], UNCHANGED judged
  PROVE  IInv'
<1>0. thread[c] \in Locals
  BY DEF IInv, TypeOK
<1>1. thread[c].count \in Nat /\ Len(judged) \in Nat
  BY <1>0 DEF IInv, TypeOK, Locals
<1>2. c \in Owing /\ Owing' = Owing \ {c}
  BY SMTT(40) DEF Owing, Uncounted, IInv, TypeOK, Outside
<1>3. Cardinality(Owing') = Cardinality(Owing) - 1
  BY <1>2, OwingFinite, FS_RemoveElement, ZenonT(40)
<1>4. ASSUME NEW d \in Clients, thread'[d].pc = "count_write"
      PROVE  thread[d].pc = "count_write" /\ thread'[d].count = thread[d].count
             /\ thread[d].count \in Nat
  BY <1>4 DEF IInv, TypeOK, Locals, Outside
<1>5. anomalyCount' + Cardinality(Owing') <= Len(judged')
  BY <1>1, <1>3, OwingFinite, SMTT(40) DEF IInv
<1>6. ASSUME NEW d \in Clients, thread'[d].pc = "count_write"
      PROVE  thread'[d].count + Cardinality(Owing') <= Len(judged')
  BY <1>1, <1>3, <1>4, <1>6, OwingFinite, SMTT(40) DEF IInv
<1> QED
  BY <1>5, <1>6 DEF IInv

\* Loading self.sliding_window judges and counts nothing.
LEMMA LoadStep ==
  ASSUME IInv, TypeOK', NEW c \in Clients, NEW from, NEW to, Load(c, from, to),
         to # "count_write", to \in Uncounted => from \in Uncounted
  PROVE  IInv'
<1> DEFINE r == [thread[c] EXCEPT !.pc = to, !.ref = sliding_window]
<1>1. thread[c] \in Locals
  BY DEF IInv, TypeOK
<1>2. r.pc = to
  BY <1>1 DEF Locals
<1>3. thread' = [thread EXCEPT ![c] = r]
  BY ZenonT(40) DEF Load, IInv, TypeOK
<1>4. thread[c].pc = from /\ UNCHANGED <<anomalyCount, judged>>
  BY DEF Load, shared
<1> HIDE DEF r
<1> QED
  BY <1>2, <1>3, <1>4, QuietStep, ZenonT(40)

\* Every step keeps the bound.
LEMMA Step == IInv /\ [Next]_vars => IInv'
<1> SUFFICES ASSUME IInv, [Next]_vars PROVE IInv'
  OBVIOUS
<1>0. TypeOK'
  BY TypeStep DEF IInv
<1>T. thread \in [Clients -> Locals]
  BY DEF IInv, TypeOK
<1>1. CASE UNCHANGED vars
  BY <1>0, <1>1, SMTT(40) DEF vars, shared, IInv, Owing
<1>2. ASSUME NEW c \in Clients, NextToken(c) PROVE IInv'
  <2>1. PICK s \in Syscalls :
          thread' = [thread EXCEPT ![c].pc = "test", ![c].syscall = <<s>>, ![c].handled = @ + 1]
    BY <1>2, Zenon DEF NextToken
  <2> DEFINE r == thread'[c]
  <2>2. r.pc = "test" /\ thread' = [thread EXCEPT ![c] = r]
    BY <1>T, <2>1, SMTT(40) DEF Locals
  <2> QED
    BY <1>0, <1>2, <2>2, QuietStep, ZenonT(40) DEF NextToken, shared, Uncounted
<1>3. ASSUME NEW c \in Clients, TestFull(c) PROVE IInv'
  <2> DEFINE r == thread'[c]
  <2>1. r.pc \in {"bag", "test_less"} /\ thread' = [thread EXCEPT ![c] = r]
    BY <1>T, <1>3 DEF TestFull, Jump, Locals
  <2> QED
    BY <1>0, <1>3, <2>1, QuietStep, ZenonT(40) DEF TestFull, Jump, shared, Uncounted
<1>4. ASSUME NEW c \in Clients, TestLess(c) PROVE IInv'
  <2> DEFINE r == thread'[c]
  <2>1. r.pc \in {"grow", "idle"} /\ thread' = [thread EXCEPT ![c] = r]
    BY <1>T, <1>4 DEF TestLess, Outside, Locals
  <2> QED
    BY <1>0, <1>4, <2>1, QuietStep DEF TestLess, shared, Uncounted
<1>5. ASSUME NEW c \in Clients, create_BoSC(c) PROVE IInv'
  BY <1>0, <1>5, LoadStep, JudgeStep DEF create_BoSC, Uncounted
<1>6. ASSUME NEW c \in Clients, Slide(c) PROVE IInv'
  <2>1. CASE Load(c, "slice", "slice_read")
    BY <1>0, <2>1, LoadStep DEF Uncounted
  <2>2. CASE ~Load(c, "slice", "slice_read")
    <3> DEFINE r == thread'[c]
    <3>1. /\ r.pc \in {"assign", "append"} /\ thread' = [thread EXCEPT ![c] = r]
          /\ thread[c].pc \in {"slice_read", "assign"} /\ UNCHANGED <<anomalyCount, judged>>
      BY <1>T, <1>6, <2>2, SMTT(40) DEF Slide, shared, Locals
    <3> QED
      BY <1>0, <3>1, QuietStep, SMTT(40) DEF Uncounted
  <2> QED
    BY <2>1, <2>2
<1>7. ASSUME NEW c \in Clients, AppendTo(c) PROVE IInv'
  <2>1. CASE Load(c, "append", "append_write") \/ Load(c, "grow", "grow_write")
    BY <1>0, <2>1, LoadStep, SMTT(40) DEF Uncounted
  <2>2. CASE ~(Load(c, "append", "append_write") \/ Load(c, "grow", "grow_write"))
    <3> DEFINE r == thread'[c]
    <3>1. /\ \/ thread[c].pc = "append_write" /\ r.pc = "verdict"
             \/ r.pc = "idle"
          /\ thread' = [thread EXCEPT ![c] = r] /\ UNCHANGED <<anomalyCount, judged>>
      <4>1. /\ thread' = [thread EXCEPT ![c] = IF @.pc = "append_write"
                                               THEN [@ EXCEPT !.pc = "verdict"]
                                               ELSE Outside(@.handled)]
            /\ UNCHANGED <<anomalyCount, judged>>
        BY <1>7, <2>2, ZenonT(40) DEF AppendTo
      <4>2. thread \in [Clients -> Locals] /\ thread[c] \in Locals
        BY <1>T
      <4>3. r = IF thread[c].pc = "append_write" THEN [thread[c] EXCEPT !.pc = "verdict"]
                ELSE Outside(thread[c].handled)
        BY <4>1, <4>2
      <4>4. thread' = [thread EXCEPT ![c] = r]
        BY <4>1, <4>2
      <4>5. CASE thread[c].pc = "append_write"
        BY <4>1, <4>2, <4>3, <4>4, <4>5, SMTT(40) DEF Locals
      <4>6. CASE thread[c].pc # "append_write"
        <5>1. r.pc = "idle"
          BY <4>3, <4>6 DEF Outside
        <5> HIDE DEF r
        <5> QED
          BY <4>1, <4>4, <5>1, ZenonT(40)
      <4> QED
        BY <4>5, <4>6, SMTT(40)
    <3> QED
      BY <1>0, <3>1, QuietStep, SMTT(40) DEF Uncounted
  <2> QED
    BY <2>1, <2>2
<1>8. ASSUME NEW c \in Clients, Verdict(c) PROVE IInv'
  <2> DEFINE r == thread'[c]
  <2>1. r.pc \in {"count", "idle"} /\ thread' = [thread EXCEPT ![c] = r]
    BY <1>T, <1>8 DEF Verdict, Outside, Locals
  <2> QED
    BY <1>0, <1>8, <2>1, QuietStep, ZenonT(40) DEF Verdict, shared, Uncounted
<1>9. ASSUME NEW c \in Clients, Count(c) PROVE IInv'
  <2>1. CASE thread[c].pc = "count"
    <3> DEFINE r == thread'[c]
    <3>1. /\ r.count = anomalyCount /\ thread' = [thread EXCEPT ![c] = r]
          /\ UNCHANGED <<anomalyCount, judged>>
      BY <1>T, <1>9, <2>1 DEF Count, shared, Locals
    <3> QED
      BY <1>0, <2>1, <3>1, QuietStep, SMTT(40) DEF Uncounted
  <2>2. CASE thread[c].pc # "count"
    BY <1>0, <1>9, <2>2, CountStep, SMTT(40) DEF Count
  <2> QED
    BY <2>1, <2>2
<1> QED
  BY <1>1, <1>2, <1>3, <1>4, <1>5, <1>6, <1>7, <1>8, <1>9 DEF Next, append_BoSC

\* A server that has just started.
LEMMA InitIInv == Init => IInv
<1> SUFFICES ASSUME Init PROVE IInv
  OBVIOUS
<1>1. TypeOK
  <2>1. Outside(0) \in Locals
    BY ServerAssumption DEF Init, Outside, Locals, Steps
  <2>2. lists \in Seq(Seq(Syscalls)) /\ judged \in Seq(Seq(Syscalls)) /\ 1 \in DOMAIN lists
    BY DEF Init
  <2> QED
    BY <2>1, <2>2 DEF Init, TypeOK
<1>2. Owing = {}
  BY DEF Init, Outside, Owing, Uncounted
<1>3. \A c \in Clients : thread[c].pc = "idle"
  BY DEF Init, Outside
<1> QED
  BY <1>1, <1>2, <1>3, FS_EmptySet, SMTT(40) DEF Init, IInv

\* However many tracers are connected, and however their threads interleave on
\* anomalyCount, the server never counts an anomaly that no window showed.
THEOREM CountsNoPhantom == Spec => []NeverOvercounted
<1>1. IInv => NeverOvercounted
  BY OwingFinite DEF IInv, TypeOK, NeverOvercounted
<1> QED
  BY <1>1, InitIInv, Step, PTL DEF Spec

\* However many tracers are connected, once the window is too long and no thread
\* is past the length tests of append_BoSC, it never changes again.
THEOREM StaysStuck == Spec => StuckForever
<1>1. TypeOK /\ [Next]_vars => [Stuck => Stuck' /\ Window' = Window]_vars
  <2> SUFFICES ASSUME TypeOK, [Next]_vars, Stuck PROVE Stuck' /\ Window' = Window
    OBVIOUS
  <2> USE DEF Stuck
  <2>1. Len(Window) \in Nat /\ WINDOW_SIZE \in Nat
    BY ServerAssumption DEF TypeOK, Window
  <2>2. CASE UNCHANGED vars
    BY <2>2 DEF vars, shared, Window
  <2>3. ASSUME NEW c \in Clients, NextToken(c) \/ append_BoSC(c) \/ Count(c)
        PROVE  UNCHANGED shared /\ \A d \in Clients : thread'[d].pc \in {"idle", "test", "test_less"}
    <3>1. thread[c].pc \in {"idle", "test", "test_less"}
      OBVIOUS
    <3>2. NextToken(c) \/ TestFull(c) \/ TestLess(c)
      BY <2>3, <3>1, Zenon DEF append_BoSC, create_BoSC, Slide, AppendTo, Verdict, Count, Load
    <3>3. thread \in [Clients -> Locals] /\ thread[c] \in Locals
      BY DEF TypeOK
    <3>4. UNCHANGED shared
      BY <3>2, Zenon DEF NextToken, TestFull, TestLess, Jump
    <3>5. thread'[c].pc \in {"idle", "test", "test_less"}
      <4>1. CASE NextToken(c)
        BY <3>3, <4>1 DEF NextToken, Locals
      <4>2. CASE TestFull(c)
        BY <2>1, <3>3, <4>2 DEF TestFull, Jump, Locals
      <4>3. CASE TestLess(c)
        BY <2>1, <3>3, <4>3 DEF TestLess, Outside
      <4> QED
        BY <3>2, <4>1, <4>2, <4>3
    <3>6. \A d \in Clients \ {c} : thread'[d] = thread[d]
      BY <3>2, <3>3, Zenon DEF NextToken, TestFull, TestLess, Jump
    <3> QED
      BY <3>4, <3>5, <3>6
  <2> QED
    BY <2>2, <2>3 DEF Next, shared, Window
<1>2. IInv => TypeOK
  BY DEF IInv
<1> QED
  BY <1>1, <1>2, InitIInv, Step, PTL DEF Spec, StuckForever

-----------------------------------------------------------------------------
(* One tracer. *)

HoldsRef == {"bag_read", "slice_read", "append_write", "grow_write"}

(***************************************************************************)
(* Alone: what the locals of the only thread c say of the shared state.    *)
(* With nobody else to store to them, the list it has loaded is the        *)
(* window, the slice is the window without its oldest call, and the window *)
(* last judged is the one it is sliding.                                   *)
(***************************************************************************)
Counted(c) ==
  /\ Len(judged) = anomalyCount + (IF thread[c].pc \in Uncounted THEN 1 ELSE 0)
  /\ thread[c].pc = "count_write" => thread[c].count = anomalyCount

Sliding(c) ==
  /\ Len(Window) <= WINDOW_SIZE
  /\ thread[c].pc \in {"test_less", "grow", "grow_write"} => Len(Window) < WINDOW_SIZE
  /\ thread[c].pc \in {"bag", "bag_read"} => Len(Window) = WINDOW_SIZE
  /\ thread[c].pc \in HoldsRef => thread[c].ref = sliding_window
  /\ thread[c].pc # "idle" => \E s \in Syscalls : thread[c].syscall = <<s>>
  /\ InHand => judged # <<>> /\ Len(Last(judged)) = WINDOW_SIZE
  /\ thread[c].pc \in {"slice", "slice_read", "assign"} => Window = Last(judged)
  /\ thread[c].pc = "assign" => thread[c].slice = Tail(Window)
  /\ thread[c].pc \in {"append", "append_write"} => Window = Tail(Last(judged))

Alone(c) == Counted(c) /\ Sliding(c)

(***************************************************************************)
(* Effect: what one step does to the locals of its thread, t before and u  *)
(* after it, and to the shared state.                                      *)
(***************************************************************************)
Loads == {<<"bag", "bag_read">>, <<"slice", "slice_read">>,
          <<"append", "append_write">>, <<"grow", "grow_write">>}

Tests(t, u) ==
  /\ UNCHANGED shared
  /\ \/ t.pc = "idle" /\ u.pc = "test" /\ \E s \in Syscalls : u.syscall = <<s>>
     \/ t.pc = "test" /\ u.pc = "bag" /\ Len(Window) = WINDOW_SIZE /\ u.syscall = t.syscall
     \/ t.pc = "test" /\ u.pc = "test_less" /\ Len(Window) # WINDOW_SIZE /\ u.syscall = t.syscall
     \/ t.pc = "test_less" /\ u.pc = "grow" /\ Len(Window) < WINDOW_SIZE /\ u.syscall = t.syscall
     \/ t.pc = "test_less" /\ u.pc = "idle" /\ ~(Len(Window) < WINDOW_SIZE) /\ u.syscall = <<>>

Slices(t, u) ==
  /\ u.syscall = t.syscall /\ UNCHANGED anomalyCount
  /\ \/ /\ <<t.pc, u.pc>> \in Loads /\ u.ref = sliding_window
        /\ UNCHANGED shared
     \/ /\ t.pc = "bag_read" /\ u.pc = "slice"
        /\ judged' = Append(judged, lists[t.ref]) /\ UNCHANGED <<lists, sliding_window>>
     \/ /\ t.pc = "slice_read" /\ u.pc = "assign"
        /\ u.slice = SubSeq(lists[t.ref], 2, Len(lists[t.ref]))
        /\ UNCHANGED shared
     \/ /\ t.pc = "assign" /\ u.pc = "append"
        /\ lists' = Append(lists, t.slice) /\ sliding_window' = Len(lists) + 1 /\ UNCHANGED judged

Writes(t, u) ==
  /\ \/ t.pc = "append_write" /\ u.pc = "verdict" /\ u.syscall = t.syscall
     \/ t.pc = "grow_write" /\ u.pc = "idle" /\ u.syscall = <<>>
  /\ lists' = [lists EXCEPT ![t.ref] = @ \o t.syscall]
  /\ UNCHANGED <<sliding_window, anomalyCount, judged>>

Counts(t, u) ==
  /\ UNCHANGED <<lists, sliding_window, judged>>
  /\ \/ /\ t.pc = "verdict" /\ u.pc = "count" /\ u.syscall = t.syscall
        /\ UNCHANGED anomalyCount
     \/ /\ t.pc = "count" /\ u.pc = "count_write" /\ u.syscall = t.syscall
        /\ u.count = anomalyCount /\ UNCHANGED anomalyCount
     \/ /\ t.pc = "count_write" /\ u.pc = "idle" /\ u.syscall = <<>>
        /\ anomalyCount' = t.count + 1

Effect(t, u) == Tests(t, u) \/ Slices(t, u) \/ Writes(t, u) \/ Counts(t, u)

\* Every step of a thread has one of these effects, and touches no other thread.
LEMMA Effects ==
  ASSUME TypeOK, NEW c \in Clients, NextToken(c) \/ append_BoSC(c) \/ Count(c)
  PROVE  thread' = [thread EXCEPT ![c] = thread'[c]] /\ Effect(thread[c], thread'[c])
<1>0. thread \in [Clients -> Locals] /\ thread[c] \in Locals
  BY DEF TypeOK
<1> USE <1>0 DEF Effect
<1>1. CASE NextToken(c)
  <2>1. PICK s \in Syscalls :
          thread' = [thread EXCEPT ![c].pc = "test", ![c].syscall = <<s>>, ![c].handled = @ + 1]
    BY <1>1, ZenonT(40) DEF NextToken
  <2>2. thread[c].pc = "idle" /\ UNCHANGED shared
    BY <1>1, ZenonT(40) DEF NextToken
  <2>3. thread'[c].pc = "test" /\ thread'[c].syscall = <<s>>
    BY <2>1 DEF Locals
  <2>4. thread' = [thread EXCEPT ![c] = thread'[c]]
    BY <2>1, ZenonT(40)
  <2> QED BY <2>2, <2>3, <2>4, SMTT(40) DEF Tests
<1>2. CASE TestFull(c)
  BY <1>2 DEF TestFull, Jump, Tests, Locals
<1>3. CASE TestLess(c)
  <2>1. CASE Len(Window) < WINDOW_SIZE
    BY <1>3, <2>1 DEF TestLess, Tests, Locals
  <2>2. CASE ~(Len(Window) < WINDOW_SIZE)
    BY <1>3, <2>2 DEF TestLess, Tests, Outside, Locals
  <2> QED BY <2>1, <2>2
<1>4. ASSUME NEW p, NEW q, <<p, q>> \in Loads, Load(c, p, q)
      PROVE  thread' = [thread EXCEPT ![c] = thread'[c]] /\ Slices(thread[c], thread'[c])
  BY <1>4, ZenonT(40) DEF Load, Slices, Locals, shared
<1>5. CASE create_BoSC(c)
  <2>1. CASE Load(c, "bag", "bag_read")
    BY <1>4, <2>1 DEF Loads
  <2>2. CASE ~Load(c, "bag", "bag_read")
    BY <1>5, <2>2 DEF create_BoSC, Slices, Locals
  <2> QED BY <2>1, <2>2
<1>6. CASE Slide(c)
  <2>1. CASE Load(c, "slice", "slice_read")
    BY <1>4, <2>1 DEF Loads
  <2>2. CASE thread[c].pc = "slice_read"
    BY <1>6, <2>2 DEF Slide, Load, Slices, Locals, shared
  <2>3. CASE thread[c].pc = "assign"
    BY <1>6, <2>3, SMTT(40) DEF Slide, Load, Slices, Locals
  <2> QED BY <1>6, <2>1, <2>2, <2>3 DEF Slide
<1>7. CASE AppendTo(c)
  <2>1. CASE Load(c, "append", "append_write") \/ Load(c, "grow", "grow_write")
    BY <1>4, <2>1 DEF Loads
  <2>2. CASE thread[c].pc = "append_write"
    BY <1>7, <2>2 DEF AppendTo, Load, Writes, Locals
  <2>3. CASE thread[c].pc = "grow_write"
    BY <1>7, <2>3 DEF AppendTo, Load, Writes, Outside, Locals
  <2> QED BY <1>7, <2>1, <2>2, <2>3, ZenonT(40) DEF AppendTo
<1>8. CASE Verdict(c)
  BY <1>8, ServerAssumption DEF Verdict, check_existence, Counts, Locals, shared
<1>9. CASE Count(c)
  <2>1. CASE thread[c].pc = "count"
    BY <1>9, <2>1 DEF Count, Counts, Locals, shared
  <2>2. CASE thread[c].pc = "count_write"
    BY <1>9, <2>2 DEF Count, Counts, Outside, Locals
  <2> QED BY <1>9, <2>1, <2>2 DEF Count
<1> QED BY <1>1, <1>2, <1>3, <1>5, <1>6, <1>7, <1>8, <1>9, SMTT(40) DEF append_BoSC

\* One more judged window is the last one, and the rest are those before.
LEMMA LastFront ==
  ASSUME NEW S, NEW q \in Seq(S), NEW e \in S
  PROVE  Last(Append(q, e)) = e /\ Front(Append(q, e)) = q
BY DEF Last, Front

\* And the other way round.
LEMMA FrontLast ==
  ASSUME NEW S, NEW q \in Seq(S), q # <<>>
  PROVE  q = Append(Front(q), Last(q)) /\ Front(q) \in Seq(S) /\ Last(q) \in S
BY DEF Last, Front

\* The types of what a thread works with.
LEMMA ThreadTypes ==
  ASSUME TypeOK, NEW c \in Clients
  PROVE  /\ Window \in Seq(Syscalls) /\ Len(Window) \in Nat
         /\ thread[c].pc \in Steps /\ thread[c].syscall \in Seq(Syscalls)
         /\ thread[c].ref \in DOMAIN lists /\ lists[thread[c].ref] \in Seq(Syscalls)
         /\ thread[c].slice \in Seq(Syscalls) /\ Len(thread[c].slice) \in Nat
         /\ thread[c].count \in Nat
<1>1. thread[c] \in Locals
  BY DEF TypeOK
<1> QED BY <1>1, SMTT(40) DEF TypeOK, Locals, Window

\* A call appended to the list that the thread has loaded.
LEMMA Grown ==
  ASSUME TypeOK, NEW c \in Clients,
         lists' = [lists EXCEPT ![thread[c].ref] = @ \o thread[c].syscall],
         UNCHANGED sliding_window
  PROVE  /\ \A i \in DOMAIN lists : i # thread[c].ref => lists'[i] = lists[i]
         /\ lists'[thread[c].ref] = lists[thread[c].ref] \o thread[c].syscall
         /\ thread[c].ref = sliding_window => Window' = Window \o thread[c].syscall
         /\ thread[c].ref # sliding_window => Window' = Window
BY ThreadTypes, ZenonT(40) DEF TypeOK, Window

\* A slice assigned: the other lists are still there.
LEMMA Assigned ==
  ASSUME TypeOK, NEW c \in Clients, lists' = Append(lists, thread[c].slice),
         sliding_window' = Len(lists) + 1
  PROVE  /\ Window' = thread[c].slice
         /\ \A i \in DOMAIN lists : lists'[i] = lists[i] /\ i # sliding_window'
BY ThreadTypes DEF TypeOK, Window

\* Where the only thread has judged a window and not yet slid past it.
HandPcs == {"slice", "slice_read", "assign", "append", "append_write"}
LEMMA AloneInHand ==
  ASSUME NEW c, Clients = {c}
  PROVE  (InHand <=> thread[c].pc \in HandPcs) /\ (InHand' <=> thread'[c].pc \in HandPcs)
BY DEF InHand, HandPcs

\* The only thread counts what it judges.
LEMMA CountedStep ==
  ASSUME NEW c, Clients = {c}, TypeOK, Counted(c), Effect(thread[c], thread'[c])
  PROVE  Counted(c)'
<1>0. /\ anomalyCount \in Nat /\ judged \in Seq(Seq(Syscalls)) /\ Len(judged) \in Nat
      /\ thread[c].count \in Nat /\ lists[thread[c].ref] \in Seq(Syscalls)
  BY ThreadTypes DEF TypeOK
<1> USE <1>0 DEF Counted, Uncounted
<1>1. CASE Tests(thread[c], thread'[c])
  BY <1>1, SMTT(40) DEF Tests, shared
<1>2. CASE Slices(thread[c], thread'[c])
  BY <1>2 DEF Slices, Loads, shared
<1>3. CASE Writes(thread[c], thread'[c])
  <2>1. \/ thread[c].pc = "append_write" /\ thread'[c].pc = "verdict"
        \/ thread[c].pc = "grow_write" /\ thread'[c].pc = "idle"
    BY <1>3, SMTT(40) DEF Writes
  <2>2. UNCHANGED <<anomalyCount, judged>>
    BY <1>3 DEF Writes
  <2> QED BY <2>1, <2>2, SMTT(40)
<1>4. CASE Counts(thread[c], thread'[c])
  BY <1>4, SMTT(40) DEF Counts
<1> QED BY <1>1, <1>2, <1>3, <1>4 DEF Effect

\* What the server shows of its window and its verdicts between steps.
Shown == IF InHand THEN Last(judged) ELSE Window
Judged == IF InHand THEN Front(judged) ELSE judged

\* The only thread keeps its picture of the window, and each of its steps is one
\* of BagWindow or none.
LEMMA SlidingStep ==
  ASSUME NEW c, Clients = {c}, TypeOK, Sliding(c), Effect(thread[c], thread'[c])
  PROVE  /\ Sliding(c)'
         /\ (\E s \in Syscalls : Promise!Receive(s)) \/ UNCHANGED <<Shown, Judged>>
<1> DEFINE t == thread[c]
           u == thread'[c]
<1>0. /\ Window \in Seq(Syscalls) /\ Len(Window) \in Nat
      /\ judged \in Seq(Seq(Syscalls)) /\ WINDOW_SIZE \in Nat \ {0}
  BY ThreadTypes, ServerAssumption, SMTT(40) DEF TypeOK
<1>1. CASE Tests(t, u)
  <2>1. UNCHANGED <<Window, judged, sliding_window>> /\ ~InHand /\ ~InHand'
    BY <1>1, AloneInHand DEF Tests, shared, Window, HandPcs
  <2>2. UNCHANGED <<Shown, Judged>>
    BY <2>1, SMTT(40) DEF Shown, Judged
  <2>3. Sliding(c)'
    BY <1>0, <1>1, <2>1, SMTT(40) DEF Tests, Sliding, HoldsRef
  <2> QED BY <2>2, <2>3, SMTT(40)
<1>2. CASE Slices(t, u) /\ <<t.pc, u.pc>> \in Loads
  <2>1. UNCHANGED <<Window, judged, sliding_window>> /\ u.ref = sliding_window /\ u.syscall = t.syscall
    BY <1>2 DEF Slices, Loads, shared, Window
  <2>2. InHand' <=> InHand
    BY <1>2, AloneInHand DEF Loads, HandPcs
  <2>3. UNCHANGED <<Shown, Judged>>
    BY <2>1, <2>2, SMTT(40) DEF Shown, Judged
  <2>4. Sliding(c)'
    BY <1>0, <1>2, <2>1, <2>2, SMTT(40) DEF Loads, Sliding, HoldsRef
  <2> QED BY <2>3, <2>4
<1>3. CASE Slices(t, u) /\ t.pc = "bag_read"
  <2>1. /\ u.pc = "slice" /\ u.syscall = t.syscall
        /\ judged' = Append(judged, Window) /\ UNCHANGED <<Window, sliding_window>>
    BY <1>3, SMTT(40) DEF Slices, Loads, shared, Window, Sliding, HoldsRef
  <2>2. ~InHand /\ InHand'
    BY <1>3, <2>1, AloneInHand, SMTT(40) DEF HandPcs
  <2>3. Last(judged') = Window /\ Front(judged') = judged /\ judged' # <<>>
    BY <1>0, <2>1, LastFront, SMTT(40)
  <2>4. UNCHANGED <<Shown, Judged>>
    BY <2>2, <2>3, SMTT(40) DEF Shown, Judged
  <2>5. Sliding(c)'
    BY <1>0, <1>3, <2>1, <2>2, <2>3, SMTT(40) DEF Sliding, HoldsRef
  <2> QED BY <2>4, <2>5
<1>4. CASE Slices(t, u) /\ t.pc = "slice_read"
  <2>1. /\ u.pc = "assign" /\ u.syscall = t.syscall /\ u.slice = SubSeq(Window, 2, Len(Window))
        /\ UNCHANGED <<Window, sliding_window, judged>>
    BY <1>4 DEF Slices, Loads, shared, Window, Sliding, HoldsRef
  <2>2. InHand /\ InHand'
    BY <1>4, <2>1, AloneInHand, SMTT(40) DEF HandPcs
  <2>3. UNCHANGED <<Shown, Judged>>
    BY <2>1, <2>2, SMTT(40) DEF Shown, Judged
  <2>4. Len(Window) = WINDOW_SIZE
    BY <1>4, <2>2 DEF Sliding
  <2>5. u.slice = Tail(Window)
    BY <1>0, <2>1, <2>4, SMTT(40)
  <2>6. Sliding(c)'
    BY <1>0, <1>4, <2>1, <2>2, <2>5, SMTT(40) DEF Sliding, HoldsRef
  <2> QED BY <2>3, <2>6
<1>5. CASE Slices(t, u) /\ t.pc = "assign"
  <2>1. /\ u.pc = "append" /\ u.syscall = t.syscall /\ judged' = judged
        /\ lists' = Append(lists, t.slice) /\ sliding_window' = Len(lists) + 1
    BY <1>5 DEF Slices, Loads, shared
  <2>2. InHand /\ InHand'
    BY <1>5, <2>1, AloneInHand, SMTT(40) DEF HandPcs
  <2>3. Window' = Tail(Window) /\ Window = Last(judged) /\ Len(Window) = WINDOW_SIZE
    BY <1>5, <2>1, <2>2, Assigned, SMTT(40) DEF Sliding
  <2>4. Len(Window') < WINDOW_SIZE
    BY <1>0, <2>3, SMTT(40)
  <2>5. UNCHANGED <<Shown, Judged>>
    BY <2>1, <2>2, SMTT(40) DEF Shown, Judged
  <2>6. Sliding(c)'
    BY <1>0, <1>5, <2>1, <2>2, <2>3, <2>4, SMTT(40) DEF Sliding, HoldsRef
  <2> QED BY <2>5, <2>6
<1>6. CASE Writes(t, u)
  <2>1. PICK s \in Syscalls : t.syscall = <<s>>
    BY <1>6 DEF Writes, Sliding
  <2>2. Window' = Append(Window, s) /\ UNCHANGED <<judged, sliding_window>>
    <3>1. t.ref = sliding_window
      BY <1>6, SMTT(40) DEF Writes, Sliding, HoldsRef
    <3>2. Window' = Window \o t.syscall /\ UNCHANGED <<judged, sliding_window>>
      BY <1>6, <3>1, Grown, ZenonT(40) DEF Writes
    <3> QED BY <1>0, <2>1, <3>2, SMTT(40)
  <2>3. ~InHand'
    BY <1>6, AloneInHand, SMTT(40) DEF Writes, HandPcs
  <2>4. Shown' = Append(Window, s) /\ Judged' = judged
    BY <2>2, <2>3, SMTT(40) DEF Shown, Judged
  <2>5. CASE t.pc = "append_write"
    <3>1. InHand /\ u.pc = "verdict" /\ u.syscall = t.syscall
      BY <1>6, <2>5, AloneInHand, SMTT(40) DEF Writes, HandPcs
    <3>2. Window = Tail(Shown) /\ Len(Shown) = WINDOW_SIZE /\ judged # <<>>
      BY <2>5, <3>1, SMTT(40) DEF Sliding, Shown
    <3>3. judged = Append(Judged, Shown) /\ Shown \in Seq(Syscalls)
      BY <1>0, <3>1, <3>2, FrontLast, ZenonT(40) DEF Shown, Judged
    <3>4. Promise!Receive(s)
      BY <2>4, <3>2, <3>3, ZenonT(40) DEF Promise!Receive, Shown, Judged
    <3>5. Len(Window') = WINDOW_SIZE
      BY <1>0, <2>2, <3>2, <3>3
    <3>6. Sliding(c)'
      BY <2>1, <2>2, <2>3, <3>1, <3>5, SMTT(40) DEF Sliding, HoldsRef
    <3> QED BY <3>4, <3>6, SMTT(40)
  <2>6. CASE t.pc = "grow_write"
    <3>1. ~InHand /\ u.pc = "idle"
      BY <1>6, <2>6, AloneInHand, SMTT(40) DEF Writes, HandPcs
    <3>2. Shown = Window /\ Judged = judged /\ Len(Window) < WINDOW_SIZE
      BY <2>6, <3>1, SMTT(40) DEF Shown, Judged, Sliding
    <3>3. Promise!Receive(s)
      BY <2>4, <3>2, SMTT(40) DEF Promise!Receive, Shown, Judged
    <3>4. Len(Window') <= WINDOW_SIZE
      BY <1>0, <2>2, <3>2, SMTT(40)
    <3>5. Sliding(c)'
      BY <2>3, <3>1, <3>4, SMTT(40) DEF Sliding, HoldsRef
    <3> QED BY <3>3, <3>5
  <2> QED BY <1>6, <2>5, <2>6, SMTT(40) DEF Writes
<1>7. CASE Counts(t, u)
  <2>1. UNCHANGED <<Window, judged, sliding_window>> /\ ~InHand /\ ~InHand'
    BY <1>7, AloneInHand, SMTT(40) DEF Counts, Window, HandPcs
  <2>2. UNCHANGED <<Shown, Judged>>
    BY <2>1 DEF Shown, Judged
  <2>3. Sliding(c)'
    BY <1>0, <1>7, <2>1, SMTT(40) DEF Counts, Sliding, HoldsRef
  <2> QED BY <2>2, <2>3
<1> QED BY <1>1, <1>2, <1>3, <1>4, <1>5, <1>6, <1>7, ZenonT(40) DEF Effect, Slices

\* The thread of the only tracer, from the start of the server.
LEMMA AloneInvariant ==
  ASSUME NEW c, Clients = {c}
  PROVE  /\ Init => TypeOK /\ Alone(c)
         /\ TypeOK /\ Alone(c) /\ [Next]_vars => (TypeOK /\ Alone(c))'
         /\ TypeOK /\ Alone(c) /\ [Next]_vars =>
              (\E s \in Syscalls : Promise!Receive(s)) \/ UNCHANGED <<Shown, Judged>>
<1>1. Init => TypeOK /\ Alone(c)
  <2> SUFFICES ASSUME Init PROVE Alone(c)
    BY InitIInv DEF IInv
  <2>1. thread[c].pc = "idle" /\ judged = <<>> /\ anomalyCount = 0 /\ Window = <<>>
    BY DEF Init, Outside, Window
  <2>2. ~InHand
    BY <2>1, AloneInHand DEF HandPcs
  <2> QED BY <2>1, <2>2, ServerAssumption DEF Alone, Counted, Sliding, Uncounted, HoldsRef
<1>2. ASSUME TypeOK, Alone(c), [Next]_vars
      PROVE  /\ Alone(c)'
             /\ (\E s \in Syscalls : Promise!Receive(s)) \/ UNCHANGED <<Shown, Judged>>
  <2>1. CASE UNCHANGED vars
    BY <1>2, <2>1, SMTT(40) DEF vars, shared, Alone, Counted, Sliding, InHand, Window, Shown, Judged
  <2>2. CASE Next
    <3>1. Effect(thread[c], thread'[c])
      BY <1>2, <2>2, Effects DEF Next
    <3> QED BY <1>2, <3>1, CountedStep, SlidingStep, SMTT(40) DEF Alone
  <2> QED BY <1>2, <2>1, <2>2, SMTT(40)
<1> QED BY <1>1, <1>2, TypeStep

\* With one tracer connected every window judged has been counted by the time the
\* thread waits for the next token: threaded_client loses no anomaly.
THEOREM CountsEveryAnomaly ==
  ASSUME NEW c, Clients = {c}
  PROVE  Spec => []AllCounted
<1>1. TypeOK /\ Alone(c) => AllCounted
  BY DEF TypeOK, Alone, Counted, Uncounted, AllCounted
<1> QED BY <1>1, AloneInvariant, PTL DEF Spec

\* With one tracer connected append_BoSC, a dozen steps on shared state, does what
\* BagWindow says in one: it keeps the last WINDOW_SIZE calls, whatever that
\* number is, and judges every full window exactly once.
THEOREM OneClientKeepsPromise ==
  ASSUME NEW c, Clients = {c}
  PROVE  Spec => ImplementsBagWindow
<1>1. Init => Promise!Init
  BY DEF Init, Promise!Init, InHand, Window, Outside
<1>2. TypeOK /\ Alone(c) /\ [Next]_vars =>
        [\E s \in Syscalls : Promise!Receive(s)]_<<Shown, Judged>>
  BY AloneInvariant
<1> QED BY <1>1, <1>2, AloneInvariant, PTL DEF Spec, ImplementsBagWindow, Promise!Spec, Shown, Judged

-----------------------------------------------------------------------------
(* Two tracers. *)

(***************************************************************************)
(* Due: the calls a thread is about to append to the window as it is now.  *)
(* A thread that has loaded a list which is no longer the window appends   *)
(* to the old list.                                                        *)
(***************************************************************************)
Appends == {"append_write", "grow_write"}
Due(c) ==
  IF \/ thread[c].pc \in {"grow", "append"}
     \/ thread[c].pc \in Appends /\ thread[c].ref = sliding_window
  THEN 1 ELSE 0

\* Thread c has found the window full and has not replaced it yet.
Replacing(c) == thread[c].pc \in {"bag", "bag_read", "slice", "slice_read", "assign"}

\* Thread c is about neither to append nor to replace the window.
Harmless(c) == thread[c].pc \in {"idle", "test", "test_less", "verdict", "count", "count_write"}

(***************************************************************************)
(* Beside: what holds of thread c when d is the only other one.  The       *)
(* window and what is due never exceed the bound; while the window is one  *)
(* too long and c is about to replace it, d does nothing to it; and what c *)
(* is slicing is at most as long as the window itself, because the list c  *)
(* has loaded grows only while it is the window.                           *)
(***************************************************************************)
Beside(c, d) ==
  /\ Len(Window) + Due(c) + Due(d) <= WINDOW_SIZE + 1
  /\ Len(thread[c].syscall) \in {0, 1}
  /\ Replacing(c) /\ Len(Window) = WINDOW_SIZE + 1 => Harmless(d)
  /\ thread[c].pc = "slice_read" =>
       /\ Len(lists[thread[c].ref]) <= WINDOW_SIZE + 1
       /\ thread[c].ref # sliding_window =>
            /\ Len(lists[thread[c].ref]) <= WINDOW_SIZE
            /\ thread[d].pc \in Appends => thread[d].ref = sliding_window
  /\ thread[c].pc = "assign" =>
       /\ Len(thread[c].slice) <= WINDOW_SIZE
       /\ Len(thread[c].slice) = WINDOW_SIZE => Len(Window) = WINDOW_SIZE + 1

\* At most one call is due from each thread.
LEMMA DueType == \A c : Due(c) \in 0..1 /\ Due(c)' \in 0..1
BY DEF Due

\* A step of thread c that leaves the window and the lists alone.
LEMMA BesideStill ==
  ASSUME NEW c, NEW d, Beside(c, d), Beside(d, c), Len(Window) \in Nat, WINDOW_SIZE \in Nat,
         thread'[d] = thread[d], UNCHANGED <<lists, sliding_window>>,
         Len(Window) + Due(c)' + Due(d) <= WINDOW_SIZE + 1,
         Len(thread'[c].syscall) \in {0, 1},
         Len(Window) = WINDOW_SIZE + 1 =>
           (Replacing(c)' => Replacing(c)) /\ (Harmless(c) => Harmless(c)'),
         thread'[c].pc \in {"slice_read"} \cup Appends => thread'[c].ref = sliding_window,
         thread'[c].pc = "assign" =>
           /\ Len(thread'[c].slice) <= WINDOW_SIZE
           /\ Len(thread'[c].slice) = WINDOW_SIZE => Len(Window) = WINDOW_SIZE + 1
  PROVE  Beside(c, d)' /\ Beside(d, c)'
<1>1. Window' = Window /\ Due(d)' = Due(d) /\ (Replacing(d)' <=> Replacing(d))
      /\ (Harmless(d)' <=> Harmless(d))
  BY DEF Window, Due, Replacing, Harmless
<1>2. Len(Window) + Due(d) + Due(c)' <= WINDOW_SIZE + 1
  BY DueType, SMTT(40)
<1>3. Len(Window) <= WINDOW_SIZE + 1
  BY DueType DEF Beside
<1>4. thread'[c].pc = "slice_read" =>
        /\ Len(lists[thread'[c].ref]) <= WINDOW_SIZE + 1
        /\ thread'[c].ref = sliding_window
  BY <1>3, SMTT(40) DEF Window
<1>5. Beside(c, d)'
  BY <1>1, <1>4, SMTT(40) DEF Beside
<1>6. Beside(d, c)'
  BY <1>1, <1>2, SMTT(40) DEF Beside
<1> QED BY <1>5, <1>6, SMTT(40)

\* What the two threads' types and the bound come to in any state.
LEMMA BesideBounds ==
  ASSUME NEW c, NEW d, Clients = {c, d}, TypeOK, Beside(c, d)
  PROVE  /\ WINDOW_SIZE \in Nat \ {0} /\ Len(Window) \in Nat
         /\ Len(Window) + Due(c) + Due(d) <= WINDOW_SIZE + 1
         /\ thread[c].syscall \in Seq(Syscalls) /\ Len(thread[c].syscall) \in {0, 1}
BY ServerAssumption, ThreadTypes, SMTT(40) DEF Beside

\* Thread c, beside d, makes its slice the window.
LEMMA BesideAssign ==
  ASSUME NEW c, NEW d, Clients = {c, d}, c # d, TypeOK, Beside(c, d), Beside(d, c),
         thread'[d] = thread[d], Slices(thread[c], thread'[c]), thread[c].pc = "assign"
  PROVE  Beside(c, d)' /\ Beside(d, c)'
<1> DEFINE t == thread[c]
           u == thread'[c]
           L == Len(Window)
<1>W. WINDOW_SIZE \in Nat \ {0} /\ L \in Nat /\ L + Due(c) + Due(d) <= WINDOW_SIZE + 1
  BY BesideBounds
<1>1. /\ u.pc = "append" /\ u.syscall = t.syscall
      /\ lists' = Append(lists, t.slice) /\ sliding_window' = Len(lists) + 1
  BY DEF Slices, Loads, shared
<1>2. Window' = t.slice /\ \A i \in DOMAIN lists : lists'[i] = lists[i] /\ i # sliding_window'
  BY <1>1, Assigned, SMTT(40)
<1>3. /\ Len(t.slice) \in Nat /\ Len(t.slice) <= WINDOW_SIZE /\ thread[d].ref \in DOMAIN lists
      /\ Len(lists[thread[d].ref]) \in Nat /\ Len(thread[d].slice) \in Nat
  BY ThreadTypes, SMTT(40) DEF Beside
<1>4. Len(t.slice) = WINDOW_SIZE => Harmless(d)
  BY DEF Beside, Replacing
<1>5. Harmless(d) => Due(d)' = 0
  BY DEF Harmless, Due, Appends
<1>6. Len(Window') + Due(c)' + Due(d)' <= WINDOW_SIZE + 1
  <2>1. CASE Len(t.slice) = WINDOW_SIZE
    BY <1>W, <1>2, <1>3, <1>4, <1>5, <2>1, DueType, SMTT(40)
  <2>2. CASE Len(t.slice) # WINDOW_SIZE
    BY <1>W, <1>2, <1>3, <2>2, DueType, SMTT(40)
  <2> QED BY <2>1, <2>2, SMTT(40)
<1>7. Len(Window') # WINDOW_SIZE + 1 /\ Len(Window') \in Nat
  BY <1>W, <1>2, <1>3, SMTT(40)
<1>8. Replacing(d) => L # WINDOW_SIZE + 1
  BY DEF Beside, Replacing, Harmless
<1>9. ASSUME thread[d].pc = "slice_read" PROVE Len(lists'[thread[d].ref]) <= WINDOW_SIZE
  <2>1. L <= WINDOW_SIZE
    BY <1>W, <1>8, <1>9, DueType, SMTT(40) DEF Replacing
  <2>2. Len(lists[thread[d].ref]) <= WINDOW_SIZE
    BY <1>9, <2>1, SMTT(40) DEF Beside, Window
  <2> QED BY <1>2, <1>3, <2>2, SMTT(40)
<1>10. thread[d].pc = "assign" => Len(thread[d].slice) <= WINDOW_SIZE /\ Len(thread[d].slice) # WINDOW_SIZE
  BY <1>8 DEF Beside, Replacing
<1>11. u.pc \notin {"slice_read", "assign"} \cup Appends /\ ~Replacing(c)'
  BY <1>1, SMTT(40) DEF Appends, Replacing
<1>12. Beside(c, d)'
  <2> HIDE DEF L
  <2> QED BY <1>1, <1>6, <1>7, <1>11, SMTT(40) DEF Beside
<1>13. Beside(d, c)'
  <2>1. Len(Window') + Due(d)' + Due(c)' <= WINDOW_SIZE + 1
    BY <1>6, <1>7, DueType, SMTT(40)
  <2>2. thread[d].pc = "slice_read" => Len(lists'[thread[d].ref]) <= WINDOW_SIZE + 1
    BY <1>W, <1>2, <1>3, <1>9, SMTT(40)
  <2> HIDE DEF L
  <2> QED BY <1>7, <1>9, <1>10, <1>11, <2>1, <2>2, SMTT(40) DEF Beside
<1> QED BY <1>12, <1>13, SMTT(40)

\* Thread c, beside d, appends its call to the list it has loaded.
LEMMA BesideWrite ==
  ASSUME NEW c, NEW d, Clients = {c, d}, c # d, TypeOK, Beside(c, d), Beside(d, c),
         thread'[d] = thread[d], Writes(thread[c], thread'[c])
  PROVE  Beside(c, d)' /\ Beside(d, c)'
<1> DEFINE t == thread[c]
           u == thread'[c]
           L == Len(Window)
<1>W. WINDOW_SIZE \in Nat \ {0} /\ L \in Nat /\ L + Due(c) + Due(d) <= WINDOW_SIZE + 1
  BY BesideBounds
<1>S. t.syscall \in Seq(Syscalls) /\ Len(t.syscall) \in {0, 1}
  BY BesideBounds
<1>1. /\ lists' = [lists EXCEPT ![t.ref] = @ \o t.syscall] /\ sliding_window' = sliding_window
      /\ t.pc \in Appends /\ u.pc \in {"verdict", "idle"} /\ (u.syscall = t.syscall \/ u.syscall = <<>>)
  BY SMTT(40) DEF Writes, Appends
<1>2. /\ \A i \in DOMAIN lists : i # t.ref => lists'[i] = lists[i]
      /\ lists'[t.ref] = lists[t.ref] \o t.syscall
      /\ t.ref = sliding_window => Window' = Window \o t.syscall
      /\ t.ref # sliding_window => Window' = Window
  BY <1>1, Grown, ZenonT(40)
<1>3. /\ Window \in Seq(Syscalls) /\ lists[t.ref] \in Seq(Syscalls)
      /\ t.ref \in DOMAIN lists /\ thread[d].ref \in DOMAIN lists
  BY ThreadTypes, SMTT(40)
<1>4. /\ t.ref = sliding_window => Len(Window') = L + Len(t.syscall) /\ Due(c) = 1
      /\ t.ref # sliding_window => Len(Window') = L /\ Due(c) = 0
  <2>1. /\ t.ref = sliding_window => Due(c) = 1
        /\ t.ref # sliding_window => Due(c) = 0
    BY <1>1, SMTT(40) DEF Due, Appends
  <2>2. t.syscall \in Seq(Syscalls)
    BY <1>S, <1>1, SMTT(40)
  <2>3. \A x, y \in Seq(Syscalls) : Len(x \o y) = Len(x) + Len(y)
    OBVIOUS
  <2>4. t.ref = sliding_window => Len(Window') = L + Len(t.syscall)
    BY <1>2, <1>3, <2>2, <2>3, ZenonT(40)
  <2> QED BY <1>2, <2>1, <2>4, SMTT(40)
<1>5. Len(u.syscall) \in {0, 1}
  BY <1>S, <1>1, SMTT(40)
<1>6. Due(c)' = 0 /\ Due(d)' = Due(d) /\ Harmless(c)' /\ ~Replacing(c)'
      /\ u.pc \notin {"slice_read", "assign"} \cup Appends
  BY <1>1 DEF Due, Appends, Harmless, Replacing
<1>7. Len(Window') + Due(d) <= WINDOW_SIZE + 1 /\ Len(Window') \in Nat
  <2>1. Len(Window') = L \/ (Len(Window') = L + 1 /\ Due(c) = 1)
    <3> HIDE DEF L
    <3>1. CASE t.ref # sliding_window
      BY <1>4, <3>1, SMTT(40)
    <3>2. CASE t.ref = sliding_window /\ Len(t.syscall) = 0
      BY <1>W, <1>4, <3>2, SMTT(40)
    <3>3. CASE t.ref = sliding_window /\ Len(t.syscall) = 1
      BY <1>4, <3>3, SMTT(40)
    <3> QED BY <1>S, <3>1, <3>2, <3>3, SMTT(40)
  <2> HIDE DEF L
  <2> QED BY <1>W, <2>1, DueType, SMTT(40)
<1>8. Beside(c, d)'
  <2>1. Len(Window') + Due(c)' + Due(d)' <= WINDOW_SIZE + 1
    BY <1>6, <1>7, DueType, SMTT(40)
  <2> HIDE DEF L
  <2> QED BY <1>5, <1>6, <2>1, SMTT(40) DEF Beside
<1>9. Beside(d, c)'
  <2>1. Len(Window') + Due(d)' + Due(c)' <= WINDOW_SIZE + 1
    BY <1>6, <1>7, DueType
  <2>2. ASSUME thread[d].pc = "slice_read"
        PROVE  /\ Len(lists'[thread[d].ref]) <= WINDOW_SIZE + 1
               /\ thread[d].ref # sliding_window => Len(lists'[thread[d].ref]) <= WINDOW_SIZE
    <3>1. CASE thread[d].ref = sliding_window
      <4>1. lists'[thread[d].ref] = Window'
        BY <1>1, <3>1, SMTT(40) DEF Window
      <4> QED BY <1>W, <1>7, <3>1, <4>1, DueType, SMTT(40)
    <3>2. CASE thread[d].ref # sliding_window
      <4>1. t.ref = sliding_window
        BY <1>1, <2>2, <3>2, SMTT(40) DEF Beside
      <4>2. lists'[thread[d].ref] = lists[thread[d].ref]
        BY <1>2, <1>3, <3>2, <4>1, SMTT(40)
      <4> QED BY <2>2, <3>2, <4>2, SMTT(40) DEF Beside
    <3> QED BY <3>1, <3>2, SMTT(40)
  <2>3. ASSUME thread[d].pc = "assign", Len(thread[d].slice) = WINDOW_SIZE
        PROVE  Len(Window') = WINDOW_SIZE + 1
    <3>1. L = WINDOW_SIZE + 1
      BY <2>3 DEF Beside
    <3>2. Len(Window') >= L
      BY <1>S, <1>W, <1>4, SMTT(40)
    <3> QED BY <1>W, <1>7, <3>1, <3>2, DueType, SMTT(40)
  <2> HIDE DEF L
  <2> QED BY <1>1, <1>6, <2>1, <2>2, <2>3, ZenonT(40) DEF Beside
<1> QED BY <1>8, <1>9

\* A step of thread c, beside d.
LEMMA BesideStep ==
  ASSUME NEW c, NEW d, Clients = {c, d}, c # d, TypeOK, Beside(c, d), Beside(d, c),
         thread'[d] = thread[d], Effect(thread[c], thread'[c])
  PROVE  Beside(c, d)' /\ Beside(d, c)'
<1> DEFINE t == thread[c]
           u == thread'[c]
           L == Len(Window)
<1>W. WINDOW_SIZE \in Nat \ {0} /\ L \in Nat /\ L + Due(c) + Due(d) <= WINDOW_SIZE + 1
  BY BesideBounds
<1>S. t.syscall \in Seq(Syscalls) /\ Len(t.syscall) \in {0, 1}
  BY BesideBounds
<1>1. CASE Tests(t, u)
  <2>1. UNCHANGED <<lists, sliding_window>>
    BY <1>1 DEF Tests, shared
  <2>2. Len(u.syscall) \in {0, 1}
    <3>1. u.syscall = t.syscall \/ u.syscall = <<>> \/ \E s \in Syscalls : u.syscall = <<s>>
      BY <1>1 DEF Tests
    <3>2. Len(<<>>) = 0 /\ \A s : Len(<<s>>) = 1
      OBVIOUS
    <3> HIDE DEF u, t
    <3> QED BY <1>S, <3>1, <3>2, ZenonT(40)
  <2>3. L + Due(c)' + Due(d) <= WINDOW_SIZE + 1
    <3>1. CASE u.pc = "grow"
      BY <1>1, <1>W, <3>1, DueType, SMTT(40) DEF Tests
    <3>2. CASE u.pc # "grow"
      <4>1. Due(c)' = 0
        BY <1>1, <3>2, SMTT(40) DEF Tests, Due, Appends
      <4> QED BY <1>W, <4>1, DueType, SMTT(40)
    <3> QED BY <3>1, <3>2, SMTT(40)
  <2>4. u.pc \in {"idle", "test", "test_less"} \/ L # WINDOW_SIZE + 1
    BY <1>1, <1>W, SMTT(40) DEF Tests
  <2>5. u.pc \notin {"slice_read", "assign"} \cup Appends
    BY <1>1 DEF Tests, Appends
  <2>6. L = WINDOW_SIZE + 1 => ~Replacing(c)' /\ Harmless(c)'
    BY <2>4, SMTT(40) DEF Replacing, Harmless
  <2> QED BY <1>W, <2>1, <2>2, <2>3, <2>5, <2>6, BesideStill, SMTT(40)
<1>2. CASE Slices(t, u) /\ <<t.pc, u.pc>> \in Loads
  <2>1. UNCHANGED <<lists, sliding_window>> /\ u.ref = sliding_window /\ u.syscall = t.syscall
    BY <1>2, SMTT(40) DEF Slices, Loads, shared
  <2>2. Due(c)' = Due(c)
    BY <1>2, <2>1, SMTT(40) DEF Loads, Due, Appends
  <2>3. (Replacing(c)' => Replacing(c)) /\ ~Harmless(c) /\ u.pc # "assign"
    BY <1>2, SMTT(40) DEF Loads, Replacing, Harmless
  <2> QED BY <1>W, <2>1, <2>2, <2>3, BesideStill, ZenonT(40) DEF Beside
<1>3. CASE Slices(t, u) /\ t.pc = "bag_read"
  <2>1. UNCHANGED <<lists, sliding_window>> /\ u.syscall = t.syscall /\ u.pc = "slice"
    BY <1>3 DEF Slices, Loads, shared
  <2>2. Due(c)' = Due(c)
    BY <1>3, <2>1, SMTT(40) DEF Due, Appends
  <2>3. Replacing(c) /\ ~Harmless(c) /\ u.pc \notin {"slice_read", "assign"} \cup Appends
    BY <1>3, <2>1, SMTT(40) DEF Replacing, Harmless, Appends
  <2> QED BY <1>W, <2>1, <2>2, <2>3, BesideStill, ZenonT(40) DEF Beside
<1>4. CASE Slices(t, u) /\ t.pc = "slice_read"
  <2>1. /\ UNCHANGED <<lists, sliding_window>> /\ u.syscall = t.syscall /\ u.pc = "assign"
        /\ u.slice = SubSeq(lists[t.ref], 2, Len(lists[t.ref]))
    BY <1>4 DEF Slices, Loads, shared
  <2>2. Due(c)' = Due(c)
    BY <1>4, <2>1, SMTT(40) DEF Due, Appends
  <2>3. Replacing(c) /\ ~Harmless(c) /\ u.pc \notin {"slice_read"} \cup Appends
    BY <1>4, <2>1, SMTT(40) DEF Replacing, Harmless, Appends
  <2>4. lists[t.ref] \in Seq(Syscalls)
    BY ThreadTypes
  <2>5. Len(u.slice) = IF lists[t.ref] = <<>> THEN 0 ELSE Len(lists[t.ref]) - 1
    BY <2>1, <2>4, SMTT(40)
  <2>6. /\ Len(lists[t.ref]) \in Nat /\ Len(lists[t.ref]) <= WINDOW_SIZE + 1
        /\ t.ref # sliding_window => Len(lists[t.ref]) <= WINDOW_SIZE
        /\ t.ref = sliding_window => Len(lists[t.ref]) = L
    BY <1>4, <2>4 DEF Beside, Window
  <2>7. Len(u.slice) <= WINDOW_SIZE /\ (Len(u.slice) = WINDOW_SIZE => L = WINDOW_SIZE + 1)
    <3> HIDE DEF u, t, L
    <3> QED BY <1>W, <2>5, <2>6, SMTT(40)
  <2> QED BY <1>W, <2>1, <2>2, <2>3, <2>7, BesideStill, ZenonT(40) DEF Beside
<1>5. CASE Slices(t, u) /\ t.pc = "assign"
  BY <1>5, BesideAssign
<1>6. CASE Writes(t, u)
  BY <1>6, BesideWrite
<1>7. CASE Counts(t, u)
  <2>1. UNCHANGED <<lists, sliding_window>> /\ (u.syscall = t.syscall \/ u.syscall = <<>>)
    BY <1>7, SMTT(40) DEF Counts
  <2>2. Len(u.syscall) \in {0, 1}
    BY <2>1, SMTT(40) DEF Beside
  <2>3. /\ Due(c)' = 0 /\ Harmless(c)' /\ ~Replacing(c)'
        /\ u.pc \notin {"slice_read", "assign"} \cup Appends
    BY <1>7, SMTT(40) DEF Counts, Due, Harmless, Replacing, Appends
  <2>4. L + Due(c)' + Due(d) <= WINDOW_SIZE + 1
    BY <1>W, <2>3, DueType, SMTT(40)
  <2> QED BY <1>W, <2>1, <2>2, <2>3, <2>4, BesideStill, SMTT(40)
<1> QED BY <1>1, <1>2, <1>3, <1>4, <1>5, <1>6, <1>7, ZenonT(40) DEF Effect, Slices

\* Two threads, from the start of the server.
LEMMA BesideInvariant ==
  ASSUME NEW a, NEW b, Clients = {a, b}, a # b
  PROVE  /\ Init => TypeOK /\ Beside(a, b) /\ Beside(b, a)
         /\ TypeOK /\ Beside(a, b) /\ Beside(b, a) /\ [Next]_vars =>
              (TypeOK /\ Beside(a, b) /\ Beside(b, a))'
<1>1. ASSUME NEW c \in Clients, NEW d \in Clients, Init PROVE Beside(c, d)
  <2>1. /\ thread[c].pc = "idle" /\ thread[d].pc = "idle" /\ thread[c].syscall = <<>>
        /\ Window = <<>>
    BY <1>1 DEF Init, Outside, Window
  <2>2. Due(c) = 0 /\ Due(d) = 0 /\ ~Replacing(c)
    BY <2>1 DEF Due, Appends, Replacing
  <2>3. Len(Window) = 0 /\ Len(thread[c].syscall) = 0
    BY <2>1
  <2> QED BY <2>1, <2>2, <2>3, ServerAssumption, SMTT(40) DEF Beside
<1>2. ASSUME TypeOK, Beside(a, b), Beside(b, a), [Next]_vars PROVE (Beside(a, b) /\ Beside(b, a))'
  <2>1. CASE UNCHANGED vars
    <3>1. UNCHANGED <<lists, sliding_window, thread>>
      BY <2>1 DEF vars, shared
    <3>2. Window' = Window /\ \A c : Due(c)' = Due(c) /\ (Replacing(c)' <=> Replacing(c))
                                     /\ (Harmless(c)' <=> Harmless(c))
      BY <3>1, SMTT(40) DEF Window, Due, Replacing, Harmless
    <3>3. ASSUME NEW c, NEW d, Beside(c, d) PROVE Beside(c, d)'
      BY <3>1, <3>2, <3>3, SMTT(40) DEF Beside
    <3> QED BY <1>2, <3>3
  <2>2. ASSUME NEW c \in Clients, NEW d \in Clients, c # d, Clients = {c, d},
               Beside(c, d), Beside(d, c), NextToken(c) \/ append_BoSC(c) \/ Count(c)
        PROVE  (Beside(c, d) /\ Beside(d, c))'
    <3>1. Effect(thread[c], thread'[c]) /\ thread' = [thread EXCEPT ![c] = thread'[c]]
      BY <1>2, <2>2, Effects, SMTT(40)
    <3>2. thread'[d] = thread[d]
      BY <1>2, <2>2, <3>1, SMTT(40) DEF TypeOK
    <3> QED BY <1>2, <2>2, <3>1, <3>2, BesideStep, SMTT(40)
  <2>3. CASE NextToken(a) \/ append_BoSC(a) \/ Count(a)
    BY <1>2, <2>2, <2>3
  <2>4. CASE NextToken(b) \/ append_BoSC(b) \/ Count(b)
    BY <1>2, <2>2, <2>4
  <2> QED BY <1>2, <2>1, <2>3, <2>4, SMTT(40) DEF Next
<1>3. Init => TypeOK
  BY InitIInv DEF IInv
<1> QED BY <1>1, <1>2, <1>3, TypeStep, SMTT(40)

\* For every WINDOW_SIZE and every set of connected tracers: with one the window
\* is never too long, and with two at most by one, however append_BoSC interleaves
\* with itself.
THEOREM WindowsBounded == Spec => []WindowBound
<1>0. WINDOW_SIZE \in Nat \ {0} /\ IsFiniteSet(Clients) /\ Cardinality(Clients) \in Nat
  BY ServerAssumption, FS_CardinalityType
<1>1. CASE Cardinality(Clients) > 2
  <2>1. WindowBound
    BY <1>0, <1>1 DEF WindowBound
  <2>2. []WindowBound
    BY <2>1, PTL
  <2> QED BY <2>2, PTL
<1>2. CASE Cardinality(Clients) = 0
  <2>1. Clients = {}
    BY <1>0, <1>2, FS_EmptySet, SMTT(40)
  <2>2. Init => lists = << <<>> >> /\ sliding_window = 1
    BY DEF Init
  <2>3. (lists = << <<>> >> /\ sliding_window = 1) /\ [Next]_vars =>
          (lists = << <<>> >> /\ sliding_window = 1)'
    BY <2>1 DEF Next, vars, shared
  <2>4. lists = << <<>> >> /\ sliding_window = 1 => WindowBound
    BY <1>0, <1>2 DEF WindowBound, Window
  <2> QED BY <2>2, <2>3, <2>4, PTL DEF Spec
<1>3. CASE Cardinality(Clients) = 1
  <2>1. PICK c : Clients = {c}
    BY <1>0, <1>3, FS_Singleton, SMTT(40)
  <2>2. TypeOK /\ Alone(c) => WindowBound
    BY <1>0, <1>3 DEF Alone, Sliding, WindowBound
  <2> QED BY <2>1, <2>2, AloneInvariant, PTL DEF Spec
<1>4. CASE Cardinality(Clients) = 2
  <2>1. PICK a \in Clients : TRUE
    BY <1>0, <1>4, FS_EmptySet, SMTT(40)
  <2>2. Cardinality(Clients \ {a}) = 1 /\ IsFiniteSet(Clients \ {a})
    BY <1>0, <1>4, FS_RemoveElement
  <2>3. PICK b : Clients \ {a} = {b}
    BY <2>2, FS_Singleton, ZenonT(40)
  <2>4. Clients = {a, b} /\ a # b
    BY <2>1, <2>3
  <2>5. TypeOK /\ Beside(a, b) /\ Beside(b, a) => WindowBound
    <3> SUFFICES ASSUME TypeOK, Beside(a, b) PROVE Len(Window) <= WINDOW_SIZE + 1
      BY <1>0, <1>4 DEF WindowBound
    <3>1. Len(Window) \in Nat
      BY <2>4, ThreadTypes
    <3> QED BY <1>0, <3>1, DueType DEF Beside
  <2> QED BY <2>4, <2>5, BesideInvariant, PTL DEF Spec
<1> QED BY <1>0, <1>1, <1>2, <1>3, <1>4, SMTT(40)

=============================================================================
