----------------------------- MODULE BagServer ------------------------------
(***************************************************************************)
(* The analysis server: one thread per connected tracer, all of them       *)
(* calling append_BoSC on one BoSC_Creator.  The threads take turns at     *)
(* bytecode boundaries, so a step here is one load or store of shared      *)
(* state: the attribute sliding_window, a list object, anomalyCount.       *)
(*                                                                         *)
(* A list object grows and is never otherwise changed.  The loop of        *)
(* create_BoSC therefore counts what the list holds when the loop ends,    *)
(* and one read stands for it.                                             *)
(***************************************************************************)
EXTENDS Integers, Sequences, FiniteSets

CONSTANTS
  Clients,      \* the threads running threaded_client
  MainThread,   \* the thread that opened the database
  Syscalls,     \* what clients send
  WINDOW_SIZE,
  MaxTokens     \* bound: tokens handled by each thread

ASSUME ServerAssumption ==
  /\ IsFiniteSet(Clients) /\ MainThread \notin Clients
  /\ WINDOW_SIZE \in Nat \ {0} /\ MaxTokens \in Nat

VARIABLES
  lists,          \* the list objects made so far
  sliding_window, \* the one self.sliding_window refers to
  anomalyCount,
  judged,         \* the windows judged so far, in order
  thread          \* the locals of each thread

shared == <<lists, sliding_window, anomalyCount, judged>>
vars   == <<shared, thread>>

Steps == {"idle", "test", "test_less", "bag", "bag_read", "slice", "slice_read", "assign",
          "append", "append_write", "grow", "grow_write", "verdict", "count", "count_write"}

\* syscall: the argument of append_BoSC, if any;  ref: a list taken from
\* self.sliding_window;  slice: sliding_window[1:] before it is assigned;
\* count: anomalyCount before one is added;  handled: tokens taken so far.
Locals ==
  [pc : Steps, syscall : Seq(Syscalls), ref : DOMAIN lists, slice : Seq(Syscalls),
   count : Nat, handled : 0..MaxTokens]

\* A thread outside append_BoSC.
Outside(n) ==
  [pc |-> "idle", syscall |-> <<>>, ref |-> 1, slice |-> <<>>, count |-> 0, handled |-> n]

TypeOK ==
  /\ lists \in Seq(Seq(Syscalls)) /\ sliding_window \in DOMAIN lists
  /\ anomalyCount \in Nat /\ judged \in Seq(Seq(Syscalls))
  /\ thread \in [Clients -> Locals]

\* BoSC_Creator(10) with an empty window; in analysis mode no lookup table.
Init ==
  /\ lists = << <<>> >> /\ sliding_window = 1
  /\ anomalyCount = 0 /\ judged = <<>>
  /\ thread = [c \in Clients |-> Outside(0)]

Window == lists[sliding_window]

\* Thread c gets past a test, or loads self.sliding_window for what comes next.
Jump(c, from, to) ==
  /\ thread[c].pc = from
  /\ thread' = [thread EXCEPT ![c].pc = to]
  /\ UNCHANGED shared

Load(c, from, to) ==
  /\ thread[c].pc = from
  /\ thread' = [thread EXCEPT ![c].pc = to, ![c].ref = sliding_window]
  /\ UNCHANGED shared

-----------------------------------------------------------------------------

\* The for loop of threaded_client passes one token to append_BoSC.
NextToken(c) ==
  /\ thread[c].pc = "idle" /\ thread[c].handled < MaxTokens
  /\ \E s \in Syscalls :
       thread' = [thread EXCEPT ![c].pc = "test", ![c].syscall = <<s>>, ![c].handled = @ + 1]
  /\ UNCHANGED shared

\* Mutant: a window is judged when it is one short.
TestFull_Early(c) ==
  Jump(c, "test", IF Len(Window) = WINDOW_SIZE - 1 THEN "bag" ELSE "test_less")

\* if len(self.sliding_window) == self.WINDOW_SIZE
TestFull(c) ==
  Jump(c, "test", IF Len(Window) = WINDOW_SIZE THEN "bag" ELSE "test_less")

\* Mutant: a plain else.
TestLess_Always(c) == Jump(c, "test_less", "grow")

\* Mutant: <= for <.
TestLess_OrEqual(c) ==
  /\ thread[c].pc = "test_less"
  /\ IF Len(Window) <= WINDOW_SIZE
     THEN thread' = [thread EXCEPT ![c].pc = "grow"]
     ELSE thread' = [thread EXCEPT ![c] = Outside(@.handled)]
  /\ UNCHANGED shared

\* elif len(self.sliding_window) < self.WINDOW_SIZE, without an else: the thread
\* returns None for a window that is too long.
TestLess(c) ==
  /\ thread[c].pc = "test_less"
  /\ IF Len(Window) < WINDOW_SIZE
     THEN thread' = [thread EXCEPT ![c].pc = "grow"]
     ELSE thread' = [thread EXCEPT ![c] = Outside(@.handled)]
  /\ UNCHANGED shared

\* bag = self.create_BoSC()
create_BoSC(c) ==
  \/ Load(c, "bag", "bag_read")
  \/ /\ thread[c].pc = "bag_read"
     /\ judged' = Append(judged, lists[thread[c].ref])
     /\ thread' = [thread EXCEPT ![c].pc = "slice"]
     /\ UNCHANGED <<lists, sliding_window, anomalyCount>>

\* self.sliding_window = self.sliding_window[1:]
Slide(c) ==
  \/ Load(c, "slice", "slice_read")
  \/ /\ thread[c].pc = "slice_read"
     /\ LET list == lists[thread[c].ref]
        IN  thread' = [thread EXCEPT ![c].pc = "assign", ![c].slice = SubSeq(list, 2, Len(list))]
     /\ UNCHANGED shared
  \/ /\ thread[c].pc = "assign"
     /\ lists' = Append(lists, thread[c].slice)
     /\ sliding_window' = Len(lists) + 1
     /\ thread' = [thread EXCEPT ![c].pc = "append", ![c].slice = <<>>]
     /\ UNCHANGED <<anomalyCount, judged>>

\* self.sliding_window.append(syscall), after Slide or for a window still growing.
AppendTo(c) ==
  \/ Load(c, "append", "append_write")
  \/ Load(c, "grow", "grow_write")
  \/ /\ thread[c].pc \in {"append_write", "grow_write"}
     /\ lists' = [lists EXCEPT ![thread[c].ref] = @ \o thread[c].syscall]
     /\ thread' = [thread EXCEPT ![c] = IF @.pc = "append_write"
                                        THEN [@ EXCEPT !.pc = "verdict"]
                                        ELSE Outside(@.handled)]
     /\ UNCHANGED <<sliding_window, anomalyCount, judged>>

\* SQLite refuses a cursor to any thread but the one that opened it, and the
\* exception makes False; the result of the query itself is never fetched.
check_existence(t) == t = MainThread

\* 'Anomaly' or 'Normal'
Verdict(c) ==
  /\ thread[c].pc = "verdict"
  /\ thread' = [thread EXCEPT ![c] = IF check_existence(c) THEN Outside(@.handled)
                                     ELSE [@ EXCEPT !.pc = "count"]]
  /\ UNCHANGED shared

\* Mutant: one anomaly is counted twice.
Count_Twice(c) ==
  \/ /\ thread[c].pc = "count"
     /\ thread' = [thread EXCEPT ![c].pc = "count_write", ![c].count = anomalyCount + 1]
     /\ UNCHANGED shared
  \/ /\ thread[c].pc = "count_write"
     /\ anomalyCount' = thread[c].count + 1
     /\ thread' = [thread EXCEPT ![c] = Outside(@.handled)]
     /\ UNCHANGED <<lists, sliding_window, judged>>

\* anomalyCount = anomalyCount + 1
Count(c) ==
  \/ /\ thread[c].pc = "count"
     /\ thread' = [thread EXCEPT ![c].pc = "count_write", ![c].count = anomalyCount]
     /\ UNCHANGED shared
  \/ /\ thread[c].pc = "count_write"
     /\ anomalyCount' = thread[c].count + 1
     /\ thread' = [thread EXCEPT ![c] = Outside(@.handled)]
     /\ UNCHANGED <<lists, sliding_window, judged>>

append_BoSC(c) ==
  TestFull(c) \/ TestLess(c) \/ create_BoSC(c) \/ Slide(c) \/ AppendTo(c) \/ Verdict(c)

Next == \E c \in Clients : NextToken(c) \/ append_BoSC(c) \/ Count(c)

Spec == Init /\ [][Next]_vars

-----------------------------------------------------------------------------
(* Properties. *)

\* With one tracer connected the server keeps BagWindow's promise: its window is
\* the last WINDOW_SIZE calls and every full window is judged exactly once.
\* Between the lookup and the append the step is not complete yet, and the
\* mapping shows the window as it was.
InHand == \E c \in Clients : thread[c].pc \in {"slice", "slice_read", "assign", "append", "append_write"}

Last(s)  == s[Len(s)]
Front(s) == SubSeq(s, 1, Len(s) - 1)

Promise == INSTANCE BagWindow WITH
  window <- IF InHand THEN Last(judged) ELSE Window,
  judged <- IF InHand THEN Front(judged) ELSE judged

ImplementsBagWindow == Promise!Spec

\* With two tracers connected the shared window grows at most one call too long:
\* two threads may both find it short in append_BoSC before either appends.
\* (A third thread can add to a list the second still slices, and exceeds it.)
WindowBound ==
  Cardinality(Clients) <= 2 => Len(Window) <= WINDOW_SIZE + Cardinality(Clients) - 1

\* A window that is too long when all threads are outside append_BoSC, or have
\* just entered it, stays as it is for ever: the missing else of append_BoSC.
Stuck ==
  /\ Len(Window) > WINDOW_SIZE
  /\ \A c \in Clients : thread[c].pc \in {"idle", "test", "test_less"}

StuckForever == [][Stuck => Stuck' /\ Window' = Window]_vars

\* No anomaly is counted that was not found: the unsynchronised increments of
\* anomalyCount lose updates and never invent one.
NeverOvercounted == anomalyCount <= Len(judged)

\* With one tracer every window judged has been counted once the thread waits.
AllCounted ==
  (\A c \in Clients : thread[c].pc = "idle") => anomalyCount = Len(judged)

=============================================================================
