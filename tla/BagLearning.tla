---------------------------- MODULE BagLearning -----------------------------
(***************************************************************************)
(* Learning: the tracer writes system calls to syscall-trace.csv, and      *)
(* server.py --learn (or BoSC.py --learn) turns the file into a lookup     *)
(* table, data/lut.csv, and a database of bags, data/bosc.sqlite.  The two *)
(* programs share nothing but files, so the trace may grow, or be started  *)
(* afresh, between any two steps of the learner, and the learner may be    *)
(* killed between any two rows.                                            *)
(***************************************************************************)
EXTENDS Integers, Sequences, FiniteSets, SequencesExt

CONSTANTS
  Names,        \* the values of the column Syscall
  WINDOW_SIZE,
  MaxRows       \* bound: rows of a trace

ASSUME LearningAssumption ==
  /\ IsFiniteSet(Names) /\ WINDOW_SIZE \in Nat \ {0} /\ MaxRows \in Nat

VARIABLES
  csv,            \* syscall-trace.csv, the column Syscall
  lut_csv,        \* data/lut.csv, the column Syscall
  db,             \* the table BoSC
  \* the learner
  pc,             \* idle, table (lookup table written), rows
  df,             \* the rows create_learning_db has read
  index,          \* rows handled so far
  syscall_LUT,    \* the lookup table loaded, position by position
  sliding_window

files   == <<csv, lut_csv, db>>
learner == <<pc, df, index, syscall_LUT, sliding_window>>
vars    == <<files, learner>>

Tables == {s \in UNION {[1..n -> Names] : n \in 0..Cardinality(Names)} : IsInjective(s)}

TypeOK ==
  /\ csv \in Seq(Names) /\ lut_csv \in Tables
  /\ db \subseteq UNION {[1..n -> 0..WINDOW_SIZE] : n \in 1..(Cardinality(Names) + 1)}
  /\ pc \in {"idle", "table", "rows"}
  /\ df \in Seq(Names) /\ index \in 0..Len(df)
  /\ syscall_LUT \in Tables
  /\ sliding_window \in Seq(Names) /\ Len(sliding_window) <= WINDOW_SIZE

\* A learner just started, with the files an earlier session may have left.
Init ==
  /\ csv = <<>> /\ lut_csv \in {t \in Tables : Len(t) = 1} /\ db = {}
  /\ pc = "idle" /\ df = <<>> /\ index = 0
  /\ syscall_LUT = <<>> /\ sliding_window = <<>>

-----------------------------------------------------------------------------
(* The tracer, in learning mode. *)

create_csv_file ==
  /\ csv' = <<>>
  /\ UNCHANGED <<lut_csv, db, learner>>

\* process_syscall appends one row.
process_syscall ==
  /\ Len(csv) < MaxRows
  /\ \E name \in Names : csv' = Append(csv, name)
  /\ UNCHANGED <<lut_csv, db, learner>>

-----------------------------------------------------------------------------
(* The learner. *)

Occur(name) == Cardinality({i \in DOMAIN csv : csv[i] = name})

\* Every call of the trace once, the frequent ones first; how sort_values orders
\* calls that are equally frequent is its own affair.
create_lookup_table ==
  /\ pc = "idle" /\ pc' = "table"
  /\ \E table \in Tables :
       /\ ToSet(table) = ToSet(csv)
       /\ \A i, j \in DOMAIN table : i < j => Occur(table[i]) >= Occur(table[j])
       /\ lut_csv' = table
  /\ UNCHANGED <<csv, db, df, index, syscall_LUT, sliding_window>>

\* The start of create_learning_db: read the trace, load the lookup table.  Run
\* as BoSC.py --learn it is the first step, and the table is an older one.
load_lookup_table ==
  /\ pc \in {"idle", "table"} /\ pc' = "rows"
  /\ df' = csv /\ index' = 0
  /\ syscall_LUT' = lut_csv
  /\ UNCHANGED <<files, sliding_window>>

\* syscall_LUT[syscall], or the last place when there is no such key.
Place(table, s) ==
  IF s \in ToSet(table) THEN CHOOSE i \in DOMAIN table : table[i] = s ELSE Len(table) + 1

\* Mutant: calls that are not in the table are left out.
create_BoSC_SkipsUnknown(window, table) ==
  LET bag[n \in 0..Len(window)] ==
        IF n = 0 THEN [i \in 1..(Len(table) + 1) |-> 0]
        ELSE IF window[n] \notin ToSet(table) THEN bag[n - 1]
        ELSE [bag[n - 1] EXCEPT ![Place(table, window[n])] = @ + 1]
  IN  bag[Len(window)]

\* The bag after n calls of the window.
create_BoSC(window, table) ==
  LET bag[n \in 0..Len(window)] ==
        IF n = 0 THEN [i \in 1..(Len(table) + 1) |-> 0]
        ELSE [bag[n - 1] EXCEPT ![Place(table, window[n])] = @ + 1]
  IN  bag[Len(window)]

\* Mutant: the window is emptied where it should slide.
create_learning_db_Clears ==
  /\ pc = "rows" /\ index < Len(df) /\ index' = index + 1
  /\ LET name == df[index + 1]
     IN  IF Len(sliding_window) = WINDOW_SIZE
         THEN /\ db' = db \cup {create_BoSC(sliding_window, syscall_LUT)}
              /\ sliding_window' = <<name>>
         ELSE /\ sliding_window' = Append(sliding_window, name)
              /\ UNCHANGED db
  /\ UNCHANGED <<csv, lut_csv, pc, df, syscall_LUT>>

\* Mutant: the window slides before its bag is made.
create_learning_db_SlidesFirst ==
  /\ pc = "rows" /\ index < Len(df) /\ index' = index + 1
  /\ LET name == df[index + 1]
     IN  IF Len(sliding_window) = WINDOW_SIZE
         THEN /\ sliding_window' = Append(Tail(sliding_window), name)
              /\ db' = db \cup {create_BoSC(sliding_window', syscall_LUT)}
         ELSE /\ sliding_window' = Append(sliding_window, name)
              /\ UNCHANGED db
  /\ UNCHANGED <<csv, lut_csv, pc, df, syscall_LUT>>

\* One round of the loop over the rows, insert_bag__if_nonexistent included: a
\* full window is learnt when the row after it arrives.
create_learning_db ==
  /\ pc = "rows" /\ index < Len(df) /\ index' = index + 1
  /\ LET name == df[index + 1]
     IN  IF Len(sliding_window) = WINDOW_SIZE
         THEN /\ db' = db \cup {create_BoSC(sliding_window, syscall_LUT)}
              /\ sliding_window' = Append(Tail(sliding_window), name)
         ELSE /\ sliding_window' = Append(sliding_window, name)
              /\ UNCHANGED db
  /\ UNCHANGED <<csv, lut_csv, pc, df, syscall_LUT>>

\* The learner ends, at the end of the loop or killed before; every bag has been
\* committed on its own.  The next one starts with an empty window.
Stop ==
  /\ pc # "idle" /\ pc' = "idle"
  /\ df' = <<>> /\ index' = 0
  /\ syscall_LUT' = <<>> /\ sliding_window' = <<>>
  /\ UNCHANGED files

Next ==
  \/ create_csv_file \/ process_syscall
  \/ create_lookup_table \/ load_lookup_table \/ create_learning_db \/ Stop

Spec == Init /\ [][Next]_vars

-----------------------------------------------------------------------------
(* Properties. *)

\* What a bag must hold: for each call of the table its number of occurrences,
\* and the number of calls that are not in it.
Counts(window, table) ==
  [i \in 1..(Len(table) + 1) |->
     Cardinality({k \in DOMAIN window :
                    IF i <= Len(table) THEN window[k] = table[i]
                    ELSE window[k] \notin ToSet(table)})]

\* The loop of create_BoSC counts right, for every window and table that learning
\* meets, calls the tracer added after the table was made included.
BagsCounted ==
  create_BoSC(sliding_window, syscall_LUT) = Counts(sliding_window, syscall_LUT)

\* The bag of the i-th window of the rows read, and those learnt after n rows.
BagAt(i) == create_BoSC(SubSeq(df, i, i + WINDOW_SIZE - 1), syscall_LUT)

Learnt(n) == {BagAt(i) : i \in 1..(n - WINDOW_SIZE)}

\* Whatever happened to the files and to earlier learners, the database holds
\* the bag of every window of the rows create_learning_db has gone through but
\* the last one: a killed learner can simply be run again.
WindowsLearnt == pc = "rows" => Learnt(index) \subseteq db

\* The database only grows, and only by bags of the windows of the trace that
\* was read, counted with the table that was loaded: rows the tracer adds in the
\* meantime, or a table written in the meantime, change nothing.
OnlyWindowsLearnt ==
  [][db \subseteq db' /\ db' \subseteq db \cup Learnt(index)']_vars

=============================================================================
