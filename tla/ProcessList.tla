---------------------------- MODULE ProcessList ----------------------------
(***************************************************************************)
(* Finding a process in the guest's list while the guest changes it.  The  *)
(* list l gives each node of guest memory its next, pid and page table;    *)
(* l.linked are the processes in the list.  Node 0 is where a walk starts: *)
(* init_task on Linux, the System process on Windows, the list head        *)
(* "allproc" itself on FreeBSD.  On Windows the list head Sentinel is met  *)
(* like a process; it and allproc have no process around them, and what is *)
(* read in the place of its fields is l.junk.                              *)
(*                                                                         *)
(* A walk w takes one read per step: w.at says which.  The reads that fail *)
(* are those of the nodes in l.holes.                                      *)
(***************************************************************************)
EXTENDS Naturals, FiniteSets

CONSTANTS Procs      \* nodes of guest memory that can hold a process

Start     == 0
Sentinel == 90
Null     == 91
Nodes    == Procs \cup {Start, Sentinel, Null}

Ends(os) == CASE os = "linux" -> Start [] os = "windows" -> Sentinel [] os = "freebsd" -> Null

\* What is in the place of the pid or of the table of a node.
Field(l, by, n) ==
  IF n = Sentinel \/ (n = Start /\ l.os = "freebsd") THEN l.junk
  ELSE IF by = "pid" THEN l.pid[n] ELSE l.pgd[n]

------------------------------- \* The guest

\* The nodes from which the list goes on.
Chain(l) == l.linked \cup {Start, Sentinel}
Before(l, n) == CHOOSE m \in Chain(l) : l.next[m] = n

\* A process leaves the list; its memory keeps its contents.
Exit(l, n) ==
  [l EXCEPT !.next[Before(l, n)] = l.next[n], !.linked = @ \ {n}]

\* A process is made in node n: last in the list, on FreeBSD first.
Fork(l, n, pid, pgd) ==
  LET prev == IF l.os = "freebsd" THEN Start ELSE Before(l, Ends(l.os))
  IN  [l EXCEPT !.next = [@ EXCEPT ![prev] = n, ![n] = l.next[prev]],
                !.pid[n] = pid, !.pgd[n] = pgd, !.linked = @ \cup {n}]

------------------------------- \* The walks

\* by says what is looked for; sysproc, that the System process is known and
\* the list is searched from there first.
Walk(os, by, key, sysproc) ==
  [on |-> TRUE, at |-> IF os = "windows" THEN "first" ELSE "key", by |-> by, key |-> key,
   cur |-> Start, first |-> Start, tmp |-> Start, seen |-> 0, round |-> IF sysproc THEN 1 ELSE 2,
   ok |-> FALSE, val |-> 0]

Ended(w, ok, val) == [w EXCEPT !.on = FALSE, !.ok = ok, !.val = val]

\* _from_pgd compares on Linux with and without the bits of KPTI and PCID: a
\* table on an odd page is taken for the user half of the page before.
Matches(l, w, x) ==
  x = w.key \/ (l.os = "linux" /\ w.by = "pgd" /\ x = (w.key \div 2) * 2)

\* linux_get_taskstruct_addr_from_pid and _from_pgd, and FreeBSD's, which end
\* at NULL: the results of the reads are not looked at.  A kernel thread has
\* no table.
ReadKey(l, w) ==
  LET new == IF w.cur \in l.holes \/ (w.by = "pgd" /\ Field(l, "pgd", w.cur) = 0) THEN w.seen
             ELSE Field(l, w.by, w.cur)
  IN  [w EXCEPT !.seen = new, !.at = IF Matches(l, w, new) THEN "data" ELSE "next"]

\* Mutant: the list is left one entry early.
ReadNext_StopsEarly(l, w) ==
  LET new == IF w.cur \in l.holes THEN w.cur ELSE l.next[w.cur]
  IN  IF new = Ends(l.os) \/ l.next[new] = Ends(l.os) THEN Ended(w, FALSE, 0)
      ELSE [w EXCEPT !.cur = new, !.at = "key"]

ReadNext(l, w) ==
  LET new == IF w.cur \in l.holes THEN w.cur ELSE l.next[w.cur]
  IN  IF new = Ends(l.os) THEN Ended(w, FALSE, 0) ELSE [w EXCEPT !.cur = new, !.at = "key"]

\* eprocess_list_search is over: find_eprocess searches again, from the System
\* process if that found something and from PsInitialSystemProcess if not.
Searched(w, found) ==
  IF w.round = 1 THEN [w EXCEPT !.round = 2, !.at = "first", !.cur = Start]
  ELSE IF found THEN [w EXCEPT !.at = "data"] ELSE Ended(w, FALSE, 0)

\* The start of the list is compared, and the entry after it marks the end.
SearchFirst(l, w) ==
  IF Start \in l.holes THEN Searched(w, FALSE)
  ELSE IF Field(l, w.by, Start) = w.key THEN Searched(w, TRUE)
  ELSE [w EXCEPT !.at = "next", !.first = l.next[Start], !.cur = l.next[Start]]

SearchNext(l, w) ==
  IF w.cur \in l.holes \/ l.next[w.cur] = w.first THEN Searched(w, FALSE)
  ELSE [w EXCEPT !.at = "key", !.tmp = l.next[w.cur]]

SearchKey(l, w) ==
  IF w.cur \in l.holes THEN Searched(w, FALSE)
  ELSE IF Field(l, w.by, w.cur) = w.key THEN Searched(w, TRUE)
  ELSE [w EXCEPT !.at = "next", !.cur = w.tmp]

eprocess_list_search(l, w) ==
  CASE w.at = "first" -> SearchFirst(l, w)
    [] w.at = "next"  -> SearchNext(l, w)
    [] w.at = "key"   -> SearchKey(l, w)

\* linux_pid_to_pgd: a kernel thread borrows the table in active_mm.  When it
\* has none, the status of the read before is returned: success, no table.
linux_pid_to_pgd(l, w) ==
  IF w.cur \in l.holes THEN Ended(w, FALSE, 0)
  ELSE IF l.pgd[w.cur] # 0 THEN Ended(w, TRUE, l.pgd[w.cur])
  ELSE Ended(w, TRUE, l.active)

\* windows_pid_to_pgd and freebsd_pid_to_pgd
pid_to_pgd(l, w) ==
  IF w.cur \in l.holes THEN Ended(w, FALSE, 0) ELSE Ended(w, TRUE, Field(l, "pgd", w.cur))

\* linux_pgd_to_pid, windows_pgd_to_pid and freebsd_pgd_to_pid
pgd_to_pid(l, w) ==
  IF w.cur \in l.holes THEN Ended(w, FALSE, 0) ELSE Ended(w, TRUE, Field(l, "pid", w.cur))

\* One read of vmi_pid_to_dtb or vmi_dtb_to_pid.
ReadStep(l, w) ==
  CASE w.at = "data" -> IF w.by = "pgd" THEN pgd_to_pid(l, w)
                        ELSE IF l.os = "linux" THEN linux_pid_to_pgd(l, w) ELSE pid_to_pgd(l, w)
    [] w.at # "data" /\ l.os = "windows" -> eprocess_list_search(l, w)
    [] w.at = "key"  /\ l.os # "windows" -> ReadKey(l, w)
    [] w.at = "next" /\ l.os # "windows" -> ReadNext(l, w)
============================================================================
