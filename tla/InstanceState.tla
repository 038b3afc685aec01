--------------------------- MODULE InstanceState ---------------------------
(***************************************************************************)
(* What a LibVMI instance owns, and how the code takes and gives it back.  *)
(* A call of the API is a function from the state before it to the state   *)
(* after it: s.i is the struct vmi_instance, s.own counts what is really   *)
(* held (memory, handles, the monitor ring of the domain), s.bad is what   *)
(* was given back through a pointer that had already been given back, and  *)
(* s.ok is the status the call returns.  The set F of a call names the     *)
(* things that fail in it: a library that cannot be opened, a hypercall,   *)
(* a symbol that the profile does not have.                                *)
(***************************************************************************)
EXTENDS Naturals, FiniteSets

\* The resources.  "ring" is the vm_event monitor of the domain: it outlives
\* the instance and the process, and a domain has at most one.
Resources == {"vmi", "drv", "libxc", "xc", "libxs", "xs", "ring", "evtchn",
              "port", "evmem", "libkvmi", "libvirt", "conn", "dom", "kvmi",
              "kvmidom", "file", "pages", "caches", "tables", "image", "path",
              "osdata", "sysmap", "osif", "json", "config"}

Pointer == {"null", "set", "freed"}

\* vmi->init_task: not set, or the address in the profile plus an offset.
NoTask == [set |-> FALSE, off |-> 0]

\* struct vmi_instance as g_try_malloc0 leaves it.
ZeroedInstance ==
  [live |-> FALSE, mode |-> "none", flags |-> {}, by |-> "none",
   ptr |-> [r \in Resources |-> "null"], vmtype |-> "normal", info |-> "none",
   extern |-> FALSE, pm |-> "unknown", os |-> "unknown", kind |-> "none",
   kpgd |-> "none", task |-> NoTask]

Nothing == [i |-> ZeroedInstance, own |-> [r \in Resources |-> 0],
            bad |-> {}, ok |-> TRUE]

Fail(s) == [s EXCEPT !.ok = FALSE]

\* The next step of a call: after one that succeeded, after one that failed.
AndThen(s, Step(_)) == IF s.ok THEN Step(s) ELSE s
OrElse(s, Step(_))  == IF s.ok THEN s ELSE Step(s)

\* A resource is obtained and its pointer stored in the instance.
Got(s, r) == [s EXCEPT !.i.ptr[r] = "set", !.own[r] = @ + 1]

\* Several at once; and held with no pointer left to give them back through.
GotAll(s, R) ==
  [s EXCEPT !.i.ptr = [r \in Resources |-> IF r \in R THEN "set" ELSE @[r]],
            !.own = [r \in Resources |-> IF r \in R THEN @[r] + 1 ELSE @[r]]]
Lost(s, R) == [s EXCEPT !.own = [r \in Resources |-> IF r \in R THEN @[r] + 1 ELSE @[r]]]

\* free, close or disable through the stored pointer, which keeps its value.
Freed(s, r) ==
  CASE s.i.ptr[r] = "null"  -> s
    [] s.i.ptr[r] = "set"   -> [s EXCEPT !.i.ptr[r] = "freed", !.own[r] = @ - 1]
    [] s.i.ptr[r] = "freed" -> [s EXCEPT !.bad = @ \cup {r}]

\* The pointer is overwritten with NULL (or the memory holding it is gone).
Forgot(s, R) ==
  [s EXCEPT !.i.ptr = [r \in Resources |-> IF r \in R THEN "null" ELSE @[r]]]

\* The usual  if (p) { free(p); p = NULL; }
Closed(s, r) == Forgot(Freed(s, r), {r})

\* The pointer is followed: that is only right while what it names is there.
Used(s, r) ==
  IF s.i.ptr[r] = "freed" THEN [s EXCEPT !.bad = @ \cup {r}] ELSE s

Has(s, r) == s.i.ptr[r] # "null"
============================================================================
