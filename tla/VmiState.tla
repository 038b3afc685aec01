------------------------------ MODULE VmiState ------------------------------
(***************************************************************************)
(* The part of vmi_instance_t that the event interface of LibVMI works on. *)
(* An operation of the library is an operator from such a record to such a *)
(* record; field rc of the result is the status_t that the C function      *)
(* returns.                                                                *)
(*                                                                         *)
(*   mode, minor, vcpus    the driver, the minor version of Xen, the vCPUs *)
(*   bad, stuck            the calls into the hypervisor that fail while   *)
(*                         the current operation runs, and the vCPUs that  *)
(*                         cannot be put into single step                  *)
(*   interrupt, on_gfn, generic, reg, msr, ss, single                      *)
(*                         the handlers: the hash tables of events.c, and  *)
(*                         the single pointers (cpuid_event, ...) as one   *)
(*   mask                  the vcpus field of the single-step events       *)
(*   slat                  the slat_id field of every event                *)
(*   filled                the generic memory events whose gfn field was   *)
(*                         filled in by a violation                        *)
(*   steps, step_vcpus     the wrappers of vmi_step_event and their number *)
(*   clear, swap           what callbacks asked to clear and to swap       *)
(*   callback, down        event_callback and shutting_down                *)
(*   on, sstep             the monitor_*_on flags that the driver keeps,   *)
(*                         and sstep_enabled of the KVM driver             *)
(*   mon, access, mtf      what the hypervisor watches: its monitors, the  *)
(*                         watched accesses of every page in every view    *)
(*                         (an empty set: none), and the vCPUs it steps    *)
(***************************************************************************)
EXTENDS Naturals, Sequences, TLC

CONSTANTS
    Gfns,    \* the guest pages that are watched
    Slats,   \* the views (second-level page tables); 0 is the default one
    Msrs,    \* the MSRs listed in msr_all
    Ev       \* the vmi_event_t structures: a function from events to records

ASSUME SlatAssumption == 0 \in Slats

VMI_SUCCESS == "VMI_SUCCESS"
VMI_FAILURE == "VMI_FAILURE"
NULL == "NULL"

Return(s, rc) == [s EXCEPT !.rc = rc]
Succeed(s) == Return(s, VMI_SUCCESS)
Fail(s) == Return(s, VMI_FAILURE)
Succeeded(s) == s.rc = VMI_SUCCESS

(* The rest of an operation, done only when the call before it succeeded.  *)
Then(s, rest) == IF Succeeded(s) THEN rest ELSE s

(* A call into the hypervisor either has its effect or reports an error.   *)
Works(s, call) == call \notin s.bad

(* GHashTable: g_hash_table_insert, _remove, _lookup.                      *)
HashInsert(table, key, event) == (key :> event) @@ table
HashRemove(table, key) == [k \in DOMAIN table \ {key} |-> table[k]]
HashLookup(table, key) == IF key \in DOMAIN table THEN table[key] ELSE NULL

Include(set, x, enable) == IF enable THEN set \union {x} ELSE set \ {x}

(* intel_mem_access_sanity_check: EPT cannot express these two.            *)
intel_mem_access_sanity_check(access) == access \notin {{"R"}, {"R", "X"}}

(* A vmi_instance_t after events_init: no handlers, nothing watched.       *)
events_init(mode, minor, vcpus, masks) ==
    [mode |-> mode, minor |-> minor, vcpus |-> vcpus, rc |-> VMI_SUCCESS,
     bad |-> {}, stuck |-> {}, interrupt |-> <<>>, on_gfn |-> <<>>, generic |-> <<>>,
     reg |-> <<>>, msr |-> <<>>, ss |-> <<>>, single |-> <<>>,
     mask |-> masks, slat |-> [e \in DOMAIN Ev |-> Ev[e].slat],
     filled |-> {}, steps |-> <<>>, step_vcpus |-> [v \in vcpus |-> 0],
     clear |-> <<>>, swap |-> <<>>, callback |-> FALSE, down |-> FALSE,
     on |-> {}, sstep |-> {}, mon |-> {}, mtf |-> {},
     access |-> [v \in Slats |-> [g \in Gfns |-> {}]]]
=============================================================================
