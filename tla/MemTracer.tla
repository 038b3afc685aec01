----------------------------- MODULE MemTracer -----------------------------
(***************************************************************************)
(* The tracer of src/syscall-trace.c when it is built with MEM_EVENT: the  *)
(* first write to CR3 puts an execute watch on the page of the system call *)
(* entry, and each time the page is executed the watch is taken off for    *)
(* one step.  The callbacks and the calls of main are operators on the     *)
(* vmi_instance_t and on the tracer's own data:                            *)
(*   registered   mem_events_registered                                    *)
(*   phase        where main is: "new", "tracing", "stopped"               *)
(*   unstepped    the vCPUs that met the watch and made no step since      *)
(*   twice        an execution of the entry was recorded a second time     *)
(***************************************************************************)
EXTENDS VmiEvents

TracerOwn == [registered |-> FALSE, phase |-> "new", unstepped |-> {}, twice |-> FALSE]

cr3_event == "cr3_event"
msr_syscall_event == "msr_syscall_event"

Outcome(s, own) == [s |-> s, own |-> own, response |-> "NONE"]

(* Mutant: the watch is not taken off for the step.                        *)
syscall_cb_KeepsWatch(own, s, vcpu, hit) ==
    Outcome(vmi_step_event(s, msr_syscall_event, vcpu, 1, FALSE),
            [own EXCEPT !.twice = @ \/ (hit /\ vcpu \in own.unstepped), !.unstepped = @ \union {vcpu}])

(* syscall_cb: hit is that the access was at the entry, not elsewhere in   *)
(* its page.  Nobody looks at the results of the two calls.                *)
syscall_cb(own, s, vcpu, hit) ==
    LET t == vmi_clear_event(s, msr_syscall_event, FALSE)
        u == vmi_step_event(t, msr_syscall_event, vcpu, 1, FALSE) IN
    Outcome(u, [own EXCEPT !.twice = @ \/ (hit /\ vcpu \in own.unstepped),
                           !.unstepped = @ \union {vcpu}])

cr3_register_task_callback(own, s) ==
    LET t == IF own.registered THEN Succeed(s) ELSE vmi_register_event(s, msr_syscall_event) IN
    Outcome(vmi_clear_event(t, cr3_event, FALSE), [own EXCEPT !.registered = @ \/ Succeeded(t)])

(* The library's callback for the step; the vCPU has executed the entry.   *)
step_callback(own, s, vcpu) ==
    Outcome(step_and_reg_events(s, vcpu), [own EXCEPT !.unstepped = @ \ {vcpu}])

TracerCallbacks(own, s, e, vcpu) ==
    IF e = StepEvent[vcpu] THEN {step_callback(own, s, vcpu)}
    ELSE IF e = cr3_event THEN {cr3_register_task_callback(own, s)}
    ELSE {syscall_cb(own, s, vcpu, hit) : hit \in BOOLEAN}

(* main registers the CR3 event, listens, and clears both events without   *)
(* pausing the guest.                                                      *)
register_mem_events(own, s) ==
    LET t == vmi_register_event(s, cr3_event) IN
    Outcome(t, [own EXCEPT !.phase = IF Succeeded(t) THEN "tracing" ELSE "stopped"])

main_exit(own, s) ==
    LET t == vmi_clear_event(s, cr3_event, FALSE) IN
    Outcome(vmi_clear_event(t, msr_syscall_event, FALSE), [own EXCEPT !.phase = "stopped"])

TracerCalls(own, s) ==
    IF own.phase = "new" THEN {register_mem_events(own, s)}
    ELSE IF own.phase = "tracing" THEN {main_exit(own, s)}
    ELSE {}
=============================================================================
