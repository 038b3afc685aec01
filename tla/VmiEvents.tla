----------------------------- MODULE VmiEvents -----------------------------
(***************************************************************************)
(* The event interface of LibVMI, libvmi/events.c, on top of the drivers:  *)
(* handlers are registered, cleared, swapped and stepped.  An event is a   *)
(* member of DOMAIN Ev; Ev[e] holds the fields of its vmi_event_t that the *)
(* caller sets.  Field handler of a single-handler event is the name of    *)
(* its pointer in vmi_instance_t.                                          *)
(***************************************************************************)
EXTENDS XenMonitor, KvmMonitor

CONSTANT StepEvent   \* the single-step event that vmi_step_event allocates
                     \* for a vCPU: a function from vCPUs to events

SX == INSTANCE SequencesExt

(***************************************************************************)
(* driver_wrapper.h: the call goes to the driver of the mode; a driver     *)
(* that left the slot empty fails.                                         *)
(***************************************************************************)
driver_set_mem_access(s, gfn, access, slat) ==
    IF s.mode = "xen" THEN xen_set_mem_access(s, gfn, access, slat)
    ELSE kvm_set_mem_access(s, gfn, access, slat)
driver_set_reg_access(s, e, enable) ==
    IF s.mode = "xen" THEN xen_set_reg_access(s, Ev[e].reg, Ev[e].msr, enable)
    ELSE kvm_set_reg_access(s, Ev[e].reg, Ev[e].msr, enable)
driver_set_intr_access(s, intr, enable) ==
    IF s.mode = "xen" THEN xen_set_intr_access(s, intr, enable)
    ELSE kvm_set_intr_access(s, intr, enable)
driver_start_single_step(s, vcpus, enable) ==
    IF s.mode = "xen" THEN xen_start_single_step(s, vcpus, enable)
    ELSE kvm_start_single_step(s, vcpus, enable)
driver_stop_single_step(s, vcpu) ==
    IF s.mode = "xen" THEN xen_stop_single_step(s, vcpu) ELSE kvm_stop_single_step(s, vcpu)
driver_shutdown_single_step(s) ==
    IF s.mode = "xen" THEN xen_shutdown_single_step(s) ELSE kvm_shutdown_single_step(s)
driver_set_cpuid_event(s, enable) ==
    IF s.mode = "xen" THEN xen_set_cpuid_event(s, enable) ELSE kvm_set_cpuid_event(s, enable)
driver_set_desc_access_event(s, enable) ==
    IF s.mode = "xen" THEN xen_set_desc_access_event(s, enable)
    ELSE kvm_set_desc_access_event(s, enable)
driver_set_guest_requested_event(s, enable) ==
    IF s.mode = "xen" THEN xen_set_guest_requested_event(s, enable) ELSE Fail(s)
driver_set_debug_event(s, enable) ==
    IF s.mode = "xen" THEN xen_set_debug_event(s, enable) ELSE Fail(s)
driver_set_vmexit_event(s, enable) ==
    IF s.mode = "xen" THEN xen_set_vmexit_event(s, enable) ELSE Fail(s)
driver_set_privcall_event(s, enable) ==
    IF s.mode = "xen" THEN xen_set_privcall_event(s, enable) ELSE Fail(s)
driver_set_failed_emulation_event(s, enable) ==
    IF s.mode = "xen" THEN xen_set_failed_emulation_event(s, enable) ELSE Fail(s)
driver_set_watch_domain_event(s, enable) ==
    IF s.mode = "xen" THEN xen_set_domain_watch_event(s, enable) ELSE Fail(s)

(***************************************************************************)
(* Registering.                                                            *)
(***************************************************************************)
register_interrupt_event(s, e) ==
    LET intr == Ev[e].intr
        t == driver_set_intr_access(s, intr, TRUE) IN
    IF intr \in DOMAIN s.interrupt THEN Fail(s)
    ELSE Then(t, [t EXCEPT !.interrupt = HashInsert(@, intr, e)])

register_msr_event(s, e) ==
    LET t == driver_set_reg_access(s, e, TRUE) IN
    IF Ev[e].msr \in DOMAIN s.msr THEN Fail(s)
    ELSE Then(t, [t EXCEPT !.msr = HashInsert(@, Ev[e].msr, e)])

register_reg_event(s, e) ==
    LET t == driver_set_reg_access(s, e, TRUE) IN
    IF Ev[e].reg = "MSR_ANY" /\ Ev[e].msr # NULL THEN register_msr_event(s, e)
    ELSE IF Ev[e].reg \in DOMAIN s.reg THEN Fail(s)
    ELSE Then(t, [t EXCEPT !.reg = HashInsert(@, Ev[e].reg, e)])

register_mem_event_generic(s, e) ==
    IF e \in s.filled \/ s.on_gfn # <<>> \/ Ev[e].access \in DOMAIN s.generic THEN Fail(s)
    ELSE Succeed([s EXCEPT !.generic = HashInsert(@, Ev[e].access, e)])

(* One handler for a page, whatever the view it is watched in.             *)
register_mem_event_on_gfn(s, e) ==
    LET t == driver_set_mem_access(s, Ev[e].gfn, Ev[e].access, s.slat[e]) IN
    IF s.generic # <<>> \/ Ev[e].gfn \in DOMAIN s.on_gfn THEN Fail(s)
    ELSE Then(t, [t EXCEPT !.on_gfn = HashInsert(@, Ev[e].gfn, e)])

register_mem_event(s, e) ==
    IF Ev[e].generic THEN register_mem_event_generic(s, e)
    ELSE register_mem_event_on_gfn(s, e)

register_singlestep_event(s, e) ==
    LET t == driver_start_single_step(s, s.mask[e], Ev[e].enable) IN
    IF s.mask[e] \intersect DOMAIN s.ss # {} THEN Fail(s)
    ELSE Then(t, [t EXCEPT !.ss = [v \in s.mask[e] |-> e] @@ @])

(* The events with one handler each: the pointer is set when the driver    *)
(* has switched the monitor on.                                            *)
SetHandler(s, name, e, t) ==
    IF name \in DOMAIN s.single THEN Fail(s)
    ELSE Then(t, [t EXCEPT !.single = HashInsert(@, name, e)])
register_guest_requested_event(s, e) ==
    SetHandler(s, "guest_request", e, driver_set_guest_requested_event(s, TRUE))
register_cpuid_event(s, e) == SetHandler(s, "cpuid", e, driver_set_cpuid_event(s, TRUE))
register_vmexit_event(s, e) == SetHandler(s, "vmexit", e, driver_set_vmexit_event(s, TRUE))
register_debug_event(s, e) == SetHandler(s, "debug", e, driver_set_debug_event(s, TRUE))
register_privcall_event(s, e) ==
    SetHandler(s, "privcall", e, driver_set_privcall_event(s, TRUE))
register_desc_access_event(s, e) ==
    SetHandler(s, "desc_access", e, driver_set_desc_access_event(s, TRUE))
register_failed_emulation_event(s, e) ==
    SetHandler(s, "failed_emulation", e, driver_set_failed_emulation_event(s, TRUE))
register_watch_domain_event(s, e) ==
    SetHandler(s, "watch_domain", e, driver_set_watch_domain_event(s, TRUE))

vmi_register_event(s, e) ==
    CASE Ev[e].type = "register" -> register_reg_event(s, e)
      [] Ev[e].type = "memory" -> register_mem_event(s, e)
      [] Ev[e].type = "singlestep" -> register_singlestep_event(s, e)
      [] Ev[e].type = "interrupt" -> register_interrupt_event(s, e)
      [] Ev[e].type = "guest_request" -> register_guest_requested_event(s, e)
      [] Ev[e].type = "cpuid" -> register_cpuid_event(s, e)
      [] Ev[e].type = "debug" -> register_debug_event(s, e)
      [] Ev[e].type = "privcall" -> register_privcall_event(s, e)
      [] Ev[e].type = "desc_access" -> register_desc_access_event(s, e)
      [] Ev[e].type = "failed_emulation" -> register_failed_emulation_event(s, e)
      [] Ev[e].type = "watch_domain" -> register_watch_domain_event(s, e)
      [] Ev[e].type = "vmexit" -> register_vmexit_event(s, e)
      [] OTHER -> Fail(s)

(***************************************************************************)
(* Clearing.  While the instance is being destroyed the tables keep their  *)
(* entries.                                                                *)
(***************************************************************************)
Unless(down, table, new) == IF down THEN table ELSE new

clear_interrupt_event(s, e) ==
    LET intr == Ev[e].intr
        t == driver_set_intr_access(s, intr, FALSE) IN
    IF intr \notin DOMAIN s.interrupt THEN Fail(s)
    ELSE Then(t, [t EXCEPT !.interrupt = Unless(s.down, @, HashRemove(@, intr))])

clear_reg_event(s, e) ==
    LET t == driver_set_reg_access(s, e, FALSE) IN
    IF Ev[e].reg \in DOMAIN s.reg
    THEN Then(t, [t EXCEPT !.reg = Unless(s.down, @, HashRemove(@, Ev[e].reg))])
    ELSE IF Ev[e].reg = "MSR_ANY" /\ Ev[e].msr \in DOMAIN s.msr
    THEN Then(t, [t EXCEPT !.msr = Unless(s.down, @, HashRemove(@, Ev[e].msr))])
    ELSE Fail(s)

(* Mutant: the page stays watched when its handler goes.                   *)
clear_mem_event_KeepsWatch(s, e) ==
    Succeed([s EXCEPT !.generic = HashRemove(@, Ev[e].access), !.on_gfn = HashRemove(@, Ev[e].gfn)])

(* The entry that goes is the page's, whichever event it holds.            *)
clear_mem_event(s, e) ==
    LET t == driver_set_mem_access(s, Ev[e].gfn, {}, s.slat[e]) IN
    IF Ev[e].generic
    THEN Succeed([s EXCEPT !.generic = Unless(s.down, @, HashRemove(@, Ev[e].access))])
    ELSE Then(t, [t EXCEPT !.on_gfn = Unless(s.down, @, HashRemove(@, Ev[e].gfn))])

vmi_shutdown_single_step(s) ==
    LET t == driver_shutdown_single_step(s) IN Then(t, [t EXCEPT !.ss = <<>>])

(* The result is that of the last vCPU, and a failure when there is none.  *)
clear_singlestep_event(s, e) ==
    LET stopped == driver_stop_single_step(s, CHOOSE v \in s.mask[e] : TRUE)
        off == IF s.mask[e] = {} \/ ~Succeeded(stopped) THEN {} ELSE s.mask[e]
        t == [s EXCEPT !.mtf = @ \ off,
                       !.sstep = @ \ off,
                       !.ss = Unless(s.down, @, [v \in DOMAIN @ \ off |-> @[v]])]
        u == IF t.ss = <<>> THEN vmi_shutdown_single_step(t) ELSE t IN
    IF off = {} THEN Fail(u) ELSE Succeed(u)

ClearHandler(s, name, t) ==
    IF name \notin DOMAIN s.single THEN Fail(s)
    ELSE Then(t, [t EXCEPT !.single = HashRemove(@, name)])
clear_guest_requested_event(s) ==
    ClearHandler(s, "guest_request", driver_set_guest_requested_event(s, FALSE))
clear_cpuid_event(s) == ClearHandler(s, "cpuid", driver_set_cpuid_event(s, FALSE))
clear_debug_event(s) == ClearHandler(s, "debug", driver_set_debug_event(s, FALSE))

(* swap_search_from compares the wrong way round for g_slist_find_custom:  *)
(* the search finds a swap queued from any OTHER event.                    *)
swap_search_from(s, e) == \E i \in DOMAIN s.swap : s.swap[i].from # e

(* In a callback the clear is only queued (twice, when no free routine is  *)
(* given with it).                                                         *)
vmi_clear_event(s, e, free) ==
    IF s.callback
    THEN IF swap_search_from(s, e) \/ (e \in DOMAIN s.clear /\ s.clear[e]) THEN Fail(s)
         ELSE Succeed([s EXCEPT !.clear = HashInsert(@, e, free)])
    ELSE CASE Ev[e].type = "singlestep" -> clear_singlestep_event(s, e)
           [] Ev[e].type = "register" -> clear_reg_event(s, e)
           [] Ev[e].type = "interrupt" -> clear_interrupt_event(s, e)
           [] Ev[e].type = "memory" -> clear_mem_event(s, e)
           [] Ev[e].type = "guest_request" -> clear_guest_requested_event(s)
           [] Ev[e].type = "cpuid" -> clear_cpuid_event(s)
           [] Ev[e].type = "debug" -> clear_debug_event(s)
           [] OTHER -> Fail(s)

(***************************************************************************)
(* Swapping.                                                               *)
(***************************************************************************)
swap_events(s, from, to) ==
    LET t == IF s.slat[from] = s.slat[to] THEN Succeed(s)
             ELSE driver_set_mem_access(s, Ev[from].gfn, {}, s.slat[from])
        u == driver_set_mem_access(t, Ev[to].gfn, Ev[to].access, s.slat[to]) IN
    Then(t, Then(u, [u EXCEPT !.on_gfn = HashInsert(@, Ev[to].gfn, to)]))

vmi_swap_events(s, from, to) ==
    IF \/ Ev[from].type # "memory" \/ Ev[to].type # "memory"
       \/ Ev[from].gfn \notin DOMAIN s.on_gfn
    THEN Fail(s)
    ELSE IF s.callback
    THEN IF swap_search_from(s, from) THEN Fail(s)
         ELSE Succeed([s EXCEPT !.swap = Append(@, [from |-> from, to |-> to])])
    ELSE swap_events(s, from, to)

(* A page may be watched by hand once a generic handler is there for one   *)
(* of the accesses.                                                        *)
vmi_set_mem_event(s, gfn, access, slat) ==
    IF access # {} /\ \A key \in DOMAIN s.generic : key \intersect access = {}
    THEN Fail(s)
    ELSE driver_set_mem_access(s, gfn, access, slat)

vmi_get_mem_event(s, gfn, access) ==
    IF access \in DOMAIN s.generic THEN s.generic[access] ELSE HashLookup(s.on_gfn, gfn)
vmi_get_reg_event(s, reg) == HashLookup(s.reg, reg)
vmi_get_singlestep_event(s, vcpu) == HashLookup(s.ss, vcpu)

(***************************************************************************)
(* Stepping an event: it is registered again (or cb is called) when its    *)
(* vCPU has made the given number of single steps.                         *)
(***************************************************************************)
vmi_step_event(s, e, vcpu, steps, cb) ==
    LET ss == vmi_get_singlestep_event(s, vcpu)
        t == IF ss = NULL THEN register_singlestep_event(s, StepEvent[vcpu]) ELSE Succeed(s)
        wrap == [event |-> e, vcpu |-> vcpu, steps |-> steps, cb |-> cb] IN
    IF (ss # NULL /\ s.step_vcpus[vcpu] = 0) \/ steps = 0 THEN Fail(s)
    ELSE Then(t, [t EXCEPT !.steps = <<wrap>> \o @, !.step_vcpus[vcpu] = @ + 1])

(* One wrapper of the list that step_and_reg_events goes through: acc.s is *)
(* the instance, acc.remain what is kept, acc.ss whether singlestep_event  *)
(* is still set, acc.stop that an event could not be registered again and  *)
(* the function returned.                                                  *)
StepWrapper(acc, wrap, vcpu) ==
    LET left == IF acc.ss /\ wrap.vcpu = vcpu THEN wrap.steps - 1 ELSE wrap.steps
        t == IF wrap.cb THEN Succeed(acc.s) ELSE vmi_register_event(acc.s, wrap.event)
        u == [t EXCEPT !.step_vcpus[wrap.vcpu] = @ - 1]
        last == u.step_vcpus[wrap.vcpu] = 0 IN
    IF acc.stop THEN acc
    ELSE IF left > 0
    THEN [acc EXCEPT !.remain = <<[wrap EXCEPT !.steps = left]>> \o @]
    ELSE IF ~Succeeded(t) THEN [acc EXCEPT !.s = t, !.stop = TRUE]
    ELSE [acc EXCEPT !.s = IF last THEN vmi_clear_event(u, StepEvent[vcpu], TRUE) ELSE u,
                     !.ss = @ /\ ~last]

step_and_reg_events(s, vcpu) ==
    LET start == [s |-> [s EXCEPT !.steps = <<>>], remain |-> <<>>, ss |-> TRUE, stop |-> FALSE]
        acc == SX!FoldLeft(LAMBDA a, w : StepWrapper(a, w, vcpu), start, SX!Reverse(s.steps))
    IN  IF acc.stop THEN acc.s ELSE [acc.s EXCEPT !.steps = acc.remain \o @]

vmi_stop_single_step_vcpu(s, e, vcpu) ==
    driver_stop_single_step([s EXCEPT !.mask[e] = @ \ {vcpu}, !.ss = HashRemove(@, vcpu)], vcpu)

(* g_hash_table_insert returns FALSE for a key that was there; the entry   *)
(* and the mask have changed by then.                                      *)
vmi_toggle_single_step_vcpu(s, e, vcpu, enabled) ==
    LET set == [s EXCEPT !.mask[e] = Include(@, vcpu, enabled),
                         !.ss = IF enabled THEN HashInsert(@, vcpu, e) ELSE HashRemove(@, vcpu)] IN
    IF s.callback THEN Fail(s)
    ELSE IF enabled = (vcpu \in DOMAIN s.ss) THEN Fail(set)
    ELSE IF enabled THEN driver_start_single_step(set, set.mask[e], Ev[e].enable)
    ELSE driver_stop_single_step(set, vcpu)

(***************************************************************************)
(* What a driver does with the queues once no request is pending: the      *)
(* swaps in the order they were asked for, then the clears in some order.  *)
(***************************************************************************)
Swapped(s) ==
    SX!FoldLeft(LAMBDA t, w : swap_events(t, w.from, w.to), [s EXCEPT !.swap = <<>>], s.swap)
Cleared(s, order) ==
    SX!FoldLeft(LAMBDA t, e : vmi_clear_event(t, e, FALSE), [s EXCEPT !.clear = <<>>], order)
ClearOrders(s) == SX!SetToSeqs(DOMAIN s.clear)
=============================================================================
