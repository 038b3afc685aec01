----------------------------- MODULE XenMonitor -----------------------------
(***************************************************************************)
(* The Xen driver's controls: what libvmi/driver/xen/xen_events.c tells    *)
(* the hypervisor to watch.  Handles and the domain id are valid, and the  *)
(* hypervisor has the capabilities of an HVM guest on x86.                 *)
(***************************************************************************)
EXTENDS VmiState

CtrlRegs == {"CR0", "CR3", "CR4", "XCR0"}

(* convert_vmi_flags_to_xenmem has an entry for these requests.            *)
XenAccesses ==
    {{}, {"W"}, {"X"}, {"R", "W"}, {"W", "X"}, {"R", "W", "X"}, {"W2X"}, {"RWX2N"}}

xen_set_mem_access(s, gfn, access, slat) ==
    IF /\ intel_mem_access_sanity_check(access)
       /\ access \in XenAccesses
       /\ Works(s, "mem_access")
    THEN Succeed([s EXCEPT !.access[slat][gfn] = access])
    ELSE Fail(s)

(* A control register is switched only from one state to the other.  The   *)
(* failure of one MSR of MSR_ALL is only logged.  MSR_ANY names one MSR,   *)
(* and no flag is kept for it.                                             *)
xen_set_reg_access(s, reg, msr, enable) ==
    CASE reg \in CtrlRegs ->
            IF enable # (reg \in s.on) /\ Works(s, "write_ctrlreg")
            THEN Succeed([s EXCEPT !.on = Include(@, reg, enable),
                                   !.mon = Include(@, reg, enable)])
            ELSE Fail(s)
      [] reg = "MSR_ALL" ->
            IF enable # (reg \in s.on) /\ (s.minor >= 8 \/ Works(s, "mov_to_msr"))
            THEN LET set == {m \in Msrs : Works(s, "mov_to_msr")} IN
                 Succeed([s EXCEPT !.on = Include(@, reg, enable),
                                   !.mon = IF enable THEN @ \union set ELSE @ \ set])
            ELSE Fail(s)
      [] reg = "MSR_ANY" ->
            IF s.minor >= 8 /\ msr # NULL /\ Works(s, "mov_to_msr")
            THEN Succeed([s EXCEPT !.mon = Include(@, msr, enable)])
            ELSE Fail(s)

xen_set_int3_access(s, enable) ==
    IF enable # ("INT3" \in s.on) /\ Works(s, "software_breakpoint")
    THEN Succeed([s EXCEPT !.on = Include(@, "INT3", enable),
                           !.mon = Include(@, "INT3", enable)])
    ELSE Fail(s)

(* INT_NEXT needs no monitor: it is asked for in a response.               *)
xen_set_intr_access(s, intr, enable) ==
    IF intr = "INT3" THEN xen_set_int3_access(s, enable) ELSE Succeed(s)

xen_stop_single_step(s, vcpu) ==
    IF Works(s, "step_off") THEN Succeed([s EXCEPT !.mtf = @ \ {vcpu}]) ELSE Fail(s)

(* rewind: every vCPU from the failing one down is taken out of single     *)
(* step, those that the event does not ask for included.                   *)
xen_start_single_step(s, vcpus, enable) ==
    LET t == [s EXCEPT !.on = @ \union {"SS"}, !.mon = @ \union {"SS"}]
        failing == vcpus \intersect s.stuck
        first == CHOOSE v \in failing : \A w \in failing : v <= w IN
    IF "SS" \notin s.on /\ ~Works(s, "singlestep") THEN Fail(s)
    ELSE IF ~enable THEN Succeed(t)
    ELSE IF failing = {} THEN Succeed([t EXCEPT !.mtf = @ \union vcpus])
    ELSE Fail([t EXCEPT !.mtf = {v \in @ : v > first}])

xen_shutdown_single_step(s) ==
    LET t == [s EXCEPT !.mtf = IF Works(s, "step_off") THEN {} ELSE @] IN
    IF "SS" \notin s.on THEN Succeed(t)
    ELSE IF Works(s, "singlestep")
         THEN Succeed([t EXCEPT !.on = @ \ {"SS"}, !.mon = @ \ {"SS"}])
         ELSE Fail(t)

(* The monitors that have one handler each, with the minor version of Xen  *)
(* they need.  Disabling one that has no handler is a success and does     *)
(* nothing; a monitor with no pointer left is only switched off.           *)
SingleSince ==
    [guest_request |-> 8, debug |-> 8, cpuid |-> 8, vmexit |-> 17,
     desc_access |-> 10, failed_emulation |-> 11]

xen_set_single(s, what, enable) ==
    IF s.minor < SingleSince[what] THEN Fail(s)
    ELSE IF ~enable /\ what \notin DOMAIN s.single THEN Succeed(s)
    ELSE IF Works(s, what) THEN Succeed([s EXCEPT !.mon = Include(@, what, enable)])
    ELSE Fail(s)
xen_set_guest_requested_event(s, enable) == xen_set_single(s, "guest_request", enable)
xen_set_debug_event(s, enable) == xen_set_single(s, "debug", enable)

(* These also drop the handler when they are switched off.                 *)
xen_set_dropping(s, what, enable) ==
    LET t == xen_set_single(s, what, enable) IN
    IF Succeeded(t) /\ ~enable THEN [t EXCEPT !.single = HashRemove(@, what)] ELSE t
xen_set_cpuid_event(s, enable) == xen_set_dropping(s, "cpuid", enable)
xen_set_vmexit_event(s, enable) == xen_set_dropping(s, "vmexit", enable)
xen_set_desc_access_event(s, enable) == xen_set_dropping(s, "desc_access", enable)
xen_set_failed_emulation_event(s, enable) == xen_set_dropping(s, "failed_emulation", enable)

(* The capability is that of an ARM guest: on x86 the call never works.     *)
xen_set_privcall_event(s, enable) ==
    IF /\ s.minor >= 8
       /\ Works(s, "privileged_call")
       /\ enable \/ "privcall" \in DOMAIN s.single
    THEN Succeed([s EXCEPT !.mon = Include(@, "privcall", enable),
                           !.single = IF enable THEN @ ELSE HashRemove(@, "privcall")])
    ELSE Fail(s)

(* Switching the domain watch off sets the two watches once more.          *)
xen_set_domain_watch_event(s, enable) ==
    IF ~enable /\ "watch_domain" \notin DOMAIN s.single THEN Succeed(s)
    ELSE IF Works(s, "xs_watch")
    THEN Succeed([s EXCEPT !.mon = @ \union {"watch_domain"},
                           !.single = IF enable THEN @ ELSE HashRemove(@, "watch_domain")])
    ELSE Fail(s)
=============================================================================
