----------------------------- MODULE KvmMonitor -----------------------------
(***************************************************************************)
(* The KVM driver's controls: what libvmi/driver/kvm/kvm_events.c tells    *)
(* KVMI to watch.  A monitor is set on one vCPU after the other; when one  *)
(* of them fails, the monitor is taken off all of them.                    *)
(***************************************************************************)
EXTENDS VmiState

KvmAccesses == {{}, {"W"}, {"X"}, {"R", "W"}, {"W", "X"}, {"R", "W", "X"}}

kvm_set_mem_access(s, gfn, access, slat) ==
    IF /\ intel_mem_access_sanity_check(access)
       /\ access \in KvmAccesses
       /\ Works(s, "mem_access")
    THEN Succeed([s EXCEPT !.access[slat][gfn] = access])
    ELSE Fail(s)

(* MSR_ANY is set on every vCPU, meets the default of the switch over the  *)
(* control registers, and is taken off again.                              *)
kvm_set_reg_access(s, reg, msr, enable) ==
    CASE reg \in {"CR0", "CR3", "CR4"} ->
            IF Works(s, "write_ctrlreg")
            THEN Succeed([s EXCEPT !.on = Include(@, reg, enable),
                                   !.mon = Include(@, reg, enable)])
            ELSE Fail([s EXCEPT !.mon = @ \ {reg}])
      [] reg = "MSR_ALL" ->
            LET set == {m \in Msrs : Works(s, "mov_to_msr")} IN
            Succeed([s EXCEPT !.on = Include(@, reg, enable),
                              !.mon = IF enable THEN @ \union set ELSE @ \ set])
      [] reg = "MSR_ANY" -> Fail([s EXCEPT !.mon = @ \ {msr}])
      [] OTHER -> Fail(s)

kvm_set_intr_access(s, intr, enable) ==
    IF ("INT3" \in s.on) = enable \/ intr # "INT3" THEN Fail(s)
    ELSE IF Works(s, "software_breakpoint")
    THEN Succeed([s EXCEPT !.on = Include(@, "INT3", enable),
                           !.mon = Include(@, "INT3", enable)])
    ELSE Fail([s EXCEPT !.on = @ \ {"INT3"}, !.mon = @ \ {"INT3"}])

kvm_set_desc_access_event(s, enable) ==
    IF Works(s, "desc_access")
    THEN Succeed([s EXCEPT !.on = Include(@, "desc_access", enable),
                           !.mon = Include(@, "desc_access", enable)])
    ELSE Fail([s EXCEPT !.mon = @ \ {"desc_access"}])

kvm_set_cpuid_event(s, enable) ==
    IF Works(s, "cpuid")
    THEN Succeed([s EXCEPT !.mon = Include(@, "cpuid", enable)])
    ELSE Fail([s EXCEPT !.mon = @ \ {"cpuid"}])

kvm_start_single_step_vcpu(s, vcpu) ==
    IF vcpu \in s.stuck THEN Fail([s EXCEPT !.sstep = @ \ {vcpu}])
    ELSE Succeed([s EXCEPT !.sstep = @ \union {vcpu}, !.mtf = @ \union {vcpu}])

kvm_stop_single_step(s, vcpu) ==
    IF Works(s, "step_off")
    THEN Succeed([s EXCEPT !.sstep = @ \ {vcpu}, !.mtf = @ \ {vcpu}])
    ELSE Fail(s)

(* rewind takes the vCPUs of this event, and no others, out of single step. *)
kvm_start_single_step(s, vcpus, enable) ==
    IF vcpus = {} THEN Fail(s)
    ELSE IF ~enable THEN Succeed(s)
    ELSE IF vcpus \intersect s.stuck = {}
         THEN Succeed([s EXCEPT !.sstep = @ \union vcpus, !.mtf = @ \union vcpus])
         ELSE Fail([s EXCEPT !.sstep = @ \ vcpus, !.mtf = @ \ vcpus])

kvm_shutdown_single_step(s) ==
    IF Works(s, "step_off") THEN Succeed([s EXCEPT !.sstep = {}, !.mtf = {}]) ELSE Fail(s)
=============================================================================
