------------------------------ MODULE MCEvents ------------------------------
(***************************************************************************)
(* Events, and the scenarios in which TLC runs the event loop: which       *)
(* driver, how the vCPUs are notified, which events the client has, what   *)
(* it does with them and which calls into the hypervisor may fail.         *)
(***************************************************************************)
EXTENDS EventClient

PageEvent(gfn, access, slat) ==
    [type |-> "memory", generic |-> FALSE, gfn |-> gfn, access |-> access, slat |-> slat]
AccessEvent(access) ==
    [type |-> "memory", generic |-> TRUE, gfn |-> NULL, access |-> access, slat |-> 0]
OnReg(reg, msr) == [type |-> "register", reg |-> reg, msr |-> msr, slat |-> 0]
OnStep(enable) == [type |-> "singlestep", enable |-> enable, slat |-> 0]
Of(type) == [type |-> type, slat |-> 0]

MCEv ==
    [m1 |-> PageEvent("g1", {"W"}, 0), m2 |-> PageEvent("g1", {"X"}, 1),
     m3 |-> PageEvent("g1", {"W", "X"}, 0), m4 |-> PageEvent("g2", {"W"}, 0),
     ga |-> AccessEvent({"W"}), gb |-> AccessEvent({"X"}),
     c3 |-> OnReg("CR3", NULL), ma |-> OnReg("MSR_ALL", NULL), mo |-> OnReg("MSR_ANY", "lstar"),
     i3 |-> [type |-> "interrupt", intr |-> "INT3", slat |-> 0],
     u1 |-> OnStep(TRUE), u2 |-> OnStep(FALSE), s1 |-> OnStep(TRUE), s2 |-> OnStep(TRUE),
     cp |-> Of("cpuid"), db |-> Of("debug"), gr |-> Of("guest_request"), vx |-> Of("vmexit"),
     da |-> Of("desc_access"), fe |-> Of("failed_emulation"), pc |-> Of("privcall"),
     wd |-> Of("watch_domain"),
     cr3_event |-> OnReg("CR3", NULL), msr_syscall_event |-> PageEvent("g1", {"X"}, 0)]
MCStepEvent == <<"s1", "s2">>
MCMasks == [s1 |-> {1}, s2 |-> {2}, u1 |-> {2}, u2 |-> {1, 2}]

Sc(mode, each, vcpus, events, does, faults) ==
    [mode |-> mode, minor |-> IF events = {"vx"} THEN 17 ELSE 12, each |-> each, vcpus |-> vcpus,
     events |-> events, does |-> does, faults |-> faults, masks |-> MCMasks]

MCScenarios ==
    {Sc("xen", FALSE, {1, 2}, {"m1", "m3"}, {"clear", "swap", "step"}, {}),
     Sc("xen", TRUE, {1, 2}, {"m1", "m3"}, {"clear", "swap"}, {}),
     Sc("kvm", FALSE, {1, 2}, {"m1", "m3"}, {"clear", "swap"}, {}),
     Sc("xen", FALSE, {1, 2}, {"m1", "m2"}, {"clear", "swap"}, {}),
     Sc("xen", FALSE, {1, 2}, {"m1", "m4"}, {"step"}, {}),
     Sc("xen", FALSE, {1, 2}, {"c3", "i3"}, {"clear", "step"}, {}),
     Sc("kvm", FALSE, {1, 2}, {"c3", "i3"}, {"clear"}, {}),
     Sc("xen", FALSE, {1}, {"ga", "gb"}, {"watch"}, {}),
     Sc("kvm", FALSE, {1}, {"ga", "gb"}, {"watch"}, {}),
     Sc("xen", FALSE, {1, 2}, {"u1", "m1"}, {"clear", "toggle"}, {}),
     Sc("xen", FALSE, {1, 2}, {"u2", "m1"}, {"flip"}, {}),
     Sc("kvm", FALSE, {1, 2}, {"u2", "m1"}, {"flip"}, {}),
     Sc("xen", FALSE, {1}, {"mo", "c3"}, {"clear"}, {}),
     Sc("kvm", FALSE, {1}, {"ma", "c3"}, {"clear"}, {}),
     Sc("xen", FALSE, {1}, {"cp", "db"}, {"clear"}, {}),
     Sc("xen", FALSE, {1}, {"gr", "da", "fe", "pc"}, {"clear"}, {}),
     Sc("xen", FALSE, {1}, {"vx"}, {"clear"}, {}),
     Sc("kvm", FALSE, {1}, {"cp", "da"}, {"clear"}, {}),
     Sc("xen", FALSE, {1}, {"msr_syscall_event"}, {"trace"}, {}),
     Sc("xen", FALSE, {1, 2}, {"m1", "m3"}, {"clear", "swap"}, {"mem_access", "notify"}),
     Sc("xen", FALSE, {1, 2}, {"m1"}, {"step"}, {"step_on"}),
     Sc("xen", FALSE, {1, 2}, {"c3", "i3"}, {"clear"}, {"write_ctrlreg", "software_breakpoint", "inject"}),
     Sc("kvm", FALSE, {1, 2}, {"c3", "i3"}, {"clear"}, {"write_ctrlreg", "software_breakpoint", "pause"}),
     Sc("xen", FALSE, {1}, {"m1"}, {"clear"}, {"pause"}),
     Sc("kvm", FALSE, {1, 2}, {"u2", "m1"}, {"flip"}, {"step_on"})}
=============================================================================
