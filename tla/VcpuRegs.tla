----------------------------- MODULE VcpuRegs ------------------------------
(***************************************************************************)
(* Reading and writing vCPU registers.  A context c gives the value of     *)
(* each register of one vCPU, a machine m the context of each vCPU.  One   *)
(* register stands for those that every switch treats alike:               *)
(*   rax, rip  the general registers, RIP and RFLAGS (KVM's kvm_regs)      *)
(*   cr3       the control registers;   fs   the segment bases             *)
(*   dr0       the debug registers;     lstar  the system call MSRs        *)
(*   xmm       what no driver reads through this interface                 *)
(* A call that sets registers reads a context first (snap), changes it and *)
(* writes it back into the machine as it then is (m).                      *)
(***************************************************************************)
EXTENDS Naturals

General  == {"rax", "rip"}
Control  == {"cr3"}
Debug    == {"dr0"}
Segments == {"fs"}
Msrs     == {"lstar"}
HvmRegs  == General \cup Control \cup Debug \cup Segments \cup Msrs
Pv64Regs == General \cup Control \cup Debug \cup Segments
Pv32Regs == General \cup Control \cup Debug
KvmRegs  == General \cup Control \cup Segments \cup Msrs
ArmRegs == {"r0", "pc", "ttbr0"}

------------------------------- \* Reading: the value, or none

Value(c, r, known) == IF r \in known THEN {c[r]} ELSE {}

xen_get_vcpureg_hvm(c, r)  == Value(c, r, HvmRegs)
xen_get_vcpureg_pv64(c, r) == Value(c, r, Pv64Regs)
xen_get_vcpureg_pv32(c, r) == Value(c, r, Pv32Regs)
xen_get_vcpureg_arm(c, r)  == Value(c, r, ArmRegs)
kvm_get_vcpureg(c, r)      == Value(c, r, KvmRegs)

xen_get_vcpureg(type, c, r) ==
  CASE type = "hvm"  -> xen_get_vcpureg_hvm(c, r)
    [] type = "pv64" -> xen_get_vcpureg_pv64(c, r)
    [] type = "pv32" -> xen_get_vcpureg_pv32(c, r)
    [] type = "arm"  -> xen_get_vcpureg_arm(c, r)

driver_get_vcpureg(type, c, r) ==
  IF type = "kvm" THEN kvm_get_vcpureg(c, r) ELSE xen_get_vcpureg(type, c, r)

\* All registers at once, which only these two have.
xen_get_vcpuregs_hvm(c) == {[r \in HvmRegs \cap DOMAIN c |-> c[r]]}
kvm_get_vcpuregs(c)     == {[r \in KvmRegs \cap DOMAIN c |-> c[r]]}

driver_get_vcpuregs(type, c) ==
  CASE type = "hvm" -> xen_get_vcpuregs_hvm(c)
    [] type = "kvm" -> kvm_get_vcpuregs(c)
    [] OTHER -> {}

------------------------------- \* Writing: [ok, m]

Refused(m)   == [ok |-> FALSE, m |-> m]
Changed(m)   == [ok |-> TRUE, m |-> m]
With(c, new, R) == [r \in DOMAIN c |-> IF r \in R \cap DOMAIN new THEN new[r] ELSE c[r]]
One(r, x)    == [q \in {r} |-> x]

\* The context of all vCPUs goes back, even when the register is unknown.
xen_set_vcpureg_hvm(m, snap, v, r, x) ==
  [ok |-> r \in HvmRegs, m |-> [snap EXCEPT ![v] = With(@, One(r, x), HvmRegs)]]

\* The debug registers but DR7 and most segment state are not copied.
xen_set_vcpuregs_hvm(m, snap, v, new) ==
  Changed([snap EXCEPT ![v] = With(@, new, General \cup Control \cup Segments \cup Msrs)])

\* xc_vcpu_setcontext: the whole context of one vCPU.
SetOne(m, snap, v, r, x, known) ==
  IF r \in known THEN Changed([m EXCEPT ![v] = With(snap[v], One(r, x), known)])
  ELSE Refused(m)

xen_set_vcpureg_pv64(m, snap, v, r, x) == SetOne(m, snap, v, r, x, Pv64Regs)
xen_set_vcpureg_pv32(m, snap, v, r, x) == SetOne(m, snap, v, r, x, Pv32Regs)
xen_set_vcpureg_arm(m, snap, v, r, x)  == SetOne(m, snap, v, r, x, ArmRegs)

\* kvmi_set_registers takes the general registers only.
kvm_set_vcpureg(m, snap, v, r, x) ==
  IF r \notin General THEN Refused(m)
  ELSE Changed([m EXCEPT ![v] = With(@, With(snap[v], One(r, x), General), General)])

\* The general registers of the record, and success whatever else it holds.
kvm_set_vcpuregs(m, v, new) == Changed([m EXCEPT ![v] = With(@, new, General)])

xen_set_vcpureg(type, m, snap, v, r, x) ==
  CASE type = "hvm"  -> xen_set_vcpureg_hvm(m, snap, v, r, x)
    [] type = "pv64" -> xen_set_vcpureg_pv64(m, snap, v, r, x)
    [] type = "pv32" -> xen_set_vcpureg_pv32(m, snap, v, r, x)
    [] type = "arm"  -> xen_set_vcpureg_arm(m, snap, v, r, x)

driver_set_vcpureg(type, m, snap, v, r, x) ==
  IF type = "kvm" THEN kvm_set_vcpureg(m, snap, v, r, x)
  ELSE xen_set_vcpureg(type, m, snap, v, r, x)

driver_set_vcpuregs(type, m, snap, v, new) ==
  CASE type = "hvm" -> xen_set_vcpuregs_hvm(m, snap, v, new)
    [] type = "kvm" -> kvm_set_vcpuregs(m, v, new)
    [] OTHER -> Refused(m)

\* Mutant: the guest is not paused around the two hypercalls.
PausesGuest_Never(type) == FALSE

\* Only the HVM calls stop the guest, and only they read all vCPUs.
PausesGuest(type) == type = "hvm"
============================================================================
