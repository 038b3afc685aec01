---------------------------- MODULE LibvmiProofs ----------------------------
(***************************************************************************)
(* Proofs about LibVMI.                                                    *)
(*                                                                         *)
(* The calls of LibVMI that set registers, for every guest, client and set *)
(* of failures (VmiInstance): they give back the pause they take, change   *)
(* what they were asked to change and nothing else, and what they report   *)
(* as set reads back.                                                      *)
(*                                                                         *)
(* PauseBalanced speaks of the moments between two calls.  The inductive   *)
(* invariant says what is true within a call as well: a call in progress   *)
(* on a guest that is paused for it holds one pause more.  For that the    *)
(* kind of guest must not change under a call, also when it boots again.   *)
(*                                                                         *)
(* RegistersExact rests on it: because of that one pause the guest did not *)
(* run, so the context an HVM call writes back is the one the vCPUs have.  *)
(*                                                                         *)
(* The page cache (PageCache): its two structures stay two views of one    *)
(* set of pages (driver/memory_cache.c), for every capacity, age limit,    *)
(* page and answer of the driver: memory_cache_insert finds in the queue   *)
(* what it finds in the table, evicts from both, and never holds more than *)
(* the capacity.                                                           *)
(***************************************************************************)
EXTENDS VmiInstance, PageCache, TLAPS

-----------------------------------------------------------------------------
(* Registers *)

\* Updates of a field are updates of a record that has it.
Shape ==
  /\ regs = [cpu |-> regs.cpu, paused |-> regs.paused, asked |-> regs.asked, stuck |-> regs.stuck,
             op |-> regs.op, copy |-> regs.copy, got |-> regs.got, wrote |-> regs.wrote]
  /\ regs.op = [on |-> regs.op.on, at |-> regs.op.at, v |-> regs.op.v, new |-> regs.op.new,
                all |-> regs.op.all, snap |-> regs.op.snap, ok |-> regs.op.ok, ran |-> regs.op.ran,
                F |-> regs.op.F]

SameKind == sc \in Scenarios /\ guest.type = sc.guest.type

\* The pause of the call in progress.
Own == IF regs.op.on /\ PausesGuest(guest.type) THEN 1 ELSE 0

Counts == regs.paused \in Int /\ regs.asked \in Int /\ regs.stuck \in Int

IInv == Shape /\ SameKind /\ Counts /\ regs.paused = regs.asked + regs.stuck + Own

LEMMA AtStart == Init => IInv
<1> SUFFICES ASSUME Init PROVE IInv
  OBVIOUS
<1>1. Shape
  BY DEF Init, Shape, NoOp
<1>2. SameKind
  BY DEF Init, SameKind
<1>3. Counts /\ regs.paused = regs.asked + regs.stuck + Own
  BY DEF Init, Counts, Own, NoOp
<1> QED
  BY <1>1, <1>2, <1>3 DEF IInv

\* Steps that leave registers alone.
LEMMA Elsewhere == ASSUME IInv, UNCHANGED <<sc, regs>>, guest' = guest PROVE IInv'
  BY DEF IInv, Shape, SameKind, Counts, Own

\* The guest boots again, possibly within a call.
LEMMA Boots == ASSUME IInv, Reboot PROVE IInv'
<1>1. PICK g \in sc.boots : guest' = g
  BY DEF Reboot
<1>2. UNCHANGED <<sc, regs>>
  BY DEF Reboot, Same
<1>3. SameKind'
  BY <1>1, <1>2, BootsAssumption DEF IInv, SameKind
<1>4. guest'.type = guest.type
  BY <1>2, <1>3 DEF IInv, SameKind
<1> QED
  BY <1>2, <1>3, <1>4 DEF IInv, Shape, Counts, Own

\* The steps of the guest and of calls that set registers.
LEMMA Guests == ASSUME IInv, GuestRuns PROVE IInv'
<1>1. PICK v \in Vcpus : \E r \in DOMAIN regs.cpu[v] :
             regs' = [regs EXCEPT !.cpu[v][r] = 1 - @, !.op.ran = op.on, !.wrote = <<>>]
  BY Zenon DEF GuestRuns
<1>2. PICK r : regs' = [regs EXCEPT !.cpu[v][r] = 1 - @, !.op.ran = op.on, !.wrote = <<>>]
  BY <1>1, Zenon
<1>3. UNCHANGED <<sc, guest>>
  BY DEF GuestRuns, Rest
<1>4. /\ regs'.paused = regs.paused /\ regs'.asked = regs.asked /\ regs'.stuck = regs.stuck
      /\ regs'.op.on = regs.op.on /\ Shape'
  BY <1>2, Zenon DEF IInv, Shape, op
<1> QED
  BY <1>3, <1>4 DEF IInv, SameKind, Counts, Own

LEMMA Pauses == ASSUME IInv, PauseVm PROVE IInv'
<1>1. CASE regs' = regs
  BY <1>1, Elsewhere DEF PauseVm, Rest
<1>2. CASE regs' = [regs EXCEPT !.paused = @ + 1, !.asked = @ + 1]
  <2>1. UNCHANGED <<sc, guest>>
    BY DEF PauseVm, Rest
  <2>2. /\ regs'.paused = regs.paused + 1 /\ regs'.asked = regs.asked + 1
        /\ regs'.stuck = regs.stuck /\ regs'.op = regs.op /\ Shape'
    BY <1>2, Zenon DEF IInv, Shape
  <2> QED
    BY <2>1, <2>2 DEF IInv, SameKind, Counts, Own
<1> QED
  BY <1>1, <1>2 DEF PauseVm

LEMMA Resumes == ASSUME IInv, ResumeVm PROVE IInv'
<1>1. UNCHANGED <<sc, guest>>
  BY DEF ResumeVm, Rest
<1>2. /\ regs'.paused = regs.paused - 1 /\ regs'.asked = regs.asked - 1
      /\ regs'.stuck = regs.stuck /\ regs'.op = regs.op /\ Shape'
  BY Zenon DEF ResumeVm, IInv, Shape
<1> QED
  BY <1>1, <1>2 DEF IInv, SameKind, Counts, Own

LEMMA Gets == ASSUME IInv, GetRegs PROVE IInv'
<1>1. UNCHANGED <<sc, guest>>
  BY DEF GetRegs, Rest
<1>2. \E x, y : regs' = [regs EXCEPT !.got = x, !.copy = y]
  BY Zenon DEF GetRegs
<1>3. /\ regs'.paused = regs.paused /\ regs'.asked = regs.asked
      /\ regs'.stuck = regs.stuck /\ regs'.op = regs.op /\ Shape'
  BY <1>2, Zenon DEF IInv, Shape
<1> QED
  BY <1>1, <1>3 DEF IInv, SameKind, Counts, Own

\* A call begins: it takes its pause, or none on a guest that is not paused.
LEMMA Sets == ASSUME IInv, SetRegs PROVE IInv'
<1>1. UNCHANGED <<sc, guest>>
  BY DEF SetRegs, Rest
<1>2. ~regs.op.on
  BY DEF SetRegs, op
<1>3. PICK v \in Vcpus, all \in BOOLEAN, F \in Faults : \E r \in sc.named :
        LET new == IF all THEN AllRegs(v, 1) ELSE One(r, 1)
            pause == PausesGuest(guest.type)
        IN  IF pause /\ "pause" \in F THEN UNCHANGED regs
            ELSE regs' = [regs EXCEPT !.paused = IF pause THEN @ + 1 ELSE @,
                            !.op = [NoOp EXCEPT !.on = TRUE, !.at = "read", !.v = v, !.new = new,
                                                !.all = all, !.F = F]]
  BY ZenonT(40) DEF SetRegs
<1>4. CASE UNCHANGED regs
  BY <1>1, <1>4, Elsewhere
<1>5. ASSUME NEW new,
             regs' = [regs EXCEPT !.paused = IF PausesGuest(guest.type) THEN @ + 1 ELSE @,
                        !.op = [NoOp EXCEPT !.on = TRUE, !.at = "read", !.v = v, !.new = new,
                                            !.all = all, !.F = F]]
      PROVE  IInv'
  <2>1. /\ regs'.paused = IF PausesGuest(guest.type) THEN regs.paused + 1 ELSE regs.paused
        /\ regs'.asked = regs.asked /\ regs'.stuck = regs.stuck /\ regs'.op.on = TRUE /\ Shape'
    BY <1>5, ZenonT(40) DEF IInv, Shape, NoOp
  <2> QED
    BY <1>1, <1>2, <2>1 DEF IInv, SameKind, Counts, Own
<1> QED
  BY <1>3, <1>4, <1>5, Zenon

\* Between its pause and its end a call changes registers only.
LEMMA Works == ASSUME IInv, ReadContext \/ WriteContext PROVE IInv'
<1>1. UNCHANGED <<sc, guest>>
  BY DEF ReadContext, WriteContext, Rest
<1>2. /\ regs'.paused = regs.paused /\ regs'.asked = regs.asked
      /\ regs'.stuck = regs.stuck /\ regs'.op.on = regs.op.on /\ Shape'
  <2>1. CASE \E at, ok : regs' = [regs EXCEPT !.op.at = at, !.op.ok = ok]
    <3>1. PICK at, ok : regs' = [regs EXCEPT !.op.at = at, !.op.ok = ok]
      BY <2>1, Zenon
    <3>2. regs' = [regs EXCEPT !.op = [regs.op EXCEPT !.at = at, !.ok = ok]]
      BY <3>1, Zenon DEF IInv, Shape
    <3> QED
      BY <3>2, Zenon DEF IInv, Shape
  <2>2. CASE \E snap : regs' = [regs EXCEPT !.op.at = "write", !.op.snap = snap, !.op.ran = FALSE]
    <3>1. PICK snap : regs' = [regs EXCEPT !.op.at = "write", !.op.snap = snap, !.op.ran = FALSE]
      BY <2>2, Zenon
    <3>2. regs' = [regs EXCEPT !.op = [regs.op EXCEPT !.at = "write", !.snap = snap, !.ran = FALSE]]
      BY <3>1, ZenonT(40) DEF IInv, Shape
    <3> QED
      BY <3>2, ZenonT(40) DEF IInv, Shape
  <2>3. CASE \E ok, cpu : regs' = [regs EXCEPT !.op.at = "resume", !.op.ok = ok, !.cpu = cpu]
    <3>1. PICK ok, cpu : regs' = [regs EXCEPT !.op.at = "resume", !.op.ok = ok, !.cpu = cpu]
      BY <2>3, Zenon
    <3>2. regs' = [regs EXCEPT !.op = [regs.op EXCEPT !.at = "resume", !.ok = ok], !.cpu = cpu]
      BY <3>1, ZenonT(40) DEF IInv, Shape
    <3> QED
      BY <3>2, Zenon DEF IInv, Shape
  <2> QED
    BY <2>1, <2>2, <2>3, ZenonT(40) DEF ReadContext, WriteContext
<1> QED
  BY <1>1, <1>2 DEF IInv, SameKind, Counts, Own

\* A call ends: its pause is given back, or stays because resuming failed.
LEMMA CallEnds == ASSUME IInv, SetEnds PROVE IInv'
<1>1. UNCHANGED <<sc, guest>> /\ regs.op.on
  BY DEF SetEnds, Rest, op
<1> DEFINE pause == PausesGuest(guest.type)
           resumed == pause /\ "unpause" \notin op.F
<1>2. PICK wrote : regs' = [regs EXCEPT !.op = NoOp, !.paused = IF resumed THEN @ - 1 ELSE @,
                             !.stuck = IF pause /\ ~resumed THEN @ + 1 ELSE @, !.wrote = wrote]
  BY Zenon DEF SetEnds
<1> DEFINE p == IF resumed THEN regs.paused - 1 ELSE regs.paused
           q == IF pause /\ ~resumed THEN regs.stuck + 1 ELSE regs.stuck
<1>3. regs' = [regs EXCEPT !.op = NoOp, !.paused = p, !.stuck = q, !.wrote = wrote]
  BY <1>2 DEF IInv, Shape
<1>4. /\ regs'.paused = p /\ regs'.stuck = q
      /\ regs'.asked = regs.asked /\ regs'.op.on = FALSE /\ Shape'
  <2> HIDE DEF p, q
  <2> QED
    BY <1>3, Zenon DEF IInv, Shape, NoOp
<1> QED
  BY <1>1, <1>4 DEF IInv, SameKind, Counts, Own

LEMMA Inductive == IInv /\ [Next]_vars => IInv'
<1> SUFFICES ASSUME IInv, [Next]_vars PROVE IInv'
  OBVIOUS
<1>1. CASE UNCHANGED vars
  BY <1>1, Elsewhere DEF vars
<1>2. CASE Lifecycle
  <2>1. CASE Reboot
    BY <2>1, Boots
  <2>2. CASE VmiInit \/ VmiInitComplete \/ VmiInitPaging \/ VmiInitProfile \/ VmiInitOs \/ VmiDestroy
    BY <2>2, Elsewhere, Zenon
    DEF VmiInit, VmiInitComplete, VmiInitPaging, VmiInitProfile, VmiInitOs, VmiDestroy, Same
  <2> QED
    BY <1>2, <2>1, <2>2 DEF Lifecycle
<1>3. CASE KvmSteps
  BY <1>3, Elsewhere, Zenon DEF KvmSteps, KvmInit, KvmWait, KvmTimeout, GuestConnects, NewGuest, KvmConnected,
                         KvmGivesUp, KvmDestroy, KvmDestroyed, Same
<1>4. CASE RegSteps
  BY <1>4, Guests, Pauses, Resumes, Gets, Sets, Works, CallEnds, SMTT(40) DEF RegSteps
<1>5. CASE ProcSteps
  BY <1>5, Elsewhere, Zenon DEF ProcSteps, BeginWalk, ReadOnce, ProcessExits, ProcessForks, Others
<1>6. CASE SymSteps
  BY <1>6, Elsewhere, Zenon DEF SymSteps, KernelSymbol, ModuleSymbol, ModuleName, KernelName, AddSymbol,
                         FlushSymbols, ModuleLoads, Keeps
<1> QED
  BY <1>1, <1>2, <1>3, <1>4, <1>5, <1>6, SMTT(40) DEF Next

\* Whatever the guest, the client and the failures are: between two calls the
\* guest is paused as often as its client asked, and once more for each resume
\* of xen_set_vcpureg_hvm or xen_set_vcpuregs_hvm that failed.
THEOREM CallsGiveBackPauses == Spec => []PauseBalanced
<1>1. IInv => PauseBalanced
  BY DEF IInv, Counts, Own, PauseBalanced, op
<1> QED
  BY AtStart, Inductive, <1>1, PTL DEF Spec
-----------------------------------------------------------------------------
(* What the switches of the drivers do to the vCPUs. *)

Kinds == {"hvm", "pv64", "pv32", "arm", "kvm"}

\* The same vCPUs, with the same registers.
Alike(m, n) == DOMAIN m = DOMAIN n /\ \A u \in DOMAIN n : DOMAIN m[u] = DOMAIN n[u]

\* Nothing has changed from m to n but registers of vCPU v that new has, to the
\* values they have there.
Only(m, n, v, new) ==
  /\ \A u \in DOMAIN m \ {v} : n[u] = m[u]
  /\ \A r \in DOMAIN m[v] : n[v][r] # m[v][r] => r \in DOMAIN new /\ n[v][r] = new[r]

\* What a write of new to vCPU v leaves.
Exact(m, snap, v, new, n) == Alike(n, m) /\ (snap = m => Only(m, n, v, new))

\* The registers R of new are set.
Takes(m, n, v, new, R) == \A r \in R \cap DOMAIN new : r \in DOMAIN m[v] => n[v][r] = new[r]

\* n is m with the context c for vCPU v, and c is old with the registers R of new.
Put(n, m, v, c) == DOMAIN n = DOMAIN m /\ n[v] = c /\ \A u \in DOMAIN m \ {v} : n[u] = m[u]
Mixed(c, old, new, R) ==
  /\ DOMAIN c = DOMAIN old
  /\ \A r \in DOMAIN old : c[r] = IF r \in R \cap DOMAIN new THEN new[r] ELSE old[r]

LEMMA Puts ==
  ASSUME NEW m, NEW v \in DOMAIN m, NEW c
  PROVE  Put([m EXCEPT ![v] = c], m, v, c)
BY DEF Put

LEMMA Mixes ==
  ASSUME NEW old, NEW new, NEW R
  PROVE  Mixed(With(old, new, R), old, new, R)
BY DEF Mixed, With

\* The context that was read goes back with registers of new.
LEMMA WritesBack ==
  ASSUME NEW m, NEW snap, Alike(snap, m), NEW v \in DOMAIN m, NEW new, NEW R, NEW c,
         Mixed(c, snap[v], new, R), NEW n, Put(n, m, v, c) \/ Put(n, snap, v, c)
  PROVE  Exact(m, snap, v, new, n) /\ (snap = m => Takes(m, n, v, new, R))
<1>1. Alike(n, m) /\ n[v] = c
  BY DEF Alike, Put, Mixed
<1>2. ASSUME snap = m PROVE Only(m, n, v, new) /\ Takes(m, n, v, new, R)
  BY <1>1, <1>2 DEF Put, Mixed, Only, Takes
<1> QED BY <1>1, <1>2 DEF Exact

\* Registers that the hypervisor copies into the context as it is.
LEMMA WritesInto ==
  ASSUME NEW m, NEW snap, NEW v \in DOMAIN m, NEW new, NEW R, NEW c, NEW n, Put(n, m, v, c),
         NEW values, Mixed(c, m[v], values, R),
         values = new \/ (Alike(snap, m) /\ Mixed(values, snap[v], new, R))
  PROVE  Exact(m, snap, v, new, n) /\ (snap = m => Takes(m, n, v, new, R))
<1>1. Alike(n, m) /\ n[v] = c
  BY DEF Alike, Put, Mixed
<1>2. ASSUME snap = m PROVE Only(m, n, v, new) /\ Takes(m, n, v, new, R)
  <2>1. CASE values = new
    BY <1>1, <2>1, SMTT(40) DEF Put, Mixed, Only, Takes
  <2>2. CASE Mixed(values, m[v], new, R)
    BY <1>1, <2>2 DEF Put, Mixed, Only, Takes
  <2> QED BY <1>2, <2>1, <2>2
<1> QED BY <1>1, <1>2 DEF Exact

\* One register: setting it changes no other, and it reads back if it could be set.
LEMMA SetsOne ==
  ASSUME NEW type \in Kinds, NEW m, NEW snap, Alike(snap, m), NEW v \in DOMAIN m, NEW r, NEW x,
         NEW w, w = driver_set_vcpureg(type, m, snap, v, r, x)
  PROVE  /\ Exact(m, snap, v, One(r, x), w.m)
         /\ snap = m /\ w.ok /\ r \in DOMAIN m[v] => w.m[v][r] = x
<1> DEFINE new == One(r, x)
<1>0. DOMAIN new = {r} /\ new[r] = x /\ v \in DOMAIN snap
  BY DEF One, Alike
<1> HIDE DEF new
<1>1. CASE type = "hvm"
  <2> DEFINE c == With(snap[v], new, HvmRegs)
  <2>1. w = [ok |-> r \in HvmRegs, m |-> [snap EXCEPT ![v] = c]]
    BY <1>0, <1>1 DEF driver_set_vcpureg, xen_set_vcpureg, xen_set_vcpureg_hvm, new
  <2>2. w.m = [snap EXCEPT ![v] = c]
    BY <2>1
  <2>3. w.ok => r \in HvmRegs
    <3> DEFINE known == r \in HvmRegs
    <3>1. w = [ok |-> known, m |-> [snap EXCEPT ![v] = c]]
      BY <2>1
    <3> HIDE DEF c, known
    <3>2. w.ok = known
      BY <3>1
    <3> QED BY <3>2, Zenon DEF known
  <2>4. Put(w.m, snap, v, c) /\ Mixed(c, snap[v], new, HvmRegs)
    BY <1>0, <2>2, Puts, Mixes, SMTT(40)
  <2> HIDE DEF c
  <2>5. Exact(m, snap, v, new, w.m) /\ (snap = m => Takes(m, w.m, v, new, HvmRegs))
    BY <2>4, WritesBack, SMTT(40)
  <2> QED BY <1>0, <2>3, <2>5 DEF Takes, new
<1>2. ASSUME NEW known, w = SetOne(m, snap, v, r, x, known)
      PROVE  Exact(m, snap, v, new, w.m) /\ (snap = m /\ w.ok /\ r \in DOMAIN m[v] => w.m[v][r] = x)
  <2>1. CASE r \in known
    <3> DEFINE c == With(snap[v], new, known)
    <3>1. w.m = [m EXCEPT ![v] = c]
      BY <1>2, <2>1 DEF SetOne, Changed, new
    <3>2. Put(w.m, m, v, c) /\ Mixed(c, snap[v], new, known)
      BY <3>1, Puts, Mixes
    <3> HIDE DEF c
    <3>3. Exact(m, snap, v, new, w.m) /\ (snap = m => Takes(m, w.m, v, new, known))
      BY <3>2, WritesBack
    <3> QED BY <1>0, <2>1, <3>3 DEF Takes
  <2>2. CASE r \notin known
    <3>1. w.m = m /\ ~w.ok
      BY <1>2, <2>2, SMTT(40) DEF SetOne, Refused
    <3> QED BY <3>1 DEF Exact, Alike, Only
  <2> QED BY <2>1, <2>2, SMTT(40)
<1>3. CASE type = "pv64"
  <2>1. w = SetOne(m, snap, v, r, x, Pv64Regs)
    BY <1>3 DEF driver_set_vcpureg, xen_set_vcpureg, xen_set_vcpureg_pv64
  <2> QED BY <1>2, <2>1 DEF new
<1>4. CASE type = "pv32"
  <2>1. w = SetOne(m, snap, v, r, x, Pv32Regs)
    BY <1>4 DEF driver_set_vcpureg, xen_set_vcpureg, xen_set_vcpureg_pv32
  <2> QED BY <1>2, <2>1 DEF new
<1>5. CASE type = "arm"
  <2>1. w = SetOne(m, snap, v, r, x, ArmRegs)
    BY <1>5, SMTT(40) DEF driver_set_vcpureg, xen_set_vcpureg, xen_set_vcpureg_arm
  <2> QED BY <1>2, <2>1 DEF new
<1>6. CASE type = "kvm"
  <2>0. w = kvm_set_vcpureg(m, snap, v, r, x)
    BY <1>6 DEF driver_set_vcpureg
  <2>1. CASE r \in General
    <3> DEFINE values == With(snap[v], new, General)
               c == With(m[v], values, General)
    <3>1. w.m = [m EXCEPT ![v] = c]
      BY <2>0, <2>1 DEF kvm_set_vcpureg, Changed, new
    <3>2. Put(w.m, m, v, c) /\ Mixed(c, m[v], values, General) /\ Mixed(values, snap[v], new, General)
      BY <3>1, Puts, Mixes
    <3> HIDE DEF values, c
    <3>3. Exact(m, snap, v, new, w.m) /\ (snap = m => Takes(m, w.m, v, new, General))
      BY <3>2, WritesInto, Zenon
    <3> QED BY <1>0, <2>1, <3>3 DEF Takes, new
  <2>2. CASE r \notin General
    <3>1. w.m = m /\ ~w.ok
      BY <2>0, <2>2 DEF kvm_set_vcpureg, Refused
    <3> QED BY <3>1 DEF Exact, Alike, Only
  <2> QED BY <2>1, <2>2
<1> QED BY <1>1, <1>3, <1>4, <1>5, <1>6, ZenonT(40) DEF Kinds

\* All registers at once: none changes but to the value it has in new.
LEMMA SetsAll ==
  ASSUME NEW type, NEW m, NEW snap, Alike(snap, m), NEW v \in DOMAIN m, NEW new,
         NEW w, w = driver_set_vcpuregs(type, m, snap, v, new)
  PROVE  Exact(m, snap, v, new, w.m)
<1>1. CASE type = "hvm"
  <2> DEFINE R == General \cup Control \cup Segments \cup Msrs
             c == With(snap[v], new, R)
  <2>0. v \in DOMAIN snap
    BY DEF Alike
  <2>1. w.m = [snap EXCEPT ![v] = c]
    BY <1>1, <2>0, Zenon DEF driver_set_vcpuregs, xen_set_vcpuregs_hvm, Changed
  <2> HIDE DEF R
  <2>2. Put(w.m, snap, v, c) /\ Mixed(c, snap[v], new, R)
    BY <2>0, <2>1, Puts, Mixes
  <2> HIDE DEF c
  <2> QED BY <2>2, WritesBack
<1>2. CASE type = "kvm"
  <2> DEFINE c == With(m[v], new, General)
  <2>1. w.m = [m EXCEPT ![v] = c]
    BY <1>2, Zenon DEF driver_set_vcpuregs, kvm_set_vcpuregs, Changed
  <2>2. Put(w.m, m, v, c) /\ Mixed(c, m[v], new, General)
    BY <2>1, Puts, Mixes
  <2> HIDE DEF c
  <2> QED BY <2>2, WritesInto, Zenon
<1>3. CASE type \notin {"hvm", "kvm"}
  <2>1. w.m = m
    BY <1>3 DEF driver_set_vcpuregs, Refused
  <2> QED BY <2>1 DEF Exact, Alike, Only
<1> QED BY <1>1, <1>2, <1>3

-----------------------------------------------------------------------------
(* Writes of registers are exact. *)

(***************************************************************************)
(* Call: the context that a call has read is still that of the vCPUs,      *)
(* unless the guest ran in between, and on a guest that is paused for the  *)
(* call it did not.  Kept: what the last call set is what the vCPU has,    *)
(* as long as the guest has not run since.                                 *)
(***************************************************************************)
Call ==
  /\ regs.op.on <=> regs.op.at \in {"read", "write", "resume"}
  /\ regs.op.on =>
       /\ regs.op.v \in DOMAIN sc.cpu
       /\ ~regs.op.all => \E r \in sc.named : regs.op.new = One(r, 1)
  /\ regs.op.at = "write" =>
       /\ Alike(regs.op.snap, sc.cpu)
       /\ guest.type = "hvm" => ~regs.op.ran
       /\ ~regs.op.ran => regs.op.snap = regs.cpu
  /\ regs.op.at = "resume" /\ regs.op.ok /\ ~regs.op.all /\ ~regs.op.ran =>
       \A r \in DOMAIN regs.op.new : regs.cpu[regs.op.v][r] = regs.op.new[r]

Kept ==
  ~regs.op.on /\ regs.wrote # <<>> =>
    /\ regs.wrote[1] \in DOMAIN sc.cpu
    /\ \A r \in DOMAIN regs.wrote[2] : regs.cpu[regs.wrote[1]][r] = regs.wrote[2][r]

RInv ==
  /\ IInv /\ Alike(regs.cpu, sc.cpu) /\ regs.asked \in Nat /\ regs.stuck \in Nat
  /\ Call /\ Kept

\* Steps that leave registers alone, the guest's boots among them.
LEMMA RElsewhere ==
  ASSUME RInv, IInv', UNCHANGED <<sc, regs>>
  PROVE  RInv'
<1>1. guest'.type = guest.type
  BY DEF RInv, IInv, SameKind
<1> QED BY <1>1, Zenon DEF RInv, Call, Kept

LEMMA RInit == Init => RInv
<1> SUFFICES ASSUME Init PROVE RInv
  OBVIOUS
<1>1. regs = [cpu |-> sc.cpu, paused |-> 0, asked |-> 0, stuck |-> 0, op |-> NoOp,
              copy |-> <<>>, got |-> {}, wrote |-> <<>>]
  BY DEF Init
<1>2. /\ regs.cpu = sc.cpu /\ regs.asked = 0 /\ regs.stuck = 0 /\ regs.wrote = <<>>
      /\ regs.op.on = FALSE /\ regs.op.at = "done"
  BY <1>1 DEF NoOp
<1>3. Alike(regs.cpu, sc.cpu) /\ regs.asked \in Nat /\ regs.stuck \in Nat /\ Call /\ Kept
  BY <1>2 DEF Alike, Call, Kept
<1> QED BY <1>3, AtStart, SMTT(40) DEF RInv

LEMMA RGuest == ASSUME RInv, IInv', GuestRuns PROVE RInv'
<1>0. PICK v \in DOMAIN regs.cpu : \E r \in DOMAIN regs.cpu[v] :
         regs' = [regs EXCEPT !.cpu[v][r] = 1 - @, !.op.ran = op.on, !.wrote = <<>>]
  BY Zenon DEF GuestRuns, Vcpus
<1>1. PICK r \in DOMAIN regs.cpu[v] :
         regs' = [regs EXCEPT !.cpu[v][r] = 1 - @, !.op.ran = op.on, !.wrote = <<>>]
  BY <1>0, Zenon
<1>2. UNCHANGED <<sc, guest>> /\ regs.paused = 0
  BY DEF GuestRuns, Rest
<1>3. /\ regs'.asked = regs.asked /\ regs'.stuck = regs.stuck /\ regs'.wrote = <<>>
      /\ regs'.op = [regs.op EXCEPT !.ran = regs.op.on]
      /\ regs'.cpu = [regs.cpu EXCEPT ![v] = [regs.cpu[v] EXCEPT ![r] = 1 - regs.cpu[v][r]]]
  BY <1>1 DEF RInv, IInv, Shape, op
<1>4. /\ regs'.op.on = regs.op.on /\ regs'.op.at = regs.op.at /\ regs'.op.v = regs.op.v
      /\ regs'.op.new = regs.op.new /\ regs'.op.all = regs.op.all /\ regs'.op.snap = regs.op.snap
      /\ regs'.op.ran = regs.op.on
  BY <1>3 DEF RInv, IInv, Shape
<1>5. Alike(regs'.cpu, sc.cpu)
  BY <1>3 DEF RInv, Alike
<1>6. regs.op.on => guest.type # "hvm"
  BY <1>2, SMTT(40) DEF RInv, IInv, Own, PausesGuest
<1>7. Call'
  BY <1>2, <1>4, <1>6, SMTT(40) DEF RInv, Call
<1>8. Kept'
  BY <1>3 DEF Kept
<1> QED BY <1>2, <1>3, <1>5, <1>7, <1>8, SMTT(40) DEF RInv

\* Pausing, resuming and reading.
LEMMA RClient == ASSUME RInv, IInv', PauseVm \/ ResumeVm \/ GetRegs PROVE RInv'
<1>1. UNCHANGED <<sc, guest>>
  BY Zenon DEF PauseVm, ResumeVm, GetRegs, Rest
<1>2. /\ regs'.stuck = regs.stuck /\ regs'.op = regs.op /\ regs'.cpu = regs.cpu /\ regs'.wrote = regs.wrote
      /\ regs'.asked \in Nat
  <2>0. regs.asked \in Nat /\ Shape
    BY DEF RInv, IInv
  <2>1. CASE regs' = regs
    BY <2>0, <2>1
  <2>2. CASE regs' = [regs EXCEPT !.paused = @ + 1, !.asked = @ + 1]
    BY <2>0, <2>2 DEF Shape
  <2>3. CASE ResumeVm
    BY <2>0, <2>3 DEF ResumeVm, Shape
  <2>4. CASE GetRegs
    <3>1. \E x, y : regs' = [regs EXCEPT !.got = x, !.copy = y]
      BY <2>4, Zenon DEF GetRegs
    <3> QED BY <2>0, <3>1 DEF Shape
  <2> QED BY <2>1, <2>2, <2>3, <2>4 DEF PauseVm
<1> QED BY <1>1, <1>2, ZenonT(40) DEF RInv, Call, Kept

LEMMA RSets == ASSUME RInv, IInv', SetRegs PROVE RInv'
<1>1. UNCHANGED <<sc, guest>>
  BY DEF SetRegs, Rest
<1>2. PICK v \in DOMAIN regs.cpu, all \in BOOLEAN, F \in Faults, r \in sc.named :
        LET new == IF all THEN AllRegs(v, 1) ELSE One(r, 1)
            pause == PausesGuest(guest.type)
        IN  IF pause /\ "pause" \in F THEN UNCHANGED regs
            ELSE regs' = [regs EXCEPT !.paused = IF pause THEN @ + 1 ELSE @,
                            !.op = [NoOp EXCEPT !.on = TRUE, !.at = "read", !.v = v, !.new = new,
                                                !.all = all, !.F = F]]
  BY ZenonT(40) DEF SetRegs, Vcpus
<1>3. CASE UNCHANGED regs
  BY <1>1, <1>3, RElsewhere
<1>4. ASSUME NEW new, NEW p, new = IF all THEN AllRegs(v, 1) ELSE One(r, 1),
             regs' = [regs EXCEPT !.paused = p,
                        !.op = [NoOp EXCEPT !.on = TRUE, !.at = "read", !.v = v, !.new = new,
                                            !.all = all, !.F = F]]
      PROVE  RInv'
  <2>1. /\ regs'.asked = regs.asked /\ regs'.stuck = regs.stuck /\ regs'.cpu = regs.cpu
        /\ regs'.op = [NoOp EXCEPT !.on = TRUE, !.at = "read", !.v = v, !.new = new, !.all = all, !.F = F]
    BY <1>4 DEF RInv, IInv, Shape
  <2>2. /\ regs'.op.on = TRUE /\ regs'.op.at = "read" /\ regs'.op.v = v /\ regs'.op.new = new
        /\ regs'.op.all = all
    BY <2>1 DEF NoOp
  <2>3. v \in DOMAIN sc.cpu
    BY DEF RInv, Alike
  <2>4. ~all => new = One(r, 1)
    BY <1>4
  <2>5. Call' /\ Kept'
    BY <1>1, <2>2, <2>3, <2>4, SMTT(40) DEF Call, Kept
  <2> QED BY <1>1, <2>1, <2>5 DEF RInv
<1>5. CASE ~(UNCHANGED regs)
  <2> DEFINE new == IF all THEN AllRegs(v, 1) ELSE One(r, 1)
             p == IF PausesGuest(guest.type) THEN regs.paused + 1 ELSE regs.paused
  <2>1. regs' = [regs EXCEPT !.paused = p,
                   !.op = [NoOp EXCEPT !.on = TRUE, !.at = "read", !.v = v, !.new = new,
                                       !.all = all, !.F = F]]
    BY <1>2, <1>5
  <2> HIDE DEF p
  <2> QED BY <1>4, <2>1, Zenon
<1> QED BY <1>3, <1>5

LEMMA RReads == ASSUME RInv, IInv', ReadContext PROVE RInv'
<1>1. UNCHANGED <<sc, guest>> /\ regs.op.on /\ regs.op.at = "read"
  BY DEF ReadContext, Rest, op
<1>2. CASE regs' = [regs EXCEPT !.op.at = "resume", !.op.ok = FALSE]
  <2>1. /\ regs'.asked = regs.asked /\ regs'.stuck = regs.stuck /\ regs'.cpu = regs.cpu
        /\ regs'.op = [regs.op EXCEPT !.at = "resume", !.ok = FALSE]
    BY <1>2 DEF RInv, IInv, Shape
  <2>2. /\ regs'.op.on = regs.op.on /\ regs'.op.at = "resume" /\ regs'.op.v = regs.op.v
        /\ regs'.op.new = regs.op.new /\ regs'.op.all = regs.op.all /\ regs'.op.ok = FALSE
    BY <2>1 DEF RInv, IInv, Shape
  <2>3. Call' /\ Kept'
    BY <1>1, <2>1, <2>2 DEF RInv, Call, Kept
  <2> QED BY <1>1, <2>1, <2>3 DEF RInv
<1>3. CASE regs' = [regs EXCEPT !.op.at = "write", !.op.snap = regs.cpu, !.op.ran = FALSE]
  <2>1. /\ regs'.asked = regs.asked /\ regs'.stuck = regs.stuck /\ regs'.cpu = regs.cpu
        /\ regs'.op = [regs.op EXCEPT !.at = "write", !.snap = regs.cpu, !.ran = FALSE]
    BY <1>3 DEF RInv, IInv, Shape
  <2>2. /\ regs'.op.on = regs.op.on /\ regs'.op.at = "write" /\ regs'.op.v = regs.op.v
        /\ regs'.op.new = regs.op.new /\ regs'.op.all = regs.op.all /\ regs'.op.snap = regs.cpu
        /\ regs'.op.ran = FALSE
    BY <2>1 DEF RInv, IInv, Shape
  <2>3. Call' /\ Kept'
    BY <1>1, <2>1, <2>2, SMTT(40) DEF RInv, Call, Kept
  <2> QED BY <1>1, <2>1, <2>3 DEF RInv
<1> QED BY <1>2, <1>3 DEF ReadContext

\* What the hypercall that writes does.
LEMMA WrittenExactly ==
  ASSUME RInv, regs.op.on, regs.op.at = "write"
  PROVE  /\ Exact(regs.cpu, regs.op.snap, regs.op.v, regs.op.new, Written.m)
         /\ ~regs.op.all /\ ~regs.op.ran /\ Written.ok =>
              \A r \in DOMAIN regs.op.new : Written.m[regs.op.v][r] = regs.op.new[r]
<1> DEFINE v == regs.op.v
           m == regs.cpu
           snap == regs.op.snap
<1>1. v \in DOMAIN m /\ Alike(snap, m) /\ (~regs.op.ran => snap = m) /\ v \in DOMAIN sc.cpu
  BY DEF RInv, Call, Alike
<1>2. guest.type \in Kinds /\ sc.named \subseteq DOMAIN m[v]
  <2>1. guest.type = sc.guest.type /\ sc \in Scenarios /\ v \in DOMAIN sc.cpu
    BY DEF RInv, IInv, SameKind, Call
  <2>2. sc.named \subseteq DOMAIN sc.cpu[v] /\ sc.guest.type \in Kinds
    BY <2>1, NamedAssumption, SMTT(40) DEF Kinds
  <2>3. DOMAIN m[v] = DOMAIN sc.cpu[v]
    BY <2>1 DEF RInv, Alike
  <2> QED BY <2>1, <2>2, <2>3, SMTT(40)
<1>3. CASE regs.op.all
  <2>1. Written = driver_set_vcpuregs(guest.type, m, snap, v, regs.op.new)
    BY <1>3 DEF Written, op
  <2>2. Exact(m, snap, v, regs.op.new, Written.m)
    BY <1>1, <2>1, SetsAll, SMTT(40)
  <2> QED BY <1>3, <2>2
<1>4. CASE ~regs.op.all
  <2>1. PICK r \in sc.named : regs.op.new = One(r, 1)
    BY <1>4 DEF RInv, Call
  <2>2. The(DOMAIN regs.op.new) = r /\ regs.op.new[r] = 1 /\ DOMAIN regs.op.new = {r}
    BY <2>1 DEF The, One
  <2>3. Written = driver_set_vcpureg(guest.type, m, snap, v, r, 1)
    BY <1>4, <2>2, SMTT(40) DEF Written, op
  <2>4. /\ Exact(m, snap, v, One(r, 1), Written.m)
        /\ snap = m /\ Written.ok /\ r \in DOMAIN m[v] => Written.m[v][r] = 1
    <3> HIDE DEF v, m, snap
    <3> QED BY <1>1, <1>2, <2>3, SetsOne, SMTT(40)
  <2> QED BY <1>1, <1>2, <2>1, <2>2, <2>4, SMTT(40)
<1> QED BY <1>3, <1>4, SMTT(40)

LEMMA RWrites == ASSUME RInv, IInv', WriteContext PROVE RInv'
<1>1. UNCHANGED <<sc, guest>> /\ regs.op.on /\ regs.op.at = "write"
  BY DEF WriteContext, Rest, op
<1>2. CASE regs' = [regs EXCEPT !.op.at = "resume", !.op.ok = FALSE]
  <2>1. /\ regs'.asked = regs.asked /\ regs'.stuck = regs.stuck /\ regs'.cpu = regs.cpu
        /\ regs'.op = [regs.op EXCEPT !.at = "resume", !.ok = FALSE]
    BY <1>2 DEF RInv, IInv, Shape
  <2>2. /\ regs'.op.on = regs.op.on /\ regs'.op.at = "resume" /\ regs'.op.v = regs.op.v
        /\ regs'.op.new = regs.op.new /\ regs'.op.all = regs.op.all /\ regs'.op.ok = FALSE
    BY <2>1 DEF RInv, IInv, Shape
  <2>3. Call' /\ Kept'
    BY <1>1, <2>1, <2>2, SMTT(40) DEF RInv, Call, Kept
  <2> QED BY <1>1, <2>1, <2>3, SMTT(40) DEF RInv
<1>3. CASE regs' = [regs EXCEPT !.op.at = "resume", !.op.ok = Written.ok, !.cpu = Written.m]
  <2> DEFINE n == Written.m
             ok == Written.ok
  <2>0. /\ Exact(regs.cpu, regs.op.snap, regs.op.v, regs.op.new, n)
        /\ ~regs.op.all /\ ~regs.op.ran /\ ok =>
             \A r \in DOMAIN regs.op.new : n[regs.op.v][r] = regs.op.new[r]
    BY <1>1, WrittenExactly
  <2>1. regs' = [regs EXCEPT !.op.at = "resume", !.op.ok = ok, !.cpu = n]
    BY <1>3
  <2> HIDE DEF n, ok
  <2>2. /\ regs'.asked = regs.asked /\ regs'.stuck = regs.stuck /\ regs'.cpu = n
        /\ regs'.op = [regs.op EXCEPT !.at = "resume", !.ok = ok]
    BY <2>1 DEF RInv, IInv, Shape
  <2>3. /\ regs'.op.on = regs.op.on /\ regs'.op.at = "resume" /\ regs'.op.v = regs.op.v
        /\ regs'.op.new = regs.op.new /\ regs'.op.all = regs.op.all /\ regs'.op.ok = ok
        /\ regs'.op.ran = regs.op.ran
    BY <2>2 DEF RInv, IInv, Shape
  <2>4. Alike(regs'.cpu, sc.cpu)
    BY <2>0, <2>2, SMTT(40) DEF RInv, Exact, Alike
  <2>5. Call' /\ Kept'
    BY <1>1, <2>0, <2>2, <2>3, SMTT(40) DEF RInv, Call, Kept
  <2> QED BY <1>1, <2>2, <2>4, <2>5, SMTT(40) DEF RInv
<1> QED BY <1>2, <1>3 DEF WriteContext

LEMMA REnds == ASSUME RInv, IInv', SetEnds PROVE RInv'
<1>1. UNCHANGED <<sc, guest>> /\ regs.op.on /\ regs.op.at = "resume"
  BY DEF SetEnds, Rest, op
<1> DEFINE pause == PausesGuest(guest.type)
           resumed == pause /\ "unpause" \notin op.F
           p == IF resumed THEN regs.paused - 1 ELSE regs.paused
           q == IF pause /\ ~resumed THEN regs.stuck + 1 ELSE regs.stuck
           done == regs.op.ok /\ ~regs.op.all /\ ~regs.op.ran
           wrote == IF done THEN <<regs.op.v, regs.op.new>> ELSE <<>>
<1>2. regs' = [regs EXCEPT !.op = NoOp, !.paused = p, !.stuck = q, !.wrote = wrote]
  BY DEF SetEnds, op
<1>3. q \in Nat
  BY DEF RInv
<1>4. wrote # <<>> =>
        /\ wrote[1] \in DOMAIN sc.cpu
        /\ \A r \in DOMAIN wrote[2] : regs.cpu[wrote[1]][r] = wrote[2][r]
  <2>1. CASE done
    <3>1. wrote[1] = regs.op.v /\ wrote[2] = regs.op.new
      BY <2>1, SMTT(40)
    <3>2. /\ regs.op.v \in DOMAIN sc.cpu
          /\ \A r \in DOMAIN regs.op.new : regs.cpu[regs.op.v][r] = regs.op.new[r]
      BY <1>1, <2>1, SMTT(40) DEF RInv, Call
    <3> QED BY <3>1, <3>2
  <2>2. CASE ~done
    BY <2>2
  <2> QED BY <2>1, <2>2, ZenonT(40)
<1> HIDE DEF p, q, wrote
<1>5. /\ regs'.asked = regs.asked /\ regs'.stuck = q /\ regs'.cpu = regs.cpu
      /\ regs'.wrote = wrote /\ regs'.op = NoOp
  BY <1>2, SMTT(40) DEF RInv, IInv, Shape
<1>6. regs'.op.on = FALSE /\ regs'.op.at = "done"
  BY <1>5, SMTT(40) DEF NoOp
<1>7. Call' /\ Kept'
  BY <1>1, <1>4, <1>5, <1>6, SMTT(40) DEF Call, Kept
<1> QED BY <1>1, <1>3, <1>5, <1>7, SMTT(40) DEF RInv

\* The steps of the other parts.
OtherSteps == Lifecycle \/ KvmSteps \/ ProcSteps \/ SymSteps \/ UNCHANGED vars

LEMMA OtherStepsApart == OtherSteps => UNCHANGED <<sc, regs>>
<1>1. Lifecycle => UNCHANGED <<sc, regs>>
  BY Zenon DEF Lifecycle, VmiInit, VmiInitComplete, VmiInitPaging, VmiInitProfile, VmiInitOs, VmiDestroy,
         Reboot, Same
<1>2. KvmSteps => UNCHANGED <<sc, regs>>
  BY Zenon DEF KvmSteps, KvmInit, KvmWait, KvmTimeout, GuestConnects, NewGuest, KvmConnected, KvmGivesUp,
         KvmDestroy, KvmDestroyed, Same
<1>3. ProcSteps => UNCHANGED <<sc, regs>>
  BY Zenon DEF ProcSteps, BeginWalk, ReadOnce, ProcessExits, ProcessForks, Others
<1>4. SymSteps => UNCHANGED <<sc, regs>>
  BY Zenon DEF SymSteps, KernelSymbol, ModuleSymbol, ModuleName, KernelName, AddSymbol, FlushSymbols,
         ModuleLoads, Keeps
<1>5. UNCHANGED vars => UNCHANGED <<sc, regs>>
  BY DEF vars
<1> QED BY <1>1, <1>2, <1>3, <1>4, <1>5, SMTT(40) DEF OtherSteps

LEMMA RInductive == RInv /\ [Next]_vars => RInv'
<1> SUFFICES ASSUME RInv, [Next]_vars PROVE RInv'
  OBVIOUS
<1>0. IInv'
  BY Inductive DEF RInv
<1>1. CASE OtherSteps
  BY <1>0, <1>1, OtherStepsApart, RElsewhere, SMTT(40)
<1>2. CASE RegSteps
  BY <1>0, <1>2, RGuest, RClient, RSets, RReads, RWrites, REnds, SMTT(40) DEF RegSteps
<1> QED BY <1>1, <1>2 DEF Next, OtherSteps

\* Reading: the driver gives the value that the vCPU has, if any.
LEMMA Reads ==
  ASSUME NEW type \in Kinds, NEW c, NEW r, NEW x \in driver_get_vcpureg(type, c, r)
  PROVE  x = c[r]
<1>1. \A known : x \in Value(c, r, known) => x = c[r]
  BY DEF Value
<1>2. CASE type = "kvm"
  BY <1>1, <1>2 DEF driver_get_vcpureg, kvm_get_vcpureg
<1>3. CASE type = "hvm"
  BY <1>1, <1>3 DEF driver_get_vcpureg, xen_get_vcpureg, xen_get_vcpureg_hvm
<1>4. CASE type = "pv64"
  BY <1>1, <1>4 DEF driver_get_vcpureg, xen_get_vcpureg, xen_get_vcpureg_pv64
<1>5. CASE type = "pv32"
  BY <1>1, <1>5 DEF driver_get_vcpureg, xen_get_vcpureg, xen_get_vcpureg_pv32
<1>6. CASE type = "arm"
  BY <1>1, <1>6 DEF driver_get_vcpureg, xen_get_vcpureg, xen_get_vcpureg_arm
<1> QED BY <1>2, <1>3, <1>4, <1>5, <1>6, SMTT(40) DEF Kinds

\* A call that writes: at its second hypercall, and nowhere else.
LEMMA ExactStep == ASSUME RInv, WriteContext PROVE SetExact /\ regs'.got = regs.got
<1>1. regs.op.on /\ regs.op.at = "write"
  BY DEF WriteContext, op
<1>2. CASE regs' = [regs EXCEPT !.op.at = "resume", !.op.ok = FALSE]
  <2>1. regs'.cpu = regs.cpu /\ regs'.got = regs.got
    BY <1>2, SMTT(40) DEF RInv, IInv, Shape
  <2> QED BY <2>1 DEF SetExact, Vcpus
<1>3. CASE regs' = [regs EXCEPT !.op.at = "resume", !.op.ok = Written.ok, !.cpu = Written.m]
  <2> DEFINE n == Written.m
             ok == Written.ok
  <2>1. Exact(regs.cpu, regs.op.snap, regs.op.v, regs.op.new, n)
    BY <1>1, WrittenExactly
  <2>2. regs' = [regs EXCEPT !.op.at = "resume", !.op.ok = ok, !.cpu = n]
    BY <1>3
  <2> HIDE DEF n, ok
  <2>3. regs'.cpu = n /\ regs'.got = regs.got
    BY <2>2, SMTT(40) DEF RInv, IInv, Shape
  <2>4. guest.type = "hvm" \/ ~regs.op.ran => regs.op.snap = regs.cpu
    BY <1>1 DEF RInv, Call
  <2>5. guest.type = "hvm" \/ ~regs.op.ran => Only(regs.cpu, regs'.cpu, regs.op.v, regs.op.new)
    BY <2>1, <2>3, <2>4, SMTT(40) DEF Exact
  <2> QED BY <2>3, <2>5, SMTT(40) DEF SetExact, Only, Vcpus, op
<1> QED BY <1>2, <1>3 DEF WriteContext

LEMMA BackStep == ASSUME RInv, GetRegs PROVE ReadBack /\ regs'.op = regs.op
<1>1. PICK v \in DOMAIN regs.cpu, r \in sc.named, F \in Faults :
        /\ ~regs.op.on
        /\ regs' = IF "context" \in F THEN [regs EXCEPT !.got = {}, !.copy = <<>>]
                   ELSE [regs EXCEPT
                       !.got = {<<v, r, x>> : x \in driver_get_vcpureg(guest.type, regs.cpu[v], r)},
                       !.copy = IF driver_get_vcpuregs(guest.type, regs.cpu[v]) = {} THEN <<>>
                                ELSE The(driver_get_vcpuregs(guest.type, regs.cpu[v]))]
  BY Zenon DEF GetRegs, Vcpus, op
<1> DEFINE S == driver_get_vcpureg(guest.type, regs.cpu[v], r)
           got == {<<v, r, x>> : x \in S}
<1>2. \E y : regs' = [regs EXCEPT !.got = {}, !.copy = y] \/ regs' = [regs EXCEPT !.got = got, !.copy = y]
  BY <1>1, ZenonT(40)
<1>3. \A x \in S : x = regs.cpu[v][r]
  <2>1. guest.type \in Kinds
    <3>1. guest.type = sc.guest.type /\ sc \in Scenarios /\ v \in DOMAIN sc.cpu
      BY DEF RInv, IInv, SameKind, Alike
    <3> QED BY <3>1, NamedAssumption, SMTT(40) DEF Kinds
  <2> QED BY <2>1, Reads
<1> HIDE DEF S
<1>4. \A g \in got : g[1] = v /\ g[2] = r /\ g[3] = regs.cpu[v][r]
  BY <1>3
<1> HIDE DEF got
<1>5. regs'.op = regs.op /\ (regs'.got = {} \/ regs'.got = got)
  BY <1>2, ZenonT(40) DEF RInv, IInv, Shape
<1>6. regs.wrote # <<>> => \A q \in DOMAIN regs.wrote[2] : regs.cpu[regs.wrote[1]][q] = regs.wrote[2][q]
  BY <1>1 DEF RInv, Kept
<1> QED BY <1>4, <1>5, <1>6 DEF ReadBack

LEMMA StepExact == RInv /\ [Next]_vars => [SetExact /\ ReadBack]_vars
<1> SUFFICES ASSUME RInv, [Next]_vars PROVE SetExact /\ ReadBack
  OBVIOUS
<1>0. Shape
  BY SMTT(40) DEF RInv, IInv
<1>1. CASE regs'.op.at = regs.op.at /\ regs'.got = regs.got
  BY <1>1 DEF SetExact, ReadBack, op
<1>2. CASE OtherSteps
  BY <1>1, <1>2, OtherStepsApart
<1>3. CASE GuestRuns
  <2>1. PICK c : regs' = [regs EXCEPT !.cpu = c, !.op.ran = op.on, !.wrote = <<>>]
    BY <1>3, Zenon DEF GuestRuns
  <2> QED BY <1>0, <1>1, <2>1 DEF Shape, op
<1>4. CASE PauseVm \/ ResumeVm
  BY <1>0, <1>1, <1>4, ZenonT(40) DEF PauseVm, ResumeVm, Shape
<1>5. CASE GetRegs
  BY <1>5, BackStep, SMTT(40) DEF SetExact, op
<1>6. CASE SetRegs
  <2>1. PICK p, o : regs' = regs \/ (regs' = [regs EXCEPT !.paused = p, !.op = o] /\ o.at = "read")
    <3>1. PICK v, all, F, r :
            LET new == IF all THEN AllRegs(v, 1) ELSE One(r, 1)
                pause == PausesGuest(guest.type)
            IN  IF pause /\ "pause" \in F THEN UNCHANGED regs
                ELSE regs' = [regs EXCEPT !.paused = IF pause THEN @ + 1 ELSE @,
                                !.op = [NoOp EXCEPT !.on = TRUE, !.at = "read", !.v = v, !.new = new,
                                                    !.all = all, !.F = F]]
      BY <1>6, ZenonT(40) DEF SetRegs
    <3> DEFINE o == [NoOp EXCEPT !.on = TRUE, !.at = "read", !.v = v,
                       !.new = IF all THEN AllRegs(v, 1) ELSE One(r, 1), !.all = all, !.F = F]
               p == IF PausesGuest(guest.type) THEN regs.paused + 1 ELSE regs.paused
    <3>2. regs' = regs \/ regs' = [regs EXCEPT !.paused = p, !.op = o]
      BY <3>1
    <3>3. o.at = "read"
      BY DEF NoOp
    <3> HIDE DEF o, p
    <3> QED BY <3>2, <3>3, Zenon
  <2>2. regs'.got = regs.got /\ (regs'.op.at = regs.op.at \/ regs'.op.at = "read")
    BY <1>0, <2>1, ZenonT(40) DEF Shape
  <2> QED BY <2>2 DEF SetExact, ReadBack, op
<1>7. CASE ReadContext \/ SetEnds
  <2>1. regs.op.at # "write"
    BY <1>7 DEF ReadContext, SetEnds, op
  <2>2. regs'.got = regs.got
    <3>1. CASE ReadContext
      BY <1>0, <3>1 DEF ReadContext, Shape
    <3>2. CASE SetEnds
      <4>1. PICK p, q, w : regs' = [regs EXCEPT !.op = NoOp, !.paused = p, !.stuck = q, !.wrote = w]
        BY <3>2, Zenon DEF SetEnds
      <4> QED BY <1>0, <4>1 DEF Shape
    <3> QED BY <1>7, <3>1, <3>2
  <2> QED BY <2>1, <2>2 DEF SetExact, ReadBack, op
<1>8. CASE WriteContext
  BY <1>8, ExactStep DEF ReadBack
<1> QED BY <1>2, <1>3, <1>4, <1>5, <1>6, <1>7, <1>8, SMTT(40) DEF Next, OtherSteps, RegSteps

\* Whatever the guest, its vCPUs, the client and the failures are: the write of
\* driver_set_vcpureg(s) changes the vCPU and the registers it was asked to, and
\* what it reported as set is what driver_get_vcpureg(s) then reads.
THEOREM SetsExactly == Spec => RegistersExact
<1>1. Spec => []RInv
  BY RInit, RInductive, PTL DEF Spec
<1> QED BY <1>1, StepExact, PTL DEF Spec, RegistersExact

-----------------------------------------------------------------------------
(* The page cache *)

\* A cache of pages of S.
Cache(c, S) == c = [lru |-> c.lru, ent |-> c.ent] /\ c.lru \in Seq(S)

Pages(s) == {s[i] : i \in 1..Len(s)}

Distinct(s) == \A i, j \in 1..Len(s) : i # j => s[i] # s[j]

\* Agree, in these words.
LEMMA Agreement ==
  ASSUME NEW c, NEW max
  PROVE  Agree(c, max) <=> Len(c.lru) <= max /\ DOMAIN c.ent = Pages(c.lru) /\ Distinct(c.lru)
  BY Zenon DEF Agree, Pages, Distinct

\* A function on 1..n is a sequence of length n.
LEMMA Sequence ==
  ASSUME NEW S, NEW n \in Nat, NEW t \in [1..n -> S]
  PROVE  t \in Seq(S) /\ Len(t) = n
OBVIOUS

\* The indices of a sequence, and where its elements come from.
LEMMA Elements ==
  ASSUME NEW S, NEW s \in Seq(S)
  PROVE  /\ Len(s) \in Nat /\ DOMAIN s = 1..Len(s) /\ s \in [1..Len(s) -> S]
         /\ \A i \in 1..Len(s) : s[i] \in S
OBVIOUS

\* The first n elements of a sequence.
LEMMA Prefix ==
  ASSUME NEW S, NEW s \in Seq(S), NEW n \in 0..Len(s)
  PROVE  /\ SubSeq(s, 1, n) \in Seq(S) /\ Len(SubSeq(s, 1, n)) = n
         /\ \A i \in 1..n : SubSeq(s, 1, n)[i] = s[i]
OBVIOUS

\* g_queue_push_head: one page more, the others keep their order.
LEMMA Pushed ==
  ASSUME NEW S, NEW s \in Seq(S), NEW p \in S, Distinct(s), p \notin Pages(s)
  PROVE  /\ PushHead(s, p) \in Seq(S) /\ Len(PushHead(s, p)) = Len(s) + 1
         /\ Pages(PushHead(s, p)) = Pages(s) \cup {p}
         /\ Distinct(PushHead(s, p))
<1> DEFINE t == PushHead(s, p)
           n == Len(s)
<1>1. n \in Nat /\ DOMAIN s = 1..n /\ \A i \in 1..n : s[i] \in S
  BY Elements
<1>2. t \in [1..(n + 1) -> S]
  BY <1>1 DEF PushHead
<1>3. t \in Seq(S) /\ Len(t) = n + 1
  BY <1>1, <1>2, Sequence
<1>4. t[1] = p /\ \A i \in 1..n : t[i + 1] = s[i]
  BY <1>1 DEF PushHead
<1>5. \A j \in 1..(n + 1) : j # 1 => j - 1 \in 1..n /\ t[j] = s[j - 1]
  BY <1>1 DEF PushHead
<1> HIDE DEF t, n
<1>6. Pages(t) = Pages(s) \cup {p}
  <2>1. ASSUME NEW x \in Pages(t) PROVE x \in Pages(s) \cup {p}
    <3>1. PICK j \in 1..(n + 1) : x = t[j]
      BY <2>1, <1>3 DEF Pages
    <3>2. CASE j = 1
      BY <3>1, <3>2, <1>4
    <3>3. CASE j # 1
      BY <3>1, <3>3, <1>5 DEF Pages, n
    <3> QED
      BY <3>2, <3>3
  <2>2. ASSUME NEW x \in Pages(s) \cup {p} PROVE x \in Pages(t)
    <3>1. CASE x = p
      BY <3>1, <1>1, <1>3, <1>4, SMTT(40) DEF Pages
    <3>2. CASE x \in Pages(s)
      <4>1. PICK i \in 1..n : x = s[i]
        BY <3>2 DEF Pages, n
      <4>2. i + 1 \in 1..(n + 1) /\ t[i + 1] = x
        BY <4>1, <1>1, <1>4, SMTT(40)
      <4> QED
        BY <4>2, <1>3 DEF Pages
    <3> QED
      BY <2>2, <3>1, <3>2
  <2> QED
    BY <2>1, <2>2
<1>7. Distinct(t)
  <2>1. \A i \in 1..n : s[i] # p
    BY DEF Pages, n
  <2> SUFFICES ASSUME NEW i \in 1..(n + 1), NEW j \in 1..(n + 1), i # j PROVE t[i] # t[j]
    BY <1>3 DEF Distinct
  <2>2. CASE i = 1
    BY <2>1, <2>2, <1>4, <1>5, SMTT(40)
  <2>3. CASE j = 1
    BY <2>1, <2>3, <1>4, <1>5, SMTT(40)
  <2>4. CASE i # 1 /\ j # 1
    <3>1. i - 1 \in 1..n /\ j - 1 \in 1..n /\ i - 1 # j - 1
      BY <2>4, <1>1, <1>5
    <3>2. s[i - 1] # s[j - 1]
      BY <3>1 DEF Distinct, n
    <3> QED
      BY <2>4, <3>2, <1>5, SMTT(40)
  <2> QED
    BY <2>2, <2>3, <2>4
<1> QED
  BY <1>3, <1>6, <1>7 DEF t, n

\* g_queue_unlink: exactly the page at that place leaves.
LEMMA Unlinked ==
  ASSUME NEW S, NEW s \in Seq(S), Distinct(s), NEW i \in 1..Len(s)
  PROVE  /\ Unlink(s, i) \in Seq(S) /\ Len(Unlink(s, i)) = Len(s) - 1
         /\ Pages(Unlink(s, i)) = Pages(s) \ {s[i]}
         /\ Distinct(Unlink(s, i))
<1> DEFINE t == Unlink(s, i)
           n == Len(s)
           Old(j) == IF j < i THEN j ELSE j + 1
<1>1. n \in Nat \ {0} /\ DOMAIN s = 1..n /\ i \in 1..n /\ \A j \in 1..n : s[j] \in S
  BY Elements
<1>2. t \in [1..(n - 1) -> S]
  BY <1>1 DEF Unlink
<1>3. t \in Seq(S) /\ Len(t) = n - 1
  <2>1. n - 1 \in Nat
    BY <1>1
  <2> HIDE DEF t, n
  <2> QED
    BY <1>2, <2>1, Sequence
<1>4. \A j \in 1..(n - 1) : Old(j) \in 1..n /\ Old(j) # i /\ t[j] = s[Old(j)]
  <2> SUFFICES ASSUME NEW j \in 1..(n - 1)
               PROVE  Old(j) \in 1..n /\ Old(j) # i /\ t[j] = s[Old(j)]
    OBVIOUS
  <2>1. Old(j) \in 1..n /\ Old(j) # i
    BY <1>1
  <2>2. t[j] = IF j < i THEN s[j] ELSE s[j + 1]
    BY DEF Unlink
  <2> QED
    BY <2>1, <2>2
<1>5. \A j, k \in 1..(n - 1) : j # k => Old(j) # Old(k)
  BY <1>1
<1>6. \A k \in 1..n : k # i => \E j \in 1..(n - 1) : Old(j) = k
  <2> SUFFICES ASSUME NEW k \in 1..n, k # i PROVE \E j \in 1..(n - 1) : Old(j) = k
    OBVIOUS
  <2>1. CASE k < i
    <3>1. k \in 1..(n - 1) /\ Old(k) = k
      BY <1>1, <2>1, SMTT(40)
    <3> QED
      BY <3>1
  <2>2. CASE k > i
    <3>1. k - 1 \in 1..(n - 1) /\ Old(k - 1) = k
      BY <1>1, <2>2
    <3> QED
      BY <3>1
  <2> QED
    BY <1>1, <2>1, <2>2, SMTT(40)
<1>7. \A j, k \in 1..n : j # k => s[j] # s[k]
  BY DEF Distinct
<1> HIDE DEF t, Old, n
<1>8. Pages(t) = Pages(s) \ {s[i]}
  <2>1. ASSUME NEW x \in Pages(t) PROVE x \in Pages(s) \ {s[i]}
    <3>1. PICK j \in 1..(n - 1) : x = t[j]
      BY <1>3, SMTT(40) DEF Pages
    <3>2. x = s[Old(j)] /\ Old(j) \in 1..n /\ s[Old(j)] # s[i]
      BY <3>1, <1>1, <1>4, <1>7, SMTT(40)
    <3> QED
      BY <3>2, SMTT(40) DEF Pages, n
  <2>2. ASSUME NEW x \in Pages(s) \ {s[i]} PROVE x \in Pages(t)
    <3>1. PICK k \in 1..n : x = s[k]
      BY <2>2 DEF Pages, n
    <3>2. PICK j \in 1..(n - 1) : Old(j) = k
      BY <2>2, <3>1, <1>6, SMTT(40)
    <3> QED
      BY <3>1, <3>2, <1>3, <1>4, SMTT(40) DEF Pages
  <2> QED
    BY <2>1, <2>2, SMTT(40)
<1>9. Distinct(t)
  <2> SUFFICES ASSUME NEW j \in 1..(n - 1), NEW k \in 1..(n - 1), j # k PROVE t[j] # t[k]
    BY <1>3 DEF Distinct
  <2>1. Old(j) \in 1..n /\ Old(k) \in 1..n /\ Old(j) # Old(k)
    BY <1>4, <1>5, SMTT(40)
  <2> QED
    BY <2>1, <1>4, <1>7, SMTT(40)
<1> QED
  BY <1>3, <1>8, <1>9, SMTT(40) DEF t, n

\* clean_cache leaves the first half of the capacity in both structures.
LEMMA Cleaned ==
  ASSUME NEW S, NEW c, Cache(c, S), NEW max \in Nat \ {0}, Agree(c, max)
  PROVE  /\ Cache(clean_cache(c, max), S) /\ Agree(clean_cache(c, max), max \div 2)
         /\ DOMAIN clean_cache(c, max).ent \subseteq DOMAIN c.ent
<1> DEFINE n == Len(c.lru)
           keep == IF n > max \div 2 THEN max \div 2 ELSE n
           kept == SubSeq(c.lru, 1, keep)
           out == {c.lru[i] : i \in (keep + 1)..n}
           d == clean_cache(c, max)
<1>1. c.lru \in Seq(S) /\ n \in Nat
  BY Elements DEF Cache
<1>2. keep \in 0..n /\ keep <= max \div 2 /\ max \div 2 \in Nat
  BY <1>1, SMTT(40)
<1>3. d = [lru |-> kept, ent |-> [q \in DOMAIN c.ent \ out |-> c.ent[q]]]
  BY DEF clean_cache
<1> HIDE DEF keep
<1>4. kept \in Seq(S) /\ Len(kept) = keep /\ \A i \in 1..keep : kept[i] = c.lru[i]
  BY <1>1, <1>2, Prefix, SMTT(40)
<1> HIDE DEF kept, n
<1>5. d.lru = kept /\ DOMAIN d.ent = DOMAIN c.ent \ out /\ Cache(d, S)
  <2> HIDE DEF d, out
  <2> QED
    BY <1>3, <1>4, SMTT(40) DEF Cache
<1> HIDE DEF d
<1>6. \A i, j \in 1..n : i # j => c.lru[i] # c.lru[j]
  BY DEF Agree, n
<1>7. DOMAIN c.ent = {c.lru[i] : i \in 1..n}
  BY DEF Agree, n
<1>8. DOMAIN c.ent \ out = {kept[i] : i \in 1..keep}
  <2>1. ASSUME NEW x \in DOMAIN c.ent \ out PROVE x \in {kept[i] : i \in 1..keep}
    <3>1. PICK i \in 1..n : x = c.lru[i]
      BY <1>7, SMTT(40)
    <3>2. i \in 1..keep
      BY <1>1, <1>2, <3>1, <2>1, SMTT(40)
    <3> QED
      BY <3>1, <3>2, <1>4, SMTT(40)
  <2>2. ASSUME NEW x \in {kept[i] : i \in 1..keep} PROVE x \in DOMAIN c.ent \ out
    <3>1. PICK i \in 1..keep : x = c.lru[i]
      BY <1>4
    <3>2. i \in 1..n /\ \A j \in (keep + 1)..n : j \in 1..n /\ j # i
      BY <1>1, <1>2, SMTT(40)
    <3>3. x \notin out
      BY <3>1, <3>2, <1>6, SMTT(40)
    <3> QED
      BY <3>1, <3>2, <3>3, <1>7, SMTT(40)
  <2> QED
    BY <2>1, <2>2, SMTT(40)
<1>9. \A i, j \in 1..keep : i # j => kept[i] # kept[j]
  BY <1>1, <1>2, <1>4, <1>6, SMTT(40)
<1>10. Agree(d, max \div 2)
  <2>1. DOMAIN d.ent = Pages(kept) /\ Distinct(kept)
    BY <1>4, <1>5, <1>8, <1>9, ZenonT(40) DEF Pages, Distinct
  <2> QED
    BY <1>2, <1>4, <1>5, <2>1, Agreement, SMTT(40)
<1> QED
  BY <1>5, <1>10 DEF d

\* A page that is not in the table and is pushed there is in neither before.
LEMMA Created ==
  ASSUME NEW S, NEW c, Cache(c, S), NEW max \in Nat, Agree(c, max), NEW p \in S,
         p \notin DOMAIN c.ent, NEW fresh, NEW inside \in BOOLEAN
  PROVE  /\ Cache(create_new_entry(c, p, fresh, inside), S)
         /\ Agree(create_new_entry(c, p, fresh, inside), max + 1)
<1> DEFINE d == create_new_entry(c, p, fresh, inside)
<1>1. c.lru \in Seq(S) /\ Len(c.lru) \in Nat
  BY Elements DEF Cache
<1>2. Distinct(c.lru) /\ DOMAIN c.ent = Pages(c.lru) /\ Len(c.lru) <= max
  BY Agreement
<1>3. CASE inside
  <2> DEFINE t == PushHead(c.lru, p)
  <2>1. d = [lru |-> t, ent |-> [q \in DOMAIN c.ent \cup {p} |-> IF q = p THEN fresh ELSE c.ent[q]]]
    BY <1>3 DEF create_new_entry
  <2>2. t \in Seq(S) /\ Len(t) = Len(c.lru) + 1 /\ Pages(t) = Pages(c.lru) \cup {p} /\ Distinct(t)
    <3>1. p \notin Pages(c.lru)
      BY <1>2
    <3> QED
      BY <1>1, <1>2, <3>1, Pushed, SMTT(40)
  <2> HIDE DEF d, t
  <2>3. d.lru = t /\ DOMAIN d.ent = DOMAIN c.ent \cup {p} /\ Cache(d, S)
    BY <2>1, <2>2 DEF Cache
  <2>4. Agree(d, max + 1)
    <3>1. Len(t) <= max + 1
      BY <1>1, <1>2, <2>2, SMTT(40)
    <3> QED
      BY <1>2, <2>2, <2>3, <3>1, Agreement, ZenonT(40)
  <2> QED
    BY <2>3, <2>4 DEF d
<1>4. CASE ~inside
  <2>1. d = c
    BY <1>4 DEF create_new_entry
  <2>2. Agree(c, max + 1)
    BY <1>1, <1>2, Agreement, SMTT(40)
  <2> QED
    BY <2>1, <2>2
<1> QED
  BY <1>3, <1>4

\* A page that is refreshed moves to the head: it leaves one place and takes one.
LEMMA Validated ==
  ASSUME NEW S, NEW c, Cache(c, S), NEW max \in Nat, Agree(c, max), NEW p \in S,
         p \in DOMAIN c.ent, NEW fresh, NEW now, NEW age
  PROVE  /\ Cache(validate_and_return_data(c, p, fresh, now, age), S)
         /\ Agree(validate_and_return_data(c, p, fresh, now, age), max)
<1> DEFINE d == validate_and_return_data(c, p, fresh, now, age)
           i == CHOOSE j \in 1..Len(c.lru) : c.lru[j] = p
           u == Unlink(c.lru, i)
           t == PushHead(u, p)
<1>1. c.lru \in Seq(S) /\ Len(c.lru) \in Nat
  BY Elements DEF Cache
<1>2. Distinct(c.lru) /\ DOMAIN c.ent = Pages(c.lru) /\ Len(c.lru) <= max
  BY Agreement
<1>3. CASE Expired(c.ent[p], now, age)
  <2>1. d = [lru |-> t, ent |-> [c.ent EXCEPT ![p] = fresh]]
    BY <1>3 DEF validate_and_return_data
  <2>2. i \in 1..Len(c.lru) /\ c.lru[i] = p
    BY <1>2 DEF Pages
  <2> HIDE DEF i
  <2>3. u \in Seq(S) /\ Len(u) = Len(c.lru) - 1 /\ Pages(u) = Pages(c.lru) \ {p} /\ Distinct(u)
    BY <1>1, <1>2, <2>2, Unlinked, SMTT(40)
  <2> HIDE DEF u
  <2>4. t \in Seq(S) /\ Len(t) = Len(u) + 1 /\ Pages(t) = Pages(u) \cup {p} /\ Distinct(t)
    <3>1. p \notin Pages(u)
      BY <2>3
    <3> QED
      BY <2>3, <3>1, Pushed
  <2> HIDE DEF t, d
  <2>5. d.lru = t /\ DOMAIN d.ent = DOMAIN c.ent /\ Cache(d, S)
    BY <2>1, <2>4 DEF Cache
  <2>6. Len(t) = Len(c.lru) /\ Pages(t) = Pages(c.lru)
    BY <1>1, <1>2, <2>3, <2>4, SMTT(40)
  <2>7. Agree(d, max)
    BY <1>2, <2>4, <2>5, <2>6, Agreement, SMTT(40)
  <2> QED
    BY <2>5, <2>7 DEF d
<1>4. CASE ~Expired(c.ent[p], now, age)
  <2>1. d = c
    BY <1>4 DEF validate_and_return_data
  <2> QED
    BY <2>1
<1> QED
  BY <1>3, <1>4

\* memory_cache_insert keeps queue and table in agreement, within the
\* capacity, whatever it is asked for: a hit, an entry past its age, a new
\* page, a full cache, a page outside the guest.
THEOREM InsertAgrees ==
  ASSUME NEW S, NEW c, Cache(c, S), NEW max \in Nat \ {0}, Agree(c, max), NEW p \in S,
         NEW fresh, NEW now, NEW age, NEW inside \in BOOLEAN
  PROVE  /\ Cache(memory_cache_insert(c, p, fresh, now, age, max, inside), S)
         /\ Agree(memory_cache_insert(c, p, fresh, now, age, max, inside), max)
<1> DEFINE d == memory_cache_insert(c, p, fresh, now, age, max, inside)
           e == clean_cache(c, max)
<1>1. CASE p \in DOMAIN c.ent
  <2>1. d = validate_and_return_data(c, p, fresh, now, age)
    BY <1>1 DEF memory_cache_insert
  <2> HIDE DEF d
  <2> QED
    BY <1>1, <2>1, Validated DEF d
<1>2. CASE p \notin DOMAIN c.ent /\ Len(c.lru) >= max
  <2>1. d = create_new_entry(e, p, fresh, inside)
    BY <1>2 DEF memory_cache_insert
  <2>2. Cache(e, S) /\ Agree(e, max \div 2) /\ p \notin DOMAIN e.ent
    BY <1>2, Cleaned
  <2> HIDE DEF d, e
  <2>3. max \div 2 \in Nat /\ max \div 2 + 1 <= max
    OBVIOUS
  <2>4. Cache(d, S) /\ Agree(d, max \div 2 + 1)
    BY <2>1, <2>2, <2>3, Created, SMTT(40)
  <2>5. Agree(d, max)
    <3>1. Len(d.lru) \in Nat
      BY <2>4, Elements DEF Cache
    <3> QED
      BY <2>3, <2>4, <3>1, SMTT(40) DEF Agree
  <2> QED
    BY <2>4, <2>5 DEF d
<1>3. CASE p \notin DOMAIN c.ent /\ ~(Len(c.lru) >= max)
  <2>1. d = create_new_entry(c, p, fresh, inside)
    BY <1>3 DEF memory_cache_insert
  <2>2. Len(c.lru) \in Nat /\ max - 1 \in Nat /\ (max - 1) + 1 = max
    BY Elements DEF Cache
  <2>3. Agree(c, max - 1)
    BY <1>3, <2>2 DEF Agree
  <2> HIDE DEF d
  <2> QED
    BY <1>3, <2>1, <2>2, <2>3, Created, SMTT(40) DEF d
<1> QED
  BY <1>1, <1>2, <1>3, SMTT(40)

\* memory_cache_flush, and a new instance, leave both structures empty.
LEMMA EmptyAgrees ==
  ASSUME NEW S, NEW max \in Nat
  PROVE  \A c : LET f == memory_cache_flush(c) IN Cache(f, S) /\ Agree(f, max)
<1>1. Cache(EmptyCache, S)
  BY DEF Cache, EmptyCache
<1>2. Agree(EmptyCache, max)
  BY DEF Agree, EmptyCache
<1> QED
  BY <1>1, <1>2 DEF memory_cache_flush
=============================================================================
