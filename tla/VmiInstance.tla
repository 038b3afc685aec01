---------------------------- MODULE VmiInstance ----------------------------
(***************************************************************************)
(* A client of LibVMI and its guest: attaching to a domain and detaching,  *)
(* finding the kernel, the guest's registers, processes and symbols.       *)
(*                                                                         *)
(* A scenario sc says which guest and configuration there is, what may     *)
(* fail, which calls the client makes and what the guest does meanwhile.   *)
(* Calls that only lead to their result through hypercalls and files are   *)
(* one step; those in which the guest or another thread can come between   *)
(* two accesses are several:                                               *)
(*   kv     vmi_init of a KVM guest, whose connection another thread takes *)
(*   regs   setting registers: pause, read, write, resume                  *)
(*   procs  a walk over the process list, one read at a time               *)
(***************************************************************************)
EXTENDS CoreLife, VcpuRegs, ProcessList, Symbols

CONSTANTS Scenarios

\* A guest that boots again is a guest of the same kind.
ASSUME BootsAssumption == \A s \in Scenarios : \A g \in s.boots : g.type = s.guest.type
\* A client names registers that its guest has; the driver may not know them.
ASSUME NamedAssumption ==
  \A s \in Scenarios : \A v \in DOMAIN s.cpu :
     s.guest.type \in {"hvm", "pv64", "pv32", "arm", "kvm"} /\ s.named \subseteq DOMAIN s.cpu[v]

VARIABLES sc,     \* the scenario, constant in a behaviour
          life,   \* the instance and what it holds (InstanceState)
          guest,  \* [type, pm, cr3, kaslr]: what vmi_init_os looks for
          kv,     \* the connection of a KVM guest
          last,   \* the client's last call
          log,    \* what has failed so far, and what else excuses a leak
          regs, procs, syms,
          left    \* calls, moves and failures left

vars == <<sc, life, guest, kv, last, log, regs, procs, syms, left>>

\* at: "idle"; "locked", between kvmi_init and the wait; "waiting"; "woken";
\* "timedout"; "closing", in kvm_close_vmi.  conn: a guest that connected has
\* its handle with the callback, "cb", and not yet in the instance.
NoCfg  == [os |-> "none", keys |-> {}, json |-> FALSE, path |-> FALSE]
NoKv   == [at |-> "idle", conn |-> "no", F |-> {}]
NoCall == [call |-> "none", ok |-> TRUE, F |-> {}, cfg |-> NoCfg, again |-> FALSE]
NoAsk  == [for |-> "none", base |-> 0, space |-> 0, name |-> <<>>, rva |-> 0]
NoOp   == [on |-> FALSE, at |-> "done", v |-> 0, new |-> <<>>, all |-> FALSE,
           snap |-> <<>>, ok |-> TRUE, ran |-> FALSE, F |-> {}]

Init ==
  /\ sc \in Scenarios
  /\ life = sc.life /\ guest = sc.guest
  /\ kv = NoKv /\ last = NoCall /\ log = IF sc.life.i.mode = "file" THEN {"file"} ELSE {}
  /\ regs = [cpu |-> sc.cpu, paused |-> 0, asked |-> 0, stuck |-> 0, op |-> NoOp,
             copy |-> <<>>, got |-> {}, wrote |-> <<>>]
  /\ procs = [l |-> sc.list, w |-> sc.walk, stay |-> {}, were |-> {}, reused |-> FALSE, gone |-> {}]
  /\ syms = [y |-> NoSymbols, mods |-> sc.mods, was |-> {}, named |-> {}, ans |-> {}, said |-> {},
             ask |-> NoAsk]
  /\ left = [calls |-> sc.calls, moves |-> sc.moves, faults |-> sc.at_once]

Does(call, F) ==
  /\ call \in sc.client /\ life.bad = {} /\ kv.at = "idle" /\ left.calls > 0
  /\ left' = [left EXCEPT !.calls = @ - 1, !.faults = @ - Cardinality(F)]
Moves(what) == what \in sc.does /\ left.moves > 0 /\ left' = [left EXCEPT !.moves = @ - 1]
\* At most two things fail at once.
Faults == {{}} \cup (IF left.faults > 0 THEN {{f} : f \in sc.faults} ELSE {})
               \cup (IF left.faults > 1 THEN {{f, g} : f, g \in sc.faults} ELSE {})

\* The call is over with the instance s.
Over(call, s, F, cfg) ==
  /\ life' = s
  /\ last' = [call |-> call, ok |-> s.ok, F |-> F, cfg |-> cfg,
              again |-> cfg # NoCfg /\ last.cfg # NoCfg]

------------------------------- \* Attaching and detaching

Same == UNCHANGED <<sc, regs, procs, syms>>

Excuses(F, a) ==
  F \cup (a.flags \cap {"watch"}) \cup (IF a.mode = "file" \/ a.present = {"file"} THEN {"file"} ELSE {})

\* A file has a name and no events; domains are watched for on Xen only.
Refuses(a) ==
  IF \/ a.mode = "file" /\ (a.by # "name" \/ "events" \in a.flags)
     \/ a.mode = "kvm" /\ "watch" \in a.flags
  THEN {"refused"} ELSE {}

VmiInit ==
  \E a \in sc.attach, F \in Faults :
    /\ Does("init", F) /\ ~life.i.live /\ a.mode # "kvm"
    /\ Over("init", vmi_init(life, F, a.mode, a.flags, a.by, guest.type), F \cup Refuses(a), NoCfg)
    /\ log' = log \cup Excuses(F, a)
    /\ UNCHANGED <<guest, kv>> /\ Same

VmiInitComplete ==
  \E a \in sc.attach, cfg \in sc.cfgs, F \in Faults :
    /\ Does("complete", F) /\ ~life.i.live
    /\ driver_init_mode(life, F, a.by, a.present).i.mode # "kvm"
    /\ \E s \in {vmi_init_complete(life, F, a.flags, a.by, a.present, cfg, guest)} :
          /\ Over("complete", s, F, cfg)
          /\ log' = log \cup Excuses(F, a) \cup (IF s.ok THEN {} ELSE {"complete"})
    /\ UNCHANGED <<guest, kv>> /\ Same

VmiInitPaging ==
  \E F \in Faults :
    /\ Does("paging", F) /\ life.i.live
    /\ Over("paging", vmi_init_paging(life, F, guest.pm), F, last.cfg)
    /\ log' = log \cup F
    /\ UNCHANGED <<guest, kv>> /\ Same

VmiInitProfile ==
  \E cfg \in sc.cfgs, F \in Faults :
    /\ Does("profile", F) /\ life.i.live
    /\ Over("profile", vmi_init_profile(life, F, cfg), F, last.cfg)
    /\ log' = log \cup F \cup {"again", "profiled"}
    /\ UNCHANGED <<guest, kv>> /\ Same

VmiInitOs ==
  \E cfg \in sc.cfgs, F \in Faults :
    /\ Does("os", F) /\ life.i.live
    /\ \E s \in {vmi_init_os(life, F, cfg, guest)} :
          /\ Over("os", s, F, cfg)
          /\ log' = log \cup F \cup (IF last.cfg # NoCfg THEN {"again"} ELSE {})
                        \cup (IF s.ok THEN {} ELSE {cfg.os})
    /\ UNCHANGED <<guest, kv>> /\ Same

VmiDestroy ==
  /\ Does("destroy", {}) /\ life.i.live /\ life.i.mode # "kvm"
  /\ Over("destroy", vmi_destroy(life), {}, NoCfg)
  /\ UNCHANGED <<guest, kv, log>> /\ Same

\* The guest boots again: the kernel is elsewhere, and the tables are new.
Reboot ==
  \E g \in sc.boots :
    /\ Moves("reboot") /\ kv.at = "idle" /\ g # guest
    /\ guest' = g
    /\ life' = IF life.i.kpgd \in {"proc", "system"} THEN [life EXCEPT !.i.kpgd = "stale"] ELSE life
    /\ log' = log \cup {"reboot"}
    /\ UNCHANGED <<kv, last>> /\ Same
------------------------------- \* A KVM guest

\* vmi_init up to the wait for the guest.
KvmInit ==
  \E a \in sc.attach, F \in Faults :
    /\ Does("init", F) /\ ~life.i.live /\ a.mode = "kvm"
    /\ \E s \in {AndThen(InitBegin(life, F, "kvm", a.flags, a.by),
                      LAMBDA t : OrElse(kvm_listen(t, F), InitFailed))} :
          IF s.ok
          THEN life' = s /\ kv' = [kv EXCEPT !.at = "locked", !.F = F] /\ UNCHANGED last
          ELSE Over("init", s, F \cup Refuses(a), NoCfg) /\ UNCHANGED kv
    /\ log' = log \cup F
    /\ UNCHANGED guest /\ Same

\* pthread_cond_timedwait gives up the mutex.
KvmWait ==
  /\ kv.at = "locked" /\ kv' = [kv EXCEPT !.at = "waiting"]
  /\ UNCHANGED <<life, guest, last, log, left>> /\ Same

\* Ten seconds pass.
KvmTimeout ==
  /\ kv.at = "waiting" /\ kv' = [kv EXCEPT !.at = "timedout"]
  /\ UNCHANGED <<life, guest, last, log, left>> /\ Same

\* The library's thread has accepted a guest.
GuestConnects ==
  /\ Moves("connect") /\ life.i.ptr["kvmi"] = "set" /\ kv.conn = "no"
  /\ life' = [life EXCEPT !.own["kvmidom"] = @ + 1]
  /\ kv' = [kv EXCEPT !.conn = "cb"]
  /\ UNCHANGED <<guest, last, log>> /\ Same

\* Mutant: the mutex is taken after kvmi_init.
MutexFree_LockedLate == TRUE

\* init_kvmi holds the mutex from before kvmi_init until it waits.
MutexFree == kv.at # "locked"

\* new_guest_cb; a version that cannot be read leaves the handle to the library.
NewGuest ==
  /\ kv.conn = "cb" /\ MutexFree
  /\ \/ /\ "kvmiversion" \in sc.faults
        /\ life' = [life EXCEPT !.own["kvmidom"] = @ - 1]
        /\ kv' = [kv EXCEPT !.conn = "no"]
        /\ UNCHANGED log
     \/ /\ life' = new_guest_cb(life)
        /\ kv' = [kv EXCEPT !.conn = "no", !.at = IF @ = "waiting" THEN "woken" ELSE @]
        /\ log' = log \cup (IF kv.at = "timedout" THEN {"late"} ELSE {})
                      \cup (IF kv.at = "closing" THEN {"reconnect"} ELSE {})
  /\ UNCHANGED <<guest, last, left>> /\ Same

\* kvmi_uninit waits for the accepting thread.
KvmConnected ==
  /\ kv.at = "woken"
  /\ LET s == InitEnd(kvm_connected(life, kv.F), kv.F)
     IN  (s.ok \/ kv.conn = "no") /\ Over("init", s, kv.F, NoCfg)
  /\ kv' = [kv EXCEPT !.at = "idle", !.F = {}]
  /\ UNCHANGED <<guest, log, left>> /\ Same

KvmGivesUp ==
  /\ kv.at = "timedout" /\ kv.conn = "no"
  /\ Over("init", InitEnd(GiveUp(life), kv.F), kv.F \cup {"timeout"}, NoCfg)
  /\ kv' = [kv EXCEPT !.at = "idle", !.F = {}]
  /\ UNCHANGED <<guest, log, left>> /\ Same

KvmDestroy ==
  /\ Does("destroy", {}) /\ life.i.live /\ life.i.mode = "kvm"
  /\ life' = CloseGuest(life) /\ kv' = [kv EXCEPT !.at = "closing"]
  /\ UNCHANGED <<guest, last, log>> /\ Same

KvmDestroyed ==
  /\ kv.at = "closing" /\ kv.conn = "no"
  /\ Over("destroy", FreeInstance(FreeKvm(CloseHost(life))), {}, NoCfg)
  /\ kv' = NoKv
  /\ UNCHANGED <<guest, log, left>> /\ Same

------------------------------- \* Registers

Rest == UNCHANGED <<sc, life, guest, kv, last, log, procs, syms>>
Vcpus == DOMAIN regs.cpu
op    == regs.op

\* The guest runs: a register of a vCPU changes.
GuestRuns ==
  \E v \in Vcpus : \E r \in DOMAIN regs.cpu[v] :
    /\ Moves("run") /\ regs.paused = 0
    /\ regs' = [regs EXCEPT !.cpu[v][r] = 1 - @, !.op.ran = op.on, !.wrote = <<>>]
    /\ Rest

\* vmi_pause_vm and vmi_resume_vm; Xen counts, KVM does not.
PauseVm ==
  /\ Does("pause", {}) /\ ~op.on
  /\ regs' = IF guest.type = "kvm" /\ regs.asked = 1 THEN regs
             ELSE [regs EXCEPT !.paused = @ + 1, !.asked = @ + 1]
  /\ Rest

ResumeVm ==
  /\ Does("pause", {}) /\ ~op.on /\ regs.asked > 0
  /\ regs' = [regs EXCEPT !.paused = @ - 1, !.asked = @ - 1]
  /\ Rest

\* vmi_get_vcpureg and vmi_get_vcpuregs: one hypercall.
GetRegs ==
  \E v \in Vcpus, r \in sc.named, F \in Faults :
    /\ Does("get", F) /\ ~op.on
    /\ regs' = IF "context" \in F THEN [regs EXCEPT !.got = {}, !.copy = <<>>]
               ELSE [regs EXCEPT
                       !.got = {<<v, r, x>> : x \in driver_get_vcpureg(guest.type, regs.cpu[v], r)},
                       !.copy = IF driver_get_vcpuregs(guest.type, regs.cpu[v]) = {} THEN <<>>
                                ELSE The(driver_get_vcpuregs(guest.type, regs.cpu[v]))]
    /\ Rest

\* The registers_t of a client: its own, or what it read with one changed.
AllRegs(v, x) ==
  IF regs.copy = <<>> THEN [q \in DOMAIN regs.cpu[v] |-> x] ELSE [regs.copy EXCEPT !["rax"] = x]

\* vmi_set_vcpureg and vmi_set_vcpuregs up to their first access.
SetRegs ==
  \E v \in Vcpus, all \in BOOLEAN, F \in Faults : \E r \in sc.named :
    /\ Does("set", F) /\ ~op.on
    /\ LET new == IF all THEN AllRegs(v, 1) ELSE One(r, 1)
           pause == PausesGuest(guest.type)
       IN  IF pause /\ "pause" \in F THEN UNCHANGED regs
           ELSE regs' = [regs EXCEPT !.paused = IF pause THEN @ + 1 ELSE @,
                           !.op = [NoOp EXCEPT !.on = TRUE, !.at = "read", !.v = v, !.new = new,
                                               !.all = all, !.F = F]]
    /\ Rest

ReadContext ==
  /\ op.on /\ op.at = "read"
  /\ regs' = IF "context" \in op.F
             THEN [regs EXCEPT !.op.at = "resume", !.op.ok = FALSE]
             ELSE [regs EXCEPT !.op.at = "write", !.op.snap = regs.cpu, !.op.ran = FALSE]
  /\ Rest /\ UNCHANGED left

Written ==
  IF op.all THEN driver_set_vcpuregs(guest.type, regs.cpu, op.snap, op.v, op.new)
  ELSE LET r == The(DOMAIN op.new)
       IN  driver_set_vcpureg(guest.type, regs.cpu, op.snap, op.v, r, op.new[r])

WriteContext ==
  /\ op.on /\ op.at = "write"
  /\ regs' = IF "setcontext" \in op.F
             THEN [regs EXCEPT !.op.at = "resume", !.op.ok = FALSE]
             ELSE [regs EXCEPT !.op.at = "resume", !.op.ok = Written.ok, !.cpu = Written.m]
  /\ Rest /\ UNCHANGED left

\* Mutant: a call that failed returns without resuming the guest.
SetEnds_Early ==
  /\ op.on /\ op.at = "resume"
  /\ regs' = [regs EXCEPT !.op = NoOp,
                !.paused = IF PausesGuest(guest.type) /\ op.ok THEN @ - 1 ELSE @]
  /\ Rest /\ UNCHANGED left

\* The _bail label: the guest is resumed whatever happened, and nobody looks
\* whether that worked.
SetEnds ==
  /\ op.on /\ op.at = "resume"
  /\ LET resumed == PausesGuest(guest.type) /\ "unpause" \notin op.F
     IN  regs' = [regs EXCEPT !.op = NoOp, !.paused = IF resumed THEN @ - 1 ELSE @,
                    !.stuck = IF PausesGuest(guest.type) /\ ~resumed THEN @ + 1 ELSE @,
                    !.wrote = IF op.ok /\ ~op.all /\ ~op.ran THEN <<op.v, op.new>> ELSE <<>>]
  /\ Rest /\ UNCHANGED left

------------------------------- \* Processes

Others == UNCHANGED <<sc, life, guest, kv, last, log, regs, syms>>
walk  == procs.w
Pairs(l) == {<<l.pid[n], l.pgd[n]>> : n \in l.linked \cup {Start}}

\* vmi_pid_to_dtb of a pid that is not cached, vmi_dtb_to_pid.
BeginWalk ==
  \E by \in sc.bys, key \in sc.keys, sysproc \in BOOLEAN :
    /\ Does("walk", {}) /\ ~walk.on /\ (sysproc => procs.l.os = "windows")
    /\ procs' = [procs EXCEPT !.w = Walk(procs.l.os, by, key, sysproc), !.stay = procs.l.linked,
                              !.were = Pairs(procs.l), !.reused = FALSE, !.gone = {}]
    /\ Others

ReadOnce ==
  /\ walk.on /\ procs' = [procs EXCEPT !.w = ReadStep(procs.l, walk)]
  /\ Others /\ UNCHANGED left

ProcessExits ==
  \E n \in procs.l.linked :
    /\ Moves("exit")
    /\ procs' = [procs EXCEPT !.l = Exit(procs.l, n), !.stay = @ \ {n}, !.gone = @ \cup {n}]
    /\ Others

\* A node is used again when a process left it during this walk.
ProcessForks ==
  \E n \in Procs \ procs.l.linked, pgd \in sc.tables :
    /\ Moves("fork")
    /\ LET l == Fork(procs.l, n, sc.newpid, pgd)
       IN  procs' = [procs EXCEPT !.l = l, !.were = @ \cup Pairs(l),
                                  !.reused = @ \/ n \in procs.gone]
    /\ Others

------------------------------- \* Symbols

Keeps == UNCHANGED <<sc, life, guest, kv, last, log, regs, procs>>
off   == life.i.task.off

\* What is true now of every symbol: <<base, space, name, address>>, with the
\* kernel's in space 0 at base 0.
At(base, space, pairs) == {<<base, space, p[1], base + p[2]>> : p \in pairs}
Truths ==
  LET k == sc.kernel
  IN  At(0, 0, {<<n, k.profile[n] + off>> : n \in DOMAIN k.profile})
      \cup At(0, 0, {<<n, k.kdbg[n]>> : n \in DOMAIN k.kdbg})
      \cup At(0, 0, {<<e[1], e[2] + off>> : e \in Exports(k.table)})
      \cup UNION {At(m[2], m[1], Exports(syms.mods[m])) : m \in DOMAIN syms.mods}

\* The question and the answer.  The ghosts was and named keep what was true at
\* an answer since the cache of addresses, or of names, was flushed.
Answered(a, for, base, space, name, rva) ==
  syms' = [syms EXCEPT !.y = a.y, !.was = @ \cup Truths, !.named = @ \cup Truths,
                       !.ans = IF for = "address" THEN a.res ELSE {},
                       !.said = IF for = "name" THEN a.res ELSE {},
                       !.ask = [for |-> for, base |-> base, space |-> space, name |-> name,
                                rva |-> rva]]

KernelSymbol ==
  \E n \in sc.names :
    /\ Does("ksym", {}) /\ life.i.task.set
    /\ Answered(vmi_translate_ksym2v(syms.y, sc.kernel, off, n), "address", 0, 0, n, 0)
    /\ Keeps

ModuleSymbol ==
  \E m \in DOMAIN syms.mods, n \in sc.names :
    /\ Does("sym", {})
    /\ Answered(vmi_translate_sym2v(syms.y, m[1], m[2], syms.mods[m], n), "address", m[2], m[1], n, 0)
    /\ Keeps

ModuleName ==
  \E m \in DOMAIN syms.mods, rva \in sc.rvas :
    /\ Does("name", {}) /\ sc.kernel.os = "windows"
    /\ Answered(vmi_translate_v2sym(syms.y, m[1], m[2], syms.mods[m], rva), "name", m[2], m[1], <<>>, rva)
    /\ Keeps

\* space 0 is the kernel's page table
KernelName ==
  \E space \in sc.spaces, va \in sc.rvas :
    /\ Does("name", {}) /\ sc.kernel.os = "linux"
    /\ Answered(vmi_translate_v2ksym(syms.y, sc.kernel, off, space, 0, va, space = 0),
                "name", 0, space, <<>>, va)
    /\ Keeps

\* vmi_symcache_add, which takes the pid itself for the address space, and
\* vmi_rvacache_add, which looks for its dtb: the client vouches for the entry.
AddSymbol ==
  \E m \in sc.adds :
    /\ Does("add", {})
    /\ LET true(space) == <<m.base, space, m.name, m.base + m.rva>>
       IN  syms' = [syms EXCEPT !.y = vmi_rvacache_add(
                                        vmi_symcache_add(@, m.base, m.pid, m.name, m.base + m.rva),
                                        m.base, m.dtb, m.rva, m.name),
                                !.was = @ \cup {true(m.pid)}, !.named = @ \cup {true(m.dtb)},
                                !.ans = {}, !.said = {}, !.ask = NoAsk]
    /\ Keeps

FlushSymbols ==
  /\ Does("flush", {})
  /\ \/ syms' = [syms EXCEPT !.y = vmi_symcache_flush(@), !.was = {}, !.ans = {}, !.said = {}, !.ask = NoAsk]
     \/ syms' = [syms EXCEPT !.y = vmi_rvacache_flush(@), !.named = {}, !.ans = {}, !.said = {}, !.ask = NoAsk]
  /\ Keeps

\* The guest maps another module.
ModuleLoads ==
  \E mods \in sc.loads :
    /\ Moves("load") /\ syms' = [syms EXCEPT !.mods = mods, !.ans = {}, !.said = {}, !.ask = NoAsk]
    /\ Keeps

-----------------------------------------------------------------------------
Lifecycle == VmiInit \/ VmiInitComplete \/ VmiInitPaging \/ VmiInitProfile \/ VmiInitOs
             \/ VmiDestroy \/ Reboot
KvmSteps  == KvmInit \/ KvmWait \/ KvmTimeout \/ GuestConnects \/ NewGuest \/ KvmConnected
             \/ KvmGivesUp \/ KvmDestroy \/ KvmDestroyed
RegSteps  == GuestRuns \/ PauseVm \/ ResumeVm \/ GetRegs \/ SetRegs \/ ReadContext
             \/ WriteContext \/ SetEnds
ProcSteps == BeginWalk \/ ReadOnce \/ ProcessExits \/ ProcessForks
SymSteps  == KernelSymbol \/ ModuleSymbol \/ ModuleName \/ KernelName \/ AddSymbol
             \/ FlushSymbols \/ ModuleLoads

Next == Lifecycle \/ KvmSteps \/ RegSteps \/ ProcSteps \/ SymSteps

\* A walk goes on to read; the guest and the client's next call may not come.
Fairness == WF_vars(ReadOnce)

Spec == Init /\ [][Next]_vars /\ Fairness

-----------------------------------------------------------------------------
\* Counts and pointers agree with the types of the structures: nothing is held
\* a negative number of times, and every pointer of struct vmi_instance is
\* unset, set or dangling (private.h).
TypeOK ==
  /\ \A r \in Resources : life.own[r] \in Nat /\ life.i.ptr[r] \in Pointer
  /\ life.bad \subseteq Resources /\ life.ok \in BOOLEAN
  /\ life.i.pm \in {"unknown", "legacy", "pae", "ia32e", "aarch32", "aarch64"}
  /\ life.i.os \in {"unknown", "linux", "windows", "freebsd"}
  /\ kv.at \in {"idle", "locked", "waiting", "woken", "timedout", "closing"}
  /\ regs.paused \in Nat /\ regs.asked \in Nat
  /\ procs.l.linked \subseteq Procs /\ procs.w.cur \in Nodes

\* What is followed after it was given back, by what happened: file_init_vmi and
\* the err label of xen_init_events leave their pointers, and kvm_close_vmi
\* closes the handle of a guest that came too late a second time.
Twice ==
  (IF "fopen" \in log THEN {"drv"} ELSE {}) \cup (IF log \cap {"abi", "watch"} # {} THEN {"evmem"} ELSE {})
  \cup (IF "late" \in log THEN {"kvmidom"} ELSE {})

\* Every handle is closed and every block freed through a pointer that still
\* owns it, on every path through xen_init, xen_init_events, kvm_init_vmi,
\* init_kvmi, file_init_vmi, the OS initialisers and vmi_destroy, but for the
\* three that Twice names.
ReleasedOnce == life.bad \subseteq Twice

\* What stays held, by what happened.
LeftBy(f) ==
  CASE f = "libxs" -> {"libxc"} [] f = "evtchn" -> {"ring"} [] f = "bind" -> {"ring", "evtchn"}
    [] f = "abi" -> {"ring", "evtchn", "port"} [] f = "watch" -> {"evmem"}
    [] f \in {"dladdr", "libvirt"} -> {"libkvmi"} [] f = "conn" -> {"libkvmi", "libvirt"}
    [] f = "reconnect" -> {"kvmidom"} [] f = "file" -> {"path"}
    [] f = "again" -> {"sysmap", "osif", "config"} [] f = "freebsd" -> {"sysmap"}
    [] f \in {"profile", "profiletype", "profiled"} -> {"config"}
    [] f = "complete" -> Resources [] OTHER -> {}
Leaks == UNION {LeftBy(f) : f \in log}

\* "Destroys an instance by freeing memory and closing any open handles":
\* after vmi_destroy, and after a vmi_init that failed, nothing is held but
\* what Leaks names.
NothingHeld ==
  ~life.i.live /\ kv.at = "idle" => \A r \in Resources : life.own[r] > 0 => r \in Leaks

\* Every resource of an instance is given back, and only once.
Released == TypeOK /\ ReleasedOnce /\ NothingHeld

\* A guest that can be attached to can be attached to again: a vmi_init in
\* which nothing fails succeeds, whatever happened to the instances before,
\* unless one of them left its monitor ring enabled.
Reattach == last.call = "init" /\ last.F = {} /\ "ring" \notin Leaks => last.ok

\* An attached instance describes the domain that was asked for, though
\* xc_domain_getinfo answers with the next one.
Attached == life.i.live /\ kv.at = "idle" /\ Has(life, "caches") /\ life.i.mode = "xen" => life.i.info = "own"

\* init_kvmi never sleeps through the connection it waits for.
NoMissedConnect == kv.at = "waiting" => life.i.ptr["kvmidom"] # "set"

\* vmi_init attaches to the guest it was asked for.
Attaches == Reattach /\ Attached /\ NoMissedConnect

\* After a vmi_init_os that succeeded the kernel can be translated: the page
\* mode is the guest's and the table maps the kernel.  Except on Windows when
\* vCPU 0 was in the user half of a process and the profile's way to the
\* kernel's base, which replaces that table, was not taken (get_kpgd_from_json_
\* profile returns success), after a Linux initialisation that failed with CR3
\* unreadable left its last guess of the page mode, and when linux_filemode_init
\* takes a likely place that maps the kernel elsewhere for success.
OsReady ==
  LET cfg   == last.cfg
      blind == cfg.os = "windows" /\ guest.cr3 = "user"
                /\ ("ntoskrnl" \in cfg.keys \/ last.F \cap {"base", "m2"} # {})
      tried == {"again", "cr3"} \subseteq log \/ "elsewhere" \in last.F
  IN  last.call \in {"os", "complete"} /\ last.ok /\ "reboot" \notin log /\ ~blind /\ ~tried =>
        /\ Has(life, "osdata") /\ Has(life, "osif") /\ life.i.kind = cfg.os
        /\ Maps(life, guest)

\* "will be replaced by the real kpgd later" (windows/core.c:1060): on Windows
\* the table that vmi_init_os leaves is the System process', not that of the
\* process in which vCPU 0 happened to be.
KernelTable ==
  LET cfg == last.cfg
  IN  last.call = "os" /\ last.ok /\ cfg.os = "windows" /\ "sysproc" \notin cfg.keys
        /\ Maps(life, guest) => life.i.kpgd \in {"system", "config"}

\* init_task, from which every walk over the process list starts and which
\* gives the kernel's load offset, is where the kernel has it.
LinuxTask ==
  LET cfg == last.cfg
      fixed == "kaslr" \in cfg.keys /\ ("task" \in cfg.keys \/ cfg.json)
  IN  last.call = "os" /\ last.ok /\ cfg.os = "linux" /\ "reboot" \notin log /\ ~fixed =>
        life.i.task.off = guest.kaslr

\* vmi_init_os reports success only with a kernel that can be read.
OsFound == OsReady /\ KernelTable /\ LinuxTask

\* A write of registers changes the registers it names on the vCPU it names;
\* all others keep the value they have at that moment (not the one they had
\* when the context was read), and a call that fails changes nothing.  PV, ARM
\* and KVM guests are not paused: there it holds if the guest did not run.
SetExact ==
  op.at = "write" /\ regs'.op.at = "resume" /\ (guest.type = "hvm" \/ ~op.ran) =>
    /\ \A v \in Vcpus \ {op.v} : regs'.cpu[v] = regs.cpu[v]
    /\ \A r \in DOMAIN regs.cpu[op.v] :
         regs'.cpu[op.v][r] # regs.cpu[op.v][r] =>
           r \in DOMAIN op.new /\ regs'.cpu[op.v][r] = op.new[r]

\* A register that vmi_set_vcpureg reported as set reads back as it was set,
\* as long as the guest has not run: the two switches of each driver agree.
ReadBack ==
  regs'.got # regs.got /\ regs.wrote # <<>> =>
    \A g \in regs'.got :
      g[1] = regs.wrote[1] /\ g[2] \in DOMAIN regs.wrote[2] => g[3] = regs.wrote[2][g[2]]

\* Registers are written and read one by one and all at once alike.
RegistersExact == [][SetExact /\ ReadBack]_vars

\* Outside a call the guest is paused exactly as often as its client asked,
\* and once more for each resume the hypervisor refused: a call that pauses
\* the guest to set registers resumes it on every path.
PauseBalanced == ~op.on => regs.paused = regs.asked + regs.stuck

\* The process had this table; on Linux also the one it borrowed as a kernel
\* thread, or that on the page before, when asked for an odd one.
TableOf(pid, pgd) ==
  \/ <<pid, pgd>> \in procs.were
  \/ procs.l.os = "linux" /\ pgd = procs.l.active /\ <<pid, 0>> \in procs.were
  \/ procs.l.os = "linux" /\ walk.by = "pgd" /\ <<pid, (pgd \div 2) * 2>> \in procs.were

\* A process that is in the list all through a walk is found, and what a walk
\* answers was the pair of pid and table of a process during the walk: unless
\* the memory of a process that left was used for a new one under the walk, or
\* what lies around the list's head looks like what is searched.
WalkFinds ==
  LET w == walk
      l == procs.l
  IN  ~w.on /\ ~procs.reused /\ w.key # l.junk =>
        /\ l.holes = {} /\ (\E n \in procs.stay : Field(l, w.by, n) = w.key) => w.ok
        /\ w.ok => IF w.by = "pid" THEN TableOf(w.key, w.val) ELSE TableOf(w.val, w.key)

\* The walk may go on for ever: on Linux and FreeBSD at an entry that cannot be
\* read, on Windows when the process that marks the end has left the list.
Endless ==
  IF procs.l.os = "windows" THEN walk.first \in procs.gone ELSE procs.l.holes # {}

\* Every walk over the process list ends, however processes come and go, but
\* for the cases of Endless.
WalkEnds == walk.on ~> ~walk.on \/ Endless

\* A walk over the process list that ends has found what is there, and every
\* walk ends.
WalksRight == [][~walk'.on => WalkFinds']_vars /\ WalkEnds

\* The name n of the table answers for the name asked for: it is that name, it
\* was cut to it, or the name asked for begins with it and is not exported, or a
\* name that is exported cannot be read, or a longer one was cached in its place.
AtPlace(q)  == {t \in syms.was : t[1] = q.base /\ t[2] % Width = q.space % Width}
Exported(q) == \E t \in AtPlace(q) : t[3] = q.name
Torn        == sc.kernel.table.paged # {} \/ \E m \in DOMAIN syms.mods : syms.mods[m].paged # {}
Meant(n, name) ==
  n = name \/ Cut(n) = name \/ (Begins(n, name) /\ (~Exported(syms.ask) \/ Torn \/ Len(name) >= CutAt))

\* An address or a name that a translation answers was the true one, for that
\* module, address space and symbol, since the client last flushed the cache.
\* Address spaces are told apart by the low bits of their dtb.
SymbolRight ==
  LET q == syms.ask
  IN  /\ \A a \in syms.ans : \E t \in AtPlace(q) : Meant(t[3], q.name) /\ t[4] = a
      /\ \A n \in syms.said : <<q.base, q.space, n, q.base + q.rva>> \in syms.named

\* A symbol that a module exports now is found, even when other names of its
\* table are paged out and the binary search gives up.
SymbolFound ==
  LET q == syms.ask
  IN  q.for = "address" /\ (\E t \in Truths : t[1] = q.base /\ t[2] = q.space /\ t[3] = q.name)
        => syms.ans # {}

\* Names and addresses of symbols translate as the guest's modules export them.
SymbolsRight == SymbolRight /\ SymbolFound
============================================================================
