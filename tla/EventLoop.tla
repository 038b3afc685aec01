----------------------------- MODULE EventLoop -----------------------------
(***************************************************************************)
(* The event loop: vCPUs of the guest meet what is watched and raise       *)
(* requests; vmi_events_listen takes them, calls the handlers, lets the    *)
(* vCPUs go on and, when no request is left, carries out what the          *)
(* callbacks asked to swap and to clear (xen_events_listen in              *)
(* driver/xen/xen_events.c, kvm_events_listen in driver/kvm/kvm_events.c,  *)
(* kvm_pause_vm and kvm_resume_vm in driver/kvm/kvm.c).  The client calls  *)
(* the event interface between two listens and in callbacks.               *)
(*                                                                         *)
(* On Xen a vCPU goes on when its response is on the ring and the event    *)
(* channel is notified: once per listen, or after each response when the   *)
(* guest has seven vCPUs or more (each).  A pause of the domain is         *)
(* complete when the call returns.  On KVM a vCPU goes on at the reply,    *)
(* and a pause is only requested: each vCPU then raises a PAUSE event of   *)
(* its own, after whatever it was doing.                                   *)
(***************************************************************************)
EXTENDS VmiEvents, FiniteSets

CONSTANTS
    Scenarios,             \* what a run starts from, and what its client does
    Callbacks(_, _, _, _, _),  \* what a callback may do: scenario, data of the
                               \* client, vmi, event, vCPU
    Calls(_, _, _),            \* what a call between listens may do
    Own                        \* the client's data at the start

VARIABLES
    own,       \* the client's data; it listens until own.phase is "stopped"
    sc,        \* the scenario: mode, minor, vcpus, masks, each, and the calls into
               \* the hypervisor that may fail (faults)
    vmi,       \* the vmi_instance_t
    ring,      \* the requests that have not been taken, oldest first
    req,       \* the request being processed, or NoRequest
    todo,      \* the handlers of req that have not been called
    rsp,       \* what the last of its callbacks returned, NULL before a reply
    held,      \* Xen: slots of the ring taken and not yet pushed back
    answered,  \* Xen: vCPUs with a response on the ring, not yet notified
    waiting,   \* the vCPUs that wait for an answer
    paused,    \* Xen: how often the domain is paused
    asked,     \* how often its client has paused it
    pausing,   \* KVM: vCPUs that still have to raise their PAUSE event
    saved,     \* KVM: pause_events_list
    expected,  \* KVM: expected_pause_count
    at,        \* where vmi_events_listen is
    processed, \* Xen: requests_processed is not zero
    resume,    \* Xen: xen_events_destroy has paused the domain itself
    lost       \* the requests that met no handler, or were dropped

vars == <<own, sc, vmi, ring, req, todo, rsp, held, answered, waiting, paused, asked, pausing, saved,
          expected, at, processed, resume, lost>>
guest == <<ring, waiting>>
listener == <<req, todo, rsp, held, answered, at, processed, resume>>
pauses == <<paused, asked, pausing, saved, expected>>

Xen == sc.mode = "xen"

(* A call into the hypervisor fails while an operation of the library runs; *)
(* Settled ends the operation.                                             *)
Failing(s) ==
    {s} \union {[s EXCEPT !.bad = {f}] : f \in sc.faults \ {"step_on"}}
        \union {[s EXCEPT !.stuck = {v}] : v \in IF "step_on" \in sc.faults THEN sc.vcpus ELSE {}}
Settled(s) == [s EXCEPT !.bad = {}, !.stuck = {}, !.rc = VMI_SUCCESS]


Queued == vmi.swap # <<>> \/ vmi.clear # <<>>

(* Where a listen returns to: xen_events_destroy and kvm_events_destroy    *)
(* listen a last time.                                                     *)
Leave == IF vmi.down THEN "release" ELSE "idle"

Request(reason, vcpu, name, gfn, access, slat) ==
    [reason |-> reason, vcpu |-> vcpu, name |-> name, gfn |-> gfn, access |-> access, slat |-> slat]

NoRequest == Request(NULL, 0, NULL, NULL, NULL, 0)

EventInit ==
    /\ sc \in Scenarios /\ own = Own
    /\ vmi = events_init(sc.mode, sc.minor, sc.vcpus, sc.masks)
    /\ ring = <<>> /\ req = NoRequest /\ todo = {} /\ rsp = NULL
    /\ held = {} /\ answered = {} /\ waiting = {}
    /\ paused = 0 /\ asked = 0 /\ pausing = {} /\ saved = {} /\ expected = 0
    /\ at = "idle" /\ processed = FALSE /\ resume = FALSE /\ lost = {}

(***************************************************************************)
(* The guest.                                                              *)
(***************************************************************************)
(* What vCPU v can run into.                                               *)
Watched(v) ==
    {Request("mem_access", v, NULL, x[1], x[2], x[3]) :
        x \in {y \in Gfns \X {"R", "W", "X"} \X Slats : y[2] \in vmi.access[y[3]][y[1]]}}
    \union {Request("write_ctrlreg", v, r, NULL, NULL, 0) : r \in CtrlRegs \intersect vmi.mon}
    \union {Request("mov_to_msr", v, m, NULL, NULL, 0) : m \in Msrs \intersect vmi.mon}
    \union {Request("software_breakpoint", v, i, NULL, NULL, 0) : i \in {"INT3"} \intersect vmi.mon}
    \union {Request("singlestep", v, NULL, NULL, NULL, 0) : x \in vmi.mtf \intersect {v}}
    \union {Request("single", v, n, NULL, NULL, 0) : n \in DOMAIN SingleSince \intersect vmi.mon}

GuestTrap(v) ==
    /\ v \notin waiting /\ paused = 0 /\ at # "gone"
    /\ \E r \in Watched(v) : ring' = Append(ring, r)
    /\ waiting' = waiting \union {v}
    /\ UNCHANGED <<own, sc, vmi, listener, pauses, lost>>

(* KVM: a vCPU that runs comes to the pause that was requested of it.      *)
GuestPause(v) ==
    /\ v \in pausing \ waiting
    /\ ring' = Append(ring, Request("pause", v, NULL, NULL, NULL, 0))
    /\ waiting' = waiting \union {v}
    /\ pausing' = pausing \ {v}
    /\ UNCHANGED <<own, sc, vmi, listener, paused, asked, saved, expected, lost>>

(***************************************************************************)
(* The handlers that a request is given to: what each process_ function    *)
(* of the drivers looks up.                                                *)
(***************************************************************************)
The(e) == {e} \ {NULL}
OnPage(s, r) ==
    IF r.gfn \in DOMAIN s.on_gfn
    THEN {e \in {s.on_gfn[r.gfn]} : r.access \in Ev[e].access}
    ELSE {}
OnAccess(s, r) == {s.generic[key] : key \in {k \in DOMAIN s.generic : r.access \in k}}

process_mem(s, r) == IF OnPage(s, r) # {} THEN OnPage(s, r) ELSE OnAccess(s, r)
process_register(s, r) == The(HashLookup(s.reg, r.name))
process_msr(s, r) ==
    LET all == HashLookup(s.reg, "MSR_ALL") IN
    The(IF all # NULL THEN all ELSE HashLookup(s.msr, r.name))
process_software_breakpoint(s, r) == The(HashLookup(s.interrupt, "INT3"))
process_singlestep(s, r) == The(HashLookup(s.ss, r.vcpu))
process_debug_exception(s) == The(HashLookup(s.single, "debug"))
process_cpuid(s) == The(HashLookup(s.single, "cpuid"))
process_vmexit(s) == The(HashLookup(s.single, "vmexit"))
process_privcall(s) == The(HashLookup(s.single, "privcall"))
process_guest_request(s) == The(HashLookup(s.single, "guest_request"))
process_unimplemented_emul(s) == The(HashLookup(s.single, "failed_emulation"))
process_desc_access(s) == The(HashLookup(s.single, "desc_access"))

process_request(s, r) ==
    CASE r.reason = "mem_access" -> process_mem(s, r)
      [] r.reason = "write_ctrlreg" -> process_register(s, r)
      [] r.reason = "mov_to_msr" -> process_msr(s, r)
      [] r.reason = "software_breakpoint" -> process_software_breakpoint(s, r)
      [] r.reason = "singlestep" -> process_singlestep(s, r)
      [] r.name = "debug" -> process_debug_exception(s)
      [] r.name = "cpuid" -> process_cpuid(s)
      [] r.name = "vmexit" -> process_vmexit(s)
      [] r.name = "privcall" -> process_privcall(s)
      [] r.name = "guest_request" -> process_guest_request(s)
      [] r.name = "failed_emulation" -> process_unimplemented_emul(s)
      [] r.name = "desc_access" -> process_desc_access(s)

(* KVM asks for the MSR first, Xen for MSR_ALL.                            *)
kvm_process_pagefault(s, r) == IF OnPage(s, r) # {} THEN OnPage(s, r) ELSE OnAccess(s, r)
kvm_process_register(s, r) == The(HashLookup(s.reg, r.name))
kvm_process_msr(s, r) ==
    LET one == HashLookup(s.msr, r.name) IN
    The(IF one # NULL THEN one ELSE HashLookup(s.reg, "MSR_ALL"))
kvm_process_interrupt(s) == The(HashLookup(s.interrupt, "INT3"))
kvm_process_singlestep(s, r) == The(HashLookup(s.ss, r.vcpu))
kvm_process_cpuid(s) == The(HashLookup(s.single, "cpuid"))
kvm_process_descriptor(s) == The(HashLookup(s.single, "desc_access"))

(* An event that comes while the instance goes down is not handled.        *)
process_single_event(s, r) ==
    CASE s.down -> {}
      [] r.reason = "mem_access" -> kvm_process_pagefault(s, r)
      [] r.reason = "write_ctrlreg" -> kvm_process_register(s, r)
      [] r.reason = "mov_to_msr" -> kvm_process_msr(s, r)
      [] r.reason = "software_breakpoint" -> kvm_process_interrupt(s)
      [] r.reason = "singlestep" -> kvm_process_singlestep(s, r)
      [] r.name = "cpuid" -> kvm_process_cpuid(s)
      [] r.name = "desc_access" -> kvm_process_descriptor(s)

Handlers(s, r) == IF Xen THEN process_request(s, r) ELSE process_single_event(s, r)

(***************************************************************************)
(* vmi_events_listen.                                                      *)
(***************************************************************************)
Listen ==
    /\ at = "idle" /\ own.phase # "stopped"
    /\ at' = "requests"
    /\ processed' = FALSE
    /\ UNCHANGED <<own, sc, vmi, guest, req, todo, rsp, held, answered, resume, pauses, lost>>

(* process_requests_N, process_pending_events: the next request is taken.  *)
(* On Xen one without a handler makes the listen return; its slot goes     *)
(* back, as it is, with the next response that is pushed.  On KVM it is    *)
(* freed, and the loop goes on.                                            *)
Take ==
    /\ at \in {"requests", "extra"}
    /\ req = NoRequest /\ ring # <<>> /\ Head(ring).reason # "pause"
    /\ ring' = Tail(ring)
    /\ LET r == Head(ring)
           found == Handlers(vmi, r) IN
       /\ req' = IF found = {} THEN NoRequest ELSE r
       /\ todo' = found
       /\ rsp' = NULL
       /\ held' = IF Xen THEN held \union {r.vcpu} ELSE held
       /\ lost' = IF found = {} THEN lost \union {r.vcpu} ELSE lost
       /\ at' = IF Xen /\ found = {} THEN Leave ELSE at
    /\ UNCHANGED <<own, sc, vmi, answered, waiting, pauses, processed, resume>>

TakePause ==
    /\ at \in {"requests", "extra"}
    /\ req = NoRequest /\ ring # <<>> /\ Head(ring).reason = "pause"
    /\ ring' = Tail(ring)
    /\ saved' = saved \union {Head(ring).vcpu}
    /\ UNCHANGED <<own, sc, vmi, req, todo, rsp, held, answered, waiting, paused, asked, pausing, expected,
                   at, processed, resume, lost>>

(* A handler is called, with the fields of its event filled in.            *)
Filled(s, e, r) ==
    [s EXCEPT !.callback = TRUE,
              !.slat[e] = IF s.mode = "xen" THEN r.slat ELSE @,
              !.filled = IF Ev[e].type = "memory" /\ Ev[e].generic THEN @ \union {e} ELSE @]

(* KVM: what the callback returned is carried out, and the vCPU is sent on *)
(* its way; the replies of further callbacks find nobody waiting for them. *)
process_cb_response(s, vcpu, response) ==
    IF response # "TOGGLE_SINGLESTEP" THEN Succeed(s)
    ELSE IF vcpu \in s.sstep THEN kvm_stop_single_step(s, vcpu)
    ELSE kvm_start_single_step_vcpu(s, vcpu)

Callback ==
    /\ req # NoRequest
    /\ \E e \in todo : \E s \in Failing(Filled(vmi, e, req)) :
       \E out \in Callbacks(sc, own, s, e, req.vcpu) :
       LET t == [out.s EXCEPT !.callback = FALSE]
           u == IF Xen THEN Succeed(t) ELSE process_cb_response(t, req.vcpu, out.response)
           more == Xen \/ (Succeeded(u) /\ todo # {e}) IN
       /\ vmi' = Settled(u)
       /\ rsp' = out.response
       /\ own' = out.own
       /\ todo' = IF more THEN todo \ {e} ELSE {}
       /\ req' = IF more THEN req ELSE NoRequest
       /\ waiting' = IF ~Xen /\ rsp = NULL /\ Succeeded(u) THEN waiting \ {req.vcpu} ELSE waiting
       /\ lost' = IF rsp = NULL /\ ~Succeeded(u) THEN lost \union {req.vcpu} ELSE lost
    /\ UNCHANGED <<sc, ring, held, answered, pauses, at, processed, resume>>

(* Xen: the response of the last callback goes on the ring, with the slots *)
(* taken before it.                                                        *)
process_response(s, vcpu, response) ==
    IF response # "TOGGLE_SINGLESTEP" THEN s
    ELSE [s EXCEPT !.mtf = Include(@, vcpu, vcpu \notin @)]

(* Mutants: every response is notified at once; the count of processed     *)
(* requests is not raised.                                                 *)
Respond_Each ==
    /\ Xen /\ req # NoRequest /\ todo = {}
    /\ vmi' = process_response(vmi, req.vcpu, rsp)
    /\ req' = NoRequest /\ processed' = TRUE
    /\ held' = {} /\ answered' = {} /\ waiting' = waiting \ (answered \union held)
    /\ UNCHANGED <<own, sc, ring, todo, rsp, pauses, at, resume, lost>>
Respond_Uncounted ==
    /\ Xen /\ req # NoRequest /\ todo = {}
    /\ vmi' = process_response(vmi, req.vcpu, rsp)
    /\ req' = NoRequest /\ held' = {} /\ answered' = answered \union held
    /\ UNCHANGED <<own, sc, ring, waiting, todo, rsp, pauses, at, processed, resume, lost>>

Respond ==
    /\ Xen /\ req # NoRequest /\ todo = {}
    /\ vmi' = process_response(vmi, req.vcpu, rsp)
    /\ req' = NoRequest
    /\ processed' = TRUE
    /\ held' = {}
    /\ IF sc.each
       THEN answered' = {} /\ waiting' = waiting \ (answered \union held)
       ELSE answered' = answered \union held /\ UNCHANGED waiting
    /\ UNCHANGED <<own, sc, ring, todo, rsp, pauses, at, resume, lost>>

(* The trap cannot be injected again, or the callback did not say whether  *)
(* to: the listen returns as it does for a request without a handler.      *)
Reinjected(r) == r.reason = "software_breakpoint" \/ (r.reason = "single" /\ r.name = "debug")
Refuse ==
    /\ Xen /\ todo = {} /\ Reinjected(req) /\ "inject" \in sc.faults
    /\ req' = NoRequest
    /\ at' = Leave
    /\ UNCHANGED <<own, sc, vmi, guest, todo, rsp, held, answered, pauses, processed, resume, lost>>

(* vmi_pause_vm and vmi_resume_vm.  KVM has one pause at a time; its resume *)
(* is a loop of its own (Resume).                                          *)
PauseVm ==
    /\ paused' = IF Xen THEN paused + 1 ELSE paused
    /\ pausing' = IF ~Xen /\ expected = 0 THEN sc.vcpus ELSE pausing
    /\ expected' = IF ~Xen /\ expected = 0 THEN Cardinality(sc.vcpus) ELSE expected
    /\ UNCHANGED saved

Unpaused == IF paused > 0 THEN paused - 1 ELSE 0

(* Mutant: the guest is not paused.                                        *)
Drained_Running ==
    /\ at = "requests" /\ req = NoRequest /\ ring = <<>>
    /\ at' = IF Queued THEN "extra" ELSE IF Xen THEN "notify" ELSE Leave
    /\ UNCHANGED <<own, sc, vmi, guest, req, todo, rsp, held, answered, processed, resume, pauses, lost>>

(* The ring is empty.  What callbacks asked for is done once the guest is  *)
(* paused and the ring is empty again; nobody looks at the result of the   *)
(* pause.                                                                  *)
Drained ==
    /\ at = "requests" /\ req = NoRequest /\ ring = <<>>
    /\ IF Queued
       THEN /\ at' = "extra"
            /\ UNCHANGED asked
            /\ PauseVm \/ ("pause" \in sc.faults /\ UNCHANGED pauses)
       ELSE /\ at' = IF Xen THEN "notify" ELSE Leave
            /\ UNCHANGED pauses
    /\ UNCHANGED <<own, sc, vmi, guest, req, todo, rsp, held, answered, processed, resume, lost>>

DrainedAgain ==
    /\ at = "extra" /\ req = NoRequest /\ ring = <<>>
    /\ at' = "update"
    /\ UNCHANGED <<own, sc, vmi, guest, req, todo, rsp, held, answered, processed, resume, pauses, lost>>

(* Mutant: the guest stays paused.                                         *)
Update_Paused ==
    /\ at = "update"
    /\ \E order \in ClearOrders(vmi) : vmi' = Settled(Cleared(Swapped(vmi), order))
    /\ at' = IF Xen THEN "notify" ELSE "resume"
    /\ UNCHANGED <<own, sc, guest, req, todo, rsp, held, answered, pauses, processed, resume, lost>>

Update ==
    /\ at = "update"
    /\ \E s \in Failing(vmi) : \E order \in ClearOrders(vmi) : vmi' = Settled(Cleared(Swapped(s), order))
    /\ at' = IF Xen THEN "notify" ELSE "resume"
    /\ paused' = Unpaused
    /\ UNCHANGED <<own, sc, guest, req, todo, rsp, held, answered, asked, pausing, saved, expected,
                   processed, resume, lost>>

(* Unmasking the port or notifying it can fail: the responses then stay    *)
(* on the ring until another listen has something to answer.               *)
Notify ==
    /\ at = "notify"
    /\ at' = Leave
    /\ \/ /\ waiting' = IF processed THEN waiting \ answered ELSE waiting
          /\ answered' = IF processed THEN {} ELSE answered
       \/ "notify" \in sc.faults /\ UNCHANGED <<waiting, answered>>
    /\ UNCHANGED <<own, sc, vmi, ring, req, todo, rsp, held, pauses, processed, resume, lost>>

(* kvm_resume_vm: one PAUSE event after the other is answered.  Any other  *)
(* event that comes first is dropped, and the rest stays paused.           *)
Resumed == IF at = "final" THEN "gone" ELSE Leave
Resume ==
    /\ at \in {"resume", "final"}
    /\ \/ /\ expected = 0
          /\ at' = Resumed
          /\ UNCHANGED <<ring, saved, expected, waiting, lost>>
       \/ /\ expected > 0 /\ saved # {}
          /\ LET v == CHOOSE x \in saved : \A y \in saved : x <= y IN
             saved' = saved \ {v} /\ waiting' = waiting \ {v}
          /\ expected' = expected - 1
          /\ UNCHANGED <<ring, lost, at>>
       \/ /\ expected > 0 /\ saved = {} /\ ring # <<>>
          /\ ring' = Tail(ring)
          /\ IF Head(ring).reason = "pause"
             THEN /\ waiting' = waiting \ {Head(ring).vcpu}
                  /\ expected' = expected - 1
                  /\ UNCHANGED <<lost, at>>
             ELSE /\ lost' = lost \union {Head(ring).vcpu}
                  /\ at' = Resumed
                  /\ UNCHANGED <<waiting, expected>>
          /\ UNCHANGED saved
       \/ /\ expected > 0 /\ saved = {} /\ ring = <<>>
          /\ pausing \subseteq waiting
          /\ at' = Resumed
          /\ UNCHANGED <<ring, saved, expected, waiting, lost>>
    /\ UNCHANGED <<own, sc, vmi, req, todo, rsp, held, answered, paused, asked, pausing, processed, resume>>

(***************************************************************************)
(* The client, between two listens.                                        *)
(***************************************************************************)
ClientCall ==
    /\ at = "idle"
    /\ \E s \in Failing(vmi) : \E out \in Calls(sc, own, s) :
          vmi' = Settled(out.s) /\ own' = out.own
    /\ UNCHANGED <<sc, guest, listener, pauses, lost>>

ClientPause ==
    /\ at = "idle" /\ paused = 0 /\ expected = 0
    /\ PauseVm /\ asked' = 1
    /\ UNCHANGED <<own, sc, vmi, guest, listener, lost>>

ClientResume ==
    /\ at = "idle" /\ paused + expected > 0
    /\ paused' = Unpaused /\ asked' = 0
    /\ at' = IF Xen THEN at ELSE "resume"
    /\ UNCHANGED <<own, sc, vmi, guest, req, todo, rsp, held, answered, pausing, saved, expected,
                   processed, resume, lost>>

(* Mutant: only the control registers are reset.                           *)
XenOff_Registers(s) ==
    [s EXCEPT !.access[0] = [g \in Gfns |-> {}], !.mtf = {}, !.mon = @ \ (CtrlRegs \union {"SS"})]

(* xen_events_destroy: what it switches off.  The other views, MSR_ANY,    *)
(* vmexit and descriptor events are not among it.                          *)
XenOff(s) ==
    LET regs == (CtrlRegs \union {"MSR_ALL"}) \intersect s.on
        singles == {"cpuid", "debug", "guest_request", "failed_emulation"} \intersect DOMAIN s.single
        off == regs \union singles \union {"INT3"}
                    \union (IF "MSR_ALL" \in s.on THEN Msrs ELSE {})
        t == [s EXCEPT !.access[0] = IF s.on_gfn = <<>> /\ s.generic = <<>> THEN @
                                     ELSE [g \in Gfns |-> {}],
                       !.on = @ \ regs, !.mon = @ \ off] IN
    IF "SS" \in s.on THEN xen_shutdown_single_step(t) ELSE t

(* kvm_events_destroy: CPUID interception and the page accesses stay, but  *)
(* page faults are no longer reported.                                     *)
KvmOff(s) ==
    LET on == {"CR0", "CR3", "CR4", "MSR_ALL", "INT3", "desc_access"} \intersect s.on
        t == [s EXCEPT !.on = @ \ on, !.mon = @ \ (on \union Msrs \union CtrlRegs),
                       !.access = [w \in Slats |-> [g \in Gfns |-> {}]]] IN
    kvm_shutdown_single_step(t)

Destroy ==
    /\ at = "idle"
    /\ vmi' = IF Xen THEN [vmi EXCEPT !.down = TRUE]
              ELSE KvmOff([vmi EXCEPT !.down = TRUE])
    /\ IF Xen /\ paused > 0 THEN UNCHANGED pauses ELSE PauseVm /\ UNCHANGED asked
    /\ resume' = (Xen /\ paused = 0)
    /\ at' = IF ring = <<>> THEN "release" ELSE "requests"
    /\ processed' = FALSE
    /\ UNCHANGED <<own, sc, guest, req, todo, rsp, held, answered, lost>>

(* Disabling the monitor ring lets every vCPU that waits go on.            *)
Release ==
    /\ at = "release"
    /\ IF Xen
       THEN /\ vmi' = XenOff(vmi)
            /\ ring' = <<>> /\ held' = {} /\ answered' = {} /\ waiting' = {}
            /\ paused' = IF resume THEN Unpaused ELSE paused
            /\ at' = "gone"
       ELSE /\ at' = "final"
            /\ UNCHANGED <<vmi, ring, held, answered, waiting, paused>>
    /\ UNCHANGED <<own, sc, req, todo, rsp, asked, pausing, saved, expected, processed, resume, lost>>

Listener == Listen \/ Take \/ TakePause \/ Callback \/ Respond \/ Refuse \/ Drained \/ DrainedAgain \/ Update \/ Notify \/ Resume
Guest == \E v \in sc.vcpus : GuestTrap(v) \/ GuestPause(v)
Client == ClientCall \/ ClientPause \/ ClientResume \/ Destroy \/ Release

EventNext == Listener \/ Guest \/ Client
=============================================================================
