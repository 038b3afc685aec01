---------------------------- MODULE EventClient ----------------------------
(***************************************************************************)
(* The event loop of LibVMI under a client that keeps to what events.h and *)
(* the examples describe:                                                  *)
(*  - events are registered at any time; they are cleared, swapped and     *)
(*    toggled in callbacks, or while the guest is paused and its ring has  *)
(*    been emptied (as the comment of vmi_toggle_single_step_vcpu asks);   *)
(*  - only what is registered and has not been given away already is       *)
(*    cleared or swapped, and one event of a page is stepped at a time;    *)
(*  - a generic handler stays while pages are watched for it by hand.      *)
(* Field does of a scenario names what its client uses, field events the   *)
(* events it has.  A client that does "trace" is the MEM_EVENT tracer.     *)
(***************************************************************************)
EXTENDS EventLoop, MemTracer

Registered(s, e) ==
    LET field == Ev[e] IN
    CASE field.type = "memory" -> vmi_get_mem_event(s, field.gfn, field.access) = e
      [] field.type = "register" -> e \in {vmi_get_reg_event(s, field.reg), HashLookup(s.msr, field.msr)}
      [] field.type = "singlestep" -> \E v \in s.vcpus : vmi_get_singlestep_event(s, v) = e
      [] field.type = "interrupt" -> HashLookup(s.interrupt, field.intr) = e
      [] OTHER -> HashLookup(s.single, field.type) = e
Given(s) == {s.swap[i].from : i \in DOMAIN s.swap} \union DOMAIN s.clear
Stepped(s) == {s.steps[i].event : i \in DOMAIN s.steps}
Page(e) == IF Ev[e].type = "memory" THEN Ev[e].gfn ELSE e

Needed(s, e) ==
    Ev[e].type = "memory" /\ Ev[e].generic /\ \E w \in Slats, g \in Gfns : s.access[w][g] # {}
Clearable(c, s) == {e \in c.events : Registered(s, e) /\ e \notin Given(s) /\ ~Needed(s, e)}
Swaps(c, s) ==
    {p \in Clearable(c, s) \X c.events :
        /\ Ev[p[1]].type = "memory" /\ Ev[p[2]].type = "memory"
        /\ Page(p[1]) = Page(p[2]) /\ ~Registered(s, p[2])}
Toggled(c, s) ==
    {e \in c.events : Ev[e].type = "singlestep" /\ (Registered(s, e) \/ s.mask[e] = {})}

Registering(c, s) ==
    {vmi_register_event(s, e) : e \in {x \in c.events : Page(x) \notin {Page(y) : y \in Stepped(s)}}}
Clearing(c, s) == {vmi_clear_event(s, e, FALSE) : e \in Clearable(c, s)}
Swapping(c, s) == {vmi_swap_events(s, p[1], p[2]) : p \in Swaps(c, s)}
Stepping(c, s, e, v) ==
    {LET t == vmi_clear_event(s, x, FALSE) IN Then(t, vmi_step_event(t, x, v, 1, FALSE)) :
        x \in {e} \ (Given(s) \union Stepped(s))}
Watching(c, s) ==
    {vmi_set_mem_event(s, g, a, 0) : g \in Gfns, a \in {{}} \union {Ev[e].access : e \in c.events}}
Toggling(c, s) ==
    {vmi_toggle_single_step_vcpu(s, e, v, v \notin DOMAIN s.ss) : e \in Toggled(c, s), v \in c.vcpus}
    \union {vmi_stop_single_step_vcpu(s, vmi_get_singlestep_event(s, v), v) : v \in DOMAIN s.ss}

Answers(o, set, response) == {[s |-> s, own |-> o, response |-> response] : s \in set}
If(condition, set) == IF condition THEN set ELSE {}

ClientCallbacks(c, o, s, e, v) ==
    IF "trace" \in c.does THEN TracerCallbacks(o, s, e, v)
    ELSE IF e = StepEvent[v] THEN Answers(o, {step_and_reg_events(s, v)}, "NONE")
    ELSE Answers(o, {s}, IF "flip" \in c.does /\ v \in DOMAIN s.ss THEN "TOGGLE_SINGLESTEP" ELSE "NONE")
         \union Answers(o, UNION {If("clear" \in c.does, Clearing(c, s)),
                                  If("swap" \in c.does, Swapping(c, s)),
                                  If("watch" \in c.does, Watching(c, s)),
                                  If("step" \in c.does, Stepping(c, s, e, v))}, "NONE")

Quiet == ring = <<>> /\ (IF Xen THEN paused > 0 ELSE saved = sc.vcpus)
ClientCalls(c, o, s) ==
    IF "trace" \in c.does THEN TracerCalls(o, s)
    ELSE Answers(o, UNION {Registering(c, s),
                           If(Quiet, Clearing(c, s)),
                           If(Quiet /\ "swap" \in c.does, Swapping(c, s)),
                           If(Quiet /\ "watch" \in c.does, Watching(c, s)),
                           If(Quiet /\ "toggle" \in c.does, Toggling(c, s))}, "NONE")

(* The client calls vmi_events_listen in a loop, each call makes progress, *)
(* and a destroy that was begun is finished.                               *)
Fairness == WF_vars(Listener) /\ WF_vars(Release)
Spec == EventInit /\ [][EventNext]_vars /\ Fairness

Reliable == sc.faults = {}

(***************************************************************************)
(* Properties.                                                             *)
(***************************************************************************)
TypeOK ==
    /\ vmi.rc = VMI_SUCCESS /\ vmi.bad = {} /\ vmi.stuck = {} /\ vmi.callback = FALSE
    /\ vmi.mtf \subseteq sc.vcpus
    /\ DOMAIN vmi.clear \subseteq DOMAIN Ev
    /\ todo \subseteq DOMAIN Ev
    /\ held \union answered \union waiting \union pausing \union saved \union lost \subseteq sc.vcpus
    /\ paused \in 0..2 /\ expected \in 0..Cardinality(sc.vcpus)
    /\ at \in {"idle", "requests", "extra", "update", "notify", "resume", "final", "release", "gone"}
    /\ processed \in BOOLEAN /\ resume \in BOOLEAN

(* No request is lost on Xen: when a callback clears, swaps or steps an    *)
(* event while other vCPUs have already trapped on it, each of these       *)
(* requests still meets a handler, because xen_events_listen pauses the    *)
(* guest and empties the ring before it carries the clears and swaps out.  *)
(* This is the question of the TODO in process_mem; it also holds when a   *)
(* call into the hypervisor fails, unless it is the pause.                 *)
NoneLost == Xen /\ ~vmi.down /\ "pause" \notin sc.faults => lost = {}

(* Whatever the hypervisor still watches when vmi_events_listen has        *)
(* returned has a handler: registering, clearing, swapping, toggling and   *)
(* stepping never leave a watch behind whose request nobody would answer,  *)
(* even when one of the calls they make fails.                             *)
WatchedHandled ==
    at = "idle" => \A v \in sc.vcpus : \A r \in Watched(v) : Handlers(vmi, r) # {}

(* The converse, when no call fails: what has a handler is watched, in the *)
(* view and for the accesses that its event asks for.                      *)
HandledWatched ==
    at = "idle" /\ Reliable =>
       /\ \A g \in DOMAIN vmi.on_gfn : vmi.access[Ev[vmi.on_gfn[g]].slat][g] = Ev[vmi.on_gfn[g]].access
       /\ \A r \in DOMAIN vmi.reg : IF r = "MSR_ALL" THEN Msrs \subseteq vmi.mon ELSE r \in vmi.mon
       /\ \A v \in DOMAIN vmi.ss : Ev[vmi.ss[v]].enable => v \in vmi.mtf
       /\ DOMAIN vmi.msr \union DOMAIN vmi.interrupt \union DOMAIN vmi.single \subseteq vmi.mon

(* What the hypervisor watches and what LibVMI has a handler for agree.    *)
WatchesMatch == TypeOK /\ WatchedHandled /\ HandledWatched

(* step_vcpus of a vCPU is the number of wrappers that step on it, after   *)
(* every call and callback: step_and_reg_events drops no wrapper, and      *)
(* counts none twice.                                                      *)
StepsCounted ==
    Reliable => \A v \in sc.vcpus :
       vmi.step_vcpus[v] = Cardinality({i \in DOMAIN vmi.steps : vmi.steps[i].vcpu = v})

(* A vCPU is single-stepped for vmi_step_event only while an event waits   *)
(* for its steps: the single-step event goes with the last of them.        *)
SteppingNeeded ==
    at = "idle" /\ Reliable => \A v \in vmi.mtf :
       HashLookup(vmi.ss, v) = StepEvent[v] => vmi.step_vcpus[v] > 0

(* vmi_events_listen gives back, on Xen, the pause it takes to empty the   *)
(* ring: between two listens the guest is paused as often as its client    *)
(* has paused it.  When a trap cannot be injected again in the pass over   *)
(* the paused guest's ring, the listen returns at once and its pause stays. *)
PausesBalanced ==
    Xen /\ at = "idle" /\ "pause" \notin sc.faults =>
       paused >= asked /\ ("inject" \notin sc.faults => paused = asked)

(* After vmi_destroy the guest runs free of what LibVMI resets: nothing is *)
(* watched in the default view, no control register, breakpoint or handler *)
(* of its own is monitored, no vCPU is stepped or waits for an answer -    *)
(* although the listen inside xen_events_destroy still runs callbacks that *)
(* register events again.                                                  *)
ReleasedAtDestroy ==
    at = "gone" =>
       /\ \A g \in Gfns : vmi.access[0][g] = {}
       /\ vmi.mon \intersect (CtrlRegs \union {"INT3", "SS", "debug", "guest_request"}) = {}
       /\ vmi.mtf = {}
       /\ Xen => waiting = {}

(* The MEM_EVENT tracer on Xen with one vCPU records an execution of the   *)
(* system call entry once: the vCPU does not meet the watch again before   *)
(* it has made its step.                                                   *)
TracedOnce == ~own.twice

(* An event given to vmi_step_event is registered again, and not about to  *)
(* be cleared, when its wrapper goes (events.h: "If no callback is         *)
(* provided, the event will be re-registered automatically").              *)
ComesBack ==
    Reliable => \A e \in Stepped(vmi) \ Stepped(vmi') :
                   Registered(vmi', e) /\ e \notin DOMAIN vmi'.clear
SteppedComesBack == [][ComesBack]_vars

(* vmi_step_event counts its steps, stops stepping when they are made and  *)
(* brings the event back.                                                  *)
StepsKept == [](StepsCounted /\ SteppingNeeded) /\ SteppedComesBack

(* A vCPU that trapped goes on in the end: every request on the ring is    *)
(* taken, answered and notified, on Xen, however the callbacks, clears and *)
(* swaps of the other vCPUs interleave with it.                            *)
VcpusResume ==
    \A v \in UNION {s.vcpus : s \in Scenarios} :
       (Xen /\ Reliable /\ v \in waiting) ~> (v \notin waiting \/ own.phase = "stopped")

(* What a callback asked to swap or clear is done in the end, on Xen with  *)
(* one notification per listen: the vCPUs that have been answered do not   *)
(* run before it is.                                                       *)
QueuedDone == (Xen /\ ~sc.each /\ Reliable /\ Queued) ~> ~Queued

(* The listen loop makes progress: no vCPU waits for ever, and no clear or *)
(* swap.                                                                   *)
Progress == VcpusResume /\ QueuedDone
=============================================================================
