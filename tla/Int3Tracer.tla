----------------------------- MODULE Int3Tracer -----------------------------
(***************************************************************************)
(* The default build of the system call tracer: an INT3 written over the   *)
(* first byte of the kernel's system call entry (the address in            *)
(* MSR_LSTAR), removed for the length of one single step each time a vCPU  *)
(* runs into it.  Three parties share the state:                           *)
(*                                                                         *)
(*   guest    the vCPUs of the traced VM, entering and leaving the kernel; *)
(*   Xen      the vm_event ring (requests, responses, the pause of the     *)
(*            requesting vCPU), the per-vCPU single-step flag, the domain  *)
(*            pause count: external, modelled from how LibVMI uses them;   *)
(*   tracer   src/syscall-trace.c with the LibVMI calls it makes.          *)
(*                                                                         *)
(* What a system call is, and where its record goes, is left to other      *)
(* modules: here process_syscall only counts the records of the call in    *)
(* progress on each vCPU.                                                  *)
(***************************************************************************)
EXTENDS Integers, Sequences, FiniteSets

CONSTANTS
  Vcpus,            \* the vCPUs of the guest
  OrigOpcode,       \* the byte at LSTAR before the tracer starts
  NotifyThreshold,  \* from this many vCPUs on, Xen is notified per response
  TimeLimit,        \* was -t given a positive number of minutes?
  Fallible          \* the calls that may fail in this instance

BREAKPOINT == 204   \* 0xcc

\* set_lstar_breakpoint makes these calls in this order.
SetupCalls == <<"lstar", "pause", "read", "write", "reg_int", "reg_step", "resume">>

Calls == {SetupCalls[i] : i \in 1..7} \cup {"init", "poll", "inject", "send"}

ASSUME VcpusAssumption == IsFiniteSet(Vcpus) /\ Vcpus # {}
ASSUME OpcodeAssumption == OrigOpcode \in 0..255 \ {BREAKPOINT}
ASSUME ConfigAssumption ==
  /\ NotifyThreshold \in Nat
  /\ TimeLimit \in BOOLEAN
  /\ Fallible \subseteq Calls

MaxHits == 2        \* records per call are counted up to here

VARIABLES
  \* the guest
  code,         \* the byte at LSTAR
  loc,          \* where each vCPU is: user, entry (rip = LSTAR), kernel, oops
  hits,         \* process_syscall runs for the call in progress on each vCPU
  \* Xen
  blocked,      \* the vCPUs paused until their request is answered
  mtf,          \* the vCPUs whose single-step flag is on
  pauses,       \* the domain's pause count
  ring,         \* unconsumed requests
  rsp,          \* responses pushed on the ring, not yet seen by Xen
  \* the tracer and LibVMI
  pc,
  saved_opcode,
  int3,         \* int_event is registered and INT3 monitoring is on
  sstep,        \* sstep_event is registered and single-step monitoring is on
  interrupted

guest  == <<code, loc, hits>>
xen    == <<blocked, mtf, pauses, ring, rsp>>
tracer == <<pc, saved_opcode, int3, sstep, interrupted>>
vars   == <<guest, xen, tracer>>

Locs    == {"user", "entry", "kernel", "oops"}
Reasons == {"INT3", "OTHER_INT3", "SINGLESTEP"}
Request == [vcpu : Vcpus, reason : Reasons]
Answers == {"none", "resume", "toggle"}
PCs     == {"init", "setup", "listen", "process", "teardown", "pending", "drain",
            "clear_int", "clear_step", "resume", "destroy", "exited", "killed"}

TypeOK ==
  /\ code \in {OrigOpcode, BREAKPOINT}
  /\ loc \in [Vcpus -> Locs]
  /\ hits \in [Vcpus -> 0..MaxHits]
  /\ blocked \subseteq Vcpus
  /\ mtf \subseteq Vcpus
  /\ pauses \in 0..2
  /\ ring \in Seq(Request)
  /\ rsp \in [Vcpus -> Answers]
  /\ pc \in PCs
  /\ saved_opcode \in {0, OrigOpcode}
  /\ int3 \in BOOLEAN
  /\ sstep \in BOOLEAN
  /\ interrupted \in BOOLEAN

\* The tracer is started on a running guest, whose vCPUs may be anywhere.
Init ==
  /\ code = OrigOpcode
  /\ loc \in [Vcpus -> {"user", "entry", "kernel"}]
  /\ hits = [v \in Vcpus |-> 0]
  /\ blocked = {}
  /\ mtf = {}
  /\ pauses = 0
  /\ ring = <<>>
  /\ rsp = [v \in Vcpus |-> "none"]
  /\ pc = "init"
  /\ saved_opcode = 0
  /\ int3 = FALSE
  /\ sstep = FALSE
  /\ interrupted = FALSE

\* The outcomes of a call: it can fail only where the instance says so.
Ok(call) == IF call \in Fallible THEN BOOLEAN ELSE {TRUE}

-----------------------------------------------------------------------------
(* The guest and Xen (external). *)

Runnable(v) == pauses = 0 /\ v \notin blocked /\ loc[v] # "oops"

\* Xen puts a request on the ring and pauses the vCPU until it is answered.
Report(v, reason) ==
  /\ ring' = Append(ring, [vcpu |-> v, reason |-> reason])
  /\ blocked' = blocked \cup {v}

\* One instruction retires; with the single-step flag on, that is reported.
Retire(v, next) ==
  /\ loc' = [loc EXCEPT ![v] = next]
  /\ IF v \in mtf THEN Report(v, "SINGLESTEP") ELSE UNCHANGED <<ring, blocked>>

\* A process executes SYSCALL: the vCPU is now at LSTAR.
EnterSyscall(v) ==
  /\ Runnable(v) /\ loc[v] = "user"
  /\ Retire(v, "entry")
  /\ hits' = [hits EXCEPT ![v] = 0]
  /\ UNCHANGED <<code, mtf, pauses, rsp, tracer>>

\* The first instruction at LSTAR: the kernel's own, or the breakpoint.  A
\* breakpoint nobody monitors is an exception the guest kernel cannot explain.
ExecuteEntry(v) ==
  /\ Runnable(v) /\ loc[v] = "entry"
  /\ IF code # BREAKPOINT THEN Retire(v, "kernel")
     ELSE IF int3 THEN Report(v, "INT3") /\ UNCHANGED loc
     ELSE loc' = [loc EXCEPT ![v] = "oops"] /\ UNCHANGED <<ring, blocked>>
  /\ UNCHANGED <<code, hits, mtf, pauses, rsp, tracer>>

LeaveSyscall(v) ==
  /\ Runnable(v) /\ loc[v] = "kernel"
  /\ Retire(v, "user")
  /\ UNCHANGED <<code, hits, mtf, pauses, rsp, tracer>>

\* A process of the guest runs into a breakpoint of its own debugger.
GuestBreakpoint(v) ==
  /\ Runnable(v) /\ loc[v] = "user" /\ int3
  /\ Report(v, "OTHER_INT3")
  /\ UNCHANGED <<guest, mtf, pauses, rsp, tracer>>

\* Xen consumes responses r: flip the single-step flags asked for, and let
\* the answered vCPUs run.
Consume(r) ==
  /\ mtf' = {v \in Vcpus : (v \in mtf) # (r[v] = "toggle")}
  /\ blocked' = {v \in blocked : r[v] = "none"}
  /\ rsp' = [v \in Vcpus |-> "none"]

-----------------------------------------------------------------------------
(* Start-up. *)

\* introspect_syscall_trace up to set_lstar_breakpoint: a failure to attach
\* ends the program before it has touched the guest.
InitLibvmi ==
  /\ pc = "init"
  /\ \E ok \in Ok("init") : pc' = IF ok THEN "setup" ELSE "exited"
  /\ UNCHANGED <<guest, xen, saved_opcode, int3, sstep, interrupted>>

\* Mutant: the guest is resumed before the handlers are registered.
SetLstarBreakpoint_ResumesEarly ==
  /\ pc = "setup"
  /\ \E f \in {i \in 1..7 : SetupCalls[i] \in Fallible} \cup {8} :
       /\ pauses' = IF f \in 3..4 THEN pauses + 1 ELSE pauses
       /\ saved_opcode' = IF f > 3 THEN code ELSE saved_opcode
       /\ code' = IF f > 4 THEN BREAKPOINT ELSE code
       /\ int3' = (f > 5)
       /\ sstep' = (f > 6)
       /\ pc' = IF f = 8 THEN "listen" ELSE "teardown"
  /\ UNCHANGED <<loc, hits, blocked, mtf, ring, rsp, interrupted>>

\* set_lstar_breakpoint, stopped by a failure of its f-th call (8: of none).
\* The guest is paused from the second call to the last, so it sees the whole
\* as one step.  Every early return goes to the teardown; the success path
\* has no return statement, and the build leaves vmi_resume_vm's 0 there.
SetLstarBreakpoint ==
  /\ pc = "setup"
  /\ \E f \in {i \in 1..7 : SetupCalls[i] \in Fallible} \cup {8} :
       /\ pauses' = IF f \in 3..7 THEN pauses + 1 ELSE pauses
       /\ saved_opcode' = IF f > 3 THEN code ELSE saved_opcode
       /\ code' = IF f > 4 THEN BREAKPOINT ELSE code
       /\ int3' = (f > 5)
       /\ sstep' = (f > 6)
       /\ pc' = IF f = 8 THEN "listen" ELSE "teardown"
  /\ UNCHANGED <<loc, hits, blocked, mtf, ring, rsp, interrupted>>

\* close_handler, for SIGHUP, SIGTERM, SIGINT and SIGALRM.
Signal ==
  /\ pc \notin {"exited", "killed"} /\ ~interrupted
  /\ interrupted' = TRUE
  /\ UNCHANGED <<guest, xen, pc, saved_opcode, int3, sstep>>

-----------------------------------------------------------------------------
(* The event loop. *)

\* Mutant: the loop condition forgets the signal.
Listen_IgnoresSignal ==
  /\ pc = "listen"
  /\ \E ok \in Ok("poll") :
       /\ pc' = IF ok THEN "process" ELSE "listen"
       /\ interrupted' = (interrupted \/ ~ok)
  /\ UNCHANGED <<guest, xen, saved_opcode, int3, sstep>>

\* while (!interrupted) vmi_events_listen(vmi, 500): poll returns on an event,
\* on the timeout and on a signal alike, and the ring is processed after all
\* three; only a poll error ends the call.
Listen ==
  /\ pc = "listen"
  /\ \/ /\ interrupted
        /\ pc' = "teardown" /\ UNCHANGED interrupted
     \/ /\ ~interrupted
        /\ \E ok \in Ok("poll") :
             /\ pc' = IF ok THEN "process" ELSE "listen"
             /\ interrupted' = ~ok
  /\ UNCHANGED <<guest, xen, saved_opcode, int3, sstep>>

\* The request at the head of the ring, being handled by process_requests.
Handling(reason) ==
  /\ pc \in {"process", "drain"}
  /\ ring # <<>>
  /\ Head(ring).reason = reason
  /\ ring' = Tail(ring)

\* The response is pushed on the ring.  With few vCPUs Xen hears of it at the
\* end of the listen call, with many at once.
Push(answer) ==
  LET pushed == [rsp EXCEPT ![Head(ring).vcpu] = answer]
  IN  IF Cardinality(Vcpus) >= NotifyThreshold
      THEN Consume(pushed)
      ELSE rsp' = pushed /\ UNCHANGED <<mtf, blocked>>

\* process_request failed: no response for this vCPU, and vmi_events_listen
\* returns at once, without notifying Xen.  The main loop then stops; the
\* teardown does not look at the status.
Fail ==
  /\ IF pc = "process" THEN pc' = "listen" /\ interrupted' = TRUE
     ELSE pc' = "clear_int" /\ UNCHANGED interrupted
  /\ UNCHANGED <<code, hits, mtf, blocked, rsp>>

process_syscall(v) ==
  hits' = [hits EXCEPT ![v] = IF @ < MaxHits THEN @ + 1 ELSE @]

\* append_syscall writes to a connection the server has closed: SIGPIPE, which
\* the program does not handle, ends it on the spot.
Killed ==
  /\ pc' = "killed"
  /\ UNCHANGED <<code, hits, mtf, blocked, rsp, interrupted>>

\* INT3 at LSTAR: record the call, put the original opcode back, single-step.
breakpoint_cb ==
  /\ Handling("INT3")
  /\ IF ~int3 THEN Fail ELSE
       \E sent \in Ok("send") :
         IF ~sent THEN Killed ELSE
           /\ process_syscall(Head(ring).vcpu)
           /\ \E ok \in Ok("write") :
                /\ code' = IF ok THEN saved_opcode ELSE code
                /\ interrupted' = (interrupted \/ ~ok)
                /\ Push(IF ok THEN "toggle" ELSE "resume")
           /\ UNCHANGED pc
  /\ UNCHANGED <<loc, pauses, saved_opcode, int3, sstep>>

\* Mutant: a foreign INT3 is taken off the ring and never answered.
breakpoint_cb_reinject_Drops ==
  /\ Handling("OTHER_INT3")
  /\ UNCHANGED <<guest, mtf, blocked, rsp, pauses, tracer>>

\* INT3 anywhere else: "Not our breakpoint", reinjected into the guest.
breakpoint_cb_reinject ==
  /\ Handling("OTHER_INT3")
  /\ \E ok \in Ok("inject") :
       IF int3 /\ ok THEN Push("resume") /\ UNCHANGED <<code, hits, pc, interrupted>>
       ELSE Fail
  /\ UNCHANGED <<loc, pauses, saved_opcode, int3, sstep>>

\* Mutant: single-stepping ends without the breakpoint.
single_step_cb_NoRearm ==
  /\ Handling("SINGLESTEP")
  /\ Push("toggle")
  /\ UNCHANGED <<guest, pauses, tracer>>

\* The stepped instruction is done: write the breakpoint again.
single_step_cb ==
  /\ Handling("SINGLESTEP")
  /\ IF ~sstep THEN Fail ELSE
       /\ \E ok \in Ok("write") :
            /\ code' = IF ok THEN BREAKPOINT ELSE code
            /\ interrupted' = (interrupted \/ ~ok)
            /\ Push(IF ok THEN "toggle" ELSE "resume")
       /\ UNCHANGED <<hits, pc>>
  /\ UNCHANGED <<loc, pauses, saved_opcode, int3, sstep>>

\* Mutant: the notification is sent from the main loop only.
EndListen_DrainNotNotified ==
  /\ pc \in {"process", "drain"} /\ ring = <<>>
  /\ IF pc = "process" THEN pc' = "listen" /\ Consume(rsp)
     ELSE pc' = "clear_int" /\ UNCHANGED <<mtf, blocked, rsp>>
  /\ UNCHANGED <<guest, pauses, ring, saved_opcode, int3, sstep, interrupted>>

\* The ring is empty: notify Xen of the responses, return, look at the clock.
EndListen ==
  /\ pc \in {"process", "drain"} /\ ring = <<>>
  /\ Consume(rsp)
  /\ IF pc = "process"
     THEN /\ pc' = "listen"
          /\ interrupted' \in IF TimeLimit THEN {interrupted, TRUE} ELSE {interrupted}
     ELSE pc' = "clear_int" /\ UNCHANGED interrupted
  /\ UNCHANGED <<guest, pauses, ring, saved_opcode, int3, sstep>>

-----------------------------------------------------------------------------
(* The teardown, label error_exit. *)

\* Mutant: the opcode is written back whether or not one was saved.
RestoreOpcode_Unguarded ==
  /\ pc = "teardown"
  /\ \E ok \in Ok("pause") : pauses' = IF ok THEN pauses + 1 ELSE pauses
  /\ code' = saved_opcode
  /\ pc' = "pending"
  /\ UNCHANGED <<loc, hits, blocked, mtf, ring, rsp, saved_opcode, int3, sstep, interrupted>>

\* Mutant: int_event is cleared before the queue is cleaned up.
RestoreOpcode_ClearsFirst ==
  /\ pc = "teardown"
  /\ pauses' = pauses + 1
  /\ code' = saved_opcode
  /\ int3' = FALSE
  /\ pc' = "pending"
  /\ UNCHANGED <<loc, hits, blocked, mtf, ring, rsp, saved_opcode, sstep, interrupted>>

\* Pause the guest, restore the opcode if one was saved.
RestoreOpcode ==
  /\ pc = "teardown"
  /\ \E ok \in Ok("pause") : pauses' = IF ok THEN pauses + 1 ELSE pauses
  /\ \E ok \in Ok("write") :
       code' = IF saved_opcode # 0 /\ ok THEN saved_opcode ELSE code
  /\ pc' = "pending"
  /\ UNCHANGED <<loc, hits, blocked, mtf, ring, rsp, saved_opcode, int3, sstep, interrupted>>

\* Mutant: no "cleanup queue".
CheckPending_NoDrain ==
  /\ pc = "pending" /\ pc' = "clear_int"
  /\ UNCHANGED <<guest, xen, saved_opcode, int3, sstep, interrupted>>

\* "cleanup queue": if (vmi_are_events_pending(vmi)) vmi_events_listen(vmi, 0).
CheckPending ==
  /\ pc = "pending"
  /\ IF ring = <<>> THEN pc' = "clear_int"
     ELSE \E ok \in Ok("poll") : pc' = IF ok THEN "drain" ELSE "clear_int"
  /\ UNCHANGED <<guest, xen, saved_opcode, int3, sstep, interrupted>>

\* vmi_clear_event(vmi, &int_event, NULL)
ClearInt ==
  /\ pc = "clear_int" /\ pc' = "clear_step"
  /\ int3' = FALSE
  /\ UNCHANGED <<guest, xen, saved_opcode, sstep, interrupted>>

\* vmi_clear_event(vmi, &sstep_event, NULL): the flag of every vCPU goes off.
ClearStep ==
  /\ pc = "clear_step" /\ pc' = "resume"
  /\ sstep' = FALSE
  /\ mtf' = {}
  /\ UNCHANGED <<guest, blocked, pauses, ring, rsp, saved_opcode, int3, interrupted>>

Resume ==
  /\ pc = "resume" /\ pc' = "destroy"
  /\ \E ok \in Ok("resume") :
       pauses' = IF ok /\ pauses > 0 THEN pauses - 1 ELSE pauses
  /\ UNCHANGED <<guest, blocked, mtf, ring, rsp, saved_opcode, int3, sstep, interrupted>>

\* vmi_destroy: no handler is left, so what is still on the ring stays
\* unanswered; the ring is unmapped and monitoring disabled.  The guest is
\* paused around it unless it already is.
Destroy ==
  /\ pc = "destroy" /\ pc' = "exited"
  /\ ring' = <<>>
  /\ rsp' = [v \in Vcpus |-> "none"]
  /\ UNCHANGED <<guest, blocked, mtf, pauses, saved_opcode, int3, sstep, interrupted>>

-----------------------------------------------------------------------------

Guest ==
  \E v \in Vcpus :
    EnterSyscall(v) \/ ExecuteEntry(v) \/ LeaveSyscall(v) \/ GuestBreakpoint(v)

Tracer ==
  \/ InitLibvmi \/ SetLstarBreakpoint
  \/ Listen \/ breakpoint_cb \/ breakpoint_cb_reinject \/ single_step_cb \/ EndListen
  \/ RestoreOpcode \/ CheckPending \/ ClearInt \/ ClearStep \/ Resume \/ Destroy

Next == Guest \/ Tracer \/ Signal

Spec == Init /\ [][Next]_vars

\* The tracer is a process the scheduler runs: its steps are never put off
\* for ever.  Nothing is assumed of the guest or of the signals.
FairSpec == Spec /\ WF_vars(Tracer)

-----------------------------------------------------------------------------
(* Properties. *)

\* The calls this tracer is asked to see: from the end of set_lstar_breakpoint
\* until the teardown.
Tracing == pc \in {"listen", "process"}

\* While the tracer is listening, a vCPU gets past the first instruction of
\* the system call entry exactly when breakpoint_cb has recorded its call, and
\* no call is recorded twice.
TracedOnce ==
  [][\A v \in Vcpus :
       Tracing /\ loc[v] = "entry" /\ loc'[v] = "kernel" => hits[v] = 1]_vars

\* The guest never takes the tracer's breakpoint as an exception of its own
\* while int_event is registered, whatever fails: breakpoint_cb catches every
\* one until vmi_clear_event(&int_event).
NoOrphanTrap ==
  \A v \in Vcpus :
    loc[v] = "oops" => pc \in {"clear_step", "resume", "destroy", "exited"}

\* vmi_events_listen never dequeues a request for which the tracer has no
\* handler registered: process_software_breakpoint and process_singlestep find
\* their event.
NoUnhandledRequest ==
  pc \in {"process", "drain"} =>
    \A i \in 1..Len(ring) : IF ring[i].reason = "SINGLESTEP" THEN sstep ELSE int3

RequestsOf(v) == {i \in 1..Len(ring) : ring[i].vcpu = v}

\* A vCPU that Xen has paused for an event has exactly one request on the ring
\* or one response on its way, and a vCPU that runs has neither: process_requests
\* answers every request once.
EveryPauseIsAnswerable ==
  pc \notin {"exited", "killed"} =>
    \A v \in Vcpus :
      /\ v \in blocked <=> RequestsOf(v) # {} \/ rsp[v] # "none"
      /\ RequestsOf(v) # {} => rsp[v] = "none"
      /\ \A i, j \in RequestsOf(v) : i = j

\* When the program has exited the guest runs freely: not paused, no vCPU
\* waiting for an answer, none single-stepping.
GuestReleased ==
  pc = "exited" =>
    pauses = 0 /\ blocked = {} /\ mtf = {}

\* A vCPU stopped by an event is let go in the end, by the event loop or by the
\* "cleanup queue" of the teardown.
TrapsAnswered == \A v \in Vcpus : (v \in blocked) ~> (v \notin blocked)

\* A signal ends the program: the loop around vmi_events_listen and the
\* teardown terminate however busy the guest is.
ShutsDown == interrupted ~> pc = "exited"

\* The program leaves the guest's code as it found it.
OpcodeRestored == pc = "exited" => code = OrigOpcode

=============================================================================
