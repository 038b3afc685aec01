-------------------------- MODULE Int3TracerProofs --------------------------
(***************************************************************************)
(* Proofs about the INT3 tracer, for any number of vCPUs and any set of    *)
(* calls that may fail unless a theorem says otherwise.                    *)
(***************************************************************************)
EXTENDS Int3Tracer, TLAPS

\* The teardown has unregistered int_event.
Detached == {"clear_step", "resume", "destroy", "exited"}

(***************************************************************************)
(* Attachment: what the program counter says about the pause count, the    *)
(* registered handlers and the byte at LSTAR.  The breakpoint is in the    *)
(* guest's code with nobody listening for it only while the guest is       *)
(* paused, or after the teardown has unregistered int_event.               *)
(***************************************************************************)
Attachment ==
  /\ pc \in {"init", "setup"} =>
       code = OrigOpcode /\ pauses = 0 /\ ~int3 /\ ~sstep
  /\ pc \in {"listen", "process"} => pauses = 0 /\ int3 /\ sstep
  /\ pc = "teardown" => pauses \in 0..1
  /\ int3 => saved_opcode = OrigOpcode
  /\ sstep => saved_opcode = OrigOpcode
  /\ sstep /\ pc \notin Detached => int3
  /\ pc \notin Detached /\ code = BREAKPOINT /\ ~int3 => pauses > 0

IInv == TypeOK /\ Attachment /\ NoOrphanTrap

USE DEF BREAKPOINT, MaxHits, guest, xen, tracer

\* The outcome of a call is success or failure.
LEMMA OkBoolean == \A call : \A ok \in Ok(call) : ok \in BOOLEAN
BY Zenon DEF Ok

\* IInv holds of a guest the tracer has not touched.
LEMMA InitIInv == Init => IInv
<1> SUFFICES ASSUME Init PROVE IInv
  OBVIOUS
<1>1. TypeOK
  <2>1. ring \in Seq(Request)
    BY DEF Init
  <2>2. hits \in [Vcpus -> 0..MaxHits] /\ loc \in [Vcpus -> Locs]
    BY DEF Init, Locs
  <2>3. int3 \in BOOLEAN /\ sstep \in BOOLEAN /\ interrupted \in BOOLEAN
    BY Zenon DEF Init
  <2>4. pauses \in 0..2 /\ saved_opcode \in {0, OrigOpcode} /\ code \in {OrigOpcode, BREAKPOINT}
    BY DEF Init
  <2>5. rsp \in [Vcpus -> Answers] /\ pc \in PCs /\ blocked \subseteq Vcpus /\ mtf \subseteq Vcpus
    BY DEF Init, Answers, PCs
  <2> QED BY <2>1, <2>2, <2>3, <2>4, <2>5 DEF TypeOK
<1>2. Attachment
  BY OpcodeAssumption DEF Init, Attachment
<1>3. NoOrphanTrap
  BY DEF Init, NoOrphanTrap
<1> QED BY <1>1, <1>2, <1>3 DEF IInv

\* Xen's consumption of responses keeps the types.
LEMMA ConsumeType ==
  ASSUME TypeOK, NEW r \in [Vcpus -> Answers], Consume(r)
  PROVE  /\ mtf' \subseteq Vcpus
         /\ blocked' \subseteq Vcpus
         /\ rsp' \in [Vcpus -> Answers]
BY DEF TypeOK, Consume, Answers

\* So does pushing a response, with or without a notification.
LEMMA PushType ==
  ASSUME TypeOK, ring # <<>>, NEW a \in Answers, Push(a)
  PROVE  /\ mtf' \subseteq Vcpus
         /\ blocked' \subseteq Vcpus
         /\ rsp' \in [Vcpus -> Answers]
<1> DEFINE pushed == [rsp EXCEPT ![Head(ring).vcpu] = a]
<1>1. pushed \in [Vcpus -> Answers]
  BY Zenon DEF TypeOK
<1>2. CASE Cardinality(Vcpus) >= NotifyThreshold
  <2>1. Consume(pushed)
    BY <1>2 DEF Push
  <2> QED BY <1>1, <2>1, ConsumeType, Zenon
<1>3. CASE ~(Cardinality(Vcpus) >= NotifyThreshold)
  BY <1>1, <1>3 DEF Push, TypeOK
<1> QED BY <1>2, <1>3

\* The request being handled, and the ring without it.
LEMMA RingHead ==
  ASSUME TypeOK, ring # <<>>
  PROVE  Head(ring) \in Request /\ Tail(ring) \in Seq(Request)
BY DEF TypeOK

GuestAction(v) ==
  EnterSyscall(v) \/ ExecuteEntry(v) \/ LeaveSyscall(v) \/ GuestBreakpoint(v)

\* What any step of a vCPU can do outside its own registers: report one event,
\* and only an event that Xen is asked to report.
LEMMA GuestEffect ==
  ASSUME NEW v \in Vcpus, GuestAction(v)
  PROVE  /\ Runnable(v)
         /\ UNCHANGED <<code, mtf, pauses, rsp, pc, saved_opcode, int3, sstep, interrupted>>
         /\ \/ UNCHANGED <<ring, blocked>>
            \/ \E r \in Reasons :
                 /\ Report(v, r)
                 /\ r = "SINGLESTEP" => v \in mtf
                 /\ r # "SINGLESTEP" => int3
         /\ \/ loc' = loc
            \/ \E l \in Locs \ {"oops"} : loc' = [loc EXCEPT ![v] = l]
            \/ code = BREAKPOINT /\ ~int3 /\ loc' = [loc EXCEPT ![v] = "oops"]
         /\ hits' = hits \/ hits' = [hits EXCEPT ![v] = 0]
<1> USE DEF Retire, Reasons, Locs
<1>1. CASE EnterSyscall(v)
  BY <1>1, Zenon DEF EnterSyscall
<1>2. CASE ExecuteEntry(v)
  BY <1>2 DEF ExecuteEntry
<1>3. CASE LeaveSyscall(v)
  BY <1>3, Zenon DEF LeaveSyscall
<1>4. CASE GuestBreakpoint(v)
  BY <1>4 DEF GuestBreakpoint
<1> QED BY <1>1, <1>2, <1>3, <1>4 DEF GuestAction

\* A report keeps the types.
LEMMA ReportType ==
  ASSUME TypeOK, NEW v \in Vcpus, NEW r \in Reasons, Report(v, r)
  PROVE  ring' \in Seq(Request) /\ blocked' \subseteq Vcpus
<1>1. [vcpu |-> v, reason |-> r] \in Request
  BY DEF Request
<1> QED BY <1>1 DEF TypeOK, Report

\* No step of the guest breaks IInv.
LEMMA GuestStep ==
  ASSUME IInv, NEW v \in Vcpus, GuestAction(v)
  PROVE  IInv'
<1>1. UNCHANGED <<code, mtf, pauses, rsp, pc, saved_opcode, int3, sstep, interrupted>> /\ pauses = 0
  BY GuestEffect DEF Runnable
<1>2. ring' \in Seq(Request) /\ blocked' \subseteq Vcpus
  <2>1. CASE UNCHANGED <<ring, blocked>>
    BY <2>1 DEF IInv, TypeOK
  <2>2. CASE \E r \in Reasons : Report(v, r)
    BY <2>2, ReportType DEF IInv
  <2> QED BY <2>1, <2>2, GuestEffect
<1>3. loc' \in [Vcpus -> Locs]
  BY GuestEffect DEF IInv, TypeOK, Locs
<1>4. hits' \in [Vcpus -> 0..MaxHits]
  BY GuestEffect DEF IInv, TypeOK
<1>5. NoOrphanTrap'
  BY <1>1, GuestEffect DEF IInv, TypeOK, Attachment, NoOrphanTrap, Detached
<1> QED
  BY <1>1, <1>2, <1>3, <1>4, <1>5 DEF IInv, TypeOK, Attachment

Callback == breakpoint_cb \/ breakpoint_cb_reinject \/ single_step_cb

\* What handling one request can do: fail, or push one answer after writing at
\* most one byte of the guest's code.
LEMMA CallbackEffect ==
  ASSUME IInv, Callback
  PROVE  /\ pc \in {"process", "drain"} /\ ring # <<>> /\ ring' = Tail(ring)
         /\ UNCHANGED <<loc, pauses, saved_opcode, int3, sstep>>
         /\ \/ Fail \/ Killed
            \/ /\ \E a \in Answers \ {"none"} : Push(a)
               /\ pc' = pc
               /\ interrupted' \in BOOLEAN
               /\ code' = code \/ (int3 /\ code' = saved_opcode) \/ (sstep /\ code' = BREAKPOINT)
               /\ \/ hits' = hits
                  \/ process_syscall(Head(ring).vcpu)
<1> USE DEF Handling, Answers
<1>0. interrupted \in BOOLEAN
  BY DEF IInv, TypeOK
<1>1. CASE breakpoint_cb
  BY <1>0, <1>1, OkBoolean DEF breakpoint_cb
<1>2. CASE breakpoint_cb_reinject
  BY <1>0, <1>2, OkBoolean DEF breakpoint_cb_reinject
<1>3. CASE single_step_cb
  BY <1>0, <1>3, OkBoolean, Zenon DEF single_step_cb
<1> QED BY <1>1, <1>2, <1>3 DEF Callback

\* No callback breaks IInv.
LEMMA CallbackStep ==
  ASSUME IInv, Callback
  PROVE  IInv'
<1> USE CallbackEffect
<1>1. ring' \in Seq(Request) /\ Head(ring).vcpu \in Vcpus
  BY RingHead DEF IInv, Request
<1>2. CASE Fail
  <2>1. pc' \in {"listen", "clear_int"} /\ (pc' = "listen" => pc = "process")
    BY <1>2 DEF Fail
  <2>2. interrupted' \in BOOLEAN
    BY <1>2, Zenon DEF Fail, IInv, TypeOK
  <2>3. UNCHANGED <<code, hits, mtf, blocked, rsp>>
    BY <1>2 DEF Fail
  <2>4. TypeOK'
    BY <1>1, <2>1, <2>2, <2>3 DEF IInv, TypeOK, PCs
  <2>5. Attachment' /\ NoOrphanTrap'
    BY <2>1, <2>3 DEF IInv, Attachment, NoOrphanTrap, Detached
  <2> QED BY <2>4, <2>5 DEF IInv
<1>2a. CASE Killed
  <2>1. pc' = "killed" /\ UNCHANGED <<code, hits, mtf, blocked, rsp, interrupted>>
    BY <1>2a DEF Killed
  <2>2. TypeOK'
    BY <1>1, <2>1 DEF IInv, TypeOK, PCs
  <2>3. Attachment' /\ NoOrphanTrap'
    BY <2>1 DEF IInv, Attachment, NoOrphanTrap, Detached
  <2> QED BY <2>2, <2>3 DEF IInv
<1>3. ASSUME NEW a \in Answers, Push(a), pc' = pc, interrupted' \in BOOLEAN,
             code' = code \/ (int3 /\ code' = saved_opcode) \/ (sstep /\ code' = BREAKPOINT),
             hits' = hits \/ process_syscall(Head(ring).vcpu)
      PROVE  IInv'
  <2>1. mtf' \subseteq Vcpus /\ blocked' \subseteq Vcpus /\ rsp' \in [Vcpus -> Answers]
    BY <1>3, PushType DEF IInv
  <2>2. hits' \in [Vcpus -> 0..MaxHits]
    BY <1>1, <1>3 DEF IInv, TypeOK, process_syscall
  <2>3. TypeOK'
    BY <1>1, <1>3, <2>1, <2>2 DEF IInv, TypeOK, Attachment
  <2>4. Attachment'
    BY <1>3, OpcodeAssumption DEF IInv, TypeOK, Attachment, Detached
  <2>5. NoOrphanTrap'
    BY <1>3, SMTT(40) DEF IInv, NoOrphanTrap
  <2> QED BY <2>3, <2>4, <2>5 DEF IInv
<1> QED BY <1>2, <1>2a, <1>3

\* Nor does set-up, the loop around the callbacks, or the teardown.
LEMMA OtherTracerStep ==
  ASSUME IInv,
         \/ InitLibvmi \/ SetLstarBreakpoint \/ Signal \/ Listen \/ EndListen
         \/ RestoreOpcode \/ CheckPending \/ ClearInt \/ ClearStep \/ Resume \/ Destroy
  PROVE  IInv'
<1> USE OkBoolean DEF IInv, Attachment, NoOrphanTrap, Detached, PCs
<1>1. CASE InitLibvmi
  BY <1>1 DEF InitLibvmi, TypeOK
<1>2. CASE SetLstarBreakpoint
  <2>1. PICK f \in 1..8 :
          /\ pauses' = IF f \in 3..7 THEN pauses + 1 ELSE pauses
          /\ saved_opcode' = IF f > 3 THEN code ELSE saved_opcode
          /\ code' = IF f > 4 THEN BREAKPOINT ELSE code
          /\ int3' = (f > 5)
          /\ sstep' = (f > 6)
          /\ pc' = IF f = 8 THEN "listen" ELSE "teardown"
    BY <1>2 DEF SetLstarBreakpoint
  <2>2. /\ pc = "setup" /\ pauses = 0 /\ code = OrigOpcode
        /\ UNCHANGED <<loc, hits, blocked, mtf, ring, rsp, interrupted>>
    BY <1>2 DEF SetLstarBreakpoint
  <2>3. int3' \in BOOLEAN /\ sstep' \in BOOLEAN
    BY <2>1
  <2>4. TypeOK'
    BY <2>1, <2>2, <2>3 DEF TypeOK
  <2>5. NoOrphanTrap'
    BY <2>2
  <2>6. Attachment'
    <3>1. saved_opcode = 0 \/ saved_opcode = OrigOpcode
      BY DEF TypeOK
    <3>2. CASE f = 8
      <4>1. pc' = "listen" /\ pauses' = 0 /\ saved_opcode' = OrigOpcode
        BY <2>1, <2>2, <3>2
      <4>2. (int3' <=> f > 5) /\ (sstep' <=> f > 6)
        BY <2>1, Zenon
      <4> QED BY <3>2, <4>1, <4>2
    <3>3. CASE f \in 1..7
      <4>1. pc' = "teardown" /\ pauses' \in 0..1 /\ (f > 2 => pauses' = 1)
        BY <2>1, <2>2, <3>3
      <4>2. (int3' <=> f > 5) /\ (sstep' <=> f > 6)
        BY <2>1, Zenon
      <4>3. f > 3 => saved_opcode' = OrigOpcode
        BY <2>1, <2>2
      <4>4. code' = BREAKPOINT => f > 4
        BY <2>1, <2>2, OpcodeAssumption
      <4> QED BY <3>3, <4>1, <4>2, <4>3, <4>4
    <3> QED BY <3>2, <3>3
  <2> QED BY <2>4, <2>5, <2>6
<1>3. CASE Signal
  BY <1>3 DEF Signal, TypeOK
<1>4. CASE Listen
  <2>0. interrupted' \in BOOLEAN
    BY <1>4, OkBoolean, Zenon DEF Listen, TypeOK
  <2>1. pc' \in {"teardown", "process", "listen"} /\ pc = "listen"
    BY <1>4 DEF Listen
  <2>2. UNCHANGED <<guest, xen, saved_opcode, int3, sstep>>
    BY <1>4 DEF Listen
  <2> QED BY <2>0, <2>1, <2>2 DEF TypeOK
<1>5. CASE EndListen
  <2>1. mtf' \subseteq Vcpus /\ blocked' \subseteq Vcpus /\ rsp' \in [Vcpus -> Answers]
    BY <1>5, ConsumeType DEF EndListen, TypeOK
  <2> QED BY <1>5, <2>1, ZenonT(40) DEF EndListen, TypeOK
<1>6. CASE RestoreOpcode
  BY <1>6, OpcodeAssumption DEF RestoreOpcode, TypeOK
<1>7. CASE CheckPending
  BY <1>7 DEF CheckPending, TypeOK
<1>8. CASE ClearInt
  BY <1>8, Zenon DEF ClearInt, TypeOK
<1>9. CASE ClearStep
  BY <1>9, Zenon DEF ClearStep, TypeOK
<1>10. CASE Resume
  BY <1>10 DEF Resume, TypeOK
<1>11. CASE Destroy
  <2>1. ring' \in Seq(Request) /\ rsp' \in [Vcpus -> Answers]
    BY <1>11 DEF Destroy, Answers
  <2> QED BY <1>11, <2>1 DEF Destroy, TypeOK
<1> QED
  BY <1>1, <1>2, <1>3, <1>4, <1>5, <1>6, <1>7, <1>8, <1>9, <1>10, <1>11

\* IInv is inductive.
LEMMA Inductive == IInv /\ [Next]_vars => IInv'
<1> SUFFICES ASSUME IInv, [Next]_vars PROVE IInv'
  OBVIOUS
<1>1. CASE Guest
  BY <1>1, GuestStep DEF Guest, GuestAction
<1>2. CASE Tracer \/ Signal
  BY <1>2, CallbackStep, OtherTracerStep DEF Tracer, Callback
<1>3. CASE UNCHANGED vars
  BY <1>3 DEF vars, IInv, TypeOK, Attachment, NoOrphanTrap
<1> QED BY <1>1, <1>2, <1>3 DEF Next

\* Every state the tracer, LibVMI, Xen and the guest reach is well typed; in
\* particular saved_opcode and the byte at LSTAR only ever hold the original
\* opcode, the breakpoint or nothing, and the domain pause count never exceeds
\* two, whichever calls of set_lstar_breakpoint and of the loop fail.
THEOREM TypeCorrect == Spec => []TypeOK
<1>1. IInv => TypeOK
  BY DEF IInv
<1> QED BY <1>1, InitIInv, Inductive, PTL DEF Spec

\* Whatever fails and however many vCPUs there are, no vCPU takes the tracer's
\* breakpoint as an exception of the guest before vmi_clear_event(&int_event).
THEOREM NoOrphan == Spec => []NoOrphanTrap
<1>1. IInv => NoOrphanTrap
  BY DEF IInv
<1> QED BY <1>1, InitIInv, Inductive, PTL DEF Spec

-----------------------------------------------------------------------------
(***************************************************************************)
(* Quiet: until sstep_event is registered nothing can be reported.  The    *)
(* guest is paused for as long as int_event alone is registered, so the    *)
(* ring is empty whenever one of the two handlers is missing, up to the    *)
(* teardown's first vmi_clear_event.                                       *)
(***************************************************************************)
Quiet ==
  /\ pc \in {"process", "drain"} => sstep
  /\ pc \notin Detached /\ ~sstep =>
       ring = <<>> /\ mtf = {} /\ (int3 => pauses > 0)

\* Before LibVMI is initialised nothing is on the ring.
LEMMA InitQuiet == Init => Quiet
BY DEF Init, Quiet

\* No step of the program, the guest or the user breaks Quiet.
LEMMA QuietStep == IInv /\ Quiet /\ [Next]_vars => Quiet'
<1> SUFFICES ASSUME IInv, Quiet, [Next]_vars PROVE Quiet'
  OBVIOUS
<1> USE DEF Quiet, Detached
<1>1. ASSUME NEW v \in Vcpus, GuestAction(v) PROVE Quiet'
  BY <1>1, GuestEffect DEF Runnable
<1>2. CASE Callback
  <2>1. sstep' = sstep /\ sstep
    BY <1>2, CallbackEffect
  <2> QED BY <2>1
<1>3. CASE InitLibvmi \/ Signal
  <2>1. pc' \in {"process", "drain"} \/ pc' \notin Detached => pc \notin Detached /\ (pc' # pc => pc' = "setup")
    BY <1>3 DEF InitLibvmi, Signal
  <2>2. UNCHANGED <<ring, mtf, pauses, int3, sstep>>
    BY <1>3 DEF InitLibvmi, Signal
  <2> QED BY <2>1, <2>2
<1>4. CASE SetLstarBreakpoint
  <2>1. PICK f \in 1..8 :
          /\ pauses' = IF f \in 3..7 THEN pauses + 1 ELSE pauses
          /\ int3' = (f > 5)
          /\ sstep' = (f > 6)
          /\ pc' = IF f = 8 THEN "listen" ELSE "teardown"
    BY <1>4 DEF SetLstarBreakpoint
  <2>2. pc = "setup" /\ ~sstep /\ pauses = 0 /\ UNCHANGED <<mtf, ring>>
    BY <1>4 DEF SetLstarBreakpoint, IInv, Attachment
  <2>3. (int3' <=> f > 5) /\ (sstep' <=> f > 6)
    BY <2>1, Zenon
  <2>4. int3' /\ ~sstep' => pauses' > 0
    BY <2>1, <2>2, <2>3
  <2>5. pc' \notin {"process", "drain"}
    BY <2>1
  <2> QED BY <2>2, <2>4, <2>5
<1>5. CASE Listen
  BY <1>5 DEF Listen, IInv, Attachment
<1>6. CASE EndListen
  <2>1. sstep /\ sstep' = sstep
    BY <1>6 DEF EndListen
  <2> QED BY <2>1
<1>7. CASE RestoreOpcode
  <2>1. pauses \in 0..2 /\ pauses' \in {pauses, pauses + 1}
    BY <1>7 DEF RestoreOpcode, IInv, TypeOK
  <2>2. pc = "teardown" /\ pc' = "pending" /\ UNCHANGED <<ring, mtf, int3, sstep>>
    BY <1>7 DEF RestoreOpcode
  <2> QED BY <2>1, <2>2
<1>8. CASE CheckPending
  BY <1>8 DEF CheckPending
<1>9. CASE ClearInt \/ ClearStep \/ Resume \/ Destroy
  BY <1>9 DEF ClearInt, ClearStep, Resume, Destroy
<1>10. CASE UNCHANGED vars
  BY <1>10 DEF vars
<1> QED
  BY <1>1, <1>2, <1>3, <1>4, <1>5, <1>6, <1>7, <1>8, <1>9, <1>10
     DEF Next, Guest, GuestAction, Tracer, Callback

\* With any number of vCPUs and any calls failing, process_requests never takes
\* a request off the ring for which int_event or sstep_event is not registered:
\* the tracer drains the ring before it clears its events.
THEOREM Handled == Spec => []NoUnhandledRequest
<1>1. IInv /\ Quiet => NoUnhandledRequest
  BY DEF IInv, Attachment, Quiet, Detached, NoUnhandledRequest
<1>2. Init => IInv /\ Quiet
  BY InitIInv, InitQuiet
<1>3. IInv /\ Quiet /\ [Next]_vars => (IInv /\ Quiet)'
  BY Inductive, QuietStep
<1> QED BY <1>1, <1>2, <1>3, PTL DEF Spec

-----------------------------------------------------------------------------

(***************************************************************************)
(* Matched: the requests rq, the paused vCPUs bl and the responses rs fit: *)
(* one request per vCPU at most, never beside a response, and each paused  *)
(* vCPU has one or the other.  EveryPauseIsAnswerable, said of indices.    *)
(***************************************************************************)
Matched(rq, bl, rs) ==
  /\ \A i, j \in 1..Len(rq) : rq[i].vcpu = rq[j].vcpu => i = j
  /\ \A i \in 1..Len(rq) : rq[i].vcpu \in bl /\ rs[rq[i].vcpu] = "none"
  /\ \A v \in Vcpus : rs[v] # "none" => v \in bl
  /\ \A v \in bl : rs[v] = "none" => \E i \in 1..Len(rq) : rq[i].vcpu = v

Answerable == pc \notin {"exited", "killed"} => Matched(ring, blocked, rsp)

\* A request on the ring is of a vCPU of the guest.
LEMMA RequestVcpu ==
  ASSUME NEW rq \in Seq(Request), NEW i \in 1..Len(rq)
  PROVE  rq[i].vcpu \in Vcpus
<1>1. rq[i] \in Request
  OBVIOUS
<1> QED BY <1>1 DEF Request

\* A running vCPU has nothing outstanding, so its next event is its only one.
LEMMA MatchedReport ==
  ASSUME TypeOK, Matched(ring, blocked, rsp), NEW v \in Vcpus \ blocked,
         NEW r \in Reasons, Report(v, r), rsp' = rsp
  PROVE  Matched(ring', blocked', rsp')
<1> DEFINE q == [vcpu |-> v, reason |-> r]
<1>1. ring \in Seq(Request) /\ q \in Request /\ q.vcpu = v
  BY DEF TypeOK, Request
<1>2. /\ Len(ring') = Len(ring) + 1
      /\ \A i \in 1..Len(ring) : ring'[i] = ring[i]
      /\ ring'[Len(ring) + 1] = q
  BY <1>1 DEF Report
<1>3. blocked' = blocked \cup {v} /\ rsp' = rsp /\ Len(ring) \in Nat
  BY <1>1 DEF Report
<1>4. rsp[v] = "none"
  BY DEF Matched
<1> HIDE DEF q
<1> QED BY <1>1, <1>2, <1>3, <1>4, SMTT(40) DEF Matched

\* The response replaces the request it answers.
LEMMA MatchedPush ==
  ASSUME TypeOK, Matched(ring, blocked, rsp), ring # <<>>, NEW a \in Answers \ {"none"}
  PROVE  Matched(Tail(ring), blocked, [rsp EXCEPT ![Head(ring).vcpu] = a])
<1> DEFINE h == Head(ring).vcpu
           rs == [rsp EXCEPT ![h] = a]
<1>1. /\ Len(ring) \in Nat \ {0}
      /\ Len(Tail(ring)) = Len(ring) - 1
      /\ \A i \in 1..Len(Tail(ring)) : Tail(ring)[i] = ring[i + 1]
      /\ h = ring[1].vcpu /\ h \in Vcpus
  BY RingHead DEF TypeOK, Request
<1>2. rs[h] = a /\ \A v \in Vcpus \ {h} : rs[v] = rsp[v]
  BY <1>1 DEF TypeOK
<1>3. blocked \subseteq Vcpus /\ \A i \in 1..Len(ring) : ring[i].vcpu \in Vcpus
  BY RequestVcpu DEF TypeOK
<1> HIDE DEF h, rs
<1>4. \A i, j \in 1..Len(Tail(ring)) : Tail(ring)[i].vcpu = Tail(ring)[j].vcpu => i = j
  BY <1>1 DEF Matched
<1>5. ASSUME NEW i \in 1..Len(Tail(ring))
      PROVE  Tail(ring)[i].vcpu \in blocked /\ rs[Tail(ring)[i].vcpu] = "none"
  <2>1. i + 1 \in 1..Len(ring) /\ 1 \in 1..Len(ring) /\ i + 1 # 1 /\ Tail(ring)[i] = ring[i + 1]
    BY <1>1
  <2>2. ring[i + 1].vcpu \in Vcpus \ {h}
    BY <1>1, <1>3, <2>1 DEF Matched
  <2> QED BY <1>2, <2>1, <2>2 DEF Matched
<1>6. \A v \in Vcpus : rs[v] # "none" => v \in blocked
  BY <1>1, <1>2 DEF Matched
<1>7. ASSUME NEW v \in blocked, rs[v] = "none"
      PROVE  \E i \in 1..Len(Tail(ring)) : Tail(ring)[i].vcpu = v
  <2>1. v # h /\ rsp[v] = "none"
    BY <1>2, <1>3, <1>7
  <2>2. PICK i \in 1..Len(ring) : ring[i].vcpu = v
    BY <2>1 DEF Matched
  <2>3. i # 1 /\ i - 1 \in 1..Len(Tail(ring)) /\ Tail(ring)[i - 1].vcpu = v
    BY <1>1, <2>1, <2>2
  <2> QED BY <2>3, Zenon
<1> QED BY <1>4, <1>5, <1>6, <1>7 DEF Matched, h, rs

\* Consuming the responses lets exactly the answered vCPUs go.
LEMMA MatchedConsume ==
  ASSUME NEW rq \in Seq(Request), NEW bl \in SUBSET Vcpus, NEW rs \in [Vcpus -> Answers],
         Matched(rq, bl, rs)
  PROVE  Matched(rq, {v \in bl : rs[v] = "none"}, [v \in Vcpus |-> "none"])
<1>1. \A i \in 1..Len(rq) : rq[i].vcpu \in Vcpus
  BY RequestVcpu
<1> QED BY <1>1 DEF Matched

\* When foreign breakpoints can be reinjected, every request handled is answered.
LEMMA CallbackAnswers ==
  ASSUME IInv, Quiet, "inject" \notin Fallible, Callback
  PROVE  Killed \/ \E a \in Answers \ {"none"} : Push(a)
<1>1. int3 /\ sstep
  <2>1. pc \in {"process", "drain"}
    BY CallbackEffect
  <2> QED BY <2>1 DEF IInv, Attachment, Quiet, Detached
<1>2. CASE breakpoint_cb
  BY <1>1, <1>2 DEF breakpoint_cb, Answers
<1>3. CASE breakpoint_cb_reinject
  BY <1>1, <1>3 DEF breakpoint_cb_reinject, Ok, Answers
<1>4. CASE single_step_cb
  BY <1>1, <1>4 DEF single_step_cb, Answers
<1> QED BY <1>2, <1>3, <1>4 DEF Callback

\* No step breaks the matching of paused vCPUs with requests and responses.
LEMMA AnswerableStep ==
  ASSUME "inject" \notin Fallible, IInv, Quiet, Answerable, [Next]_vars
  PROVE  Answerable'
<1> USE DEF Answerable
<1>1. ASSUME NEW v \in Vcpus, GuestAction(v) PROVE Answerable'
  <2>1. v \notin blocked /\ rsp' = rsp /\ pc' = pc
    BY <1>1, GuestEffect DEF Runnable
  <2>2. CASE UNCHANGED <<ring, blocked>>
    BY <2>1, <2>2 DEF Matched
  <2>3. CASE \E r \in Reasons : Report(v, r)
    BY <2>1, <2>3, MatchedReport DEF IInv
  <2> QED BY <1>1, <2>2, <2>3, GuestEffect
<1>2. CASE Callback
  <2>1. ring' = Tail(ring) /\ ring # <<>> /\ pc \notin {"exited", "killed"}
    BY <1>2, CallbackEffect
  <2>2. CASE Killed
    BY <2>2 DEF Killed
  <2>3. ASSUME NEW a \in Answers \ {"none"}, Push(a) PROVE Answerable'
    <3> DEFINE pushed == [rsp EXCEPT ![Head(ring).vcpu] = a]
    <3>1. Matched(Tail(ring), blocked, pushed)
      BY <2>1, MatchedPush DEF IInv
    <3>2. Tail(ring) \in Seq(Request) /\ blocked \in SUBSET Vcpus /\ pushed \in [Vcpus -> Answers]
      BY <2>1, RingHead, Zenon DEF IInv, TypeOK
    <3> HIDE DEF pushed
    <3>3. \/ blocked' = blocked /\ rsp' = pushed
          \/ blocked' = {v \in blocked : pushed[v] = "none"} /\ rsp' = [v \in Vcpus |-> "none"]
      BY <2>3 DEF Push, Consume, pushed
    <3>4. CASE blocked' = blocked /\ rsp' = pushed
      BY <2>1, <3>1, <3>4
    <3>5. CASE blocked' = {v \in blocked : pushed[v] = "none"} /\ rsp' = [v \in Vcpus |-> "none"]
      BY <2>1, <3>1, <3>2, <3>5, MatchedConsume, Zenon
    <3> QED BY <3>3, <3>4, <3>5
  <2> QED BY <1>2, <2>2, <2>3, CallbackAnswers
<1>3. CASE EndListen
  <2>1. pc \notin {"exited", "killed"} /\ ring' = ring
    BY <1>3 DEF EndListen
  <2>2. blocked' = {v \in blocked : rsp[v] = "none"} /\ rsp' = [v \in Vcpus |-> "none"]
    BY <1>3 DEF EndListen, Consume
  <2>3. ring \in Seq(Request) /\ blocked \in SUBSET Vcpus /\ rsp \in [Vcpus -> Answers]
    BY DEF IInv, TypeOK
  <2> QED BY <2>1, <2>2, <2>3, MatchedConsume
<1>4. CASE Destroy
  BY <1>4 DEF Destroy
<1>5. CASE \/ InitLibvmi \/ SetLstarBreakpoint \/ Signal \/ Listen
           \/ RestoreOpcode \/ CheckPending \/ ClearInt \/ ClearStep \/ Resume
           \/ UNCHANGED vars
  <2>1. UNCHANGED <<ring, blocked, rsp>>
    BY <1>5, SMTT(40) DEF InitLibvmi, SetLstarBreakpoint, Signal, Listen, RestoreOpcode,
                CheckPending, ClearInt, ClearStep, Resume, vars
  <2>2. pc \notin {"exited", "killed"} \/ pc' = pc
    BY <1>5 DEF InitLibvmi, SetLstarBreakpoint, Signal, Listen, RestoreOpcode,
                CheckPending, ClearInt, ClearStep, Resume, vars
  <2> QED BY <2>1, <2>2, SMTT(40) DEF Matched
<1> QED
  BY <1>1, <1>2, <1>3, <1>4, <1>5 DEF Next, Guest, GuestAction, Tracer, Callback

\* With any number of vCPUs, and any calls failing but the reinjection of a
\* foreign breakpoint, a vCPU that Xen has paused for an event always has one
\* request waiting or one response on its way, and no running vCPU has either:
\* process_requests answers every request exactly once.
THEOREM PausesAnswerable ==
  ASSUME "inject" \notin Fallible
  PROVE  Spec => []EveryPauseIsAnswerable
<1>1. IInv /\ Quiet /\ Answerable => EveryPauseIsAnswerable
  <2> SUFFICES ASSUME IInv, Answerable, pc \notin {"exited", "killed"}, NEW v \in Vcpus
               PROVE  /\ v \in blocked <=> RequestsOf(v) # {} \/ rsp[v] # "none"
                      /\ RequestsOf(v) # {} => rsp[v] = "none"
                      /\ \A i, j \in RequestsOf(v) : i = j
    BY DEF EveryPauseIsAnswerable
  <2>1. \A i \in 1..Len(ring) : i \in RequestsOf(v) <=> ring[i].vcpu = v
    BY DEF RequestsOf
  <2>2. RequestsOf(v) \subseteq 1..Len(ring)
    BY DEF RequestsOf
  <2> QED BY <2>1, <2>2 DEF Answerable, Matched
<1>2. Init => IInv /\ Quiet /\ Answerable
  BY InitIInv, InitQuiet DEF Init, Answerable, Matched
<1>3. IInv /\ Quiet /\ Answerable /\ [Next]_vars => (IInv /\ Quiet /\ Answerable)'
  BY Inductive, QuietStep, AnswerableStep
<1> QED BY <1>1, <1>2, <1>3, PTL DEF Spec

-----------------------------------------------------------------------------

(***************************************************************************)
(* Leaving: what the teardown has undone at each of its steps, when no     *)
(* call fails that would leave a pause or an answer behind.  A response    *)
(* waits for Xen only inside a listen call; from the end of the "cleanup   *)
(* queue" on no vCPU is paused for an event, and none can be, because the  *)
(* guest is paused until neither handler is registered.                    *)
(***************************************************************************)
Leaving ==
  /\ pc \notin {"process", "drain", "killed"} => \A v \in Vcpus : rsp[v] = "none"
  /\ pc = "teardown" => pauses = 0
  /\ pc \in {"pending", "drain", "clear_int", "clear_step", "resume"} => pauses = 1
  /\ pc \in {"clear_int", "clear_step", "resume", "destroy"} => ring = <<>>
  /\ pc \in {"clear_int", "clear_step", "resume", "destroy", "exited"} => blocked = {}
  /\ pc \in {"clear_step", "resume", "destroy", "exited"} => ~int3
  /\ pc \in {"resume", "destroy", "exited"} => mtf = {}
  /\ pc \in {"destroy", "exited"} => pauses = 0

\* Nothing queued and nothing on its way: no vCPU is paused for an event.
LEMMA NobodyPaused ==
  ASSUME IInv, Answerable, Leaving, ring = <<>>, pc \notin {"process", "drain", "killed", "exited"}
  PROVE  blocked = {}
BY DEF IInv, TypeOK, Answerable, Matched, Leaving

\* No step of the program, the guest or the user breaks Leaving.
LEMMA LeavingStep ==
  ASSUME Fallible \subseteq {"init", "lstar", "send"},
         IInv, Quiet, Answerable, Leaving, [Next]_vars
  PROVE  Leaving'
<1>0. \A call \in {"pause", "write", "resume", "poll", "inject"} : Ok(call) = {TRUE}
  BY Zenon DEF Ok
<1> USE DEF Leaving
<1>1. ASSUME NEW v \in Vcpus, GuestAction(v) PROVE Leaving'
  <2>1. Runnable(v) /\ UNCHANGED <<mtf, pauses, rsp, pc, int3>>
    BY <1>1, GuestEffect
  <2>2. pc \in {"destroy", "exited"} => UNCHANGED <<ring, blocked>>
    BY <1>1, GuestEffect
  <2> QED BY <2>1, <2>2 DEF Runnable
<1>2. CASE Callback
  <2>1. pc \in {"process", "drain"} /\ UNCHANGED <<pauses, int3>>
    BY <1>2, CallbackEffect
  <2>2. pc' = "killed" \/ pc' = pc
    <3>1. int3 /\ sstep
      BY <2>1 DEF IInv, Attachment, Quiet, Detached
    <3>2. CASE breakpoint_cb
      BY <3>1, <3>2, Zenon DEF breakpoint_cb, Killed
    <3>3. CASE breakpoint_cb_reinject
      <4>1. Ok("inject") = {TRUE}
        BY <1>0, Zenon
      <4> QED BY <3>1, <3>3, <4>1, Zenon DEF breakpoint_cb_reinject
    <3>4. CASE single_step_cb
      BY <3>1, <3>4, Zenon DEF single_step_cb
    <3> QED BY <1>2, <3>2, <3>3, <3>4 DEF Callback
  <2> QED BY <2>1, <2>2
<1>3. CASE InitLibvmi
  <2>1. pc = "init" /\ pc' \in {"setup", "exited"} /\ UNCHANGED <<xen, int3, sstep>>
    BY <1>3 DEF InitLibvmi
  <2>2. ring = <<>> /\ mtf = {} /\ pauses = 0 /\ ~int3
    BY <2>1 DEF IInv, Attachment, Quiet, Detached
  <2>3. blocked = {}
    BY <2>1, <2>2, NobodyPaused
  <2> QED BY <2>1, <2>2, <2>3
<1>4. CASE SetLstarBreakpoint
  <2>1. PICK f \in {1, 8} :
          /\ pauses' = IF f \in 3..7 THEN pauses + 1 ELSE pauses
          /\ pc' = IF f = 8 THEN "listen" ELSE "teardown"
    BY <1>4 DEF SetLstarBreakpoint, SetupCalls
  <2>2. pc = "setup" /\ pauses = 0 /\ rsp' = rsp
    BY <1>4 DEF SetLstarBreakpoint, IInv, Attachment
  <2> QED BY <2>1, <2>2
<1>5. CASE Listen
  <2>1. pc = "listen" /\ pc' \in {"teardown", "process", "listen"} /\ UNCHANGED <<pauses, rsp>>
    BY <1>5 DEF Listen
  <2>2. pauses = 0
    BY <2>1 DEF IInv, Attachment
  <2> QED BY <2>1, <2>2
<1>6. CASE EndListen
  <2>1. /\ pc \in {"process", "drain"} /\ pc' = IF pc = "process" THEN "listen" ELSE "clear_int"
        /\ ring = <<>> /\ ring' = <<>> /\ pauses' = pauses
        /\ blocked' = {v \in blocked : rsp[v] = "none"} /\ rsp' = [v \in Vcpus |-> "none"]
    BY <1>6, Zenon DEF EndListen, Consume
  <2>2. blocked' = {}
    BY <2>1 DEF IInv, TypeOK, Answerable, Matched
  <2> QED BY <2>1, <2>2
<1>7. CASE RestoreOpcode
  <2>1. Ok("pause") = {TRUE}
    BY <1>0, Zenon
  <2>2. pc = "teardown" /\ pc' = "pending" /\ pauses' = pauses + 1 /\ rsp' = rsp
    BY <1>7, <2>1, Zenon DEF RestoreOpcode
  <2> QED BY <2>2
<1>8. CASE CheckPending
  <2>1. /\ pc = "pending" /\ UNCHANGED <<xen, int3>>
        /\ IF ring = <<>> THEN pc' = "clear_int" ELSE pc' = "drain"
    <3>1. Ok("poll") = {TRUE}
      BY <1>0, Zenon
    <3> QED BY <1>8, <3>1, Zenon DEF CheckPending
  <2>2. ring = <<>> => blocked = {}
    BY <2>1, NobodyPaused
  <2> QED BY <2>1, <2>2
<1>9. CASE ClearInt
  BY <1>9 DEF ClearInt
<1>10. CASE ClearStep
  BY <1>10 DEF ClearStep
<1>11. CASE Resume
  <2>1. Ok("resume") = {TRUE}
    BY <1>0, Zenon
  <2>2. pauses = 1 /\ pauses' = IF pauses > 0 THEN pauses - 1 ELSE pauses
    BY <1>11, <2>1, Zenon DEF Resume
  <2>3. pauses' = 0
    BY <2>2
  <2> QED BY <1>11, <2>3 DEF Resume
<1>12. CASE Destroy
  BY <1>12 DEF Destroy
<1>13. CASE Signal \/ UNCHANGED vars
  BY <1>13 DEF Signal, vars
<1> QED
  BY <1>1, <1>2, <1>3, <1>4, <1>5, <1>6, <1>7, <1>8, <1>9, <1>10, <1>11, <1>12, <1>13, Zenon
     DEF Next, Guest, GuestAction, Tracer, Callback

\* However many vCPUs the guest has, however many responses share a notification
\* and wherever the signal or the time limit falls, the program leaves the guest
\* running, with no vCPU waiting for an answer and none single-stepping: the
\* teardown pauses the guest, answers what is queued, clears both events and
\* resumes it once.  LibVMI may fail to initialise or to read MSR_LSTAR, and the
\* server may close the connection; a failure after vmi_pause_vm leaves the guest
\* paused, because set_lstar_breakpoint does not resume it.
THEOREM LeavesGuestRunning ==
  ASSUME Fallible \subseteq {"init", "lstar", "send"}
  PROVE  Spec => []GuestReleased
<1> DEFINE All == IInv /\ Quiet /\ Answerable /\ Leaving
<1>1. Init => All
  BY InitIInv, InitQuiet DEF Init, Answerable, Matched, Leaving
<1>2. All /\ [Next]_vars => All'
  BY Inductive, QuietStep, AnswerableStep, LeavingStep
<1>3. All => GuestReleased
  BY DEF Leaving, GuestReleased
<1> QED BY <1>1, <1>2, <1>3, PTL DEF Spec

-----------------------------------------------------------------------------
(* One vCPU. *)

(***************************************************************************)
(* The cycle of the one vCPU w while the tracer listens.  Between Idle and *)
(* the next Idle the breakpoint is hit, taken out, stepped over and put    *)
(* back; a breakpoint of the guest's own takes the shorter way.            *)
(***************************************************************************)
Idle(w) ==
  /\ code = BREAKPOINT /\ mtf = {} /\ blocked = {} /\ ring = <<>> /\ rsp[w] = "none"
  /\ loc[w] = "entry" => hits[w] = 0

Trapped(w) ==
  /\ code = BREAKPOINT /\ mtf = {} /\ blocked = {w} /\ rsp[w] = "none"
  /\ ring = <<[vcpu |-> w, reason |-> "INT3"]>>
  /\ loc[w] = "entry" /\ hits[w] = 0

Recorded(w) ==
  /\ code = OrigOpcode /\ mtf = {} /\ blocked = {w} /\ rsp[w] = "toggle" /\ ring = <<>>
  /\ loc[w] = "entry" /\ hits[w] = 1

Stepping(w) ==
  /\ code = OrigOpcode /\ mtf = {w} /\ blocked = {} /\ rsp[w] = "none" /\ ring = <<>>
  /\ loc[w] = "entry" /\ hits[w] = 1

Stepped(w) ==
  /\ code = OrigOpcode /\ mtf = {w} /\ blocked = {w} /\ rsp[w] = "none"
  /\ ring = <<[vcpu |-> w, reason |-> "SINGLESTEP"]>>
  /\ loc[w] = "kernel"

Rearmed(w) ==
  /\ code = BREAKPOINT /\ mtf = {w} /\ blocked = {w} /\ rsp[w] = "toggle" /\ ring = <<>>
  /\ loc[w] = "kernel"

\* A foreign breakpoint: queued, reinjected, or left unanswered by a failure.
Foreign(w) ==
  /\ code = BREAKPOINT /\ mtf = {} /\ blocked = {w} /\ loc[w] = "user"
  /\ \/ ring = <<[vcpu |-> w, reason |-> "OTHER_INT3"]>> /\ rsp[w] = "none"
     \/ ring = <<>> /\ rsp[w] \in {"none", "resume"}

Cycle(w) ==
  \/ Idle(w) \/ Trapped(w) \/ Recorded(w) \/ Stepping(w)
  \/ Stepped(w) \/ Rearmed(w) \/ Foreign(w)

OneInv(w) ==
  /\ pc \in {"init", "setup"} =>
       hits[w] = 0 /\ blocked = {} /\ mtf = {} /\ ring = <<>> /\ rsp[w] = "none"
  /\ Tracing => Cycle(w)

\* Attachment, as far as the loop needs it.
LEMMA Attached == IInv /\ Tracing => pauses = 0 /\ int3 /\ sstep /\ saved_opcode = OrigOpcode
BY DEF IInv, Attachment, Tracing

\* Before the loop and in it, the vCPU's own steps stay on the cycle.
LEMMA GuestCycle ==
  ASSUME NEW w, Vcpus = {w}, IInv, OneInv(w), GuestAction(w)
  PROVE  OneInv(w)'
<1>1. pc' = pc /\ w \notin blocked /\ UNCHANGED <<code, mtf, rsp, int3>>
  BY GuestEffect DEF Runnable
<1>2. CASE pc \in {"init", "setup"}
  <2>1. ~int3 /\ mtf = {}
    BY <1>2 DEF IInv, Attachment, OneInv
  <2>2. UNCHANGED <<ring, blocked>> /\ (hits' = hits \/ hits' = [hits EXCEPT ![w] = 0])
    BY <2>1, GuestEffect DEF Reasons
  <2>3. hits'[w] = 0
    BY <1>2, <2>2 DEF IInv, TypeOK, OneInv
  <2> QED BY <1>1, <1>2, <2>2, <2>3 DEF OneInv, Tracing
<1>3. CASE Tracing
  <2>0. int3 /\ ring \in Seq(Request) /\ loc \in [Vcpus -> Locs] /\ hits \in [Vcpus -> 0..MaxHits]
    BY <1>3, Attached, SMTT(40) DEF IInv, TypeOK
  <2>1. Idle(w) \/ Stepping(w)
    BY <1>1, <1>3, SMTT(40) DEF OneInv, Cycle, Trapped, Recorded, Stepped, Rearmed, Foreign
  <2>2. CASE Idle(w)
    <3>1. EnterSyscall(w) => Idle(w)'
      BY <1>1, <2>0, <2>2 DEF EnterSyscall, Retire, Idle
    <3>2. ExecuteEntry(w) => Trapped(w)'
      BY <1>1, <2>0, <2>2 DEF ExecuteEntry, Report, Idle, Trapped
    <3>3. LeaveSyscall(w) => Idle(w)'
      BY <1>1, <2>0, <2>2 DEF LeaveSyscall, Retire, Idle
    <3>4. GuestBreakpoint(w) => Foreign(w)'
      BY <1>1, <2>0, <2>2 DEF GuestBreakpoint, Report, Idle, Foreign
    <3>5. Cycle(w)'
      BY <3>1, <3>2, <3>3, <3>4, SMTT(40) DEF GuestAction, Cycle
    <3> QED BY <1>1, <1>3, <3>5 DEF OneInv, Tracing
  <2>3. CASE Stepping(w)
    <3>1. ExecuteEntry(w)
      BY <2>3, ZenonT(40) DEF GuestAction, EnterSyscall, LeaveSyscall, GuestBreakpoint, Stepping
    <3>2. Stepped(w)'
      BY <1>1, <2>0, <2>3, <3>1, OpcodeAssumption, SMTT(40)
         DEF ExecuteEntry, Retire, Report, Stepping, Stepped
    <3> QED BY <1>1, <1>3, <3>2, ZenonT(40) DEF OneInv, Tracing, Cycle
  <2> QED BY <2>1, <2>2, <2>3
<1>4. CASE pc \notin {"init", "setup", "listen", "process"}
  BY <1>1, <1>4, SMTT(40) DEF OneInv, Tracing
<1> QED BY <1>2, <1>3, <1>4 DEF Tracing

\* One response pushed by the only vCPU's handler, seen by Xen at once or later.
LEMMA PushOne ==
  ASSUME NEW w, Vcpus = {w}, TypeOK, ring # <<>>, Head(ring).vcpu = w,
         NEW a \in {"resume", "toggle"}, blocked = {w}, Push(a)
  PROVE  \/ mtf' = mtf /\ blocked' = {w} /\ rsp'[w] = a
         \/ /\ mtf' = IF a = "resume" THEN mtf ELSE {w} \ mtf
            /\ blocked' = {}
            /\ rsp'[w] = "none"
<1> DEFINE pushed == [rsp EXCEPT ![w] = a]
<1>1. pushed[w] = a /\ mtf \in SUBSET {w}
  BY DEF TypeOK
<1>2. \/ mtf' = mtf /\ blocked' = blocked /\ rsp' = pushed
      \/ Consume(pushed)
  BY Zenon DEF Push
<1> HIDE DEF pushed
<1>3. ASSUME Consume(pushed)
      PROVE  /\ mtf' = IF a = "resume" THEN mtf ELSE {w} \ mtf
             /\ blocked' = {}
             /\ rsp'[w] = "none"
  <2>1. blocked' = {} /\ rsp'[w] = "none"
    BY <1>1, <1>3 DEF Consume
  <2>2. CASE a = "resume"
    BY <1>1, <1>3, <2>1, <2>2 DEF Consume
  <2>3. CASE a = "toggle"
    <3>1. \A v : v \in mtf' <=> v \in {w} \ mtf
      BY <1>1, <1>3, <2>3, Zenon DEF Consume
    <3>2. mtf' = {w} \ mtf
      BY <3>1
    <3> QED BY <2>1, <2>3, <3>2
  <2> QED BY <2>2, <2>3
<1> QED BY <1>1, <1>2, <1>3

\* A callback moves the vCPU one place on, and a notification that follows at
\* once moves it one more.
LEMMA CallbackCycle ==
  ASSUME NEW w, Vcpus = {w}, "write" \notin Fallible, IInv, Tracing, Cycle(w), Callback
  PROVE  pc' = "killed" \/ Cycle(w)'
<1>0. int3 /\ sstep /\ saved_opcode = OrigOpcode /\ TypeOK /\ loc' = loc
  BY Attached, CallbackEffect, ZenonT(40) DEF IInv
<1>1. ring # <<>> /\ ring' = Tail(ring)
  BY CallbackEffect, SMTT(40)
<1>2. \E r \in Reasons : ring = <<[vcpu |-> w, reason |-> r]>> /\ Head(ring).reason = r
  BY <1>1, SMTT(40) DEF Reasons, Cycle, Idle, Trapped, Recorded, Stepping, Stepped, Rearmed, Foreign
<1>3. ring' = <<>> /\ Head(ring).vcpu = w
  BY <1>1, <1>2
<1>4. CASE breakpoint_cb
  <2>1. Head(ring).reason = "INT3"
    BY <1>4, SMTT(40) DEF breakpoint_cb, Handling
  <2>2. Trapped(w)
    BY <1>1, <2>1 DEF Cycle, Idle, Trapped, Recorded, Stepping, Stepped, Rearmed, Foreign
  <2>3. \/ pc' = "killed"
        \/ Push("toggle") /\ code' = OrigOpcode /\ process_syscall(w)
    BY <1>0, <1>3, <1>4, ZenonT(40) DEF breakpoint_cb, Killed, Ok
  <2>4. process_syscall(w) => hits'[w] = 1
    BY <1>0, <2>2 DEF process_syscall, TypeOK, Trapped
  <2>5. Push("toggle") => \/ mtf' = mtf /\ blocked' = {w} /\ rsp'[w] = "toggle"
                          \/ mtf' = {w} \ mtf /\ blocked' = {} /\ rsp'[w] = "none"
    BY <1>0, <1>1, <1>3, <2>2, PushOne, ZenonT(40) DEF Trapped
  <2> QED BY <1>0, <1>3, <2>2, <2>3, <2>4, <2>5, ZenonT(40) DEF Cycle, Trapped, Recorded, Stepping
<1>5. CASE breakpoint_cb_reinject
  <2>1. Head(ring).reason = "OTHER_INT3"
    BY <1>5, ZenonT(40) DEF breakpoint_cb_reinject, Handling
  <2>2. Foreign(w) /\ rsp[w] = "none"
    BY <1>1, <2>1, SMTT(40) DEF Cycle, Idle, Trapped, Recorded, Stepping, Stepped, Rearmed, Foreign
  <2>3. Fail \/ (Push("resume") /\ UNCHANGED <<code, hits>>)
    BY <1>5, SMTT(40) DEF breakpoint_cb_reinject
  <2>4. Push("resume") => \/ mtf' = mtf /\ blocked' = {w} /\ rsp'[w] = "resume"
                          \/ mtf' = mtf /\ blocked' = {} /\ rsp'[w] = "none"
    <3>1. blocked = {w}
      BY <2>2 DEF Foreign
    <3> QED BY <1>0, <1>1, <1>3, <3>1, PushOne, SMTT(40)
  <2>5. Fail => UNCHANGED <<code, hits, mtf, blocked, rsp>>
    BY SMTT(40) DEF Fail
  <2> QED BY <1>0, <1>3, <2>2, <2>3, <2>4, <2>5, ZenonT(40) DEF Cycle, Foreign, Idle
<1>6. CASE single_step_cb
  <2>1. Head(ring).reason = "SINGLESTEP"
    BY <1>6, SMTT(40) DEF single_step_cb, Handling
  <2>2. Stepped(w)
    BY <1>1, <2>1 DEF Cycle, Idle, Trapped, Recorded, Stepping, Stepped, Rearmed, Foreign
  <2>3. Push("toggle") /\ code' = BREAKPOINT /\ hits' = hits
    BY <1>0, <1>6, ZenonT(40) DEF single_step_cb, Ok
  <2>4. Push("toggle") => \/ mtf' = mtf /\ blocked' = {w} /\ rsp'[w] = "toggle"
                          \/ mtf' = {w} \ mtf /\ blocked' = {} /\ rsp'[w] = "none"
    BY <1>0, <1>1, <1>3, <2>2, PushOne DEF Stepped
  <2> QED BY <1>0, <1>3, <2>2, <2>3, <2>4, SMTT(40) DEF Cycle, Stepped, Rearmed, Idle
<1> QED BY <1>4, <1>5, <1>6, Zenon DEF Callback

\* Nor do the other steps leave the cycle: set_lstar_breakpoint enters it at
\* Idle, and the notification at the end of vmi_events_listen moves along it.
LEMMA OtherCycle ==
  ASSUME NEW w, Vcpus = {w}, IInv, OneInv(w),
         \/ InitLibvmi \/ SetLstarBreakpoint \/ Signal \/ Listen \/ EndListen
         \/ RestoreOpcode \/ CheckPending \/ ClearInt \/ ClearStep \/ Resume \/ Destroy
         \/ UNCHANGED vars
  PROVE  OneInv(w)'
<1>1. CASE InitLibvmi
  BY <1>1, ZenonT(40) DEF InitLibvmi, OneInv, Tracing
<1>2. CASE SetLstarBreakpoint
  <2>1. pc = "setup" /\ pc' \in {"listen", "teardown"} /\ (pc' = "listen" => code' = BREAKPOINT)
    BY <1>2 DEF SetLstarBreakpoint
  <2>2. UNCHANGED <<loc, hits, blocked, mtf, ring, rsp>>
    BY <1>2, SMTT(40) DEF SetLstarBreakpoint
  <2> QED BY <2>1, <2>2, Zenon DEF OneInv, Tracing, Cycle, Idle
<1>3. CASE Signal \/ Listen \/ UNCHANGED vars
  <2>1. UNCHANGED <<guest, xen>>
    BY <1>3 DEF Signal, Listen, vars
  <2>2. pc' = pc \/ (Tracing /\ pc' \in {"listen", "process", "teardown"})
    BY <1>3 DEF Signal, Listen, vars, Tracing
  <2>3. Cycle(w)' <=> Cycle(w)
    <3>1. UNCHANGED <<code, loc, hits, mtf, blocked, ring, rsp>>
      BY <2>1 DEF guest, xen
    <3>2. Idle(w)' <=> Idle(w)
      BY <3>1, Zenon DEF Idle
    <3>3. Trapped(w)' <=> Trapped(w)
      BY <3>1, Zenon DEF Trapped
    <3>4. Recorded(w)' <=> Recorded(w)
      BY <3>1, Zenon DEF Recorded
    <3>5. Stepping(w)' <=> Stepping(w)
      BY <3>1, Zenon DEF Stepping
    <3>6. Stepped(w)' <=> Stepped(w)
      BY <3>1, Zenon DEF Stepped
    <3>7. Rearmed(w)' <=> Rearmed(w)
      BY <3>1, Zenon DEF Rearmed
    <3>8. Foreign(w)' <=> Foreign(w)
      BY <3>1, Zenon DEF Foreign
    <3> QED BY <3>2, <3>3, <3>4, <3>5, <3>6, <3>7, <3>8, Zenon DEF Cycle
  <2> QED BY <2>1, <2>2, <2>3, ZenonT(40) DEF OneInv, Tracing, guest, xen
<1>4. CASE EndListen
  <2>1. pc' \notin {"init", "setup"} /\ (pc' \in {"listen", "process"} => pc = "process")
    BY <1>4, Zenon DEF EndListen
  <2>2. ring = <<>> /\ UNCHANGED <<code, loc, hits, ring>> /\ Consume(rsp)
    BY <1>4 DEF EndListen
  <2>3. CASE pc = "process"
    <3>1. Cycle(w)
      BY <2>3, Zenon DEF OneInv, Tracing
    <3>2. rsp'[w] = "none" /\ blocked' = {v \in blocked : rsp[v] = "none"}
      BY <2>2 DEF Consume
    <3>3. rsp[w] # "toggle" => mtf' = mtf
      BY <2>2 DEF Consume, IInv, TypeOK
    <3>4. rsp[w] = "toggle" => \A v : v \in mtf' <=> v \in {w} \ mtf
      BY <2>2, Zenon DEF Consume
    <3>5. rsp[w] = "toggle" => mtf' = {w} \ mtf
      BY <3>4
    <3>6. Cycle(w)'
      <4>1. CASE Idle(w)
        BY <2>2, <3>2, <3>3, <4>1, ZenonT(40) DEF Cycle, Idle
      <4>2. CASE Recorded(w)
        BY <2>2, <3>2, <3>5, <4>2, SMTT(40) DEF Cycle, Recorded, Stepping
      <4>3. CASE Stepping(w)
        BY <2>2, <3>2, <3>3, <4>3, SMTT(40) DEF Cycle, Stepping
      <4>4. CASE Rearmed(w)
        BY <2>2, <3>2, <3>5, <4>4, SMTT(40) DEF Cycle, Rearmed, Idle
      <4>5. CASE Foreign(w)
        BY <2>2, <3>2, <3>3, <4>5, SMTT(40) DEF Cycle, Foreign, Idle
      <4>6. ~Trapped(w) /\ ~Stepped(w)
        BY <2>2 DEF Trapped, Stepped
      <4> QED BY <3>1, <4>1, <4>2, <4>3, <4>4, <4>5, <4>6, Zenon DEF Cycle
    <3> QED BY <2>1, <3>6, Zenon DEF OneInv, Tracing
  <2> QED BY <2>1, <2>3, Zenon DEF OneInv, Tracing
<1>5. CASE \/ RestoreOpcode \/ CheckPending \/ ClearInt \/ ClearStep \/ Resume \/ Destroy
  BY <1>5, Zenon DEF RestoreOpcode, CheckPending, ClearInt, ClearStep, Resume, Destroy, OneInv,
                Tracing
<1> QED BY <1>1, <1>2, <1>3, <1>4, <1>5, SMTT(40)

\* On a guest with one vCPU, and as long as the byte at LSTAR can be written, no
\* system call gets past its first instruction while the tracer listens without
\* breakpoint_cb having recorded it exactly once: whatever breakpoints the guest
\* has of its own, and wherever signals, poll errors and failed reinjections
\* fall.  Two vCPUs refute it.
THEOREM UniprocessorTracedOnce ==
  ASSUME NEW w, Vcpus = {w}, "write" \notin Fallible
  PROVE  Spec => TracedOnce
<1>1. Init => IInv /\ OneInv(w)
  BY InitIInv DEF Init, OneInv, Tracing
<1>2. IInv /\ OneInv(w) /\ [Next]_vars => IInv' /\ OneInv(w)'
  <2> SUFFICES ASSUME IInv, OneInv(w), [Next]_vars PROVE OneInv(w)'
    BY Inductive
  <2>1. CASE Guest
    BY <2>1, GuestCycle DEF Guest, GuestAction
  <2>2. CASE Callback
    <3>1. CASE Tracing
      <4>1. Cycle(w)
        BY <3>1, ZenonT(40) DEF OneInv
      <4>2. pc' = "killed" \/ Cycle(w)'
        BY <2>2, <3>1, <4>1, CallbackCycle
      <4>3. pc' \notin {"init", "setup"}
        BY <2>2, CallbackEffect, ZenonT(40) DEF Fail, Killed
      <4> QED BY <4>2, <4>3, ZenonT(40) DEF OneInv, Tracing
    <3>2. CASE ~Tracing
      <4>1. pc = "drain" /\ (Fail \/ Killed \/ pc' = pc)
        BY <2>2, <3>2, CallbackEffect DEF Tracing
      <4>2. pc' \in {"drain", "clear_int", "killed"}
        BY <4>1 DEF Fail, Killed
      <4> QED BY <4>2 DEF OneInv, Tracing
    <3> QED BY <3>1, <3>2, SMTT(40)
  <2>3. CASE \/ InitLibvmi \/ SetLstarBreakpoint \/ Signal \/ Listen \/ EndListen
             \/ RestoreOpcode \/ CheckPending \/ ClearInt \/ ClearStep \/ Resume \/ Destroy
             \/ UNCHANGED vars
    BY <2>3, OtherCycle
  <2> QED BY <2>1, <2>2, <2>3 DEF Next, Tracer, Callback
<1>3. IInv /\ OneInv(w) /\ [Next]_vars =>
        [\A v \in Vcpus :
           Tracing /\ loc[v] = "entry" /\ loc'[v] = "kernel" => hits[v] = 1]_vars
  <2> SUFFICES ASSUME IInv, OneInv(w), Next, Tracing, loc[w] = "entry", loc'[w] = "kernel"
               PROVE  hits[w] = 1
    BY SMTT(40)
  <2>1. CASE Guest
    <3>1. GuestAction(w)
      BY <2>1, SMTT(40) DEF Guest, GuestAction
    <3>2. w \notin blocked /\ Cycle(w)
      BY <3>1, GuestEffect, ZenonT(40) DEF Runnable, OneInv
    <3>3. CASE Idle(w)
      <4>1. ExecuteEntry(w)
        BY <3>1, SMTT(40) DEF GuestAction, EnterSyscall, LeaveSyscall, GuestBreakpoint
      <4>2. loc' = loc
        BY <3>3, <4>1, Attached DEF ExecuteEntry, Idle
      <4> QED BY <4>2, ZenonT(40)
    <3> QED BY <3>2, <3>3, SMTT(40) DEF Cycle, Trapped, Recorded, Stepping, Stepped, Rearmed, Foreign
  <2>2. CASE Callback
    BY <2>2, CallbackEffect
  <2>3. CASE ~Guest /\ ~Callback
    <3>1. loc' = loc
      BY <2>3, Zenon DEF Next, Tracer, Callback, Signal, InitLibvmi, SetLstarBreakpoint, Listen,
                  EndListen, RestoreOpcode, CheckPending, ClearInt, ClearStep, Resume, Destroy
    <3> QED BY <3>1
  <2> QED BY <2>1, <2>2, <2>3
<1> QED BY <1>1, <1>2, <1>3, PTL DEF Spec, TracedOnce
=============================================================================
