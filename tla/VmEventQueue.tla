---------------------------- MODULE VmEventQueue ----------------------------
(***************************************************************************)
(* What the shared ring promises: the requests of the vCPUs are taken in   *)
(* the order they were raised, each is answered once, in that order, and a *)
(* vCPU raises no other request before it has been answered.               *)
(***************************************************************************)
EXTENDS Sequences

CONSTANT VCPUs

VARIABLES raised, taken, answered   \* sequences of vCPUs, oldest first

queues == <<raised, taken, answered>>
Within(seq) == {seq[i] : i \in DOMAIN seq}

QueueInit == raised = <<>> /\ taken = <<>> /\ answered = <<>>

Raise(v) ==
    /\ v \notin Within(raised) \union Within(taken) \union Within(answered)
    /\ raised' = Append(raised, v)
    /\ UNCHANGED <<taken, answered>>
Fetch ==
    /\ raised # <<>>
    /\ raised' = Tail(raised) /\ taken' = Append(taken, Head(raised))
    /\ UNCHANGED answered
Answer ==
    /\ taken # <<>>
    /\ answered' = answered \o taken /\ taken' = <<>>
    /\ UNCHANGED raised
Resume ==
    /\ answered # <<>>
    /\ answered' = Tail(answered)
    /\ UNCHANGED <<raised, taken>>

QueueNext == (\E v \in VCPUs : Raise(v)) \/ Fetch \/ Answer \/ Resume
QueueSpec == QueueInit /\ [][QueueNext]_queues
=============================================================================
