------------------------------ MODULE XenRing ------------------------------
(***************************************************************************)
(* The page that Xen and LibVMI share: process_requests_1 to               *)
(* process_requests_7 of libvmi/driver/xen/xen_events.c, one for each      *)
(* version of the vm_event interface (xen_events_abi.h).                   *)
(*                                                                         *)
(* A slot holds a request and later, in the same memory, its response.     *)
(* The listener copies a request into vmec, which lives as long as the     *)
(* call and whose payload and data are unions, lets a handler change it,   *)
(* and copies a part of it back.  A register in a slot or in vmec is known *)
(* by the vCPU it was read from (0: zeroed, or bytes of something else).   *)
(***************************************************************************)
EXTENDS Naturals, Sequences, FiniteSets

CONSTANTS
    VCPUs,      \* the vCPUs, numbered from 1
    Size,       \* RING_SIZE: slots of the ring
    Wrap,       \* the indices count modulo this (2^32)
    Reasons,    \* the reasons of requests
    Each        \* whether num_vcpus >= 7, so that Xen is notified of every response

ASSUME RingAssumption == /\ Size \in Nat \ {0} /\ Wrap \in Nat
                         /\ Wrap % Size = 0 /\ Wrap > Size
ASSUME VCPUAssumption == VCPUs \subseteq Nat \ {0} /\ Each \subseteq BOOLEAN
ASSUME ReasonAssumption ==
    Reasons \subseteq {"mem_access", "write_ctrlreg", "mov_to_msr", "singlestep", "software_breakpoint",
                       "debug_exception", "interrupt", "cpuid", "desc_access", "vmexit"}

VARIABLES
    abi,            \* the version of the interface
    each,           \* a member of Each
    slots,          \* the slots of the ring
    req_prod,       \* sring: the next request goes here
    rsp_prod,       \* sring: responses before this one are published
    req_cons,       \* back_ring: the next request to take
    rsp_prod_pvt,   \* back_ring: the next response to write
    rsp_cons,       \* Xen: the next response to read
    vmec,           \* the vm_event_compat_t of the current call
    at,             \* where process_requests is
    notified        \* Xen has been told of responses

ring == <<slots, req_prod, rsp_prod, req_cons, rsp_prod_pvt, rsp_cons>>
vars == <<abi, each, slots, req_prod, rsp_prod, req_cons, rsp_prod_pvt, rsp_cons, vmec, at, notified>>

Plus(i, n) == (i + n) % Wrap
Distance(from, to) == (to + Wrap - from) % Wrap

(***************************************************************************)
(* The versions: groups of registers (dr6 and shadow_gs go with the        *)
(* segments, vmtrace_pos with npt_base) and fields of payloads.            *)
(***************************************************************************)
Groups == {"base", "segments", "gdtr", "npt"}

(* xen_events_abi.h: the registers of a request and of a response.         *)
Registers(n) ==
    CASE n <= 3 -> {"base"}
      [] n = 4 -> {"base", "segments"}
      [] n \in {5, 6} -> {"base", "segments", "gdtr"}
      [] n = 7 -> Groups

(* The payload that a request of Xen carries.                              *)
Carried(n, reason) ==
    CASE reason \in {"mem_access", "write_ctrlreg"} -> {reason}
      [] reason = "singlestep" -> {"gfn"}
      [] reason = "mov_to_msr" -> {"msr", "new_value"} \union (IF n >= 3 THEN {"old_value"} ELSE {})
      [] reason = "software_breakpoint" -> {"gfn"} \union (IF n >= 2 THEN {"insn_length"} ELSE {})
      [] reason = "debug_exception" -> IF n >= 2 THEN {"gfn", "insn_length", "type"} ELSE {}
      [] reason \in {"interrupt", "cpuid"} -> IF n >= 2 THEN {reason} ELSE {}
      [] reason = "desc_access" -> IF n >= 3 THEN {reason} ELSE {}
      [] reason = "vmexit" -> IF n = 7 THEN {reason} ELSE {}

(* The fields of vmec that the handler of a reason reads.                  *)
Reads(reason) ==
    CASE reason = "mov_to_msr" -> {"msr", "new_value", "old_value"}
      [] reason = "software_breakpoint" -> {"gfn", "insn_length"}
      [] reason = "debug_exception" -> {"gfn", "insn_length", "type"}
      [] reason = "singlestep" -> {"gfn"}
      [] OTHER -> {reason}

(* What each version copies in: registers, then payload.                   *)
Whole(reason, reasons) == {reason} \intersect reasons
RegsIn_1 == {"base"}
RegsIn_2 == {"base"}
RegsIn_3 == {"base"}
RegsIn_4_NoSegments == {"base"}   \* mutant: the registers new in version 4 are forgotten
RegsIn_4 == {"base", "segments"}
RegsIn_5 == {"base", "segments", "gdtr"}
RegsIn_6 == {"base", "segments", "gdtr"}
RegsIn_7 == {"base", "segments", "gdtr", "npt"}

Payload_1(reason) ==
    CASE reason = "mov_to_msr" -> {"msr", "new_value"}
      [] reason \in {"singlestep", "software_breakpoint"} -> {"gfn"}
      [] OTHER -> Whole(reason, {"mem_access", "write_ctrlreg"})
Payload_2(reason) ==
    CASE reason = "mov_to_msr" -> {"msr", "new_value"}
      [] reason = "singlestep" -> {"gfn"}
      [] reason = "software_breakpoint" -> {"gfn", "insn_length"}
      [] reason = "debug_exception" -> {"gfn", "insn_length", "type"}
      [] OTHER -> Whole(reason, {"mem_access", "write_ctrlreg", "interrupt", "cpuid"})
Payload_3(reason) ==
    CASE reason = "mov_to_msr" -> {"msr", "new_value", "old_value"}
      [] reason = "desc_access" -> {reason}
      [] OTHER -> Payload_2(reason)
Payload_4(reason) == Payload_3(reason)
Payload_5(reason) == Payload_3(reason)
Payload_6(reason) == Payload_3(reason)
Payload_7(reason) == IF reason = "vmexit" THEN {reason} ELSE Payload_3(reason)

(* What each version copies out when registers are to be set.              *)
RegsOut_1 == {"base"}
RegsOut_2 == {"base"}
RegsOut_3 == {"base"}
RegsOut_4 == {"base", "segments"}
RegsOut_5 == {"base", "segments", "gdtr"}
RegsOut_6 == {"base", "segments", "gdtr"}
RegsOut_7 == {"base", "segments", "gdtr"}

RegsIn == <<RegsIn_1, RegsIn_2, RegsIn_3, RegsIn_4, RegsIn_5, RegsIn_6, RegsIn_7>>
RegsOut == <<RegsOut_1, RegsOut_2, RegsOut_3, RegsOut_4, RegsOut_5, RegsOut_6, RegsOut_7>>
Payload(n, reason) ==
    CASE n = 1 -> Payload_1(reason)
      [] n = 2 -> Payload_2(reason)
      [] n = 3 -> Payload_3(reason)
      [] n = 4 -> Payload_4(reason)
      [] n = 5 -> Payload_5(reason)
      [] n = 6 -> Payload_6(reason)
      [] n = 7 -> Payload_7(reason)

(***************************************************************************)
(* The ring.  Fields of a slot: the vCPU, the reason, the flags that       *)
(* matter here and the registers.                                          *)
(***************************************************************************)
Zero == [g \in Groups |-> 0]
Empty == [vcpu |-> 0, reason |-> "none", flags |-> {}, regs |-> Zero]
Slot(i) == slots[i % Size]
Indices(from, to) == {Plus(from, n) : n \in 0 .. Distance(from, to) - 1}
Waiting == {Slot(i).vcpu : i \in Indices(rsp_cons, req_prod)}
NoRequest == [vcpu |-> 0, reason |-> "none", flags |-> {}, regs |-> Zero, payload |-> {}]

init_events(n) ==
    /\ abi = n /\ each \in Each
    /\ slots = [i \in 0 .. Size - 1 |-> Empty]
    /\ req_prod = 0 /\ rsp_prod = 0 /\ req_cons = 0 /\ rsp_prod_pvt = 0 /\ rsp_cons = 0
    /\ vmec = NoRequest /\ at = "idle" /\ notified = FALSE

Init == \E n \in 1..7 : init_events(n)

(* Xen: a vCPU that runs raises a request when a slot is free.             *)
Put(v, reason) ==
    /\ v \notin Waiting /\ Carried(abi, reason) # {}
    /\ Distance(rsp_cons, req_prod) < Size
    /\ slots' = [slots EXCEPT ![req_prod % Size] =
          [vcpu |-> v, reason |-> reason, flags |-> {"paused"},
           regs |-> [g \in Groups |-> IF g \in Registers(abi) THEN v ELSE 0]]]
    /\ req_prod' = Plus(req_prod, 1)
    /\ UNCHANGED <<abi, each, rsp_prod, req_cons, rsp_prod_pvt, rsp_cons, vmec, at, notified>>

(* RING_HAS_UNCONSUMED_REQUESTS                                            *)
Unconsumed ==
    LET requests == Distance(req_cons, req_prod)
        room == Size - Distance(rsp_prod_pvt, req_cons) IN
    IF requests < room THEN requests ELSE room

Listen ==
    /\ at = "idle" /\ Unconsumed > 0
    /\ at' = "loop" /\ vmec' = NoRequest
    /\ UNCHANGED <<abi, each, ring, notified>>

ring_get_request_and_response ==
    /\ req_cons' = Plus(req_cons, 1)
    /\ rsp_prod_pvt' = Plus(rsp_prod_pvt, 1)

(* The next request is taken and copied into vmec.                         *)
Get ==
    /\ at = "loop" /\ Unconsumed > 0
    /\ ring_get_request_and_response
    /\ LET request == Slot(req_cons) IN
       vmec' = [vcpu |-> request.vcpu, reason |-> request.reason, flags |-> request.flags,
                regs |-> [g \in Groups |-> IF g \in RegsIn[abi] THEN request.regs[g] ELSE vmec.regs[g]],
                payload |-> Payload(abi, request.reason)]
    /\ at' = "handle"
    /\ UNCHANGED <<abi, each, slots, req_prod, rsp_prod, rsp_cons, notified>>

(* process_request: the handler's answer.  Data to emulate with shares its *)
(* memory with the registers.  A request without a handler, or one that    *)
(* cannot be reinjected, ends the call.                                    *)
Handle(response) ==
    /\ at = "handle"
    /\ vmec' = [vmec EXCEPT !.flags = {"paused"} \union response,
                            !.regs = IF "emulate" \in response THEN Zero ELSE @]
    /\ at' = "push"
    /\ UNCHANGED <<abi, each, ring, notified>>

Fail ==
    /\ at = "handle"
    /\ at' = "idle" /\ vmec' = NoRequest
    /\ UNCHANGED <<abi, each, ring, notified>>

(* The slot that was taken last, RING_GET_RESPONSE.  Mutant: the next one.  *)
Response_Next == rsp_prod_pvt % Size
Response == Plus(rsp_prod_pvt, Wrap - 1) % Size

(* The response is written and every slot taken is published.              *)
Push ==
    /\ at = "push"
    /\ LET i == Response
           kept == IF "emulate" \in vmec.flags THEN Zero ELSE slots[i].regs
           copied == IF "set_registers" \in vmec.flags THEN RegsOut[abi] ELSE {} IN
       slots' = [slots EXCEPT ![i] =
          [vcpu |-> vmec.vcpu, reason |-> vmec.reason, flags |-> vmec.flags,
           regs |-> [g \in Groups |-> IF g \in copied THEN vmec.regs[g] ELSE kept[g]]]]
    /\ rsp_prod' = rsp_prod_pvt
    /\ at' = "loop"
    /\ notified' = (notified \/ each)
    /\ UNCHANGED <<abi, each, req_prod, req_cons, rsp_prod_pvt, rsp_cons, vmec>>

(* The ring is empty: the call returns and its caller notifies Xen.        *)
Return ==
    /\ at = "loop" /\ Unconsumed = 0
    /\ at' = "idle" /\ vmec' = NoRequest
    /\ notified' = (notified \/ ~each)
    /\ UNCHANGED <<abi, each, ring>>

(* Xen reads the responses and lets their vCPUs go on.                     *)
Consume ==
    /\ notified
    /\ IF rsp_cons = rsp_prod
       THEN notified' = FALSE /\ UNCHANGED <<slots, rsp_cons>>
       ELSE /\ slots' = [slots EXCEPT ![rsp_cons % Size] = Empty]
            /\ rsp_cons' = Plus(rsp_cons, 1)
            /\ UNCHANGED notified
    /\ UNCHANGED <<abi, each, req_prod, rsp_prod, req_cons, rsp_prod_pvt, vmec, at>>

Listener == Listen \/ Get \/ (\E r \in {{}, {"set_registers"}, {"emulate"}} : Handle(r))
            \/ Push \/ Return
Next == (\E v \in VCPUs, reason \in Reasons : Put(v, reason)) \/ Listener \/ Fail \/ Consume

Spec == Init /\ [][Next]_vars

(***************************************************************************)
(* Properties.                                                             *)
(***************************************************************************)
TypeOK ==
    /\ abi \in 1..7 /\ each \in Each /\ at \in {"idle", "loop", "handle", "push"} /\ notified \in BOOLEAN
    /\ {req_prod, rsp_prod, req_cons, rsp_prod_pvt, rsp_cons} \subseteq 0 .. Wrap - 1
    /\ DOMAIN slots = 0 .. Size - 1
    /\ vmec.vcpu \in VCPUs \union {0} /\ vmec.payload \subseteq {"gfn", "insn_length", "type", "msr",
          "new_value", "old_value"} \union Reasons

(* The ring is a queue: whatever the indices wrap around to, requests are  *)
(* taken in the order Xen put them there, each slot is published once as   *)
(* the response of the vCPU whose request it held, also when the handler   *)
(* of an earlier request failed, and no request is overwritten before it   *)
(* is taken (ring_get_request_and_response_N, RING_PUSH_RESPONSES).        *)
Queue == INSTANCE VmEventQueue WITH
    raised <- [n \in 1 .. Distance(req_cons, req_prod) |-> Slot(Plus(req_cons, n - 1)).vcpu],
    taken <- [n \in 1 .. Distance(rsp_prod, req_cons) |-> Slot(Plus(rsp_prod, n - 1)).vcpu],
    answered <- [n \in 1 .. Distance(rsp_cons, rsp_prod) |-> Slot(Plus(rsp_cons, n - 1)).vcpu]
RingIsQueue == Queue!QueueSpec

(* A response that sets registers sets them to what was read from the same *)
(* vCPU, in every version and for every register the version has: none is  *)
(* left over from a request that the same call handled before, although    *)
(* vmec is not cleared between requests and version 7 does not copy all    *)
(* its registers back.                                                     *)
OwnRegisters ==
    \A i \in Indices(rsp_cons, rsp_prod) :
       "set_registers" \in Slot(i).flags => \A g \in Registers(abi) : Slot(i).regs[g] = Slot(i).vcpu

(* Whatever payload a request carries in its version reaches the handler   *)
(* that reads it: no process_requests_N forgets a field or a reason.       *)
OwnPayload ==
    at = "handle" => Carried(abi, vmec.reason) \intersect Reads(vmec.reason) \subseteq vmec.payload

(* What goes to a handler and comes back from it belongs to its request.   *)
OwnData == TypeOK /\ OwnRegisters /\ OwnPayload
=============================================================================
