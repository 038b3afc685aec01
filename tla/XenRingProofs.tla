---------------------------- MODULE XenRingProofs ---------------------------
(***************************************************************************)
(* The shared ring, for every size, range of the indices, number of vCPUs  *)
(* and version: it is the queue VmEventQueue, and what goes to a handler   *)
(* and comes back from it belongs to its request.                          *)
(***************************************************************************)
EXTENDS XenRing, Integers, TLAPS

-----------------------------------------------------------------------------
(* Sequences. *)

\* The empty sequence, and the only sequence without elements.
LEMMA EmptySequence ==
  ASSUME NEW S
  PROVE  /\ <<>> \in Seq(S) /\ Len(<<>>) = 0
         /\ \A s \in Seq(S) : s # <<>> => Len(s) \in Nat \ {0}
OBVIOUS

\* Sequences with the same elements in the same places.
LEMMA SameSequence ==
  ASSUME NEW S, NEW s \in Seq(S), NEW t \in Seq(S),
         Len(s) = Len(t), \A i \in 1..Len(s) : s[i] = t[i]
  PROVE  s = t
OBVIOUS

\* The elements of a concatenation.
LEMMA Concatenation ==
  ASSUME NEW S, NEW s \in Seq(S), NEW t \in Seq(S)
  PROVE  /\ s \o t \in Seq(S) /\ Len(s \o t) = Len(s) + Len(t)
         /\ \A i \in 1..Len(s) + Len(t) :
              (s \o t)[i] = IF i <= Len(s) THEN s[i] ELSE t[i - Len(s)]
OBVIOUS

-----------------------------------------------------------------------------
(* Arithmetic of the indices. *)

\* Division with a remainder.
LEMMA Division ==
  ASSUME NEW x \in Nat, NEW s \in Nat \ {0}
  PROVE  \E q \in Nat, r \in 0 .. s - 1 : r = x % s /\ x = s * q + r
<1>1. x \div s \in Nat /\ x % s \in 0 .. s - 1
  OBVIOUS
<1>2. PICK q \in Nat, r \in 0 .. s - 1 : q = x \div s /\ r = x % s
  BY <1>1
<1>3. x = s * q + r
  BY <1>2
<1> QED BY <1>2, <1>3, ZenonT(40)

\* The remainder is unique.
LEMMA Remainder ==
  ASSUME NEW s \in Nat \ {0}, NEW q \in Nat, NEW r \in 0 .. s - 1
  PROVE  (s * q + r) % s = r
OBVIOUS

\* An index that has been advanced by at most one round.
LEMMA PlusIs ==
  ASSUME NEW i \in 0 .. Wrap - 1, NEW n \in 0 .. Wrap
  PROVE  Plus(i, n) = (IF i + n < Wrap THEN i + n ELSE i + n - Wrap) /\ Plus(i, n) \in 0 .. Wrap - 1
BY RingAssumption DEF Plus

\* The way from one index to another.
LEMMA DistanceIs ==
  ASSUME NEW i \in 0 .. Wrap - 1, NEW j \in 0 .. Wrap - 1
  PROVE  /\ Distance(i, j) = (IF i <= j THEN j - i ELSE j + Wrap - i)
         /\ Distance(i, j) \in 0 .. Wrap - 1
BY RingAssumption DEF Distance

\* Going round the whole range of an index ends at the same slot.
LEMMA SameSlot ==
  ASSUME NEW x \in Nat
  PROVE  (x + Wrap) % Size = x % Size
<1>1. PICK q \in Nat, r \in 0 .. Size - 1 : r = x % Size /\ x = Size * q + r
  BY Division, RingAssumption, ZenonT(40)
<1>2. PICK p \in Nat, z \in 0 .. Size - 1 : z = Wrap % Size /\ Wrap = Size * p + z
  BY Division, RingAssumption
<1>3. x = Size * q + r
  BY <1>1
<1>4. Wrap = Size * p
  BY <1>2, RingAssumption
<1>5. Size * (q + p) = Size * q + Size * p
  BY RingAssumption
<1>6. x + Wrap = Size * (q + p) + r
  BY <1>3, <1>4, <1>5, RingAssumption
<1>7. (Size * (q + p) + r) % Size = r
  BY Remainder, RingAssumption
<1> QED BY <1>1, <1>6, <1>7

\* Fewer than Size steps never end at the slot they started from.
LEMMA OtherSlot ==
  ASSUME NEW x \in Nat, NEW k \in 1 .. Size - 1
  PROVE  (x + k) % Size # x % Size
<1> SUFFICES ASSUME (x + k) % Size = x % Size PROVE FALSE
  OBVIOUS
<1>1. PICK q \in Nat, r \in 0 .. Size - 1 : r = x % Size /\ x = Size * q + r
  BY Division, RingAssumption, ZenonT(40)
<1>2. PICK p \in Nat, z \in 0 .. Size - 1 : z = (x + k) % Size /\ x + k = Size * p + z
  <2>1. x + k \in Nat
    BY RingAssumption
  <2> QED BY <2>1, Division, RingAssumption, ZenonT(40)
<1>3. z = r /\ x = Size * q + r /\ x + k = Size * p + z
  BY <1>1, <1>2
<1>4. Size * p = Size * q + k
  BY <1>3, RingAssumption
<1>5. CASE p <= q
  <2>1. Size * p <= Size * q
    BY <1>5, RingAssumption
  <2> QED BY <1>4, <2>1, RingAssumption
<1>6. CASE p >= q + 1
  <2>1. Size * p >= Size * (q + 1) /\ Size * (q + 1) = Size * q + Size
    BY <1>6, RingAssumption
  <2> QED BY <1>4, <2>1, RingAssumption
<1> QED BY <1>5, <1>6

\* Two of Size consecutive indices have different slots, wrapped around or not.
LEMMA Distinct ==
  ASSUME NEW i \in 0 .. Wrap - 1, NEW k \in 0 .. Size - 1, NEW m \in 0 .. Size - 1,
         Plus(i, k) % Size = Plus(i, m) % Size
  PROVE  k = m
<1>0. Size \in Nat \ {0} /\ Wrap \in Nat /\ Wrap > Size
  BY RingAssumption
<1>1. ASSUME NEW n \in 0 .. Size - 1 PROVE Plus(i, n) % Size = (i + n) % Size
  <2>1. n \in 0 .. Wrap
    BY <1>0
  <2>2. CASE i + n < Wrap
    BY <2>1, <2>2, PlusIs
  <2>3. CASE ~(i + n < Wrap)
    <3>1. Plus(i, n) = i + n - Wrap /\ i + n - Wrap \in Nat
      BY <1>0, <2>1, <2>3, PlusIs
    <3>2. (i + n - Wrap + Wrap) % Size = (i + n - Wrap) % Size
      BY <3>1, SameSlot
    <3>3. i + n - Wrap + Wrap = i + n
      BY <1>0
    <3> QED BY <3>1, <3>2, <3>3
  <2> QED BY <2>2, <2>3
<1>2. (i + k) % Size = (i + m) % Size
  BY <1>1
<1>3. ASSUME NEW a \in 0 .. Size - 1, NEW b \in 0 .. Size - 1, a < b
      PROVE  (i + a) % Size # (i + b) % Size
  <2>1. i + a \in Nat /\ b - a \in 1 .. Size - 1 /\ i + a + (b - a) = i + b
    BY <1>0, <1>3
  <2>2. (i + a + (b - a)) % Size # (i + a) % Size
    BY <2>1, OtherSlot
  <2> QED BY <2>1, <2>2
<1> QED BY <1>0, <1>2, <1>3

\* Advancing twice.
LEMMA PlusPlus ==
  ASSUME NEW i \in 0 .. Wrap - 1, NEW n \in Nat, NEW m \in Nat, n + m <= Wrap
  PROVE  Plus(Plus(i, n), m) = Plus(i, n + m)
<1>1. n \in 0 .. Wrap /\ m \in 0 .. Wrap /\ n + m \in 0 .. Wrap
  BY RingAssumption
<1>2. Plus(i, n) \in 0 .. Wrap - 1
  BY <1>1, PlusIs
<1>3. Plus(i, n) = IF i + n < Wrap THEN i + n ELSE i + n - Wrap
  BY <1>1, PlusIs
<1>4. Plus(Plus(i, n), m) = IF Plus(i, n) + m < Wrap THEN Plus(i, n) + m ELSE Plus(i, n) + m - Wrap
  BY <1>1, <1>2, PlusIs
<1>5. Plus(i, n + m) = IF i + (n + m) < Wrap THEN i + (n + m) ELSE i + (n + m) - Wrap
  BY <1>1, PlusIs
<1> QED BY <1>2, <1>3, <1>4, <1>5, RingAssumption

\* From i, the distance to j leads to j.
LEMMA PlusDistance ==
  ASSUME NEW i \in 0 .. Wrap - 1, NEW j \in 0 .. Wrap - 1
  PROVE  Plus(i, Distance(i, j)) = j
<1> DEFINE n == Distance(i, j)
<1>1. n = (IF i <= j THEN j - i ELSE j + Wrap - i) /\ n \in 0 .. Wrap - 1
  BY DistanceIs
<1> HIDE DEF n
<1>2. Plus(i, n) = IF i + n < Wrap THEN i + n ELSE i + n - Wrap
  BY <1>1, PlusIs, RingAssumption
<1>3. Plus(i, n) = j
  BY <1>1, <1>2, RingAssumption
<1> QED BY <1>3 DEF n

\* And the distance to what lies n ahead is n.
LEMMA DistancePlus ==
  ASSUME NEW i \in 0 .. Wrap - 1, NEW n \in 0 .. Wrap - 1
  PROVE  Distance(i, Plus(i, n)) = n
<1>1. Plus(i, n) = (IF i + n < Wrap THEN i + n ELSE i + n - Wrap) /\ Plus(i, n) \in 0 .. Wrap - 1
  BY PlusIs, RingAssumption
<1>2. Distance(i, Plus(i, n)) = IF i <= Plus(i, n) THEN Plus(i, n) - i ELSE Plus(i, n) + Wrap - i
  BY <1>1, DistanceIs, ZenonT(40)
<1> QED BY <1>1, <1>2, RingAssumption

-----------------------------------------------------------------------------
(* The layout of the ring. *)

(***************************************************************************)
(* From rsp_cons on, the slots hold answered responses, then requests that *)
(* have been taken, then requests that have not, and there are never more  *)
(* of them than slots.  The listener takes a request and the place of its  *)
(* response together.                                                      *)
(***************************************************************************)
Answered == Distance(rsp_cons, rsp_prod)
Taken == Distance(rsp_prod, req_cons)
Raised == Distance(req_cons, req_prod)

Layout ==
  /\ {req_prod, rsp_prod, req_cons, rsp_prod_pvt, rsp_cons} \subseteq 0 .. Wrap - 1
  /\ rsp_prod_pvt = req_cons
  /\ Answered + Taken + Raised <= Size
  /\ at \in {"handle", "push"} => Taken > 0

\* The k-th slot from rsp_cons on.
Held(k) == Slot(Plus(rsp_cons, k))

\* The layout in offsets from rsp_cons.
LEMMA Offsets ==
  ASSUME Layout
  PROVE  /\ Answered \in Nat /\ Taken \in Nat /\ Raised \in Nat
         /\ rsp_prod = Plus(rsp_cons, Answered)
         /\ req_cons = Plus(rsp_cons, Answered + Taken)
         /\ req_prod = Plus(rsp_cons, Answered + Taken + Raised)
         /\ Distance(rsp_cons, req_prod) = Answered + Taken + Raised
         /\ Unconsumed = Raised
<1>0. Size \in Nat \ {0} /\ Wrap \in Nat /\ Wrap > Size
  BY RingAssumption
<1>1. /\ req_prod \in 0 .. Wrap - 1 /\ rsp_prod \in 0 .. Wrap - 1 /\ req_cons \in 0 .. Wrap - 1
      /\ rsp_cons \in 0 .. Wrap - 1 /\ rsp_prod_pvt = req_cons
  BY DEF Layout
<1>2. Answered \in Nat /\ Taken \in Nat /\ Raised \in Nat
  <2>1. Answered \in 0 .. Wrap - 1
    BY <1>1, DistanceIs DEF Answered
  <2>2. Taken \in 0 .. Wrap - 1
    BY <1>1, DistanceIs DEF Taken
  <2>3. Raised \in 0 .. Wrap - 1
    BY <1>1, DistanceIs DEF Raised
  <2> QED BY <1>0, <2>1, <2>2, <2>3
<1>3. Answered + Taken + Raised <= Size
  BY DEF Layout
<1>4. rsp_prod = Plus(rsp_cons, Answered)
  BY <1>1, PlusDistance DEF Answered
<1>5. req_cons = Plus(rsp_prod, Taken)
  BY <1>1, PlusDistance DEF Taken
<1>6. req_prod = Plus(req_cons, Raised)
  BY <1>1, PlusDistance DEF Raised
<1>7. req_cons = Plus(rsp_cons, Answered + Taken)
  BY <1>0, <1>1, <1>2, <1>3, <1>4, <1>5, PlusPlus
<1>8. req_prod = Plus(rsp_cons, Answered + Taken + Raised)
  BY <1>0, <1>1, <1>2, <1>3, <1>6, <1>7, PlusPlus
<1>9. Distance(rsp_cons, req_prod) = Answered + Taken + Raised
  <2>1. Answered + Taken + Raised \in 0 .. Wrap - 1
    BY <1>0, <1>2, <1>3
  <2> QED BY <1>1, <1>8, <2>1, DistancePlus
<1>10. Unconsumed = Raised
  <2>1. Distance(rsp_prod_pvt, req_cons) = 0
    BY <1>0, <1>1, DistanceIs
  <2> QED BY <1>0, <1>2, <1>3, <2>1 DEF Unconsumed, Raised
<1> QED BY <1>2, <1>4, <1>7, <1>8, <1>9, <1>10

\* Different offsets, different slots.
LEMMA Apart ==
  ASSUME Layout, NEW k \in 0 .. Size - 1, NEW m \in 0 .. Size - 1, k # m
  PROVE  Plus(rsp_cons, k) % Size # Plus(rsp_cons, m) % Size
BY Distinct DEF Layout

-----------------------------------------------------------------------------
(* What the slots and vmec hold. *)

Flags == {"paused", "set_registers", "emulate"}
Fields == {"gfn", "insn_length", "type", "msr", "new_value", "old_value"} \union Reasons
Slots == [vcpu : VCPUs \union {0}, reason : Reasons \union {"none"}, flags : SUBSET Flags,
          regs : [Groups -> VCPUs \union {0}]]
Requests == [vcpu : VCPUs \union {0}, reason : Reasons \union {"none"}, flags : SUBSET Flags,
             regs : [Groups -> VCPUs \union {0}], payload : SUBSET Fields]

Types ==
  /\ abi \in 1..7 /\ each \in Each /\ at \in {"idle", "loop", "handle", "push"} /\ notified \in BOOLEAN
  /\ slots \in [0 .. Size - 1 -> Slots]
  /\ vmec \in Requests

\* A request as Xen wrote it.
Asked(s) ==
  /\ s.vcpu \in VCPUs /\ s.reason \in Reasons /\ s.flags = {"paused"}
  /\ \A g \in Registers(abi) : s.regs[g] = s.vcpu

\* A response that sets no register to anything but what its own vCPU had.
Own(s) ==
  /\ s.vcpu \in VCPUs
  /\ "set_registers" \in s.flags => \A g \in Registers(abi) : s.regs[g] = s.vcpu

(***************************************************************************)
(* A slot keeps the request it was given until the response is written,    *)
(* also when its handler has failed; vmec belongs to the slot taken last.  *)
(***************************************************************************)
Contents ==
  /\ \A k \in 0 .. Answered + Taken + Raised - 1 :
       /\ Own(Held(k)) /\ (k >= Answered => Asked(Held(k)))
       /\ at \in {"handle", "push"} /\ k = Answered + Taken - 1 => vmec.vcpu = Held(k).vcpu
  /\ at \in {"handle", "push"} =>
       /\ "set_registers" \in vmec.flags => "emulate" \notin vmec.flags
       /\ "emulate" \notin vmec.flags => \A g \in Registers(abi) : vmec.regs[g] = vmec.vcpu
  /\ at = "handle" =>
       vmec.flags = {"paused"} /\ vmec.reason \in Reasons /\ vmec.payload = Payload(abi, vmec.reason)

IInv == Layout /\ Types /\ Contents

\* Each version copies in every register it has, and back none that it does not.
LEMMA Versions ==
  ASSUME NEW n \in 1..7
  PROVE  RegsIn[n] = Registers(n) /\ RegsOut[n] \subseteq Registers(n) /\ Registers(n) \subseteq Groups
<1> USE DEF RegsIn, RegsOut, Registers, Groups
<1>1. CASE n = 1
  BY <1>1 DEF RegsIn_1, RegsOut_1
<1>2. CASE n = 2
  BY <1>2 DEF RegsIn_2, RegsOut_2
<1>3. CASE n = 3
  BY <1>3 DEF RegsIn_3, RegsOut_3
<1>4. CASE n = 4
  BY <1>4 DEF RegsIn_4, RegsOut_4
<1>5. CASE n = 5
  BY <1>5 DEF RegsIn_5, RegsOut_5
<1>6. CASE n = 6
  BY <1>6 DEF RegsIn_6, RegsOut_6
<1>7. CASE n = 7
  BY <1>7 DEF RegsIn_7, RegsOut_7
<1> QED BY <1>1, <1>2, <1>3, <1>4, <1>5, <1>6, <1>7

\* The payload that a version copies in.
LEMMA PayloadOf ==
  ASSUME NEW n \in 1..7, NEW reason
  PROVE  Payload(n, reason) = CASE n = 1 -> Payload_1(reason) [] n = 2 -> Payload_2(reason)
                                [] n \in 3..6 -> Payload_3(reason) [] n = 7 -> Payload_7(reason)
BY DEF Payload, Payload_4, Payload_5, Payload_6

\* Every field of a payload that a handler reads is copied in.
LEMMA Payloads ==
  ASSUME NEW n \in 1..7, NEW reason \in Reasons
  PROVE  /\ Carried(n, reason) \intersect Reads(reason) \subseteq Payload(n, reason)
         /\ Payload(n, reason) \subseteq Fields
<1>1. CASE reason = "mem_access"
  <2>1. /\ Payload_1(reason) = {reason} /\ Payload_2(reason) = {reason}
        /\ Payload_3(reason) = {reason} /\ Payload_7(reason) = {reason}
    BY <1>1 DEF Payload_1, Payload_2, Payload_3, Payload_7, Whole
  <2>2. Payload(n, reason) = {reason} /\ Reads(reason) = {reason}
    BY <1>1, <2>1, PayloadOf DEF Reads
  <2> QED BY <2>2 DEF Fields
<1>2. CASE reason = "write_ctrlreg"
  <2>1. /\ Payload_1(reason) = {reason} /\ Payload_2(reason) = {reason}
        /\ Payload_3(reason) = {reason} /\ Payload_7(reason) = {reason}
    BY <1>2 DEF Payload_1, Payload_2, Payload_3, Payload_7, Whole
  <2>2. Payload(n, reason) = {reason} /\ Reads(reason) = {reason}
    BY <1>2, <2>1, PayloadOf DEF Reads
  <2> QED BY <2>2 DEF Fields
<1>3. CASE reason = "mov_to_msr"
  BY <1>3, PayloadOf DEF Carried, Reads, Payload_1, Payload_2, Payload_3, Payload_7, Whole, Fields
<1>4. CASE reason = "singlestep"
  BY <1>4, PayloadOf DEF Carried, Reads, Payload_1, Payload_2, Payload_3, Payload_7, Whole, Fields
<1>5. CASE reason = "software_breakpoint"
  BY <1>5, PayloadOf DEF Carried, Reads, Payload_1, Payload_2, Payload_3, Payload_7, Whole, Fields
<1>6. CASE reason = "debug_exception"
  BY <1>6, PayloadOf DEF Carried, Reads, Payload_1, Payload_2, Payload_3, Payload_7, Whole, Fields
<1>7. CASE reason = "interrupt"
  <2>1. /\ Payload_1(reason) = {} /\ Payload_2(reason) = {reason}
        /\ Payload_3(reason) = {reason} /\ Payload_7(reason) = {reason}
    BY <1>7 DEF Payload_1, Payload_2, Payload_3, Payload_7, Whole
  <2>2. Payload(n, reason) = IF n = 1 THEN {} ELSE {reason}
    BY <2>1, PayloadOf
  <2>3. Carried(n, reason) = IF n = 1 THEN {} ELSE {reason}
    BY <1>7 DEF Carried
  <2> QED BY <2>2, <2>3 DEF Fields
<1>8. CASE reason = "cpuid"
  <2>1. /\ Payload_1(reason) = {} /\ Payload_2(reason) = {reason}
        /\ Payload_3(reason) = {reason} /\ Payload_7(reason) = {reason}
    BY <1>8 DEF Payload_1, Payload_2, Payload_3, Payload_7, Whole
  <2>2. Payload(n, reason) = IF n = 1 THEN {} ELSE {reason}
    BY <2>1, PayloadOf
  <2>3. Carried(n, reason) = IF n = 1 THEN {} ELSE {reason}
    BY <1>8 DEF Carried
  <2> QED BY <2>2, <2>3 DEF Fields
<1>9. CASE reason = "desc_access"
  BY <1>9, PayloadOf DEF Carried, Reads, Payload_1, Payload_2, Payload_3, Payload_7, Whole, Fields
<1>10. CASE reason = "vmexit"
  BY <1>10, PayloadOf DEF Carried, Reads, Payload_1, Payload_2, Payload_3, Payload_7, Whole, Fields
<1> QED BY <1>1, <1>2, <1>3, <1>4, <1>5, <1>6, <1>7, <1>8, <1>9, <1>10, ReasonAssumption

-----------------------------------------------------------------------------
(* How each operation moves the indices. *)

\* The far end of a distance advances.
LEMMA Advance ==
  ASSUME NEW i \in 0 .. Wrap - 1, NEW j \in 0 .. Wrap - 1, Distance(i, j) < Wrap - 1
  PROVE  Plus(j, 1) \in 0 .. Wrap - 1 /\ Distance(i, Plus(j, 1)) = Distance(i, j) + 1
<1> DEFINE n == Distance(i, j)
<1>1. n \in 0 .. Wrap - 1 /\ j = Plus(i, n)
  BY DistanceIs, PlusDistance
<1> HIDE DEF n
<1>2. Plus(j, 1) \in 0 .. Wrap - 1
  <2>1. 1 \in 0 .. Wrap
    BY RingAssumption
  <2> QED BY <2>1, PlusIs
<1>3. n < Wrap - 1
  BY DEF n
<1>4. n \in Nat /\ n + 1 \in 0 .. Wrap - 1 /\ n + 1 <= Wrap
  BY <1>1, <1>3, RingAssumption
<1>5. Plus(j, 1) = Plus(i, n + 1)
  BY <1>1, <1>4, PlusPlus
<1>6. Distance(i, Plus(j, 1)) = n + 1
  BY <1>4, <1>5, DistancePlus
<1> QED BY <1>2, <1>6 DEF n

\* The near end of a distance advances.
LEMMA Retire ==
  ASSUME NEW i \in 0 .. Wrap - 1, NEW j \in 0 .. Wrap - 1, Distance(i, j) > 0
  PROVE  Plus(i, 1) \in 0 .. Wrap - 1 /\ Distance(Plus(i, 1), j) = Distance(i, j) - 1
<1> DEFINE n == Distance(i, j)
<1>1. n \in 0 .. Wrap - 1 /\ j = Plus(i, n) /\ n > 0
  BY DistanceIs, PlusDistance
<1> HIDE DEF n
<1>2. Plus(i, 1) \in 0 .. Wrap - 1
  <2>1. 1 \in 0 .. Wrap
    BY RingAssumption
  <2> QED BY <2>1, PlusIs
<1>3. n - 1 \in 0 .. Wrap - 1 /\ n - 1 \in Nat /\ 1 + (n - 1) = n /\ n <= Wrap
  BY <1>1, RingAssumption
<1>4. Plus(Plus(i, 1), n - 1) = Plus(i, 1 + (n - 1))
  BY <1>3, PlusPlus
<1>5. Distance(Plus(i, 1), Plus(Plus(i, 1), n - 1)) = n - 1
  BY <1>2, <1>3, DistancePlus
<1>6. Distance(Plus(i, 1), j) = n - 1
  BY <1>1, <1>3, <1>4, <1>5
<1> QED BY <1>2, <1>6 DEF n

\* No distance, the same index.
LEMMA NoDistance ==
  ASSUME NEW i \in 0 .. Wrap - 1, NEW j \in 0 .. Wrap - 1
  PROVE  Distance(i, j) = 0 <=> i = j
<1>1. Wrap \in Nat
  BY RingAssumption
<1>2. Distance(i, j) = IF i <= j THEN j - i ELSE j + Wrap - i
  BY DistanceIs
<1> QED BY <1>1, <1>2

\* The index before the one that lies k + 1 ahead lies k ahead.
LEMMA Before ==
  ASSUME NEW i \in 0 .. Wrap - 1, NEW k \in 0 .. Wrap - 2
  PROVE  Plus(Plus(i, k + 1), Wrap - 1) = Plus(i, k)
<1>0. Wrap \in Nat /\ Wrap > 1 /\ k + 1 \in 0 .. Wrap /\ k \in 0 .. Wrap /\ Wrap - 1 \in 0 .. Wrap
  BY RingAssumption
<1>1. /\ Plus(i, k + 1) = IF i + (k + 1) < Wrap THEN i + (k + 1) ELSE i + (k + 1) - Wrap
      /\ Plus(i, k + 1) \in 0 .. Wrap - 1
  BY <1>0, PlusIs
<1>2. Plus(Plus(i, k + 1), Wrap - 1) =
        IF Plus(i, k + 1) + (Wrap - 1) < Wrap THEN Plus(i, k + 1) + (Wrap - 1)
        ELSE Plus(i, k + 1) + (Wrap - 1) - Wrap
  BY <1>0, <1>1, PlusIs
<1>3. Plus(i, k) = IF i + k < Wrap THEN i + k ELSE i + k - Wrap
  BY <1>0, PlusIs
<1> QED BY <1>0, <1>1, <1>2, <1>3

\* Xen adds a request behind the others.
LEMMA PutMoves ==
  ASSUME IInv, NEW v \in VCPUs, NEW reason \in Reasons, Put(v, reason)
  PROVE  /\ Layout' /\ Answered' = Answered /\ Taken' = Taken /\ Raised' = Raised + 1
         /\ \A k \in 0 .. Answered + Taken + Raised :
              Held(k)' = IF k < Answered + Taken + Raised THEN Held(k)
                         ELSE [vcpu |-> v, reason |-> reason, flags |-> {"paused"},
                               regs |-> [g \in Groups |-> IF g \in Registers(abi) THEN v ELSE 0]]
<1> DEFINE N == Answered + Taken + Raised
<1>0. Size \in Nat \ {0} /\ Wrap \in Nat /\ Wrap > Size
  BY RingAssumption
<1>1. /\ req_prod \in 0 .. Wrap - 1 /\ rsp_prod \in 0 .. Wrap - 1 /\ req_cons \in 0 .. Wrap - 1
      /\ rsp_cons \in 0 .. Wrap - 1 /\ rsp_prod_pvt = req_cons
      /\ at \in {"handle", "push"} => Taken > 0
  BY DEF IInv, Layout
<1>2. /\ Answered \in Nat /\ Taken \in Nat /\ Raised \in Nat /\ N < Size
      /\ req_prod = Plus(rsp_cons, N)
  BY Offsets DEF IInv, Put
<1>3. Plus(req_prod, 1) \in 0 .. Wrap - 1 /\ Distance(req_cons, Plus(req_prod, 1)) = Raised + 1
  <2>1. Distance(req_cons, req_prod) < Wrap - 1
    BY <1>0, <1>2 DEF Raised
  <2> QED BY <1>1, <2>1, Advance DEF Raised
<1>4. Answered' = Answered /\ Taken' = Taken /\ Raised' = Raised + 1
  BY <1>3 DEF Put, Answered, Taken, Raised
<1>5. Layout'
  <2>1. Answered' + Taken' + Raised' <= Size
    BY <1>0, <1>2, <1>4
  <2> QED BY <1>1, <1>3, <1>4, <2>1 DEF Put, Layout
<1>6. slots \in [0 .. Size - 1 -> Slots] /\ Layout
  BY DEF IInv, Types
<1>7. ASSUME NEW k \in 0 .. N - 1 PROVE Held(k)' = Held(k)
  <2>1. k \in 0 .. Size - 1 /\ N \in 0 .. Size - 1 /\ k # N
    BY <1>0, <1>2
  <2>2. Plus(rsp_cons, k) % Size # Plus(rsp_cons, N) % Size
    BY <1>6, <2>1, Apart
  <2> QED BY <1>2, <1>6, <2>2 DEF Put, Held, Slot
<1>8. ASSUME NEW k \in {N}
      PROVE  Held(k)' = [vcpu |-> v, reason |-> reason, flags |-> {"paused"},
                         regs |-> [g \in Groups |-> IF g \in Registers(abi) THEN v ELSE 0]]
  <2>1. req_prod % Size \in 0 .. Size - 1
    BY <1>0, <1>1
  <2>2. k = N
    OBVIOUS
  <2>3. Plus(rsp_cons, k) % Size = req_prod % Size
    BY <1>2, <2>2
  <2> QED BY <1>6, <2>1, <2>3 DEF Put, Held, Slot
<1>9. \A k \in 0 .. N : (k < N /\ k \in 0 .. N - 1) \/ (~(k < N) /\ k \in {N})
  BY <1>2
<1> HIDE DEF N
<1> QED BY <1>4, <1>5, <1>7, <1>8, <1>9 DEF N

\* Indices and slots as they were: the layout too.
LEMMA RestMoves ==
  ASSUME IInv, UNCHANGED ring, at' \in {"handle", "push"} => at \in {"handle", "push"}
  PROVE  /\ Layout' /\ Answered' = Answered /\ Taken' = Taken /\ Raised' = Raised
         /\ \A k \in Nat : Held(k)' = Held(k)
<1>1. /\ UNCHANGED <<slots, req_prod, rsp_prod, req_cons, rsp_prod_pvt, rsp_cons>>
  BY DEF ring
<1>2. Answered' = Answered /\ Taken' = Taken /\ Raised' = Raised
  BY <1>1 DEF Answered, Taken, Raised
<1>3. Layout'
  BY <1>1, <1>2 DEF IInv, Layout
<1>4. \A k \in Nat : Held(k)' = Held(k)
  BY <1>1 DEF Held, Slot
<1> QED BY <1>2, <1>3, <1>4

\* The listener takes the oldest request together with the place of its response.
LEMMA GetMoves ==
  ASSUME IInv, Get
  PROVE  /\ Layout' /\ Answered' = Answered /\ Taken' = Taken + 1 /\ Raised' = Raised - 1 /\ Raised > 0
         /\ Slot(req_cons) = Held(Answered + Taken)
         /\ \A k \in Nat : Held(k)' = Held(k)
<1>0. Size \in Nat \ {0} /\ Wrap \in Nat /\ Wrap > Size
  BY RingAssumption
<1>1. /\ req_prod \in 0 .. Wrap - 1 /\ rsp_prod \in 0 .. Wrap - 1 /\ req_cons \in 0 .. Wrap - 1
      /\ rsp_cons \in 0 .. Wrap - 1 /\ rsp_prod_pvt = req_cons
      /\ Answered + Taken + Raised <= Size
  BY DEF IInv, Layout
<1>2. /\ Answered \in Nat /\ Taken \in Nat /\ Raised \in Nat /\ Raised > 0
      /\ req_cons = Plus(rsp_cons, Answered + Taken)
  BY Offsets DEF IInv, Get
<1>3. Plus(req_cons, 1) \in 0 .. Wrap - 1 /\ Distance(rsp_prod, Plus(req_cons, 1)) = Taken + 1
  <2>1. Distance(rsp_prod, req_cons) < Wrap - 1
    BY <1>0, <1>1, <1>2 DEF Taken
  <2> QED BY <1>1, <2>1, Advance DEF Taken
<1>4. Distance(Plus(req_cons, 1), req_prod) = Raised - 1
  <2>1. Distance(req_cons, req_prod) > 0
    BY <1>2 DEF Raised
  <2> QED BY <1>1, <2>1, Retire DEF Raised
<1>5. Answered' = Answered /\ Taken' = Taken + 1 /\ Raised' = Raised - 1
  BY <1>3, <1>4 DEF Get, ring_get_request_and_response, Answered, Taken, Raised
<1>6. Layout'
  <2>1. Answered' + Taken' + Raised' <= Size /\ Taken' > 0
    BY <1>0, <1>1, <1>2, <1>5
  <2> QED BY <1>1, <1>3, <2>1 DEF Get, ring_get_request_and_response, Layout
<1>7. \A k \in Nat : Held(k)' = Held(k)
  BY DEF Get, Held, Slot
<1>8. Slot(req_cons) = Held(Answered + Taken)
  BY <1>2 DEF Held
<1> QED BY <1>2, <1>5, <1>6, <1>7, <1>8

\* Every request taken is published, and the response of the last one written.
LEMMA PushMoves ==
  ASSUME IInv, Push
  PROVE  /\ Layout' /\ Answered' = Answered + Taken /\ Taken' = 0 /\ Raised' = Raised /\ Taken > 0
         /\ \A k \in 0 .. Answered + Taken + Raised - 1 :
              Held(k)' = IF k # Answered + Taken - 1 THEN Held(k) ELSE slots'[Response]
         /\ Response \in 0 .. Size - 1
         /\ slots[Response] = Held(Answered + Taken - 1)
<1> DEFINE L == Answered + Taken - 1
<1>0. Size \in Nat \ {0} /\ Wrap \in Nat /\ Wrap > Size
  BY RingAssumption
<1>1. /\ req_prod \in 0 .. Wrap - 1 /\ rsp_prod \in 0 .. Wrap - 1 /\ req_cons \in 0 .. Wrap - 1
      /\ rsp_cons \in 0 .. Wrap - 1 /\ rsp_prod_pvt = req_cons
      /\ Answered + Taken + Raised <= Size /\ Taken > 0
  BY DEF IInv, Layout, Push
<1>2. /\ Answered \in Nat /\ Taken \in Nat /\ Raised \in Nat
      /\ req_cons = Plus(rsp_cons, Answered + Taken)
  BY Offsets DEF IInv
<1>3. Distance(rsp_cons, req_cons) = Answered + Taken
  <2>1. Answered + Taken \in 0 .. Wrap - 1
    BY <1>0, <1>1, <1>2
  <2> QED BY <1>1, <1>2, <2>1, DistancePlus
<1>4. Distance(req_cons, req_cons) = 0
  BY <1>1, NoDistance
<1>5. Answered' = Answered + Taken /\ Taken' = 0 /\ Raised' = Raised
  BY <1>1, <1>3, <1>4 DEF Push, Answered, Taken, Raised
<1>6. Layout'
  <2>1. Answered' + Taken' + Raised' <= Size
    BY <1>0, <1>1, <1>2, <1>5
  <2>2. at' = "loop" /\ rsp_prod' = req_cons /\ UNCHANGED <<req_prod, req_cons, rsp_prod_pvt, rsp_cons>>
    BY <1>1 DEF Push
  <2> QED BY <1>1, <2>1, <2>2 DEF Layout
<1>7. L \in 0 .. Wrap - 2 /\ L + 1 = Answered + Taken /\ L \in 0 .. Size - 1
  BY <1>0, <1>1, <1>2
<1>8. Response = Plus(rsp_cons, L) % Size /\ Response \in 0 .. Size - 1
  <2>1. Plus(rsp_prod_pvt, Wrap - 1) = Plus(rsp_cons, L)
    BY <1>1, <1>2, <1>7, Before
  <2>2. L \in 0 .. Wrap
    BY <1>0, <1>7
  <2>3. Plus(rsp_cons, L) \in 0 .. Wrap - 1
    BY <1>1, <2>2, PlusIs
  <2> QED BY <1>0, <2>1, <2>3 DEF Response
<1>9. slots[Response] = Held(L)
  BY <1>8 DEF Held, Slot
<1>10. slots \in [0 .. Size - 1 -> Slots] /\ Layout
  BY DEF IInv, Types
<1>11. ASSUME NEW k \in 0 .. Answered + Taken + Raised - 1
       PROVE  Held(k)' = IF k # L THEN Held(k) ELSE slots'[Response]
  <2>1. k \in 0 .. Size - 1
    BY <1>0, <1>1, <1>2
  <2>2. CASE k = L
    <3>1. rsp_cons' = rsp_cons
      BY DEF Push
    <3> QED BY <1>8, <2>2, <3>1 DEF Held, Slot
  <2>3. CASE k # L
    <3>1. Plus(rsp_cons, k) % Size # Plus(rsp_cons, L) % Size
      BY <1>7, <1>10, <2>1, <2>3, Apart
    <3>2. Plus(rsp_cons, k) % Size # Response
      BY <1>8, <3>1
    <3> QED BY <1>10, <2>3, <3>2 DEF Push, Held, Slot
  <2> QED BY <2>2, <2>3
<1> QED BY <1>1, <1>5, <1>6, <1>8, <1>9, <1>11, SMTT(40)

\* Xen consumes the oldest response.
LEMMA ConsumeMoves ==
  ASSUME IInv, Consume, rsp_cons # rsp_prod
  PROVE  /\ Layout' /\ Answered' = Answered - 1 /\ Taken' = Taken /\ Raised' = Raised /\ Answered > 0
         /\ \A k \in 0 .. Answered + Taken + Raised - 2 : Held(k)' = Held(k + 1)
<1>0. Size \in Nat \ {0} /\ Wrap \in Nat /\ Wrap > Size
  BY RingAssumption
<1>1. /\ req_prod \in 0 .. Wrap - 1 /\ rsp_prod \in 0 .. Wrap - 1 /\ req_cons \in 0 .. Wrap - 1
      /\ rsp_cons \in 0 .. Wrap - 1 /\ rsp_prod_pvt = req_cons
      /\ Answered + Taken + Raised <= Size
      /\ at \in {"handle", "push"} => Taken > 0
  BY DEF IInv, Layout
<1>2. Answered \in Nat /\ Taken \in Nat /\ Raised \in Nat /\ Answered > 0
  BY <1>1, Offsets, NoDistance DEF IInv, Answered
<1>3. Plus(rsp_cons, 1) \in 0 .. Wrap - 1 /\ Distance(Plus(rsp_cons, 1), rsp_prod) = Answered - 1
  <2>1. Distance(rsp_cons, rsp_prod) > 0
    BY <1>2 DEF Answered
  <2> QED BY <1>1, <2>1, Retire DEF Answered
<1>4. /\ rsp_cons' = Plus(rsp_cons, 1) /\ slots' = [slots EXCEPT ![rsp_cons % Size] = Empty]
      /\ UNCHANGED <<req_prod, rsp_prod, req_cons, rsp_prod_pvt, at>>
  BY DEF Consume
<1>5. Answered' = Answered - 1 /\ Taken' = Taken /\ Raised' = Raised
  BY <1>3, <1>4 DEF Answered, Taken, Raised
<1>6. Layout'
  <2>1. Answered' + Taken' + Raised' <= Size
    BY <1>0, <1>1, <1>2, <1>5
  <2> QED BY <1>1, <1>3, <1>4, <1>5, <2>1 DEF Layout
<1>7. slots \in [0 .. Size - 1 -> Slots] /\ Layout
  BY DEF IInv, Types
<1>8. ASSUME NEW k \in 0 .. Answered + Taken + Raised - 2
      PROVE  Held(k)' = Held(k + 1)
  <2>1. k + 1 \in 0 .. Size - 1 /\ 0 \in 0 .. Size - 1 /\ k + 1 # 0 /\ k \in Nat /\ 1 + k <= Wrap /\ 1 + k = k + 1
    BY <1>0, <1>1, <1>2
  <2>2. Plus(rsp_cons, k + 1) % Size # Plus(rsp_cons, 0) % Size
    BY <1>7, <2>1, Apart
  <2>3. Plus(rsp_cons, 0) = rsp_cons
    BY <1>0, <1>1, PlusIs
  <2>4. Plus(rsp_cons', k) = Plus(rsp_cons, k + 1)
    BY <1>1, <1>4, <2>1, PlusPlus
  <2> QED BY <1>4, <1>7, <2>2, <2>3, <2>4 DEF Held, Slot
<1> QED BY <1>2, <1>5, <1>6, <1>8

-----------------------------------------------------------------------------
(* Every operation keeps the inductive invariant. *)

\* A slot that has not changed is still what it was.
LEMMA Keeps ==
  ASSUME abi' = abi, NEW CONSTANT k, NEW CONSTANT m, Held(k)' = Held(m)
  PROVE  (Own(Held(k))' <=> Own(Held(m))) /\ (Asked(Held(k))' <=> Asked(Held(m)))
BY DEF Own, Asked

\* A request as Xen wrote it asks for nothing to be set.
LEMMA AskedOwn ==
  ASSUME NEW s, Asked(s)
  PROVE  Own(s)
BY DEF Asked, Own

\* The part of the invariant that is about one slot.
LEMMA OneSlot ==
  ASSUME IInv, NEW k \in 0 .. Answered + Taken + Raised - 1
  PROVE  /\ Own(Held(k))
         /\ k >= Answered => Asked(Held(k))
         /\ at \in {"handle", "push"} /\ k = Answered + Taken - 1 => vmec.vcpu = Held(k).vcpu
<1>1. Contents
  BY DEF IInv
<1> QED BY <1>1 DEF Contents

LEMMA PutKeeps ==
  ASSUME IInv, NEW v \in VCPUs, NEW reason \in Reasons, Put(v, reason)
  PROVE  IInv'
<1> DEFINE N == Answered + Taken + Raised
           new == [vcpu |-> v, reason |-> reason, flags |-> {"paused"},
                   regs |-> [g \in Groups |-> IF g \in Registers(abi) THEN v ELSE 0]]
<1>1. /\ Layout' /\ Answered' = Answered /\ Taken' = Taken /\ Raised' = Raised + 1
      /\ \A k \in 0 .. N : Held(k)' = IF k < N THEN Held(k) ELSE new
  BY PutMoves
<1>2. UNCHANGED <<abi, each, vmec, at, notified>> /\ slots' = [slots EXCEPT ![req_prod % Size] = new]
  BY DEF Put
<1>3. Answered \in Nat /\ Taken \in Nat /\ Raised \in Nat
  BY Offsets DEF IInv
<1>4. new \in Slots
  BY VCPUAssumption DEF Slots, Flags
<1>5. Types'
  <2>1. slots' \in [0 .. Size - 1 -> Slots]
    BY <1>2, <1>4, ZenonT(40) DEF IInv, Types
  <2> QED BY <1>2, <2>1 DEF IInv, Types
<1>6. Asked(new)
  <2>1. Registers(abi) \subseteq Groups
    BY Versions DEF IInv, Types
  <2> QED BY <2>1 DEF Asked
<1>7. ASSUME NEW k \in 0 .. N
      PROVE  Own(Held(k))' /\ (k >= Answered => Asked(Held(k))')
  <2>1. CASE k < N
    <3>0. k \in 0 .. N - 1
      BY <1>3, <2>1
    <3>1. Held(k)' = Held(k)
      BY <1>1, <2>1
    <3>2. Own(Held(k)) /\ (k >= Answered => Asked(Held(k)))
      BY <1>3, <3>0, OneSlot
    <3> QED BY <1>2, <3>1, <3>2, Keeps
  <2>2. CASE ~(k < N)
    <3>1. Held(k)' = new
      BY <1>1, <2>2
    <3>2. Own(new)
      BY <1>6, AskedOwn
    <3> HIDE DEF new
    <3>3. Own(Held(k))' /\ Asked(Held(k))'
      BY <1>2, <1>6, <3>1, <3>2 DEF Own, Asked
    <3> QED BY <3>3
  <2> QED BY <2>1, <2>2
<1>8. Answered' + Taken' + Raised' - 1 = N
  BY <1>1, <1>3
<1>9. ASSUME NEW k \in 0 .. N, at \in {"handle", "push"}, k = Answered + Taken - 1
      PROVE  vmec.vcpu = Held(k)'.vcpu
  <2>1. k < N /\ k \in 0 .. N - 1
    BY <1>3, <1>9
  <2>2. vmec.vcpu = Held(k).vcpu
    BY <1>3, <1>9, <2>1, OneSlot
  <2> QED BY <1>1, <2>1, <2>2
<1> HIDE DEF N, new
<1>10. Contents'
  <2>1. Contents
    BY DEF IInv
  <2>2. \A k \in 0 .. Answered' + Taken' + Raised' - 1 : 
           /\ Own(Held(k))'
           /\ k >= Answered' => Asked(Held(k))'
           /\ at' \in {"handle", "push"} /\ k = Answered' + Taken' - 1 => vmec'.vcpu = Held(k)'.vcpu
    BY <1>1, <1>2, <1>7, <1>8, <1>9
  <2> QED BY <1>2, <2>1, <2>2 DEF Contents
<1> QED BY <1>1, <1>5, <1>10 DEF IInv

\* A step that leaves the ring alone keeps what is said of its slots.
LEMMA RestSlots ==
  ASSUME IInv, UNCHANGED <<abi, ring>>,
         at' \in {"handle", "push"} => at \in {"handle", "push"} /\ vmec'.vcpu = vmec.vcpu
  PROVE  /\ Layout'
         /\ \A k \in 0 .. Answered' + Taken' + Raised' - 1 :
              /\ Own(Held(k))'
              /\ k >= Answered' => Asked(Held(k))'
              /\ at' \in {"handle", "push"} /\ k = Answered' + Taken' - 1 => vmec'.vcpu = Held(k)'.vcpu
<1>1. /\ Layout' /\ Answered' = Answered /\ Taken' = Taken /\ Raised' = Raised
      /\ \A k \in Nat : Held(k)' = Held(k)
  BY RestMoves
<1>2. Answered \in Nat /\ Taken \in Nat /\ Raised \in Nat
  BY Offsets DEF IInv
<1>3. ASSUME NEW k \in 0 .. Answered + Taken + Raised - 1
      PROVE  /\ Own(Held(k))'
             /\ k >= Answered => Asked(Held(k))'
             /\ at' \in {"handle", "push"} /\ k = Answered + Taken - 1 => vmec'.vcpu = Held(k)'.vcpu
  <2>1. Held(k)' = Held(k)
    BY <1>1, <1>2
  <2>2. /\ Own(Held(k))
        /\ k >= Answered => Asked(Held(k))
        /\ at \in {"handle", "push"} /\ k = Answered + Taken - 1 => vmec.vcpu = Held(k).vcpu
    BY <1>2, OneSlot
  <2>3. (Own(Held(k))' <=> Own(Held(k))) /\ (Asked(Held(k))' <=> Asked(Held(k)))
    BY <2>1, Keeps
  <2> QED BY <2>1, <2>2, <2>3
<1> QED BY <1>1, <1>3

\* The end of a call, or its beginning: vmec holds nothing.
LEMMA CallKeeps ==
  ASSUME IInv, UNCHANGED <<abi, each, ring>>, at' \in {"idle", "loop"}, vmec' \in {NoRequest, vmec},
         notified' \in BOOLEAN
  PROVE  IInv'
<1>1. /\ Layout'
      /\ \A k \in 0 .. Answered' + Taken' + Raised' - 1 :
           /\ Own(Held(k))'
           /\ k >= Answered' => Asked(Held(k))'
           /\ at' \in {"handle", "push"} /\ k = Answered' + Taken' - 1 => vmec'.vcpu = Held(k)'.vcpu
  BY RestSlots
<1>2. NoRequest \in Requests
  BY DEF NoRequest, Zero, Requests, Flags
<1>3. Types'
  BY <1>2 DEF IInv, Types, ring
<1>4. Contents'
  BY <1>1 DEF Contents
<1> QED BY <1>1, <1>3, <1>4 DEF IInv

LEMMA HandleKeeps ==
  ASSUME IInv, NEW r \in {{}, {"set_registers"}, {"emulate"}}, Handle(r)
  PROVE  IInv'
<1>1. /\ at = "handle" /\ at' = "push" /\ UNCHANGED <<abi, each, ring, notified>>
      /\ vmec' = [vmec EXCEPT !.flags = {"paused"} \union r,
                              !.regs = IF "emulate" \in r THEN Zero ELSE @]
  BY DEF Handle
<1>2. vmec \in Requests
  BY DEF IInv, Types
<1>3. Zero \in [Groups -> VCPUs \union {0}] /\ {"paused"} \union r \in SUBSET Flags
  BY DEF Zero, Flags
<1>4. /\ vmec' \in Requests /\ vmec'.vcpu = vmec.vcpu /\ vmec'.flags = {"paused"} \union r
      /\ "emulate" \notin r => vmec'.regs = vmec.regs
  BY <1>1, <1>2, <1>3, ZenonT(40) DEF Requests
<1>5. /\ Layout'
      /\ \A k \in 0 .. Answered' + Taken' + Raised' - 1 :
           /\ Own(Held(k))'
           /\ k >= Answered' => Asked(Held(k))'
           /\ at' \in {"handle", "push"} /\ k = Answered' + Taken' - 1 => vmec'.vcpu = Held(k)'.vcpu
  BY <1>1, <1>4, RestSlots
<1>6. Types'
  BY <1>1, <1>4 DEF IInv, Types, ring
<1>7. Contents'
  <2>1. \A g \in Registers(abi) : vmec.regs[g] = vmec.vcpu
    BY <1>1 DEF IInv, Contents
  <2>2. "set_registers" \in vmec'.flags => "emulate" \notin vmec'.flags
    BY <1>4
  <2>3. "emulate" \notin vmec'.flags => \A g \in Registers(abi') : vmec'.regs[g] = vmec'.vcpu
    BY <1>1, <1>4, <2>1
  <2> QED BY <1>1, <1>5, <2>2, <2>3 DEF Contents
<1> QED BY <1>5, <1>6, <1>7 DEF IInv

LEMMA GetKeeps ==
  ASSUME IInv, Get
  PROVE  IInv'
<1> DEFINE request == Slot(req_cons)
<1>1. /\ Layout' /\ Answered' = Answered /\ Taken' = Taken + 1 /\ Raised' = Raised - 1 /\ Raised > 0
      /\ request = Held(Answered + Taken)
      /\ \A k \in Nat : Held(k)' = Held(k)
  BY GetMoves
<1>2. Answered \in Nat /\ Taken \in Nat /\ Raised \in Nat
  BY Offsets DEF IInv
<1>3. /\ at' = "handle" /\ UNCHANGED <<abi, each, slots, notified>>
      /\ vmec' = [vcpu |-> request.vcpu, reason |-> request.reason, flags |-> request.flags,
                  regs |-> [g \in Groups |-> IF g \in RegsIn[abi] THEN request.regs[g] ELSE vmec.regs[g]],
                  payload |-> Payload(abi, request.reason)]
  BY DEF Get
<1>4. Asked(request)
  <2>1. Answered + Taken \in 0 .. Answered + Taken + Raised - 1 /\ Answered + Taken >= Answered
    BY <1>1, <1>2
  <2>2. Asked(Held(Answered + Taken))
    BY <1>2, <2>1, OneSlot
  <2> QED BY <1>1, <2>2
<1>5. request \in Slots
  <2>1. req_cons % Size \in 0 .. Size - 1
    BY RingAssumption DEF IInv, Layout
  <2> QED BY <2>1 DEF Slot, IInv, Types
<1> HIDE DEF request
<1>6. /\ request.vcpu \in VCPUs /\ request.reason \in Reasons /\ request.flags = {"paused"}
      /\ \A g \in Registers(abi) : request.regs[g] = request.vcpu
  BY <1>4 DEF Asked
<1>7. RegsIn[abi] = Registers(abi) /\ Registers(abi) \subseteq Groups /\ Payload(abi, request.reason) \subseteq Fields
  BY <1>6, Versions, Payloads, SMTT(40) DEF IInv, Types
<1>8. vmec' \in Requests
  <2>1. request.regs \in [Groups -> VCPUs \union {0}] /\ vmec.regs \in [Groups -> VCPUs \union {0}]
    BY <1>5 DEF IInv, Types, Slots, Requests
  <2>2. vmec'.regs \in [Groups -> VCPUs \union {0}]
    BY <1>3, <2>1
  <2> QED BY <1>3, <1>6, <1>7, <2>2, ZenonT(40) DEF Requests, Flags
<1>9. Types'
  BY <1>3, <1>8, SMTT(40) DEF IInv, Types
<1>10. ASSUME NEW k \in 0 .. Answered + Taken + Raised - 1
       PROVE  Own(Held(k))' /\ (k >= Answered => Asked(Held(k))')
  <2>1. Held(k)' = Held(k)
    BY <1>1, <1>2
  <2>2. Own(Held(k)) /\ (k >= Answered => Asked(Held(k)))
    BY <1>2, OneSlot, SMTT(40)
  <2> QED BY <1>3, <2>1, <2>2, Keeps
<1>11. ASSUME NEW k \in 0 .. Answered + Taken + Raised - 1, k = Answered' + Taken' - 1
       PROVE  vmec'.vcpu = Held(k)'.vcpu
  <2>1. k = Answered + Taken
    BY <1>1, <1>2, <1>11, SMTT(40)
  <2> QED BY <1>1, <1>2, <1>3, <2>1
<1>12. Contents'
  <2>1. \A k \in 0 .. Answered' + Taken' + Raised' - 1 :
           /\ Own(Held(k))'
           /\ k >= Answered' => Asked(Held(k))'
           /\ at' \in {"handle", "push"} /\ k = Answered' + Taken' - 1 => vmec'.vcpu = Held(k)'.vcpu
    <3>1. Answered' + Taken' + Raised' - 1 = Answered + Taken + Raised - 1 /\ Answered' = Answered
      BY <1>1, <1>2, SMTT(40)
    <3> QED BY <1>10, <1>11, <3>1
  <2>2. \A g \in Registers(abi') : vmec'.regs[g] = vmec'.vcpu
    BY <1>3, <1>6, <1>7, SMTT(40)
  <2>3. /\ vmec'.flags = {"paused"} /\ vmec'.reason \in Reasons
        /\ vmec'.payload = Payload(abi', vmec'.reason)
    BY <1>3, <1>6
  <2> QED BY <1>3, <2>1, <2>2, <2>3, SMTT(40) DEF Contents
<1> QED BY <1>1, <1>9, <1>12 DEF IInv

LEMMA PushKeeps ==
  ASSUME IInv, Push
  PROVE  IInv'
<1> DEFINE old == slots[Response]
           kept == IF "emulate" \in vmec.flags THEN Zero ELSE old.regs
           copied == IF "set_registers" \in vmec.flags THEN RegsOut[abi] ELSE {}
           new == [vcpu |-> vmec.vcpu, reason |-> vmec.reason, flags |-> vmec.flags,
                   regs |-> [g \in Groups |-> IF g \in copied THEN vmec.regs[g] ELSE kept[g]]]
<1>1. /\ Layout' /\ Answered' = Answered + Taken /\ Taken' = 0 /\ Raised' = Raised /\ Taken > 0
      /\ \A k \in 0 .. Answered + Taken + Raised - 1 :
           Held(k)' = IF k # Answered + Taken - 1 THEN Held(k) ELSE slots'[Response]
      /\ Response \in 0 .. Size - 1
      /\ old = Held(Answered + Taken - 1)
  BY PushMoves
<1>2. Answered \in Nat /\ Taken \in Nat /\ Raised \in Nat
  BY Offsets DEF IInv
<1>3. /\ at = "push" /\ at' = "loop" /\ UNCHANGED <<abi, each, vmec>> /\ notified' = (notified \/ each)
      /\ slots' = [slots EXCEPT ![Response] = new]
  BY DEF Push
<1>4. slots \in [0 .. Size - 1 -> Slots] /\ vmec \in Requests /\ notified \in BOOLEAN /\ each \in BOOLEAN
  BY VCPUAssumption, SMTT(40) DEF IInv, Types
<1>5. old \in Slots /\ slots'[Response] = new
  BY <1>1, <1>3, <1>4, SMTT(40)
<1>6. Asked(old) /\ vmec.vcpu = old.vcpu
  <2>1. /\ Answered + Taken - 1 \in 0 .. Answered + Taken + Raised - 1
        /\ Answered + Taken - 1 >= Answered
    BY <1>1, <1>2
  <2>2. /\ Asked(Held(Answered + Taken - 1))
        /\ at \in {"handle", "push"} => vmec.vcpu = Held(Answered + Taken - 1).vcpu
    BY <1>2, <2>1, OneSlot
  <2> QED BY <1>1, <1>3, <2>2
<1> HIDE DEF old
<1>7. /\ old.vcpu \in VCPUs /\ old.regs \in [Groups -> VCPUs \union {0}]
      /\ \A g \in Registers(abi) : old.regs[g] = old.vcpu
  BY <1>5, <1>6 DEF Asked, Slots
<1>8. RegsOut[abi] \subseteq Registers(abi) /\ Registers(abi) \subseteq Groups
  BY Versions DEF IInv, Types
<1>9. new \in Slots
  <2>1. kept \in [Groups -> VCPUs \union {0}] /\ vmec.regs \in [Groups -> VCPUs \union {0}]
    BY <1>4, <1>7 DEF Zero, Requests
  <2> HIDE DEF kept, copied
  <2>2. new.regs \in [Groups -> VCPUs \union {0}]
    BY <2>1
  <2>3. vmec.vcpu \in VCPUs \union {0} /\ vmec.reason \in Reasons \union {"none"} /\ vmec.flags \in SUBSET Flags
    BY <1>4 DEF Requests
  <2> QED BY <2>2, <2>3 DEF Slots
<1>10. Own(new)
  <2>1. new.vcpu \in VCPUs /\ new.flags = vmec.flags /\ new.vcpu = vmec.vcpu
    BY <1>6, <1>7
  <2>2. ASSUME "set_registers" \in vmec.flags, NEW g \in Registers(abi)
        PROVE  new.regs[g] = vmec.vcpu
    <3>1. "emulate" \notin vmec.flags /\ vmec.regs[g] = vmec.vcpu
      BY <1>3, <2>2, SMTT(40) DEF IInv, Contents
    <3>2. kept[g] = vmec.vcpu /\ g \in Groups
      BY <1>6, <1>7, <1>8, <3>1
    <3> HIDE DEF kept, copied
    <3> QED BY <3>1, <3>2, SMTT(40)
  <2> HIDE DEF new
  <2> QED BY <2>1, <2>2, SMTT(40) DEF Own
<1> HIDE DEF new
<1>11. Types'
  <2>1. notified' \in BOOLEAN
    BY <1>3, <1>4
  <2>2. slots' \in [0 .. Size - 1 -> Slots]
    BY <1>3, <1>4, <1>9, ZenonT(40)
  <2> QED BY <1>3, <2>1, <2>2 DEF IInv, Types
<1>12. ASSUME NEW k \in 0 .. Answered + Taken + Raised - 1
       PROVE  Own(Held(k))' /\ (k >= Answered + Taken => Asked(Held(k))')
  <2>1. CASE k = Answered + Taken - 1
    <3>1. Held(k)' = new
      BY <1>1, <1>5, <2>1
    <3>2. Own(Held(k))'
      BY <1>3, <1>10, <3>1 DEF Own
    <3> QED BY <1>2, <2>1, <3>2
  <2>2. CASE k # Answered + Taken - 1
    <3>1. Held(k)' = Held(k)
      BY <1>1, <2>2
    <3>2. Own(Held(k)) /\ (k >= Answered => Asked(Held(k)))
      BY <1>2, OneSlot
    <3>3. k >= Answered + Taken => k >= Answered
      BY <1>2
    <3> QED BY <1>3, <3>1, <3>2, <3>3, Keeps
  <2> QED BY <2>1, <2>2
<1>13. Contents'
  <2>1. \A k \in 0 .. Answered' + Taken' + Raised' - 1 :
           Own(Held(k))' /\ (k >= Answered' => Asked(Held(k))')
    <3>1. Answered' + Taken' + Raised' - 1 = Answered + Taken + Raised - 1 /\ Answered' = Answered + Taken
      BY <1>1, <1>2
    <3> QED BY <1>12, <3>1
  <2> QED BY <1>3, <2>1 DEF Contents
<1> QED BY <1>1, <1>11, <1>13 DEF IInv

LEMMA ConsumeKeeps ==
  ASSUME IInv, Consume
  PROVE  IInv'
<1>1. CASE rsp_cons = rsp_prod
  <2>1. /\ UNCHANGED <<abi, each, vmec, at>> /\ notified' = FALSE
        /\ UNCHANGED <<slots, req_prod, rsp_prod, req_cons, rsp_prod_pvt, rsp_cons>>
    BY <1>1 DEF Consume
  <2>2. UNCHANGED ring
    BY <2>1 DEF ring
  <2>3. /\ Layout'
        /\ \A k \in 0 .. Answered' + Taken' + Raised' - 1 :
             /\ Own(Held(k))'
             /\ k >= Answered' => Asked(Held(k))'
             /\ at' \in {"handle", "push"} /\ k = Answered' + Taken' - 1 => vmec'.vcpu = Held(k)'.vcpu
    BY <2>1, <2>2, RestSlots
  <2>4. Types'
    BY <2>1, ZenonT(40) DEF IInv, Types
  <2>5. Contents'
    <3>1. Contents
      BY DEF IInv
    <3> QED BY <2>1, <2>3, <3>1 DEF Contents
  <2> QED BY <2>3, <2>4, <2>5 DEF IInv
<1>2. CASE rsp_cons # rsp_prod
  <2>1. /\ Layout' /\ Answered' = Answered - 1 /\ Taken' = Taken /\ Raised' = Raised /\ Answered > 0
        /\ \A k \in 0 .. Answered + Taken + Raised - 2 : Held(k)' = Held(k + 1)
    BY <1>2, ConsumeMoves
  <2>2. Answered \in Nat /\ Taken \in Nat /\ Raised \in Nat
    BY Offsets DEF IInv
  <2>3. /\ UNCHANGED <<abi, each, vmec, at, notified>>
        /\ slots' = [slots EXCEPT ![rsp_cons % Size] = Empty]
    BY <1>2 DEF Consume
  <2>4. Types'
    <3>1. Empty \in Slots
      BY DEF Empty, Zero, Slots, Flags
    <3> QED BY <2>3, <3>1, ZenonT(40) DEF IInv, Types
  <2>5. ASSUME NEW k \in 0 .. Answered + Taken + Raised - 2
        PROVE  /\ Own(Held(k))'
               /\ k >= Answered - 1 => Asked(Held(k))'
               /\ at \in {"handle", "push"} /\ k = Answered - 1 + Taken - 1 => vmec.vcpu = Held(k)'.vcpu
    <3>1. Held(k)' = Held(k + 1)
      BY <2>1
    <3>2. k + 1 \in 0 .. Answered + Taken + Raised - 1
      BY <2>2
    <3>3. /\ Own(Held(k + 1))
          /\ k + 1 >= Answered => Asked(Held(k + 1))
          /\ at \in {"handle", "push"} /\ k + 1 = Answered + Taken - 1 => vmec.vcpu = Held(k + 1).vcpu
      BY <2>2, <3>2, OneSlot
    <3>4. (Own(Held(k))' <=> Own(Held(k + 1))) /\ (Asked(Held(k))' <=> Asked(Held(k + 1)))
      BY <2>3, <3>1, Keeps
    <3>5. /\ k >= Answered - 1 => k + 1 >= Answered
          /\ k = Answered - 1 + Taken - 1 => k + 1 = Answered + Taken - 1
      BY <2>2, SMTT(40)
    <3> QED BY <3>1, <3>3, <3>4, <3>5
  <2>6. Contents'
    <3>1. Contents
      BY DEF IInv
    <3>2. Answered' + Taken' + Raised' - 1 = Answered + Taken + Raised - 2 /\ Answered' = Answered - 1 /\ Taken' = Taken
      BY <2>1, <2>2, SMTT(40)
    <3>3. \A k \in 0 .. Answered' + Taken' + Raised' - 1 :
             /\ Own(Held(k))'
             /\ k >= Answered' => Asked(Held(k))'
             /\ at' \in {"handle", "push"} /\ k = Answered' + Taken' - 1 => vmec'.vcpu = Held(k)'.vcpu
      BY <2>3, <2>5, <3>2
    <3> QED BY <2>3, <3>1, <3>3 DEF Contents
  <2> QED BY <2>1, <2>4, <2>6 DEF IInv
<1> QED BY <1>1, <1>2

LEMMA InvInit == Init => IInv
<1> SUFFICES ASSUME NEW n \in 1..7, init_events(n) PROVE IInv
  BY DEF Init
<1>1. /\ abi = n /\ each \in Each /\ slots = [i \in 0 .. Size - 1 |-> Empty]
      /\ req_prod = 0 /\ rsp_prod = 0 /\ req_cons = 0 /\ rsp_prod_pvt = 0 /\ rsp_cons = 0
      /\ vmec = NoRequest /\ at = "idle" /\ notified = FALSE
  BY DEF init_events
<1>2. 0 \in 0 .. Wrap - 1 /\ Size \in Nat
  BY RingAssumption
<1>3. Distance(0, 0) = 0
  BY <1>2, NoDistance
<1>4. Answered = 0 /\ Taken = 0 /\ Raised = 0
  BY <1>1, <1>3 DEF Answered, Taken, Raised
<1>5. Layout
  BY <1>1, <1>2, <1>4, SMTT(40) DEF Layout
<1>6. Types
  BY <1>1, ZenonT(40) DEF Types, Empty, NoRequest, Zero, Slots, Requests, Flags
<1>7. Contents
  <2>1. 0 .. Answered + Taken + Raised - 1 = {}
    BY <1>4
  <2> QED BY <1>1, <2>1 DEF Contents
<1> QED BY <1>5, <1>6, <1>7 DEF IInv

LEMMA InvNext == IInv /\ [Next]_vars => IInv'
<1> SUFFICES ASSUME IInv, [Next]_vars PROVE IInv'
  OBVIOUS
<1>0. each \in BOOLEAN /\ notified \in BOOLEAN
  BY VCPUAssumption DEF IInv, Types
<1>1. ASSUME NEW v \in VCPUs, NEW reason \in Reasons, Put(v, reason) PROVE IInv'
  BY <1>1, PutKeeps
<1>2. CASE Listen
  BY <1>0, <1>2, CallKeeps DEF Listen
<1>3. CASE Get
  BY <1>3, GetKeeps
<1>4. ASSUME NEW r \in {{}, {"set_registers"}, {"emulate"}}, Handle(r) PROVE IInv'
  BY <1>4, HandleKeeps
<1>5. CASE Push
  BY <1>5, PushKeeps
<1>6. CASE Return
  BY <1>0, <1>6, CallKeeps DEF Return
<1>7. CASE Fail
  BY <1>0, <1>7, CallKeeps DEF Fail
<1>8. CASE Consume
  BY <1>8, ConsumeKeeps
<1>9. CASE UNCHANGED vars
  <2>1. /\ UNCHANGED <<abi, ring>> /\ UNCHANGED <<each, vmec, at, notified>>
    BY <1>9 DEF vars, ring
  <2>2. /\ Layout'
        /\ \A k \in 0 .. Answered' + Taken' + Raised' - 1 :
             /\ Own(Held(k))'
             /\ k >= Answered' => Asked(Held(k))'
             /\ at' \in {"handle", "push"} /\ k = Answered' + Taken' - 1 => vmec'.vcpu = Held(k)'.vcpu
    BY <2>1, RestSlots
  <2>3. Types' /\ Contents
    BY <2>1, SMTT(40) DEF IInv, Types, ring
  <2>4. Contents'
    BY <2>1, <2>2, <2>3 DEF Contents
  <2> QED BY <2>2, <2>3, <2>4 DEF IInv
<1> QED BY <1>1, <1>2, <1>3, <1>4, <1>5, <1>6, <1>7, <1>8, <1>9 DEF Next, Listener

-----------------------------------------------------------------------------
(* What goes to a handler and comes back belongs to its request. *)

LEMMA InvOwnData == IInv => OwnData
<1> SUFFICES ASSUME IInv PROVE OwnData
  OBVIOUS
<1>1. Answered \in Nat /\ Taken \in Nat /\ Raised \in Nat
  BY Offsets DEF IInv
<1>2. TypeOK
  <2>1. DOMAIN slots = 0 .. Size - 1 /\ vmec.vcpu \in VCPUs \union {0} /\ vmec.payload \subseteq Fields
    BY DEF IInv, Types, Requests
  <2> QED BY <2>1 DEF IInv, Types, Layout, TypeOK, Fields
<1>3. OwnRegisters
  <2> SUFFICES ASSUME NEW i \in Indices(rsp_cons, rsp_prod), "set_registers" \in Slot(i).flags,
                      NEW g \in Registers(abi)
               PROVE  Slot(i).regs[g] = Slot(i).vcpu
    BY DEF OwnRegisters
  <2>1. PICK k \in 0 .. Answered - 1 : i = Plus(rsp_cons, k)
    BY DEF Indices, Answered
  <2>2. k \in 0 .. Answered + Taken + Raised - 1
    BY <1>1
  <2>3. Own(Held(k))
    BY <1>1, <2>2, OneSlot
  <2> QED BY <2>1, <2>3 DEF Own, Held
<1>4. OwnPayload
  <2> SUFFICES ASSUME at = "handle"
               PROVE  Carried(abi, vmec.reason) \intersect Reads(vmec.reason) \subseteq vmec.payload
    BY DEF OwnPayload
  <2>1. abi \in 1..7 /\ vmec.reason \in Reasons /\ vmec.payload = Payload(abi, vmec.reason)
    BY DEF IInv, Types, Contents
  <2> QED BY <2>1, Payloads
<1> QED BY <1>2, <1>3, <1>4 DEF OwnData

(***************************************************************************)
(* For any size of the ring, any number of vCPUs and each of the seven     *)
(* versions: a handler gets the whole payload of its request, and a        *)
(* response sets no register to anything but what its own vCPU had, also   *)
(* when the response of a request whose handler failed is published with   *)
(* it (process_requests_1 to process_requests_7).                          *)
(***************************************************************************)
THEOREM DataIsOwn == Spec => []OwnData
<1>1. Init => IInv
  BY InvInit
<1>2. IInv /\ [Next]_vars => IInv'
  BY InvNext
<1>3. IInv => OwnData
  BY InvOwnData
<1> QED BY <1>1, <1>2, <1>3, PTL DEF Spec

-----------------------------------------------------------------------------
(* The ring is a queue. *)

\* Sequences given by their elements.
LEMMA IsAppend ==
  ASSUME NEW S, NEW n \in Nat, NEW s \in [1 .. n -> S], NEW t \in [1 .. n + 1 -> S],
         \A i \in 1 .. n : t[i] = s[i]
  PROVE  t = Append(s, t[n + 1])
<1>1. s \in Seq(S) /\ t \in Seq(S) /\ Len(s) = n /\ Len(t) = n + 1
  BY SMT
<1>2. t[n + 1] \in S
  OBVIOUS
<1>3. /\ Append(s, t[n + 1]) \in Seq(S) /\ Len(Append(s, t[n + 1])) = n + 1
      /\ \A i \in 1 .. n : Append(s, t[n + 1])[i] = s[i]
      /\ Append(s, t[n + 1])[n + 1] = t[n + 1]
  BY <1>1, <1>2
<1>4. \A i \in 1 .. n + 1 : t[i] = Append(s, t[n + 1])[i]
  <2>1. \A i \in 1 .. n + 1 : i \in 1 .. n \/ i = n + 1
    OBVIOUS
  <2> QED BY <1>3, <2>1
<1> QED BY <1>1, <1>3, <1>4, SameSequence

LEMMA IsTail ==
  ASSUME NEW S, NEW n \in Nat \ {0}, NEW s \in [1 .. n -> S], NEW t \in [1 .. n - 1 -> S],
         \A i \in 1 .. n - 1 : t[i] = s[i + 1]
  PROVE  s # <<>> /\ t = Tail(s) /\ Head(s) = s[1]
<1>1. s \in Seq(S) /\ t \in Seq(S) /\ Len(s) = n /\ Len(t) = n - 1
  BY SMT
<1>2. s # <<>>
  BY <1>1
<1>3. Tail(s) \in Seq(S) /\ Len(Tail(s)) = n - 1 /\ \A i \in 1 .. n - 1 : Tail(s)[i] = s[i + 1]
  BY <1>1, <1>2
<1>4. t = Tail(s)
  BY <1>1, <1>3, SameSequence
<1> QED BY <1>1, <1>2, <1>4

LEMMA IsConcat ==
  ASSUME NEW n \in Nat, NEW m \in Nat, NEW s \in [1 .. n -> VCPUs], NEW t \in [1 .. m -> VCPUs],
         NEW u \in [1 .. n + m -> VCPUs],
         (\A i \in 1 .. n : u[i] = s[i]) /\ (\A i \in 1 .. m : u[n + i] = t[i])
  PROVE  u = s \o t
<1>1. s \in Seq(VCPUs) /\ t \in Seq(VCPUs) /\ u \in Seq(VCPUs) /\ Len(s) = n /\ Len(t) = m /\ Len(u) = n + m
  BY SMT
<1>2. /\ s \o t \in Seq(VCPUs) /\ Len(s \o t) = n + m
      /\ \A i \in 1 .. n : (s \o t)[i] = s[i]
      /\ \A i \in 1 .. m : (s \o t)[n + i] = t[i]
  <2>1. /\ s \o t \in Seq(VCPUs) /\ Len(s \o t) = n + m
        /\ \A i \in 1 .. n + m : (s \o t)[i] = IF i <= n THEN s[i] ELSE t[i - n]
    BY <1>1, Concatenation
  <2>2. \A i \in 1 .. n : i \in 1 .. n + m /\ i <= n
    OBVIOUS
  <2>3. \A i \in 1 .. m : n + i \in 1 .. n + m /\ ~(n + i <= n) /\ n + i - n = i
    OBVIOUS
  <2> QED BY <2>1, <2>2, <2>3
<1>3. ASSUME NEW i \in 1 .. n + m PROVE u[i] = (s \o t)[i]
  <2>1. CASE i \in 1 .. n
    BY <1>2, <2>1
  <2>2. CASE i \notin 1 .. n
    <3>1. i - n \in 1 .. m /\ n + (i - n) = i
      BY <2>2
    <3>2. u[n + (i - n)] = t[i - n] /\ (s \o t)[n + (i - n)] = t[i - n]
      BY <1>2, <3>1
    <3> QED BY <3>1, <3>2
  <2> QED BY <2>1, <2>2
<1> QED BY <1>1, <1>2, <1>3, SameSequence, SMTT(40)

(***************************************************************************)
(* The three queues of VmEventQueue, as Queue reads them from the ring,    *)
(* and their elements as slots counted from rsp_cons.                      *)
(***************************************************************************)
RaisedQ == [n \in 1 .. Distance(req_cons, req_prod) |-> Slot(Plus(req_cons, n - 1)).vcpu]
TakenQ == [n \in 1 .. Distance(rsp_prod, req_cons) |-> Slot(Plus(rsp_prod, n - 1)).vcpu]
AnsweredQ == [n \in 1 .. Distance(rsp_cons, rsp_prod) |-> Slot(Plus(rsp_cons, n - 1)).vcpu]

Elements ==
  /\ Answered \in Nat /\ Taken \in Nat /\ Raised \in Nat
  /\ RaisedQ \in [1 .. Raised -> VCPUs]
  /\ TakenQ \in [1 .. Taken -> VCPUs]
  /\ AnsweredQ \in [1 .. Answered -> VCPUs]
  /\ \A k \in 0 .. Answered + Taken + Raised - 1 :
       /\ \A n \in 1 .. Answered : k = n - 1 => AnsweredQ[n] = Held(k).vcpu
       /\ \A n \in 1 .. Taken : k = Answered + n - 1 => TakenQ[n] = Held(k).vcpu
       /\ \A n \in 1 .. Raised : k = Answered + Taken + n - 1 => RaisedQ[n] = Held(k).vcpu

LEMMA InvElements == IInv => Elements
<1> SUFFICES ASSUME IInv PROVE Elements
  OBVIOUS
<1>0. Size \in Nat \ {0} /\ Wrap \in Nat /\ Wrap > Size
  BY RingAssumption
<1>1. /\ rsp_prod \in 0 .. Wrap - 1 /\ req_cons \in 0 .. Wrap - 1 /\ rsp_cons \in 0 .. Wrap - 1
      /\ Answered + Taken + Raised <= Size
  BY DEF IInv, Layout
<1>2. /\ Answered \in Nat /\ Taken \in Nat /\ Raised \in Nat
      /\ rsp_prod = Plus(rsp_cons, Answered)
      /\ req_cons = Plus(rsp_cons, Answered + Taken)
  BY Offsets DEF IInv
<1>3. \A k \in 0 .. Answered + Taken + Raised - 1 : Held(k).vcpu \in VCPUs
  BY <1>2, OneSlot DEF Own
<1>4. ASSUME NEW n \in 1 .. Answered
      PROVE  n - 1 \in 0 .. Answered + Taken + Raised - 1 /\ AnsweredQ[n] = Held(n - 1).vcpu
  BY <1>2 DEF AnsweredQ, Answered, Held
<1>5. ASSUME NEW n \in 1 .. Taken
      PROVE  Answered + n - 1 \in 0 .. Answered + Taken + Raised - 1 /\ TakenQ[n] = Held(Answered + n - 1).vcpu
  <2>1. n - 1 \in Nat /\ Answered + (n - 1) <= Wrap /\ Answered + (n - 1) = Answered + n - 1
    BY <1>0, <1>1, <1>2
  <2>2. Plus(rsp_prod, n - 1) = Plus(rsp_cons, Answered + n - 1)
    BY <1>1, <1>2, <2>1, PlusPlus
  <2>3. TakenQ[n] = Slot(Plus(rsp_prod, n - 1)).vcpu
    BY DEF TakenQ, Taken
  <2> QED BY <1>2, <2>2, <2>3 DEF Held
<1>6. ASSUME NEW n \in 1 .. Raised
      PROVE  /\ Answered + Taken + n - 1 \in 0 .. Answered + Taken + Raised - 1
             /\ RaisedQ[n] = Held(Answered + Taken + n - 1).vcpu
  <2>1. /\ n - 1 \in Nat /\ Answered + Taken \in Nat /\ Answered + Taken + (n - 1) <= Wrap
        /\ Answered + Taken + (n - 1) = Answered + Taken + n - 1
    BY <1>0, <1>1, <1>2
  <2>2. Plus(req_cons, n - 1) = Plus(rsp_cons, Answered + Taken + n - 1)
    BY <1>1, <1>2, <2>1, PlusPlus
  <2>3. RaisedQ[n] = Slot(Plus(req_cons, n - 1)).vcpu
    BY DEF RaisedQ, Raised
  <2> QED BY <1>2, <2>2, <2>3 DEF Held
<1>7. AnsweredQ \in [1 .. Answered -> VCPUs]
  <2>1. \A n \in 1 .. Answered : AnsweredQ[n] \in VCPUs
    BY <1>3, <1>4
  <2>2. AnsweredQ = [n \in 1 .. Answered |-> AnsweredQ[n]]
    BY DEF AnsweredQ, Answered
  <2> QED BY <2>1, <2>2
<1>8. TakenQ \in [1 .. Taken -> VCPUs]
  <2>1. \A n \in 1 .. Taken : TakenQ[n] \in VCPUs
    BY <1>3, <1>5
  <2>2. TakenQ = [n \in 1 .. Taken |-> TakenQ[n]]
    BY DEF TakenQ, Taken
  <2> QED BY <2>1, <2>2
<1>9. RaisedQ \in [1 .. Raised -> VCPUs]
  <2>1. \A n \in 1 .. Raised : RaisedQ[n] \in VCPUs
    BY <1>3, <1>6
  <2>2. RaisedQ = [n \in 1 .. Raised |-> RaisedQ[n]]
    BY DEF RaisedQ, Raised
  <2> QED BY <2>1, <2>2
<1> QED BY <1>2, <1>4, <1>5, <1>6, <1>7, <1>8, <1>9 DEF Elements

\* The elements before and after a step.
LEMMA InvElementsNext == IInv /\ [Next]_vars => Elements /\ Elements'
<1>1. IInv => Elements
  BY InvElements
<1>2. IInv /\ [Next]_vars => IInv'
  BY InvNext
<1> QED BY <1>1, <1>2, PTL

\* Queues whose slots have not changed are the same.
LEMMA SameQueues ==
  ASSUME Elements, Elements', Answered' = Answered, Taken' = Taken, Raised' = Raised,
         \A k \in 0 .. Answered + Taken + Raised - 1 : Held(k)'.vcpu = Held(k).vcpu
  PROVE  UNCHANGED <<RaisedQ, TakenQ, AnsweredQ>>
<1> DEFINE A == Answered
           T == Taken
           R == Raised
<1>1. /\ A \in Nat /\ T \in Nat /\ R \in Nat
      /\ RaisedQ \in [1 .. R -> VCPUs] /\ RaisedQ' \in [1 .. R -> VCPUs]
      /\ TakenQ \in [1 .. T -> VCPUs] /\ TakenQ' \in [1 .. T -> VCPUs]
      /\ AnsweredQ \in [1 .. A -> VCPUs] /\ AnsweredQ' \in [1 .. A -> VCPUs]
  BY SMTT(40) DEF Elements
<1>2. ASSUME NEW n \in 1 .. A PROVE AnsweredQ'[n] = AnsweredQ[n]
  <2>1. PICK k \in 0 .. A + T + R - 1 : k = n - 1
    BY <1>1
  <2> QED BY <2>1, <1>1, ZenonT(40) DEF Elements
<1>3. ASSUME NEW n \in 1 .. T PROVE TakenQ'[n] = TakenQ[n]
  <2>1. PICK k \in 0 .. A + T + R - 1 : k = A + n - 1
    BY <1>1
  <2> QED BY <2>1, <1>1, ZenonT(40) DEF Elements
<1>4. ASSUME NEW n \in 1 .. R PROVE RaisedQ'[n] = RaisedQ[n]
  <2>1. PICK k \in 0 .. A + T + R - 1 : k = A + T + n - 1
    BY <1>1
  <2> QED BY <2>1, <1>1, ZenonT(40) DEF Elements
<1> HIDE DEF A, T, R
<1> QED BY <1>1, <1>2, <1>3, <1>4, SMTT(40)

LEMMA PutRaises ==
  ASSUME IInv, Elements, Elements', NEW v \in VCPUs, NEW reason \in Reasons, Put(v, reason)
  PROVE  Queue!Raise(v)
<1> DEFINE A == Answered
           T == Taken
           R == Raised
<1>1. /\ A' = A /\ T' = T /\ R' = R + 1
      /\ \A k \in 0 .. A + T + R - 1 : Held(k)' = Held(k)
      /\ \A k \in 0 .. A + T + R : k = A + T + R => Held(k)'.vcpu = v
  <2>1. /\ Answered' = Answered /\ Taken' = Taken /\ Raised' = Raised + 1
        /\ \A k \in 0 .. Answered + Taken + Raised :
              Held(k)' = IF k < Answered + Taken + Raised THEN Held(k)
                         ELSE [vcpu |-> v, reason |-> reason, flags |-> {"paused"},
                               regs |-> [g \in Groups |-> IF g \in Registers(abi) THEN v ELSE 0]]
    BY PutMoves, SMTT(40)
  <2>2. Answered \in Nat /\ Taken \in Nat /\ Raised \in Nat
    BY SMTT(40) DEF Elements
  <2> QED BY <2>1, <2>2, SMTT(40)
<1>2. /\ A \in Nat /\ T \in Nat /\ R \in Nat
      /\ RaisedQ \in [1 .. R -> VCPUs] /\ RaisedQ' \in [1 .. R + 1 -> VCPUs]
      /\ TakenQ \in [1 .. T -> VCPUs] /\ TakenQ' \in [1 .. T -> VCPUs]
      /\ AnsweredQ \in [1 .. A -> VCPUs] /\ AnsweredQ' \in [1 .. A -> VCPUs]
  BY <1>1 DEF Elements
<1>0. ASSUME NEW k \in 0 .. A + T + R - 1 PROVE Held(k).vcpu # v
  <2>1. Distance(rsp_cons, req_prod) = A + T + R
    BY Offsets DEF IInv
  <2>2. Plus(rsp_cons, k) \in Indices(rsp_cons, req_prod)
    <3>1. k \in 0 .. Distance(rsp_cons, req_prod) - 1
      BY <1>2, <2>1
    <3> QED BY <3>1 DEF Indices
  <2>3. v \notin Waiting
    BY DEF Put
  <2> QED BY <2>2, <2>3 DEF Waiting, Held
<1>3. ASSUME NEW n \in 1 .. A
      PROVE  AnsweredQ'[n] = AnsweredQ[n] /\ AnsweredQ[n] # v
  <2>1. PICK k \in 0 .. A + T + R - 1 : k = n - 1
    BY <1>2, SMTT(40)
  <2>2. AnsweredQ'[n] = Held(k)'.vcpu /\ AnsweredQ[n] = Held(k).vcpu
    <3>1. k \in 0 .. A + T + (R + 1) - 1
      BY <1>2, SMTT(40)
    <3> QED BY <2>1, <3>1, <1>1, <1>2 DEF Elements
  <2> QED BY <1>1, <1>0, <2>2
<1>4. ASSUME NEW n \in 1 .. T
      PROVE  TakenQ'[n] = TakenQ[n] /\ TakenQ[n] # v
  <2>1. PICK k \in 0 .. A + T + R - 1 : k = A + n - 1
    BY <1>2, SMTT(40)
  <2>2. TakenQ'[n] = Held(k)'.vcpu /\ TakenQ[n] = Held(k).vcpu
    <3>1. k \in 0 .. A + T + (R + 1) - 1
      BY <1>2, SMTT(40)
    <3> QED BY <2>1, <3>1, <1>1, <1>2 DEF Elements
  <2> QED BY <1>1, <1>0, <2>2
<1>5. ASSUME NEW n \in 1 .. R
      PROVE  RaisedQ'[n] = RaisedQ[n] /\ RaisedQ[n] # v
  <2>1. PICK k \in 0 .. A + T + R - 1 : k = A + T + n - 1
    BY <1>2, SMTT(40)
  <2>2. RaisedQ'[n] = Held(k)'.vcpu /\ RaisedQ[n] = Held(k).vcpu
    <3>1. k \in 0 .. A + T + (R + 1) - 1 /\ n \in 1 .. R + 1
      BY <1>2
    <3> QED BY <2>1, <3>1, <1>1, <1>2 DEF Elements
  <2> QED BY <1>1, <1>0, <2>2
<1>6. RaisedQ'[R + 1] = v
  <2>1. PICK k \in 0 .. A + T + R : k = A + T + (R + 1) - 1
    BY <1>2, SMTT(40)
  <2>2. RaisedQ'[R + 1] = Held(k)'.vcpu
    BY <2>1, <1>1, <1>2 DEF Elements
  <2> QED BY <1>1, <1>2, <2>1, <2>2
<1> HIDE DEF A, T, R
<1>7. RaisedQ' = Append(RaisedQ, v)
  <2>1. \A n \in 1 .. R : RaisedQ'[n] = RaisedQ[n]
    BY <1>5
  <2> QED BY <1>2, <1>6, <2>1, IsAppend, SMTT(40)
<1>8. TakenQ' = TakenQ /\ AnsweredQ' = AnsweredQ
  BY <1>2, <1>3, <1>4, SMTT(40)
<1>9. v \notin Queue!Within(RaisedQ) \union Queue!Within(TakenQ) \union Queue!Within(AnsweredQ)
  <2>1. \A n \in DOMAIN RaisedQ : RaisedQ[n] # v
    BY <1>2, <1>5
  <2>2. \A n \in DOMAIN TakenQ : TakenQ[n] # v
    BY <1>2, <1>4
  <2>3. \A n \in DOMAIN AnsweredQ : AnsweredQ[n] # v
    BY <1>2, <1>3, SMTT(40)
  <2> QED BY <2>1, <2>2, <2>3 DEF Queue!Within
<1> QED BY <1>7, <1>8, <1>9, ZenonT(40) DEF Queue!Raise, RaisedQ, TakenQ, AnsweredQ

LEMMA GetFetches ==
  ASSUME IInv, Elements, Elements', Get
  PROVE  Queue!Fetch
<1> DEFINE A == Answered
           T == Taken
           R == Raised
<1>1. /\ A' = A /\ T' = T + 1 /\ R' = R - 1 /\ R > 0
      /\ \A k \in Nat : Held(k)' = Held(k)
  BY GetMoves, SMTT(40)
<1>2. /\ A \in Nat /\ T \in Nat /\ R \in Nat \ {0}
      /\ RaisedQ \in [1 .. R -> VCPUs] /\ RaisedQ' \in [1 .. R - 1 -> VCPUs]
      /\ TakenQ \in [1 .. T -> VCPUs] /\ TakenQ' \in [1 .. T + 1 -> VCPUs]
      /\ AnsweredQ \in [1 .. A -> VCPUs] /\ AnsweredQ' \in [1 .. A -> VCPUs]
  BY <1>1 DEF Elements
<1>3. ASSUME NEW n \in 1 .. A PROVE AnsweredQ'[n] = AnsweredQ[n]
  <2>1. PICK k \in 0 .. A + T + R - 1 : k = n - 1
    BY <1>2, SMTT(40)
  <2>2. AnsweredQ'[n] = Held(k)'.vcpu /\ AnsweredQ[n] = Held(k).vcpu
    BY <2>1, <1>1, <1>2 DEF Elements
  <2> QED BY <1>1, <2>2
<1>4. ASSUME NEW n \in 1 .. T PROVE TakenQ'[n] = TakenQ[n]
  <2>1. PICK k \in 0 .. A + T + R - 1 : k = A + n - 1
    BY <1>2, SMTT(40)
  <2>2. TakenQ'[n] = Held(k)'.vcpu /\ TakenQ[n] = Held(k).vcpu
    BY <2>1, <1>1, <1>2 DEF Elements
  <2> QED BY <1>1, <2>2
<1>5. TakenQ'[T + 1] = RaisedQ[1]
  <2>1. PICK k \in 0 .. A + T + R - 1 : k = A + T
    BY <1>2, SMTT(40)
  <2>2. TakenQ'[T + 1] = Held(k)'.vcpu
    <3>1. k = A + (T + 1) - 1 /\ T + 1 \in 1 .. T + 1
      BY <1>2, <2>1, SMTT(40)
    <3> QED BY <3>1, <1>1, <1>2 DEF Elements
  <2>3. RaisedQ[1] = Held(k).vcpu
    <3>1. k = A + T + 1 - 1 /\ 1 \in 1 .. R
      BY <1>2, <2>1
    <3> QED BY <3>1, <1>2 DEF Elements
  <2> QED BY <1>1, <2>2, <2>3
<1>6. ASSUME NEW n \in 1 .. R - 1 PROVE RaisedQ'[n] = RaisedQ[n + 1]
  <2>1. PICK k \in 0 .. A + T + R - 1 : k = A + T + n
    BY <1>2, SMTT(40)
  <2>2. RaisedQ'[n] = Held(k)'.vcpu
    <3>1. k = A + (T + 1) + n - 1
      BY <1>2, <2>1, SMTT(40)
    <3> QED BY <3>1, <1>1, <1>2 DEF Elements
  <2>3. RaisedQ[n + 1] = Held(k).vcpu
    <3>1. k = A + T + (n + 1) - 1 /\ n + 1 \in 1 .. R
      BY <1>2, <2>1
    <3> QED BY <3>1, <1>2 DEF Elements
  <2> QED BY <1>1, <2>2, <2>3
<1> HIDE DEF A, T, R
<1>7. RaisedQ # <<>> /\ RaisedQ' = Tail(RaisedQ) /\ Head(RaisedQ) = RaisedQ[1]
  BY <1>2, <1>6, IsTail
<1>8. TakenQ' = Append(TakenQ, Head(RaisedQ))
  BY <1>2, <1>4, <1>5, <1>7, IsAppend
<1>9. AnsweredQ' = AnsweredQ
  BY <1>2, <1>3, SMTT(40)
<1> QED BY <1>7, <1>8, <1>9, ZenonT(40) DEF Queue!Fetch, RaisedQ, TakenQ, AnsweredQ

LEMMA PushAnswers ==
  ASSUME IInv, Elements, Elements', Push
  PROVE  Queue!Answer
<1> DEFINE A == Answered
           T == Taken
           R == Raised
<1>1. /\ A' = A + T /\ T' = 0 /\ R' = R /\ T > 0
      /\ \A k \in 0 .. A + T + R - 1 : Held(k)'.vcpu = Held(k).vcpu
  <2>1. /\ Answered' = Answered + Taken /\ Taken' = 0 /\ Raised' = Raised /\ Taken > 0
        /\ \A k \in 0 .. Answered + Taken + Raised - 1 :
             Held(k)' = IF k # Answered + Taken - 1 THEN Held(k) ELSE slots'[Response]
        /\ Response \in 0 .. Size - 1
    BY PushMoves, SMTT(40)
  <2>2. slots'[Response].vcpu = vmec.vcpu /\ at = "push"
    <3>1. slots \in [0 .. Size - 1 -> Slots]
      BY DEF IInv, Types
    <3> QED BY <2>1, <3>1 DEF Push
  <2>3. ASSUME NEW k \in 0 .. A + T + R - 1, k = A + T - 1 PROVE Held(k).vcpu = vmec.vcpu
    <3>1. Answered \in Nat /\ Taken \in Nat /\ Raised \in Nat
      BY DEF Elements
    <3> QED BY <2>2, <2>3, <3>1, OneSlot, SMTT(40)
  <2> QED BY <2>1, <2>2, <2>3
<1>2. /\ A \in Nat /\ T \in Nat \ {0} /\ R \in Nat
      /\ RaisedQ \in [1 .. R -> VCPUs] /\ RaisedQ' \in [1 .. R -> VCPUs]
      /\ TakenQ \in [1 .. T -> VCPUs] /\ TakenQ' \in [1 .. 0 -> VCPUs]
      /\ AnsweredQ \in [1 .. A -> VCPUs] /\ AnsweredQ' \in [1 .. A + T -> VCPUs]
  BY <1>1 DEF Elements
<1>3. ASSUME NEW n \in 1 .. A PROVE AnsweredQ'[n] = AnsweredQ[n]
  <2>1. PICK k \in 0 .. A + T + R - 1 : k = n - 1
    BY <1>2, SMTT(40)
  <2>2. AnsweredQ'[n] = Held(k)'.vcpu
    <3>1. n \in 1 .. A + T /\ k \in 0 .. A + T + 0 + R - 1
      BY <1>2, <2>1
    <3> QED BY <2>1, <3>1, <1>1, <1>2 DEF Elements
  <2>3. AnsweredQ[n] = Held(k).vcpu
    BY <2>1, <1>2 DEF Elements
  <2> QED BY <1>1, <2>2, <2>3
<1>4. ASSUME NEW n \in 1 .. T PROVE AnsweredQ'[A + n] = TakenQ[n]
  <2>1. PICK k \in 0 .. A + T + R - 1 : k = A + n - 1
    BY <1>2, SMTT(40)
  <2>2. AnsweredQ'[A + n] = Held(k)'.vcpu
    <3>1. A + n \in 1 .. A + T /\ k \in 0 .. A + T + 0 + R - 1
      BY <1>2, <2>1, SMTT(40)
    <3> QED BY <2>1, <3>1, <1>1, <1>2 DEF Elements
  <2>3. TakenQ[n] = Held(k).vcpu
    BY <2>1, <1>2, SMTT(40) DEF Elements
  <2> QED BY <1>1, <2>2, <2>3
<1>5. ASSUME NEW n \in 1 .. R PROVE RaisedQ'[n] = RaisedQ[n]
  <2>1. PICK k \in 0 .. A + T + R - 1 : k = A + T + n - 1
    BY <1>2, SMTT(40)
  <2>2. RaisedQ'[n] = Held(k)'.vcpu
    <3>1. k = A + T + 0 + n - 1 /\ k \in 0 .. A + T + 0 + R - 1
      BY <1>2, <2>1, SMTT(40)
    <3> QED BY <3>1, <1>1, <1>2 DEF Elements
  <2>3. RaisedQ[n] = Held(k).vcpu
    BY <2>1, <1>2, SMTT(40) DEF Elements
  <2> QED BY <1>1, <2>2, <2>3
<1> HIDE DEF A, T, R
<1>6. AnsweredQ' = AnsweredQ \o TakenQ
  <2>1. A \in Nat /\ T \in Nat /\ AnsweredQ' \in [1 .. A + T -> VCPUs]
    BY <1>2
  <2>2. AnsweredQ \in [1 .. A -> VCPUs] /\ TakenQ \in [1 .. T -> VCPUs]
    BY <1>2
  <2>3. \A n \in 1 .. A : AnsweredQ'[n] = AnsweredQ[n]
    BY <1>3
  <2>4. \A n \in 1 .. T : AnsweredQ'[A + n] = TakenQ[n]
    BY <1>4
  <2> DEFINE s == AnsweredQ
             t == TakenQ
             u == AnsweredQ'
  <2>5. /\ s \in [1 .. A -> VCPUs] /\ t \in [1 .. T -> VCPUs] /\ u \in [1 .. A + T -> VCPUs]
        /\ A \in Nat /\ T \in Nat
    BY <2>1, <2>2
  <2>6. (\A i \in 1 .. A : u[i] = s[i]) /\ (\A i \in 1 .. T : u[A + i] = t[i])
    BY <2>3, <2>4
  <2> HIDE DEF s, t, u
  <2>7. u = s \o t
    BY <2>5, <2>6, IsConcat, ZenonT(40)
  <2> QED BY <2>7 DEF s, t, u
<1>7. TakenQ # <<>>
  <2>1. TakenQ \in Seq(VCPUs) /\ Len(TakenQ) = T /\ T # 0
    BY <1>2
  <2> QED BY <2>1, EmptySequence
<1>8. TakenQ' = <<>>
  <2>1. TakenQ' \in Seq(VCPUs) /\ Len(TakenQ') = 0
    BY <1>2
  <2> QED BY <2>1, EmptySequence
<1>9. RaisedQ' = RaisedQ
  BY <1>2, <1>5
<1> QED BY <1>6, <1>7, <1>8, <1>9, ZenonT(40) DEF Queue!Answer, RaisedQ, TakenQ, AnsweredQ

LEMMA ConsumeResumes ==
  ASSUME IInv, Elements, Elements', Consume, rsp_cons # rsp_prod
  PROVE  Queue!Resume
<1> DEFINE A == Answered
           T == Taken
           R == Raised
<1>1. /\ A' = A - 1 /\ T' = T /\ R' = R /\ A > 0
      /\ \A k \in 0 .. A + T + R - 2 : Held(k)' = Held(k + 1)
  BY ConsumeMoves, SMTT(40)
<1>2. /\ A \in Nat \ {0} /\ T \in Nat /\ R \in Nat
      /\ RaisedQ \in [1 .. R -> VCPUs] /\ RaisedQ' \in [1 .. R -> VCPUs]
      /\ TakenQ \in [1 .. T -> VCPUs] /\ TakenQ' \in [1 .. T -> VCPUs]
      /\ AnsweredQ \in [1 .. A -> VCPUs] /\ AnsweredQ' \in [1 .. A - 1 -> VCPUs]
  BY <1>1 DEF Elements
<1>3. ASSUME NEW n \in 1 .. A - 1 PROVE AnsweredQ'[n] = AnsweredQ[n + 1]
  <2>1. PICK k \in 0 .. A + T + R - 2 : k = n - 1
    BY <1>2, SMTT(40)
  <2>2. AnsweredQ'[n] = Held(k)'.vcpu
    <3>1. k \in 0 .. (A - 1) + T + R - 1
      BY <1>2, <2>1, SMTT(40)
    <3> QED BY <2>1, <3>1, <1>1, <1>2 DEF Elements
  <2>3. AnsweredQ[n + 1] = Held(k + 1).vcpu
    <3>1. k + 1 = (n + 1) - 1 /\ k + 1 \in 0 .. A + T + R - 1 /\ n + 1 \in 1 .. A
      BY <1>2, <2>1
    <3> QED BY <3>1, <1>2 DEF Elements
  <2> QED BY <1>1, <2>2, <2>3
<1>4. ASSUME NEW n \in 1 .. T PROVE TakenQ'[n] = TakenQ[n]
  <2>1. PICK k \in 0 .. A + T + R - 2 : k = (A - 1) + n - 1
    BY <1>2, SMTT(40)
  <2>2. TakenQ'[n] = Held(k)'.vcpu
    <3>1. k \in 0 .. (A - 1) + T + R - 1
      BY <1>2, <2>1
    <3> QED BY <2>1, <3>1, <1>1, <1>2, ZenonT(40) DEF Elements
  <2>3. TakenQ[n] = Held(k + 1).vcpu
    <3>1. k + 1 = A + n - 1 /\ k + 1 \in 0 .. A + T + R - 1
      BY <1>2, <2>1
    <3> QED BY <3>1, <1>2 DEF Elements
  <2> QED BY <1>1, <2>2, <2>3
<1>5. ASSUME NEW n \in 1 .. R PROVE RaisedQ'[n] = RaisedQ[n]
  <2>1. PICK k \in 0 .. A + T + R - 2 : k = (A - 1) + T + n - 1
    BY <1>2, SMTT(40)
  <2>2. RaisedQ'[n] = Held(k)'.vcpu
    <3>1. k \in 0 .. (A - 1) + T + R - 1
      BY <1>2, <2>1
    <3> QED BY <2>1, <3>1, <1>1, <1>2, ZenonT(40) DEF Elements
  <2>3. RaisedQ[n] = Held(k + 1).vcpu
    <3>1. k + 1 = A + T + n - 1 /\ k + 1 \in 0 .. A + T + R - 1
      BY <1>2, <2>1
    <3> QED BY <3>1, <1>2 DEF Elements
  <2> QED BY <1>1, <2>2, <2>3
<1> HIDE DEF A, T, R
<1>6. AnsweredQ # <<>> /\ AnsweredQ' = Tail(AnsweredQ)
  BY <1>2, <1>3, IsTail
<1>7. TakenQ' = TakenQ /\ RaisedQ' = RaisedQ
  BY <1>2, <1>4, <1>5, SMTT(40)
<1> QED BY <1>6, <1>7, ZenonT(40) DEF Queue!Resume, RaisedQ, TakenQ, AnsweredQ

LEMMA QueueInitially == Init => Queue!QueueInit
<1> SUFFICES ASSUME Init PROVE Queue!QueueInit
  OBVIOUS
<1>1. req_prod = 0 /\ rsp_prod = 0 /\ req_cons = 0 /\ rsp_cons = 0
  BY DEF Init, init_events
<1>2. 0 \in 0 .. Wrap - 1
  BY RingAssumption
<1>3. Distance(0, 0) = 0
  BY <1>2, NoDistance
<1>4. RaisedQ = <<>> /\ TakenQ = <<>> /\ AnsweredQ = <<>>
  <2>1. Elements /\ Answered = 0 /\ Taken = 0 /\ Raised = 0
    BY <1>1, <1>3, InvInit, InvElements DEF Answered, Taken, Raised
  <2>2. /\ RaisedQ \in Seq(VCPUs) /\ Len(RaisedQ) = 0 /\ TakenQ \in Seq(VCPUs) /\ Len(TakenQ) = 0
        /\ AnsweredQ \in Seq(VCPUs) /\ Len(AnsweredQ) = 0
    BY <2>1 DEF Elements
  <2> QED BY <2>2, EmptySequence
<1> QED BY <1>4 DEF Queue!QueueInit, RaisedQ, TakenQ, AnsweredQ

LEMMA QueueStep == IInv /\ [Next]_vars => [Queue!QueueNext]_(Queue!queues)
<1> SUFFICES ASSUME IInv, [Next]_vars PROVE [Queue!QueueNext]_(Queue!queues)
  OBVIOUS
<1>0. Elements /\ Elements'
  BY InvElementsNext
<1>1. ASSUME NEW v \in VCPUs, NEW reason \in Reasons, Put(v, reason) PROVE Queue!QueueNext
  BY <1>0, <1>1, PutRaises DEF Queue!QueueNext
<1>2. CASE Get
  BY <1>0, <1>2, GetFetches DEF Queue!QueueNext
<1>3. CASE Push
  BY <1>0, <1>3, PushAnswers DEF Queue!QueueNext
<1>4. CASE Consume /\ rsp_cons # rsp_prod
  BY <1>0, <1>4, ConsumeResumes, SMTT(40) DEF Queue!QueueNext
<1>5. CASE UNCHANGED ring
  <2>1. UNCHANGED <<RaisedQ, TakenQ, AnsweredQ>>
    BY <1>5 DEF ring, RaisedQ, TakenQ, AnsweredQ, Slot
  <2> QED BY <2>1, ZenonT(40) DEF Queue!queues, RaisedQ, TakenQ, AnsweredQ
<1>6. Listen \/ (\E r \in {{}, {"set_registers"}, {"emulate"}} : Handle(r)) \/ Return \/ Fail
        \/ (Consume /\ rsp_cons = rsp_prod) \/ UNCHANGED vars => UNCHANGED ring
  BY DEF Listen, Handle, Return, Fail, Consume, vars, ring
<1> QED BY <1>1, <1>2, <1>3, <1>4, <1>5, <1>6 DEF Next, Listener

(***************************************************************************)
(* The ring is a queue for any size, any range of the indices that the     *)
(* size divides, any number of vCPUs and each version: requests are taken  *)
(* in the order Xen put them there, none is lost or overwritten when the   *)
(* indices wrap around, and each is published once as a response of its    *)
(* own vCPU, also after a handler has failed (RING_GET_REQUEST,            *)
(* RING_GET_RESPONSE and RING_PUSH_RESPONSES in process_requests_N).       *)
(***************************************************************************)
THEOREM RingRefinesQueue == Spec => RingIsQueue
<1>1. Init => IInv /\ Queue!QueueInit
  BY InvInit, QueueInitially
<1>2. IInv /\ [Next]_vars => IInv'
  BY InvNext
<1>3. IInv /\ [Next]_vars => [Queue!QueueNext]_(Queue!queues)
  BY QueueStep
<1> QED BY <1>1, <1>2, <1>3, PTL DEF Spec, RingIsQueue, Queue!QueueSpec
=============================================================================
