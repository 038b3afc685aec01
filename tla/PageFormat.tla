----------------------------- MODULE PageFormat -----------------------------
(***************************************************************************)
(* How page table entries are written down (x86.h, arch/).                 *)
(*                                                                         *)
(* Memory is counted in cells, one table entry or one datum wide.  A 4 KB  *)
(* page has P cells and an x86 table R entries, so that one entry of a     *)
(* table n levels above the last one covers P * R^n cells: the shifts and  *)
(* masks of the code become quotients and remainders.  An entry is a       *)
(* number: its low four bits are the flags the code looks at, the rest is  *)
(* an address.                                                             *)
(***************************************************************************)
EXTENDS Naturals, Sequences

CONSTANTS P, R

ASSUME Geometry == P \in Nat /\ R \in Nat /\ P >= 2 /\ P % 2 = 0 /\ R >= 2

Bit(e, i)     == (e \div 2^i) % 2 = 1
Base(e)       == e \div 16
Align(a, n)   == a - (a % n)
Start(v, pt, junk) == [v |-> v, table |-> pt, at |-> "table", pa |-> junk, size |-> 0]
None(s)       == [s EXCEPT !.at = "none"]

Page(s, e, va, span) == [s EXCEPT !.at = "page", !.pa = Align(Base(e), span) + (va % span), !.size = span]

-----------------------------------------------------------------------------
(* x86: bit 0 present, 1 page size, 2 prototype, 3 transition.  x holds    *)
(* transition_pages, whether the guest is Windows and whether 4 MB pages   *)
(* are in use.                                                             *)

PAGE_SIZE(e) == Bit(e, 1)

ENTRY_PRESENT(transition, e) == Bit(e, 0) \/ (transition /\ Bit(e, 3) /\ ~Bit(e, 2))
=============================================================================
