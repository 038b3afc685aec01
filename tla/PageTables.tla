----------------------------- MODULE PageTables -----------------------------
(***************************************************************************)
(* Address translation by walking the guest's page tables (arch/intel.c,   *)
(* arch/amd64.c, arch/ept.c, arch/arm_aarch32.c, arch/arm_aarch64.c).      *)
(*                                                                         *)
(* Tables are read through Read(rd, v, a), vmi_read_64 and its kin, which  *)
(* may fail and which changes the caches v of the LibVMI instance; rd is   *)
(* what else the read depends on, such as a nested page table.  A walk is  *)
(* a record s: those caches, the table the next entry is in, where the     *)
(* walk is ("table", "page" found or "none"), and the page found.  junk    *)
(* is what page_info_t held before the walk.                               *)
(***************************************************************************)
EXTENDS PageFormat

CONSTANT Read(_, _, _)

\* One level: read the entry, stop if it is not present, take it for a page
\* if it is one (big: the format has pages at this level).
Level(rd, x, s, va, span, big) ==
    IF s.at # "table" THEN s
    ELSE LET e == Read(rd, s.v, Align(s.table, P) + ((va \div span) % R))
             n == [s EXCEPT !.v = e.v]
         IN  IF ~e.ok \/ ~ENTRY_PRESENT(x.transition, e.val) THEN None(n)
             ELSE IF span = P \/ (big /\ PAGE_SIZE(e.val)) THEN Page(n, e.val, va, span)
             ELSE [n EXCEPT !.table = Base(e.val)]

\* The page directory of a 32-bit walk without PAE is read at ctx->pt, which
\* v2p_nopae leaves zero: the table passed in is not used.
get_pgd_nopae(rd, x, s, va) == Level(rd, x, [s EXCEPT !.table = 0], va, P * R, x.pse)
get_pte_nopae(rd, x, s, va) == Level(rd, x, s, va, P, FALSE)

v2p_nopae(rd, x, v, pt, va, junk) ==
    get_pte_nopae(rd, x, get_pgd_nopae(rd, x, Start(v, pt, junk), va), va)

\* A PDPT entry that is not present ends the walk with the status of the
\* read: success, with whatever info->paddr held.
get_pdpi(rd, x, s, va) ==
    LET e == Read(rd, s.v, Align(s.table, P) + ((va \div (P * R * R)) % R))
        n == [s EXCEPT !.v = e.v]
    IN  IF ~e.ok THEN None(n)
        ELSE IF ENTRY_PRESENT(x.transition, e.val) THEN [n EXCEPT !.table = Base(e.val)]
        ELSE [n EXCEPT !.at = "page", !.size = 0]

get_pgd_pae(rd, x, s, va) == Level(rd, x, s, va, P * R, TRUE)
get_pte_pae(rd, x, s, va) == Level(rd, x, s, va, P, FALSE)

v2p_pae(rd, x, v, pt, va, junk) ==
    get_pte_pae(rd, x, get_pgd_pae(rd, x, get_pdpi(rd, x, Start(v, pt, junk), va), va), va)

get_pml4e(rd, x, s, va)       == Level(rd, x, s, va, P * R * R * R, FALSE)
get_pdpte_ia32e(rd, x, s, va) == Level(rd, x, s, va, P * R * R, TRUE)
get_pde_ia32e(rd, x, s, va)   == Level(rd, x, s, va, P * R, TRUE)

get_pte_ia32e(rd, x, s, va)   == Level(rd, x, s, va, P, FALSE)

v2p_ia32e(rd, x, v, pt, va, junk) ==
    get_pte_ia32e(rd, x, get_pde_ia32e(rd, x, get_pdpte_ia32e(rd, x,
        get_pml4e(rd, x, Start(v, pt, junk), va), va), va), va)

v2p_ept_4l(rd, x, v, pt, va, junk) == v2p_ia32e(rd, x, v, pt, va, junk)

-----------------------------------------------------------------------------
(* ARM: the low two bits of a descriptor are its type, bit 2 tells a       *)
(* supersection.  A descriptor that cannot be read keeps the value it had. *)

Descriptor(rd, s, a, junk) ==
    LET e == Read(rd, s.v, a) IN [s |-> [s EXCEPT !.v = e.v], val |-> IF e.ok THEN e.val ELSE junk]

Type(d) == d.val % 4

get_first_level_descriptor(rd, s, va, junk) ==
    Descriptor(rd, s, Align(s.table, 2 * R) + (va \div (P * R)), junk)
get_coarse_second_level_descriptor(rd, d, va, junk) ==
    Descriptor(rd, d.s, Align(Base(d.val), R) + ((va \div P) % R), junk)
get_fine_second_level_descriptor(rd, d, va, junk) ==
    Descriptor(rd, d.s, Align(Base(d.val), 2 * R) + ((va \div (P \div 2)) % (2 * R)), junk)

\* Sections, 64 KB, 4 KB and 1 KB pages: 1 KB is P \div 2 cells, 64 KB 2 * P.
v2p_aarch32(rd, v, pt, va, junk) ==
    LET Of(d, span) == Page(d.s, d.val, va, span)
        Coarse(c) == IF Type(c) = 0 THEN None(c.s) ELSE Of(c, <<2 * P, P, P>>[Type(c)])
        Fine(t)   == IF Type(t) = 0 THEN None(t.s) ELSE Of(t, <<2 * P, P, P \div 2>>[Type(t)])
        First(f)  ==
          CASE Type(f) = 0 -> None(f.s)
            [] Type(f) = 1 -> Coarse(get_coarse_second_level_descriptor(rd, f, va, junk))
            [] Type(f) = 2 -> Of(f, IF Bit(f.val, 2) THEN 2 * P * R ELSE P * R)
            [] Type(f) = 3 -> Fine(get_fine_second_level_descriptor(rd, f, va, junk))
    IN  First(get_first_level_descriptor(rd, Start(v, pt, junk), va, junk))

\* AArch64 with 4 KB granules (g = P) or 64 KB ones (g = 2 * P); the table a
\* walk starts from is the kernel's exactly when it is vmi->kpgd.
Granule(x, pt) == IF pt = x.kpgd THEN x.tg1 ELSE x.tg0
Levels(x, pt)  == IF pt = x.kpgd THEN x.levels1 ELSE x.levels0

get_zero_level_4kb_descriptor(rd, s, va, junk) ==
    Descriptor(rd, s, Align(s.table, P) + ((va \div (P * R * R * R)) % R), junk)
get_first_level_4kb_descriptor(rd, s, va, junk) ==
    Descriptor(rd, s, Align(s.table, P) + ((va \div (P * R * R)) % R), junk)
get_first_level_64kb_descriptor(rd, s, va, junk) ==
    Descriptor(rd, s, Align(s.table, R) + ((va \div (8 * P * P * P)) % R), junk)
get_second_level_4kb_descriptor(rd, s, va, junk) ==
    Descriptor(rd, s, Align(s.table, P) + ((va \div (P * R)) % R), junk)
get_second_level_64kb_descriptor(rd, s, va, junk) ==
    Descriptor(rd, s, Align(s.table, 2 * P) + ((va \div (4 * P * P)) % (2 * P)), junk)
get_third_level_4kb_descriptor(rd, d, va, junk) ==
    Descriptor(rd, d.s, Align(Base(d.val), P) + ((va \div P) % R), junk)
get_third_level_64kb_descriptor(rd, d, va, junk) ==
    Descriptor(rd, d.s, Align(Base(d.val), 2 * P) + ((va \div (2 * P)) % (2 * P)), junk)

Table(d) == [d.s EXCEPT !.table = Base(d.val)]

\* Level 0 has tables only, level 1 tables and, with 4 KB granules, 1 GB
\* blocks; a level 2 table is followed to its page whatever the type of the
\* third descriptor is.  16 KB granules are refused.
v2p_aarch64(rd, x, v, pt, va, junk) ==
    LET g  == Granule(x, pt)
        s0 == Start(v, pt, junk)
        Zero(z)   == IF Type(z) = 3 THEN Table(z) ELSE None(z.s)
        First(f)  == CASE Type(f) = 3 -> Table(f)
                       [] Type(f) = 1 /\ g = P -> Page(f.s, f.val, va, P * R * R)
                       [] OTHER -> None(f.s)
        Third(t)  == [Page(t.s, t.val, va, g) EXCEPT !.size = P]
        Second(l) == CASE Type(l) = 3 -> Third(IF g = P THEN get_third_level_4kb_descriptor(rd, l, va, junk)
                                               ELSE get_third_level_64kb_descriptor(rd, l, va, junk))
                       [] Type(l) = 1 -> Page(l.s, l.val, va, IF g = P THEN P * R ELSE 4 * P * P)
                       [] OTHER -> None(l.s)
        Upper(s)  == IF s.at = "none" \/ Levels(x, pt) < 3 THEN s
                     ELSE First(IF g = P THEN get_first_level_4kb_descriptor(rd, s, va, junk)
                                ELSE get_first_level_64kb_descriptor(rd, s, va, junk))
        Lower(s)  == IF s.at # "table" THEN s
                     ELSE Second(IF g = P THEN get_second_level_4kb_descriptor(rd, s, va, junk)
                                 ELSE get_second_level_64kb_descriptor(rd, s, va, junk))
    IN  IF g \notin {P, 2 * P} THEN None(s0)
        ELSE Lower(Upper(IF g # P \/ Levels(x, pt) < 4 THEN s0
                         ELSE Zero(get_zero_level_4kb_descriptor(rd, s0, va, junk))))

\* arch_interface.lookup
Lookup(rd, x, pm, v, pt, va, junk) ==
    CASE pm = "legacy"  -> v2p_nopae(rd, x, v, pt, va, junk)
      [] pm = "pae"     -> v2p_pae(rd, x, v, pt, va, junk)
      [] pm = "ia32e"   -> v2p_ia32e(rd, x, v, pt, va, junk)
      [] pm = "aarch32" -> v2p_aarch32(rd, v, pt, va, junk)
      [] pm = "aarch64" -> v2p_aarch64(rd, x, v, pt, va, junk)
      [] pm = "ept"     -> v2p_ept_4l(rd, x, v, pt, va, junk)
=============================================================================
