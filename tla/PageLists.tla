----------------------------- MODULE PageLists ------------------------------
(***************************************************************************)
(* The pages of an address space (vmi_get_va_pages).  A table is read      *)
(* once, through ReadPage(v, a); one that cannot be read ends the listing, *)
(* and what was listed before it is returned.                              *)
(***************************************************************************)
EXTENDS PageFormat

CONSTANT ReadPage(_, _)

SX == INSTANCE SequencesExt

ListTable(a, table, Visit(_, _, _)) ==
    LET t == ReadPage(a.v, Align(table, P))
        n == [a EXCEPT !.v = t.v]
        Next(b, i) == IF b.stop THEN b ELSE Visit(b, i, t.page[i])
    IN  IF t.ok THEN SX!FoldLeft(Next, n, [i \in 1..R |-> i - 1]) ELSE [n EXCEPT !.stop = TRUE]

Listed(a, va, pa, size) == [a EXCEPT !.pages = @ \cup {[vaddr |-> va, paddr |-> pa, size |-> size]}]

\* The tables of the last level, the same in the three x86 formats.  The
\* lower levels take transition entries when the guest is Windows, not when
\* transition_pages is set.
ListPt(x, a, table, va) ==
    LET Visit(b, i, e) == IF ENTRY_PRESENT(x.windows, e)
                          THEN Listed(b, va + i * P, Align(Base(e), P), P) ELSE b
    IN  ListTable(a, table, Visit)

\* A page directory; a 4 MB page of the format without PAE is listed with
\* its virtual address for its physical one.
ListPd(x, a, table, va, nopae) ==
    LET Visit(b, i, e) ==
          LET base == va + i * P * R
          IN  IF ~ENTRY_PRESENT(x.windows, e) THEN b
              ELSE IF PAGE_SIZE(e) /\ (nopae => x.pse)
              THEN Listed(b, base, IF nopae THEN base ELSE Align(Base(e), P * R), P * R)
              ELSE ListPt(x, b, Base(e), base)
    IN  ListTable(a, table, Visit)

Listing(v) == [v |-> v, pages |-> {}, stop |-> FALSE]

get_pages_nopae(x, v, dtb) == ListPd(x, Listing(v), dtb, 0, TRUE)

get_pages_pae(x, v, dtb) ==
    LET Visit(b, i, e) == IF ENTRY_PRESENT(x.transition, e)
                          THEN ListPd(x, b, Base(e), i * P * R * R, FALSE) ELSE b
    IN  ListTable(Listing(v), dtb, Visit)

get_pages_ia32e(x, v, dtb) ==
    LET Pdpt(b, va, table) ==
          LET Visit(c, i, e) ==
                LET base == va + i * P * R * R
                IN  IF ~ENTRY_PRESENT(x.transition, e) THEN c
                    ELSE IF PAGE_SIZE(e) THEN Listed(c, base, Align(Base(e), P * R * R), P * R * R)
                    ELSE ListPd(x, c, Base(e), base, FALSE)
          IN  ListTable(b, table, Visit)
        Visit(b, i, e) == IF ENTRY_PRESENT(x.transition, e)
                          THEN Pdpt(b, i * P * R * R * R, Base(e)) ELSE b
    IN  ListTable(Listing(v), dtb, Visit)

get_pages_ept_4l(x, v, pt) == get_pages_ia32e(x, v, pt)

\* arch_interface.get_pages; the ARM formats have none.
GetPages(x, pm, v, pt) ==
    CASE pm = "legacy" -> get_pages_nopae(x, v, pt)
      [] pm = "pae"    -> get_pages_pae(x, v, pt)
      [] pm = "ia32e"  -> get_pages_ia32e(x, v, pt)
      [] pm = "ept"    -> get_pages_ept_4l(x, v, pt)
      [] OTHER         -> Listing(v)
=============================================================================
