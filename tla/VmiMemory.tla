------------------------------ MODULE VmiMemory ------------------------------
(***************************************************************************)
(* Access to the memory of a guest through LibVMI: vmi_read, vmi_write and *)
(* their wrappers (read.c, write.c), the translation calls and cache calls *)
(* of accessors.c, the caches of cache.c and driver/memory_cache.c, and    *)
(* the memory functions of the Xen, KVM and file drivers.                  *)
(*                                                                         *)
(*   sc    the setting: driver, page mode, guest size, the calls made      *)
(*   g     the guest: memory cells, frames without memory behind them      *)
(*         (gone), frames shared copy-on-write, the page table of each     *)
(*         process (0: no such process), guest steps left                  *)
(*   now   the clock, in seconds                                           *)
(*   v     the instance: page cache c, caches v2p, pids                    *)
(*   op    the vmi_read, vmi_write or vmi_read_str being executed          *)
(*   out   the result of the last call that ended                          *)
(*   seen  history: translations that have held, contents frames have had, *)
(*         and the caches flushed since the guest last changed             *)
(*                                                                         *)
(* One step is a call, or one iteration of the loop of a call that copies  *)
(* page by page; the guest and the clock move between them.                *)
(***************************************************************************)
EXTENDS PageFormat, PageCache

CONSTANT Scenarios

SX == INSTANCE SequencesExt

VARIABLES sc, g, now, v, op, out, seen

vars == <<sc, g, now, v, op, out, seen>>

PageModes    == {"legacy", "pae", "ia32e", "aarch32", "aarch64", "ept"}
valid_pm(pm) == pm \in PageModes
valid_npm(pm) == pm = "ept"

Upd(f, k, x)  == [j \in DOMAIN f \cup {k} |-> IF j = k THEN x ELSE f[j]]
Del(f, S)     == [j \in DOMAIN f \ S |-> f[j]]
Blank         == [i \in 0..(P - 1) |-> 0]
Content(p)    == [i \in 0..(P - 1) |-> g.mem[p * P + i]]

-----------------------------------------------------------------------------
(* The driver.  Xen maps the guest's frame, so a cached page follows the   *)
(* guest; KVM and file return copies.  The file driver refuses the last    *)
(* page of the file and every write.                                       *)

xen_get_memory(p) == [ok |-> p \notin g.gone, live |-> TRUE, data |-> Blank, at |-> now]
kvm_get_memory_kvmi(p) == [ok |-> p \notin g.gone, live |-> FALSE, data |-> Content(p), at |-> now]
file_get_memory(p) ==
    [ok |-> (p + 1) * P < sc.pages * P, live |-> FALSE, data |-> Content(p), at |-> now]

get_memory_data(p) ==
    IF p >= sc.pages THEN [ok |-> FALSE, live |-> FALSE, data |-> Blank, at |-> now]
    ELSE CASE sc.driver = "xen"  -> xen_get_memory(p)
           [] sc.driver = "kvm"  -> kvm_get_memory_kvmi(p)
           [] sc.driver = "file" -> file_get_memory(p)

\* vmi_read_page: the page through the cache.
vmi_read_page(w, p) ==
    LET Of(c) == LET ok == p \in DOMAIN c.ent /\ c.ent[p].ok
                 IN  [ok   |-> ok, v |-> [w EXCEPT !.c = c],
                      page |-> IF ~ok THEN Blank
                               ELSE IF c.ent[p].live THEN Content(p) ELSE c.ent[p].data]
    IN  Of(memory_cache_insert(w.c, p, get_memory_data(p), now, sc.age, sc.max, p < sc.pages))

Rd(w, a)     == LET Of(r) == [ok |-> r.ok, val |-> r.page[a % P], v |-> r.v]
                IN  Of(vmi_read_page(w, a \div P))
RdPage(w, a) == vmi_read_page(w, a \div P)
RdPhys(rd, w, a) == Rd(w, a)

\* Walks whose tables are at physical addresses; the pages of a table.
Walk  == INSTANCE PageTables WITH Read <- RdPhys
Lists == INSTANCE PageLists WITH ReadPage <- RdPage

\* A write through a mapping of a shared frame, or by the guest, gives the
\* guest a frame of its own; a mapping cached before keeps showing the old one.
Unshared(c, p) ==
    IF p \in g.shared /\ p \in DOMAIN c.ent /\ c.ent[p].live /\ c.ent[p].ok
    THEN [c EXCEPT !.ent[p] = [@ EXCEPT !.live = FALSE, !.data = Content(p)]] ELSE c

xen_put_memory(w, pa) == [ok |-> pa \div P \notin g.gone /\ pa \div P < sc.pages,
                          v  |-> [w EXCEPT !.c = memory_cache_remove(Unshared(@, pa \div P), pa \div P)]]
kvm_put_memory(w, pa) == [ok |-> pa \div P \notin g.gone /\ pa \div P < sc.pages,
                          v  |-> [w EXCEPT !.c = memory_cache_remove(@, pa \div P)]]
file_write(w, pa)     == [ok |-> FALSE, v |-> w]

driver_write(w, pa) ==
    CASE sc.driver = "xen"  -> xen_put_memory(w, pa)
      [] sc.driver = "kvm"  -> kvm_put_memory(w, pa)
      [] sc.driver = "file" -> file_write(w, pa)

-----------------------------------------------------------------------------
(* cache.c.  A page table of zero, and physical page zero, are misses.     *)

pid_cache_get(w, pid) ==
    LET hit == pid \in DOMAIN w.pids /\ w.pids[pid] # 0
    IN  [ok |-> hit, dtb |-> IF hit THEN w.pids[pid] ELSE 0]
pid_cache_set(w, pid, dtb) == [w EXCEPT !.pids = Upd(@, pid, dtb)]
pid_cache_del(w, pid)      == [w EXCEPT !.pids = Del(@, {pid})]
pid_cache_flush(w)         == [w EXCEPT !.pids = [k \in {} |-> 0]]

v2p_cache_get(w, va, pt, npt) ==
    LET k   == <<pt, npt, va \div P>>
        hit == k \in DOMAIN w.v2p /\ w.v2p[k] # 0
    IN  [ok |-> hit, pa |-> IF hit THEN w.v2p[k] * P + (va % P) ELSE 0]

\* Mutant: the page table is left out of the key.
v2p_cache_set_AnyTable(w, va, pt, npt, pa) ==
    IF va = 0 \/ pt = 0 \/ pa = 0 THEN w
    ELSE [w EXCEPT !.v2p = [k \in DOMAIN @ \cup {<<q, npt, va \div P>> : q \in {r.pt : r \in sc.spaces}}
                            |-> IF k[2] = npt /\ k[3] = va \div P THEN pa \div P ELSE @[k]]]

v2p_cache_set(w, va, pt, npt, pa) ==
    IF va = 0 \/ pt = 0 \/ pa = 0 THEN w
    ELSE [w EXCEPT !.v2p = Upd(@, <<pt, npt, va \div P>>, pa \div P)]

\* The two keys are taken in the opposite order of get and set.
v2p_cache_del(w, va, pt, npt) == [w EXCEPT !.v2p = Del(@, {<<npt, pt, va \div P>>})]

\* ~0ull
All == 9999

v2p_cache_flush(w, pt, npt) ==
    IF pt = All THEN [w EXCEPT !.v2p = [k \in {} |-> 0]]
    ELSE [w EXCEPT !.v2p = Del(@, {k \in DOMAIN @ : k[1] = npt /\ k[2] = pt})]

-----------------------------------------------------------------------------
(* Translation                                                             *)

\* os_pid_to_pgd walks the guest's process list, see ProcessList.
os_pid_to_pgd(pid) == [ok |-> g.dtb[pid] # 0, dtb |-> g.dtb[pid]]

vmi_pid_to_dtb(w, pid) ==
    LET hit == pid_cache_get(w, pid)
        os  == os_pid_to_pgd(pid)
    IN  IF pid = 0 THEN [ok |-> TRUE, dtb |-> sc.x.kpgd, v |-> w]
        ELSE IF hit.ok THEN [ok |-> TRUE, dtb |-> hit.dtb, v |-> w]
        ELSE [ok |-> os.ok, dtb |-> os.dtb, v |-> IF os.ok THEN pid_cache_set(w, pid, os.dtb) ELSE w]

\* The page behind a cached translation can be read, or not.
Recheck(w, hit) == IF hit.ok THEN Rd(w, hit.pa) ELSE [ok |-> FALSE, val |-> 0, v |-> w]

\* The end s of a walk is cached and returned.
Walked(s, va, pt) ==
    IF s.at = "page" THEN [ok |-> TRUE, pa |-> s.pa, v |-> v2p_cache_set(s.v, va, pt, 0, s.pa)]
    ELSE [ok |-> FALSE, pa |-> 0, v |-> s.v]

\* vmi_nested_pagetable_lookup without a nested table.  A hit counts when
\* the page behind it can be read; it is kept when it cannot.
PlainLookup(w, pt, pm, va, junk) ==
    LET hit     == v2p_cache_get(w, va, pt, 0)
        From(r) == IF r.ok THEN [ok |-> TRUE, pa |-> hit.pa, v |-> r.v]
                   ELSE Walked(Walk!Lookup(0, sc.x, pm, r.v, pt, va, junk), va, pt)
    IN  From(Recheck(w, hit))

\* A cell at an address of the nested table rd.
RdNested(rd, w, a) ==
    LET Frame(n) == Recheck(n.v, n) IN Frame(PlainLookup(w, rd.npt, rd.npm, a, rd.junk))

NestedWalk == INSTANCE PageTables WITH Read <- RdNested

\* With one, every table of the walk and the page itself are guest-physical
\* and go through npt; the page is looked up there even when the walk failed.
NestedLookup(w, npt, npm, pt, pm, va, junk) ==
    LET hit       == v2p_cache_get(w, va, pt, npt)
        rd        == [npt |-> npt, npm |-> npm, junk |-> junk]
        End(s, n) == IF s.at = "page" /\ n.ok
                     THEN [ok |-> TRUE, pa |-> n.pa, v |-> v2p_cache_set(n.v, va, pt, npt, n.pa)]
                     ELSE [ok |-> FALSE, pa |-> 0, v |-> n.v]
        Inner(s)  == End(s, PlainLookup(s.v, npt, npm, s.pa, junk))
        From(r)   == IF r.ok THEN [ok |-> TRUE, pa |-> hit.pa, v |-> r.v]
                     ELSE Inner(NestedWalk!Lookup(rd, sc.x, pm, r.v, pt, va, junk))
    IN  From(Recheck(w, hit))

vmi_nested_pagetable_lookup(w, npt, npm, pt, pm, va, junk) ==
    IF ~valid_pm(pm) THEN [ok |-> FALSE, pa |-> 0, v |-> w]
    ELSE IF valid_npm(npm) THEN NestedLookup(w, npt, npm, pt, pm, va, junk)
    ELSE PlainLookup(w, pt, pm, va, junk)

\* Here a hit that cannot be read is deleted, and page_info_t starts zeroed.
vmi_pagetable_lookup_cache(w, pt, va) ==
    LET hit     == v2p_cache_get(w, va, pt, 0)
        Drop(u) == IF hit.ok THEN v2p_cache_del(u, va, 0, pt) ELSE u
        From(r) == IF r.ok THEN [ok |-> TRUE, pa |-> hit.pa, v |-> r.v]
                   ELSE Walked(Walk!Lookup(0, sc.x, sc.pm, Drop(r.v), pt, va, 0), va, pt)
    IN  From(Recheck(w, hit))

vmi_pagetable_lookup_extended(w, pt, va) == Walked(Walk!Lookup(0, sc.x, sc.pm, w, pt, va, 0), va, pt)

vmi_translate_kv2p(w, va) ==
    IF sc.x.kpgd = 0 THEN [ok |-> FALSE, pa |-> 0, v |-> w]
    ELSE vmi_pagetable_lookup_cache(w, sc.x.kpgd, va)

\* Mutant: the cached page table of the process is not resolved again.
vmi_translate_uv2p_Once(w, va, pid) ==
    LET d == vmi_pid_to_dtb(w, pid)
    IN  IF ~d.ok \/ d.dtb = 0 THEN [ok |-> FALSE, pa |-> 0, v |-> d.v]
        ELSE vmi_pagetable_lookup_cache(d.v, d.dtb, va)

\* A failure drops the cached page table of the process and resolves it
\* again; for the kernel there is none to drop and the failure stands.
vmi_translate_uv2p(w, va, pid) ==
    LET Again(e) == IF e.ok THEN vmi_pagetable_lookup_extended(e.v, e.dtb, va)
                    ELSE [ok |-> FALSE, pa |-> 0, v |-> e.v]
        First(l) == IF l.ok \/ pid \notin DOMAIN l.v.pids THEN l
                    ELSE Again(vmi_pid_to_dtb(pid_cache_del(l.v, pid), pid))
        From(d)  == IF ~d.ok \/ d.dtb = 0 THEN [ok |-> FALSE, pa |-> 0, v |-> d.v]
                    ELSE First(vmi_pagetable_lookup_cache(d.v, d.dtb, va))
    IN  From(vmi_pid_to_dtb(w, pid))

vmi_get_va_pages(w, pt) == Lists!GetPages(sc.x, sc.pm, w, pt)

-----------------------------------------------------------------------------
(* vmi_read, vmi_write, vmi_read_str, vmi_mmap_guest.  A context names the *)
(* memory: tm "none" physical, "dtb" a page table, "pid" a process (0 the  *)
(* kernel, -1 the table of the context), "ksym" a kernel symbol.           *)

Refused(w) == [ok |-> FALSE, pt |-> 0, pm |-> "none", addr |-> 0, v |-> w]

\* The switch on the translation mechanism; pm0 is the page mode it starts
\* from.  The kernel symbol's address is sc.ksym.
Resolve(w, ctx, pm0) ==
    LET pm  == IF pm0 = "none" THEN sc.pm ELSE pm0
        pid == vmi_pid_to_dtb(w, ctx.pid)
        By(pt, u, a) == [ok |-> TRUE, pt |-> pt, pm |-> pm, addr |-> a, v |-> u]
    IN  CASE ctx.tm = "none" -> [By(0, w, ctx.addr) EXCEPT !.pm = "none"]
          [] ctx.tm = "dtb"  -> By(ctx.pt, w, ctx.addr)
          [] ctx.tm = "ksym" -> IF sc.x.kpgd = 0 THEN Refused(w) ELSE By(sc.x.kpgd, w, sc.ksym)
          [] ctx.tm = "pid"  ->
               IF ctx.pid < 0 THEN IF ctx.pt = 0 THEN Refused(w) ELSE By(ctx.pt, w, ctx.addr)
               ELSE IF ~pid.ok \/ pid.dtb = 0 THEN Refused(pid.v) ELSE By(pid.dtb, pid.v, ctx.addr)
          [] OTHER -> Refused(w)

\* Where the next byte of the operation o is.
Where(w, o, junk) ==
    LET va == o.addr + Len(o.got)
    IN  IF valid_pm(o.pm) THEN vmi_nested_pagetable_lookup(w, o.npt, o.npm, o.pt, o.pm, va, junk)
        ELSE IF ~valid_npm(o.npm) THEN [ok |-> TRUE, pa |-> va, v |-> w]
        ELSE PlainLookup(w, o.npt, o.npm, va, junk)

Idle == [call |-> "idle", ctx |-> [tm |-> "none"], pt |-> 0, pm |-> "none", npt |-> 0, npm |-> "none",
         addr |-> 0, left |-> 0, got |-> <<>>, put |-> <<>>]

Started(call, r, ctx, n, put) ==
    [call |-> call, ctx |-> ctx, pt |-> r.pt, pm |-> r.pm, npt |-> ctx.npt, npm |-> ctx.npm,
     addr |-> r.addr, left |-> n, got |-> <<>>, put |-> put]

-----------------------------------------------------------------------------
(* What the guest's tables say, read without any cache, and the history.   *)

\* h is the guest asked about.
Cell(h, a) ==
    LET ok == /\ a < sc.pages * P
              /\ IF sc.driver = "file" THEN a \div P # sc.pages - 1 ELSE a \div P \notin h.gone
    IN  [ok |-> ok, val |-> IF ok THEN h.mem[a] ELSE 0, v |-> 0]

RdNow(h, u, a) == Cell(h, a)
TrueWalk == INSTANCE PageTables WITH Read <- RdNow

\* The same through the nested table rd.npt of the guest rd.h.
Outer(h, npt, a) == TrueWalk!Lookup(h, sc.x, "ept", 0, npt, a, 0)
RdNowNested(rd, u, a) ==
    LET Frame(n) == IF n.at = "page" THEN Cell(rd.h, n.pa) ELSE [ok |-> FALSE, val |-> 0, v |-> 0]
    IN  Frame(Outer(rd.h, rd.npt, a))
TrueNestedWalk == INSTANCE PageTables WITH Read <- RdNowNested

\* Page va of address space r (a guest table under a nested one, or not).
HoldsIn(h, r, va) ==
    LET Found(n) == IF n.at = "page" /\ n.size # 0 THEN {n.pa} ELSE {}
        Inner(s) == IF s.at = "page" THEN Found(Outer(h, r.npt, s.pa)) ELSE {}
    IN  IF r.npt = 0 THEN Found(TrueWalk!Lookup(h, sc.x, r.pm, 0, r.pt, va, 0))
        ELSE Inner(TrueNestedWalk!Lookup([h |-> h, npt |-> r.npt], sc.x, r.pm, 0, r.pt, va, 0))

Holds(r, va) == HoldsIn(g, r, va)

Truths(h) == UNION {{<<r.pt, r.npt, va, pa \div P>> : pa \in HoldsIn(h, r, va * P)} :
                       r \in sc.spaces, va \in 0..(sc.vpages - 1)}

NoOut == [call |-> "none", ok |-> FALSE, got |-> <<>>, pa |-> 0, pid |-> 0, pt |-> 0, va |-> 0, pages |-> {}]

\* The caches known to hold only what is true of the guest as it is: flushed
\* since it last changed, the page cache before what is read through it.
Flushed(which) ==
    CASE which = "pages" -> {"pages"} \cup (seen.clean \cap {"pids"})
      [] which = "v2p"   -> seen.clean \cup (IF "pages" \in seen.clean THEN {"v2p"} ELSE {})
      [] which = "pids"  -> seen.clean \cup {"pids"}

Init ==
    /\ sc \in Scenarios
    /\ g = [mem |-> sc.mem, gone |-> {}, shared |-> sc.shared, dtb |-> sc.dtb]
    /\ now = 1
    /\ v = [c |-> EmptyCache, v2p |-> [k \in {} |-> 0], pids |-> [k \in {} |-> 0]]
    /\ op = Idle
    /\ out = NoOut
    /\ seen = [been |-> Truths(g), was |-> {}, clean |-> {"pages", "v2p", "pids"},
               calls |-> sc.calls, moves |-> sc.moves]

-----------------------------------------------------------------------------
(* The guest and the clock                                                 *)

Frozen(c, p) ==
    IF p \in DOMAIN c.ent /\ c.ent[p].live /\ c.ent[p].ok
    THEN [c EXCEPT !.ent[p] = [@ EXCEPT !.live = FALSE, !.data = Content(p)]] ELSE c

\* The guest stores b in cell a, changes the page table of process a to b
\* (0: it ends), or gives frame a back and later gets it again, empty.
Moved(k, a, b) ==
    CASE k = "store" -> [g EXCEPT !.mem[a] = b, !.shared = @ \ {a \div P}]
      [] k = "exec"  -> [g EXCEPT !.dtb[a] = b]
      [] k = "gone"  -> [g EXCEPT !.gone = @ \cup {a}]
      [] k = "back"  -> [g EXCEPT !.gone = @ \ {a},
                                  !.mem = [i \in DOMAIN @ |-> IF i \div P = a THEN 0 ELSE @[i]]]

\* A cached mapping keeps the frame the guest no longer has.
MappedAfter(k, a) ==
    CASE k = "store" -> Unshared(v.c, a \div P)
      [] k = "gone"  -> Frozen(v.c, a)
      [] OTHER       -> v.c

\* The values cells lose in the step to h.
Lost(h) == {<<a, g.mem[a], now>> : a \in {b \in DOMAIN g.mem : h.mem[b] # g.mem[b]}}

Guest == /\ seen.moves > 0
         /\ \E m \in sc.guest :
              LET h == Moved(m[1], m[2], m[3])
              IN  /\ h # g
                  /\ g' = h
                  /\ v' = [v EXCEPT !.c = MappedAfter(m[1], m[2])]
                  /\ seen' = [seen EXCEPT !.clean = {}, !.moves = @ - 1, !.was = @ \cup Lost(h),
                                         !.been = @ \cup Truths(h)]
         /\ out' = NoOut
         /\ UNCHANGED <<sc, now, op>>

Tick == /\ now < sc.time
        /\ now' = now + 1
        /\ out' = NoOut
        /\ UNCHANGED <<sc, g, v, op, seen>>

-----------------------------------------------------------------------------
(* Calls                                                                   *)

Calling(call) == op.call = "idle" /\ seen.calls > 0 /\ call \in sc.client
Called(w, clean) == v' = w /\ seen' = [seen EXCEPT !.calls = @ - 1, !.clean = clean]

Smaller(a, b) == IF a < b THEN a ELSE b

\* One iteration of vmi_read's loop.
Chunk(w, o, junk) ==
    LET Copy(pg, off) ==
          LET len == Smaller(o.left, P - off)
          IN  IF ~pg.ok THEN [st |-> "fail", v |-> pg.v, o |-> o]
              ELSE [st |-> IF len = o.left THEN "done" ELSE "more", v |-> pg.v,
                    o  |-> [o EXCEPT !.left = @ - len,
                                     !.got = @ \o [i \in 1..len |-> pg.page[off + i - 1]]]]
        From(at) == IF at.ok THEN Copy(vmi_read_page(at.v, at.pa \div P), at.pa % P)
                    ELSE [st |-> "fail", v |-> at.v, o |-> o]
    IN  From(Where(w, o, junk))

\* The checks before the loop.
Accepts(r, ctx) == r.ok /\ (r.pt # 0 => valid_pm(r.pm)) /\ (ctx.npt # 0 => valid_npm(ctx.npm))

vmi_read(ctx, n) ==
    LET r == Resolve(v, ctx, ctx.pm)
    IN  /\ Calling("read")
        /\ Called(r.v, seen.clean)
        /\ IF Accepts(r, ctx)
           THEN op' = Started("read", r, ctx, n, <<>>) /\ out' = NoOut
           ELSE op' = Idle /\ out' = [NoOut EXCEPT !.call = "read"]
        /\ UNCHANGED <<sc, g, now>>

ReadChunk ==
    /\ op.call = "read"
    /\ \E k \in {Chunk(v, op, junk) : junk \in sc.junk} :
         /\ v' = k.v
         /\ op' = IF k.st = "more" THEN k.o ELSE Idle
         /\ out' = IF k.st = "more" THEN NoOut
                   ELSE [NoOut EXCEPT !.call = "read", !.ok = (k.st = "done"), !.got = k.o.got,
                                      !.pt = op.pt, !.va = op.addr]
    /\ UNCHANGED <<sc, g, now, seen>>

\* The wrappers: a physical address, an address of a process, a symbol.
Ctx(tm, addr, pid, pt) == [tm |-> tm, addr |-> addr, pid |-> pid, pt |-> pt, pm |-> "none",
                           npt |-> 0, npm |-> "none"]
vmi_read_pa(pa, n)      == vmi_read(Ctx("none", pa, 0, 0), n)
vmi_read_va(va, pid, n) == vmi_read(Ctx("pid", va, pid, 0), n)
vmi_read_ksym(n)        == vmi_read(Ctx("ksym", 0, 0, 0), n)

\* Fixed sizes in cells: 8 to 32 bits are one, 64 bits are two; an address
\* is as wide as the page mode says, and cannot be read in another one.
Width(bits) == IF bits = 64 THEN 2 ELSE 1
AddrBits(pm) == CASE pm \in {"ia32e", "aarch64"} -> {64}
                  [] pm \in {"legacy", "pae", "aarch32"} -> {32}
                  [] OTHER -> {}

vmi_read_X_pa(pa)      == \E b \in {8, 64} : vmi_read_pa(pa, Width(b))
vmi_read_X_va(va, pid) == \E b \in {8, 64} : vmi_read_va(va, pid, Width(b))
vmi_read_X_ksym        == \E b \in {8, 64} : vmi_read_ksym(Width(b))
vmi_read_addr_va(va, pid) == \E b \in AddrBits(sc.pm) : vmi_read_va(va, pid, Width(b))
vmi_read_addr_pa(pa)      == \E b \in AddrBits(sc.pm) : vmi_read_pa(pa, Width(b))
vmi_read_addr_ksym        == \E b \in AddrBits(sc.pm) : vmi_read_ksym(Width(b))

\* vmi_read_str: a vmi_read of the rest of the virtual page per iteration,
\* then the address moves on by the offset the page was read from.
vmi_read_str(ctx) ==
    /\ Calling("str")
    /\ Called(v, seen.clean)
    /\ op' = [Started("str", Refused(v), ctx, 0, <<>>) EXCEPT !.addr = ctx.addr]
    /\ out' = NoOut
    /\ UNCHANGED <<sc, g, now>>

Whole(w, o, junk) ==
    SX!FoldLeft(LAMBDA k, i : IF k.st = "more" THEN Chunk(k.v, k.o, junk) ELSE k,
                [st |-> "more", v |-> w, o |-> o], [i \in 1..o.left |-> i])

StrPage ==
    LET ctx == [op.ctx EXCEPT !.addr = op.addr]
        off == op.addr % P
        r   == Resolve(v, ctx, ctx.pm)
        Ends(ok, t) == op' = Idle /\ out' = [NoOut EXCEPT !.call = "str", !.ok = ok, !.got = t,
                                                         !.pt = r.pt, !.va = op.ctx.addr]
    IN  /\ op.call = "str"
        /\ \E k \in {IF Accepts(r, ctx) THEN Whole(r.v, Started("str", r, ctx, P - off, <<>>), junk)
                   ELSE [st |-> "fail", v |-> r.v, o |-> Idle] : junk \in sc.junk} :
             LET cells == k.o.got
                 stop == {i \in 1..Len(cells) : cells[i] = 0}
                 len  == IF stop = {} THEN Len(cells) ELSE (CHOOSE i \in stop : \A j \in stop : i <= j) - 1
                 str  == op.got \o SubSeq(cells, 1, len)
             IN  /\ v' = k.v
                 /\ IF (k.st = "fail" /\ cells = <<>>) \/ Len(str) + 1 > sc.strmax
                    THEN Ends(FALSE, op.got)
                    ELSE IF stop # {} THEN Ends(TRUE, str)
                    ELSE op' = [op EXCEPT !.got = str, !.addr = @ + off] /\ out' = NoOut
        /\ UNCHANGED <<sc, g, now, seen>>

\* vmi_write takes the page mode of the instance, checks nothing before the
\* loop, and reports success for an unknown translation mechanism.
vmi_write(ctx, data) ==
    LET r == Resolve(v, ctx, sc.pm)
    IN  /\ Calling("write")
        /\ Called(r.v, seen.clean)
        /\ IF r.ok
           THEN op' = Started("write", r, ctx, Len(data), data) /\ out' = NoOut
           ELSE op' = Idle /\ out' = [NoOut EXCEPT !.call = "write", !.ok = (ctx.tm = "undefined")]
        /\ UNCHANGED <<sc, g, now>>

\* Mutant: the place in the page is not counted.
WriteLength_WholePage(left, off) == Smaller(left, P)

WriteLength(left, off) == Smaller(left, P - off)

\* The history after a write to page p; a live mapping shows it by itself.
Written(h, p) ==
    [seen EXCEPT !.was = @ \cup Lost(h), !.been = @ \cup Truths(h),
        !.clean = IF sc.driver = "xen" /\ p \notin g.shared /\ Truths(h) = Truths(g) THEN @ ELSE {}]

WriteChunk ==
    /\ op.call = "write"
    /\ UNCHANGED <<sc, now>>
    /\ \E at \in {Where(v, op, junk) : junk \in sc.junk} :
         LET d    == driver_write(at.v, at.pa)
             len  == WriteLength(op.left, at.pa % P)
             done == Len(op.got)
             h    == [g EXCEPT !.shared = @ \ {at.pa \div P},
                               !.mem = [a \in DOMAIN @ |-> IF a \in at.pa..(at.pa + len - 1)
                                                         THEN op.put[done + 1 + a - at.pa] ELSE @[a]]]
             ok   == at.ok /\ d.ok
             last == ~ok \/ len = op.left
             now2 == op.got \o (IF ok THEN SubSeq(op.put, done + 1, done + len) ELSE <<>>)
         IN  /\ v' = IF at.ok THEN d.v ELSE at.v
             /\ g' = IF ok THEN h ELSE g
             /\ seen' = IF ok THEN Written(h, at.pa \div P) ELSE seen
             /\ op' = IF last THEN Idle ELSE [op EXCEPT !.got = now2, !.left = @ - len]
             /\ out' = IF last THEN [NoOut EXCEPT !.call = "write", !.ok = ok, !.got = now2,
                                                  !.pt = op.pt, !.va = op.addr] ELSE NoOut

vmi_write_pa(pa, data)      == vmi_write(Ctx("none", pa, 0, 0), data)
vmi_write_va(va, pid, data) == vmi_write(Ctx("pid", va, pid, 0), data)
vmi_write_ksym(data)        == vmi_write(Ctx("ksym", 0, 0, 0), data)

Datum == {<<7>>, <<7, 8>>}
vmi_write_X_pa(pa)      == \E d \in Datum : vmi_write_pa(pa, d)
vmi_write_X_va(va, pid) == \E d \in Datum : vmi_write_va(va, pid, d)
vmi_write_X_ksym        == \E d \in Datum : vmi_write_ksym(d)
vmi_write_addr_va(va, pid) ==
    \E b \in AddrBits(sc.pm), d \in Datum : Len(d) = Width(b) /\ vmi_write_va(va, pid, d)

AccessPtr(i, ndx) == ndx

\* Page i of vmi_mmap_guest's loop.
MmapPage(ctx, r, a, i) ==
    LET Add(t) == IF t.ok THEN [a EXCEPT !.v = t.v, !.pfns = Append(@, t.pa \div P),
                                         !.ptr = Append(@, AccessPtr(i, Len(a.pfns) + 1))]
                  ELSE [a EXCEPT !.v = t.v, !.ptr = Append(@, 0)]
    IN  Add(vmi_nested_pagetable_lookup(a.v, ctx.npt, ctx.npm, r.pt, r.pm, r.addr + (i - 1) * P, a.junk))

\* vmi_mmap_guest: the pages that translate are mapped together, in order;
\* a page that does not gets no pointer.  out.got: frame + 1, or 0 for NULL.
vmi_mmap_guest(ctx, n) ==
    LET r == Resolve(v, ctx, ctx.pm)
    IN  /\ Calling("mmap")
        /\ \E a \in {SX!FoldLeft(LAMBDA b, i : MmapPage(ctx, r, b, i),
                                [v |-> r.v, pfns |-> <<>>, ptr |-> <<>>, junk |-> junk],
                                [i \in 1..n |-> i]) : junk \in sc.junk} :
             LET mapped == r.ok /\ ctx.tm # "none" /\ a.pfns # <<>> /\ sc.driver = "xen"
                           /\ \A i \in DOMAIN a.pfns : get_memory_data(a.pfns[i]).ok
             IN  /\ Called(IF r.ok /\ ctx.tm # "none" THEN a.v ELSE r.v, seen.clean)
                 /\ out' = [NoOut EXCEPT !.call = "mmap", !.ok = mapped, !.pt = r.pt, !.va = r.addr,
                        !.got = IF mapped THEN [i \in 1..n |-> IF a.ptr[i] \in DOMAIN a.pfns
                                                              THEN a.pfns[a.ptr[i]] + 1 ELSE 0] ELSE <<>>]
        /\ UNCHANGED <<sc, g, now, op>>

\* The calls that translate an address, or list or resolve a page table.
Translate(call, t, pid, pt, va) ==
    /\ Calling(call)
    /\ Called(t.v, seen.clean)
    /\ out' = [NoOut EXCEPT !.call = call, !.ok = t.ok, !.pa = t.pa, !.pid = pid, !.pt = pt, !.va = va]
    /\ UNCHANGED <<sc, g, now, op>>

Kv2p(va)        == Translate("kv2p", vmi_translate_kv2p(v, va), 0, sc.x.kpgd, va)
Uv2p(va, pid)   == Translate("uv2p", vmi_translate_uv2p(v, va, pid), pid, 0, va)
vmi_pagetable_lookup(pt, va) == Translate("lookup", vmi_pagetable_lookup_cache(v, pt, va), 0, pt, va)
Extended(pt, va) == Translate("extended", vmi_pagetable_lookup_extended(v, pt, va), 0, pt, va)
Nested(npt, pt, va) ==
    \E junk \in sc.junk :
        Translate("nested", vmi_nested_pagetable_lookup(v, npt, "ept", pt, sc.pm, va, junk), 0, pt, va)

PidToDtb(pid) ==
    LET d == vmi_pid_to_dtb(v, pid)
    IN  /\ Calling("dtb")
        /\ Called(d.v, seen.clean)
        /\ out' = [NoOut EXCEPT !.call = "dtb", !.ok = d.ok, !.pid = pid, !.pt = d.dtb]
        /\ UNCHANGED <<sc, g, now, op>>

VaPages(pt) ==
    LET l == vmi_get_va_pages(v, pt)
    IN  /\ Calling("va_pages")
        /\ Called(l.v, seen.clean)
        /\ out' = [NoOut EXCEPT !.call = "va_pages", !.ok = ~l.stop, !.pt = pt, !.pages = l.pages]
        /\ UNCHANGED <<sc, g, now, op>>

\* The cache calls.  What a client adds is its own responsibility, so a
\* cache it added to is no longer known to be true.
Cache(w, clean) == Called(w, clean) /\ out' = NoOut /\ UNCHANGED <<sc, g, now, op>>

vmi_pidcache_add(pid, dtb) ==
    Calling("pid_add") /\ Cache(pid_cache_set(v, pid, dtb), seen.clean \ {"pids"})
vmi_pidcache_flush == Calling("pid_flush") /\ Cache(pid_cache_flush(v), Flushed("pids"))
vmi_v2pcache_add(va, pt, pa) ==
    Calling("v2p_add") /\ Cache(v2p_cache_set(v, va, pt, 0, pa), seen.clean \ {"v2p"})
vmi_v2pcache_nested_add(va, pt, npt, pa) ==
    Calling("v2p_add") /\ Cache(v2p_cache_set(v, va, pt, npt, pa), seen.clean \ {"v2p"})
vmi_v2pcache_flush(pt) ==
    Calling("v2p_flush") /\ Cache(v2p_cache_flush(v, pt, 0), IF pt = All THEN Flushed("v2p") ELSE seen.clean)
vmi_v2pcache_nested_flush(pt, npt) ==
    Calling("v2p_flush") /\ Cache(v2p_cache_flush(v, pt, npt), seen.clean)
vmi_pagecache_flush ==
    Calling("page_flush") /\ Cache([v EXCEPT !.c = memory_cache_flush(@)], Flushed("pages"))

Reads ==
    \/ \E a \in sc.pas : vmi_read_X_pa(a) \/ vmi_read_addr_pa(a) \/ vmi_write_X_pa(a)
    \/ \E a \in sc.vas, p \in sc.pids :
          \/ vmi_read_X_va(a, p) \/ vmi_read_addr_va(a, p)
          \/ vmi_write_X_va(a, p) \/ vmi_write_addr_va(a, p)
          \/ vmi_read_str(Ctx("pid", a, p, 0))
          \/ vmi_mmap_guest(Ctx("pid", a, p, 0), 3)
    \/ vmi_read_X_ksym \/ vmi_read_addr_ksym \/ vmi_write_X_ksym \/ vmi_read_str(Ctx("ksym", 0, 0, 0))
    \/ \E c \in sc.ctxs : vmi_read(c, 3) \/ vmi_write(c, <<7, 8, 9>>) \/ vmi_mmap_guest(c, 2)

Next ==
    \/ Guest \/ Tick
    \/ Reads \/ ReadChunk \/ StrPage \/ WriteChunk
    \/ \E a \in sc.vas :
          \/ Kv2p(a)
          \/ \E p \in sc.pids : Uv2p(a, p)
          \/ \E pt \in sc.pts : vmi_pagetable_lookup(pt, a) \/ Extended(pt, a)
          \/ \E pt \in sc.pts, npt \in sc.npts : Nested(npt, pt, a)
    \/ \E p \in sc.pids : PidToDtb(p) \/ \E pt \in sc.pts : vmi_pidcache_add(p, pt)
    \/ \E pt \in sc.pts : VaPages(pt)
    \/ vmi_pidcache_flush \/ vmi_pagecache_flush
    \/ \E pt \in sc.pts \cup {All} : vmi_v2pcache_flush(pt)
    \/ \E pt \in sc.pts, a \in sc.vas, pa \in sc.pas :
          \/ vmi_v2pcache_add(a, pt, pa)
          \/ \E npt \in sc.npts : vmi_v2pcache_nested_add(a, pt, npt, pa)
    \/ \E pt \in sc.pts, npt \in sc.npts : vmi_v2pcache_nested_flush(pt, npt)

Spec == Init /\ [][Next]_vars

-----------------------------------------------------------------------------
(* Properties                                                              *)

\* The page cache holds pages of the guest and no others, the translation
\* and pid caches page-aligned addresses, and a call in progress has bytes
\* left to move and fewer than it was asked for delivered.
TypeOK ==
    /\ DOMAIN v.c.ent \subseteq 0..(sc.pages - 1)
    /\ \A p \in DOMAIN v.c.ent : v.c.ent[p].at \in 1..now /\ v.c.ent[p].live \in BOOLEAN
    /\ \A k \in DOMAIN v.v2p : k[1] # 0 /\ v.v2p[k] \in Nat
    /\ op.call \in {"idle", "read", "write", "str"}
    /\ op.call \in {"read", "write"} => op.left > 0
    /\ op.call = "write" => Len(op.got) + op.left = Len(op.put)

\* The eviction queue of the page cache lists exactly the pages of the hash
\* table, once each, and never more than max_cache_size: so eviction frees
\* what it pops and nothing is left in the table for ever.
LruIsTable == Agree(v.c, sc.max)

\* The caches are well formed.
CachesConsistent == TypeOK /\ LruIsTable

AllClean == seen.clean = {"pages", "v2p", "pids"}

\* The copying loops and the translation cache work in pages of 4 KB, so
\* the 1 KB pages of v2p_aarch32 are left out; so are addresses in a hole of
\* the PDPT, for which v2p_pae succeeds with an address it never set.
Faithful  == ~sc.tiny
Hole(r, va) == sc.pm = "pae" /\ Holds(r, va) = {}

Space(pt, npt, pm) == [pt |-> pt, npt |-> npt, pm |-> pm]

\* vmi_get_va_pages lists exactly what a lookup finds: every address that
\* translates is in one listed page, at the physical address the lookup
\* gives, and no listed page holds an address that does not translate.
ListedTranslate ==
    (out.call = "va_pages" /\ out.ok /\ AllClean /\ sc.pm \in {"ia32e", "pae", "ept"}
        /\ sc.x.transition = sc.x.windows)
    => \A va \in 0..(sc.vpages * P - 1) :
         {pg.paddr + (va - pg.vaddr) : pg \in {q \in out.pages : va \in q.vaddr..(q.vaddr + q.size - 1)}}
         = Holds(Space(out.pt, 0, sc.pm), va)

\* A guest LibVMI maps live, whose frames stay where they are, and a client
\* that adds nothing to the caches itself.
Mapped == /\ sc.driver = "xen" /\ Faithful /\ sc.pm # "pae" /\ sc.shared = {}
          /\ ~\E m \in sc.guest : m[1] = "gone"
          /\ sc.client \cap {"v2p_add", "pid_add"} = {}

\* Every entry of the translation cache is a translation that the tables of
\* its own address space have held at some time, however the guest rewrote
\* them, and however pages of tables were evicted and mapped again.
CachedWasTrue ==
    Mapped => \A k \in DOMAIN v.v2p : v.v2p[k] # 0 => <<k[1], k[2], k[3], v.v2p[k]>> \in seen.been

\* Flushing the page cache, then the translation cache, and the pid cache,
\* leaves no stale answer behind: until the guest changes, everything cached
\* again is true of the guest as it is.
CleanIsTrue ==
    /\ "pages" \in seen.clean =>
         \A p \in DOMAIN v.c.ent : LET e == v.c.ent[p] IN
            /\ e.ok = get_memory_data(p).ok
            /\ e.ok => e.live \/ e.data = Content(p)
    /\ ("v2p" \in seen.clean /\ Faithful) =>
         \A k \in DOMAIN v.v2p : v.v2p[k] # 0 =>
            LET r == Space(k[1], k[2], IF k[1] \in sc.npts THEN "ept" ELSE sc.pm)
            IN  Hole(r, k[3] * P) \/ v.v2p[k] * P \in Holds(r, k[3] * P)
    /\ "pids" \in seen.clean => \A i \in DOMAIN v.pids : v.pids[i] = g.dtb[i]

\* What the caches hold was true, and is true after a flush.
CachesTrue == CachedWasTrue /\ CleanIsTrue

\* The cells op addresses, by the guest's own tables.
CellsOf(o, i) ==
    IF o.pm = "none" /\ o.npm = "none" THEN {o.addr + i - 1}
    ELSE IF o.pm = "none" THEN Holds(Space(o.npt, 0, o.npm), o.addr + i - 1)
    ELSE Holds(Space(o.pt, o.npt, o.pm), o.addr + i - 1)

Delivered == IF op'.call = "read" THEN op'.got ELSE out'.got
NewCells  == (Len(op.got) + 1)..Len(Delivered)

\* What vmi_read delivers page by page is, cell for cell, the memory the
\* guest's own tables name, whenever no cache is stale: the chunking, the
\* walk, the translation cache and the page cache together are a plain read.
ReadIsTrue ==
    (op.call = "read" /\ op' # op /\ AllClean /\ Faithful) =>
      \A i \in NewCells : CellsOf(op, i) # {} \/ sc.pm # "pae" =>
         \E c \in CellsOf(op, i) : Delivered[i] = g.mem[c]

\* With a cache age limit, a read of physical memory never delivers a value
\* the cell lost longer ago than the limit, although no write or guest store
\* invalidates the cached page.
StaleBound ==
    (op.call = "read" /\ op' # op /\ op.pm = "none" /\ op.npm = "none" /\ sc.age > 0) =>
      \A i \in NewCells :
         LET c == op.addr + i - 1
         IN  \/ Delivered[i] = g.mem[c]
             \/ \E t \in 0..now : now - t <= sc.age /\ <<c, Delivered[i], t>> \in seen.was

\* A read delivers the guest's memory, with caches that are clean and with an
\* age limit on those that are not.
ReadsTrue == [][ReadIsTrue /\ StaleBound]_vars

\* vmi_write changes the cells its address names and no others, a page at a
\* time and in order, even when a later page does not translate.
WriteExact ==
    [][(op.call = "write" /\ op' # op /\ AllClean /\ Faithful /\ sc.pm # "pae") =>
         LET done == Len(op.got)
             upto == IF op'.call = "write" THEN Len(op'.got) ELSE Len(out'.got)
         IN  /\ \A i \in (done + 1)..upto : \E c \in CellsOf(op, i) : g'.mem[c] = op.put[i]
             /\ \A c \in DOMAIN g.mem : g'.mem[c] # g.mem[c] =>
                  \E i \in (done + 1)..upto : c \in CellsOf(op, i)]_vars

\* vmi_translate_uv2p fails only for an address the process does not have
\* now: a page table cached for a process that has since changed it, and a
\* cached translation, never hide an address that is there.
UvRetry ==
    (out.call = "uv2p" /\ ~out.ok /\ out.pid # 0 /\ Mapped) =>
        (g.dtb[out.pid] = 0 \/ Holds(Space(g.dtb[out.pid], 0, sc.pm), out.va) = {})

\* Every pointer vmi_mmap_guest returns shows the page its position in the
\* array stands for, and a page that does not translate has none, wherever
\* the missing pages are.
MmapRight ==
    (out.call = "mmap" /\ out.ok /\ AllClean /\ Faithful /\ sc.pm # "pae") =>
        \A i \in DOMAIN out.got :
           {p + 1 : p \in {c \div P : c \in Holds(Space(out.pt, 0, sc.pm), out.va + (i - 1) * P)}}
           = {out.got[i]} \ {0}

\* The calls that answer with addresses and pages give the guest's own.
AnswersTrue == ListedTranslate /\ UvRetry /\ MmapRight
=============================================================================
