------------------------------ MODULE OsLife -------------------------------
(***************************************************************************)
(* linux_init, windows_init and freebsd_init: how LibVMI finds the kernel  *)
(* of a guest.  The guest is a record: its page mode, the table in CR3 of  *)
(* vCPU 0, and the offset at which its kernel was loaded.  What becomes of *)
(* vmi->kpgd is the provenance of the table:                               *)
(*   "proc"    the kernel's table of the process that happened to run;     *)
(*   "user"    that process' user half, which does not map the kernel;     *)
(*   "odd"     a table on an odd page, whose address has bit 12 set;       *)
(*   "wrong"   the address of no table; "stale", of a table of the past;   *)
(*   "system"  the table of the System process or of the swapper;          *)
(*   "config"  given by the configuration.                                 *)
(***************************************************************************)
EXTENDS InstanceState, Naturals

\* Translating a kernel address works.
Maps(s, g) == s.i.pm = g.pm /\ s.i.kpgd \in {"proc", "system", "config"}

SetTask(s, n) == [s EXCEPT !.i.task = [set |-> TRUE, off |-> n]]
Table(s, t)   == [s EXCEPT !.i.kpgd = t]

\* vmi->os_interface = os_interface: one that was installed is lost.
Install(s, kind) == [Got(s, "osif") EXCEPT !.i.kind = kind, !.ok = TRUE]

\* linux_teardown, windows_teardown and freebsd_teardown, which leaves the table.
Teardown(s, kind) ==
  IF ~Has(s, "osdata") THEN s
  ELSE LET freed == Closed(Closed(s, "sysmap"), "osdata")
       IN  IF kind = "freebsd" THEN freed ELSE Table(freed, "none")

------------------------------- \* Linux

\* linux_read_config_ghashtable_entries
linux_read_config(s, cfg) ==
  LET map  == IF "sysmap" \in cfg.keys THEN Got(s, "sysmap") ELSE s
      task == IF "task" \in cfg.keys THEN SetTask(map, 0) ELSE map
  IN  IF "kpgd" \in cfg.keys THEN Table(task, "config") ELSE task

\* linux_symbol_to_address: the System.map if there is one, else the profile.
SymbolKnown(s, F) ==
  IF Has(s, "sysmap") THEN "sysmapfile" \notin F ELSE Has(s, "json") /\ "jsonsym" \notin F

\* init_from_json_profile: the offsets, then init_task as the profile has it.
LinuxProfile(s, F, cfg) ==
  LET offsets == "offsets" \in cfg.keys \/ (Has(s, "json") /\ "jsonoff" \notin F)
      found   == Has(s, "json") /\ "jsonsym" \notin F
  IN  IF ~offsets \/ (~s.i.task.set /\ ~found) THEN Fail(s)
      ELSE IF s.i.task.set THEN s ELSE SetTask(s, 0)

\* Mutant: the offset is found, and init_task is not moved by it.
get_kaslr_offset_ia32e_Unmoved(s, F, g, fixed) ==
  IF "text" \in F THEN Fail(s) ELSE SetTask(s, fixed)

\* The first page of kernel text that is mapped.
get_kaslr_offset_ia32e(s, F, g, fixed) ==
  IF "text" \in F THEN Fail(s) ELSE SetTask(s, fixed + g.kaslr)

\* A page with the pid, the tables and the name of init_task in their places.
init_task_kaslr_test(F) == "scan" \notin F

\* init_kaslr: init_task as it is; the kernel text; a page that looks like
\* init_task's.
init_kaslr(s, F, g, fixed) ==
  LET text == get_kaslr_offset_ia32e(s, F, g, fixed)
  IN  IF ~Maps(s, g) THEN Fail(s)
      ELSE IF s.i.task.off = g.kaslr THEN IF SymbolKnown(s, F) THEN s ELSE Fail(s)
      ELSE IF s.i.pm = "ia32e" /\ text.ok THEN text
      ELSE IF init_task_kaslr_test(F) THEN SetTask(s, g.kaslr) ELSE Fail(s)

verify_linux_paging(s, F, g, fixed) ==
  LET k == init_kaslr(s, F, g, fixed)
  IN  IF k.ok /\ ~init_task_kaslr_test(F) THEN Fail(k) ELSE k

\* is_x86_64_pd, find_page_directories: the tables of all processes look alike.
find_page_directories(F, g) == IF g.pm = "ia32e" /\ "brute" \notin F THEN {"proc"} ELSE {}

\* Every page that looks like a directory, then every page.
brute_force_find_kern_mem(s, F, g, fixed) ==
  LET pds   == {verify_linux_paging(Table(s, t), F, g, fixed) : t \in find_page_directories(F, g)}
      found == {v \in pds : v.ok}
  IN  IF found = {} THEN Fail(Table(s, "wrong")) ELSE CHOOSE v \in found : TRUE

\* The three modes in turn: the one that maps the boundary, or the last.
linux_filemode_32bit_init(s, F, g) ==
  IF g.pm \in {"legacy", "pae", "aarch32"} /\ "boundary" \notin F
  THEN [Table(s, "system") EXCEPT !.i.pm = g.pm, !.ok = TRUE]
  ELSE Fail([s EXCEPT !.i.pm = "aarch32"])

\* linux_filemode_init: 32 bits when the map has swapper_pg_dir, else 64.  A
\* likely place that maps the kernel elsewhere is success, with no table.
linux_filemode_init(s, F, g, fixed) ==
  LET long   == [s EXCEPT !.i.pm = "ia32e", !.ok = TRUE]
      likely == verify_linux_paging(Table(long, "system"), F, g, fixed)
      brute  == brute_force_find_kern_mem(long, F, g, fixed)
  IN  IF SymbolKnown(s, F) /\ "swapper" \notin F THEN linux_filemode_32bit_init(s, F, g)
      ELSE IF ~SymbolKnown(s, F) \/ F \cap {"initpgt", "startup"} # {} THEN Fail(s)
      ELSE IF "elsewhere" \in F THEN long
      ELSE IF g.pm = "ia32e" /\ "likely" \notin F /\ likely.ok THEN likely
      ELSE IF brute.ok THEN brute ELSE Fail(brute)

\* CR3 without the PCID and the bit of the user half.
MaskedCr3(g) == IF g.cr3 = "odd" THEN "wrong" ELSE "proc"

linux_init(s, F, cfg, g) ==
  LET shift   == IF "kaslr" \in cfg.keys THEN g.kaslr ELSE 0
      Task(t) == IF t.i.task.set THEN [t EXCEPT !.ok = TRUE]
                 ELSE IF SymbolKnown(t, F)
                      THEN [SetTask(t, shift) EXCEPT !.ok = TRUE] ELSE Fail(t)
      Find(t) == IF t.i.kpgd # "none" THEN t
                 ELSE IF s.i.mode = "file" \/ "cr3" \in F
                      THEN linux_filemode_init(t, F, g, t.i.task.off)
                 ELSE Table(t, MaskedCr3(g))
      bit12(t) == IF t.i.kpgd = "wrong" /\ g.cr3 = "odd" THEN "proc" ELSE "wrong"
      Slide(t, fixed) ==
        LET Again(x) == init_kaslr([Table(x, bit12(x)) EXCEPT !.ok = TRUE], F, g, fixed)
        IN  IF shift # 0 THEN t ELSE OrElse(init_kaslr(t, F, g, fixed), Again)
      Ready(t) == Install(t, "linux")
      Torn(t)  == Fail(Teardown(t, "linux"))
      prof == LinuxProfile(linux_read_config(Got(s, "osdata"), cfg), F, cfg)
  IN  OrElse(AndThen(AndThen(OrElse(prof, Task), LAMBDA t :
               AndThen(Find(t), LAMBDA x : Slide(x, t.i.task.off))), Ready), Torn)

------------------------------- \* FreeBSD

freebsd_init(s, F, cfg, g) ==
  LET conf  == IF "sysmap" \in cfg.keys THEN Got(Got(s, "osdata"), "sysmap")
               ELSE Got(s, "osdata")
      known == (Has(s, "json") /\ F \cap {"jsonoff", "jsonsym"} = {})
               \/ (Has(conf, "sysmap") /\ "sysmapfile" \notin F)
      task  == SetTask(conf, 0)
      fail(x) == Fail(Forgot(Closed(x, "osdata"), {"sysmap"}))
  IN  IF ~known THEN fail(conf)
      ELSE IF s.i.mode = "file" \/ "cr3" \in F THEN fail(task)
      ELSE Install(Table(task, IF g.cr3 = "odd" THEN "proc" ELSE g.cr3), "freebsd")
------------------------------- \* Windows
\* While it initialises, s.w is what struct windows_instance holds: whether
\* the kernel's physical (nt) and virtual base (va), the offset of the table
\* in _KPROCESS (pdb), the System process (sysproc), and of the debugger data
\* block the address (kdva), its offset (kdoff) and the KPCR's (kpcr) are known.

windows_read_config(s, cfg) ==
  [own |-> s.own, bad |-> s.bad, ok |-> s.ok,
   i   |-> IF "kpgd" \in cfg.keys THEN [s.i EXCEPT !.kpgd = "config"] ELSE s.i,
   w   |-> [nt |-> "ntoskrnl" \in cfg.keys, va |-> "ntoskrnl_va" \in cfg.keys,
            pdb |-> "pdbase" \in cfg.keys, sysproc |-> "sysproc" \in cfg.keys,
            kdva |-> "kdvb" \in cfg.keys, kdoff |-> "kdbg" \in cfg.keys,
            kpcr |-> "kpcr" \in cfg.keys]]

\* get_kpgd_method2: the System process, configured or searched for in all of
\* physical memory.
get_kpgd_method2(s, F) ==
  IF "m2" \in F THEN Fail(s) ELSE [SetTask(Table(s, "system"), 0) EXCEPT !.ok = TRUE]

\* Whatever became of it.
windows_find_cr3(s, F) == [get_kpgd_method2(s, F) EXCEPT !.ok = TRUE]

check_pdbase_offset(s, F) ==
  IF s.w.pdb \/ (Has(s, "json") /\ "jsonoff" \notin F) THEN [s EXCEPT !.w.pdb = TRUE] ELSE Fail(s)

\* The module whose export table calls itself ntoskrnl.exe.
get_ntoskrnl_base(F) == "ntbase" \notin F

\* The kernel's address from the register that holds the KPCR, from the system
\* call entries, from the first interrupt gate, or from the KPCR of XP.
kpcr_find1(F) == F \cap {"base", "kpcr"} = {}
kpcr_find2(F) == F \cap {"base", "lstar"} = {}
kpcr_find3(F) == F \cap {"base", "idt"} = {}
kpcr_find4(s, F) == s.i.pm # "ia32e" /\ "base" \notin F

\* init_from_json_profile_real with each register that may hold the KPCR, or in
\* file mode with none.  A CR3 that does not map the kernel is replaced.
init_from_json_profile_real(s, F, g) ==
  LET live  == s.i.mode # "file"
      base  == [s EXCEPT !.w.va = TRUE]
      cr3   == IF Maps(base, g) THEN base ELSE windows_find_cr3(base, F)
      found == kpcr_find1(F) \/ kpcr_find2(F) \/ kpcr_find3(F) \/ kpcr_find4(s, F)
      based == IF ~live THEN IF get_ntoskrnl_base(F) /\ "kdvb" \notin F THEN base ELSE Fail(s)
               ELSE IF ~found THEN Fail(s)
               ELSE IF Maps(cr3, g) THEN cr3 ELSE Fail(cr3)
  IN  IF ~based.ok THEN based
      ELSE check_pdbase_offset([based EXCEPT !.w.nt = TRUE], F)

find_windows_version_from_json_profile(s, F) ==
  s.w.nt /\ Has(s, "json") /\ "build" \notin F

\* init_from_json_profile, with the version of the kernel.
WindowsProfile(s, F, g) ==
  LET Version(t) == IF find_windows_version_from_json_profile(t, F) THEN t ELSE Fail(t)
  IN  AndThen(IF s.w.nt /\ s.w.va THEN s
              ELSE IF ~Has(s, "json") THEN Fail(s) ELSE init_from_json_profile_real(s, F, g), Version)

\* The searches for the debugger data block.  The first three need a running
\* guest: an offset from the KPCR, the data of the kernel image near the KPCR,
\* every page that CR3 maps; the last reads all of memory.
find_kdbg_address_instant(s, F, g) ==
  /\ s.i.mode # "file" /\ s.w.kdoff /\ s.w.kpcr
  /\ g.cr3 # "user" /\ "instant" \notin F
find_kdbg_address_faster(s, F, g) == s.i.mode # "file" /\ s.i.pm = g.pm /\ "faster" \notin F
find_kdbg_address_fast(s, F, g) ==
  s.i.mode # "file" /\ s.i.pm = g.pm /\ g.cr3 # "user" /\ "fast" \notin F
find_kdbg_address(F) == "kdbgscan" \notin F

\* What the configuration says of the block: enough ("use"), nothing that
\* helps ("search"), or what the guest contradicts ("bad").
KdbgConfigured(s, F, g) ==
  LET w == s.w
  IN  CASE s.i.pm = "unknown" -> IF w.kdva /\ w.kdoff /\ w.nt THEN "use" ELSE "search"
        [] s.i.pm # "unknown" /\ w.kdva ->
             IF ~Maps(s, g) THEN "search"
             ELSE IF "conflict" \in F /\ (w.kdoff \/ w.nt) THEN "bad" ELSE "use"
        [] s.i.pm # "unknown" /\ ~w.kdva /\ w.nt /\ w.kdoff ->
             IF "conflict" \in F \/ ~Maps(s, g) THEN "bad" ELSE "use"
        [] OTHER -> "search"

\* init_from_kdbg.  The search of all memory looks for the kernel's base
\* separately and goes on without it; what the configuration gives must agree
\* with what is found.
init_from_kdbg(s, F, g) ==
  LET conf  == KdbgConfigured(s, F, g)
      near  == \/ find_kdbg_address_instant(s, F, g)
               \/ find_kdbg_address_faster(s, F, g) \/ find_kdbg_address_fast(s, F, g)
      known == [s EXCEPT !.ok = TRUE, !.w.va = TRUE]
      base  == near \/ get_ntoskrnl_base(F)
  IN  IF conf = "use" THEN [known EXCEPT !.w.nt = TRUE]
      ELSE IF conf = "bad" THEN Fail(s)
      ELSE IF ~near /\ ~find_kdbg_address(F) THEN Fail(s)
      ELSE IF s.w.nt /\ ("conflict" \in F \/ ~base) THEN Fail(known)
      ELSE IF (s.w.kdoff \/ s.w.kdva) /\ "conflict" \in F THEN Fail(known)
      ELSE [known EXCEPT !.w.nt = @ \/ base]

init_core(s, F, g) == OrElse(WindowsProfile(s, F, g), LAMBDA t : init_from_kdbg(t, F, g))

\* find_page_mode: legacy, PAE, then the 64-bit mode, which stays if none fits.
find_page_mode(s, g) ==
  IF ~s.w.nt \/ ~s.w.va \/ s.i.kpgd = "none" THEN Fail(s)
  ELSE IF g.pm \in {"legacy", "pae", "ia32e"} /\ s.i.kpgd \in {"system", "config"}
       THEN [s EXCEPT !.i.pm = g.pm]
  ELSE Fail([s EXCEPT !.i.pm = "ia32e"])

\* get_kpgd_from_json_profile.  With a known System process the table at hand
\* is kept.  When that table does not map PsInitialSystemProcess the status of
\* the symbol lookup before it is returned: success.
get_kpgd_from_json_profile(s, F, g) ==
  IF ~Has(s, "json") \/ ~s.w.nt \/ ~s.w.pdb \/ s.i.kpgd = "none" THEN Fail(s)
  ELSE IF s.w.sysproc THEN s
  ELSE IF "jsonsym" \in F THEN Fail(s)
  ELSE IF ~Maps(s, g) THEN s
  ELSE IF "sysproc" \in F THEN Fail(s) ELSE Table(s, "system")

\* By PsActiveProcessHead and by PsInitialSystemProcess.
get_kpgd_method0(s, F, g) ==
  IF "m0" \in F \/ ~Maps(s, g) THEN Fail(s)
  ELSE [SetTask(Table(s, "system"), 0) EXCEPT !.ok = TRUE]
get_kpgd_method1(s, F, g) ==
  IF "m1" \in F \/ ~Maps(s, g) THEN Fail(s)
  ELSE [SetTask(Table(s, "system"), 0) EXCEPT !.ok = TRUE]

\* Back to the state without the initialisation's record.
Drop(s) == [i |-> s.i, own |-> s.own, bad |-> s.bad, ok |-> s.ok]

windows_init(s, F, cfg, g) ==
  LET conf    == windows_read_config(Got(s, "osdata"), cfg)
      noreg   == s.i.mode = "file" \/ "cr3" \in F
      real    == "kpgd" \notin cfg.keys /\ s.i.kpgd = "none" /\ noreg
      Cr3(t)  == IF t.i.kpgd # "none" THEN t
                 ELSE IF noreg THEN get_kpgd_method2(t, F)
                 ELSE Table(t, IF g.cr3 = "odd" THEN "proc" ELSE g.cr3)
      Core(t) == init_core(t, F, g)
      Mode(t) == IF t.i.pm = "unknown" THEN find_page_mode(t, g) ELSE t
      M0(t)   == get_kpgd_method0(t, F, g)
      M1(t)   == get_kpgd_method1(t, F, g)
      M2(t)   == get_kpgd_method2(t, F)
      Find(t) == IF real THEN t
                 ELSE OrElse(OrElse(OrElse(get_kpgd_from_json_profile(t, F, g), M0), M1), M2)
      Torn(t) == Fail(Teardown(t, "windows"))
      pdb     == check_pdbase_offset(Install(conf, "windows"), F)
  IN  Drop(OrElse(AndThen(AndThen(AndThen(AndThen(pdb, Cr3), Core), Mode), Find), Torn))
============================================================================
