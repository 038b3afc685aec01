--------------------------- MODULE MCVmiInstance ---------------------------
(***************************************************************************)
(* The scenarios of VmiInstance: each part of the library against the      *)
(* failures and the guest's moves that concern it.                         *)
(***************************************************************************)
EXTENDS VmiInstance

MCProcs == 1..3

Hvm(pm, cr3, kaslr) == [type |-> "hvm", pm |-> pm, cr3 |-> cr3, kaslr |-> kaslr]
By(mode, flags, by) == [mode |-> mode, flags |-> flags, by |-> by, present |-> {mode}]
Cfg(os, keys, json, path) == [os |-> os, keys |-> keys, json |-> json, path |-> path]

NoList == [os |-> "linux", next |-> [n \in Nodes |-> Null], pid |-> [n \in Nodes |-> 0],
           pgd |-> [n \in Nodes |-> 0], linked |-> {}, junk |-> 0, holes |-> {}, active |-> 0]
NoTable == [names |-> <<>>, ord |-> <<>>, fun |-> <<>>, paged |-> {}, section |-> {}, image |-> TRUE]
NoKernel == [os |-> "linux", profile |-> <<>>, kdbg |-> <<>>, table |-> NoTable]

Base ==
  [life |-> Nothing, guest |-> Hvm("ia32e", "proc", 1), cpu |-> <<>>, list |-> NoList,
   walk |-> [Walk("linux", "pid", 0, FALSE) EXCEPT !.on = FALSE], mods |-> <<>>, kernel |-> NoKernel,
   client |-> {}, does |-> {}, faults |-> {}, at_once |-> 1, attach |-> {}, cfgs |-> {},
   boots |-> {}, named |-> {}, bys |-> {}, keys |-> {}, tables |-> {}, newpid |-> 0,
   names |-> {}, rvas |-> {}, spaces |-> {}, adds |-> {}, loads |-> {}, calls |-> 0, moves |-> 0]

------------------------------- \* Attaching and detaching
XenLife ==
  [Base EXCEPT !.client = {"init", "destroy"}, !.calls = 4, !.at_once = 1,
     !.attach = {By("xen", flags, by) : flags \in {{}, {"events"}, {"events", "watch"}}, by \in {"name", "uuid"}}
                \cup {By("xen", {"watch"}, by) : by \in {"none", "id"}} \cup {By("xen", {"events"}, "id")},
     !.faults = {"version", "libxc", "libxs", "evmem", "minor", "monitor", "evtchn", "bind",
                 "abi", "maxid", "getinfo", "gone", "gpfn", "memsize", "name", "uuid", "idname"}]
XenPv ==
  [XenLife EXCEPT !.guest.type = "pv", !.faults = {"domctl", "width", "gone", "gpfn", "memsize"},
                  !.calls = 3, !.at_once = 2]
KvmLife ==
  [Base EXCEPT !.client = {"init", "destroy"}, !.calls = 3, !.does = {"connect"}, !.moves = 3,
     !.attach = {By("kvm", {}, "name"), By("kvm", {"events"}, "id"), By("kvm", {"watch"}, "name")},
     !.faults = {"malloc", "libkvmi", "dladdr", "libvirt", "conn", "data", "dom", "libver", "kvmi",
                 "vcpus", "arrays", "control", "kvmiversion", "memsize", "getinfo", "name", "idname"}]
FileLife ==
  [Base EXCEPT !.client = {"init", "destroy"}, !.calls = 3,
     !.attach = {By("file", flags, by) : flags \in {{}, {"events"}}, by \in {"name", "id"}},
     !.faults = {"fopen", "memsize"}]
\* vmi_init_complete where one, two or no driver finds the guest
Complete ==
  [Base EXCEPT !.client = {"complete", "destroy"}, !.calls = 3,
     !.attach = {[By("xen", {"events"}, by) EXCEPT !.present = present] :
                   by \in {"name", "id", "uuid"}, present \in {{"xen"}, {"xen", "kvm"}, {"file"}, {}}},
     !.cfgs = {Cfg("linux", {"sysmap", "offsets", "ostype"}, FALSE, FALSE), Cfg("linux", {}, TRUE, TRUE)},
     !.faults = {"libxs", "dladdr", "fstat", "monitor", "pagemode", "sysmapfile", "profile",
                 "name", "getinfo", "memsize"}]

------------------------------- \* The operating systems
XenUp  == vmi_init(Nothing, {}, "xen", {"events"}, "name", "hvm")
FileUp == vmi_init(Nothing, {}, "file", {}, "name", "hvm")

Linux ==
  [Base EXCEPT !.life = XenUp, !.client = {"os", "paging", "profile", "destroy"}, !.calls = 3,
     !.guest = Hvm("ia32e", "proc", 1), !.does = {"reboot"}, !.moves = 1,
     !.boots = {Hvm("ia32e", "proc", 1), Hvm("ia32e", "user", 0), Hvm("ia32e", "odd", 2)},
     !.cfgs = {Cfg("linux", {"sysmap", "offsets", "ostype"}, FALSE, FALSE),
               Cfg("linux", {"sysmap", "task", "kaslr", "ostype"}, FALSE, FALSE),
               Cfg("linux", {"offsets", "kpgd", "ostype"}, TRUE, FALSE),
               Cfg("linux", {}, TRUE, TRUE), Cfg("linux", {"kaslr"}, TRUE, FALSE)},
     !.faults = {"pagemode", "profile", "profiletype", "config", "sysmapfile", "jsonsym", "jsonoff",
                 "text", "scan", "cr3", "initpgt", "likely", "swapper"}]
LinuxOdd  == [Linux EXCEPT !.guest = Hvm("ia32e", "odd", 0), !.does = {}, !.calls = 2, !.at_once = 2]
LinuxFile ==
  [Linux EXCEPT !.life = FileUp, !.does = {}, !.at_once = 2, !.calls = 2,
     !.faults = {"swapper", "boundary", "initpgt", "startup", "likely", "elsewhere", "brute", "sysmapfile", "text", "scan"}]
LinuxFile32 == [LinuxFile EXCEPT !.guest = Hvm("pae", "proc", 0)]
FreeBsd ==
  [Linux EXCEPT !.cfgs = {Cfg("freebsd", {"sysmap", "ostype"}, FALSE, FALSE), Cfg("freebsd", {}, TRUE, TRUE)},
     !.faults = {"cr3", "jsonsym", "jsonoff", "sysmapfile", "profile", "pagemode"}]
Windows ==
  [Base EXCEPT !.life = XenUp, !.client = {"os", "destroy"}, !.calls = 2, !.at_once = 2,
     !.guest = Hvm("ia32e", "proc", 0),
     !.cfgs = {Cfg("windows", {"pdbase", "ostype"}, FALSE, FALSE), Cfg("windows", {"ostype"}, TRUE, FALSE),
               Cfg("windows", {}, TRUE, TRUE), Cfg("windows", {"kdvb", "kpcr", "kdbg", "pdbase", "ostype"}, FALSE, FALSE),
               Cfg("windows", {"ntoskrnl", "ntoskrnl_va", "sysproc", "ostype"}, TRUE, FALSE),
               Cfg("windows", {"kpgd", "ntoskrnl", "kdbg", "pdbase", "ostype"}, FALSE, FALSE)},
     !.faults = {"cr3", "jsonoff", "jsonsym", "build", "base", "m0", "m1", "m2", "sysproc", "conflict",
                 "instant", "faster", "fast", "kdbgscan", "ntbase", "profile"}]
WindowsUser == [Windows EXCEPT !.guest = Hvm("ia32e", "user", 0)]
WindowsFile == [Windows EXCEPT !.life = FileUp, !.guest = Hvm("pae", "proc", 0)]

------------------------------- \* Registers
Names(type) == CASE type = "arm" -> {"r0", "ttbr0", "xmm"} [] OTHER -> {"rax", "cr3", "dr0", "xmm"}
Regs(type) ==
  [Base EXCEPT !.life = XenUp, !.guest.type = type, !.cpu = [v \in 0..1 |-> [r \in Names(type) |-> 0]],
     !.named = Names(type), !.client = {"set", "get", "pause"}, !.calls = 2, !.does = {"run"}, !.moves = 1,
     !.faults = {"pause", "context", "setcontext", "unpause"}]

------------------------------- \* Processes
\* Two processes and room for one more.  On Linux process 2 is a kernel thread
\* and process 1 has its table on the odd page after init's.
Listed(os) ==
  [NoList EXCEPT !.os = os, !.linked = {1, 2}, !.junk = 7,
     !.next = [n \in Nodes |-> CASE n = Start -> 1 [] n = 1 -> 2 [] n = 2 -> Ends(os)
                                 [] n = Sentinel -> Start [] OTHER -> Null],
     !.pid = [n \in Nodes |-> IF n \in 0..3 THEN n + 1 ELSE 0],
     !.pgd = [n \in Nodes |-> CASE n = 0 -> 8 [] n = 1 -> 9 [] n = 2 -> (IF os = "linux" THEN 0 ELSE 12)
                                [] OTHER -> 0]]
Walks(os) ==
  [Base EXCEPT !.life = XenUp, !.list = Listed(os), !.client = {"walk"}, !.calls = 2,
     !.does = {"exit", "fork"}, !.moves = 2, !.bys = {"pid", "pgd"}, !.keys = {2, 3, 7, 9, 12},
     !.tables = {14}, !.newpid = 5]
Unreadable(os) == [Walks(os) EXCEPT !.list.holes = {1}, !.moves = 0]
Threads  == [Walks("linux") EXCEPT !.list.active = 8]

------------------------------- \* Symbols
Table1 == [NoTable EXCEPT !.names = << <<1>>, <<1, 2>>, <<2>>, <<3, 1>> >>, !.ord = <<2, 0, 1, 3>>,
                          !.fun = <<20, 30, 10, 44>>, !.section = {44}]
Table2 == [NoTable EXCEPT !.names = << <<1>>, <<2>> >>, !.ord = <<0, 0>>, !.fun = <<50>>]
Table3 == [Table1 EXCEPT !.paged = {1}]
Mods   == (<<1, 100>> :> Table1) @@ (<<2, 100>> :> Table2)
Symbolic(os) ==
  [Base EXCEPT !.life = SetTask(XenUp, 3), !.client = {"ksym", "sym", "name", "add", "flush"},
     !.calls = 3, !.does = {"load"}, !.moves = 1, !.spaces = {0, 1},
     !.names = {<<1>>, <<1, 2>>, <<1, 2, 3>>, <<2>>, <<3, 1>>, <<4>>, <<4, 5, 6>>}, !.rvas = {20, 50, 44, 13},
     !.kernel = [NoKernel EXCEPT !.os = os, !.profile = (<<1>> :> 10) @@ (<<4, 5>> :> 17)],
     !.adds = {[base |-> 0, pid |-> 0, dtb |-> 0, rva |-> 77, name |-> <<4, 5, 6, 7>>],
              [base |-> 100, pid |-> 3, dtb |-> 1, rva |-> 50, name |-> <<3, 1>>]}]
LinuxSymbols == Symbolic("linux")
WindowsSymbols ==
  [Symbolic("windows") EXCEPT !.mods = Mods, !.kernel.kdbg = (<<4>> :> 60), !.kernel.table = Table2,
     !.loads = {Mods, (<<1, 100>> :> Table3) @@ (<<5, 100>> :> Table2),
                (<<2, 200>> :> [Table1 EXCEPT !.image = FALSE])}]

MCScenarios ==
  {XenLife, XenPv, KvmLife, FileLife, Complete,
    Linux, LinuxOdd, LinuxFile, LinuxFile32, FreeBsd, Windows, WindowsUser, WindowsFile,
    Regs("hvm"), Regs("pv64"), Regs("pv32"), Regs("arm"), Regs("kvm"),
    Walks("linux"), Walks("windows"), Walks("freebsd"), Unreadable("linux"), Unreadable("windows"),
    Unreadable("freebsd"), Threads, LinuxSymbols, WindowsSymbols}
============================================================================
