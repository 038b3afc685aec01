----------------------------- MODULE MCVmiMemory -----------------------------
(* Guests and clients for VmiMemory: pages of two cells, tables of two       *)
(* entries.                                                                  *)
EXTENDS VmiMemory, TLC

E(addr, flags) == addr * 16 + flags
Cells(pages, set) == [i \in 0..(pages * P - 1) |-> IF i \in DOMAIN set THEN set[i] ELSE 0]

X0 == [transition |-> FALSE, windows |-> FALSE, pse |-> TRUE, kpgd |-> 14, tg0 |-> P, tg1 |-> P,
       levels0 |-> 3, levels1 |-> 3]

\* Table A at cell 2: 4 KB pages 5 and 6, a 2 MB page at 16; table B at 14:
\* a 1 GB page over cells 8 to 15, and A's page directory above it.
Amd64 == Cells(12, (2 :> E(4, 1)) @@ (4 :> E(6, 1)) @@ (6 :> E(8, 1)) @@ (7 :> E(16, 3))
                @@ (8 :> E(10, 1)) @@ (9 :> E(12, 1)) @@ (10 :> 51) @@ (11 :> 52) @@ (12 :> 53)
                @@ (13 :> 0) @@ (14 :> E(20, 1)) @@ (16 :> 61) @@ (17 :> 62) @@ (18 :> 63) @@ (19 :> 64)
                @@ (20 :> E(8, 3)) @@ (21 :> E(6, 1)))

Base0 == [driver |-> "xen", age |-> 0, max |-> 4, pages |-> 12, vpages |-> 8, pm |-> "ia32e", x |-> X0,
          ksym |-> 8, mem |-> Amd64, shared |-> {}, dtb |-> (1 :> 2) @@ (2 :> 14),
          spaces |-> {Space(2, 0, "ia32e"), Space(14, 0, "ia32e")},
          junk |-> {0}, strmax |-> 4, tiny |-> FALSE, calls |-> 3, moves |-> 1, time |-> 1,
          guest |-> {}, client |-> {}, pas |-> {}, vas |-> {}, pids |-> {}, pts |-> {}, npts |-> {}, ctxs |-> {}]

\* A process changes its tables, or its page table, under live mappings.
Live == [Base0 EXCEPT !.guest = {<<"store", 8, E(12, 1)>>, <<"store", 2, 0>>, <<"exec", 1, 14>>},
                      !.client = {"uv2p", "lookup", "v2p_flush", "pid_flush", "dtb"},
                      !.vas = {3}, !.pids = {1, 2}, !.pts = {2, 14}, !.moves = 2, !.calls = 4]

LiveIo == [Base0 EXCEPT !.guest = {<<"store", 9, 0>>, <<"store", 8, E(12, 1)>>},
                        !.client = {"read", "write", "mmap", "str"}, !.calls = 2,
                        !.vas = {3}, !.pids = {0, 1}, !.strmax = 3, !.pas = {11},
                        !.ctxs = {[Ctx("dtb", 1, 0, 2) EXCEPT !.pm = "ia32e"], Ctx("undefined", 1, 0, 2)}]

\* Copies of the guest's pages with an age limit of one second.
Aged == [Base0 EXCEPT !.driver = "kvm", !.age = 1, !.time = 3, !.max = 2,
                      !.guest = {<<"store", 11, 55>>, <<"store", 8, E(12, 1)>>},
                      !.client = {"read", "page_flush", "v2p_flush", "lookup"},
                      !.pas = {11}, !.vas = {1}, !.pids = {1}, !.pts = {2}]
AgedWrite == [Aged EXCEPT !.client = {"read", "write"}, !.vas = {}, !.calls = 2]

\* Frames shared copy-on-write, given back and got again.
Cow == [Base0 EXCEPT !.shared = {5}, !.guest = {<<"gone", 5, 0>>, <<"back", 5, 0>>, <<"store", 11, 55>>},
                     !.client = {"read", "write", "page_flush", "mmap"}, !.pas = {11}, !.vas = {1}, !.pids = {1},
                     !.moves = 2, !.calls = 2]

\* A dump: the last page, and what is past it, cannot be read; nothing written.
Dump == [Base0 EXCEPT !.driver = "file", !.age = 1000, !.moves = 0, !.client = {"read", "write", "dtb", "pid_add", "uv2p"},
                      !.pas = {21, 23, 24}, !.vas = {1}, !.pids = {1, 2}, !.pts = {2}]

\* Guest tables under a nested table at 4: guest address a is at a + 8.
Ept == [Base0 EXCEPT !.pages = 9, !.vpages = 8, !.spaces = {Space(2, 4, "ia32e"), Space(4, 0, "ept")},
          !.mem = Cells(9, (4 :> E(2, 1)) @@ (2 :> E(8, 3)) @@ (10 :> E(4, 1)) @@ (12 :> E(0, 3))
                           @@ (14 :> 71) @@ (15 :> 72) @@ (8 :> 73) @@ (9 :> 74)),
          !.guest = {<<"store", 12, 0>>, <<"store", 2, 0>>}, !.max = 3,
          !.client = {"nested", "read", "v2p_flush", "page_flush"}, !.vas = {7, 8}, !.pts = {2}, !.npts = {4},
          !.ctxs = {[Ctx("dtb", 7, 0, 2) EXCEPT !.npt = 4, !.npm = "ept"],
                    [Ctx("none", 7, 0, 0) EXCEPT !.npt = 4, !.npm = "ept"],
                    [Ctx("dtb", 7, 0, 2) EXCEPT !.npt = 4]}]
EptAdds == [Ept EXCEPT !.client = {"nested", "v2p_add", "v2p_flush"}, !.pas = {14}, !.calls = 2]

\* The other formats, on a guest that stands still.
Still == [Base0 EXCEPT !.x.kpgd = 2, !.moves = 0, !.vas = {1, 3, 6, 17}, !.calls = 2, !.client = {"lookup", "extended", "kv2p", "va_pages", "read", "mmap"},
                       !.pids = {1}, !.pts = {2}, !.dtb = 1 :> 2]

PaeMem == Cells(9, (2 :> E(4, 1)) @@ (4 :> E(6, 1)) @@ (5 :> E(12, 3)) @@ (6 :> E(10, 1)) @@ (7 :> E(8, 8))
                   @@ (8 :> 81) @@ (9 :> 82) @@ (10 :> 83) @@ (11 :> 84) @@ (12 :> 85) @@ (15 :> 86))
Pae == [Still EXCEPT !.pm = "pae", !.pages = 9, !.mem = PaeMem, !.spaces = {Space(2, 0, "pae")},
                     !.junk = {0, 9}, !.vas = {1, 3, 6, 9}]
PaeWindows == [Pae EXCEPT !.x.transition = TRUE, !.x.windows = TRUE]
Legacy == [Still EXCEPT !.pm = "legacy", !.pages = 9, !.spaces = {Space(2, 0, "legacy")}, !.vpages = 8,
             !.mem = Cells(9, (0 :> E(2, 1)) @@ (1 :> E(12, 3)) @@ (2 :> E(10, 1)) @@ (3 :> E(8, 1))
                              @@ (8 :> 81) @@ (10 :> 83) @@ (11 :> 84) @@ (12 :> 85)), !.vas = {1, 3, 6}]
Arm32 == [Still EXCEPT !.pm = "aarch32", !.x.kpgd = 4, !.spaces = {Space(4, 0, "aarch32")}, !.dtb = 1 :> 4, !.pts = {4},
            !.mem = Cells(12, (4 :> E(8, 1)) @@ (5 :> E(12, 2)) @@ (6 :> E(16, 3)) @@ (8 :> E(10, 2)) @@ (9 :> 0)
                              @@ (10 :> 83) @@ (11 :> 84) @@ (12 :> 85) @@ (16 :> E(20, 2)) @@ (17 :> E(20, 2))
                              @@ (18 :> E(20, 1)) @@ (19 :> E(20, 1)) @@ (20 :> 91) @@ (21 :> 92) @@ (22 :> 93)),
            !.vas = {1, 3, 6, 9, 11}]
Arm32Tiny == [Arm32 EXCEPT !.tiny = TRUE, !.mem[16] = E(20, 3), !.mem[17] = E(22, 3), !.vas = {7, 8, 9}]
Arm64Mem == Cells(14, (2 :> E(4, 3)) @@ (3 :> E(8, 1)) @@ (4 :> E(6, 3)) @@ (5 :> E(12, 1)) @@ (6 :> E(10, 3))
                      @@ (7 :> E(12, 3)) @@ (8 :> 81) @@ (9 :> 82) @@ (10 :> 83) @@ (11 :> 84) @@ (12 :> 85)
                      @@ (13 :> 86) @@ (16 :> E(20, 3)) @@ (17 :> E(0, 1)) @@ (20 :> E(8, 3)) @@ (21 :> E(12, 3))
                      @@ (24 :> E(2, 3)))
Arm64 == [Still EXCEPT !.pm = "aarch64", !.pages = 14, !.vpages = 16, !.mem = Arm64Mem, !.pids = {0, 1},
            !.spaces = {Space(2, 0, "aarch64"), Space(16, 0, "aarch64")}, !.vas = {1, 6, 8, 19},
            !.x = [X0 EXCEPT !.kpgd = 16, !.tg1 = 2 * P, !.levels1 = 2]]
Arm64Deep == [Arm64 EXCEPT !.spaces = {Space(24, 0, "aarch64")}, !.dtb = 1 :> 24, !.pids = {1}, !.pts = {24},
                           !.x = [X0 EXCEPT !.levels0 = 4, !.kpgd = 16, !.tg1 = 3]]

MCScenarios == {Live, LiveIo, Aged, AgedWrite, Cow, Dump, Ept, EptAdds, Still, Pae, PaeWindows, Legacy,
                Arm32, Arm32Tiny, Arm64, Arm64Deep}
=============================================================================
