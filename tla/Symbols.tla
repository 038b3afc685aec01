------------------------------ MODULE Symbols ------------------------------
(***************************************************************************)
(* Symbols and the two caches in front of them.  y.sym maps a key          *)
(* <<base, pid, name>> to an address, y.rva maps <<base, dtb, rva>> to a   *)
(* name.  A lookup has at most one answer: it returns a set.  Addresses    *)
(* are in canonical form throughout.                                       *)
(* The kernel k of the guest is what the profile or System.map says of it  *)
(* (profile, map: a function from names), the symbols of its debugger data *)
(* block (kdbg) and its export table; off is the offset LibVMI found its   *)
(* load address to have.                                                   *)
(***************************************************************************)
EXTENDS ExportTable, TLC

CONSTANTS CutAt,     \* g_strndup(sym, 100)
          Width      \* 2^32: a dtb passed as vmi_pid_t keeps its low bits

ASSUME BoundsAssumption == CutAt \in Nat \ {0} /\ Width \in Nat \ {0}

NoSymbols == [sym |-> <<>>, rva |-> <<>>]

Found(c, key) == IF key \in DOMAIN c THEN {c[key]} ELSE {}
Cut(name) == IF Len(name) <= CutAt THEN name ELSE SubSeq(name, 1, CutAt)

sym_cache_get(y, base, pid, name) == Found(y.sym, <<base, pid % Width, name>>)

\* The key is cut, the name asked for is not.
sym_cache_set(y, base, pid, name, va) ==
  [y EXCEPT !.sym = (<<base, pid % Width, Cut(name)>> :> va) @@ @]

\* Mutant: nothing is removed.
sym_cache_flush_Keeps(y) == y

sym_cache_flush(y) == [y EXCEPT !.sym = <<>>]

rva_cache_get(y, base, dtb, rva) == Found(y.rva, <<base, dtb, rva>>)
rva_cache_set(y, base, dtb, rva, name) ==
  [y EXCEPT !.rva = (<<base, dtb, rva>> :> name) @@ @]
rva_cache_flush(y) == [y EXCEPT !.rva = <<>>]

------------------------------- \* The operating systems' lookups

\* linux_system_map_symbol_to_address, or the profile's
FromMap(k, name) == Found(k.profile, name)

linux_symbol_to_address(k, off, name) == {a + off : a \in FromMap(k, name)}

\* linux_system_map_address_to_symbol: an exact address, for the kernel only.
linux_system_map_address_to_symbol(k, off, va, kernel) ==
  IF ~kernel THEN {} ELSE {n \in DOMAIN k.profile : k.profile[n] = va - off}

\* windows_kdbg_lookup: the name has a place in the block, which is read.
windows_kdbg_lookup(k, name) == Found(k.kdbg, name)

windows_kernel_symbol_to_address(k, off, name) ==
  LET json == Found(k.profile, name)
      kdbg == windows_kdbg_lookup(k, name)
  IN  IF json # {} THEN {off + r : r \in json}
      ELSE IF kdbg # {} THEN kdbg
      ELSE {off + r : r \in windows_export_to_rva(k.table, name)}

os_ksym2v(k, off, name) ==
  IF k.os = "windows" THEN windows_kernel_symbol_to_address(k, off, name)
  ELSE linux_symbol_to_address(k, off, name)

------------------------------- \* accessors.c: [y, res]

Answer(y, res) == [y |-> y, res |-> res]
The(S) == CHOOSE x \in S : TRUE

vmi_translate_ksym2v(y, k, off, name) ==
  LET hit == sym_cache_get(y, 0, 0, name)
      res == os_ksym2v(k, off, name)
  IN  IF hit # {} THEN Answer(y, hit)
      ELSE IF res = {} THEN Answer(y, {})
      ELSE Answer(sym_cache_set(y, 0, 0, name, The(res)), res)

\* t is the export table of the module at base in the address space dtb.
vmi_translate_sym2v(y, dtb, base, t, name) ==
  LET hit == sym_cache_get(y, base, dtb, name)
      res == {base + r : r \in windows_export_to_rva(t, name)}
  IN  IF hit # {} THEN Answer(y, hit)
      ELSE IF res = {} THEN Answer(y, {})
      ELSE Answer(sym_cache_set(y, base, dtb, name, The(res)), res)

ByRva(y, dtb, base, rva, res) ==
  LET hit == rva_cache_get(y, base, dtb, rva)
  IN  IF hit # {} THEN Answer(y, hit)
      ELSE IF res = {} THEN Answer(y, {})
      ELSE Answer(rva_cache_set(y, base, dtb, rva, The(res)), {The(res)})

vmi_translate_v2sym(y, dtb, base, t, rva) ==
  ByRva(y, dtb, base, rva, windows_rva_to_export(t, rva))

vmi_translate_v2ksym(y, k, off, dtb, base, va, kernel) ==
  ByRva(y, dtb, base, va, linux_system_map_address_to_symbol(k, off, va, kernel))

vmi_symcache_add(y, base, pid, name, va) == sym_cache_set(y, base, pid, name, va)
vmi_rvacache_add(y, base, dtb, rva, name) == rva_cache_set(y, base, dtb, rva, name)
vmi_symcache_flush(y) == sym_cache_flush(y)
vmi_rvacache_flush(y) == rva_cache_flush(y)
============================================================================
