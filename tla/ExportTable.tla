---------------------------- MODULE ExportTable ----------------------------
(***************************************************************************)
(* The export table of a Windows module and the searches in it             *)
(* (os/windows/peparse.c).  A name is a sequence of characters.  A table   *)
(* has the three arrays of the PE format, counted from 0 as the code does: *)
(*   names[i]   AddressOfNames         ord[i]  AddressOfNameOrdinals       *)
(*   fun[o]     AddressOfFunctions, relative addresses                     *)
(* and paged, the names that cannot be read; section, the addresses inside *)
(* the export section, which are forwarders; and image, that the headers   *)
(* and the directory were read and are well formed.                        *)
(***************************************************************************)
EXTENDS Integers, Sequences

Count(t)  == Len(t.names)
Name(t, i) == t.names[i + 1]

\* strcmp(a, b) < 0
Less(a, b) ==
  LET k == CHOOSE k \in 0..Len(a) :
             /\ k <= Len(b) /\ \A j \in 1..k : a[j] = b[j]
             /\ k = Len(a) \/ k = Len(b) \/ a[k + 1] # b[k + 1]
  IN  IF k = Len(a) THEN k < Len(b) ELSE k < Len(b) /\ a[k + 1] < b[k + 1]

\* strncmp(name, symbol, strlen(name)) = 0
Begins(name, symbol) ==
  Len(name) <= Len(symbol) /\ SubSeq(symbol, 1, Len(name)) = name

\* A name that cannot be read ends the search.
find_aon_idx_bin(t, symbol) ==
  LET find[low \in 0..Count(t), high \in (-1)..(Count(t) - 1)] ==
        LET mid == (low + high) \div 2
        IN  IF high < low \/ mid \in t.paged THEN -1
            ELSE IF symbol = Name(t, mid) THEN mid
            ELSE IF Less(symbol, Name(t, mid)) THEN find[low, mid - 1]
            ELSE find[mid + 1, high]
  IN  find[0, Count(t) - 1]

\* The first name that the symbol begins with.
get_aon_index_linear(t, symbol) ==
  LET hits == {i \in 0..(Count(t) - 1) : i \notin t.paged /\ Begins(Name(t, i), symbol)}
  IN  IF hits = {} THEN -1 ELSE CHOOSE i \in hits : \A j \in hits : i <= j

get_aon_index(t, symbol) ==
  LET index == find_aon_idx_bin(t, symbol)
  IN  IF index = -1 THEN get_aon_index_linear(t, symbol) ELSE index

\* peparse_get_export_table: the headers, the directory entry, the directory.
peparse_get_export_table(t) == t.image

\* get_aof_index and get_export_rva
ExportRva(t, i) == t.fun[t.ord[i + 1] + 1]

windows_export_to_rva(t, symbol) ==
  LET i == get_aon_index(t, symbol)
  IN  IF ~peparse_get_export_table(t) \/ i = -1 THEN {}
      ELSE {ExportRva(t, i)} \ t.section

\* As many names are looked at as there are functions; what the array of
\* ordinals holds past the last name is not a name of anything.
windows_rva_to_export(t, rva) ==
  LET hits == {i \in 0..(Count(t) - 1) : i < Len(t.fun) /\ ExportRva(t, i) = rva}
      i    == CHOOSE i \in hits : \A j \in hits : i <= j
  IN  IF ~peparse_get_export_table(t) \/ rva \in t.section \/ hits = {} THEN {}
      ELSE IF i \in t.paged THEN {} ELSE {Name(t, i)}

------------------------------- \* What the table says
\* The names that can be read of functions in the module itself.
Exports(t) ==
  LET shown == {i \in 0..(Count(t) - 1) : i \notin t.paged /\ ExportRva(t, i) \notin t.section}
  IN  IF t.image THEN {<<Name(t, i), ExportRva(t, i)>> : i \in shown} ELSE {}
============================================================================
