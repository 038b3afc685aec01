-------------------------- MODULE MCSyscallStream ---------------------------
(***************************************************************************)
(* Two names, the first of which is the end of the second, as "stat" is of *)
(* "fstat": a stream cut inside the second leaves the first.  The third    *)
(* value of rax in the configurations is beyond the table, the second is   *)
(* in it only after truncation to 16 bits.                                 *)
(***************************************************************************)
EXTENDS SyscallStream

MCSysIndex == << <<"b">>, <<"a", "b">> >>

=============================================================================
