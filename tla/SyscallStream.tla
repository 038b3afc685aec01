---------------------------- MODULE SyscallStream ---------------------------
(***************************************************************************)
(* The way of a system call's name from the tracer to the analysis server: *)
(* process_syscall prints it, append_syscall collects names in a buffer    *)
(* and writes a frame to the socket, and a server thread turns the bytes   *)
(* it receives back into names ("tokens") for append_BoSC.                 *)
(*                                                                         *)
(* A name is a sequence of characters, because the two ends do not agree   *)
(* on where one ends: the client writes frames, the server splits whatever *)
(* one recv returned.  The socket is external: a sequence of bytes.        *)
(***************************************************************************)
EXTENDS Integers, Sequences

CONSTANTS
  Mode,         \* running_mode: learn, analyze, sandbox, educational
  Chars,        \* the characters of names
  SysIndex,     \* sys_index, the names in data/syscall_index.linux
  Watched,      \* set_syscalls, the names in data/syscalls.txt
  Rax,          \* the values processes put in rax
  window_size,  \* the global of syscall-trace.c; the -w option does not reach it
  MaxName,      \* the length of the longest name
  BufSize,      \* MAX_BUFSIZE
  RecvMax,      \* the argument of recv
  MaxCalls      \* bound: calls printed before the tracer stops

SEPARATOR == ","
END       == "."

ASSUME TableAssumption ==
  /\ SysIndex \in Seq(Seq(Chars)) /\ Chars \cap {SEPARATOR, END} = {}
  /\ \A i \in DOMAIN SysIndex : Len(SysIndex[i]) \in 1..MaxName
ASSUME SizeAssumption ==
  /\ window_size \in Nat \ {0} /\ MaxName \in Nat /\ BufSize \in Nat
  /\ window_size * (MaxName + 1) + Len(<<END>>) + 1 <= BufSize

VARIABLES
  printed,      \* the known calls printed so far
  buffer,
  frame_index,  \* syscall_index
  wire,         \* bytes written to the socket and not yet received
  tracer,       \* running, exited, killed
  tokens,       \* the strings given to append_BoSC
  thread,       \* threaded_client: none, serving, ended by itself, stopped
  whole         \* history: has every recv so far returned exactly one frame?

tracerVars == <<printed, buffer, frame_index, tracer>>
vars == <<tracerVars, wire, tokens, thread, whole>>

Names == {SysIndex[i] : i \in DOMAIN SysIndex}
Bytes == Chars \cup {SEPARATOR, END}

TypeOK ==
  /\ printed \in Seq(Names)
  /\ buffer \in Seq(Bytes)
  /\ frame_index \in 0..window_size
  /\ wire \in Seq(Bytes)
  /\ tracer \in {"running", "exited", "killed"}
  /\ tokens \in Seq(Seq(Bytes))
  /\ thread \in {"none", "serving", "ended", "stopped"}
  /\ whole \in BOOLEAN

\* In analysis mode connect_server has connected and the server has started a
\* thread; in the others there is no connection.
Init ==
  /\ printed = <<>> /\ buffer = <<>> /\ frame_index = 0
  /\ wire = <<>> /\ tokens = <<>>
  /\ tracer = "running" /\ whole = TRUE
  /\ thread = IF Mode = "analyze" THEN "serving" ELSE "none"

-----------------------------------------------------------------------------
(* The tracer. *)

\* (uint16_t)rax, as a position of SysIndex.
Index(rax) == (rax % 65536) + 1

\* Is the i-th call of the table one of set_syscalls?
check_set_syscalls(i) == i \in DOMAIN SysIndex /\ SysIndex[i] \in Watched

\* A write to a socket the server has left may still be accepted, and lost;
\* sooner or later it raises SIGPIPE.
Write(bytes) ==
  \/ thread = "serving" /\ wire' = wire \o bytes /\ UNCHANGED tracer
  \/ thread = "stopped" /\ UNCHANGED wire /\ tracer' \in {"running", "killed"}

\* Mutant: the buffer is not emptied after the write.
append_syscall_Keeps(name) ==
  IF frame_index = window_size
  THEN /\ frame_index' = 0
       /\ Write(buffer \o <<END>>)
       /\ UNCHANGED buffer
  ELSE /\ buffer' = buffer \o name \o <<SEPARATOR>>
       /\ frame_index' = frame_index + 1
       /\ UNCHANGED <<wire, tracer>>

\* A full buffer is sent, and the call that found it full goes nowhere.
append_syscall(name) ==
  IF frame_index = window_size
  THEN /\ frame_index' = 0
       /\ Write(buffer \o <<END>>)
       /\ buffer' = <<>>
  ELSE /\ buffer' = buffer \o name \o <<SEPARATOR>>
       /\ frame_index' = frame_index + 1
       /\ UNCHANGED <<wire, tracer>>

\* process_syscall for one call.  An unknown number is printed as such and goes
\* nowhere; in sandbox mode a call that is not watched is not even printed.
process_syscall(rax) ==
  LET i == Index(rax)
  IN  /\ tracer = "running" /\ Len(printed) < MaxCalls
      /\ Mode = "sandbox" => check_set_syscalls(i)
      /\ i \in DOMAIN SysIndex
      /\ printed' = Append(printed, SysIndex[i])
      /\ IF Mode = "analyze" THEN append_syscall(SysIndex[i])
         ELSE UNCHANGED <<buffer, frame_index, wire, tracer>>
      /\ UNCHANGED <<tokens, thread, whole>>

\* The end of introspect_syscall_trace: close(cs).  The buffer is not sent.
Close ==
  /\ tracer = "running" /\ tracer' = "exited"
  /\ UNCHANGED <<printed, buffer, frame_index, wire, tokens, thread, whole>>

-----------------------------------------------------------------------------
(* The server thread. *)

\* str.split(","): one piece more than there are separators.
Split(s) ==
  LET pieces[n \in 0..Len(s)] ==
        IF n = 0 THEN << <<>> >>
        ELSE IF s[n] = SEPARATOR THEN Append(pieces[n - 1], <<>>)
        ELSE [pieces[n - 1] EXCEPT ![Len(pieces[n - 1])] = Append(@, s[n])]
  IN  pieces[Len(s)]

\* Mutant: only the END is cut off.
Tokens_CutsOne(chunk) == Split(SubSeq(chunk, 1, Len(chunk) - 1))

\* chunks[:-2].split(",")
Tokens(chunk) == Split(SubSeq(chunk, 1, Len(chunk) - 2))

\* recv returns any prefix of what is there, up to RecvMax bytes.
Recv(n) ==
  /\ n <= RecvMax
  /\ wire' = SubSeq(wire, n + 1, Len(wire))
  /\ whole' = (whole /\ \A i \in 1..n : wire[i] = END <=> i = n)

\* Mutant: the thread gives up as soon as the client has closed.
threaded_client_Eager ==
  /\ thread = "serving"
  /\ \/ /\ wire # <<>> /\ tracer = "running"
        /\ \E n \in DOMAIN wire :
             Recv(n) /\ tokens' = tokens \o Tokens(SubSeq(wire, 1, n))
        /\ UNCHANGED thread
     \/ /\ tracer # "running"
        /\ thread' = "ended" /\ UNCHANGED <<tokens, wire, whole>>
  /\ UNCHANGED tracerVars

\* One recv and what is done with it.  The test of chunk[-1] compares a byte with
\* a string, so that the loop around recv always ends after one round.  An empty
\* chunk, the client's end of file, raises RuntimeError.
threaded_client ==
  /\ thread = "serving"
  /\ \/ /\ wire # <<>>
        /\ \E n \in DOMAIN wire :
             Recv(n) /\ tokens' = tokens \o Tokens(SubSeq(wire, 1, n))
        /\ UNCHANGED thread
     \/ /\ wire = <<>> /\ tracer # "running"
        /\ thread' = "ended" /\ UNCHANGED <<tokens, wire, whole>>
  /\ UNCHANGED tracerVars

\* The server is stopped: its sockets close, what was not received is lost.
ServerStops ==
  /\ thread = "serving"
  /\ thread' = "stopped" /\ wire' = <<>>
  /\ UNCHANGED <<tracerVars, tokens, whole>>

-----------------------------------------------------------------------------

Next ==
  \/ \E rax \in Rax : process_syscall(rax)
  \/ Close
  \/ threaded_client
  \/ ServerStops

\* The server's threads run; nothing is assumed of the tracer, and the server
\* need never be stopped.
Spec == Init /\ [][Next]_vars /\ WF_vars(threaded_client)

-----------------------------------------------------------------------------
(* Properties. *)

\* A piece between two separators without the END of the frame before it.
Bare(piece) == IF piece # <<>> /\ piece[1] = END THEN Tail(piece) ELSE piece

\* The names in a string of frames: each is followed by a separator.
NamesIn(bytes) ==
  LET pieces == Split(bytes) IN [i \in 1..(Len(pieces) - 1) |-> Bare(pieces[i])]

\* What append_syscall lets through: all but every (window_size + 1)-th call.
Kept(calls) ==
  [k \in 1..(Len(calls) - Len(calls) \div (window_size + 1)) |->
     calls[k + (k - 1) \div window_size]]

\* As long as the server keeps up (one recv per frame), the tokens it passes to
\* append_BoSC followed by the names on the wire and in the client's buffer are,
\* in order, the calls printed, less every (window_size + 1)-th.
FramesFaithful ==
  Mode = "analyze" /\ thread # "stopped" /\ whole =>
    tokens \o NamesIn(wire \o buffer) = Kept(printed)

IsPartOf(t, name) == \E i, j \in DOMAIN name : t = SubSeq(name, i, j)

Earliest(set) == CHOOSE i \in set : \A j \in set : i <= j

\* The first call from the k-th on whose name t is part of.
FirstFrom(k, t) ==
  LET found == {j \in k..Len(printed) : IsPartOf(t, printed[j])}
  IN  IF found = {} THEN Len(printed) + 1 ELSE Earliest(found)

\* However recv cuts the stream or joins frames, every token of threaded_client
\* is a piece of the name of one call, and the pieces come in the order of the
\* calls: no token is made of two names.
NoSplicedCall ==
  LET first[k \in 0..Len(tokens)] ==
        IF k = 0 THEN 1
        ELSE IF Bare(tokens[k]) = <<>> THEN first[k - 1]
        ELSE FirstFrom(first[k - 1], Bare(tokens[k]))
  IN  tokens # <<>> => first[Len(tokens)] <= Len(printed)

\* What the server judges is what the tracer printed: exactly while it keeps up,
\* and piece by piece when it does not.
TokensFaithful == FramesFaithful /\ NoSplicedCall

\* append_syscall never writes past the end of buffer: names, END and the
\* terminating zero fit in MAX_BUFSIZE.
BufferFits == Len(buffer) + Len(<<END>>) + 1 <= BufSize

\* When the tracer has closed its socket, the server's thread receives all that
\* was written and then ends.
ThreadEnds == (tracer = "exited") ~> (thread \in {"ended", "stopped"} /\ wire = <<>>)

=============================================================================
