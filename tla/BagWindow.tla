----------------------------- MODULE BagWindow ------------------------------
(***************************************************************************)
(* What the analysis server promises of a stream of system calls, as one   *)
(* atomic operation: the window holds the last WINDOW_SIZE calls, and each *)
(* full window is judged once, when the call after it arrives.             *)
(***************************************************************************)
EXTENDS Integers, Sequences

CONSTANTS Syscalls, WINDOW_SIZE

VARIABLES
  window,   \* sliding_window
  judged    \* the windows whose bags were looked up

Init == window = <<>> /\ judged = <<>>

Receive(s) ==
  \/ /\ Len(window) < WINDOW_SIZE
     /\ window' = Append(window, s)
     /\ UNCHANGED judged
  \/ /\ Len(window) = WINDOW_SIZE
     /\ window' = Append(Tail(window), s)
     /\ judged' = Append(judged, window)

Spec == Init /\ [][\E s \in Syscalls : Receive(s)]_<<window, judged>>

=============================================================================
