--------------------------- MODULE WatchRegister ---------------------------
(***************************************************************************)
(* What the watch channel of src/watch.rs promises to its users: a         *)
(* register whose successive contents are numbered 1, 2, 3, ...  A         *)
(* receiver that obtains a value obtains the content of that moment, so it *)
(* may skip contents and may be handed the same one twice, but it never    *)
(* goes back to an older one.                                              *)
(***************************************************************************)
EXTENDS Naturals

CONSTANTS
    Receivers       \* the Receiver handles (worker threads)

VARIABLES
    content,        \* number of the value in the register
    seen,           \* seen[r]: number of the last value handed to r, 0 before
    alive           \* the Sender has not been dropped

vars == <<content, seen, alive>>

Init ==
    /\ content = 1
    /\ seen = [r \in Receivers |-> 0]
    /\ alive = TRUE

\* Sender::send replaces the content.
Send ==
    /\ alive
    /\ content' = content + 1
    /\ UNCHANGED <<seen, alive>>

\* get_changed or wait_for_change hands the content to r.
Receive(r) ==
    /\ seen' = [seen EXCEPT ![r] = content]
    /\ UNCHANGED <<content, alive>>

\* A new receiver q, cloned from r, starts from what r had been handed.
Clone(r, q) ==
    /\ seen[q] = 0
    /\ seen' = [seen EXCEPT ![q] = seen[r]]
    /\ UNCHANGED <<content, alive>>

\* Drop of the Sender.
Close ==
    /\ alive
    /\ alive' = FALSE
    /\ UNCHANGED <<content, seen>>

Next ==
    \/ Send
    \/ Close
    \/ \E r \in Receivers : Receive(r)
    \/ \E r, q \in Receivers : Clone(r, q)

Spec == Init /\ [][Next]_vars
============================================================================
