--------------------------- MODULE HandleContract ---------------------------
(***************************************************************************)
(* What every streaming handle promises its client (include/wem.h,         *)
(* sections 1, 2 and 5), whatever the language of the shell.  StreamHandle *)
(* names the one handle that does not keep it.                             *)
(*                                                                         *)
(* What the kernel makes is numbered 1, 2, ... in stream order.            *)
(***************************************************************************)
EXTENDS Naturals, Sequences

CONSTANT Codes      \* what a call may answer; "ok", "state", "internal" among them

VARIABLES given,    \* the numbers the client was given so far
          over,     \* a call finished the handle, met a defect or was aborted
          answer    \* what the last call answered

contractVars == <<given, over, answer>>

ContractInit == given = <<>> /\ over = FALSE /\ answer = "none"

\* The client is given what comes next, and never anything else.
Continues(n) ==
    given' = given \o [i \in 1 .. n |-> Len(given) + i]

\* Something is delivered: only by a handle that is not over.
Deliver ==
    /\ ~over
    /\ \E n \in 1 .. Len(given') : Continues(n)
    /\ UNCHANGED <<over, answer>>

\* A call returns, with the rest of what it delivers.  A handle that is over
\* answers STATE_ERROR and gives nothing, only such a handle does, and INTERNAL
\* is the last answer of one that was not.
Answer ==
    /\ \E n \in 0 .. Len(given') : Continues(n) /\ (over => n = 0)
    /\ answer' \in Codes
    /\ over => over' /\ answer' = "state"
    /\ answer' = "internal" => over'
    /\ answer' = "state" => over'

ContractNext == Deliver \/ Answer

ContractSpec == ContractInit /\ [][ContractNext]_contractVars

=============================================================================
