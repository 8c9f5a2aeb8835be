----------------------------- MODULE MCHandles ------------------------------
(***************************************************************************)
(* The two kinds of handle of the shells, side by side: a streaming handle *)
(* with its one owner, or an encoder shared by threads.  They share no     *)
(* state, so a behaviour is about one of them.                             *)
(***************************************************************************)
EXTENDS StreamHandle, SharedEncoder

VARIABLE subject    \* which of the two the behaviour is about

mcVars == <<vars, encoderVars, subject>>

MCInit == Init /\ EncoderInit /\ subject \in {"streaming", "shared"}

MCNext ==
    /\ \/ subject = "streaming" /\ Next /\ UNCHANGED encoderVars
       \/ subject = "shared" /\ EncoderNext /\ UNCHANGED vars
    /\ UNCHANGED subject

MCSpec == MCInit /\ [][MCNext]_mcVars

=============================================================================
