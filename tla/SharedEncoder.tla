---------------------------- MODULE SharedEncoder ---------------------------
(***************************************************************************)
(* One encoder handle, shared by threads: WemEncoder of the C ABI          *)
(* (crates/wem-capi/src/lib.rs) and Encoder of Python, whose methods take  *)
(* a shared borrow and release the interpreter lock while they encode.     *)
(* The encoder itself is never written; `dead` is the one shared word.     *)
(***************************************************************************)
EXTENDS Naturals

CONSTANTS Threads,
          MaxWrites     \* bound: write blocks of a container

ASSUME MaxWritesAssumption == MaxWrites \in Nat

VARIABLES dead,         \* AtomicBool: a defect has killed the handle
          at,           \* where each thread is: "out", "encode", "write",
                        \*   "settle", "return"
          writesLeft,   \* blocks its call has left to write
          result,       \* what its call answers, or answered
          defect,       \* its call met a defect: handle_dead
          warned        \* a call had returned INTERNAL, from a defect, before it began

encoderVars == <<dead, at, writesLeft, result, defect, warned>>

EncoderInit ==
    /\ dead = FALSE
    /\ at = [t \in Threads |-> "out"]
    /\ writesLeft = [t \in Threads |-> 0]
    /\ result = [t \in Threads |-> "none"]
    /\ defect = [t \in Threads |-> FALSE]
    /\ warned = [t \in Threads |-> FALSE]

\* Some call has returned INTERNAL to its caller because of a defect.
DefectReported == \E t \in Threads : at[t] = "out" /\ defect[t]

\* The call reads `dead`: a dead handle is refused, and so are malformed
\* arguments, before the kernel is asked.
Begin(t, legal) ==
    /\ at[t] = "out" /\ result[t] = "none"
    /\ warned' = [warned EXCEPT ![t] = DefectReported]
    /\ IF dead \/ ~legal
       THEN /\ at' = [at EXCEPT ![t] = "return"]
            /\ result' = [result EXCEPT ![t] = IF dead THEN "state" ELSE "rejected"]
       ELSE /\ at' = [at EXCEPT ![t] = "encode"]
            /\ UNCHANGED result
    /\ UNCHANGED <<dead, writesLeft, defect>>

\* The kernel encodes, on this thread alone: a container, a rejection, or a
\* defect it reports or panics with.  Python returns the container as it is: no
\* write is left.
Encode(t) ==
    /\ at[t] = "encode"
    /\ \/ \E n \in 0 .. MaxWrites :
            /\ writesLeft' = [writesLeft EXCEPT ![t] = n]
            /\ result' = [result EXCEPT ![t] = "ok"]
            /\ at' = [at EXCEPT ![t] = "write"]
            /\ UNCHANGED defect
       \/ /\ result' = [result EXCEPT ![t] = "rejected"]
          /\ at' = [at EXCEPT ![t] = "settle"]
          /\ UNCHANGED <<writesLeft, defect>>
       \/ /\ result' = [result EXCEPT ![t] = "internal"]
          /\ defect' = [defect EXCEPT ![t] = TRUE]
          /\ at' = [at EXCEPT ![t] = "settle"]
          /\ UNCHANGED writesLeft
    /\ UNCHANGED <<dead, warned>>

\* The write callback takes a block, or refuses it with a code of its own,
\* INTERNAL included, which the call then returns.
Write(t) ==
    /\ at[t] = "write"
    /\ \/ /\ writesLeft[t] = 0
          /\ at' = [at EXCEPT ![t] = "settle"]
          /\ UNCHANGED <<writesLeft, result>>
       \/ /\ writesLeft[t] > 0
          /\ writesLeft' = [writesLeft EXCEPT ![t] = @ - 1]
          /\ UNCHANGED <<at, result>>
       \/ /\ writesLeft[t] > 0
          /\ result' \in {[result EXCEPT ![t] = code] : code \in {"rejected", "internal"}}
          /\ at' = [at EXCEPT ![t] = "settle"]
          /\ UNCHANGED writesLeft
    /\ UNCHANGED <<dead, defect, warned>>

\* Mutant of DeadAfter: the verdict of the last call to settle is what counts.
DeadAfterLast(t) == defect[t]

\* Mutant of DeadAfter: an INTERNAL of the client's own callback kills too.
DeadAfterCode(t) == dead \/ result[t] = "internal"

\* What a call that is over leaves in the handle.
DeadAfter(t) == dead \/ defect[t]

\* The handle is marked, before the call returns.
Settle(t) ==
    /\ at[t] = "settle"
    /\ dead' = DeadAfter(t)
    /\ at' = [at EXCEPT ![t] = "return"]
    /\ UNCHANGED <<writesLeft, result, defect, warned>>

\* The answer reaches the caller.
ReturnCode(t) ==
    /\ at[t] = "return"
    /\ at' = [at EXCEPT ![t] = "out"]
    /\ UNCHANGED <<dead, writesLeft, result, defect, warned>>

EncoderNext ==
    \E t \in Threads :
        \/ \E legal \in BOOLEAN : Begin(t, legal)
        \/ Encode(t) \/ Write(t) \/ Settle(t) \/ ReturnCode(t)

EncoderSpec == EncoderInit /\ [][EncoderNext]_encoderVars

-----------------------------------------------------------------------------
EncoderTypeOK ==
    /\ dead \in BOOLEAN
    /\ at \in [Threads -> {"out", "encode", "write", "settle", "return"}]
    /\ writesLeft \in [Threads -> 0 .. MaxWrites]
    /\ result \in [Threads -> {"none", "ok", "state", "rejected", "internal"}]
    /\ defect \in [Threads -> BOOLEAN]
    /\ warned \in [Threads -> BOOLEAN]

\* A call that begins after another has reported a defect is refused, whatever
\* the calls still running do (wem.h:273-275, "every later call on it").
LateCallersRefused ==
    \A t \in Threads : warned[t] => at[t] \in {"out", "return"} /\ result[t] = "state"

\* Nothing but a defect kills the handle: a rejection, or a write callback that
\* refuses with any code, leaves it usable for the others (wem.h:276-277,
\* lib.rs:393-402).
OnlyDefectsKill == dead => \E t \in Threads : defect[t]

=============================================================================
