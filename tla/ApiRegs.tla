------------------------------ MODULE ApiRegs ------------------------------
(***************************************************************************)
(* What the locked API functions of the GPHY library promise their caller. *)
(* A call that updates one half of a register does so at one instant.  A   *)
(* call that returns success has done it exactly once; one that returns an *)
(* error has done it at most once, and may still do it after its return:   *)
(* its update is then late.  A call that begins while an earlier one is    *)
(* late clashes with it, and nothing is promised until one begins when     *)
(* nothing is outstanding.                                                 *)
(***************************************************************************)
CONSTANTS Threads, Calls, Addr, Half, Value

VARIABLES reg,    \* [Addr -> [Half -> Value]]
          phase,  \* [Threads -> {"idle", "open", "done", "failed"}]
          args,   \* [Threads -> Calls]: the last call of a thread
          ret,    \* [Threads -> BOOLEAN]: whether it returned success
          late,   \* calls that returned an error and may still be done
          clash   \* has a call begun on top of an unanswered one?

vars == <<reg, phase, args, ret, late, clash>>

Init == /\ reg \in [Addr -> [Half -> Value]]
        /\ phase = [t \in Threads |-> "idle"]
        /\ args \in [Threads -> Calls]
        /\ ret \in [Threads -> BOOLEAN]
        /\ late = {}
        /\ clash = FALSE

Update(c) == reg' = [reg EXCEPT ![c.addr][c.half] = c.val]

Invoke(t, c) == /\ phase[t] = "idle"
                /\ phase' = [phase EXCEPT ![t] = "open"]
                /\ args' = [args EXCEPT ![t] = c]
                /\ UNCHANGED <<reg, ret, late>>

Commit(t) == /\ phase[t] = "open"
             /\ phase' = [phase EXCEPT ![t] = "done"]
             /\ Update(args[t])
             /\ UNCHANGED <<args, ret, late>>

\* The call ends with an error: it was not done, or it was done and its caller
\* will not know, or it is left to be done late.
Abandon(t) == /\ phase[t] \in {"open", "done"}
              /\ phase' = [phase EXCEPT ![t] = "failed"]
              /\ late' \in {late} \cup {{args[t]} : s \in {phase[t]} \cap {"open"}}
              /\ UNCHANGED <<reg, args, ret>>

CommitLate(c) == /\ c \in late
                 /\ late' = late \ {c}
                 /\ Update(c)
                 /\ UNCHANGED <<phase, args, ret>>

Return(t) == /\ phase[t] \in {"done", "failed"}
             /\ phase' = [phase EXCEPT ![t] = "idle"]
             /\ ret' = [ret EXCEPT ![t] = (phase[t] = "done")]
             /\ UNCHANGED <<reg, args, late>>

Act == \/ \E t \in Threads : (\E c \in Calls : Invoke(t, c)) \/ Commit(t) \/ Abandon(t) \/ Return(t)
       \/ \E c \in late : CommitLate(c)

\* A call begins with nothing outstanding: the promise holds again.
Renew == /\ late = {}
         /\ clash' = FALSE
         /\ UNCHANGED <<reg, phase, args, ret, late>>

Next == (Act /\ UNCHANGED clash) \/ clash' \/ Renew

Spec == Init /\ [][Next]_vars
=============================================================================
