------------------------------ MODULE ApiLock ------------------------------
(***************************************************************************)
(* phy->lock over all functions of the GPY2xx API.  Nearly all of them     *)
(* take the lock, access the PHY, go to END on the first error and release *)
(* the lock there.  Some return in between, and some call another function *)
(* of the API while they hold the lock.  The application decides what kind *)
(* of lock it supplies.                                                    *)
(***************************************************************************)
EXTENDS Naturals, Sequences, FiniteSets

CONSTANTS
  Callers,  \* threads of the application
  Nobody,   \* the owner of a free lock
  MaxLeaks  \* bound: returns of a thread with the lock held

ASSUME CallerAssumption == Nobody \notin Callers /\ MaxLeaks \in Nat

VARIABLES
  recursive, \* may the thread that owns the lock take it again
  owner,     \* of the lock
  depth,     \* how often the owner has taken it
  stack,     \* [Callers -> the API functions a thread is in, with the next step of each]
  leaks      \* [Callers -> functions it returned from with the lock held]

lockVars == <<recursive, owner, depth, stack, leaks>>

\* What a function does between lock and unlock.
IO == [op |-> "io", fn |-> "-"]           \* an access: an error goes to END
IOReturn == [op |-> "io_ret", fn |-> "-"] \* an access: an error returns
Test == [op |-> "test", fn |-> "-"]       \* a test that may return
Nested(g) == [op |-> "call", fn |-> g]    \* a call of another function of the API

\* Any of the functions that only access the PHY.
plain == <<IO, IO>>
\* Mutation: gpy2xx_uninit isolates the PHY with another function of the API.
UninitNested == <<Nested("plain")>>
uninit == <<>>
fw_frw_init == <<IOReturn, IO>>
ptp_resetauxfifo == <<IO, IOReturn>>
msec_update_egr_sa_cw == <<Test, IO>>
msec_get_egr_pn == <<IO, Test, IO>>
loopback_cfg == <<IO, Nested("plain")>>
ptp_enable == <<IO, Nested("plain"), Nested("plain"), Nested("plain")>>
ptp_getcfg == <<IO, Nested("plain"), Nested("plain"), Nested("plain")>>
msec_init_dev == <<IO, Nested("plain"), IO>>
macsec_enable == <<IO, Nested("msec_init_dev"), Nested("msec_init_dev")>>

Body ==
  [plain |-> plain, uninit |-> uninit, fw_frw_init |-> fw_frw_init, ptp_resetauxfifo |-> ptp_resetauxfifo,
   msec_update_egr_sa_cw |-> msec_update_egr_sa_cw, msec_get_egr_pn |-> msec_get_egr_pn,
   loopback_cfg |-> loopback_cfg, ptp_enable |-> ptp_enable,
   ptp_getcfg |-> ptp_getcfg, msec_init_dev |-> msec_init_dev,
   macsec_enable |-> macsec_enable]
Function == DOMAIN Body

\* The frame on top: at 0 the function waits for the lock, then its steps, then END.
Top(t) == stack[t][Len(stack[t])]
At(t, i) == stack[t] # <<>> /\ Top(t).at = i
Step(t) == IF stack[t] # <<>> /\ Top(t).at \in 1 .. Len(Body[Top(t).fn]) THEN Body[Top(t).fn][Top(t).at].op ELSE "-"
End(t) == Len(Body[Top(t).fn]) + 1
LockGoto(t, i) == stack' = [stack EXCEPT ![t] = [@ EXCEPT ![Len(@)].at = i]]

\* The caller of an API function goes on, or to its END when an error came back.
Back(t) ==
  LET s == SubSeq(stack[t], 1, Len(stack[t]) - 1) n == Len(s) IN
  IF n = 0 THEN stack' = [stack EXCEPT ![t] = <<>>]
  ELSE \E i \in {s[n].at + 1, Len(Body[s[n].fn]) + 1} : stack' = [stack EXCEPT ![t] = [s EXCEPT ![n].at = i]]

LockInit ==
  /\ recursive \in BOOLEAN
  /\ owner = Nobody /\ depth = 0
  /\ stack = [t \in Callers |-> <<>>]
  /\ leaks = [t \in Callers |-> 0]

Enter(t, fn) ==
  /\ stack[t] = <<>>
  /\ stack' = [stack EXCEPT ![t] = <<[fn |-> fn, at |-> 0]>>]
  /\ UNCHANGED <<recursive, owner, depth, leaks>>

MayLock(t) == owner = Nobody \/ (owner = t /\ recursive)
Lock(t) ==
  /\ At(t, 0)
  /\ MayLock(t)
  /\ owner' = t /\ depth' = depth + 1
  /\ LockGoto(t, 1)
  /\ UNCHANGED <<recursive, leaks>>

Access(t) ==
  /\ Step(t) \in {"io", "io_ret", "test"}
  /\ LockGoto(t, Top(t).at + 1)
  /\ UNCHANGED <<recursive, owner, depth, leaks>>

AccessFails(t) ==
  /\ Step(t) = "io"
  /\ LockGoto(t, End(t))
  /\ UNCHANGED <<recursive, owner, depth, leaks>>

ReturnLocked(t) ==
  /\ Step(t) \in {"io_ret", "test"}
  /\ leaks[t] < MaxLeaks
  /\ leaks' = [leaks EXCEPT ![t] = @ + 1]
  /\ Back(t)
  /\ UNCHANGED <<recursive, owner, depth>>

CallNested(t) ==
  /\ Step(t) = "call"
  /\ stack' = [stack EXCEPT ![t] = Append(@, [fn |-> Body[Top(t).fn][Top(t).at].fn, at |-> 0])]
  /\ UNCHANGED <<recursive, owner, depth, leaks>>

\* Mutation: the error path of a nested call gives the lock away.
ReleaseAll(t) ==
  /\ stack[t] # <<>> /\ At(t, End(t))
  /\ depth' = 0 /\ owner' = Nobody
  /\ Back(t)
  /\ UNCHANGED <<recursive, leaks>>
Release(t) ==
  /\ stack[t] # <<>> /\ At(t, End(t))
  /\ depth' = depth - 1
  /\ owner' = IF depth = 1 THEN Nobody ELSE owner
  /\ Back(t)
  /\ UNCHANGED <<recursive, leaks>>

LockNext ==
  \E t \in Callers :
    \/ \E fn \in Function : Enter(t, fn)
    \/ Lock(t) \/ Access(t) \/ AccessFails(t) \/ ReturnLocked(t) \/ CallNested(t) \/ Release(t)

LockSpec == LockInit /\ [][LockNext]_lockVars

-----------------------------------------------------------------------------
(* Properties                                                               *)

\* The types of the state.
LockTypeOK ==
  /\ recursive \in BOOLEAN
  /\ owner \in Callers \cup {Nobody} /\ depth \in 0 .. 3 + MaxLeaks
  /\ stack \in [Callers -> Seq([fn : Function, at : 0 .. 5])]
  /\ leaks \in [Callers -> 0 .. MaxLeaks]

\* The functions of t's stack that have taken the lock.
Locked(t) == Cardinality({i \in DOMAIN stack[t] : stack[t][i].at > 0})

\* The lock is held as often as functions on the owner's stack have taken it and
\* functions it is back from have kept it; nobody else is past its lock.
LockAccounted ==
  /\ depth = IF owner = Nobody THEN 0 ELSE Locked(owner) + leaks[owner]
  /\ \A t \in Callers : t # owner => Locked(t) = 0 /\ leaks[t] = 0

\* The owner gives the lock back in the end: it is not outside the API, and not
\* waiting for itself, unless one of the five functions has kept the lock or,
\* with a lock that is not recursive, one function has called another.
OwnerGoesOn ==
  owner # Nobody /\ leaks[owner] = 0
    => /\ stack[owner] # <<>>
       /\ At(owner, 0) /\ ~recursive =>
            stack[owner][1].fn \in {"loopback_cfg", "ptp_enable", "ptp_getcfg", "msec_init_dev", "macsec_enable"}
==============================================================================
