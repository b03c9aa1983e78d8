------------------------------ MODULE PtpClock ------------------------------
(***************************************************************************)
(* Setting the PTP time (gpy211_chip.c): gpy2xx_ptp_settime and            *)
(* gpy2xx_ptp_adjtime write the same four update registers, each sets a    *)
(* bit of its own that asks the PHY to take them, and polls until the PHY  *)
(* has cleared it.  Calls follow one another, phy->lock keeps them apart;  *)
(* the PHY takes the registers at any time while a bit is set.             *)
(* __is_rw_done tests one bit of what the read returned, a negative error  *)
(* code included (-EIO and -ETIMEDOUT have some of these bits clear), and  *)
(* returns 0 when its polls are used up.                                   *)
(***************************************************************************)
EXTENDS Naturals

CONSTANTS
  Times,      \* the values calls set or add
  MaxRwRetry  \* MAX_RW_RETRY

ASSUME PollAssumption == MaxRwRetry \in Nat \ {0}

Fn == {"settime", "adjtime"}
Part == {"sec_l", "sec_h", "nsec_l", "nsec_h"}
After == [sec_l |-> "sec_h", sec_h |-> "nsec_l", nsec_l |-> "nsec_h", nsec_h |-> "ask"]
PtpPC == {"idle", "tsie", "before"} \cup Part \cup {"ask", "wait", "done"}

VARIABLES
  reg,   \* [Part -> the update registers, each as the call whose value it holds]
  asked, \* the functions whose bit, TSINIT or TSUPDT, is set
  late,  \* history: those of them a loop of polls has ended for nevertheless
  taken, \* the call whose time the PHY took last for each function, or Mixed
  ptp    \* the running call

ptpVars == <<reg, asked, late, taken, ptp>>

Mixed == <<>>
Caller == Fn \X Times
InRegs == {c \in Caller : \A p \in Part : reg[p] = c}

PtpInit ==
  \E v \in Times :
    /\ reg = [p \in Part |-> <<"settime", v>>]
    /\ asked = {} /\ late = {}
    /\ taken = [fn \in Fn |-> <<fn, v>>]
    /\ ptp = [pc |-> "idle", fn |-> "settime", val |-> v, polls |-> 0, ret |-> 0]

PtpGoto(pc) == ptp' = [ptp EXCEPT !.pc = pc]
Poll(pc) == ptp' = [ptp EXCEPT !.pc = pc, !.polls = MaxRwRetry]
Return(r) == ptp' = [ptp EXCEPT !.pc = "idle", !.polls = 0, !.ret = r]

\* settime begins by disabling the timestamp interrupt.
PtpCall(fn, v) ==
  /\ ptp.pc = "idle"
  /\ ptp' = [pc |-> IF fn = "settime" THEN "tsie" ELSE "before", fn |-> fn, val |-> v,
             polls |-> IF fn = "settime" THEN 0 ELSE MaxRwRetry, ret |-> 0]
  /\ UNCHANGED <<reg, asked, late, taken>>

DisableTsie ==
  /\ ptp.pc = "tsie"
  /\ Poll("before")
  /\ UNCHANGED <<reg, asked, late, taken>>

\* An access that fails ends the call; for the polls see below.
BusError ==
  /\ ptp.pc \in Part \cup {"tsie", "ask", "done"}
  /\ Return(1)
  /\ UNCHANGED <<reg, asked, late, taken>>

-----------------------------------------------------------------------------
(* __is_rw_done                                                             *)

Polled(pc) == IF pc = "before" THEN PtpGoto("sec_l") ELSE IF ptp.fn = "settime" THEN PtpGoto("done") ELSE Return(0)

EndPolls ==
  /\ ptp.pc \in {"before", "wait"}
  /\ late' = late \cup (asked \cap {ptp.fn})
  /\ Polled(ptp.pc)
  /\ UNCHANGED <<reg, asked, taken>>

\* The bit is set, or the error code of a failed read has it set, and a poll
\* is left.
PollBusy ==
  /\ ptp.pc \in {"before", "wait"}
  /\ ptp.polls > 1
  /\ ptp' = [ptp EXCEPT !.polls = @ - 1]
  /\ UNCHANGED <<reg, asked, late, taken>>

PollClear == ptp.fn \notin asked /\ EndPolls

\* The error code of a failed read has the bit clear.
PollMisread == EndPolls

\* The last poll: "!value && !busyRetry" is not true of a bit that is still set.
PollRunsOut == ptp.polls = 1 /\ EndPolls

-----------------------------------------------------------------------------
(* The update                                                               *)

\* Mutation: the high half of the seconds is not written.
WriteNoSecH ==
  /\ ptp.pc \in Part
  /\ reg' = IF ptp.pc = "sec_h" THEN reg ELSE [reg EXCEPT ![ptp.pc] = <<ptp.fn, ptp.val>>]
  /\ PtpGoto(After[ptp.pc])
  /\ UNCHANGED <<asked, late, taken>>
\* The four writes, in this order; ADDSUB is in the last one.
Write ==
  /\ ptp.pc \in Part
  /\ reg' = [reg EXCEPT ![ptp.pc] = <<ptp.fn, ptp.val>>]
  /\ PtpGoto(After[ptp.pc])
  /\ UNCHANGED <<asked, late, taken>>

\* Mutation: the call returns without polling for the bit it has set.
AskNoWait ==
  /\ ptp.pc = "ask"
  /\ asked' = asked \cup {ptp.fn}
  /\ Polled("wait")
  /\ UNCHANGED <<reg, late, taken>>
\* TSINIT or TSUPDT is set.
Ask ==
  /\ ptp.pc = "ask"
  /\ asked' = asked \cup {ptp.fn}
  /\ Poll("wait")
  /\ UNCHANGED <<reg, late, taken>>

\* settime enables the timestamp interrupt again.
EnableTsie ==
  /\ ptp.pc = "done"
  /\ Return(0)
  /\ UNCHANGED <<reg, asked, late, taken>>

\* The PHY takes the registers and clears the bit.
Take(fn) ==
  /\ fn \in asked
  /\ taken' = [taken EXCEPT ![fn] = IF InRegs = {} THEN Mixed ELSE CHOOSE c \in InRegs : TRUE]
  /\ asked' = asked \ {fn} /\ late' = late \ {fn}
  /\ UNCHANGED <<reg, ptp>>

PtpNext ==
  \/ \E fn \in Fn, v \in Times : PtpCall(fn, v)
  \/ DisableTsie \/ BusError
  \/ PollBusy \/ PollClear \/ PollMisread \/ PollRunsOut
  \/ Write \/ Ask \/ EnableTsie
  \/ \E fn \in Fn : Take(fn)

PtpSpec == PtpInit /\ [][PtpNext]_ptpVars

-----------------------------------------------------------------------------
(* Properties                                                               *)

\* The types of the state.
PtpTypeOK ==
  /\ reg \in [Part -> Caller]
  /\ asked \subseteq Fn /\ late \subseteq asked
  /\ taken \in [Fn -> Caller \cup {Mixed}]
  /\ ptp \in [pc : PtpPC, fn : Fn, val : Times, polls : 0 .. MaxRwRetry, ret : 0 .. 1]

\* The PHY never takes the halves of two calls' times together, nor the time of
\* one function for the other, unless this update is late: the polls of its bit
\* have ended before the PHY took it, because they ran out or because a read
\* failed with an error code that has the bit clear.  The calls notice neither.
TimeIsWhole ==
  [][\A fn \in Fn : fn \in asked /\ fn \notin asked' /\ fn \notin late
       => \E v \in Times : taken'[fn] = <<fn, v>>]_ptpVars

\* A call that returns 0 has set its time, unless polls for its bit have ended
\* early in the same way and the PHY has still not taken the registers.
SuccessMeansSet ==
  [][ptp.pc # "idle" /\ ptp'.pc = "idle" /\ ptp'.ret = 0 /\ ptp.fn \notin late'
       => taken[ptp.fn] = <<ptp.fn, ptp.val>>]_ptpVars
==============================================================================
