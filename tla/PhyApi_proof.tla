---------------------------- MODULE PhyApi_proof ----------------------------
(***************************************************************************)
(* PtpClock: without a poll that has run out unnoticed, the PHY takes      *)
(* whole times and a call that returns 0 has set its own.  ApiLock: for    *)
(* any number of threads the lock is held as often as the stacks say, and  *)
(* its owner goes on.  Both for any values of the constants; last, the     *)
(* parts put together: a behaviour of ApiSpec is one of each part.         *)
(***************************************************************************)
EXTENDS MCPhyApi, MacsecSa_proof, FiniteSetTheorems

(* PtpClock                                                                 *)

PtpState == [pc : PtpPC, fn : Fn, val : Times, polls : 0 .. MaxRwRetry, ret : 0 .. 1]
Mine == <<ptp.fn, ptp.val>>

\* The running call's share of the registers grows in the order of its writes.
PtpWritten ==
  /\ ptp.pc \in {"sec_h", "nsec_l", "nsec_h", "ask", "wait", "done"} => reg["sec_l"] = Mine
  /\ ptp.pc \in {"nsec_l", "nsec_h", "ask", "wait", "done"} => reg["sec_h"] = Mine
  /\ ptp.pc \in {"nsec_h", "ask", "wait", "done"} => reg["nsec_l"] = Mine
  /\ ptp.pc \in {"ask", "wait", "done"} => reg["nsec_h"] = Mine
  /\ ptp.pc = "done" => ptp.fn = "settime"

\* A bit that is set without being late is the one the running call waits for.
PtpAsked == \A fn \in asked \ late : ptp.pc = "wait" /\ fn = ptp.fn

\* What the running call's update has come to.
PtpResult ==
  /\ ptp.pc = "wait" => ptp.fn \in asked \/ taken[ptp.fn] = Mine
  /\ ptp.pc = "done" => ptp.fn \in late \/ taken[ptp.fn] = Mine

PtpInv == PtpTypeOK /\ PtpWritten /\ PtpAsked /\ PtpResult

\* How a step moves the running call.
LEMMA PtpMoves ==
  ASSUME ptp \in PtpState
  PROVE  /\ \A pc \in PtpPC : PtpGoto(pc) =>
              /\ ptp' \in PtpState /\ ptp'.pc = pc /\ ptp'.fn = ptp.fn /\ ptp'.val = ptp.val
              /\ ptp'.ret = ptp.ret
         /\ \A pc \in PtpPC : Poll(pc) =>
              /\ ptp' \in PtpState /\ ptp'.pc = pc /\ ptp'.fn = ptp.fn /\ ptp'.val = ptp.val
              /\ ptp'.ret = ptp.ret
         /\ \A r \in 0 .. 1 : Return(r) =>
              /\ ptp' \in PtpState /\ ptp'.pc = "idle" /\ ptp'.fn = ptp.fn /\ ptp'.val = ptp.val
              /\ ptp'.ret = r
<1>1. ASSUME NEW pc \in PtpPC, PtpGoto(pc)
      PROVE  /\ ptp' \in PtpState /\ ptp'.pc = pc /\ ptp'.fn = ptp.fn /\ ptp'.val = ptp.val
             /\ ptp'.ret = ptp.ret
  BY <1>1 DEF PtpGoto, PtpState
<1>2. ASSUME NEW pc \in PtpPC, Poll(pc)
      PROVE  /\ ptp' \in PtpState /\ ptp'.pc = pc /\ ptp'.fn = ptp.fn /\ ptp'.val = ptp.val
             /\ ptp'.ret = ptp.ret
  <2>1. MaxRwRetry \in 0 .. MaxRwRetry
    BY PollAssumption
  <2> QED BY <1>2, <2>1 DEF Poll, PtpState
<1>3. ASSUME NEW r \in 0 .. 1, Return(r)
      PROVE  /\ ptp' \in PtpState /\ ptp'.pc = "idle" /\ ptp'.fn = ptp.fn /\ ptp'.val = ptp.val
             /\ ptp'.ret = r
  <2>1. 0 \in 0 .. MaxRwRetry /\ "idle" \in PtpPC
    BY PollAssumption DEF PtpPC
  <2> QED BY <1>3, <2>1 DEF Return, PtpState
<1> QED BY <1>1, <1>2, <1>3

\* What the PHY takes when all four registers hold one call's time.
LEMMA TakenWhole ==
  ASSUME NEW c \in Caller, \A p \in Part : reg[p] = c
  PROVE  InRegs # {} /\ (CHOOSE d \in InRegs : TRUE) = c
<1>1. InRegs = {c}
  BY DEF InRegs, Part
<1> QED BY <1>1

-----------------------------------------------------------------------------
(* PtpClock: the invariant is inductive                                     *)

LEMMA PtpInitInv == PtpInit => PtpInv
<1> SUFFICES ASSUME PtpInit PROVE PtpInv
  OBVIOUS
<1>1. PICK v \in Times :
        /\ reg = [p \in Part |-> <<"settime", v>>]
        /\ asked = {} /\ late = {}
        /\ taken = [fn \in Fn |-> <<fn, v>>]
        /\ ptp = [pc |-> "idle", fn |-> "settime", val |-> v, polls |-> 0, ret |-> 0]
  BY DEF PtpInit
<1>2. reg \in [Part -> Caller] /\ taken \in [Fn -> Caller \cup {Mixed}]
  BY <1>1 DEF Caller, Fn
<1>3. ptp \in PtpState
  <2>1. 0 \in 0 .. MaxRwRetry /\ "idle" \in PtpPC /\ "settime" \in Fn
    BY PollAssumption DEF PtpPC, Fn
  <2> QED BY <1>1, <2>1 DEF PtpState
<1>4. PtpTypeOK
  BY <1>1, <1>2, <1>3 DEF PtpTypeOK, PtpState
<1>5. PtpWritten /\ PtpAsked /\ PtpResult
  BY <1>1 DEF PtpWritten, PtpAsked, PtpResult
<1> QED BY <1>4, <1>5 DEF PtpInv

\* No step but Write changes a register, no step but Take what was taken.
LEMMA PtpInvStep == PtpInv /\ [PtpNext]_ptpVars => PtpInv'
<1> SUFFICES ASSUME PtpInv, [PtpNext]_ptpVars PROVE PtpInv'
  OBVIOUS
<1>0. /\ reg \in [Part -> Caller] /\ asked \subseteq Fn /\ late \subseteq asked
      /\ taken \in [Fn -> Caller \cup {Mixed}] /\ ptp \in PtpState
      /\ ptp.pc \in PtpPC /\ ptp.fn \in Fn /\ ptp.val \in Times
  BY DEF PtpInv, PtpTypeOK, PtpState
<1>a. PtpWritten /\ PtpAsked /\ PtpResult
  BY DEF PtpInv
<1>b. Mine \in Caller
  BY <1>0 DEF Mine, Caller
<1>c. ASSUME ptp' \in PtpState, reg' \in [Part -> Caller], taken' \in [Fn -> Caller \cup {Mixed}],
             asked' \subseteq Fn, late' \subseteq asked'
      PROVE  PtpTypeOK'
  BY <1>c DEF PtpTypeOK, PtpState
<1>d. ASSUME UNCHANGED <<reg, asked, late, taken>>, ptp' \in PtpState,
             ptp'.pc \in {"idle", "tsie", "before", "sec_l"}, ptp.pc # "wait"
      PROVE  PtpInv'
  BY <1>0, <1>a, <1>c, <1>d DEF PtpInv, PtpWritten, PtpAsked, PtpResult
<1>1. CASE \E fn \in Fn, v \in Times : PtpCall(fn, v)
  <2>1. PICK fn \in Fn, v \in Times : PtpCall(fn, v)
    BY <1>1
  <2>2. ptp' \in PtpState
    <3>1. (IF fn = "settime" THEN 0 ELSE MaxRwRetry) \in 0 .. MaxRwRetry
      BY PollAssumption
    <3>2. (IF fn = "settime" THEN "tsie" ELSE "before") \in PtpPC
      BY DEF PtpPC
    <3> QED BY <2>1, <3>1, <3>2 DEF PtpCall, PtpState
  <2>3. ptp.pc # "wait" /\ ptp'.pc \in {"tsie", "before"}
    BY <2>1 DEF PtpCall
  <2> QED BY <1>d, <2>1, <2>2, <2>3 DEF PtpCall
<1>2. CASE DisableTsie
  <2>1. Poll("before") /\ "before" \in PtpPC
    BY <1>2 DEF DisableTsie, PtpPC
  <2> QED BY <1>0, <1>2, <1>d, <2>1, PtpMoves DEF DisableTsie
<1>3. CASE BusError
  <2>1. Return(1) /\ ptp.pc # "wait"
    BY <1>3 DEF BusError, Part
  <2> QED BY <1>0, <1>3, <1>d, <2>1, PtpMoves DEF BusError
<1>4. CASE PollBusy
  <2>1. /\ ptp' \in PtpState /\ ptp'.pc = ptp.pc /\ ptp'.fn = ptp.fn /\ ptp'.val = ptp.val
    <3>1. ptp.polls - 1 \in 0 .. MaxRwRetry
      BY <1>0, <1>4, PollAssumption DEF PollBusy, PtpState
    <3> QED BY <1>0, <1>4, <3>1 DEF PollBusy, PtpState
  <2> QED BY <1>0, <1>4, <1>a, <1>c, <2>1 DEF PollBusy, PtpInv, PtpWritten, PtpAsked, PtpResult, Mine
<1>5. CASE EndPolls
  <2>0. UNCHANGED <<reg, asked, taken>>
    BY <1>5 DEF EndPolls
  <2>1. late \subseteq late' /\ late' \subseteq asked /\ (ptp.fn \in asked => ptp.fn \in late')
    BY <1>0, <1>5 DEF EndPolls
  <2>2. CASE ptp.pc = "before"
    <3>1. PtpGoto("sec_l") /\ "sec_l" \in PtpPC
      BY <1>5, <2>2 DEF EndPolls, Polled, PtpPC, Part
    <3>2. ptp' \in PtpState /\ ptp'.pc = "sec_l"
      BY <1>0, <3>1, PtpMoves
    <3> QED BY <1>0, <1>a, <1>c, <2>0, <2>1, <2>2, <3>2 DEF PtpInv, PtpWritten, PtpAsked, PtpResult
  <2>3. CASE ptp.pc = "wait"
    <3>0. asked \subseteq late'
      BY <1>a, <2>1 DEF PtpAsked
    <3>1. CASE ptp.fn = "settime"
      <4>1. PtpGoto("done") /\ "done" \in PtpPC
        BY <1>5, <2>3, <3>1 DEF EndPolls, Polled, PtpPC
      <4>2. ptp' \in PtpState /\ ptp'.pc = "done" /\ ptp'.fn = ptp.fn /\ ptp'.val = ptp.val
        BY <1>0, <4>1, PtpMoves
      <4> QED BY <1>0, <1>a, <1>c, <2>0, <2>1, <2>3, <3>0, <3>1, <4>2
              DEF PtpInv, PtpWritten, PtpAsked, PtpResult, Mine
    <3>2. CASE ptp.fn # "settime"
      <4>1. Return(0)
        BY <1>5, <2>3, <3>2 DEF EndPolls, Polled
      <4>2. ptp' \in PtpState /\ ptp'.pc = "idle"
        BY <1>0, <4>1, PtpMoves
      <4> QED BY <1>0, <1>a, <1>c, <2>0, <2>1, <3>0, <4>2 DEF PtpInv, PtpWritten, PtpAsked, PtpResult
    <3> QED BY <3>1, <3>2
  <2> QED BY <1>5, <2>2, <2>3 DEF EndPolls
<1>6. CASE Write
  <2>1. After[ptp.pc] \in PtpPC /\ PtpGoto(After[ptp.pc]) /\ ptp.pc \in Part
    BY <1>6 DEF Write, After, PtpPC, Part
  <2>2. /\ ptp' \in PtpState /\ ptp'.pc = After[ptp.pc] /\ ptp'.fn = ptp.fn /\ ptp'.val = ptp.val
    BY <1>0, <2>1, PtpMoves
  <2>3. reg' = [reg EXCEPT ![ptp.pc] = Mine] /\ UNCHANGED <<asked, late, taken>>
    BY <1>6 DEF Write, Mine
  <2>4. reg' \in [Part -> Caller] /\ \A p \in Part : reg'[p] = IF p = ptp.pc THEN Mine ELSE reg[p]
    BY <1>0, <1>b, <2>1, <2>3
  <2>5. Mine' = Mine
    BY <2>2 DEF Mine
  <2>6. PtpWritten'
    BY <1>a, <2>1, <2>2, <2>4, <2>5 DEF PtpWritten, After, Part
  <2>7. PtpAsked' /\ PtpResult'
    BY <1>a, <2>1, <2>2, <2>3 DEF PtpAsked, PtpResult, After, Part
  <2> QED BY <1>0, <1>c, <2>2, <2>3, <2>4, <2>6, <2>7 DEF PtpInv
<1>7. CASE Ask
  <2>1. Poll("wait") /\ "wait" \in PtpPC
    BY <1>7 DEF Ask, PtpPC
  <2>2. ptp' \in PtpState /\ ptp'.pc = "wait" /\ ptp'.fn = ptp.fn /\ ptp'.val = ptp.val
    BY <1>0, <2>1, PtpMoves
  <2> QED BY <1>0, <1>7, <1>a, <1>c, <2>2 DEF Ask, PtpInv, PtpWritten, PtpAsked, PtpResult, Mine
<1>8. CASE EnableTsie
  <2>1. Return(0) /\ ptp.pc = "done"
    BY <1>8 DEF EnableTsie
  <2> QED BY <1>0, <1>8, <1>d, <2>1, PtpMoves DEF EnableTsie
<1>9. ASSUME NEW fn \in Fn, Take(fn) PROVE PtpInv'
  <2>1. taken' \in [Fn -> Caller \cup {Mixed}]
    <3>1. InRegs # {} => (CHOOSE c \in InRegs : TRUE) \in Caller
      BY DEF InRegs
    <3> QED BY <1>0, <1>9, <3>1 DEF Take
  <2>2. ptp.pc \in {"wait", "done"} /\ fn = ptp.fn => taken'[fn] = Mine
    <3>1. ptp.pc \in {"wait", "done"} => \A p \in Part : reg[p] = Mine
      BY <1>a DEF PtpWritten, Part
    <3> QED BY <1>0, <1>9, <1>b, <3>1, TakenWhole DEF Take
  <2>3. \A g \in Fn \ {fn} : taken'[g] = taken[g]
    BY <1>0, <1>9 DEF Take
  <2>4. PtpTypeOK'
    BY <1>0, <1>9, <1>c, <2>1 DEF Take
  <2>5. PtpWritten' /\ PtpAsked'
    BY <1>9, <1>a DEF Take, PtpWritten, PtpAsked, Mine
  <2>6. PtpResult'
    BY <1>0, <1>9, <1>a, <2>2, <2>3 DEF Take, PtpResult, Mine
  <2> QED BY <2>4, <2>5, <2>6 DEF PtpInv
<1>10. CASE UNCHANGED ptpVars
  BY <1>10 DEF ptpVars, PtpInv, PtpTypeOK, PtpWritten, PtpAsked, PtpResult, Mine
<1> QED BY <1>1, <1>2, <1>3, <1>4, <1>5, <1>6, <1>7, <1>8, <1>9, <1>10
       DEF PtpNext, PollClear, PollMisread, PollRunsOut

LEMMA PtpInductive == PtpSpec => []PtpInv
<1>1. PtpInit => PtpInv
  BY PtpInitInv
<1>2. PtpInv /\ [PtpNext]_ptpVars => PtpInv'
  BY PtpInvStep
<1> QED BY <1>1, <1>2, PTL DEF PtpSpec

-----------------------------------------------------------------------------
(* PtpClock: the results                                                    *)

\* The types of the state, for any times and number of polls.
THEOREM PtpTypeCorrect == PtpSpec => []PtpTypeOK
<1>1. PtpInv => PtpTypeOK
  BY DEF PtpInv
<1> QED BY <1>1, PtpInductive, PTL

\* The PHY never takes a time that is put together from two calls, nor one that
\* another function wrote, except for an update whose polls ended early.
THEOREM WholeTimes == PtpSpec => TimeIsWhole
<1> DEFINE Whole == \A fn \in Fn : fn \in asked /\ fn \notin asked' /\ fn \notin late
                      => \E v \in Times : taken'[fn] = <<fn, v>>
<1>1. PtpInv /\ [PtpNext]_ptpVars => [Whole]_ptpVars
  <2> SUFFICES ASSUME PtpInv, PtpNext, NEW fn \in Fn, fn \in asked, fn \notin asked', fn \notin late
               PROVE  \E v \in Times : taken'[fn] = <<fn, v>>
    OBVIOUS
  <2>0. /\ taken \in [Fn -> Caller \cup {Mixed}] /\ ptp.fn \in Fn /\ ptp.val \in Times
        /\ PtpWritten /\ PtpAsked
    BY DEF PtpInv, PtpTypeOK
  <2>1. Take(fn)
    BY DEF PtpNext, PtpCall, DisableTsie, BusError, PollBusy, PollClear, PollMisread, PollRunsOut, EndPolls,
       Write, Ask, EnableTsie, Take
  <2>2. ptp.pc = "wait" /\ fn = ptp.fn
    BY <2>0 DEF PtpAsked
  <2>3. Mine \in Caller /\ \A p \in Part : reg[p] = Mine
    BY <2>0, <2>2 DEF PtpWritten, Part, Mine, Caller
  <2>4. taken'[fn] = Mine
    BY <2>0, <2>1, <2>3, TakenWhole DEF Take
  <2> QED BY <2>0, <2>2, <2>4 DEF Mine
<1> QED BY <1>1, PtpInductive, PTL DEF PtpSpec, TimeIsWhole

\* A call that returns 0 has set its time, unless its own polls have ended
\* early and the PHY is still about to take it.
THEOREM SuccessIsSet == PtpSpec => SuccessMeansSet
<1> DEFINE IsSet == ptp.pc # "idle" /\ ptp'.pc = "idle" /\ ptp'.ret = 0 /\ ptp.fn \notin late'
                      => taken[ptp.fn] = <<ptp.fn, ptp.val>>
<1>1. PtpInv /\ [PtpNext]_ptpVars => [IsSet]_ptpVars
  <2> SUFFICES ASSUME PtpInv, PtpNext, ptp.pc # "idle", ptp'.pc = "idle", ptp'.ret = 0, ptp.fn \notin late'
               PROVE  taken[ptp.fn] = Mine
    BY DEF Mine
  <2>0. ptp \in PtpState /\ late \subseteq asked /\ PtpResult
    BY DEF PtpInv, PtpTypeOK, PtpState
  <2>1. ASSUME NEW pc \in PtpPC, PtpGoto(pc) \/ Poll(pc) PROVE pc = "idle"
    BY <2>0, <2>1, PtpMoves
  <2>2. ~Return(1)
    <3>1. ASSUME Return(1) PROVE ptp'.ret = 1
      BY <2>0, <3>1, PtpMoves
    <3> QED BY <3>1
  <2>3. CASE EnableTsie
    BY <2>0, <2>3 DEF EnableTsie, PtpResult
  <2>4. CASE EndPolls
    <3>1. ptp.pc = "wait"
      BY <2>1, <2>4 DEF EndPolls, Polled, PtpPC, Part
    <3>2. ptp.fn \notin asked
      BY <2>0, <2>4 DEF EndPolls, PtpState
    <3> QED BY <2>0, <3>1, <3>2 DEF PtpResult
  <2>5. ~PollBusy
    BY <2>0 DEF PollBusy, PtpState
  <2>6. ~DisableTsie /\ ~BusError /\ ~Ask
    BY <2>1, <2>2 DEF DisableTsie, BusError, Ask, PtpPC
  <2>7. ~Write
    <3>1. ASSUME Write PROVE After[ptp.pc] \in PtpPC /\ After[ptp.pc] # "idle" /\ PtpGoto(After[ptp.pc])
      BY <3>1 DEF Write, After, Part, PtpPC
    <3> QED BY <2>1, <3>1
  <2>8. \A fn \in Fn : ~Take(fn)
    BY DEF Take
  <2> QED BY <2>3, <2>4, <2>5, <2>6, <2>7, <2>8
         DEF PtpNext, PtpCall, PollClear, PollMisread, PollRunsOut
<1> QED BY <1>1, PtpInductive, PTL DEF PtpSpec, SuccessMeansSet

-----------------------------------------------------------------------------
(* ApiLock: stacks                                                          *)

Frame == [fn : Function, at : 0 .. 5]
Nesting == {"loopback_cfg", "ptp_enable", "ptp_getcfg", "msec_init_dev", "macsec_enable"}

\* Below the top every function is at its call of the next one.
Nests(s) ==
  \A i \in 1 .. Len(s) - 1 :
    /\ s[i].at \in 1 .. Len(Body[s[i].fn])
    /\ Body[s[i].fn][s[i].at] = Nested(s[i + 1].fn)
Inside(s) == \A i \in 1 .. Len(s) : s[i].at <= Len(Body[s[i].fn]) + 1
Past(s) == {i \in DOMAIN s : s[i].at > 0}

LEMMA FunctionNames ==
  Function = {"plain", "uninit", "fw_frw_init", "ptp_resetauxfifo", "msec_update_egr_sa_cw", "msec_get_egr_pn",
              "loopback_cfg", "ptp_enable", "ptp_getcfg", "msec_init_dev", "macsec_enable"}
BY DEF Function, Body

LEMMA Bodies ==
  ASSUME NEW fn \in Function
  PROVE  /\ Len(Body[fn]) \in 0 .. 4
         /\ \A i \in 1 .. Len(Body[fn]) :
              Body[fn][i].op = "call" =>
                /\ Body[fn][i] = Nested(Body[fn][i].fn)
                /\ fn \in Nesting /\ Body[fn][i].fn \in {"plain", "msec_init_dev"}
                /\ Body[fn][i].fn = "msec_init_dev" => fn = "macsec_enable"
<1> USE DEF Nesting
<1>1. CASE fn = "plain"
  <2>1. Body[fn] = <<IO, IO>>
    BY <1>1 DEF Body, plain
  <2>2. Len(Body[fn]) = 2 /\ Body[fn][1] = IO /\ Body[fn][2] = IO
    BY <2>1
  <2> QED BY <1>1, <2>2 DEF IO
<1>2. CASE fn = "uninit"
  <2>1. Body[fn] = <<>>
    BY <1>2 DEF Body, uninit
  <2>2. Len(Body[fn]) = 0
    BY <2>1
  <2> QED BY <1>2, <2>2
<1>3. CASE fn = "fw_frw_init"
  <2>1. Body[fn] = <<IOReturn, IO>>
    BY <1>3 DEF Body, fw_frw_init
  <2>2. Len(Body[fn]) = 2 /\ Body[fn][1] = IOReturn /\ Body[fn][2] = IO
    BY <2>1
  <2> QED BY <1>3, <2>2 DEF IO, IOReturn
<1>4. CASE fn = "ptp_resetauxfifo"
  <2>1. Body[fn] = <<IO, IOReturn>>
    BY <1>4 DEF Body, ptp_resetauxfifo
  <2>2. Len(Body[fn]) = 2 /\ Body[fn][1] = IO /\ Body[fn][2] = IOReturn
    BY <2>1
  <2> QED BY <1>4, <2>2 DEF IO, IOReturn
<1>5. CASE fn = "msec_update_egr_sa_cw"
  <2>1. Body[fn] = <<Test, IO>>
    BY <1>5 DEF Body, msec_update_egr_sa_cw
  <2>2. Len(Body[fn]) = 2 /\ Body[fn][1] = Test /\ Body[fn][2] = IO
    BY <2>1
  <2> QED BY <1>5, <2>2 DEF IO, Test
<1>6. CASE fn = "msec_get_egr_pn"
  <2>1. Body[fn] = <<IO, Test, IO>>
    BY <1>6 DEF Body, msec_get_egr_pn
  <2>2. Len(Body[fn]) = 3 /\ Body[fn][1] = IO /\ Body[fn][2] = Test /\ Body[fn][3] = IO
    BY <2>1
  <2> QED BY <1>6, <2>2 DEF IO, Test
<1>7. CASE fn = "loopback_cfg"
  <2>1. Body[fn] = <<IO, Nested("plain")>>
    BY <1>7 DEF Body, loopback_cfg
  <2>2. Len(Body[fn]) = 2 /\ Body[fn][1] = IO /\ Body[fn][2] = Nested("plain")
    BY <2>1
  <2> QED BY <1>7, <2>2 DEF IO, Nested
<1>8. CASE fn = "ptp_enable"
  <2>1. Body[fn] = <<IO, Nested("plain"), Nested("plain"), Nested("plain")>>
    BY <1>8 DEF Body, ptp_enable
  <2>2. /\ Len(Body[fn]) = 4 /\ Body[fn][1] = IO
        /\ Body[fn][2] = Nested("plain") /\ Body[fn][3] = Nested("plain") /\ Body[fn][4] = Nested("plain")
    BY <2>1
  <2> QED BY <1>8, <2>2 DEF IO, Nested
<1>9. CASE fn = "ptp_getcfg"
  <2>1. Body[fn] = <<IO, Nested("plain"), Nested("plain"), Nested("plain")>>
    BY <1>9 DEF Body, ptp_getcfg
  <2>2. /\ Len(Body[fn]) = 4 /\ Body[fn][1] = IO
        /\ Body[fn][2] = Nested("plain") /\ Body[fn][3] = Nested("plain") /\ Body[fn][4] = Nested("plain")
    BY <2>1
  <2> QED BY <1>9, <2>2 DEF IO, Nested
<1>10. CASE fn = "msec_init_dev"
  <2>1. Body[fn] = <<IO, Nested("plain"), IO>>
    BY <1>10 DEF Body, msec_init_dev
  <2>2. Len(Body[fn]) = 3 /\ Body[fn][1] = IO /\ Body[fn][2] = Nested("plain") /\ Body[fn][3] = IO
    BY <2>1
  <2> QED BY <1>10, <2>2 DEF IO, Nested
<1>11. CASE fn = "macsec_enable"
  <2>1. Body[fn] = <<IO, Nested("msec_init_dev"), Nested("msec_init_dev")>>
    BY <1>11 DEF Body, macsec_enable
  <2>2. /\ Len(Body[fn]) = 3 /\ Body[fn][1] = IO
        /\ Body[fn][2] = Nested("msec_init_dev") /\ Body[fn][3] = Nested("msec_init_dev")
    BY <2>1
  <2> QED BY <1>11, <2>2 DEF IO, Nested
<1> QED BY <1>1, <1>2, <1>3, <1>4, <1>5, <1>6, <1>7, <1>8, <1>9, <1>10, <1>11, FunctionNames

\* A function that is past its lock has taken it once.
LEMMA PastNesting ==
  ASSUME NEW s \in Seq(Frame), Nests(s)
  PROVE  /\ Len(s) \in Nat
         /\ s = <<>> => Cardinality(Past(s)) = 0
         /\ s # <<>> => Cardinality(Past(s)) = IF s[Len(s)].at > 0 THEN Len(s) ELSE Len(s) - 1
<1> DEFINE n == Len(s)
<1>1. n \in Nat /\ DOMAIN s = 1 .. n /\ \A i \in 1 .. n : s[i] \in Frame
  BY LenProperties, ElementOfSeq
<1>2. \A i \in 1 .. n - 1 : s[i].at > 0
  BY <1>1 DEF Nests, Frame
<1>3. CASE s = <<>>
  <2>1. Past(s) = {}
    BY <1>3 DEF Past
  <2> QED BY <1>1, <1>3, <2>1, FS_EmptySet
<1>4. CASE s # <<>>
  <2>0. n > 0
    BY <1>4, EmptySeq, <1>1
  <2>1. CASE s[n].at > 0
    <3>1. Past(s) = 1 .. n
      BY <1>1, <1>2, <2>0, <2>1 DEF Past
    <3> QED BY <1>1, <1>4, <2>0, <2>1, <3>1, FS_Interval
  <2>2. CASE ~(s[n].at > 0)
    <3>1. Past(s) = 1 .. n - 1
      BY <1>1, <1>2, <2>0, <2>2 DEF Past
    <3>2. Cardinality(1 .. n - 1) = n - 1
      BY <1>1, <2>0, FS_Interval
    <3> QED BY <1>1, <1>4, <2>2, <3>1, <3>2
  <2> QED BY <2>1, <2>2
<1> QED BY <1>1, <1>3, <1>4

\* No more than three functions are on a stack.
LEMMA Shallow ==
  ASSUME NEW s \in Seq(Frame), Nests(s)
  PROVE  Len(s) <= 3
<1>1. Len(s) \in Nat /\ \A i \in 1 .. Len(s) : s[i] \in Frame
  BY LenProperties, ElementOfSeq
<1>2. ASSUME NEW i \in 1 .. Len(s) - 1
      PROVE  /\ s[i].fn \in Nesting /\ s[i + 1].fn \in {"plain", "msec_init_dev"}
             /\ s[i + 1].fn = "msec_init_dev" => s[i].fn = "macsec_enable"
  <2>1. s[i].fn \in Function /\ s[i].at \in 1 .. Len(Body[s[i].fn])
    BY <1>1 DEF Nests, Frame
  <2>2. Body[s[i].fn][s[i].at] = Nested(s[i + 1].fn)
    BY DEF Nests
  <2>3. Body[s[i].fn][s[i].at].op = "call" /\ Body[s[i].fn][s[i].at].fn = s[i + 1].fn
    BY <2>2 DEF Nested
  <2> QED BY <2>1, <2>3, Bodies
<1>3. ASSUME Len(s) > 3 PROVE FALSE
  <2>0. 1 \in 1 .. Len(s) - 1 /\ 2 \in 1 .. Len(s) - 1 /\ 3 \in 1 .. Len(s) - 1
    BY <1>1, <1>3
  <2>1. s[2].fn \in Nesting /\ s[1 + 1].fn \in {"plain", "msec_init_dev"}
    BY <1>2, <2>0
  <2>2. s[3].fn \in Nesting /\ s[2 + 1].fn \in {"plain", "msec_init_dev"}
        /\ (s[2 + 1].fn = "msec_init_dev" => s[2].fn = "macsec_enable")
    BY <1>2, <2>0
  <2>3. s[2].fn = "msec_init_dev"
    BY <2>1 DEF Nesting
  <2> QED BY <2>2, <2>3 DEF Nesting
<1> QED BY <1>1, <1>3

\* How often the functions on a stack have taken the lock.
Taken(s) == IF s = <<>> THEN 0 ELSE IF s[Len(s)].at > 0 THEN Len(s) ELSE Len(s) - 1
Good(s) == s \in Seq(Frame) /\ Nests(s) /\ Inside(s)

LEMMA GoodFacts ==
  ASSUME NEW s, Good(s)
  PROVE  /\ Len(s) \in 0 .. 3 /\ DOMAIN s = 1 .. Len(s)
         /\ s # <<>> => Len(s) > 0
         /\ Taken(s) \in 0 .. 3 /\ Taken(s) <= Len(s)
         /\ Cardinality(Past(s)) = Taken(s)
         /\ \A i \in 1 .. Len(s) : s[i] \in Frame /\ s[i].at <= Len(Body[s[i].fn]) + 1
<1>1. Len(s) \in 0 .. 3 /\ DOMAIN s = 1 .. Len(s) /\ \A i \in 1 .. Len(s) : s[i] \in Frame
  <2>1. s \in Seq(Frame) /\ Nests(s)
    BY DEF Good
  <2>2. Len(s) \in Nat /\ DOMAIN s = 1 .. Len(s) /\ \A i \in 1 .. Len(s) : s[i] \in Frame
    BY <2>1, LenProperties, ElementOfSeq
  <2>3. Len(s) <= 3
    BY <2>1, Shallow
  <2> QED BY <2>2, <2>3
<1>2. s # <<>> => Len(s) > 0
  BY <1>1, EmptySeq DEF Good
<1>3. Cardinality(Past(s)) = Taken(s)
  BY PastNesting DEF Taken, Good
<1> QED BY <1>1, <1>2, <1>3 DEF Taken, Good, Inside

\* The function on top goes on.
LEMMA Moves ==
  ASSUME NEW s, Good(s), s # <<>>, NEW i \in 1 .. Len(Body[s[Len(s)].fn]) + 1
  PROVE  LET s2 == [s EXCEPT ![Len(s)].at = i] IN Good(s2) /\ Taken(s2) = Len(s)
<1> DEFINE n == Len(s)  e == [s[n] EXCEPT !.at = i]  s2 == [s EXCEPT ![n] = e]
<1>1. n \in 1 .. 3 /\ n \in 1 .. n /\ s \in Seq(Frame) /\ s[n] \in Frame
  BY GoodFacts DEF Good
<1>2. Len(Body[s[n].fn]) \in 0 .. 4
  BY <1>1, Bodies DEF Frame
<1>3. e \in Frame /\ e.at = i /\ e.fn = s[n].fn
  <2>1. i \in 0 .. 5
    <3> DEFINE k == Len(Body[s[n].fn])
    <3>1. k \in 0 .. 4 /\ i \in 1 .. k + 1
      BY <1>2
    <3> HIDE DEF k
    <3> QED BY <3>1
  <2>2. \A f \in Frame : [f EXCEPT !.at = i] \in Frame /\ [f EXCEPT !.at = i].at = i
                          /\ [f EXCEPT !.at = i].fn = f.fn
    BY <2>1 DEF Frame
  <2> QED BY <1>1, <2>2
<1> HIDE DEF e
<1>4. s2 \in Seq(Frame) /\ Len(s2) = n /\ \A j \in 1 .. n : s2[j] = IF j = n THEN e ELSE s[j]
  BY <1>1, <1>3, ExceptSeq
<1>5. [s EXCEPT ![Len(s)].at = i] = s2
  BY DEF e
<1> HIDE DEF s2, n
<1>6. Nests(s2)
  <2> SUFFICES ASSUME NEW j \in 1 .. n - 1
               PROVE  s2[j].at \in 1 .. Len(Body[s2[j].fn]) /\ Body[s2[j].fn][s2[j].at] = Nested(s2[j + 1].fn)
    BY <1>4 DEF Nests
  <2>1. s2[j] = s[j] /\ s2[j + 1].fn = s[j + 1].fn
    BY <1>1, <1>3, <1>4
  <2>2. s[j].at \in 1 .. Len(Body[s[j].fn]) /\ Body[s[j].fn][s[j].at] = Nested(s[j + 1].fn)
    BY DEF Good, Nests, n
  <2> QED BY <2>1, <2>2
<1>7. Inside(s2)
  <2> SUFFICES ASSUME NEW j \in 1 .. n PROVE s2[j].at <= Len(Body[s2[j].fn]) + 1
    BY <1>4 DEF Inside
  <2>1. CASE j = n
    <3>1. s2[j].at = i /\ s2[j].fn = s[n].fn
      BY <1>3, <1>4, <2>1
    <3> QED BY <1>2, <3>1 DEF n
  <2>2. CASE j # n
    BY <1>4, <2>2, GoodFacts DEF n
  <2> QED BY <2>1, <2>2
<1>8. Taken(s2) = n
  <2>1. s2 # <<>>
    BY <1>1, <1>4, EmptySeq
  <2>2. s2[n].at = i /\ i > 0
    BY <1>1, <1>2, <1>3, <1>4 DEF n
  <2> QED BY <1>4, <2>1, <2>2 DEF Taken
<1> QED BY <1>4, <1>5, <1>6, <1>7, <1>8 DEF Good, n

\* The function on top calls another.
LEMMA Pushes ==
  ASSUME NEW s, Good(s), s # <<>>,
         s[Len(s)].at \in 1 .. Len(Body[s[Len(s)].fn]),
         Body[s[Len(s)].fn][s[Len(s)].at].op = "call"
  PROVE  LET s2 == Append(s, [fn |-> Body[s[Len(s)].fn][s[Len(s)].at].fn, at |-> 0])
         IN  Good(s2) /\ Taken(s2) = Len(s)
<1> DEFINE n == Len(s)  g == Body[s[n].fn][s[n].at].fn  e == [fn |-> g, at |-> 0]  s2 == Append(s, e)
<1>0. n \in 1 .. 3 /\ n \in 1 .. n /\ s \in Seq(Frame) /\ s[n] \in Frame
  BY GoodFacts DEF Good
<1>1. n \in 1 .. 3 /\ n \in 1 .. n /\ s \in Seq(Frame) /\ s[n] \in Frame /\ s[n].fn \in Function
  BY <1>0 DEF Frame
<1>2. Body[s[n].fn][s[n].at] = Nested(g) /\ g \in {"plain", "msec_init_dev"}
  BY <1>1, Bodies
<1>3. g \in Function /\ Len(Body[g]) \in 0 .. 4
  BY <1>2, FunctionNames, Bodies
<1>4. e \in Frame /\ e.at = 0 /\ e.fn = g
  BY <1>3 DEF Frame
<1> HIDE DEF e, g
<1>5. s2 \in Seq(Frame) /\ Len(s2) = n + 1 /\ (\A j \in 1 .. n : s2[j] = s[j]) /\ s2[n + 1] = e
  BY <1>1, <1>4, AppendProperties
<1> HIDE DEF s2, n
<1>6. Nests(s2)
  <2> SUFFICES ASSUME NEW j \in 1 .. n
               PROVE  s2[j].at \in 1 .. Len(Body[s2[j].fn]) /\ Body[s2[j].fn][s2[j].at] = Nested(s2[j + 1].fn)
    BY <1>1, <1>5 DEF Nests
  <2>1. CASE j = n
    BY <1>2, <1>4, <1>5, <2>1 DEF n
  <2>2. CASE j # n
    <3>1. j \in 1 .. n - 1 /\ s2[j] = s[j] /\ s2[j + 1] = s[j + 1]
      BY <1>1, <1>5, <2>2
    <3>2. s[j].at \in 1 .. Len(Body[s[j].fn]) /\ Body[s[j].fn][s[j].at] = Nested(s[j + 1].fn)
      BY <3>1 DEF Good, Nests, n
    <3> QED BY <3>1, <3>2
  <2> QED BY <2>1, <2>2
<1>7. Inside(s2)
  <2> SUFFICES ASSUME NEW j \in 1 .. n + 1 PROVE s2[j].at <= Len(Body[s2[j].fn]) + 1
    BY <1>5 DEF Inside
  <2>1. CASE j = n + 1
    BY <1>3, <1>4, <1>5, <2>1
  <2>2. CASE j # n + 1
    BY <1>1, <1>5, <2>2, GoodFacts DEF n
  <2> QED BY <2>1, <2>2
<1>8. Taken(s2) = n
  BY <1>1, <1>4, <1>5, EmptySeq DEF Taken
<1> QED BY <1>5, <1>6, <1>7, <1>8 DEF Good, n, s2, e, g

\* The function on top returns: a caller is past its lock.
LEMMA Pops ==
  ASSUME NEW s, Good(s), s # <<>>
  PROVE  LET s2 == SubSeq(s, 1, Len(s) - 1)
         IN  /\ Good(s2) /\ Taken(s2) = Len(s) - 1 /\ Len(s2) = Len(s) - 1
             /\ s2 # <<>> => s2[Len(s2)].at \in 1 .. Len(Body[s2[Len(s2)].fn])
<1> DEFINE n == Len(s)  s2 == SubSeq(s, 1, n - 1)
<1>1. n \in 1 .. 3 /\ s \in Seq(Frame) /\ \A j \in 1 .. n : s[j] \in Frame
  BY GoodFacts DEF Good
<1>2. s2 \in Seq(Frame) /\ Len(s2) = n - 1 /\ \A j \in 1 .. n - 1 : s2[j] = s[j]
  <2> HIDE DEF n
  <2>1. n \in Int /\ 1 \in Int /\ n - 1 \in Int /\ \A j \in 1 .. n - 1 : s[j] \in Frame
    BY <1>1
  <2>2. /\ SubSeq(s, 1, n - 1) \in Seq(Frame)
        /\ Len(SubSeq(s, 1, n - 1)) = IF 1 <= n - 1 THEN n - 1 - 1 + 1 ELSE 0
        /\ \A j \in 1 .. n - 1 - 1 + 1 : SubSeq(s, 1, n - 1)[j] = s[1 + j - 1]
    BY <2>1, SubSeqProperties
  <2> HIDE DEF s2
  <2>3. s2 \in Seq(Frame) /\ Len(s2) = (IF 1 <= n - 1 THEN n - 1 - 1 + 1 ELSE 0)
        /\ \A j \in 1 .. n - 1 - 1 + 1 : s2[j] = s[1 + j - 1]
    BY <2>2 DEF s2
  <2> QED BY <1>1, <2>3
<1> HIDE DEF s2, n
<1>3. Nests(s2)
  <2> SUFFICES ASSUME NEW j \in 1 .. n - 2
               PROVE  s2[j].at \in 1 .. Len(Body[s2[j].fn]) /\ Body[s2[j].fn][s2[j].at] = Nested(s2[j + 1].fn)
    BY <1>1, <1>2 DEF Nests
  <2>1. j \in 1 .. n - 1 /\ s2[j] = s[j] /\ s2[j + 1] = s[j + 1]
    BY <1>1, <1>2
  <2>2. s[j].at \in 1 .. Len(Body[s[j].fn]) /\ Body[s[j].fn][s[j].at] = Nested(s[j + 1].fn)
    BY <2>1 DEF Good, Nests, n
  <2> QED BY <2>1, <2>2
<1>6. Inside(s2)
  <2> SUFFICES ASSUME NEW j \in 1 .. n - 1 PROVE s2[j].at <= Len(Body[s2[j].fn]) + 1
    BY <1>2 DEF Inside
  <2> QED BY <1>1, <1>2, GoodFacts DEF n
<1>4. ASSUME s2 # <<>> PROVE n > 1 /\ s2[n - 1].at \in 1 .. Len(Body[s2[n - 1].fn])
  <2>1. n - 1 \in 1 .. n - 1
    BY <1>1, <1>2, <1>4, EmptySeq
  <2> QED BY <1>2, <2>1 DEF Good, Nests, n
<1>5. Taken(s2) = n - 1
  <2>1. CASE s2 = <<>>
    BY <1>2, <2>1 DEF Taken
  <2>2. CASE s2 # <<>>
    BY <1>1, <1>2, <1>4, <2>2 DEF Taken
  <2> QED BY <2>1, <2>2
<1> QED BY <1>2, <1>3, <1>4, <1>5, <1>6 DEF Good, n, s2

-----------------------------------------------------------------------------
(* ApiLock: the invariant                                                   *)

LockTypes ==
  /\ recursive \in BOOLEAN
  /\ owner \in Callers \cup {Nobody}
  /\ depth \in Nat
  /\ stack \in [Callers -> Seq(Frame)]
  /\ leaks \in [Callers -> 0 .. MaxLeaks]
Stacks == \A t \in Callers : Good(stack[t])
\* LockAccounted, with what is taken instead of a cardinality.
Accounted ==
  /\ owner = Nobody => depth = 0
  /\ owner # Nobody => depth = Taken(stack[owner]) + leaks[owner] /\ depth > 0
  /\ \A t \in Callers : t # owner => Taken(stack[t]) = 0 /\ leaks[t] = 0
LockInv == LockTypes /\ Stacks /\ Accounted

\* Only t's stack changes: its functions have then taken the lock n times.
StackStep(t, n) ==
  \E s : stack' = [stack EXCEPT ![t] = s] /\ Good(s) /\ Taken(s) = n

LEMMA EnterStep ==
  ASSUME LockInv, NEW t \in Callers, NEW fn \in Function, Enter(t, fn)
  PROVE  StackStep(t, 0) /\ Taken(stack[t]) = 0
<1> DEFINE f == [fn |-> fn, at |-> 0]
<1>1. f \in Frame /\ f.at = 0 /\ f.fn = fn
  BY DEF Frame
<1> HIDE DEF f
<1>2. <<f>> \in Seq(Frame) /\ Len(<<f>>) = 1 /\ <<f>>[1] = f
  BY <1>1
<1>3. Good(<<f>>)
  <2>1. Len(Body[fn]) \in 0 .. 4
    BY Bodies
  <2>2. Nests(<<f>>)
    BY <1>2 DEF Nests
  <2>3. Inside(<<f>>)
    BY <1>1, <1>2, <2>1 DEF Inside
  <2> QED BY <1>2, <2>2, <2>3 DEF Good
<1>4. Taken(<<f>>) = 0 /\ Taken(stack[t]) = 0
  BY <1>1, <1>2 DEF Taken, Enter
<1>5. stack' = [stack EXCEPT ![t] = <<f>>]
  BY DEF Enter, f
<1> QED BY <1>3, <1>4, <1>5 DEF StackStep

\* The top of t's stack goes to step i, past its lock.
LEMMA GotoStep ==
  ASSUME LockInv, NEW t \in Callers, stack[t] # <<>>, NEW i \in 1 .. End(t), LockGoto(t, i)
  PROVE  /\ Top(t).at = 0 => StackStep(t, Taken(stack[t]) + 1)
         /\ Top(t).at # 0 => StackStep(t, Taken(stack[t])) /\ Taken(stack[t]) > 0
<1> DEFINE s == stack[t]  s2 == [s EXCEPT ![Len(s)].at = i]
<1>1. Good(s) /\ s # <<>> /\ i \in 1 .. Len(Body[s[Len(s)].fn]) + 1
  BY DEF LockInv, Stacks, End, Top
<1>2. stack' = [stack EXCEPT ![t] = s2]
  BY DEF LockGoto
<1> HIDE DEF s
<1>3. Good(s2) /\ Taken(s2) = Len(s)
  BY <1>1, Moves
<1>4. Len(s) \in 1 .. 3 /\ s[Len(s)] \in Frame
  BY <1>1, GoodFacts
<1>5. Taken(s) = IF s[Len(s)].at = 0 THEN Len(s) - 1 ELSE Len(s)
  BY <1>1, <1>4 DEF Taken, Frame
<1>6. Top(t) = s[Len(s)]
  BY DEF Top, s
<1> HIDE DEF s2
<1>7. Taken(s2) = Taken(s) + (IF Top(t).at = 0 THEN 1 ELSE 0) /\ (Top(t).at # 0 => Taken(s) > 0)
  BY <1>3, <1>4, <1>5, <1>6
<1>8. CASE Top(t).at = 0
  <2>1. Taken(s2) = Taken(s) + 1
    BY <1>7, <1>8
  <2> QED BY <1>2, <1>3, <1>8, <2>1 DEF StackStep, s
<1>9. CASE Top(t).at # 0
  <2>1. Taken(s2) = Taken(s) /\ Taken(s) > 0
    BY <1>3, <1>4, <1>5, <1>6, <1>9
  <2> QED BY <1>2, <1>3, <1>9, <2>1 DEF StackStep, s
<1> QED BY <1>8, <1>9

LEMMA CallStep ==
  ASSUME LockInv, NEW t \in Callers, CallNested(t)
  PROVE  StackStep(t, Taken(stack[t]))
<1> DEFINE s == stack[t]  s2 == Append(s, [fn |-> Body[s[Len(s)].fn][s[Len(s)].at].fn, at |-> 0])
<1>1. Good(s) /\ s # <<>> /\ s[Len(s)].at \in 1 .. Len(Body[s[Len(s)].fn])
      /\ Body[s[Len(s)].fn][s[Len(s)].at].op = "call"
  BY DEF LockInv, Stacks, CallNested, Step, Top
<1>2. stack' = [stack EXCEPT ![t] = s2]
  BY DEF CallNested, Top
<1> HIDE DEF s
<1>3. Good(s2) /\ Taken(s2) = Len(s)
  BY <1>1, Pushes
<1>4. Taken(s) = Len(s)
  <2>1. Len(Body[s[Len(s)].fn]) \in 0 .. 4
    <3>1. Len(s) \in 1 .. Len(s) /\ s[Len(s)] \in Frame
      BY <1>1, GoodFacts
    <3> QED BY <3>1, Bodies DEF Frame
  <2>2. s[Len(s)].at > 0
    BY <1>1, <2>1
  <2> QED BY <1>1, <2>2 DEF Taken
<1> HIDE DEF s2
<1>5. Good(s2) /\ Taken(s2) = Taken(s)
  BY <1>3, <1>4
<1> QED BY <1>2, <1>5 DEF StackStep, s

LEMMA BackStep ==
  ASSUME LockInv, NEW t \in Callers, stack[t] # <<>>, Top(t).at > 0, Back(t)
  PROVE  Taken(stack[t]) > 0 /\ StackStep(t, Taken(stack[t]) - 1)
<1> DEFINE s == stack[t]  r == SubSeq(s, 1, Len(s) - 1)
<1>1. Good(s) /\ s # <<>> /\ s[Len(s)].at > 0
  BY DEF LockInv, Stacks, Top
<1>2. \/ Len(r) = 0 /\ stack' = [stack EXCEPT ![t] = <<>>]
      \/ /\ Len(r) # 0
         /\ \E i \in {r[Len(r)].at + 1, Len(Body[r[Len(r)].fn]) + 1} :
              stack' = [stack EXCEPT ![t] = [r EXCEPT ![Len(r)].at = i]]
  BY DEF Back
<1> HIDE DEF s
<1>4. /\ Good(r) /\ Taken(r) = Len(s) - 1 /\ Len(r) = Len(s) - 1
      /\ r # <<>> => r[Len(r)].at \in 1 .. Len(Body[r[Len(r)].fn])
  BY <1>1, Pops
<1>5. Taken(s) = Len(s) /\ Len(s) \in 1 .. 3
  BY <1>1, GoodFacts DEF Taken
<1>8. Taken(s) > 0
  BY <1>5
<1> HIDE DEF r
<1>6. CASE Len(r) = 0
  <2>1. stack' = [stack EXCEPT ![t] = <<>>]
    BY <1>2, <1>6
  <2>2. r = <<>>
    BY <1>4, <1>6, GoodFacts
  <2>3. Good(<<>>) /\ Taken(<<>>) = Taken(s) - 1
    BY <1>4, <1>5, <2>2
  <2> QED BY <1>8, <2>1, <2>3 DEF StackStep, s
<1>7. CASE Len(r) # 0
  <2>1. PICK i \in {r[Len(r)].at + 1, Len(Body[r[Len(r)].fn]) + 1} :
          stack' = [stack EXCEPT ![t] = [r EXCEPT ![Len(r)].at = i]]
    BY <1>2, <1>7
  <2>2. r # <<>> /\ Len(r) \in 1 .. 3 /\ r[Len(r)] \in Frame
    <3>1. Len(r) \in 0 .. 3 /\ DOMAIN r = 1 .. Len(r) /\ \A j \in 1 .. Len(r) : r[j] \in Frame
      BY <1>4, GoodFacts
    <3>2. r # <<>>
      <4>1. Len(<<>>) = 0
        OBVIOUS
      <4> QED BY <1>7, <4>1
    <3> QED BY <1>7, <3>1, <3>2
  <2>3. i \in 1 .. Len(Body[r[Len(r)].fn]) + 1
    <3>1. Len(Body[r[Len(r)].fn]) \in 0 .. 4
      BY <2>2, Bodies DEF Frame
    <3> DEFINE k == Len(Body[r[Len(r)].fn])  j == r[Len(r)].at
    <3>2. k \in 0 .. 4 /\ j \in 1 .. k /\ i \in {j + 1, k + 1}
      BY <1>4, <2>1, <2>2, <3>1
    <3> HIDE DEF k, j
    <3>3. i \in 1 .. k + 1
      BY <3>2
    <3> QED BY <3>3 DEF k
  <2> DEFINE s2 == [r EXCEPT ![Len(r)].at = i]
  <2>4. Good(s2) /\ Taken(s2) = Len(r)
    BY <1>4, <2>2, <2>3, Moves
  <2>5. stack' = [stack EXCEPT ![t] = s2]
    BY <2>1
  <2> HIDE DEF s2
  <2>6. Good(s2) /\ Taken(s2) = Taken(s) - 1
    BY <1>4, <1>5, <2>4
  <2> QED BY <1>8, <2>5, <2>6 DEF StackStep, s
<1> QED BY <1>6, <1>7

\* What a step of t leaves true of the stacks.
LEMMA StackKept ==
  ASSUME LockInv, NEW t \in Callers, NEW n, StackStep(t, n)
  PROVE  /\ stack' \in [Callers -> Seq(Frame)] /\ Stacks'
         /\ Taken(stack'[t]) = n /\ \A u \in Callers : u # t => stack'[u] = stack[u]
<1>1. PICK s : stack' = [stack EXCEPT ![t] = s] /\ Good(s) /\ Taken(s) = n
  BY DEF StackStep
<1>2. s \in Seq(Frame) /\ stack \in [Callers -> Seq(Frame)]
  BY <1>1 DEF Good, LockInv, LockTypes
<1>3. stack' \in [Callers -> Seq(Frame)] /\ stack'[t] = s /\ \A u \in Callers : u # t => stack'[u] = stack[u]
  BY <1>1, <1>2
<1>4. Stacks'
  BY <1>1, <1>3 DEF Stacks, LockInv
<1> QED BY <1>1, <1>3, <1>4

LEMMA LockInitInv == LockInit => LockInv
<1> SUFFICES ASSUME LockInit PROVE LockInv
  OBVIOUS
<1>1. Good(<<>>) /\ Taken(<<>>) = 0
  BY DEF Good, Nests, Inside, Taken
<1>2. \A t \in Callers : stack[t] = <<>> /\ leaks[t] = 0
  BY DEF LockInit
<1>3. LockTypes
  BY CallerAssumption DEF LockInit, LockTypes
<1>4. Stacks
  BY <1>1, <1>2 DEF Stacks
<1>5. Accounted
  BY <1>1, <1>2 DEF Accounted, LockInit
<1> QED BY <1>3, <1>4, <1>5 DEF LockInv

\* The lock is t's, or t has not taken it.
LEMMA Owns ==
  ASSUME LockInv, NEW t \in Callers
  PROVE  /\ Taken(stack[t]) \in 0 .. 3 /\ leaks[t] \in 0 .. MaxLeaks /\ depth \in Nat /\ MaxLeaks \in Nat
         /\ Taken(stack[t]) > 0 => owner = t
         /\ owner = t => depth = Taken(stack[t]) + leaks[t] /\ depth > 0
         /\ owner # t => Taken(stack[t]) = 0 /\ leaks[t] = 0
<1>1. Taken(stack[t]) \in 0 .. 3
  BY GoodFacts DEF LockInv, Stacks
<1> QED BY <1>1, CallerAssumption DEF LockInv, LockTypes, Accounted

\* A step that takes the lock for none and keeps what t has taken.
LEMMA Unaccounted ==
  ASSUME LockInv, NEW t \in Callers, StackStep(t, Taken(stack[t])),
         UNCHANGED <<recursive, owner, depth, leaks>>
  PROVE  LockInv'
<1>1. /\ stack' \in [Callers -> Seq(Frame)] /\ Stacks'
      /\ Taken(stack'[t]) = Taken(stack[t]) /\ \A u \in Callers : u # t => stack'[u] = stack[u]
  BY StackKept
<1>2. \A u \in Callers : Taken(stack'[u]) = Taken(stack[u])
  BY <1>1
<1>3. LockTypes'
  BY <1>1 DEF LockInv, LockTypes
<1>4. Accounted'
  <2>1. Accounted /\ owner \in Callers \cup {Nobody}
    BY DEF LockInv, LockTypes
  <2> QED BY <1>2, <2>1 DEF Accounted
<1> QED BY <1>1, <1>3, <1>4 DEF LockInv

\* The top of a stack, at a step of its function.
LEMMA AtStep ==
  ASSUME LockInv, NEW t \in Callers, stack[t] # <<>>
  PROVE  /\ End(t) \in 1 .. 5 /\ Top(t).at \in 0 .. End(t)
         /\ Step(t) # "-" => Top(t).at \in 1 .. End(t) - 1
<1> DEFINE s == stack[t]
<1>1. Good(s) /\ s # <<>>
  BY DEF LockInv, Stacks
<1>2. Len(s) \in 1 .. Len(s) /\ s[Len(s)] \in Frame /\ s[Len(s)].at <= Len(Body[s[Len(s)].fn]) + 1
  BY <1>1, GoodFacts
<1>3. Len(Body[s[Len(s)].fn]) \in 0 .. 4 /\ s[Len(s)].at \in 0 .. 5
  BY <1>2, Bodies DEF Frame
<1>4. Top(t) = s[Len(s)] /\ End(t) = Len(Body[s[Len(s)].fn]) + 1
  BY DEF Top, End
<1>5. Step(t) # "-" => Top(t).at \in 1 .. Len(Body[Top(t).fn])
  BY DEF Step
<1> DEFINE k == Len(Body[s[Len(s)].fn])  a == s[Len(s)].at
<1>6. k \in 0 .. 4 /\ a \in 0 .. 5 /\ a <= k + 1 /\ End(t) = k + 1 /\ Top(t).at = a /\ (Step(t) # "-" => a \in 1 .. k)
  BY <1>2, <1>3, <1>4, <1>5
<1> HIDE DEF k, a, s
<1> QED BY <1>6

LEMMA LockInvStep == LockInv /\ [LockNext]_lockVars => LockInv'
<1> SUFFICES ASSUME LockInv, LockNext \/ UNCHANGED lockVars PROVE LockInv'
  OBVIOUS
<1>1. ASSUME NEW t \in Callers, NEW fn \in Function, Enter(t, fn) PROVE LockInv'
  <2>1. StackStep(t, 0) /\ Taken(stack[t]) = 0
    BY <1>1, EnterStep
  <2>2. UNCHANGED <<recursive, owner, depth, leaks>>
    BY <1>1 DEF Enter
  <2> QED BY <2>1, <2>2, Unaccounted
<1>2. ASSUME NEW t \in Callers, Lock(t) PROVE LockInv'
  <2>1. stack[t] # <<>> /\ Top(t).at = 0 /\ 1 \in 1 .. End(t)
    BY <1>2, AtStep DEF Lock, At
  <2>2. StackStep(t, Taken(stack[t]) + 1)
    BY <1>2, <2>1, GotoStep DEF Lock
  <2>3. /\ stack' \in [Callers -> Seq(Frame)] /\ Stacks'
        /\ Taken(stack'[t]) = Taken(stack[t]) + 1 /\ \A u \in Callers : u # t => stack'[u] = stack[u]
    BY <2>2, StackKept
  <2>4. owner' = t /\ depth' = depth + 1 /\ leaks' = leaks /\ recursive' = recursive /\ owner \in {t, Nobody}
    BY <1>2 DEF Lock, MayLock
  <2>5. depth = Taken(stack[t]) + leaks[t]
    <3>1. CASE owner = t
      BY <3>1, Owns
    <3>2. CASE owner = Nobody
      BY <3>2, Owns, CallerAssumption DEF LockInv, Accounted
    <3> QED BY <2>4, <3>1, <3>2
  <2>6. LockTypes'
    BY <2>3, <2>4 DEF LockInv, LockTypes
  <2>7. depth' = Taken(stack'[t]) + leaks'[t] /\ depth' > 0
    BY <2>3, <2>4, <2>5, Owns
  <2>8. ASSUME NEW u \in Callers, u # t PROVE Taken(stack'[u]) = 0 /\ leaks'[u] = 0
    <3>1. owner # u
      BY <2>4, <2>8, CallerAssumption
    <3> QED BY <2>3, <2>4, <2>8, <3>1, Owns
  <2>9. t # Nobody
    BY CallerAssumption
  <2>10. Accounted'
    BY <2>4, <2>7, <2>8, <2>9 DEF Accounted
  <2> QED BY <2>3, <2>6, <2>10 DEF LockInv
<1>3. ASSUME NEW t \in Callers, Access(t) \/ AccessFails(t) PROVE LockInv'
  <2>1. stack[t] # <<>> /\ Step(t) # "-"
    BY <1>3 DEF Access, AccessFails, Step
  <2>2. Top(t).at \in 1 .. End(t) - 1 /\ End(t) \in 1 .. 5
    BY <2>1, AtStep
  <2>3. PICK i \in 1 .. End(t) : LockGoto(t, i)
    <3> DEFINE a == Top(t).at  e == End(t)
    <3>1. LockGoto(t, a + 1) \/ LockGoto(t, e)
      BY <1>3 DEF Access, AccessFails
    <3>2. a \in 1 .. e - 1 /\ e \in 1 .. 5
      BY <2>2
    <3> HIDE DEF a, e
    <3>3. a + 1 \in 1 .. e /\ e \in 1 .. e
      BY <3>2
    <3> QED BY <3>1, <3>3 DEF e
  <2>4. StackStep(t, Taken(stack[t]))
    BY <2>1, <2>2, <2>3, GotoStep
  <2>5. UNCHANGED <<recursive, owner, depth, leaks>>
    BY <1>3 DEF Access, AccessFails
  <2> QED BY <2>4, <2>5, Unaccounted
<1>4. ASSUME NEW t \in Callers, CallNested(t) PROVE LockInv'
  <2>1. StackStep(t, Taken(stack[t]))
    BY <1>4, CallStep
  <2>2. UNCHANGED <<recursive, owner, depth, leaks>>
    BY <1>4 DEF CallNested
  <2> QED BY <2>1, <2>2, Unaccounted
<1>5. ASSUME NEW t \in Callers, ReturnLocked(t) \/ Release(t) PROVE LockInv'
  <2>1. stack[t] # <<>> /\ Top(t).at > 0
    <3>1. stack[t] # <<>> /\ (Step(t) # "-" \/ Top(t).at = End(t))
      BY <1>5 DEF ReturnLocked, Release, Step, At
    <3> QED BY <3>1, AtStep
  <2>2. Taken(stack[t]) > 0 /\ StackStep(t, Taken(stack[t]) - 1)
    BY <1>5, <2>1, BackStep DEF ReturnLocked, Release
  <2>3. /\ stack' \in [Callers -> Seq(Frame)] /\ Stacks'
        /\ Taken(stack'[t]) = Taken(stack[t]) - 1 /\ \A u \in Callers : u # t => stack'[u] = stack[u]
    BY <2>2, StackKept
  <2>4. owner = t /\ depth = Taken(stack[t]) + leaks[t] /\ depth > 0 /\ Taken(stack[t]) \in 1 .. 3
        /\ leaks[t] \in 0 .. MaxLeaks /\ MaxLeaks \in Nat /\ leaks \in [Callers -> 0 .. MaxLeaks]
    BY <2>2, Owns DEF LockInv, LockTypes
  <2>5. \A u \in Callers : u # t => Taken(stack'[u]) = 0 /\ leaks[u] = 0
    BY <2>3, <2>4, Owns
  <2>6. CASE ReturnLocked(t)
    <3>1. leaks' = [leaks EXCEPT ![t] = @ + 1] /\ leaks[t] < MaxLeaks /\ UNCHANGED <<recursive, owner, depth>>
      BY <2>6 DEF ReturnLocked
    <3>2. /\ leaks' \in [Callers -> 0 .. MaxLeaks] /\ leaks'[t] = leaks[t] + 1
          /\ \A u \in Callers : u # t => leaks'[u] = leaks[u]
      BY <2>4, <3>1
    <3>3. LockTypes'
      BY <2>3, <3>1, <3>2 DEF LockInv, LockTypes
    <3>4. depth' = Taken(stack'[t]) + leaks'[t] /\ depth' > 0
      BY <2>3, <2>4, <3>1, <3>2
    <3>5. Accounted'
      BY <2>4, <2>5, <3>1, <3>2, <3>4, CallerAssumption DEF Accounted
    <3> QED BY <2>3, <3>3, <3>5 DEF LockInv
  <2>7. CASE Release(t)
    <3>1. depth' = depth - 1 /\ owner' = (IF depth = 1 THEN Nobody ELSE t) /\ leaks' = leaks /\ recursive' = recursive
      BY <2>4, <2>7 DEF Release
    <3>2. depth' = Taken(stack'[t]) + leaks[t] /\ Taken(stack'[t]) \in 0 .. 3 /\ depth' \in Nat
      BY <2>3, <2>4, <3>1
    <3>3. LockTypes'
      BY <2>3, <3>1, <3>2 DEF LockInv, LockTypes
    <3>4. CASE depth = 1
      <4>1. depth' = 0 /\ Taken(stack'[t]) = 0 /\ leaks[t] = 0
        BY <2>4, <3>1, <3>2, <3>4
      <4>2. Accounted'
        BY <2>5, <3>1, <3>4, <4>1 DEF Accounted
      <4> QED BY <2>3, <3>3, <4>2 DEF LockInv
    <3>5. CASE depth # 1
      <4>1. depth' > 0 /\ owner' = t /\ t # Nobody
        BY <2>4, <3>1, <3>2, <3>5, CallerAssumption
      <4>2. Accounted'
        BY <2>5, <3>1, <3>2, <4>1 DEF Accounted
      <4> QED BY <2>3, <3>3, <4>2 DEF LockInv
    <3> QED BY <3>4, <3>5
  <2> QED BY <1>5, <2>6, <2>7
<1>6. CASE UNCHANGED lockVars
  BY <1>6 DEF lockVars, LockInv, LockTypes, Stacks, Accounted
<1> QED BY <1>1, <1>2, <1>3, <1>4, <1>5, <1>6 DEF LockNext

LEMMA LockInductive == LockSpec => []LockInv
<1> QED BY LockInitInv, LockInvStep, PTL DEF LockSpec

LEMMA LockMeaning == LockInv => LockTypeOK /\ LockAccounted /\ OwnerGoesOn
<1> SUFFICES ASSUME LockInv PROVE LockTypeOK /\ LockAccounted /\ OwnerGoesOn
  OBVIOUS
<1>1. \A t \in Callers : Locked(t) = Taken(stack[t])
  BY GoodFacts DEF Locked, Past, LockInv, Stacks
<1>2. LockTypeOK
  <2>1. depth \in 0 .. 3 + MaxLeaks
    <3>1. CASE owner = Nobody
      BY <3>1, CallerAssumption DEF LockInv, Accounted
    <3>2. CASE owner \in Callers
      BY <3>2, Owns
    <3> QED BY <3>1, <3>2 DEF LockInv, LockTypes
  <2> QED BY <2>1 DEF LockInv, LockTypes, LockTypeOK, Frame
<1>3. LockAccounted
  BY <1>1 DEF LockInv, LockTypes, Accounted, LockAccounted
<1>4. OwnerGoesOn
  <2> SUFFICES ASSUME owner # Nobody, leaks[owner] = 0
               PROVE  stack[owner] # <<>> /\ (At(owner, 0) => stack[owner][1].fn \in Nesting)
    BY DEF OwnerGoesOn, Nesting
  <2> DEFINE s == stack[owner]
  <2>1. owner \in Callers /\ Good(s) /\ Taken(s) > 0
    BY Owns DEF LockInv, LockTypes, Stacks
  <2>2. s # <<>>
    BY <2>1 DEF Taken
  <2>3. ASSUME s[Len(s)].at = 0 PROVE s[1].fn \in Nesting
    <3>1. Len(s) \in 2 .. 3 /\ 1 \in 1 .. Len(s) - 1
      BY <2>1, <2>2, <2>3, GoodFacts DEF Taken
    <3>2. s[1].at \in 1 .. Len(Body[s[1].fn]) /\ Body[s[1].fn][s[1].at] = Nested(s[1 + 1].fn)
      BY <2>1, <3>1 DEF Good, Nests
    <3>3. s[1] \in Frame
      BY <2>1, <3>1, GoodFacts
    <3>4. Body[s[1].fn][s[1].at].op = "call"
      BY <3>2 DEF Nested
    <3> QED BY <3>2, <3>3, <3>4, Bodies DEF Frame
  <2> QED BY <2>2, <2>3 DEF At, Top
<1> QED BY <1>2, <1>3, <1>4

-----------------------------------------------------------------------------
(* ApiLock: the results                                                     *)

\* The types of the state: no more than three functions are in one another, so
\* the depth of the lock is bounded by what has been kept, for any threads.
THEOREM LockTypeCorrect == LockSpec => []LockTypeOK
<1> QED BY LockInductive, LockMeaning, PTL

\* The lock is held as often as the functions on its owner's stack have taken it
\* and kept it, and nobody else is past its lock, for any number of threads.
THEOREM LockIsAccounted == LockSpec => []LockAccounted
<1> QED BY LockInductive, LockMeaning, PTL

\* An owner that has not returned with the lock held is in a function, and waits
\* for itself only in one of the five that call others, with any kind of lock.
THEOREM OwnerAlwaysGoesOn == LockSpec => []OwnerGoesOn
<1> QED BY LockInductive, LockMeaning, PTL

-----------------------------------------------------------------------------
(* The parts together                                                       *)

\* In a behaviour of ApiSpec each part goes its own way: what is proved of a
\* part holds of the whole.
THEOREM PartsAreKept == ApiSpec => Spec /\ LockSpec /\ PtpSpec
<1>1. ApiInit => Init /\ LockInit /\ PtpInit
  BY DEF ApiInit
<1>2. [ApiNext]_<<part, vars, lockVars, ptpVars>> => [Next]_vars /\ [LockNext]_lockVars /\ [PtpNext]_ptpVars
  BY DEF ApiNext, MacsecStep, LockStep, PtpStep
<1> QED BY <1>1, <1>2, PTL DEF ApiSpec, Spec, LockSpec, PtpSpec

\* The types of the three parts together.
THEOREM ApiTypeCorrect == ApiSpec => []ApiTypeOK
<1>1. TypeOK /\ LockTypeOK /\ PtpTypeOK => ApiTypeOK
  BY DEF ApiTypeOK
<1> QED BY <1>1, PartsAreKept, TypeCorrect, LockTypeCorrect, PtpTypeCorrect, PTL
=============================================================================
