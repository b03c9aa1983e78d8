---------------------------- MODULE MacsecSa_proof ----------------------------
(***************************************************************************)
(* MacsecSa for any number of secure associations, words, packets and      *)
(* polls: what is overwritten with zeroes is not in use, what was removed  *)
(* is erased, and the packet number that is read is not too low.           *)
(***************************************************************************)
EXTENDS MacsecSa, SequenceTheorems, TLAPS

ThreadState == [pc : PC, step : 1 .. 8, sa : SAs, word : Word, polls : 0 .. BusyRetry, ok : BOOLEAN,
                sn0 : 0 .. PnBase - 1, sn1 : 0 .. MaxPn, asked : 0 .. MaxPn]
Memory == [SAs -> [Area -> [Word -> BOOLEAN]]]

-----------------------------------------------------------------------------
(* Lemmas about the operators                                               *)

LEMMA ScriptSteps ==
  /\ Len(Script) = 8
  /\ Script[1] = "config_egr_tr" /\ Script[2] = "config_egr_sam_rule" /\ Script[3] = "config_egr_sam_fca"
  /\ Script[4] = "enable" /\ Script[5] = "disable"
  /\ Script[6] = "clear_egr_sam_rule" /\ Script[7] = "clear_egr_sam_fca" /\ Script[8] = "clear_egr_tr"
BY DEF Script

\* The call of a managing thread, by its number.
LEMMA Calls ==
  ASSUME NEW s \in SAs, th[s].step \in 1 .. 8
  PROVE  /\ CallOf(s) \in Clears <=> th[s].step \in {6, 7, 8}
         /\ CallOf(s) \in HidesErrors <=> th[s].step \in {1, 2}
         /\ CallOf(s) = "enable" <=> th[s].step = 4
         /\ CallOf(s) = "disable" <=> th[s].step = 5
         /\ th[s].step \in {1, 8} => AreaOf(CallOf(s)) = "tr" /\ LastWord(CallOf(s)) = TrWords
         /\ th[s].step \in {2, 6} => AreaOf(CallOf(s)) = "rule" /\ LastWord(CallOf(s)) = TrWords
         /\ th[s].step \in {3, 4, 5, 7} => AreaOf(CallOf(s)) = "fca" /\ LastWord(CallOf(s)) = 1
<1>1. CallOf(s) = Script[th[s].step]
  BY ThreadAssumption DEF CallOf
<1>2. th[s].step \in {1, 2, 3, 4, 5, 6, 7, 8}
  OBVIOUS
<1> QED BY <1>1, <1>2, ScriptSteps DEF Clears, HidesErrors, AreaOf, LastWord

LEMMA DivMod ==
  ASSUME NEW p \in Nat, NEW b \in Nat \ {0}
  PROVE  /\ p % b \in 0 .. b - 1
         /\ p \div b \in Nat
         /\ p = (b * (p \div b)) + (p % b)
OBVIOUS

LEMMA DivBelow ==
  ASSUME NEW p \in Nat, NEW b \in Nat \ {0}
  PROVE  p \div b <= p
<1> DEFINE d == p \div b
<1>1. d \in Nat /\ p % b \in Nat /\ p = (b * d) + (p % b)
  BY DivMod
<1> HIDE DEF d
<1>2. b * d >= d
  BY <1>1
<1> QED BY <1>1, <1>2 DEF d

LEMMA DivGrows ==
  ASSUME NEW p \in Nat, NEW q \in Nat, p <= q, NEW b \in Nat \ {0}
  PROVE  b * (p \div b) <= b * (q \div b)
<1> DEFINE d == p \div b  e == q \div b
<1>1. d \in Nat /\ e \in Nat /\ p % b \in 0 .. b - 1 /\ q % b \in 0 .. b - 1
  BY DivMod
<1>2. p = (b * d) + (p % b) /\ q = (b * e) + (q % b)
  BY DivMod
<1> HIDE DEF d, e
<1>3. ASSUME e < d PROVE FALSE
  <2>1. e + 1 <= d
    BY <1>1, <1>3
  <2>2. b * (e + 1) <= b * d
    BY <1>1, <2>1
  <2>3. b * (e + 1) = (b * e) + b
    BY <1>1
  <2>4. b * d \in Nat /\ b * e \in Nat
    BY <1>1
  <2> QED BY <1>1, <1>2, <2>2, <2>3, <2>4
<1>4. d <= e
  BY <1>1, <1>3
<1>5. b * d <= b * e
  BY <1>1, <1>4
<1> QED BY <1>5 DEF d, e

LEMMA ExceptType ==
  ASSUME NEW S, NEW T, NEW f \in [S -> T], NEW w \in S, NEW v \in T
  PROVE  [f EXCEPT ![w] = v] \in [S -> T]
OBVIOUS

-----------------------------------------------------------------------------
(* The invariant                                                            *)

\* The path of a managing thread through its calls, and of the monitor.
Path ==
  /\ \A s \in SAs :
       /\ th[s].sa = s
       /\ th[s].pc \in {"idle", "inflight", "poll", "write", "unlock"}
       /\ th[s].pc \in {"inflight", "poll"} => th[s].step \in {6, 7, 8}
       /\ th[s].pc \in {"idle", "inflight", "poll"} => th[s].word = 1
       /\ th[s].pc # "unlock" \/ th[s].step \in {1, 2} => th[s].ok = TRUE
       /\ th[s].step \in {3, 4, 5, 7} => th[s].word = 1
  /\ th[Monitor].pc \in {"idle", "ccw", "sn0", "sn1", "unlock"}

\* A thread inside an API function has phy->lock (but one that is outside may
\* have kept it).
HoldsLock == \A t \in Threads : th[t].pc # "idle" => lock = t

\* A managing thread has ended its call with success.
Done(s) == th[s].pc = "unlock" /\ th[s].ok
Gone(s, a) == \A w \in Word : ~eip.mem[s][a][w]
\* The words before the one to be written next.
GoneBefore(s, a) == \A w \in Word : w < th[s].word => ~eip.mem[s][a][w]

\* What the calls of a removal have erased so far.
Erased ==
  \A s \in SAs :
    /\ \A w \in Word \ {1} : ~eip.mem[s]["fca"][w]
    /\ th[s].step = 6 /\ th[s].pc = "write" => GoneBefore(s, "rule")
    /\ (th[s].step = 6 /\ Done(s)) \/ th[s].step \in {7, 8} => Gone(s, "rule")
    /\ (th[s].step = 7 /\ Done(s)) \/ th[s].step = 8 => Gone(s, "fca")
    /\ th[s].step = 8 /\ th[s].pc = "write" => GoneBefore(s, "tr")
    /\ th[s].step = 8 /\ Done(s) => Gone(s, "tr")
    /\ th[s].step = 1 /\ th[s].pc = "idle" => Gone(s, "rule") /\ Gone(s, "fca") /\ Gone(s, "tr")

\* Only an SA between its "enable" and its "disable" can be enabled.
Enabled == \A s \in eip.enabled : th[s].step \in {4, 5} /\ ~(th[s].step = 5 /\ Done(s))

\* The unsafe packets are the oldest; what came after LOAD_UNSAFE is not bound
\* to the SA that is being removed.
Flight ==
  /\ Len(traffic.flight) <= MaxFlight /\ traffic.unsafe <= Len(traffic.flight)
  /\ \A s \in SAs :
       /\ th[s].pc = "poll" =>
            \A i \in 1 .. Len(traffic.flight) : i > traffic.unsafe => traffic.flight[i] # s
       /\ th[s].pc = "write" /\ th[s].step \in {6, 7, 8} =>
            \A i \in 1 .. Len(traffic.flight) : traffic.flight[i] # s

\* While the monitor reads, the number grows only.
Monitored ==
  LET m == th[Monitor] IN
  /\ m.pc \in {"ccw", "sn0"} => m.asked <= pn[m.sa]
  /\ m.pc = "sn1" => m.asked <= (PnBase * (pn[m.sa] \div PnBase)) + m.sn0
  /\ m.pc = "unlock" /\ m.ok => m.asked <= (PnBase * m.sn1) + m.sn0

IInv == TypeOK /\ Path /\ HoldsLock /\ Erased /\ Enabled /\ Flight /\ Monitored

LEMMA Types ==
  ASSUME TypeOK
  PROVE  /\ lock \in Threads \cup {NoThread} /\ pn \in [SAs -> 0 .. MaxPn]
         /\ eip \in [mem : Memory, enabled : SUBSET SAs]
         /\ traffic \in [flight : Seq(SAs), unsafe : 0 .. MaxFlight]
         /\ th \in [Threads -> ThreadState]
         /\ Monitor \in Threads /\ SAs \subseteq Threads /\ Monitor \notin SAs
BY ScriptSteps, ThreadAssumption DEF TypeOK, Memory, ThreadState, Threads

LEMMA StartedType == ASSUME NEW s \in SAs PROVE Started(s) \in ThreadState
BY SizeAssumption, BoundAssumption DEF Started, ThreadState, PC, Word

LEMMA InitInv == Init => IInv
<1> SUFFICES ASSUME Init PROVE IInv
  OBVIOUS
<1>0. /\ th \in [Threads -> {Started(s) : s \in SAs}] /\ \A s \in SAs : th[s].sa = s
      /\ lock = NoThread /\ pn = [s \in SAs |-> 0] /\ traffic = [flight |-> <<>>, unsafe |-> 0]
      /\ eip = [mem |-> [s \in SAs |-> [a \in Area |-> [w \in Word |-> FALSE]]], enabled |-> {}]
  BY DEF Init
<1>1. \A t \in Threads :
        /\ th[t] \in ThreadState
        /\ th[t].pc = "idle" /\ th[t].step = 1 /\ th[t].word = 1 /\ th[t].ok = TRUE
  <2> TAKE t \in Threads
  <2>1. PICK s \in SAs : th[t] = Started(s)
    BY <1>0
  <2> QED BY <2>1, StartedType DEF Started
<1>2. TypeOK
  <2>1. th \in [Threads -> ThreadState]
    BY <1>0, <1>1
  <2>2. eip \in [mem : Memory, enabled : SUBSET SAs]
    BY <1>0 DEF Memory
  <2>3. traffic \in [flight : Seq(SAs), unsafe : 0 .. MaxFlight] /\ pn \in [SAs -> 0 .. MaxPn]
    BY <1>0, BoundAssumption
  <2> QED BY <1>0, <2>1, <2>2, <2>3, ScriptSteps DEF TypeOK, ThreadState, Memory
<1>3. Path /\ HoldsLock /\ Enabled /\ Monitored
  BY <1>0, <1>1 DEF Path, HoldsLock, Enabled, Monitored, Threads
<1>4. Erased
  BY <1>0, <1>1 DEF Erased, Gone, Done, Threads, Area
<1>5. Flight
  BY <1>0, <1>1, BoundAssumption DEF Flight, Threads
<1> QED BY <1>2, <1>3, <1>4, <1>5 DEF IInv

-----------------------------------------------------------------------------
(* Types                                                                    *)

\* The thread takes one step: what the steps do to its record.
SaStep(s) ==
  \/ Call(s) \/ LoadUnsafe(s) \/ PollUnsafe(s) \/ PollSafe(s) \/ InFlightTimeout(s)
  \/ WriteWord(s) \/ WriteEnable(s)
MonitorStep == (\E s \in SAs : AskPn(s)) \/ ReadCcw \/ ReadCcwUnknown \/ ReadSn0 \/ ReadSn1
EndStep(t) == Fail(t) \/ Unlock(t)
EngineStep == (\E s \in SAs : PacketEnters(s)) \/ PacketLeaves

LEMMA NextSteps ==
  [Next]_vars => \/ \E s \in SAs : SaStep(s)
                 \/ MonitorStep
                 \/ \E t \in Threads : EndStep(t)
                 \/ EngineStep
                 \/ UNCHANGED vars
BY DEF Next, SaStep, MonitorStep, EndStep, EngineStep

LEMMA SaStepType ==
  ASSUME TypeOK, NEW s \in SAs, SaStep(s)
  PROVE  th' \in [Threads -> ThreadState] /\ \A t \in Threads \ {s} : th'[t] = th[t]
<1>0. th \in [Threads -> ThreadState] /\ s \in Threads /\ th[s] \in ThreadState
  BY Types
<1>1. ASSUME NEW x \in ThreadState, th' = [th EXCEPT ![s] = x]
      PROVE  th' \in [Threads -> ThreadState] /\ \A t \in Threads \ {s} : th'[t] = th[t]
  BY <1>0, <1>1
<1>2. ASSUME NEW pc \in PC, NEW w \in Word, NEW n \in 0 .. BusyRetry, NEW ok \in BOOLEAN
      PROVE  [th[s] EXCEPT !.pc = pc, !.word = w, !.polls = n, !.ok = ok] \in ThreadState
  BY <1>0 DEF ThreadState
<1>3. /\ th[s].pc \in PC /\ th[s].word \in Word /\ th[s].polls \in 0 .. BusyRetry
      /\ th[s].ok \in BOOLEAN
  BY <1>0 DEF ThreadState
<1>4. CASE Call(s)
  <2>1. PICK pc \in PC : th' = [th EXCEPT ![s].pc = pc]
    BY <1>4 DEF Call, Goto, PC
  <2>2. th' = [th EXCEPT ![s] = [th[s] EXCEPT !.pc = pc]] /\ [th[s] EXCEPT !.pc = pc] \in ThreadState
    BY <1>0, <2>1 DEF ThreadState
  <2> QED BY <1>1, <2>2
<1>5. CASE LoadUnsafe(s)
  <2>1. BusyRetry \in 0 .. BusyRetry /\ "poll" \in PC
    BY BoundAssumption DEF PC
  <2>2. [th[s] EXCEPT !.pc = "poll", !.polls = BusyRetry] \in ThreadState
    BY <1>0, <2>1 DEF ThreadState
  <2>3. th' = [th EXCEPT ![s] = [th[s] EXCEPT !.pc = "poll", !.polls = BusyRetry]]
    BY <1>0, <1>5 DEF LoadUnsafe
  <2> QED BY <1>1, <2>2, <2>3
<1>6. CASE PollUnsafe(s)
  <2>1. th[s].polls - 1 \in 0 .. BusyRetry
    BY <1>3, <1>6, BoundAssumption DEF PollUnsafe
  <2>2. [th[s] EXCEPT !.polls = th[s].polls - 1] \in ThreadState
    BY <1>0, <2>1 DEF ThreadState
  <2>3. th' = [th EXCEPT ![s] = [th[s] EXCEPT !.polls = th[s].polls - 1]]
    BY <1>0, <1>6 DEF PollUnsafe
  <2> QED BY <1>1, <2>2, <2>3
<1>7. CASE PollSafe(s)
  <2>1. 0 \in 0 .. BusyRetry /\ "write" \in PC
    BY BoundAssumption DEF PC
  <2>2. [th[s] EXCEPT !.pc = "write", !.polls = 0] \in ThreadState
    BY <1>0, <2>1 DEF ThreadState
  <2>3. th' = [th EXCEPT ![s] = [th[s] EXCEPT !.pc = "write", !.polls = 0]]
    BY <1>0, <1>7 DEF PollSafe
  <2> QED BY <1>1, <2>2, <2>3
<1>8. CASE InFlightTimeout(s)
  <2>1. [th[s] EXCEPT !.pc = "unlock", !.ok = FALSE] \in ThreadState
    BY <1>0 DEF ThreadState, PC
  <2>2. th' = [th EXCEPT ![s] = [th[s] EXCEPT !.pc = "unlock", !.ok = FALSE]]
    BY <1>0, <1>8 DEF InFlightTimeout
  <2> QED BY <1>1, <2>1, <2>2
<1>9. CASE WriteWord(s)
  <2> DEFINE last == th[s].word >= LastWord(CallOf(s))
             pc == IF last THEN "unlock" ELSE "write"
             w == IF last THEN th[s].word ELSE th[s].word + 1
  <2>0. LastWord(CallOf(s)) \in Word
    BY SizeAssumption DEF LastWord, Word
  <2>1. pc \in PC /\ w \in Word
    BY <1>3, <2>0, SizeAssumption DEF PC, Word
  <2>2. th' = [th EXCEPT ![s] = [th[s] EXCEPT !.pc = pc, !.word = w]]
    BY <1>0, <1>9 DEF WriteWord
  <2> HIDE DEF pc, w
  <2>3. [th[s] EXCEPT !.pc = pc, !.word = w] \in ThreadState
    BY <1>0, <2>1 DEF ThreadState
  <2> QED BY <1>1, <2>2, <2>3
<1>10. CASE WriteEnable(s)
  <2>1. [th[s] EXCEPT !.pc = "unlock"] \in ThreadState
    BY <1>0 DEF ThreadState, PC
  <2>2. th' = [th EXCEPT ![s] = [th[s] EXCEPT !.pc = "unlock"]]
    BY <1>0, <1>10 DEF WriteEnable, Goto
  <2> QED BY <1>1, <2>1, <2>2
<1> QED BY <1>4, <1>5, <1>6, <1>7, <1>8, <1>9, <1>10 DEF SaStep

LEMMA MonitorStepType ==
  ASSUME TypeOK, MonitorStep
  PROVE  th' \in [Threads -> ThreadState] /\ \A s \in SAs : th'[s] = th[s]
<1> DEFINE M == th[Monitor]
<1>0. /\ th \in [Threads -> ThreadState] /\ Monitor \in Threads /\ M \in ThreadState
      /\ SAs \subseteq Threads /\ Monitor \notin SAs
  BY Types
<1>1. ASSUME NEW x \in ThreadState, th' = [th EXCEPT ![Monitor] = x]
      PROVE  th' \in [Threads -> ThreadState] /\ \A s \in SAs : th'[s] = th[s]
  BY <1>0, <1>1
<1>2. pn \in [SAs -> 0 .. MaxPn] /\ M.sa \in SAs
  BY <1>0, Types DEF ThreadState
<1>3. CASE \E s \in SAs : AskPn(s)
  <2>1. PICK s \in SAs : AskPn(s)
    BY <1>3
  <2>2. th' = [th EXCEPT ![Monitor] = [M EXCEPT !.pc = "ccw", !.sa = s, !.asked = pn[s]]]
    BY <1>0, <2>1 DEF AskPn
  <2>3. [M EXCEPT !.pc = "ccw", !.sa = s, !.asked = pn[s]] \in ThreadState
    BY <1>0, <1>2 DEF ThreadState, PC
  <2> QED BY <1>1, <2>2, <2>3
<1>4. CASE ReadCcw
  <2>1. th' = [th EXCEPT ![Monitor] = [M EXCEPT !.pc = "sn0"]] /\ [M EXCEPT !.pc = "sn0"] \in ThreadState
    BY <1>0, <1>4 DEF ReadCcw, Goto, ThreadState, PC
  <2> QED BY <1>1, <2>1
<1>5. CASE ReadCcwUnknown
  BY <1>1, <1>2, <1>5, StartedType DEF ReadCcwUnknown
<1>6. CASE ReadSn0
  <2> DEFINE v == pn[M.sa] % PnBase
  <2>1. v \in 0 .. PnBase - 1
    <3>1. pn[M.sa] \in Nat /\ PnBase \in Nat \ {0}
      BY <1>2, SizeAssumption, BoundAssumption
    <3> QED BY <3>1, DivMod
  <2>2. th' = [th EXCEPT ![Monitor] = [M EXCEPT !.pc = "sn1", !.sn0 = v]]
    BY <1>0, <1>6 DEF ReadSn0
  <2> HIDE DEF v
  <2>3. [M EXCEPT !.pc = "sn1", !.sn0 = v] \in ThreadState
    BY <1>0, <2>1 DEF ThreadState, PC
  <2> QED BY <1>1, <2>2, <2>3
<1>7. CASE ReadSn1
  <2> DEFINE v == pn[M.sa] \div PnBase
  <2>1. v \in 0 .. MaxPn
    <3>1. pn[M.sa] \in Nat /\ PnBase \in Nat \ {0} /\ pn[M.sa] <= MaxPn
      BY <1>2, SizeAssumption, BoundAssumption
    <3>2. v \in Nat /\ v <= pn[M.sa]
      BY <3>1, DivMod, DivBelow
    <3> HIDE DEF v
    <3> QED BY <3>1, <3>2, BoundAssumption
  <2>2. th' = [th EXCEPT ![Monitor] = [M EXCEPT !.pc = "unlock", !.sn1 = v]]
    BY <1>0, <1>7 DEF ReadSn1
  <2> HIDE DEF v
  <2>3. [M EXCEPT !.pc = "unlock", !.sn1 = v] \in ThreadState
    BY <1>0, <2>1 DEF ThreadState, PC
  <2> QED BY <1>1, <2>2, <2>3
<1> QED BY <1>3, <1>4, <1>5, <1>6, <1>7 DEF MonitorStep

LEMMA EndStepType ==
  ASSUME TypeOK, NEW t \in Threads, EndStep(t)
  PROVE  th' \in [Threads -> ThreadState] /\ \A u \in Threads \ {t} : th'[u] = th[u]
<1>0. th \in [Threads -> ThreadState] /\ th[t] \in ThreadState
  BY Types
<1>1. ASSUME NEW x \in ThreadState, th' = [th EXCEPT ![t] = x]
      PROVE  th' \in [Threads -> ThreadState] /\ \A u \in Threads \ {t} : th'[u] = th[u]
  BY <1>0, <1>1
<1>2. CASE Fail(t)
  <2> DEFINE ok == CallOf(t) \in HidesErrors
  <2>1. ok \in BOOLEAN
    OBVIOUS
  <2>2. th' = [th EXCEPT ![t] = [th[t] EXCEPT !.pc = "unlock", !.ok = ok]]
    BY <1>0, <1>2 DEF Fail
  <2> HIDE DEF ok
  <2>3. [th[t] EXCEPT !.pc = "unlock", !.ok = ok] \in ThreadState
    BY <1>0, <2>1 DEF ThreadState, PC
  <2> QED BY <1>1, <2>2, <2>3
<1>3. CASE Unlock(t)
  <2>1. NextStep(t) \in 1 .. 8
    BY <1>0, ScriptSteps DEF NextStep, ThreadState
  <2>2. Started(th[t].sa) \in ThreadState
    BY <1>0, StartedType DEF ThreadState
  <2>3. [Started(th[t].sa) EXCEPT !.step = NextStep(t)] \in ThreadState
    BY <2>1, <2>2 DEF ThreadState
  <2> QED BY <1>1, <1>3, <2>3 DEF Unlock
<1> QED BY <1>2, <1>3 DEF EndStep

LEMMA TypeStep == TypeOK /\ Path /\ Flight /\ [Next]_vars => TypeOK'
<1> SUFFICES ASSUME TypeOK, Path, Flight, [Next]_vars PROVE TypeOK'
  OBVIOUS
<1>0. /\ lock \in Threads \cup {NoThread} /\ pn \in [SAs -> 0 .. MaxPn]
      /\ eip \in [mem : Memory, enabled : SUBSET SAs]
      /\ traffic \in [flight : Seq(SAs), unsafe : 0 .. MaxFlight]
      /\ th \in [Threads -> ThreadState]
      /\ Monitor \in Threads /\ SAs \subseteq Threads
  BY Types
<1>1. ASSUME th' \in [Threads -> ThreadState], lock' \in Threads \cup {NoThread}, pn' \in [SAs -> 0 .. MaxPn],
             eip' \in [mem : Memory, enabled : SUBSET SAs],
             traffic' \in [flight : Seq(SAs), unsafe : 0 .. MaxFlight]
      PROVE  TypeOK'
  BY <1>1, ScriptSteps DEF TypeOK, ThreadState, Memory
<1>2. ASSUME NEW s \in SAs, SaStep(s) PROVE TypeOK'
  <2>1. th' \in [Threads -> ThreadState]
    BY <1>2, SaStepType
  <2>2. lock' \in Threads \cup {NoThread}
    BY <1>0, <1>2 DEF SaStep, Call, LoadUnsafe, PollUnsafe, PollSafe, InFlightTimeout, WriteWord, WriteEnable
  <2>3. pn' \in [SAs -> 0 .. MaxPn]
    BY <1>0, <1>2, BoundAssumption DEF SaStep, Call, LoadUnsafe, PollUnsafe, PollSafe, InFlightTimeout,
       WriteWord, WriteEnable
  <2>4. eip' \in [mem : Memory, enabled : SUBSET SAs]
    <3>1. CASE WriteWord(s)
      <4> DEFINE a == AreaOf(CallOf(s))  v == CallOf(s) \notin Clears
      <4>1. a \in Area /\ v \in BOOLEAN
        BY DEF AreaOf, Area
      <4>2. eip' = [eip EXCEPT !.mem = [eip.mem EXCEPT ![s] = [eip.mem[s] EXCEPT ![a] =
                     [eip.mem[s][a] EXCEPT ![th[s].word] = v]]]]
        BY <1>0, <3>1 DEF WriteWord, Memory
      <4> HIDE DEF a, v
      <4>3. [eip.mem[s][a] EXCEPT ![th[s].word] = v] \in [Word -> BOOLEAN]
        <5>1. eip.mem[s][a] \in [Word -> BOOLEAN] /\ th[s].word \in Word
          <6>1. eip.mem \in Memory /\ s \in Threads
            BY <1>0
          <6>2. th[s] \in ThreadState
            BY <1>0, <6>1
          <6>3. th[s].word \in Word
            BY <6>2 DEF ThreadState
          <6>4. eip.mem[s] \in [Area -> [Word -> BOOLEAN]]
            BY <6>1 DEF Memory
          <6> QED BY <4>1, <6>3, <6>4
        <5> QED BY <4>1, <5>1, ExceptType
      <4>4. [eip.mem EXCEPT ![s] = [eip.mem[s] EXCEPT ![a] = [eip.mem[s][a] EXCEPT ![th[s].word] = v]]] \in Memory
        BY <1>0, <4>1, <4>3 DEF Memory
      <4> QED BY <1>0, <4>2, <4>4
    <3>2. CASE WriteEnable(s)
      <4>1. PICK E \in SUBSET SAs : eip' = [eip EXCEPT !.enabled = E]
        <5>1. eip.enabled \cup {s} \in SUBSET SAs /\ eip.enabled \ {s} \in SUBSET SAs
          BY <1>0
        <5> QED BY <3>2, <5>1 DEF WriteEnable
      <4> QED BY <1>0, <4>1
    <3>3. CASE UNCHANGED eip
      BY <1>0, <3>3
    <3> QED BY <1>2, <3>1, <3>2, <3>3 DEF SaStep, Call, LoadUnsafe, PollUnsafe, PollSafe, InFlightTimeout
  <2>5. traffic' \in [flight : Seq(SAs), unsafe : 0 .. MaxFlight]
    <3>1. Len(traffic.flight) \in 0 .. MaxFlight
      BY <1>0, BoundAssumption DEF Flight
    <3>2. CASE LoadUnsafe(s)
      <4>1. traffic' = [flight |-> traffic.flight, unsafe |-> Len(traffic.flight)]
        BY <1>0, <3>2 DEF LoadUnsafe
      <4> QED BY <1>0, <3>1, <4>1
    <3>3. CASE UNCHANGED traffic
      BY <1>0, <3>3
    <3> QED BY <1>2, <3>2, <3>3 DEF SaStep, Call, PollUnsafe, PollSafe, InFlightTimeout,
               WriteWord, WriteEnable
  <2> QED BY <1>1, <2>1, <2>2, <2>3, <2>4, <2>5
<1>3. CASE MonitorStep
  <2>1. th' \in [Threads -> ThreadState]
    BY <1>3, MonitorStepType
  <2> QED BY <1>0, <1>1, <1>3, <2>1 DEF MonitorStep, AskPn, ReadCcw, ReadCcwUnknown, ReadSn0, ReadSn1
<1>4. ASSUME NEW t \in Threads, EndStep(t) PROVE TypeOK'
  <2>1. th' \in [Threads -> ThreadState]
    BY <1>4, EndStepType
  <2> QED BY <1>0, <1>1, <1>4, <2>1 DEF EndStep, Fail, Unlock
<1>5. CASE EngineStep
  <2>1. CASE \E s \in SAs : PacketEnters(s)
    <3>1. PICK s \in SAs : PacketEnters(s)
      BY <2>1
    <3>2. Append(traffic.flight, s) \in Seq(SAs)
      BY <1>0
    <3> QED BY <1>0, <1>1, <3>1, <3>2 DEF PacketEnters
  <2>2. CASE PacketLeaves
    <3>1. traffic.flight # <<>> /\ traffic.flight \in Seq(SAs)
      BY <1>0, <2>2 DEF PacketLeaves
    <3>2. Tail(traffic.flight) \in Seq(SAs) /\ Head(traffic.flight) \in SAs
      BY <3>1
    <3>3. traffic' \in [flight : Seq(SAs), unsafe : 0 .. MaxFlight]
      <4> DEFINE u == IF traffic.unsafe = 0 THEN 0 ELSE traffic.unsafe - 1
      <4>1. u \in 0 .. MaxFlight
        BY <1>0, BoundAssumption
      <4>2. traffic' = [flight |-> Tail(traffic.flight), unsafe |-> u]
        BY <2>2 DEF PacketLeaves
      <4> HIDE DEF u
      <4> QED BY <3>2, <4>1, <4>2
    <3>4. pn' \in [SAs -> 0 .. MaxPn]
      BY <1>0, <2>2, <3>2, BoundAssumption DEF PacketLeaves
    <3> QED BY <1>0, <1>1, <2>2, <3>3, <3>4 DEF PacketLeaves
  <2> QED BY <1>5, <2>1, <2>2 DEF EngineStep
<1>6. CASE UNCHANGED vars
  BY <1>0, <1>1, <1>6 DEF vars
<1> QED BY <1>2, <1>3, <1>4, <1>5, <1>6, NextSteps

-----------------------------------------------------------------------------
(* The path of the threads and phy->lock                                    *)

\* What a thread's record is after one of its steps.
LEMMA SaMoves ==
  ASSUME TypeOK, NEW s \in SAs
  PROVE  /\ Call(s) => /\ th'[s].pc = IF CallOf(s) \in Clears THEN "inflight" ELSE "write"
                       /\ th'[s].step = th[s].step /\ th'[s].sa = th[s].sa
                       /\ th'[s].word = th[s].word /\ th'[s].ok = th[s].ok
         /\ LoadUnsafe(s) => /\ th'[s].pc = "poll"
                             /\ th'[s].step = th[s].step /\ th'[s].sa = th[s].sa
                             /\ th'[s].word = th[s].word /\ th'[s].ok = th[s].ok
         /\ PollUnsafe(s) => /\ th'[s].pc = th[s].pc
                             /\ th'[s].step = th[s].step /\ th'[s].sa = th[s].sa
                             /\ th'[s].word = th[s].word /\ th'[s].ok = th[s].ok
         /\ PollSafe(s) => /\ th'[s].pc = "write"
                           /\ th'[s].step = th[s].step /\ th'[s].sa = th[s].sa
                           /\ th'[s].word = th[s].word /\ th'[s].ok = th[s].ok
         /\ InFlightTimeout(s) => /\ th'[s].pc = "unlock"
                                  /\ th'[s].step = th[s].step /\ th'[s].sa = th[s].sa
                                  /\ th'[s].word = th[s].word /\ th'[s].ok = FALSE
         /\ WriteWord(s) => /\ th'[s].pc = IF th[s].word >= LastWord(CallOf(s)) THEN "unlock" ELSE "write"
                            /\ th'[s].step = th[s].step /\ th'[s].sa = th[s].sa
                            /\ th'[s].word = IF th[s].word >= LastWord(CallOf(s)) THEN th[s].word
                                             ELSE th[s].word + 1
                            /\ th'[s].ok = th[s].ok
         /\ WriteEnable(s) => /\ th'[s].pc = "unlock"
                              /\ th'[s].step = th[s].step /\ th'[s].sa = th[s].sa
                              /\ th'[s].word = th[s].word /\ th'[s].ok = th[s].ok
<1>0. th \in [Threads -> ThreadState] /\ s \in Threads /\ th[s] \in ThreadState
  BY Types
<1>1. Call(s) => /\ th'[s].pc = IF CallOf(s) \in Clears THEN "inflight" ELSE "write"
                 /\ th'[s].step = th[s].step /\ th'[s].sa = th[s].sa
                 /\ th'[s].word = th[s].word /\ th'[s].ok = th[s].ok
  BY <1>0 DEF Call, Goto, ThreadState
<1>2. LoadUnsafe(s) => /\ th'[s].pc = "poll"
                       /\ th'[s].step = th[s].step /\ th'[s].sa = th[s].sa
                       /\ th'[s].word = th[s].word /\ th'[s].ok = th[s].ok
  BY <1>0 DEF LoadUnsafe, ThreadState
<1>3. PollUnsafe(s) => /\ th'[s].pc = th[s].pc
                       /\ th'[s].step = th[s].step /\ th'[s].sa = th[s].sa
                       /\ th'[s].word = th[s].word /\ th'[s].ok = th[s].ok
  BY <1>0 DEF PollUnsafe, ThreadState
<1>4. PollSafe(s) => /\ th'[s].pc = "write"
                     /\ th'[s].step = th[s].step /\ th'[s].sa = th[s].sa
                     /\ th'[s].word = th[s].word /\ th'[s].ok = th[s].ok
  BY <1>0 DEF PollSafe, ThreadState
<1>5. InFlightTimeout(s) => /\ th'[s].pc = "unlock"
                            /\ th'[s].step = th[s].step /\ th'[s].sa = th[s].sa
                            /\ th'[s].word = th[s].word /\ th'[s].ok = FALSE
  BY <1>0 DEF InFlightTimeout, ThreadState
<1>6. WriteWord(s) => /\ th'[s].pc = IF th[s].word >= LastWord(CallOf(s)) THEN "unlock" ELSE "write"
                      /\ th'[s].step = th[s].step /\ th'[s].sa = th[s].sa
                      /\ th'[s].word = IF th[s].word >= LastWord(CallOf(s)) THEN th[s].word
                                       ELSE th[s].word + 1
                      /\ th'[s].ok = th[s].ok
  BY <1>0 DEF WriteWord, ThreadState
<1>7. WriteEnable(s) => /\ th'[s].pc = "unlock"
                        /\ th'[s].step = th[s].step /\ th'[s].sa = th[s].sa
                        /\ th'[s].word = th[s].word /\ th'[s].ok = th[s].ok
  BY <1>0 DEF WriteEnable, Goto, ThreadState
<1> QED BY <1>1, <1>2, <1>3, <1>4, <1>5, <1>6, <1>7

LEMMA EndMoves ==
  ASSUME TypeOK, NEW t \in Threads
  PROVE  /\ Fail(t) => /\ th'[t].pc = "unlock" /\ th'[t].ok = (CallOf(t) \in HidesErrors)
                       /\ th'[t].step = th[t].step /\ th'[t].sa = th[t].sa
                       /\ th'[t].word = th[t].word
         /\ Unlock(t) => /\ th'[t].pc = "idle" /\ th'[t].step = NextStep(t) /\ th'[t].sa = th[t].sa
                         /\ th'[t].word = 1 /\ th'[t].ok = TRUE
<1>0. th \in [Threads -> ThreadState] /\ th[t] \in ThreadState
  BY Types
<1>1. Fail(t) => /\ th'[t].pc = "unlock" /\ th'[t].ok = (CallOf(t) \in HidesErrors)
                 /\ th'[t].step = th[t].step /\ th'[t].sa = th[t].sa
                 /\ th'[t].word = th[t].word
  BY <1>0 DEF Fail, ThreadState
<1>2. Unlock(t) => /\ th'[t].pc = "idle" /\ th'[t].step = NextStep(t) /\ th'[t].sa = th[t].sa
                   /\ th'[t].word = 1 /\ th'[t].ok = TRUE
  BY <1>0 DEF Unlock, Started
<1> QED BY <1>1, <1>2

LEMMA PathStep == TypeOK /\ Path /\ [Next]_vars => Path'
<1> SUFFICES ASSUME TypeOK, Path, [Next]_vars PROVE Path'
  OBVIOUS
<1>0. /\ th \in [Threads -> ThreadState]
      /\ Monitor \in Threads /\ SAs \subseteq Threads /\ Monitor \notin SAs
  BY Types
<1> DEFINE P(s) ==
      /\ th[s].sa = s
      /\ th[s].pc \in {"idle", "inflight", "poll", "write", "unlock"}
      /\ th[s].pc \in {"inflight", "poll"} => th[s].step \in {6, 7, 8}
      /\ th[s].pc \in {"idle", "inflight", "poll"} => th[s].word = 1
      /\ th[s].pc # "unlock" \/ th[s].step \in {1, 2} => th[s].ok = TRUE
      /\ th[s].step \in {3, 4, 5, 7} => th[s].word = 1
    M == th[Monitor].pc \in {"idle", "ccw", "sn0", "sn1", "unlock"}
<1>1. \A s \in SAs : P(s)
  BY DEF Path
<1>2. M
  BY DEF Path
<1>3. ASSUME NEW s \in SAs, th'[s] = th[s] PROVE P(s)'
  BY <1>1, <1>3
<1>4. ASSUME th'[Monitor] = th[Monitor] PROVE M'
  BY <1>2, <1>4
<1>5. ASSUME NEW s \in SAs
      PROVE  th[s] \in ThreadState /\ th[s].step \in 1 .. 8 /\ th[s].word \in Word
  <2>1. th[s] \in ThreadState
    BY <1>0
  <2> QED BY <2>1 DEF ThreadState
<1>6. ASSUME NEW s \in SAs, SaStep(s) PROVE Path'
  <2>1. \A t \in Threads \ {s} : th'[t] = th[t]
    BY <1>6, SaStepType
  <2>2. P(s)
    BY <1>1
  <2>7. P(s)'
    <3>1. CASE Call(s)
      <4>1. /\ th'[s].pc = IF CallOf(s) \in Clears THEN "inflight" ELSE "write"
            /\ th'[s].step = th[s].step /\ th'[s].sa = th[s].sa
            /\ th'[s].word = th[s].word /\ th'[s].ok = th[s].ok
        BY <3>1, SaMoves
      <4>2. CallOf(s) \in Clears => th[s].step \in {6, 7, 8}
        BY <1>5, Calls
      <4>3. th[s].pc = "idle"
        BY <3>1 DEF Call, Free
      <4>4. th'[s].pc \in {"inflight", "write"}
        BY <4>1
      <4> QED BY <2>2, <4>1, <4>2, <4>3, <4>4
    <3>2. CASE LoadUnsafe(s)
      BY <2>2, <3>2, SaMoves DEF LoadUnsafe
    <3>3. CASE PollUnsafe(s)
      BY <2>2, <3>3, SaMoves DEF PollUnsafe
    <3>4. CASE PollSafe(s)
      BY <2>2, <3>4, SaMoves DEF PollSafe
    <3>5. CASE InFlightTimeout(s)
      <4>1. /\ th'[s].pc = "unlock"
            /\ th'[s].step = th[s].step /\ th'[s].sa = th[s].sa
            /\ th'[s].word = th[s].word /\ th'[s].ok = FALSE
        BY <3>5, SaMoves
      <4>2. th[s].pc = "poll"
        BY <3>5 DEF InFlightTimeout
      <4> QED BY <2>2, <4>1, <4>2
    <3>6. CASE WriteWord(s)
      <4> DEFINE last == th[s].word >= LastWord(CallOf(s))
      <4>1. /\ th'[s].pc = IF last THEN "unlock" ELSE "write"
            /\ th'[s].step = th[s].step /\ th'[s].sa = th[s].sa
            /\ th'[s].word = (IF last THEN th[s].word ELSE th[s].word + 1) /\ th'[s].ok = th[s].ok
        BY <3>6, SaMoves
      <4>2. th[s].step \in {3, 4, 5, 7} => last
        BY <1>5, <2>2, Calls
      <4>3. th[s].pc = "write"
        BY <3>6 DEF WriteWord
      <4> HIDE DEF last
      <4> QED BY <2>2, <4>1, <4>2, <4>3
    <3>7. CASE WriteEnable(s)
      BY <2>2, <3>7, SaMoves DEF WriteEnable
    <3> QED BY <1>6, <3>1, <3>2, <3>3, <3>4, <3>5, <3>6, <3>7 DEF SaStep
  <2>8. \A q \in SAs : P(q)'
    BY <1>0, <1>3, <2>1, <2>7
  <2>9. M'
    BY <1>0, <1>4, <2>1
  <2> HIDE DEF P, M
  <2> QED BY <2>8, <2>9 DEF Path, P, M
<1>7. CASE MonitorStep
  <2>1. \A s \in SAs : th'[s] = th[s]
    BY <1>7, MonitorStepType
  <2>2. M'
    <3>1. ASSUME NEW pc, Goto(Monitor, pc) PROVE th'[Monitor].pc = pc
      BY <1>0, <3>1 DEF Goto, ThreadState
    <3>2. CASE \E s \in SAs : AskPn(s)
      BY <1>0, <3>2 DEF AskPn, ThreadState
    <3>3. CASE ReadCcw
      BY <3>1, <3>3 DEF ReadCcw
    <3>4. CASE ReadCcwUnknown
      BY <1>0, <3>4 DEF ReadCcwUnknown, Started
    <3>5. CASE ReadSn0 \/ ReadSn1
      BY <1>0, <3>5 DEF ReadSn0, ReadSn1, ThreadState
    <3> QED BY <1>7, <3>2, <3>3, <3>4, <3>5 DEF MonitorStep
  <2>3. \A s \in SAs : P(s)'
    BY <1>3, <2>1
  <2> HIDE DEF P, M
  <2> QED BY <2>2, <2>3 DEF Path, P, M
<1>8. ASSUME NEW t \in Threads, EndStep(t) PROVE Path'
  <2>1. \A u \in Threads \ {t} : th'[u] = th[u]
    BY <1>8, EndStepType
  <2>2. th'[t].pc \in {"unlock", "idle"}
    BY <1>8, EndMoves DEF EndStep
  <2>3. M'
    BY <1>0, <1>4, <2>1, <2>2
  <2>4. ASSUME t \in SAs PROVE P(t)'
    <3>1. P(t) /\ th[t].step \in 1 .. 8
      BY <1>1, <1>5, <2>4
    <3>2. CASE Fail(t)
      <4>1. th[t].step \in {1, 2} => CallOf(t) \in HidesErrors
        BY <2>4, <3>1, Calls
      <4> QED BY <2>4, <3>1, <3>2, <4>1, EndMoves
    <3>3. CASE Unlock(t)
      BY <3>1, <3>3, EndMoves
    <3> QED BY <1>8, <3>2, <3>3 DEF EndStep
  <2>5. \A s \in SAs : P(s)'
    BY <1>0, <1>3, <2>1, <2>4
  <2> HIDE DEF P, M
  <2> QED BY <2>3, <2>5 DEF Path, P, M
<1>9. CASE EngineStep \/ UNCHANGED vars
  <2>1. th' = th
    BY <1>9 DEF EngineStep, PacketEnters, PacketLeaves, vars
  <2> QED BY <2>1 DEF Path
<1> QED BY <1>6, <1>7, <1>8, <1>9, NextSteps

LEMMA HoldsLockStep == TypeOK /\ HoldsLock /\ [Next]_vars => HoldsLock'
<1> SUFFICES ASSUME TypeOK, HoldsLock, [Next]_vars PROVE HoldsLock'
  OBVIOUS
<1>0. /\ th \in [Threads -> ThreadState]
      /\ Monitor \in Threads /\ SAs \subseteq Threads /\ Monitor \notin SAs
      /\ NoThread \notin Threads
  BY Types, ThreadAssumption DEF Threads
<1>1. ASSUME NEW s \in SAs, SaStep(s) PROVE HoldsLock'
  <2>1. \A t \in Threads \ {s} : th'[t] = th[t]
    BY <1>1, SaStepType
  <2>2. CASE Call(s)
    BY <1>0, <2>1, <2>2 DEF Call, Free, HoldsLock
  <2>3. CASE ~Call(s)
    <3>1. lock' = lock /\ th[s].pc # "idle"
      BY <1>1, <2>3 DEF SaStep, LoadUnsafe, PollUnsafe, PollSafe, InFlightTimeout, WriteWord, WriteEnable
    <3> QED BY <1>0, <2>1, <3>1 DEF HoldsLock
  <2> QED BY <2>2, <2>3
<1>2. CASE MonitorStep
  <2>1. \A s \in SAs : th'[s] = th[s]
    BY <1>2, MonitorStepType
  <2>2. \A t \in Threads : t \in SAs \/ t = Monitor
    BY DEF Threads
  <2>3. CASE \E s \in SAs : AskPn(s)
    <3>1. lock' = Monitor /\ lock = NoThread
      BY <2>3 DEF AskPn, Free
    <3> QED BY <1>0, <2>1, <2>2, <3>1 DEF HoldsLock
  <2>4. CASE ReadCcw \/ ReadCcwUnknown \/ ReadSn0 \/ ReadSn1
    <3>1. lock' = lock /\ th[Monitor].pc # "idle"
      BY <2>4 DEF ReadCcw, ReadCcwUnknown, ReadSn0, ReadSn1
    <3> QED BY <1>0, <2>1, <2>2, <3>1 DEF HoldsLock
  <2> QED BY <1>2, <2>3, <2>4 DEF MonitorStep
<1>3. ASSUME NEW t \in Threads, EndStep(t) PROVE HoldsLock'
  <2>1. \A u \in Threads \ {t} : th'[u] = th[u]
    BY <1>3, EndStepType
  <2>2. th[t].pc # "idle"
    BY <1>3 DEF EndStep, Fail, Unlock
  <2>3. CASE Fail(t)
    BY <1>0, <2>1, <2>2, <2>3 DEF Fail, HoldsLock
  <2>4. CASE Unlock(t)
    <3>1. \A u \in Threads \ {t} : th[u].pc = "idle"
      BY <2>2 DEF HoldsLock
    <3>2. th'[t].pc = "idle"
      BY <2>4, EndMoves
    <3> QED BY <2>1, <3>1, <3>2 DEF HoldsLock
  <2> QED BY <1>3, <2>3, <2>4 DEF EndStep
<1>4. CASE EngineStep \/ UNCHANGED vars
  <2>1. th' = th /\ lock' = lock
    BY <1>4 DEF EngineStep, PacketEnters, PacketLeaves, vars
  <2> QED BY <2>1 DEF HoldsLock
<1> QED BY <1>1, <1>2, <1>3, <1>4, NextSteps

-----------------------------------------------------------------------------
(* Erased                                                                   *)

ErasedOf(s) ==
  /\ \A w \in Word \ {1} : ~eip.mem[s]["fca"][w]
  /\ th[s].step = 6 /\ th[s].pc = "write" => GoneBefore(s, "rule")
  /\ (th[s].step = 6 /\ Done(s)) \/ th[s].step \in {7, 8} => Gone(s, "rule")
  /\ (th[s].step = 7 /\ Done(s)) \/ th[s].step = 8 => Gone(s, "fca")
  /\ th[s].step = 8 /\ th[s].pc = "write" => GoneBefore(s, "tr")
  /\ th[s].step = 8 /\ Done(s) => Gone(s, "tr")
  /\ th[s].step = 1 /\ th[s].pc = "idle" => Gone(s, "rule") /\ Gone(s, "fca") /\ Gone(s, "tr")

LEMMA ErasedSame ==
  ASSUME NEW s \in SAs, ErasedOf(s), th'[s] = th[s], eip'.mem[s] = eip.mem[s]
  PROVE  ErasedOf(s)'
BY DEF ErasedOf, Gone, GoneBefore, Done

\* The words WriteWord leaves as they were, and the one it writes.
LEMMA Written ==
  ASSUME TypeOK, NEW s \in SAs, WriteWord(s)
  PROVE  LET A == AreaOf(CallOf(s)) IN
         /\ \A q \in SAs \ {s} : eip'.mem[q] = eip.mem[q]
         /\ \A a \in Area \ {A} : eip'.mem[s][a] = eip.mem[s][a]
         /\ \A w \in Word : w # th[s].word => eip'.mem[s][A][w] = eip.mem[s][A][w]
         /\ CallOf(s) \in Clears => ~eip'.mem[s][A][th[s].word]
<1> DEFINE A == AreaOf(CallOf(s))  v == CallOf(s) \notin Clears  f == [eip.mem[s][A] EXCEPT ![th[s].word] = v]
<1>0. /\ eip \in [mem : Memory, enabled : SUBSET SAs] /\ th \in [Threads -> ThreadState] /\ s \in Threads
  BY Types
<1>1. A \in Area /\ eip.mem \in Memory
  BY <1>0 DEF AreaOf, Area
<1>2. th[s].word \in Word
  <2>1. th[s] \in ThreadState
    BY <1>0
  <2> QED BY <2>1 DEF ThreadState
<1>3. eip' = [eip EXCEPT !.mem = [eip.mem EXCEPT ![s] = [eip.mem[s] EXCEPT ![A] = f]]]
  BY <1>0 DEF WriteWord, Memory
<1>4. eip.mem[s] \in [Area -> [Word -> BOOLEAN]] /\ eip.mem[s][A] \in [Word -> BOOLEAN]
  BY <1>1 DEF Memory
<1>5. f[th[s].word] = v /\ \A w \in Word : w # th[s].word => f[w] = eip.mem[s][A][w]
  BY <1>2, <1>4
<1> HIDE DEF f, A
<1>6. eip'.mem = [eip.mem EXCEPT ![s] = [eip.mem[s] EXCEPT ![A] = f]]
  BY <1>0, <1>3
<1>7. eip'.mem[s] = [eip.mem[s] EXCEPT ![A] = f] /\ \A q \in SAs \ {s} : eip'.mem[q] = eip.mem[q]
  BY <1>1, <1>6 DEF Memory
<1>8. eip'.mem[s][A] = f /\ \A a \in Area \ {A} : eip'.mem[s][a] = eip.mem[s][a]
  BY <1>1, <1>4, <1>7
<1>9. CallOf(s) \in Clears => ~f[th[s].word]
  BY <1>5
<1> QED BY <1>5, <1>7, <1>8, <1>9 DEF A

\* Only WriteWord writes a word.
LEMMA OnlyWriteWord ==
  ASSUME TypeOK, [Next]_vars, NEW s \in SAs, ~WriteWord(s)
  PROVE  eip'.mem[s] = eip.mem[s]
<1>0. eip \in [mem : Memory, enabled : SUBSET SAs]
  BY Types
<1>1. CASE UNCHANGED eip
  BY <1>1
<1>2. ASSUME NEW q \in SAs, WriteWord(q) PROVE eip'.mem[s] = eip.mem[s]
  BY <1>2, Written
<1>3. ASSUME NEW q \in SAs, WriteEnable(q) PROVE eip'.mem[s] = eip.mem[s]
  BY <1>0, <1>3 DEF WriteEnable
<1> QED BY <1>1, <1>2, <1>3 DEF Next, vars, Call, AskPn, PacketEnters, LoadUnsafe, PollUnsafe, PollSafe,
           InFlightTimeout, Fail, Unlock, ReadCcw, ReadCcwUnknown, ReadSn0, ReadSn1, PacketLeaves

LEMMA WriteErases ==
  ASSUME TypeOK, Path, NEW s \in SAs, WriteWord(s), ErasedOf(s)
  PROVE  ErasedOf(s)'
<1> PICK A \in Area : A = AreaOf(CallOf(s))
  BY DEF AreaOf, Area
<1> DEFINE word == th[s].word
<1>0. /\ th[s].step \in 1 .. 8 /\ word \in Word /\ th[s].pc = "write"
      /\ th[s].step \in {3, 4, 5, 7} => word = 1
  <2>1. th[s] \in ThreadState
    BY Types
  <2> QED BY <2>1 DEF ThreadState, Path, WriteWord
<1>1. /\ th'[s].pc = IF word >= LastWord(CallOf(s)) THEN "unlock" ELSE "write"
      /\ th'[s].step = th[s].step /\ th'[s].ok = th[s].ok
      /\ th'[s].word = IF word >= LastWord(CallOf(s)) THEN word ELSE word + 1
  BY SaMoves
<1>2. /\ \A a \in Area \ {A} : eip'.mem[s][a] = eip.mem[s][a]
      /\ \A w \in Word : w # word => eip'.mem[s][A][w] = eip.mem[s][A][w]
      /\ CallOf(s) \in Clears => ~eip'.mem[s][A][word]
  BY Written
<1>3. th[s].step \notin {4, 5}
  BY <1>0, Calls DEF WriteWord
<1>4. \A a \in Area \ {A} : (Gone(s, a) => Gone(s, a)') /\ (GoneBefore(s, a) /\ ~(word < th'[s].word) => GoneBefore(s, a)')
  BY <1>0, <1>1, <1>2 DEF Gone, GoneBefore, Word
<1>5. CASE th[s].step \in {1, 2}
  <2>1. A # "fca"
    BY <1>5, <1>0, Calls
  <2>2. eip'.mem[s]["fca"] = eip.mem[s]["fca"]
    BY <1>2, <2>1 DEF Area
  <2>3. th'[s].pc # "idle" /\ th'[s].step \notin {6, 7, 8}
    BY <1>1, <1>5
  <2> QED BY <2>2, <2>3 DEF ErasedOf
<1>6. CASE th[s].step = 3
  <2>1. A = "fca" /\ word = 1
    BY <1>6, <1>0, Calls
  <2>2. \A w \in Word \ {1} : ~eip'.mem[s]["fca"][w]
    BY <1>2, <2>1 DEF ErasedOf
  <2> QED BY <1>1, <1>6, <2>2 DEF ErasedOf
<1>7. CASE th[s].step \in {6, 8}
  <2>0. CallOf(s) \in Clears /\ LastWord(CallOf(s)) = TrWords /\ A = (IF th[s].step = 6 THEN "rule" ELSE "tr")
    BY <1>7, <1>0, Calls
  <2>1. \A w \in Word : w <= word => ~eip'.mem[s][A][w]
    <3>1. GoneBefore(s, A)
      BY <1>0, <1>7, <2>0 DEF ErasedOf
    <3>2. \A w \in Word : w <= word => w < word \/ w = word
      BY <1>0 DEF Word
    <3> QED BY <1>2, <2>0, <3>1, <3>2 DEF GoneBefore
  <2>2. th'[s].pc = "write" => GoneBefore(s, A)'
    <3>1. th'[s].pc = "write" => \A w \in Word : w < th'[s].word => w <= word
      BY <1>0, <1>1 DEF Word
    <3> QED BY <2>1, <3>1 DEF GoneBefore
  <2>3. th'[s].pc = "unlock" => Gone(s, A)'
    <3>1. th'[s].pc = "unlock" => \A w \in Word : w <= word
      BY <1>0, <1>1, <2>0, SizeAssumption DEF Word
    <3> QED BY <2>1, <3>1 DEF Gone
  <2>4. eip'.mem[s]["fca"] = eip.mem[s]["fca"]
    BY <1>2, <2>0 DEF Area
  <2>5. CASE th[s].step = 6
    BY <1>1, <2>0, <2>2, <2>3, <2>4, <2>5 DEF ErasedOf, Done
  <2>6. CASE th[s].step = 8
    <3>1. Gone(s, "rule")' /\ Gone(s, "fca")'
      BY <1>4, <2>0, <2>6 DEF ErasedOf, Area
    <3> QED BY <1>1, <2>0, <2>2, <2>3, <2>4, <2>6, <3>1 DEF ErasedOf, Done
  <2> QED BY <1>7, <2>5, <2>6
<1>8. CASE th[s].step = 7
  <2>0. CallOf(s) \in Clears /\ A = "fca" /\ word = 1
    BY <1>8, <1>0, Calls
  <2>1. Gone(s, "rule")'
    BY <1>4, <1>8, <2>0 DEF ErasedOf, Area
  <2>2. Gone(s, "fca")'
    BY <1>2, <2>0 DEF ErasedOf, Gone
  <2> QED BY <1>1, <1>8, <2>1, <2>2 DEF ErasedOf, Gone
<1> QED BY <1>0, <1>3, <1>5, <1>6, <1>7, <1>8

LEMMA ErasedStep == TypeOK /\ Path /\ Erased /\ [Next]_vars => Erased'
<1> SUFFICES ASSUME TypeOK, Path, Erased, [Next]_vars, NEW s \in SAs PROVE ErasedOf(s)'
  BY DEF Erased, ErasedOf
<1>0. ErasedOf(s) /\ s \in Threads
  BY Types DEF Erased, ErasedOf
<1>a. th[s].step \in 1 .. 8 /\ th[s].pc \in PC
  <2>1. th[s] \in ThreadState
    BY Types
  <2> QED BY <2>1 DEF ThreadState
<1>1. CASE th'[s] = th[s]
  BY <1>0, <1>1, ErasedSame, OnlyWriteWord, WriteErases
<1>2. CASE SaStep(s)
  <2>1. CASE WriteWord(s)
    BY <1>0, <2>1, WriteErases
  <2>2. CASE ~WriteWord(s)
    <3>0. eip'.mem[s] = eip.mem[s]
      BY <2>2, OnlyWriteWord
    <3> DEFINE Same == th'[s].step = th[s].step /\ th'[s].word = th[s].word
    <3>1. \A a \in Area : (Gone(s, a) => Gone(s, a)') /\ (Same /\ GoneBefore(s, a) => GoneBefore(s, a)')
      BY <3>0 DEF Gone, GoneBefore
    <3>2. CASE Call(s)
      <4>1. th'[s].step = th[s].step /\ th'[s].pc \in {"inflight", "write"} /\ th[s].pc = "idle"
        BY <3>2, SaMoves DEF Call, Free
      <4>2. th'[s].pc = "write" => th[s].step \notin {6, 7, 8}
        BY <1>a, <3>2, SaMoves, Calls
      <4> QED BY <1>0, <3>0, <3>1, <4>1, <4>2 DEF ErasedOf, Done, Area
    <3>3. CASE LoadUnsafe(s) \/ PollUnsafe(s)
      <4>1. th'[s].step = th[s].step /\ th'[s].pc = "poll"
        BY <3>3, SaMoves DEF PollUnsafe
      <4> QED BY <1>0, <3>0, <3>1, <4>1 DEF ErasedOf, Done, Area
    <3>4. CASE PollSafe(s)
      <4>0. th[s].word = 1
        BY <3>4 DEF PollSafe, Path
      <4>3. th'[s].step = th[s].step /\ th'[s].pc = "write" /\ th'[s].word = th[s].word
        BY <3>4, SaMoves
      <4>1. th'[s].step = th[s].step /\ th'[s].pc = "write" /\ th'[s].word = 1
        BY <4>0, <4>3
      <4>2. \A a : GoneBefore(s, a)'
        BY <4>1 DEF GoneBefore, Word
      <4> QED BY <1>0, <3>0, <3>1, <4>1, <4>2 DEF ErasedOf, Done, Area
    <3>5. CASE InFlightTimeout(s)
      <4>1. th'[s].step = th[s].step /\ th'[s].pc = "unlock" /\ th'[s].ok = FALSE
        BY <3>5, SaMoves
      <4> QED BY <1>0, <3>0, <3>1, <4>1 DEF ErasedOf, Done, Area
    <3>6. CASE WriteEnable(s)
      <4>1. th'[s].step = th[s].step /\ th'[s].pc = "unlock" /\ th[s].step \in {4, 5}
        BY <1>a, <3>6, SaMoves, Calls DEF WriteEnable
      <4> QED BY <1>0, <3>0, <4>1 DEF ErasedOf
    <3> QED BY <1>2, <2>2, <3>2, <3>3, <3>4, <3>5, <3>6 DEF SaStep
  <2> QED BY <2>1, <2>2
<1>3. CASE EndStep(s)
  <2>0. eip'.mem[s] = eip.mem[s]
    BY <1>3 DEF EndStep, Fail, Unlock
  <2>1. \A a \in Area : Gone(s, a) => Gone(s, a)'
    BY <2>0 DEF Gone
  <2>2. CASE Fail(s)
    <3>1. th'[s].step = th[s].step /\ th'[s].pc = "unlock" /\ th'[s].ok = (CallOf(s) \in HidesErrors)
      BY <1>0, <2>2, EndMoves
    <3>2. th[s].step \in {6, 7, 8} => ~th'[s].ok
      <4>1. th[s].step \in {6, 7, 8} => ~(CallOf(s) \in HidesErrors)
        BY <1>a, Calls
      <4> QED BY <3>1, <4>1
    <3> QED BY <1>0, <2>0, <2>1, <3>1, <3>2 DEF ErasedOf, Done, Area
  <2>3. CASE Unlock(s)
    <3>1. th'[s].pc = "idle" /\ th'[s].step = NextStep(s) /\ th[s].pc = "unlock"
      BY <1>0, <2>3, EndMoves DEF Unlock
    <3>2. NextStep(s) = IF ~th[s].ok THEN th[s].step ELSE IF th[s].step = 8 THEN 1 ELSE th[s].step + 1
      BY ThreadAssumption, ScriptSteps DEF NextStep
    <3>3. th[s].step \in {1, 2} => th[s].ok = TRUE
      BY DEF Path
    <3>4. CASE ~th[s].ok
      BY <1>0, <1>a, <2>0, <2>1, <3>1, <3>2, <3>3, <3>4 DEF ErasedOf, Done, Area
    <3>5. CASE th[s].ok /\ th[s].step = 8
      BY <1>0, <2>0, <2>1, <3>1, <3>2, <3>5 DEF ErasedOf, Done, Area
    <3>6. CASE th[s].ok /\ th[s].step # 8
      <4>1. th'[s].step = th[s].step + 1
        BY <3>1, <3>2, <3>6
      <4>2. th'[s].step # 1 /\ (th'[s].step = 7 <=> th[s].step = 6) /\ (th'[s].step = 8 <=> th[s].step = 7)
        BY <1>a, <4>1
      <4> QED BY <1>0, <2>0, <2>1, <3>1, <3>6, <4>2 DEF ErasedOf, Done, Area
    <3> QED BY <3>4, <3>5, <3>6
  <2> QED BY <1>3, <2>2, <2>3 DEF EndStep
<1>4. CASE th'[s] # th[s]
  <2>1. ASSUME NEW q \in SAs, SaStep(q) PROVE q = s
    BY <1>0, <1>4, <2>1, SaStepType
  <2>2. ~MonitorStep
    BY <1>4, MonitorStepType
  <2>3. ASSUME NEW t \in Threads, EndStep(t) PROVE t = s
    BY <1>0, <1>4, <2>3, EndStepType
  <2>4. ~EngineStep /\ ~UNCHANGED vars
    BY <1>4 DEF EngineStep, PacketEnters, PacketLeaves, vars
  <2> QED BY <1>2, <1>3, <2>1, <2>2, <2>3, <2>4, NextSteps
<1> QED BY <1>1, <1>4

-----------------------------------------------------------------------------
(* Enabled and Flight                                                       *)

LEMMA StepIn == ASSUME TypeOK, NEW s \in SAs PROVE s \in Threads /\ th[s].step \in 1 .. 8 /\ th[s].pc \in PC
<1>1. th[s] \in ThreadState /\ s \in Threads
  BY Types
<1> QED BY <1>1 DEF ThreadState

LEMMA EnabledStep == TypeOK /\ TypeOK' /\ Path /\ Enabled /\ [Next]_vars => Enabled'
<1> SUFFICES ASSUME TypeOK, TypeOK', Path, Enabled, [Next]_vars, NEW s \in eip'.enabled
             PROVE  th'[s].step \in {4, 5} /\ ~(th'[s].step = 5 /\ th'[s].pc = "unlock" /\ th'[s].ok)
  BY DEF Enabled, Done
<1>0. eip \in [mem : Memory, enabled : SUBSET SAs] /\ eip' \in [mem : Memory, enabled : SUBSET SAs]
  BY DEF TypeOK, Memory
<1>1. s \in SAs
  BY <1>0
<1>2. th[s].step \in 1 .. 8 /\ th[s].pc \in PC /\ s \in Threads
  BY <1>1, StepIn
<1>3. s \in eip.enabled \/ (WriteEnable(s) /\ CallOf(s) = "enable")
  <2>1. ASSUME NEW q \in SAs, WriteEnable(q)
        PROVE  s \in eip.enabled \/ (WriteEnable(s) /\ CallOf(s) = "enable")
    BY <1>0, <2>1 DEF WriteEnable
  <2>2. ASSUME NEW q \in SAs, WriteWord(q) PROVE s \in eip.enabled
    BY <1>0, <2>2 DEF WriteWord
  <2>3. CASE UNCHANGED eip
    BY <2>3
  <2> QED BY <2>1, <2>2, <2>3 DEF Next, vars, Call, AskPn, PacketEnters, LoadUnsafe, PollUnsafe, PollSafe,
             InFlightTimeout, Fail, Unlock, ReadCcw, ReadCcwUnknown, ReadSn0, ReadSn1, PacketLeaves
<1>4. s \in eip.enabled => th[s].step \in {4, 5} /\ ~(th[s].step = 5 /\ th[s].pc = "unlock" /\ th[s].ok)
  BY DEF Enabled, Done
<1>5. CASE WriteEnable(s)
  <2>1. th'[s].step = th[s].step /\ CallOf(s) \in {"enable", "disable"}
    BY <1>1, <1>5, SaMoves DEF WriteEnable
  <2>2. CallOf(s) # "disable"
    BY <1>0, <1>5 DEF WriteEnable
  <2> QED BY <1>1, <1>2, <2>1, <2>2, Calls
<1>6. CASE ~WriteEnable(s)
  <2>0. th[s].step \in {4, 5} /\ ~(th[s].step = 5 /\ th[s].pc = "unlock" /\ th[s].ok)
    BY <1>3, <1>4, <1>6
  <2>1. CASE th'[s] = th[s]
    BY <2>0, <2>1
  <2>2. CASE SaStep(s)
    <3>1. ~LoadUnsafe(s) /\ ~PollUnsafe(s) /\ ~PollSafe(s) /\ ~InFlightTimeout(s)
      BY <1>1, <2>0 DEF Path, LoadUnsafe, PollUnsafe, PollSafe, InFlightTimeout
    <3>2. ~WriteWord(s)
      BY <1>1, <1>2, <2>0, Calls DEF WriteWord
    <3>3. Call(s)
      BY <1>6, <2>2, <3>1, <3>2 DEF SaStep
    <3>4. th'[s].step = th[s].step /\ th'[s].pc \in {"inflight", "write"}
      BY <1>1, <3>3, SaMoves
    <3> QED BY <2>0, <3>4
  <2>3. CASE EndStep(s)
    <3>1. CASE Fail(s)
      <4>1. th'[s].step = th[s].step /\ th'[s].ok = (CallOf(s) \in HidesErrors)
        BY <1>2, <3>1, EndMoves
      <4>2. ~(CallOf(s) \in HidesErrors)
        BY <1>1, <1>2, <2>0, Calls
      <4> QED BY <2>0, <4>1, <4>2
    <3>2. CASE Unlock(s)
      <4>1. th'[s].pc = "idle" /\ th'[s].step = NextStep(s) /\ th[s].pc = "unlock"
        BY <1>2, <3>2, EndMoves DEF Unlock
      <4>2. NextStep(s) = IF ~th[s].ok THEN th[s].step ELSE IF th[s].step = 8 THEN 1 ELSE th[s].step + 1
        BY <1>1, ThreadAssumption, ScriptSteps DEF NextStep
      <4> QED BY <2>0, <4>1, <4>2
    <3> QED BY <2>3, <3>1, <3>2 DEF EndStep
  <2>4. CASE th'[s] # th[s]
    <3>1. ASSUME NEW q \in SAs, SaStep(q) PROVE q = s
      BY <1>2, <2>4, <3>1, SaStepType
    <3>2. ~MonitorStep
      BY <1>1, <2>4, MonitorStepType
    <3>3. ASSUME NEW t \in Threads, EndStep(t) PROVE t = s
      BY <1>2, <2>4, <3>3, EndStepType
    <3>4. ~EngineStep /\ ~UNCHANGED vars
      BY <2>4 DEF EngineStep, PacketEnters, PacketLeaves, vars
    <3> QED BY <2>2, <2>3, <3>1, <3>2, <3>3, <3>4, NextSteps
  <2> QED BY <2>1, <2>4
<1> QED BY <1>5, <1>6

\* The threads that may be waiting for packets to leave hold phy->lock.
LEMMA FlightStep == TypeOK /\ Path /\ HoldsLock /\ Enabled /\ Flight /\ [Next]_vars => Flight'
<1> SUFFICES ASSUME TypeOK, Path, HoldsLock, Enabled, Flight, [Next]_vars PROVE Flight'
  OBVIOUS
<1> DEFINE fl == traffic.flight  un == traffic.unsafe
    Safe(s) ==
      /\ th[s].pc = "poll" => \A i \in 1 .. Len(fl) : i > un => fl[i] # s
      /\ th[s].pc = "write" /\ th[s].step \in {6, 7, 8} => \A i \in 1 .. Len(fl) : fl[i] # s
<1>0. /\ traffic \in [flight : Seq(SAs), unsafe : 0 .. MaxFlight] /\ fl \in Seq(SAs) /\ un \in Nat
      /\ Len(fl) \in Nat /\ Len(fl) <= MaxFlight /\ un <= Len(fl) /\ MaxFlight \in Nat
  BY Types, BoundAssumption DEF Flight
<1>1. \A s \in SAs : Safe(s)
  BY DEF Flight
<1>2. ASSUME Len(fl)' <= MaxFlight, un' <= Len(fl)', \A s \in SAs : Safe(s)' PROVE Flight'
  BY <1>2 DEF Flight
<1>3. ASSUME NEW s \in SAs, th'[s] = th[s], UNCHANGED traffic PROVE Safe(s)'
  BY <1>1, <1>3
<1>4. ASSUME NEW q \in SAs, SaStep(q) PROVE Flight'
  <2>0. \A t \in Threads \ {q} : th'[t] = th[t]
    BY <1>4, SaStepType
  <2>1. CASE LoadUnsafe(q)
    <3>1. fl' = fl /\ un' = Len(fl) /\ th[q].pc = "inflight"
      BY <1>0, <2>1 DEF LoadUnsafe
    <3>2. th'[q].pc = "poll"
      BY <2>1, SaMoves
    <3>3. ASSUME NEW s \in SAs, s # q PROVE Safe(s)'
      <4>1. s \in Threads /\ q \in Threads /\ th'[s] = th[s]
        BY <2>0, <3>3, StepIn
      <4>2. th[s].pc = "idle"
        BY <3>1, <3>3, <4>1 DEF HoldsLock
      <4> QED BY <4>1, <4>2
    <3>4. Safe(q)'
      BY <1>0, <3>1, <3>2
    <3> HIDE DEF Safe
    <3>5. \A s \in SAs : Safe(s)'
      BY <3>3, <3>4
    <3> QED BY <1>0, <1>2, <3>1, <3>5
  <2>2. CASE ~LoadUnsafe(q)
    <3>1. UNCHANGED traffic
      BY <1>4, <2>2 DEF SaStep, Call, PollUnsafe, PollSafe, InFlightTimeout, WriteWord, WriteEnable
    <3>2. Safe(q)'
      <4>0. th[q].step \in 1 .. 8 /\ Safe(q)
        BY <1>1, StepIn
      <4>1. CASE Call(q)
        <5>1. th'[q].step = th[q].step /\ th'[q].pc = IF CallOf(q) \in Clears THEN "inflight" ELSE "write"
          BY <4>1, SaMoves
        <5>2. th[q].step \in {6, 7, 8} => CallOf(q) \in Clears
          BY <4>0, Calls
        <5> QED BY <5>1, <5>2
      <4>2. CASE PollUnsafe(q)
        <5>1. th'[q].pc = "poll" /\ th[q].pc = "poll"
          BY <4>2, SaMoves DEF PollUnsafe
        <5> QED BY <3>1, <4>0, <5>1
      <4>3. CASE PollSafe(q)
        <5>1. th[q].pc = "poll" /\ un = 0
          BY <4>3 DEF PollSafe
        <5>2. \A i \in 1 .. Len(fl) : fl[i] # q
          BY <1>0, <4>0, <5>1
        <5>3. th'[q].pc = "write"
          BY <4>3, SaMoves
        <5> QED BY <3>1, <5>2, <5>3
      <4>4. CASE InFlightTimeout(q) \/ WriteEnable(q)
        <5>1. th'[q].pc = "unlock"
          BY <4>4, SaMoves
        <5> QED BY <5>1
      <4>5. CASE WriteWord(q)
        <5>1. /\ th'[q].pc \in {"write", "unlock"} /\ th[q].pc = "write"
              /\ th'[q].step = th[q].step
          BY <4>5, SaMoves DEF WriteWord
        <5> QED BY <3>1, <4>0, <5>1
      <4> HIDE DEF Safe
      <4> QED BY <1>4, <2>2, <4>1, <4>2, <4>3, <4>4, <4>5 DEF SaStep
    <3>3. ASSUME NEW s \in SAs, s # q PROVE Safe(s)'
      <4>1. th'[s] = th[s]
        BY <2>0, <3>3, StepIn
      <4> QED BY <1>3, <3>1, <4>1
    <3> HIDE DEF Safe
    <3>4. \A s \in SAs : Safe(s)'
      BY <3>2, <3>3
    <3> QED BY <1>0, <1>2, <3>1, <3>4
  <2> QED BY <2>1, <2>2
<1>5. ASSUME NEW t \in Threads, EndStep(t) PROVE Flight'
  <2>1. UNCHANGED traffic /\ th'[t].pc \in {"unlock", "idle"} /\ \A u \in Threads \ {t} : th'[u] = th[u]
    BY <1>5, EndMoves, EndStepType DEF EndStep, Fail, Unlock
  <2>2. ASSUME NEW s \in SAs PROVE Safe(s)'
    <3>1. s \in Threads
      BY StepIn
    <3>2. CASE s = t
      BY <2>1, <3>2
    <3>3. CASE s # t
      BY <1>3, <2>1, <3>1, <3>3
    <3> QED BY <3>2, <3>3
  <2> HIDE DEF Safe
  <2> QED BY <1>0, <1>2, <2>1, <2>2
<1>6. CASE MonitorStep \/ UNCHANGED vars
  <2>1. UNCHANGED traffic /\ \A s \in SAs : th'[s] = th[s]
    BY <1>6, MonitorStepType DEF MonitorStep, AskPn, ReadCcw, ReadCcwUnknown, ReadSn0, ReadSn1, vars
  <2>2. \A s \in SAs : Safe(s)'
    BY <1>3, <2>1
  <2> HIDE DEF Safe
  <2> QED BY <1>0, <1>2, <2>1, <2>2
<1>7. ASSUME NEW q \in SAs, PacketEnters(q) PROVE Flight'
  <2>1. fl' = Append(fl, q) /\ un' = un /\ th' = th /\ q \in eip.enabled /\ Len(fl) < MaxFlight
    BY <1>0, <1>7 DEF PacketEnters
  <2>2. /\ Len(fl)' = Len(fl) + 1
        /\ \A i \in 1 .. Len(fl)' : fl'[i] = IF i = Len(fl) + 1 THEN q ELSE fl[i]
    BY <1>0, <2>1
  <2>3. th[q].step \in {4, 5}
    BY <2>1 DEF Enabled
  <2>4. ASSUME NEW s \in SAs PROVE Safe(s)'
    <3>1. th[s].pc = "poll" => th[s].step \in {6, 7, 8}
      BY DEF Path
    <3>2. CASE th[s].step \in {6, 7, 8}
      <4>1. s # q /\ Safe(s)
        BY <1>1, <2>3, <3>2
      <4>2. \A i \in 1 .. Len(fl)' : i = Len(fl) + 1 \/ (i \in 1 .. Len(fl) /\ fl'[i] = fl[i])
        BY <1>0, <2>2
      <4>3. \A i \in 1 .. Len(fl)' : i = Len(fl) + 1 => fl'[i] # s
        BY <2>2, <4>1
      <4> QED BY <2>1, <4>1, <4>2, <4>3
    <3>3. CASE th[s].step \notin {6, 7, 8}
      BY <2>1, <3>1, <3>3
    <3> QED BY <3>2, <3>3
  <2>5. Len(fl)' <= MaxFlight /\ un' <= Len(fl)'
    BY <1>0, <2>1, <2>2
  <2> HIDE DEF Safe
  <2> QED BY <1>2, <2>4, <2>5
<1>8. CASE PacketLeaves
  <2>1. /\ fl # <<>> /\ fl' = Tail(fl) /\ th' = th
        /\ un' = IF un = 0 THEN 0 ELSE un - 1
    BY <1>8 DEF PacketLeaves
  <2>2. /\ Len(fl)' = Len(fl) - 1 /\ Len(fl) > 0
        /\ \A i \in 1 .. Len(fl)' : i + 1 \in 1 .. Len(fl) /\ fl'[i] = fl[i + 1]
    BY <1>0, <2>1
  <2>3. \A i \in 1 .. Len(fl)' : i > un' => i + 1 > un
    BY <1>0, <2>1, <2>2
  <2>4. ASSUME NEW s \in SAs PROVE Safe(s)'
    <3>1. Safe(s)
      BY <1>1
    <3>2. th[s].pc = "poll" => \A i \in 1 .. Len(fl)' : i > un' => fl'[i] # s
      BY <2>2, <2>3, <3>1
    <3>3. th[s].pc = "write" /\ th[s].step \in {6, 7, 8} => \A i \in 1 .. Len(fl)' : fl'[i] # s
      BY <2>2, <3>1
    <3> QED BY <2>1, <3>2, <3>3
  <2>5. Len(fl)' <= MaxFlight /\ un' <= Len(fl)'
    BY <1>0, <2>1, <2>2
  <2> HIDE DEF Safe
  <2> QED BY <1>2, <2>4, <2>5
<1> HIDE DEF Safe
<1> QED BY <1>4, <1>5, <1>6, <1>7, <1>8, NextSteps DEF EngineStep

-----------------------------------------------------------------------------
(* The packet number the monitor reads                                      *)

LEMMA MonitoredStep == TypeOK /\ Path /\ HoldsLock /\ Monitored /\ [Next]_vars => Monitored'
<1> SUFFICES ASSUME TypeOK, Path, HoldsLock, Monitored, [Next]_vars PROVE Monitored'
  OBVIOUS
<1> DEFINE m == th[Monitor]
<1>0. /\ th \in [Threads -> ThreadState] /\ Monitor \in Threads /\ m \in ThreadState
      /\ SAs \subseteq Threads /\ Monitor \notin SAs /\ pn \in [SAs -> 0 .. MaxPn]
  BY Types
<1>a. /\ m.sa \in SAs /\ pn[m.sa] \in Nat /\ m.asked \in Nat /\ m.sn0 \in Nat
      /\ PnBase \in Nat \ {0} /\ MaxPn \in Nat
  <2>1. m.sa \in SAs /\ m.asked \in 0 .. MaxPn /\ m.sn0 \in 0 .. PnBase - 1
    BY <1>0 DEF ThreadState
  <2> QED BY <1>0, <2>1, SizeAssumption, BoundAssumption
<1>1. /\ m.pc \in {"ccw", "sn0"} => m.asked <= pn[m.sa]
      /\ m.pc = "sn1" => m.asked <= (PnBase * (pn[m.sa] \div PnBase)) + m.sn0
      /\ m.pc = "unlock" /\ m.ok => m.asked <= (PnBase * m.sn1) + m.sn0
  BY DEF Monitored
<1>2. ASSUME m' = m, \/ pn' = pn
                     \/ m.pc = "idle"
                     \/ pn'[m.sa] \in Nat /\ pn[m.sa] <= pn'[m.sa]
      PROVE  Monitored'
  <2>1. CASE pn' = pn \/ m.pc = "idle"
    BY <1>1, <1>2, <2>1 DEF Monitored
  <2>2. CASE pn'[m.sa] \in Nat /\ pn[m.sa] <= pn'[m.sa]
    <3> DEFINE old == PnBase * (pn[m.sa] \div PnBase)  new == PnBase * (pn'[m.sa] \div PnBase)
    <3>1. old <= new
      BY <1>a, <2>2, DivGrows
    <3>2. old \in Nat /\ new \in Nat
      <4>1. (pn[m.sa] \div PnBase) \in Nat /\ (pn'[m.sa] \div PnBase) \in Nat
        BY <1>a, <2>2, DivMod
      <4> QED BY <1>a, <4>1
    <3>3. m.pc = "sn1" => m.asked <= old + m.sn0
      BY <1>1
    <3> HIDE DEF old, new
    <3>4. m.pc = "sn1" => m.asked <= new + m.sn0
      BY <1>a, <3>1, <3>2, <3>3
    <3>5. m.pc \in {"ccw", "sn0"} => m.asked <= pn'[m.sa]
      BY <1>a, <1>1, <2>2
    <3> QED BY <1>1, <1>2, <3>4, <3>5 DEF Monitored, new
  <2> QED BY <1>2, <2>1, <2>2
<1>3. ASSUME m'.pc = "idle" PROVE Monitored'
  BY <1>3 DEF Monitored
<1>4. ASSUME NEW s \in SAs, SaStep(s) PROVE Monitored'
  <2>1. m' = m
    BY <1>0, <1>4, SaStepType
  <2>2. CASE WriteWord(s)
    <3>1. lock = s
      BY <1>0, <2>2 DEF HoldsLock, WriteWord
    <3>2. m.pc = "idle"
      BY <1>0, <3>1 DEF HoldsLock
    <3> QED BY <1>2, <2>1, <3>2
  <2>3. CASE ~WriteWord(s)
    <3>1. pn' = pn
      BY <1>4, <2>3 DEF SaStep, Call, LoadUnsafe, PollUnsafe, PollSafe, InFlightTimeout, WriteEnable
    <3> QED BY <1>2, <2>1, <3>1
  <2> QED BY <2>2, <2>3
<1>5. CASE MonitorStep
  <2>0. pn' = pn
    BY <1>5 DEF MonitorStep, AskPn, ReadCcw, ReadCcwUnknown, ReadSn0, ReadSn1
  <2>1. CASE \E s \in SAs : AskPn(s)
    <3>1. PICK s \in SAs : AskPn(s)
      BY <2>1
    <3>2. m' = [m EXCEPT !.pc = "ccw", !.sa = s, !.asked = pn[s]]
      BY <1>0, <3>1 DEF AskPn
    <3>3. m'.pc = "ccw" /\ m'.sa = s /\ m'.asked = pn[s] /\ pn[s] \in Nat
      BY <1>0, <1>a, <3>2 DEF ThreadState
    <3> QED BY <2>0, <3>3 DEF Monitored
  <2>2. CASE ReadCcw
    <3>1. m.pc = "ccw" /\ m' = [m EXCEPT !.pc = "sn0"]
      BY <1>0, <2>2 DEF ReadCcw, Goto
    <3>2. m'.pc = "sn0" /\ m'.sa = m.sa /\ m'.asked = m.asked
      BY <1>0, <3>1 DEF ThreadState
    <3> QED BY <1>1, <2>0, <3>1, <3>2 DEF Monitored
  <2>3. CASE ReadCcwUnknown
    <3>1. m'.pc = "idle"
      BY <1>0, <2>3 DEF ReadCcwUnknown, Started
    <3> QED BY <1>3, <3>1
  <2>4. CASE ReadSn0
    <3> DEFINE low == pn[m.sa] % PnBase  high == PnBase * (pn[m.sa] \div PnBase)
    <3>1. m.pc = "sn0" /\ m' = [m EXCEPT !.pc = "sn1", !.sn0 = low]
      BY <1>0, <2>4 DEF ReadSn0
    <3>2. pn[m.sa] = high + low
      BY <1>a, DivMod
    <3>3. m.asked <= pn[m.sa]
      BY <1>1, <3>1
    <3>6. m.asked <= high + low
      BY <3>2, <3>3
    <3> HIDE DEF low, high
    <3>4. m'.pc = "sn1" /\ m'.sa = m.sa /\ m'.asked = m.asked /\ m'.sn0 = low
      BY <1>0, <3>1 DEF ThreadState
    <3>5. m'.asked <= high + m'.sn0
      BY <3>4, <3>6
    <3> QED BY <2>0, <3>4, <3>5 DEF Monitored, high
  <2>5. CASE ReadSn1
    <3> DEFINE high == pn[m.sa] \div PnBase
    <3>1. m.pc = "sn1" /\ m' = [m EXCEPT !.pc = "unlock", !.sn1 = high]
      BY <1>0, <2>5 DEF ReadSn1
    <3>2. m.asked <= (PnBase * high) + m.sn0
      BY <1>1, <3>1
    <3> HIDE DEF high
    <3>3. m'.pc = "unlock" /\ m'.asked = m.asked /\ m'.sn0 = m.sn0 /\ m'.sn1 = high
      BY <1>0, <3>1 DEF ThreadState
    <3> QED BY <3>2, <3>3 DEF Monitored
  <2> QED BY <1>5, <2>1, <2>2, <2>3, <2>4, <2>5 DEF MonitorStep
<1>6. ASSUME NEW t \in Threads, EndStep(t) PROVE Monitored'
  <2>0. pn' = pn
    BY <1>6 DEF EndStep, Fail, Unlock
  <2>1. CASE t # Monitor
    <3>1. m' = m
      BY <1>0, <1>6, <2>1, EndStepType
    <3> QED BY <1>2, <2>0, <3>1
  <2>2. CASE t = Monitor /\ Unlock(t)
    <3>1. m'.pc = "idle"
      BY <1>0, <2>2, EndMoves
    <3> QED BY <1>3, <3>1
  <2>3. CASE t = Monitor /\ Fail(t)
    <3>1. m'.pc = "unlock" /\ m'.ok = (CallOf(Monitor) \in HidesErrors)
      BY <1>0, <2>3, EndMoves
    <3>2. ~(CallOf(Monitor) \in HidesErrors)
      BY DEF CallOf, HidesErrors
    <3> QED BY <3>1, <3>2 DEF Monitored
  <2> QED BY <1>6, <2>1, <2>2, <2>3 DEF EndStep
<1>7. CASE EngineStep \/ UNCHANGED vars
  <2>1. m' = m
    BY <1>7 DEF EngineStep, PacketEnters, PacketLeaves, vars
  <2>2. pn' = pn \/ (pn'[m.sa] \in Nat /\ pn[m.sa] <= pn'[m.sa])
    <3>1. CASE PacketLeaves
      <4> DEFINE s == Head(traffic.flight)
      <4>1. pn' = pn \/ pn' = [pn EXCEPT ![s] = pn[s] + 1]
        BY <3>1 DEF PacketLeaves
      <4>2. pn'[m.sa] = pn[m.sa] \/ pn'[m.sa] = pn[m.sa] + 1
        BY <1>0, <1>a, <4>1
      <4> QED BY <1>a, <4>2
    <3>2. CASE ~PacketLeaves
      BY <1>7, <3>2 DEF EngineStep, PacketEnters, vars
    <3> QED BY <3>1, <3>2
  <2> QED BY <1>2, <2>1, <2>2
<1> QED BY <1>4, <1>5, <1>6, <1>7, NextSteps

-----------------------------------------------------------------------------
(* The results                                                              *)

LEMMA Inductive == Spec => []IInv
<1>1. Init => IInv
  BY InitInv
<1>2. IInv /\ [Next]_vars => IInv'
  BY TypeStep, PathStep, HoldsLockStep, ErasedStep, EnabledStep, FlightStep, MonitoredStep DEF IInv
<1> QED BY <1>1, <1>2, PTL DEF Spec

\* The types of the state; with them that busy_retry never counts below zero.
THEOREM TypeCorrect == Spec => []TypeOK
<1>1. IInv => TypeOK
  BY DEF IInv
<1> QED BY <1>1, Inductive, PTL

\* _is_sam_in_flight_safe does what it is for, for any number of associations,
\* packets and polls: what is being overwritten with zeroes is not in use.
THEOREM ZeroesAreUnused == Spec => []ZeroedOnlyWhenUnused
<1>1. IInv => ZeroedOnlyWhenUnused
  <2> SUFFICES ASSUME IInv, NEW s \in SAs, th[s].pc = "write", CallOf(s) \in Clears
               PROVE  s \notin eip.enabled /\ \A i \in 1 .. Len(traffic.flight) : traffic.flight[i] # s
    BY DEF ZeroedOnlyWhenUnused
  <2>1. th[s].step \in {6, 7, 8}
    BY StepIn, Calls DEF IInv
  <2> QED BY <2>1 DEF IInv, Enabled, Flight
<1> QED BY <1>1, Inductive, PTL

\* A removal that was reported as successful has left no word of the key.
THEOREM RemovedIsErased == Spec => []RemovedMeansErased
<1>1. IInv => RemovedMeansErased
  BY DEF IInv, Erased, Gone, RemovedMeansErased, Area
<1> QED BY <1>1, Inductive, PTL

\* The packet number that gpy2xx_msec_get_egr_pn puts together from two reads is
\* never below the one at its call, whatever packets pass in between.
THEOREM PnIsNotLow == Spec => []PnNotUnderReported
<1>1. IInv => PnNotUnderReported
  <2> SUFFICES ASSUME IInv, th[Monitor].pc = "unlock", th[Monitor].ok
               PROVE  th[Monitor].sn0 + PnBase * th[Monitor].sn1 >= th[Monitor].asked
    BY DEF PnNotUnderReported
  <2> DEFINE m == th[Monitor]
  <2>1. m.asked <= (PnBase * m.sn1) + m.sn0
    BY DEF IInv, Monitored
  <2>2. m.asked \in Nat /\ m.sn0 \in Nat /\ m.sn1 \in Nat /\ PnBase \in Nat
    <3>1. m \in ThreadState
      BY Types DEF IInv
    <3> QED BY <3>1, SizeAssumption, BoundAssumption DEF ThreadState
  <2>3. PnBase * m.sn1 \in Nat
    BY <2>2
  <2> QED BY <2>1, <2>2, <2>3
<1> QED BY <1>1, Inductive, PTL
=============================================================================
