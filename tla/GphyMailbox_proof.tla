-------------------------- MODULE GphyMailbox_proof --------------------------
(***************************************************************************)
(* GphyMailbox for any number of threads, any registers, values and calls: *)
(* under phy->lock, whatever the firmware and the bus do, the exchange of a*)
(* call that begins with no request outstanding is never disturbed and the *)
(* calls implement ApiRegs.                                                *)
(***************************************************************************)
EXTENDS GphyMailbox, TLAPS

Poll == {"rPoll", "wPoll"}

\* A request nobody polls for is that of the late call, whose update it still
\* carries unharmed; a thread past its first mailbox write finds the firmware
\* without a request, or polls for its own.
LateKept ==
  /\ mb.ready => late = {}
  /\ \A c, d \in late : c = d
  /\ ~clash =>
       /\ \A t \in Threads : th[t].pc \in ReadPC \cup WritePC =>
            th[t].pc = "rAddr" \/ (th[t].pc \in Poll /\ late = {}) \/ mb.ready
       /\ ~mb.ready /\ mb.op \in {"WRITE", "WRITE32"} =>
            late # {} \/ \E t \in Threads : th[t].pc \in Poll
       /\ \A c \in late :
            /\ mb.addrlo = c.addr.lo /\ mb.addrhi = c.addr.hi
            /\ mb.op = IF c.wide THEN "WRITE32" ELSE "WRITE"
            /\ \A h \in Halves(c) : mb.data[h] = IF h = c.half THEN c.val ELSE reg[c.addr][h]

\* The inductive invariant: ExchangeIntact names, for every program counter of
\* the exchange, what of it is in the mailbox and in the thread's word; LateKept
\* what a call that gave up has left there.
IInv == TypeOK /\ LockOwned /\ LateKept /\ ExchangeIntact

ThreadState == [pc : PC, call : Calls, word : Word, busyRetry : 0 .. MaxBusyRetry,
                ok : BOOLEAN, ret : BOOLEAN]

LEMMA CallParts ==
  ASSUME NEW c \in Calls
  PROVE  /\ c.addr \in Addr /\ c.half \in Half /\ c.val \in Value /\ c.wide \in BOOLEAN
         /\ ~c.wide => c.half = "lo"
         /\ c.addr.lo \in AddrLo /\ c.addr.hi \in AddrHi
         /\ c.addr = [hi |-> c.addr.hi, lo |-> c.addr.lo]
         /\ c.half \in Halves(c) /\ Halves(c) \subseteq Half /\ "lo" \in Halves(c)
         /\ Halves(c) = IF c.wide THEN {"lo", "hi"} ELSE {"lo"}
BY CallsAssumption DEF Call, Addr, Halves, Half

LEMMA InitInv == Init => IInv
<1> SUFFICES ASSUME Init PROVE IInv
  OBVIOUS
<1>1. TypeOK
  <2>1. [h \in Half |-> Zero] \in Word /\ [Half -> {Zero}] \subseteq Word
    BY ZeroAssumption DEF Word
  <2>2. mb \in [addrlo : AddrLo, data : Word, addrhi : AddrHi, op : Op, ready : BOOLEAN]
    BY <2>1 DEF Init, Op
  <2>3. reg \in [Addr -> Word]
    BY <2>1 DEF Init
  <2>4. 0 \in 0 .. MaxBusyRetry /\ "idle" \in PC
    BY RetryAssumption DEF PC
  <2>5. th \in [Threads -> ThreadState]
    <3> DEFINE S == [pc : {"idle"}, call : Calls, word : [Half -> {Zero}],
                     busyRetry : {0}, ok : {TRUE}, ret : {TRUE}]
    <3>1. \A x \in S : x \in ThreadState
      BY <2>1, <2>4 DEF ThreadState
    <3>2. th \in [Threads -> S]
      BY DEF Init
    <3> HIDE DEF S
    <3> QED BY <3>1, <3>2
  <2>6. late \in SUBSET Calls /\ clash \in BOOLEAN
    BY DEF Init
  <2> QED BY <2>2, <2>3, <2>5, <2>6 DEF Init, TypeOK, ThreadState
<1>2. LockOwned
  BY NoThreadAssumption DEF Init, LockOwned, Inside, ReadPC, WritePC
<1>3. LateKept
  BY DEF Init, LateKept, ReadPC, WritePC
<1>4. ExchangeIntact
  BY DEF Init, ExchangeIntact, Exchange, WritePC
<1> QED BY <1>1, <1>2, <1>3, <1>4 DEF IInv

-----------------------------------------------------------------------------
(* Types                                                                    *)

LEMMA TypeStep == TypeOK /\ [Next]_vars => TypeOK'
<1> SUFFICES ASSUME TypeOK, [Next]_vars PROVE TypeOK'
  OBVIOUS
<1> DEFINE Mb == [addrlo : AddrLo, data : Word, addrhi : AddrHi, op : Op, ready : BOOLEAN]
<1>0. mb \in Mb /\ th \in [Threads -> ThreadState] /\ reg \in [Addr -> Word]
  BY DEF TypeOK, ThreadState
<1>1. ASSUME NEW t \in Threads, Step(t) PROVE TypeOK'
  <2>1. th[t] \in ThreadState /\ th[t].call \in Calls /\ th[t].word \in Word
    BY <1>0 DEF ThreadState
  <2>2. lock' \in Threads \cup {NoThread}
    BY <1>1 DEF TypeOK, Step, Enter, Lock, Fail, Unlock, ReadAddr, ReadCmd, ReadLo, ReadHi,
       WriteLo, WriteHi, WriteAddr, WriteCmd, PollReady, PollBusy, PollGivesUp
  <2>3. mb' \in Mb
    <3>1. CASE ReadAddr(t) \/ ReadCmd(t) \/ WriteAddr(t) \/ WriteCmd(t)
      BY <1>0, <2>1, <3>1, CallParts DEF ReadAddr, ReadCmd, WriteAddr, WriteCmd, Op
    <3>2. CASE WriteLo(t) \/ WriteHi(t)
      <4>1. \A h \in Half : [mb.data EXCEPT ![h] = th[t].word[h]] \in Word
        BY <1>0, <2>1 DEF Word
      <4>2. PICK h \in Half : mb' = [mb EXCEPT !.data = [mb.data EXCEPT ![h] = th[t].word[h]]]
        BY <1>0, <3>2 DEF WriteLo, WriteHi, Half
      <4>3. [mb.data EXCEPT ![h] = th[t].word[h]] \in Word
          BY <4>1
        <4> DEFINE d == [mb.data EXCEPT ![h] = th[t].word[h]]
        <4> HIDE DEF d
        <4> QED BY <1>0, <4>2, <4>3 DEF d
    <3>3. CASE UNCHANGED mb
      BY <1>0, <3>3
    <3> QED BY <1>1, <3>1, <3>2, <3>3 DEF Step, Enter, Lock, Fail, Unlock, ReadLo, ReadHi,
           PollReady, PollBusy, PollGivesUp
  <2>4. reg' = reg
    BY <1>1 DEF Step, Enter, Lock, Fail, Unlock, ReadAddr, ReadCmd, ReadLo, ReadHi,
       WriteLo, WriteHi, WriteAddr, WriteCmd, PollReady, PollBusy, PollGivesUp
  <2>5. th' \in [Threads -> ThreadState]
    <3>1. ASSUME NEW c \in Calls, Enter(t, c) PROVE th' \in [Threads -> ThreadState]
      <4> DEFINE r == [th[t] EXCEPT !.pc = "lock", !.call = c, !.ok = TRUE]
      <4>1. r \in ThreadState
        BY <1>0 DEF ThreadState, PC
      <4>2. th' = [th EXCEPT ![t] = r]
        BY <3>1 DEF Enter
      <4> HIDE DEF r
      <4> QED BY <1>0, <4>1, <4>2
    <3>2. ASSUME NEW pc \in PC, Goto(t, pc) PROVE th' \in [Threads -> ThreadState]
      BY <1>0, <3>2 DEF Goto, ThreadState
    <3>3. CASE Fail(t) \/ PollGivesUp(t) \/ Unlock(t)
      BY <1>0, <3>3 DEF Fail, PollGivesUp, Unlock, ThreadState, PC
    <3>4. CASE ReadCmd(t) \/ WriteCmd(t)
      BY <1>0, <3>4, RetryAssumption DEF ReadCmd, WriteCmd, ThreadState, PC, ReadPC, WritePC
    <3>5. CASE ReadLo(t)
      <4> DEFINE w == [th[t].word EXCEPT !["lo"] = mb.data["lo"]]
      <4>1. w \in Word /\ Modify(th[t].call, w) \in Word
        BY <1>0, <2>1, CallParts DEF Word, Half, Modify
      <4> HIDE DEF w
      <4>2. (IF th[t].call.wide THEN w ELSE Modify(th[t].call, w)) \in Word
        BY <4>1
      <4>3. (IF th[t].call.wide THEN "rHi" ELSE "wLo") \in PC
        BY DEF PC, ReadPC, WritePC
      <4> DEFINE r == [th[t] EXCEPT !.pc = IF th[t].call.wide THEN "rHi" ELSE "wLo",
                                    !.word = IF th[t].call.wide THEN w ELSE Modify(th[t].call, w)]
      <4>4. r \in ThreadState
        BY <1>0, <4>2, <4>3 DEF ThreadState
      <4>5. th' = [th EXCEPT ![t] = r]
        BY <3>5 DEF ReadLo, w
      <4> HIDE DEF r
      <4> QED BY <1>0, <4>4, <4>5
    <3>6. CASE ReadHi(t)
      <4> DEFINE w == Modify(th[t].call, [th[t].word EXCEPT !["hi"] = mb.data["hi"]])
      <4>1. w \in Word
        <5> DEFINE v == [th[t].word EXCEPT !["hi"] = mb.data["hi"]]
        <5>1. v \in Word
          BY <1>0 DEF Word, Half, ThreadState
        <5>2. w = [v EXCEPT ![th[t].call.half] = th[t].call.val]
          BY DEF Modify
        <5> HIDE DEF v
        <5> QED BY <2>1, <5>1, <5>2, CallParts DEF Word
      <4> HIDE DEF w
      <4> DEFINE r == [th[t] EXCEPT !.pc = "wLo", !.word = w]
      <4>2. r \in ThreadState
        BY <1>0, <4>1 DEF ThreadState, PC, WritePC
      <4>3. th' = [th EXCEPT ![t].pc = "wLo", ![t].word = w]
        BY <3>6 DEF ReadHi, w
      <4>4. th' = [th EXCEPT ![t] = r]
        BY <4>3
      <4> HIDE DEF r
      <4> QED BY <1>0, <4>2, <4>4
    <3>7. CASE PollBusy(t)
      BY <1>0, <3>7, RetryAssumption DEF PollBusy, ThreadState
    <3> QED
      BY <1>1, <3>1, <3>2, <3>3, <3>4, <3>5, <3>6, <3>7 DEF Step, Lock, ReadAddr, WriteLo, WriteHi,
         WriteAddr, PollReady, PC, ReadPC, WritePC
  <2>6. late' \in SUBSET Calls /\ clash' \in BOOLEAN
    BY <1>0, <1>1, <2>1 DEF TypeOK, Step, Enter, Lock, Fail, Unlock, ReadAddr, ReadCmd, ReadLo, ReadHi,
       WriteLo, WriteHi, WriteAddr, WriteCmd, PollReady, PollBusy, PollGivesUp, hist
  <2> QED BY <2>2, <2>3, <2>4, <2>5, <2>6 DEF TypeOK, ThreadState
<1>2. CASE Firmware
  <2> DEFINE a == [hi |-> mb.addrhi, lo |-> mb.addrlo]
  <2>1. a \in Addr /\ reg[a] \in Word /\ mb.data \in Word
    BY <1>0 DEF Addr
  <2>2. [mb.data EXCEPT !["lo"] = reg[a]["lo"]] \in Word /\ [reg[a] EXCEPT !["lo"] = mb.data["lo"]] \in Word
    BY <2>1 DEF Word, Half
  <2> HIDE DEF a
  <2>3. mb' \in Mb
    BY <1>0, <1>2, <2>1, <2>2 DEF Firmware, a
  <2>4. reg' \in [Addr -> Word]
    BY <1>0, <1>2, <2>1, <2>2 DEF Firmware, a
  <2> QED BY <1>2, <2>3, <2>4 DEF Firmware, TypeOK
<1>3. CASE UNCHANGED vars
  BY <1>3 DEF vars, hist, TypeOK
<1> QED BY <1>1, <1>2, <1>3 DEF Next

-----------------------------------------------------------------------------
(* The lock                                                                 *)

\* Only a thread that is inside the lock touches the mailbox, and only one is.
LEMMA OnlyOneInside ==
  ASSUME LockOwned, NEW t \in Threads, NEW u \in Threads, Inside(t), Inside(u)
  PROVE  t = u
BY DEF LockOwned

LEMMA OthersKept ==
  ASSUME TypeOK, NEW t \in Threads, Step(t)
  PROVE  /\ \A u \in Threads \ {t} : th'[u] = th[u]
         /\ UNCHANGED reg
         /\ ~Inside(t) => UNCHANGED mb
BY DEF TypeOK, Step, Goto, Inside, Enter, Lock, Fail, Unlock, ReadAddr, ReadCmd, ReadLo, ReadHi,
   WriteLo, WriteHi, WriteAddr, WriteCmd, PollReady, PollBusy, PollGivesUp, ReadPC, WritePC

\* Where the program counter of a thread goes.
LEMMA PcStep ==
  ASSUME TypeOK, NEW t \in Threads, Step(t)
  PROVE  \/ th[t].pc = "idle" /\ th'[t].pc = "lock" /\ UNCHANGED lock
         \/ th[t].pc = "lock" /\ th'[t].pc = "rAddr" /\ Lock(t)
         \/ /\ Inside(t) /\ th[t].pc # "unlock" /\ UNCHANGED lock
            /\ th'[t].pc \in ReadPC \cup WritePC \cup {"unlock"}
         \/ th[t].pc = "unlock" /\ th'[t].pc = "idle" /\ Unlock(t)
<1>1. CASE \E c \in Calls : Enter(t, c)
  BY <1>1 DEF Enter, TypeOK
<1>2. CASE Lock(t)
  BY <1>2 DEF Lock, Goto, TypeOK
<1>3. CASE Unlock(t)
  BY <1>3 DEF Unlock, TypeOK
<1>4. CASE Fail(t) \/ PollGivesUp(t) \/ PollBusy(t) \/ PollReady(t)
  BY <1>4 DEF Fail, PollGivesUp, PollBusy, PollReady, Goto, TypeOK, Inside, ReadPC, WritePC
<1>5. CASE ReadAddr(t) \/ ReadCmd(t) \/ ReadHi(t) \/ WriteLo(t) \/ WriteHi(t) \/ WriteAddr(t) \/ WriteCmd(t)
  BY <1>5 DEF ReadAddr, ReadCmd, ReadHi, WriteLo, WriteHi, WriteAddr, WriteCmd, Goto, TypeOK,
     Inside, ReadPC, WritePC
<1>6. CASE ReadLo(t)
  BY <1>6 DEF ReadLo, TypeOK, Inside, ReadPC, WritePC
<1> QED BY <1>1, <1>2, <1>3, <1>4, <1>5, <1>6 DEF Step

LEMMA LockStep == Locking /\ TypeOK /\ LockOwned /\ [Next]_vars => LockOwned'
<1> SUFFICES ASSUME Locking, TypeOK, LockOwned, [Next]_vars PROVE LockOwned'
  OBVIOUS
<1>1. ASSUME NEW t \in Threads, Step(t) PROVE LockOwned'
  <2>1. CASE ~Inside(t) /\ ~Inside(t)' /\ UNCHANGED lock
    BY <1>1, <2>1, OthersKept DEF LockOwned, Inside
  <2>2. CASE Inside(t) /\ Inside(t)' /\ UNCHANGED lock
    BY <1>1, <2>2, OthersKept DEF LockOwned, Inside
  <2>3. CASE Lock(t) /\ th'[t].pc = "rAddr"
    BY <1>1, <2>3, OthersKept, NoThreadAssumption DEF LockOwned, Inside, Lock, ReadPC
  <2>4. CASE Unlock(t) /\ th[t].pc = "unlock" /\ th'[t].pc = "idle"
    BY <1>1, <2>4, OthersKept, NoThreadAssumption DEF LockOwned, Inside, Unlock, ReadPC, WritePC
  <2> QED BY <1>1, <2>1, <2>2, <2>3, <2>4, PcStep DEF Inside, ReadPC, WritePC
<1>2. CASE Firmware
  BY <1>2 DEF Firmware, LockOwned, Inside
<1>3. CASE UNCHANGED vars
  BY <1>3 DEF vars, LockOwned, Inside
<1> QED BY <1>1, <1>2, <1>3 DEF Next

-----------------------------------------------------------------------------
(* The mailbox                                                              *)

\* Only a poll that gives up leaves a late call, and only the first write of an
\* exchange looks for one.
LEMMA HistKept ==
  ASSUME NEW t \in Threads, Step(t)
  PROVE  /\ ~PollGivesUp(t) => UNCHANGED late
         /\ ~ReadAddr(t) => UNCHANGED clash
BY DEF Step, Enter, Lock, Fail, Unlock, ReadAddr, ReadCmd, ReadLo, ReadHi,
   WriteLo, WriteHi, WriteAddr, WriteCmd, PollReady, PollBusy, PollGivesUp, hist

\* With a late call in the mailbox nobody is past the first write of an exchange.
LEMMA ReadyInside ==
  ASSUME IInv, ~clash, NEW t \in Threads, th[t].pc \in (ReadPC \cup WritePC) \ {"rAddr", "rPoll", "wPoll"}
  PROVE  mb.ready /\ late = {}
BY DEF IInv, LateKept, Poll

LEMMA LateStep == IInv /\ [Next]_vars => LateKept'
<1> SUFFICES ASSUME IInv, [Next]_vars PROVE LateKept'
  OBVIOUS
<1> USE DEF IInv
<1>1. ASSUME NEW t \in Threads, Step(t) PROVE LateKept'
  <2>0. UNCHANGED reg /\ \A u \in Threads \ {t} : th'[u] = th[u]
    BY <1>1, OthersKept
  <2>1. CASE ReadAddr(t)
    <3>1. /\ mb'.ready = mb.ready /\ UNCHANGED late /\ clash' = ~mb.ready
          /\ th[t].pc = "rAddr" /\ th'[t].pc = "rCmd"
      BY <2>1 DEF ReadAddr, Goto, TypeOK
    <3>2. ASSUME NEW u \in Threads \ {t} PROVE th'[u].pc \notin ReadPC \cup WritePC
      BY <2>0, <3>1, OnlyOneInside DEF Inside, ReadPC
    <3>3. clash' \/ (mb'.ready /\ late' = {})
      BY <3>1 DEF LateKept
    <3> QED BY <3>1, <3>3 DEF LateKept
  <2>2. CASE PollGivesUp(t)
    <3>1. /\ UNCHANGED <<mb, clash>> /\ th[t].pc \in Poll /\ th'[t].pc = "unlock"
          /\ late' = IF th[t].pc = "wPoll" /\ ~mb.ready THEN {th[t].call} ELSE late
      BY <2>2 DEF PollGivesUp, TypeOK, Poll
    <3>2. ASSUME NEW u \in Threads \ {t} PROVE th'[u].pc \notin ReadPC \cup WritePC
      BY <2>0, <3>1, OnlyOneInside DEF Inside, Poll, ReadPC, WritePC
    <3>3. ASSUME NEW u \in Threads PROVE th'[u].pc \notin ReadPC \cup WritePC
      BY <3>1, <3>2 DEF ReadPC, WritePC
    <3>4. (mb.ready => late' = {}) /\ \A c, d \in late' : c = d
      BY <3>1 DEF LateKept
    <3>5. ASSUME ~clash
          PROVE  /\ ~mb.ready /\ mb.op \in {"WRITE", "WRITE32"} => late' # {}
                 /\ \A c \in late' :
                      /\ mb.addrlo = c.addr.lo /\ mb.addrhi = c.addr.hi
                      /\ mb.op = IF c.wide THEN "WRITE32" ELSE "WRITE"
                      /\ \A h \in Halves(c) : mb.data[h] = IF h = c.half THEN c.val ELSE reg[c.addr][h]
      <4>1. Exchange(t)
        BY <3>5 DEF ExchangeIntact
      <4>2. CASE th[t].pc = "wPoll"
        BY <3>1, <3>5, <4>1, <4>2 DEF Exchange, LateKept, WritePC
      <4>3. CASE th[t].pc = "rPoll"
        BY <3>1, <3>5, <4>1, <4>3 DEF Exchange, LateKept
      <4> QED BY <3>1, <4>2, <4>3 DEF Poll
    <3> QED BY <2>0, <3>1, <3>3, <3>4, <3>5 DEF LateKept
  <2>3. CASE ReadCmd(t) \/ WriteCmd(t)
    <3>1. /\ UNCHANGED <<late, clash>> /\ th[t].pc \in {"rCmd", "wCmd"} /\ th'[t].pc \in Poll
          /\ mb'.ready = FALSE
      <4>1. CASE ReadCmd(t)
        BY <4>1 DEF ReadCmd, TypeOK, Poll, hist
      <4>2. CASE WriteCmd(t)
        BY <4>2 DEF WriteCmd, TypeOK, Poll, hist
      <4> QED BY <2>3, <4>1, <4>2
    <3>2. ASSUME NEW u \in Threads \ {t} PROVE th'[u].pc \notin ReadPC \cup WritePC
      BY <2>0, <3>1, OnlyOneInside DEF Inside, ReadPC, WritePC
    <3>3. ~clash => late = {}
      BY <3>1, ReadyInside DEF ReadPC, WritePC
    <3> QED BY <3>1, <3>2, <3>3 DEF LateKept
  <2>4. CASE WriteLo(t) \/ WriteHi(t) \/ WriteAddr(t)
    <3>1. /\ UNCHANGED <<late, clash>> /\ mb'.ready = mb.ready
          /\ th[t].pc \in {"wLo", "wHi", "wAddr"} /\ th'[t].pc \in {"wHi", "wAddr", "wCmd"}
      BY <2>4 DEF WriteLo, WriteHi, WriteAddr, Goto, TypeOK, hist
    <3>2. ASSUME NEW u \in Threads \ {t} PROVE th'[u].pc \notin ReadPC \cup WritePC
      BY <2>0, <3>1, OnlyOneInside DEF Inside, ReadPC, WritePC
    <3>3. ~clash => mb.ready /\ late = {}
      BY <3>1, ReadyInside DEF ReadPC, WritePC
    <3> QED BY <3>1, <3>2, <3>3 DEF LateKept
  <2>5. CASE PollBusy(t) \/ PollReady(t) \/ ReadLo(t) \/ ReadHi(t)
    <3>1. /\ UNCHANGED <<late, clash, mb>> /\ th[t].pc \in ReadPC \cup WritePC
          /\ \/ th'[t].pc = th[t].pc
             \/ mb.ready
             \/ th[t].pc \in {"rLo", "rHi"} /\ th'[t].pc \in {"rHi", "wLo"}
      BY <2>5 DEF PollBusy, PollReady, ReadLo, ReadHi, TypeOK, hist, ReadPC, WritePC
    <3>2. ASSUME NEW u \in Threads \ {t} PROVE th'[u].pc \notin ReadPC \cup WritePC
      BY <2>0, <3>1, OnlyOneInside DEF Inside, ReadPC, WritePC
    <3>3. clash \/ th'[t].pc = th[t].pc \/ mb.ready
      BY <3>1, ReadyInside DEF ReadPC
    <3>4. CASE th'[t].pc = th[t].pc
      BY <2>0, <3>1, <3>2, <3>4 DEF LateKept
    <3>5. CASE clash \/ mb.ready
      BY <2>0, <3>1, <3>2, <3>5 DEF LateKept
    <3> QED BY <3>3, <3>4, <3>5
  <2>6. CASE (\E c \in Calls : Enter(t, c)) \/ Lock(t) \/ Unlock(t) \/ Fail(t)
    <3>1. /\ UNCHANGED <<late, clash, mb>> /\ th[t].pc \notin Poll
          /\ th'[t].pc \notin (ReadPC \cup WritePC) \ {"rAddr"}
      <4>1. ASSUME NEW c \in Calls, Enter(t, c)
            PROVE  UNCHANGED <<late, clash, mb>> /\ th[t].pc = "idle" /\ th'[t].pc = "lock"
        BY <4>1 DEF Enter, TypeOK, hist
      <4>2. CASE Lock(t) \/ Unlock(t) \/ Fail(t)
        BY <4>2 DEF Lock, Unlock, Fail, Goto, TypeOK, hist, ReadPC, WritePC, Poll
      <4> QED BY <2>6, <4>1, <4>2 DEF ReadPC, WritePC, Poll
    <3>2. ASSUME NEW u \in Threads, th[u].pc \in Poll PROVE th'[u].pc \in Poll
      BY <2>0, <3>1, <3>2
    <3>3. ASSUME NEW u \in Threads, th'[u].pc \in ReadPC \cup WritePC
          PROVE  th'[u].pc = "rAddr" \/ th'[u] = th[u]
      BY <2>0, <3>1, <3>3
    <3> QED BY <2>0, <3>1, <3>2, <3>3 DEF LateKept
  <2> QED BY <1>1, <2>1, <2>2, <2>3, <2>4, <2>5, <2>6 DEF Step
<1>2. CASE Firmware
  <2>1. mb'.ready = TRUE /\ late' = {} /\ UNCHANGED <<th, clash>>
    BY <1>2 DEF Firmware, TypeOK
  <2> QED BY <2>1 DEF LateKept
<1>3. CASE UNCHANGED vars
  BY <1>3 DEF vars, hist, LateKept
<1> QED BY <1>1, <1>2, <1>3 DEF Next

\* A thread outside the exchange has no part of it to keep.
LEMMA ExchangeOutside ==
  ASSUME NEW t \in Threads, th[t].pc \notin ReadPC \cup WritePC
  PROVE  Exchange(t)
BY DEF Exchange, ReadPC, WritePC

LEMMA ExchangeStep == IInv /\ [Next]_vars => ExchangeIntact'
<1> SUFFICES ASSUME IInv, [Next]_vars PROVE ExchangeIntact'
  OBVIOUS
<1> USE DEF IInv
<1>1. ASSUME NEW t \in Threads, Step(t) PROVE ExchangeIntact'
  <2>r. CASE ReadAddr(t)
    <3>1. th[t].pc = "rAddr" /\ th'[t].pc = "rCmd" /\ mb'.addrlo = th'[t].call.addr.lo
      BY <2>r, CallParts DEF ReadAddr, Goto, TypeOK
    <3>2. ASSUME NEW u \in Threads \ {t} PROVE th'[u].pc \notin ReadPC \cup WritePC
      BY <1>1, <3>1, OthersKept, OnlyOneInside DEF Inside, ReadPC
    <3>3. Exchange(t)'
      BY <3>1 DEF Exchange, WritePC
    <3>4. ASSUME NEW u \in Threads \ {t} PROVE Exchange(u)'
      BY <3>2 DEF Exchange, ReadPC, WritePC
    <3> QED BY <3>3, <3>4 DEF ExchangeIntact
  <2> SUFFICES ASSUME ~ReadAddr(t), ~clash PROVE ExchangeIntact'
    BY <1>1, <2>r, HistKept DEF ExchangeIntact
  <2> DEFINE c == th[t].call
  <2>0. c \in Calls /\ th[t].word \in Word /\ mb.data \in Word /\ reg[c.addr] \in Word
    BY CallParts DEF TypeOK
  <2>c. /\ c.half \in Half /\ c.wide \in BOOLEAN /\ (~c.wide => c.half = "lo")
        /\ Halves(c) = IF c.wide THEN {"lo", "hi"} ELSE {"lo"}
    BY <2>0, CallParts
  <2>e. Exchange(t)
    BY DEF ExchangeIntact
  <2>1. ASSUME NEW u \in Threads \ {t} PROVE Exchange(u)'
    <3>1. th'[u] = th[u] /\ UNCHANGED reg
      BY <1>1, OthersKept
    <3>2. CASE ~Inside(t)
      <4>1. UNCHANGED mb
        BY <1>1, <3>2, OthersKept
      <4> QED BY <3>1, <4>1 DEF ExchangeIntact, Exchange
    <3>3. CASE Inside(t)
      <4>1. ~Inside(u)
        BY <3>3, OnlyOneInside
      <4> QED BY <3>1, <4>1 DEF Inside, Exchange, ReadPC, WritePC
    <3> QED BY <3>2, <3>3
  <2>2. Exchange(t)'
    <3> USE DEF TypeOK
    <3>1. CASE th'[t].pc \notin ReadPC \cup WritePC
      BY <3>1 DEF Exchange, ReadPC, WritePC
    <3>2. CASE Lock(t)
      BY <3>2 DEF Lock, Goto, Exchange, WritePC
    <3>4. CASE ReadCmd(t)
      BY <3>4, <2>0, CallParts DEF ReadCmd, Goto, Exchange, WritePC, ExchangeIntact
    <3>5. CASE PollReady(t)
      BY <3>5, <2>0, CallParts DEF PollReady, Goto, Exchange, WritePC, ExchangeIntact
    <3>6. CASE PollBusy(t)
      BY <3>6, <2>0, CallParts DEF PollBusy, Goto, Exchange, WritePC, ExchangeIntact
    <3>7. CASE ReadLo(t)
      <4>1. c.wide => th'[t].pc = "rHi" /\ th'[t].word["lo"] = mb.data["lo"]
        BY <3>7, <2>0 DEF ReadLo, Word, Half
      <4>2. ~c.wide => th'[t].pc = "wLo" /\ th'[t].word["lo"] = c.val
        <5> SUFFICES ASSUME ~c.wide PROVE th'[t].pc = "wLo" /\ th'[t].word["lo"] = c.val
          OBVIOUS
        <5> DEFINE m == Modify(c, [th[t].word EXCEPT !["lo"] = mb.data["lo"]])
        <5>1. m["lo"] = c.val
          BY <2>0, <2>c DEF Word, Half, Modify
        <5>2. th' = [th EXCEPT ![t].pc = "wLo", ![t].word = m]
          BY <3>7 DEF ReadLo
        <5> HIDE DEF m
        <5>3. th'[t].pc = "wLo" /\ th'[t].word = m
          BY <5>2
        <5> QED BY <5>1, <5>3
      <4>3. th'[t].call = c /\ UNCHANGED <<mb, reg>> /\ th[t].pc = "rLo"
        BY <3>7 DEF ReadLo
      <4> QED BY <4>1, <4>2, <4>3, <2>0, <2>c, <2>e DEF Exchange, WritePC
    <3>8. CASE ReadHi(t)
      <4>1. \A h \in Half : th'[t].word[h] = IF h = c.half THEN c.val
                              ELSE IF h = "hi" THEN mb.data["hi"] ELSE th[t].word["lo"]
        BY <3>8, <2>0, <2>c, <2>e DEF ReadHi, Word, Half, Modify
      <4>2. th'[t].call = c /\ UNCHANGED <<mb, reg>> /\ th[t].pc = "rHi" /\ th'[t].pc = "wLo"
        BY <3>8 DEF ReadHi
      <4> QED BY <4>1, <4>2, <2>0, <2>c, <2>e DEF Exchange, WritePC, Half
    <3>9. CASE WriteLo(t)
      <4>1. mb'.data["lo"] = th[t].word["lo"] /\ UNCHANGED reg
        BY <3>9, <2>0 DEF WriteLo, Word, Half
      <4>2. th'[t].call = c /\ th'[t].word = th[t].word /\ th[t].pc = "wLo"
            /\ th'[t].pc = IF c.wide THEN "wHi" ELSE "wAddr"
        BY <3>9 DEF WriteLo, Goto
      <4> QED BY <4>1, <4>2, <2>0, <2>c, <2>e DEF Exchange, WritePC
    <3>10. CASE WriteHi(t)
      <4>1. \A h \in Half : mb'.data[h] = IF h = "hi" THEN th[t].word["hi"] ELSE mb.data["lo"]
        BY <3>10, <2>0 DEF WriteHi, Word, Half
      <4>2. th'[t].call = c /\ th'[t].word = th[t].word /\ th[t].pc = "wHi" /\ th'[t].pc = "wAddr"
            /\ UNCHANGED reg
        BY <3>10 DEF WriteHi, Goto
      <4> QED BY <4>1, <4>2, <2>0, <2>c, <2>e DEF Exchange, WritePC, Half
    <3>11. CASE WriteAddr(t)
      BY <3>11, <2>0, <2>c, <2>e DEF WriteAddr, Goto, Exchange, WritePC
    <3>12. CASE WriteCmd(t)
      <4>1. /\ th'[t].call = c /\ th'[t].word = th[t].word /\ th'[t].pc = "wPoll" /\ th[t].pc = "wCmd"
            /\ UNCHANGED reg /\ mb'.data = mb.data /\ mb'.addrlo = mb.addrlo
            /\ mb'.addrhi = c.addr.hi /\ mb'.op = IF c.wide THEN "WRITE32" ELSE "WRITE"
        BY <3>12, <2>0 DEF WriteCmd
      <4> QED BY <4>1, <2>e DEF Exchange, WritePC
    <3>13. CASE (\E d \in Calls : Enter(t, d)) \/ Fail(t) \/ Unlock(t) \/ PollGivesUp(t)
      <4>1. ASSUME NEW d \in Calls, Enter(t, d) PROVE th'[t].pc \notin ReadPC \cup WritePC
        BY <4>1 DEF Enter, ReadPC, WritePC
      <4>2. CASE Fail(t) \/ Unlock(t) \/ PollGivesUp(t)
        BY <3>1, <4>2 DEF Fail, Unlock, PollGivesUp, ReadPC, WritePC
      <4> QED BY <3>1, <3>13, <4>1, <4>2
    <3> QED BY <1>1, <3>2, <3>4, <3>5, <3>6, <3>7, <3>8, <3>9, <3>10, <3>11, <3>12, <3>13 DEF Step
  <2> QED BY <2>1, <2>2 DEF ExchangeIntact
<1>2. CASE Firmware
  <2> SUFFICES ASSUME ~clash PROVE ExchangeIntact'
    BY <1>2 DEF Firmware, ExchangeIntact
  <2>0. CASE \A t \in Threads : th[t].pc \notin Poll
    <3>1. ASSUME NEW u \in Threads PROVE th'[u].pc \notin (ReadPC \cup WritePC) \ {"rAddr"}
      BY <1>2, <2>0 DEF Firmware, LateKept
    <3>2. ASSUME NEW u \in Threads PROVE Exchange(u)'
      BY <3>1 DEF Exchange, ReadPC, WritePC
    <3> QED BY <3>2 DEF ExchangeIntact
  <2> SUFFICES ASSUME NEW t \in Threads, th[t].pc \in Poll PROVE ExchangeIntact'
    BY <2>0
  <2>1. th[t].pc \in {"rPoll", "wPoll"}
    BY DEF Poll
  <2> DEFINE c == th[t].call
             a == [hi |-> mb.addrhi, lo |-> mb.addrlo]
  <2>2. ASSUME NEW u \in Threads \ {t} PROVE Exchange(u)'
    <3>1. Inside(t)
      BY <2>1 DEF Inside, ReadPC, WritePC
    <3>2. ~Inside(u)
      BY <3>1, OnlyOneInside
    <3> QED BY <1>2, <3>2 DEF Firmware, Inside, Exchange, ReadPC, WritePC
  <2>3. Exchange(t)'
    <3>0. c \in Calls /\ th[t].word \in Word /\ mb.data \in Word /\ reg[c.addr] \in Word
      BY CallParts DEF TypeOK
    <3>1. a = c.addr /\ c.addr \in Addr
      BY <2>1, <3>0, CallParts DEF ExchangeIntact, Exchange
    <3>2. CASE th[t].pc = "rPoll"
      <4>1. mb.op = IF c.wide THEN "READ32" ELSE "READ"
        BY <3>2 DEF ExchangeIntact, Exchange
      <4>2. UNCHANGED <<reg, th>> /\ \A h \in Halves(c) : mb'.data[h] = reg[c.addr][h]
        <5>1. CASE c.wide
          BY <1>2, <3>0, <3>1, <4>1, <5>1, CallParts DEF Firmware, TypeOK, Word
        <5>2. CASE ~c.wide
          BY <1>2, <3>0, <3>1, <4>1, <5>2, CallParts DEF Firmware, TypeOK, Word, Half
        <5> QED BY <5>1, <5>2, <3>0, CallParts
      <4>3. mb'.addrlo = mb.addrlo /\ mb'.addrhi = mb.addrhi /\ mb'.op = mb.op
        BY <1>2 DEF Firmware, TypeOK
      <4> QED BY <3>2, <4>1, <4>2, <4>3 DEF Exchange, ExchangeIntact, WritePC
    <3>3. CASE th[t].pc = "wPoll"
      <4>1. mb.op = IF c.wide THEN "WRITE32" ELSE "WRITE"
        BY <3>3 DEF ExchangeIntact, Exchange
      <4>2. \A h \in Halves(c) : mb.data[h] = th[t].word[h]
        BY <3>3 DEF ExchangeIntact, Exchange
      <4>3. UNCHANGED th /\ mb' = [mb EXCEPT !.ready = TRUE]
        BY <1>2, <4>1, <3>0, CallParts DEF Firmware, TypeOK
      <4>4. \A h \in Halves(c) : reg'[c.addr][h] = mb.data[h]
        <5>1. CASE c.wide
          BY <1>2, <3>0, <3>1, <4>1, <5>1 DEF Firmware, TypeOK, Word
        <5>2. CASE ~c.wide
          BY <1>2, <3>0, <3>1, <4>1, <5>2, CallParts DEF Firmware, TypeOK, Word, Half
        <5> QED BY <5>1, <5>2, <3>0, CallParts
      <4>5. \A h \in Halves(c) : th[t].word[h] = reg'[c.addr][h]
        BY <4>2, <4>4
      <4>6. \A h \in Halves(c) : h = c.half => th[t].word[h] = c.val
        BY <3>3 DEF ExchangeIntact, Exchange, WritePC
      <4>7. mb'.addrlo = mb.addrlo /\ mb'.addrhi = mb.addrhi /\ mb'.op = mb.op /\ mb'.data = mb.data
        BY <4>3 DEF TypeOK
      <4> QED BY <3>3, <4>1, <4>2, <4>3, <4>5, <4>6, <4>7 DEF Exchange, ExchangeIntact, WritePC
    <3> QED BY <2>1, <3>2, <3>3
  <2> QED BY <2>2, <2>3 DEF ExchangeIntact
<1>3. CASE UNCHANGED vars
  BY <1>3 DEF vars, hist, ExchangeIntact, Exchange
<1> QED BY <1>1, <1>2, <1>3 DEF Next

\* Until it is about to unlock, a call has met no error.
NoErrorYet == \A t \in Threads : th[t].pc \notin {"idle", "unlock"} => th[t].ok

LEMMA NoErrorStep == TypeOK /\ NoErrorYet /\ [Next]_vars => NoErrorYet'
<1> SUFFICES ASSUME TypeOK, NoErrorYet, [Next]_vars PROVE NoErrorYet'
  OBVIOUS
<1>1. ASSUME NEW t \in Threads, Step(t) PROVE NoErrorYet'
  <2>1. th'[t].pc \notin {"idle", "unlock"} => th'[t].ok
    <3>1. ASSUME NEW c \in Calls, Enter(t, c) PROVE th'[t].ok
      BY <3>1 DEF Enter, TypeOK
    <3>2. CASE Fail(t) \/ Unlock(t) \/ PollGivesUp(t)
      BY <3>2 DEF Fail, Unlock, PollGivesUp, TypeOK
    <3>3. CASE \/ Lock(t) \/ ReadAddr(t) \/ ReadCmd(t) \/ ReadHi(t) \/ WriteLo(t) \/ WriteHi(t)
               \/ WriteAddr(t) \/ WriteCmd(t) \/ PollBusy(t) \/ PollReady(t)
      BY <3>3 DEF Lock, ReadAddr, ReadCmd, ReadHi, WriteLo, WriteHi, WriteAddr, WriteCmd, PollBusy,
         PollReady, Goto, TypeOK, NoErrorYet
    <3>4. CASE ReadLo(t)
      BY <3>4 DEF ReadLo, TypeOK, NoErrorYet
    <3> QED BY <1>1, <3>1, <3>2, <3>3, <3>4 DEF Step
  <2> QED BY <1>1, <2>1, OthersKept DEF NoErrorYet
<1>2. CASE Firmware
  BY <1>2 DEF Firmware, NoErrorYet
<1>3. CASE UNCHANGED vars
  BY <1>3 DEF vars, NoErrorYet
<1> QED BY <1>1, <1>2, <1>3 DEF Next

LEMMA Invariance == ASSUME Locking PROVE Spec => [](IInv /\ NoErrorYet)
<1>1. Init => IInv /\ NoErrorYet
  BY InitInv DEF Init, NoErrorYet
<1>2. IInv /\ NoErrorYet /\ [Next]_vars => IInv' /\ NoErrorYet'
  BY TypeStep, LockStep, LateStep, ExchangeStep, NoErrorStep DEF IInv
<1> QED BY <1>1, <1>2, PTL DEF Spec

\* The types of GphyMailbox hold whatever the lock, the firmware and the bus do.
THEOREM TypeCorrect == Spec => []TypeOK
<1>1. Init => TypeOK
  BY InitInv DEF IInv
<1> QED BY <1>1, TypeStep, PTL DEF Spec

\* phy->lock excludes all other threads on every path of a call, even when
\* the firmware answers late.
THEOREM MutualExclusion == ASSUME Locking PROVE Spec => []LockOwned
<1>1. Init => TypeOK /\ LockOwned
  BY InitInv DEF IInv
<1>2. TypeOK /\ LockOwned /\ [Next]_vars => TypeOK' /\ LockOwned'
  BY TypeStep, LockStep
<1> QED BY <1>1, <1>2, PTL DEF Spec

\* Nobody disturbs the mailbox exchange of a call that began with no request
\* outstanding, although calls before it may have given up on theirs.
THEOREM MailboxExchange == ASSUME Locking PROVE Spec => []ExchangeIntact
<1>1. IInv => ExchangeIntact
  BY DEF IInv
<1> QED BY <1>1, Invariance, PTL

-----------------------------------------------------------------------------
(* Refinement                                                               *)

Phases == [t \in Threads |-> Phase(t)]
Args == [t \in Threads |-> th[t].call]
Rets == [t \in Threads |-> th[t].ret]

LEMMA RefinementInit == Init => Api!Init
<1> SUFFICES ASSUME Init PROVE Api!Init
  OBVIOUS
<1>1. IInv
  BY InitInv
<1>2. /\ late = {} /\ clash = FALSE
      /\ reg \in [Addr -> [Half -> Value]] /\ Args \in [Threads -> Calls] /\ Rets \in [Threads -> BOOLEAN]
  BY <1>1 DEF Init, IInv, TypeOK, Word, Args, Rets
<1>3. Phases = [t \in Threads |-> "idle"]
  BY DEF Init, Phases, Phase
<1> QED BY <1>2, <1>3 DEF Api!Init, Args, Rets, Phases, Phase

\* Another thread's phase does not change with a step of thread t.
LEMMA OtherPhase ==
  ASSUME IInv, NEW t \in Threads, Step(t), NEW u \in Threads \ {t}
  PROVE  Phase(u)' = Phase(u) /\ th'[u] = th[u]
<1>1. th'[u] = th[u]
  BY OthersKept DEF IInv
<1>2. CASE Inside(t)
  <2>1. th[u].pc # "wPoll"
    BY <1>2, OnlyOneInside DEF IInv, Inside, WritePC
  <2> QED BY <1>1, <2>1 DEF Phase
<1>3. CASE ~Inside(t)
  <2>1. UNCHANGED mb
    BY <1>3, OthersKept DEF IInv
  <2> QED BY <1>1, <2>1 DEF Phase
<1> QED BY <1>2, <1>3

\* The firmware carries out the write of call c when it finds it whole.
LEMMA WriteServed ==
  ASSUME TypeOK, Firmware, NEW c \in Calls, mb.addrlo = c.addr.lo, mb.addrhi = c.addr.hi,
         mb.op = IF c.wide THEN "WRITE32" ELSE "WRITE",
         \A h \in Halves(c) : mb.data[h] = IF h = c.half THEN c.val ELSE reg[c.addr][h]
  PROVE  reg' = [reg EXCEPT ![c.addr][c.half] = c.val]
<1>1. /\ c.addr \in Addr /\ c.half \in Half /\ c.wide \in BOOLEAN /\ (~c.wide => c.half = "lo")
      /\ Halves(c) = IF c.wide THEN {"lo", "hi"} ELSE {"lo"}
      /\ mb.data \in Word /\ reg[c.addr] \in Word /\ reg \in [Addr -> Word]
  BY CallParts DEF TypeOK
<1>2. c.addr = [hi |-> mb.addrhi, lo |-> mb.addrlo]
  BY CallParts
<1>3. CASE c.wide
  <2>1. mb.data = [reg[c.addr] EXCEPT ![c.half] = c.val]
    BY <1>1, <1>3 DEF Word, Half
  <2> QED BY <1>1, <1>2, <1>3, <2>1 DEF Firmware
<1>4. CASE ~c.wide
  <2>1. mb.data["lo"] = c.val /\ c.half = "lo"
    BY <1>1, <1>4
  <2> QED BY <1>1, <1>2, <1>4, <2>1 DEF Firmware
<1> QED BY <1>3, <1>4

LEMMA RefinementStep == IInv /\ NoErrorYet /\ [Next]_vars => [Api!Next]_(Api!vars)
<1> SUFFICES ASSUME IInv, NoErrorYet, [Next]_vars, ~clash' PROVE [Api!Next]_(Api!vars)
  BY DEF Api!Next
<1> USE DEF IInv
<1>1. ASSUME NEW t \in Threads, Step(t) PROVE [Api!Next]_(Api!vars)
  <2>0. UNCHANGED reg /\ \A u \in Threads \ {t} : Phase(u)' = Phase(u) /\ th'[u] = th[u]
    BY <1>1, OthersKept, OtherPhase
  <2>r. CASE ReadAddr(t)
    <3>1. mb.ready /\ clash' = FALSE /\ UNCHANGED late /\ late = {}
      BY <2>r DEF ReadAddr, LateKept
    <3>2. Phase(t)' = Phase(t) /\ th'[t].call = th[t].call /\ th'[t].ret = th[t].ret
      BY <2>r DEF ReadAddr, Goto, TypeOK, Phase
    <3>3. UNCHANGED <<Phases, Args, Rets>>
      BY <2>0, <3>2 DEF Phases, Args, Rets
    <3>4. Api!Renew
      BY <2>0, <3>1, <3>3 DEF Api!Renew, Phases, Args, Rets
    <3> QED BY <3>4 DEF Api!Next
  <2> SUFFICES ASSUME ~ReadAddr(t), UNCHANGED clash, ~clash PROVE [Api!Next]_(Api!vars)
    BY <1>1, <2>r, HistKept
  <2>1. ASSUME NEW c \in Calls, Enter(t, c) PROVE [Api!Next]_(Api!vars)
    <3>1. /\ Phase(t) = "idle" /\ Phase(t)' = "open" /\ th'[t].call = c /\ th'[t].ret = th[t].ret
          /\ UNCHANGED late
      BY <2>1 DEF Enter, TypeOK, Phase, hist
    <3>2. Phases[t] = "idle" /\ Phases' = [Phases EXCEPT ![t] = "open"]
          /\ Args' = [Args EXCEPT ![t] = c] /\ Rets' = Rets
      BY <2>0, <3>1 DEF Phases, Args, Rets
    <3>3. Api!Invoke(t, c)
      BY <2>0, <3>1, <3>2 DEF Api!Invoke, Phases, Args, Rets
    <3> QED BY <3>3 DEF Api!Next, Api!Act
  <2>2. CASE Unlock(t)
    <3>1. /\ Phase(t) = IF th[t].ok THEN "done" ELSE "failed"
          /\ Phase(t)' = "idle" /\ th'[t].call = th[t].call /\ th'[t].ret = th[t].ok
          /\ th[t].ok \in BOOLEAN /\ UNCHANGED late
      BY <2>2 DEF Unlock, TypeOK, Phase, hist
    <3>2. Phases[t] \in {"done", "failed"} /\ (Phases[t] = "done" <=> th[t].ok)
      BY <3>1 DEF Phases
    <3>3. Phases' = [Phases EXCEPT ![t] = "idle"] /\ Args' = Args
          /\ Rets' = [Rets EXCEPT ![t] = th[t].ok]
      BY <2>0, <3>1 DEF Phases, Args, Rets
    <3>4. Rets' = [Rets EXCEPT ![t] = (Phases[t] = "done")]
      BY <3>1, <3>2, <3>3
    <3>5. Api!Return(t)
      BY <2>0, <3>1, <3>2, <3>3, <3>4 DEF Api!Return, Phases, Args, Rets
    <3> QED BY <3>5 DEF Api!Next, Api!Act
  <2>3. CASE Fail(t) \/ PollGivesUp(t)
    <3>1. /\ Phase(t) \in {"open", "done"} /\ Phase(t)' = "failed"
          /\ th'[t].call = th[t].call /\ th'[t].ret = th[t].ret
          /\ late' = late \/ (Phase(t) = "open" /\ late' = {th[t].call})
      BY <2>3 DEF Fail, PollGivesUp, TypeOK, Phase, hist, ReadPC, WritePC
    <3>2. Phases[t] = Phase(t) /\ Phases' = [Phases EXCEPT ![t] = "failed"] /\ Args' = Args
          /\ Rets' = Rets /\ Args[t] = th[t].call
      BY <2>0, <3>1 DEF Phases, Args, Rets
    <3>3. late' \in {late} \cup {{Args[t]} : s \in {Phases[t]} \cap {"open"}}
      BY <3>1, <3>2
    <3>4. Api!Abandon(t)
      BY <2>0, <3>1, <3>2, <3>3 DEF Api!Abandon, Phases, Args, Rets
    <3> QED BY <3>4 DEF Api!Next, Api!Act
  <2>4. ASSUME ~Unlock(t), ~\E c \in Calls : Enter(t, c), ~Fail(t), ~PollGivesUp(t)
        PROVE  [Api!Next]_(Api!vars)
    <3>1. th'[t].call = th[t].call /\ th'[t].ret = th[t].ret
      BY <1>1, <2>4 DEF Step, Lock, ReadAddr, ReadCmd, ReadLo, ReadHi, WriteLo, WriteHi,
         WriteAddr, WriteCmd, PollReady, PollBusy, Goto, TypeOK
    <3>2. Phase(t)' = Phase(t)
      <4>1. CASE PollReady(t)
        BY <4>1 DEF PollReady, Goto, TypeOK, Phase, NoErrorYet
      <4>2. CASE WriteCmd(t) \/ ReadCmd(t)
        <5>1. th[t].pc \in {"wCmd", "rCmd"} /\ th'[t].pc \in {"wPoll", "rPoll"}
          BY <4>2 DEF WriteCmd, ReadCmd, TypeOK
        <5>2. mb'.ready = FALSE
          BY <4>2 DEF WriteCmd, ReadCmd, TypeOK
        <5> QED BY <5>1, <5>2 DEF Phase
      <4>3. CASE PollBusy(t)
        BY <4>3 DEF PollBusy, TypeOK, Phase
      <4>5. CASE ReadLo(t)
        BY <4>5 DEF ReadLo, TypeOK, Phase
      <4>6. CASE ReadHi(t) \/ Lock(t) \/ WriteLo(t) \/ WriteHi(t) \/ WriteAddr(t)
        BY <4>6 DEF ReadHi, Lock, WriteLo, WriteHi, WriteAddr, Goto, TypeOK, Phase
      <4> QED BY <1>1, <2>4, <4>1, <4>2, <4>3, <4>5, <4>6 DEF Step
    <3>3. UNCHANGED <<reg, Phases, Args, Rets>>
      BY <2>0, <3>1, <3>2 DEF Phases, Args, Rets
    <3>4. UNCHANGED late
      BY <1>1, <2>4, HistKept
    <3> QED BY <3>3, <3>4 DEF Api!vars, Phases, Args, Rets
  <2> QED BY <2>1, <2>2, <2>3, <2>4
<1>2. CASE Firmware
  <2>0. ~clash /\ UNCHANGED <<clash, th>> /\ ~mb.ready /\ late' = {}
    BY <1>2 DEF Firmware
  <2>1. UNCHANGED <<Args, Rets>>
    BY <2>0 DEF Args, Rets
  <2>2. ASSUME NEW t \in Threads, th[t].pc \in Poll PROVE [Api!Next]_(Api!vars)
    <3>1. late = {}
      BY <2>0, <2>2 DEF LateKept, Poll, ReadPC, WritePC
    <3>2. \A u \in Threads \ {t} : Phase(u)' = Phase(u)
      <4>1. \A u \in Threads \ {t} : th[u].pc # "wPoll"
        BY <2>2, OnlyOneInside DEF Inside, Poll, ReadPC, WritePC
      <4> QED BY <2>0, <4>1 DEF Phase
    <3>3. th[t].call \in Calls /\ Exchange(t)
      BY <2>0 DEF TypeOK, ExchangeIntact
    <3>4. CASE th[t].pc = "rPoll"
      <4>1. mb.op \in {"READ", "READ32"}
        BY <3>3, <3>4 DEF Exchange
      <4>2. UNCHANGED reg
        BY <1>2, <4>1 DEF Firmware
      <4>3. Phase(t)' = Phase(t)
        BY <2>0, <3>4 DEF Phase
      <4>4. UNCHANGED Phases
        BY <3>2, <4>3 DEF Phases
      <4> QED BY <2>0, <2>1, <3>1, <4>2, <4>4 DEF Api!vars, Phases, Args, Rets
    <3>5. CASE th[t].pc = "wPoll"
      <4>1. Phase(t) = "open" /\ Phase(t)' = "done"
        BY <1>2, <2>0, <3>5 DEF Firmware, Phase, TypeOK
      <4>2. reg' = [reg EXCEPT ![th[t].call.addr][th[t].call.half] = th[t].call.val]
        <5> DEFINE c == th[t].call
        <5>1. /\ mb.addrlo = c.addr.lo /\ mb.addrhi = c.addr.hi
              /\ mb.op = IF c.wide THEN "WRITE32" ELSE "WRITE"
          BY <3>3, <3>5 DEF Exchange
        <5>2. \A h \in Halves(c) : mb.data[h] = IF h = c.half THEN c.val ELSE reg[c.addr][h]
          BY <3>3, <3>5 DEF Exchange, WritePC
        <5> QED BY <1>2, <3>3, <5>1, <5>2, WriteServed
      <4>3. Phases[t] = "open" /\ Phases' = [Phases EXCEPT ![t] = "done"] /\ Args[t] = th[t].call
        BY <3>2, <4>1 DEF Phases, Args
      <4>4. Api!Commit(t)
        BY <2>0, <2>1, <3>1, <4>2, <4>3 DEF Api!Commit, Api!Update, Phases, Args, Rets
      <4> QED BY <2>0, <4>4 DEF Api!Next, Api!Act
    <3> QED BY <2>2, <3>4, <3>5 DEF Poll
  <2>3. ASSUME \A t \in Threads : th[t].pc \notin Poll PROVE [Api!Next]_(Api!vars)
    <3>1. UNCHANGED Phases
      <4>1. \A t \in Threads : Phase(t)' = Phase(t)
        BY <2>0, <2>3 DEF Phase, Poll
      <4> QED BY <4>1 DEF Phases
    <3>2. CASE mb.op \in {"WRITE", "WRITE32"}
      <4>1. late # {}
        BY <2>0, <2>3, <3>2 DEF LateKept
      <4>2. PICK c \in late : TRUE
        BY <4>1
      <4>3. late' = late \ {c} /\ c \in Calls
        BY <2>0, <4>2 DEF LateKept, TypeOK
      <4>4. reg' = [reg EXCEPT ![c.addr][c.half] = c.val]
        <5>1. /\ mb.addrlo = c.addr.lo /\ mb.addrhi = c.addr.hi
              /\ mb.op = IF c.wide THEN "WRITE32" ELSE "WRITE"
              /\ \A h \in Halves(c) : mb.data[h] = IF h = c.half THEN c.val ELSE reg[c.addr][h]
          BY <2>0, <4>2 DEF LateKept
        <5> QED BY <1>2, <4>3, <5>1, WriteServed
      <4>5. Api!CommitLate(c)
        BY <2>1, <3>1, <4>2, <4>3, <4>4 DEF Api!CommitLate, Api!Update, Phases, Args, Rets
      <4> QED BY <2>0, <4>2, <4>5 DEF Api!Next, Api!Act
    <3>3. CASE mb.op \in {"READ", "READ32"}
      <4>1. UNCHANGED reg
        BY <1>2, <3>3 DEF Firmware
      <4>2. late = {}
        BY <2>0, <3>3 DEF LateKept
      <4> QED BY <2>0, <2>1, <3>1, <4>1, <4>2 DEF Api!vars, Phases, Args, Rets
    <3> QED BY <3>2, <3>3 DEF TypeOK, Op
  <2> QED BY <2>2, <2>3
<1>3. CASE UNCHANGED vars
  <2>1. UNCHANGED <<reg, Phases, Args, Rets, late, clash>>
    BY <1>3 DEF vars, hist, Phases, Phase, Args, Rets
  <2> QED BY <2>1 DEF Api!vars, Phases, Args, Rets
<1> QED BY <1>1, <1>2, <1>3 DEF Next

\* API calls through the mailbox are atomic updates of one register field,
\* the late ones included.
THEOREM Refinement == ASSUME Locking PROVE Spec => ImplementsApi
BY Invariance, RefinementStep, RefinementInit, PTL DEF Spec, ImplementsApi, Api!Spec

\* Is call c the one that has just set field h of register a?
Sets(c, a, h) == c.addr = a /\ c.half = h /\ reg'[a][h] = c.val

\* A register field takes no value but that of a call on this very field: one
\* that is open, or one that has returned an error and is carried out late.
FieldsAreTheCalls ==
  [][\A a \in Addr, h \in Half : reg'[a][h] # reg[a][h] =>
       \/ clash'
       \/ \E t \in Threads : th[t].pc # "idle" /\ Sets(th[t].call, a, h)
       \/ \E c \in late : Sets(c, a, h)]_vars

LEMMA FieldStep ==
  ASSUME TypeOK, [Api!Next]_(Api!vars), ~clash', NEW a \in Addr, NEW h \in Half,
         reg'[a][h] # reg[a][h]
  PROVE  \/ \E t \in Threads : th[t].pc # "idle" /\ Sets(th[t].call, a, h)
         \/ \E c \in late : Sets(c, a, h)
<1>1. ASSUME NEW c \in Calls, Api!Update(c) PROVE Sets(c, a, h)
  <2>1. reg' = [reg EXCEPT ![c.addr][c.half] = c.val]
    BY <1>1 DEF Api!Update
  <2>2. c.addr \in Addr /\ c.half \in Half /\ reg \in [Addr -> Word]
    BY CallParts DEF TypeOK
  <2>3. a = c.addr /\ h = c.half
    BY <2>1, <2>2 DEF Word
  <2> QED BY <2>1, <2>2, <2>3 DEF Word, Sets
<1>2. reg' # reg
  OBVIOUS
<1>3. (\E t \in Threads : Api!Commit(t)) \/ \E c \in late : Api!CommitLate(c)
  BY <1>2 DEF Api!Next, Api!Act, Api!Renew, Api!vars, Api!Invoke, Api!Abandon, Api!Return
<1>4. ASSUME NEW t \in Threads, Api!Commit(t) PROVE th[t].pc # "idle" /\ Sets(th[t].call, a, h)
  <2>1. Phase(t) = "open" /\ Api!Update(th[t].call) /\ th[t].call \in Calls
    BY <1>4 DEF Api!Commit, TypeOK
  <2> QED BY <1>1, <2>1 DEF Phase
<1>5. ASSUME NEW c \in late, Api!CommitLate(c) PROVE Sets(c, a, h)
  BY <1>1, <1>5 DEF Api!CommitLate, TypeOK
<1> QED BY <1>3, <1>4, <1>5

\* No update is lost: although a call writes the whole register back, the field
\* next to its own keeps the value the last call on that field gave it.
THEOREM NoLostUpdate == ASSUME Locking PROVE Spec => FieldsAreTheCalls
<1>1. IInv /\ NoErrorYet /\ [Next]_vars =>
        [\A a \in Addr, h \in Half : reg'[a][h] # reg[a][h] =>
           \/ clash'
           \/ \E t \in Threads : th[t].pc # "idle" /\ Sets(th[t].call, a, h)
           \/ \E c \in late : Sets(c, a, h)]_vars
  BY RefinementStep, FieldStep DEF IInv
<1> QED BY <1>1, Invariance, PTL DEF Spec, FieldsAreTheCalls

-----------------------------------------------------------------------------
(* Every call comes to its end                                              *)

\* How far a call has come, from phy->lock to phy->unlock.
Stage ==
  [lock |-> 0, rAddr |-> 1, rCmd |-> 2, rPoll |-> 3, rLo |-> 4, rHi |-> 5,
   wLo |-> 6, wHi |-> 7, wAddr |-> 8, wCmd |-> 9, wPoll |-> 10, unlock |-> 11, idle |-> 12]

\* A loop of __is_mbox_busy has at least the poll it is in.
PollsLeft == \A t \in Threads : th[t].pc \in {"rPoll", "wPoll"} => th[t].busyRetry \in 1 .. MaxBusyRetry

\* The step of a thread inside phy->lock brings its call nearer to the unlock,
\* or it was a poll and one less is left.
Nearer(t) ==
  \/ Stage[th'[t].pc] > Stage[th[t].pc]
  \/ /\ th[t].pc \in {"rPoll", "wPoll"} /\ th'[t].pc = th[t].pc
     /\ th'[t].busyRetry < th[t].busyRetry
CallsComeNearer == [][\A t \in Threads : Inside(t) /\ th'[t] # th[t] => Nearer(t)]_vars

LEMMA PollsLeftStep == TypeOK /\ PollsLeft /\ [Next]_vars => PollsLeft'
<1> SUFFICES ASSUME TypeOK, PollsLeft, [Next]_vars, NEW t \in Threads, th'[t].pc \in {"rPoll", "wPoll"}
             PROVE  th'[t].busyRetry \in 1 .. MaxBusyRetry
  BY DEF PollsLeft
<1>0. th \in [Threads -> ThreadState] /\ th[t] \in ThreadState
  BY DEF TypeOK, ThreadState
<1>1. CASE th'[t] = th[t]
  BY <1>1 DEF PollsLeft
<1>2. ASSUME NEW u \in Threads, Step(u), th'[t] # th[t] PROVE th'[t].busyRetry \in 1 .. MaxBusyRetry
  <2>1. u = t
    BY <1>2, OthersKept
  <2>2. CASE ReadCmd(t) \/ WriteCmd(t)
    BY <1>0, <2>2, RetryAssumption DEF ReadCmd, WriteCmd, ThreadState
  <2>3. CASE PollBusy(t)
    <3>1. th[t].busyRetry \in 0 .. MaxBusyRetry /\ th[t].busyRetry > 1
      BY <1>0, <2>3 DEF PollBusy, ThreadState
    <3>2. th'[t].busyRetry = th[t].busyRetry - 1
      BY <1>0, <2>3 DEF PollBusy, ThreadState
    <3> QED BY <3>1, <3>2, RetryAssumption
  <2>4. CASE ~(ReadCmd(t) \/ WriteCmd(t) \/ PollBusy(t))
    <3>1. ASSUME NEW c \in Calls PROVE ~Enter(t, c)
      BY <1>0 DEF Enter, ThreadState
    <3>2. ~(Lock(t) \/ Fail(t) \/ Unlock(t) \/ ReadAddr(t))
      BY <1>0 DEF Lock, Fail, Unlock, ReadAddr, Goto, ThreadState
    <3>3. ~(ReadLo(t) \/ ReadHi(t))
      BY <1>0 DEF ReadLo, ReadHi, ThreadState
    <3>4. ~(WriteLo(t) \/ WriteHi(t) \/ WriteAddr(t))
      BY <1>0 DEF WriteLo, WriteHi, WriteAddr, Goto, ThreadState
    <3>5. ~(PollReady(t) \/ PollGivesUp(t))
      BY <1>0 DEF PollReady, PollGivesUp, Goto, ThreadState
    <3> QED BY <1>2, <2>1, <2>4, <3>1, <3>2, <3>3, <3>4, <3>5 DEF Step
  <2> QED BY <2>2, <2>3, <2>4
<1>3. CASE Firmware \/ UNCHANGED vars
  BY <1>1, <1>3 DEF Firmware, vars
<1> QED BY <1>1, <1>2, <1>3 DEF Next

LEMMA NearerStep ==
  ASSUME TypeOK, Next, NEW t \in Threads, Inside(t), th'[t] # th[t]
  PROVE  Nearer(t)
<1>0. th \in [Threads -> ThreadState] /\ th[t] \in ThreadState
  BY DEF TypeOK, ThreadState
<1>1. Step(t)
  BY OthersKept DEF Next, Firmware
<1>2. CASE PollBusy(t)
  BY <1>0, <1>2 DEF PollBusy, Nearer, ThreadState
<1>3. CASE ReadAddr(t) \/ ReadCmd(t) \/ ReadLo(t) \/ ReadHi(t)
  BY <1>0, <1>3 DEF ReadAddr, ReadCmd, ReadLo, ReadHi, Goto, Nearer, Stage, ThreadState
<1>4. CASE WriteLo(t) \/ WriteHi(t) \/ WriteAddr(t) \/ WriteCmd(t)
  BY <1>0, <1>4 DEF WriteLo, WriteHi, WriteAddr, WriteCmd, Goto, Nearer, Stage, ThreadState
<1>5. CASE Fail(t) \/ Unlock(t) \/ PollReady(t) \/ PollGivesUp(t)
  BY <1>0, <1>5 DEF Fail, Unlock, PollReady, PollGivesUp, Goto, Nearer, Stage, ReadPC, WritePC, ThreadState
<1>6. ~Lock(t) /\ \A c \in Calls : ~Enter(t, c)
  BY DEF Inside, ReadPC, WritePC, Lock, Enter
<1> QED BY <1>1, <1>2, <1>3, <1>4, <1>5, <1>6 DEF Step

\* A call inside phy->lock can neither poll for ever nor go round in its error
\* paths: each of its steps, failing accesses included, leaves less to do until
\* the unlock, whatever the firmware does.  With the fairness of FairSpec this
\* is why phy->lock is released.
THEOREM CallsAreFinite == Spec => []PollsLeft /\ CallsComeNearer
<1>1. Init => TypeOK /\ PollsLeft
  BY InitInv DEF IInv, Init, PollsLeft
<1>2. TypeOK /\ [Next]_vars => [\A t \in Threads : Inside(t) /\ th'[t] # th[t] => Nearer(t)]_vars
  BY NearerStep
<1> QED BY <1>1, <1>2, TypeStep, PollsLeftStep, PTL DEF Spec, CallsComeNearer
=============================================================================
