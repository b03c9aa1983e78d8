----------------------------- MODULE GphyMailbox -----------------------------
(***************************************************************************)
(* The register mailbox of the GPY2xx PHY (gpy211_phy.c, gpy211_common.h): *)
(* every register of the MAC and MACsec blocks is reached by a sequence of *)
(* MDIO accesses, with the PHY firmware answering in between.  API calls of*)
(* several threads read, modify and write such registers under phy->lock.  *)
(*                                                                         *)
(* A register is shown as its two 16-bit halves (a 16-bit access only uses *)
(* the low one), its address as the ADDRHI and ADDRLO parts of the mailbox.*)
(***************************************************************************)
EXTENDS Naturals

CONSTANTS
  Threads,        \* application threads that call the API
  NoThread,       \* nobody holds phy->lock
  AddrHi, AddrLo, \* parts of a register address
  Value,          \* values of a register half
  Zero,           \* the value of the data registers and of every register after reset
  Calls,          \* the calls the application makes
  MaxBusyRetry,   \* MAX_BUSY_RETRY: polls of MBOX_CMD before giving up
  Locking,        \* phy->lock is a lock (FALSE: none_lock, for a single thread)
  BusMayFail      \* an MDIO access can return an error

Addr == [hi : AddrHi, lo : AddrLo]
Half == {"lo", "hi"}
Op == {"READ", "WRITE", "READ32", "WRITE32"}
Word == [Half -> Value]

\* A call sets one half of one register; a 16-bit access has only the low one.
Call == {c \in [addr : Addr, half : Half, val : Value, wide : BOOLEAN] :
           ~c.wide => c.half = "lo"}

ASSUME NoThreadAssumption == NoThread \notin Threads
ASSUME RetryAssumption == MaxBusyRetry \in Nat \ {0}
ASSUME ZeroAssumption == Zero \in Value
ASSUME CallsAssumption == Calls \subseteq Call
ASSUME FlagAssumption == Locking \in BOOLEAN /\ BusMayFail \in BOOLEAN

VARIABLES
  lock,  \* the thread inside phy->lock, or NoThread
  mb,    \* MBOX_ADDRLO, MBOX_DATA, MBOX_DATA_HIGH and MBOX_CMD (ADDRHI, CMD, READY)
  reg,   \* the registers behind the mailbox
  th,    \* [Threads -> the state of the thread's API call]
  late,  \* history: the call whose write is with the firmware although the
         \* call has given up on it (no code variable keeps it)
  clash  \* history: the exchange in the mailbox was begun while the firmware
         \* still had the request of a call that gave up

hist == <<late, clash>>
vars == <<lock, mb, reg, th, hist>>

ReadPC == {"rAddr", "rCmd", "rPoll", "rLo", "rHi"}
WritePC == {"wLo", "wHi", "wAddr", "wCmd", "wPoll"}
PC == {"idle", "lock", "unlock"} \cup ReadPC \cup WritePC

\* Has thread t entered phy->lock and not left it?
Inside(t) == th[t].pc \in ReadPC \cup WritePC \cup {"unlock"}

Halves(c) == IF c.wide THEN Half ELSE {"lo"}

Goto(t, pc) == th' = [th EXCEPT ![t].pc = pc]

Init ==
  /\ lock = NoThread
  /\ mb \in [addrlo : AddrLo, data : [Half -> {Zero}], addrhi : AddrHi, op : {"READ"}, ready : {TRUE}]
  /\ reg = [a \in Addr |-> [h \in Half |-> Zero]]
  /\ th \in [Threads -> [pc : {"idle"}, call : Calls, word : [Half -> {Zero}],
                         busyRetry : {0}, ok : {TRUE}, ret : {TRUE}]]
  /\ late = {} /\ clash = FALSE

-----------------------------------------------------------------------------
(* An API function: phy->lock, read, modify, write, phy->unlock             *)

Enter(t, c) ==
  /\ th[t].pc = "idle"
  /\ th' = [th EXCEPT ![t].pc = "lock", ![t].call = c, ![t].ok = TRUE]
  /\ UNCHANGED <<lock, mb, reg, hist>>

\* Mutation: the lock of another thread does not keep this one out.
LockShared(t) ==
  /\ th[t].pc = "lock"
  /\ lock' = t
  /\ Goto(t, "rAddr")
  /\ UNCHANGED <<mb, reg, hist>>
Lock(t) ==
  /\ th[t].pc = "lock"
  /\ Locking => lock = NoThread
  /\ lock' = IF Locking THEN t ELSE lock
  /\ Goto(t, "rAddr")
  /\ UNCHANGED <<mb, reg, hist>>

\* Mutation: an error path that returns without releasing the lock.
FailLocked(t) ==
  /\ BusMayFail
  /\ th[t].pc \in (ReadPC \cup WritePC) \ {"rPoll", "wPoll"}
  /\ th' = [th EXCEPT ![t].pc = "idle", ![t].ok = FALSE, ![t].ret = FALSE]
  /\ UNCHANGED <<lock, mb, reg, hist>>
\* Every "if (ret < 0) goto END": the call ends with an error and the lock
\* is released.
Fail(t) ==
  /\ BusMayFail
  /\ th[t].pc \in (ReadPC \cup WritePC) \ {"rPoll", "wPoll"}
  /\ th' = [th EXCEPT ![t].pc = "unlock", ![t].ok = FALSE]
  /\ UNCHANGED <<lock, mb, reg, hist>>

Unlock(t) ==
  /\ th[t].pc = "unlock"
  /\ lock' = IF Locking THEN NoThread ELSE lock
  /\ th' = [th EXCEPT ![t].pc = "idle", ![t].ret = th[t].ok]
  /\ UNCHANGED <<mb, reg, hist>>

-----------------------------------------------------------------------------
(* gpy2xx_mbox_read16 and gpy2xx_mbox_read32                                *)

\* READY is not looked at before a new request is made.
ReadAddr(t) ==
  /\ th[t].pc = "rAddr"
  /\ mb' = [mb EXCEPT !.addrlo = th[t].call.addr.lo]
  /\ clash' = ~mb.ready
  /\ Goto(t, "rCmd")
  /\ UNCHANGED <<lock, reg, late>>

\* Writing MBOX_CMD clears READY and hands the request to the firmware.
ReadCmd(t) ==
  /\ th[t].pc = "rCmd"
  /\ mb' = [mb EXCEPT !.addrhi = th[t].call.addr.hi, !.ready = FALSE,
                      !.op = IF th[t].call.wide THEN "READ32" ELSE "READ"]
  /\ th' = [th EXCEPT ![t].pc = "rPoll", ![t].busyRetry = MaxBusyRetry]
  /\ UNCHANGED <<lock, reg, hist>>

\* The word read, with the caller's field replaced in it.
Modify(c, w) == [w EXCEPT ![c.half] = c.val]

ReadLo(t) ==
  LET w == [th[t].word EXCEPT !["lo"] = mb.data["lo"]] IN
  /\ th[t].pc = "rLo"
  /\ th' = [th EXCEPT ![t].pc = IF th[t].call.wide THEN "rHi" ELSE "wLo",
                      ![t].word = IF th[t].call.wide THEN w ELSE Modify(th[t].call, w)]
  /\ UNCHANGED <<lock, mb, reg, hist>>

\* Mutation: the high half is left over from an earlier access.
ReadHiStale(t) ==
  /\ th[t].pc = "rHi"
  /\ th' = [th EXCEPT ![t].pc = "wLo", ![t].word = Modify(th[t].call, th[t].word)]
  /\ UNCHANGED <<lock, mb, reg, hist>>
ReadHi(t) ==
  /\ th[t].pc = "rHi"
  /\ th' = [th EXCEPT ![t].pc = "wLo",
                      ![t].word = Modify(th[t].call, [th[t].word EXCEPT !["hi"] = mb.data["hi"]])]
  /\ UNCHANGED <<lock, mb, reg, hist>>

-----------------------------------------------------------------------------
(* gpy2xx_mbox_write16 and gpy2xx_mbox_write32                              *)

WriteLo(t) ==
  /\ th[t].pc = "wLo"
  /\ mb' = [mb EXCEPT !.data["lo"] = th[t].word["lo"]]
  /\ Goto(t, IF th[t].call.wide THEN "wHi" ELSE "wAddr")
  /\ UNCHANGED <<lock, reg, hist>>

WriteHi(t) ==
  /\ th[t].pc = "wHi"
  /\ mb' = [mb EXCEPT !.data["hi"] = th[t].word["hi"]]
  /\ Goto(t, "wAddr")
  /\ UNCHANGED <<lock, reg, hist>>

WriteAddr(t) ==
  /\ th[t].pc = "wAddr"
  /\ mb' = [mb EXCEPT !.addrlo = th[t].call.addr.lo]
  /\ Goto(t, "wCmd")
  /\ UNCHANGED <<lock, reg, hist>>

WriteCmd(t) ==
  /\ th[t].pc = "wCmd"
  /\ mb' = [mb EXCEPT !.addrhi = th[t].call.addr.hi, !.ready = FALSE,
                      !.op = IF th[t].call.wide THEN "WRITE32" ELSE "WRITE"]
  /\ th' = [th EXCEPT ![t].pc = "wPoll", ![t].busyRetry = MaxBusyRetry]
  /\ UNCHANGED <<lock, reg, hist>>

-----------------------------------------------------------------------------
(* __is_mbox_busy                                                           *)

PollReady(t) ==
  /\ th[t].pc \in {"rPoll", "wPoll"}
  /\ mb.ready
  /\ Goto(t, IF th[t].pc = "rPoll" THEN "rLo" ELSE "unlock")
  /\ UNCHANGED <<lock, mb, reg, hist>>

\* Mutation: busyRetry is tested before it is counted down (busyRetry--).
PollPostDecrement(t) ==
  /\ th[t].pc \in {"rPoll", "wPoll"}
  /\ ~mb.ready
  /\ th' = [th EXCEPT ![t].busyRetry = th[t].busyRetry - 1]
  /\ UNCHANGED <<lock, mb, reg, hist>>
PollBusy(t) ==
  /\ th[t].pc \in {"rPoll", "wPoll"}
  /\ ~mb.ready
  /\ th[t].busyRetry > 1
  /\ th' = [th EXCEPT ![t].busyRetry = th[t].busyRetry - 1]
  /\ UNCHANGED <<lock, mb, reg, hist>>

\* Mutation: the caller of a write is told it was done although nobody knows.
PollGivesUpSilently(t) ==
  /\ th[t].pc \in {"rPoll", "wPoll"}
  /\ (~mb.ready /\ th[t].busyRetry = 1) \/ BusMayFail
  /\ late' = IF th[t].pc = "wPoll" /\ ~mb.ready THEN {th[t].call} ELSE late
  /\ th' = [th EXCEPT ![t].pc = "unlock", ![t].ok = (th[t].pc = "wPoll")]
  /\ UNCHANGED <<lock, mb, reg, clash>>
\* The last poll found the mailbox busy, or a poll failed on the bus, which
\* ends the loop at once: the call returns an error, and the firmware may
\* still have the request.
PollGivesUp(t) ==
  /\ th[t].pc \in {"rPoll", "wPoll"}
  /\ (~mb.ready /\ th[t].busyRetry = 1) \/ BusMayFail
  /\ late' = IF th[t].pc = "wPoll" /\ ~mb.ready THEN {th[t].call} ELSE late
  /\ th' = [th EXCEPT ![t].pc = "unlock", ![t].ok = FALSE]
  /\ UNCHANGED <<lock, mb, reg, clash>>

-----------------------------------------------------------------------------
(* The PHY firmware carries out the request it finds in the mailbox, sooner *)
(* or later or never, one request at a time.                                *)
Firmware ==
  LET a == [hi |-> mb.addrhi, lo |-> mb.addrlo] IN
  /\ ~mb.ready
  /\ mb' = [mb EXCEPT !.ready = TRUE,
                      !.data = CASE mb.op = "READ32" -> reg[a]
                                 [] mb.op = "READ" -> [mb.data EXCEPT !["lo"] = reg[a]["lo"]]
                                 [] OTHER -> mb.data]
  /\ reg' = CASE mb.op = "WRITE32" -> [reg EXCEPT ![a] = mb.data]
              [] mb.op = "WRITE" -> [reg EXCEPT ![a]["lo"] = mb.data["lo"]]
              [] OTHER -> reg
  /\ late' = {}
  /\ UNCHANGED <<lock, th, clash>>

Step(t) ==
  \/ \E c \in Calls : Enter(t, c)
  \/ Lock(t) \/ Fail(t) \/ Unlock(t)
  \/ ReadAddr(t) \/ ReadCmd(t) \/ ReadLo(t) \/ ReadHi(t)
  \/ WriteLo(t) \/ WriteHi(t) \/ WriteAddr(t) \/ WriteCmd(t)
  \/ PollReady(t) \/ PollBusy(t) \/ PollGivesUp(t)

Next == (\E t \in Threads : Step(t)) \/ Firmware

Spec == Init /\ [][Next]_vars

\* A thread that holds phy->lock is in straight-line code and bounded loops
\* and keeps running.  Nothing is assumed of the firmware.
FairSpec == Spec /\ \A t \in Threads : WF_vars(Inside(t) /\ Step(t))

-----------------------------------------------------------------------------
(* Properties                                                               *)

\* The types of the state; busyRetry (u32) never counts below zero.
TypeOK ==
  /\ lock \in Threads \cup {NoThread}
  /\ mb \in [addrlo : AddrLo, data : Word, addrhi : AddrHi, op : Op, ready : BOOLEAN]
  /\ reg \in [Addr -> Word]
  /\ th \in [Threads -> [pc : PC, call : Calls, word : Word, busyRetry : 0 .. MaxBusyRetry,
                         ok : BOOLEAN, ret : BOOLEAN]]
  /\ late \in SUBSET Calls
  /\ clash \in BOOLEAN

\* phy->lock belongs to the thread between lock and unlock, on every path
\* through an API function, the error paths included.
LockOwned == \A t \in Threads : lock = t <=> Inside(t)

\* The part of the exchange thread t has done is still in the mailbox: neither
\* another thread nor an earlier request has touched it, and the word to be
\* written differs from the register only in the caller's field.
Exchange(t) ==
  LET c == th[t].call
      pc == th[t].pc IN
  /\ pc \in {"rCmd", "rPoll", "wCmd", "wPoll"} => mb.addrlo = c.addr.lo
  /\ pc \in {"rPoll", "wPoll"} => mb.addrhi = c.addr.hi
  /\ pc = "rPoll" => mb.op = IF c.wide THEN "READ32" ELSE "READ"
  /\ pc = "wPoll" => mb.op = IF c.wide THEN "WRITE32" ELSE "WRITE"
  /\ pc \in {"rLo", "rHi"} \/ (pc = "rPoll" /\ mb.ready) =>
       \A h \in Halves(c) : mb.data[h] = reg[c.addr][h]
  /\ pc = "rHi" => th[t].word["lo"] = reg[c.addr]["lo"]
  /\ pc \in WritePC =>
       \A h \in Halves(c) : th[t].word[h] = IF h = c.half THEN c.val ELSE reg[c.addr][h]
  /\ pc = "wHi" => mb.data["lo"] = th[t].word["lo"]
  /\ pc \in {"wAddr", "wCmd", "wPoll"} => \A h \in Halves(c) : mb.data[h] = th[t].word[h]

\* Only the request of a call that gave up on it can disturb the exchange of
\* another: one begun when the firmware had no request is left alone to its
\* end, whatever errors and late answers came before it.
ExchangeIntact == ~clash => \A t \in Threads : Exchange(t)

\* What the caller of thread t will be told, and what it is to be told of.
Phase(t) ==
  CASE th[t].pc = "idle" -> "idle"
    [] th[t].pc = "unlock" -> IF th[t].ok THEN "done" ELSE "failed"
    [] th[t].pc = "wPoll" /\ mb.ready -> "done"
    [] OTHER -> "open"

Api == INSTANCE ApiRegs WITH
  phase <- [t \in Threads |-> Phase(t)],
  args <- [t \in Threads |-> th[t].call],
  ret <- [t \in Threads |-> th[t].ret]

\* Read-modify-write calls through the mailbox are atomic: no update of
\* another field is lost, success means done once, and a call that returned an
\* error is done at most once, as a whole, even when the firmware comes to it
\* after the call has returned.
ImplementsApi == Api!Spec

\* phy->lock is always released again, even when the firmware never answers
\* a request: the polls of __is_mbox_busy are bounded and every error path
\* goes through phy->unlock.
LockReleased == lock # NoThread ~> lock = NoThread
=============================================================================
