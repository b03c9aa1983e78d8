------------------------------- MODULE MacsecSa -------------------------------
(***************************************************************************)
(* Secure associations of the MACsec engine (gpy211_macsec.c): transform   *)
(* records, matching rules, flow control actions and entry enable bits of  *)
(* the egress engine, programmed word by word through the register mailbox *)
(* (GphyMailbox shows that an access is atomic) while packets pass.  The   *)
(* ingress functions have the same steps.                                  *)
(*                                                                         *)
(* The application has a thread per SA, which installs it in the order of  *)
(* gpy211_add_txsa and removes it in the reverse order, repeating a call   *)
(* that returned an error, and a thread that asks for packet numbers.      *)
(***************************************************************************)
EXTENDS Naturals, Sequences

CONSTANTS
  SAs,         \* indexes of SAs; each is also the thread that manages it
  Monitor,     \* the thread that calls gpy2xx_msec_get_egr_pn
  NoThread,    \* nobody holds phy->lock
  TrWords,     \* words of a transform record and of a matching rule
  PnBase,      \* values of SN-0 (2^32 in the code)
  MaxPn,       \* bound: packet numbers used
  MaxFlight,   \* bound: packets inside the engine
  BusyRetry,   \* IN_FLIGHT_BUSY_RETRY
  BusMayFail   \* a mailbox access can return an error

ASSUME ThreadAssumption == Monitor \notin SAs /\ NoThread \notin SAs \cup {Monitor}
ASSUME SizeAssumption == TrWords \in Nat \ {0} /\ PnBase \in Nat \ {0, 1}
ASSUME BoundAssumption == MaxPn \in Nat /\ MaxFlight \in Nat /\ BusyRetry \in Nat \ {0}
ASSUME FlagAssumption == BusMayFail \in BOOLEAN

Threads == SAs \cup {Monitor}
Word == 1 .. TrWords

\* The calls of a managing thread, in order: gpy2xx_msec_<call>; "enable" and
\* "disable" are gpy2xx_msec_config_egr_sam_eec with set_enable, clear_enable.
Script == <<"config_egr_tr", "config_egr_sam_rule", "config_egr_sam_fca", "enable",
            "disable", "clear_egr_sam_rule", "clear_egr_sam_fca", "clear_egr_tr">>
Clears == {"clear_egr_sam_rule", "clear_egr_sam_fca", "clear_egr_tr"}
\* "ret = 0" behind END: an error in the middle is reported as success.
HidesErrors == {"config_egr_tr", "config_egr_sam_rule"}

VARIABLES
  lock,    \* the thread inside phy->lock, or NoThread
  eip,     \* the engine: has a word of tr, rule, fca been programmed; enabled entries
  pn,      \* [SAs -> the packet number in the transform record]
  traffic, \* the packets inside the engine, by SA, and the UNSAFE count of SAM_IN_FLIGHT
  th       \* [Threads -> the state of the thread's API call]

vars == <<lock, eip, pn, traffic, th>>

PC == {"idle", "inflight", "poll", "write", "ccw", "sn0", "sn1", "unlock"}
Area == {"tr", "rule", "fca"}

Started(s) == [pc |-> "idle", step |-> 1, sa |-> s, word |-> 1, polls |-> 0, ok |-> TRUE,
               sn0 |-> 0, sn1 |-> 0, asked |-> 0]

Init ==
  /\ lock = NoThread
  /\ eip = [mem |-> [s \in SAs |-> [a \in Area |-> [w \in Word |-> FALSE]]], enabled |-> {}]
  /\ pn = [s \in SAs |-> 0]
  /\ traffic = [flight |-> <<>>, unsafe |-> 0]
  /\ th \in [Threads -> {Started(s) : s \in SAs}]
  /\ \A s \in SAs : th[s].sa = s

CallOf(t) == IF t = Monitor THEN "get_egr_pn" ELSE Script[th[t].step]

AreaOf(c) == CASE c \in {"config_egr_tr", "clear_egr_tr"} -> "tr"
               [] c \in {"config_egr_sam_rule", "clear_egr_sam_rule"} -> "rule"
               [] OTHER -> "fca"
\* Mutation: the loop of the clear functions ends one word early.
LastWordShort(c) == IF c = "clear_egr_tr" THEN TrWords - 1
                    ELSE IF AreaOf(c) = "fca" THEN 1 ELSE TrWords
LastWord(c) == IF AreaOf(c) = "fca" THEN 1 ELSE TrWords

Goto(t, pc) == th' = [th EXCEPT ![t].pc = pc]

-----------------------------------------------------------------------------
(* Entry and exit of an API function                                        *)

Free(t) == th[t].pc = "idle" /\ lock = NoThread

\* A managing thread enters the next call of its script.
Call(s) ==
  /\ Free(s)
  /\ lock' = s
  /\ Goto(s, IF CallOf(s) \in Clears THEN "inflight" ELSE "write")
  /\ UNCHANGED <<eip, pn, traffic>>

AskPn(s) ==
  /\ Free(Monitor)
  /\ lock' = Monitor
  /\ th' = [th EXCEPT ![Monitor].pc = "ccw", ![Monitor].sa = s, ![Monitor].asked = pn[s]]
  /\ UNCHANGED <<eip, pn, traffic>>

\* An access fails: "goto END" with the error, which two functions forget.
Fail(t) ==
  /\ BusMayFail
  /\ th[t].pc \in PC \ {"idle", "unlock"}
  /\ th' = [th EXCEPT ![t].pc = "unlock", ![t].ok = CallOf(t) \in HidesErrors]
  /\ UNCHANGED <<lock, eip, pn, traffic>>

\* The variables of the call are gone; the caller goes on to its next call, or
\* makes a failed one again.
NextStep(t) == IF t = Monitor \/ ~th[t].ok THEN th[t].step
               ELSE IF th[t].step = Len(Script) THEN 1 ELSE th[t].step + 1
Unlock(t) ==
  /\ th[t].pc = "unlock"
  /\ lock' = NoThread
  /\ th' = [th EXCEPT ![t] = [Started(th[t].sa) EXCEPT !.step = NextStep(t)]]
  /\ UNCHANGED <<eip, pn, traffic>>

-----------------------------------------------------------------------------
(* _is_sam_in_flight_safe                                                   *)

\* LOAD_UNSAFE: the engine counts the packets that are inside it now.
LoadUnsafe(s) ==
  /\ th[s].pc = "inflight"
  /\ traffic' = [traffic EXCEPT !.unsafe = Len(traffic.flight)]
  /\ th' = [th EXCEPT ![s].pc = "poll", ![s].polls = BusyRetry]
  /\ UNCHANGED <<lock, eip, pn>>

\* Mutation: busy_retry is counted down and not tested.
PollUnsafeForever(s) ==
  /\ th[s].pc = "poll"
  /\ traffic.unsafe > 0
  /\ th' = [th EXCEPT ![s].polls = @ - 1]
  /\ UNCHANGED <<lock, eip, pn, traffic>>
PollUnsafe(s) ==
  /\ th[s].pc = "poll"
  /\ traffic.unsafe > 0
  /\ th[s].polls > 1
  /\ th' = [th EXCEPT ![s].polls = @ - 1]
  /\ UNCHANGED <<lock, eip, pn, traffic>>

PollSafe(s) ==
  /\ th[s].pc = "poll"
  /\ traffic.unsafe = 0
  /\ th[s].polls > 1
  /\ th' = [th EXCEPT ![s].pc = "write", ![s].polls = 0]
  /\ UNCHANGED <<lock, eip, pn, traffic>>

\* Mutation: the break out of the loop leaves ret as the mailbox read set it.
InFlightTimeoutIgnored(s) ==
  /\ th[s].pc = "poll"
  /\ th[s].polls = 1
  /\ Goto(s, "write")
  /\ UNCHANGED <<lock, eip, pn, traffic>>
\* busy_retry is 0 after this poll, whatever the poll saw.
InFlightTimeout(s) ==
  /\ th[s].pc = "poll"
  /\ th[s].polls = 1
  /\ th' = [th EXCEPT ![s].pc = "unlock", ![s].ok = FALSE]
  /\ UNCHANGED <<lock, eip, pn, traffic>>

-----------------------------------------------------------------------------
(* The words of a transform record, a rule or an action, and the enable bit *)

\* Zeroes for a clear function; the sequence number is in the last word.
WriteWord(s) ==
  LET c == CallOf(s) IN
  /\ th[s].pc = "write"
  /\ c \notin {"enable", "disable"}
  /\ eip' = [eip EXCEPT !.mem[s][AreaOf(c)][th[s].word] = c \notin Clears]
  /\ pn' = IF AreaOf(c) = "tr" /\ th[s].word = TrWords THEN [pn EXCEPT ![s] = 0] ELSE pn
  /\ th' = [th EXCEPT ![s].pc = IF th[s].word >= LastWord(c) THEN "unlock" ELSE "write",
                      ![s].word = IF th[s].word >= LastWord(c) THEN @ ELSE @ + 1]
  /\ UNCHANGED <<lock, traffic>>

WriteEnable(s) ==
  /\ th[s].pc = "write"
  /\ \/ CallOf(s) = "enable" /\ eip' = [eip EXCEPT !.enabled = @ \cup {s}]
     \/ CallOf(s) = "disable" /\ eip' = [eip EXCEPT !.enabled = @ \ {s}]
  /\ Goto(s, "unlock")
  /\ UNCHANGED <<lock, pn, traffic>>

-----------------------------------------------------------------------------
(* gpy2xx_msec_get_egr_pn                                                   *)

ReadCcw ==
  /\ th[Monitor].pc = "ccw"
  /\ eip.mem[th[Monitor].sa]["tr"][1]
  /\ Goto(Monitor, "sn0")
  /\ UNCHANGED <<lock, eip, pn, traffic>>

\* The record holds no known cipher, as when it is empty: "return -EINVAL"
\* without phy->unlock.
ReadCcwUnknown ==
  /\ th[Monitor].pc = "ccw"
  /\ ~eip.mem[th[Monitor].sa]["tr"][1]
  /\ th' = [th EXCEPT ![Monitor] = Started(th[Monitor].sa)]
  /\ UNCHANGED <<lock, eip, pn, traffic>>

ReadSn0 ==
  /\ th[Monitor].pc = "sn0"
  /\ th' = [th EXCEPT ![Monitor].pc = "sn1", ![Monitor].sn0 = pn[th[Monitor].sa] % PnBase]
  /\ UNCHANGED <<lock, eip, pn, traffic>>

\* Mutation: the high word is not added.
ReadSn1Missing ==
  /\ th[Monitor].pc = "sn1"
  /\ Goto(Monitor, "unlock")
  /\ UNCHANGED <<lock, eip, pn, traffic>>
ReadSn1 ==
  /\ th[Monitor].pc = "sn1"
  /\ th' = [th EXCEPT ![Monitor].pc = "unlock", ![Monitor].sn1 = pn[th[Monitor].sa] \div PnBase]
  /\ UNCHANGED <<lock, eip, pn, traffic>>

-----------------------------------------------------------------------------
(* The MACsec engine                                                        *)

\* A packet matches an enabled rule and is bound to its SA.
PacketEnters(s) ==
  /\ s \in eip.enabled
  /\ Len(traffic.flight) < MaxFlight
  /\ traffic' = [traffic EXCEPT !.flight = Append(@, s)]
  /\ UNCHANGED <<lock, eip, pn, th>>

\* The oldest packet is protected with the record of its SA and leaves.
PacketLeaves ==
  LET s == Head(traffic.flight) IN
  /\ traffic.flight # <<>>
  /\ traffic' = [flight |-> Tail(traffic.flight),
                 unsafe |-> IF traffic.unsafe = 0 THEN 0 ELSE traffic.unsafe - 1]
  /\ pn' = IF pn[s] < MaxPn THEN [pn EXCEPT ![s] = @ + 1] ELSE pn
  /\ UNCHANGED <<lock, eip, th>>

Next ==
  \/ \E s \in SAs : \/ Call(s) \/ AskPn(s) \/ PacketEnters(s)
                    \/ LoadUnsafe(s) \/ PollUnsafe(s) \/ PollSafe(s) \/ InFlightTimeout(s)
                    \/ WriteWord(s) \/ WriteEnable(s)
  \/ \E t \in Threads : Fail(t) \/ Unlock(t)
  \/ ReadCcw \/ ReadCcwUnknown \/ ReadSn0 \/ ReadSn1
  \/ PacketLeaves

Spec == Init /\ [][Next]_vars

-----------------------------------------------------------------------------
(* Properties                                                               *)

\* The types of the state; busy_retry (u32) never counts below zero.
TypeOK ==
  /\ lock \in Threads \cup {NoThread}
  /\ eip \in [mem : [SAs -> [Area -> [Word -> BOOLEAN]]], enabled : SUBSET SAs]
  /\ pn \in [SAs -> 0 .. MaxPn]
  /\ traffic \in [flight : Seq(SAs), unsafe : 0 .. MaxFlight]
  /\ th \in [Threads -> [pc : PC, step : 1 .. Len(Script), sa : SAs, word : Word,
                         polls : 0 .. BusyRetry, ok : BOOLEAN,
                         sn0 : 0 .. PnBase - 1, sn1 : 0 .. MaxPn, asked : 0 .. MaxPn]]

\* While a clear function overwrites a record, a rule or an action with
\* zeroes, no packet that is bound to it is inside the engine and none can
\* enter: what _is_sam_in_flight_safe is for.
ZeroedOnlyWhenUnused ==
  \A s \in SAs : th[s].pc = "write" /\ CallOf(s) \in Clears =>
    /\ s \notin eip.enabled
    /\ \A i \in 1 .. Len(traffic.flight) : traffic.flight[i] # s

\* When the removal of an SA has ended with success nothing of it, above all
\* no word of its key, is left in the engine.
RemovedMeansErased ==
  \A s \in SAs : th[s].step = 1 /\ th[s].pc = "idle" =>
    \A a \in Area, w \in Word : ~eip.mem[s][a][w]

\* The packet number gpy2xx_msec_get_egr_pn returns is not below the one the
\* record held when the function was entered, though packets count it up
\* between the reads of SN-0 and SN-1: the application that watches for the
\* exhaustion of packet numbers is not told too late.
PnNotUnderReported ==
  LET m == th[Monitor] IN
  m.pc = "unlock" /\ m.ok => m.sn0 + PnBase * m.sn1 >= m.asked

\* "Function called by API when leaving an API function": a thread that is
\* not inside an API function does not hold phy->lock.
LockReturned == \A t \in Threads : th[t].pc = "idle" => lock # t

\* "=0: successful": an SA whose entry was enabled after every configuration
\* call had returned success is programmed completely.
EnabledMeansProgrammed ==
  \A s \in eip.enabled :
    /\ \A w \in Word : eip.mem[s]["tr"][w] /\ eip.mem[s]["rule"][w]
    /\ eip.mem[s]["fca"][1]
===============================================================================
