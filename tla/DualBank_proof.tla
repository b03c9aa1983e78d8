--------------------------- MODULE DualBank_proof ---------------------------
(***************************************************************************)
(* DualBank for every set of sessions, every set of images, every order of *)
(* parts and whatever of the environment can be written: the running    *)
(* bank is never changed, one bank stays bootable, and the upgrade         *)
(* implements ABSlots.                                                     *)
(***************************************************************************)
EXTENDS DualBank, TLAPS

\* The inductive invariant.  OneBankBootable alone is not inductive: a step
\* preserves it because sessions only run on a bootable bank and only write
\* the other one.
IInv == TypeOK /\ SessionsSpareRunningBank /\ OneBankBootable

LEMMA CurPartType ==
  ASSUME TypeOK, NEW s \in Sessions, job[s].todo # <<>>
  PROVE  CurPart(s) \in Part /\ Tail(job[s].todo) \in Seq(Part)
BY DEF TypeOK, CurPart

\* A step of the script that changes nothing but where it is.
LEMMA GotoKeeps ==
  ASSUME TypeOK, NEW s \in Sessions, NEW pc, Goto(s, pc)
  PROVE  /\ job'[s].pc = pc /\ job'[s].todo = job[s].todo
         /\ job'[s].bank = job[s].bank /\ job'[s].img = job[s].img
         /\ \A r \in Sessions \ {s} : job'[r] = job[r]
BY DEF TypeOK, Goto

\* A bank other than the one that runs: the only one that sessions write.
LEMMA NewActiveIsOther == TypeOK => NewActive \in Bank /\ NewActive # cmdline
BY DEF TypeOK, NewActive, ActiveBank, Bank

\* What the steps of a session write to flash.
LEMMA VolStep ==
  ASSUME TypeOK, SessionsSpareRunningBank, NEW s \in Sessions, SessionStep(s)
  PROVE  /\ \/ UNCHANGED vol
            \/ /\ job[s].bank \in Bank \ {cmdline} /\ CurPart(s) \in Part
               /\ job[s].pc # "idle"
               /\ \E c \in Content : vol' = [vol EXCEPT ![job[s].bank][CurPart(s)] = c]
         /\ UNCHANGED cmdline
<1> DEFINE Writes == \E c \in Content : vol' = [vol EXCEPT ![job[s].bank][CurPart(s)] = c]
<1>1. job[s].pc \notin {"idle", "validate", "call", "reboot"} =>
        job[s].bank \in Bank \ {cmdline} /\ CurPart(s) \in Part
  BY CurPartType DEF TypeOK, SessionsSpareRunningBank
<1>2. UNCHANGED cmdline
  BY DEF SessionStep, StartSession, ValidationFails, ValidationPasses, CallPart, ReturnFromPart,
         CompleteSession, AbandonSession, RemoveVol, CreateVol, UpdateStart, UpdateRefused,
         UpdateDone, UpdateBreaks, SetKernelSize, SetActiveBank, SetUpdateChk
<1>3. CASE RemoveVol(s)
  <2>1. UNCHANGED vol \/ Writes
    BY <1>3 DEF RemoveVol, Content, NoData
  <2> QED BY <1>1, <1>2, <1>3, <2>1 DEF RemoveVol
<1>4. CASE CreateVol(s)
  <2>1. UNCHANGED vol \/ Writes
    BY <1>4 DEF CreateVol, Content, NoData
  <2> QED BY <1>1, <1>2, <1>4, <2>1 DEF CreateVol
<1>5. CASE UpdateStart(s)
  <2>1. Writes
    BY <1>5 DEF UpdateStart, Content, NoData
  <2> QED BY <1>1, <1>2, <1>5, <2>1 DEF UpdateStart
<1>6. CASE UpdateDone(s)
  <2>1. Writes
    BY <1>6 DEF UpdateDone, Content, TypeOK
  <2> QED BY <1>1, <1>2, <1>6, <2>1 DEF UpdateDone
<1>7. CASE ~(RemoveVol(s) \/ CreateVol(s) \/ UpdateStart(s) \/ UpdateDone(s))
  BY <1>2, <1>7 DEF SessionStep, StartSession, ValidationFails, ValidationPasses, CallPart,
     ReturnFromPart, CompleteSession, AbandonSession, UpdateRefused, UpdateBreaks,
     SetKernelSize, SetActiveBank, SetUpdateChk
<1> QED BY <1>3, <1>4, <1>5, <1>6, <1>7

-----------------------------------------------------------------------------
(* Type correctness                                                         *)

LEMMA InitInv == Init => IInv
<1> SUFFICES ASSUME Init PROVE IInv
  OBVIOUS
<1>1. [b \in Bank |-> [p \in Part |-> IF b = "A" THEN Factory ELSE "none"]] \in [Bank -> [Part -> Content]]
  BY FactoryAssumption DEF Content, NoData
<1>2. TypeOK
  BY <1>1, FactoryAssumption DEF Init, TypeOK, Bank, Idle, PC
<1>3. SessionsSpareRunningBank
  BY DEF Init, SessionsSpareRunningBank, Idle
<1>4. OneBankBootable
  BY FactoryAssumption DEF Init, OneBankBootable, Bootable, Written, Bank, Part
<1> QED BY <1>2, <1>3, <1>4 DEF IInv

\* Every step keeps the types.
LEMMA TypeStep == TypeOK /\ SessionsSpareRunningBank /\ [Next]_vars => TypeOK'
<1> SUFFICES ASSUME TypeOK, SessionsSpareRunningBank, [Next]_vars PROVE TypeOK'
  OBVIOUS
<1>1. ASSUME NEW s \in Sessions, SessionStep(s) PROVE TypeOK'
  <2>1. vol' \in [Bank -> [Part -> Content]] /\ cmdline' \in Bank
    <3>1. CASE UNCHANGED <<vol, cmdline>>
      BY <3>1 DEF TypeOK
    <3>2. ASSUME NEW b \in Bank, NEW p \in Part, NEW c \in Content,
                 vol' = [vol EXCEPT ![b][p] = c]
          PROVE  vol' \in [Bank -> [Part -> Content]]
      <4>1. [vol[b] EXCEPT ![p] = c] \in [Part -> Content]
        BY DEF TypeOK
      <4> QED BY <3>2, <4>1 DEF TypeOK
    <3>3. cmdline' \in Bank
      BY <1>1, VolStep DEF TypeOK
    <3> QED BY <1>1, VolStep, <3>1, <3>2, <3>3 DEF TypeOK
  <2>2. env' \in [active : Bank, chk : {0, 1, 3}, size : [Bank -> SUBSET Images]]
    <3>1. CASE SetKernelSize(s)
      <4>1. CASE env' = [env EXCEPT !.size[job[s].bank] = {job[s].img}]
        <5>1. [env.size EXCEPT ![job[s].bank] = {job[s].img}] \in [Bank -> SUBSET Images]
          BY DEF TypeOK
        <5> QED BY <4>1, <5>1 DEF TypeOK
      <4> QED BY <3>1, <4>1 DEF SetKernelSize, TypeOK
    <3>2. CASE SetActiveBank(s)
      BY <3>2 DEF SetActiveBank, TypeOK
    <3>3. CASE SetUpdateChk(s)
      BY <3>3 DEF SetUpdateChk, TypeOK
    <3>4. CASE UNCHANGED env
      BY <3>4 DEF TypeOK
    <3> QED
      BY <1>1, <3>1, <3>2, <3>3, <3>4 DEF SessionStep, StartSession, ValidationFails,
         ValidationPasses, CallPart, ReturnFromPart, CompleteSession, AbandonSession, RemoveVol,
         CreateVol, UpdateStart, UpdateRefused, UpdateDone, UpdateBreaks
  <2>3. job' \in [Sessions -> [pc : PC, img : Images, todo : Seq(Part), bank : Bank]]
    <3> DEFINE Jobs == [pc : PC, img : Images, todo : Seq(Part), bank : Bank]
    <3>1. job \in [Sessions -> Jobs] /\ Idle \in Jobs
      BY FactoryAssumption DEF TypeOK, Idle, PC, Bank
    <3>2. ASSUME NEW pc \in PC, Goto(s, pc) PROVE job' \in [Sessions -> Jobs]
      BY <3>1, <3>2 DEF Goto
    <3>3. ASSUME NEW img \in Images, StartSession(s, img) PROVE job' \in [Sessions -> Jobs]
      <4>1. [Idle EXCEPT !.pc = "validate", !.img = img, !.todo = PartOrder] \in Jobs
        BY <3>1, PartsAssumption DEF PC
      <4> QED BY <3>1, <3>3, <4>1 DEF StartSession
    <3>4. CASE CallPart(s)
      BY <3>1, <3>4, NewActiveIsOther DEF CallPart, PC
    <3>5. CASE ReturnFromPart(s)
      BY <3>1, <3>5, CurPartType DEF ReturnFromPart, PC, SessionsSpareRunningBank
    <3>6. CASE ValidationFails(s)
      BY <3>1, <3>6 DEF ValidationFails
    <3>7. CASE UpdateDone(s)
      BY <3>1, <3>7 DEF UpdateDone, PC
    <3> QED
      BY <1>1, <3>2, <3>3, <3>4, <3>5, <3>6, <3>7 DEF SessionStep, ValidationPasses, CompleteSession,
         AbandonSession, RemoveVol, CreateVol, UpdateStart, UpdateRefused, UpdateBreaks,
         SetKernelSize, SetActiveBank, SetUpdateChk, PC
  <2> QED BY <2>1, <2>2, <2>3 DEF TypeOK
<1>2. CASE Restart
  BY <1>2, FactoryAssumption DEF Restart, TypeOK, Idle, PC, Bank
<1>3. CASE UNCHANGED vars
  BY <1>3 DEF vars, TypeOK
<1> QED BY <1>1, <1>2, <1>3 DEF Next

-----------------------------------------------------------------------------
(* The running bank                                                         *)

\* No step changes a volume of the bank that runs before the step.
LEMMA UntouchedStep ==
  TypeOK /\ SessionsSpareRunningBank /\ [Next]_vars => vol'[cmdline] = vol[cmdline]
<1> SUFFICES ASSUME TypeOK, SessionsSpareRunningBank, [Next]_vars
             PROVE  vol'[cmdline] = vol[cmdline]
  OBVIOUS
<1>1. ASSUME NEW s \in Sessions, SessionStep(s) PROVE vol'[cmdline] = vol[cmdline]
  BY <1>1, VolStep DEF TypeOK
<1>2. CASE Restart
  BY <1>2 DEF Restart
<1>3. CASE UNCHANGED vars
  BY <1>3 DEF vars
<1> QED BY <1>1, <1>2, <1>3 DEF Next

LEMMA SpareStep == TypeOK /\ SessionsSpareRunningBank /\ [Next]_vars => SessionsSpareRunningBank'
<1> SUFFICES ASSUME TypeOK, SessionsSpareRunningBank, [Next]_vars PROVE SessionsSpareRunningBank'
  OBVIOUS
<1>1. ASSUME NEW s \in Sessions, SessionStep(s) PROVE SessionsSpareRunningBank'
  <2>1. UNCHANGED cmdline /\ vol'[cmdline] = vol[cmdline]
    BY <1>1, VolStep, UntouchedStep DEF Next
  <2>2. Bootable(cmdline)' <=> Bootable(cmdline)
    BY <2>1 DEF Bootable, Written
  <2>3. Bootable(cmdline)
    BY <1>1 DEF SessionsSpareRunningBank, SessionStep, StartSession, ValidationFails,
       ValidationPasses, CallPart, ReturnFromPart, CompleteSession, AbandonSession, RemoveVol,
       CreateVol, UpdateStart, UpdateRefused, UpdateDone, UpdateBreaks, SetKernelSize,
       SetActiveBank, SetUpdateChk
  <2>4. \A r \in Sessions \ {s} : job'[r] = job[r]
    BY <1>1 DEF TypeOK, SessionStep, StartSession, ValidationFails, ValidationPasses, CallPart,
       ReturnFromPart, CompleteSession, AbandonSession, RemoveVol, CreateVol, UpdateStart,
       UpdateRefused, UpdateDone, UpdateBreaks, SetKernelSize, SetActiveBank, SetUpdateChk, Goto
  <2>5. job'[s].pc \notin {"idle", "validate", "call", "reboot"} =>
          job'[s].bank # cmdline /\ job'[s].todo # <<>>
    <3>1. CASE CallPart(s)
      BY <3>1, NewActiveIsOther DEF CallPart, TypeOK
    <3>2. CASE UpdateDone(s)
      BY <3>2 DEF UpdateDone, TypeOK, SessionsSpareRunningBank
    <3>3. ASSUME NEW img \in Images, StartSession(s, img)
          PROVE  job'[s].pc = "validate"
      <4>1. [Idle EXCEPT !.pc = "validate", !.img = img, !.todo = PartOrder].pc = "validate"
        BY DEF Idle
      <4> QED BY <3>3, <4>1 DEF StartSession, TypeOK
    <3>4. CASE \/ ValidationFails(s) \/ ValidationPasses(s) \/ ReturnFromPart(s)
               \/ CompleteSession(s) \/ AbandonSession(s)
      BY <3>4 DEF ValidationFails, ValidationPasses, ReturnFromPart, CompleteSession,
         AbandonSession, Goto, TypeOK, Idle
    <3>5. CASE \/ RemoveVol(s) \/ CreateVol(s) \/ UpdateStart(s) \/ UpdateRefused(s)
               \/ UpdateBreaks(s) \/ SetKernelSize(s) \/ SetActiveBank(s) \/ SetUpdateChk(s)
      <4>1. \E pc \in PC : Goto(s, pc)
        BY <3>5 DEF RemoveVol, CreateVol, UpdateStart, UpdateRefused, UpdateBreaks, SetKernelSize,
           SetActiveBank, SetUpdateChk, PC
      <4>2. job[s].pc \in {"remove", "create", "update", "data", "size", "active", "chk"}
        BY <3>5 DEF RemoveVol, CreateVol, UpdateStart, UpdateRefused, UpdateBreaks, SetKernelSize,
           SetActiveBank, SetUpdateChk
      <4>3. job[s].bank # cmdline /\ job[s].todo # <<>>
        BY <4>2 DEF SessionsSpareRunningBank
      <4>4. job'[s].todo = job[s].todo /\ job'[s].bank = job[s].bank
        BY <4>1, GotoKeeps
      <4> QED BY <4>3, <4>4
    <3> QED BY <1>1, <3>1, <3>2, <3>3, <3>4, <3>5 DEF SessionStep
  <2> QED BY <2>1, <2>2, <2>3, <2>4, <2>5 DEF SessionsSpareRunningBank
<1>2. CASE Restart
  BY <1>2 DEF Restart, SessionsSpareRunningBank, Idle
<1>3. CASE UNCHANGED vars
  BY <1>3 DEF vars, SessionsSpareRunningBank, Bootable, Written
<1> QED BY <1>1, <1>2, <1>3 DEF Next

LEMMA BootableStep == IInv /\ [Next]_vars => OneBankBootable'
<1> SUFFICES ASSUME IInv, [Next]_vars PROVE OneBankBootable'
  OBVIOUS
<1>1. ASSUME NEW s \in Sessions, SessionStep(s) PROVE OneBankBootable'
  <2>1. CASE UNCHANGED vol
    BY <2>1 DEF IInv, OneBankBootable, Bootable, Written
  <2>2. CASE job[s].pc # "idle"
    <3>1. Bootable(cmdline) /\ cmdline \in Bank
      BY <2>2 DEF IInv, SessionsSpareRunningBank, TypeOK
    <3>2. vol'[cmdline] = vol[cmdline]
      BY UntouchedStep DEF IInv
    <3> QED BY <3>1, <3>2 DEF OneBankBootable, Bootable, Written
  <2> QED BY <1>1, <2>1, <2>2, VolStep DEF IInv
<1>2. CASE Restart
  BY <1>2 DEF Restart, IInv, OneBankBootable, Bootable, Written
<1>3. CASE UNCHANGED vars
  BY <1>3 DEF vars, IInv, OneBankBootable, Bootable, Written
<1> QED BY <1>1, <1>2, <1>3 DEF Next

LEMMA Invariance == Spec => []IInv
<1>1. IInv /\ [Next]_vars => IInv'
  BY TypeStep, SpareStep, BootableStep DEF IInv
<1> QED BY InitInv, <1>1, PTL DEF Spec

\* The types of DualBank hold in every state.
THEOREM TypeCorrect == Spec => []TypeOK
<1>1. IInv => TypeOK
  BY DEF IInv
<1> QED BY Invariance, <1>1, PTL

\* Whatever fails and whenever power is lost, a bank with a complete kernel
\* and root filesystem remains.
THEOREM BankRemains == Spec => []OneBankBootable
<1>1. IInv => OneBankBootable
  BY DEF IInv
<1> QED BY Invariance, <1>1, PTL

\* The upgrade functions write only the bank that does not run.
THEOREM RunningBankSafe == Spec => RunningBankUntouched
<1>1. IInv /\ [Next]_vars => [vol'[cmdline] = vol[cmdline]]_vars
  BY UntouchedStep DEF IInv
<1> QED BY Invariance, <1>1, PTL DEF Spec, RunningBankUntouched

\* No session that is at work runs on a bank that is not bootable or writes the
\* bank the system runs from.
THEOREM RunningBankSpared == Spec => []SessionsSpareRunningBank
<1>1. IInv => SessionsSpareRunningBank
  BY DEF IInv
<1> QED BY Invariance, <1>1, PTL

-----------------------------------------------------------------------------
(* The switch of bank                                                       *)

\* What holds between the end of ubiupdatevol and the switch: nobody but the
\* session itself can have touched the volume it completed, unless another
\* session is at work.
Prepared(s) ==
  /\ job[s].pc \in {"size", "active"} =>
       /\ CurPart(s) \in {"kernel", "bootcore"}
       /\ Alone(s) => vol[job[s].bank][CurPart(s)] = job[s].img
  /\ job[s].pc = "size" => CurPart(s) = "kernel"
  /\ job[s].pc = "active" /\ CurPart(s) = "kernel" /\ Alone(s) =>
       "f_kernel_size" \in EnvFails \/ env.size[job[s].bank] = {job[s].img}

AllPrepared == \A s \in Sessions : Prepared(s)

\* A step of one session leaves another one prepared: a session that others
\* leave alone is still left alone only if the step was one of a session that
\* has not reached its first part.
LEMMA PreparedOther ==
  ASSUME TypeOK, NEW s \in Sessions, NEW t \in Sessions \ {s}, SessionStep(s), Prepared(t)
  PROVE  Prepared(t)'
<1>1. job'[t] = job[t]
  BY DEF TypeOK, SessionStep, StartSession, ValidationFails, ValidationPasses, CallPart,
     ReturnFromPart, CompleteSession, AbandonSession, RemoveVol, CreateVol, UpdateStart,
     UpdateRefused, UpdateDone, UpdateBreaks, SetKernelSize, SetActiveBank, SetUpdateChk, Goto
<1>2. CurPart(t)' = CurPart(t)
  BY <1>1 DEF CurPart
<1>3. ASSUME Alone(t)' PROVE Alone(t) /\ UNCHANGED <<vol, env>>
  <2>1. job'[s].pc \in {"idle", "validate"}
    BY <1>3 DEF Alone
  <2>2. (\E img \in Images : StartSession(s, img)) \/ ValidationFails(s)
    BY <2>1 DEF TypeOK, SessionStep, ValidationPasses, CallPart,
       ReturnFromPart, CompleteSession, AbandonSession, RemoveVol, CreateVol, UpdateStart,
       UpdateRefused, UpdateDone, UpdateBreaks, SetKernelSize, SetActiveBank, SetUpdateChk, Goto
  <2>3. job[s].pc \in {"idle", "validate"} /\ UNCHANGED <<vol, env>>
    BY <2>2 DEF StartSession, ValidationFails
  <2>4. \A r \in Sessions \ {s} : job'[r] = job[r]
    BY <2>2 DEF StartSession, ValidationFails, TypeOK
  <2> QED BY <1>3, <2>3, <2>4 DEF Alone
<1> QED BY <1>1, <1>2, <1>3 DEF Prepared

LEMMA PreparedSelf ==
  ASSUME TypeOK, NEW s \in Sessions, SessionStep(s), Prepared(s)
  PROVE  Prepared(s)'
<1>1. CASE UpdateDone(s)
  <2>1. /\ job'[s].todo = job[s].todo /\ job'[s].bank = job[s].bank /\ job'[s].img = job[s].img
        /\ job'[s].pc = CASE CurPart(s) = "kernel" -> "size"
                          [] CurPart(s) = "bootcore" -> "active"
                          [] OTHER -> "next"
    BY <1>1 DEF UpdateDone, TypeOK
  <2>2. CurPart(s)' = CurPart(s)
    BY <2>1 DEF CurPart
  <2>3. job'[s].pc \in {"size", "active"} =>
          CurPart(s) \in {"kernel", "bootcore"} /\ vol'[job[s].bank][CurPart(s)] = job[s].img
    BY <1>1, <2>1 DEF UpdateDone, TypeOK, Part
  <2>4. job'[s].pc = "active" => CurPart(s) # "kernel"
    BY <2>1
  <2>5. job'[s].pc = "size" => CurPart(s) = "kernel"
    BY <2>1
  <2> QED BY <2>1, <2>2, <2>3, <2>4, <2>5 DEF Prepared
<1>2. CASE SetKernelSize(s)
  <2>1. /\ job'[s] = [job[s] EXCEPT !.pc = "active"]
        /\ \A r \in Sessions \ {s} : job'[r] = job[r]
        /\ UNCHANGED vol
    BY <1>2 DEF SetKernelSize, Goto, TypeOK
  <2>2. CurPart(s)' = CurPart(s) /\ Alone(s)' = Alone(s)
    BY <2>1 DEF CurPart, Alone, TypeOK
  <2>3. "f_kernel_size" \in EnvFails \/ env'.size[job[s].bank] = {job[s].img}
    BY <1>2 DEF SetKernelSize, TypeOK
  <2>4. job[s].pc = "size" /\ job'[s].pc = "active" /\ job'[s].bank = job[s].bank /\ job'[s].img = job[s].img
    BY <1>2, <2>1 DEF SetKernelSize, TypeOK
  <2> QED BY <2>1, <2>2, <2>3, <2>4 DEF Prepared
<1>3. CASE ~UpdateDone(s) /\ ~SetKernelSize(s)
  <2>1. job'[s].pc \notin {"size", "active"}
    <3>1. ASSUME NEW img \in Images, StartSession(s, img) PROVE job'[s].pc = "validate"
      <4>1. [Idle EXCEPT !.pc = "validate", !.img = img, !.todo = PartOrder].pc = "validate"
        BY DEF Idle
      <4> QED BY <3>1, <4>1 DEF StartSession, TypeOK
    <3>2. CASE \/ ValidationFails(s) \/ ValidationPasses(s) \/ CallPart(s) \/ ReturnFromPart(s)
               \/ CompleteSession(s) \/ AbandonSession(s)
      BY <3>2 DEF ValidationFails, ValidationPasses, CallPart, ReturnFromPart, CompleteSession,
         AbandonSession, Goto, TypeOK, Idle
    <3>3. CASE \/ RemoveVol(s) \/ CreateVol(s) \/ UpdateStart(s) \/ UpdateRefused(s)
               \/ UpdateBreaks(s) \/ SetActiveBank(s) \/ SetUpdateChk(s)
      BY <3>3 DEF RemoveVol, CreateVol, UpdateStart, UpdateRefused, UpdateBreaks, SetActiveBank,
         SetUpdateChk, Goto, TypeOK
    <3> QED BY <1>3, <3>1, <3>2, <3>3 DEF SessionStep
  <2> QED BY <2>1 DEF Prepared
<1> QED BY <1>1, <1>2, <1>3

LEMMA PreparedInvariance == Spec => []AllPrepared
<1>1. Init => AllPrepared
  <2>1. Init => \A s \in Sessions : job[s].pc = "idle"
    <3>1. Idle.pc = "idle"
      BY DEF Idle
    <3>2. Init => job = [s \in Sessions |-> Idle]
      BY DEF Init
    <3> QED BY <3>1, <3>2
  <2> QED BY <2>1 DEF AllPrepared, Prepared
<1>2. IInv /\ AllPrepared /\ [Next]_vars => AllPrepared'
  <2> SUFFICES ASSUME TypeOK, AllPrepared, [Next]_vars PROVE AllPrepared'
    BY DEF IInv
  <2>1. ASSUME NEW s \in Sessions, SessionStep(s) PROVE AllPrepared'
    BY <2>1, PreparedOther, PreparedSelf DEF AllPrepared
  <2>2. CASE Restart
    BY <2>2 DEF Restart, AllPrepared, Prepared, Idle
  <2>3. CASE UNCHANGED vars
    BY <2>3 DEF vars, AllPrepared, Prepared, Alone, CurPart
  <2> QED BY <2>1, <2>2, <2>3 DEF Next
<1> QED BY Invariance, <1>1, <1>2, PTL DEF Spec

\* active_bank moves in one action only.
LEMMA SwitchStep ==
  ASSUME TypeOK, [Next]_vars, env'.active # env.active
  PROVE  \E s \in Sessions : SetActiveBank(s) /\ env' = [env EXCEPT !.active = job[s].bank]
<1>1. ASSUME NEW s \in Sessions, SessionStep(s)
      PROVE  SetActiveBank(s) /\ env' = [env EXCEPT !.active = job[s].bank]
  <2>1. ~SetKernelSize(s)
    BY DEF SetKernelSize, TypeOK
  <2>2. ~SetUpdateChk(s)
    BY DEF SetUpdateChk, TypeOK
  <2>3. SetActiveBank(s)
    BY <1>1, <2>1, <2>2 DEF SessionStep, StartSession, ValidationFails, ValidationPasses, CallPart,
       ReturnFromPart, CompleteSession, AbandonSession, RemoveVol, CreateVol, UpdateStart,
       UpdateRefused, UpdateDone, UpdateBreaks
  <2> QED BY <2>3 DEF SetActiveBank
<1>2. ~Restart /\ ~UNCHANGED vars
  BY DEF Restart, vars
<1> QED BY <1>1, <1>2 DEF Next

\* active_bank follows a complete kernel or bootcore, for every set of images
\* and parts: only another session at work can break what was written.
THEOREM SwitchIsWritten == Spec => SwitchOnlyToWritten
<1> DEFINE A == env'.active # env.active =>
       \E s \in Sessions : /\ job[s].pc = "active" /\ job[s].bank = env'.active
                           /\ CurPart(s) \in {"kernel", "bootcore"}
                           /\ Alone(s) => vol[env'.active][CurPart(s)] = job[s].img
<1>1. TypeOK /\ AllPrepared /\ [Next]_vars => [A]_vars
  <2> SUFFICES ASSUME TypeOK, AllPrepared, [Next]_vars, env'.active # env.active
               PROVE  A
    OBVIOUS
  <2>1. PICK s \in Sessions : SetActiveBank(s) /\ env' = [env EXCEPT !.active = job[s].bank]
    BY SwitchStep
  <2>2. job[s].pc = "active" /\ job[s].bank = env'.active
    BY <2>1 DEF SetActiveBank, TypeOK
  <2>3. Prepared(s)
    BY DEF AllPrepared
  <2> QED BY <2>2, <2>3 DEF Prepared
<1> QED BY TypeCorrect, PreparedInvariance, <1>1, PTL DEF Spec, SwitchOnlyToWritten

\* f_kernel_size is that of the kernel the switch selects, whenever storing it
\* cannot fail.
THEOREM SizeIsStored ==
  ASSUME "f_kernel_size" \notin EnvFails PROVE Spec => KernelSizeBeforeSwitch
<1> DEFINE A == env'.active # env.active =>
       \A s \in Sessions : job[s].pc = "active" /\ job'[s].pc = "chk" /\ CurPart(s) = "kernel" /\ Alone(s) =>
         env'.size[env'.active] = {vol[env'.active]["kernel"]}
<1>1. TypeOK /\ AllPrepared /\ [Next]_vars => [A]_vars
  <2> SUFFICES ASSUME TypeOK, AllPrepared, [Next]_vars, env'.active # env.active,
                      NEW s \in Sessions, job[s].pc = "active", job'[s].pc = "chk",
                      CurPart(s) = "kernel", Alone(s)
               PROVE  env'.size[env'.active] = {vol[env'.active]["kernel"]}
    OBVIOUS
  <2>1. PICK r \in Sessions : SetActiveBank(r) /\ env' = [env EXCEPT !.active = job[r].bank]
    BY SwitchStep
  <2>2. r = s
    BY <2>1 DEF SetActiveBank, Alone
  <2>3. env'.size = env.size /\ env'.active = job[s].bank
    BY <2>1, <2>2 DEF TypeOK
  <2>4. Prepared(s)
    BY DEF AllPrepared
  <2> QED BY <2>3, <2>4 DEF Prepared
<1> QED BY TypeCorrect, PreparedInvariance, <1>1, PTL DEF Spec, KernelSizeBeforeSwitch


-----------------------------------------------------------------------------
(* Refinement                                                               *)

UsableBanks == {b \in Bank : Bootable(b)}

\* Every step of the upgrade is a Rewrite, a Boot or a stutter of ABSlots.
LEMMA RefinementStep == IInv /\ [Next]_vars => [Slot!Next]_(Slot!vars)
<1> SUFFICES ASSUME IInv, [Next]_vars PROVE [Slot!Next]_(Slot!vars)
  OBVIOUS
<1>1. ASSUME NEW s \in Sessions, SessionStep(s) PROVE [Slot!Next]_(Slot!vars)
  <2>1. UNCHANGED cmdline
    BY <1>1, VolStep DEF IInv
  <2>2. CASE UNCHANGED vol
    <3>1. UNCHANGED UsableBanks
      BY <2>2 DEF UsableBanks, Bootable, Written
    <3> QED BY <2>1, <3>1 DEF Slot!vars, UsableBanks
  <2>3. CASE job[s].pc # "idle"
    <3>1. Bootable(cmdline) /\ cmdline \in Bank
      BY <2>3 DEF IInv, SessionsSpareRunningBank, TypeOK
    <3>2. vol'[cmdline] = vol[cmdline]
      BY UntouchedStep DEF IInv
    <3>3. cmdline \in UsableBanks /\ cmdline \in UsableBanks' /\ UsableBanks' \in SUBSET Bank
      BY <3>1, <3>2 DEF UsableBanks, Bootable, Written
    <3> QED BY <2>1, <3>3 DEF Slot!Next, Slot!Rewrite, UsableBanks
  <2> QED BY <1>1, <2>2, <2>3, VolStep DEF IInv
<1>2. CASE Restart
  <2>1. UNCHANGED UsableBanks
    BY <1>2 DEF Restart, UsableBanks, Bootable, Written
  <2>2. cmdline' \in Bank
    BY <1>2 DEF Restart, IInv, TypeOK
  <2> QED BY <2>1, <2>2 DEF Slot!Next, Slot!Boot, UsableBanks
<1>3. CASE UNCHANGED vars
  <2>1. UNCHANGED <<UsableBanks, cmdline>>
    BY <1>3 DEF vars, UsableBanks, Bootable, Written
  <2> QED BY <2>1 DEF Slot!vars, UsableBanks
<1> QED BY <1>1, <1>2, <1>3 DEF Next

LEMMA RefinementInit == Init => Slot!Init
<1> SUFFICES ASSUME Init PROVE Slot!Init
  OBVIOUS
<1>1. Bootable("A") /\ ~Bootable("B")
  BY FactoryAssumption, ImagesAssumption DEF Init, Bootable, Written, Bank, Part, NoData
<1> QED BY <1>1 DEF Init, Slot!Init, Bank

\* The dual image upgrade implements the two-slot promise of ABSlots.
THEOREM Refinement == Spec => ImplementsSlots
BY Invariance, RefinementStep, RefinementInit, PTL DEF Spec, ImplementsSlots, Slot!Spec
=============================================================================
