-------------------------- MODULE FwDownload_proof --------------------------
(***************************************************************************)
(* Proofs about FwDownload, for any size of the image, of a page and of    *)
(* the timeouts.  With a readback of MSPI_CFG that agrees, the PHY waits   *)
(* for every word it is sent, the flash always holds a prefix of the       *)
(* image, and success means the whole image.                               *)
(***************************************************************************)
EXTENDS FwDownload, TLAPS

\* The first k - 1 pages of the file are in flash and nothing else.
Prefix(k) == \A p \in Page : flash[p] = IF p < k THEN p ELSE Blank

\* A page is sent only while there are pages left.
PageInv == tool.pc \in PagePC => tool.page \in Page

\* Before the download mode is entered the flash is not that of a PHY that
\* already runs the image.
BeforeInv ==
  tool.pc \in {"stat", "patch", "mspi", "power", "dl"} =>
    tool.page = 1 /\ phy.mode \in {"run", "patch"} /\ ~(phy.from = "FLASH" /\ Complete)

EraseInv ==
  tool.pc = "erasePoll" =>
    /\ phy.mode \in {"erase", "ready"} /\ phy.next = 1 /\ tool.page = 1
    /\ phy.mode = "erase" => ~phy.status
    /\ phy.mode = "ready" => Prefix(1)

SendInv ==
  /\ tool.pc \in {"file", "open", "word", "close"} =>
       phy.mode = "ready" /\ Prefix(tool.page) /\ (tool.page \in Page => phy.next = tool.page)
  /\ tool.pc \in PagePC => tool.page \in Page
  /\ tool.pc = "word" => phy.buf = [w \in 1 .. tool.word - 1 |-> <<tool.page, w>>]
  /\ tool.pc = "open" => tool.word = 1
  /\ tool.pc = "close" => phy.buf = PageWords(tool.page)

PollInv ==
  tool.pc = "pagePoll" =>
    /\ phy.mode \in {"program", "ready"}
    /\ phy.mode = "program" =>
         /\ ~phy.status /\ phy.next = tool.page /\ phy.buf = PageWords(tool.page)
         /\ \A p \in Page \ {tool.page} : flash[p] = IF p < tool.page THEN p ELSE Blank
    /\ phy.mode = "ready" =>
         Prefix(tool.page + 1) /\ (tool.page + 1 \in Page => phy.next = tool.page + 1)

EndInv ==
  /\ tool.pc = "uninit" /\ tool.ok => phy.mode = "ready" /\ Complete
  /\ tool.pc = "ended" /\ tool.ok /\ ~tool.cut => phy.mode \in {"reset", "run"} /\ Complete

IInv == TypeOK /\ BeforeInv /\ EraseInv /\ SendInv /\ PollInv /\ EndInv

USE SizeAssumption, PollsAssumption, StartsAssumption, FlagAssumption, ContentAssumption DEF Page, Word

-----------------------------------------------------------------------------
(* The words of a page                                                      *)

\* Sending word k extends the words 1 .. k - 1 to the words 1 .. k.
LEMMA AppendWord ==
  ASSUME NEW p \in Page, NEW k \in Nat \ {0}
  PROVE  Append([w \in 1 .. k - 1 |-> <<p, w>>], <<p, k>>) = [w \in 1 .. k |-> <<p, w>>]
  OBVIOUS

\* The words tell the page.
LEMMA WordsTellPage ==
  ASSUME NEW p \in Page, NEW q \in Page, PageWords(p) = PageWords(q)
  PROVE  p = q
<1>1. PageWords(p)[1] = <<p, 1>> /\ PageWords(q)[1] = <<q, 1>>
  BY DEF PageWords
<1> QED BY <1>1

LEMMA ChosenPage ==
  ASSUME NEW p \in Page
  PROVE  (CHOOSE q \in Page : PageWords(p) = PageWords(q)) = p
BY WordsTellPage

-----------------------------------------------------------------------------
(* Types                                                                    *)

\* Sequences of words.
LEMMA WordSeq ==
  /\ <<>> \in Seq(Page \X Word)
  /\ \A s \in Seq(Page \X Word), p \in Page, w \in Word : Append(s, <<p, w>>) \in Seq(Page \X Word)
<1> DEFINE S == Page \X Word
<1>1. \A p \in Page, w \in Word : <<p, w>> \in S
  OBVIOUS
<1> HIDE DEF S, Page, Word
<1>2. <<>> \in Seq(S) /\ \A s \in Seq(S), e \in S : Append(s, e) \in Seq(S)
  OBVIOUS
<1> QED BY <1>1, <1>2 DEF S

PhyType == [mode : Mode, from : {"OTP", "FLASH"}, status : BOOLEAN,
            buf : Seq(Page \X Word), next : Page]
ToolType == [pc : PC, page : 1 .. NumPages + 1, word : Word, polls : 0 .. Polls, ok : BOOLEAN, cut : BOOLEAN]

LEMMA InitType == Init => TypeOK
<1> SUFFICES ASSUME Init PROVE TypeOK
  OBVIOUS
<1> DEFINE S == Seq(Page \X Word)
<1>1. <<>> \in S
  BY WordSeq
<1>2. phy \in [mode : Mode, from : {"OTP", "FLASH"}, status : BOOLEAN, buf : S, next : Page]
  <2> HIDE DEF S
  <2> QED BY <1>1 DEF Init, Mode
<1>3. flash \in [Page -> Content]
  BY DEF Init, Content
<1>4. tool \in ToolType
  BY DEF Init, PC, ToolType
<1> QED BY <1>2, <1>3, <1>4 DEF TypeOK, Init, ToolType

\* The type of the tool's state after each of its steps.
LEMMA ToolStepType ==
  ASSUME TypeOK, PageInv, Next
  PROVE  tool' \in ToolType /\ starts' \in 0 .. MaxStarts
<1>1. tool \in ToolType /\ starts \in 0 .. MaxStarts
  BY DEF TypeOK, ToolType
<1>2. CASE Start
  BY <1>1, <1>2 DEF Start, ToolType, PC, InitPC
<1>3. CASE PollBusy
  BY <1>1, <1>3 DEF PollBusy, ToolType
<1>4. CASE SendWord
  <2> DEFINE pc == IF tool.word = Words THEN "close" ELSE "word"
             w == IF tool.word = Words THEN 1 ELSE tool.word + 1
  <2>1. pc \in PC /\ w \in Word
    BY <1>1 DEF PC, PagePC, ToolType
  <2>2. tool' = [tool EXCEPT !.pc = pc, !.word = w] /\ UNCHANGED starts
    BY <1>4 DEF SendWord
  <2> HIDE DEF pc, w
  <2> QED BY <1>1, <2>1, <2>2 DEF ToolType
<1>5. CASE PageDone
  <2>1. tool.page + 1 \in 1 .. NumPages + 1 /\ "file" \in PC
    BY <1>5 DEF PageDone, PageInv, PagePC, PC
  <2>2. tool' = [tool EXCEPT !.pc = "file", !.page = tool.page + 1] /\ UNCHANGED starts
    BY <1>5 DEF PageDone
  <2> QED BY <1>1, <2>1, <2>2 DEF ToolType
<1>6. CASE ReadStat \/ PatchReq \/ SetMspi \/ MspiMismatch \/ ClearPowerDown \/ Erased \/ AllSent
           \/ OpenPage \/ Uninit
  BY <1>1, <1>6 DEF ReadStat, PatchReq, SetMspi, MspiMismatch, ClearPowerDown, Erased, AllSent,
     OpenPage, Uninit, Goto, ToolType, PC, InitPC, PagePC
<1>7. CASE EnterDownload \/ EraseTimeout \/ ReadFile \/ ClosePage \/ PageTimeout
  <2>1. CASE EnterDownload \/ ClosePage
    <3>1. Polls \in 0 .. Polls /\ "erasePoll" \in PC /\ "pagePoll" \in PC
      BY DEF PC, InitPC, PagePC
    <3>2. UNCHANGED starts /\ \E pc \in PC : tool' = [tool EXCEPT !.pc = pc, !.polls = Polls]
      BY <2>1, <3>1 DEF EnterDownload, ClosePage
    <3> QED BY <1>1, <3>1, <3>2 DEF ToolType
  <2>2. CASE EraseTimeout \/ PageTimeout
    BY <1>1, <2>2 DEF EraseTimeout, PageTimeout, ToolType, PC
  <2>3. CASE ReadFile
    <3>1. 1 \in Word /\ "open" \in PC
      BY DEF PC, PagePC
    <3>2. UNCHANGED starts /\ tool' = [tool EXCEPT !.pc = "open", !.word = 1]
      BY <2>3 DEF ReadFile
    <3> QED BY <1>1, <3>1, <3>2 DEF ToolType
  <2> QED BY <1>7, <2>1, <2>2, <2>3
<1>8. CASE Failure \/ PowerCycle
  BY <1>1, <1>8 DEF Failure, InitFails, FileFails, FileEnds, Goto, PageFails, UninitFails, PowerCycle, ToolType, PC
<1>9. CASE PhyStep
  BY <1>1, <1>9 DEF PhyStep, EraseEnds, ProgramEnds, Boot
<1> QED BY <1>2, <1>3, <1>4, <1>5, <1>6, <1>7, <1>8, <1>9 DEF Next, Work

\* The type of the PHY's state after each step.
LEMMA PhyStepType ==
  ASSUME TypeOK, PageInv, Next
  PROVE  phy' \in PhyType
<1> DEFINE S == Seq(Page \X Word)
           T == [mode : Mode, from : {"OTP", "FLASH"}, status : BOOLEAN, buf : S, next : Page]
<1>1. phy \in T /\ tool \in ToolType
  BY DEF TypeOK, ToolType
<1>2. <<>> \in S
  BY WordSeq
<1>3. tool.pc = "word" => Append(phy.buf, <<tool.page, tool.word>>) \in S
  BY <1>1, WordSeq DEF ToolType, PageInv, PagePC
<1>4. phy' \in T
  <2> HIDE DEF S
  <2>1. CASE SendWord
    BY <1>1, <1>3, <2>1 DEF SendWord
  <2>2. CASE EnterDownload \/ PatchReq \/ OpenPage \/ ClosePage \/ Uninit
    <3>1. CASE EnterDownload
      <4>1. 1 \in Page
        OBVIOUS
      <4>2. phy' = [phy EXCEPT !.mode = "erase", !.status = FALSE, !.buf = <<>>, !.next = 1]
        BY <3>1 DEF EnterDownload
      <4> HIDE DEF Page
      <4> QED BY <1>1, <1>2, <4>1, <4>2 DEF Mode
    <3>2. CASE PatchReq \/ Uninit
      BY <1>1, <3>2 DEF PatchReq, Uninit, Mode
    <3>3. CASE OpenPage
      BY <1>1, <1>2, <3>3 DEF OpenPage
    <3>4. CASE ClosePage
      BY <1>1, <3>4 DEF ClosePage, Mode
    <3> QED BY <2>2, <3>1, <3>2, <3>3, <3>4
  <2>3. CASE EraseEnds \/ ProgramEnds \/ Boot \/ PowerCycle
    <3>1. CASE EraseEnds \/ PowerCycle
      BY <1>1, <3>1 DEF EraseEnds, PowerCycle, Mode
    <3>2. CASE ProgramEnds
      <4> DEFINE n == IF phy.next = NumPages THEN 1 ELSE phy.next + 1
      <4>1. n \in Page
        BY <1>1
      <4>2. phy' = [phy EXCEPT !.mode = "ready", !.status = TRUE, !.buf = <<>>, !.next = n]
        BY <3>2 DEF ProgramEnds
      <4> HIDE DEF n
      <4> QED BY <1>1, <1>2, <4>1, <4>2 DEF Mode
    <3>3. CASE Boot
      BY <1>2, <3>3 DEF Boot, Mode
    <3> QED BY <2>3, <3>1, <3>2, <3>3
  <2>4. CASE Start \/ Failure
    BY <1>1, <2>4 DEF Start, Failure, InitFails, FileFails, FileEnds, Goto, PageFails, UninitFails
  <2>5. CASE ReadStat \/ SetMspi \/ MspiMismatch \/ ClearPowerDown \/ Erased \/ EraseTimeout
             \/ PollBusy \/ ReadFile \/ AllSent \/ PageDone \/ PageTimeout
    BY <1>1, <2>5 DEF ReadStat, SetMspi, MspiMismatch, ClearPowerDown, Erased, EraseTimeout,
       PollBusy, ReadFile, AllSent, PageDone, PageTimeout
  <2> QED BY <2>1, <2>2, <2>3, <2>4, <2>5 DEF Next, Work, PhyStep
<1> QED BY <1>4 DEF PhyType

\* The type of the flash after each step.
LEMMA FlashStepType ==
  ASSUME TypeOK, Next
  PROVE  flash' \in [Page -> Content]
<1>1. flash \in [Page -> Content] /\ phy.next \in Page
  BY DEF TypeOK
<1>2. CASE ProgramEnds
  <2> DEFINE c == IF \E p \in Page : phy.buf = PageWords(p)
                    THEN CHOOSE p \in Page : phy.buf = PageWords(p) ELSE Torn
  <2>1. c \in Content
    BY DEF Content
  <2>2. flash' = [flash EXCEPT ![phy.next] = c]
    BY <1>2 DEF ProgramEnds
  <2> HIDE DEF c
  <2> QED BY <1>1, <2>1, <2>2
<1>3. CASE EnterDownload \/ ClosePage \/ EraseEnds
  BY <1>1, <1>3 DEF EnterDownload, ClosePage, EraseEnds, Content
<1>4. CASE ~EnterDownload /\ ~ClosePage /\ ~EraseEnds /\ ~ProgramEnds
  BY <1>1, <1>4 DEF Next, Work, PhyStep, Start, Failure, InitFails, FileFails, FileEnds, Goto, PageFails,
     UninitFails, PatchReq, OpenPage, Uninit, Boot, PowerCycle, ReadStat, SetMspi, MspiMismatch,
     ClearPowerDown, Erased, EraseTimeout, PollBusy, ReadFile, AllSent, PageDone, PageTimeout, SendWord
<1> QED BY <1>2, <1>3, <1>4

LEMMA TypeStep == TypeOK /\ PageInv /\ [Next]_vars => TypeOK' /\ PageInv'
<1>1. ASSUME TypeOK, PageInv, Next PROVE TypeOK'
  <2>1. tool' \in ToolType /\ starts' \in 0 .. MaxStarts /\ phy' \in PhyType
        /\ flash' \in [Page -> Content]
    BY <1>1, ToolStepType, PhyStepType, FlashStepType
  <2> QED BY <2>1 DEF TypeOK, PhyType, ToolType
<1>2. ASSUME TypeOK, PageInv, Next PROVE PageInv'
  <2>1. tool \in ToolType
    BY <1>2 DEF TypeOK, ToolType
  <2>2. tool'.pc \in PagePC => (tool'.page = tool.page /\ (tool.pc \in PagePC \/ ReadFile))
    <3>1. CASE Start \/ Failure \/ PowerCycle \/ PhyStep
      <4>1. PhyStep => tool' = tool
        BY DEF PhyStep, EraseEnds, ProgramEnds, Boot
      <4>2. Start \/ Failure \/ PowerCycle => tool'.pc \in {"stat", "uninit", "ended", "idle"}
        <5>1. Start => tool'.pc = "stat"
          BY DEF Start
        <5>2. PowerCycle => tool'.pc = "idle"
          BY <2>1 DEF PowerCycle, ToolType
        <5>3. Failure => tool'.pc \in {"uninit", "ended"}
          BY <2>1 DEF Failure, InitFails, FileFails, FileEnds, Goto, PageFails, UninitFails, ToolType
        <5> QED BY <5>1, <5>2, <5>3
      <4> QED BY <3>1, <4>1, <4>2 DEF PagePC
    <3>2. CASE ReadStat \/ PatchReq \/ SetMspi \/ MspiMismatch \/ ClearPowerDown \/ Erased \/ AllSent
      BY <2>1, <3>2 DEF ReadStat, PatchReq, SetMspi, MspiMismatch, ClearPowerDown, Erased, AllSent,
         Goto, ToolType, PagePC
    <3>3. CASE OpenPage \/ Uninit \/ EnterDownload \/ EraseTimeout \/ PageTimeout \/ PageDone
      BY <2>1, <3>3 DEF OpenPage, Uninit, Goto, EnterDownload, EraseTimeout, PageTimeout, PageDone,
         ToolType, PagePC
    <3>4. CASE PollBusy \/ ReadFile
      BY <2>1, <3>4 DEF PollBusy, ReadFile, ToolType, PagePC
    <3>5. CASE SendWord \/ ClosePage
      <4>1. tool'.page = tool.page
        BY <2>1, <3>5 DEF SendWord, ClosePage, ToolType
      <4>2. tool.pc \in PagePC
        BY <3>5 DEF SendWord, ClosePage, PagePC
      <4> QED BY <4>1, <4>2
    <3> QED BY <1>2, <3>1, <3>2, <3>3, <3>4, <3>5 DEF Next, Work
  <2>3. ReadFile => tool.page \in Page
    BY <2>1 DEF ReadFile, ToolType
  <2> QED BY <1>2, <2>2, <2>3 DEF PageInv
<1>3. TypeOK /\ PageInv /\ UNCHANGED vars => TypeOK' /\ PageInv'
  BY DEF TypeOK, PageInv, vars
<1> QED BY <1>1, <1>2, <1>3

\* The state of FwDownload keeps its types, and the polls never count below zero.
THEOREM TypeCorrect == Spec => []TypeOK
<1>1. Init => TypeOK /\ PageInv
  BY InitType DEF Init, PageInv, PagePC
<1> QED BY <1>1, TypeStep, PTL DEF Spec

-----------------------------------------------------------------------------
(* The inductive invariant, one lemma per part of the protocol              *)

Inv == BeforeInv /\ EraseInv /\ SendInv /\ PollInv /\ EndInv

\* The start of the tool and the steps before the download mode.
LEMMA BeforeStep ==
  ASSUME MspiStable, IInv,
         Start \/ ReadStat \/ PatchReq \/ SetMspi \/ MspiMismatch \/ ClearPowerDown
  PROVE  Inv'
<1>1. /\ tool'.pc \in {"stat", "patch", "mspi", "power", "dl"} /\ tool'.page = 1
      /\ phy'.mode \in {"run", "patch"} /\ phy'.from = phy.from /\ flash' = flash
      /\ ~(phy.from = "FLASH" /\ Complete)
  <2>1. CASE Start
    BY <2>1 DEF Start
  <2>2. CASE ReadStat
    BY <2>2 DEF ReadStat, Goto, IInv, TypeOK, BeforeInv
  <2>3. CASE PatchReq
    BY <2>3 DEF PatchReq, Goto, IInv, TypeOK, BeforeInv, Mode
  <2>4. CASE SetMspi \/ ClearPowerDown
    BY <2>4 DEF SetMspi, ClearPowerDown, Goto, IInv, TypeOK, BeforeInv
  <2> QED BY <2>1, <2>2, <2>3, <2>4 DEF MspiMismatch
<1>2. Complete' = Complete
  BY <1>1 DEF Complete
<1> QED BY <1>1, <1>2 DEF Inv, BeforeInv, EraseInv, SendInv, PollInv, EndInv, PagePC

\* gpy2xx_fw_frw_init after the download mode is entered.
LEMMA EraseStep ==
  ASSUME IInv, EnterDownload \/ Erased \/ EraseTimeout
  PROVE  Inv'
<1>1. CASE EnterDownload
  <2>1. tool'.pc = "erasePoll" /\ tool'.page = tool.page
    BY <1>1 DEF EnterDownload, IInv, TypeOK
  <2>2. phy'.mode = "erase" /\ phy'.next = 1 /\ ~phy'.status
    BY <1>1 DEF EnterDownload, IInv, TypeOK
  <2>3. tool.page = 1
    BY <1>1 DEF EnterDownload, IInv, BeforeInv
  <2> QED BY <2>1, <2>2, <2>3 DEF Inv, BeforeInv, EraseInv, SendInv, PollInv, EndInv, PagePC
<1>2. CASE Erased
  <2>1. tool'.pc = "file" /\ tool'.page = 1 /\ UNCHANGED <<phy, flash>> /\ tool.page = 1
    BY <1>2 DEF Erased, Goto, IInv, TypeOK, EraseInv
  <2>2. phy.mode = "ready" /\ phy.next = 1 /\ Prefix(1)
    BY <1>2 DEF Erased, IInv, EraseInv
  <2>3. Prefix(tool.page)'
    BY <2>1, <2>2 DEF Prefix
  <2> QED BY <2>1, <2>2, <2>3 DEF Inv, BeforeInv, EraseInv, SendInv, PollInv, EndInv, PagePC
<1>3. CASE EraseTimeout
  <2>1. tool'.pc = "ended" /\ ~tool'.ok
    BY <1>3 DEF EraseTimeout, IInv, TypeOK
  <2> QED BY <2>1 DEF Inv, BeforeInv, EraseInv, SendInv, PollInv, EndInv, PagePC
<1> QED BY <1>1, <1>2, <1>3

\* The steps by which the tool ends with an error.
LEMMA FailureStep ==
  ASSUME IInv, Failure \/ PageTimeout \/ PowerCycle
  PROVE  Inv'
<1>1. tool'.pc = "idle" \/ (tool'.pc \in {"uninit", "ended"} /\ ~tool'.ok)
      \/ (tool'.pc = "ended" /\ tool'.cut)
  BY DEF Failure, InitFails, FileFails, FileEnds, Goto, PageFails, UninitFails, PageTimeout, PowerCycle, IInv, TypeOK
<1> QED BY <1>1 DEF Inv, BeforeInv, EraseInv, SendInv, PollInv, EndInv, PagePC

\* A poll that finds the PHY busy changes nothing but the count.
LEMMA PollStep ==
  ASSUME IInv, PollBusy
  PROVE  Inv'
<1>1. /\ tool'.pc = tool.pc /\ tool'.page = tool.page /\ tool.pc \in {"erasePoll", "pagePoll"}
      /\ UNCHANGED <<phy, flash>>
  BY DEF PollBusy, IInv, TypeOK
<1>2. Prefix(1)' = Prefix(1) /\ Prefix(tool.page + 1)' = Prefix(tool.page + 1)
  BY <1>1 DEF Prefix
<1> QED BY <1>1, <1>2 DEF IInv, Inv, BeforeInv, EraseInv, SendInv, PollInv, EndInv, PagePC

\* Sending a page.
LEMMA SendStep ==
  ASSUME IInv, ReadFile \/ OpenPage \/ SendWord \/ ClosePage
  PROVE  Inv'
<1>0. tool \in ToolType
  BY DEF IInv, TypeOK, ToolType
<1>1. phy.mode = "ready" /\ Prefix(tool.page) /\ tool.page \in Page /\ phy.next = tool.page
  BY <1>0 DEF ReadFile, OpenPage, SendWord, ClosePage, IInv, SendInv, PagePC, ToolType
<1>2. CASE ReadFile
  <2>1. tool'.pc = "open" /\ tool'.page = tool.page /\ tool'.word = 1 /\ UNCHANGED <<phy, flash>>
    BY <1>0, <1>2 DEF ReadFile, ToolType
  <2>2. Prefix(tool.page)'
    BY <1>1, <2>1 DEF Prefix
  <2> QED BY <1>1, <2>1, <2>2 DEF Inv, BeforeInv, EraseInv, SendInv, PollInv, EndInv, PagePC
<1>3. CASE OpenPage
  <2>1. /\ tool'.pc = "word" /\ tool'.page = tool.page /\ tool'.word = 1
        /\ flash' = flash
    BY <1>0, <1>3 DEF OpenPage, Goto, ToolType, IInv, SendInv
  <2>2. phy'.mode = "ready" /\ phy'.next = phy.next /\ phy'.buf = <<>>
    BY <1>1, <1>3 DEF OpenPage, IInv, TypeOK
  <2>3. <<>> = [w \in 1 .. 1 - 1 |-> <<tool.page, w>>]
    OBVIOUS
  <2>4. Prefix(tool.page)'
    BY <1>1, <2>1 DEF Prefix
  <2> QED BY <1>1, <2>1, <2>2, <2>3, <2>4
          DEF Inv, BeforeInv, EraseInv, SendInv, PollInv, EndInv, PagePC
<1>4. CASE SendWord
  <2> DEFINE k == tool.word
  <2>1. /\ k \in Word /\ tool.pc = "word" /\ tool'.page = tool.page /\ flash' = flash
        /\ tool'.pc = IF k = Words THEN "close" ELSE "word"
        /\ tool'.word = IF k = Words THEN 1 ELSE k + 1
    BY <1>0, <1>4 DEF SendWord, ToolType
  <2>2. phy'.mode = "ready" /\ phy'.next = phy.next /\ phy'.buf = Append(phy.buf, <<tool.page, k>>)
    BY <1>1, <1>4 DEF SendWord, IInv, TypeOK
  <2>3. phy.buf = [w \in 1 .. k - 1 |-> <<tool.page, w>>]
    BY <2>1 DEF IInv, SendInv
  <2>4. phy'.buf = [w \in 1 .. k |-> <<tool.page, w>>]
    BY <1>1, <2>1, <2>2, <2>3, AppendWord
  <2>5. Prefix(tool.page)'
    BY <1>1, <2>1 DEF Prefix
  <2>6. CASE k = Words
    BY <1>1, <2>1, <2>2, <2>4, <2>5, <2>6
       DEF Inv, BeforeInv, EraseInv, SendInv, PollInv, EndInv, PagePC, PageWords
  <2>7. CASE k # Words
    <3>1. tool'.word - 1 = k
      BY <2>1, <2>7
    <3> QED BY <1>1, <2>1, <2>2, <2>4, <2>5, <2>7, <3>1
            DEF Inv, BeforeInv, EraseInv, SendInv, PollInv, EndInv, PagePC
  <2> QED BY <2>6, <2>7
<1>5. CASE ClosePage
  <2>1. tool'.pc = "pagePoll" /\ tool'.page = tool.page
    BY <1>0, <1>5 DEF ClosePage, ToolType
  <2>2. phy'.mode = "program" /\ ~phy'.status /\ phy'.next = tool.page /\ phy'.buf = phy.buf
    BY <1>1, <1>5 DEF ClosePage, IInv, TypeOK
  <2>3. phy.buf = PageWords(tool.page)
    BY <1>5 DEF ClosePage, IInv, SendInv
  <2>4. flash' = [flash EXCEPT ![tool.page] = Torn]
    BY <1>1, <1>5 DEF ClosePage
  <2>5. \A p \in Page \ {tool.page} : flash'[p] = IF p < tool.page THEN p ELSE Blank
    BY <1>1, <2>4 DEF Prefix, IInv, TypeOK
  <2> QED BY <1>1, <2>1, <2>2, <2>3, <2>5
          DEF Inv, BeforeInv, EraseInv, SendInv, PollInv, EndInv, PagePC, PageWords
<1> QED BY <1>2, <1>3, <1>4, <1>5

\* The end of a page, of the file and of the tool.
LEMMA FinishStep ==
  ASSUME IInv, PageDone \/ AllSent \/ Uninit
  PROVE  Inv'
<1>0. tool \in ToolType
  BY DEF IInv, TypeOK, ToolType
<1>1. CASE PageDone
  <2>1. tool'.pc = "file" /\ tool'.page = tool.page + 1 /\ UNCHANGED <<phy, flash>> /\ phy.status
    BY <1>0, <1>1 DEF PageDone, ToolType
  <2>2. phy.mode = "ready" /\ Prefix(tool.page + 1)
        /\ (tool.page + 1 \in Page => phy.next = tool.page + 1)
    BY <1>1 DEF PageDone, IInv, PollInv
  <2>3. Prefix(tool.page)'
    BY <2>1, <2>2 DEF Prefix
  <2> QED BY <2>1, <2>2, <2>3 DEF Inv, BeforeInv, EraseInv, SendInv, PollInv, EndInv, PagePC
<1>2. CASE AllSent
  <2>1. tool'.pc = "uninit" /\ UNCHANGED <<phy, flash>> /\ tool.page > NumPages
    BY <1>0, <1>2 DEF AllSent, Goto, ToolType
  <2>2. phy.mode = "ready" /\ Prefix(tool.page)
    BY <1>2 DEF AllSent, IInv, SendInv
  <2>3. Complete'
    BY <1>0, <2>1, <2>2 DEF Complete, Prefix, ToolType
  <2> QED BY <2>1, <2>2, <2>3 DEF Inv, BeforeInv, EraseInv, SendInv, PollInv, EndInv, PagePC
<1>3. CASE Uninit
  <2>1. tool'.pc = "ended" /\ tool'.ok = tool.ok /\ flash' = flash /\ phy'.mode = "reset"
    BY <1>0, <1>3 DEF Uninit, Goto, ToolType, IInv, TypeOK
  <2>2. tool.ok => Complete'
    BY <1>3, <2>1 DEF Uninit, IInv, EndInv, Complete
  <2> QED BY <2>1, <2>2 DEF Inv, BeforeInv, EraseInv, SendInv, PollInv, EndInv, PagePC
<1> QED BY <1>1, <1>2, <1>3

\* The PHY finishes what the tool polls for, or restarts.
LEMMA PhyStepInv ==
  ASSUME IInv, PhyStep
  PROVE  Inv'
<1>0. tool \in ToolType /\ phy.next \in Page /\ flash \in [Page -> Content] /\ UNCHANGED tool
  BY DEF IInv, TypeOK, ToolType, PhyStep, EraseEnds, ProgramEnds, Boot
<1>1. CASE EraseEnds
  <2>1. phy.mode = "erase" /\ phy'.mode = "ready" /\ phy'.next = phy.next
    BY <1>1 DEF EraseEnds, IInv, TypeOK
  <2>2. Prefix(1)'
    BY <1>1 DEF EraseEnds, Prefix
  <2> QED BY <1>0, <2>1, <2>2 DEF IInv, Inv, BeforeInv, EraseInv, SendInv, PollInv, EndInv, PagePC
<1>2. CASE ProgramEnds
  <2>1. phy.mode = "program" /\ phy'.mode = "ready"
        /\ phy'.next = IF phy.next = NumPages THEN 1 ELSE phy.next + 1
    BY <1>2 DEF ProgramEnds, IInv, TypeOK
  <2>2. ASSUME tool.pc = "pagePoll"
        PROVE  Prefix(tool.page + 1)' /\ (tool.page + 1 \in Page => phy'.next = tool.page + 1)
    <3>1. /\ tool.page \in Page /\ phy.next = tool.page /\ phy.buf = PageWords(tool.page)
          /\ \A p \in Page \ {tool.page} : flash[p] = IF p < tool.page THEN p ELSE Blank
      BY <2>1, <2>2 DEF IInv, PollInv, SendInv, PagePC
    <3>2. (CHOOSE p \in Page : phy.buf = PageWords(p)) = tool.page
      BY <3>1, ChosenPage
    <3>3. flash' = [flash EXCEPT ![tool.page] = tool.page]
      BY <1>2, <3>1, <3>2 DEF ProgramEnds
    <3>4. \A p \in Page : flash'[p] = IF p < tool.page + 1 THEN p ELSE Blank
      BY <1>0, <3>1, <3>3
    <3> QED BY <1>0, <2>1, <3>1, <3>4 DEF Prefix
  <2> QED BY <1>0, <2>1, <2>2 DEF IInv, Inv, BeforeInv, EraseInv, SendInv, PollInv, EndInv, PagePC
<1>3. CASE Boot
  <2>1. phy.mode = "reset" /\ phy'.mode = "run" /\ flash' = flash
    BY <1>3 DEF Boot
  <2>2. Complete' = Complete
    BY <2>1 DEF Complete
  <2> QED BY <1>0, <2>1, <2>2 DEF IInv, Inv, BeforeInv, EraseInv, SendInv, PollInv, EndInv, PagePC
<1> QED BY <1>1, <1>2, <1>3 DEF PhyStep

LEMMA InvInit == Init => Inv
BY DEF Init, Inv, BeforeInv, EraseInv, SendInv, PollInv, EndInv, PagePC

LEMMA InvStep == MspiStable /\ IInv /\ [Next]_vars => IInv'
<1> SUFFICES ASSUME MspiStable, IInv, [Next]_vars PROVE IInv'
  OBVIOUS
<1>1. TypeOK'
  BY TypeStep DEF IInv, SendInv, PageInv
<1>2. CASE Next
  <2>1. Inv'
    BY <1>2, BeforeStep, EraseStep, FailureStep, PollStep, SendStep, FinishStep, PhyStepInv DEF Next, Work
  <2> QED BY <1>1, <2>1 DEF IInv, Inv
<1>3. CASE UNCHANGED vars
  BY <1>1, <1>3 DEF vars, IInv, BeforeInv, EraseInv, SendInv, PollInv, EndInv, Prefix, Complete, PageWords
<1> QED BY <1>2, <1>3

LEMMA Invariance == ASSUME MspiStable PROVE Spec => []IInv
<1>1. Init => IInv
  BY InitType, InvInit DEF IInv, Inv
<1> QED BY <1>1, InvStep, PTL DEF Spec

\* The PHY waits for every word the tool sends.
THEOREM Listening == ASSUME MspiStable PROVE Spec => []PhyListens
<1>1. IInv => PhyListens
  BY DEF IInv, SendInv, PhyListens
<1> QED BY <1>1, Invariance, PTL

\* The flash holds the pages sent so far, in order, and nothing else.
THEOREM PrefixInFlash == ASSUME MspiStable PROVE Spec => []PrefixWritten
<1>1. IInv => PrefixWritten
  BY DEF IInv, SendInv, PrefixWritten, Prefix
<1> QED BY <1>1, Invariance, PTL

\* Success means that the whole image is in the flash, unless the file has ended
\* before its size.
THEOREM SuccessIsComplete == ASSUME MspiStable PROVE Spec => []SuccessMeansComplete
<1>1. IInv => SuccessMeansComplete
  BY DEF IInv, EndInv, SuccessMeansComplete
<1> QED BY <1>1, Invariance, PTL

-----------------------------------------------------------------------------
(* A PHY that runs the new firmware                                         *)

LEMMA BeforeKept == TypeOK /\ BeforeInv /\ [Next]_vars => BeforeInv'
<1> SUFFICES ASSUME TypeOK, BeforeInv, [Next]_vars, tool'.pc \in {"stat", "patch", "mspi", "power", "dl"}
             PROVE  tool'.page = 1 /\ phy'.mode \in {"run", "patch"} /\ ~(phy.from = "FLASH" /\ Complete)'
  BY DEF BeforeInv
<1>0. tool \in ToolType
  BY DEF TypeOK, ToolType
<1>1. CASE Start
  BY <1>1 DEF Start, Complete
<1>2. CASE ReadStat \/ SetMspi \/ ClearPowerDown \/ UNCHANGED vars
  BY <1>0, <1>2 DEF ReadStat, SetMspi, ClearPowerDown, Goto, vars, BeforeInv, ToolType, Complete
<1>3. CASE PatchReq
  BY <1>0, <1>3 DEF PatchReq, Goto, BeforeInv, ToolType, TypeOK, Complete
<1>4. CASE PhyStep
  <2>1. tool' = tool /\ phy.mode \notin {"run", "patch"}
    BY <1>4 DEF PhyStep, EraseEnds, ProgramEnds, Boot
  <2> QED BY <2>1 DEF BeforeInv
<1>5. CASE Failure \/ PowerCycle \/ EnterDownload \/ Erased \/ EraseTimeout
  BY <1>0, <1>5 DEF Failure, InitFails, FileFails, FileEnds, Goto, PageFails, UninitFails, PowerCycle,
     EnterDownload, Erased, EraseTimeout, ToolType
<1>6. CASE MspiMismatch \/ AllSent \/ OpenPage \/ Uninit \/ PageTimeout \/ PageDone
  BY <1>0, <1>6 DEF MspiMismatch, AllSent, OpenPage, Uninit, PageTimeout, PageDone, Goto, ToolType
<1>7. CASE PollBusy \/ ReadFile
  BY <1>0, <1>7 DEF PollBusy, ReadFile, ToolType
<1>8. CASE SendWord \/ ClosePage
  BY <1>0, <1>8 DEF SendWord, ClosePage, ToolType
<1> QED BY <1>1, <1>2, <1>3, <1>4, <1>5, <1>6, <1>7, <1>8 DEF Next, Work

\* The flash changes only while a download is going on.
LEMMA FlashStep ==
  ASSUME TypeOK, [Next]_vars, flash' # flash
  PROVE  tool.pc = "dl" \/ phy.mode \in {"ready", "erase", "program"}
<1>1. EnterDownload \/ ClosePage \/ EraseEnds \/ ProgramEnds
  BY DEF Next, Work, PhyStep, Start, Failure, InitFails, FileFails, FileEnds, Goto, PageFails, UninitFails, vars,
     PatchReq, OpenPage, Uninit, Boot, PowerCycle, ReadStat, SetMspi, MspiMismatch,
     ClearPowerDown, Erased, EraseTimeout, PollBusy, ReadFile, AllSent, PageDone, PageTimeout, SendWord
<1> QED BY <1>1 DEF EnterDownload, ClosePage, EraseEnds, ProgramEnds

\* The flash of a PHY that runs the new firmware is never touched again.
THEOREM NewFirmware == Spec => NewFirmwareStays
<1>1. Init => TypeOK /\ PageInv /\ BeforeInv
  BY InitType DEF Init, PageInv, PagePC, BeforeInv
<1>2. TypeOK /\ BeforeInv /\ [Next]_vars =>
        [phy.mode = "run" /\ phy.from = "FLASH" /\ Complete => UNCHANGED flash]_vars
  BY FlashStep DEF BeforeInv
<1> QED BY <1>1, <1>2, TypeStep, BeforeKept, PTL DEF Spec, NewFirmwareStays

-----------------------------------------------------------------------------
(* The tool comes to its end                                                *)

Working == tool.pc \notin {"idle", "ended"}

\* The order of the tool's steps for one page.
Stage ==
  [stat |-> 0, patch |-> 1, mspi |-> 2, power |-> 3, dl |-> 4, erasePoll |-> 5,
   file |-> 6, open |-> 7, word |-> 8, close |-> 9, pagePoll |-> 10, uninit |-> 11, ended |-> 12]

\* The tool has got further: a page, a step, a word, or one poll less to go.
Further ==
  \/ tool'.page > tool.page
  \/ /\ tool'.page = tool.page
     /\ \/ Stage[tool'.pc] > Stage[tool.pc]
        \/ tool.pc = "word" /\ tool'.pc = "word" /\ tool'.word > tool.word
        \/ tool.pc \in {"erasePoll", "pagePoll"} /\ tool'.pc = tool.pc /\ tool'.polls < tool.polls
ToolGetsFurther == [][Working /\ tool' # tool => Further \/ tool'.pc = "idle"]_vars

LEMMA FurtherStep ==
  ASSUME TypeOK, Next, Working, tool' # tool
  PROVE  Further \/ tool'.pc = "idle"
<1>0. tool \in ToolType
  BY DEF TypeOK, ToolType
<1>1. CASE PowerCycle
  BY <1>0, <1>1 DEF PowerCycle, ToolType
<1>2. CASE ReadStat \/ PatchReq \/ SetMspi \/ MspiMismatch \/ ClearPowerDown
  <2>1. CASE ReadStat
    BY <1>0, <2>1 DEF ReadStat, Goto, Further, Stage, ToolType
  <2>2. CASE PatchReq \/ SetMspi
    BY <1>0, <2>2 DEF PatchReq, SetMspi, Goto, Further, Stage, ToolType
  <2>3. CASE MspiMismatch \/ ClearPowerDown
    BY <1>0, <2>3 DEF MspiMismatch, ClearPowerDown, Goto, Further, Stage, ToolType
  <2> QED BY <1>2, <2>1, <2>2, <2>3
<1>3. CASE EnterDownload \/ Erased \/ EraseTimeout
  <2>1. CASE EnterDownload
    BY <1>0, <2>1 DEF EnterDownload, Further, Stage, ToolType
  <2>2. CASE Erased
    BY <1>0, <2>2 DEF Erased, Goto, Further, Stage, ToolType
  <2>3. CASE EraseTimeout
    BY <1>0, <2>3 DEF EraseTimeout, Further, Stage, ToolType
  <2> QED BY <1>3, <2>1, <2>2, <2>3
<1>4. CASE PollBusy
  BY <1>0, <1>4 DEF PollBusy, Further, ToolType
<1>5. CASE ReadFile \/ AllSent \/ OpenPage
  <2>1. CASE ReadFile
    BY <1>0, <2>1 DEF ReadFile, Further, Stage, ToolType
  <2>2. CASE AllSent \/ OpenPage
    BY <1>0, <2>2 DEF AllSent, OpenPage, Goto, Further, Stage, ToolType
  <2> QED BY <1>5, <2>1, <2>2
<1>6. CASE SendWord
  <2>1. CASE tool.word = Words
    BY <1>0, <1>6, <2>1 DEF SendWord, Further, Stage, ToolType
  <2>2. CASE tool.word # Words
    BY <1>0, <1>6, <2>2 DEF SendWord, Further, ToolType
  <2> QED BY <2>1, <2>2
<1>7. CASE ClosePage \/ PageTimeout \/ Uninit
  <2>1. CASE ClosePage
    BY <1>0, <2>1 DEF ClosePage, Further, Stage, ToolType
  <2>2. CASE PageTimeout
    BY <1>0, <2>2 DEF PageTimeout, Further, Stage, ToolType
  <2>3. CASE Uninit
    BY <1>0, <2>3 DEF Uninit, Goto, Further, Stage, ToolType
  <2> QED BY <1>7, <2>1, <2>2, <2>3
<1>8. CASE PageDone
  BY <1>0, <1>8 DEF PageDone, Further, ToolType
<1>9. CASE Failure
  <2>1. CASE InitFails
    BY <1>0, <2>1 DEF InitFails, InitPC, Further, Stage, ToolType
  <2>2. CASE FileFails
    BY <1>0, <2>2 DEF FileFails, Further, Stage, ToolType
  <2>3. CASE FileEnds
    BY <1>0, <2>3 DEF FileEnds, Goto, Further, Stage, ToolType
  <2>4. CASE PageFails
    BY <1>0, <2>4 DEF PageFails, PagePC, Further, Stage, ToolType
  <2>5. CASE UninitFails
    BY <1>0, <2>5 DEF UninitFails, Further, Stage, ToolType
  <2> QED BY <1>9, <2>1, <2>2, <2>3, <2>4, <2>5 DEF Failure
<1>10. ~Start /\ ~PhyStep
  BY DEF Working, Start, PhyStep, EraseEnds, ProgramEnds, Boot
<1> QED BY <1>1, <1>2, <1>3, <1>4, <1>5, <1>6, <1>7, <1>8, <1>9, <1>10 DEF Next, Work

\* Each step of a running download, failing ones included, brings it nearer to
\* its end, whatever the PHY answers: the pages, the words of a page and the
\* polls of a timeout are bounded, and no error path goes back.  A host that
\* asks gpy2xx_fw_fwr_status itself (no polls) may still ask for ever.
THEOREM ToolIsFinite == Spec => ToolGetsFurther
<1>1. Init => TypeOK /\ PageInv
  BY InitType DEF Init, PageInv, PagePC
<1>2. TypeOK /\ [Next]_vars => [Working /\ tool' # tool => Further \/ tool'.pc = "idle"]_vars
  BY FurtherStep
<1> QED BY <1>1, <1>2, TypeStep, PTL DEF Spec, ToolGetsFurther
=============================================================================
