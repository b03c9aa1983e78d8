----------------------------- MODULE FwDownload -----------------------------
(***************************************************************************)
(* Field firmware upgrade of a GPHY: the service script compares versions  *)
(* and starts the download tool (fw_fast_write in gpy2xx_fw_dl.c), which   *)
(* erases the flash of the PHY, sends the image page by page and resets    *)
(* the PHY, with gpy2xx_fw_frw_init, gpy2xx_fw_fwr_page,                   *)
(* gpy2xx_fw_fwr_status and gpy2xx_fw_frw_uninit of gpy211_phy.c.          *)
(***************************************************************************)
EXTENDS Naturals, Sequences

CONSTANTS
  NumPages,     \* 256-byte pages of the image file
  Words,        \* words of a page (64 in the code)
  Polls,        \* polls before a timeout; 0: the host asks gpy2xx_fw_fwr_status
  MspiStable,   \* MSPI_CFG reads back what was written to it
  FileMayFail,  \* fread can fail
  BusMayFail,   \* an MDIO access can return an error
  MaxStarts,    \* bound: starts of the tool
  Old, Blank, Torn  \* a page of the previous image, an erased one, a broken one

ASSUME SizeAssumption == NumPages \in Nat \ {0} /\ Words \in Nat \ {0}
\* Timeouts are counted in 500 us (twice per ms) and 100 us (ten times per ms).
ASSUME PollsAssumption == Polls \in Nat \ {1}
ASSUME ContentAssumption == /\ Old # Blank /\ Old # Torn /\ Blank # Torn
                            /\ Old \notin Nat /\ Blank \notin Nat /\ Torn \notin Nat
ASSUME StartsAssumption == MaxStarts \in Nat
ASSUME FlagAssumption == /\ MspiStable \in BOOLEAN /\ BusMayFail \in BOOLEAN
                         /\ FileMayFail \in BOOLEAN

Page == 1 .. NumPages
Word == 1 .. Words

VARIABLES
  phy,    \* the PHY: what its firmware does, the status bit of MBOX_DATA_HIGH,
          \* the words of the page being received, the next page to program
  flash,  \* [Page -> Old, Blank, Torn, or the page of the file stored there]
  tool,   \* the download tool: where it is, its loop counters, its result, and
          \* (history) whether the file ended before its size
  starts

vars == <<phy, flash, tool, starts>>

\* "run": normal operation; "patch": after PATCH REQ; "ready": in fast firmware
\* download mode and waiting; "reset": restarting.
Mode == {"run", "patch", "erase", "ready", "program", "reset"}
InitPC == {"stat", "patch", "mspi", "power", "dl", "erasePoll"}
PagePC == {"open", "word", "close", "pagePoll"}
PC == {"idle", "file", "uninit", "ended"} \cup InitPC \cup PagePC
Content == {Old, Blank, Torn} \cup Page

Complete == \A p \in Page : flash[p] = p
Bootable == Complete \/ \A p \in Page : flash[p] = Old

Init ==
  /\ phy \in [mode : {"run"}, from : {"OTP", "FLASH"}, status : BOOLEAN, buf : {<<>>}, next : {1}]
  /\ flash \in {[p \in Page |-> Blank], [p \in Page |-> Old]}
  /\ phy.from = "FLASH" <=> flash[1] = Old
  /\ tool = [pc |-> "idle", page |-> 1, word |-> 1, polls |-> 0, ok |-> TRUE, cut |-> FALSE]
  /\ starts = 0

Goto(pc) == tool' = [tool EXCEPT !.pc = pc]

\* A page number per word stands for the data of the word.
PageWords(p) == [w \in Word |-> <<p, w>>]

-----------------------------------------------------------------------------
(* The service script and the start of fw_fast_write                        *)

\* Mutation: the tool is started whatever version the PHY runs.
StartAlways ==
  /\ tool.pc \in {"idle", "ended"}
  /\ phy.mode = "run"
  /\ starts < MaxStarts
  /\ tool' = [pc |-> "stat", page |-> 1, word |-> 1, polls |-> 0, ok |-> TRUE, cut |-> FALSE]
  /\ starts' = starts + 1
  /\ UNCHANGED <<phy, flash>>
\* The script reads the version the PHY runs and goes on only when it is
\* older than the file's; then gpy2xx_init.
Start ==
  /\ tool.pc \in {"idle", "ended"}
  /\ phy.mode = "run"
  /\ ~(phy.from = "FLASH" /\ Complete)
  /\ starts < MaxStarts
  /\ tool' = [pc |-> "stat", page |-> 1, word |-> 1, polls |-> 0, ok |-> TRUE, cut |-> FALSE]
  /\ starts' = starts + 1
  /\ UNCHANGED <<phy, flash>>

-----------------------------------------------------------------------------
(* gpy2xx_fw_frw_init                                                       *)

\* PHY_STAT1 tells the memory the firmware runs from.
ReadStat ==
  /\ tool.pc = "stat"
  /\ Goto(IF phy.from = "OTP" THEN "patch" ELSE "dl")
  /\ UNCHANGED <<phy, flash, starts>>

PatchReq ==
  /\ tool.pc = "patch"
  /\ phy' = [phy EXCEPT !.mode = "patch"]
  /\ Goto("mspi")
  /\ UNCHANGED <<flash, starts>>

SetMspi ==
  /\ tool.pc = "mspi"
  /\ Goto("power")
  /\ UNCHANGED <<phy, flash, starts>>

\* MSPI_CFG reads back another value: "goto END" with ret still 0, so the
\* caller is told of success and goes on with the pages.
MspiMismatch ==
  /\ ~MspiStable
  /\ tool.pc = "mspi"
  /\ Goto("file")
  /\ UNCHANGED <<phy, flash, starts>>

ClearPowerDown ==
  /\ tool.pc = "power"
  /\ Goto("dl")
  /\ UNCHANGED <<phy, flash, starts>>

\* MBOX_CMD = 0x800: the PHY drops the link and erases its flash.
EnterDownload ==
  /\ tool.pc = "dl"
  /\ phy' = [phy EXCEPT !.mode = "erase", !.status = FALSE, !.buf = <<>>, !.next = 1]
  /\ flash' = [p \in Page |-> Torn]
  /\ tool' = [tool EXCEPT !.pc = "erasePoll", !.polls = Polls]
  /\ UNCHANGED starts

\* Mutation: the erase status is not waited for.
ErasedAtOnce ==
  /\ tool.pc = "erasePoll"
  /\ Goto("file")
  /\ UNCHANGED <<phy, flash, starts>>
Erased ==
  /\ tool.pc = "erasePoll"
  /\ phy.status
  /\ tool.polls # 1
  /\ Goto("file")
  /\ UNCHANGED <<phy, flash, starts>>

\* Any access of gpy2xx_fw_frw_init fails: fw_fast_write closes the file and
\* returns, without a reset.
InitFails ==
  /\ BusMayFail
  /\ tool.pc \in InitPC
  /\ tool' = [tool EXCEPT !.pc = "ended", !.ok = FALSE]
  /\ UNCHANGED <<phy, flash, starts>>

\* The counter reached 0 with this poll, whatever the poll saw.
EraseTimeout ==
  /\ tool.pc = "erasePoll"
  /\ tool.polls = 1
  /\ tool' = [tool EXCEPT !.pc = "ended", !.ok = FALSE]
  /\ UNCHANGED <<phy, flash, starts>>

\* Mutation: polls that are not counted.
PollForever ==
  /\ tool.pc \in {"erasePoll", "pagePoll"}
  /\ ~phy.status
  /\ tool.polls > 1
  /\ UNCHANGED <<phy, flash, tool, starts>>
\* Mutation: the count is not tested before it goes down.
PollBelowZero ==
  /\ tool.pc \in {"erasePoll", "pagePoll"}
  /\ ~phy.status
  /\ tool' = [tool EXCEPT !.polls = @ - 1]
  /\ UNCHANGED <<phy, flash, starts>>
\* One more poll that saw the operation still going on (erase or page).
PollBusy ==
  /\ tool.pc \in {"erasePoll", "pagePoll"}
  /\ ~phy.status
  /\ tool.polls > 1
  /\ tool' = [tool EXCEPT !.polls = @ - 1]
  /\ UNCHANGED <<phy, flash, starts>>

-----------------------------------------------------------------------------
(* The loop of fw_fast_write and gpy2xx_fw_fwr_page                         *)

ReadFile ==
  /\ tool.pc = "file"
  /\ tool.page <= NumPages
  /\ tool' = [tool EXCEPT !.pc = "open", !.word = 1]
  /\ UNCHANGED <<phy, flash, starts>>

\* fread fails: the tool returns -errno, without a reset.
FileFails ==
  /\ FileMayFail
  /\ tool.pc = "file"
  /\ tool.page <= NumPages
  /\ tool' = [tool EXCEPT !.pc = "ended", !.ok = FALSE]
  /\ UNCHANGED <<phy, flash, starts>>

\* fread returns less because the file ends before the size fw_fast_write has
\* read: nothing has set errno, so -errno is 0 and the tool returns success,
\* without a reset.
FileEnds ==
  /\ tool.pc = "file"
  /\ tool.page <= NumPages
  /\ tool' = [tool EXCEPT !.pc = "ended", !.cut = TRUE]
  /\ UNCHANGED <<phy, flash, starts>>

\* Mutation: the loop stops one page early.
AllSentEarly ==
  /\ tool.pc = "file"
  /\ tool.page >= NumPages
  /\ Goto("uninit")
  /\ UNCHANGED <<phy, flash, starts>>
\* Mutation: success is returned without gpy2xx_fw_frw_uninit.
AllSentNoReset ==
  /\ tool.pc = "file"
  /\ tool.page > NumPages
  /\ Goto("ended")
  /\ UNCHANGED <<phy, flash, starts>>
AllSent ==
  /\ tool.pc = "file"
  /\ tool.page > NumPages
  /\ Goto("uninit")
  /\ UNCHANGED <<phy, flash, starts>>

\* Register 0xf01 bit 0 := 0: the PHY takes the next words as page data.
OpenPage ==
  /\ tool.pc = "open"
  /\ phy' = IF phy.mode = "ready" THEN [phy EXCEPT !.buf = <<>>] ELSE phy
  /\ Goto("word")
  /\ UNCHANGED <<flash, starts>>

\* Four bytes go out in MBOX_DATA and MBOX_CMD.
SendWord ==
  /\ tool.pc = "word"
  /\ phy' = IF phy.mode = "ready"
              THEN [phy EXCEPT !.buf = Append(@, <<tool.page, tool.word>>)] ELSE phy
  /\ tool' = [tool EXCEPT !.pc = IF tool.word = Words THEN "close" ELSE "word",
                          !.word = IF tool.word = Words THEN 1 ELSE @ + 1]
  /\ UNCHANGED <<flash, starts>>

\* Register 0xf01 bit 0 := 1: the PHY programs the page.
ClosePage ==
  /\ tool.pc = "close"
  /\ IF phy.mode = "ready"
       THEN /\ phy' = [phy EXCEPT !.mode = "program", !.status = FALSE]
            /\ flash' = [flash EXCEPT ![phy.next] = Torn]
       ELSE UNCHANGED <<phy, flash>>
  /\ tool' = [tool EXCEPT !.pc = "pagePoll", !.polls = Polls]
  /\ UNCHANGED starts

\* Mutation: the page status is not waited for.
PageDoneAtOnce ==
  /\ tool.pc = "pagePoll"
  /\ tool' = [tool EXCEPT !.pc = "file", !.page = @ + 1]
  /\ UNCHANGED <<phy, flash, starts>>
PageDone ==
  /\ tool.pc = "pagePoll"
  /\ phy.status
  /\ tool.polls # 1
  /\ tool' = [tool EXCEPT !.pc = "file", !.page = @ + 1]
  /\ UNCHANGED <<phy, flash, starts>>

\* An access fails: "goto RESET_PHY" with the error kept in ret2.
PageFails ==
  /\ BusMayFail
  /\ tool.pc \in PagePC
  /\ tool' = [tool EXCEPT !.pc = "uninit", !.ok = FALSE]
  /\ UNCHANGED <<phy, flash, starts>>

\* Mutation: a page that timed out is taken for written.
PageTimeoutIgnored ==
  /\ tool.pc = "pagePoll"
  /\ tool.polls = 1
  /\ tool' = [tool EXCEPT !.pc = "file", !.page = @ + 1]
  /\ UNCHANGED <<phy, flash, starts>>
PageTimeout ==
  /\ tool.pc = "pagePoll"
  /\ tool.polls = 1
  /\ tool' = [tool EXCEPT !.pc = "uninit", !.ok = FALSE]
  /\ UNCHANGED <<phy, flash, starts>>

-----------------------------------------------------------------------------
(* gpy2xx_fw_frw_uninit and the end of the tool                             *)

Uninit ==
  /\ tool.pc = "uninit"
  /\ phy' = [phy EXCEPT !.mode = "reset"]
  /\ Goto("ended")
  /\ UNCHANGED <<flash, starts>>

UninitFails ==
  /\ BusMayFail
  /\ tool.pc = "uninit"
  /\ tool' = [tool EXCEPT !.pc = "ended", !.ok = FALSE]
  /\ UNCHANGED <<phy, flash, starts>>

-----------------------------------------------------------------------------
(* The PHY                                                                  *)

EraseEnds ==
  /\ phy.mode = "erase"
  /\ phy' = [phy EXCEPT !.mode = "ready", !.status = TRUE]
  /\ flash' = [p \in Page |-> Blank]
  /\ UNCHANGED <<tool, starts>>

\* The page in flash is the one whose words were received, all and in order.
ProgramEnds ==
  /\ phy.mode = "program"
  /\ phy' = [phy EXCEPT !.mode = "ready", !.status = TRUE, !.buf = <<>>,
                        !.next = IF @ = NumPages THEN 1 ELSE @ + 1]
  /\ flash' = [flash EXCEPT ![phy.next] =
                 IF \E p \in Page : phy.buf = PageWords(p)
                   THEN CHOOSE p \in Page : phy.buf = PageWords(p) ELSE Torn]
  /\ UNCHANGED <<tool, starts>>

\* The boot ROM starts the flash image if it is complete, else the OTP firmware.
Boot ==
  /\ phy.mode = "reset"
  /\ \E s \in BOOLEAN :
       phy' = [mode |-> "run", from |-> IF Bootable THEN "FLASH" ELSE "OTP",
               status |-> s, buf |-> <<>>, next |-> 1]
  /\ UNCHANGED <<flash, tool, starts>>

\* Loss of power: the tool is gone, the PHY starts again.
PowerCycle ==
  /\ starts < MaxStarts
  /\ phy' = [phy EXCEPT !.mode = "reset"]
  /\ tool' = [tool EXCEPT !.pc = "idle"]
  /\ UNCHANGED <<flash, starts>>

Work ==
  \/ ReadStat \/ PatchReq \/ SetMspi \/ MspiMismatch \/ ClearPowerDown \/ EnterDownload
  \/ Erased \/ EraseTimeout \/ PollBusy
  \/ ReadFile \/ AllSent \/ OpenPage \/ SendWord \/ ClosePage
  \/ PageDone \/ PageTimeout \/ Uninit

Failure == InitFails \/ FileFails \/ FileEnds \/ PageFails \/ UninitFails

PhyStep == EraseEnds \/ ProgramEnds \/ Boot

Next == Start \/ Work \/ Failure \/ PhyStep \/ PowerCycle

Spec == Init /\ [][Next]_vars

\* The tool is a sequential program that keeps running; nothing has to fail.
ToolSpec == Spec /\ WF_vars(Work)

\* And the PHY finishes what it was told to do and comes out of a reset.
FairSpec == ToolSpec /\ WF_vars(PhyStep)

-----------------------------------------------------------------------------
(* Properties                                                               *)

\* The types of the state.
TypeOK ==
  /\ phy \in [mode : Mode, from : {"OTP", "FLASH"}, status : BOOLEAN,
              buf : Seq(Page \X Word), next : Page]
  /\ flash \in [Page -> Content]
  /\ tool \in [pc : PC, page : 1 .. NumPages + 1, word : Word, polls : 0 .. Polls, ok : BOOLEAN, cut : BOOLEAN]
  /\ starts \in 0 .. MaxStarts

\* While the tool sends a page, the PHY is in download mode and waits for it:
\* the words never reach a PHY that erases, programs, or would take them for
\* mailbox commands.
PhyListens == tool.pc \in {"file", "open", "word", "close"} => phy.mode = "ready"

\* What gpy2xx_fw_frw_init says when it returns 0: the PHY is in download mode
\* and the flash is erased.
InitMeansErased ==
  tool.pc = "file" /\ tool.page = 1 => phy.mode = "ready" /\ \A p \in Page : flash[p] = Blank

\* The pages sent so far are in flash in the order of the file and nothing
\* beyond them has been touched.
PrefixWritten ==
  tool.pc \in {"file", "open", "word", "close"} =>
    \A p \in Page : flash[p] = IF p < tool.page THEN p ELSE Blank

\* The tool returns success only when the whole image is in the flash, or when
\* the file has ended early: the one error that is told as success.
SuccessMeansComplete == tool.pc = "ended" /\ tool.ok => Complete \/ tool.cut

\* Once the PHY runs the new firmware from flash, the flash is not touched.
NewFirmwareStays == [][phy.mode = "run" /\ phy.from = "FLASH" /\ Complete => UNCHANGED flash]_vars

\* The tool ends, however the PHY answers, when the polls are counted.
ToolEnds == (tool.pc \notin {"idle", "ended"}) ~> (tool.pc \in {"idle", "ended"})

\* A PHY that was put into download mode is reset again and runs
\* (gpy2xx_fw_frw_uninit), unless the tool tells its caller of an error or the
\* file has ended early, when it says success and leaves the PHY where it is.
RunsAgainOrError ==
  phy.mode \in {"erase", "ready", "program"} ~>
    phy.mode = "run" \/ (tool.pc = "ended" /\ (~tool.ok \/ tool.cut))
=============================================================================
