---------------------------- MODULE VolTools_proof ----------------------------
(***************************************************************************)
(* Calibration: without one of the failures that Harmful names no file the *)
(* last update was given is lost, and an update that returns 0 has stored  *)
(* the new ones unless a tool that Unlooked names failed in it.  WmdConf:  *)
(* an edit that no other invocation's step came between changes only the   *)
(* lines of its key.  Both for any values of the constants; last, the      *)
(* tools put together.                                                     *)
(***************************************************************************)
EXTENDS MCVolTools, SingleVol_proof, SequenceTheorems

(* Calibration                                                              *)

CalContent == [Names -> Values \cup {Lost}]
CalCallState == [pc : CalPC, fn : {"read", "update"}, have : SUBSET Names, val : Values, remove : BOOLEAN,
                 made : BOOLEAN, ret : 0 .. 2]
CalFaults == [harm : BOOLEAN, now : SUBSET Tools]
CalLeft == [Names -> SUBSET (Values \cup {Lost})]

NandPC == {"idle", "dump", "add", "erase", "tar", "write", "clean"}
EmmcPC == CalPC \ {"dump", "add", "erase", "tar", "write"}

Complete(f) == \A n \in Names : f[n] # Lost
Has(f) == \A n \in given : f[n] # Lost

\* The path of a call: it follows the flash, and only an eMMC is mounted.
CalPath ==
  /\ cal.pc \in (IF kind = "nand" THEN NandPC ELSE EmmcPC)
  /\ kind = "nand" => ~mounted /\ given = Names
  /\ cal.pc \in {"fetch", "check", "clear", "fill"} => mounted
  /\ cal.pc = "fetch" => cal.fn = "read"
  /\ cal.pc \in {"add", "erase", "tar", "write", "mkfs", "check", "clear", "fill"} => cal.fn = "update"
  /\ cal.pc = "fill" => given = cal.have
  /\ cal.ret # 0 => cal.pc \in {"idle", "umount", "clean"}

\* Unless something harmful has happened: what of the data is where.
CalData ==
  ~faults.harm =>
    /\ ~InMemory \/ cal.pc = "umount" => Has(flash)
    /\ cal.pc \in {"add", "erase", "tar", "write"} => Complete(dir)
    /\ cal.pc \in {"tar", "write"} => flash = Nothing
    /\ cal.fn = "update" /\ cal.pc # "idle" => cal.made
    /\ mounted => cal.pc \in {"fetch", "check", "clear", "fill", "umount"}
    /\ cal.pc # "mkfs"
    /\ mounted /\ ~InMemory => \A n \in Names : left[n] = {flash[n]}

\* The running update, unless one of its tools has failed: where the new files are.
Stored ==
  cal.fn = "update" /\ cal.ret = 0 /\ faults.now \cap Unlooked = {} =>
    /\ cal.pc \in {"erase", "tar", "write"} => \A n \in cal.have : dir[n] = cal.val
    /\ cal.pc \in {"tar", "write"} => flash = Nothing
    /\ cal.pc \in {"umount", "clean"} => \A n \in cal.have : flash[n] = cal.val
    /\ cal.pc = "clean" => ~mounted
    /\ cal.pc # "idle" => cal.made

LEMMA CalContentFacts ==
  /\ Nothing \in CalContent /\ Settled \in CalLeft
  /\ \A f \in CalContent : Rest(f) \subseteq CalContent
  /\ \A f \in CalContent, S \in SUBSET Names, v \in Values \cup {Lost} :
       [n \in Names |-> IF n \in S THEN v ELSE f[n]] \in CalContent
  /\ \A S \in SUBSET Names, v \in Values : [n \in Names |-> IF n \in S THEN v ELSE Lost] \in CalContent
BY FileAssumption DEF Nothing, Settled, CalContent, CalLeft, Rest

-----------------------------------------------------------------------------
(* Calibration: types                                                       *)

CalTypes ==
  /\ kind \in {"nand", "emmc"} /\ flash \in CalContent /\ dir \in CalContent /\ left \in CalLeft
  /\ mounted \in BOOLEAN /\ given \in SUBSET Names
  /\ cal \in CalCallState /\ faults \in CalFaults

LEMMA CalTypesAre == CalTypeOK <=> CalTypes
BY DEF CalTypeOK, CalTypes, CalContent, CalLeft, CalCallState, CalFaults

LEMMA CalTypeInit == CalInit => CalTypeOK
<1> SUFFICES ASSUME CalInit PROVE CalTypes
  BY CalTypesAre
<1>1. NoCalCall \in CalCallState
  BY FileAssumption DEF NoCalCall, CalCallState, CalPC
<1>2. flash \in CalContent /\ left \in CalLeft /\ dir \in CalContent
  BY CalContentFacts, FileAssumption DEF CalInit, CalContent
<1>3. faults \in CalFaults
  BY DEF CalInit, CalFaults
<1> QED BY <1>1, <1>2, <1>3 DEF CalInit, CalTypes

LEMMA CachedType ==
  ASSUME NEW f \in CalContent, left \in CalLeft, Cached(f)
  PROVE  flash' \in CalContent /\ left' \in CalLeft
BY DEF Cached, CalContent, CalLeft

LEMMA RemoveDirType ==
  ASSUME flash \in CalContent, left \in CalLeft, RemoveDir
  PROVE  flash' \in CalContent /\ left' \in CalLeft /\ dir' \in CalContent
BY CachedType, CalContentFacts DEF RemoveDir

LEMMA AttachType ==
  ASSUME flash' \in CalContent, Attach
  PROVE  left' \in CalLeft /\ mounted' \in BOOLEAN
BY DEF Attach, CalContent, CalLeft

ACall == \E fn \in {"read", "update"}, have \in SUBSET Names, v \in Values, remove \in BOOLEAN :
           CalCall(fn, have, v, remove)
ARefuse == \E fn \in {"read", "update"} : Refuse(fn)

LEMMA BrokeType ==
  ASSUME faults \in CalFaults, NEW u \in Tools, Broke(u)
  PROVE  faults' \in CalFaults
BY DEF CalFaults, Broke

LEMMA CalMoves ==
  ASSUME cal \in CalCallState
  PROVE  \A pc, r : CalTo(pc, r) => /\ cal'.pc = pc /\ cal'.ret = r /\ cal'.fn = cal.fn /\ cal'.have = cal.have
                                    /\ cal'.val = cal.val /\ cal'.made = cal.made
<1>1. ASSUME NEW pc, NEW r, CalTo(pc, r)
      PROVE  cal'.pc = pc /\ cal'.ret = r /\ cal'.fn = cal.fn /\ cal'.have = cal.have
             /\ cal'.val = cal.val /\ cal'.made = cal.made
  <2>1. cal' = [pc |-> pc, fn |-> cal.fn, have |-> cal.have, val |-> cal.val, remove |-> cal.remove,
                made |-> cal.made, ret |-> r]
    BY <1>1 DEF CalCallState, CalTo
  <2> QED BY <2>1
<1> QED BY <1>1

LEMMA CallMakes ==
  ASSUME faults \in CalFaults, kind \in {"nand", "emmc"}, ACall
  PROVE  /\ cal.pc = "idle" /\ RemoveDir /\ UNCHANGED <<kind, mounted, given>>
         /\ cal' \in CalCallState
         /\ kind = "nand" => cal'.pc = "dump"
         /\ kind # "nand" => cal'.pc = "mount"
         /\ cal'.ret = 0
         /\ faults' \in CalFaults
         /\ faults.harm => faults'.harm
         /\ ~cal'.made => (cal'.fn = "update" => faults'.harm) /\ "mkdir" \in faults'.now
<1>1. PICK fn \in {"read", "update"}, have \in SUBSET Names, v \in Values, remove \in BOOLEAN :
        CalCall(fn, have, v, remove)
  BY DEF ACall
<1>2. PICK made \in BOOLEAN :
        /\ cal' = [pc |-> IF kind = "nand" THEN "dump" ELSE "mount", fn |-> fn, have |-> have, val |-> v,
                   remove |-> remove, made |-> made, ret |-> 0]
        /\ faults' = IF made THEN [faults EXCEPT !.now = {}]
                     ELSE [harm |-> faults.harm \/ fn = "update", now |-> {"mkdir"}]
  BY <1>1 DEF CalCall
<1>3. /\ cal'.pc = (IF kind = "nand" THEN "dump" ELSE "mount")
      /\ cal'.fn = fn /\ cal'.made = made /\ cal'.ret = 0
  BY <1>2
<1>4. cal' \in CalCallState
  <2> DEFINE pc == IF kind = "nand" THEN "dump" ELSE "mount"
  <2>1. pc \in CalPC
    BY DEF CalPC
  <2> HIDE DEF pc
  <2>2. [pc |-> pc, fn |-> fn, have |-> have, val |-> v, remove |-> remove, made |-> made, ret |-> 0]
          \in CalCallState
    BY <2>1 DEF CalCallState
  <2> QED BY <1>2, <2>2 DEF pc
<1>5. CASE made = TRUE
  <2>1. faults' = [faults EXCEPT !.now = {}]
    BY <1>2, <1>5
  <2>2. faults' \in CalFaults /\ faults'.harm = faults.harm
    BY <2>1 DEF CalFaults
  <2> QED BY <1>1, <1>3, <1>4, <1>5, <2>2 DEF CalCall
<1>6. CASE made = FALSE
  <2> DEFINE h == faults.harm \/ fn = "update"
  <2>1. faults' = [harm |-> h, now |-> {"mkdir"}] /\ h \in BOOLEAN
    BY <1>2, <1>6
  <2>2. faults'.harm = h /\ faults'.now = {"mkdir"}
    BY <2>1
  <2>3. {"mkdir"} \in SUBSET Tools
    BY DEF Tools
  <2>4. faults' \in CalFaults
    BY <2>1, <2>3 DEF CalFaults
  <2>5. (faults.harm => faults'.harm) /\ (fn = "update" => faults'.harm)
    BY <2>2
  <2> QED BY <1>1, <1>3, <1>4, <1>6, <2>2, <2>4, <2>5 DEF CalCall
<1> QED BY <1>5, <1>6

LEMMA RefuseMakes ==
  ASSUME faults \in CalFaults, ARefuse
  PROVE  /\ cal.pc = "idle" /\ cal'.pc = "idle" /\ cal'.ret = 1 /\ cal' \in CalCallState
         /\ faults' \in CalFaults /\ faults'.harm = faults.harm
         /\ UNCHANGED <<kind, flash, left, dir, mounted, given>>
<1>1. PICK fn \in {"read", "update"} : Refuse(fn)
  BY DEF ARefuse
<1>2. NoCalCall \in CalCallState
  BY FileAssumption DEF NoCalCall, CalCallState, CalPC
<1>3. cal' = [NoCalCall EXCEPT !.fn = fn, !.ret = 1] /\ NoCalCall.pc = "idle"
  BY <1>1 DEF Refuse, NoCalCall
<1>4. cal' \in CalCallState /\ cal'.pc = "idle" /\ cal'.ret = 1
  <2>1. cal' = [pc |-> NoCalCall.pc, fn |-> fn, have |-> NoCalCall.have, val |-> NoCalCall.val,
                remove |-> NoCalCall.remove, made |-> NoCalCall.made, ret |-> 1]
    BY <1>2, <1>3 DEF CalCallState
  <2>2. cal'.pc = NoCalCall.pc /\ cal'.ret = 1
    BY <2>1
  <2>3. cal' \in CalCallState
    BY <1>2, <2>1 DEF CalCallState
  <2> QED BY <1>3, <2>2, <2>3
<1>5. faults' = [faults EXCEPT !.now = {}]
  BY <1>1 DEF Refuse
<1>6. faults' \in CalFaults /\ faults'.harm = faults.harm
  BY <1>5 DEF CalFaults
<1> QED BY <1>1, <1>4, <1>6 DEF Refuse

LEMMA CalTypeStep == CalTypeOK /\ [CalNext]_calVars => CalTypeOK'
<1> SUFFICES ASSUME CalTypes, [CalNext]_calVars PROVE CalTypes'
  BY CalTypesAre DEF CalTypeOK, CalTypes, CalContent, CalLeft, CalCallState, CalFaults, CalPC, Tools
<1>0. /\ kind \in {"nand", "emmc"} /\ flash \in CalContent /\ dir \in CalContent /\ left \in CalLeft
      /\ mounted \in BOOLEAN /\ given \in SUBSET Names
      /\ cal \in CalCallState /\ faults \in CalFaults
  BY DEF CalTypes
<1>1. kind' \in {"nand", "emmc"} /\ mounted' \in BOOLEAN /\ given' \in SUBSET Names
  <2>1. cal.have \in SUBSET Names
    BY <1>0 DEF CalCallState
  <2> QED
    BY <1>0, <2>1 DEF CalNext, calVars, Refuse, CalCall, Clean, Dump, Add, Erase, Tar, Write, Mount, Mkfs, Attach,
       Fetch, Check, Clear, Fill, UmountFlash, PowerLoss
<1>2. flash' \in CalContent /\ dir' \in CalContent /\ left' \in CalLeft
  <2>0. /\ Nothing \in CalContent /\ Settled \in CalLeft
        /\ \A f \in CalContent : Rest(f) \subseteq CalContent
        /\ cal.have \in SUBSET Names /\ cal.val \in Values
    BY <1>0, CalContentFacts DEF CalCallState
  <2>1. CASE ACall \/ Clean
    BY <1>0, <2>1, RemoveDirType DEF ACall, CalCall, Clean
  <2>2. CASE Dump \/ Erase \/ Tar \/ Write \/ UmountFlash
    BY <1>0, <2>0, <2>2 DEF Dump, Erase, Tar, Write, UmountFlash
  <2>3. CASE Add
    <3>1. /\ [n \in Names |-> IF n \in cal.have THEN cal.val ELSE dir[n]] \in CalContent
          /\ [n \in Names |-> IF n \in cal.have THEN Lost ELSE dir[n]] \in CalContent
      BY <1>0, <2>0, CalContentFacts
    <3> QED BY <1>0, <2>3, <3>1 DEF Add
  <2>4. CASE Mount \/ Mkfs
    <3>1. flash' \in CalContent /\ dir' \in CalContent
      BY <1>0, <2>0, <2>4 DEF Mount, Mkfs
    <3>2. Attach \/ left' = left
      BY <2>4 DEF Mount, Mkfs
    <3> QED BY <1>0, <3>1, <3>2, AttachType
  <2>5. CASE Clear
    BY <1>0, <2>0, <2>5, CachedType DEF Clear
  <2>6. CASE Fill
    <3> DEFINE new == [n \in Names |-> IF n \in cal.have THEN cal.val ELSE Lost]
    <3>1. new \in CalContent
      BY <2>0, CalContentFacts
    <3>2. \E f \in CalContent : Cached(f)
      BY <2>0, <2>6, <3>1 DEF Fill
    <3>3. flash' \in CalContent /\ left' \in CalLeft
      BY <1>0, <3>2, CachedType
    <3> QED BY <1>0, <2>6, <3>3 DEF Fill
  <2>7. CASE PowerLoss
    BY <1>0, <2>0, <2>7 DEF PowerLoss, CalContent
  <2>8. CASE ARefuse \/ Fetch \/ Check \/ UNCHANGED calVars
    BY <1>0, <2>8 DEF ARefuse, Refuse, Fetch, Check, calVars
  <2> QED BY <2>1, <2>2, <2>3, <2>4, <2>5, <2>6, <2>7, <2>8 DEF CalNext, ACall, ARefuse
<1>3. cal' \in CalCallState
  <2>1. ASSUME NEW pc \in CalPC, NEW r \in 0 .. 2, CalTo(pc, r) PROVE cal' \in CalCallState
    BY <1>0, <2>1 DEF CalCallState, CalTo
  <2>4. cal.ret \in 0 .. 2
    BY <1>0 DEF CalCallState
  <2>5. CASE ACall
    BY <1>0, <2>5, CallMakes
  <2>6. CASE Dump \/ Add \/ Erase \/ Tar \/ Write \/ Clear \/ Fill \/ UmountFlash \/ Clean
    BY <2>1, <2>4, <2>6 DEF CalGoto, Return, Dump, Add, Erase, Tar, Write, Clear, Fill, UmountFlash, Clean, CalPC
  <2>7. CASE Mount \/ Mkfs \/ Fetch \/ Check \/ PowerLoss
    BY <2>1, <2>4, <2>7 DEF CalGoto, Return, Mount, Mkfs, Fetch, Check, PowerLoss, CalPC
  <2>8. CASE ARefuse
    BY <1>0, <2>8, RefuseMakes
  <2>9. CASE UNCHANGED calVars
    BY <1>0, <2>9 DEF calVars
  <2> QED BY <2>5, <2>6, <2>7, <2>8, <2>9 DEF CalNext, ACall, ARefuse
<1>4. faults' \in CalFaults
  <2>1. ASSUME NEW u \in Tools, Broke(u) PROVE faults' \in CalFaults
    BY <1>0, <2>1, BrokeType
  <2>2. CASE ACall \/ ARefuse
    BY <1>0, <2>2, CallMakes, RefuseMakes
  <2>3. CASE UNCHANGED faults
    BY <1>0, <2>3
  <2> QED
    BY <2>1, <2>2, <2>3 DEF CalNext, ACall, ARefuse, calVars, Clean, Dump, Add, Erase, Tar, Write, Mount, Mkfs,
       Fetch, Check, Clear, Fill, UmountFlash, PowerLoss, Tools
<1> QED BY <1>1, <1>2, <1>3, <1>4 DEF CalTypes

\* The types of the state, for any files and contents.
THEOREM CalTypeCorrect == CalSpec => []CalTypeOK
<1>1. CalInit => CalTypeOK
  BY CalTypeInit
<1>2. CalTypeOK /\ [CalNext]_calVars => CalTypeOK'
  BY CalTypeStep
<1> QED BY <1>1, <1>2, PTL DEF CalSpec

-----------------------------------------------------------------------------
(* Calibration: the invariant                                               *)

CalInv == CalTypeOK /\ CalPath /\ CalData /\ Stored

LEMMA CalInitInv == CalInit => CalInv
<1> SUFFICES ASSUME CalInit PROVE CalInv
  OBVIOUS
<1>1. cal.pc = "idle" /\ cal.fn = "read" /\ mounted = FALSE /\ given = Names
  BY DEF CalInit, NoCalCall
<1>2. CalPath
  BY <1>1 DEF CalInit, CalPath, NandPC, EmmcPC, CalPC
<1>3. Has(flash)
  BY <1>1, FileAssumption DEF CalInit, Has
<1>4. CalData
  BY <1>1, <1>3 DEF CalData
<1>5. Stored
  BY <1>1 DEF Stored
<1> QED BY <1>2, <1>4, <1>5, CalTypeInit DEF CalInv

LEMMA CalPathStep == CalTypes /\ CalPath /\ [CalNext]_calVars => CalPath'
<1> SUFFICES ASSUME CalTypes, CalPath, [CalNext]_calVars PROVE CalPath'
  OBVIOUS
<1>0. cal \in CalCallState /\ kind \in {"nand", "emmc"} /\ kind' = kind /\ faults \in CalFaults
  BY DEF CalTypes, CalNext, calVars, Refuse, CalCall, Clean, Dump, Add, Erase, Tar, Write, Mount, Mkfs, Fetch,
     Check, Clear, Fill, UmountFlash, PowerLoss
<1> USE <1>0 DEF CalPath, NandPC, EmmcPC, CalPC
<1>1. CASE ACall
  BY <1>1, CallMakes
<1>2. CASE Dump
  BY <1>2, CalMoves DEF CalGoto, Return, Dump
<1>3. CASE Add
  BY <1>3, CalMoves DEF CalGoto, Return, Add
<1>4. CASE Erase
  BY <1>4, CalMoves DEF CalGoto, Return, Erase
<1>5. CASE Tar
  BY <1>5, CalMoves DEF CalGoto, Return, Tar
<1>6. CASE Write
  BY <1>6, CalMoves DEF CalGoto, Return, Write
<1>7. CASE Mount
  <2>1. cal.pc = "mount" /\ cal.ret = 0 /\ kind # "nand" /\ kind' # "nand"
    BY <1>7 DEF Mount
  <2>2. CASE Attach /\ CalGoto(IF cal.fn = "update" THEN "check" ELSE "fetch")
    <3>1. cal.fn = "update" \/ cal.fn = "read"
      BY DEF CalCallState
    <3>2. cal'.fn = cal.fn /\ cal'.ret = 0 /\ (cal.fn = "update" => cal'.pc = "check") /\ (cal.fn = "read" => cal'.pc = "fetch")
      BY <2>1, <2>2, CalMoves DEF CalGoto
    <3> QED BY <2>1, <2>2, <3>1, <3>2 DEF Attach
  <2>3. CASE UNCHANGED mounted /\ cal.fn = "update" /\ CalGoto("mkfs")
    BY <2>1, <2>3, CalMoves DEF CalGoto
  <2>4. CASE UNCHANGED mounted /\ CalTo("clean", 1)
    BY <2>1, <2>4, CalMoves
  <2> QED BY <1>7, <2>2, <2>3, <2>4 DEF Mount
<1>8. CASE Mkfs
  BY <1>8, CalMoves DEF CalGoto, Return, Mkfs, Attach
<1>9. CASE Fetch
  BY <1>9, CalMoves DEF CalGoto, Return, Fetch
<1>10. CASE Check
  BY <1>10, CalMoves DEF CalGoto, Return, Check
<1>11. CASE Clear
  BY <1>11, CalMoves DEF CalGoto, Return, Clear
<1>12. CASE Fill
  BY <1>12, CalMoves DEF CalGoto, Return, Fill
<1>13. CASE UmountFlash
  BY <1>13, CalMoves DEF CalGoto, Return, UmountFlash
<1>14. CASE Clean
  BY <1>14, CalMoves DEF CalGoto, Return, Clean
<1>15. CASE PowerLoss
  BY <1>15, CalMoves DEF CalGoto, Return, PowerLoss
<1>16. CASE ARefuse
  BY <1>16, RefuseMakes
<1>17. CASE UNCHANGED calVars
  BY <1>17 DEF calVars
<1> QED BY <1>1, <1>2, <1>3, <1>4, <1>5, <1>6, <1>7, <1>8, <1>9, <1>10, <1>11, <1>12, <1>13, <1>14,
           <1>15, <1>16, <1>17 DEF CalNext, ACall, ARefuse

\* A harmful failure is never forgotten.
LEMMA HarmStays ==
  ASSUME faults \in CalFaults, kind \in {"nand", "emmc"}, [CalNext]_calVars, ~faults'.harm
  PROVE  ~faults.harm
<1>1. ASSUME NEW u, Broke(u) PROVE faults.harm => faults'.harm
  BY <1>1 DEF Broke
<1>2. CASE ACall
  BY <1>2, CallMakes
<1>3. CASE ARefuse
  BY <1>3, RefuseMakes
<1>4. CASE UNCHANGED faults
  BY <1>4
<1> QED
  BY <1>1, <1>2, <1>3, <1>4 DEF CalNext, ACall, ARefuse, calVars, Clean, Dump, Add, Erase, Tar, Write, Mount, Mkfs,
     Fetch, Check, Clear, Fill, UmountFlash, PowerLoss

CalKept ==
  /\ ~InMemory \/ cal.pc = "umount" => Has(flash)
  /\ cal.pc \in {"add", "erase", "tar", "write"} => Complete(dir)
  /\ cal.pc \in {"tar", "write"} => flash = Nothing
  /\ cal.fn = "update" /\ cal.pc # "idle" => cal.made
  /\ mounted => cal.pc \in {"fetch", "check", "clear", "fill", "umount"}
  /\ cal.pc # "mkfs"
  /\ mounted /\ ~InMemory => \A n \in Names : left[n] = {flash[n]}

LEMMA CalDataStep == CalTypes /\ CalPath /\ CalData /\ [CalNext]_calVars => CalData'
<1> SUFFICES ASSUME CalTypes, CalPath, CalData, [CalNext]_calVars, ~faults'.harm PROVE CalKept'
  BY DEF CalData, CalKept, Has, Complete, InMemory, Nothing
<1>0. /\ cal \in CalCallState /\ kind \in {"nand", "emmc"} /\ dir \in CalContent /\ flash \in CalContent
      /\ faults \in CalFaults /\ given \in SUBSET Names /\ mounted \in BOOLEAN
  BY DEF CalTypes
<1>a. ~faults.harm
  BY <1>0, HarmStays
<1>b. CalKept
  BY <1>a DEF CalData, CalKept
<1>c. ASSUME NEW u \in Harmful, Broke(u) PROVE FALSE
  BY <1>c DEF Broke
<1>d. cal.pc = "tar" \/ cal.pc = "write" \/ cal.pc = "add" \/ cal.pc = "erase" => kind = "nand" /\ cal.fn = "update"
  BY <1>0 DEF CalPath, EmmcPC
<1>e. cal.pc \in {"mount", "mkfs", "fetch", "check", "clear", "fill", "umount"} => kind = "emmc"
  BY <1>0 DEF CalPath, NandPC
<1>1. CASE ACall
  <2>1. cal.pc = "idle" /\ ~mounted /\ ~InMemory /\ flash' = flash /\ given' = given /\ ~mounted'
    BY <1>0, <1>1, <1>b, CallMakes DEF CalKept, InMemory, RemoveDir
  <2>2. cal'.pc \in {"dump", "mount"} /\ (cal'.fn = "update" => cal'.made)
    BY <1>0, <1>1, CallMakes
  <2> QED BY <1>b, <2>1, <2>2 DEF CalKept, Has, InMemory
<1>2. CASE Dump
  <2>1. /\ cal.pc = "dump" /\ cal'.pc \in {"idle", "add"} /\ cal'.fn = cal.fn /\ cal'.made = cal.made
        /\ cal'.pc = "add" => cal.fn = "update"
        /\ UNCHANGED <<flash, mounted, given>>
    BY <1>0, <1>2, CalMoves DEF CalGoto, Return, Dump
  <2>2. kind = "nand" /\ given = Names /\ ~mounted
    BY <1>0, <2>1 DEF CalPath, EmmcPC
  <2>3. Has(flash) /\ Complete(flash)
    BY <1>b, <2>1, <2>2 DEF CalKept, InMemory, Has, Complete
  <2>4. cal.fn = "update" => dir' = flash
    BY <1>2, <1>b, <1>c, <2>1, <2>2 DEF Dump, Harmful, CalKept
  <2> QED BY <1>b, <2>1, <2>2, <2>3, <2>4 DEF CalKept, InMemory, Has, Complete
<1>3. CASE Add
  <2>1. /\ cal.pc = "add" /\ cal'.pc = "erase" /\ cal'.fn = cal.fn /\ cal'.made = cal.made
        /\ UNCHANGED <<flash, mounted, given>>
    BY <1>0, <1>3, CalMoves DEF CalGoto, Return, Add
  <2>2. dir' = [n \in Names |-> IF n \in cal.have THEN cal.val ELSE dir[n]]
    BY <1>3, <1>c, <1>d, <2>1 DEF Add, Harmful
  <2>3. cal.val # Lost
    BY <1>0, FileAssumption DEF CalCallState
  <2>4. Complete(dir')
    BY <1>b, <2>1, <2>2, <2>3 DEF CalKept, Complete
  <2> QED BY <1>b, <2>1, <2>4 DEF CalKept, InMemory, Has, Complete
<1>4. CASE Erase
  <2>1. /\ cal.pc = "erase" /\ cal'.pc = "tar" /\ cal'.fn = cal.fn /\ cal'.made = cal.made
        /\ UNCHANGED <<dir, mounted, given>>
    BY <1>0, <1>4, CalMoves DEF CalGoto, Return, Erase
  <2>2. flash' = Nothing
    BY <1>4, <1>c, <1>d, <2>1 DEF Erase, Harmful
  <2> QED BY <1>b, <2>1, <2>2 DEF CalKept, InMemory, Complete, Nothing
<1>5. CASE Tar
  <2>1. /\ cal.pc = "tar" /\ cal'.pc = "write" /\ cal'.fn = cal.fn /\ cal'.made = cal.made
        /\ UNCHANGED <<flash, mounted, given>>
    BY <1>0, <1>5, <1>b, <1>d, CalMoves DEF CalGoto, Return, Tar, CalKept
  <2>2. dir' = dir
    BY <1>5, <1>c, <1>d, <2>1 DEF Tar, Harmful
  <2> QED BY <1>b, <2>1, <2>2 DEF CalKept, InMemory, Complete, Nothing
<1>6. CASE Write
  <2>1. /\ cal.pc = "write" /\ cal'.pc = "clean" /\ cal'.fn = cal.fn /\ cal'.made = cal.made
        /\ UNCHANGED <<dir, mounted, given>>
    BY <1>0, <1>6, CalMoves DEF CalGoto, Return, Write
  <2>2. flash' = dir
    BY <1>6, <1>b, <1>c, <1>d, <2>1 DEF Write, Harmful, CalKept
  <2>3. Has(flash')
    BY <1>0, <1>b, <2>1, <2>2 DEF CalKept, Has, Complete
  <2> QED BY <1>b, <2>1, <2>3 DEF CalKept, InMemory, Has
<1>7. CASE Mount
  <2>1. /\ cal.pc = "mount" /\ cal'.fn = cal.fn /\ cal'.made = cal.made
        /\ UNCHANGED <<flash, given>> /\ ~mounted /\ Has(flash)
    BY <1>0, <1>7, <1>b, CalMoves DEF CalGoto, Return, Mount, CalKept, InMemory
  <2>2. CASE Attach /\ CalGoto(IF cal.fn = "update" THEN "check" ELSE "fetch")
    <3>1. cal'.pc \in {"check", "fetch"}
      BY <1>0, <2>2, CalMoves DEF CalGoto
    <3>2. \A n \in Names : left'[n] = {flash'[n]}
      BY <2>2 DEF Attach
    <3> QED BY <1>b, <2>1, <3>1, <3>2 DEF CalKept, InMemory, Has
  <2>3. CASE Broke("mount") /\ UNCHANGED mounted
    <3>1. cal.fn = "read"
      BY <1>0, <1>c, <1>e, <2>1, <2>3 DEF Harmful, CalCallState
    <3>2. cal'.pc = "clean"
      BY <1>0, <1>7, <2>3, <3>1, <2>1, CalMoves DEF CalGoto, Return, Mount, Attach
    <3> QED BY <1>b, <2>1, <2>3, <3>1, <3>2 DEF CalKept, InMemory, Has
  <2> QED BY <1>7, <2>2, <2>3 DEF Mount
<1>8. CASE Mkfs
  BY <1>8, <1>b DEF Mkfs, CalKept
<1>9. CASE Fetch
  <2>1. /\ cal.pc = "fetch" /\ cal'.pc = "umount" /\ cal'.fn = cal.fn /\ cal'.made = cal.made /\ cal.fn = "read"
        /\ UNCHANGED <<flash, left, mounted, given>>
    BY <1>0, <1>9, CalMoves DEF CalGoto, Return, Fetch, CalPath
  <2> QED BY <1>b, <2>1 DEF CalKept, InMemory, Has
<1>10. CASE Check
  <2>1. /\ cal.pc = "check" /\ cal'.fn = cal.fn /\ cal'.made = cal.made
        /\ cal'.pc = "clear" \/ (cal'.pc = "umount" /\ cal'.ret = 1)
        /\ UNCHANGED <<flash, left, mounted, given>>
    BY <1>0, <1>10, CalMoves DEF CalGoto, Return, Check
  <2> QED BY <1>b, <2>1 DEF CalKept, InMemory, Has
<1>11. CASE Clear
  <2>1. cal.pc = "clear" /\ cal'.pc = "fill" /\ cal'.fn = cal.fn /\ cal'.made = cal.made
    BY <1>0, <1>11, CalMoves DEF CalGoto, Return, Clear
  <2> QED BY <1>b, <2>1 DEF CalKept, InMemory
<1>12. CASE Fill
  <2>1. /\ cal.pc = "fill" /\ cal'.pc = "umount" /\ cal'.fn = cal.fn /\ cal'.made = cal.made
        /\ cal'.ret = cal.ret /\ UNCHANGED <<mounted, given>> /\ cal.fn = "update" /\ given = cal.have
    BY <1>0, <1>12, CalMoves DEF CalGoto, Return, Fill, CalPath
  <2>2. flash' = [n \in Names |-> IF n \in cal.have THEN cal.val ELSE Lost]
    BY <1>12, <1>c, <1>e, <2>1 DEF Fill, Harmful, Cached
  <2>3. cal.val # Lost
    BY <1>0, FileAssumption DEF CalCallState
  <2>4. Has(flash')
    BY <1>0, <2>1, <2>2, <2>3 DEF Has
  <2>5. \A n \in given' : flash'[n] # Lost
    BY <2>1, <2>4 DEF Has
  <2>6. cal.made /\ cal.ret = 0
    BY <1>b, <2>1 DEF CalKept, CalPath
  <2> QED BY <2>1, <2>5, <2>6 DEF CalKept, InMemory, Has
<1>13. CASE UmountFlash
  <2>1. /\ cal.pc = "umount" /\ cal'.pc = "clean" /\ cal'.fn = cal.fn /\ cal'.made = cal.made
        /\ UNCHANGED <<flash, given>>
    BY <1>0, <1>13, CalMoves DEF CalGoto, Return, UmountFlash
  <2>2. ~mounted'
    BY <1>0, <1>13, <1>c, <1>e, <2>1 DEF UmountFlash, Harmful, CalCallState
  <2> QED BY <1>b, <2>1, <2>2 DEF CalKept, InMemory, Has
<1>14. CASE Clean
  <2>1. cal.pc = "clean" /\ cal'.pc = "idle" /\ UNCHANGED <<mounted, given>>
    BY <1>0, <1>14, CalMoves DEF CalGoto, Return, Clean
  <2>2. ~mounted /\ flash' = flash /\ Has(flash)
    BY <1>14, <1>b, <2>1 DEF CalKept, Clean, RemoveDir, InMemory
  <2> QED BY <1>b, <2>1, <2>2 DEF CalKept, InMemory, Has
<1>15. CASE PowerLoss
  <2>1. cal'.pc = "idle" /\ ~mounted' /\ given' = given
    BY <1>0, <1>15, CalMoves DEF CalGoto, Return, PowerLoss
  <2>2. ~InMemory
    <3>1. InMemory => cal.fn = "update"
      BY DEF InMemory, CalPath
    <3>2. InMemory => "power" \in Harmful
      BY <3>1 DEF Harmful
    <3> QED BY <1>15, <1>c, <3>2 DEF PowerLoss
  <2>3. Has(flash)
    BY <1>b, <2>2 DEF CalKept
  <2>4. CASE mounted
    <3>1. \A n \in Names : left[n] = {flash[n]} /\ flash'[n] \in left[n]
      BY <1>15, <1>b, <2>2, <2>4 DEF CalKept, PowerLoss
    <3>2. \A n \in Names : flash'[n] = flash[n]
      BY <3>1
    <3> QED BY <1>0, <2>1, <2>3, <3>2 DEF CalKept, InMemory, Has
  <2>5. CASE ~mounted
    BY <1>15, <2>1, <2>3, <2>5 DEF CalKept, PowerLoss, InMemory, Has
  <2> QED BY <1>0, <2>4, <2>5
<1>16. CASE ARefuse
  BY <1>0, <1>16, <1>b, RefuseMakes DEF CalKept, InMemory, Has
<1>17. CASE UNCHANGED calVars
  BY <1>17, <1>b DEF calVars, CalKept, InMemory, Has, Complete, Nothing
<1> QED BY <1>1, <1>2, <1>3, <1>4, <1>5, <1>6, <1>7, <1>8, <1>9, <1>10, <1>11, <1>12, <1>13, <1>14,
           <1>15, <1>16, <1>17 DEF CalNext, ACall, ARefuse

\* A call that goes on to umount or ends with an error returns it.
LEMMA CalErrors ==
  ASSUME cal \in CalCallState
  PROVE  Fetch \/ Check =>
           \/ cal'.pc = "clear" /\ Check /\ cal'.ret = cal.ret
           \/ cal'.pc = "umount" /\ Fetch /\ cal'.ret = cal.ret
           \/ cal'.pc = "umount" /\ cal'.ret = 1
BY CalMoves DEF CalGoto, Fetch, Check

CalLater == Add \/ Erase \/ Tar \/ Write \/ Mount \/ Mkfs \/ Fetch \/ Check \/ Clear \/ Fill \/ UmountFlash \/ Clean

\* What the steps of a running call leave of its record.
LEMMA CalFrame ==
  ASSUME cal \in CalCallState, CalLater
  PROVE  cal'.fn = cal.fn /\ cal'.have = cal.have /\ cal'.val = cal.val /\ cal'.made = cal.made
BY CalMoves DEF CalLater, Add, Erase, Tar, Write, Mount, Mkfs, Fetch, Check, Clear, Fill, UmountFlash, Clean,
   CalGoto, Return

StoredKept ==
  /\ cal.pc \in {"erase", "tar", "write"} => \A n \in cal.have : dir[n] = cal.val
  /\ cal.pc \in {"tar", "write"} => flash = Nothing
  /\ cal.pc \in {"umount", "clean"} => \A n \in cal.have : flash[n] = cal.val
  /\ cal.pc = "clean" => ~mounted
  /\ cal.pc # "idle" => cal.made

LEMMA StoredStep == CalTypes /\ CalPath /\ Stored /\ [CalNext]_calVars => Stored'
<1> SUFFICES ASSUME CalTypes, CalPath, Stored, [CalNext]_calVars,
                    cal'.fn = "update", cal'.ret = 0, faults'.now \cap Unlooked = {}
             PROVE  StoredKept'
  BY DEF Stored, StoredKept, Nothing, Unlooked
<1>0. /\ cal \in CalCallState /\ kind \in {"nand", "emmc"} /\ dir \in CalContent /\ flash \in CalContent
      /\ faults \in CalFaults
  BY DEF CalTypes
<1>1. CASE ACall
  <2>1. cal'.made /\ cal'.pc \in {"dump", "mount"}
    BY <1>0, <1>1, CallMakes DEF Unlooked
  <2> QED BY <2>1 DEF StoredKept
<1>2. CASE Dump
  <2>1. cal'.pc \in {"idle", "add"} /\ (cal'.pc = "add" => cal'.made = cal.made /\ cal.fn = "update" /\ cal.ret = 0)
        /\ cal.pc = "dump"
    BY <1>0, <1>2, CalMoves DEF CalGoto, Return, Dump
  <2>2. faults.now \cap Unlooked = {}
    BY <1>0, <1>2 DEF Dump, Broke, CalFaults
  <2> QED BY <2>1, <2>2 DEF Stored, StoredKept
<1>3. CASE PowerLoss
  BY <1>0, <1>3, CalMoves DEF CalGoto, Return, PowerLoss
<1>4. CASE UNCHANGED calVars
  BY <1>4 DEF calVars, Stored, StoredKept, Nothing
<1>5. CASE ARefuse
  BY <1>0, <1>5, RefuseMakes
<1>6. CASE CalLater
  <2>1. ASSUME NEW u, Broke(u) PROVE u \notin Unlooked /\ faults.now \cap Unlooked = {}
    BY <1>0, <2>1 DEF Broke, Unlooked
  <2>2. cal'.fn = cal.fn /\ cal'.have = cal.have /\ cal'.val = cal.val /\ cal'.made = cal.made
    BY <1>0, <1>6, CalFrame
  <2>3. faults.now \cap Unlooked = {}
    BY <1>6, <2>1 DEF CalLater, Add, Erase, Tar, Write, Mount, Mkfs, Fetch, Check, Clear, Fill, UmountFlash, Clean
  <2>u. \A u \in Unlooked : ~Broke(u)
    BY <2>1
  <2>4. cal.ret = 0
    <3>1. CASE Add \/ Erase \/ Tar \/ Write \/ Clear \/ Fill \/ UmountFlash
      BY <1>0, <3>1, CalMoves DEF CalGoto, Return, Add, Erase, Tar, Write, Clear, Fill, UmountFlash
    <3>2. CASE Mount
      BY <1>0, <2>2, <3>2, CalMoves DEF CalGoto, Return, Mount
    <3>3. CASE Mkfs
      BY <1>0, <3>3, CalMoves DEF CalGoto, Return, Mkfs
    <3>4. CASE Fetch \/ Check
      BY <1>0, <3>4, CalErrors
    <3>6. CASE Clean
      BY <1>0, <2>2, <3>6, CalMoves DEF CalGoto, Return, Clean
    <3> QED BY <1>6, <3>1, <3>2, <3>3, <3>4, <3>6 DEF CalLater
  <2>5. cal.fn = "update"
    BY <2>2
  <2>6. StoredKept
    BY <2>3, <2>4, <2>5 DEF Stored, StoredKept
  <2>7. CASE Add
    <3>1. /\ cal.pc = "add" /\ cal'.pc = "erase" /\ cal.made
          /\ dir' = [n \in Names |-> IF n \in cal.have THEN cal.val ELSE dir[n]]
      BY <1>0, <2>6, <2>7, <2>u, CalMoves DEF CalGoto, Return, Add, Unlooked, StoredKept
    <3>2. \A n \in cal.have : dir'[n] = cal.val
      BY <1>0, <3>1 DEF CalCallState
    <3> QED BY <2>2, <3>1, <3>2 DEF StoredKept
  <2>8. CASE Erase
    <3>1. flash' = Nothing /\ dir' = dir /\ cal'.pc = "tar" /\ cal.pc = "erase"
      BY <1>0, <2>8, <2>u, CalMoves DEF CalGoto, Return, Erase, Unlooked
    <3> QED BY <2>2, <2>6, <3>1 DEF StoredKept, Nothing
  <2>t. CASE Tar
    <3>1. flash' = flash /\ dir' = dir /\ cal'.pc = "write" /\ cal.pc = "tar"
      BY <1>0, <2>t, <2>6, <2>u, CalMoves DEF CalGoto, Return, Tar, Unlooked, StoredKept
    <3> QED BY <2>2, <2>6, <3>1 DEF StoredKept, Nothing
  <2>9. CASE Write
    <3>1. flash' = dir /\ cal'.pc = "clean" /\ cal.pc = "write" /\ mounted' = mounted
      BY <1>0, <2>6, <2>9, <2>u, CalMoves DEF CalGoto, Return, Write, Unlooked, StoredKept
    <3>2. ~mounted
      BY <1>0, <3>1 DEF CalPath, EmmcPC
    <3> QED BY <2>2, <2>6, <3>1, <3>2 DEF StoredKept
  <2>10. CASE Mount \/ Mkfs \/ Check \/ Clear
    <3>1. cal'.pc \notin {"erase", "tar", "write", "umount", "clean"} /\ cal.pc # "idle"
      <4>1. CASE Mount
        BY <1>0, <2>5, <4>1, CalMoves DEF CalGoto, Return, Mount
      <4>2. CASE Mkfs
        BY <1>0, <4>2, CalMoves DEF CalGoto, Return, Mkfs
      <4>3. CASE Check
        BY <1>0, <4>3, CalMoves DEF CalGoto, Return, Check
      <4>4. CASE Clear
        BY <1>0, <4>4, CalMoves DEF CalGoto, Return, Clear
      <4> QED BY <2>10, <4>1, <4>2, <4>3, <4>4
    <3> QED BY <2>2, <2>6, <3>1 DEF StoredKept
  <2>11. CASE Fetch
    BY <2>5, <2>11 DEF Fetch, CalPath
  <2>12. CASE Fill
    <3>1. /\ flash' = [n \in Names |-> IF n \in cal.have THEN cal.val ELSE Lost]
          /\ cal'.pc = "umount" /\ cal.pc = "fill"
      BY <1>0, <2>12, <2>u, CalMoves DEF CalGoto, Return, Fill, Unlooked, Cached
    <3>2. \A n \in cal.have : flash'[n] = cal.val
      BY <1>0, <3>1 DEF CalCallState
    <3> QED BY <2>2, <2>6, <3>1, <3>2 DEF StoredKept
  <2>13. CASE UmountFlash
    <3>1. cal.pc = "umount" /\ cal'.pc = "clean" /\ flash' = flash /\ ~mounted'
      BY <1>0, <2>13, <2>u, CalMoves DEF CalGoto, Return, UmountFlash, Unlooked
    <3> QED BY <2>2, <2>6, <3>1 DEF StoredKept
  <2>14. CASE Clean
    <3>1. cal'.pc = "idle"
      BY <1>0, <2>14, CalMoves DEF CalGoto, Return, Clean
    <3> QED BY <3>1 DEF StoredKept
  <2> QED BY <1>6, <2>7, <2>8, <2>t, <2>9, <2>10, <2>11, <2>12, <2>13, <2>14 DEF CalLater
<1> QED BY <1>1, <1>2, <1>3, <1>4, <1>5, <1>6 DEF CalNext, ACall, ARefuse, CalLater

LEMMA CalInductive == CalSpec => []CalInv
<1>1. CalInit => CalInv
  BY CalInitInv
<1>2. CalInv /\ [CalNext]_calVars => CalInv'
  BY CalTypeStep, CalPathStep, CalDataStep, StoredStep, CalTypesAre DEF CalInv
<1> QED BY <1>1, <1>2, PTL DEF CalSpec

-----------------------------------------------------------------------------
(* Calibration: the results                                                 *)

\* No file is lost unless one of the failures of Harmful has happened, for any
\* number of files: on NAND flash a file that was never updated is kept like all
\* others, on eMMC the ones the last update was given.
THEOREM NothingIsLost == CalSpec => []CalibrationKept
<1>1. CalInv => CalibrationKept
  BY DEF CalInv, CalData, CalibrationKept, Has
<1> QED BY <1>1, CalInductive, PTL

\* update_calibration returns 0 only with the new files stored, unless one of the
\* tools of Unlooked has failed in the call itself: what earlier calls left
\* behind, a mounted partition included, is never the reason.
THEOREM OkStored == CalSpec => OkIsNew
<1>1. CalInv /\ [CalNext]_calVars =>
        [cal.fn = "update" /\ cal.pc # "idle" /\ cal'.pc = "idle" /\ cal'.ret = 0
           => \/ \A n \in cal.have : flash'[n] = cal.val
              \/ faults.now \cap Unlooked # {}]_calVars
  <2> SUFFICES ASSUME CalInv, CalNext, cal.fn = "update", cal.pc # "idle", cal'.pc = "idle", cal'.ret = 0,
                      faults.now \cap Unlooked = {}
               PROVE  \A n \in cal.have : flash'[n] = cal.val
    OBVIOUS
  <2>0. cal \in CalCallState /\ CalPath /\ Stored /\ mounted \in BOOLEAN
       /\ faults \in CalFaults /\ kind \in {"nand", "emmc"}
    BY CalTypesAre DEF CalInv, CalTypes
  <2>1. cal.pc = "clean" /\ cal.ret = 0 /\ Clean
    <3>1. ~(Add \/ Erase \/ Tar \/ Write \/ Clear \/ Fill \/ UmountFlash)
      BY <2>0, CalMoves DEF CalGoto, Return, Add, Erase, Tar, Write, Clear, Fill, UmountFlash
    <3>2. ~Mkfs
      BY <2>0, CalMoves DEF CalGoto, Return, Mkfs
    <3>4. ~Mount
      BY <2>0, CalMoves DEF CalGoto, Return, Mount
    <3>7. ~PowerLoss
      BY <2>0, CalMoves DEF CalGoto, Return, PowerLoss
    <3>5. ~Fetch /\ ~Check
      BY <2>0, CalErrors
    <3>3. ~Dump
      BY <2>0, CalMoves DEF CalGoto, Return, Dump
    <3>8. ~ACall /\ ~ARefuse
      BY <2>0, CallMakes, RefuseMakes
    <3>6. Clean
      BY <3>1, <3>2, <3>3, <3>4, <3>5, <3>7, <3>8 DEF CalNext, ACall, ARefuse
    <3> QED BY <2>0, <3>6, CalMoves DEF CalGoto, Return, Clean, Return
  <2>2. ~mounted /\ \A n \in cal.have : flash[n] = cal.val
    BY <2>0, <2>1 DEF Stored
  <2> QED BY <2>1, <2>2 DEF Clean, RemoveDir
<1> QED BY <1>1, CalInductive, PTL DEF CalSpec, OkIsNew

-----------------------------------------------------------------------------
(* WmdConf: lines and configurations                                        *)

EditState ==
  [pc : {"idle", "open", "cat", "read", "move", "echo", "done"}, fn : {"set", "wlan", "enable"}, key : Keys,
   val : Settings, items : SUBSET ItemNames, n : 0 .. 4, pass : 1 .. 2, rest : Conf, out : Conf,
   block : BOOLEAN, alone : BOOLEAN, stale : BOOLEAN, broke : BOOLEAN, before : Conf]

\* How many of the first i lines of f were not written for k, and these lines.
Others(f, k, i) == Cardinality({j \in 1 .. i : f[j].key # k})
WithoutIn(f, k, i) ==
  [n \in 1 .. Others(f, k, i) |-> f[CHOOSE j \in 1 .. Len(f) : f[j].key # k /\ Others(f, k, j) = n]]

LEMMA LineParts ==
  ASSUME NEW l \in Line
  PROVE  /\ l.key \in Keys /\ l.val \in Settings
         /\ l.is = "set" \/ l.is \in {"head", "end"} \cup ItemNames
         /\ l.is = "set" => l.key \in Globals
         /\ l.is # "set" => l.key \in Wlans
BY DEF Line, Keys, ItemNames

LEMMA LineMakes ==
  /\ \A k \in Globals, v \in Settings : L("set", k, v) \in Line
  /\ \A is \in {"head", "end"} \cup ItemNames, k \in Wlans, v \in Settings : L(is, k, v) \in Line
  /\ \A l \in Line, v \in Settings : [l EXCEPT !.val = v] \in Line
<1>1. \A k \in Globals, v \in Settings : L("set", k, v) \in Line
  BY DEF L, Line
<1>2. \A is \in {"head", "end"} \cup ItemNames, k \in Wlans, v \in Settings : L(is, k, v) \in Line
  BY DEF L, Line
<1>3. ASSUME NEW l \in Line, NEW v \in Settings PROVE [l EXCEPT !.val = v] \in Line
  <2>1. [l EXCEPT !.val = v] = L(l.is, l.key, v)
    BY DEF L, Line
  <2>2. CASE l.is = "set"
    BY <1>1, <2>1, <2>2, LineParts
  <2>3. CASE l.is # "set"
    BY <1>2, <2>1, <2>3, LineParts
  <2> QED BY <2>2, <2>3
<1> QED BY <1>1, <1>2, <1>3

LEMMA ConfParts ==
  ASSUME NEW f \in Conf
  PROVE  Len(f) \in Nat /\ DOMAIN f = 1 .. Len(f) /\ \A i \in 1 .. Len(f) : f[i] \in Line
BY LenProperties, ElementOfSeq DEF Conf

LEMMA OthersStep ==
  ASSUME NEW f \in Conf, NEW k
  PROVE  /\ Others(f, k, 0) = 0
         /\ \A i \in 0 .. Len(f) : Others(f, k, i) \in 0 .. i
         /\ \A i \in 0 .. Len(f) : \A j \in 0 .. i : Others(f, k, j) <= Others(f, k, i)
<1> DEFINE O(i) == {j \in 1 .. i : f[j].key # k}
<1>0. Len(f) \in Nat
  BY ConfParts
<1>1. \A i \in Nat : IsFiniteSet(O(i)) /\ Cardinality(O(i)) \in Nat /\ Cardinality(O(i)) <= i
  <2> TAKE i \in Nat
  <2>1. IsFiniteSet(1 .. i) /\ Cardinality(1 .. i) = i
    BY FS_Interval
  <2>2. O(i) \in SUBSET (1 .. i)
    OBVIOUS
  <2>3. IsFiniteSet(O(i)) /\ Cardinality(O(i)) <= i
    BY <2>1, <2>2, FS_Subset
  <2> QED BY <2>3, FS_CardinalityType
<1>2. O(0) = {}
  OBVIOUS
<1>3. \A i \in Nat : \A j \in 0 .. i : Cardinality(O(j)) <= Cardinality(O(i))
  <2> TAKE i \in Nat
  <2> TAKE j \in 0 .. i
  <2>1. O(j) \in SUBSET O(i)
    OBVIOUS
  <2> QED BY <1>1, <2>1, FS_Subset
<1>5. \A i \in Nat : Others(f, k, i) = Cardinality(O(i))
  BY DEF Others
<1>6. Others(f, k, 0) = 0
  BY <1>2, <1>5, FS_EmptySet
<1> HIDE DEF O
<1>7. \A i \in 0 .. Len(f) : Others(f, k, i) \in 0 .. i
  BY <1>0, <1>1, <1>5
<1>8. \A i \in 0 .. Len(f) : \A j \in 0 .. i : Others(f, k, j) <= Others(f, k, i)
  BY <1>0, <1>3, <1>5
<1> QED BY <1>6, <1>7, <1>8

LEMMA OthersNext ==
  ASSUME NEW f, NEW k, NEW i \in Nat
  PROVE  Others(f, k, i + 1) = IF f[i + 1].key = k THEN Others(f, k, i) ELSE Others(f, k, i) + 1
<1> DEFINE O == {j \in 1 .. i : f[j].key # k}
           P == {j \in 1 .. (i + 1) : f[j].key # k}
<1>0. Others(f, k, i) = Cardinality(O) /\ Others(f, k, i + 1) = Cardinality(P)
  BY DEF Others
<1>1. CASE f[i + 1].key = k
  <2>1. P = O
    BY <1>1
  <2> QED BY <1>0, <1>1, <2>1
<1>2. CASE f[i + 1].key # k
  <2>1. P = O \cup {i + 1} /\ i + 1 \notin O
    BY <1>2
  <2>2. IsFiniteSet(1 .. i) /\ O \in SUBSET (1 .. i)
    BY FS_Interval
  <2>3. IsFiniteSet(O)
    BY <2>2, FS_Subset
  <2> HIDE DEF O, P
  <2>4. Cardinality(O \cup {i + 1}) = Cardinality(O) + 1
    BY <2>1, <2>3, FS_AddElement
  <2> QED BY <1>0, <1>2, <2>1, <2>4
<1> QED BY <1>1, <1>2

LEMMA WithoutIs ==
  ASSUME NEW f \in Conf, NEW k
  PROVE  WithoutIn(f, k, Len(f)) = Without(f, k) /\ WithoutIn(f, k, 0) = <<>>
<1>1. WithoutIn(f, k, Len(f)) = Without(f, k)
  BY DEF WithoutIn, Without, Others
<1>2. Others(f, k, 0) = 0
  BY OthersStep
<1>3. WithoutIn(f, k, 0) = <<>>
  BY <1>2 DEF WithoutIn
<1> QED BY <1>1, <1>3

\* The line of f that is the n-th of those not written for k.
LEMMA ChosenLine ==
  ASSUME NEW f \in Conf, NEW k, NEW i \in 0 .. Len(f) - 1, f[i + 1].key # k,
         NEW n, n = Others(f, k, i) + 1
  PROVE  (CHOOSE j \in 1 .. Len(f) : f[j].key # k /\ Others(f, k, j) = n) = i + 1
<1>0. Len(f) \in Nat /\ i \in Nat
  BY ConfParts
<1>a. Others(f, k, i + 1) = n
  BY <1>0, OthersNext
<1>1. ASSUME NEW j \in 1 .. Len(f), f[j].key # k, Others(f, k, j) = n, j # i + 1
      PROVE  FALSE
  <2>1. PICK h \in Nat : j = h + 1 /\ h \in 0 .. Len(f)
    <3>1. j - 1 \in Nat /\ j = (j - 1) + 1 /\ j - 1 \in 0 .. Len(f)
      BY <1>0
    <3> QED BY <3>1
  <2>2. Others(f, k, h + 1) = Others(f, k, h) + 1
    BY <1>1, <2>1, OthersNext
  <2>3. Others(f, k, i) \in Nat /\ Others(f, k, h) \in Nat
    <3>1. i \in 0 .. Len(f) /\ h \in 0 .. Len(f)
      BY <1>0, <2>1
    <3>2. Others(f, k, i) \in 0 .. i /\ Others(f, k, h) \in 0 .. h
      BY <3>1, OthersStep
    <3> QED BY <1>0, <3>2
  <2>5. CASE j < i + 1
    <3>1. j \in 0 .. i /\ i \in 0 .. Len(f)
      BY <1>0, <2>5
    <3>2. Others(f, k, j) <= Others(f, k, i)
      BY <3>1, OthersStep
    <3> QED BY <1>1, <2>3, <3>2
  <2>6. CASE j > i + 1
    <3>1. i + 1 \in 0 .. h /\ h \in 0 .. Len(f)
      BY <1>0, <2>1, <2>6
    <3>2. Others(f, k, i + 1) <= Others(f, k, h)
      BY <3>1, OthersStep
    <3> QED BY <1>1, <1>a, <2>1, <2>2, <2>3, <3>2
  <2> QED BY <1>0, <1>1, <2>5, <2>6
<1>2. i + 1 \in 1 .. Len(f)
  BY <1>0
<1> QED BY <1>1, <1>2, <1>a

LEMMA WithoutStep ==
  ASSUME NEW f \in Conf, NEW k, NEW i \in 0 .. Len(f) - 1
  PROVE  WithoutIn(f, k, i + 1) =
           IF f[i + 1].key = k THEN WithoutIn(f, k, i) ELSE Append(WithoutIn(f, k, i), f[i + 1])
<1> DEFINE n == Others(f, k, i)
           Nth(m) == f[CHOOSE j \in 1 .. Len(f) : f[j].key # k /\ Others(f, k, j) = m]
<1>0. Len(f) \in Nat /\ i \in Nat
  BY ConfParts
<1>1. n \in Nat
  <2>1. i \in 0 .. Len(f)
    BY <1>0
  <2>2. n \in 0 .. i
    BY <2>1, OthersStep
  <2> QED BY <1>0, <2>2
<1>2. Others(f, k, i + 1) = IF f[i + 1].key = k THEN n ELSE n + 1
  BY <1>0, OthersNext
<1>3. WithoutIn(f, k, i) = [m \in 1 .. n |-> Nth(m)]
  BY DEF WithoutIn
<1>4. WithoutIn(f, k, i + 1) = [m \in 1 .. Others(f, k, i + 1) |-> Nth(m)]
  BY DEF WithoutIn
<1>5. CASE f[i + 1].key = k
  BY <1>2, <1>3, <1>4, <1>5
<1>6. CASE f[i + 1].key # k
  <2>0. \A m : m = n + 1 => (CHOOSE j \in 1 .. Len(f) : f[j].key # k /\ Others(f, k, j) = m) = i + 1
    BY <1>6, ChosenLine
  <2>1. Nth(n + 1) = f[i + 1]
    BY <2>0
  <2> HIDE DEF n, Nth
  <2>2. [m \in 1 .. (n + 1) |-> Nth(m)] = Append([m \in 1 .. n |-> Nth(m)], Nth(n + 1))
    BY <1>1
  <2> QED BY <1>2, <1>3, <1>4, <1>6, <2>1, <2>2
<1> QED BY <1>5, <1>6


\* What the invariant says of an edit that began alone, with e.before the
\* configuration it found: the text it reads and the text it is to write.
Fits(e) == IF e.fn = "set" THEN e.key \in Globals ELSE e.key \in Wlans /\ e.pass = 1 /\ Whole(e.before)
Source(e) == IF e.pass = 1 THEN e.before ELSE Without(e.before, e.key)
Target(e) == IF e.fn = "enable" THEN Changed(e.before, e.key, e.val) ELSE Without(e.before, e.key)
\* What is to have been written after i lines, and the block flag then.
Part(e, i) ==
  IF e.pass = 2 \/ e.fn = "enable" THEN SubSeq(Target(e), 1, i) ELSE WithoutIn(e.before, e.key, i)
InBlock(e, i) == e.fn # "set" /\ i > 0 /\ Source(e)[i].key = e.key /\ Source(e)[i].is # "end"

LEMMA ChangedParts ==
  ASSUME NEW f \in Conf, NEW k \in Keys, NEW v \in Settings
  PROVE  /\ Changed(f, k, v) \in Conf /\ Len(Changed(f, k, v)) = Len(f)
         /\ \A i \in 1 .. Len(f) :
              Changed(f, k, v)[i] = IF f[i].key = k /\ f[i].is = "w_active" THEN [f[i] EXCEPT !.val = v] ELSE f[i]
<1> DEFINE c(i) == IF f[i].key = k /\ f[i].is = "w_active" THEN [f[i] EXCEPT !.val = v] ELSE f[i]
<1>0. Len(f) \in Nat
  BY ConfParts
<1>1. \A i \in 1 .. Len(f) : c(i) \in Line
  BY ConfParts, LineMakes
<1>2. Changed(f, k, v) = [i \in 1 .. Len(f) |-> c(i)]
  BY DEF Changed
<1> HIDE DEF c
<1>3. Changed(f, k, v) \in [1 .. Len(f) -> Line]
  BY <1>1, <1>2
<1>4. Changed(f, k, v) \in Seq(Line)
  BY <1>0, <1>3, SeqDef
<1>5. Len(Changed(f, k, v)) = Len(f)
  BY <1>0, <1>3, <1>4
<1>6. \A i \in 1 .. Len(f) : Changed(f, k, v)[i] = c(i)
  BY <1>2
<1> QED BY <1>4, <1>5, <1>6 DEF Conf, c

\* In a whole block the lines follow each other.
LEMMA WholeNext ==
  ASSUME NEW f \in Conf, Whole(f), NEW k \in Wlans, NEW i \in 0 .. Len(f) - 1
  PROVE  /\ i > 0 /\ f[i].key = k /\ f[i].is # "end" => f[i + 1].key = k /\ f[i + 1].is # "head"
         /\ f[i + 1].key = k /\ f[i + 1].is # "head" => i > 0 /\ f[i].key = k /\ f[i].is # "end"
<1>0. Len(f) \in Nat /\ i \in Nat /\ i + 1 \in 1 .. Len(f) /\ (i + 1) - 1 = i
  BY ConfParts
<1>a. Globals \cap Wlans = {}
  BY SettingAssumption
<1>1. ASSUME i > 0, f[i].key = k, f[i].is # "end" PROVE f[i + 1].key = k /\ f[i + 1].is # "head"
  <2>1. i \in 1 .. Len(f) /\ f[i] \in Line
    BY <1>0, <1>1, ConfParts
  <2>2. f[i].is \in ItemNames \cup {"head"}
    BY <1>1, <1>a, <2>1, LineParts
  <2> QED BY <1>1, <2>1, <2>2 DEF Whole
<1>2. ASSUME f[i + 1].key = k, f[i + 1].is # "head" PROVE i > 0 /\ f[i].key = k /\ f[i].is # "end"
  <2>1. f[i + 1] \in Line
    BY <1>0, ConfParts
  <2>2. f[i + 1].is \in ItemNames \cup {"end"}
    BY <1>2, <1>a, <2>1, LineParts
  <2>3. i + 1 > 1 /\ f[(i + 1) - 1].key = f[i + 1].key /\ f[(i + 1) - 1].is \notin {"end", "set"}
    BY <1>0, <2>2 DEF Whole
  <2> QED BY <1>0, <1>2, <2>3
<1> QED BY <1>1, <1>2

\* One line read, and the one it makes.
LEMMA KeptNext ==
  ASSUME NEW e \in EditState, Fits(e), Source(e) \in Conf,
         NEW i \in 0 .. Len(Source(e)) - 1, e.block <=> InBlock(e, i), Part(e, i) \in Conf,
         NEW l, l = Source(e)[i + 1]
  PROVE  /\ Part(e, i + 1) = Part(e, i) \o KeptLine(e, l)
         /\ BlockAfter(e, l) <=> InBlock(e, i + 1)
<1>0. /\ Len(Source(e)) \in Nat /\ i \in Nat /\ i + 1 \in 1 .. Len(Source(e)) /\ l \in Line
      /\ e.before \in Conf /\ e.key \in Keys /\ e.val \in Settings /\ e.pass \in {1, 2}
      /\ e.fn \in {"set", "wlan", "enable"}
  <2>1. Len(Source(e)) \in Nat
    BY ConfParts
  <2>2. i \in Nat /\ i + 1 \in 1 .. Len(Source(e))
    BY <2>1
  <2>3. l \in Line
    BY <2>2, ConfParts
  <2> QED BY <2>1, <2>2, <2>3 DEF EditState
<1>a. Globals \cap Wlans = {}
  BY SettingAssumption
<1>1. Part(e, i) \o <<>> = Part(e, i) /\ Part(e, i) \o <<l>> = Append(Part(e, i), l)
  BY <1>0, ConcatEmptySeq, AppendIsConcat DEF Conf
<1>2. CASE e.fn = "set" /\ e.pass = 1
  <2>1. KeptLine(e, l) = IF l.key = e.key THEN <<>> ELSE <<l>>
    BY <1>0, <1>2, <1>a, LineParts DEF KeptLine, Fits
  <2>2. Part(e, i) = WithoutIn(e.before, e.key, i) /\ Part(e, i + 1) = WithoutIn(e.before, e.key, i + 1)
    BY <1>2 DEF Part
  <2>3. Source(e) = e.before
    BY <1>2 DEF Source
  <2>4. Part(e, i + 1) = IF l.key = e.key THEN Part(e, i) ELSE Append(Part(e, i), l)
    BY <1>0, <2>2, <2>3, WithoutStep
  <2> QED BY <1>1, <1>2, <2>1, <2>4 DEF BlockAfter, InBlock
<1>3. CASE e.pass = 2
  <2>1. KeptLine(e, l) = <<l>> /\ e.fn = "set"
    BY <1>3 DEF KeptLine, Fits
  <2>2. Target(e) = Source(e)
    BY <1>3, <2>1 DEF Target, Source
  <2>3. SubSeq(Source(e), 1, i + 1) = SubSeq(Source(e), 1, i) \o <<l>>
    <3>1. 1 \in 1 .. Len(Source(e)) /\ i + 1 \in 1 .. Len(Source(e)) /\ (i + 1) - 1 = i
      BY <1>0
    <3>2. SubSeq(Source(e), 1, i + 1) = SubSeq(Source(e), 1, (i + 1) - 1) \o <<Source(e)[i + 1]>>
      BY <3>1, SubSeqRecursiveSecond DEF Conf
    <3> QED BY <3>1, <3>2
  <2> QED BY <1>3, <2>1, <2>2, <2>3 DEF Part, BlockAfter, InBlock
<1>4. CASE e.fn # "set"
  <2>1. Source(e) = e.before /\ e.key \in Wlans /\ Whole(e.before) /\ e.pass = 1
    BY <1>4 DEF Source, Fits
  <2>2. /\ i > 0 /\ e.before[i].key = e.key /\ e.before[i].is # "end" => l.key = e.key /\ l.is # "head"
        /\ l.key = e.key /\ l.is # "head" => i > 0 /\ e.before[i].key = e.key /\ e.before[i].is # "end"
    BY <1>0, <2>1, WholeNext
  <2>3. e.block <=> l.key = e.key /\ l.is # "head"
    BY <1>4, <2>1, <2>2 DEF InBlock
  <2>4. BlockAfter(e, l) <=> l.key = e.key /\ l.is # "end"
    BY <1>4, <2>3 DEF BlockAfter
  <2>5. InBlock(e, i + 1) <=> l.key = e.key /\ l.is # "end"
    BY <1>0, <1>4 DEF InBlock
  <2>6. CASE e.fn = "wlan"
    <3>1. KeptLine(e, l) = IF l.key = e.key THEN <<>> ELSE <<l>>
      BY <2>3, <2>4, <2>6 DEF KeptLine
    <3>2. Part(e, i) = WithoutIn(e.before, e.key, i) /\ Part(e, i + 1) = WithoutIn(e.before, e.key, i + 1)
      BY <2>1, <2>6 DEF Part
    <3>3. Part(e, i + 1) = IF l.key = e.key THEN Part(e, i) ELSE Append(Part(e, i), l)
      BY <1>0, <2>1, <3>2, WithoutStep
    <3> QED BY <1>1, <2>4, <2>5, <3>1, <3>3
  <2>7. CASE e.fn = "enable"
    <3> DEFINE c == IF l.key = e.key /\ l.is = "w_active" THEN [l EXCEPT !.val = e.val] ELSE l
               t == Changed(e.before, e.key, e.val)
    <3>1. KeptLine(e, l) = <<c>>
      BY <2>4, <2>7 DEF KeptLine
    <3>2. Target(e) = t
      BY <2>7 DEF Target
    <3>3. t \in Conf /\ Len(t) = Len(e.before)
      BY <1>0, ChangedParts
    <3>4. t[i + 1] = c
      BY <1>0, <2>1, ChangedParts
    <3> HIDE DEF c, t
    <3>5. 1 \in 1 .. Len(t) /\ i + 1 \in 1 .. Len(t) /\ (i + 1) - 1 = i
      BY <1>0, <2>1, <3>3
    <3>6. SubSeq(t, 1, i + 1) = SubSeq(t, 1, (i + 1) - 1) \o <<t[i + 1]>>
      BY <3>3, <3>5, SubSeqRecursiveSecond DEF Conf
    <3>7. SubSeq(t, 1, i + 1) = SubSeq(t, 1, i) \o <<c>>
      BY <3>4, <3>5, <3>6
    <3> QED BY <2>4, <2>5, <2>7, <3>1, <3>2, <3>7 DEF Part
  <2> QED BY <1>0, <1>4, <2>6, <2>7
<1> QED BY <1>0, <1>2, <1>3, <1>4

LEMMA PartEnds ==
  ASSUME NEW e \in EditState, Fits(e), Source(e) \in Conf
  PROVE  Part(e, 0) = <<>> /\ Part(e, Len(Source(e))) = Target(e)
<1>0. /\ e.before \in Conf /\ e.key \in Keys /\ e.val \in Settings /\ e.pass \in {1, 2}
      /\ e.fn \in {"set", "wlan", "enable"}
  BY DEF EditState
<1>1. CASE e.pass = 1 /\ e.fn # "enable"
  BY <1>0, <1>1, WithoutIs DEF Part, Source, Target
<1>2. CASE e.pass = 2
  <2>1. Source(e) = Target(e)
    BY <1>2 DEF Source, Target, Fits
  <2> QED BY <1>2, <2>1, SubSeqFull, SubSeqEmpty DEF Part, Conf
<1>3. CASE e.pass = 1 /\ e.fn = "enable"
  <2>1. Source(e) = e.before /\ Target(e) = Changed(e.before, e.key, e.val)
    BY <1>3 DEF Source, Target
  <2>2. Target(e) \in Conf /\ Len(Target(e)) = Len(Source(e))
    BY <1>0, <2>1, ChangedParts
  <2>3. SubSeq(Target(e), 1, Len(Target(e))) = Target(e) /\ SubSeq(Target(e), 1, 0) = <<>>
    BY <2>2, SubSeqFull, SubSeqEmpty DEF Conf
  <2> QED BY <1>3, <2>2, <2>3 DEF Part
<1> QED BY <1>0, <1>1, <1>2, <1>3

-----------------------------------------------------------------------------
(* WmdConf: types                                                           *)

\* The parts of an edit that no step of it changes.
Same(e, f) ==
  /\ f.fn = e.fn /\ f.key = e.key /\ f.val = e.val /\ f.items = e.items
  /\ f.alone = e.alone /\ f.stale = e.stale /\ f.before = e.before

\* The key fits the edit, and while it appends there are lines left.
EditOK(e) ==
  ~Idle(e) =>
    /\ IF e.fn = "set" THEN e.key \in Globals ELSE e.key \in Wlans /\ e.pass = 1
    /\ IF e.pc = "echo" THEN e.fn # "enable" /\ e.n < Len(New(e)) ELSE e.n = 0

Sound == WmdTypeOK /\ \A p \in Procs : EditOK(edit[p])

LEMMA SoundParts ==
  ASSUME Sound
  PROVE  /\ file \in Conf /\ temp \subseteq Conf /\ edit \in [Procs -> EditState] /\ edits \in Nat
         /\ \A p \in Procs : edit[p] \in EditState /\ EditOK(edit[p])
BY SettingAssumption DEF Sound, WmdTypeOK, EditState

LEMMA SeqParts ==
  /\ <<>> \in Conf
  /\ \A l \in Line : <<l>> \in Conf /\ Len(<<l>>) = 1
  /\ \A s, t \in Conf : s \o t \in Conf /\ Len(s \o t) = Len(s) + Len(t)
  /\ \A s \in Conf, l \in Line : Append(s, l) \in Conf
  /\ \A s \in Conf : s # <<>> => Head(s) \in Line /\ Tail(s) \in Conf
  /\ \A s \in Conf : \A n \in 0 .. Len(s) : SubSeq(s, 1, n) \in Conf
<1>1. <<>> \in Conf
  BY EmptySeq DEF Conf
<1>2. \A l \in Line : <<l>> \in Conf /\ Len(<<l>>) = 1
  BY DEF Conf
<1>3. \A s, t \in Conf : s \o t \in Conf /\ Len(s \o t) = Len(s) + Len(t)
  BY ConcatProperties DEF Conf
<1>4. \A s \in Conf, l \in Line : Append(s, l) \in Conf
  BY AppendProperties DEF Conf
<1>5. \A s \in Conf : s # <<>> => Head(s) \in Line /\ Tail(s) \in Conf
  BY HeadTailProperties DEF Conf
<1>6. ASSUME NEW s \in Conf, NEW n \in 0 .. Len(s) PROVE SubSeq(s, 1, n) \in Conf
  <2>1. Len(s) \in Nat
    BY ConfParts
  <2>2. 1 \in Int /\ n \in Int /\ \A i \in 1 .. n : s[i] \in Line
    BY <2>1, ConfParts
  <2> QED BY <2>2, SubSeqProperties DEF Conf
<1> QED BY <1>1, <1>2, <1>3, <1>4, <1>5, <1>6

LEMMA ItemType ==
  ASSUME NEW e \in EditState, e.key \in Wlans, NEW i \in ItemNames
  PROVE  Item(e, i) \in Conf /\ Len(Item(e, i)) \in {0, 1}
<1>1. L(i, e.key, e.val) \in Line
  BY LineMakes DEF EditState
<1>2. <<>> \in Conf /\ Len(<<>>) = 0
  BY SeqParts
<1> QED BY <1>1, <1>2, SeqParts DEF Item

LEMMA NewType ==
  ASSUME NEW e \in EditState, IF e.fn = "set" THEN e.key \in Globals ELSE e.key \in Wlans
  PROVE  New(e) \in Conf /\ Len(New(e)) \in 1 .. 5
<1>1. CASE e.fn = "set"
  <2>1. L("set", e.key, e.val) \in Line
    BY <1>1, LineMakes DEF EditState
  <2> QED BY <1>1, <2>1, SeqParts DEF New
<1>2. CASE e.fn # "set"
  <2> DEFINE h == <<L("head", e.key, e.val)>>
             a == Item(e, "threshold")
             b == Item(e, "w_active")
             c == Item(e, "wan")
             t == <<L("end", e.key, e.val)>>
  <2>1. L("head", e.key, e.val) \in Line /\ L("end", e.key, e.val) \in Line
    BY <1>2, LineMakes DEF EditState
  <2>2. h \in Conf /\ t \in Conf /\ Len(h) = 1 /\ Len(t) = 1
    BY <2>1, SeqParts
  <2>3. /\ a \in Conf /\ Len(a) \in {0, 1} /\ b \in Conf /\ Len(b) \in {0, 1}
        /\ c \in Conf /\ Len(c) \in {0, 1}
    BY <1>2, ItemType DEF ItemNames
  <2>4. New(e) = (((h \o a) \o b) \o c) \o t
    BY <1>2 DEF New
  <2> HIDE DEF h, a, b, c, t
  <2>5. h \o a \in Conf /\ Len(h \o a) = Len(h) + Len(a)
    BY <2>2, <2>3, SeqParts
  <2>6. (h \o a) \o b \in Conf /\ Len((h \o a) \o b) = Len(h \o a) + Len(b)
    BY <2>3, <2>5, SeqParts
  <2>7. ((h \o a) \o b) \o c \in Conf /\ Len(((h \o a) \o b) \o c) = Len((h \o a) \o b) + Len(c)
    BY <2>3, <2>6, SeqParts
  <2>8. /\ (((h \o a) \o b) \o c) \o t \in Conf
        /\ Len((((h \o a) \o b) \o c) \o t) = Len(((h \o a) \o b) \o c) + Len(t)
    BY <2>2, <2>7, SeqParts
  <2>9. Len((((h \o a) \o b) \o c) \o t) \in 1 .. 5
    BY <2>2, <2>3, <2>5, <2>6, <2>7, <2>8
  <2> QED BY <2>4, <2>8, <2>9
<1> QED BY <1>1, <1>2

LEMMA NewSame ==
  ASSUME NEW e, NEW f, f.fn = e.fn, f.key = e.key, f.val = e.val, f.items = e.items
  PROVE  New(f) = New(e)
BY DEF New, Item

LEMMA EditSame ==
  ASSUME NEW e, NEW f, EditOK(e), f.pc = e.pc, f.fn = e.fn, f.key = e.key, f.val = e.val,
         f.items = e.items, f.n = e.n, f.pass = e.pass
  PROVE  EditOK(f)
<1> SUFFICES ASSUME ~Idle(f)
             PROVE  /\ IF f.fn = "set" THEN f.key \in Globals ELSE f.key \in Wlans /\ f.pass = 1
                    /\ IF f.pc = "echo" THEN f.fn # "enable" /\ f.n < Len(New(f)) ELSE f.n = 0
  BY DEF EditOK
<1>1. New(f) = New(e)
  BY NewSame
<1>2. ~Idle(e)
  BY DEF Idle
<1>3. /\ IF e.fn = "set" THEN e.key \in Globals ELSE e.key \in Wlans /\ e.pass = 1
      /\ IF e.pc = "echo" THEN e.fn # "enable" /\ e.n < Len(New(e)) ELSE e.n = 0
  BY <1>2 DEF EditOK
<1>4. IF f.fn = "set" THEN f.key \in Globals ELSE f.key \in Wlans /\ f.pass = 1
  BY <1>3
<1>5. IF f.pc = "echo" THEN f.fn # "enable" /\ f.n < Len(New(f)) ELSE f.n = 0
  BY <1>1, <1>3
<1> QED BY <1>4, <1>5

LEMMA NoEditType ==
  /\ NoEdit \in EditState /\ Idle(NoEdit) /\ NoEdit.pc = "idle" /\ NoEdit.alone = FALSE
  /\ \A pc \in {"idle", "done"} :
       LET d == [NoEdit EXCEPT !.pc = pc] IN d \in EditState /\ d.pc = pc /\ d.alone = FALSE /\ Idle(d)
<1>1. (CHOOSE k \in Keys : TRUE) \in Keys /\ (CHOOSE v \in Settings : TRUE) \in Settings
  BY SettingAssumption DEF Keys
<1>2. <<>> \in Conf
  BY SeqParts
<1>3. NoEdit \in EditState
  BY <1>1, <1>2 DEF NoEdit, EditState
<1>4. NoEdit.pc = "idle" /\ NoEdit.alone = FALSE
  BY DEF NoEdit
<1>5. \A pc \in {"idle", "done"} :
        LET d == [NoEdit EXCEPT !.pc = pc] IN d \in EditState /\ d.pc = pc /\ d.alone = FALSE
  BY <1>3, <1>4 DEF EditState
<1> QED BY <1>3, <1>4, <1>5 DEF Idle

\* What a step makes of the edits.
LEMMA StepsParts ==
  ASSUME edit \in [Procs -> EditState], NEW p \in Procs, NEW e \in EditState, Steps(p, e)
  PROVE  /\ edit' \in [Procs -> EditState]
         /\ edit'[p] = e
         /\ \A q \in Procs \ {p} : edit'[q].alone = FALSE /\ edit'[q].pc = edit[q].pc
                                   /\ (EditOK(edit[q]) => EditOK(edit'[q]))
<1>1. ASSUME NEW q \in Procs
      PROVE  LET d == [edit[q] EXCEPT !.alone = FALSE, !.before = <<>>] IN
             d \in EditState /\ d.alone = FALSE /\ d.pc = edit[q].pc /\ (EditOK(edit[q]) => EditOK(d))
  <2> DEFINE c == edit[q]
             d == [c EXCEPT !.alone = FALSE, !.before = <<>>]
  <2>1. c \in EditState /\ <<>> \in Conf
    BY SeqParts
  <2>3. d \in EditState
    BY <2>1 DEF EditState
  <2>4. /\ d.alone = FALSE /\ d.pc = c.pc /\ d.fn = c.fn /\ d.key = c.key /\ d.val = c.val
        /\ d.items = c.items /\ d.n = c.n /\ d.pass = c.pass
    BY <2>1 DEF EditState
  <2> HIDE DEF d
  <2>5. EditOK(c) => EditOK(d)
    BY <2>4, EditSame
  <2> QED BY <2>3, <2>4, <2>5 DEF d
<1>2. \A q \in Procs : edit'[q] = IF q = p THEN e ELSE [edit[q] EXCEPT !.alone = FALSE, !.before = <<>>]
  BY DEF Steps
<1>3. edit' \in [Procs -> EditState]
  BY <1>1 DEF Steps
<1> QED BY <1>1, <1>2, <1>3

\* What each action makes of the edit it is a step of.
LEMMA StartMakes ==
  ASSUME Sound, NEW p \in Procs, NEW fn \in {"set", "wlan", "enable"}, NEW k \in Keys, NEW v \in Settings,
         NEW items \in Params \cup {{}}, Start(p, fn, k, v, items)
  PROVE  \E f \in EditState :
           /\ Steps(p, f) /\ EditOK(f)
           /\ f.pc = "open" /\ f.pass = 1 /\ f.out = <<>> /\ f.block = FALSE /\ f.broke = FALSE
           /\ f.stale = (temp # {}) /\ (f.alone => f.before = file)
<1> DEFINE alone == \A q \in Procs : Idle(edit[q])
           b == IF alone THEN file ELSE <<>>
           f == [NoEdit EXCEPT !.pc = "open", !.fn = fn, !.key = k, !.val = v, !.items = items,
                               !.alone = alone, !.stale = temp # {}, !.before = b]
<1>1. Steps(p, f) /\ k \in (IF fn = "set" THEN Globals ELSE Wlans)
  BY DEF Start
<1>2. alone \in BOOLEAN /\ (temp # {}) \in BOOLEAN
  OBVIOUS
<1>3. b \in Conf
  BY SoundParts, SeqParts
<1>4. NoEdit \in EditState /\ items \in SUBSET ItemNames
  BY NoEditType, SettingAssumption
<1>5. alone => b = file
  OBVIOUS
<1> HIDE DEF alone, b
<1>6. f \in EditState
  BY <1>2, <1>3, <1>4 DEF EditState
<1>7. /\ f.pc = "open" /\ f.fn = fn /\ f.key = k /\ f.val = v /\ f.items = items /\ f.alone = alone
      /\ f.stale = (temp # {}) /\ f.before = b
      /\ f.n = 0 /\ f.pass = 1 /\ f.out = <<>> /\ f.block = FALSE /\ f.broke = FALSE
  BY DEF NoEdit
<1> HIDE DEF f
<1>8. EditOK(f)
  BY <1>1, <1>7 DEF EditOK, Idle
<1> QED BY <1>1, <1>5, <1>6, <1>7, <1>8

LEMMA OpenMakes ==
  ASSUME Sound, NEW p \in Procs, Open(p)
  PROVE  \E f \in EditState :
           /\ Steps(p, f) /\ EditOK(f) /\ Same(edit[p], f)
           /\ f.pc = "cat" /\ f.pass = edit[p].pass /\ f.out = edit[p].out /\ f.block = edit[p].block
           /\ f.broke = edit[p].broke
<1> DEFINE e == edit[p]
           f == [e EXCEPT !.pc = "cat"]
<1>1. Steps(p, f) /\ e.pc = "open" /\ e \in EditState /\ EditOK(e)
  BY SoundParts DEF Open, WmdGoto
<1>2. f \in EditState
  BY <1>1 DEF EditState
<1>3. /\ f.pc = "cat" /\ f.fn = e.fn /\ f.key = e.key /\ f.val = e.val /\ f.items = e.items /\ f.n = e.n
      /\ f.pass = e.pass /\ f.out = e.out /\ f.block = e.block /\ f.alone = e.alone /\ f.stale = e.stale
      /\ f.broke = e.broke /\ f.before = e.before
  BY <1>1 DEF EditState
<1> HIDE DEF f, e
<1>4. EditOK(f)
  BY <1>1, <1>3 DEF EditOK, Idle
<1> QED BY <1>1, <1>2, <1>3, <1>4 DEF Same, e

LEMMA CatMakes ==
  ASSUME Sound, NEW p \in Procs, Cat(p)
  PROVE  \E f \in EditState :
           /\ Steps(p, f) /\ EditOK(f) /\ Same(edit[p], f)
           /\ f.pc = "read" /\ f.rest = file /\ f.pass = edit[p].pass /\ f.out = edit[p].out
           /\ f.block = edit[p].block /\ f.broke = edit[p].broke
<1> DEFINE e == edit[p]
           f == [e EXCEPT !.pc = "read", !.rest = file]
<1>1. Steps(p, f) /\ e.pc = "cat" /\ e \in EditState /\ EditOK(e) /\ file \in Conf
  BY SoundParts DEF Cat
<1>2. f \in EditState
  BY <1>1 DEF EditState
<1>3. /\ f.pc = "read" /\ f.fn = e.fn /\ f.key = e.key /\ f.val = e.val /\ f.items = e.items /\ f.n = e.n
      /\ f.pass = e.pass /\ f.rest = file /\ f.out = e.out /\ f.block = e.block /\ f.alone = e.alone
      /\ f.stale = e.stale /\ f.broke = e.broke /\ f.before = e.before
  BY <1>1 DEF EditState
<1> HIDE DEF f, e
<1>4. EditOK(f)
  BY <1>1, <1>3 DEF EditOK, Idle
<1> QED BY <1>1, <1>2, <1>3, <1>4 DEF Same, e

LEMMA KeptType ==
  ASSUME NEW e \in EditState, NEW l \in Line
  PROVE  KeptLine(e, l) \in Conf /\ BlockAfter(e, l) \in BOOLEAN
<1>1. <<>> \in Conf /\ <<l>> \in Conf /\ <<[l EXCEPT !.val = e.val]>> \in Conf
  BY SeqParts, LineMakes DEF EditState
<1>2. KeptLine(e, l) \in {<<>>, <<l>>, <<[l EXCEPT !.val = e.val]>>}
  BY DEF KeptLine
<1> QED BY <1>1, <1>2 DEF BlockAfter

LEMMA ReadMakes ==
  ASSUME Sound, NEW p \in Procs, Read(p)
  PROVE  LET e == edit[p]  l == Head(e.rest)  k == KeptLine(e, l) IN
         \E f \in EditState :
           /\ Steps(p, f) /\ EditOK(f) /\ Same(e, f)
           /\ f.pc = "read" /\ f.rest = Tail(e.rest) /\ f.pass = e.pass /\ f.block = BlockAfter(e, l)
           /\ f.broke = FALSE => /\ e.broke = FALSE
                                 /\ \/ e.fn = "set" /\ f.out = e.out \o k /\ temp' = temp
                                    \/ /\ e.fn # "set" /\ f.out = e.out
                                       /\ temp' = (IF k = <<>> THEN temp
                                                   ELSE IF temp = {} THEN {k} ELSE {t \o k : t \in temp})
           /\ temp' \subseteq Conf
<1> DEFINE e == edit[p]
           l == Head(e.rest)
           k == KeptLine(e, l)
           b == BlockAfter(e, l)
           out == [e EXCEPT !.rest = Tail(@), !.block = b, !.out = @ \o k]
           on == [e EXCEPT !.rest = Tail(@), !.block = b]
           off == [e EXCEPT !.rest = Tail(@), !.block = b, !.broke = TRUE]
           more == IF k = <<>> THEN temp ELSE IF temp = {} THEN {k} ELSE {t \o k : t \in temp}
<1>1. e.pc = "read" /\ e \in EditState /\ EditOK(e) /\ e.rest # <<>> /\ temp \subseteq Conf
  BY SoundParts DEF Read
<1>2. e.rest \in Conf /\ e.out \in Conf
  BY <1>1 DEF EditState
<1>3. l \in Line /\ Tail(e.rest) \in Conf
  BY <1>1, <1>2, SeqParts
<1>4. k \in Conf /\ b \in BOOLEAN
  BY <1>1, <1>3, KeptType
<1>5. \A t \in Conf : t \o k \in Conf
  BY <1>4, SeqParts
<1>6. more \subseteq Conf
  BY <1>1, <1>4, <1>5
<1>7. \/ e.fn = "set" /\ Steps(p, out) /\ temp' = temp
      \/ e.fn # "set" /\ Steps(p, on) /\ temp' = more
      \/ Steps(p, off) /\ temp' = temp
  BY DEF Read
<1> HIDE DEF l, k, b, more
<1>8. ASSUME NEW f, f.pc = e.pc, Same(e, f), f.n = e.n, f.pass = e.pass PROVE EditOK(f)
  BY <1>1, <1>8, EditSame DEF Same
<1>9. CASE e.fn = "set" /\ Steps(p, out) /\ temp' = temp
  <2>1. out \in EditState
    BY <1>1, <1>2, <1>3, <1>4, <1>5 DEF EditState
  <2>2. /\ out.pc = e.pc /\ out.fn = e.fn /\ out.key = e.key /\ out.val = e.val /\ out.items = e.items
        /\ out.n = e.n /\ out.pass = e.pass /\ out.alone = e.alone /\ out.stale = e.stale
        /\ out.broke = e.broke /\ out.before = e.before
        /\ out.rest = Tail(e.rest) /\ out.block = b /\ out.out = e.out \o k
    BY <1>1 DEF EditState
  <2> HIDE DEF out
  <2>3. Same(e, out)
    BY <2>2 DEF Same
  <2>4. EditOK(out)
    BY <1>8, <2>2, <2>3
  <2> QED BY <1>1, <1>9, <2>1, <2>2, <2>3, <2>4 DEF l, k, b
<1>10. CASE e.fn # "set" /\ Steps(p, on) /\ temp' = more
  <2>1. on \in EditState
    BY <1>1, <1>2, <1>3, <1>4 DEF EditState
  <2>2. /\ on.pc = e.pc /\ on.fn = e.fn /\ on.key = e.key /\ on.val = e.val /\ on.items = e.items
        /\ on.n = e.n /\ on.pass = e.pass /\ on.alone = e.alone /\ on.stale = e.stale
        /\ on.broke = e.broke /\ on.before = e.before
        /\ on.rest = Tail(e.rest) /\ on.block = b /\ on.out = e.out
    BY <1>1 DEF EditState
  <2> HIDE DEF on
  <2>3. Same(e, on)
    BY <2>2 DEF Same
  <2>4. EditOK(on)
    BY <1>8, <2>2, <2>3
  <2> QED BY <1>1, <1>6, <1>10, <2>1, <2>2, <2>3, <2>4 DEF l, k, b, more
<1>11. CASE Steps(p, off) /\ temp' = temp
  <2>1. off \in EditState
    BY <1>1, <1>2, <1>3, <1>4 DEF EditState
  <2>2. /\ off.pc = e.pc /\ off.fn = e.fn /\ off.key = e.key /\ off.val = e.val /\ off.items = e.items
        /\ off.n = e.n /\ off.pass = e.pass /\ off.alone = e.alone /\ off.stale = e.stale
        /\ off.broke = TRUE /\ off.before = e.before /\ off.rest = Tail(e.rest) /\ off.block = b
    BY <1>1 DEF EditState
  <2> HIDE DEF off
  <2>3. Same(e, off)
    BY <2>2 DEF Same
  <2>4. EditOK(off)
    BY <1>8, <2>2, <2>3
  <2> QED BY <1>1, <1>11, <2>1, <2>2, <2>3, <2>4 DEF l, k, b
<1> QED BY <1>7, <1>9, <1>10, <1>11

LEMMA EndsMakes ==
  ASSUME Sound, NEW p \in Procs, ReadEnds(p)
  PROVE  LET e == edit[p] IN
         \E f \in EditState :
           /\ Steps(p, f) /\ EditOK(f) /\ Same(e, f)
           /\ f.pc = "move" /\ f.pass = e.pass /\ f.block = FALSE /\ f.out = <<>>
           /\ f.broke = FALSE => /\ e.broke = FALSE
                                 /\ \/ e.fn # "set" /\ temp' = temp /\ file' = file
                                    \/ e.fn = "set" /\ temp = {}
                                    \/ e.fn = "set" /\ temp' = {e.out} /\ file' = file
           /\ file' \in Conf /\ temp' \subseteq Conf
<1> DEFINE e == edit[p]
           on == [e EXCEPT !.pc = "move", !.block = FALSE, !.out = <<>>]
           off == [e EXCEPT !.pc = "move", !.block = FALSE, !.out = <<>>, !.broke = TRUE]
<1>1. /\ e.pc = "read" /\ e \in EditState /\ EditOK(e) /\ temp \subseteq Conf /\ file \in Conf
      /\ e.out \in Conf /\ e.broke \in BOOLEAN
  <2>1. e \in EditState /\ EditOK(e) /\ temp \subseteq Conf /\ file \in Conf
    BY SoundParts
  <2> QED BY <2>1 DEF ReadEnds, EditState
<1>2. \A n \in 0 .. Len(e.out) : SubSeq(e.out, 1, n) \in Conf
  BY <1>1, SeqParts
<1>3. <<>> \in Conf
  BY SeqParts
<1>4. on \in EditState /\ off \in EditState
  BY <1>1, <1>3 DEF EditState
<1>5. /\ on.pc = "move" /\ on.fn = e.fn /\ on.key = e.key /\ on.val = e.val /\ on.items = e.items
      /\ on.n = e.n /\ on.pass = e.pass /\ on.alone = e.alone /\ on.stale = e.stale
      /\ on.broke = e.broke /\ on.before = e.before /\ on.block = FALSE /\ on.out = <<>>
  BY <1>1 DEF EditState
<1>6. /\ off.pc = "move" /\ off.fn = e.fn /\ off.key = e.key /\ off.val = e.val /\ off.items = e.items
      /\ off.n = e.n /\ off.pass = e.pass /\ off.alone = e.alone /\ off.stale = e.stale
      /\ off.broke = TRUE /\ off.before = e.before /\ off.block = FALSE /\ off.out = <<>>
  BY <1>1 DEF EditState
<1>7. \/ /\ Steps(p, on)
         /\ \/ e.fn # "set" /\ temp' = temp /\ file' = file
            \/ e.fn = "set" /\ temp = {} /\ file' \in {file, e.out} /\ temp' = temp
            \/ e.fn = "set" /\ temp' = {e.out} /\ file' = file
      \/ /\ Steps(p, off) /\ file' = file
         /\ \E n \in 0 .. Len(e.out) : temp' = {SubSeq(e.out, 1, n)}
  <2>1. on = [edit[p] EXCEPT !.pc = "move", !.block = FALSE, !.out = <<>>]
    OBVIOUS
  <2>2. off = [on EXCEPT !.broke = TRUE]
    BY <1>1 DEF EditState
  <2> HIDE DEF on, off
  <2> QED BY <2>1, <2>2 DEF ReadEnds
<1> HIDE DEF on, off, e
<1>8. file' \in Conf /\ temp' \subseteq Conf
  BY <1>1, <1>2, <1>7
<1>9. Same(e, on) /\ Same(e, off)
  BY <1>5, <1>6 DEF Same
<1>10. EditOK(on) /\ EditOK(off)
  BY <1>1, <1>5, <1>6 DEF EditOK, Idle
<1> QED BY <1>4, <1>5, <1>6, <1>7, <1>8, <1>9, <1>10 DEF e

LEMMA AfterMakes ==
  ASSUME NEW e \in EditState, EditOK(e), e.pc = "move", NEW f \in AfterMove(e)
  PROVE  /\ f \in EditState /\ EditOK(f)
         /\ \/ f.alone = FALSE /\ (f.pc = "done" => e.fn = "enable" /\ e.broke = FALSE)
            \/ /\ Same(e, f) /\ f.pc # "done" /\ f.broke = e.broke /\ e.fn # "enable"
               /\ \/ f.pc = "echo" /\ f.n = 0
                  \/ /\ f.pc = "open" /\ e.fn = "set" /\ f.pass = 2 /\ f.out = e.out /\ f.block = e.block
<1>0. Idle(e) = FALSE /\ e.n = 0 /\ IF e.fn = "set" THEN e.key \in Globals ELSE e.key \in Wlans /\ e.pass = 1
  BY DEF EditOK, Idle
<1>1. CASE e.fn = "enable"
  <2>1. f = [NoEdit EXCEPT !.pc = IF e.broke THEN "idle" ELSE "done"]
    BY <1>1 DEF AfterMove
  <2>2. e.broke \in BOOLEAN
    BY DEF EditState
  <2>3. CASE e.broke
    <3>1. f \in EditState /\ f.alone = FALSE /\ f.pc = "idle"
      BY <2>1, <2>3, NoEditType
    <3> QED BY <3>1 DEF EditOK, Idle
  <2>4. CASE ~e.broke
    <3>1. f \in EditState /\ f.alone = FALSE /\ f.pc = "done"
      BY <2>1, <2>4, NoEditType
    <3>2. e.broke = FALSE
      BY <2>2, <2>4
    <3> QED BY <1>1, <3>1, <3>2 DEF EditOK, Idle
  <2> QED BY <2>2, <2>3, <2>4
<1>2. CASE e.fn # "enable"
  <2> DEFINE echo == [e EXCEPT !.pc = "echo"]
             open == [e EXCEPT !.pc = "open", !.pass = 2]
  <2>1. f = echo \/ (e.fn = "set" /\ f = open)
    BY <1>2 DEF AfterMove
  <2>2. echo \in EditState
    BY DEF EditState
  <2>9. open \in EditState
    <3>1. 2 \in 1 .. 2
      OBVIOUS
    <3> QED BY <3>1 DEF EditState
  <2>3. /\ echo.pc = "echo" /\ echo.fn = e.fn /\ echo.key = e.key /\ echo.val = e.val /\ echo.items = e.items
        /\ echo.n = e.n /\ echo.pass = e.pass /\ echo.alone = e.alone /\ echo.stale = e.stale
        /\ echo.broke = e.broke /\ echo.before = e.before
    BY DEF EditState
  <2>4. /\ open.pc = "open" /\ open.fn = e.fn /\ open.key = e.key /\ open.val = e.val /\ open.items = e.items
        /\ open.n = e.n /\ open.pass = 2 /\ open.alone = e.alone /\ open.stale = e.stale
        /\ open.broke = e.broke /\ open.before = e.before /\ open.out = e.out /\ open.block = e.block
    BY DEF EditState
  <2> HIDE DEF echo, open
  <2>5. Len(New(echo)) \in 1 .. 5
    BY <1>0, <2>2, <2>3, NewType
  <2>6. EditOK(echo)
    <3>1. IF echo.fn = "set" THEN echo.key \in Globals ELSE echo.key \in Wlans /\ echo.pass = 1
      BY <1>0, <2>3
    <3>2. echo.fn # "enable" /\ echo.n < Len(New(echo))
      <4>1. echo.fn # "enable" /\ echo.n = 0
        BY <1>0, <1>2, <2>3
      <4>2. \A m \in 1 .. 5 : 0 < m
        OBVIOUS
      <4> QED BY <2>5, <4>1, <4>2
    <3> QED BY <2>3, <3>1, <3>2 DEF EditOK
  <2>7. e.fn = "set" => EditOK(open)
    BY <1>0, <2>4 DEF EditOK, Idle
  <2>8. Same(e, echo) /\ Same(e, open)
    BY <2>3, <2>4 DEF Same
  <2> QED BY <1>0, <1>2, <2>1, <2>2, <2>3, <2>4, <2>6, <2>7, <2>8, <2>9
<1> QED BY <1>1, <1>2

LEMMA MoveMakes ==
  ASSUME Sound, NEW p \in Procs, Move(p)
  PROVE  LET e == edit[p] IN
         \E f \in EditState :
           /\ Steps(p, f) /\ EditOK(f) /\ file' \in Conf /\ temp' \subseteq Conf
           /\ f.pc = "done" \/ (f.alone /\ f.broke = FALSE) =>
                /\ e.broke = FALSE /\ file' \in temp /\ temp' = {}
                /\ \/ e.fn = "enable" /\ f.pc = "done" /\ f.alone = FALSE
                   \/ /\ Same(e, f) /\ e.fn # "enable" /\ f.pc # "done"
                      /\ \/ f.pc = "echo" /\ f.n = 0
                         \/ /\ f.pc = "open" /\ e.fn = "set" /\ f.pass = 2
                            /\ f.out = e.out /\ f.block = e.block
<1> DEFINE e == edit[p]
           off == [e EXCEPT !.broke = TRUE]
<1>1. e.pc = "move" /\ e \in EditState /\ EditOK(e) /\ temp \subseteq Conf /\ file \in Conf
  BY SoundParts DEF Move
<1>2. \/ \E f \in AfterMove(e) : Steps(p, f) /\ file' \in temp /\ temp' = {}
      \/ /\ \E f \in AfterMove(off) : Steps(p, f)
         /\ temp' = temp
         /\ file' = file \/ \E t \in temp : \E n \in 0 .. Len(t) : file' = SubSeq(t, 1, n)
  BY DEF Move
<1>3. off \in EditState
  BY <1>1 DEF EditState
<1>4. /\ off.pc = e.pc /\ off.fn = e.fn /\ off.key = e.key /\ off.val = e.val /\ off.items = e.items
      /\ off.n = e.n /\ off.pass = e.pass /\ off.broke = TRUE
  BY <1>1 DEF EditState
<1> HIDE DEF e, off
<1>5. EditOK(off)
  BY <1>1, <1>4, EditSame
<1>6. CASE \E f \in AfterMove(e) : Steps(p, f) /\ file' \in temp /\ temp' = {}
  <2>1. PICK f \in AfterMove(e) : Steps(p, f) /\ file' \in temp /\ temp' = {}
    BY <1>6
  <2>2. /\ f \in EditState /\ EditOK(f)
        /\ \/ f.alone = FALSE /\ (f.pc = "done" => e.fn = "enable" /\ e.broke = FALSE)
           \/ /\ Same(e, f) /\ f.pc # "done" /\ f.broke = e.broke /\ e.fn # "enable"
              /\ \/ f.pc = "echo" /\ f.n = 0
                 \/ /\ f.pc = "open" /\ e.fn = "set" /\ f.pass = 2 /\ f.out = e.out /\ f.block = e.block
    BY <1>1, AfterMakes
  <2>3. file' \in Conf /\ temp' \subseteq Conf
    BY <1>1, <2>1
  <2> QED BY <2>1, <2>2, <2>3 DEF e
<1>7. CASE /\ \E f \in AfterMove(off) : Steps(p, f)
           /\ temp' = temp
           /\ file' = file \/ \E t \in temp : \E n \in 0 .. Len(t) : file' = SubSeq(t, 1, n)
  <2>1. PICK f \in AfterMove(off) : Steps(p, f)
    BY <1>7
  <2>2. /\ f \in EditState /\ EditOK(f)
        /\ \/ f.alone = FALSE /\ (f.pc = "done" => off.broke = FALSE)
           \/ f.pc # "done" /\ f.broke = off.broke
    BY <1>1, <1>3, <1>4, <1>5, AfterMakes
  <2>3. file' \in Conf /\ temp' \subseteq Conf
    BY <1>1, <1>7, SeqParts
  <2> QED BY <1>4, <2>1, <2>2, <2>3
<1> QED BY <1>2, <1>6, <1>7

LEMMA AppendMakes ==
  ASSUME Sound, NEW p \in Procs, AppendLine(p)
  PROVE  LET e == edit[p] IN
         \E f \in EditState :
           /\ Steps(p, f) /\ EditOK(f) /\ file' \in Conf
           /\ f.pc = "done" \/ (f.alone /\ f.broke = FALSE) =>
                /\ e.broke = FALSE /\ file' = Append(file, New(e)[e.n + 1])
                /\ \/ e.n + 1 = Len(New(e)) /\ f.pc = "done" /\ f.alone = FALSE
                   \/ Same(e, f) /\ f.pc = "echo" /\ f.n = e.n + 1
<1> DEFINE e == edit[p]
           next(b) == [e EXCEPT !.n = @ + 1, !.broke = b]
           end(b) == [NoEdit EXCEPT !.pc = IF b THEN "idle" ELSE "done"]
<1>1. e.pc = "echo" /\ e \in EditState /\ EditOK(e) /\ file \in Conf
  BY SoundParts DEF AppendLine
<1>2. /\ IF e.fn = "set" THEN e.key \in Globals ELSE e.key \in Wlans /\ e.pass = 1
      /\ e.fn # "enable" /\ e.n < Len(New(e))
  BY <1>1 DEF EditOK, Idle
<1>3. New(e) \in Conf /\ Len(New(e)) \in 1 .. 5
  BY <1>1, <1>2, NewType
<1>4. e.n \in 0 .. 4 /\ e.broke \in BOOLEAN
  BY <1>1 DEF EditState
<1>5. New(e)[e.n + 1] \in Line
  <2>1. e.n + 1 \in 1 .. Len(New(e))
    BY <1>2, <1>3, <1>4
  <2> QED BY <1>3, <2>1, ConfParts
<1>6. Append(file, New(e)[e.n + 1]) \in Conf
  BY <1>1, <1>5, SeqParts
<1>7. \E b \in BOOLEAN :
        /\ Steps(p, IF e.n + 1 < Len(New(e)) THEN next(b) ELSE end(b))
        /\ file' \in {file, Append(file, New(e)[e.n + 1])}
        /\ b = FALSE => e.broke = FALSE /\ file' = Append(file, New(e)[e.n + 1])
  <2>1. CASE file' = Append(file, New(e)[e.n + 1]) /\ Steps(p, IF e.n + 1 < Len(New(e)) THEN next(e.broke) ELSE end(e.broke))
    BY <1>4, <2>1
  <2>2. CASE UNCHANGED file /\ Steps(p, IF e.n + 1 < Len(New(e)) THEN next(TRUE) ELSE end(TRUE))
    BY <2>2
  <2> QED BY <2>1, <2>2 DEF AppendLine
<1>8. PICK b \in BOOLEAN :
        /\ Steps(p, IF e.n + 1 < Len(New(e)) THEN next(b) ELSE end(b))
        /\ file' \in {file, Append(file, New(e)[e.n + 1])}
        /\ b = FALSE => e.broke = FALSE /\ file' = Append(file, New(e)[e.n + 1])
  BY <1>7
<1>9. file' \in Conf
  BY <1>1, <1>6, <1>8
<1>10. CASE e.n + 1 < Len(New(e))
  <2> DEFINE f == next(b)
  <2>1. Steps(p, f)
    BY <1>8, <1>10
  <2>2. e.n + 1 \in 0 .. 4
    <3>1. \A n \in 0 .. 4, m \in 1 .. 5 : n + 1 < m => n + 1 \in 0 .. 4
      OBVIOUS
    <3>2. e.n \in 0 .. 4 /\ Len(New(e)) \in 1 .. 5 /\ e.n + 1 < Len(New(e))
      BY <1>3, <1>4, <1>10
    <3> HIDE DEF e
    <3> QED BY <3>1, <3>2
  <2>3. f \in EditState
    BY <1>1, <2>2 DEF EditState
  <2>4. /\ f.pc = "echo" /\ f.fn = e.fn /\ f.key = e.key /\ f.val = e.val /\ f.items = e.items
        /\ f.n = e.n + 1 /\ f.pass = e.pass /\ f.alone = e.alone /\ f.stale = e.stale
        /\ f.broke = b /\ f.before = e.before
    BY <1>1 DEF EditState
  <2> HIDE DEF f
  <2>5. New(f) = New(e)
    BY <2>4, NewSame
  <2>6. EditOK(f)
    BY <1>2, <1>10, <2>4, <2>5 DEF EditOK, Idle
  <2>7. Same(e, f)
    BY <2>4 DEF Same
  <2> QED BY <1>8, <1>9, <2>1, <2>3, <2>4, <2>6, <2>7
<1>11. CASE ~(e.n + 1 < Len(New(e)))
  <2> DEFINE f == end(b)
  <2>1. Steps(p, f)
    BY <1>8, <1>11
  <2>2. f \in EditState /\ f.alone = FALSE /\ f.pc = (IF b THEN "idle" ELSE "done") /\ Idle(f)
    <3>1. CASE b
      BY <3>1, NoEditType
    <3>2. CASE ~b
      BY <3>2, NoEditType
    <3> QED BY <3>1, <3>2
  <2> HIDE DEF f
  <2>3. EditOK(f)
    BY <2>2 DEF EditOK
  <2>4. e.n + 1 = Len(New(e))
    BY <1>2, <1>3, <1>4, <1>11
  <2>5. f.pc = "done" => b = FALSE
    BY <2>2
  <2> QED BY <1>8, <1>9, <2>1, <2>2, <2>3, <2>4, <2>5
<1> QED BY <1>10, <1>11

\* A step of p.
WmdStepOf(p) ==
  \/ \E fn \in {"set", "wlan", "enable"}, k \in Keys, v \in Settings, items \in Params \cup {{}} :
       Start(p, fn, k, v, items)
  \/ Open(p) \/ Cat(p) \/ Read(p) \/ ReadEnds(p) \/ Move(p) \/ AppendLine(p) \/ Kill(p)

LEMMA SoundInit == WmdInit => Sound
<1> SUFFICES ASSUME WmdInit PROVE Sound
  OBVIOUS
<1>1. NoEdit \in EditState /\ Idle(NoEdit) /\ NoEdit.val \in Settings
  BY NoEditType DEF EditState
<1>2. PICK k \in Globals, w \in Wlans, items \in Params :
        file \in { <<L("set", k, NoEdit.val)>> \o New([NoEdit EXCEPT !.fn = "wlan", !.key = w, !.items = items]),
                   New([NoEdit EXCEPT !.fn = "wlan", !.key = w, !.items = items]) \o <<L("set", k, NoEdit.val)>> }
  BY DEF WmdInit
<1> DEFINE e == [NoEdit EXCEPT !.fn = "wlan", !.key = w, !.items = items]
<1>3. w \in Keys /\ items \in SUBSET ItemNames
  BY SettingAssumption DEF Keys
<1>4. e \in EditState
  BY <1>1, <1>3 DEF EditState
<1>5. e.fn = "wlan" /\ e.key = w
  BY <1>1 DEF EditState
<1>6. <<L("set", k, NoEdit.val)>> \in Conf
  BY <1>1, LineMakes, SeqParts
<1> HIDE DEF e
<1>7. New(e) \in Conf
  BY <1>4, <1>5, NewType
<1>8. file \in Conf
  BY <1>2, <1>6, <1>7, SeqParts DEF e
<1>9. temp \subseteq Conf /\ edits \in 0 .. MaxEdits
  BY SettingAssumption DEF WmdInit
<1>10. edit = [p \in Procs |-> NoEdit]
  BY DEF WmdInit
<1>11. edit \in [Procs -> EditState] /\ \A p \in Procs : EditOK(edit[p])
  BY <1>1, <1>10 DEF EditOK
<1> QED BY <1>8, <1>9, <1>11 DEF Sound, WmdTypeOK, EditState

LEMMA SoundStep == Sound /\ [WmdNext]_wmdVars => Sound'
<1> SUFFICES ASSUME Sound, [WmdNext]_wmdVars PROVE Sound'
  OBVIOUS
<1>0. /\ file \in Conf /\ temp \subseteq Conf /\ edit \in [Procs -> EditState]
      /\ \A p \in Procs : EditOK(edit[p])
  BY SoundParts
<1>a. edits \in 0 .. MaxEdits
  BY DEF Sound, WmdTypeOK
<1>1. ASSUME NEW p \in Procs, NEW f \in EditState, Steps(p, f), EditOK(f),
             file' \in Conf, temp' \subseteq Conf, edits' \in 0 .. MaxEdits
      PROVE  Sound'
  <2>1. edit' \in [Procs -> EditState] /\ \A q \in Procs : EditOK(edit'[q])
    BY <1>0, <1>1, StepsParts
  <2> QED BY <1>1, <2>1 DEF Sound, WmdTypeOK, EditState, EditOK, Idle, New, Item
<1>2. ASSUME NEW p \in Procs, WmdStepOf(p) PROVE Sound'
  <2>1. ASSUME NEW fn \in {"set", "wlan", "enable"}, NEW k \in Keys, NEW v \in Settings,
               NEW items \in Params \cup {{}}, Start(p, fn, k, v, items)
        PROVE  Sound'
    <3>1. file' = file /\ temp' = temp /\ edits' \in 0 .. MaxEdits
      BY <1>a, <2>1, SettingAssumption DEF Start
    <3>2. PICK f \in EditState : Steps(p, f) /\ EditOK(f)
      BY <2>1, StartMakes
    <3> QED BY <1>0, <1>1, <3>1, <3>2
  <2>2. CASE Open(p)
    <3>1. file' = file /\ temp' \subseteq Conf /\ edits' = edits
      BY <1>0, <2>2, SeqParts DEF Open
    <3>2. PICK f \in EditState : Steps(p, f) /\ EditOK(f)
      BY <2>2, OpenMakes
    <3> QED BY <1>0, <1>1, <1>a, <3>1, <3>2
  <2>3. CASE Cat(p)
    <3>1. file' = file /\ temp' = temp /\ edits' = edits
      BY <2>3 DEF Cat
    <3>2. PICK f \in EditState : Steps(p, f) /\ EditOK(f)
      BY <2>3, CatMakes
    <3> QED BY <1>0, <1>1, <1>a, <3>1, <3>2
  <2>4. CASE Read(p)
    <3>1. file' = file /\ edits' = edits
      BY <2>4 DEF Read
    <3>2. PICK f \in EditState : Steps(p, f) /\ EditOK(f) /\ temp' \subseteq Conf
      BY <2>4, ReadMakes
    <3> QED BY <1>0, <1>1, <1>a, <3>1, <3>2
  <2>5. CASE ReadEnds(p)
    <3>1. edits' = edits
      BY <2>5 DEF ReadEnds
    <3>2. PICK f \in EditState : Steps(p, f) /\ EditOK(f) /\ file' \in Conf /\ temp' \subseteq Conf
      BY <2>5, EndsMakes
    <3> QED BY <1>1, <1>a, <3>1, <3>2
  <2>6. CASE Move(p)
    <3>1. edits' = edits
      BY <2>6 DEF Move
    <3>2. PICK f \in EditState : Steps(p, f) /\ EditOK(f) /\ file' \in Conf /\ temp' \subseteq Conf
      BY <2>6, MoveMakes
    <3> QED BY <1>1, <1>a, <3>1, <3>2
  <2>7. CASE AppendLine(p)
    <3>1. edits' = edits /\ temp' = temp
      BY <2>7 DEF AppendLine
    <3>2. PICK f \in EditState : Steps(p, f) /\ EditOK(f) /\ file' \in Conf
      BY <2>7, AppendMakes
    <3> QED BY <1>0, <1>1, <1>a, <3>1, <3>2
  <2>8. CASE Kill(p)
    <3>1. file' = file /\ temp' = temp /\ edits' = edits /\ Steps(p, NoEdit)
      BY <2>8 DEF Kill
    <3>2. NoEdit \in EditState /\ EditOK(NoEdit)
      BY NoEditType DEF EditOK
    <3> QED BY <1>0, <1>1, <1>a, <3>1, <3>2
  <2> QED BY <1>2, <2>1, <2>2, <2>3, <2>4, <2>5, <2>6, <2>7, <2>8 DEF WmdStepOf
<1>3. CASE UNCHANGED wmdVars
  BY <1>3 DEF wmdVars, Sound, WmdTypeOK, EditOK, Idle, New, Item
<1> QED BY <1>2, <1>3 DEF WmdNext, WmdStepOf

\* The types of the state, for any settings, wlans and number of invocations.
THEOREM WmdTypeCorrect == WmdSpec => []WmdTypeOK
<1>1. WmdInit => Sound
  BY SoundInit
<1>2. Sound /\ [WmdNext]_wmdVars => Sound'
  BY SoundStep
<1>3. Sound => WmdTypeOK
  BY DEF Sound
<1> QED BY <1>1, <1>2, <1>3, PTL DEF WmdSpec

-----------------------------------------------------------------------------
(* WmdConf: an edit with nothing in between                                 *)

\* An edit that is still to be exact.
Exact(e) == ~Idle(e) /\ e.alone /\ e.broke = FALSE /\ (e.fn = "set" \/ (~e.stale /\ Whole(e.before)))

\* How far it has come, by what is in the two files.
Reading(e, t, i) ==
  /\ e.rest = SubSeq(Source(e), i + 1, Len(Source(e)))
  /\ e.block <=> InBlock(e, i)
  /\ IF e.fn = "set" THEN e.out = Part(e, i) /\ t = {<<>>} ELSE e.out = <<>> /\ t = {Part(e, i)}
Progress(e, f, t) ==
  /\ e.pc \in {"open", "cat", "read", "move"} => f = Source(e)
  /\ e.pc \in {"open", "cat"} => e.out = <<>> /\ e.block = FALSE
  /\ e.pc = "open" => e.fn = "set" \/ t = {}
  /\ e.pc = "cat" => t = {<<>>}
  /\ e.pc = "read" => \E i \in 0 .. Len(Source(e)) : Reading(e, t, i)
  /\ e.pc = "move" => e.out = <<>> /\ e.block = FALSE /\ t = {Target(e)}
  /\ e.pc = "echo" => Target(e) \in Conf /\ f = Target(e) \o SubSeq(New(e), 1, e.n)

Lone == \A p \in Procs : Exact(edit[p]) => Progress(edit[p], file, temp)

LEMMA ExactParts ==
  ASSUME NEW e \in EditState, EditOK(e), Exact(e)
  PROVE  /\ Fits(e) /\ e.alone /\ e.broke = FALSE /\ ~Idle(e) /\ (e.pass = 2 => e.fn = "set")
         /\ e.pass \in {1, 2} /\ e.before \in Conf /\ e.key \in Keys /\ e.val \in Settings
BY DEF Exact, EditOK, Fits, EditState

\* What depends only on the parts of an edit that no step changes, and on the pass.
LEMMA SameParts ==
  ASSUME NEW e, NEW f, Same(e, f)
  PROVE  /\ Target(f) = Target(e) /\ New(f) = New(e)
         /\ f.pass = e.pass => /\ Source(f) = Source(e)
                               /\ \A i : Part(f, i) = Part(e, i) /\ (InBlock(f, i) <=> InBlock(e, i))
<1>1. Target(f) = Target(e)
  BY DEF Same, Target
<1>2. New(f) = New(e)
  BY NewSame DEF Same
<1>3. ASSUME f.pass = e.pass
      PROVE  /\ Source(f) = Source(e)
             /\ \A i : Part(f, i) = Part(e, i) /\ (InBlock(f, i) <=> InBlock(e, i))
  <2>1. Source(f) = Source(e)
    BY <1>3 DEF Same, Source
  <2>2. \A i : Part(f, i) = Part(e, i)
    BY <1>1, <1>3 DEF Same, Part
  <2>3. \A i : InBlock(f, i) <=> InBlock(e, i)
    BY <2>1 DEF Same, InBlock
  <2> QED BY <2>1, <2>2, <2>3
<1> QED BY <1>1, <1>2, <1>3

\* An edit that stays exact was exact.
LEMMA SameExact ==
  ASSUME NEW e, NEW f, Same(e, f), Exact(f), e.broke = FALSE, ~Idle(e)
  PROVE  Exact(e)
BY DEF Same, Exact

\* The first line of a rest is the next one.
LEMMA RestParts ==
  ASSUME NEW s \in Conf, NEW i \in 0 .. Len(s)
  PROVE  /\ SubSeq(s, i + 1, Len(s)) = <<>> => i = Len(s)
         /\ SubSeq(s, i + 1, Len(s)) # <<>> => /\ i \in 0 .. Len(s) - 1
                                               /\ Head(SubSeq(s, i + 1, Len(s))) = s[i + 1]
                                               /\ Tail(SubSeq(s, i + 1, Len(s))) = SubSeq(s, (i + 1) + 1, Len(s))
<1>0. Len(s) \in Nat /\ i \in Nat
  BY ConfParts
<1>1. CASE i = Len(s)
  <2>1. SubSeq(s, i + 1, Len(s)) = <<>>
    BY <1>0, <1>1, SubSeqEmpty
  <2> QED BY <1>1, <2>1
<1>2. CASE i # Len(s)
  <2>1. i \in 0 .. Len(s) - 1 /\ i + 1 \in 1 .. Len(s) /\ Len(s) \in (i + 1) .. Len(s)
    BY <1>0, <1>2
  <2>2. /\ Head(SubSeq(s, i + 1, Len(s))) = s[i + 1]
        /\ Tail(SubSeq(s, i + 1, Len(s))) = SubSeq(s, (i + 1) + 1, Len(s))
    BY <2>1, HeadTailOfSubSeq DEF Conf
  <2>3. SubSeq(s, i + 1, Len(s)) # <<>>
    <3>1. \A j \in (i + 1) .. Len(s) : s[j] \in Line
      BY <1>0, ConfParts
    <3>2. Len(SubSeq(s, i + 1, Len(s))) = Len(s) - (i + 1) + 1
      BY <1>0, <2>1, <3>1, SubSeqProperties
    <3>3. Len(SubSeq(s, i + 1, Len(s))) > 0
      BY <1>0, <2>1, <3>2
    <3>4. \A t : t = <<>> => ~(Len(t) > 0)
      OBVIOUS
    <3> QED BY <3>3, <3>4
  <2> QED BY <2>1, <2>2, <2>3
<1> QED BY <1>1, <1>2

LEMMA LoneOpen ==
  ASSUME Sound, NEW p \in Procs, Exact(edit[p]) => Progress(edit[p], file, temp), Open(p), Exact(edit'[p])
  PROVE  Progress(edit'[p], file', temp')
<1> DEFINE e == edit[p]
<1>1. PICK f \in EditState :
        /\ Steps(p, f) /\ EditOK(f) /\ Same(e, f)
        /\ f.pc = "cat" /\ f.pass = e.pass /\ f.out = e.out /\ f.block = e.block /\ f.broke = e.broke
  BY OpenMakes
<1>2. edit'[p] = f
  BY <1>1, SoundParts, StepsParts
<1>3. e.pc = "open" /\ file' = file /\ temp' = IF e.fn = "set" \/ temp = {} THEN {<<>>} ELSE temp
  BY DEF Open
<1>4. Exact(e)
  BY <1>1, <1>2, <1>3, SameExact DEF Exact, Idle
<1>5. file = Source(e) /\ e.out = <<>> /\ e.block = FALSE /\ (e.fn = "set" \/ temp = {})
  BY <1>3, <1>4 DEF Progress
<1>6. Source(f) = Source(e)
  BY <1>1, SameParts
<1>7. file' = Source(f) /\ temp' = {<<>>} /\ f.out = <<>> /\ f.block = FALSE
  BY <1>1, <1>3, <1>5, <1>6
<1> QED BY <1>1, <1>2, <1>7 DEF Progress

LEMMA LoneCat ==
  ASSUME Sound, NEW p \in Procs, Exact(edit[p]) => Progress(edit[p], file, temp), Cat(p), Exact(edit'[p])
  PROVE  Progress(edit'[p], file', temp')
<1> DEFINE e == edit[p]
<1>1. PICK f \in EditState :
        /\ Steps(p, f) /\ EditOK(f) /\ Same(e, f)
        /\ f.pc = "read" /\ f.rest = file /\ f.pass = e.pass /\ f.out = e.out
        /\ f.block = e.block /\ f.broke = e.broke
  BY CatMakes
<1>2. edit'[p] = f
  BY <1>1, SoundParts, StepsParts
<1>3. e.pc = "cat" /\ file' = file /\ temp' = temp /\ file \in Conf
  BY SoundParts DEF Cat
<1>4. Exact(e)
  BY <1>1, <1>2, <1>3, SameExact DEF Exact, Idle
<1>5. file = Source(e) /\ e.out = <<>> /\ e.block = FALSE /\ temp = {<<>>}
  BY <1>3, <1>4 DEF Progress
<1>6. Source(f) = file
  BY <1>1, <1>5, SameParts
<1>7. Fits(f)
  BY <1>1, <1>2, ExactParts
<1>8. Part(f, 0) = <<>>
  BY <1>1, <1>3, <1>6, <1>7, PartEnds
<1>9. InBlock(f, 0) = FALSE
  BY DEF InBlock
<1>10. f.rest = SubSeq(Source(f), 0 + 1, Len(Source(f))) /\ 0 \in 0 .. Len(Source(f))
  BY <1>1, <1>3, <1>6, SubSeqFull, ConfParts DEF Conf
<1>11. f.block <=> InBlock(f, 0)
  BY <1>1, <1>5, <1>9
<1>12. /\ IF f.fn = "set" THEN f.out = Part(f, 0) /\ temp' = {<<>>} ELSE f.out = <<>> /\ temp' = {Part(f, 0)}
  BY <1>1, <1>3, <1>5, <1>8
<1>13. Reading(f, temp', 0)
  BY <1>10, <1>11, <1>12 DEF Reading
<1>14. \E i \in 0 .. Len(Source(f)) : Reading(f, temp', i)
  BY <1>10, <1>13
<1> QED BY <1>1, <1>2, <1>3, <1>6, <1>14 DEF Progress

LEMMA LoneRead ==
  ASSUME Sound, NEW p \in Procs, Exact(edit[p]) => Progress(edit[p], file, temp), Read(p), Exact(edit'[p])
  PROVE  Progress(edit'[p], file', temp')
<1> DEFINE e == edit[p]
           l == Head(e.rest)
           k == KeptLine(e, l)
<1>1. PICK f \in EditState :
           /\ Steps(p, f) /\ EditOK(f) /\ Same(e, f)
           /\ f.pc = "read" /\ f.rest = Tail(e.rest) /\ f.pass = e.pass /\ f.block = BlockAfter(e, l)
           /\ f.broke = FALSE => /\ e.broke = FALSE
                                 /\ \/ e.fn = "set" /\ f.out = e.out \o k /\ temp' = temp
                                    \/ /\ e.fn # "set" /\ f.out = e.out
                                       /\ temp' = (IF k = <<>> THEN temp
                                                   ELSE IF temp = {} THEN {k} ELSE {t \o k : t \in temp})
  BY ReadMakes
<1>2. edit'[p] = f
  BY <1>1, SoundParts, StepsParts
<1>3. e.pc = "read" /\ e.rest # <<>> /\ file' = file
  BY DEF Read
<1>4. f.broke = FALSE
  BY <1>2, ExactParts DEF Exact
<1>5. Exact(e)
  BY <1>1, <1>2, <1>3, <1>4, SameExact DEF Idle
<1>6. e \in EditState /\ EditOK(e) /\ file \in Conf /\ temp \subseteq Conf
  BY SoundParts
<1>7. Fits(e) /\ e.fn \in {"set", "wlan", "enable"}
  BY <1>5, <1>6, ExactParts DEF EditState
<1>8. file = Source(e) /\ \E i \in 0 .. Len(Source(e)) : Reading(e, temp, i)
  BY <1>3, <1>5 DEF Progress
<1>9. PICK i \in 0 .. Len(Source(e)) : Reading(e, temp, i)
  BY <1>8
<1>10. /\ e.rest = SubSeq(Source(e), i + 1, Len(Source(e))) /\ (e.block <=> InBlock(e, i))
       /\ IF e.fn = "set" THEN e.out = Part(e, i) /\ temp = {<<>>} ELSE e.out = <<>> /\ temp = {Part(e, i)}
  BY <1>9 DEF Reading
<1>11. Source(e) \in Conf /\ Len(Source(e)) \in Nat
  BY <1>6, <1>8, ConfParts
<1>12. /\ i \in 0 .. Len(Source(e)) - 1 /\ l = Source(e)[i + 1]
       /\ Tail(e.rest) = SubSeq(Source(e), (i + 1) + 1, Len(Source(e)))
  BY <1>3, <1>10, <1>11, RestParts
<1>13. Part(e, i) \in Conf
  <2>1. e.out \in Conf
    BY <1>6 DEF EditState
  <2> QED BY <1>6, <1>10, <2>1
<1> HIDE DEF e, l, k
<1>14. Part(e, i + 1) = Part(e, i) \o KeptLine(e, l) /\ (BlockAfter(e, l) <=> InBlock(e, i + 1))
  BY <1>6, <1>7, <1>10, <1>11, <1>12, <1>13, KeptNext
<1>15. /\ Source(f) = Source(e)
       /\ \A j : Part(f, j) = Part(e, j) /\ (InBlock(f, j) <=> InBlock(e, j))
  BY <1>1, SameParts
<1>16. f.fn = e.fn
  BY <1>1 DEF Same
<1>17. f.block <=> InBlock(f, i + 1)
  BY <1>1, <1>14, <1>15
<1>18. IF f.fn = "set" THEN f.out = Part(f, i + 1) /\ temp' = {<<>>}
       ELSE f.out = <<>> /\ temp' = {Part(f, i + 1)}
  <2>1. CASE e.fn = "set"
    BY <1>1, <1>4, <1>10, <1>14, <1>15, <1>16, <2>1 DEF k
  <2>2. CASE e.fn # "set"
    <3>1. temp = {Part(e, i)} /\ f.out = <<>> /\ k = KeptLine(e, l)
      BY <1>1, <1>4, <1>10, <2>2 DEF k
    <3>2. Part(e, i) \o <<>> = Part(e, i)
      BY <1>13, ConcatEmptySeq DEF Conf
    <3>3. temp' = {Part(e, i) \o k}
      <4>1. temp' = (IF k = <<>> THEN temp ELSE IF temp = {} THEN {k} ELSE {t \o k : t \in temp})
        BY <1>1, <1>4, <2>2
      <4>2. CASE k = <<>>
        BY <3>1, <3>2, <4>1, <4>2
      <4>3. CASE k # <<>>
        <5>1. {t \o k : t \in {Part(e, i)}} = {Part(e, i) \o k}
          OBVIOUS
        <5>2. temp # {}
          BY <3>1
        <5> QED BY <3>1, <4>1, <4>3, <5>1, <5>2
      <4> QED BY <4>2, <4>3
    <3> QED BY <1>14, <1>15, <1>16, <2>2, <3>1, <3>3
  <2> QED BY <2>1, <2>2
<1>19. f.rest = SubSeq(Source(f), (i + 1) + 1, Len(Source(f))) /\ i + 1 \in 0 .. Len(Source(f))
  BY <1>1, <1>11, <1>12, <1>15
<1>20. Reading(f, temp', i + 1)
  BY <1>17, <1>18, <1>19 DEF Reading
<1>21. \E j \in 0 .. Len(Source(f)) : Reading(f, temp', j)
  BY <1>19, <1>20
<1> QED BY <1>1, <1>2, <1>3, <1>8, <1>15, <1>21 DEF Progress

LEMMA LoneEnds ==
  ASSUME Sound, NEW p \in Procs, Exact(edit[p]) => Progress(edit[p], file, temp), ReadEnds(p), Exact(edit'[p])
  PROVE  Progress(edit'[p], file', temp')
<1> DEFINE e == edit[p]
<1>1. PICK f \in EditState :
           /\ Steps(p, f) /\ EditOK(f) /\ Same(e, f)
           /\ f.pc = "move" /\ f.pass = e.pass /\ f.block = FALSE /\ f.out = <<>>
           /\ f.broke = FALSE => /\ e.broke = FALSE
                                 /\ \/ e.fn # "set" /\ temp' = temp /\ file' = file
                                    \/ e.fn = "set" /\ temp = {}
                                    \/ e.fn = "set" /\ temp' = {e.out} /\ file' = file
  BY EndsMakes
<1>2. edit'[p] = f
  BY <1>1, SoundParts, StepsParts
<1>3. e.pc = "read" /\ e.rest = <<>>
  BY DEF ReadEnds
<1>4. f.broke = FALSE
  BY <1>2 DEF Exact
<1>5. Exact(e)
  BY <1>1, <1>2, <1>3, <1>4, SameExact DEF Idle
<1>6. e \in EditState /\ EditOK(e) /\ file \in Conf
  BY SoundParts
<1>7. Fits(e)
  BY <1>5, <1>6, ExactParts
<1>8. file = Source(e) /\ \E i \in 0 .. Len(Source(e)) : Reading(e, temp, i)
  BY <1>3, <1>5 DEF Progress
<1>9. PICK i \in 0 .. Len(Source(e)) : Reading(e, temp, i)
  BY <1>8
<1>10. /\ e.rest = SubSeq(Source(e), i + 1, Len(Source(e)))
       /\ IF e.fn = "set" THEN e.out = Part(e, i) /\ temp = {<<>>} ELSE temp = {Part(e, i)}
  BY <1>9 DEF Reading
<1>11. Source(e) \in Conf
  BY <1>6, <1>8
<1>12. i = Len(Source(e))
  BY <1>3, <1>10, <1>11, RestParts
<1>13. Part(e, i) = Target(e)
  BY <1>6, <1>7, <1>11, <1>12, PartEnds
<1>14. temp' = {Target(e)} /\ file' = file
  BY <1>1, <1>4, <1>10, <1>13
<1>15. Source(f) = Source(e) /\ Target(f) = Target(e)
  BY <1>1, SameParts
<1> QED BY <1>1, <1>2, <1>8, <1>14, <1>15 DEF Progress

LEMMA LoneMove ==
  ASSUME Sound, NEW p \in Procs, Exact(edit[p]) => Progress(edit[p], file, temp), Move(p),
         Exact(edit'[p]) \/ (Exact(edit[p]) /\ edit'[p].pc = "done")
  PROVE  /\ Exact(edit[p]) /\ file' = Target(edit[p])
         /\ Exact(edit'[p]) => Progress(edit'[p], file', temp')
         /\ edit'[p].pc = "done" => edit[p].fn = "enable"
<1> DEFINE e == edit[p]
<1>1. PICK f \in EditState :
           /\ Steps(p, f) /\ EditOK(f)
           /\ f.pc = "done" \/ (f.alone /\ f.broke = FALSE) =>
                /\ e.broke = FALSE /\ file' \in temp /\ temp' = {}
                /\ \/ e.fn = "enable" /\ f.pc = "done" /\ f.alone = FALSE
                   \/ /\ Same(e, f) /\ e.fn # "enable" /\ f.pc # "done"
                      /\ \/ f.pc = "echo" /\ f.n = 0
                         \/ /\ f.pc = "open" /\ e.fn = "set" /\ f.pass = 2
                            /\ f.out = e.out /\ f.block = e.block
  BY MoveMakes
<1>2. edit'[p] = f
  BY <1>1, SoundParts, StepsParts
<1>3. e.pc = "move"
  BY DEF Move
<1>4. f.pc = "done" \/ (f.alone /\ f.broke = FALSE)
  BY <1>2 DEF Exact
<1>5. Exact(e)
  <2>1. CASE Exact(f)
    <3>1. Same(e, f) /\ e.broke = FALSE
      BY <1>1, <2>1 DEF Exact
    <3> QED BY <1>3, <2>1, <3>1, SameExact DEF Idle
  <2> QED BY <1>2, <2>1
<1>6. file = Source(e) /\ e.out = <<>> /\ e.block = FALSE /\ temp = {Target(e)} /\ temp \subseteq Conf
  BY <1>3, <1>5, SoundParts DEF Progress
<1>7. file' = Target(e) /\ Target(e) \in Conf /\ temp' = {}
  BY <1>1, <1>4, <1>6
<1>8. ASSUME Exact(f) PROVE Progress(f, file', temp')
  <2>1. /\ Same(e, f) /\ e.fn # "enable"
        /\ \/ f.pc = "echo" /\ f.n = 0
           \/ f.pc = "open" /\ e.fn = "set" /\ f.pass = 2 /\ f.out = e.out /\ f.block = e.block
    BY <1>1, <1>8 DEF Exact
  <2>2. Target(f) = Target(e) /\ f.fn = e.fn
    BY <2>1, SameParts DEF Same
  <2>3. CASE f.pc = "echo" /\ f.n = 0
    <3>1. SubSeq(New(f), 1, f.n) = <<>>
      BY <2>3, SubSeqEmpty
    <3>2. Target(f) \o <<>> = Target(f)
      BY <1>7, <2>2, ConcatEmptySeq DEF Conf
    <3> QED BY <1>7, <2>2, <2>3, <3>1, <3>2 DEF Progress
  <2>4. CASE f.pc = "open" /\ e.fn = "set" /\ f.pass = 2 /\ f.out = e.out /\ f.block = e.block
    <3>1. Source(f) = Target(f)
      BY <2>2, <2>4 DEF Source, Target
    <3> QED BY <1>6, <1>7, <2>2, <2>4, <3>1 DEF Progress
  <2> QED BY <2>1, <2>3, <2>4
<1>9. f.pc = "done" => e.fn = "enable"
  BY <1>1
<1> QED BY <1>2, <1>5, <1>7, <1>8, <1>9

LEMMA LoneAppend ==
  ASSUME Sound, NEW p \in Procs, Exact(edit[p]) => Progress(edit[p], file, temp), AppendLine(p),
         Exact(edit'[p]) \/ (Exact(edit[p]) /\ edit'[p].pc = "done")
  PROVE  /\ Exact(edit[p]) /\ edit[p].fn # "enable"
         /\ edit[p].n + 1 \in 0 .. Len(New(edit[p]))
         /\ file' = Target(edit[p]) \o SubSeq(New(edit[p]), 1, edit[p].n + 1)
         /\ Exact(edit'[p]) => Progress(edit'[p], file', temp')
         /\ edit'[p].pc = "done" => file' = Target(edit[p]) \o New(edit[p])
<1> DEFINE e == edit[p]
<1>1. PICK f \in EditState :
           /\ Steps(p, f) /\ EditOK(f)
           /\ f.pc = "done" \/ (f.alone /\ f.broke = FALSE) =>
                /\ e.broke = FALSE /\ file' = Append(file, New(e)[e.n + 1])
                /\ \/ e.n + 1 = Len(New(e)) /\ f.pc = "done" /\ f.alone = FALSE
                   \/ Same(e, f) /\ f.pc = "echo" /\ f.n = e.n + 1
  BY AppendMakes
<1>2. edit'[p] = f
  BY <1>1, SoundParts, StepsParts
<1>3. e.pc = "echo" /\ e \in EditState /\ EditOK(e)
  BY SoundParts DEF AppendLine
<1>4. f.pc = "done" \/ (f.alone /\ f.broke = FALSE)
  BY <1>2 DEF Exact
<1>5. Exact(e)
  <2>1. CASE Exact(f)
    <3>1. Same(e, f) /\ e.broke = FALSE
      BY <1>1, <2>1 DEF Exact
    <3> QED BY <1>3, <2>1, <3>1, SameExact DEF Idle
  <2> QED BY <1>2, <2>1
<1>6. Target(e) \in Conf /\ file = Target(e) \o SubSeq(New(e), 1, e.n)
  BY <1>3, <1>5 DEF Progress
<1>7. e.fn # "enable" /\ e.n < Len(New(e)) /\ New(e) \in Conf /\ Len(New(e)) \in Nat /\ e.n \in Nat
  <2>1. IF e.fn = "set" THEN e.key \in Globals ELSE e.key \in Wlans
    BY <1>3 DEF EditOK, Idle
  <2>2. New(e) \in Conf /\ Len(New(e)) \in 1 .. 5
    BY <1>3, <2>1, NewType
  <2>3. e.fn # "enable" /\ e.n < Len(New(e))
    BY <1>3 DEF EditOK, Idle
  <2>4. e.n \in Nat
    BY <1>3 DEF EditState
  <2> QED BY <2>2, <2>3, <2>4
<1> DEFINE N == New(e)
           T == Target(e)
<1>8. file' = T \o SubSeq(N, 1, e.n + 1)
  <2> DEFINE n == e.n
  <2>0. N \in Conf /\ T \in Conf /\ n + 1 \in 1 .. Len(N) /\ n \in 0 .. Len(N) /\ 1 \in 1 .. Len(N) /\ (n + 1) - 1 = n
    BY <1>6, <1>7
  <2>1. SubSeq(N, 1, n) \in Conf /\ N[n + 1] \in Line
    BY <2>0, SeqParts, ConfParts
  <2>a. file = T \o SubSeq(N, 1, n) /\ file' = Append(file, N[n + 1])
    BY <1>1, <1>4, <1>6
  <2> HIDE DEF N, T, n
  <2>2. SubSeq(N, 1, n + 1) = SubSeq(N, 1, (n + 1) - 1) \o <<N[n + 1]>>
    BY <2>0, SubSeqRecursiveSecond DEF Conf
  <2>3. SubSeq(N, 1, n + 1) = SubSeq(N, 1, n) \o <<N[n + 1]>>
    BY <2>0, <2>2
  <2>4. T \o SubSeq(N, 1, n) \in Conf /\ <<N[n + 1]>> \in Conf
    BY <2>0, <2>1, SeqParts
  <2>5. Append(T \o SubSeq(N, 1, n), N[n + 1]) = (T \o SubSeq(N, 1, n)) \o <<N[n + 1]>>
    BY <2>1, <2>4, AppendIsConcat DEF Conf
  <2>6. (T \o SubSeq(N, 1, n)) \o <<N[n + 1]>> = T \o (SubSeq(N, 1, n) \o <<N[n + 1]>>)
    <3>1. \A s, t, u \in Conf : (s \o t) \o u = s \o (t \o u)
      BY ConcatAssociative DEF Conf
    <3> QED BY <2>0, <2>1, <2>4, <3>1
  <2>7. file' = T \o SubSeq(N, 1, n + 1)
    BY <2>a, <2>3, <2>5, <2>6
  <2> QED BY <2>7 DEF n
<1>9. e.n + 1 \in 0 .. Len(N)
  BY <1>7
<1>10. ASSUME Exact(f) PROVE Progress(f, file', temp')
  <2>1. Same(e, f) /\ f.pc = "echo" /\ f.n = e.n + 1
    BY <1>1, <1>10 DEF Exact
  <2>2. Target(f) = T /\ New(f) = N
    BY <2>1, SameParts
  <2> HIDE DEF N, T
  <2> QED BY <1>6, <1>8, <2>1, <2>2 DEF Progress, T
<1>11. f.pc = "done" => file' = T \o N
  <2>1. f.pc = "done" => e.n + 1 = Len(N)
    BY <1>1
  <2>2. SubSeq(N, 1, Len(N)) = N
    BY <1>7, SubSeqFull DEF Conf
  <2> QED BY <1>8, <2>1, <2>2
<1> QED BY <1>2, <1>5, <1>7, <1>8, <1>9, <1>10, <1>11

LEMMA LoneInit == WmdInit => Lone
BY NoEditType DEF WmdInit, Lone, Exact

\* Of an exact edit only its own step goes on with it, or ends it as done.
LEMMA OwnStep ==
  ASSUME Sound, NEW p \in Procs, NEW q \in Procs, q # p, WmdStepOf(q)
  PROVE  edit'[p].alone = FALSE /\ edit'[p].pc = edit[p].pc
<1>1. ASSUME NEW f \in EditState, Steps(q, f) PROVE edit'[p].alone = FALSE /\ edit'[p].pc = edit[p].pc
  BY <1>1, SoundParts, StepsParts
<1>2. \E f \in EditState : Steps(q, f)
  <2>1. ASSUME NEW fn \in {"set", "wlan", "enable"}, NEW k \in Keys, NEW v \in Settings,
               NEW items \in Params \cup {{}}, Start(q, fn, k, v, items)
        PROVE  \E f \in EditState : Steps(q, f)
    BY <2>1, StartMakes
  <2>2. CASE Open(q)
    BY <2>2, OpenMakes
  <2>3. CASE Cat(q)
    BY <2>3, CatMakes
  <2>4. CASE Read(q)
    BY <2>4, ReadMakes
  <2>5. CASE ReadEnds(q)
    BY <2>5, EndsMakes
  <2>6. CASE Move(q)
    BY <2>6, MoveMakes
  <2>7. CASE AppendLine(q)
    BY <2>7, AppendMakes
  <2>8. CASE Kill(q)
    BY <2>8, NoEditType DEF Kill
  <2> QED BY <2>1, <2>2, <2>3, <2>4, <2>5, <2>6, <2>7, <2>8 DEF WmdStepOf
<1> QED BY <1>1, <1>2

LEMMA LoneStart ==
  ASSUME Sound, NEW p \in Procs, NEW fn \in {"set", "wlan", "enable"}, NEW k \in Keys, NEW v \in Settings,
         NEW items \in Params \cup {{}}, Start(p, fn, k, v, items)
  PROVE  /\ Exact(edit'[p]) => Progress(edit'[p], file', temp')
         /\ Idle(edit[p])
<1>1. PICK f \in EditState :
           /\ Steps(p, f) /\ EditOK(f)
           /\ f.pc = "open" /\ f.pass = 1 /\ f.out = <<>> /\ f.block = FALSE /\ f.broke = FALSE
           /\ f.stale = (temp # {}) /\ (f.alone => f.before = file)
  BY StartMakes
<1>2. edit'[p] = f
  BY <1>1, SoundParts, StepsParts
<1>3. file' = file /\ temp' = temp /\ Idle(edit[p])
  BY DEF Start
<1>4. ASSUME Exact(f) PROVE Progress(f, file', temp')
  <2>1. f.alone /\ (f.fn = "set" \/ ~f.stale)
    BY <1>4 DEF Exact
  <2>2. file' = Source(f) /\ (f.fn = "set" \/ temp' = {})
    BY <1>1, <1>3, <2>1 DEF Source
  <2> QED BY <1>1, <2>2 DEF Progress
<1> QED BY <1>2, <1>3, <1>4

LEMMA LoneStep == Sound /\ Lone /\ [WmdNext]_wmdVars => Lone'
<1> SUFFICES ASSUME Sound, Lone, [WmdNext]_wmdVars, NEW p \in Procs, Exact(edit'[p])
             PROVE  Progress(edit'[p], file', temp')
  BY DEF Lone
<1>1. Exact(edit[p]) => Progress(edit[p], file, temp)
  BY DEF Lone
<1>2. ASSUME NEW q \in Procs, WmdStepOf(q) PROVE Progress(edit'[p], file', temp')
  <2>1. q = p
    BY <1>2, OwnStep DEF Exact
  <2>2. ASSUME NEW fn \in {"set", "wlan", "enable"}, NEW k \in Keys, NEW v \in Settings,
               NEW items \in Params \cup {{}}, Start(p, fn, k, v, items)
        PROVE  Progress(edit'[p], file', temp')
    BY <2>2, LoneStart
  <2>3. CASE Open(p)
    BY <1>1, <2>3, LoneOpen
  <2>4. CASE Cat(p)
    BY <1>1, <2>4, LoneCat
  <2>5. CASE Read(p)
    BY <1>1, <2>5, LoneRead
  <2>6. CASE ReadEnds(p)
    BY <1>1, <2>6, LoneEnds
  <2>7. CASE Move(p)
    BY <1>1, <2>7, LoneMove
  <2>8. CASE AppendLine(p)
    BY <1>1, <2>8, LoneAppend
  <2>9. CASE Kill(p)
    <3>1. edit'[p] = NoEdit
      BY <2>9, NoEditType, SoundParts, StepsParts DEF Kill
    <3> QED BY <3>1, NoEditType DEF Exact
  <2> QED BY <1>2, <2>1, <2>2, <2>3, <2>4, <2>5, <2>6, <2>7, <2>8, <2>9 DEF WmdStepOf
<1>3. CASE UNCHANGED wmdVars
  BY <1>1, <1>3 DEF wmdVars
<1> QED BY <1>2, <1>3 DEF WmdNext, WmdStepOf

\* What an exact edit finds and leaves at any moment is a stage of it.
LEMMA ProgressIsStage ==
  ASSUME NEW e \in EditState, EditOK(e), Exact(e), NEW f \in Conf, NEW t, Progress(e, f, t)
  PROVE  f \in Stages(e)
<1>0. /\ e.pass \in {1, 2} /\ (e.pass = 2 => e.fn = "set") /\ ~Idle(e)
      /\ e.fn \in {"set", "wlan", "enable"}
      /\ e.pc \in {"idle", "open", "cat", "read", "move", "echo", "done"}
  BY ExactParts DEF EditState
<1>a. IF e.fn = "set" THEN e.key \in Globals ELSE e.key \in Wlans
  BY DEF EditOK, Exact
<1>b. New(e) \in Conf /\ Len(New(e)) \in 1 .. 5
  BY <1>a, NewType
<1>1. e.fn # "enable" => \A n \in 0 .. Len(New(e)) : Target(e) \o SubSeq(New(e), 1, n) \in Stages(e)
  BY DEF Stages, Target
<1>2. CASE e.pc # "echo"
  <2>1. f = Source(e)
    BY <1>0, <1>2 DEF Progress, Idle
  <2>2. CASE e.pass = 1
    BY <2>1, <2>2 DEF Source, Stages
  <2>3. CASE e.pass = 2
    <3>1. e.fn # "enable" /\ f = Target(e)
      BY <1>0, <2>1, <2>3 DEF Source, Target
    <3>2. SubSeq(New(e), 1, 0) = <<>> /\ Target(e) \o <<>> = Target(e)
      BY <3>1, SubSeqEmpty, ConcatEmptySeq DEF Conf
    <3>3. 0 \in 0 .. Len(New(e))
      BY <1>b
    <3>4. Target(e) \o SubSeq(New(e), 1, 0) \in Stages(e)
      BY <1>1, <3>1, <3>3
    <3> QED BY <3>1, <3>2, <3>4
  <2> QED BY <1>0, <2>2, <2>3
<1>3. CASE e.pc = "echo"
  <2>1. f = Target(e) \o SubSeq(New(e), 1, e.n)
    BY <1>3 DEF Progress
  <2>2. e.fn # "enable" /\ e.n < Len(New(e))
    BY <1>0, <1>3 DEF EditOK
  <2>3. e.n \in Nat
    BY DEF EditState
  <2>4. e.n \in 0 .. Len(New(e))
    BY <1>b, <2>2, <2>3
  <2> QED BY <1>1, <2>1, <2>2, <2>4
<1> QED BY <1>2, <1>3

LEMMA SameStages ==
  ASSUME NEW e, NEW f, Same(e, f)
  PROVE  Stages(f) = Stages(e)
<1>1. New(f) = New(e)
  BY SameParts
<1> QED BY <1>1 DEF Same, Stages

\* An exact edit that goes on alone with nothing broken stays exact.
LEMMA StaysExact ==
  ASSUME Sound, NEW p \in Procs, WmdStepOf(p), Exact(edit[p]), edit'[p].alone, ~edit'[p].broke
  PROVE  Same(edit[p], edit'[p]) /\ Exact(edit'[p])
<1> DEFINE e == edit[p]
<1>0. ~Idle(e)
  BY DEF Exact
<1>1. ASSUME NEW f \in EditState, edit'[p] = f, Same(e, f), ~Idle(f) PROVE Same(e, edit'[p]) /\ Exact(edit'[p])
  <2>1. f.broke = FALSE
    BY <1>1 DEF EditState
  <2> QED BY <1>1, <2>1 DEF Same, Exact
<1>2. ASSUME NEW f \in EditState, Steps(p, f) PROVE edit'[p] = f
  BY <1>2, SoundParts, StepsParts
<1>3. ASSUME NEW fn \in {"set", "wlan", "enable"}, NEW k \in Keys, NEW v \in Settings,
             NEW items \in Params \cup {{}}, Start(p, fn, k, v, items)
      PROVE  FALSE
  BY <1>0, <1>3 DEF Start
<1>4. CASE Open(p)
  BY <1>1, <1>2, <1>4, OpenMakes DEF Idle
<1>5. CASE Cat(p)
  BY <1>1, <1>2, <1>5, CatMakes DEF Idle
<1>6. CASE Read(p)
  BY <1>1, <1>2, <1>6, ReadMakes DEF Idle
<1>7. CASE ReadEnds(p)
  BY <1>1, <1>2, <1>7, EndsMakes DEF Idle
<1>8. CASE Move(p)
  <2>1. PICK f \in EditState :
          /\ Steps(p, f)
          /\ f.alone /\ f.broke = FALSE =>
               f.alone = FALSE \/ (Same(e, f) /\ (f.pc = "echo" \/ f.pc = "open"))
    BY <1>8, MoveMakes
  <2>2. edit'[p] = f /\ f.broke = FALSE /\ f.alone
    BY <1>2, <2>1 DEF EditState
  <2>3. Same(e, f) /\ ~Idle(f)
    BY <2>1, <2>2 DEF Idle
  <2> QED BY <1>1, <2>2, <2>3
<1>9. CASE AppendLine(p)
  <2>1. PICK f \in EditState :
          /\ Steps(p, f)
          /\ f.alone /\ f.broke = FALSE => f.alone = FALSE \/ (Same(e, f) /\ f.pc = "echo")
    BY <1>9, AppendMakes
  <2>2. edit'[p] = f /\ f.broke = FALSE /\ f.alone
    BY <1>2, <2>1 DEF EditState
  <2>3. Same(e, f) /\ ~Idle(f)
    BY <2>1, <2>2 DEF Idle
  <2> QED BY <1>1, <2>2, <2>3
<1>10. CASE Kill(p)
  <2>1. edit'[p] = NoEdit
    BY <1>2, <1>10, NoEditType DEF Kill
  <2> QED BY <2>1, NoEditType
<1> QED BY <1>3, <1>4, <1>5, <1>6, <1>7, <1>8, <1>9, <1>10 DEF WmdStepOf

\* An exact edit that ends as done has made what it was meant to.
LEMMA EndsExact ==
  ASSUME Sound, Lone, NEW p \in Procs, WmdStepOf(p), Exact(edit[p]), edit'[p].pc = "done"
  PROVE  file' = Meant(edit[p]) /\ file' \in Stages(edit[p])
<1> DEFINE e == edit[p]
<1>0. ~Idle(e) /\ Progress(e, file, temp) /\ e \in EditState /\ EditOK(e)
  BY SoundParts DEF Exact, Lone
<1>1. ASSUME NEW f \in EditState, Steps(p, f) PROVE edit'[p] = f
  BY <1>1, SoundParts, StepsParts
<1>2. ASSUME NEW fn \in {"set", "wlan", "enable"}, NEW k \in Keys, NEW v \in Settings,
             NEW items \in Params \cup {{}}, Start(p, fn, k, v, items)
      PROVE  FALSE
  BY <1>0, <1>2 DEF Start
<1>3. ~Open(p)
  BY <1>1, OpenMakes
<1>4. ~Cat(p)
  BY <1>1, CatMakes
<1>5. ~Read(p)
  BY <1>1, ReadMakes
<1>6. ~ReadEnds(p)
  BY <1>1, EndsMakes
<1>7. ~Kill(p)
  BY <1>1, NoEditType DEF Kill
<1>8. CASE Move(p)
  <2>1. file' = Target(e) /\ e.fn = "enable"
    BY <1>0, <1>8, LoneMove
  <2> QED BY <2>1 DEF Target, Meant, Stages
<1>9. CASE AppendLine(p)
  <2>1. /\ e.fn # "enable" /\ file' = Target(e) \o New(e)
        /\ e.n + 1 \in 0 .. Len(New(e)) /\ file' = Target(e) \o SubSeq(New(e), 1, e.n + 1)
    BY <1>0, <1>9, LoneAppend
  <2>2. Target(e) = Without(e.before, e.key)
    BY <2>1 DEF Target
  <2> HIDE DEF e
  <2> QED BY <2>1, <2>2 DEF Meant, Stages, e
<1> QED BY <1>2, <1>3, <1>4, <1>5, <1>6, <1>7, <1>8, <1>9 DEF WmdStepOf

\* What a lone edit leaves, at its end and at any moment before, for any number
\* of invocations, any configuration it began from and any parameters.
THEOREM LoneExact == WmdSpec => LoneEditIsExact
<1> DEFINE Held ==
      \A p \in Procs :
        LET e == edit[p] IN
        ( /\ e.alone /\ ~e.broke /\ (e.fn = "set" \/ (~e.stale /\ Whole(e.before)))
          /\ ~Idle(e) /\ (edit'[p].pc = "done" \/ (edit'[p].alone /\ ~edit'[p].broke)) )
        => /\ edit'[p].pc = "done" => file' = Meant(e)
           /\ file' \in Stages(e)
<1>1. Sound /\ Lone /\ [WmdNext]_wmdVars => [Held]_wmdVars
  <2> SUFFICES ASSUME Sound, Lone, WmdNext, NEW p \in Procs,
                      edit[p].alone, ~edit[p].broke,
                      edit[p].fn = "set" \/ (~edit[p].stale /\ Whole(edit[p].before)),
                      ~Idle(edit[p]), edit'[p].pc = "done" \/ (edit'[p].alone /\ ~edit'[p].broke)
               PROVE  /\ edit'[p].pc = "done" => file' = Meant(edit[p])
                      /\ file' \in Stages(edit[p])
    OBVIOUS
  <2>1. edit[p] \in EditState /\ edit[p].broke = FALSE
    BY SoundParts DEF EditState
  <2>2. Exact(edit[p])
    BY <2>1 DEF Exact
  <2>3. PICK q \in Procs : WmdStepOf(q)
    BY DEF WmdNext, WmdStepOf
  <2>4. q = p
    BY <2>3, OwnStep DEF Idle
  <2>5. CASE edit'[p].pc = "done"
    BY <2>2, <2>3, <2>4, <2>5, EndsExact
  <2>6. CASE edit'[p].pc # "done"
    <3>1. Same(edit[p], edit'[p]) /\ Exact(edit'[p])
      BY <2>2, <2>3, <2>4, <2>6, StaysExact
    <3>2. Progress(edit'[p], file', temp')
      <4>1. Lone'
        BY LoneStep
      <4> QED BY <3>1, <4>1 DEF Lone
    <3>3. edit'[p] \in EditState /\ EditOK(edit'[p]) /\ file' \in Conf
      <4>1. Sound'
        BY SoundStep
      <4> QED BY <4>1 DEF Sound, WmdTypeOK, EditState, EditOK, Idle, New, Item
    <3>4. file' \in Stages(edit'[p])
      BY <3>1, <3>2, <3>3, ProgressIsStage
    <3>5. Stages(edit'[p]) = Stages(edit[p])
      BY <3>1, SameStages
    <3> QED BY <2>6, <3>4, <3>5
  <2> QED BY <2>5, <2>6
<1>2. WmdInit => Sound /\ Lone
  BY SoundInit, LoneInit
<1>3. Sound /\ Lone /\ [WmdNext]_wmdVars => (Sound /\ Lone)'
  BY SoundStep, LoneStep
<1> QED BY <1>1, <1>2, <1>3, PTL DEF WmdSpec, LoneEditIsExact

-----------------------------------------------------------------------------
(* The tools together                                                       *)

\* In a behaviour of ToolsSpec each tool goes its own way: what is proved of a
\* tool holds of the whole.
THEOREM ToolsAreKept == ToolsSpec => Spec /\ CalSpec /\ WmdSpec
<1>1. ToolsInit => Init /\ CalInit /\ WmdInit
  BY DEF ToolsInit
<1>2. [ToolsNext]_<<tool, vars, calVars, wmdVars>> => [Next]_vars /\ [CalNext]_calVars /\ [WmdNext]_wmdVars
  BY DEF ToolsNext, VolStep, CalStep, WmdStep
<1> QED BY <1>1, <1>2, PTL DEF ToolsSpec, Spec, CalSpec, WmdSpec

\* The types of the three tools together.
THEOREM ToolsTypeCorrect == ToolsSpec => []ToolsTypeOK
<1>1. TypeOK /\ CalTypeOK /\ WmdTypeOK => ToolsTypeOK
  BY DEF ToolsTypeOK
<1> QED BY <1>1, ToolsAreKept, TypeCorrect, CalTypeCorrect, WmdTypeCorrect, PTL
=============================================================================
