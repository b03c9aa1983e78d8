---------------------------- MODULE Calibration ----------------------------
(***************************************************************************)
(* The factory calibration data kept by read_calibration and               *)
(* update_calibration of upgrade_utils/files/vol_mgmt.  On NAND flash it   *)
(* is one archive that an update reads, erases and writes again through    *)
(* /tmp/_calibration; on eMMC it is a file system mounted there.  Hardly   *)
(* any status is looked at, so the model records which tools have failed.  *)
(***************************************************************************)
EXTENDS Naturals

CONSTANTS
  Names,   \* the calibration files
  Values,  \* their contents
  FactoryFile  \* the content they left the factory with

Lost == "lost"

ASSUME FileAssumption == Names # {} /\ FactoryFile \in Values /\ Lost \notin Values

VARIABLES
  kind,    \* the flash fetch_partition finds: "nand" or "emmc"
  flash,   \* [Names -> content], as a reader finds it
  left,    \* [Names -> contents]: what a loss of power may leave, while mounted
  dir,     \* [Names -> content], the files in the directory /tmp/_calibration
  mounted, \* is the eMMC partition mounted on /tmp/_calibration
  given,   \* the files of the last eMMC update that removed the old ones
  cal,     \* the running call
  faults   \* has a failure been harmful, and the tools failed in the running call

calVars == <<kind, flash, left, dir, mounted, given, cal, faults>>

Nothing == [n \in Names |-> Lost]
Settled == [n \in Names |-> {}]
Tools == {"mkdir", "nanddump", "untar", "cp", "cp_out", "flash_erase", "tar", "nandwrite", "mount",
          "mkfs", "umount", "power"}
CalPC == {"idle", "dump", "add", "erase", "tar", "write", "mount", "mkfs", "fetch", "check", "clear",
          "fill", "umount", "clean"}
NoCalCall == [pc |-> "idle", fn |-> "read", have |-> {}, val |-> FactoryFile, remove |-> FALSE,
              made |-> TRUE, ret |-> 0]

\* What is left of a content when its transfer breaks off.
Rest(f) == {g \in [Names -> Values \cup {Lost}] : \A n \in Names : g[n] \in {f[n], Lost}}

CalTo(pc, r) == cal' = [cal EXCEPT !.pc = pc, !.ret = r]
CalGoto(pc) == CalTo(pc, cal.ret)
Return(r) == CalTo("idle", r)

\* The failures that can lose calibration data; all others cannot.  A power loss
\* is among them where the data is only in memory.
Harmful == IF cal.fn = "read" THEN {"umount"}
           ELSE IF kind = "nand" THEN {"nanddump", "untar", "cp", "flash_erase", "tar", "nandwrite", "power"}
           ELSE {"mount", "umount", "cp", "power"}
Broke(tool) == faults' = [harm |-> faults.harm \/ tool \in Harmful, now |-> faults.now \cup {tool}]

CalInit ==
  /\ kind \in {"nand", "emmc"}
  /\ flash = [n \in Names |-> FactoryFile] /\ left = Settled
  /\ dir = Nothing /\ mounted = FALSE /\ given = Names
  /\ cal = NoCalCall
  /\ faults = [harm |-> FALSE, now |-> {}]

-----------------------------------------------------------------------------
(* The directory                                                            *)

\* The mounted file system is changed to f, in the page cache: any of the
\* contents since the mount may be the one on the medium.
Cached(f) == flash' = f /\ left' = [n \in Names |-> left[n] \cup {f[n]}]

\* rm -rf /tmp/_calibration removes what is mounted there, too.
RemoveDir ==
  /\ dir' = Nothing
  /\ IF mounted THEN Cached(Nothing) ELSE UNCHANGED <<flash, left>>

\* fetch_partition finds no flash, or the archive in /tmp/remove_cal_files
\* cannot be unpacked.
Refuse(fn) ==
  /\ cal.pc = "idle"
  /\ cal' = [NoCalCall EXCEPT !.fn = fn, !.ret = 1]
  /\ faults' = [faults EXCEPT !.now = {}]
  /\ UNCHANGED <<kind, flash, left, dir, mounted, given>>

\* The start of both functions: the directory is removed and made again; when
\* mkdir fails there is none to enter or to mount on, and nobody looks.  The
\* caller has one file for NAND flash and any number for eMMC, its own in
\* /tmp/$1 or ("remove") those of the archive.
CalCall(fn, have, v, remove) ==
  /\ cal.pc = "idle"
  /\ kind = "nand" \/ fn = "read" => ~remove /\ \E n \in Names : have = {n}
  /\ \E made \in BOOLEAN :
       /\ mounted => made
       /\ cal' = [pc |-> IF kind = "nand" THEN "dump" ELSE "mount", fn |-> fn, have |-> have, val |-> v,
                  remove |-> remove, made |-> made, ret |-> 0]
       /\ faults' = IF made THEN [faults EXCEPT !.now = {}]
                    ELSE [harm |-> faults.harm \/ fn = "update", now |-> {"mkdir"}]
  /\ RemoveDir
  /\ UNCHANGED <<kind, mounted, given>>

\* The last command: rm -rf again, whose failure on a file system still mounted
\* only read_calibration returns.
Clean ==
  /\ cal.pc = "clean"
  /\ RemoveDir
  /\ Return(IF cal.fn = "read" /\ mounted THEN 1 ELSE cal.ret)
  /\ UNCHANGED <<kind, mounted, given, faults>>

-----------------------------------------------------------------------------
(* NAND flash                                                               *)

\* cd && { nanddump; tar x }: read_calibration hands out the file it asked for.
Dump ==
  /\ cal.pc = "dump"
  /\ \/ cal.made /\ dir' = flash /\ UNCHANGED faults
     \/ cal.made /\ dir' \in Rest(flash) /\ \E t \in {"nanddump", "untar"} : Broke(t)
     \/ ~cal.made /\ UNCHANGED <<dir, faults>>
  /\ IF cal.fn = "update" THEN CalGoto("add") ELSE Return(0)
  /\ UNCHANGED <<kind, flash, left, mounted, given>>

\* cp of the new file into the directory; one that breaks off has truncated the
\* old file.
Add ==
  /\ cal.pc = "add"
  /\ \/ cal.made /\ dir' = [n \in Names |-> IF n \in cal.have THEN cal.val ELSE dir[n]] /\ UNCHANGED faults
     \/ cal.made /\ dir' = [n \in Names |-> IF n \in cal.have THEN Lost ELSE dir[n]] /\ Broke("cp")
     \/ UNCHANGED dir /\ Broke("cp")
  /\ CalGoto("erase")
  /\ UNCHANGED <<kind, flash, left, mounted, given>>

\* flash_erase, whose status is not looked at.
Erase ==
  /\ cal.pc = "erase"
  /\ \/ flash' = Nothing /\ UNCHANGED faults
     \/ flash' \in Rest(flash) /\ Broke("flash_erase")
  /\ CalGoto("tar")
  /\ UNCHANGED <<kind, left, dir, mounted, given>>

\* cd && { tar c: from here on dir is what the archive in it holds.
Tar ==
  /\ cal.pc = "tar"
  /\ \/ cal.made /\ CalGoto("write") /\ UNCHANGED <<dir, faults>>
     \/ cal.made /\ CalGoto("write") /\ dir' \in Rest(dir) /\ Broke("tar")
     \/ ~cal.made /\ CalGoto("clean") /\ UNCHANGED <<dir, faults>>
  /\ UNCHANGED <<kind, flash, left, mounted, given>>

\* Mutation: the archive holds the new file only.
WriteOne ==
  /\ cal.pc = "write"
  /\ flash' = [n \in Names |-> IF n \in cal.have THEN dir[n] ELSE Lost]
  /\ CalGoto("clean")
  /\ UNCHANGED <<kind, left, dir, mounted, given, faults>>
\* nandwrite of the archive.  A failure is printed and 0 returned; what is
\* written over flash that is not erased cannot be read back.
Write ==
  /\ cal.pc = "write"
  /\ \/ flash' = (IF flash = Nothing THEN dir ELSE Nothing) /\ UNCHANGED faults
     \/ flash' \in Rest(dir) /\ Broke("nandwrite")
  /\ CalGoto("clean")
  /\ UNCHANGED <<kind, left, dir, mounted, given>>

-----------------------------------------------------------------------------
(* eMMC                                                                     *)

\* The partition is mounted, with all it holds on the medium.
Attach == ~mounted /\ cal.made /\ mounted' = TRUE /\ left' = [n \in Names |-> {flash'[n]}]

\* mount, which fails when the partition is mounted there already.
Mount ==
  /\ cal.pc = "mount"
  /\ UNCHANGED flash
  /\ \/ Attach /\ CalGoto(IF cal.fn = "update" THEN "check" ELSE "fetch") /\ UNCHANGED faults
     \/ /\ Broke("mount")
        /\ IF cal.fn = "update" THEN CalGoto("mkfs") ELSE CalTo("clean", 1)
        /\ UNCHANGED <<mounted, left>>
  /\ UNCHANGED <<kind, dir, given>>

\* Mutation: the failure of the second mount is not returned.
MkfsUntold ==
  /\ cal.pc = "mkfs"
  /\ ~mounted /\ flash' = Nothing
  /\ (Attach /\ CalGoto("check")) \/ (UNCHANGED <<mounted, left>> /\ Return(0))
  /\ UNCHANGED <<kind, dir, given, faults>>
\* An update that cannot mount the partition formats it, which fails on a
\* mounted one, and mounts it again.
Mkfs ==
  /\ cal.pc = "mkfs"
  /\ \/ /\ ~mounted /\ flash' = Nothing
        /\ (Attach /\ CalGoto("check")) \/ (UNCHANGED <<mounted, left>> /\ Return(1))
        /\ UNCHANGED faults
     \/ UNCHANGED <<flash, left, mounted>> /\ Return(1) /\ Broke("mkfs")
  /\ UNCHANGED <<kind, dir, given>>

\* read_calibration copies the files out.
Fetch ==
  /\ cal.pc = "fetch"
  /\ \/ CalGoto("umount") /\ UNCHANGED faults
     \/ CalTo("umount", 1) /\ Broke("cp_out")
  /\ UNCHANGED <<kind, flash, left, dir, mounted, given>>

\* update_calibration returns 1 when the caller left no files for it; an
\* unpacked archive without any is not noticed.
Check ==
  /\ cal.pc = "check"
  /\ IF cal.have = {} /\ ~cal.remove THEN CalTo("umount", 1)
                                     ELSE CalGoto("clear")
  /\ UNCHANGED <<kind, flash, left, dir, mounted, given, faults>>

\* rm of all old files, the ones the caller has no new ones for included.
Clear ==
  /\ cal.pc = "clear"
  /\ Cached(Nothing)
  /\ given' = cal.have
  /\ CalGoto("fill")
  /\ UNCHANGED <<kind, dir, mounted, faults>>

\* cp of the new ones, "Written" whatever its status; with none it fails.
Fill ==
  /\ cal.pc = "fill"
  /\ LET new == [n \in Names |-> IF n \in cal.have THEN cal.val ELSE Lost] IN
     \/ cal.have # {} /\ Cached(new) /\ UNCHANGED faults
     \/ (\E f \in Rest(new) : Cached(f)) /\ Broke("cp")
  /\ CalGoto("umount")
  /\ UNCHANGED <<kind, dir, mounted, given>>

\* umount, which writes everything to the medium and fails while a file is open.
UmountFlash ==
  /\ cal.pc = "umount"
  /\ \/ mounted' = FALSE /\ left' = Settled /\ UNCHANGED faults
     \/ UNCHANGED <<mounted, left>> /\ Broke("umount")
  /\ CalGoto("clean")
  /\ UNCHANGED <<kind, flash, dir, given>>

-----------------------------------------------------------------------------
\* The data is not on the medium: from flash_erase to nandwrite, from rm to umount.
InMemory ==
  \/ cal.pc \in {"tar", "write", "fill"}
  \/ cal.pc = "umount" /\ cal.fn = "update" /\ cal.ret = 0

\* Power is lost: /tmp is in memory, and so is what was written to a mounted
\* file system.
PowerLoss ==
  /\ ~(cal.pc = "idle" /\ ~mounted)
  /\ IF mounted THEN flash' \in [Names -> Values \cup {Lost}] /\ \A n \in Names : flash'[n] \in left[n]
                ELSE UNCHANGED flash
  /\ dir' = Nothing /\ mounted' = FALSE /\ left' = Settled
  /\ Return(2)
  /\ IF InMemory THEN Broke("power") ELSE UNCHANGED faults
  /\ UNCHANGED <<kind, given>>

CalNext ==
  \/ \E fn \in {"read", "update"} : Refuse(fn)
  \/ \E fn \in {"read", "update"}, have \in SUBSET Names, v \in Values, remove \in BOOLEAN :
       CalCall(fn, have, v, remove)
  \/ Dump \/ Add \/ Erase \/ Tar \/ Write
  \/ Mount \/ Mkfs \/ Fetch \/ Check \/ Clear \/ Fill \/ UmountFlash
  \/ Clean \/ PowerLoss

CalSpec == CalInit /\ [][CalNext]_calVars

-----------------------------------------------------------------------------
(* Properties                                                               *)

\* The types of the state.
CalTypeOK ==
  /\ kind \in {"nand", "emmc"}
  /\ flash \in [Names -> Values \cup {Lost}] /\ dir \in [Names -> Values \cup {Lost}]
  /\ left \in [Names -> SUBSET (Values \cup {Lost})]
  /\ mounted \in BOOLEAN /\ given \in SUBSET Names
  /\ cal \in [pc : CalPC, fn : {"read", "update"}, have : SUBSET Names, val : Values, remove : BOOLEAN,
              made : BOOLEAN, ret : 0 .. 2]
  /\ faults \in [harm : BOOLEAN, now : SUBSET Tools]

\* Without a harmful failure no file is lost, the ones that are not being updated
\* included, but for the moments it is in memory.  An eMMC update keeps only the
\* files its caller had: the others are not claimed.
CalibrationKept == ~faults.harm /\ ~InMemory => \A n \in given : flash[n] # Lost

\* The tools whose failure update_calibration does not return and that can leave
\* it without the new file.
Unlooked == {"mkdir", "cp", "flash_erase", "tar", "nandwrite", "umount"}

\* An update that returns 0 has stored the files it was given, whatever went
\* wrong in earlier calls, or one of those tools has failed in this one.
OkIsNew ==
  [][cal.fn = "update" /\ cal.pc # "idle" /\ cal'.pc = "idle" /\ cal'.ret = 0
       => \/ \A n \in cal.have : flash'[n] = cal.val
          \/ faults.now \cap Unlooked # {}]_calVars
==============================================================================
