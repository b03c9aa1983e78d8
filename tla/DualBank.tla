------------------------------ MODULE DualBank ------------------------------
(***************************************************************************)
(* The dual image upgrade of upgrade_utils/files/vol_mgmt                  *)
(* (functions upgrade_dualvol_...), driven by a session secure_upgrade.sh *)
(* starts and whose image parser (secupg, or the older "upgrade" utility)  *)
(* is external.  Flash volumes, the U-Boot environment and the kernel      *)
(* command line persist as the hardware keeps them; every external tool    *)
(* (ubirmvol, ubimkvol, ubiupdatevol, uboot_env) is one step that can fail,*)
(* and power can go between any two steps.                                 *)
(***************************************************************************)
EXTENDS Naturals, Sequences

CONSTANTS
  Sessions,    \* upgrade sessions that may run side by side (nothing locks)
  Images,      \* firmware images
  Factory,     \* the image the device left the factory with
  PartOrder,   \* the parts of an image in the order a session writes them
  EnvFails     \* the variables "uboot_env --set" can fail to store

ASSUME FactoryAssumption == Factory \in Images
ASSUME EnvAssumption == EnvFails \subseteq {"f_kernel_size", "active_bank", "update_chk"}

Bank == {"A", "B"}
Part == {"kernel", "bootcore", "rootfs", "firmware"}

ASSUME PartsAssumption == PartOrder \in Seq(Part)

\* A volume does not exist, exists without data, holds a broken update, or
\* holds one part of an image.
NoData == {"none", "empty", "torn"}
ASSUME ImagesAssumption == Images \cap NoData = {}
Content == NoData \cup Images

VARIABLES
  vol,       \* [Bank -> [Part -> Content]]: the UBI volumes <part><bank>
  env,       \* the U-Boot environment: active_bank, update_chk, f_kernel_size<bank>
  cmdline,   \* active_bank= on the kernel command line of the running system
  job        \* [Sessions -> the state of a session's script]

vars == <<vol, env, cmdline, job>>

Idle == [pc |-> "idle", img |-> Factory, todo |-> <<>>, bank |-> "A"]

PC == {"idle", "validate", "call", "remove", "create", "update", "data",
       "size", "active", "chk", "next", "reboot"}

(***************************************************************************)
(* active_bank as every upgrade_dualvol function reads it: "A" if the    *)
(* command line says A, otherwise B; and the bank that is written instead. *)
(***************************************************************************)
ActiveBank == IF cmdline = "A" THEN "A" ELSE "B"
\* Mutation: the bank is taken from the U-Boot environment, as the commented
\* out lines of the functions still show, and not from the running system.
NewActiveFromEnv == IF env.active = "A" THEN "B" ELSE "A"
NewActive == IF ActiveBank = "A" THEN "B" ELSE "A"

Written(b, p) == vol[b][p] \in Images
Bootable(b) == Written(b, "kernel") /\ Written(b, "rootfs")

CurPart(s) == Head(job[s].todo)

\* ubiupdatevol opens its volume exclusively: while one session streams data
\* into a volume, nobody else can remove it or open it for an update.
Busy(b, p) == \E s \in Sessions : job[s].pc = "data" /\ job[s].bank = b /\ CurPart(s) = p

Goto(s, pc) == job' = [job EXCEPT ![s].pc = pc]

Init ==
  /\ vol = [b \in Bank |-> [p \in Part |-> IF b = "A" THEN Factory ELSE "none"]]
  /\ env = [active |-> "A", chk |-> 0, size |-> [b \in Bank |-> IF b = "A" THEN {Factory} ELSE {}]]
  /\ cmdline = "A"
  /\ job = [s \in Sessions |-> Idle]

-----------------------------------------------------------------------------
(* secure_upgrade.sh and the external image parser                          *)

\* "secupg -u IMG": a session starts on a system that is up and running.
StartSession(s, img) ==
  /\ job[s].pc = "idle"
  /\ Bootable(cmdline)
  /\ job' = [job EXCEPT ![s] = [Idle EXCEPT !.pc = "validate", !.img = img, !.todo = PartOrder]]
  /\ UNCHANGED <<vol, env, cmdline>>

\* Status 1: the image is not valid; the script ends and does not restart.
ValidationFails(s) ==
  /\ job[s].pc = "validate"
  /\ job' = [job EXCEPT ![s] = Idle]
  /\ UNCHANGED <<vol, env, cmdline>>

ValidationPasses(s) ==
  /\ job[s].pc = "validate"
  /\ Goto(s, "call")
  /\ UNCHANGED <<vol, env, cmdline>>

\* One call of "vol_mgmt upgrade_dualvol_stdin <part> <size>": the bank is
\* computed from /proc/cmdline at the start of each call.
CallPart(s) ==
  /\ job[s].pc = "call"
  /\ job[s].todo # <<>>
  /\ job' = [job EXCEPT ![s].pc = "remove", ![s].bank = NewActive]
  /\ UNCHANGED <<vol, env, cmdline>>

\* vol_mgmt ends with "$volcmd $@ || >&-": whatever the function returned,
\* the caller sees status 0 and goes on with the next part.
ReturnFromPart(s) ==
  /\ job[s].pc = "next"
  /\ job' = [job EXCEPT ![s].pc = "call", ![s].todo = Tail(job[s].todo)]
  /\ UNCHANGED <<vol, env, cmdline>>

\* Status 0, "SYSTEM UPGRADE Completed... Going for Reboot": ubus is asked
\* to restart the system in the background and the script exits.
CompleteSession(s) ==
  /\ job[s].pc = "call"
  /\ job[s].todo = <<>>
  /\ Goto(s, "reboot")
  /\ UNCHANGED <<vol, env, cmdline>>

\* Any other status, "Flash Write Failed... Going for Reboot".
AbandonSession(s) ==
  /\ job[s].pc = "call"
  /\ job[s].todo # <<>>
  /\ Goto(s, "reboot")
  /\ UNCHANGED <<vol, env, cmdline>>

-----------------------------------------------------------------------------
(* write_vol_stdin: remove, create, look up, update                          *)

\* The outcome of remove_vol is not looked at.
RemoveVol(s) ==
  /\ job[s].pc = "remove"
  /\ \/ ~Busy(job[s].bank, CurPart(s)) /\ vol' = [vol EXCEPT ![job[s].bank][CurPart(s)] = "none"]
     \/ UNCHANGED vol
  /\ Goto(s, "create")
  /\ UNCHANGED <<env, cmdline>>

\* create_vol fails when the volume is still there or the device is full;
\* that is not looked at either.
CreateVol(s) ==
  /\ job[s].pc = "create"
  /\ \/ /\ vol[job[s].bank][CurPart(s)] = "none"
        /\ vol' = [vol EXCEPT ![job[s].bank][CurPart(s)] = "empty"]
     \/ UNCHANGED vol
  /\ Goto(s, "update")
  /\ UNCHANGED <<env, cmdline>>

\* ubiupdatevol opens the volume it found and marks it as being updated.
UpdateStart(s) ==
  /\ job[s].pc = "update"
  /\ vol[job[s].bank][CurPart(s)] # "none"
  /\ ~Busy(job[s].bank, CurPart(s))
  /\ vol' = [vol EXCEPT ![job[s].bank][CurPart(s)] = "torn"]
  /\ Goto(s, "data")
  /\ UNCHANGED <<env, cmdline>>

\* No such volume, a volume that is busy or one that is too small.
UpdateRefused(s) ==
  /\ job[s].pc = "update"
  /\ Goto(s, "next")
  /\ UNCHANGED <<vol, env, cmdline>>

\* "[ $? -eq 0 ] &&": only a complete kernel or bootcore goes on to the
\* environment; rootfs and firmware end with the volume.
\* Mutation: the size of the kernel is not stored before the switch.
UpdateDoneNoSize(s) ==
  /\ job[s].pc = "data"
  /\ vol' = [vol EXCEPT ![job[s].bank][CurPart(s)] = job[s].img]
  /\ Goto(s, IF CurPart(s) \in {"kernel", "bootcore"} THEN "active" ELSE "next")
  /\ UNCHANGED <<env, cmdline>>
UpdateDone(s) ==
  /\ job[s].pc = "data"
  /\ vol' = [vol EXCEPT ![job[s].bank][CurPart(s)] = job[s].img]
  /\ job' = [job EXCEPT ![s].pc = CASE CurPart(s) = "kernel" -> "size"
                                     [] CurPart(s) = "bootcore" -> "active"
                                     [] OTHER -> "next"]
  /\ UNCHANGED <<env, cmdline>>

\* Mutation: the status of ubiupdatevol is not looked at.
UpdateBreaksUnnoticed(s) ==
  /\ job[s].pc = "data"
  /\ Goto(s, IF CurPart(s) \in {"kernel", "bootcore"} THEN "active" ELSE "next")
  /\ UNCHANGED <<vol, env, cmdline>>
UpdateBreaks(s) ==
  /\ job[s].pc = "data"
  /\ Goto(s, "next")
  /\ UNCHANGED <<vol, env, cmdline>>

-----------------------------------------------------------------------------
(* The switch of bank: three writes of the U-Boot environment, in order      *)

SetKernelSize(s) ==
  /\ job[s].pc = "size"
  /\ \/ env' = [env EXCEPT !.size[job[s].bank] = {job[s].img}]
     \/ "f_kernel_size" \in EnvFails /\ UNCHANGED env
  /\ Goto(s, "active")
  /\ UNCHANGED <<vol, cmdline>>

SetActiveBank(s) ==
  /\ job[s].pc = "active"
  /\ \/ env' = [env EXCEPT !.active = job[s].bank]
     \/ "active_bank" \in EnvFails /\ UNCHANGED env
  /\ Goto(s, "chk")
  /\ UNCHANGED <<vol, cmdline>>

\* Mutation: update_chk gets a value the boot loader does not know.
SetUpdateChkWrong(s) ==
  /\ job[s].pc = "chk"
  /\ env' = [env EXCEPT !.chk = IF job[s].bank = "B" THEN 1 ELSE 2]
  /\ Goto(s, "next")
  /\ UNCHANGED <<vol, cmdline>>
SetUpdateChk(s) ==
  /\ job[s].pc = "chk"
  /\ \/ env' = [env EXCEPT !.chk = IF job[s].bank = "B" THEN 1 ELSE 3]
     \/ "update_chk" \in EnvFails /\ UNCHANGED env
  /\ Goto(s, "next")
  /\ UNCHANGED <<vol, cmdline>>

-----------------------------------------------------------------------------
(* Restart: asked for by a session that ended, or a loss of power anywhere.  *)
(* The boot loader, external, starts the bank active_bank names; when that   *)
(* one does not come up it may end in either.                                *)
Restart ==
  /\ cmdline' = env.active \/ (~Bootable(env.active) /\ cmdline' \in Bank)
  /\ job' = [s \in Sessions |-> Idle]
  /\ UNCHANGED <<vol, env>>

SessionStep(s) ==
  \/ \E img \in Images : StartSession(s, img)
  \/ ValidationFails(s) \/ ValidationPasses(s)
  \/ CallPart(s) \/ ReturnFromPart(s) \/ CompleteSession(s) \/ AbandonSession(s)
  \/ RemoveVol(s) \/ CreateVol(s)
  \/ UpdateStart(s) \/ UpdateRefused(s) \/ UpdateDone(s) \/ UpdateBreaks(s)
  \/ SetKernelSize(s) \/ SetActiveBank(s) \/ SetUpdateChk(s)

Next == (\E s \in Sessions : SessionStep(s)) \/ Restart

Spec == Init /\ [][Next]_vars

-----------------------------------------------------------------------------
(* Properties                                                                *)

TypeOK ==
  /\ vol \in [Bank -> [Part -> Content]]
  /\ env \in [active : Bank, chk : {0, 1, 3}, size : [Bank -> SUBSET Images]]
  /\ cmdline \in Bank
  /\ job \in [Sessions -> [pc : PC, img : Images, todo : Seq(Part), bank : Bank]]

\* Whatever sessions are cut short, fail, run side by side or are repeated
\* without a restart, one bank always holds a complete kernel and a complete
\* root filesystem: the reason upgrade_dualvol_... take the bank to write from
\* /proc/cmdline and not from the environment they have already switched.
OneBankBootable == \E b \in Bank : Bootable(b)

\* A session runs only on a system that came up, and every call writes the
\* bank that system does not run from.
SessionsSpareRunningBank ==
  \A s \in Sessions : job[s].pc # "idle" =>
    /\ Bootable(cmdline)
    /\ job[s].pc \notin {"validate", "call", "reboot"} => job[s].bank # cmdline
                                                     /\ job[s].todo # <<>>

\* No step of upgrade_dualvol_... ever changes a volume of the running bank.
RunningBankUntouched == [][vol'[cmdline] = vol[cmdline]]_vars

\* No other session works on the volumes or the environment, or has done so
\* since the last restart: one that has ended at "reboot" may have written the
\* same volume while s was at work.
Alone(s) == \A t \in Sessions \ {s} : job[t].pc \in {"idle", "validate"}

\* active_bank moves only to the bank a session wrote a kernel or bootcore to,
\* and, unless another session runs beside it, only when that part is complete
\* ("[ $? -eq 0 ] &&" in front of the uboot_env calls), even when sessions
\* were cut short by a restart before.
SwitchOnlyToWritten ==
  [][env'.active # env.active =>
       \E s \in Sessions : /\ job[s].pc = "active" /\ job[s].bank = env'.active
                           /\ CurPart(s) \in {"kernel", "bootcore"}
                           /\ Alone(s) => vol[env'.active][CurPart(s)] = job[s].img]_vars

\* When a kernel that was written moves active_bank and no other session is at
\* work, f_kernel_size of the new bank already is the size of the kernel the
\* boot loader is going to load from it, if storing that variable does not
\* fail: the order of the uboot_env calls in upgrade_dualvol_kernel.
KernelSizeBeforeSwitch ==
  [][env'.active # env.active =>
       \A s \in Sessions : job[s].pc = "active" /\ job'[s].pc = "chk" /\ CurPart(s) = "kernel" /\ Alone(s) =>
         env'.size[env'.active] = {vol[env'.active]["kernel"]}]_vars

\* "SYSTEM UPGRADE Completed... Going for Reboot" (secure_upgrade.sh): when a
\* session ends that way, the bank active_bank names, which the restart it asks
\* for is to start, has a complete kernel and root filesystem.
CompletedMeansBootable ==
  \A s \in Sessions : (job[s].pc = "reboot" /\ job[s].todo = <<>>) => Bootable(env.active)

\* The volumes seen as two slots, one of them in use.
Slot == INSTANCE ABSlots WITH Slots <- Bank,
                              usable <- {b \in Bank : Bootable(b)},
                              current <- cmdline

\* The upgrade implements the promise of a dual image system.
ImplementsSlots == Slot!Spec
=============================================================================
