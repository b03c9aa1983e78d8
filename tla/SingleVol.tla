------------------------------ MODULE SingleVol ------------------------------
(***************************************************************************)
(* The single image upgrade of upgrade_utils/files/vol_mgmt (functions     *)
(* upgrade_vol_...): each UBI volume is removed, created and written in    *)
(* place, only the root filesystem alternates between rootfs and rootfsB.  *)
(* The boot loader finds the root filesystem by the number of an mtd       *)
(* device, which the kernel gives to volumes in the order of their ids at  *)
(* boot and lowest free first at run time.  Every tool can fail, uboot_env *)
(* too, whose new environment is stored whole or not at all, and power can *)
(* go between any two of them.                                             *)
(***************************************************************************)
EXTENDS Naturals, Sequences, FiniteSets

CONSTANTS
  Images,        \* images, one part of which is the content of a volume
  Factory,       \* the image the device left the factory with
  Parts,         \* the parts a caller upgrades
  Offer          \* [Parts -> SUBSET Images], the images it upgrades them to

ASSUME ImageAssumption == Factory \in Images /\ Images \cap {"none", "empty", "torn"} = {}
ASSUME PartsAssumption == Parts \subseteq {"kernel", "bootcore", "rootfs", "firmware"}
                          /\ Offer \in [Parts -> SUBSET Images]

RootVol == {"rootfs", "rootfsB"}
Name == {"kernel", "bootcore", "firmware"} \cup RootVol
Content == Images \cup {"none", "empty", "torn"}

VARIABLES
  ubi,   \* [Name -> content, volume id, number of its mtd device (0: no volume)]
  env,   \* f_kernel_size, as the image it is the size of, and the number in rootfsmtd
  run,   \* is the device up, from which root volume, and is /firmware mounted
  job,   \* the running call of vol_mgmt
  last,  \* history: how the last call for each part ended
  gap    \* history: a volume was removed and the call could not make it again

vars == <<ubi, env, run, job, last, gap>>

\* "ok" and "silent" are calls that exited with 0.  A silent one has lost the
\* failure of uboot_env, or of create_vol for both root volumes; "failed" is
\* "exit 1" or a loss of power.
Ending == {"ok", "silent", "failed"}

Absent == [data |-> "none", id |-> 0, mtd |-> 0]
Volumes == {v \in Name : ubi[v].data # "none"}
LowestFree(from, used) ==
  CHOOSE n \in from .. from + Cardinality(Name) :
    n \notin used /\ \A k \in from .. n - 1 : k \in used

\* The mtd numbers after a boot.  The fixed partitions come before them.
Numbered ==
  [v \in Name |-> IF v \in Volumes
     THEN [ubi[v] EXCEPT !.mtd = Cardinality({w \in Volumes : ubi[w].id <= ubi[v].id})]
     ELSE Absent]

\* What the boot loader needs: a complete kernel whose size it knows, and a
\* complete root filesystem behind the number in rootfsmtd.
BootRoot == {v \in RootVol : Numbered[v].mtd = env.root /\ ubi[v].data \in Images}
Boots == ubi["kernel"].data = env.size /\ BootRoot # {}

PC == {"idle", "umount", "pick", "remove", "create", "update", "data", "size", "select", "blind"}
NoCall == [pc |-> "idle", part |-> "kernel", img |-> Factory, vol |-> "kernel", todo |-> <<>>,
           again |-> FALSE]

Goto(pc) == job' = [job EXCEPT !.pc = pc]
End(how) == job' = NoCall /\ last' = [last EXCEPT ![job.part] = how]

Init ==
  /\ ubi = [v \in Name |-> CASE v = "kernel"   -> [data |-> Factory, id |-> 0, mtd |-> 1]
                             [] v = "rootfs"   -> [data |-> Factory, id |-> 1, mtd |-> 2]
                             [] v = "firmware" -> [data |-> Factory, id |-> 2, mtd |-> 3]
                             [] OTHER -> Absent]
  /\ env = [size |-> Factory, root |-> 2]
  /\ run = [up |-> TRUE, root |-> "rootfs", fw |-> TRUE]
  /\ job = NoCall
  /\ last = [p \in Parts |-> "ok"]
  /\ gap = FALSE

\* A volume that is mounted can be neither removed nor updated.
Mounted(v) == v = run.root \/ (v = "firmware" /\ run.fw)

-----------------------------------------------------------------------------
(* The start of a call                                                      *)

\* The root volumes in the order "ls /sys/class/ubi/ubi0*" lists them.
RootList ==
  LET R == RootVol \cap Volumes IN
  IF R = RootVol
    THEN IF ubi["rootfs"].id < ubi["rootfsB"].id THEN <<"rootfs", "rootfsB">> ELSE <<"rootfsB", "rootfs">>
    ELSE IF "rootfs" \in R THEN <<"rootfs">> ELSE <<"rootfsB">>

\* "vol_mgmt upgrade_vol_stdin <part> <size>".  It is one again if an earlier
\* one has set rootfsmtd to another volume than the one the device runs from.
Call(p, img) ==
  /\ run.up /\ job.pc = "idle"
  /\ job' = [pc |-> CASE p = "firmware" -> "umount" [] p = "rootfs" -> "pick" [] OTHER -> "remove",
             part |-> p, img |-> img, vol |-> p, todo |-> IF p = "rootfs" THEN RootList ELSE <<>>,
             again |-> ubi[run.root].mtd # env.root]
  /\ UNCHANGED <<ubi, env, run, last, gap>>

\* umount /firmware, which fails while a file in it is open.
Umount ==
  /\ job.pc = "umount"
  /\ \E m \in {run.fw, FALSE} : run' = [run EXCEPT !.fw = m]
  /\ Goto("remove")
  /\ UNCHANGED <<ubi, env, last, gap>>

\* Mutation: rootfsmtd is set before the image is written.
PickSelects ==
  /\ job.pc = "pick"
  /\ job.todo # <<>>
  /\ LET other == IF Head(job.todo) = "rootfs" THEN "rootfsB" ELSE "rootfs" IN
     /\ job' = [job EXCEPT !.pc = "remove", !.todo = Tail(job.todo), !.vol = other]
     /\ env' = [env EXCEPT !.root = ubi[other].mtd]
  /\ UNCHANGED <<ubi, run, last, gap>>
\* The loop over the root volumes: for each one, the other is tried.
Pick ==
  /\ job.pc = "pick"
  /\ job.todo # <<>>
  /\ job' = [job EXCEPT !.pc = "remove", !.todo = Tail(job.todo),
                        !.vol = IF Head(job.todo) = "rootfs" THEN "rootfsB" ELSE "rootfs"]
  /\ UNCHANGED <<ubi, env, run, last, gap>>

\* No volume could be created: the function goes on with the last one tried.
PickNone ==
  /\ job.pc = "pick"
  /\ job.todo = <<>>
  /\ Goto("blind")
  /\ UNCHANGED <<ubi, env, run, last, gap>>

-----------------------------------------------------------------------------
(* remove_vol, create_vol, ubiupdatevol                                     *)

\* The status of remove_vol is not looked at.
Remove ==
  /\ job.pc = "remove"
  /\ \/ ~Mounted(job.vol) /\ ubi' = [ubi EXCEPT ![job.vol] = Absent]
     \/ UNCHANGED ubi
  /\ Goto("create")
  /\ UNCHANGED <<env, run, last, gap>>

\* Mutation: an id above those in use.
NewIdAbove == CHOOSE n \in 0 .. 5 : \A k \in n .. 5 : k \notin {ubi[v].id : v \in Volumes}
NewId == IF job.vol = "rootfs" /\ job.part = "rootfs" THEN 1
         ELSE LowestFree(0, {ubi[v].id : v \in Volumes})

\* Mutation: an mtd number above the highest in use.
CreateAbove ==
  /\ job.pc = "create"
  /\ job.vol \notin Volumes
  /\ ubi' = [ubi EXCEPT ![job.vol] = [data |-> "empty", id |-> NewId,
                mtd |-> CHOOSE m \in 1 .. 9 : \A k \in m .. 9 : k \notin {ubi[v].mtd : v \in Volumes}]]
  /\ Goto("update")
  /\ UNCHANGED <<env, run, last, gap>>
\* A volume of that name and one of that id must not exist.
Create ==
  /\ job.pc = "create"
  /\ job.vol \notin Volumes
  /\ NewId \notin {ubi[v].id : v \in Volumes}
  /\ ubi' = [ubi EXCEPT ![job.vol] = [data |-> "empty", id |-> NewId,
                                     mtd |-> LowestFree(1, {ubi[v].mtd : v \in Volumes})]]
  /\ Goto("update")
  /\ UNCHANGED <<env, run, last, gap>>

\* For one of these reasons or for want of space.  Only the loop over the root
\* volumes looks at the status of create_vol.
CreateFails ==
  /\ job.pc = "create"
  /\ Goto(IF job.part = "rootfs" THEN "pick" ELSE "update")
  /\ gap' = (gap \/ job.vol \notin Volumes)
  /\ UNCHANGED <<ubi, env, run, last>>

UpdateStart ==
  /\ job.pc = "update"
  /\ job.vol \in Volumes /\ ~Mounted(job.vol)
  /\ ubi' = [ubi EXCEPT ![job.vol].data = "torn"]
  /\ Goto("data")
  /\ UNCHANGED <<env, run, last, gap>>

\* Mutation: f_kernel_size is left as it was.
UpdateDoneNoSize ==
  /\ job.pc = "data"
  /\ ubi' = [ubi EXCEPT ![job.vol].data = job.img]
  /\ IF job.part = "rootfs" THEN Goto("select") /\ UNCHANGED last ELSE End("ok")
  /\ UNCHANGED <<env, run, gap>>
\* The image is in the volume.
UpdateDone ==
  /\ job.pc = "data"
  /\ ubi' = [ubi EXCEPT ![job.vol].data = job.img]
  /\ IF job.part \in {"kernel", "rootfs"}
       THEN Goto(IF job.part = "kernel" THEN "size" ELSE "select") /\ UNCHANGED last
       ELSE End("ok")
  /\ UNCHANGED <<env, run, gap>>

\* Mutation: the status of ubiupdatevol is not looked at.
UpdateFailsUntold ==
  /\ job.pc \in {"update", "data"}
  /\ End("ok")
  /\ UNCHANGED <<ubi, env, run, gap>>
\* No such volume, one that is too small or mounted, or broken data: "exit 1".
UpdateFails ==
  /\ job.pc \in {"update", "data"}
  /\ End("failed")
  /\ UNCHANGED <<ubi, env, run, gap>>

-----------------------------------------------------------------------------
(* The U-Boot environment                                                   *)

\* The status of uboot_env, the last command, is hidden by the dispatcher.
SetKernelSize ==
  /\ job.pc = "size"
  /\ \/ env' = [env EXCEPT !.size = job.img] /\ End("ok")
     \/ UNCHANGED env /\ End("silent")
  /\ UNCHANGED <<ubi, run, gap>>

\* rootfsmtd := /dev/mtdblock<n>, without a number when there is no such volume.
SelectRoot ==
  /\ job.pc \in {"select", "blind"}
  /\ \/ env' = [env EXCEPT !.root = ubi[job.vol].mtd] /\ End(IF job.pc = "blind" THEN "silent" ELSE "ok")
     \/ UNCHANGED env /\ End("silent")
  /\ UNCHANGED <<ubi, run, gap>>

-----------------------------------------------------------------------------
\* The running call has removed its volume and not made it again yet.
Removed == job.pc = "create" /\ job.vol \notin Volumes

\* A restart, asked for or forced by a loss of power at any moment.
Restart ==
  /\ run.up
  /\ ubi' = Numbered
  /\ IF Boots THEN \E v \in BootRoot : run' = [up |-> TRUE, root |-> v, fw |-> ubi["firmware"].data \in Images]
              ELSE run' = [run EXCEPT !.up = FALSE]
  /\ IF job.pc = "idle" THEN UNCHANGED <<job, last>> ELSE End("failed")
  /\ gap' = (gap \/ Removed)
  /\ UNCHANGED env

Next ==
  \/ \E p \in Parts : \E img \in Offer[p] : Call(p, img)
  \/ Umount \/ Pick \/ PickNone \/ Remove \/ Create \/ CreateFails
  \/ UpdateStart \/ UpdateDone \/ UpdateFails \/ SetKernelSize \/ SelectRoot
  \/ Restart

Spec == Init /\ [][Next]_vars

-----------------------------------------------------------------------------
(* Properties                                                               *)

\* The types of the state.
TypeOK ==
  /\ ubi \in [Name -> [data : Content, id : 0 .. 5, mtd : 0 .. 5]]
  /\ env \in [size : Images, root : 0 .. 5]
  /\ run \in [up : BOOLEAN, root : RootVol, fw : BOOLEAN]
  /\ job \in [pc : PC, part : Parts \cup {"kernel"}, img : Images, vol : Name, todo : Seq(RootVol),
             again : BOOLEAN]
  /\ last \in [Parts -> Ending]
  /\ gap \in BOOLEAN

\* The volumes the next boot takes: the root volume rootfsmtd names.
Selected == {v \in RootVol \cap Volumes : ubi[v].mtd = env.root}

\* The moments of a call at which a loss of power leaves a device that does not
\* boot.  A kernel is replaced in place.  A root file system is so only when it
\* is upgraded again before the device has run from the first upgrade; as long
\* as rootfsmtd names the volume the device runs from there is no such moment.
Window ==
  /\ job.pc # "idle"
  /\ \/ job.part = "kernel" /\ (Removed \/ job.pc \in {"update", "data", "size"})
     \/ /\ job.part = "rootfs" /\ job.again
        /\ Selected = {} \/ (job.pc \in {"update", "data"} /\ job.vol \in Selected)

\* The next boot gives every volume the mtd number it has now.
NumbersKept == ubi = Numbered

\* Outside these moments the device boots after a loss of power, whatever order
\* the parts were upgraded in, however often calls failed and were repeated, if
\* the last call for each part was good in the end.
LossSafe == run.up /\ ~Window /\ NumbersKept /\ (\A p \in Parts : last[p] = "ok") => Boots

\* The number of an mtd device that upgrade_vol_rootfs stores in rootfsmtd is
\* the one the next boot gives: it can only become another one when a call or
\* a loss of power has left a volume removed, and a later call takes its place.
NumbersStay == ~gap /\ ~Removed => NumbersKept

\* A call that exits with 0 has written the image to its volume and told the
\* boot loader of it, except one that lost the failure of uboot_env or could
\* create no root volume: these are all the failures that stay silent.
OkIsWritten ==
  [][job.pc # "idle" /\ job'.pc = "idle" /\ last'[job.part] = "ok" =>
       /\ ubi'[job.vol].data = job.img
       /\ job.part = "kernel" => env'.size = job.img
       /\ job.part = "rootfs" => env'.root = ubi'[job.vol].mtd]_vars
==============================================================================
