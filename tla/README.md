# TLA+ verification of feed_mxl_utils

feed_mxl_utils is the utility feed of a MaxLinear router firmware: shell scripts and C programs around
the flash volumes, the Ethernet PHYs (GPY2xx), MACsec, power management, accounting and secure storage.
This directory holds models of the parts that carry logic of their own, the TLC configurations that
check them on small instances and proofs that TLAPS checks for every instance.

Paths below are relative to `src/`; `api/` stands for `gphy_fw_update/src/src/api/`.

## Inventory

| component | state | operations | talks to |
|---|---|---|---|
| dual image upgrade (`upgrade_utils/files/vol_mgmt`, `secure_upgrade.sh`) | UBI volumes of two banks, U-Boot environment | write a part of an image from stdin, switch the bank, end a session | `secupg` (calls vol_mgmt per part), UBI tools, `uboot_env`, boot loader |
| single image upgrade, calibration data (`vol_mgmt`) | UBI volumes, U-Boot environment, calibration partition | replace kernel or root file system, update and read calibration | flash and MTD tools |
| PHY register mailbox (`api/phy/gpy211_phy.c`, `inc/gpy211_common.h`) | six MDIO registers shared with the PHY firmware, `phy->lock` | read, write, modify 16 or 32 bits | every register of the MAC and MACsec blocks goes through it |
| PHY link (`api/phy/gpy211_phy.c`) | `phy->link`, advertisement and control registers | init, negotiate, force, restart, read the status, reset | link partner, application |
| PHY firmware upgrade (`zzgphy_fw_update.sh`, `utility/fmx/gpy2xx_fw_dl.c`, `gpy2xx_fw_*`) | mode and flash of the PHY, file | compare versions, erase, send pages, reset | PHY boot ROM, over raw MDIO |
| MACsec associations (`api/macsec/gpy211_macsec.c`) | transform records, rules, actions, enable bits, in-flight counter, packet numbers | program, enable, disable, clear, read the packet number | mailbox, packets in the engine, example driver |
| MACsec example driver (`example/macsec_driver`) | lists of channels and associations | netlink operations | MACsec API |
| PTP clock (`api/phy/gpy211_chip.c`) | four update registers and a request bit per function | set and adjust the time, poll until the PHY has taken it | mailbox, `phy->lock` |
| rest of the PHY, chip and MACsec API | registers only | SGMII, diagnosis, loopback, WoL, GPIO, LED, timestamps, statistics | mailbox, `phy->lock`, each other |
| PHY command line tools (`utility/fmx_auto`, `utility/pc`) | none | one API call per command | PHY API |
| WAN metering control (`upgrade_utils/files/wmdctrl.sh`) | configuration file | edit it, signal the daemon | wmd |
| power management (`ppmd`, `pm_util`), `sgam`, `seccrypto_service_app`, `memutil`, `cap_provide`, `speedtest` | none of their own | command lines and scripts for kernel modules, services and daemons outside the repository | those |

What is hard in it, with the lines where it bites, is in the `hazards` of `PROJECT.json`. In short:

* **loss of power and failing tools** between the steps of an upgrade, none of which is atomic and some
  of whose results nobody looks at;
* **several threads or sessions** on one mailbox, one `phy->link`, one pair of banks;
* **an error in the middle** of a multi-register operation, and error paths that lose the error or the lock;
* **hardware that goes on by itself**: the PHY firmware erases and programs while the host polls with a
  bounded counter, packets pass while a MACsec record is replaced, packet numbers count while they are read;
* **long sequences of legal calls** (force, then negotiate again what was negotiated before; upgrade, fail,
  upgrade again without a restart, when volume and mtd numbers have moved).

What makes a component correct: an upgrade never loses the last bootable system; a mailbox call is atomic;
a download reports success only for a whole image; a record is erased only when no packet uses it; a lock is
given back by whoever takes it; a file that is not being updated survives the update of its neighbour; a call
that returns 0 has done what its header says. Where the code does not keep such a promise the property names
the exceptions, and no others.

## Modules

| module | models | checked by | proofs |
|---|---|---|---|
| `ABSlots` | what a dual image system promises: a slot in use is left alone while it is usable | | |
| `DualBank` | `upgrade_dualvol_*`, `write_vol_stdin` and `secure_upgrade.sh`; implements `ABSlots` | `dual_two`, `dual_completed` | `DualBank_proof` |
| `SingleVol` | `upgrade_vol_kernel`, `_bootcore`, `_rootfs`, `_firmware`, `remove_vol`, `create_vol`, UBI numbering | `tools` | `SingleVol_proof` |
| `Calibration` | `read_calibration`, `update_calibration` on NAND and eMMC | `tools` | `VolTools_proof` |
| `WmdConf` | the edits of `wmdctrl.sh` | `tools` | `VolTools_proof` |
| `ApiRegs` | what a locked read-modify-write call promises: on success done once at one instant, on an error at most once, perhaps late | | |
| `GphyMailbox` | `gpy2xx_mbox_read16/32`, `_write16/32`, `__is_mbox_busy` and the lock pattern of the API; implements `ApiRegs` | `mbox_calls`, `mbox_lock` | `GphyMailbox_proof` |
| `FwDownload` | the service, `fw_fast_write`, `gpy2xx_fw_frw_init`, `_fwr_page`, `_fwr_status`, `_frw_uninit` | `fw_update`, `fw_patch`, `fw_mspi` | `FwDownload_proof` |
| `MacsecSa` | the egress configuration and clear functions, `_is_sam_in_flight_safe`, `gpy2xx_msec_get_egr_pn` | `phy_api`, `macsec_lock`, `macsec_hidden` | `MacsecSa_proof` |
| `ApiLock` | `phy->lock` over all functions of the PHY, chip and MACsec API | `phy_api` | `PhyApi_proof` |
| `PtpClock` | `gpy2xx_ptp_settime`, `gpy2xx_ptp_adjtime`, `__is_rw_done` | `phy_api` | `PhyApi_proof` |
| `PhyLink` | `gpy2xx_init`, `_uninit`, `_soft_reset`, `_config_advert`, `_setup_forced`, `_restart_aneg`, `_config_aneg`, `_read_status` | `link` | `PhyLink_proof` |
| `MCVolTools` | `SingleVol`, `Calibration` and `WmdConf` in one run | `tools` | `VolTools_proof` |
| `MCPhyApi` | `MacsecSa`, `ApiLock` and `PtpClock` in one run | `phy_api` | `PhyApi_proof` |
| other `MC...` | values of constants that a cfg cannot write, and symmetry | | |

`MCVolTools` and `MCPhyApi` put components side by side that share no state. `Init` chooses one, and only that
one works in a behaviour while the others stay in their initial state: each component has the behaviours it
has alone, and the run visits the sum of their states, not the product. Their modules are extended together,
so `Calibration`, `WmdConf`, `ApiLock` and `PtpClock` have a prefix on the names every module has (`CalInit`,
`WmdNext`, `LockTypeOK`). That a behaviour of the run is one of each component, so that what is proved of a
component holds in it, is a theorem (`ToolsAreKept`, `PartsAreKept`).

`MacsecSa` and `PtpClock` rest on `GphyMailbox`: a mailbox access is one step there because `ImplementsApi`
says so, for accesses that do not begin while the firmware has the request of one that gave up. `FwDownload` does not: in download mode the tool writes the mailbox registers itself, word by word.
`MacsecSa` contains the early return of one function in full; `ApiLock` shows which functions have one, and
what becomes of the lock.

### How the state corresponds to the code

* **DualBank.** `vol` is the content of the volumes `kernelA`, `rootfsB`, ...: absent, empty, torn or a
  part of an image. `env` is `active_bank`, `update_chk` and `f_kernel_size<bank>`; `cmdline` is
  `active_bank=` of `/proc/cmdline`. `job[s]` is where the script of session `s` is. One action per
  external tool, each of which may fail, and `Restart` between any two of them. Nothing in the code keeps
  two sessions apart, so two run.
* **GphyMailbox.** `mb` is the mailbox as MDIO shows it, `reg` the registers behind it, `th[t]` the local
  variables of a call. One action per MDIO access; `Fail` is the error path of each, and `PollGivesUp` that of a
  poll: the last one, or one that fails on the bus, which ends the loop at once. `Firmware` is the PHY, which
  answers when it likes. Two variables are history: `late` is the call whose write the firmware still has
  although the call has returned an error, `clash` says that an exchange was begun on top of such a request.
  A register is a pair of 16-bit halves, a call sets one of them, which stands for a bit field.
* **FwDownload.** `tool` is the process, `phy` what the PHY firmware does (`run`, `patch`, `erase`,
  `ready`, `program`, `reset`), `flash` its pages. A page is its number in the file; a word is (page,
  word). `Polls` is the number of polls a timeout allows. `tool.cut` records that the file ended before its size.
* **MacsecSa.** `eip.mem[s]` says of each word of the record, rule and action of SA `s` whether it is
  programmed or zero; `traffic.flight` are the packets inside the engine, each bound to its SA;
  `traffic.unsafe` is the counter `LOAD_UNSAFE` loads. A thread per SA follows the order of `gpy211_add_txsa`
  and back; a monitor reads packet numbers. Ingress has the same steps and is not repeated.
* **PhyLink.** `link` is `phy->link` (speed and duplex together are a *medium*), `reg` the advertisement
  registers as sets of modes and the bits of `STD_CTRL` and `STD_GCTRL` that matter, `sent` what was offered
  when negotiation last started. The application writes `link` with no lock (`Ask`), also while another
  thread is in `gpy2xx_read_status`. An action is an access with what depends on it; `Fail` is the error path
  of each access. `owed` is the duty the header gives the application: `gpy2xx_restart_aneg` after a
  `gpy2xx_config_advert` that changed something.

* **SingleVol.** `ubi` gives each volume its content, its UBI id and the number of its mtd device; `env` is
  `f_kernel_size` (as the image it is the size of) and the number in `rootfsmtd`; `run` is what the device
  booted from. Volume ids and mtd numbers are given lowest free first at run time and in the order of the ids
  at boot, so `Restart` can renumber the devices. `uboot_env` can fail like every other tool; its environment is
  stored whole or not at all. Two variables are history. `last` says how the last call for each part ended:
  `ok` and `silent` exited with 0, a silent one having lost the failure of `uboot_env` or of `create_vol` for
  both root volumes. `gap` says that a volume was removed and its call could not make it again. `job.again`
  marks a root upgrade that finds `rootfsmtd` already moved away from the volume the device runs from.
* **Calibration.** `flash` and `dir` are the files in the partition and in `/tmp/_calibration`; on eMMC the
  second is the mount point of the first, and `rm -rf` of it empties the partition while it is mounted. What is
  written to a mounted file system is in the page cache: `left` holds, for each file, every content it has had
  since the mount, any of which a loss of power may leave. `cal.made` says whether `mkdir` has made the
  directory, without which `cd` and `mount` fail too. A copy or transfer that breaks off leaves some of the
  files, or the old file truncated (`Rest`, `Add`). On eMMC an update first removes all files and then copies
  those the caller has: `given` is that set. Since hardly a status is looked at, `faults` records which tools
  have failed in the running call, and whether a failure has been harmful so far.
* **WmdConf.** `file` and `temp` are sequences of lines: settings, and of each wlan's block the head, the
  parameters and the `}`, as far as the script tells them apart; `temp` is a set with one member or none.
  `edit[p]` is an invocation: the lines it has still to read, the `block` flag of its loop, and the number of
  the `echo` it is at. Every command is a step, each turn of the loop of `set_wlan` and each `echo` too, and each
  of `sed`, `mv` and `echo` may fail or break off. `alone`, `stale`, `broke` and `before` say whether another
  invocation has made a step since the edit began, whether it found a temporary file, whether a command of it
  has failed, and what it began from.
* **ApiLock.** A function is the sequence of what it does between lock and unlock: an access whose error goes
  to `END` (`IO`), one whose error returns at once (`IOReturn`), a test that returns (`Test`), a call of
  another function (`Nested`). `plain` stands for the functions that only access the PHY; those with a body of
  another shape are named. `stack[t]` is the call stack of a thread, `recursive` the kind of lock the
  application supplies, `leaks` the returns with the lock held.
* **PtpClock.** `reg` says of each update register which call wrote it, `asked` which request bits are set.
  `Take` is the PHY, at any time while a bit is set. A poll tests one bit of what the read returned, so that the
  error code of a failed read looks like a bit that is set (`PollBusy`) or clear (`PollMisread`). `late`, a
  history variable, holds the bits for which the loop has ended although the PHY has not cleared them.

### Abstractions a reader should know

* `wmdctrl.sh`: a simple command is one step, and the redirection of `sed` one of its own (`Open`). Comment
  lines, which nobody reads, are left out, and so are several wans in one block.
* `uboot_env` replaces the environment whole or leaves it: the redundant copy U-Boot keeps is external.
* The branches of `read_calibration` and `update_calibration` without a partition name (`vol_mgmt:561-563`,
  `638-640`) are not modelled: they call `read_cfg_gz` and `write_vol` and return 0 whatever these do.
* `PhyLink` has one `reg.medium` for the speed bits of `STD_CTRL` and the selection in `PMA_CTRL1`. Up to 1G
  the code writes only the first (`gpy211_phy.c:1136-1167`) and `gpy2xx_read_status` reads the second (486-507):
  the model assumes that the PHY mirrors them, as IEEE 802.3 has it for these bits.
* A failed access in `MacsecSa`, `PtpClock` and `ApiLock` has had no effect on the register.
* The kernel numbers mtd devices lowest free first and UBI volumes by their id at attach; `ubirmvol` and
  `ubiupdatevol` refuse a volume that is in use. Both are external to the repository.

* Names, sizes, device nodes and log output of the scripts are left out; `create_vol` may fail for any reason.
* The boot loader starts the bank of `active_bank` and, if that one is not bootable, either. It is not in
  the repository.
* The two MDIO accesses of a register whose order no property tells apart are one step, but a failure
  between them is kept where it leaves something behind (`Fail` of `PhyLink` at `PMA_CTL2`).
* Fast retrain bits and asymmetric pause are not told apart from the modes next to them; `shared_data`
  is NULL, as in every user in the repository; what `gpy2xx_init` reads besides the link is left out.
* A speed up to 1G without a name is in the requests (`OddSpeed`): `__gpy211_setup_forced` refuses it after it
  has rewritten the advertisement.

## Runs

Bounds are the constants of the cfg; nothing else is bounded except what is named here.

| run | instance | what it shows |
|---|---|---|
| `dual_two` | 2 sessions, 1 image, kernel and rootfs, writes of `active_bank` and `update_chk` may fail | the running bank is never touched, one bank is always bootable, a session only runs on a bank that came up, `ABSlots` is implemented; `active_bank` follows only a complete write, and the kernel size is there before the switch |
| `dual_completed` | 1 session, 2 images, kernel, rootfs, firmware, no failure of `uboot_env` | **violated**: "SYSTEM UPGRADE Completed", with `active_bank` moved to a bank whose rootfs write was refused |
| `tools` | a kernel, a root file system and a firmware image to upgrade to, in any order and any number of times; 2 calibration files with 2 contents; 2 invocations and 2 edits, a setting and a wlan with 2 values | outside the moments of `Window` the device boots (`LossSafe`), stored mtd numbers stay right unless a volume was left removed (`NumbersStay`), a call that exits with 0 and did not lose a failure has written its volume and told the boot loader (`OkIsWritten`); which failures lose calibration data (`CalibrationKept`, `OkIsNew`); what an edit that is alone leaves, at its end and where it is killed (`LoneEditIsExact`) |
| `mbox_calls` | 2 threads, 2 registers, 3 calls (two fields of one register, a 16-bit one), errors at each access, polls included, a firmware that answers when it likes, 1 poll | calls are atomic; one that returned an error is done at most once, whole, perhaps late; an exchange that begins with no request outstanding is never disturbed (`ExchangeIntact`, `ImplementsApi`) |
| `mbox_lock` | the same lock, one call, 2 polls, a firmware that may never answer | the lock has one owner on each error path and is always released |
| `fw_update` | 3 pages of 2 words, 3 polls, 3 starts, power cycles, MDIO and file errors, a file that ends early | the PHY waits for each word, the flash holds a prefix; success means complete, and a PHY put into download mode runs again or its caller is told of an error, both unless the file ended early (`tool.cut`) |
| `fw_patch` | as before, a readback that may differ, nothing assumed of the PHY | new firmware stays, polls are bounded, the tool ends |
| `fw_mspi` | a readback of MSPI_CFG that differs | **violated**: `gpy2xx_fw_frw_init` returns 0 without an erased flash |
| `phy_api` | MACsec: 2 SAs, records of 2 words, 2 packets in flight, 2 polls, packet numbers 0..2 with SN-0 wrapping at 2. Lock: 2 threads, both kinds of lock, 2 leaks per thread. PTP: 2 times, 2 polls | erasing only unused records, nothing left after removal, packet number not told too low; the lock is held as often as the stacks say and its owner goes on, with the named exceptions (`LockAccounted`, `OwnerGoesOn`); the PHY takes no mixed time, and 0 means set, except for an update whose polls ended before the PHY took it (`TimeIsWhole`, `SuccessMeansSet`) |
| `macsec_lock` | the MACsec part | **violated**: `gpy2xx_msec_get_egr_pn` returns with the lock held |
| `macsec_hidden` | the MACsec part | **violated**: a configuration call that failed returns 0 and the SA is enabled |
| `link` | one medium of 10M and 1G, 2.5G and 5G, 5G not supported, 8 requests, errors at each access, replugging | only supported media are offered; 0 from `gpy2xx_config_aneg` means negotiating, or forced as asked, and, as long as no access failed and no speed was refused half-way, offered as asked |

Why the bounds are enough. Two sessions, threads or invocations show each interference of a pair; a third adds
none, as each step depends on the lock, one volume or one file. Two images tell an old part from a new one.
Three pages have a first, a middle and a last one, two words a first and a last; three starts allow an
interrupted upgrade, one that fails and one that succeeds. Two packets in flight let one of each SA overtake
the counter; packet number 2 with a low word of base 2 is the carry between the two reads. The link has one
medium per register that is treated alike and both of the register that is not (a forced 5G becomes 2.5G
where it is not supported). One poll of the mailbox is enough in `mbox_calls`, as any poll may be the last; two
are one that counts down and the last. Two calibration files are one that is updated and one that must survive it. One
image to upgrade to is enough for each part: a volume holds the factory's, the new one or neither. Two polls of
the PTP clock are one that is busy and the last. `MaxEdits` bounds the edits of `wmd.conf` to two, the least
that can meet, one command of each may fail (`MayBreak`), and `Params` gives a block one parameter, so that an
edit still has three `echo` to be killed between; the invocations are symmetric. With two leaks per thread the depth of a recursive lock that was not given back differs from one
that was given back once. The proofs take the bounds away where they exist.

Deadlock is off for `FwDownload` (the starts are bounded; the system stops when they are used up), for
`MacsecSa` and `phy_api` (a lock that is kept stops everybody: that is the finding) and for `tools` (a device
that does not boot stays off).

### Fairness

* `mbox_lock`: `WF` of a thread that holds the lock: it is in straight-line code and counted loops. Nothing
  is assumed of the firmware, of the bus, or of a thread that waits for the lock.
* `fw_patch` (`ToolEnds`): `WF` of the tool's steps that do not fail. Nothing is assumed of the PHY.
* `fw_update` (`RunsAgainOrError`): also `WF` of the PHY, which finishes an erase, a page and a reset.
* All others are safety and assume no fairness. `ApiLock` states no liveness: with a lock that is kept, or one
  that is not recursive, callers wait for ever. `OwnerGoesOn` says instead that the owner is never stuck or
  outside the API in any other case.

## Proofs

Every safety property a run checks is also a theorem, for every value of the constants that satisfies the
assumptions named in the modules (`ASSUME`), which TLC evaluates on each run. Hypotheses beyond these are
given below.

* **DualBank.** `TypeCorrect`, `BankRemains`, `RunningBankSafe`, `RunningBankSpared`, `SwitchIsWritten`,
  `SizeIsStored`, `Refinement`. `OneBankBootable` is not inductive: a step keeps it because sessions run only
  on a bootable bank and write the other one. `IInv` adds `SessionsSpareRunningBank`; `VolStep` says what a
  step may write, and the rest follows from it. Any number of sessions, any images and order of parts;
  `SizeIsStored` as long as storing `f_kernel_size` cannot fail.
* **SingleVol.** `TypeCorrect`, `LossIsSafe`, `OkIsAlwaysWritten`, for any images and any choice of parts.
  `LossSafe` speaks of the moments outside `Window` and of numbers that a boot keeps, so it says nothing of how
  they are reached. `IInv` holds always: `Path` says how far the volume of a running call has got, `Distinct`
  that no two volumes share an id or an mtd number, `KernelKept` that the kernel has the size in the
  environment unless the running call or the last one has broken it, `RootKept` the same of the root volume that
  `rootfsmtd` names, on a device that has booted, and `RunningKept` that the volume such a device runs from is
  complete and named in `rootfsmtd` during a first upgrade, which is why that one has no moment in `Window`. The
  lemmas are about numbering: four volumes leave one of five numbers free (`Free`), so that the missing one gets
  a number nobody has (`FreeNumber`), and a boot gives distinct numbers to distinct volumes, by the cardinality
  of the sets below them (`Counted`, `Renumbers`).
* **Calibration.** `CalTypeCorrect`, `NothingIsLost`, `OkStored`, with at least one file, and `FactoryFile` a
  content other than `Lost` (`FileAssumption`). `CalInv` consists of the types, `CalPath` (an eMMC is mounted
  only where the calls expect it), `CalData` (where a complete copy of the data is at each step, and that
  nothing is in the page cache only, outside `InMemory`) and `Stored` (where the new files are).
* **WmdConf.** `WmdTypeCorrect`, `LoneExact`, for any invocations, settings, values and parameters
  (`SettingAssumption`: at least one of each of the first three). `Sound` is what holds of every edit, alone or
  not: its key fits what it does, and while it appends there are lines left (`EditOK`). `Lone` says of
  an edit that is `Exact` - alone, unbroken and begun from whole blocks - how far its files have got (`Progress`):
  after `i` lines read the output is `Part(e, i)`, the kept ones among the first `i` (`WithoutIn`), and the block
  flag is on exactly inside the block of its key (`InBlock`).
* **GphyMailbox.** `TypeCorrect`, and with a lock `MutualExclusion`, `MailboxExchange`, `Refinement` and
  `NoLostUpdate`: nothing is assumed of the firmware or of the bus. `IInv` states for each program counter what of
  the exchange is in the mailbox and in the caller's word (`ExchangeIntact`), and what a call that gave up has
  left there (`LateKept`): its request, whole, which nobody touches until the next exchange begins.
  `NoLostUpdate` follows from the refinement: a field takes no value but that of a call on that field, though a
  call writes its neighbours back. `CallsAreFinite` (no hypothesis): each step inside `phy->lock`, a failing one
  included, brings the call nearer to the unlock or uses up a poll, and a poll that goes on always has one left.
* **FwDownload.** `TypeCorrect`, `NewFirmware`, `ToolIsFinite` unconditionally; `Listening`, `PrefixInFlash` and
  `SuccessIsComplete` with a readback that agrees. `IInv` relates the tool's loop
  counters, the words the PHY has received and the pages in flash, phase by phase. `ToolIsFinite` orders the
  states of a download by page, step, word and polls left: each step goes up in this order.
* **MacsecSa.** `TypeCorrect`, `ZeroesAreUnused`, `RemovedIsErased`, `PnIsNotLow`, for any number of
  associations, words, packets and polls. The difficulty is `ZeroedOnlyWhenUnused`: the engine tells only how
  many packets were inside when `LOAD_UNSAFE` was written. `Enabled` says that an entry is off while it is
  cleared; `Flight` that the packets `LOAD_UNSAFE` counted are the oldest ones, and that those behind them do
  not belong to the SA being removed, so that none of its packets is left when the counter is zero. `Erased` counts the words
  already zero. `Monitored` relates the two halves of a packet number to `asked`, by the lemmas on `\div` and `%`.
* **ApiLock.** `LockTypeCorrect`, `LockIsAccounted`, `OwnerAlwaysGoesOn`, for any callers and number of leaks.
  `LockAccounted` counts frames of a stack that are past their lock, and needs two facts of every stack:
  below the top each function is at its call of the next one (`Nests`), and none is beyond its END (`Inside`). From
  `Nests`, that count is the height of the stack, less one if the top still waits for the lock (`PastNesting`),
  and no stack is higher than three (`Shallow`), which bounds `depth`. `Moves`, `Pushes` and `Pops` say that
  a step, a nested call and a return keep both facts, and how they change the count.
* **PtpClock.** `PtpTypeCorrect`, `WholeTimes`, `SuccessIsSet`, for at least one poll (`PollAssumption`).
  `PtpWritten` says which registers hold the running call's value, `PtpAsked` that a bit which is not late belongs
  to the call that waits (a loop of polls that ends on a set bit, for whichever reason, makes it late),
  `PtpResult` that this call's time has been taken when its poll ends well.
* **PhyLink.** `TypeCorrect`, `SupportedOnly`, `Negotiating`, `ForcedSetUp`, `Offered`, for any media,
  supported set, requests and failures. `IInv` consists of `Path` (which call can be at which step),
  `Masked` (nothing unsupported in a register), `Forcing` (how far a forced link is set up), `Written` (how
  much of the request is in the registers) and `Synced`: a PHY that negotiates has offered what its
  registers say, unless the call or the application still owes the restart. The last two, and `Offered`,
  hold only while no access has failed and no speed has been refused half-way (`failed`).
* **Compositions.** `ToolsAreKept` and `PartsAreKept`: a behaviour of `ToolsSpec` or `ApiSpec` is a behaviour of each
  component. `ToolsTypeCorrect` and `ApiTypeCorrect` follow.

Model-checked only: `LockReleased`, `ToolEnds` and `RunsAgainOrError`. They are liveness under fairness, which
the prover has no rules for. `CallsAreFinite` and `ToolIsFinite` are the safety half of the first two: what
is left to TLC is that a thread or tool with a step to take takes it (`ENABLED`). `RunsAgainOrError`
also depends on what the PHY does after the tool has ended, and has no such half.

## What the models show of the code

Four disagreements of the code with its header or its own message have a run (`findings` in `PROJECT.json`).
Others the models contain without a property that would fail:

* `fw_fast_write` returns success for a file that is shorter than its size was when it began, because the
  status comes from `errno` (`gpy2xx_fw_dl.c:442`), and leaves the PHY in download mode: `SuccessMeansComplete` and
  `RunsAgainOrError` name this as their only exception.
* The last poll counts as a timeout even if it found the erase complete (`gpy211_phy.c:4148`), and so does
  the last poll of `_is_sam_in_flight_safe`.
* An error of `fread` ends the tool with the PHY still in download mode (`gpy2xx_fw_dl.c:434`); the tool
  reports it.
* The write of `ANEG_MGBT_AN_CTRL` that fails returns the value to be written instead of the error
  (`gpy211_phy.c:1041`): `gpy2xx_config_aneg` restarts the negotiation and returns 0 although 2.5G and 5G
  are not offered as asked. `SuccessMeansOffered` without the restriction to unfailed accesses is false.
* After an error between a write of the advertisement and the restart, a repeated `gpy2xx_config_aneg` finds
  nothing changed and returns 0 without a restart; the new advertisement waits for the next link loss. So it does
  after a forced speed up to 1G that has no name: -EINVAL comes when `STD_AN_ADV` is rewritten
  (`gpy211_phy.c:1120`, `1154`), without any access having failed.
* A poll of the mailbox that fails on the bus ends the call at once (`gpy211_phy.c:4326`), as the last poll does:
  the write may still be done later, and the next call, which does not look at READY first, may have its data
  registers overwritten, or send the late write to its own address. This is the state `clash` records, in which
  nothing is promised until an exchange begins with no request outstanding.
* Without pause, `__gpy211_setup_forced` clears a bit of 10baseT or of the selector instead of the pause bit.
* `upgrade_vol_kernel` writes the only kernel in place: a loss of power from `ubirmvol` until `f_kernel_size` is
  set leaves a device that does not boot. `upgrade_vol_rootfs` takes the other volume, but a second call
  without a restart takes the volume `rootfsmtd` has just been set to. These are the moments of `Window`.
* `rootfsmtd` is the number an mtd device has now. After a call that failed between `ubirmvol` and `ubimkvol`
  the next boot may give this number to another volume; `NumbersStay` says that only this can do it.
* If no root volume can be created, the loop ends and `rootfsmtd` is set all the same, with status 0
  (`vol_mgmt:235`). A failure of `uboot_env` (194, 236) is hidden by the dispatcher (661) in the same way: exit 0
  with a new kernel and the size of the old one, which does not boot. `OkIsWritten` excepts these calls, as
  `silent`, and `LossSafe` is not claimed after them.
* Calibration data is lost when one of the tools in `Harmful` fails: `mkdir`, `nanddump`, the unpacking `tar`, `cp`,
  `flash_erase`, the packing `tar` or `nandwrite` (NAND), `mkdir`, `mount`, `cp` or `umount` (eMMC), or power between
  erasing and writing or, on eMMC, between `rm` and the end of `umount`, as nothing is synced before. With no
  failure at all an eMMC update drops the files the caller has no new ones for (632-633), which
  `CalibrationKept` does not claim (`given`). On eMMC a `umount` that fails lets `rm -rf` empty the partition even
  after a read, and a `mount` that fails lets an update format it.
* Two invocations of `wmdctrl.sh` share `/tmp/wmd.conf.temp`; one that is killed leaves it, and `set_wlan` appends to
  what is there. An edit killed between `mv` and its last `echo` has lost the old entry, and can leave a block
  without its `}`, at which the next `set_wlan` of that wlan drops every line up to the next `}`.
* `__is_rw_done` never reports a timeout, as its test `!value && !busyRetry` is not true of a bit that is still
  set (`gpy211_chip.c:36`), and it takes the error code of a failed read, kept in a u32, for the register (31-32), in
  which the bit may look clear: in both ways `gpy2xx_ptp_settime` and `_adjtime` return 0 with an update the PHY
  has not taken, and the next call writes over it.
* Five functions can return with `phy->lock` held (`fw_frw_init`, `ptp_resetauxfifo`, `msec_update_egr_sa_cw`,
  `msec_get_egr_pn` and `msec_get_ing_pn`), and five call others while they hold it (`loopback_cfg`,
  `ptp_enable`, `ptp_getcfg`, `macsec_enable`, the initialisation of the MACsec engines): the first kind stops
  all others, the second kind stops itself unless the lock is recursive.
* SN-1 is read after SN-0: a carry in between makes the packet number too high, never too low.

## Not modelled

Every component has a status and a reason in `PROJECT.json`. Outside the repository, and external in the
models: `secupg`, UBI and U-Boot tools, the boot loader, the PHY firmware and boot ROM, the MACsec engine,
the link partner, the kernel modules and services behind the command lines.

* **Register definitions.** 144 000 of the 189 000 lines of the implementation are generated headers and
  duplicated switch headers that only define registers and fields, and most of the rest are long functions that
  move fields between a structure and a register. In a model they are data, which is why the map can cover only
  a small share of all lines.
* **Register sequences of the PHY API** (SGMII, cable diagnosis, test modes, loopback, Wake-on-LAN, thermal
  sensors, GPIO, LED, MACsec statistics and thresholds): what they do is decided by hardware that is not in the
  repository. What they share, the lock and the mailbox, is in `ApiLock` and `GphyMailbox`.
* **Other PTP functions.** `gpy2xx_ptp_gettime` reads four registers one after the other without reading again; the
  timestamp FIFO, `resetauxfifo` and the addend have similar questions. They turn on what the PHY latches.
* **MACsec example driver.** The lists of channels and associations live in netlink callbacks of a kernel that is
  not in the repository; the order of its API calls is in `MacsecSa`.
* **The other parts of `vol_mgmt`** (the branches named above, U-Boot, its environment, PHY firmware and system software partitions): each
  is `flash_erase` and `nandwrite` of a partition of its own, once, without a second copy.
* **Scripts and clients** (power management, `sgam`, `seccrypto_service_app`, `memutil`, `cap_provide`): one
  sequential pass each, with all state in kernel modules, services or devices outside the repository.

## Plan

Written in this order: the dual image upgrade (the worst failure of the system), the mailbox everything else
rests on, the firmware download, the MACsec associations, the link, the single image upgrade with calibration
data and `wmd.conf`, the lock of the whole API, the PTP clock; then the proofs. What is left, by value:

1. `SecyLists`: the channels and associations of the example driver against the records of the engine.
2. A measure for `RunsAgainOrError`: the steps of the tool and of the PHY together, from download mode to a PHY
   that runs.
3. The timestamp FIFO of the PTP clock, once it is known what the PHY latches.
