------------------------------- MODULE PhyLink -------------------------------
(***************************************************************************)
(* The twisted pair link of a GPY2xx PHY (gpy211_phy.c): gpy2xx_init,      *)
(* _config_advert, _setup_forced, _restart_aneg, _config_aneg,             *)
(* _read_status and _soft_reset, access by access, over an MDIO bus that   *)
(* may fail at each of them.  The calls exclude each other by phy->lock    *)
(* (GphyMailbox); the fields of phy->link belong to the application and    *)
(* are written outside it.                                                 *)
(*                                                                         *)
(* A register is the set of the modes its bits stand for: STD_AN_ADV       *)
(* (10/100M and pause), STD_GCTRL (1G), ANEG_MGBT_AN_CTRL (2.5G and more). *)
(* The speed the PHY is forced to is one value, reg.medium, although it is *)
(* written to STD_CTRL up to 1G and to PMA_CTRL1 and PMA_CTL2 above, and   *)
(* read back from PMA_CTRL1 first.  The model assumes, as the driver does, *)
(* that the PHY mirrors the speed bits of STD_CTRL into PMA_CTRL1: nothing *)
(* in the driver clears those PMA_CTRL1 holds from an earlier 2.5G.        *)
(***************************************************************************)
CONSTANTS
  AnMedia, GMedia, MgMedia, \* media whose bits are in the three registers
  Pause,         \* the pause bits of STD_AN_ADV
  TenHalf,       \* 10baseT_Half
  FiveG,         \* SPEED_5000
  TwoFiveG,      \* SPEED_2500
  HalfGig,       \* 1000 Mbit/s with half duplex, which cannot be forced
  OddSpeed,      \* a speed below 1000 Mbit/s other than 10 and 100
  Unknown,       \* SPEED_UNKNOWN
  Supported,     \* link.supported, fixed by the PHY
  Requests,      \* what the application may write to phy->link
  BusMayFail     \* an MDIO access can return an error

Media == AnMedia \cup GMedia \cup MgMedia
Modes == Media \cup {Pause}

ASSUME MediaAssumption ==
  /\ Pause \notin Media /\ Unknown \notin Media /\ HalfGig \notin Media \cup {Unknown}
  /\ OddSpeed \notin Media \cup {Unknown, HalfGig}
  /\ AnMedia \cap GMedia = {} /\ AnMedia \cap MgMedia = {} /\ GMedia \cap MgMedia = {}
  /\ TenHalf \in AnMedia /\ MgMedia = {FiveG, TwoFiveG}
ASSUME SupportedAssumption == Supported \subseteq Modes
ASSUME RequestAssumption ==
  Requests \subseteq [autoneg : BOOLEAN, adv : SUBSET Modes, pause : BOOLEAN,
                      medium : Media \cup {HalfGig, OddSpeed, Unknown}]
ASSUME FlagAssumption == BusMayFail \in BOOLEAN

VARIABLES
  link,   \* phy->link as the application and the API see it
  reg,    \* registers of the PHY: advertisement, manual master/slave, STD_CTRL
  sent,   \* the modes the PHY offered when negotiation last started
  call,   \* the API call that holds phy->lock, and what the application owes
  failed  \* history: an access has failed, or setup_forced has refused a speed
          \* after it had rewritten STD_AN_ADV

vars == <<link, reg, sent, call, failed>>

Functions == {"init", "config_advert", "setup_forced", "restart_aneg", "config_aneg",
              "read_status", "soft_reset"}
PC == {"idle", "return", "resetting",
       "init_ctrl", "init_an", "init_g", "init_mg", "imask", "status", "pause", "miistat",
       "mask", "an", "g", "mg", "check", "restart", "reset",
       "force", "force_an", "force_ctrl", "force_pma", "force_ms"}

Offer(r) == r.an \cup r.g \cup r.mg
Goto(pc) == call' = [call EXCEPT !.pc = pc]
Return(ok) == call' = [call EXCEPT !.pc = "return", !.ok = ok]

\* The PHY after its reset offers all it can.
DefaultReg == [an |-> Supported \cap (AnMedia \cup {Pause}), g |-> Supported \cap GMedia,
               mg |-> Supported \cap MgMedia, manual |-> FALSE, anen |-> TRUE, isol |-> FALSE,
               medium |-> TwoFiveG]

\* The boot loader may have forced or isolated the PHY.
Init ==
  /\ link = [autoneg |-> FALSE, adv |-> {}, pause |-> FALSE, medium |-> Unknown,
             ready |-> FALSE, priv |-> FALSE]
  /\ \E e, i \in BOOLEAN : reg = [DefaultReg EXCEPT !.anen = e, !.isol = i]
  /\ sent = IF reg.anen THEN Offer(reg) ELSE {}
  /\ call = [fn |-> "init", pc |-> "idle", changed |-> FALSE, ok |-> TRUE, owed |-> FALSE]
  /\ failed = FALSE

-----------------------------------------------------------------------------
(* The application                                                          *)

\* It writes phy->link, with no lock, while it is in no call of its own.
Ask(r) ==
  /\ link.ready
  /\ call.pc = "idle" \/ call.fn = "read_status"
  /\ link' = [link EXCEPT !.autoneg = r.autoneg, !.adv = r.adv, !.pause = r.pause,
                          !.medium = r.medium]
  /\ UNCHANGED <<reg, sent, call, failed>>

\* "The user application must call gpy2xx_init before any other APIs", and
\* gpy2xx_restart_aneg after gpy2xx_config_advert.
Entry(fn) ==
  CASE fn = "init" -> IF link.priv THEN "imask" ELSE "init_ctrl"
    [] fn = "config_advert" -> "mask"
    [] fn = "setup_forced" -> "force"
    [] fn = "restart_aneg" -> "restart"
    [] fn = "config_aneg" -> IF link.autoneg THEN "mask" ELSE "force"
    [] fn = "read_status" -> "status"
    [] fn = "soft_reset" -> "reset"
Call(fn) ==
  /\ call.pc = "idle"
  /\ link.ready = (fn # "init")
  /\ call.owed => fn \notin {"config_aneg", "setup_forced"}
  /\ call' = [call EXCEPT !.fn = fn, !.pc = Entry(fn), !.changed = FALSE]
  /\ link' = IF fn = "setup_forced" THEN [link EXCEPT !.autoneg = FALSE] ELSE link
  /\ UNCHANGED <<reg, sent, failed>>

\* The call ends; a reset goes on in the PHY and is polled for.
End ==
  /\ call.pc = "return"
  /\ call' = [call EXCEPT !.pc = IF call.fn = "soft_reset" /\ call.ok THEN "resetting" ELSE "idle",
                          !.changed = FALSE, !.ok = TRUE,
                          !.owed = IF ~call.ok THEN @ ELSE
                                   CASE call.fn = "config_advert" -> @ \/ call.changed
                                     [] call.fn \in {"restart_aneg", "soft_reset"} -> FALSE
                                     [] OTHER -> @]
  /\ link' = IF call.fn = "init" THEN [link EXCEPT !.ready = call.ok] ELSE link
  /\ UNCHANGED <<reg, sent, failed>>

Uninit ==
  /\ call.pc = "idle" /\ ~call.owed
  /\ link.ready
  /\ link' = [link EXCEPT !.ready = FALSE, !.priv = FALSE]
  /\ UNCHANGED <<reg, sent, call, failed>>

\* SPEED_5000 where it is not supported becomes SPEED_2500.
ForcedMg == IF link.medium = FiveG /\ FiveG \in Supported THEN FiveG ELSE TwoFiveG

\* An access fails: the error is returned, what was written stays written,
\* PMA_CTRL1 too when it is the write of PMA_CTL2 that fails.
Fail ==
  /\ BusMayFail
  /\ call.pc \notin {"idle", "return", "resetting", "force"}
  /\ \/ UNCHANGED reg
     \/ call.pc = "force_pma" /\ reg' = [reg EXCEPT !.medium = ForcedMg]
  /\ Return(FALSE)
  /\ failed' = TRUE
  /\ UNCHANGED <<link, sent>>

-----------------------------------------------------------------------------
(* gpy2xx_init, gpy2xx_read_status, gpy2xx_soft_reset                       *)

InitCtrl ==
  /\ call.pc = "init_ctrl"
  /\ link' = [link EXCEPT !.autoneg = reg.anen, !.adv = {}]
  /\ Goto("init_an")
  /\ UNCHANGED <<reg, sent, failed>>

ReadAdvertising ==
  /\ \/ call.pc = "init_an" /\ link' = [link EXCEPT !.adv = reg.an] /\ Goto("init_g")
     \/ call.pc = "init_g" /\ link' = [link EXCEPT !.adv = @ \cup reg.g] /\ Goto("init_mg")
     \/ call.pc = "init_mg" /\ link' = [link EXCEPT !.adv = @ \cup reg.mg] /\ Goto("status")
  /\ UNCHANGED <<reg, sent, failed>>

\* Done once: priv_data is set, and a repeated gpy2xx_init has only this to do.
SetImask ==
  /\ call.pc = "imask"
  /\ Return(TRUE)
  /\ UNCHANGED <<link, reg, sent, failed>>

ClearStatus ==
  /\ call.pc = "status"
  /\ link' = [link EXCEPT !.medium = Unknown, !.pause = FALSE]
  /\ Goto("pause")
  /\ UNCHANGED <<reg, sent, failed>>

StatusDone == IF call.fn = "init" THEN Goto("imask") ELSE Return(TRUE)
Initialised == link.priv \/ call.fn = "init"

\* What the partner offers and the PHY resolved (external), if link.autoneg.
ReadPartner ==
  /\ \/ /\ call.pc = "pause" /\ link.autoneg
        /\ \E p \in BOOLEAN : link' = [link EXCEPT !.pause = p]
        /\ Goto("miistat")
     \/ /\ call.pc = "miistat"
        /\ \E m \in Media \cup {Unknown} :
             link' = [link EXCEPT !.medium = m, !.priv = Initialised]
        /\ StatusDone
  /\ UNCHANGED <<reg, sent, failed>>

\* The PHY's own setting, if not.
ReadForced ==
  /\ call.pc = "pause" /\ ~link.autoneg
  /\ link' = [link EXCEPT !.medium = reg.medium, !.priv = Initialised]
  /\ StatusDone
  /\ UNCHANGED <<reg, sent, failed>>

SoftReset ==
  /\ call.pc = "reset"
  /\ link' = [link EXCEPT !.autoneg = TRUE]
  /\ Return(TRUE)
  /\ UNCHANGED <<reg, sent, failed>>

-----------------------------------------------------------------------------
(* __gpy211_config_advert and __gpy211_restart_aneg                         *)

\* Mutation: the request is not masked with link.supported.
MaskAdvertForgotten ==
  /\ call.pc = "mask"
  /\ reg' = [reg EXCEPT !.manual = FALSE]
  /\ Goto("an")
  /\ UNCHANGED <<link, sent, failed>>
\* Manual master/slave is switched off, which does not count as a change.
MaskAdvert ==
  /\ call.pc = "mask"
  /\ reg' = [reg EXCEPT !.manual = FALSE]
  /\ link' = [link EXCEPT !.adv = @ \cap Supported]
  /\ Goto("an")
  /\ UNCHANGED <<sent, failed>>

WriteAn ==
  LET wanted == link.adv \cap (AnMedia \cup {Pause}) IN
  /\ call.pc = "an"
  /\ reg' = [reg EXCEPT !.an = wanted]
  /\ call' = [call EXCEPT !.pc = "g", !.changed = reg.an # wanted]
  /\ UNCHANGED <<link, sent, failed>>

\* Mutation: a change of the 1G bits is not told.
WriteGUntold ==
  /\ call.pc = "g"
  /\ reg' = [reg EXCEPT !.g = link.adv \cap GMedia]
  /\ Goto("mg")
  /\ UNCHANGED <<link, sent, failed>>
WriteG ==
  LET wanted == link.adv \cap GMedia IN
  /\ call.pc = "g"
  /\ reg' = [reg EXCEPT !.g = wanted]
  /\ call' = [call EXCEPT !.pc = "mg", !.changed = @ \/ reg.g # wanted]
  /\ UNCHANGED <<link, sent, failed>>

\* config_advert returns whether a register changed; config_aneg restarts the
\* negotiation if one did, and looks at STD_CTRL otherwise.
AdvertDone(changed) ==
  call' = [call EXCEPT !.changed = changed, !.ok = TRUE,
                       !.pc = CASE call.fn = "config_advert" -> "return"
                                [] call.fn = "config_aneg" /\ changed -> "restart"
                                [] OTHER -> "check"]

WriteMg ==
  LET wanted == link.adv \cap MgMedia IN
  /\ call.pc = "mg"
  /\ reg' = [reg EXCEPT !.mg = wanted]
  /\ AdvertDone(call.changed \/ reg.mg # wanted)
  /\ UNCHANGED <<link, sent, failed>>

\* "return adv": the error of this write is lost, the value that was to be
\* written is returned for it, and 0 means no change.
WriteMgFails ==
  LET wanted == link.adv \cap MgMedia IN
  /\ call.pc = "mg"
  /\ reg.mg # wanted
  /\ BusMayFail
  /\ \E changed \in {TRUE} \cup {wanted # {}} : AdvertDone(changed)
  /\ failed' = TRUE
  /\ UNCHANGED <<link, reg, sent>>

\* Mutation: an advertisement that did not change needs no restart.
CheckAnegSkipped ==
  /\ call.pc = "check"
  /\ Return(TRUE)
  /\ UNCHANGED <<link, reg, sent, failed>>
CheckAneg ==
  /\ call.pc = "check"
  /\ \/ (~reg.anen \/ reg.isol) /\ Goto("restart")
     \/ reg.anen /\ ~reg.isol /\ Return(TRUE)
  /\ UNCHANGED <<link, reg, sent, failed>>

RestartAneg ==
  /\ call.pc = "restart"
  /\ reg' = [reg EXCEPT !.anen = TRUE, !.isol = FALSE]
  /\ sent' = Offer(reg)
  /\ link' = [link EXCEPT !.autoneg = TRUE]
  /\ Return(TRUE)
  /\ UNCHANGED failed

-----------------------------------------------------------------------------
(* __gpy211_setup_forced                                                    *)

Validate ==
  /\ call.pc = "force"
  /\ \/ link.medium \in {Unknown, HalfGig} /\ Return(FALSE)
     \/ link.medium \notin {Unknown, HalfGig} /\ Goto("force_an")
  /\ UNCHANGED <<link, reg, sent, failed>>

\* The mask that should clear the pause bits is not shifted to their place and
\* clears the bits of 10baseT instead.
ForceAn ==
  /\ call.pc = "force_an"
  /\ reg' = [reg EXCEPT !.an = IF link.pause THEN @ \cup {Pause} ELSE @ \ {TenHalf}]
  /\ Goto("force_ctrl")
  /\ UNCHANGED <<link, sent, failed>>

\* Mutation: above 1G negotiation stays enabled.
ForceCtrlKeepsAneg ==
  /\ call.pc = "force_ctrl"
  /\ \/ /\ link.medium \in AnMedia \cup GMedia
        /\ reg' = [reg EXCEPT !.anen = FALSE, !.medium = link.medium]
        /\ sent' = {}
        /\ Goto("force_ms")
     \/ /\ link.medium \in MgMedia
        /\ UNCHANGED <<reg, sent>>
        /\ Goto("force_pma")
  /\ UNCHANGED <<link, failed>>
\* Mutation: any speed below 2.5G is forced, the switch has no default case.
ForceCtrlAnySpeed ==
  /\ call.pc = "force_ctrl"
  /\ \/ /\ link.medium \notin MgMedia
        /\ reg' = [reg EXCEPT !.anen = FALSE, !.medium = link.medium]
        /\ Goto("force_ms")
     \/ /\ link.medium \in MgMedia
        /\ reg' = [reg EXCEPT !.anen = FALSE]
        /\ Goto("force_pma")
  /\ sent' = {}
  /\ UNCHANGED <<link, failed>>
ForceCtrl ==
  /\ call.pc = "force_ctrl"
  /\ \/ /\ link.medium \in AnMedia \cup GMedia
        /\ reg' = [reg EXCEPT !.anen = FALSE, !.medium = link.medium]
        /\ Goto("force_ms")
     \/ /\ link.medium \in MgMedia
        /\ reg' = [reg EXCEPT !.anen = FALSE]
        /\ Goto("force_pma")
  /\ sent' = {}
  /\ UNCHANGED <<link, failed>>

\* The switch over the speeds up to 1G finds no name for this one: -EINVAL,
\* with the advertisement already changed.
RefuseSpeed ==
  /\ call.pc = "force_ctrl"
  /\ link.medium = OddSpeed
  /\ Return(FALSE)
  /\ failed' = TRUE
  /\ UNCHANGED <<link, reg, sent>>

ForcePma ==
  /\ call.pc = "force_pma"
  /\ reg' = [reg EXCEPT !.medium = ForcedMg]
  /\ Goto("force_ms")
  /\ UNCHANGED <<link, sent, failed>>

ForceManual ==
  /\ call.pc = "force_ms"
  /\ reg' = [reg EXCEPT !.manual = TRUE]
  /\ Return(TRUE)
  /\ UNCHANGED <<link, sent, failed>>

-----------------------------------------------------------------------------
(* The PHY                                                                  *)

ResetDone ==
  /\ call.pc = "resetting"
  /\ reg' = DefaultReg
  /\ sent' = Offer(DefaultReg)
  /\ Goto("idle")
  /\ UNCHANGED <<link, failed>>

\* The cable is plugged again: the PHY negotiates with what it has now.
Relink ==
  /\ reg.anen /\ ~reg.isol
  /\ sent' = Offer(reg)
  /\ UNCHANGED <<link, reg, call, failed>>

Next ==
  \/ \E r \in Requests : Ask(r)
  \/ \E fn \in Functions : Call(fn)
  \/ End \/ Uninit \/ Fail
  \/ InitCtrl \/ ReadAdvertising \/ SetImask \/ ClearStatus \/ ReadPartner \/ ReadForced
  \/ SoftReset
  \/ MaskAdvert \/ WriteAn \/ WriteG \/ WriteMg \/ WriteMgFails \/ CheckAneg \/ RestartAneg
  \/ Validate \/ ForceAn \/ ForceCtrl \/ RefuseSpeed \/ ForcePma \/ ForceManual
  \/ ResetDone \/ Relink

Spec == Init /\ [][Next]_vars
-----------------------------------------------------------------------------
(* Properties                                                               *)

\* The types of the state: only a medium that exists is ever forced.
TypeOK ==
  /\ link \in [autoneg : BOOLEAN, adv : SUBSET Modes, pause : BOOLEAN, ready : BOOLEAN,
               priv : BOOLEAN, medium : Media \cup {HalfGig, OddSpeed, Unknown}]
  /\ reg \in [an : SUBSET (AnMedia \cup {Pause}), g : SUBSET GMedia, mg : SUBSET MgMedia,
              manual : BOOLEAN, anen : BOOLEAN, isol : BOOLEAN, medium : Media]
  /\ sent \in SUBSET Modes
  /\ call \in [fn : Functions, pc : PC, changed : BOOLEAN, ok : BOOLEAN, owed : BOOLEAN]
  /\ failed \in BOOLEAN

\* "only the parameters supported by the firmware are advertised": whatever
\* the application asks for and whichever access fails, no medium is offered
\* to the partner that the PHY does not support.
OnlySupported == sent \cap Media \subseteq Supported

Succeeded(fns) == call.pc = "return" /\ call.ok /\ call.fn \in fns

\* When gpy2xx_config_aneg returns 0 for a link that is to negotiate, the PHY
\* does negotiate, also when it was forced or isolated before and the
\* advertisement did not change, and whichever access failed before.
SuccessMeansNegotiating ==
  Succeeded({"config_aneg"}) /\ link.autoneg => reg.anen /\ ~reg.isol

\* When gpy2xx_setup_forced, or gpy2xx_config_aneg for a forced link, returns
\* 0 the PHY does not negotiate, has the medium asked for, if it supports it,
\* and has taken master or slave by hand.
SuccessMeansForced ==
  Succeeded({"config_aneg", "setup_forced"}) /\ ~link.autoneg =>
    /\ ~reg.anen /\ reg.manual
    /\ link.medium \in Supported => reg.medium = link.medium

\* "If autoneg is 1, this API calls gpy2xx_config_advert and
\* gpy2xx_restart_aneg to advertise and restart auto-negotiation": when
\* gpy2xx_config_aneg returns 0 the partner has been offered what the
\* application asked for.
SuccessMeansOffered ==
  Succeeded({"config_aneg"}) /\ link.autoneg => sent = link.adv

\* The same through any sequence of calls, as long as no access has failed and
\* no speed been refused half-way: both leave registers changed that the next
\* gpy2xx_config_aneg finds as it wants them, so that it does not restart.
UnfailedMeansOffered == ~failed => SuccessMeansOffered
===============================================================================
