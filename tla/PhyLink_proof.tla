---------------------------- MODULE PhyLink_proof ----------------------------
(***************************************************************************)
(* The properties of PhyLink for every set of media, any supported part of *)
(* them, any requests of the application and any failing accesses.         *)
(***************************************************************************)
EXTENDS PhyLink, TLAPS

Const == MediaAssumption /\ SupportedAssumption /\ RequestAssumption /\ FlagAssumption

AdvertPC == {"mask", "an", "g", "mg", "check"}
ForcePC == {"force", "force_an", "force_ctrl", "force_pma", "force_ms"}

-----------------------------------------------------------------------------
(* The inductive invariant, in parts                                        *)

\* Only the configuring functions get to the steps that write the registers,
\* and phy->link says of gpy2xx_config_aneg which of the two ways it goes.
Path ==
  /\ call.pc \in AdvertPC => call.fn \in {"config_advert", "config_aneg"}
  /\ call.pc \in ForcePC => call.fn \in {"setup_forced", "config_aneg"} /\ ~link.autoneg
  /\ call.pc \in AdvertPC \cup {"restart"} /\ call.fn = "config_aneg" => link.autoneg
  /\ call.pc \in {"check", "restart"} => call.fn \in {"config_aneg", "restart_aneg"}
  /\ call.fn = "config_aneg" /\ call.pc \notin {"idle"} => ~call.owed
  /\ call.pc \in {"reset", "resetting"} => call.fn = "soft_reset"
  /\ call.pc \in {"init_ctrl", "init_an", "init_g", "init_mg", "imask"} => call.fn = "init"
  /\ call.pc \in {"status", "pause", "miistat"} => call.fn \in {"init", "read_status"}

\* No register and no offer names a medium the PHY does not have, nor does the
\* request once it is masked.
Masked ==
  /\ reg.an \cap Media \subseteq Supported
  /\ reg.g \subseteq Supported
  /\ reg.mg \subseteq Supported
  /\ sent \cap Media \subseteq Supported
  /\ call.pc \in {"an", "g", "mg"} => link.adv \subseteq Supported

\* How far a forced link has been set up.
Forcing ==
  /\ call.pc \in {"force_an", "force_ctrl"} => link.medium \in Media \cup {OddSpeed}
  /\ call.pc = "force_pma" => link.medium \in MgMedia /\ ~reg.anen
  /\ call.pc = "force_ms" =>
       ~reg.anen /\ (link.medium \in Supported => reg.medium = link.medium)

\* How much of the request has got to the registers, unless a write failed.
Written ==
  /\ call.pc \in {"g", "mg"} => reg.an = link.adv \cap (AnMedia \cup {Pause})
  /\ call.pc = "mg" => reg.g = link.adv \cap GMedia
  /\ call.pc \in {"check", "restart"} /\ call.fn = "config_aneg" => Offer(reg) = link.adv

\* A PHY that negotiates has offered what its registers say, unless a call
\* that changed them is on its way to the restart.
Synced ==
  /\ /\ reg.anen /\ ~reg.isol
     /\ ~call.owed \/ Succeeded({"restart_aneg"})
     /\ call.pc \notin {"force_ctrl", "resetting"}
     =>
       \/ sent = Offer(reg)
       \/ call.changed /\ call.pc \in {"g", "mg", "restart"}
       \/ call.changed /\ call.pc = "return" /\ call.ok /\ call.fn = "config_advert"
  /\ call.pc = "check" => ~call.changed

IInv ==
  /\ TypeOK
  /\ Path
  /\ Masked
  /\ Forcing
  /\ SuccessMeansNegotiating
  /\ SuccessMeansForced
  /\ ~failed => Written /\ Synced /\ SuccessMeansOffered

-----------------------------------------------------------------------------
(* Its proof                                                                *)

\* What gpy2xx_init and the entry of a call do to phy->link and to the call.
LEMMA CallStep ==
  ASSUME TypeOK, NEW fn \in Functions, Call(fn)
  PROVE  /\ call'.fn = fn /\ call'.owed = call.owed /\ call'.ok = call.ok /\ ~call'.changed
         /\ call'.pc = Entry(fn) /\ Entry(fn) \in PC
         /\ call.pc = "idle" /\ (call.owed => fn \notin {"config_aneg", "setup_forced"})
         /\ link' = [link EXCEPT !.autoneg = link'.autoneg]
         /\ link'.autoneg = (link.autoneg /\ fn # "setup_forced")
         /\ call' \in [fn : Functions, pc : PC, changed : BOOLEAN, ok : BOOLEAN, owed : BOOLEAN]
         /\ UNCHANGED <<reg, sent, failed>>
<1>1. Entry(fn) \in PC
  BY DEF Entry, Functions, PC
<1>2. link.autoneg \in BOOLEAN /\ link = [link EXCEPT !.autoneg = link.autoneg]
  BY DEF TypeOK
<1>3. link' = [link EXCEPT !.autoneg = link'.autoneg]
      /\ link'.autoneg = (link.autoneg /\ fn # "setup_forced")
  BY <1>2 DEF Call, TypeOK
<1> QED
  BY <1>1, <1>3 DEF Call, TypeOK

\* What gpy2xx_read_status and the end of gpy2xx_init do.
LEMMA StatusStep ==
  ASSUME TypeOK, ReadPartner \/ ReadForced
  PROVE  /\ call.pc \in {"pause", "miistat"}
         /\ call'.pc \in {"miistat", "imask", "return"}
         /\ call'.pc = "return" => call.fn # "init"
         /\ call'.pc = "imask" => call.fn = "init"
         /\ call' = [call EXCEPT !.pc = call'.pc, !.ok = call'.ok]
         /\ call'.ok \in BOOLEAN
         /\ link'.autoneg = link.autoneg /\ link'.adv = link.adv
         /\ link' \in [autoneg : BOOLEAN, adv : SUBSET Modes, pause : BOOLEAN, ready : BOOLEAN,
                       priv : BOOLEAN, medium : Media \cup {HalfGig, OddSpeed, Unknown}]
         /\ UNCHANGED <<reg, sent, failed>>
<1> USE DEF Goto, Return
<1>1. Initialised \in BOOLEAN
  BY DEF Initialised, TypeOK
<1>2. call \in [fn : Functions, pc : PC, changed : BOOLEAN, ok : BOOLEAN, owed : BOOLEAN]
      /\ link \in [autoneg : BOOLEAN, adv : SUBSET Modes, pause : BOOLEAN, ready : BOOLEAN,
                  priv : BOOLEAN, medium : Media \cup {HalfGig, OddSpeed, Unknown}]
  BY DEF TypeOK
<1>3. ASSUME StatusDone
      PROVE  /\ call'.pc \in {"imask", "return"}
             /\ call'.pc = "return" => call.fn # "init"
             /\ call'.pc = "imask" => call.fn = "init"
             /\ call' = [call EXCEPT !.pc = call'.pc, !.ok = call'.ok]
             /\ call'.ok \in BOOLEAN
  <2>1. CASE call.fn = "init"
    BY <1>2, <1>3, <2>1 DEF StatusDone
  <2>2. CASE call.fn # "init"
    BY <1>2, <1>3, <2>2 DEF StatusDone
  <2> QED
    BY <2>1, <2>2
<1>4. CASE ReadForced
  <2>1. reg.medium \in Media \cup {HalfGig, OddSpeed, Unknown}
    BY DEF TypeOK
  <2>2. link' = [link EXCEPT !.medium = reg.medium, !.priv = Initialised]
    BY <1>4 DEF ReadForced
  <2>3. /\ link'.autoneg = link.autoneg /\ link'.adv = link.adv
        /\ link' \in [autoneg : BOOLEAN, adv : SUBSET Modes, pause : BOOLEAN, ready : BOOLEAN,
                      priv : BOOLEAN, medium : Media \cup {HalfGig, OddSpeed, Unknown}]
    BY <1>1, <1>2, <2>1, <2>2
  <2> QED
    BY <1>3, <1>4, <2>3 DEF ReadForced
<1>5. CASE ReadPartner /\ call.pc = "pause"
  <2>1. PICK p \in BOOLEAN : link' = [link EXCEPT !.pause = p]
    BY <1>5 DEF ReadPartner
  <2>2. /\ link'.autoneg = link.autoneg /\ link'.adv = link.adv
        /\ link' \in [autoneg : BOOLEAN, adv : SUBSET Modes, pause : BOOLEAN, ready : BOOLEAN,
                      priv : BOOLEAN, medium : Media \cup {HalfGig, OddSpeed, Unknown}]
    BY <1>2, <2>1
  <2>3. call' = [call EXCEPT !.pc = "miistat"]
    BY <1>5 DEF ReadPartner
  <2>4. call'.pc = "miistat" /\ call'.ok = call.ok /\ call.ok \in BOOLEAN
        /\ call' = [call EXCEPT !.pc = call'.pc, !.ok = call'.ok]
    BY <1>2, <2>3
  <2> QED
    BY <1>5, <2>2, <2>4 DEF ReadPartner
<1>6. CASE ReadPartner /\ call.pc = "miistat"
  <2>1. PICK m \in Media \cup {Unknown} : link' = [link EXCEPT !.medium = m, !.priv = Initialised]
    BY <1>6 DEF ReadPartner
  <2>2. /\ link'.autoneg = link.autoneg /\ link'.adv = link.adv
        /\ link' \in [autoneg : BOOLEAN, adv : SUBSET Modes, pause : BOOLEAN, ready : BOOLEAN,
                      priv : BOOLEAN, medium : Media \cup {HalfGig, OddSpeed, Unknown}]
    BY <1>1, <1>2, <2>1
  <2> QED
    BY <1>3, <1>6, <2>2 DEF ReadPartner
<1> QED
  BY <1>4, <1>5, <1>6 DEF ReadPartner

\* What the steps that only decide how the call goes on do.
LEMMA DecideStep ==
  ASSUME TypeOK, CheckAneg \/ Validate \/ WriteMgFails
  PROVE  /\ call.pc \in {"check", "force", "mg"}
         /\ call'.pc \in {"check", "restart", "force_an", "return"}
         /\ call' \in [fn : Functions, pc : PC, changed : BOOLEAN, ok : BOOLEAN, owed : BOOLEAN]
         /\ failed' \in BOOLEAN
         /\ UNCHANGED <<link, reg, sent>>
<1>1. CASE CheckAneg
  BY <1>1 DEF CheckAneg, Goto, Return, TypeOK, PC
<1>2. CASE Validate
  BY <1>2 DEF Validate, Goto, Return, TypeOK, PC
<1>3. CASE WriteMgFails
  <2>1. PICK changed \in BOOLEAN : AdvertDone(changed)
    BY <1>3 DEF WriteMgFails
  <2>2. call' = [call EXCEPT !.changed = changed, !.ok = TRUE, !.pc = call'.pc]
        /\ call'.pc \in {"return", "restart", "check"}
    BY <2>1 DEF AdvertDone, TypeOK
  <2> QED
    BY <1>3, <2>2 DEF WriteMgFails, TypeOK, PC
<1> QED
  BY <1>1, <1>2, <1>3

\* The look at STD_CTRL leads to the restart or to the end of the call.
LEMMA CheckStep ==
  ASSUME TypeOK, CheckAneg
  PROVE  /\ call.pc = "check" /\ call'.pc \in {"restart", "return"}
         /\ call'.fn = call.fn /\ call'.owed = call.owed /\ call'.changed = call.changed
         /\ UNCHANGED <<link, reg, sent, failed>>
<1>1. CASE call'.pc = "restart"
  BY <1>1 DEF CheckAneg, Goto, Return, TypeOK
<1>2. CASE call'.pc # "restart"
  BY <1>2 DEF CheckAneg, Goto, Return, TypeOK
<1> QED
  BY <1>1, <1>2

\* The validation lets only media pass that can be forced.
LEMMA ValidateStep ==
  ASSUME TypeOK, Validate
  PROVE  /\ call.pc = "force" /\ call'.pc \in {"force_an", "return"}
         /\ call'.fn = call.fn /\ call'.owed = call.owed
         /\ call'.pc = "force_an" => link.medium \in Media \cup {OddSpeed}
         /\ UNCHANGED <<link, reg, sent, failed>>
<1>1. link.medium \in Media \cup {HalfGig, OddSpeed, Unknown}
  BY DEF TypeOK
<1>2. CASE link.medium \in {Unknown, HalfGig}
  BY <1>2 DEF Validate, Goto, Return, TypeOK
<1>3. CASE link.medium \notin {Unknown, HalfGig}
  BY <1>1, <1>3 DEF Validate, Goto, Return, TypeOK
<1> QED
  BY <1>2, <1>3

\* How negotiation is switched off.
LEMMA ForceCtrlStep ==
  ASSUME TypeOK, ForceCtrl
  PROVE  /\ call.pc = "force_ctrl" /\ call'.fn = call.fn /\ call'.owed = call.owed
         /\ ~reg'.anen /\ sent' = {}
         /\ reg'.an = reg.an /\ reg'.g = reg.g /\ reg'.mg = reg.mg
         /\ \/ call'.pc = "force_ms" /\ reg'.medium = link.medium
               /\ link.medium \in AnMedia \cup GMedia
            \/ call'.pc = "force_pma" /\ reg'.medium = reg.medium /\ link.medium \in MgMedia
         /\ reg' = [reg EXCEPT !.anen = FALSE, !.medium = reg'.medium]
         /\ call' = [call EXCEPT !.pc = call'.pc]
         /\ UNCHANGED <<link, failed>>
<1>0. call' = [call EXCEPT !.pc = call'.pc] /\ call'.fn = call.fn /\ call'.owed = call.owed
  BY DEF ForceCtrl, Goto, TypeOK
<1>1. CASE /\ link.medium \in AnMedia \cup GMedia /\ Goto("force_ms")
           /\ reg' = [reg EXCEPT !.anen = FALSE, !.medium = link.medium]
  BY <1>0, <1>1 DEF ForceCtrl, Goto, TypeOK
<1>2. CASE /\ link.medium \in MgMedia /\ Goto("force_pma")
           /\ reg' = [reg EXCEPT !.anen = FALSE]
  BY <1>0, <1>2 DEF ForceCtrl, Goto, TypeOK
<1> QED
  BY <1>1, <1>2 DEF ForceCtrl

\* The way of a call through its steps.
LEMMA PathStep ==
  ASSUME Const, TypeOK, Path, [Next]_vars
  PROVE  Path'
<1> USE DEF Path, AdvertPC, ForcePC, TypeOK, Goto, Return
<1>1. CASE \E r \in Requests : Ask(r)
  BY <1>1 DEF Ask
<1>2. CASE \E fn \in Functions : Call(fn)
  BY <1>2, CallStep DEF Entry, Functions
<1>3. CASE End
  BY <1>3 DEF End
<1>4. CASE Uninit
  BY <1>4 DEF Uninit
<1>5. CASE Fail
  BY <1>5 DEF Fail, ForcedMg
<1>6. CASE InitCtrl
  BY <1>6 DEF InitCtrl
<1>7. CASE ReadAdvertising
  BY <1>7 DEF ReadAdvertising
<1>8. CASE SetImask
  BY <1>8 DEF SetImask
<1>9. CASE ClearStatus
  BY <1>9 DEF ClearStatus
<1>10. CASE ReadPartner
  BY <1>10, StatusStep
<1>11. CASE ReadForced
  BY <1>11, StatusStep
<1>12. CASE SoftReset
  BY <1>12 DEF SoftReset
<1>13. CASE MaskAdvert
  BY <1>13 DEF MaskAdvert
<1>14. CASE WriteAn
  BY <1>14 DEF WriteAn
<1>15. CASE WriteG
  BY <1>15 DEF WriteG
<1>16. CASE WriteMg
  BY <1>16 DEF WriteMg, AdvertDone
<1>17. CASE WriteMgFails
  BY <1>17 DEF WriteMgFails, AdvertDone
<1>18. CASE CheckAneg
  BY <1>18, CheckStep
<1>19. CASE RestartAneg
  BY <1>19 DEF RestartAneg
<1>20. CASE Validate
  BY <1>20, ValidateStep
<1>21. CASE ForceAn
  BY <1>21 DEF ForceAn
<1>22. CASE ForceCtrl
  BY <1>22, ForceCtrlStep
<1>23. CASE ForcePma
  BY <1>23 DEF ForcePma, ForcedMg
<1>24. CASE ForceManual
  BY <1>24 DEF ForceManual
<1>25. CASE ResetDone
  BY <1>25 DEF ResetDone, DefaultReg
<1>26. CASE Relink
  BY <1>26 DEF Relink
<1>27. CASE UNCHANGED vars
  BY <1>27 DEF vars
<1>28. CASE RefuseSpeed
  BY <1>28 DEF RefuseSpeed
<1> QED
  BY <1>1, <1>2, <1>3, <1>4, <1>5, <1>6, <1>7, <1>8, <1>9, <1>10, <1>11, <1>12, <1>13, <1>14,
     <1>15, <1>16, <1>17, <1>18, <1>19, <1>20, <1>21, <1>22, <1>23, <1>24, <1>25, <1>26, <1>27, <1>28
     DEF Next

\* The types; only a medium that passed the validation is forced.
LEMMA TypeStep ==
  ASSUME Const, TypeOK, Forcing, [Next]_vars
  PROVE  TypeOK'
<1> USE DEF PC, TypeOK, Goto, Return
<1>1. CASE \E r \in Requests : Ask(r)
  <2>1. PICK r \in Requests : Ask(r)
    BY <1>1
  <2>2. r \in [autoneg : BOOLEAN, adv : SUBSET Modes, pause : BOOLEAN,
              medium : Media \cup {HalfGig, OddSpeed, Unknown}]
    BY DEF RequestAssumption, Const
  <2>3. link' = [link EXCEPT !.autoneg = r.autoneg, !.adv = r.adv, !.pause = r.pause,
                             !.medium = r.medium]
        /\ UNCHANGED <<reg, sent, call, failed>>
    BY <2>1 DEF Ask
  <2>4. r.autoneg \in BOOLEAN /\ r.adv \in SUBSET Modes /\ r.pause \in BOOLEAN
        /\ r.medium \in Media \cup {HalfGig, OddSpeed, Unknown}
    BY <2>2
  <2>5. link' \in [autoneg : BOOLEAN, adv : SUBSET Modes, pause : BOOLEAN, ready : BOOLEAN,
                   priv : BOOLEAN, medium : Media \cup {HalfGig, OddSpeed, Unknown}]
    BY <2>3, <2>4
  <2> QED
    BY <2>3, <2>5
<1>2. CASE \E fn \in Functions : Call(fn)
  BY <1>2, CallStep DEF Entry, Functions
<1>3. CASE End
  BY ZenonT(40), <1>3 DEF End
<1>4. CASE Uninit
  BY <1>4 DEF Uninit
<1>5. CASE Fail
  <2>1. ForcedMg \in Media
    BY DEF ForcedMg, Media, Const, MediaAssumption
  <2> QED
    BY <1>5, <2>1 DEF Fail
<1>6. CASE InitCtrl
  BY <1>6 DEF InitCtrl
<1>7. CASE ReadAdvertising
  BY <1>7 DEF ReadAdvertising, Modes, Media
<1>8. CASE SetImask
  BY ZenonT(40), <1>8 DEF SetImask
<1>9. CASE ClearStatus
  BY <1>9 DEF ClearStatus
<1>10. CASE ReadPartner
  BY <1>10, StatusStep
<1>11. CASE ReadForced
  BY <1>11, StatusStep
<1>12. CASE SoftReset
  BY <1>12 DEF SoftReset
<1>13. CASE MaskAdvert
  BY <1>13 DEF MaskAdvert
<1>14. CASE WriteAn
  BY <1>14 DEF WriteAn
<1>15. CASE WriteG
  BY <1>15 DEF WriteG
<1>16. CASE WriteMg
  BY <1>16 DEF WriteMg, AdvertDone
<1>17. CASE WriteMgFails
  BY <1>17, DecideStep
<1>18. CASE CheckAneg
  BY <1>18, DecideStep
<1>19. CASE RestartAneg
  BY <1>19 DEF RestartAneg, Offer, Modes, Media
<1>20. CASE Validate
  BY <1>20, DecideStep
<1>21. CASE ForceAn
  BY <1>21 DEF ForceAn
<1>22. CASE ForceCtrl
  <2>1. reg'.medium \in Media
    BY <1>22, ForceCtrlStep DEF Forcing, Media
  <2> QED
    BY <1>22, <2>1, ForceCtrlStep
<1>23. CASE ForcePma
  BY <1>23 DEF ForcePma, ForcedMg, Media, Const, MediaAssumption
<1>24. CASE ForceManual
  BY <1>24 DEF ForceManual
<1>25. CASE ResetDone
  BY <1>25 DEF ResetDone, DefaultReg, Media, Modes, Const, SupportedAssumption,
               MediaAssumption, Offer
<1>26. CASE Relink
  BY <1>26 DEF Relink, Offer, Modes, Media
<1>27. CASE UNCHANGED vars
  BY <1>27 DEF vars
<1>28. CASE RefuseSpeed
  BY <1>28 DEF RefuseSpeed
<1> QED
  BY <1>1, <1>2, <1>3, <1>4, <1>5, <1>6, <1>7, <1>8, <1>9, <1>10, <1>11, <1>12, <1>13, <1>14,
     <1>15, <1>16, <1>17, <1>18, <1>19, <1>20, <1>21, <1>22, <1>23, <1>24, <1>25, <1>26, <1>27, <1>28
     DEF Next

\* The mask with link.supported, and what it protects.
LEMMA MaskedStep ==
  ASSUME Const, TypeOK, Path, Masked, [Next]_vars
  PROVE  Masked'
<1> USE DEF Masked, Path, AdvertPC, Modes, Media, Offer, Const, MediaAssumption,
            TypeOK, Goto, Return
<1>1. CASE \E r \in Requests : Ask(r)
  <2>1. PICK r \in Requests : Ask(r)
    BY <1>1
  <2>2. UNCHANGED <<reg, sent, call>> /\ call.pc \notin {"an", "g", "mg"}
    BY <2>1 DEF Ask
  <2> QED
    BY <2>2
<1>2. CASE \E fn \in Functions : Call(fn)
  BY <1>2, CallStep DEF Entry, Functions
<1>3. CASE End
  BY <1>3 DEF End
<1>4. CASE Uninit
  BY <1>4 DEF Uninit
<1>5. CASE Fail
  BY <1>5 DEF Fail, ForcedMg
<1>6. CASE InitCtrl
  BY <1>6 DEF InitCtrl
<1>7. CASE ReadAdvertising
  BY <1>7 DEF ReadAdvertising
<1>8. CASE SetImask
  BY <1>8 DEF SetImask
<1>9. CASE ClearStatus
  BY <1>9 DEF ClearStatus
<1>10. CASE ReadPartner
  BY <1>10, StatusStep
<1>11. CASE ReadForced
  BY <1>11, StatusStep
<1>12. CASE SoftReset
  BY <1>12 DEF SoftReset
<1>13. CASE MaskAdvert
  BY <1>13 DEF MaskAdvert
<1>14. CASE WriteAn
  BY <1>14 DEF WriteAn
<1>15. CASE WriteG
  BY <1>15 DEF WriteG
<1>16. CASE WriteMg
  BY <1>16 DEF WriteMg, AdvertDone
<1>17. CASE WriteMgFails
  BY <1>17, DecideStep
<1>18. CASE CheckAneg
  BY <1>18, DecideStep
<1>19. CASE RestartAneg
  BY <1>19 DEF RestartAneg
<1>20. CASE Validate
  BY <1>20, DecideStep
<1>21. CASE ForceAn
  BY <1>21 DEF ForceAn
<1>22. CASE ForceCtrl
  <2> HIDE DEF Masked, Path, Modes, Media, Offer, Const, MediaAssumption
  <2>1. reg'.an = reg.an /\ reg'.g = reg.g /\ reg'.mg = reg.mg /\ sent' = {}
        /\ call'.pc \in {"force_ms", "force_pma"}
    BY <1>22 DEF ForceCtrl
  <2> QED
    BY <2>1 DEF Masked, Path, AdvertPC
<1>23. CASE ForcePma
  BY <1>23 DEF ForcePma, ForcedMg
<1>24. CASE ForceManual
  BY <1>24 DEF ForceManual
<1>25. CASE ResetDone
  BY <1>25 DEF ResetDone, DefaultReg
<1>26. CASE Relink
  BY <1>26 DEF Relink
<1>27. CASE UNCHANGED vars
  BY <1>27 DEF vars
<1>28. CASE RefuseSpeed
  BY <1>28 DEF RefuseSpeed
<1> QED
  BY <1>1, <1>2, <1>3, <1>4, <1>5, <1>6, <1>7, <1>8, <1>9, <1>10, <1>11, <1>12, <1>13, <1>14,
     <1>15, <1>16, <1>17, <1>18, <1>19, <1>20, <1>21, <1>22, <1>23, <1>24, <1>25, <1>26, <1>27, <1>28
     DEF Next

\* Forcing a medium, step by step.
LEMMA ForcingStep ==
  ASSUME Const, TypeOK, Path, Forcing, [Next]_vars
  PROVE  Forcing'
<1> USE DEF Forcing, Path, AdvertPC, ForcePC, Media, Const, MediaAssumption, TypeOK, Goto, Return
<1>1. CASE \E r \in Requests : Ask(r)
  BY <1>1 DEF Ask
<1>2. CASE \E fn \in Functions : Call(fn)
  BY <1>2, CallStep DEF Entry, Functions
<1>3. CASE End
  BY <1>3 DEF End
<1>4. CASE Uninit
  BY <1>4 DEF Uninit
<1>5. CASE Fail
  BY <1>5 DEF Fail, ForcedMg
<1>6. CASE InitCtrl
  BY <1>6 DEF InitCtrl
<1>7. CASE ReadAdvertising
  BY <1>7 DEF ReadAdvertising
<1>8. CASE SetImask
  BY <1>8 DEF SetImask
<1>9. CASE ClearStatus
  BY <1>9 DEF ClearStatus
<1>10. CASE ReadPartner
  BY <1>10, StatusStep
<1>11. CASE ReadForced
  BY <1>11, StatusStep
<1>12. CASE SoftReset
  BY <1>12 DEF SoftReset
<1>13. CASE MaskAdvert
  BY <1>13 DEF MaskAdvert
<1>14. CASE WriteAn
  BY <1>14 DEF WriteAn
<1>15. CASE WriteG
  BY <1>15 DEF WriteG
<1>16. CASE WriteMg
  BY <1>16 DEF WriteMg, AdvertDone
<1>17. CASE WriteMgFails
  BY <1>17 DEF WriteMgFails, AdvertDone
<1>18. CASE CheckAneg
  BY <1>18, CheckStep
<1>19. CASE RestartAneg
  BY <1>19 DEF RestartAneg
<1>20. CASE Validate
  BY <1>20, ValidateStep
<1>21. CASE ForceAn
  BY <1>21 DEF ForceAn
<1>22. CASE ForceCtrl
  BY <1>22, ForceCtrlStep
<1>23. CASE ForcePma
  BY <1>23 DEF ForcePma, ForcedMg
<1>24. CASE ForceManual
  BY <1>24 DEF ForceManual
<1>25. CASE ResetDone
  BY <1>25 DEF ResetDone, DefaultReg
<1>26. CASE Relink
  BY <1>26 DEF Relink
<1>27. CASE UNCHANGED vars
  BY <1>27 DEF vars
<1>28. CASE RefuseSpeed
  BY <1>28 DEF RefuseSpeed
<1> QED
  BY <1>1, <1>2, <1>3, <1>4, <1>5, <1>6, <1>7, <1>8, <1>9, <1>10, <1>11, <1>12, <1>13, <1>14,
     <1>15, <1>16, <1>17, <1>18, <1>19, <1>20, <1>21, <1>22, <1>23, <1>24, <1>25, <1>26, <1>27, <1>28
     DEF Next

\* A negotiating link, as gpy2xx_config_aneg leaves it.
LEMMA NegotiatingStep ==
  ASSUME Const, TypeOK, Path, SuccessMeansNegotiating, [Next]_vars
  PROVE  SuccessMeansNegotiating'
<1> USE DEF SuccessMeansNegotiating, Succeeded, Path, AdvertPC, ForcePC, TypeOK, Goto, Return
<1>1. CASE \E r \in Requests : Ask(r)
  BY <1>1 DEF Ask
<1>2. CASE \E fn \in Functions : Call(fn)
  BY <1>2, CallStep DEF Entry, Functions
<1>3. CASE End
  BY <1>3 DEF End
<1>4. CASE Uninit
  BY <1>4 DEF Uninit
<1>5. CASE Fail
  BY <1>5 DEF Fail, ForcedMg
<1>6. CASE InitCtrl
  BY <1>6 DEF InitCtrl
<1>7. CASE ReadAdvertising
  BY <1>7 DEF ReadAdvertising
<1>8. CASE SetImask
  BY <1>8 DEF SetImask
<1>9. CASE ClearStatus
  BY <1>9 DEF ClearStatus
<1>10. CASE ReadPartner
  BY <1>10, StatusStep
<1>11. CASE ReadForced
  BY <1>11, StatusStep
<1>12. CASE SoftReset
  BY <1>12 DEF SoftReset
<1>13. CASE MaskAdvert
  BY <1>13 DEF MaskAdvert
<1>14. CASE WriteAn
  BY <1>14 DEF WriteAn
<1>15. CASE WriteG
  BY <1>15 DEF WriteG
<1>16. CASE WriteMg
  BY <1>16 DEF WriteMg, AdvertDone
<1>17. CASE WriteMgFails
  BY <1>17 DEF WriteMgFails, AdvertDone
<1>18. CASE CheckAneg
  BY <1>18 DEF CheckAneg
<1>19. CASE RestartAneg
  BY <1>19 DEF RestartAneg
<1>20. CASE Validate
  BY <1>20 DEF Validate
<1>21. CASE ForceAn
  BY <1>21 DEF ForceAn
<1>22. CASE ForceCtrl
  BY <1>22 DEF ForceCtrl
<1>23. CASE ForcePma
  BY <1>23 DEF ForcePma, ForcedMg
<1>24. CASE ForceManual
  BY <1>24 DEF ForceManual
<1>25. CASE ResetDone
  BY <1>25 DEF ResetDone, DefaultReg
<1>26. CASE Relink
  BY <1>26 DEF Relink
<1>27. CASE UNCHANGED vars
  BY <1>27 DEF vars
<1>28. CASE RefuseSpeed
  BY <1>28 DEF RefuseSpeed
<1> QED
  BY <1>1, <1>2, <1>3, <1>4, <1>5, <1>6, <1>7, <1>8, <1>9, <1>10, <1>11, <1>12, <1>13, <1>14,
     <1>15, <1>16, <1>17, <1>18, <1>19, <1>20, <1>21, <1>22, <1>23, <1>24, <1>25, <1>26, <1>27, <1>28
     DEF Next

\* A forced link, as gpy2xx_setup_forced leaves it.
LEMMA ForcedStep ==
  ASSUME Const, TypeOK, Path, Forcing, SuccessMeansForced, [Next]_vars
  PROVE  SuccessMeansForced'
<1> USE DEF SuccessMeansForced, Succeeded, Forcing, Path, AdvertPC, ForcePC, TypeOK, Goto, Return
<1>1. CASE \E r \in Requests : Ask(r)
  BY <1>1 DEF Ask
<1>2. CASE \E fn \in Functions : Call(fn)
  BY <1>2, CallStep DEF Entry, Functions
<1>3. CASE End
  BY <1>3 DEF End
<1>4. CASE Uninit
  BY <1>4 DEF Uninit
<1>5. CASE Fail
  BY <1>5 DEF Fail, ForcedMg
<1>6. CASE InitCtrl
  BY <1>6 DEF InitCtrl
<1>7. CASE ReadAdvertising
  BY <1>7 DEF ReadAdvertising
<1>8. CASE SetImask
  BY <1>8 DEF SetImask
<1>9. CASE ClearStatus
  BY <1>9 DEF ClearStatus
<1>10. CASE ReadPartner
  BY <1>10, StatusStep
<1>11. CASE ReadForced
  BY <1>11, StatusStep
<1>12. CASE SoftReset
  BY <1>12 DEF SoftReset
<1>13. CASE MaskAdvert
  BY <1>13 DEF MaskAdvert
<1>14. CASE WriteAn
  BY <1>14 DEF WriteAn
<1>15. CASE WriteG
  BY <1>15 DEF WriteG
<1>16. CASE WriteMg
  BY <1>16 DEF WriteMg, AdvertDone
<1>17. CASE WriteMgFails
  BY <1>17 DEF WriteMgFails, AdvertDone
<1>18. CASE CheckAneg
  BY <1>18 DEF CheckAneg
<1>19. CASE RestartAneg
  BY <1>19 DEF RestartAneg
<1>20. CASE Validate
  BY <1>20 DEF Validate
<1>21. CASE ForceAn
  BY <1>21 DEF ForceAn
<1>22. CASE ForceCtrl
  BY <1>22 DEF ForceCtrl
<1>23. CASE ForcePma
  BY <1>23 DEF ForcePma, ForcedMg
<1>24. CASE ForceManual
  BY <1>24 DEF ForceManual
<1>25. CASE ResetDone
  BY <1>25 DEF ResetDone, DefaultReg
<1>26. CASE Relink
  BY <1>26 DEF Relink
<1>27. CASE UNCHANGED vars
  BY <1>27 DEF vars
<1>28. CASE RefuseSpeed
  BY <1>28 DEF RefuseSpeed
<1> QED
  BY <1>1, <1>2, <1>3, <1>4, <1>5, <1>6, <1>7, <1>8, <1>9, <1>10, <1>11, <1>12, <1>13, <1>14,
     <1>15, <1>16, <1>17, <1>18, <1>19, <1>20, <1>21, <1>22, <1>23, <1>24, <1>25, <1>26, <1>27, <1>28
     DEF Next

\* The request gets to the registers.
LEMMA WrittenStep ==
  ASSUME Const, TypeOK, Path, Masked, ~failed => Written, ~failed', [Next]_vars
  PROVE  Written'
<1> USE DEF Written, Masked, Path, AdvertPC, ForcePC, Modes, Media, Offer, TypeOK, Goto, Return
<1>1. CASE \E r \in Requests : Ask(r)
  BY <1>1 DEF Ask
<1>2. CASE \E fn \in Functions : Call(fn)
  BY <1>2, CallStep DEF Entry, Functions
<1>3. CASE End
  BY <1>3 DEF End
<1>4. CASE Uninit
  BY <1>4 DEF Uninit
<1>5. CASE Fail
  BY <1>5 DEF Fail, ForcedMg
<1>6. CASE InitCtrl
  BY <1>6 DEF InitCtrl
<1>7. CASE ReadAdvertising
  BY <1>7 DEF ReadAdvertising
<1>8. CASE SetImask
  BY <1>8 DEF SetImask
<1>9. CASE ClearStatus
  BY <1>9 DEF ClearStatus
<1>10. CASE ReadPartner
  BY <1>10, StatusStep
<1>11. CASE ReadForced
  BY <1>11, StatusStep
<1>12. CASE SoftReset
  BY <1>12 DEF SoftReset
<1>13. CASE MaskAdvert
  BY <1>13 DEF MaskAdvert
<1>14. CASE WriteAn
  BY <1>14 DEF WriteAn
<1>15. CASE WriteG
  BY <1>15 DEF WriteG
<1>16. CASE WriteMg
  BY <1>16 DEF WriteMg, AdvertDone
<1>17. CASE WriteMgFails
  BY <1>17 DEF WriteMgFails, AdvertDone
<1>18. CASE CheckAneg
  BY ZenonT(40), <1>18 DEF CheckAneg
<1>19. CASE RestartAneg
  BY <1>19 DEF RestartAneg
<1>20. CASE Validate
  BY ZenonT(40), <1>20 DEF Validate
<1>21. CASE ForceAn
  BY <1>21 DEF ForceAn
<1>22. CASE ForceCtrl
  BY <1>22 DEF ForceCtrl
<1>23. CASE ForcePma
  BY <1>23 DEF ForcePma, ForcedMg
<1>24. CASE ForceManual
  BY <1>24 DEF ForceManual
<1>25. CASE ResetDone
  BY <1>25 DEF ResetDone, DefaultReg
<1>26. CASE Relink
  BY <1>26 DEF Relink
<1>27. CASE UNCHANGED vars
  BY <1>27 DEF vars
<1>28. CASE RefuseSpeed
  BY <1>28 DEF RefuseSpeed
<1> QED
  BY <1>1, <1>2, <1>3, <1>4, <1>5, <1>6, <1>7, <1>8, <1>9, <1>10, <1>11, <1>12, <1>13, <1>14,
     <1>15, <1>16, <1>17, <1>18, <1>19, <1>20, <1>21, <1>22, <1>23, <1>24, <1>25, <1>26, <1>27, <1>28
     DEF Next

\* The restart that a change of the registers calls for.
LEMMA SyncedStep ==
  ASSUME Const, TypeOK, Path, ~failed => Written /\ Synced, ~failed', [Next]_vars
  PROVE  Synced'
<1> USE DEF Synced, Succeeded, Path, AdvertPC, ForcePC, Offer, TypeOK, Goto, Return
<1>1. CASE \E r \in Requests : Ask(r)
  BY <1>1 DEF Ask
<1>2. CASE \E fn \in Functions : Call(fn)
  BY <1>2, CallStep DEF Entry, Functions
<1>3. CASE End
  <2>1. call.pc = "return" /\ call'.pc \in {"idle", "resetting"} /\ UNCHANGED <<reg, sent, failed>>
        /\ call'.changed = FALSE /\ call'.ok = TRUE
    BY <1>3 DEF End
  <2>2. CASE call.ok /\ call.fn = "config_advert"
    <3>1. call'.owed = (call.owed \/ call.changed) /\ call'.pc = "idle"
      BY <1>3, <2>2 DEF End
    <3>2. reg.anen /\ ~reg.isol /\ ~call.owed /\ ~call.changed => sent = Offer(reg)
      BY <2>1, <2>2
    <3> QED
      BY <2>1, <3>1, <3>2
  <2>3. CASE call.ok /\ call.fn = "soft_reset"
    <3>1. call'.pc = "resetting"
      BY <1>3, <2>3 DEF End
    <3> QED
      BY <2>1, <3>1
  <2>4. CASE call.ok /\ call.fn = "restart_aneg"
    <3>1. reg.anen /\ ~reg.isol => sent = Offer(reg)
      BY <2>1, <2>4
    <3> QED
      BY <2>1, <3>1
  <2>5. CASE ~call.ok \/ call.fn \notin {"config_advert", "soft_reset", "restart_aneg"}
    <3>1. call'.owed = call.owed
      BY <1>3, <2>5 DEF End
    <3>2. reg.anen /\ ~reg.isol /\ ~call.owed => sent = Offer(reg)
      BY <2>1, <2>5
    <3> QED
      BY <2>1, <3>1, <3>2
  <2> QED
    BY <2>2, <2>3, <2>4, <2>5
<1>4. CASE Uninit
  BY <1>4 DEF Uninit
<1>5. CASE Fail
  BY <1>5 DEF Fail, ForcedMg
<1>6. CASE InitCtrl
  BY <1>6 DEF InitCtrl
<1>7. CASE ReadAdvertising
  BY <1>7 DEF ReadAdvertising
<1>8. CASE SetImask
  BY <1>8 DEF SetImask
<1>9. CASE ClearStatus
  BY <1>9 DEF ClearStatus
<1>10. CASE ReadPartner
  BY <1>10, StatusStep
<1>11. CASE ReadForced
  BY <1>11, StatusStep
<1>12. CASE SoftReset
  BY <1>12 DEF SoftReset
<1>13. CASE MaskAdvert
  BY <1>13 DEF MaskAdvert
<1>14. CASE WriteAn
  BY <1>14 DEF WriteAn
<1>15. CASE WriteG
  BY <1>15 DEF WriteG
<1>16. CASE WriteMg
  BY <1>16 DEF WriteMg, AdvertDone
<1>17. CASE WriteMgFails
  BY <1>17 DEF WriteMgFails, AdvertDone
<1>18. CASE CheckAneg
  BY <1>18 DEF CheckAneg
<1>19. CASE RestartAneg
  BY <1>19 DEF RestartAneg
<1>20. CASE Validate
  <2>1. /\ call.pc = "force" /\ call.fn = call'.fn /\ call'.owed = call.owed
        /\ call'.changed = call.changed /\ call'.pc \in {"return", "force_an"}
        /\ UNCHANGED <<reg, sent, failed>>
    BY <1>20 DEF Validate
  <2>2. call.fn \in {"setup_forced", "config_aneg"}
    BY <2>1
  <2>3. CASE call'.pc = "force_an"
    BY <2>1, <2>3
  <2>4. CASE call'.pc = "return"
    BY <2>1, <2>2, <2>4
  <2> QED
    BY <2>1, <2>3, <2>4
<1>21. CASE ForceAn
  BY <1>21 DEF ForceAn
<1>22. CASE ForceCtrl
  BY <1>22 DEF ForceCtrl
<1>23. CASE ForcePma
  BY <1>23 DEF ForcePma, ForcedMg
<1>24. CASE ForceManual
  BY <1>24 DEF ForceManual
<1>25. CASE ResetDone
  BY <1>25 DEF ResetDone, DefaultReg
<1>26. CASE Relink
  BY <1>26 DEF Relink
<1>27. CASE UNCHANGED vars
  BY <1>27 DEF vars
<1>28. CASE RefuseSpeed
  BY <1>28 DEF RefuseSpeed
<1> QED
  BY <1>1, <1>2, <1>3, <1>4, <1>5, <1>6, <1>7, <1>8, <1>9, <1>10, <1>11, <1>12, <1>13, <1>14,
     <1>15, <1>16, <1>17, <1>18, <1>19, <1>20, <1>21, <1>22, <1>23, <1>24, <1>25, <1>26, <1>27, <1>28
     DEF Next

\* What the partner has been offered when gpy2xx_config_aneg returns.
LEMMA OfferedStep ==
  ASSUME Const, TypeOK, Path, ~failed => Written /\ Synced /\ SuccessMeansOffered, ~failed',
         [Next]_vars
  PROVE  SuccessMeansOffered'
<1> USE DEF SuccessMeansOffered, Succeeded, Written, Synced, Path, AdvertPC, ForcePC, Offer,
            TypeOK, Goto, Return
<1>1. CASE \E r \in Requests : Ask(r)
  BY <1>1 DEF Ask
<1>2. CASE \E fn \in Functions : Call(fn)
  BY <1>2, CallStep DEF Entry, Functions
<1>3. CASE End
  BY <1>3 DEF End
<1>4. CASE Uninit
  BY <1>4 DEF Uninit
<1>5. CASE Fail
  BY <1>5 DEF Fail, ForcedMg
<1>6. CASE InitCtrl
  BY <1>6 DEF InitCtrl
<1>7. CASE ReadAdvertising
  BY <1>7 DEF ReadAdvertising
<1>8. CASE SetImask
  BY <1>8 DEF SetImask
<1>9. CASE ClearStatus
  BY <1>9 DEF ClearStatus
<1>10. CASE ReadPartner
  BY <1>10, StatusStep
<1>11. CASE ReadForced
  BY <1>11, StatusStep
<1>12. CASE SoftReset
  BY <1>12 DEF SoftReset
<1>13. CASE MaskAdvert
  BY <1>13 DEF MaskAdvert
<1>14. CASE WriteAn
  BY <1>14 DEF WriteAn
<1>15. CASE WriteG
  BY <1>15 DEF WriteG
<1>16. CASE WriteMg
  BY <1>16 DEF WriteMg, AdvertDone
<1>17. CASE WriteMgFails
  BY <1>17 DEF WriteMgFails, AdvertDone
<1>18. CASE CheckAneg
  BY <1>18 DEF CheckAneg
<1>19. CASE RestartAneg
  BY <1>19 DEF RestartAneg
<1>20. CASE Validate
  BY <1>20 DEF Validate
<1>21. CASE ForceAn
  BY <1>21 DEF ForceAn
<1>22. CASE ForceCtrl
  BY <1>22 DEF ForceCtrl
<1>23. CASE ForcePma
  BY <1>23 DEF ForcePma, ForcedMg
<1>24. CASE ForceManual
  BY <1>24 DEF ForceManual
<1>25. CASE ResetDone
  BY <1>25 DEF ResetDone, DefaultReg
<1>26. CASE Relink
  BY <1>26 DEF Relink
<1>27. CASE UNCHANGED vars
  BY <1>27 DEF vars
<1>28. CASE RefuseSpeed
  BY <1>28 DEF RefuseSpeed
<1> QED
  BY <1>1, <1>2, <1>3, <1>4, <1>5, <1>6, <1>7, <1>8, <1>9, <1>10, <1>11, <1>12, <1>13, <1>14,
     <1>15, <1>16, <1>17, <1>18, <1>19, <1>20, <1>21, <1>22, <1>23, <1>24, <1>25, <1>26, <1>27, <1>28
     DEF Next

LEMMA Start == ASSUME Const, Init PROVE IInv
<1>1. /\ link = [autoneg |-> FALSE, adv |-> {}, pause |-> FALSE, medium |-> Unknown,
                 ready |-> FALSE, priv |-> FALSE]
      /\ call = [fn |-> "init", pc |-> "idle", changed |-> FALSE, ok |-> TRUE, owed |-> FALSE]
      /\ failed = FALSE
  BY DEF Init
<1>2. PICK e \in BOOLEAN, i \in BOOLEAN : reg = [DefaultReg EXCEPT !.anen = e, !.isol = i]
  BY DEF Init
<1>3. /\ reg = [an |-> Supported \cap (AnMedia \cup {Pause}), g |-> Supported \cap GMedia,
                mg |-> Supported \cap MgMedia, manual |-> FALSE, anen |-> e, isol |-> i,
                medium |-> TwoFiveG]
      /\ sent = IF e THEN Offer(reg) ELSE {}
  <2>1. sent = IF reg.anen THEN Offer(reg) ELSE {}
    BY DEF Init
  <2> QED
    BY <1>2, <2>1 DEF DefaultReg
<1>4. TypeOK
  BY <1>1, <1>3 DEF TypeOK, Offer, Functions, PC, Modes, Media, Const, MediaAssumption,
                    SupportedAssumption
<1>5. Path /\ Forcing
  BY <1>1 DEF Path, AdvertPC, ForcePC, Forcing
<1>6. Masked
  <2>1. /\ reg.an \cap Media \subseteq Supported
        /\ reg.g \subseteq Supported /\ reg.mg \subseteq Supported
    BY <1>3 DEF Const, MediaAssumption
  <2>2. sent \subseteq Offer(reg)
    BY <1>3 DEF Offer
  <2>3. sent \cap Media \subseteq Supported
    BY <2>1, <2>2 DEF Offer
  <2> QED
    BY <1>1, <2>1, <2>3 DEF Masked
<1>7. SuccessMeansNegotiating /\ SuccessMeansForced /\ SuccessMeansOffered
  BY <1>1 DEF SuccessMeansNegotiating, SuccessMeansForced, SuccessMeansOffered, Succeeded
<1>8. Written /\ Synced
  BY <1>1, <1>3 DEF Written, Synced, Succeeded
<1> QED
  BY <1>4, <1>5, <1>6, <1>7, <1>8 DEF IInv

LEMMA Step == ASSUME Const, IInv, [Next]_vars PROVE IInv'
<1> USE DEF IInv
<1>1. TypeOK'
  BY TypeStep
<1>2. Path'
  BY PathStep
<1>3. Masked'
  BY MaskedStep
<1>4. Forcing'
  BY ForcingStep
<1>5. SuccessMeansNegotiating'
  BY NegotiatingStep
<1>6. SuccessMeansForced'
  BY ForcedStep
<1>7. ASSUME ~failed' PROVE Written' /\ Synced' /\ SuccessMeansOffered'
  BY <1>7, WrittenStep, SyncedStep, OfferedStep
<1> QED
  BY <1>1, <1>2, <1>3, <1>4, <1>5, <1>6, <1>7

\* PhyLink assumes all of Const.
LEMMA ConstHolds == Const
BY MediaAssumption, SupportedAssumption, RequestAssumption, FlagAssumption DEF Const

LEMMA Invariance == Spec => []IInv
<1>1. Init => IInv
  BY Start, ConstHolds
<1>2. IInv /\ [Next]_vars => IInv'
  BY Step, ConstHolds
<1> QED
  BY <1>1, <1>2, PTL DEF Spec

-----------------------------------------------------------------------------
(* What holds of every link                                                 *)

\* The state has its types in every behaviour, for any media and requests:
\* __gpy211_setup_forced never programs a medium that does not exist.
THEOREM TypeCorrect == Spec => []TypeOK
<1>1. IInv => TypeOK
  BY DEF IInv
<1> QED
  BY <1>1, Invariance, PTL

\* Whatever is asked of the driver and whichever MDIO accesses fail, the PHY
\* never offers its partner a medium outside link.supported.
THEOREM SupportedOnly == Spec => []OnlySupported
<1>1. IInv => OnlySupported
  BY DEF IInv, Masked, OnlySupported
<1> QED
  BY <1>1, Invariance, PTL

\* gpy2xx_config_aneg never returns 0 for a link that is to negotiate while
\* the PHY is forced or isolated, whichever accesses failed before.
THEOREM Negotiating == Spec => []SuccessMeansNegotiating
<1>1. IInv => SuccessMeansNegotiating
  BY DEF IInv
<1> QED
  BY <1>1, Invariance, PTL

\* gpy2xx_setup_forced and gpy2xx_config_aneg never return 0 for a forced link
\* whose PHY still negotiates, or has another medium than the supported one
\* that was asked for, even if the two registers of 2.5G failed in between.
THEOREM ForcedSetUp == Spec => []SuccessMeansForced
<1>1. IInv => SuccessMeansForced
  BY DEF IInv
<1> QED
  BY <1>1, Invariance, PTL

\* As long as no access fails and no speed is refused half-way,
\* gpy2xx_config_aneg never returns 0 before the partner was offered what the
\* application asked for, although it restarts the negotiation only when a
\* register changed.
THEOREM Offered == Spec => []UnfailedMeansOffered
<1>1. IInv => UnfailedMeansOffered
  BY DEF IInv, UnfailedMeansOffered
<1> QED
  BY <1>1, Invariance, PTL
===============================================================================
