------------------------------- MODULE MCPhyApi -------------------------------
(* Three parts of the PHY API that share no state: in a behaviour one of them  *)
(* works.                                                                      *)
EXTENDS MCMacsecSa, PtpClock, ApiLock

VARIABLE part

ApiInit ==
  /\ part \in {"macsec", "lock", "ptp"}
  /\ Init /\ LockInit /\ PtpInit
  /\ part # "lock" => recursive
  /\ part # "ptp" => ptp.val = CHOOSE v \in Times : TRUE

MacsecStep == part = "macsec" /\ Next /\ UNCHANGED <<part, lockVars, ptpVars>>
LockStep == part = "lock" /\ LockNext /\ UNCHANGED <<part, vars, ptpVars>>
PtpStep == part = "ptp" /\ PtpNext /\ UNCHANGED <<part, vars, lockVars>>

ApiNext == MacsecStep \/ LockStep \/ PtpStep

ApiSpec == ApiInit /\ [][ApiNext]_<<part, vars, lockVars, ptpVars>>

\* The types of the three parts' state.
ApiTypeOK == TypeOK /\ LockTypeOK /\ PtpTypeOK
===============================================================================
