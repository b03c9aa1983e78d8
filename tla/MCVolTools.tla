------------------------------ MODULE MCVolTools ------------------------------
(* The shell tools that share no state: in a behaviour one of them works. *)
EXTENDS SingleVol, Calibration, WmdConf, TLC

CONSTANTS i0, i1

MCOffer == [p \in Parts |-> {i1}]

MCParams == {{"w_active"}}

MCSymmetry == Permutations(Procs)

VARIABLE tool

ToolsInit ==
  /\ tool \in {"vol", "cal", "wmd"}
  /\ Init /\ CalInit /\ WmdInit
  /\ kind = "nand" \/ tool = "cal"
  /\ file[1].is = "set" \/ tool = "wmd"

VolStep == tool = "vol" /\ Next /\ UNCHANGED <<tool, calVars, wmdVars>>
CalStep == tool = "cal" /\ CalNext /\ UNCHANGED <<tool, vars, wmdVars>>
WmdStep == tool = "wmd" /\ WmdNext /\ UNCHANGED <<tool, vars, calVars>>

ToolsNext == VolStep \/ CalStep \/ WmdStep

ToolsSpec == ToolsInit /\ [][ToolsNext]_<<tool, vars, calVars, wmdVars>>

\* The types of the three tools' state.
ToolsTypeOK == TypeOK /\ CalTypeOK /\ WmdTypeOK
===============================================================================
