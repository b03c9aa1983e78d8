------------------------------- MODULE ABSlots -------------------------------
(***************************************************************************)
(* What a dual-image upgrade promises, with none of its steps: there are   *)
(* two slots, the device runs from one of them, and everything an upgrade  *)
(* does to flash happens in the other one.  A slot is either usable (it    *)
(* holds a complete kernel and a complete root filesystem) or it is not.   *)
(***************************************************************************)
CONSTANT Slots

VARIABLES usable,   \* the slots a device can run from
          current   \* the slot the device was booted from

vars == <<usable, current>>

Init == /\ current \in Slots
        /\ usable = {current}

\* An upgrade may make the slots that are not in use usable or unusable, at
\* any time and as often as it likes; a slot in use it leaves alone as long
\* as the device can run from it.
Rewrite == /\ current \in usable
           /\ usable' \in SUBSET Slots
           /\ current \in usable'
           /\ UNCHANGED current

\* A restart may select another slot.
Boot == /\ current' \in Slots
        /\ UNCHANGED usable

Next == Rewrite \/ Boot

Spec == Init /\ [][Next]_vars
=============================================================================
