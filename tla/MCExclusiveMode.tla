-------------------------- MODULE MCExclusiveMode --------------------------
(* The layouts of the runs: every one in which a requester is told to ask, *)
(* and the one in which a documented promise fails.                        *)
EXTENDS ExclusiveMode

AskLayouts  == {l \in [system : SystemSlot, slot1 : UserSlot] : l.slot1 # "rom"}
RomLayout   == {[system |-> "yields", slot1 |-> "rom"]}
=============================================================================
