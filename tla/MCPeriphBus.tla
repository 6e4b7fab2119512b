------------------------------ MODULE MCPeriphBus ------------------------------
(***************************************************************************)
(* Instances of PeriphBus for TLC.  The lines are those of the memory map: *)
(*   0  soc_ctrl EXIT_VALID and EXIT_VALUE, a register on each lane        *)
(*   1  fast_intr_ctrl FAST_INTR_ENABLE, and a hole on the upper lane      *)
(*   8  a page no rule of RegMap matches; soc_ctrl is selected, whose      *)
(*      registers answer there as at line 0                                *)
(*   9  the external register port, which nothing drives                   *)
(***************************************************************************)
EXTENDS PeriphBus

MCSlaveOf ==
    [l \in {0, 1, 8, 9} |->
        CASE l = 0 -> "soc_ctrl" [] l = 1 -> "fast_intr"
          [] l = 8 -> "unmapped" [] l = 9 -> "ext_reg"]

MCSlaveOfDead == [l \in {1, 9} |-> IF l = 9 THEN "ext_reg" ELSE "fast_intr"]

MCNoReg == {<<1, 1>>}
===============================================================================
