-------------------------------- MODULE MCUart --------------------------------
(***************************************************************************)
(* Instances of Uart for TLC.  The increments: a generator that stands     *)
(* still, one that ticks, and one too large for the 16 bits of CTRL.NCO.   *)
(***************************************************************************)
EXTENDS Uart

MCNco == {0, 2684, 65536}
===============================================================================
