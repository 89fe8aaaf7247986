------------------------------ MODULE MCFirmware ------------------------------
(* The message kinds of the small instances of Firmware. *)
EXTENDS Firmware

AllKinds == Kinds
DataOnly == {"Data"}
DataAndReset == {"Data", "Reset"}

===============================================================================
