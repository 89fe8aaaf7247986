----------------------------- MODULE MCBootStatus -----------------------------
(* The instances of BootStatus that TLC checks; its constants are plain values. *)
EXTENDS BootStatus

===============================================================================
