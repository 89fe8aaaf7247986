-------------------------------- MODULE MCWifi --------------------------------
(* The instances of Wifi that TLC checks; its constants are plain numbers. *)
EXTENDS Wifi

===============================================================================
