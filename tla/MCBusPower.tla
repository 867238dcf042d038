------------------------------ MODULE MCBusPower ------------------------------
(***************************************************************************)
(* Two interfaces (wlan0 and the access point wlan1), which share IN_TX.   *)
(***************************************************************************)
EXTENDS BusPower

CONSTANTS wlan0, wlan1

MCNetdevs == {wlan0, wlan1}
=============================================================================
