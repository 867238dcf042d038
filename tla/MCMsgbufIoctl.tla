---------------------------- MODULE MCMsgbufIoctl ----------------------------
(***************************************************************************)
(* Two threads, a transaction id of two bits that wraps with the first     *)
(* request, and a power cycle.                                             *)
(***************************************************************************)
EXTENDS MsgbufIoctl

CONSTANTS c1, c2, none

MCCallers == {c1, c2}
=============================================================================
