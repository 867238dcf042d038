------------------------------ MODULE MCFlowRing ------------------------------
(***************************************************************************)
(* Two stations, two threads and two rings, so that both threads can       *)
(* create a ring for one station, and an id passes from one station to     *)
(* the other. Stations and threads are interchangeable.                    *)
(***************************************************************************)
EXTENDS FlowRing, TLC

CONSTANTS a, b, t1, t2

MCStations == {a, b}
MCThreads == {t1, t2}
Symmetry == Permutations(MCStations) \cup Permutations(MCThreads)
=============================================================================
