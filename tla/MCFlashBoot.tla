---------------------------- MODULE MCFlashBoot ----------------------------
(***************************************************************************)
(* Small instances of FlashBoot: the factory image, a new kernel, a        *)
(* rebuild of that kernel (same release, so same upload name and module    *)
(* directory) and an image that does not fit.                              *)
(***************************************************************************)
EXTENDS FlashBoot

CONSTANTS factory, new, rebuilt, huge, k5, k6

MCImages == {factory, new, rebuilt, huge}
MCTwoImages == {factory, new}
MCKrels == {k5, k6}
MCKrelOf == [i \in Images |-> IF i = factory THEN k5 ELSE k6]
MCOverCap == {huge}
=============================================================================
