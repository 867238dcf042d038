--------------------------- MODULE MCStageModules ---------------------------
(***************************************************************************)
(* Instances of StageModules: the running build, a new release, and a      *)
(* rebuild of that release that has one module more.                       *)
(***************************************************************************)
EXTENDS StageModules

CONSTANTS old, new, rebuilt, k5, k6

MCBuilds == {old, new, rebuilt}
MCKrels == {k5, k6}
MCKrelOf == [b \in Builds |-> IF b = old THEN k5 ELSE k6]
MCMods == {"bcmdhd.ko", "panthor.ko"}
MCModsOf == [b \in Builds |-> IF b = rebuilt THEN Mods ELSE {"bcmdhd.ko"}]
=============================================================================
