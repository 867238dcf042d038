------------------------------ MODULE BootSlot ------------------------------
(***************************************************************************)
(* What the boot partition promises, with no script, no shell and no file  *)
(* in sight: it is replaced only while what it held is saved, nothing that *)
(* was saved is lost again, and it is rolled back only to something saved. *)
(* FlashBoot implements this.                                              *)
(***************************************************************************)
CONSTANTS
  Images,
  Torn      \* bytes that are no image

VARIABLES
  slot,     \* what the partition holds
  board,    \* "up" or "down"
  running,  \* the image the board was last booted from
  saved,    \* the images of which a copy is kept elsewhere
  rolling   \* a rollback is being written

vars == <<slot, board, running, saved, rolling>>

Init ==
  /\ slot \in Images /\ running = slot
  /\ board = "up"
  /\ saved = {}
  /\ rolling = FALSE

\* A copy of what the partition holds is put away, and never lost again.
Save ==
  /\ slot \in Images
  /\ saved' = saved \cup {slot}
  /\ UNCHANGED <<slot, board, running, rolling>>

\* An update begins to overwrite the partition: what was there is saved.
Replace ==
  /\ ~rolling
  /\ saved # {} /\ slot \in saved \cup {Torn}
  /\ slot' = Torn
  /\ UNCHANGED <<board, running, saved, rolling>>

\* ... and has written it.
Written ==
  /\ ~rolling /\ slot = Torn
  /\ slot' \in Images
  /\ UNCHANGED <<board, running, saved, rolling>>

\* A restart: the board comes up with whatever image is there.
Restart(content) ==
  /\ board' = IF content \in Images THEN "up" ELSE "down"
  /\ running' = IF content \in Images THEN content ELSE running

\* A rollback overwrites the partition, saved or not, if there is a copy to
\* roll back to.
RollBack ==
  /\ ~rolling /\ saved # {}
  /\ rolling' = TRUE
  /\ slot' = Torn
  /\ UNCHANGED <<board, running, saved>>

\* It ends with a restart into a saved image (or a copy of the torn bytes
\* that an update before it had left) ...
RolledBack ==
  /\ rolling
  /\ rolling' = FALSE
  /\ slot' \in saved \cup {Torn}
  /\ Restart(slot')
  /\ UNCHANGED saved

\* ... or is cut off.
GiveUp ==
  /\ rolling
  /\ rolling' = FALSE
  /\ UNCHANGED <<slot, board, running, saved>>

\* The board restarts, on purpose or because power failed.
Restarts ==
  /\ Restart(slot)
  /\ rolling' = FALSE
  /\ UNCHANGED <<slot, saved>>

Next == Save \/ Replace \/ Written \/ RollBack \/ RolledBack
        \/ GiveUp \/ Restarts

Spec == Init /\ [][Next]_vars
=============================================================================
