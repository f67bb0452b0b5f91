------------------------- MODULE MC_ContainerPersist -------------------------
(***************************************************************************)
(* ContainerPersist with two changes per file and two crashes: enough for  *)
(* a crash to hit a save that follows an acknowledged one, and for a       *)
(* reloaded container to be changed, saved and crash again.                *)
(***************************************************************************)
EXTENDS ContainerPersist

==============================================================================
