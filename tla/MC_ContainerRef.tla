--------------------------- MODULE MC_ContainerRef ---------------------------
(***************************************************************************)
(* Thread ids for ContainerRef are model values given in the cfgs.  No     *)
(* symmetry is used, because EventuallyFreed is a liveness property.       *)
(***************************************************************************)
EXTENDS ContainerRef

==============================================================================
