--------------------------- MODULE MC_ImageService ---------------------------
(* The image module with two images, one container, an existing and a     *)
(* missing external rootfs path, and the embedded backend built in.       *)
EXTENDS ImageService

MC_TypeInputs == {"oci", "external", "embedded", "null", "other"}

==============================================================================
