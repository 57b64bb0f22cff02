--------------------------------- MODULE Null ---------------------------------
(* The null pointer, which the modules about memory share. *)
CONSTANT NULL
=============================================================================
