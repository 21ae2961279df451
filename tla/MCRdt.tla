-------------------------------- MODULE MCRdt --------------------------------
(***************************************************************************)
(* Instances of RdtSystem and its invariant for TLC.                       *)
(***************************************************************************)
EXTENDS RdtInvariant

=============================================================================
