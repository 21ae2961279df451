------------------------------ MODULE MCLizards ------------------------------
(***************************************************************************)
(* Instances of Lizards for TLC.                                           *)
(***************************************************************************)
EXTENDS LizardsInvariant

=============================================================================
