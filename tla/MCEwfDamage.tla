---------------------------- MODULE MCEwfDamage ----------------------------
(* The images of MCEwfImage, with harm done to those made in a call or two. *)
EXTENDS EwfDamage, MCEwfImage
=============================================================================
