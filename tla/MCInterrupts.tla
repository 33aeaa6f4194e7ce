---------------------------- MODULE MCInterrupts ----------------------------
(* Interrupts for TLC, whose constants all have their values in the .cfg.    *)
EXTENDS Interrupts

=============================================================================
