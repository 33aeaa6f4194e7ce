------------------------------- MODULE MCTlsf -------------------------------
(* Small instances of Tlsf. *)
EXTENDS Tlsf

=============================================================================
