------------------------------ MODULE MCWriter ------------------------------
(* Instances of WriterQueue for TLC. *)
EXTENDS WriterQueue, TLC

=============================================================================
