------------------------------ MODULE MCLiveWrite ------------------------------
(* LiveWrite on small instances, and the faults its properties exclude. *)
EXTENDS LiveWrite
=============================================================================
