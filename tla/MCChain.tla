------------------------------ MODULE MCChain ------------------------------
(* Instances of Chain for TLC. *)
EXTENDS Chain

MCNoRemote == {}
MCRemotes == {[slot |-> 1, height |-> 3], [slot |-> 2, height |-> 4]}
=============================================================================
