----------------------------- MODULE MCPrograms -----------------------------
(* Instances of Programs: a program nobody has and one on the remote. *)
EXTENDS Programs, TLC

CONSTANTS p1, p2, i1, i2, noop, c1, c2, key

MCSize == i1 :> 2 @@ i2 :> 3 @@ noop :> 3
MCRemote == p1 :> None @@ p2 :> i2

Snapshot(id, program, data, strict) ==
  [p |-> id, program |-> program, data |-> data, strict |-> strict]

MCSnapshots ==
  {Snapshot(p1, "given", i1, TRUE), Snapshot(p1, "given", "absent", TRUE),
   Snapshot(p1, "given", "null", TRUE), Snapshot(p2, "null", i1, TRUE),
   Snapshot(p2, "null", "absent", TRUE), Snapshot(p2, "null", "null", FALSE),
   Snapshot(p1, "absent", i2, FALSE), Snapshot(p1, "given", i1, FALSE)}

MCSymmetry == Permutations({c1, c2})
=============================================================================
