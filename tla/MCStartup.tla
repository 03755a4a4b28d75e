------------------------------ MODULE MCStartup ------------------------------
(* Instances of Startup: a project that asks for nothing, one with two     *)
(* runbooks, one with clones, and one with clones and a runbook.           *)
EXTENDS Startup

CONSTANTS r1, r2

MCProjects ==
  {[clones |-> FALSE, runbooks |-> {}], [clones |-> FALSE, runbooks |-> {r1, r2}],
   [clones |-> TRUE, runbooks |-> {}], [clones |-> TRUE, runbooks |-> {r1}]}
==============================================================================
