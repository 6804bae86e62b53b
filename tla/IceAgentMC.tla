----------------------------- MODULE IceAgentMC -----------------------------
(* Small instance for TLC: an answer with two candidates. *)
EXTENDS IceAgent

MCRemotes == <<"r1", "r2">>
=============================================================================
