---------------------------- MODULE MCAgentJobs ----------------------------
(* Small instances of AgentJobs for TLC. *)
EXTENDS AgentJobs, TLC

CONSTANTS u1, u2, main, side, j1, j2, j3, p1, p2

\* Jobs, users and profiles are interchangeable.
JobSymmetry == Permutations(Jobs) \cup Permutations(Users) \cup Permutations(Profiles)
=============================================================================
