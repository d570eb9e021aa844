------------------------------ MODULE MCPorts ------------------------------
(***************************************************************************)
(* Ports with requests that succeed, with calls of the SDK that fail, and  *)
(* with requests that name a port that is a member of a LAG.               *)
(***************************************************************************)
EXTENDS Ports, TLC
CONSTANTS p1, p2, po1, po2, v10, v20

MCRequests == {{"svi"}, {"tpid"}, {"tunnel", "fail"}, {"tunnel", "member"}}
Alike == Permutations(Port) \cup Permutations(Lag) \cup Permutations(Vid)
=============================================================================
