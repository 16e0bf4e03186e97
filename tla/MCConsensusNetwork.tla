-------------------------- MODULE MCConsensusNetwork --------------------------
(***************************************************************************)
(* Deployments of up to four nodes for TLC.  TTL is 2, so that four nodes  *)
(* in a line are the longest flood that must arrive.                       *)
(***************************************************************************)
EXTENDS ConsensusNetwork

CONSTANTS a, b, c, d, propose, voteB, voteC

MCSender == (propose :> a) @@ (voteB :> b) @@ (voteC :> c)

(* Undirected links between the nodes of a deployment.                     *)
Links(pairs) == [n \in Nodes |-> {m \in Nodes : {n, m} \in pairs}]

Deploy(nodes, pairs, messages, k, budget) ==
  [nodes |-> nodes, peers |-> Links(pairs), messages |-> messages,
   conns |-> k, faults |-> budget]

Line == {{a, b}, {b, c}, {c, d}}
Star == {{a, d}, {b, d}, {c, d}}
Triangle == {{a, b}, {b, c}, {a, c}}
Square == {{a, b}, {b, c}, {c, d}, {a, d}}

(* A line with two failures, where every node is needed; a ring, where     *)
(* copies come from both sides at once and handlers race; a triangle where *)
(* two floods cross; a pair with failures enough to tear a line, write     *)
(* after it, crash and start again; and a fan whose centre hears a quorum  *)
(* of the others.                                                          *)
MCDeployments ==
  {Deploy({a, b, c, d}, Line, {propose}, 1, 2),
   Deploy({a, b, c, d}, Square, {propose}, 2, 1),
   Deploy({a, b, c}, Triangle, {propose, voteB}, 1, 1),
   Deploy({a, b}, {{a, b}}, {propose, voteB}, 1, 3),
   [Deploy({a, b, c, d}, Star, {propose, voteB, voteC}, 1, 0) EXCEPT !.peers[d] = {a}]}

(* README.md's example of three nodes, whose threshold is 3, in a line.    *)
ThreeNodes == {Deploy({a, b, c}, {{a, b}, {b, c}}, {propose, voteB, voteC}, 1, 0)}
===============================================================================
