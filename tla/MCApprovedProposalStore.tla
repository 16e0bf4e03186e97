------------------------ MODULE MCApprovedProposalStore ------------------------
(***************************************************************************)
(* Two writers over two approvals for TLC, with artifacts enough for an    *)
(* attempt that dies, its repetition and a second approval beside them.    *)
(***************************************************************************)
EXTENDS ApprovedProposalStore, TLC

CONSTANTS h1, h2, w1, w2

Symmetric == Permutations({h1, h2}) \cup Permutations({w1, w2})
===============================================================================
