------------------------------ MODULE QuorumRule ------------------------------
(***************************************************************************)
(* The 2/3 + 1 rule.  consensus_gate.py computes it when it counts a       *)
(* ballot, algebra_gate.py recomputes it when it verifies the artifact of  *)
(* an approval.  Every other module takes the rule from here.              *)
(***************************************************************************)
EXTENDS Integers, FiniteSets

(* Mutant of Threshold: the + 1 is forgotten.                              *)
ThresholdTwoThirds(members) == (2 * Cardinality(members)) \div 3

(* ConsensusGate.quorum_threshold: integer arithmetic, // rounds down.     *)
Threshold(members) == (2 * Cardinality(members)) \div 3 + 1

(* ConsensusGate.check_consensus, applied to the set of nodes whose vote   *)
(* is True.                                                                *)
IsQuorum(members, yes) == Cardinality(yes) >= Threshold(members)
===============================================================================
