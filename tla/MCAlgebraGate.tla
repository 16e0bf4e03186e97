----------------------------- MODULE MCAlgebraGate -----------------------------
(***************************************************************************)
(* The functions of AlgebraGate over bounded inputs.  The configured nodes *)
(* are drawn from four names, the tables hold what the bridge emits and    *)
(* alterations of each field of it, resealed or not.                       *)
(***************************************************************************)
EXTENDS ApprovalCheck

CONSTANTS m1, m2

MCMutations == {m1, m2}

(* What the bridge emits: any ballot, also one below quorum and one whose  *)
(* two scans disagree.                                                     *)
Emitted ==
  {ApprovalEvent(m, ns, 1, yes, no, "t1") : m \in MCMutations, ns \in {{1, 2, 3}, {1, 2, 3, 4}},
     yes \in SUBSET (1..4), no \in {{}, {1}, {4}, {1, 4}}}

(* Alterations of one field of the quorum block.                           *)
Altered(q) ==
  {[q EXCEPT !.threshold = x] : x \in {0, 2, 3, NotAnInteger}}
    \cup {[q EXCEPT !.yes_count = x] : x \in {0, 3, 4, NotAnInteger}}
    \cup {[q EXCEPT !.no_count = x] : x \in {0, 1, NotAnInteger}}
    \cup {[q EXCEPT !.yes_votes = x] : x \in {NotAList, <<>>, <<2, 1, 3>>, <<1, 1, 2>>, <<1, 2, 2>>, <<1, 2, 9>>}}
    \cup {[q EXCEPT !.no_votes = x] : x \in {NotAList, <<>>, <<4, 4>>, <<9>>}}
    \cup {[q EXCEPT !.authorized_nodes = x] : x \in {NotAList, <<>>, <<1, 1, 2>>, <<3, 2, 1>>, <<1, 2, 4>>}}

(* Alterations of the event, resealed or not.                              *)
Events(e) ==
  LET changed == {[e EXCEPT !.quorum = q] : q \in Altered(e.quorum)}
        \cup {[e EXCEPT !.material = m] : m \in MCMutations}
        \cup {[e EXCEPT !.proposer = x] : x \in {2, 9}}
        \cup {[e EXCEPT !.approved_at = t] : t \in {"", "t2"}}
        \cup {[e EXCEPT !.event_type = "CONSENSUS_VOTE"]}
  IN  {e} \cup changed \cup {Sealed(c) : c \in changed}

MCTables ==
  {{}} \cup UNION {{{ApprovalRow(a)} : a \in Events(e)} : e \in Emitted}
    \cup {{[ApprovalRow(e) EXCEPT !.proposal_hash = m]} : e \in Emitted, m \in MCMutations}

MCEnvironments ==
  {<<>>, <<Blank>>, <<1>>, <<3, 1, 2>>, <<1, 2, 2, 3>>, <<1, Blank, 2, 4>>, <<4, 3, 2, 1>>}
===============================================================================
