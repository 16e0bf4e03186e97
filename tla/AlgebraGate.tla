------------------------------ MODULE AlgebraGate ------------------------------
(***************************************************************************)
(* algebra_gate.py and consensus_approval_reader.py: whether the approval  *)
(* stored for a mutation lets that mutation through.  Pure functions of    *)
(* the stored row, the mutation and CODEX_AUTHORIZED_NODES; raising any    *)
(* exception is FALSE.                                                     *)
(*                                                                         *)
(* A node name is its rank in Python's string order.  A hash is the value  *)
(* it is computed from, so two hashes are equal when the canonical JSON    *)
(* is.  A mutation is opaque here: two that differ only by values Python   *)
(* finds equal (0 and false) are one, see PreReceiveGate.                  *)
(***************************************************************************)
EXTENDS QuorumRule, Sequences, SequencesExt

CONSTANTS
  NotAnInteger,  \* a threshold or count that is absent, a bool or no number
  NotAList,      \* a voter field that is absent or no list of names
  Blank          \* an empty item of CODEX_AUTHORIZED_NODES

EventType == "CONSENSUS_APPROVAL"

-------------------------------------------------------------------------------
(* What the bridge stores.                                                 *)

(* Python's sorted(); for a finite set of ranks there is one such list.    *)
SortedNodes(S) ==
  CHOOSE s \in [1..Cardinality(S) -> S] : \A i, j \in DOMAIN s : i < j => s[i] < s[j]

(* The quorum block of _approval_event_from_proposal, from the names under *)
(* True and under False of a ballot (the two scans are separate, so the    *)
(* sets need not be disjoint).                                             *)
QuorumBlock(members, yes, no) ==
  [threshold |-> Threshold(members), authorized_nodes |-> SortedNodes(members),
   yes_votes |-> SortedNodes(yes), no_votes |-> SortedNodes(no),
   yes_count |-> Cardinality(yes), no_count |-> Cardinality(no)]

(* approval_material: every field but the hash itself.  The table's CHECK  *)
(* constraint requires these fields and admits no other.                   *)
ApprovalMaterial(a) ==
  [event_type |-> a.event_type, material |-> a.material, proposal_hash |-> a.proposal_hash,
   proposer |-> a.proposer, quorum |-> a.quorum, approved_at |-> a.approved_at]

Sealed(a) == [a EXCEPT !.approval_hash = ApprovalMaterial(a)]

ApprovalEvent(mutation, members, proposer, yes, no, now) ==
  Sealed([event_type |-> EventType, material |-> mutation, proposal_hash |-> mutation,
          proposer |-> proposer, quorum |-> QuorumBlock(members, yes, no),
          approved_at |-> now, approval_hash |-> <<>>])

(* write_approval: the two key columns repeat fields of the payload.       *)
ApprovalRow(a) ==
  [proposal_hash |-> a.proposal_hash, approval_hash |-> a.approval_hash, payload |-> a]

-------------------------------------------------------------------------------
(* verify_quorum.                                                          *)

(* _validated_node_list: a list of names, sorted, without duplicates.      *)
NodeList(s) ==
  /\ s # NotAList
  /\ s \in Seq(Nat)
  /\ \A i \in 1..Len(s) - 1 : s[i] <= s[i + 1]
  /\ IsInjective(s)

(* Mutant of Disjoint: conflicting voters are not looked for.              *)
DisjointUnchecked(yes, no) == TRUE

Disjoint(yes, no) == ToSet(yes) \cap ToSet(no) = {}

(* Mutant of Enough: the threshold must be exceeded.                       *)
EnoughStrictly(quorum) == quorum.yes_count > quorum.threshold

Enough(quorum) == quorum.yes_count >= quorum.threshold

(* Mutant of VerifyQuorum: the block is checked against itself only.       *)
VerifyQuorumInItself(quorum, trusted) ==
  /\ NodeList(quorum.authorized_nodes)
  /\ NodeList(quorum.yes_votes)
  /\ NodeList(quorum.no_votes)
  /\ Disjoint(quorum.yes_votes, quorum.no_votes)
  /\ quorum.yes_count = Len(quorum.yes_votes)
  /\ Enough(quorum)

(* trusted has no duplicates where it comes from; a sorted list without    *)
(* duplicates equals sorted(trusted) when it has the same members.         *)
VerifyQuorum(quorum, trusted) ==
  /\ trusted # {}
  /\ NodeList(quorum.authorized_nodes)
  /\ NodeList(quorum.yes_votes)
  /\ NodeList(quorum.no_votes)
  /\ ToSet(quorum.authorized_nodes) = trusted
  /\ Disjoint(quorum.yes_votes, quorum.no_votes)
  /\ ToSet(quorum.yes_votes) \cup ToSet(quorum.no_votes) \subseteq trusted
  /\ quorum.threshold = Threshold(trusted)
  /\ quorum.yes_count = Len(quorum.yes_votes)
  /\ quorum.no_count = Len(quorum.no_votes)
  /\ Enough(quorum)

-------------------------------------------------------------------------------
(* verify_approval_payload.  The proposer is under the hash, and nothing   *)
(* else is asked of it.                                                    *)

VerifyApprovalPayload(approval, mutation, trusted) ==
  /\ approval.event_type = EventType
  /\ approval.approved_at # ""
  /\ approval.proposal_hash = mutation
  /\ approval.material = mutation
  /\ VerifyQuorum(approval.quorum, trusted)
  /\ approval.approval_hash = ApprovalMaterial(approval)

(* authorized_nodes_from_env: the items that are not empty, of which no    *)
(* two may be equal; the empty set stands for the exceptions.              *)
AuthorizedNodesFromEnv(raw) ==
  IF \A i, j \in DOMAIN raw : raw[i] = raw[j] => i = j \/ raw[i] = Blank
  THEN ToSet(raw) \ {Blank} ELSE {}

(* require_approval_by_proposal_hash: there is exactly one row with this   *)
(* key, and its columns and its payload agree.                             *)
Found(rows, hash) ==
  LET keyed == {r \in rows : r.proposal_hash = hash}
  IN  {r \in keyed : /\ keyed = {r}
                     /\ r.payload.event_type = EventType
                     /\ r.payload.proposal_hash = hash
                     /\ r.payload.approval_hash = r.approval_hash}

(* require_consensus_approval, for a mutation whose proposal_hash is its   *)
(* own (the callers finalize it).                                          *)
RequireConsensusApproval(mutation, rows, raw) ==
  \E r \in Found(rows, mutation) :
    VerifyApprovalPayload(r.payload, mutation, AuthorizedNodesFromEnv(raw))
===============================================================================
