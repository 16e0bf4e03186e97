----------------------------- MODULE ApprovalCheck -----------------------------
(***************************************************************************)
(* What the functions of AlgebraGate are for: one behaviour per stored     *)
(* table and setting of the node list, one step that judges mutations.     *)
(***************************************************************************)
EXTENDS AlgebraGate

CONSTANTS
  Mutations,
  Tables,        \* contents that consensus_approvals may have
  Environments,  \* values that CODEX_AUTHORIZED_NODES may have
  Pending

(* The CHECK constraint of the payload column fixes the keys of an event   *)
(* and of its block: all of them are required and no other is allowed.     *)
(* What it says of their values is not relied on: they may be anything.    *)
WholeQuorum(q) ==
  q = [threshold |-> q.threshold, authorized_nodes |-> q.authorized_nodes,
       yes_votes |-> q.yes_votes, no_votes |-> q.no_votes,
       yes_count |-> q.yes_count, no_count |-> q.no_count]

WholeEvent(a) ==
  /\ a = [event_type |-> a.event_type, material |-> a.material,
          proposal_hash |-> a.proposal_hash, proposer |-> a.proposer, quorum |-> a.quorum,
          approved_at |-> a.approved_at, approval_hash |-> a.approval_hash]
  /\ WholeQuorum(a.quorum)

WholeRow(r) ==
  /\ r = [proposal_hash |-> r.proposal_hash, approval_hash |-> r.approval_hash,
          payload |-> r.payload]
  /\ WholeEvent(r.payload)

(* The column proposal_hash is UNIQUE.                                     *)
ASSUME TablesAssumption ==
  \A table \in Tables : \A r, s \in table :
    WholeRow(r) /\ (r.proposal_hash = s.proposal_hash => r = s)

ASSUME EnvironmentsAssumption == Environments \subseteq Seq(Nat \cup {Blank})
ASSUME NotAListAssumption == NotAList \notin Seq(Nat)

VARIABLES rows, raw, verdict

Init ==
  /\ rows \in Tables
  /\ raw \in Environments
  /\ verdict = Pending

Judge ==
  /\ verdict = Pending
  /\ verdict' = {m \in Mutations : RequireConsensusApproval(m, rows, raw)}
  /\ UNCHANGED <<rows, raw>>

Next == Judge

Spec == Init /\ [][Next]_<<rows, raw, verdict>>

-------------------------------------------------------------------------------
(* The environment is one the operator may set: a list of distinct names.  *)
Members == ToSet(raw) \ {Blank}
Proper == Members # {} /\ Cardinality(Members) = Cardinality({i \in DOMAIN raw : raw[i] # Blank})

(* The artifact the bridge builds for m from a ballot of the nodes         *)
(* configured here, at quorum, no node on both sides; it may name anybody  *)
(* as the proposer.                                                        *)
Legitimate(m, a) ==
  \E yes, no \in SUBSET Members :
    /\ yes \cap no = {}
    /\ IsQuorum(Members, yes)
    /\ a.approved_at # ""
    /\ a = ApprovalEvent(m, Members, a.proposer, yes, no, a.approved_at)

(* The gate lets through a mutation exactly when the stored row agrees, in *)
(* every field but the proposer and at every level, with what the bridge   *)
(* builds for it from a ballot at quorum of the nodes configured now, is   *)
(* sealed over all its fields, the proposer too, and is stored under its   *)
(* own two keys.  verify_quorum and verify_approval_payload refuse no      *)
(* artifact of a sound ballot, and the one thing they leave open is whom   *)
(* the sealed row names as proposer.                                       *)
AcceptsExactlySoundApprovals ==
  verdict # Pending =>
    verdict = {m \in Mutations :
      Proper /\ \E r \in rows : r = ApprovalRow(r.payload) /\ r.proposal_hash = m
                                /\ Legitimate(m, r.payload)}
===============================================================================
