-------------------------- MODULE ApprovalCheckProofs --------------------------
(***************************************************************************)
(* Which rows the gate accepts, and that it accepts them: for every set of *)
(* nodes, every ballot, every content of the approvals table and every     *)
(* setting of the node list.                                               *)
(***************************************************************************)
EXTENDS ApprovalCheck, AlgebraGateProofs

(* A block that verify_quorum accepts is one that the bridge emits for a   *)
(* ballot at quorum of the trusted nodes.                                  *)
Emits(trusted, yes, no, q) ==
  yes \cap no = {} /\ IsQuorum(trusted, yes) /\ q = QuorumBlock(trusted, yes, no)

LEMMA VerifiedEmitted ==
  ASSUME NEW trusted, NEW q, WholeQuorum(q), VerifyQuorum(q, trusted)
  PROVE  \E yes, no \in SUBSET trusted : Emits(trusted, yes, no, q)
<1>1. PICK yes, no : yes = ToSet(q.yes_votes) /\ no = ToSet(q.no_votes)
  OBVIOUS
<1>2. /\ NodeList(q.authorized_nodes) /\ NodeList(q.yes_votes) /\ NodeList(q.no_votes)
      /\ ToSet(q.authorized_nodes) = trusted /\ yes \cup no \subseteq trusted
      /\ q.threshold = Threshold(trusted)
      /\ q.yes_count = Len(q.yes_votes) /\ q.no_count = Len(q.no_votes)
  BY <1>1 DEF VerifyQuorum
<1>3. /\ q.authorized_nodes = SortedNodes(trusted)
      /\ q.yes_votes = SortedNodes(yes) /\ q.no_votes = SortedNodes(no)
  BY <1>1, <1>2, NotAListAssumption, AcceptedSorted
<1>4. q.yes_count = Cardinality(yes) /\ q.no_count = Cardinality(no)
  BY <1>1, <1>2, NodeListSize
<1>5. q = QuorumBlock(trusted, yes, no)
  BY <1>2, <1>3, <1>4 DEF WholeQuorum, QuorumBlock
<1>6. yes \cap no = {} /\ IsQuorum(trusted, yes)
  BY <1>1, <1>2, <1>4 DEF VerifyQuorum, Disjoint, Enough, IsQuorum
<1> QED BY <1>2, <1>5, <1>6 DEF Emits

(* And every such block is accepted.                                       *)
LEMMA EmittedVerified ==
  ASSUME NEW trusted \in SUBSET Nat, IsFiniteSet(trusted), trusted # {}, NEW q,
         NEW yes \in SUBSET trusted, NEW no \in SUBSET trusted, Emits(trusted, yes, no, q)
  PROVE  VerifyQuorum(q, trusted)
<1>1. /\ yes \in SUBSET Nat /\ IsFiniteSet(yes) /\ no \in SUBSET Nat /\ IsFiniteSet(no)
  BY FS_Subset
<1>2. /\ q.authorized_nodes = SortedNodes(trusted) /\ q.threshold = Threshold(trusted)
      /\ q.yes_votes = SortedNodes(yes) /\ q.no_votes = SortedNodes(no)
      /\ q.yes_count = Cardinality(yes) /\ q.no_count = Cardinality(no)
  BY DEF Emits, QuorumBlock
<1>3. /\ NodeList(q.authorized_nodes) /\ ToSet(q.authorized_nodes) = trusted
      /\ NodeList(q.yes_votes) /\ ToSet(q.yes_votes) = yes
      /\ NodeList(q.no_votes) /\ ToSet(q.no_votes) = no
      /\ q.yes_count = Len(q.yes_votes) /\ q.no_count = Len(q.no_votes)
  BY <1>1, <1>2, NotAListAssumption, SortedAccepted
<1>4. Disjoint(q.yes_votes, q.no_votes) /\ Enough(q)
  BY <1>2, <1>3 DEF Emits, IsQuorum, Disjoint, Enough
<1> QED BY <1>2, <1>3, <1>4 DEF VerifyQuorum

-------------------------------------------------------------------------------
(* The names of a setting, when authorized_nodes_from_env takes it.        *)
LEMMA MembersTaken ==
  ASSUME raw \in Seq(Nat \cup {Blank})
  PROVE  /\ Members \in SUBSET Nat /\ IsFiniteSet(Members)
         /\ Proper => AuthorizedNodesFromEnv(raw) = Members
         /\ AuthorizedNodesFromEnv(raw) # {} => Proper /\ AuthorizedNodesFromEnv(raw) = Members
<1> DEFINE given == {i \in DOMAIN raw : raw[i] # Blank}
           name == [i \in given |-> raw[i]]
           distinct == \A i, j \in DOMAIN raw : raw[i] = raw[j] => i = j \/ raw[i] = Blank
<1>1. Len(raw) \in Nat /\ DOMAIN raw = 1..Len(raw) /\ \A i \in 1..Len(raw) : raw[i] \in Nat \cup {Blank}
  OBVIOUS
<1>2. IsFiniteSet(given)
  <2>1. IsFiniteSet(1..Len(raw)) /\ given \in SUBSET (1..Len(raw))
    BY <1>1, FS_Interval
  <2> QED BY <2>1, FS_Subset
<1>3. Members \in SUBSET Nat /\ Members = {raw[i] : i \in given}
  BY <1>1 DEF Members, ToSet
<1>4. name \in Surjection(given, Members)
  BY <1>3 DEF Surjection
<1>5. name \in Injection(given, Members) <=> distinct
  BY <1>4 DEF Surjection, Injection, IsInjective
<1> HIDE DEF given, name
<1>6. /\ IsFiniteSet(Members)
      /\ Cardinality(Members) = Cardinality(given) <=> name \in Injection(given, Members)
  BY <1>2, <1>4, FS_Surjection
<1>7. Proper <=> Members # {} /\ distinct
  BY <1>5, <1>6 DEF Proper, given
<1>8. AuthorizedNodesFromEnv(raw) = IF distinct THEN Members ELSE {}
  BY DEF AuthorizedNodesFromEnv, Members
<1> QED BY <1>3, <1>6, <1>7, <1>8
-------------------------------------------------------------------------------
(* One verdict.                                                            *)
Sound(m) ==
  Proper /\ \E r \in rows : r = ApprovalRow(r.payload) /\ r.proposal_hash = m
                            /\ Legitimate(m, r.payload)

LEMMA AcceptedSound ==
  ASSUME rows \in Tables, raw \in Seq(Nat \cup {Blank}), NEW m,
         RequireConsensusApproval(m, rows, raw)
  PROVE  Sound(m)
<1>1. PICK r \in Found(rows, m) :
        VerifyApprovalPayload(r.payload, m, AuthorizedNodesFromEnv(raw))
  BY DEF RequireConsensusApproval
<1>2. PICK a : a = r.payload
  OBVIOUS
<1>3. /\ r \in rows /\ r.proposal_hash = m
      /\ a.event_type = EventType /\ a.proposal_hash = m /\ a.approval_hash = r.approval_hash
  BY <1>1, <1>2 DEF Found
<1>4. /\ a.approved_at # "" /\ a.material = m /\ a.approval_hash = ApprovalMaterial(a)
      /\ VerifyQuorum(a.quorum, AuthorizedNodesFromEnv(raw))
  BY <1>1, <1>2 DEF VerifyApprovalPayload
<1>5. AuthorizedNodesFromEnv(raw) = Members /\ Proper
  BY <1>4, MembersTaken DEF VerifyQuorum
<1>6. WholeRow(r) /\ WholeEvent(a) /\ WholeQuorum(a.quorum)
  BY <1>2, <1>3, TablesAssumption DEF WholeRow, WholeEvent
<1>7. PICK yes, no \in SUBSET Members : Emits(Members, yes, no, a.quorum)
  BY <1>4, <1>5, <1>6, VerifiedEmitted
<1>8. r = ApprovalRow(a)
  BY <1>2, <1>3, <1>6 DEF WholeRow, ApprovalRow
<1>9. a = ApprovalEvent(m, Members, a.proposer, yes, no, a.approved_at)
  <2>1. a = [event_type |-> EventType, material |-> m, proposal_hash |-> m,
             proposer |-> a.proposer, quorum |-> QuorumBlock(Members, yes, no),
             approved_at |-> a.approved_at, approval_hash |-> ApprovalMaterial(a)]
    BY <1>3, <1>4, <1>6, <1>7 DEF WholeEvent, Emits
  <2> DEFINE quorum == QuorumBlock(Members, yes, no)
             e == [event_type |-> EventType, material |-> m, proposal_hash |-> m,
                   proposer |-> a.proposer, quorum |-> quorum,
                   approved_at |-> a.approved_at, approval_hash |-> <<>>]
             fields == [event_type |-> EventType, material |-> m, proposal_hash |-> m,
                        proposer |-> a.proposer, quorum |-> quorum,
                        approved_at |-> a.approved_at]
  <2>2. ApprovalEvent(m, Members, a.proposer, yes, no, a.approved_at) = Sealed(e)
    BY DEF ApprovalEvent
  <2> HIDE DEF quorum
  <2>3. ApprovalMaterial(e) = fields
    BY DEF ApprovalMaterial
  <2>4. a.quorum = quorum
    BY <1>7 DEF Emits, quorum
  <2>5. ApprovalMaterial(a) = fields
    BY <1>3, <1>4, <2>4 DEF ApprovalMaterial
  <2> HIDE DEF fields
  <2>6. Sealed(e) = [e EXCEPT !.approval_hash = fields]
    BY <2>3 DEF Sealed
  <2>7. Sealed(e) = [event_type |-> EventType, material |-> m, proposal_hash |-> m,
                     proposer |-> a.proposer, quorum |-> quorum,
                     approved_at |-> a.approved_at, approval_hash |-> fields]
    BY <2>6
  <2>8. a = [event_type |-> EventType, material |-> m, proposal_hash |-> m,
             proposer |-> a.proposer, quorum |-> quorum,
             approved_at |-> a.approved_at, approval_hash |-> fields]
    BY <2>1, <2>5 DEF quorum
  <2> QED BY <2>2, <2>7, <2>8
<1>10. Legitimate(m, a)
  BY <1>4, <1>7, <1>9 DEF Legitimate, Emits
<1> QED BY <1>2, <1>3, <1>5, <1>8, <1>10 DEF Sound

LEMMA SoundAccepted ==
  ASSUME rows \in Tables, raw \in Seq(Nat \cup {Blank}), NEW m, Sound(m)
  PROVE  RequireConsensusApproval(m, rows, raw)
<1>1. PICK r \in rows : r = ApprovalRow(r.payload) /\ r.proposal_hash = m
                        /\ Legitimate(m, r.payload)
  BY DEF Sound
<1>2. PICK a : a = r.payload
  OBVIOUS
<1>3. PICK yes \in SUBSET Members, no \in SUBSET Members :
        /\ yes \cap no = {} /\ IsQuorum(Members, yes) /\ a.approved_at # ""
        /\ a = ApprovalEvent(m, Members, a.proposer, yes, no, a.approved_at)
  BY <1>1, <1>2 DEF Legitimate
<1>4. PICK now, who, block :
        now = a.approved_at /\ who = a.proposer /\ block = QuorumBlock(Members, yes, no)
  OBVIOUS
<1>5. /\ a.event_type = EventType /\ a.material = m /\ a.proposal_hash = m
      /\ a.quorum = block /\ a.approval_hash = ApprovalMaterial(a)
  <2> DEFINE e == [event_type |-> EventType, material |-> m, proposal_hash |-> m,
                   proposer |-> who, quorum |-> block, approved_at |-> now, approval_hash |-> <<>>]
  <2>1. a = Sealed(e)
    BY <1>3, <1>4 DEF ApprovalEvent
  <2> QED BY <2>1 DEF Sealed, ApprovalMaterial
<1>6. Emits(Members, yes, no, a.quorum)
  BY <1>3, <1>4, <1>5 DEF Emits
<1>7. /\ Members \in SUBSET Nat /\ IsFiniteSet(Members) /\ Members # {}
      /\ AuthorizedNodesFromEnv(raw) = Members
  BY MembersTaken DEF Sound, Proper
<1>8. VerifyQuorum(a.quorum, Members)
  BY <1>6, <1>7, EmittedVerified
<1>9. VerifyApprovalPayload(a, m, AuthorizedNodesFromEnv(raw))
  BY <1>3, <1>5, <1>7, <1>8 DEF VerifyApprovalPayload
<1>10. r \in Found(rows, m)
  <2>1. {s \in rows : s.proposal_hash = m} = {r}
    BY <1>1, TablesAssumption
  <2>2. a.approval_hash = r.approval_hash
    BY <1>1, <1>2 DEF ApprovalRow
  <2> QED BY <1>2, <1>5, <2>1, <2>2 DEF Found
<1> QED BY <1>2, <1>9, <1>10 DEF RequireConsensusApproval

(* What the check lets through is what the bridge builds from a ballot at  *)
(* quorum of the nodes configured now, with any name as the proposer,      *)
(* sealed and stored under its key, and everything of that kind is let     *)
(* through.                                                                *)
THEOREM GateExact == Spec => []AcceptsExactlySoundApprovals
<1> DEFINE Judged == verdict # Pending =>
             verdict = {m \in Mutations : RequireConsensusApproval(m, rows, raw)}
           IInv == rows \in Tables /\ raw \in Environments /\ Judged
<1>1. Init => IInv
  BY DEF Init
<1>2. IInv /\ [Next]_<<rows, raw, verdict>> => IInv'
  BY DEF Next, Judge
<1>3. IInv => AcceptsExactlySoundApprovals
  <2> SUFFICES ASSUME IInv, verdict # Pending
               PROVE  verdict = {m \in Mutations : Sound(m)}
    BY DEF AcceptsExactlySoundApprovals, Sound
  <2>1. raw \in Seq(Nat \cup {Blank})
    BY EnvironmentsAssumption
  <2>2. \A m : RequireConsensusApproval(m, rows, raw) <=> Sound(m)
    BY <2>1, AcceptedSound, SoundAccepted
  <2> QED BY <2>2
<1> QED BY <1>1, <1>2, <1>3, PTL DEF Spec
===============================================================================
