---------------------------- MODULE ConsensusBridge ----------------------------
(***************************************************************************)
(* ConsensusTransportBridge with its ConsensusGate, over the Postgres      *)
(* store: verified gossip envelopes go in, at most one approval per        *)
(* proposal hash comes out.                                                *)
(*                                                                         *)
(* gossip_protocol.py calls handle_envelope from one daemon thread per     *)
(* connection, and neither the bridge nor the gate takes a lock, so a      *)
(* handler is a sequence of steps, cut wherever it touches memory that     *)
(* other handlers share or calls the store.  Threads is the number of      *)
(* handlers that can be active together: one is the replay command line    *)
(* or a quiet network, two or more is serve_forever.                       *)
(*                                                                         *)
(* A mutation is abstracted to its proposal hash (Hashes): the hash binds  *)
(* every field.  approved_at and approval_hash are left out.               *)
(***************************************************************************)
EXTENDS Integers, FiniteSets, Sequences, QuorumRule

CONSTANTS
  Nodes,       \* node names an envelope can carry
  Authorized,  \* ConsensusGate.authorized_nodes
  Hashes,      \* canonical proposal hashes
  Envelopes,   \* the envelopes gossip will ever hand over
  Threads,     \* handler threads that can be active together
  Faulty,      \* store calls that may raise
  MayCrash,    \* whether the process can be killed and restarted
  None         \* Python's None / an absent row or key

StoreCalls == {"record_proposal", "record_vote", "has_approval", "write_approval"}

(* A proposal envelope has voter = sender and vote = "yes": the proposer's *)
(* implied vote.  canonical says whether payload["proposal_hash"] is the   *)
(* recomputed hash of a well-formed mutation.  id tells apart two          *)
(* envelopes with the same content.                                        *)
Envelope == [id: Nat, type: {"CONSENSUS_PROPOSAL", "CONSENSUS_VOTE"},
             sender: Nodes, voter: Nodes, hash: Hashes,
             vote: {"yes", "no"}, canonical: BOOLEAN]

Proposals == {e \in Envelopes : e.type = "CONSENSUS_PROPOSAL"}

ASSUME AuthorizedAssumption == Authorized \subseteq Nodes /\ IsFiniteSet(Authorized)
ASSUME EnvelopesAssumption ==
  /\ Envelopes \subseteq Envelope
  /\ \A e \in Proposals : e.voter = e.sender /\ e.vote = "yes"
ASSUME FaultyAssumption == Faulty \subseteq StoreCalls
ASSUME MayCrashAssumption == MayCrash \in BOOLEAN

(* The row of consensus_approvals, and what a ballot amounts to.           *)
Artifact == [proposer: Nodes, yes: SUBSET Nodes, no: SUBSET Nodes]
Ballot == [proposer: Nodes, votes: [Nodes -> {"yes", "no", "none"}]]

ASSUME NoneAssumption == None \notin Envelopes \cup Nodes \cup Artifact \cup Ballot

(* The validation at the top of _handle_proposal and of _handle_vote.      *)
AdmissibleProposal(e) == e.sender \in Authorized /\ e.canonical

(* Mutant of AdmissibleVote: the voter is not compared with the sender.    *)
AdmissibleAnyVoter(e) == e.sender \in Authorized

AdmissibleVote(e) == e.sender \in Authorized /\ e.voter = e.sender

Admissible(e) ==
  IF e.type = "CONSENSUS_PROPOSAL" THEN AdmissibleProposal(e) ELSE AdmissibleVote(e)

VARIABLES
  inbox,          \* envelopes gossip has not handed over yet
  heard,          \* envelopes handed over so far, in any process (history)
  ballot_box,     \* hash -> Proposal object, named by the envelope that made it
  votes,          \* Proposal object -> its votes dict ("none": no entry)
  pending_votes,  \* hash -> list of queued vote envelopes
  db_proposals,   \* consensus_proposals: hash -> proposer
  db_votes,       \* consensus_votes: (hash, voter_id) -> vote
  db_approvals,   \* consensus_approvals: hash -> artifact
  pc,             \* thread -> next step
  env,            \* thread -> envelope being handled
  cur,            \* thread -> pending vote being replayed
  replay,         \* thread -> popped pending votes still to replay
  reached,        \* thread -> what cast_vote returned
  proposal,       \* thread -> Proposal object it last looked up in the ballot box
  event           \* thread -> approval artifact under construction

memory == <<ballot_box, votes, pending_votes>>
ledger == <<db_proposals, db_votes, db_approvals>>
locals == <<pc, env, cur, replay, reached, proposal, event>>
vars == <<inbox, heard, memory, ledger, locals>>

NoVotes == [n \in Nodes |-> "none"]

YesVoters(p) == {n \in Nodes : votes[p][n] = "yes"}
NoVoters(p) == {n \in Nodes : votes[p][n] = "no"}

(* Mutant of Reached: every vote counts, not only the True ones.           *)
ReachedByTurnout(p) == IsQuorum(Authorized, YesVoters(p) \cup NoVoters(p))

(* The count of check_consensus, on the votes of one Proposal object.      *)
Reached(p) == IsQuorum(Authorized, YesVoters(p))

(* The vote envelope the code of _handle_vote runs on.                     *)
Vote(t) == IF cur[t] = None THEN env[t] ELSE cur[t]

-------------------------------------------------------------------------------

EachHash(x) == [h \in Hashes |-> x]
EachThread(x) == [t \in Threads |-> x]

Init ==
  /\ inbox = Envelopes
  /\ heard = {}
  /\ ballot_box = EachHash(None)
  /\ votes = [p \in Proposals |-> NoVotes]
  /\ pending_votes = EachHash(<<>>)
  /\ db_proposals = EachHash(None)
  /\ db_votes = EachHash(NoVotes)
  /\ db_approvals = EachHash(None)
  /\ pc = EachThread("idle")
  /\ env = EachThread(None)
  /\ cur = EachThread(None)
  /\ replay = EachThread(<<>>)
  /\ reached = EachThread(FALSE)
  /\ proposal = EachThread(None)
  /\ event = EachThread(None)

-------------------------------------------------------------------------------
(* How a step of thread t ends.                                            *)

Goto(t, label) ==
  /\ pc' = [pc EXCEPT ![t] = label]
  /\ UNCHANGED <<env, cur, replay, reached, proposal, event>>

(* The frame of handle_envelope is gone, and with it the votes it popped   *)
(* for replay.                                                             *)
Unwind(t) ==
  /\ env' = [env EXCEPT ![t] = None]
  /\ cur' = [cur EXCEPT ![t] = None]
  /\ replay' = [replay EXCEPT ![t] = <<>>]
  /\ reached' = [reached EXCEPT ![t] = FALSE]
  /\ proposal' = [proposal EXCEPT ![t] = None]
  /\ event' = [event EXCEPT ![t] = None]

(* The handler is over: it returned, or it raised and gossip swallowed it. *)
End(t) == pc' = [pc EXCEPT ![t] = "idle"] /\ Unwind(t)

(* A nested _handle_vote returns to the replay loop; anything else ends    *)
(* the handler.                                                            *)
Return(t) ==
  IF cur[t] = None
  THEN End(t)
  ELSE /\ pc' = [pc EXCEPT ![t] = "next"]
       /\ reached' = [reached EXCEPT ![t] = FALSE]
       /\ proposal' = [proposal EXCEPT ![t] = None]
       /\ event' = [event EXCEPT ![t] = None]
       /\ UNCHANGED <<env, cur, replay>>

(* A store call whose transaction committed but whose answer was lost.     *)
AnswerLost(t) == pc[t] \in Faulty /\ End(t)

(* A store call that raises and commits nothing.                           *)
StoreRaises(t) ==
  /\ pc[t] \in Faulty
  /\ End(t)
  /\ UNCHANGED <<inbox, heard, memory, ledger>>

-------------------------------------------------------------------------------
(* The store's statements, each a transaction of its own.                  *)

(* The foreign key of consensus_votes and consensus_approvals.             *)
Referenced(h) == db_proposals[h] # None

(* Mutant of InsertProposal: the two parameters are swapped.               *)
InsertProposalSwapped(h, proposer) == db_proposals' = [db_proposals EXCEPT ![h] = h]

(* INSERT ... ON CONFLICT (proposal_hash) DO NOTHING                       *)
InsertProposal(h, proposer) ==
  db_proposals' = IF db_proposals[h] = None
                  THEN [db_proposals EXCEPT ![h] = proposer] ELSE db_proposals

(* INSERT ... ON CONFLICT (proposal_hash, voter_id) DO UPDATE              *)
UpsertVote(e) == db_votes' = [db_votes EXCEPT ![e.hash][e.voter] = e.vote]

(* Mutant of InsertApproval: ON CONFLICT DO UPDATE.                        *)
InsertApprovalUpdating(h, artifact) ==
  db_approvals' = [db_approvals EXCEPT ![h] = artifact]

(* INSERT ... ON CONFLICT (proposal_hash) DO NOTHING                       *)
InsertApproval(h, artifact) ==
  db_approvals' = IF db_approvals[h] = None
                  THEN [db_approvals EXCEPT ![h] = artifact] ELSE db_approvals

-------------------------------------------------------------------------------
(* handle_envelope: gossip hands an envelope to a free thread.             *)

HandOver(t, e) ==
  /\ pc[t] = "idle"
  /\ e \in inbox
  /\ inbox' = inbox \ {e}
  /\ heard' = heard \cup {e}

(* Validation fails before any shared state is touched.                    *)
Reject(t, e) ==
  /\ HandOver(t, e)
  /\ ~Admissible(e)
  /\ UNCHANGED <<memory, ledger, locals>>

Accept(t, e) ==
  /\ HandOver(t, e)
  /\ Admissible(e)
  /\ env' = [env EXCEPT ![t] = e]
  /\ pc' = [pc EXCEPT ![t] = IF e.type = "CONSENSUS_PROPOSAL" THEN "propose" ELSE "find"]
  /\ UNCHANGED <<memory, ledger, cur, replay, reached, proposal, event>>

-------------------------------------------------------------------------------
(* self.ballot_box[proposal_hash]: the gate looks the ballot up anew for   *)
(* each use, in cast_vote, in each check_consensus and once more for what  *)
(* require_consensus returns.  Another handler may replace it in between.  *)
LookUps == [look_cast |-> "cast", look_tally |-> "tally", look_check |-> "check",
            look_require |-> "require", look_fetch |-> "scan_yes"]

LookUp(t) ==
  /\ pc[t] \in DOMAIN LookUps
  /\ proposal' = [proposal EXCEPT ![t] = ballot_box[Vote(t).hash]]
  /\ pc' = [pc EXCEPT ![t] = LookUps[pc[t]]]
  /\ UNCHANGED <<inbox, heard, memory, ledger, env, cur, replay, reached, event>>

-------------------------------------------------------------------------------
(* _handle_proposal, after validation.                                     *)

(* Mutant of Propose: a hash with a ballot is registered again.            *)
ProposeAgain(t) ==
  /\ pc[t] = "propose"
  /\ Goto(t, "register")
  /\ UNCHANGED <<inbox, heard, memory, ledger>>

(* `in ballot_box`, tested by the bridge and again by propose_mutation: a  *)
(* hash with a ballot ends the handler and the sender's yes is dropped.    *)
Propose(t) ==
  /\ pc[t] = "propose"
  /\ IF ballot_box[env[t].hash] = None THEN Goto(t, "register") ELSE End(t)
  /\ UNCHANGED <<inbox, heard, memory, ledger>>

(* The assignment at the end of propose_mutation: it replaces the ballot   *)
(* another thread registered since the test.                               *)
Register(t) ==
  /\ pc[t] = "register"
  /\ ballot_box' = [ballot_box EXCEPT ![env[t].hash] = env[t]]
  /\ votes' = [votes EXCEPT ![env[t]] = [NoVotes EXCEPT ![env[t].sender] = "yes"]]
  /\ Goto(t, "record_proposal")
  /\ UNCHANGED <<inbox, heard, pending_votes, ledger>>

RecordProposal(t) ==
  /\ pc[t] = "record_proposal"
  /\ InsertProposal(env[t].hash, env[t].sender)
  /\ Goto(t, "pop") \/ AnswerLost(t)
  /\ UNCHANGED <<inbox, heard, memory, db_votes, db_approvals>>

(* Mutant of PopPending: the popped votes are not replayed.                *)
PopPendingUnread(t) ==
  /\ pc[t] = "pop"
  /\ pending_votes' = [pending_votes EXCEPT ![env[t].hash] = <<>>]
  /\ Goto(t, "next")
  /\ UNCHANGED <<inbox, heard, ballot_box, votes, ledger>>

(* Mutant of PopPending: the queue is read but stays.                      *)
PopPendingKept(t) ==
  /\ pc[t] = "pop"
  /\ replay' = [replay EXCEPT ![t] = pending_votes[env[t].hash]]
  /\ pc' = [pc EXCEPT ![t] = "next"]
  /\ UNCHANGED <<inbox, heard, memory, ledger, env, cur, reached, proposal, event>>

(* pending_votes.pop(proposal_hash, [])                                    *)
PopPending(t) ==
  /\ pc[t] = "pop"
  /\ replay' = [replay EXCEPT ![t] = pending_votes[env[t].hash]]
  /\ pending_votes' = [pending_votes EXCEPT ![env[t].hash] = <<>>]
  /\ pc' = [pc EXCEPT ![t] = "next"]
  /\ UNCHANGED <<inbox, heard, ballot_box, votes, ledger, env, cur, reached, proposal, event>>

(* The for loop: the next popped vote goes through all of _handle_vote.    *)
NextPending(t) ==
  /\ pc[t] = "next"
  /\ IF replay[t] = <<>>
     THEN /\ pc' = [pc EXCEPT ![t] = "look_check"]
          /\ cur' = [cur EXCEPT ![t] = None]
          /\ UNCHANGED replay
     ELSE /\ pc' = [pc EXCEPT ![t] = "find"]
          /\ cur' = [cur EXCEPT ![t] = Head(replay[t])]
          /\ replay' = [replay EXCEPT ![t] = Tail(replay[t])]
  /\ UNCHANGED <<inbox, heard, memory, ledger, env, reached, proposal, event>>

(* Mutant of Check: the proposal handler leaves the count to the votes.    *)
CheckLeftOut(t) ==
  /\ pc[t] = "check"
  /\ End(t)
  /\ UNCHANGED <<inbox, heard, memory, ledger>>

(* check_consensus after the replay: the proposer's own yes may complete   *)
(* the quorum, or the votes of handlers that have died since.              *)
Check(t) ==
  /\ pc[t] = "check"
  /\ IF Reached(proposal[t]) THEN Goto(t, "has_approval") ELSE End(t)
  /\ UNCHANGED <<inbox, heard, memory, ledger>>

-------------------------------------------------------------------------------
(* _handle_vote, after validation.                                         *)

Find(t) ==
  /\ pc[t] = "find"
  /\ Goto(t, IF ballot_box[Vote(t).hash] = None THEN "queue" ELSE "look_cast")
  /\ UNCHANGED <<inbox, heard, memory, ledger>>

(* Mutant of Queue: a vote that precedes its proposal is dropped.          *)
QueueNothing(t) ==
  /\ pc[t] = "queue"
  /\ Return(t)
  /\ UNCHANGED <<inbox, heard, memory, ledger>>

(* pending_votes.setdefault(proposal_hash, []).append(envelope)            *)
Queue(t) ==
  /\ pc[t] = "queue"
  /\ pending_votes' = [pending_votes EXCEPT ![Vote(t).hash] = Append(@, Vote(t))]
  /\ Return(t)
  /\ UNCHANGED <<inbox, heard, ballot_box, votes, ledger>>

(* Mutant of SetVote: any vote value is taken for True.                    *)
SetVoteTrue(t) ==
  votes' = [votes EXCEPT ![proposal[t]][Vote(t).voter] = "yes"]

(* proposal.votes[voter_id] = vote: the last vote that arrives stands.     *)
SetVote(t) ==
  votes' = [votes EXCEPT ![proposal[t]][Vote(t).voter] = Vote(t).vote]

Cast(t) ==
  /\ pc[t] = "cast"
  /\ SetVote(t)
  /\ Goto(t, "look_tally")
  /\ UNCHANGED <<inbox, heard, ballot_box, pending_votes, ledger>>

(* Mutant of Tally: the approval is emitted before the vote is recorded.   *)
TallyEmitsFirst(t) ==
  /\ pc[t] = "tally"
  /\ Goto(t, IF Reached(proposal[t]) THEN "has_approval" ELSE "record_vote")
  /\ UNCHANGED <<inbox, heard, memory, ledger>>

(* check_consensus at the end of cast_vote.                                *)
Tally(t) ==
  /\ pc[t] = "tally"
  /\ reached' = [reached EXCEPT ![t] = Reached(proposal[t])]
  /\ pc' = [pc EXCEPT ![t] = "record_vote"]
  /\ UNCHANGED <<inbox, heard, memory, ledger, env, cur, replay, proposal, event>>

(* A vote whose proposal has no row yet kills the handler; otherwise what  *)
(* cast_vote returned decides whether an approval is emitted.              *)
RecordVote(t) ==
  /\ pc[t] = "record_vote"
  /\ IF ~Referenced(Vote(t).hash)
     THEN End(t) /\ UNCHANGED db_votes
     ELSE /\ UpsertVote(Vote(t))
          /\ \/ reached[t] /\ Goto(t, "has_approval")
             \/ ~reached[t] /\ Return(t)
             \/ AnswerLost(t)
  /\ UNCHANGED <<inbox, heard, memory, db_proposals, db_approvals>>

-------------------------------------------------------------------------------
(* _emit_approval.                                                         *)

(* Mutant of HasApproval: an approval is always built anew.                *)
HasApprovalUnasked(t) ==
  /\ pc[t] = "has_approval"
  /\ Goto(t, "look_require")
  /\ UNCHANGED <<inbox, heard, memory, ledger>>

(* has_approval, and read_approval when there is one.                      *)
HasApproval(t) ==
  /\ pc[t] = "has_approval"
  /\ IF db_approvals[Vote(t).hash] = None THEN Goto(t, "look_require") ELSE Return(t)
  /\ UNCHANGED <<inbox, heard, memory, ledger>>

(* require_consensus raises when the ballot is no longer at quorum; what   *)
(* it returns is looked up after the count.                                *)
Require(t) ==
  /\ pc[t] = "require"
  /\ IF Reached(proposal[t]) THEN Goto(t, "look_fetch") ELSE End(t)
  /\ UNCHANGED <<inbox, heard, memory, ledger>>

(* The two comprehensions read the live votes dict one after the other.    *)
ScanYes(t) ==
  /\ pc[t] = "scan_yes"
  /\ event' = [event EXCEPT ![t] = [proposer |-> proposal[t].sender,
                                    yes |-> YesVoters(proposal[t]), no |-> {}]]
  /\ pc' = [pc EXCEPT ![t] = "scan_no"]
  /\ UNCHANGED <<inbox, heard, memory, ledger, env, cur, replay, reached, proposal>>

ScanNo(t) ==
  /\ pc[t] = "scan_no"
  /\ event' = [event EXCEPT ![t].no = NoVoters(proposal[t])]
  /\ pc' = [pc EXCEPT ![t] = "write_approval"]
  /\ UNCHANGED <<inbox, heard, memory, ledger, env, cur, replay, reached, proposal>>

WriteApproval(t) ==
  /\ pc[t] = "write_approval"
  /\ IF ~Referenced(Vote(t).hash)
     THEN End(t) /\ UNCHANGED db_approvals
     ELSE /\ InsertApproval(Vote(t).hash, event[t])
          /\ Return(t) \/ AnswerLost(t)
  /\ UNCHANGED <<inbox, heard, memory, db_proposals, db_votes>>

-------------------------------------------------------------------------------

(* The votes dict a thread is iterating over, None when it is not.         *)
Scanning(t) ==
  IF pc[t] \in {"check", "tally", "require", "scan_yes", "scan_no"} THEN proposal[t] ELSE None

(* Thread u adds a key to the dict t is iterating over: Python raises      *)
(* RuntimeError in t.  (Overwriting an existing key does not.)             *)
ScanBroken(t, u) ==
  /\ t # u
  /\ pc[u] = "cast"
  /\ Scanning(t) = proposal[u]
  /\ votes[Scanning(t)][Vote(u).voter] = "none"
  /\ SetVote(u)
  /\ pc' = [pc EXCEPT ![t] = "idle", ![u] = "look_tally"]
  /\ Unwind(t)
  /\ UNCHANGED <<inbox, heard, ballot_box, pending_votes, ledger>>

(* The process dies and a new one starts: a fresh bridge over the same     *)
(* store.  Gossip drops what its ledger has seen; the replay command line  *)
(* hands that ledger to the new bridge again.                              *)
Restart ==
  /\ MayCrash
  /\ ballot_box' = EachHash(None)
  /\ votes' = [p \in Proposals |-> NoVotes]
  /\ pending_votes' = EachHash(<<>>)
  /\ pc' = EachThread("idle")
  /\ env' = EachThread(None)
  /\ cur' = EachThread(None)
  /\ replay' = EachThread(<<>>)
  /\ reached' = EachThread(FALSE)
  /\ proposal' = EachThread(None)
  /\ event' = EachThread(None)
  /\ inbox' \in {inbox, inbox \cup heard}
  /\ UNCHANGED <<heard, ledger>>

(* The steps of a running handler.                                         *)
Handle(t) ==
  \/ Propose(t) \/ Register(t) \/ RecordProposal(t) \/ PopPending(t)
  \/ NextPending(t) \/ LookUp(t) \/ Check(t)
  \/ Find(t) \/ Queue(t) \/ Cast(t) \/ Tally(t) \/ RecordVote(t)
  \/ HasApproval(t) \/ Require(t) \/ ScanYes(t) \/ ScanNo(t) \/ WriteApproval(t)

Next ==
  \/ \E t \in Threads, e \in Envelopes : Accept(t, e) \/ Reject(t, e)
  \/ \E t \in Threads : Handle(t) \/ StoreRaises(t)
  \/ \E t, u \in Threads : ScanBroken(t, u)
  \/ Restart

Spec == Init /\ [][Next]_vars

(* The scheduler runs every started handler, and gossip hands over every   *)
(* envelope while a thread is free: no envelope is lost on the way in.     *)
FairSpec ==
  /\ Spec
  /\ \A t \in Threads : WF_vars(Handle(t))
  /\ WF_vars(\E t \in Threads, e \in Envelopes : Accept(t, e) \/ Reject(t, e))

-------------------------------------------------------------------------------
(* Type invariant.                                                         *)

Labels == {"idle", "propose", "register", "record_proposal", "pop", "next", "check",
           "find", "queue", "cast", "tally", "record_vote", "has_approval", "require",
           "scan_yes", "scan_no", "write_approval"} \cup DOMAIN LookUps

TypeOK ==
  /\ inbox \subseteq Envelopes
  /\ heard \subseteq Envelopes
  /\ ballot_box \in [Hashes -> Proposals \cup {None}]
  /\ votes \in [Proposals -> [Nodes -> {"yes", "no", "none"}]]
  /\ pending_votes \in [Hashes -> Seq(Envelopes)]
  /\ db_proposals \in [Hashes -> Nodes \cup {None}]
  /\ db_votes \in [Hashes -> [Nodes -> {"yes", "no", "none"}]]
  /\ db_approvals \in [Hashes -> Artifact \cup {None}]
  /\ pc \in [Threads -> Labels]
  /\ env \in [Threads -> Envelopes \cup {None}]
  /\ cur \in [Threads -> Envelopes \cup {None}]
  /\ replay \in [Threads -> Seq(Envelopes)]
  /\ reached \in [Threads -> BOOLEAN]
  /\ proposal \in [Threads -> Proposals \cup {None}]
  /\ event \in [Threads -> Artifact \cup {None}]

-------------------------------------------------------------------------------
(* Safety.                                                                 *)

Idle == \A t \in Threads : pc[t] = "idle"

(* An envelope in which an authorized node speaks for itself, and whose    *)
(* proposal, if it is one, is a canonical mutation.                        *)
Genuine(e) ==
  /\ e.sender \in Authorized /\ e.voter = e.sender
  /\ e.type = "CONSENSUS_PROPOSAL" => e.canonical

(* Nodes that answered v on h in an envelope the bridge was handed: as a   *)
(* vote, or as a proposal, which implies yes.                              *)
Said(h, v) ==
  {n \in Nodes : \E e \in heard :
     Genuine(e) /\ e.hash = h /\ e.voter = n /\ e.vote = v}

(* Each name an artifact lists under yes or no sent this answer on h, and  *)
(* its proposer sent the proposal.                                         *)
Backed(h, a) ==
  /\ a.yes \subseteq Said(h, "yes")
  /\ a.no \subseteq Said(h, "no")
  /\ \E e \in heard \cap Proposals : Genuine(e) /\ e.hash = h /\ e.sender = a.proposer

(* Every name in a stored approval is that of a node that sent exactly     *)
(* this answer on exactly this mutation: no interleaving, restart or       *)
(* failing store call adds a name, moves one to another mutation or takes  *)
(* one from an envelope the handlers refuse.                               *)
AuthenticApprovals ==
  \A h \in Hashes : db_approvals[h] # None => Backed(h, db_approvals[h])

(* A stored approval lists at least 2/3 + 1 of the authorized nodes as     *)
(* yes, and no node both as yes and as no: what README.md promises of the  *)
(* quorum block and what verify_quorum will demand of it at the push.      *)
ApprovalCarriesQuorum ==
  \A h \in Hashes : db_approvals[h] # None =>
    /\ IsQuorum(Authorized, db_approvals[h].yes)
    /\ db_approvals[h].yes \cap db_approvals[h].no = {}

(* Once written, an approval never changes and never disappears, whatever  *)
(* later votes, second writers, replays and restarts do.                   *)
ApprovalIsFinal ==
  [][\A h \in Hashes : db_approvals[h] # None => db_approvals'[h] = db_approvals[h]]_vars

(* When nothing is running, a ballot that is at quorum has its approval:   *)
(* whichever handler's vote completed the quorum, some handler noticed.    *)
QuorumIsApproved ==
  Idle => \A h \in Hashes :
    ballot_box[h] # None /\ Reached(ballot_box[h]) => db_approvals[h] # None

(* The vote messages of n on h that were handed over, as a set of answers. *)
Answers(h, n) ==
  {e.vote : e \in {x \in heard \ Proposals : Genuine(x) /\ x.hash = h /\ x.voter = n}}

(* When nothing is running, the votes of a ballot are what the nodes       *)
(* answered, whether their votes came before or after the proposal: none   *)
(* is forgotten in the pending list, and only the proposer counts unasked. *)
EveryHeardVoteCounts ==
  Idle => \A h \in Hashes, n \in Nodes :
    LET p == ballot_box[h] IN
    p # None =>
      IF Answers(h, n) # {} THEN votes[p][n] \in Answers(h, n)
      ELSE votes[p][n] = IF n = p.sender THEN "yes" ELSE "none"

(* A vote still queued while nothing is running waits for a proposal that  *)
(* has not been registered.                                                *)
NoStrandedVotes ==
  Idle => \A h \in Hashes : pending_votes[h] # <<>> => ballot_box[h] = None

(* When an approval is written, every yes it lists is already a row of     *)
(* consensus_votes (the proposer's implied yes: of consensus_proposals).   *)
VotesDurableBeforeApproval ==
  [][\A h \in Hashes : db_approvals[h] = None /\ db_approvals'[h] # None =>
       /\ db_proposals[h] # None
       /\ \A n \in db_approvals'[h].yes :
            n = db_approvals'[h].proposer \/ db_votes[h][n] = "yes"]_vars

(* Without restarts, the proposer an approval names is the one recorded in *)
(* consensus_proposals, also when several nodes proposed the mutation.     *)
ApprovalNamesRecordedProposer ==
  \A h \in Hashes : db_approvals[h] # None =>
    db_approvals[h].proposer = db_proposals[h]

(* What write_approval leaves in the store is what its caller was handed:  *)
(* the artifact a handler returns and logs is the one that is stored.      *)
ReturnedIsStored ==
  [][\A t \in Threads :
       pc[t] = "write_approval" /\ pc'[t] # pc[t] =>
         db_approvals'[Vote(t).hash] = event[t]]_vars

(* Every mutation is proposed in one message that is handed over once.     *)
ProposedOnce ==
  \A d, e \in Proposals : Genuine(d) /\ Genuine(e) /\ d.hash = e.hash => d = e

(* No node changes its answer on a mutation.                               *)
Steadfast ==
  \A d, e \in Envelopes :
    Genuine(d) /\ Genuine(e) /\ d.hash = e.hash /\ d.voter = e.voter
      => d.vote = e.vote

-------------------------------------------------------------------------------
(* Liveness.                                                               *)

(* Nodes that can only end up as yes on h: they send at least one vote and *)
(* no other answer, or they are the only proposer and never vote no.       *)
CertainYes(h) ==
  LET about == {e \in Envelopes : Genuine(e) /\ e.hash = h}
  IN  {n \in Nodes :
         /\ \A e \in about : e.voter = n => e.vote = "yes"
         /\ \/ \E e \in about \ Proposals : e.voter = n
            \/ \A e \in about \cap Proposals : e.sender = n}

(* A mutation that is proposed, and that a quorum votes for without        *)
(* wavering, is eventually approved, in whatever order the proposal and    *)
(* the votes arrive.                                                       *)
QuorumEventuallyApproved ==
  \A h \in Hashes :
    /\ \E e \in Proposals : Genuine(e) /\ e.hash = h
    /\ IsQuorum(Authorized, CertainYes(h))
    => <>(db_approvals[h] # None)

-------------------------------------------------------------------------------
(* Refinement.                                                             *)

Abstract == INSTANCE ConsensusLedger WITH
  ballots <- [h \in Hashes |->
                IF ballot_box[h] = None THEN None
                ELSE [proposer |-> ballot_box[h].sender, votes |-> votes[ballot_box[h]]]],
  approvals <- db_approvals

(* With one handler at a time, the bridge implements the abstract ledger,  *)
(* restarts, replays and failing store calls included.                     *)
ImplementsLedger == Abstract!Spec
===============================================================================
