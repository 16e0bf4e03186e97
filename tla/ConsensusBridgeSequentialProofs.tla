-------------------- MODULE ConsensusBridgeSequentialProofs --------------------
(***************************************************************************)
(* One handler at a time (the replay command line, a quiet network): what  *)
(* the bridge keeps between its memory, its store and the envelopes it was *)
(* handed, and that it implements ConsensusLedger.  Each theorem names the *)
(* failures it excludes; all others, and restarts, may happen.             *)
(***************************************************************************)
EXTENDS ConsensusBridgeProofs

(* What a step reads is still so when a later step relies on it.           *)
EmitSteps == {"scan_yes", "scan_no", "write_approval"}

(* The registered ballot of the vote a handler runs on.                    *)
OwnBallot(t) == ballot_box[Vote(t).hash]

BallotAlone(t) ==
  /\ pc[t] = "propose" => cur[t] = None
  /\ pc[t] = "register" => ballot_box[env[t].hash] = None
  /\ pc[t] = "record_proposal" =>
       /\ ballot_box[env[t].hash] = env[t]
       /\ votes[env[t]] = [NoVotes EXCEPT ![env[t].sender] = "yes"]
  /\ pc[t] = "queue" => OwnBallot(t) = None
  /\ pc[t] \in HeldSteps \cup EmitSteps => proposal[t] = OwnBallot(t)

CountAlone(t) ==
  /\ pc[t] \in {"look_tally", "tally", "record_vote"} =>
       votes[OwnBallot(t)][Vote(t).voter] = Vote(t).vote
  /\ pc[t] = "record_vote" /\ reached[t] => Reached(OwnBallot(t))
  /\ pc[t] \in {"has_approval", "look_require", "require", "look_fetch"} \cup EmitSteps =>
       Reached(OwnBallot(t))

EmitAlone(t) ==
  /\ pc[t] \in {"look_require", "require", "look_fetch"} \cup EmitSteps =>
       db_approvals[Vote(t).hash] = None
  /\ pc[t] = "scan_no" =>
       event[t] = [proposer |-> proposal[t].sender, yes |-> YesVoters(proposal[t]), no |-> {}]
  /\ pc[t] = "write_approval" =>
       event[t] = [proposer |-> proposal[t].sender,
                   yes |-> YesVoters(proposal[t]), no |-> NoVoters(proposal[t])]

Alone(t) == BallotAlone(t) /\ CountAlone(t) /\ EmitAlone(t)

(* Steps at which a handler relies on nothing it has read.                 *)
Unburdened == {"idle", "pop", "next", "look_check", "find", "look_cast"}

LEMMA UnburdenedAlone ==
  ASSUME NEW t \in Threads, pc'[t] \in Unburdened
  PROVE  Alone(t)'
BY DEF Unburdened, Alone, BallotAlone, CountAlone, EmitAlone, EmitSteps, HeldSteps

LEMMA ReturnUnburdened ==
  ASSUME TypeOK, NEW t \in Threads, Return(t) \/ End(t)
  PROVE  pc'[t] \in Unburdened
BY DEF TypeOK, Return, End, Unburdened

LEMMA AloneHandler ==
  ASSUME TypeOK, Control, NEW t \in Threads, Alone(t), Handle(t)
  PROVE  Alone(t)'
<1> USE DEF memory, ledger
<1> DEFINE free == pc'[t] \in Unburdened
<1>0. free => Alone(t)'
  BY UnburdenedAlone
<1>1. CASE Propose(t)
  <2>1. CASE Goto(t, "register") /\ ballot_box[env[t].hash] = None
    BY <1>1, <2>1 DEF Propose, Goto, TypeOK, Alone, BallotAlone, CountAlone, EmitAlone, EmitSteps, HeldSteps, OwnBallot
  <2> QED BY <1>0, <1>1, <2>1, ReturnUnburdened DEF Propose
<1>2. CASE Register(t)
  <2>1. env[t] \in Proposals /\ env[t].hash \in Hashes
    BY <1>2, BallotOfVote DEF Register, Control, ThreadOK, EnvOK, ProposalSteps
  <2>2. /\ pc'[t] = "record_proposal" /\ env' = env /\ ballot_box'[env[t].hash] = env[t]
        /\ votes'[env[t]] = [NoVotes EXCEPT ![env[t].sender] = "yes"]
    BY <1>2, <2>1 DEF Register, Goto, TypeOK
  <2> QED BY <2>2 DEF Alone, BallotAlone, CountAlone, EmitAlone, EmitSteps, HeldSteps, OwnBallot
<1>3. CASE RecordProposal(t)
  BY <1>0, <1>3, ReturnUnburdened DEF RecordProposal, AnswerLost, Goto, TypeOK, Unburdened
<1>4. CASE PopPending(t) \/ NextPending(t)
  BY <1>0, <1>4 DEF PopPending, NextPending, TypeOK, Unburdened
<1>5. CASE Check(t)
  <2>1. CASE Goto(t, "has_approval") /\ Reached(proposal[t])
    <3>1. pc'[t] = "has_approval" /\ UNCHANGED <<env, cur, ballot_box, votes>>
      BY <1>5, <2>1 DEF Check, Goto, TypeOK
    <3>2. Reached(OwnBallot(t))
      BY <1>5, <2>1 DEF Check, Alone, BallotAlone, HeldSteps
    <3>3. Reached(OwnBallot(t))'
      BY <3>1, <3>2 DEF Reached, YesVoters, Vote, OwnBallot
    <3> QED BY <3>3, <3>1, <3>2 DEF Alone, BallotAlone, CountAlone, EmitAlone, EmitSteps, HeldSteps, OwnBallot
  <2> QED BY <1>0, <1>5, <2>1, ReturnUnburdened DEF Check
<1>6. CASE Find(t)
  <2>1. pc'[t] = "look_cast" => Alone(t)'
    BY <1>0 DEF Unburdened
  <2>2. ASSUME pc'[t] # "look_cast" PROVE Alone(t)'
    <3>1. /\ pc'[t] = "queue" /\ ballot_box[Vote(t).hash] = None
          /\ UNCHANGED <<env, cur, ballot_box>>
      BY <1>6, <2>2 DEF Find, Goto, TypeOK
    <3> QED BY <3>1 DEF Alone, BallotAlone, CountAlone, EmitAlone, EmitSteps, HeldSteps, OwnBallot, Vote
  <2> QED BY <2>1, <2>2
<1>7. CASE Queue(t)
  BY <1>0, <1>7, ReturnUnburdened DEF Queue
<1>8. CASE Cast(t)
  <2>1. /\ Vote(t) \in Envelopes /\ Vote(t).voter \in Nodes
        /\ ballot_box[Vote(t).hash] \in Proposals
    BY <1>8, VoteTypes, EnvelopeTypes DEF Cast, Control, ThreadOK, BallotOK, BallotSteps, TypeOK
  <2>2. proposal[t] = ballot_box[Vote(t).hash]
    BY <1>8 DEF Cast, Alone, BallotAlone, HeldSteps, OwnBallot
  <2>3. /\ pc'[t] = "look_tally" /\ UNCHANGED <<env, cur, ballot_box>>
        /\ votes'[ballot_box[Vote(t).hash]][Vote(t).voter] = Vote(t).vote
    BY <1>8, <2>1, <2>2 DEF Cast, SetVote, Goto, TypeOK
  <2> QED BY <2>3 DEF Alone, BallotAlone, CountAlone, EmitAlone, EmitSteps, HeldSteps, OwnBallot, Vote
<1>9. CASE Tally(t)
  <2>1. /\ pc[t] = "tally" /\ pc'[t] = "record_vote" /\ reached'[t] = Reached(OwnBallot(t))
        /\ UNCHANGED <<env, cur, ballot_box, votes>>
    BY <1>9 DEF Tally, TypeOK, Alone, BallotAlone, HeldSteps
  <2> QED BY <2>1 DEF Alone, BallotAlone, CountAlone, EmitAlone, EmitSteps, HeldSteps, OwnBallot, Vote, Reached, YesVoters
<1>10. CASE RecordVote(t)
  <2>1. CASE reached[t] /\ Goto(t, "has_approval")
    <3>1. /\ pc[t] = "record_vote" /\ pc'[t] = "has_approval"
          /\ UNCHANGED <<env, cur, ballot_box, votes>>
      BY <1>10, <2>1 DEF RecordVote, Goto, TypeOK
    <3> QED BY <2>1, <3>1 DEF Alone, BallotAlone, CountAlone, EmitAlone, EmitSteps, HeldSteps, OwnBallot, Vote, Reached, YesVoters
  <2> QED BY <1>0, <1>10, <2>1, ReturnUnburdened DEF RecordVote, AnswerLost
<1>11. CASE HasApproval(t)
  <2>1. CASE Goto(t, "look_require") /\ db_approvals[Vote(t).hash] = None
    <3>1. /\ pc[t] = "has_approval" /\ pc'[t] = "look_require"
          /\ UNCHANGED <<env, cur, ballot_box, votes, db_approvals>>
      BY <1>11, <2>1 DEF HasApproval, Goto, TypeOK
    <3> QED BY <2>1, <3>1 DEF Alone, BallotAlone, CountAlone, EmitAlone, EmitSteps, HeldSteps, OwnBallot, Vote, Reached, YesVoters
  <2> QED BY <1>0, <1>11, <2>1, ReturnUnburdened DEF HasApproval
<1>12. CASE Require(t)
  <2>1. CASE Goto(t, "look_fetch")
    <3>1. /\ pc[t] = "require" /\ pc'[t] = "look_fetch"
          /\ UNCHANGED <<env, cur, proposal, ballot_box, votes, db_approvals>>
      BY <1>12, <2>1 DEF Require, Goto, TypeOK
    <3> QED BY <2>1, <3>1 DEF Alone, BallotAlone, CountAlone, EmitAlone, EmitSteps, HeldSteps, OwnBallot, Vote, Reached, YesVoters
  <2> QED BY <1>0, <1>12, <2>1, ReturnUnburdened DEF Require
<1>13. CASE ScanYes(t)
  <2>1. /\ pc[t] = "scan_yes" /\ pc'[t] = "scan_no"
        /\ event'[t] = [proposer |-> proposal[t].sender, yes |-> YesVoters(proposal[t]), no |-> {}]
        /\ UNCHANGED <<env, cur, proposal, ballot_box, votes, db_approvals>>
    BY <1>13 DEF ScanYes, TypeOK
  <2> QED BY <2>1 DEF Alone, BallotAlone, CountAlone, EmitAlone, EmitSteps, HeldSteps, OwnBallot, Vote, Reached, YesVoters
<1>14. CASE ScanNo(t)
  <2>1. /\ pc[t] = "scan_no" /\ pc'[t] = "write_approval"
        /\ event'[t] = [event[t] EXCEPT !.no = NoVoters(proposal[t])]
        /\ UNCHANGED <<env, cur, proposal, ballot_box, votes, db_approvals>>
    BY <1>14 DEF ScanNo, TypeOK
  <2>2. event[t] = [proposer |-> proposal[t].sender, yes |-> YesVoters(proposal[t]), no |-> {}]
    BY <2>1 DEF Alone, EmitAlone
  <2>3. event'[t] = [proposer |-> proposal[t].sender,
                     yes |-> YesVoters(proposal[t]), no |-> NoVoters(proposal[t])]
    BY <2>1, <2>2
  <2> QED BY <2>1, <2>3 DEF Alone, BallotAlone, CountAlone, EmitAlone, EmitSteps, HeldSteps, OwnBallot, Vote, Reached, YesVoters, NoVoters
<1>15. CASE WriteApproval(t)
  BY <1>0, <1>15, ReturnUnburdened DEF WriteApproval, AnswerLost
<1>16. CASE LookUp(t)
  <2>1. /\ \/ pc[t] = "look_cast" /\ pc'[t] = "cast"
           \/ pc[t] = "look_tally" /\ pc'[t] = "tally"
           \/ pc[t] = "look_check" /\ pc'[t] = "check"
           \/ pc[t] = "look_require" /\ pc'[t] = "require"
           \/ pc[t] = "look_fetch" /\ pc'[t] = "scan_yes"
        /\ proposal'[t] = OwnBallot(t)
    BY <1>16, LookUpFrame DEF OwnBallot
  <2>2. UNCHANGED <<env, cur, ballot_box, votes, db_approvals>>
    BY <1>16 DEF LookUp
  <2>3. OwnBallot(t)' = OwnBallot(t) /\ Vote(t)' = Vote(t)
    BY <2>2 DEF OwnBallot, Vote
  <2>4. BallotAlone(t)'
    BY <2>1, <2>3 DEF BallotAlone
  <2>5. CountAlone(t)' /\ EmitAlone(t)'
    BY <2>1, <2>2, <2>3 DEF Alone, CountAlone, EmitAlone, EmitSteps, Reached, YesVoters
  <2> QED BY <2>4, <2>5 DEF Alone
<1> QED BY <1>1, <1>2, <1>3, <1>4, <1>5, <1>6, <1>7, <1>8, <1>9, <1>10, <1>11, <1>12, <1>13,
           <1>14, <1>15, <1>16 DEF Handle

LEMMA AloneNext ==
  ASSUME TypeOK, Control, Sequential, \A t \in Threads : Alone(t), [Next]_vars
  PROVE  \A t \in Threads : Alone(t)'
<1> SUFFICES ASSUME NEW t \in Threads PROVE Alone(t)'
  OBVIOUS
<1>1. ASSUME NEW u \in Threads, NEW e \in Envelopes, Accept(u, e) PROVE Alone(t)'
  <2>1. u = t
    BY DEF Sequential
  <2>2. /\ pc'[t] \in {"propose", "find"} /\ cur'[t] = None
    BY <1>1, <2>1 DEF Accept, HandOver, TypeOK, Control, ThreadOK, ReplayOK
  <2> QED BY <2>2 DEF Alone, BallotAlone, CountAlone, EmitAlone, EmitSteps, HeldSteps
<1>2. ASSUME NEW u \in Threads, Handle(u) PROVE Alone(t)'
  <2>1. u = t
    BY DEF Sequential
  <2> QED BY <1>2, <2>1, AloneHandler
<1>3. ASSUME NEW u \in Threads, StoreRaises(u) PROVE Alone(t)'
  <2>1. u = t
    BY DEF Sequential
  <2> QED BY <1>3, <2>1, ReturnUnburdened, UnburdenedAlone DEF StoreRaises
<1>4. ASSUME NEW u \in Threads, NEW v \in Threads, ScanBroken(u, v) PROVE FALSE
  BY <1>4 DEF ScanBroken, Sequential
<1>5. ASSUME Restart PROVE Alone(t)'
  BY <1>5, UnburdenedAlone DEF Restart, EachThread, Unburdened
<1>6. ASSUME UNCHANGED <<memory, ledger, locals>> PROVE Alone(t)'
  BY <1>6 DEF memory, ledger, locals, Alone, BallotAlone, CountAlone, EmitAlone, OwnBallot, Vote, Reached, YesVoters, NoVoters
<1> QED BY <1>1, <1>2, <1>3, <1>4, <1>5, <1>6 DEF Next, Reject, vars

SequentialOK == TypeOK /\ Control /\ Testimony /\ \A t \in Threads : Alone(t)

LEMMA SequentialAlways == ASSUME Sequential PROVE Spec => []SequentialOK
<1>1. Init => SequentialOK
  <2>1. Init => \A t \in Threads : Alone(t)
    BY DEF Init, EachThread, Alone, BallotAlone, CountAlone, EmitAlone, EmitSteps, HeldSteps
  <2> QED BY <2>1, TypeInit, TestimonyInit DEF SequentialOK
<1>2. SequentialOK /\ [Next]_vars => SequentialOK'
  BY TypeNext, ControlNext, TestimonyNext, AloneNext DEF SequentialOK
<1> QED BY <1>1, <1>2, PTL DEF Spec

-------------------------------------------------------------------------------
(* The bridge implements the ledger.                                       *)

(* The ballot the ledger sees under hash h.                                *)
View(h) ==
  IF ballot_box[h] = None THEN None
  ELSE [proposer |-> ballot_box[h].sender, votes |-> votes[ballot_box[h]]]

Views == [h \in Hashes |-> View(h)]

LEMMA ViewIsBallot ==
  ASSUME TypeOK, NEW h \in Hashes, ballot_box[h] # None
  PROVE  View(h) \in Ballot /\ View(h) # None
<1>1. ballot_box[h] \in Proposals /\ ballot_box[h].sender \in Nodes
  BY EnvelopeTypes DEF TypeOK, Proposals
<1> QED BY <1>1, NoneAssumption DEF View, Ballot, TypeOK

(* The ledger counts by the same rule.                                     *)
LEMMA SameRule ==
  ASSUME NEW members, NEW yes
  PROVE  Abstract!IsQuorum(members, yes) <=> IsQuorum(members, yes)
<1>1. ASSUME NEW S PROVE Abstract!Cardinality(S) = Cardinality(S)
  BY DEF Abstract!Cardinality, Cardinality
<1> QED BY <1>1 DEF Abstract!IsQuorum, Abstract!Threshold, IsQuorum, Threshold

LEMMA RegisterOpens ==
  ASSUME SequentialOK, NEW t \in Threads, Register(t)
  PROVE  Abstract!Next
<1>1. PICK k \in Hashes : k = env[t].hash
  BY BallotOfVote DEF SequentialOK, Register
<1>2. env[t] \in Proposals /\ env[t].sender \in Authorized /\ env[t] # None /\ ballot_box[k] = None
  BY <1>1, EnvelopeTypes DEF SequentialOK, Register, Control, ThreadOK, EnvOK, ProposalSteps,
     Testimony, FrameSound, Sound, Genuine, Alone, BallotAlone, Proposals
<1>3. PICK p \in Authorized : p = env[t].sender
  BY <1>2
<1>4. /\ ballot_box' = [ballot_box EXCEPT ![k] = env[t]] /\ db_approvals' = db_approvals
      /\ votes' = [votes EXCEPT ![env[t]] = [NoVotes EXCEPT ![p] = "yes"]]
  BY <1>1, <1>3 DEF Register, ledger
<1>5. View(k)' = [proposer |-> p, votes |-> [n \in Nodes |-> IF n = p THEN "yes" ELSE "none"]]
  BY <1>2, <1>3, <1>4 DEF View, NoVotes, SequentialOK, TypeOK
<1>6. ASSUME NEW h \in Hashes, h # k PROVE View(h)' = View(h)
  <2>1. ballot_box'[h] = ballot_box[h]
    BY <1>4, <1>6 DEF SequentialOK, TypeOK
  <2>2. ballot_box[h] # None => ballot_box[h] # env[t]
    BY <1>1, <1>6 DEF SequentialOK, Control, KeysOK
  <2> QED BY <1>4, <2>1, <2>2 DEF View, SequentialOK, TypeOK
<1>7. Abstract!Open(k, p)
  <2>1. Views' = [Views EXCEPT ![k] = [proposer |-> p, votes |-> [n \in Nodes |-> IF n = p THEN "yes" ELSE "none"]]]
    BY <1>5, <1>6 DEF Views
  <2> QED BY <1>2, <1>4, <2>1 DEF Abstract!Open, Views, View
<1> QED BY <1>7 DEF Abstract!Next

LEMMA CastCasts ==
  ASSUME SequentialOK, NEW t \in Threads, Cast(t)
  PROVE  Abstract!Next
<1>1. PICK k \in Hashes : k = Vote(t).hash
  BY BallotOfVote DEF SequentialOK, Cast
<1>2. /\ Vote(t).voter \in Authorized /\ Vote(t).vote \in {"yes", "no"}
      /\ Vote(t).voter \in Nodes
  BY VoteSound, EnvelopeTypes DEF SequentialOK, Cast, Sound, Genuine
<1>3. PICK n \in Authorized, v \in {"yes", "no"} : n = Vote(t).voter /\ v = Vote(t).vote
  BY <1>2
<1>4. ballot_box[k] # None /\ ballot_box[k] \in Proposals
  BY <1>1 DEF SequentialOK, Cast, Control, ThreadOK, BallotOK, BallotSteps, TypeOK
<1>5. /\ ballot_box' = ballot_box /\ db_approvals' = db_approvals
      /\ votes' = [votes EXCEPT ![ballot_box[k]][n] = v]
  <2>1. proposal[t] = ballot_box[k]
    BY <1>1 DEF SequentialOK, Cast, Alone, BallotAlone, HeldSteps, OwnBallot
  <2> QED BY <1>1, <1>3, <2>1 DEF Cast, SetVote, ledger
<1>6. View(k)' = [View(k) EXCEPT !.votes[n] = v]
  <2>1. votes'[ballot_box[k]] = [votes[ballot_box[k]] EXCEPT ![n] = v]
    BY <1>4, <1>5 DEF SequentialOK, TypeOK
  <2>2. View(k)' = [proposer |-> ballot_box[k].sender, votes |-> [votes[ballot_box[k]] EXCEPT ![n] = v]]
    BY <1>4, <1>5, <2>1 DEF View
  <2> QED BY <1>4, <2>2 DEF View
<1>7. ASSUME NEW h \in Hashes, h # k PROVE View(h)' = View(h)
  <2>1. ballot_box[h] # None => ballot_box[h] # ballot_box[k]
    BY <1>4, <1>7 DEF SequentialOK, Control, KeysOK
  <2> QED BY <1>5, <2>1 DEF View, SequentialOK, TypeOK
<1>8. Abstract!Cast(k, n, v)
  <2>1. Views' = [Views EXCEPT ![k].votes[n] = v]
    BY <1>6, <1>7 DEF Views
  <2>2. Views[k] # None
    BY <1>4, ViewIsBallot DEF Views, SequentialOK
  <2> QED BY <1>5, <2>1, <2>2 DEF Abstract!Cast, Views, View
<1> QED BY <1>8 DEF Abstract!Next

LEMMA WriteApproves ==
  ASSUME SequentialOK, NEW t \in Threads, WriteApproval(t)
  PROVE  Abstract!Next \/ UNCHANGED <<Views, db_approvals>>
<1>0. UNCHANGED <<ballot_box, votes>> /\ UNCHANGED Views
  BY DEF WriteApproval, memory, Views, View
<1>1. CASE ~Referenced(Vote(t).hash)
  BY <1>0, <1>1 DEF WriteApproval
<1>2. CASE Referenced(Vote(t).hash)
  <2>1. PICK k \in Hashes : k = Vote(t).hash
    BY BallotOfVote DEF SequentialOK, WriteApproval
  <2>2. ballot_box[k] # None
    BY <2>1 DEF SequentialOK, WriteApproval, Control, ThreadOK, BallotOK, BallotSteps
  <2>3. Views[k] # None /\ Views[k] = [proposer |-> ballot_box[k].sender, votes |-> votes[ballot_box[k]]]
    BY <2>2, ViewIsBallot DEF Views, View, SequentialOK
  <2>4. /\ db_approvals[k] = None /\ IsQuorum(Authorized, YesVoters(ballot_box[k]))
        /\ event[t] = [proposer |-> ballot_box[k].sender,
                       yes |-> YesVoters(ballot_box[k]), no |-> NoVoters(ballot_box[k])]
    BY <2>1 DEF SequentialOK, WriteApproval, Alone, BallotAlone, CountAlone, EmitAlone, EmitSteps,
       OwnBallot, Reached
  <2>5. db_approvals' = [db_approvals EXCEPT ![k] = event[t]]
    BY <1>2, <2>1, <2>4 DEF WriteApproval, InsertApproval
  <2>6. /\ Abstract!Voters(Views[k], "yes") = YesVoters(ballot_box[k])
        /\ Abstract!Voters(Views[k], "no") = NoVoters(ballot_box[k])
        /\ Views[k].proposer = ballot_box[k].sender
    BY <2>3 DEF Abstract!Voters, YesVoters, NoVoters
  <2>7. Abstract!Approve(k)
    BY <1>0, <2>3, <2>4, <2>5, <2>6, SameRule DEF Abstract!Approve, Views, View
  <2> QED BY <2>7 DEF Abstract!Next
<1> QED BY <1>1, <1>2

LEMMA RestartForgets ==
  ASSUME Restart
  PROVE  Abstract!Next
<1>1. Views' = [h \in Hashes |-> None] /\ db_approvals' = db_approvals
  BY DEF Restart, ledger, EachHash, Views, View
<1> QED BY <1>1 DEF Abstract!Next, Abstract!Forget, Views, View

LEMMA LedgerStep ==
  ASSUME SequentialOK, Sequential, [Next]_vars
  PROVE  Abstract!Next \/ UNCHANGED <<Views, db_approvals>>
<1> USE DEF memory, ledger
<1>1. CASE \E t \in Threads : Register(t) \/ Cast(t) \/ WriteApproval(t)
  BY <1>1, RegisterOpens, CastCasts, WriteApproves
<1>2. CASE Restart
  BY <1>2, RestartForgets
<1>3. CASE ~Restart /\ \A t \in Threads : ~(Register(t) \/ Cast(t) \/ WriteApproval(t))
  <2>1. \A t, u \in Threads : ~ScanBroken(t, u)
    BY DEF ScanBroken, Sequential
  <2>2. UNCHANGED <<ballot_box, votes, db_approvals>>
    BY <1>3, <2>1 DEF Next, Handle, vars, Accept, Reject, Propose, RecordProposal, PopPending,
       NextPending, LookUp, Check, Find, Queue, Tally, RecordVote, HasApproval, Require, ScanYes, ScanNo,
       StoreRaises
  <2> QED BY <2>2 DEF Views, View
<1> QED BY <1>1, <1>2, <1>3

(* With one handler at a time the bridge implements the abstract ledger,   *)
(* with failing store calls, lost answers and restarts at any moment:      *)
(* registering opens a ballot, cast_vote casts, the winning INSERT of an   *)
(* approval approves a ballot as it stands, a restart forgets the ballots, *)
(* and every other step of the code is invisible.                          *)
THEOREM BridgeImplementsLedger == ASSUME Sequential PROVE Spec => ImplementsLedger
<1>1. Init => Abstract!Init
  BY DEF Init, EachHash, Abstract!Init
<1>2. SequentialOK /\ [Next]_vars => [Abstract!Next]_(Abstract!ledgerVars)
  BY LedgerStep DEF Abstract!ledgerVars, Views, View
<1> QED BY <1>1, <1>2, SequentialAlways, PTL DEF Spec, ImplementsLedger, Abstract!Spec

-------------------------------------------------------------------------------
(* The artifact a handler returns.                                         *)

(* The step of the code that leaves write_approval.                        *)
LEMMA LeavesWrite ==
  ASSUME Sequential, TypeOK, [Next]_vars, ~MayCrash, "write_approval" \notin Faulty,
         NEW t \in Threads, pc[t] = "write_approval", pc'[t] # pc[t]
  PROVE  WriteApproval(t)
<1> USE DEF memory, ledger, locals
<1>1. ASSUME NEW u \in Threads, NEW e \in Envelopes, Accept(u, e) \/ Reject(u, e) PROVE FALSE
  BY <1>1 DEF Accept, Reject, HandOver, Sequential
<1>2. ASSUME NEW u \in Threads, Handle(u) PROVE WriteApproval(t)
  BY <1>2, LookUpSteps DEF Sequential, Handle, Propose, Register, RecordProposal, PopPending, NextPending, LookUp, Check,
     Find, Queue, Cast, Tally, RecordVote, HasApproval, Require, ScanYes, ScanNo
<1>3. ASSUME NEW u \in Threads, StoreRaises(u) PROVE FALSE
  BY <1>3 DEF StoreRaises, Sequential
<1>4. ASSUME NEW u \in Threads, NEW v \in Threads, ScanBroken(u, v) PROVE FALSE
  BY <1>4 DEF ScanBroken, Sequential
<1> QED BY <1>1, <1>2, <1>3, <1>4 DEF Next, Restart, vars

LEMMA RowsAlways == Spec => [](TypeOK /\ Control /\ \A t \in Threads : RowOK(t))
<1>1. Init => TypeOK /\ Control /\ \A t \in Threads : RowOK(t)
  BY TypeInit DEF Init, EachThread, RowOK, RowSteps
<1>2. /\ TypeOK /\ Control /\ \A t \in Threads : RowOK(t)
      /\ [Next]_vars
      => (TypeOK /\ Control /\ \A t \in Threads : RowOK(t))'
  BY TypeNext, ControlNext, RowNext
<1> QED BY <1>1, <1>2, PTL DEF Spec

(* The artifact a sequential handler returns and logs is the stored one,   *)
(* if write_approval does not raise and the process lives: its INSERT      *)
(* finds the proposal's row, and meets no approval of another handler.     *)
THEOREM StoresWhatItReturns ==
  ASSUME Sequential, ~MayCrash, "write_approval" \notin Faulty
  PROVE  Spec => ReturnedIsStored
<1> DEFINE IInv == SequentialOK /\ \A t \in Threads : RowOK(t)
<1>1. Spec => []IInv
  BY SequentialAlways, RowsAlways, PTL
<1>2. ASSUME IInv, [Next]_vars, NEW t \in Threads, pc[t] = "write_approval", pc'[t] # pc[t]
      PROVE  db_approvals'[Vote(t).hash] = event[t]
  <2>1. WriteApproval(t)
    BY <1>2, LeavesWrite DEF SequentialOK
  <2>2. Vote(t).hash \in Hashes /\ Vote(t).hash = env[t].hash
    BY <1>2, BallotOfVote DEF SequentialOK
  <2>3. Referenced(Vote(t).hash)
    BY <1>2, <2>2 DEF RowOK, RowSteps
  <2>4. db_approvals[Vote(t).hash] = None
    BY <1>2 DEF SequentialOK, Alone, EmitAlone, EmitSteps
  <2> QED BY <1>2, <2>1, <2>2, <2>3, <2>4 DEF WriteApproval, InsertApproval, SequentialOK, TypeOK
<1> HIDE DEF IInv
<1>3. IInv /\ [Next]_vars => \A t \in Threads :
        pc[t] = "write_approval" /\ pc'[t] # pc[t] => db_approvals'[Vote(t).hash] = event[t]
  BY <1>2
<1> QED BY <1>1, <1>3, PTL DEF Spec, ReturnedIsStored

-------------------------------------------------------------------------------
(* The proposer an approval names.                                         *)

(* The row of a mutation names the proposer of its ballot: no second       *)
(* proposer gets a ballot, and without restarts no ballot is lost.         *)
RecordedProposer ==
  /\ \A h \in Hashes :
       IF ballot_box[h] = None THEN db_proposals[h] = None
       ELSE db_proposals[h] \in {None, ballot_box[h].sender}
  /\ ApprovalNamesRecordedProposer

LEMMA RecordedKept ==
  ASSUME RecordedProposer, UNCHANGED <<ballot_box, db_proposals, db_approvals>>
  PROVE  RecordedProposer'
BY DEF RecordedProposer, ApprovalNamesRecordedProposer

LEMMA RecordedNext ==
  ASSUME SequentialOK, RecordedProposer, Sequential, ~MayCrash, [Next]_vars
  PROVE  RecordedProposer'
<1> USE DEF memory, ledger, locals
<1>1. ASSUME NEW t \in Threads, Register(t) PROVE RecordedProposer'
  <2>1. ballot_box[env[t].hash] = None /\ env[t].hash \in Hashes /\ env[t] # None
    BY <1>1, BallotOfVote, EnvelopeTypes
       DEF Register, SequentialOK, Alone, BallotAlone, Control, ThreadOK, EnvOK
  <2> QED BY <1>1, <2>1 DEF Register, RecordedProposer, ApprovalNamesRecordedProposer, SequentialOK, TypeOK
<1>2. ASSUME NEW t \in Threads, RecordProposal(t) PROVE RecordedProposer'
  <2>1. /\ ballot_box[env[t].hash] = env[t] /\ env[t].hash \in Hashes /\ env[t] # None
        /\ env[t].sender \in Nodes
    BY <1>2, BallotOfVote, EnvelopeTypes
       DEF RecordProposal, SequentialOK, Alone, BallotAlone, Control, ThreadOK, EnvOK
  <2>2. ballot_box' = ballot_box /\ db_approvals' = db_approvals
    BY <1>2 DEF RecordProposal
  <2>3. ASSUME NEW h \in Hashes
        PROVE  \/ db_proposals'[h] = db_proposals[h]
               \/ /\ h = env[t].hash /\ db_proposals[h] = None
                  /\ db_proposals'[h] = env[t].sender
    BY <1>2, <2>1 DEF RecordProposal, InsertProposal, SequentialOK, TypeOK
  <2>4. \A h \in Hashes : db_approvals[h] # None => db_approvals[h].proposer \in Nodes
    BY DEF SequentialOK, TypeOK, Artifact
  <2> QED BY <2>1, <2>2, <2>3, <2>4, NoneAssumption DEF RecordedProposer, ApprovalNamesRecordedProposer
<1>3. ASSUME NEW t \in Threads, WriteApproval(t) PROVE RecordedProposer'
  <2>1. PICK k \in Hashes : k = Vote(t).hash
    BY <1>3, BallotOfVote DEF SequentialOK, WriteApproval
  <2>2. ballot_box[k] # None
    BY <1>3, <2>1 DEF WriteApproval, SequentialOK, Control, ThreadOK, BallotOK, BallotSteps
  <2>3. /\ proposal[t] = ballot_box[k]
        /\ event[t] = [proposer |-> proposal[t].sender,
                       yes |-> YesVoters(proposal[t]), no |-> NoVoters(proposal[t])]
    BY <1>3, <2>1 DEF WriteApproval, SequentialOK, Alone, BallotAlone, EmitAlone, EmitSteps, OwnBallot
  <2>4. Referenced(k) => db_proposals[k] = event[t].proposer
    BY <2>2, <2>3 DEF RecordedProposer, Referenced
  <2> QED BY <1>3, <2>1, <2>4 DEF WriteApproval, InsertApproval, RecordedProposer,
         ApprovalNamesRecordedProposer, SequentialOK, TypeOK
<1>4. CASE \A t \in Threads : ~(Register(t) \/ RecordProposal(t) \/ WriteApproval(t))
  <2>1. \A t, u \in Threads : ~ScanBroken(t, u)
    BY DEF ScanBroken, Sequential
  <2>2. UNCHANGED <<ballot_box, db_proposals, db_approvals>>
    BY <1>4, <2>1 DEF Next, Handle, vars, Accept, Reject, Propose, PopPending,
       NextPending, LookUp, Check, Find, Queue, Cast, Tally, RecordVote, HasApproval, Require, ScanYes, ScanNo,
       StoreRaises, Restart
  <2> QED BY <2>2, RecordedKept
<1> QED BY <1>1, <1>2, <1>3, <1>4

(* Without restarts a sequential bridge approves under the proposer it     *)
(* recorded, however many nodes propose the mutation and whichever store   *)
(* calls raise or lose their answer.                                       *)
THEOREM NamesRecordedProposer ==
  ASSUME Sequential, ~MayCrash
  PROVE  Spec => []ApprovalNamesRecordedProposer
<1>1. Init => RecordedProposer
  BY DEF Init, EachHash, RecordedProposer, ApprovalNamesRecordedProposer
<1>2. SequentialOK /\ RecordedProposer /\ [Next]_vars => RecordedProposer'
  BY RecordedNext
<1>3. RecordedProposer => ApprovalNamesRecordedProposer
  BY DEF RecordedProposer
<1> QED BY <1>1, <1>2, <1>3, SequentialAlways, PTL DEF Spec

-------------------------------------------------------------------------------
(* The rows behind an approval.                                            *)

CountingSteps == {"look_tally", "tally", "record_vote"}

(* Thread t has counted the vote of n on h and is about to record it.      *)
BeingRecorded(t, h, n) ==
  pc[t] \in CountingSteps /\ Vote(t).hash = h /\ Vote(t).voter = n

(* A yes of a ballot whose proposal has a row has a row too, but for the   *)
(* proposer's, which is implied, and the one that is just being recorded.  *)
Durable ==
  \A h \in Hashes, n \in Nodes :
    ballot_box[h] # None /\ Referenced(h) /\ votes[ballot_box[h]][n] = "yes" =>
      \/ n = ballot_box[h].sender
      \/ db_votes[h][n] = "yes"
      \/ \E t \in Threads : BeingRecorded(t, h, n)

LEMMA DurableKept ==
  ASSUME Sequential, Durable, NEW t \in Threads, pc[t] \notin CountingSteps,
         UNCHANGED <<ballot_box, votes, db_proposals, db_votes>>
  PROVE  Durable'
BY DEF Sequential, Durable, BeingRecorded, CountingSteps, Referenced

LEMMA DurableNext ==
  ASSUME SequentialOK, Durable, Sequential, "record_vote" \notin Faulty, [Next]_vars
  PROVE  Durable'
<1> USE DEF memory, ledger, locals
<1>0. ASSUME NEW t \in Threads, pc[t] \notin CountingSteps,
             NEW h \in Hashes, NEW n \in Nodes,
             ballot_box[h] # None, Referenced(h), votes[ballot_box[h]][n] = "yes"
      PROVE  n = ballot_box[h].sender \/ db_votes[h][n] = "yes"
  BY <1>0 DEF Sequential, Durable, BeingRecorded, CountingSteps
<1>1. ASSUME NEW t \in Threads, Register(t) PROVE Durable'
  <2>1. PICK k \in Hashes : k = env[t].hash
    BY <1>1, BallotOfVote DEF Register, SequentialOK
  <2>2. env[t] \in Proposals
    BY <1>1 DEF Register, SequentialOK, Control, ThreadOK, EnvOK, ProposalSteps
  <2> SUFFICES ASSUME NEW h \in Hashes, NEW n \in Nodes,
                      ballot_box'[h] # None, Referenced(h)', votes'[ballot_box'[h]][n] = "yes"
               PROVE  n = ballot_box'[h].sender \/ db_votes'[h][n] = "yes"
    BY DEF Durable
  <2>3. CASE h = k
    <3>1. ballot_box'[h] = env[t] /\ votes'[env[t]] = [NoVotes EXCEPT ![env[t].sender] = "yes"]
      BY <1>1, <2>1, <2>2, <2>3 DEF Register, SequentialOK, TypeOK
    <3> QED BY <3>1 DEF NoVotes
  <2>4. CASE h # k
    <3>1. ballot_box'[h] = ballot_box[h]
      BY <1>1, <2>1, <2>4 DEF Register, SequentialOK, TypeOK
    <3>2. votes'[ballot_box[h]] = votes[ballot_box[h]]
      BY <1>1, <2>1, <2>4, <3>1 DEF Register, SequentialOK, TypeOK, Control, KeysOK
    <3> QED BY <1>0, <1>1, <3>1, <3>2 DEF Register, Referenced, CountingSteps
  <2> QED BY <2>3, <2>4
<1>2. ASSUME NEW t \in Threads, RecordProposal(t) PROVE Durable'
  <2>1. PICK k \in Hashes : k = env[t].hash
    BY <1>2, BallotOfVote DEF RecordProposal, SequentialOK
  <2> SUFFICES ASSUME NEW h \in Hashes, NEW n \in Nodes,
                      ballot_box[h] # None, Referenced(h)', votes[ballot_box[h]][n] = "yes"
               PROVE  n = ballot_box[h].sender \/ db_votes[h][n] = "yes"
    BY <1>2 DEF Durable, RecordProposal
  <2>2. CASE h = k
    <3>1. ballot_box[h] = env[t] /\ votes[env[t]] = [NoVotes EXCEPT ![env[t].sender] = "yes"]
      BY <1>2, <2>1, <2>2 DEF RecordProposal, SequentialOK, Alone, BallotAlone
    <3> QED BY <3>1 DEF NoVotes
  <2>3. CASE h # k
    <3>1. Referenced(h)
      BY <1>2, <2>1, <2>3 DEF RecordProposal, InsertProposal, Referenced, SequentialOK, TypeOK
    <3> QED BY <1>0, <1>2, <3>1 DEF RecordProposal, CountingSteps
  <2> QED BY <2>2, <2>3
<1>3. ASSUME NEW t \in Threads, Cast(t) PROVE Durable'
  <2>1. PICK k \in Hashes : k = Vote(t).hash
    BY <1>3, BallotOfVote DEF Cast, SequentialOK
  <2>2. ballot_box[k] # None /\ ballot_box[k] \in Proposals /\ ballot_box[k].hash = k
    BY <1>3, <2>1 DEF Cast, SequentialOK, Control, KeysOK, ThreadOK, BallotOK, BallotSteps, TypeOK
  <2>3. /\ votes' = [votes EXCEPT ![ballot_box[k]][Vote(t).voter] = Vote(t).vote]
        /\ pc'[t] = "look_tally" /\ UNCHANGED <<env, cur, ballot_box, db_proposals, db_votes>>
    <3>1. proposal[t] = ballot_box[k]
      BY <1>3, <2>1 DEF SequentialOK, Cast, Alone, BallotAlone, HeldSteps, OwnBallot
    <3> QED BY <1>3, <2>1, <3>1 DEF Cast, SetVote, Goto, SequentialOK, TypeOK
  <2> SUFFICES ASSUME NEW h \in Hashes, NEW n \in Nodes,
                      ballot_box[h] # None, Referenced(h), votes'[ballot_box[h]][n] = "yes",
                      ~(h = k /\ n = Vote(t).voter)
               PROVE  n = ballot_box[h].sender \/ db_votes[h][n] = "yes"
    BY <2>1, <2>3 DEF Durable, Referenced, BeingRecorded, CountingSteps, Vote
  <2>4. votes[ballot_box[h]][n] = "yes"
    <3>1. ballot_box[h] \in Proposals /\ ballot_box[h].hash = h
      BY DEF SequentialOK, TypeOK, Control, KeysOK
    <3>2. ballot_box[h] # ballot_box[k] \/ n # Vote(t).voter
      BY <2>2, <3>1
    <3> QED BY <2>2, <2>3, <3>1, <3>2 DEF SequentialOK, TypeOK
  <2> QED BY <1>0, <1>3, <2>4 DEF Cast, CountingSteps
<1>4. ASSUME NEW t \in Threads, Tally(t) PROVE Durable'
  <2>1. /\ pc[t] = "tally" /\ pc'[t] = "record_vote"
        /\ UNCHANGED <<env, cur, ballot_box, votes, db_proposals, db_votes>>
    BY <1>4 DEF Tally, SequentialOK, TypeOK
  <2>2. ASSUME NEW h \in Hashes, NEW n \in Nodes, NEW u \in Threads, BeingRecorded(u, h, n)
        PROVE  BeingRecorded(t, h, n)'
    BY <2>1, <2>2 DEF Sequential, BeingRecorded, CountingSteps, Vote
  <2> QED BY <2>1, <2>2 DEF Durable, Referenced
<1>5. ASSUME NEW t \in Threads, RecordVote(t) PROVE Durable'
  <2>1. PICK k \in Hashes : k = Vote(t).hash
    BY <1>5, BallotOfVote DEF RecordVote, SequentialOK
  <2>2. Vote(t).vote \in {"yes", "no"} /\ Vote(t).voter \in Nodes
    BY <1>5, VoteSound, EnvelopeTypes DEF RecordVote, SequentialOK
  <2>3. votes[ballot_box[k]][Vote(t).voter] = Vote(t).vote
    BY <1>5, <2>1 DEF RecordVote, SequentialOK, Alone, CountAlone, OwnBallot
  <2> SUFFICES ASSUME NEW h \in Hashes, NEW n \in Nodes,
                      ballot_box[h] # None, Referenced(h), votes[ballot_box[h]][n] = "yes"
               PROVE  n = ballot_box[h].sender \/ db_votes'[h][n] = "yes"
    BY <1>5 DEF Durable, Referenced, RecordVote
  <2>4. CASE h = k /\ n = Vote(t).voter
    <3>1. db_votes' = [db_votes EXCEPT ![k][n] = "yes"]
      BY <1>5, <2>1, <2>3, <2>4 DEF RecordVote, UpsertVote
    <3> QED BY <2>4, <3>1 DEF SequentialOK, TypeOK
  <2>5. CASE ~(h = k /\ n = Vote(t).voter)
    <3>1. db_votes'[h][n] = db_votes[h][n]
      BY <1>5, <2>1, <2>2, <2>5 DEF RecordVote, UpsertVote, SequentialOK, TypeOK
    <3>2. \A u \in Threads : ~BeingRecorded(u, h, n)
      BY <2>1, <2>5 DEF Sequential, BeingRecorded, CountingSteps
    <3> QED BY <3>1, <3>2 DEF Durable
  <2> QED BY <2>4, <2>5
<1>6. ASSUME NEW t \in Threads, (\E e \in Envelopes : Accept(t, e) \/ Reject(t, e))
                                 \/ StoreRaises(t) \/ Propose(t) \/ PopPending(t) \/ NextPending(t)
                                 \/ Check(t) \/ Find(t) \/ Queue(t)
      PROVE  Durable'
  <2>1. pc[t] \notin CountingSteps /\ UNCHANGED <<ballot_box, votes, db_proposals, db_votes>>
    BY <1>6, FaultyAssumption DEF StoreCalls, Accept, Reject, HandOver, StoreRaises, Propose, PopPending, NextPending,
       Check, Find, Queue, CountingSteps
  <2> QED BY <2>1, DurableKept
<1>7. ASSUME NEW t \in Threads, HasApproval(t) \/ Require(t) \/ ScanYes(t) \/ ScanNo(t) \/ WriteApproval(t)
      PROVE  Durable'
  <2>1. pc[t] \notin CountingSteps /\ UNCHANGED <<ballot_box, votes, db_proposals, db_votes>>
    BY <1>7 DEF HasApproval, Require, ScanYes, ScanNo, WriteApproval, CountingSteps
  <2> QED BY <2>1, DurableKept
<1>8. ASSUME NEW t \in Threads, NEW u \in Threads, ScanBroken(t, u) PROVE FALSE
  BY <1>8 DEF ScanBroken, Sequential
<1>9. ASSUME Restart PROVE Durable'
  BY <1>9 DEF Restart, EachHash, Durable
<1>10. ASSUME UNCHANGED vars PROVE Durable'
  BY <1>10 DEF vars, Durable, BeingRecorded, CountingSteps, Referenced, Vote
<1>11. ASSUME NEW t \in Threads, LookUp(t) PROVE Durable'
  <2>1. UNCHANGED <<env, cur, ballot_box, votes, db_proposals, db_votes>>
    BY <1>11 DEF LookUp
  <2>2. ASSUME NEW h \in Hashes, NEW n \in Nodes, NEW u \in Threads, BeingRecorded(u, h, n)
        PROVE  BeingRecorded(t, h, n)'
    <3>1. u = t
      BY DEF Sequential
    <3>2. pc'[t] \in CountingSteps
      BY <1>11, <2>2, <3>1, LookUpFrame DEF SequentialOK, BeingRecorded, CountingSteps
    <3> QED BY <2>1, <2>2, <3>1, <3>2 DEF BeingRecorded, Vote
  <2> QED BY <2>1, <2>2 DEF Durable, Referenced
<1> QED BY <1>1, <1>2, <1>3, <1>4, <1>5, <1>6, <1>7, <1>8, <1>9, <1>10, <1>11 DEF Next, Handle

(* Without a failing record_vote, every yes of a new approval is a row of  *)
(* the store before the approval is, whatever restarts and other failing   *)
(* calls came before: the store never holds an approval that its own vote  *)
(* table does not bear out.                                                *)
THEOREM VotesBeforeApproval ==
  ASSUME Sequential, "record_vote" \notin Faulty
  PROVE  Spec => VotesDurableBeforeApproval
<1> DEFINE Borne == \A h \in Hashes : db_approvals[h] = None /\ db_approvals'[h] # None =>
         /\ db_proposals[h] # None
         /\ \A n \in db_approvals'[h].yes :
              n = db_approvals'[h].proposer \/ db_votes[h][n] = "yes"
<1>1. Init => Durable
  BY DEF Init, EachHash, Durable
<1>2. SequentialOK /\ Durable /\ [Next]_vars => Durable'
  BY DurableNext
<1>3. SequentialOK /\ Durable /\ [Next]_vars => Borne
  <2> SUFFICES ASSUME SequentialOK, Durable, [Next]_vars, NEW h \in Hashes,
                      db_approvals[h] = None, db_approvals'[h] # None
               PROVE  /\ db_proposals[h] # None
                      /\ \A n \in db_approvals'[h].yes :
                           n = db_approvals'[h].proposer \/ db_votes[h][n] = "yes"
    OBVIOUS
  <2>1. PICK t \in Threads : WriteApproval(t)
    BY DEF Next, Handle, vars, memory, ledger, Accept, Reject, Propose, Register, RecordProposal, PopPending,
       NextPending, LookUp, Check, Find, Queue, Cast, Tally, RecordVote, HasApproval, Require, ScanYes, ScanNo,
       StoreRaises, ScanBroken, Restart
  <2>2. h = Vote(t).hash /\ Referenced(h) /\ db_approvals'[h] = event[t]
    BY <2>1 DEF WriteApproval, InsertApproval, SequentialOK, TypeOK
  <2>3. ballot_box[h] # None
    BY <2>1, <2>2 DEF WriteApproval, SequentialOK, Control, ThreadOK, BallotOK, BallotSteps
  <2>4. /\ event[t].proposer = ballot_box[h].sender /\ event[t].yes = YesVoters(ballot_box[h])
    <3>1. /\ proposal[t] = ballot_box[h]
          /\ event[t] = [proposer |-> proposal[t].sender,
                         yes |-> YesVoters(proposal[t]), no |-> NoVoters(proposal[t])]
      BY <2>1, <2>2 DEF WriteApproval, SequentialOK, Alone, BallotAlone, EmitAlone, EmitSteps, OwnBallot
    <3> QED BY <3>1
  <2>5. \A u \in Threads, n \in Nodes : ~BeingRecorded(u, h, n)
    BY <2>1 DEF WriteApproval, Sequential, BeingRecorded, CountingSteps
  <2> QED BY <2>2, <2>3, <2>4, <2>5 DEF Durable, YesVoters, Referenced
<1> QED BY <1>1, <1>2, <1>3, SequentialAlways, PTL DEF Spec, VotesDurableBeforeApproval
-------------------------------------------------------------------------------
(* The pending list.                                                       *)

(* Votes wait under a hash that has a ballot only while the handler of the *)
(* proposal is on its way to pop them.                                     *)
Queued ==
  \A h \in Hashes : pending_votes[h] # <<>> /\ ballot_box[h] # None =>
    \E t \in Threads : pc[t] \in {"record_proposal", "pop"} /\ env[t].hash = h

LEMMA QueuedKept ==
  ASSUME Sequential, Queued, NEW t \in Threads, pc[t] \notin {"record_proposal", "pop"},
         UNCHANGED <<ballot_box, pending_votes>>
  PROVE  Queued'
BY DEF Sequential, Queued

LEMMA QueuedNext ==
  ASSUME SequentialOK, Queued, Sequential, "record_proposal" \notin Faulty, [Next]_vars
  PROVE  Queued'
<1> USE DEF memory, ledger, locals
<1>1. ASSUME NEW t \in Threads, Register(t) PROVE Queued'
  <2>1. PICK k \in Hashes : k = env[t].hash
    BY <1>1, BallotOfVote DEF Register, SequentialOK
  <2>2. ASSUME NEW h \in Hashes, h # k, pending_votes[h] # <<>> PROVE ballot_box'[h] = None
    BY <1>1, <2>1, <2>2 DEF Register, Sequential, Queued, SequentialOK, TypeOK
  <2>3. pc'[t] = "record_proposal" /\ env'[t].hash = k /\ pending_votes' = pending_votes
    BY <1>1, <2>1 DEF Register, Goto, SequentialOK, TypeOK
  <2> QED BY <2>2, <2>3 DEF Queued
<1>2. ASSUME NEW t \in Threads, RecordProposal(t) PROVE Queued'
  <2>1. /\ pc[t] = "record_proposal" /\ pc'[t] = "pop"
        /\ UNCHANGED <<env, ballot_box, pending_votes>>
    BY <1>2 DEF RecordProposal, AnswerLost, Goto, SequentialOK, TypeOK
  <2> QED BY <2>1 DEF Queued, Sequential
<1>3. ASSUME NEW t \in Threads, PopPending(t) PROVE Queued'
  <2>1. PICK k \in Hashes : k = env[t].hash
    BY <1>3, BallotOfVote DEF PopPending, SequentialOK
  <2>2. pending_votes' = [pending_votes EXCEPT ![k] = <<>>] /\ ballot_box' = ballot_box
    BY <1>3, <2>1 DEF PopPending
  <2>3. ASSUME NEW h \in Hashes, h # k, pending_votes[h] # <<>> PROVE ballot_box[h] = None
    BY <1>3, <2>1, <2>3 DEF Sequential, Queued
  <2> QED BY <2>2, <2>3 DEF Queued, SequentialOK, TypeOK
<1>4. ASSUME NEW t \in Threads, Queue(t) PROVE Queued'
  <2>1. PICK k \in Hashes : k = Vote(t).hash
    BY <1>4, BallotOfVote DEF Queue, SequentialOK
  <2>2. ballot_box[k] = None
    BY <1>4, <2>1 DEF Queue, SequentialOK, Alone, BallotAlone, OwnBallot
  <2>3. ASSUME NEW h \in Hashes, h # k PROVE pending_votes'[h] = pending_votes[h]
    BY <1>4, <2>1, <2>3 DEF Queue, SequentialOK, TypeOK
  <2>4. ASSUME NEW h \in Hashes, pending_votes[h] # <<>> PROVE ballot_box[h] = None
    BY <1>4, <2>4 DEF Queue, Queued, Sequential
  <2>5. ballot_box' = ballot_box
    BY <1>4 DEF Queue
  <2> QED BY <2>2, <2>3, <2>4, <2>5 DEF Queued
<1>5. ASSUME NEW t \in Threads,
             \/ \E e \in Envelopes : Accept(t, e) \/ Reject(t, e)
             \/ StoreRaises(t) \/ Propose(t) \/ NextPending(t) \/ Check(t) \/ Find(t) \/ Cast(t)
      PROVE  Queued'
  <2>1. pc[t] \notin {"record_proposal", "pop"} /\ UNCHANGED <<ballot_box, pending_votes>>
    BY <1>5, FaultyAssumption DEF StoreCalls, Accept, Reject, HandOver, StoreRaises, Propose, NextPending,
       Check, Find, Cast
  <2> QED BY <2>1, QueuedKept
<1>6. ASSUME NEW t \in Threads,
             Tally(t) \/ RecordVote(t) \/ HasApproval(t) \/ Require(t) \/ ScanYes(t) \/ ScanNo(t)
               \/ WriteApproval(t) \/ LookUp(t)
      PROVE  Queued'
  <2>1. pc[t] \notin {"record_proposal", "pop"} /\ UNCHANGED <<ballot_box, pending_votes>>
    BY <1>6, LookUpSteps DEF LookUp, Tally, RecordVote, HasApproval, Require, ScanYes, ScanNo, WriteApproval
  <2> QED BY <2>1, QueuedKept
<1>7. ASSUME NEW t \in Threads, NEW u \in Threads, ScanBroken(t, u) PROVE FALSE
  BY <1>7 DEF ScanBroken, Sequential
<1>8. ASSUME Restart PROVE Queued'
  BY <1>8 DEF Restart, EachHash, Queued
<1>9. ASSUME UNCHANGED vars PROVE Queued'
  BY <1>9 DEF vars, Queued
<1> QED BY <1>1, <1>2, <1>3, <1>4, <1>5, <1>6, <1>7, <1>8, <1>9 DEF Next, Handle

(* No vote is left behind in the pending list of a hash that has a ballot, *)
(* if record_proposal, which runs between the registration and the pop,    *)
(* always answers.                                                         *)
THEOREM NoVoteStranded ==
  ASSUME Sequential, "record_proposal" \notin Faulty
  PROVE  Spec => []NoStrandedVotes
<1>1. Init => Queued
  BY DEF Init, EachHash, Queued
<1>2. SequentialOK /\ Queued /\ [Next]_vars => Queued'
  BY QueuedNext
<1>3. Queued => NoStrandedVotes
  BY DEF Queued, NoStrandedVotes, Idle
<1> QED BY <1>1, <1>2, <1>3, SequentialAlways, PTL DEF Spec

-------------------------------------------------------------------------------
(* No heard vote is forgotten: with a store that answers and a process     *)
(* that lives, every vote message handed over is on its way to a ballot or *)
(* has been counted there, or the node has answered again.                 *)
Elements(s) == {s[i] : i \in 1..Len(s)}

LEMMA ElementsOf ==
  ASSUME NEW s \in Seq(Envelopes), NEW e \in Envelopes
  PROVE  /\ Elements(<<>>) = {}
         /\ Elements(Append(s, e)) = Elements(s) \cup {e}
         /\ s # <<>> => Elements(s) = {Head(s)} \cup Elements(Tail(s))
<1>1. Elements(<<>>) = {}
  BY DEF Elements
<1>2. Elements(Append(s, e)) = Elements(s) \cup {e}
  <2>1. /\ Len(s) \in Nat /\ Len(Append(s, e)) = Len(s) + 1
        /\ \A i \in 1..Len(s) : Append(s, e)[i] = s[i]
        /\ Append(s, e)[Len(s) + 1] = e
    OBVIOUS
  <2> QED BY <2>1 DEF Elements
<1>3. ASSUME s # <<>> PROVE Elements(s) = {Head(s)} \cup Elements(Tail(s))
  <2>1. /\ Len(s) \in Nat \ {0} /\ Len(Tail(s)) = Len(s) - 1 /\ Head(s) = s[1]
        /\ \A i \in 1..Len(Tail(s)) : Tail(s)[i] = s[i + 1]
    BY <1>3
  <2>2. ASSUME NEW i \in 1..Len(s) PROVE s[i] \in {Head(s)} \cup Elements(Tail(s))
    <3>1. CASE i = 1
      BY <2>1, <3>1
    <3>2. CASE i # 1
      <4>1. i - 1 \in 1..Len(Tail(s)) /\ Tail(s)[i - 1] = s[i]
        BY <2>1, <3>2
      <4> QED BY <4>1 DEF Elements
    <3> QED BY <3>1, <3>2
  <2>3. ASSUME NEW i \in 1..Len(Tail(s)) PROVE Tail(s)[i] \in Elements(s)
    <3>1. i + 1 \in 1..Len(s) /\ Tail(s)[i] = s[i + 1]
      BY <2>1
    <3> QED BY <3>1 DEF Elements
  <2>4. Head(s) \in Elements(s)
    BY <2>1 DEF Elements
  <2> QED BY <2>2, <2>3, <2>4 DEF Elements
<1> QED BY <1>1, <1>2, <1>3

-------------------------------------------------------------------------------
(* Frames: a handler holds popped votes only while it replays them.        *)

(* Steps of _handle_vote up to the assignment that counts the vote.        *)
Uncounted == {"find", "queue", "look_cast", "cast"}

Frame(t) ==
  /\ pc[t] \in {"propose", "register", "record_proposal", "pop", "look_check", "check"} => cur[t] = None
  /\ pc[t] # "next" /\ cur[t] = None => replay[t] = <<>>
  /\ pc[t] \in Uncounted => Vote(t) \notin Proposals
  /\ Elements(replay[t]) \cap Proposals = {}

VotesPend == \A h \in Hashes : Elements(pending_votes[h]) \cap Proposals = {}

FramesOK == VotesPend /\ \A t \in Threads : Frame(t)

LEMMA FrameEnds ==
  ASSUME TypeOK, NEW t \in Threads, End(t)
  PROVE  Frame(t)'
BY DEF TypeOK, End, Unwind, Frame, Uncounted, Elements

LEMMA FrameReturns ==
  ASSUME TypeOK, NEW t \in Threads, Frame(t), Return(t)
  PROVE  Frame(t)'
<1>1. CASE cur[t] = None
  BY <1>1, FrameEnds DEF Return
<1>2. CASE cur[t] # None
  <2>1. pc'[t] = "next" /\ UNCHANGED <<env, cur, replay>>
    BY <1>2 DEF Return, TypeOK
  <2> QED BY <2>1 DEF Frame, Uncounted
<1> QED BY <1>1, <1>2

LEMMA FrameGoes ==
  ASSUME TypeOK, NEW t \in Threads, Frame(t), NEW l, Goto(t, l), pc[t] # "next",
         l \in Uncounted => pc[t] \in Uncounted,
         l \in {"propose", "register", "record_proposal", "pop", "look_check", "check"} => cur[t] = None
  PROVE  Frame(t)'
<1>1. pc'[t] = l /\ UNCHANGED <<env, cur, replay>>
  BY DEF Goto, TypeOK
<1> QED BY <1>1 DEF Frame, Vote

LEMMA FrameHandler ==
  ASSUME TypeOK, Control, FramesOK, NEW t \in Threads, Handle(t)
  PROVE  Frame(t)' /\ VotesPend'
<1> USE DEF memory, ledger
<1>0. Frame(t) /\ VotesPend
  BY DEF FramesOK
<1>1. ASSUME pending_votes' = pending_votes PROVE VotesPend'
  BY <1>0, <1>1 DEF VotesPend
<1>2. CASE Propose(t) \/ Register(t) \/ RecordProposal(t) \/ Check(t)
  <2>1. pending_votes' = pending_votes
    BY <1>2 DEF Propose, Register, RecordProposal, Check
  <2>2. cur[t] = None
    BY <1>0, <1>2 DEF Frame, Propose, Register, RecordProposal, Check
  <2>3. CASE End(t)
    BY <1>1, <2>1, <2>3, FrameEnds
  <2>4. CASE ~End(t)
    <3>1. PICK l \in {"register", "record_proposal", "pop", "has_approval"} : Goto(t, l)
      BY <1>2, <2>4 DEF Propose, Register, RecordProposal, Check, AnswerLost
    <3>2. pc[t] # "next"
      BY <1>2 DEF Propose, Register, RecordProposal, Check
    <3> QED BY <1>0, <1>1, <2>1, <2>2, <3>1, <3>2, FrameGoes DEF Uncounted
  <2> QED BY <2>3, <2>4
<1>3. CASE PopPending(t)
  <2>1. PICK k \in Hashes : k = env[t].hash
    BY <1>3, BallotOfVote DEF PopPending
  <2>2. /\ pc'[t] = "next" /\ replay'[t] = pending_votes[k]
        /\ pending_votes' = [pending_votes EXCEPT ![k] = <<>>]
    BY <1>3, <2>1 DEF PopPending, TypeOK
  <2>3. Frame(t)'
    BY <1>0, <2>2 DEF Frame, VotesPend, Uncounted
  <2>4. VotesPend'
    BY <1>0, <2>2 DEF VotesPend, TypeOK, Elements
  <2> QED BY <2>3, <2>4
<1>4. CASE NextPending(t)
  <2>1. pending_votes' = pending_votes /\ replay[t] \in Seq(Envelopes)
    BY <1>4 DEF NextPending, TypeOK
  <2>2. CASE replay[t] = <<>>
    <3>1. pc'[t] = "look_check" /\ cur'[t] = None /\ replay' = replay
      BY <1>4, <2>2 DEF NextPending, TypeOK
    <3> QED BY <1>0, <1>1, <2>1, <2>2, <3>1 DEF Frame, Uncounted
  <2>3. CASE replay[t] # <<>>
    <3>1. PICK v \in Envelopes : v = Head(replay[t])
      BY <2>1, <2>3
    <3>2. pc'[t] = "find" /\ cur'[t] = v /\ replay'[t] = Tail(replay[t]) /\ v # None
      BY <1>4, <2>3, <3>1, EnvelopeTypes DEF NextPending, TypeOK
    <3>3. Elements(replay[t]) = {v} \cup Elements(replay'[t])
      BY <2>1, <2>3, <3>1, <3>2, ElementsOf
    <3> QED BY <1>0, <1>1, <2>1, <3>2, <3>3 DEF Frame, Uncounted, Vote
  <2> QED BY <2>2, <2>3
<1>5. CASE Find(t) \/ Cast(t)
  <2>1. PICK l \in {"queue", "look_cast", "look_tally"} : Goto(t, l) /\ pending_votes' = pending_votes
    BY <1>5 DEF Find, Cast
  <2>2. pc[t] \in Uncounted
    BY <1>5 DEF Find, Cast, Uncounted
  <2> QED BY <1>0, <1>1, <2>1, <2>2, FrameGoes DEF Uncounted
<1>6. CASE Queue(t)
  <2>1. PICK k \in Hashes : k = Vote(t).hash
    BY <1>6, BallotOfVote DEF Queue
  <2>2. Vote(t) \in Envelopes /\ Vote(t) \notin Proposals
    BY <1>0, <1>6, VoteTypes DEF Queue, Control, ThreadOK, Frame, Uncounted
  <2>3. PICK v \in Envelopes \ Proposals : v = Vote(t)
    BY <2>2
  <2>4. pending_votes' = [pending_votes EXCEPT ![k] = Append(pending_votes[k], v)]
    BY <1>6, <2>1, <2>3 DEF Queue
  <2>5. Elements(pending_votes'[k]) = Elements(pending_votes[k]) \cup {v}
    BY <2>4, ElementsOf DEF TypeOK
  <2>6. VotesPend'
    BY <1>0, <2>3, <2>4, <2>5 DEF VotesPend, TypeOK
  <2> QED BY <1>0, <1>6, <2>6, FrameReturns DEF Queue
<1>7. CASE Tally(t)
  <2>1. /\ pc[t] = "tally" /\ pc'[t] = "record_vote"
        /\ UNCHANGED <<env, cur, replay, pending_votes>>
    BY <1>7 DEF Tally, TypeOK
  <2> QED BY <1>0, <1>1, <2>1 DEF Frame, Uncounted
<1>8. CASE RecordVote(t) \/ HasApproval(t) \/ WriteApproval(t)
  <2>1. pending_votes' = pending_votes /\ pc[t] \notin Uncounted \cup {"next"}
    BY <1>8 DEF RecordVote, HasApproval, WriteApproval, Uncounted
  <2>2. CASE End(t) \/ Return(t)
    BY <1>0, <1>1, <2>1, <2>2, FrameEnds, FrameReturns
  <2>3. CASE ~(End(t) \/ Return(t))
    <3>1. PICK l \in {"has_approval", "look_require"} : Goto(t, l)
      BY <1>8, <2>3 DEF RecordVote, HasApproval, WriteApproval, AnswerLost
    <3> QED BY <1>0, <1>1, <2>1, <3>1, FrameGoes DEF Uncounted
  <2> QED BY <2>2, <2>3
<1>9. CASE Require(t) \/ ScanYes(t) \/ ScanNo(t)
  <2>1. pending_votes' = pending_votes
    BY <1>9 DEF Require, ScanYes, ScanNo
  <2>2. CASE End(t)
    BY <1>1, <2>1, <2>2, FrameEnds
  <2>3. CASE ~End(t)
    <3>1. /\ pc[t] # "next" /\ pc'[t] \in {"look_fetch", "scan_no", "write_approval"}
          /\ UNCHANGED <<env, cur, replay>>
      BY <1>9, <2>3 DEF Require, Goto, ScanYes, ScanNo, TypeOK
    <3> QED BY <1>0, <1>1, <2>1, <3>1 DEF Frame, Uncounted
  <2> QED BY <2>2, <2>3
<1>10. CASE LookUp(t)
  <2>1. UNCHANGED <<env, cur, replay, pending_votes>>
    BY <1>10 DEF LookUp
  <2>2. /\ pc[t] \in Uncounted <=> pc'[t] \in Uncounted
        /\ pc[t] = "look_check" <=> pc'[t] = "check"
        /\ pc[t] # "next"
        /\ pc'[t] \notin {"propose", "register", "record_proposal", "pop", "look_check", "next"}
    BY <1>10, LookUpFrame DEF Uncounted
  <2> QED BY <1>0, <1>1, <2>1, <2>2 DEF Frame, Vote
<1> QED BY <1>2, <1>3, <1>4, <1>5, <1>6, <1>7, <1>8, <1>9, <1>10 DEF Handle

LEMMA FramesNext ==
  ASSUME TypeOK, Control, Sequential, FramesOK, Faulty = {}, [Next]_vars
  PROVE  FramesOK'
<1> USE DEF memory, ledger, locals
<1>1. ASSUME NEW t \in Threads, NEW e \in Envelopes, Accept(t, e) PROVE FramesOK'
  <2>1. cur[t] = None /\ replay[t] = <<>>
    BY <1>1 DEF Accept, HandOver, Control, ThreadOK, ReplayOK
  <2>2. /\ cur' = cur /\ replay' = replay /\ env'[t] = e /\ pending_votes' = pending_votes
        /\ pc'[t] \in {"propose", "find"} /\ (pc'[t] = "find" => e \notin Proposals)
    BY <1>1 DEF Accept, TypeOK, Proposals
  <2>3. Frame(t)'
    BY <2>1, <2>2 DEF Frame, Uncounted, Vote, Elements
  <2> QED BY <2>2, <2>3 DEF FramesOK, VotesPend, Sequential
<1>2. ASSUME NEW t \in Threads, Handle(t) PROVE FramesOK'
  BY <1>2, FrameHandler DEF FramesOK, Sequential
<1>3. ASSUME NEW t \in Threads, NEW u \in Threads, ScanBroken(t, u) \/ StoreRaises(t) PROVE FALSE
  BY <1>3 DEF ScanBroken, StoreRaises, Sequential
<1>4. ASSUME Restart PROVE FramesOK'
  BY <1>4 DEF Restart, EachHash, EachThread, FramesOK, VotesPend, Frame, Uncounted, Elements
<1>5. ASSUME UNCHANGED <<memory, ledger, locals>> PROVE FramesOK'
  BY <1>5 DEF FramesOK, VotesPend, Frame, Vote
<1> QED BY <1>1, <1>2, <1>3, <1>4, <1>5 DEF Next, Reject, vars
-------------------------------------------------------------------------------
(* Where a vote is that has been handed over.                              *)

Carrying(t) ==
  Elements(replay[t]) \cup (IF pc[t] \in Uncounted THEN {Vote(t)} ELSE {})

Waiting(x) ==
  x \in Elements(pending_votes[x.hash]) \/ \E t \in Threads : x \in Carrying(t)

(* The ballot holds an answer that the voter of x gave.                    *)
Counted(x) ==
  /\ ballot_box[x.hash] # None
  /\ votes[ballot_box[x.hash]][x.voter] \in Answers(x.hash, x.voter)

(* Nothing handed over is lost, and nothing is counted that was not said.  *)
HeardKept ==
  \A x \in heard \ Proposals : Genuine(x) => Waiting(x) \/ Counted(x)

Unasked(p, n) == IF n = p.sender THEN "yes" ELSE "none"

BallotsTrue ==
  \A h \in Hashes, n \in Nodes : ballot_box[h] # None =>
    votes[ballot_box[h]][n] \in Answers(h, n) \cup {Unasked(ballot_box[h], n)}

HeardOK == FramesOK /\ HeardKept /\ BallotsTrue

LEMMA AnswersGrow ==
  ASSUME heard \subseteq heard', NEW h, NEW n
  PROVE  Answers(h, n) \subseteq Answers(h, n)'
BY DEF Answers, Genuine

(* A step that leaves the ballots alone and lets go of no vote.            *)
LEMMA HeardQuiet ==
  ASSUME TypeOK, HeardKept, BallotsTrue, UNCHANGED <<heard, ballot_box, votes>>,
         \A x \in Envelopes : Waiting(x) => Waiting(x)'
  PROVE  HeardKept' /\ BallotsTrue'
<1>1. \A h, n : Answers(h, n)' = Answers(h, n)
  BY DEF Answers, Genuine
<1>2. \A x : Genuine(x)' = Genuine(x)
  BY DEF Genuine
<1>3. HeardKept'
  BY <1>1, <1>2 DEF HeardKept, Counted, TypeOK
<1>4. BallotsTrue'
  BY <1>1 DEF BallotsTrue, Unasked
<1> QED BY <1>3, <1>4

LEMMA CarryGrows ==
  ASSUME Sequential, NEW t \in Threads, pending_votes' = pending_votes,
         Carrying(t) \subseteq Carrying(t)'
  PROVE  \A x \in Envelopes : Waiting(x) => Waiting(x)'
BY DEF Sequential, Waiting

LEMMA CarryGoes ==
  ASSUME TypeOK, NEW t \in Threads, NEW l, Goto(t, l), pc[t] \in Uncounted => l \in Uncounted
  PROVE  Carrying(t) \subseteq Carrying(t)'
BY DEF TypeOK, Goto, Carrying, Vote

LEMMA CarryReturns ==
  ASSUME TypeOK, NEW t \in Threads, Frame(t), Return(t), pc[t] \notin Uncounted, pc[t] # "next"
  PROVE  Carrying(t) \subseteq Carrying(t)'
<1>1. CASE cur[t] = None
  BY <1>1 DEF Frame, Carrying, Elements
<1>2. CASE cur[t] # None
  BY <1>2 DEF Return, Carrying
<1> QED BY <1>1, <1>2

(* A handler that ends outside the replay loop has nothing left to replay. *)
LEMMA CarryEnds ==
  ASSUME TypeOK, NEW t \in Threads, Frame(t), cur[t] = None, pc[t] \notin Uncounted, pc[t] # "next"
  PROVE  Carrying(t) \subseteq Carrying(t)'
BY DEF Frame, Carrying, Elements

(* The foreign keys hold and the count stands: no handler with votes to    *)
(* replay is killed.                                                       *)
LEMMA HandlerCarries ==
  ASSUME SequentialOK, Sequential, FramesOK, Faulty = {}, NEW t \in Threads, RowOK(t), Handle(t),
         ~PopPending(t), ~Queue(t), ~Cast(t)
  PROVE  Carrying(t) \subseteq Carrying(t)' /\ pending_votes' = pending_votes
<1> USE DEF memory, ledger
<1>0. Frame(t) /\ TypeOK
  BY DEF FramesOK, SequentialOK
<1>1. CASE Propose(t) \/ Register(t) \/ RecordProposal(t) \/ Check(t)
  <2>1. cur[t] = None /\ pc[t] \notin Uncounted \cup {"next"} /\ pending_votes' = pending_votes
    BY <1>0, <1>1 DEF Frame, Propose, Register, RecordProposal, Check, Uncounted
  <2> QED BY <1>0, <2>1, CarryEnds
<1>2. CASE NextPending(t)
  <2>1. pending_votes' = pending_votes /\ replay[t] \in Seq(Envelopes) /\ pc[t] = "next"
    BY <1>0, <1>2 DEF NextPending, TypeOK
  <2>2. CASE replay[t] = <<>>
    <3>1. Carrying(t) = {}
      BY <2>1, <2>2 DEF Carrying, Elements, Uncounted
    <3> QED BY <2>1, <3>1
  <2>3. CASE replay[t] # <<>>
    <3>1. PICK v \in Envelopes : v = Head(replay[t])
      BY <2>1, <2>3
    <3>2. pc'[t] = "find" /\ cur'[t] = v /\ replay'[t] = Tail(replay[t]) /\ v # None
      BY <1>0, <1>2, <2>3, <3>1, EnvelopeTypes DEF NextPending, TypeOK
    <3>3. Elements(replay[t]) = {v} \cup Elements(replay'[t])
      BY <2>1, <2>3, <3>1, <3>2, ElementsOf
    <3> QED BY <2>1, <3>2, <3>3 DEF Carrying, Uncounted, Vote
  <2> QED BY <2>2, <2>3
<1>3. CASE Find(t)
  BY <1>0, <1>3, CarryGoes DEF Find, Uncounted
<1>4. CASE Tally(t)
  BY <1>0, <1>4 DEF Tally, Carrying, Uncounted, TypeOK
<1>5. CASE RecordVote(t) \/ WriteApproval(t)
  <2>1. pc[t] \notin Uncounted \cup {"next"} /\ pending_votes' = pending_votes
    BY <1>5 DEF RecordVote, WriteApproval, Uncounted
  <2>2. CASE cur[t] = None
    BY <1>0, <2>1, <2>2, CarryEnds
  <2>3. CASE cur[t] # None
    <3>1. Referenced(Vote(t).hash)
      BY <2>3, VoteHash DEF RowOK, SequentialOK
    <3>2. Goto(t, "has_approval") \/ Return(t)
      BY <1>5, <3>1 DEF RecordVote, WriteApproval, AnswerLost
    <3> QED BY <1>0, <2>1, <3>2, CarryGoes, CarryReturns
  <2> QED BY <2>2, <2>3
<1>6. CASE HasApproval(t)
  <2>1. pc[t] \notin Uncounted \cup {"next"} /\ pending_votes' = pending_votes
    BY <1>6 DEF HasApproval, Uncounted
  <2> QED BY <1>0, <1>6, <2>1, CarryGoes, CarryReturns DEF HasApproval
<1>7. CASE Require(t) \/ ScanYes(t) \/ ScanNo(t)
  <2>1. pending_votes' = pending_votes /\ pc[t] \notin Uncounted /\ UNCHANGED <<env, cur, replay>>
    BY <1>7 DEF Require, Goto, ScanYes, ScanNo, Uncounted, SequentialOK, Alone, BallotAlone, CountAlone,
       HeldSteps
  <2> QED BY <2>1 DEF Carrying
<1>8. CASE LookUp(t)
  <2>1. UNCHANGED <<env, cur, replay, pending_votes>>
    BY <1>8 DEF LookUp
  <2>2. pc[t] \in Uncounted => pc'[t] \in Uncounted
    BY <1>0, <1>8, LookUpFrame DEF Uncounted
  <2> QED BY <2>1, <2>2 DEF Carrying, Vote
<1> QED BY <1>1, <1>2, <1>3, <1>4, <1>5, <1>6, <1>7, <1>8 DEF Handle

LEMMA PopCarries ==
  ASSUME SequentialOK, Sequential, FramesOK, NEW t \in Threads, PopPending(t)
  PROVE  \A x \in Envelopes : Waiting(x) => Waiting(x)'
<1>1. PICK k \in Hashes : k = env[t].hash
  BY BallotOfVote DEF PopPending, SequentialOK
<1>2. /\ pending_votes' = [pending_votes EXCEPT ![k] = <<>>]
      /\ replay'[t] = pending_votes[k]
  BY <1>1 DEF PopPending, SequentialOK, TypeOK
<1>3. Carrying(t) = {}
  BY DEF PopPending, FramesOK, Frame, Carrying, Uncounted, Elements
<1> SUFFICES ASSUME NEW x \in Envelopes, Waiting(x) PROVE Waiting(x)'
  OBVIOUS
<1>4. x \in Elements(pending_votes[x.hash])
  BY <1>3 DEF Waiting, Sequential
<1>5. x.hash \in Hashes
  BY EnvelopeTypes
<1>6. CASE x.hash = k
  BY <1>2, <1>4, <1>6 DEF Waiting, Carrying
<1>7. CASE x.hash # k
  BY <1>2, <1>4, <1>5, <1>7 DEF Waiting, SequentialOK, TypeOK
<1> QED BY <1>6, <1>7

LEMMA QueueCarries ==
  ASSUME SequentialOK, Sequential, FramesOK, NEW t \in Threads, Queue(t)
  PROVE  \A x \in Envelopes : Waiting(x) => Waiting(x)'
<1>1. PICK k \in Hashes : k = Vote(t).hash
  BY BallotOfVote DEF Queue, SequentialOK
<1>2. PICK v \in Envelopes : v = Vote(t)
  BY VoteTypes DEF Queue, SequentialOK, Control, ThreadOK
<1>3. pending_votes' = [pending_votes EXCEPT ![k] = Append(pending_votes[k], v)]
  BY <1>1, <1>2 DEF Queue
<1>4. Elements(pending_votes'[k]) = Elements(pending_votes[k]) \cup {v}
  BY <1>3, ElementsOf DEF SequentialOK, TypeOK
<1>5. \A h \in Hashes : Elements(pending_votes[h]) \subseteq Elements(pending_votes'[h])
  BY <1>3, <1>4 DEF SequentialOK, TypeOK
<1>6. Elements(replay[t]) \subseteq Elements(replay'[t])
  <2>1. CASE cur[t] = None
    BY <2>1 DEF Queue, FramesOK, Frame, Elements
  <2>2. CASE cur[t] # None
    BY <2>2 DEF Queue, Return
  <2> QED BY <2>1, <2>2
<1> SUFFICES ASSUME NEW x \in Envelopes, Waiting(x) PROVE Waiting(x)'
  OBVIOUS
<1>7. x.hash \in Hashes
  BY EnvelopeTypes
<1>8. CASE x \in Elements(pending_votes[x.hash]) \/ x = v
  BY <1>1, <1>2, <1>4, <1>5, <1>7, <1>8 DEF Waiting
<1>9. CASE x \in Elements(replay[t])
  BY <1>6, <1>9 DEF Waiting, Carrying
<1> QED BY <1>2, <1>8, <1>9 DEF Waiting, Carrying, Sequential

(* Counting a vote takes none off another: an answer it replaces is        *)
(* replaced by an answer of the same node.                                 *)
LEMMA CastCounts ==
  ASSUME SequentialOK, Sequential, HeardOK, NEW t \in Threads, Cast(t)
  PROVE  HeardKept' /\ BallotsTrue'
<1> USE DEF memory, ledger
<1>1. PICK k \in Hashes : k = Vote(t).hash
  BY BallotOfVote DEF Cast, SequentialOK
<1>2. /\ Vote(t) \in heard \ Proposals /\ Genuine(Vote(t)) /\ Vote(t) \in Envelopes
      /\ Vote(t).voter \in Nodes
  BY VoteSound, EnvelopeTypes DEF Cast, SequentialOK, Sound, HeardOK, FramesOK, Frame, Uncounted
<1>3. PICK v \in heard \ Proposals : v = Vote(t)
  BY <1>2
<1>4. v.vote \in Answers(k, v.voter) /\ v.hash = k /\ v.voter \in Nodes
  BY <1>1, <1>2, <1>3 DEF Answers
<1>5. ballot_box[k] # None /\ ballot_box[k] \in Proposals /\ ballot_box[k].hash = k
  BY <1>1 DEF Cast, SequentialOK, Control, KeysOK, ThreadOK, BallotOK, BallotSteps, TypeOK
<1>6. /\ UNCHANGED <<heard, ballot_box, pending_votes, replay>>
      /\ votes' = [votes EXCEPT ![ballot_box[k]][v.voter] = v.vote]
  <2>1. proposal[t] = ballot_box[k]
    BY <1>1 DEF SequentialOK, Cast, Alone, BallotAlone, HeldSteps, OwnBallot
  <2> QED BY <1>1, <1>3, <2>1 DEF Cast, SetVote, Goto
<1>7. votes'[ballot_box[k]] = [votes[ballot_box[k]] EXCEPT ![v.voter] = v.vote]
  BY <1>5, <1>6 DEF SequentialOK, TypeOK
<1>8. votes'[ballot_box[k]][v.voter] = v.vote
  BY <1>4, <1>5, <1>7 DEF SequentialOK, TypeOK
<1>9. ASSUME NEW h \in Hashes, NEW n \in Nodes, ballot_box[h] # None, ~(h = k /\ n = v.voter)
      PROVE  votes'[ballot_box[h]][n] = votes[ballot_box[h]][n]
  <2>1. ballot_box[h] \in Proposals /\ ballot_box[h].hash = h
    BY <1>9 DEF SequentialOK, TypeOK, Control, KeysOK
  <2>2. CASE h = k
    BY <1>5, <1>7, <1>9, <2>2 DEF SequentialOK, TypeOK
  <2>3. CASE h # k
    BY <1>5, <1>6, <2>1, <2>3 DEF SequentialOK, TypeOK
  <2> QED BY <2>2, <2>3
<1>10. \A h, n : Answers(h, n)' = Answers(h, n)
  BY <1>6 DEF Answers, Genuine
<1>11. ASSUME NEW x \in heard \ Proposals, Genuine(x) PROVE Waiting(x)' \/ Counted(x)'
  <2>1. x.hash \in Hashes /\ x.voter \in Nodes
    BY EnvelopeTypes DEF SequentialOK, TypeOK
  <2>2. CASE x.hash = k /\ x.voter = v.voter
    <3>1. x.vote \in Answers(k, v.voter)
      BY <1>11, <2>2 DEF Answers
    <3> QED BY <1>4, <1>5, <1>6, <1>8, <1>10, <2>2 DEF Counted
  <2>3. CASE ~(x.hash = k /\ x.voter = v.voter)
    <3>1. x # v
      BY <1>4, <2>3
    <3>2. Waiting(x) => Waiting(x)'
      BY <1>3, <1>6, <3>1 DEF Waiting, Carrying, Sequential
    <3>3. Counted(x) => Counted(x)'
      BY <1>6, <1>9, <1>10, <2>1, <2>3 DEF Counted
    <3> QED BY <1>11, <3>2, <3>3 DEF HeardOK, HeardKept
  <2> QED BY <2>2, <2>3
<1>12. HeardKept'
  BY <1>6, <1>11 DEF HeardKept, Genuine
<1>13. BallotsTrue'
  <2> SUFFICES ASSUME NEW h \in Hashes, NEW n \in Nodes, ballot_box[h] # None
               PROVE  votes'[ballot_box[h]][n] \in Answers(h, n) \cup {Unasked(ballot_box[h], n)}
    BY <1>6, <1>10 DEF BallotsTrue, Unasked
  <2>1. CASE h = k /\ n = v.voter
    BY <1>4, <1>8, <2>1
  <2>2. CASE ~(h = k /\ n = v.voter)
    BY <1>9, <2>2 DEF HeardOK, BallotsTrue
  <2> QED BY <2>1, <2>2
<1> QED BY <1>12, <1>13

(* A new ballot starts with the proposer's own yes; the votes that came    *)
(* before it are all still waiting.                                        *)
LEMMA RegisterCounts ==
  ASSUME SequentialOK, Sequential, HeardOK, NEW t \in Threads, Register(t),
         \A x \in Envelopes : Waiting(x) => Waiting(x)'
  PROVE  HeardKept' /\ BallotsTrue'
<1> USE DEF memory, ledger
<1>1. PICK k \in Hashes : k = env[t].hash
  BY BallotOfVote DEF Register, SequentialOK
<1>2. PICK p \in Proposals : p = env[t]
  BY DEF Register, SequentialOK, Control, ThreadOK, EnvOK, ProposalSteps
<1>3. p.hash = k /\ ballot_box[k] = None
  BY <1>1, <1>2 DEF Register, SequentialOK, Alone, BallotAlone
<1>4. /\ ballot_box' = [ballot_box EXCEPT ![k] = p]
      /\ votes' = [votes EXCEPT ![p] = [NoVotes EXCEPT ![p.sender] = "yes"]]
      /\ heard' = heard
  BY <1>1, <1>2 DEF Register
<1>5. ASSUME NEW h \in Hashes, h # k, ballot_box[h] # None
      PROVE  ballot_box'[h] = ballot_box[h] /\ votes'[ballot_box[h]] = votes[ballot_box[h]]
  <2>1. ballot_box[h].hash = h
    BY <1>5 DEF SequentialOK, Control, KeysOK
  <2>2. ballot_box[h] # p
    BY <1>3, <1>5, <2>1
  <2> QED BY <1>4, <1>5, <2>2 DEF SequentialOK, TypeOK
<1>6. \A h, n : Answers(h, n)' = Answers(h, n)
  BY <1>4 DEF Answers, Genuine
<1>7. HeardKept'
  <2> SUFFICES ASSUME NEW x \in heard \ Proposals, Genuine(x), Counted(x) PROVE Counted(x)'
    BY <1>4 DEF HeardOK, HeardKept, Genuine, SequentialOK, TypeOK
  <2>1. x.hash \in Hashes /\ x.hash # k
    BY <1>3, EnvelopeTypes DEF Counted, SequentialOK, TypeOK
  <2> QED BY <1>5, <1>6, <2>1 DEF Counted
<1>8. BallotsTrue'
  <2> SUFFICES ASSUME NEW h \in Hashes, NEW n \in Nodes, ballot_box'[h] # None
               PROVE  votes'[ballot_box'[h]][n] \in Answers(h, n) \cup {Unasked(ballot_box'[h], n)}
    BY <1>6 DEF BallotsTrue, Unasked
  <2>1. CASE h = k
    <3>1. ballot_box'[h] = p /\ votes'[p] = [NoVotes EXCEPT ![p.sender] = "yes"]
      BY <1>4, <2>1 DEF SequentialOK, TypeOK
    <3> QED BY <3>1 DEF NoVotes, Unasked
  <2>2. CASE h # k
    <3>1. ballot_box[h] # None
      BY <1>4, <2>2 DEF SequentialOK, TypeOK
    <3> QED BY <1>5, <2>2, <3>1 DEF HeardOK, BallotsTrue
  <2> QED BY <2>1, <2>2
<1> QED BY <1>7, <1>8

(* An envelope is heard when it is handed over: a vote of an authorized    *)
(* node about itself is then carried, any other vote is refused.           *)
LEMMA HandOverHears ==
  ASSUME SequentialOK, Sequential, HeardOK, NEW t \in Threads, NEW e \in Envelopes,
         Accept(t, e) \/ Reject(t, e)
  PROVE  HeardKept' /\ BallotsTrue'
<1> USE DEF memory, ledger, locals
<1>1. /\ heard' = heard \cup {e}
      /\ UNCHANGED <<ballot_box, votes, pending_votes, cur, replay>>
  BY DEF Accept, Reject, HandOver
<1>2. \A h, n : Answers(h, n) \subseteq Answers(h, n)'
  BY <1>1, AnswersGrow
<1>3. cur[t] = None /\ replay[t] = <<>> /\ pc[t] = "idle"
  BY DEF Accept, Reject, HandOver, SequentialOK, Control, ThreadOK, ReplayOK
<1>4. Carrying(t) = {}
  BY <1>3 DEF Carrying, Elements, Uncounted
<1>5. ASSUME NEW x \in heard \ Proposals, Genuine(x) PROVE Waiting(x)' \/ Counted(x)'
  <2>1. Waiting(x) => Waiting(x)'
    BY <1>1, <1>4 DEF Waiting, Sequential
  <2>2. Counted(x) => Counted(x)'
    BY <1>1, <1>2 DEF Counted
  <2> QED BY <1>5, <2>1, <2>2 DEF HeardOK, HeardKept
<1>6. ASSUME e \notin Proposals, Genuine(e) PROVE Waiting(e)'
  <2>1. Admissible(e)
    BY <1>6 DEF Genuine, Admissible, AdmissibleVote, Proposals
  <2>2. pc'[t] = "find" /\ env'[t] = e /\ cur'[t] = None
    BY <1>3, <1>6, <2>1 DEF Accept, Reject, Proposals, SequentialOK, TypeOK
  <2> QED BY <2>2 DEF Waiting, Carrying, Uncounted, Vote
<1>7. HeardKept'
  BY <1>1, <1>5, <1>6 DEF HeardKept, Genuine
<1>8. BallotsTrue'
  BY <1>1, <1>2 DEF HeardOK, BallotsTrue, Unasked
<1> QED BY <1>7, <1>8

LEMMA HeardNext ==
  ASSUME SequentialOK, Sequential, HeardOK, \A t \in Threads : RowOK(t),
         Faulty = {}, ~MayCrash, [Next]_vars
  PROVE  HeardOK'
<1> USE DEF memory, ledger, locals
<1>1. FramesOK'
  BY FramesNext DEF SequentialOK, HeardOK
<1>2. ASSUME NEW t \in Threads, NEW e \in Envelopes, Accept(t, e) \/ Reject(t, e)
      PROVE  HeardKept' /\ BallotsTrue'
  BY <1>2, HandOverHears
<1>3. ASSUME NEW t \in Threads, Handle(t) PROVE HeardKept' /\ BallotsTrue'
  <2>1. CASE Cast(t)
    BY <2>1, CastCounts
  <2>2. CASE ~Cast(t)
    <3>1. \A x \in Envelopes : Waiting(x) => Waiting(x)'
      <4>1. CASE PopPending(t) \/ Queue(t)
        BY <4>1, PopCarries, QueueCarries DEF HeardOK
      <4>2. CASE ~(PopPending(t) \/ Queue(t))
        BY <1>3, <2>2, <4>2, HandlerCarries, CarryGrows DEF HeardOK
      <4> QED BY <4>1, <4>2
    <3>2. CASE Register(t)
      BY <3>1, <3>2, RegisterCounts
    <3>3. CASE ~Register(t)
      <4>1. UNCHANGED <<heard, ballot_box, votes>>
        BY <1>3, <2>2, <3>3 DEF Handle, Propose, RecordProposal, PopPending, NextPending, LookUp, Check, Find,
           Queue, Tally, RecordVote, HasApproval, Require, ScanYes, ScanNo, WriteApproval
      <4> QED BY <3>1, <4>1, HeardQuiet DEF SequentialOK, HeardOK
    <3> QED BY <3>2, <3>3
  <2> QED BY <2>1, <2>2
<1>4. ASSUME NEW t \in Threads, NEW u \in Threads, ScanBroken(t, u) \/ StoreRaises(t) PROVE FALSE
  BY <1>4 DEF ScanBroken, StoreRaises, Sequential
<1>5. ASSUME UNCHANGED vars PROVE HeardKept' /\ BallotsTrue'
  <2>1. \A x \in Envelopes : Waiting(x) => Waiting(x)'
    BY <1>5 DEF vars, Waiting, Carrying, Vote
  <2> QED BY <1>5, <2>1, HeardQuiet DEF vars, SequentialOK, HeardOK
<1> QED BY <1>1, <1>2, <1>3, <1>4, <1>5 DEF Next, Restart, HeardOK

(* With one handler at a time, a store that answers and no restart, the    *)
(* votes of a ballot are what the nodes answered, in whatever order the    *)
(* votes and the proposals of a mutation arrive.                           *)
THEOREM HeardVotesCount ==
  ASSUME Sequential, Faulty = {}, ~MayCrash
  PROVE  Spec => []EveryHeardVoteCounts
<1> DEFINE IInv == SequentialOK /\ Queued /\ HeardOK /\ \A t \in Threads : RowOK(t)
<1>1. Init => Queued /\ HeardOK
  BY DEF Init, EachHash, EachThread, NoVotes, Queued, HeardOK, FramesOK, VotesPend, Frame, Uncounted,
     Elements, HeardKept, BallotsTrue
<1>2. SequentialOK /\ Queued /\ HeardOK /\ (\A t \in Threads : RowOK(t)) /\ [Next]_vars
      => (Queued /\ HeardOK)'
  BY QueuedNext, HeardNext
<1>3. IInv => EveryHeardVoteCounts
  <2> SUFFICES ASSUME IInv, Idle, NEW h \in Hashes, NEW n \in Nodes, ballot_box[h] # None
               PROVE  IF Answers(h, n) # {} THEN votes[ballot_box[h]][n] \in Answers(h, n)
                      ELSE votes[ballot_box[h]][n] = Unasked(ballot_box[h], n)
    BY DEF EveryHeardVoteCounts, Unasked
  <2>1. CASE Answers(h, n) # {}
    <3>1. PICK x \in heard \ Proposals : Genuine(x) /\ x.hash = h /\ x.voter = n
      BY <2>1 DEF Answers
    <3>2. pending_votes[h] = <<>>
      BY DEF Queued, Idle
    <3>3. \A t \in Threads : Carrying(t) = {}
      BY DEF Idle, Carrying, Uncounted, Elements, SequentialOK, Control, ThreadOK, ReplayOK
    <3>4. ~Waiting(x)
      BY <3>1, <3>2, <3>3 DEF Waiting, Elements
    <3> QED BY <2>1, <3>1, <3>4 DEF HeardOK, HeardKept, Counted
  <2>2. CASE Answers(h, n) = {}
    BY <2>2 DEF HeardOK, BallotsTrue
  <2> QED BY <2>1, <2>2
<1> QED BY <1>1, <1>2, <1>3, SequentialAlways, RowsAlways, PTL DEF Spec
===============================================================================
