------------------------ MODULE ConsensusBridgeProofs -------------------------
(***************************************************************************)
(* Theorems about ConsensusBridge, for every set of nodes, hashes,         *)
(* envelopes and threads, every set of failing store calls and any number  *)
(* of restarts.                                                            *)
(***************************************************************************)
EXTENDS ConsensusBridge, FiniteSetTheorems, TLAPS

(* Control invariant: what a thread that is at a given step can rely on.   *)
ProposalSteps == {"propose", "register", "record_proposal", "pop", "next", "look_check", "check"}
BallotSteps == {"record_proposal", "pop", "next", "look_check", "check", "look_cast", "cast",
                "look_tally", "tally", "record_vote", "has_approval", "look_require", "require",
                "look_fetch", "scan_yes", "scan_no", "write_approval"}

(* The steps that use the Proposal object the thread looked up.            *)
HeldSteps == {"cast", "tally", "check", "require", "look_fetch", "scan_yes", "scan_no"}

EnvOK(t) ==
  /\ pc[t] # "idle" => env[t] \in Envelopes
  /\ pc[t] \in ProposalSteps \/ cur[t] # None => env[t] \in Proposals

ReplayOK(t) ==
  /\ pc[t] = "idle" => cur[t] = None /\ replay[t] = <<>>
  /\ cur[t] # None => cur[t].hash = env[t].hash
  /\ \A i \in 1..Len(replay[t]) : replay[t][i].hash = env[t].hash

BallotOK(t) ==
  pc[t] \in BallotSteps \/ cur[t] # None => ballot_box[Vote(t).hash] # None

EmitOK(t) ==
  /\ pc[t] \in HeldSteps =>
       proposal[t] \in Proposals /\ proposal[t].hash = Vote(t).hash
  /\ pc[t] \in {"scan_no", "write_approval"} => event[t] \in Artifact

KeysOK ==
  \A h \in Hashes :
    /\ ballot_box[h] # None => ballot_box[h].hash = h
    /\ \A i \in 1..Len(pending_votes[h]) : pending_votes[h][i].hash = h

ThreadOK(t) == EnvOK(t) /\ ReplayOK(t) /\ BallotOK(t) /\ EmitOK(t)

Control == KeysOK /\ \A t \in Threads : ThreadOK(t)

-------------------------------------------------------------------------------

LEMMA EnvelopeTypes ==
  ASSUME NEW e \in Envelopes
  PROVE  /\ e # None
         /\ e.sender \in Nodes /\ e.voter \in Nodes /\ e.hash \in Hashes
         /\ e.vote \in {"yes", "no"}
         /\ e \in Proposals => e.voter = e.sender /\ e.vote = "yes"
BY EnvelopesAssumption, NoneAssumption DEF Envelope

LEMMA VoteTypes ==
  ASSUME TypeOK, NEW t \in Threads, EnvOK(t), pc[t] # "idle"
  PROVE  Vote(t) \in Envelopes /\ env[t] \in Envelopes
BY DEF TypeOK, EnvOK, Vote

(* Where a look-up leads from each step that makes one.                    *)
LEMMA LookUpSteps ==
  /\ DOMAIN LookUps = {"look_cast", "look_tally", "look_check", "look_require", "look_fetch"}
  /\ LookUps["look_cast"] = "cast" /\ LookUps["look_tally"] = "tally"
  /\ LookUps["look_check"] = "check" /\ LookUps["look_require"] = "require"
  /\ LookUps["look_fetch"] = "scan_yes"
BY DEF LookUps

LEMMA LabelSet ==
  Labels = {"idle", "propose", "register", "record_proposal", "pop", "next", "check",
            "find", "queue", "cast", "tally", "record_vote", "has_approval", "require",
            "scan_yes", "scan_no", "write_approval",
            "look_cast", "look_tally", "look_check", "look_require", "look_fetch"}
BY LookUpSteps DEF Labels

(* What a look-up does to the frame of its thread, for each of its steps.  *)
LEMMA LookUpFrame ==
  ASSUME TypeOK, NEW t \in Threads, LookUp(t)
  PROVE  /\ \/ pc[t] = "look_cast" /\ pc'[t] = "cast"
            \/ pc[t] = "look_tally" /\ pc'[t] = "tally"
            \/ pc[t] = "look_check" /\ pc'[t] = "check"
            \/ pc[t] = "look_require" /\ pc'[t] = "require"
            \/ pc[t] = "look_fetch" /\ pc'[t] = "scan_yes"
         /\ proposal'[t] = ballot_box[Vote(t).hash]
         /\ \A u \in Threads \ {t} : pc'[u] = pc[u] /\ proposal'[u] = proposal[u]
BY LookUpSteps DEF LookUp, TypeOK

LEMMA TypeInit == Init => TypeOK /\ Control
<1> SUFFICES ASSUME Init PROVE TypeOK /\ Control
  OBVIOUS
<1>1. TypeOK
  BY LabelSet DEF Init, TypeOK, EachHash, EachThread, NoVotes
<1>2. Control
  BY DEF Init, Control, ThreadOK, KeysOK, EnvOK, ReplayOK, BallotOK, EmitOK, EachHash, EachThread,
         ProposalSteps, BallotSteps, HeldSteps
<1> QED BY <1>1, <1>2

(* The two halves of the type invariant: what handlers share, and their    *)
(* frames.                                                                 *)
SharedTyped ==
  /\ inbox \subseteq Envelopes
  /\ heard \subseteq Envelopes
  /\ ballot_box \in [Hashes -> Proposals \cup {None}]
  /\ votes \in [Proposals -> [Nodes -> {"yes", "no", "none"}]]
  /\ pending_votes \in [Hashes -> Seq(Envelopes)]
  /\ db_proposals \in [Hashes -> Nodes \cup {None}]
  /\ db_votes \in [Hashes -> [Nodes -> {"yes", "no", "none"}]]
  /\ db_approvals \in [Hashes -> Artifact \cup {None}]

FramesTyped ==
  /\ pc \in [Threads -> Labels]
  /\ env \in [Threads -> Envelopes \cup {None}]
  /\ cur \in [Threads -> Envelopes \cup {None}]
  /\ replay \in [Threads -> Seq(Envelopes)]
  /\ reached \in [Threads -> BOOLEAN]
  /\ proposal \in [Threads -> Proposals \cup {None}]
  /\ event \in [Threads -> Artifact \cup {None}]

LEMMA TypeHalves == TypeOK <=> SharedTyped /\ FramesTyped
BY DEF TypeOK, SharedTyped, FramesTyped

LEMMA GotoTyped ==
  ASSUME FramesTyped, NEW t \in Threads, NEW l \in Labels, Goto(t, l)
  PROVE  FramesTyped'
BY DEF FramesTyped, Goto

LEMMA UnwindTyped ==
  ASSUME FramesTyped, NEW t \in Threads, Unwind(t), pc' \in [Threads -> Labels]
  PROVE  FramesTyped'
<1>1. <<>> \in Seq(Envelopes)
  OBVIOUS
<1>2. replay' \in [Threads -> Seq(Envelopes)]
  BY <1>1 DEF FramesTyped, Unwind
<1> QED BY <1>2 DEF FramesTyped, Unwind

LEMMA EndTyped ==
  ASSUME FramesTyped, NEW t \in Threads, End(t)
  PROVE  FramesTyped'
BY UnwindTyped, LabelSet DEF End, FramesTyped

LEMMA ReturnTyped ==
  ASSUME FramesTyped, NEW t \in Threads, Return(t)
  PROVE  FramesTyped'
<1>1. CASE cur[t] = None
  BY <1>1, EndTyped DEF Return
<1>2. CASE cur[t] # None
  BY <1>2, LabelSet DEF Return, FramesTyped
<1> QED BY <1>1, <1>2

LEMMA TypeNext ==
  ASSUME TypeOK, Control, [Next]_vars
  PROVE  TypeOK'
<1> USE DEF memory, ledger, locals, Referenced, InsertProposal, UpsertVote, InsertApproval
<1>0. SharedTyped /\ FramesTyped
  BY TypeHalves
<1> SUFFICES SharedTyped' /\ FramesTyped'
  BY TypeHalves DEF TypeOK, SharedTyped, FramesTyped
<1>1. ASSUME NEW t \in Threads, NEW e \in Envelopes, Accept(t, e)
      PROVE  SharedTyped' /\ FramesTyped'
  <2>1. SharedTyped'
    BY <1>0, <1>1 DEF Accept, HandOver, SharedTyped
  <2>2. FramesTyped'
    BY <1>0, <1>1, LabelSet DEF Accept, FramesTyped
  <2> QED BY <2>1, <2>2
<1>2. ASSUME NEW t \in Threads, NEW e \in Envelopes, Reject(t, e)
      PROVE  SharedTyped' /\ FramesTyped'
  <2>1. SharedTyped'
    BY <1>0, <1>2 DEF Reject, HandOver, SharedTyped
  <2>2. FramesTyped'
    BY <1>0, <1>2 DEF Reject, FramesTyped
  <2> QED BY <2>1, <2>2
<1>3. ASSUME NEW t \in Threads, Propose(t) PROVE SharedTyped' /\ FramesTyped'
  <2>1. SharedTyped'
    BY <1>0, <1>3 DEF Propose, SharedTyped
  <2>2. FramesTyped'
    BY <1>0, <1>3, GotoTyped, EndTyped, LabelSet DEF Propose
  <2> QED BY <2>1, <2>2
<1>4. ASSUME NEW t \in Threads, Register(t) PROVE SharedTyped' /\ FramesTyped'
  <2>1. env[t] \in Proposals
    BY <1>4 DEF Register, Control, ThreadOK, EnvOK, ProposalSteps
  <2>2. [NoVotes EXCEPT ![env[t].sender] = "yes"] \in [Nodes -> {"yes", "no", "none"}]
    BY DEF NoVotes
  <2>3. SharedTyped'
    BY <1>0, <1>4, <2>1, <2>2 DEF Register, SharedTyped
  <2>4. FramesTyped'
    BY <1>0, <1>4, GotoTyped, LabelSet DEF Register
  <2> QED BY <2>3, <2>4
<1>5. ASSUME NEW t \in Threads, RecordProposal(t) PROVE SharedTyped' /\ FramesTyped'
  <2>1. env[t].sender \in Nodes
    BY <1>5, EnvelopeTypes DEF RecordProposal, Control, ThreadOK, EnvOK
  <2>2. SharedTyped'
    BY <1>0, <1>5, <2>1 DEF RecordProposal, SharedTyped
  <2>3. FramesTyped'
    BY <1>0, <1>5, GotoTyped, EndTyped, LabelSet DEF RecordProposal, AnswerLost
  <2> QED BY <2>2, <2>3
<1>6. ASSUME NEW t \in Threads, PopPending(t) PROVE SharedTyped' /\ FramesTyped'
  <2>1. pending_votes[env[t].hash] \in Seq(Envelopes)
    BY <1>6, EnvelopeTypes DEF PopPending, Control, ThreadOK, EnvOK, TypeOK
  <2>0. <<>> \in Seq(Envelopes)
    OBVIOUS
  <2>2. SharedTyped'
    BY <1>0, <1>6, <2>0 DEF PopPending, SharedTyped
  <2>3. FramesTyped'
    BY <1>0, <1>6, <2>1, LabelSet DEF PopPending, FramesTyped
  <2> QED BY <2>2, <2>3
<1>7. ASSUME NEW t \in Threads, NextPending(t) PROVE SharedTyped' /\ FramesTyped'
  <2>1. SharedTyped'
    BY <1>0, <1>7 DEF NextPending, SharedTyped
  <2>2. CASE replay[t] = <<>>
    <3>1. pc' \in [Threads -> Labels] /\ cur' \in [Threads -> Envelopes \cup {None}]
      BY <1>0, <1>7, <2>2, LabelSet DEF NextPending, FramesTyped
    <3>2. UNCHANGED <<env, replay, reached, proposal, event>>
      BY <1>7, <2>2 DEF NextPending
    <3> QED BY <1>0, <2>1, <3>1, <3>2 DEF FramesTyped
  <2>3. CASE replay[t] # <<>>
    <3>1. Head(replay[t]) \in Envelopes /\ Tail(replay[t]) \in Seq(Envelopes)
      BY <1>0, <2>3 DEF FramesTyped
    <3> QED BY <1>0, <1>7, <2>1, <2>3, <3>1, LabelSet DEF NextPending, FramesTyped
  <2> QED BY <2>1, <2>2, <2>3
<1>8. ASSUME NEW t \in Threads, Check(t) PROVE SharedTyped' /\ FramesTyped'
  <2>1. SharedTyped'
    BY <1>0, <1>8 DEF Check, SharedTyped
  <2>2. FramesTyped'
    BY <1>0, <1>8, GotoTyped, EndTyped, LabelSet DEF Check
  <2> QED BY <2>1, <2>2
<1>9. ASSUME NEW t \in Threads, Find(t) PROVE SharedTyped' /\ FramesTyped'
  <2>1. SharedTyped'
    BY <1>0, <1>9 DEF Find, SharedTyped
  <2>2. FramesTyped'
    BY <1>0, <1>9, GotoTyped, LabelSet DEF Find
  <2> QED BY <2>1, <2>2
<1>10. ASSUME NEW t \in Threads, Queue(t) PROVE SharedTyped' /\ FramesTyped'
  <2>1. Vote(t) \in Envelopes /\ Vote(t).hash \in Hashes
    BY <1>10, VoteTypes, EnvelopeTypes DEF Queue, Control, ThreadOK
  <2>2. pending_votes' \in [Hashes -> Seq(Envelopes)]
    BY <1>10, <2>1 DEF Queue, TypeOK
  <2>3. SharedTyped'
    BY <1>0, <1>10, <2>2 DEF Queue, SharedTyped
  <2>4. FramesTyped'
    BY <1>0, <1>10, ReturnTyped DEF Queue
  <2> QED BY <2>3, <2>4
<1>11. ASSUME NEW t \in Threads, pc[t] = "cast", SetVote(t)
       PROVE  votes' \in [Proposals -> [Nodes -> {"yes", "no", "none"}]]
  <2>1. Vote(t).vote \in {"yes", "no"}
    BY <1>11, VoteTypes, EnvelopeTypes DEF Control, ThreadOK
  <2> QED BY <1>0, <1>11, <2>1 DEF SetVote, SharedTyped
<1>12. ASSUME NEW t \in Threads, Cast(t) PROVE SharedTyped' /\ FramesTyped'
  <2>1. SharedTyped'
    BY <1>0, <1>11, <1>12 DEF Cast, SharedTyped
  <2>2. FramesTyped'
    BY <1>0, <1>12, GotoTyped, LabelSet DEF Cast
  <2> QED BY <2>1, <2>2
<1>13. ASSUME NEW t \in Threads, Tally(t) PROVE SharedTyped' /\ FramesTyped'
  <2>1. SharedTyped'
    BY <1>0, <1>13 DEF Tally, SharedTyped
  <2>2. Reached(proposal[t]) \in BOOLEAN
    BY DEF Reached, IsQuorum
  <2>3. FramesTyped'
    BY <1>0, <1>13, <2>2, LabelSet DEF Tally, FramesTyped
  <2> QED BY <2>1, <2>3
<1>14. ASSUME NEW t \in Threads, RecordVote(t) PROVE SharedTyped' /\ FramesTyped'
  <2>1. Vote(t).vote \in {"yes", "no"}
    BY <1>14, VoteTypes, EnvelopeTypes DEF RecordVote, Control, ThreadOK
  <2>2. db_votes' \in [Hashes -> [Nodes -> {"yes", "no", "none"}]]
    <3>1. CASE db_proposals[Vote(t).hash] = None
      BY <1>0, <1>14, <3>1 DEF RecordVote, SharedTyped
    <3>2. CASE db_proposals[Vote(t).hash] # None
      <4>1. db_votes' = [db_votes EXCEPT ![Vote(t).hash][Vote(t).voter] = Vote(t).vote]
        BY <1>14, <3>2 DEF RecordVote
      <4> QED BY <1>0, <2>1, <4>1 DEF SharedTyped
    <3> QED BY <3>1, <3>2
  <2>3. SharedTyped'
    BY <1>0, <1>14, <2>2 DEF RecordVote, SharedTyped
  <2>4. FramesTyped'
    BY <1>0, <1>14, GotoTyped, ReturnTyped, EndTyped, LabelSet DEF RecordVote, AnswerLost
  <2> QED BY <2>3, <2>4
<1>15. ASSUME NEW t \in Threads, HasApproval(t) PROVE SharedTyped' /\ FramesTyped'
  <2>1. SharedTyped'
    BY <1>0, <1>15 DEF HasApproval, SharedTyped
  <2>2. FramesTyped'
    BY <1>0, <1>15, GotoTyped, ReturnTyped, LabelSet DEF HasApproval
  <2> QED BY <2>1, <2>2
<1>16. ASSUME NEW t \in Threads, Require(t) PROVE SharedTyped' /\ FramesTyped'
  <2>1. SharedTyped'
    BY <1>0, <1>16 DEF Require, SharedTyped
  <2>2. FramesTyped'
    BY <1>0, <1>16, GotoTyped, EndTyped, LabelSet DEF Require
  <2> QED BY <2>1, <2>2
<1>17. ASSUME NEW t \in Threads, ScanYes(t) PROVE SharedTyped' /\ FramesTyped'
  <2>1. proposal[t].sender \in Nodes
    BY <1>17, EnvelopeTypes DEF ScanYes, Control, ThreadOK, EmitOK, HeldSteps, Proposals
  <2>2. [proposer |-> proposal[t].sender, yes |-> YesVoters(proposal[t]), no |-> {}] \in Artifact
    BY <2>1 DEF Artifact, YesVoters
  <2>3. SharedTyped'
    BY <1>0, <1>17 DEF ScanYes, SharedTyped
  <2>4. FramesTyped'
    BY <1>0, <1>17, <2>2, LabelSet DEF ScanYes, FramesTyped
  <2> QED BY <2>3, <2>4
<1>18. ASSUME NEW t \in Threads, ScanNo(t) PROVE SharedTyped' /\ FramesTyped'
  <2>1. event'[t] \in Artifact
    BY <1>0, <1>18 DEF ScanNo, Control, ThreadOK, EmitOK, Artifact, NoVoters, FramesTyped
  <2>2. SharedTyped'
    BY <1>0, <1>18 DEF ScanNo, SharedTyped
  <2>3. FramesTyped'
    BY <1>0, <1>18, <2>1, LabelSet DEF ScanNo, FramesTyped
  <2> QED BY <2>2, <2>3
<1>19. ASSUME NEW t \in Threads, WriteApproval(t) PROVE SharedTyped' /\ FramesTyped'
  <2>1. event[t] \in Artifact
    BY <1>19 DEF WriteApproval, Control, ThreadOK, EmitOK
  <2>2. SharedTyped'
    BY <1>0, <1>19, <2>1 DEF WriteApproval, SharedTyped
  <2>3. FramesTyped'
    BY <1>0, <1>19, ReturnTyped, EndTyped DEF WriteApproval, AnswerLost
  <2> QED BY <2>2, <2>3
<1>20. ASSUME NEW t \in Threads, StoreRaises(t) PROVE SharedTyped' /\ FramesTyped'
  <2>1. SharedTyped'
    BY <1>0, <1>20 DEF StoreRaises, SharedTyped
  <2>2. FramesTyped'
    BY <1>0, <1>20, EndTyped DEF StoreRaises
  <2> QED BY <2>1, <2>2
<1>21. ASSUME NEW t \in Threads, NEW u \in Threads, ScanBroken(t, u)
       PROVE  SharedTyped' /\ FramesTyped'
  <2>1. SharedTyped'
    BY <1>0, <1>11, <1>21 DEF ScanBroken, SharedTyped
  <2>2. pc' \in [Threads -> Labels]
    BY <1>0, <1>21, LabelSet DEF ScanBroken, FramesTyped
  <2>3. FramesTyped'
    BY <1>0, <1>21, <2>2, UnwindTyped DEF ScanBroken
  <2> QED BY <2>1, <2>3
<1>22. ASSUME Restart PROVE SharedTyped' /\ FramesTyped'
  <2>1. SharedTyped'
    BY <1>0, <1>22 DEF Restart, EachHash, NoVotes, SharedTyped
  <2>2. FramesTyped'
    BY <1>0, <1>22, LabelSet DEF Restart, EachThread, FramesTyped
  <2> QED BY <2>1, <2>2
<1>24. ASSUME NEW t \in Threads, LookUp(t) PROVE SharedTyped' /\ FramesTyped'
  <2>1. SharedTyped'
    BY <1>0, <1>24 DEF LookUp, SharedTyped
  <2>2. pc[t] # "idle"
    BY <1>24, LookUpSteps DEF LookUp
  <2>3. ballot_box[Vote(t).hash] \in Proposals \cup {None}
    BY <2>2, VoteTypes, EnvelopeTypes DEF Control, ThreadOK, TypeOK
  <2>4. pc' \in [Threads -> Labels] /\ proposal' \in [Threads -> Proposals \cup {None}]
    BY <1>0, <1>24, <2>3, LookUpSteps, LabelSet DEF LookUp, FramesTyped
  <2>5. FramesTyped'
    BY <1>0, <1>24, <2>4 DEF LookUp, FramesTyped
  <2> QED BY <2>1, <2>5
<1>23. ASSUME UNCHANGED vars PROVE SharedTyped' /\ FramesTyped'
  BY <1>0, <1>23 DEF vars, SharedTyped, FramesTyped
<1> QED BY <1>1, <1>2, <1>3, <1>4, <1>5, <1>6, <1>7, <1>8, <1>9, <1>10, <1>12, <1>13, <1>14,
           <1>15, <1>16, <1>17, <1>18, <1>19, <1>20, <1>21, <1>22, <1>23, <1>24
        DEF Next, Handle

-------------------------------------------------------------------------------

(* No step but a restart takes a ballot out of the ballot box.             *)
BallotsKept == \A h \in Hashes : ballot_box[h] # None => ballot_box'[h] # None

SameFrame(t) ==
  /\ pc'[t] = pc[t] /\ env'[t] = env[t] /\ cur'[t] = cur[t] /\ replay'[t] = replay[t]
  /\ proposal'[t] = proposal[t] /\ event'[t] = event[t]

LEMMA BallotKept ==
  ASSUME TypeOK, NEW t \in Threads, ThreadOK(t), BallotsKept,
         pc[t] \in BallotSteps \/ cur[t] # None
  PROVE  ballot_box'[Vote(t).hash] # None
<1>1. Vote(t) \in Envelopes
  BY VoteTypes DEF BallotSteps, ThreadOK, TypeOK, Vote
<1> QED BY <1>1, EnvelopeTypes DEF ThreadOK, BallotOK, BallotsKept

LEMMA FrameKept ==
  ASSUME TypeOK, NEW t \in Threads, ThreadOK(t), SameFrame(t), BallotsKept
  PROVE  ThreadOK(t)'
<1>1. EnvOK(t)' /\ ReplayOK(t)' /\ EmitOK(t)'
  BY DEF SameFrame, ThreadOK, EnvOK, ReplayOK, EmitOK, Vote
<1>2. BallotOK(t)'
  BY BallotKept DEF SameFrame, BallotOK, Vote
<1> QED BY <1>1, <1>2 DEF ThreadOK

LEMMA GotoOK ==
  ASSUME TypeOK, NEW t \in Threads, ThreadOK(t), BallotsKept, NEW l, Goto(t, l),
         l # "idle", env[t] \in Envelopes,
         l \in ProposalSteps => env[t] \in Proposals,
         l \in BallotSteps => ballot_box'[Vote(t).hash] # None,
         l \notin HeldSteps \ {"look_fetch"} /\ l # "write_approval",
         l = "look_fetch" => pc[t] = "require"
  PROVE  ThreadOK(t)'
<1>1. /\ pc'[t] = l /\ env' = env /\ cur' = cur /\ replay' = replay /\ proposal' = proposal
  BY DEF Goto, TypeOK
<1>2. EnvOK(t)' /\ ReplayOK(t)' /\ EmitOK(t)'
  BY <1>1 DEF ThreadOK, EnvOK, ReplayOK, EmitOK, HeldSteps, Vote
<1>3. BallotOK(t)'
  BY <1>1, BallotKept DEF BallotOK, Vote
<1> QED BY <1>2, <1>3 DEF ThreadOK

LEMMA UnwindOK ==
  ASSUME TypeOK, NEW t \in Threads, Unwind(t), pc'[t] = "idle"
  PROVE  ThreadOK(t)'
BY DEF Unwind, TypeOK, ThreadOK, EnvOK, ReplayOK, BallotOK, EmitOK, ProposalSteps, BallotSteps,
       HeldSteps

LEMMA EndOK ==
  ASSUME TypeOK, NEW t \in Threads, End(t)
  PROVE  ThreadOK(t)'
BY UnwindOK DEF End, TypeOK

LEMMA ReturnOK ==
  ASSUME TypeOK, NEW t \in Threads, ThreadOK(t), BallotsKept, Return(t)
  PROVE  ThreadOK(t)'
<1>1. CASE cur[t] = None
  BY <1>1, EndOK DEF Return
<1>2. CASE cur[t] # None
  <2>1. pc'[t] = "next" /\ env' = env /\ cur' = cur /\ replay' = replay
    BY <1>2 DEF Return, TypeOK
  <2>2. env[t] \in Proposals
    BY <1>2 DEF ThreadOK, EnvOK
  <2>3. EnvOK(t)' /\ ReplayOK(t)' /\ EmitOK(t)'
    BY <2>1, <2>2 DEF ThreadOK, EnvOK, ReplayOK, EmitOK, HeldSteps, Proposals
  <2>4. BallotOK(t)'
    BY <1>2, <2>1, BallotKept DEF BallotOK, Vote
  <2> QED BY <2>3, <2>4 DEF ThreadOK
<1> QED BY <1>1, <1>2

LEMMA OthersSame ==
  ASSUME TypeOK, NEW t \in Threads, NEW u \in Threads, u # t,
         (\E l : Goto(t, l)) \/ End(t) \/ Return(t)
  PROVE  SameFrame(u)
BY DEF Goto, End, Return, Unwind, SameFrame, TypeOK

LEMMA ControlNext ==
  ASSUME TypeOK, Control, [Next]_vars
  PROVE  Control'
<1> USE DEF memory, ledger, locals, Referenced, InsertProposal, UpsertVote, InsertApproval
<1>1. ASSUME NEW t \in Threads, NEW e \in Envelopes, Accept(t, e) PROVE Control'
  <2>1. KeysOK' /\ BallotsKept
    BY <1>1 DEF Accept, Control, KeysOK, BallotsKept
  <2>3. ThreadOK(t)'
    <3>1. /\ cur'[t] = None /\ replay'[t] = <<>> /\ env'[t] = e
          /\ pc'[t] = IF e.type = "CONSENSUS_PROPOSAL" THEN "propose" ELSE "find"
      BY <1>1 DEF Accept, HandOver, Control, ThreadOK, ReplayOK, TypeOK
    <3> QED BY <3>1 DEF ThreadOK, EnvOK, ReplayOK, BallotOK, EmitOK, ProposalSteps, BallotSteps, HeldSteps,
         Proposals
  <2>4. ASSUME NEW u \in Threads, u # t PROVE ThreadOK(u)'
    <3>1. SameFrame(u)
      BY <1>1, <2>4 DEF Accept, SameFrame, TypeOK
    <3> QED BY <2>1, <3>1, FrameKept DEF Control
  <2> QED BY <2>1, <2>3, <2>4 DEF Control
<1>2. ASSUME NEW t \in Threads, NEW e \in Envelopes, Reject(t, e) PROVE Control'
  <2>1. KeysOK' /\ BallotsKept
    BY <1>2 DEF Reject, Control, KeysOK, BallotsKept
  <2>2. ASSUME NEW u \in Threads PROVE SameFrame(u)
    BY <1>2 DEF Reject, SameFrame
  <2> QED BY <2>1, <2>2, FrameKept DEF Control
<1>3. ASSUME NEW t \in Threads, Propose(t) PROVE Control'
  <2>1. KeysOK' /\ BallotsKept
    BY <1>3 DEF Propose, Control, KeysOK, BallotsKept
  <2>2. ThreadOK(t)'
    BY <1>3, <2>1, GotoOK, EndOK DEF Propose, Control, ThreadOK, EnvOK, ProposalSteps, BallotSteps, HeldSteps
  <2>3. ASSUME NEW u \in Threads, u # t PROVE ThreadOK(u)'
    BY <1>3, <2>1, <2>3, OthersSame, FrameKept DEF Propose, Control
  <2> QED BY <2>1, <2>2, <2>3 DEF Control
<1>4. ASSUME NEW t \in Threads, Register(t) PROVE Control'
  <2>1. env[t] \in Proposals /\ env[t] \in Envelopes /\ env[t].hash \in Hashes /\ env[t] # None
    BY <1>4, EnvelopeTypes DEF Register, Control, ThreadOK, EnvOK, ProposalSteps, Proposals
  <2>2. KeysOK' /\ BallotsKept
    BY <1>4, <2>1 DEF Register, Control, KeysOK, BallotsKept, TypeOK
  <2>3. Vote(t).hash = env[t].hash
    BY DEF Control, ThreadOK, ReplayOK, Vote
  <2>4. ballot_box'[Vote(t).hash] # None
    BY <1>4, <2>1, <2>3 DEF Register, TypeOK
  <2>5. ThreadOK(t)'
    BY <1>4, <2>1, <2>2, <2>4, GotoOK DEF Register, Control, HeldSteps
  <2>6. ASSUME NEW u \in Threads, u # t PROVE ThreadOK(u)'
    BY <1>4, <2>2, <2>6, OthersSame, FrameKept DEF Register, Control
  <2> QED BY <2>2, <2>5, <2>6 DEF Control
<1>5. ASSUME NEW t \in Threads, RecordProposal(t) PROVE Control'
  <2>1. KeysOK' /\ BallotsKept
    BY <1>5 DEF RecordProposal, Control, KeysOK, BallotsKept
  <2>2. ThreadOK(t)'
    BY <1>5, <2>1, GotoOK, EndOK, BallotKept DEF RecordProposal, Control, ThreadOK, AnswerLost, EnvOK, ProposalSteps, BallotSteps, HeldSteps
  <2>3. ASSUME NEW u \in Threads, u # t PROVE ThreadOK(u)'
    BY <1>5, <2>1, <2>3, OthersSame, FrameKept DEF RecordProposal, Control, AnswerLost
  <2> QED BY <2>1, <2>2, <2>3 DEF Control
<1>6. ASSUME NEW t \in Threads, PopPending(t) PROVE Control'
  <2>1. env[t] \in Proposals /\ env[t] \in Envelopes /\ env[t].hash \in Hashes
    BY <1>6, EnvelopeTypes DEF PopPending, Control, ThreadOK, EnvOK, ProposalSteps, Proposals
  <2>2. KeysOK' /\ BallotsKept
    BY <1>6, <2>1 DEF PopPending, Control, KeysOK, BallotsKept, TypeOK
  <2>3. /\ pc'[t] = "next" /\ env'[t] = env[t] /\ cur'[t] = cur[t]
        /\ replay'[t] = pending_votes[env[t].hash]
        /\ proposal' = proposal /\ event' = event /\ ballot_box' = ballot_box
    BY <1>6 DEF PopPending, TypeOK
  <2>4. ReplayOK(t)'
    BY <2>1, <2>3 DEF Control, KeysOK, ThreadOK, ReplayOK
  <2>5. EnvOK(t)' /\ EmitOK(t)'
    BY <2>1, <2>3 DEF EnvOK, EmitOK, HeldSteps
  <2>6. BallotOK(t)'
    BY <1>6, <2>3 DEF Control, ThreadOK, BallotOK, PopPending, Vote, BallotSteps
  <2>7. ASSUME NEW u \in Threads, u # t PROVE ThreadOK(u)'
    <3>1. SameFrame(u)
      BY <1>6, <2>7 DEF PopPending, SameFrame, TypeOK
    <3> QED BY <2>2, <3>1, FrameKept DEF Control
  <2> QED BY <2>2, <2>4, <2>5, <2>6, <2>7 DEF Control, ThreadOK
<1>7. ASSUME NEW t \in Threads, NextPending(t) PROVE Control'
  <2>1. KeysOK' /\ BallotsKept
    BY <1>7 DEF NextPending, Control, KeysOK, BallotsKept
  <2>2. /\ env[t] \in Proposals /\ env'[t] = env[t] /\ env[t] \in Envelopes
        /\ Vote(t).hash = env[t].hash /\ ballot_box' = ballot_box
        /\ ballot_box[env[t].hash] # None
        /\ \A i \in 1..Len(replay[t]) : replay[t][i].hash = env[t].hash
    BY <1>7 DEF NextPending, Control, ThreadOK, EnvOK, ReplayOK, BallotOK, ProposalSteps,
       BallotSteps, HeldSteps, Vote, Proposals
  <2>3. ASSUME replay[t] = <<>> PROVE ThreadOK(t)'
    <3>1. pc'[t] = "look_check" /\ cur'[t] = None /\ replay'[t] = replay[t]
      BY <1>7, <2>3 DEF NextPending, TypeOK
    <3> QED BY <2>2, <3>1 DEF ThreadOK, EnvOK, ReplayOK, BallotOK, EmitOK, HeldSteps, Vote
  <2>4. ASSUME replay[t] # <<>> PROVE ThreadOK(t)'
    <3>1. pc'[t] = "find" /\ cur'[t] = Head(replay[t]) /\ replay'[t] = Tail(replay[t])
      BY <1>7, <2>4 DEF NextPending, TypeOK
    <3>2. replay[t] \in Seq(Envelopes)
      BY DEF TypeOK
    <3>3. /\ 1 \in 1..Len(replay[t]) /\ Head(replay[t]) = replay[t][1]
          /\ \A i \in 1..Len(Tail(replay[t])) :
               i + 1 \in 1..Len(replay[t]) /\ Tail(replay[t])[i] = replay[t][i + 1]
      BY <2>4, <3>2
    <3>4. ReplayOK(t)'
      BY <2>2, <3>1, <3>3 DEF ReplayOK
    <3>5. EnvOK(t)' /\ EmitOK(t)'
      BY <2>2, <3>1 DEF EnvOK, EmitOK, HeldSteps
    <3>6. BallotOK(t)'
      BY <2>2, <3>1, <3>3 DEF BallotOK, Vote
    <3> QED BY <3>4, <3>5, <3>6 DEF ThreadOK
  <2>5. ASSUME NEW u \in Threads, u # t PROVE ThreadOK(u)'
    <3>1. SameFrame(u)
      BY <1>7, <2>5 DEF NextPending, SameFrame, TypeOK
    <3> QED BY <2>1, <3>1, FrameKept DEF Control
  <2> QED BY <2>1, <2>3, <2>4, <2>5 DEF Control
<1>8. ASSUME NEW t \in Threads, Check(t) PROVE Control'
  <2>1. KeysOK' /\ BallotsKept
    BY <1>8 DEF Check, Control, KeysOK, BallotsKept
  <2>2. ThreadOK(t)'
    BY <1>8, <2>1, GotoOK, EndOK, BallotKept DEF Check, Control, ThreadOK, EnvOK, ProposalSteps, BallotSteps, HeldSteps
  <2>3. ASSUME NEW u \in Threads, u # t PROVE ThreadOK(u)'
    BY <1>8, <2>1, <2>3, OthersSame, FrameKept DEF Check, Control
  <2> QED BY <2>1, <2>2, <2>3 DEF Control
<1>9. ASSUME NEW t \in Threads, Find(t) PROVE Control'
  <2>1. KeysOK' /\ BallotsKept
    BY <1>9 DEF Find, Control, KeysOK, BallotsKept
  <2>2. env[t] \in Envelopes
    BY <1>9 DEF Find, Control, ThreadOK, EnvOK
  <2>3. ASSUME ballot_box[Vote(t).hash] = None PROVE ThreadOK(t)'
    <3>1. Goto(t, "queue")
      BY <1>9, <2>3 DEF Find, Goto
    <3> QED BY <2>1, <2>2, <3>1, GotoOK DEF Control, ProposalSteps, BallotSteps, HeldSteps
  <2>4. ASSUME ballot_box[Vote(t).hash] # None PROVE ThreadOK(t)'
    <3>1. Goto(t, "look_cast") /\ ballot_box' = ballot_box
      BY <1>9, <2>4 DEF Find, Goto
    <3> QED BY <2>1, <2>2, <2>4, <3>1, GotoOK DEF Control, ProposalSteps, HeldSteps
  <2>5. ASSUME NEW u \in Threads, u # t PROVE ThreadOK(u)'
    BY <1>9, <2>1, <2>5, OthersSame, FrameKept DEF Find, Control
  <2> QED BY <2>1, <2>3, <2>4, <2>5 DEF Control
<1>10. ASSUME NEW t \in Threads, Queue(t) PROVE Control'
  <2>1. Vote(t) \in Envelopes /\ Vote(t).hash \in Hashes
    BY <1>10, VoteTypes, EnvelopeTypes DEF Queue, Control, ThreadOK
  <2>2. BallotsKept
    BY <1>10 DEF Queue, BallotsKept
  <2>3. ASSUME NEW h \in Hashes, NEW i \in 1..Len(pending_votes'[h])
        PROVE  pending_votes'[h][i].hash = h
    <3>1. pending_votes[h] \in Seq(Envelopes) /\ pending_votes[Vote(t).hash] \in Seq(Envelopes)
      BY <2>1 DEF TypeOK
    <3>2. CASE h = Vote(t).hash
      <4>1. pending_votes'[h] = Append(pending_votes[h], Vote(t))
        BY <1>10, <3>2 DEF Queue, TypeOK
      <4>2. i \in 1..Len(pending_votes[h]) \/ pending_votes'[h][i] = Vote(t)
        BY <2>1, <3>1, <4>1
      <4>3. i \in 1..Len(pending_votes[h]) => pending_votes'[h][i] = pending_votes[h][i]
        BY <2>1, <3>1, <4>1
      <4> QED BY <3>2, <4>2, <4>3 DEF Control, KeysOK
    <3>3. CASE h # Vote(t).hash
      <4>1. pending_votes'[h] = pending_votes[h]
        BY <1>10, <3>3 DEF Queue, TypeOK
      <4> QED BY <4>1 DEF Control, KeysOK
    <3> QED BY <3>2, <3>3
  <2>4. KeysOK'
    BY <1>10, <2>3 DEF Queue, Control, KeysOK
  <2>5. ThreadOK(t)'
    BY <1>10, <2>2, ReturnOK DEF Queue, Control
  <2>6. ASSUME NEW u \in Threads, u # t PROVE ThreadOK(u)'
    BY <1>10, <2>2, <2>6, OthersSame, FrameKept DEF Queue, Control
  <2> QED BY <2>4, <2>5, <2>6 DEF Control
<1>11. ASSUME NEW t \in Threads, Cast(t) PROVE Control'
  <2>1. KeysOK' /\ BallotsKept
    BY <1>11 DEF Cast, Control, KeysOK, BallotsKept
  <2>2. ThreadOK(t)'
    BY <1>11, <2>1, GotoOK, BallotKept DEF Cast, Control, ThreadOK, EnvOK, ProposalSteps, BallotSteps, HeldSteps
  <2>3. ASSUME NEW u \in Threads, u # t PROVE ThreadOK(u)'
    BY <1>11, <2>1, <2>3, OthersSame, FrameKept DEF Cast, Control
  <2> QED BY <2>1, <2>2, <2>3 DEF Control
<1>12. ASSUME NEW t \in Threads, Tally(t) PROVE Control'
  <2>1. KeysOK' /\ BallotsKept
    BY <1>12 DEF Tally, Control, KeysOK, BallotsKept
  <2>2. ThreadOK(t)'
    BY <1>12 DEF Tally, Control, TypeOK, ThreadOK, EnvOK, ReplayOK, BallotOK, EmitOK, Vote,
       ProposalSteps, BallotSteps, HeldSteps
  <2>3. ASSUME NEW u \in Threads, u # t PROVE ThreadOK(u)'
    <3>1. SameFrame(u)
      BY <1>12, <2>3 DEF Tally, SameFrame, TypeOK
    <3> QED BY <2>1, <3>1, FrameKept DEF Control
  <2> QED BY <2>1, <2>2, <2>3 DEF Control
<1>13. ASSUME NEW t \in Threads, RecordVote(t) PROVE Control'
  <2>1. KeysOK' /\ BallotsKept
    BY <1>13 DEF RecordVote, Control, KeysOK, BallotsKept
  <2>2. ThreadOK(t)'
    BY <1>13, <2>1, GotoOK, EndOK, ReturnOK, BallotKept DEF RecordVote, Control, ThreadOK, AnswerLost, EnvOK, ProposalSteps, BallotSteps, HeldSteps
  <2>3. ASSUME NEW u \in Threads, u # t PROVE ThreadOK(u)'
    BY <1>13, <2>1, <2>3, OthersSame, FrameKept DEF RecordVote, Control, AnswerLost
  <2> QED BY <2>1, <2>2, <2>3 DEF Control
<1>14. ASSUME NEW t \in Threads, HasApproval(t) PROVE Control'
  <2>1. KeysOK' /\ BallotsKept
    BY <1>14 DEF HasApproval, Control, KeysOK, BallotsKept
  <2>2. ThreadOK(t)'
    BY <1>14, <2>1, GotoOK, ReturnOK, BallotKept DEF HasApproval, Control, ThreadOK, EnvOK, ProposalSteps, BallotSteps, HeldSteps
  <2>3. ASSUME NEW u \in Threads, u # t PROVE ThreadOK(u)'
    BY <1>14, <2>1, <2>3, OthersSame, FrameKept DEF HasApproval, Control
  <2> QED BY <2>1, <2>2, <2>3 DEF Control
<1>15. ASSUME NEW t \in Threads, Require(t) PROVE Control'
  <2>1. KeysOK' /\ BallotsKept
    BY <1>15 DEF Require, Control, KeysOK, BallotsKept
  <2>2. ThreadOK(t)'
    BY <1>15, <2>1, GotoOK, EndOK, BallotKept DEF Require, Control, ThreadOK, EnvOK,
       ProposalSteps, BallotSteps, HeldSteps
  <2>3. ASSUME NEW u \in Threads, u # t PROVE ThreadOK(u)'
    BY <1>15, <2>1, <2>3, OthersSame, FrameKept DEF Require, Control
  <2> QED BY <2>1, <2>2, <2>3 DEF Control
<1>16. ASSUME NEW t \in Threads, ScanYes(t) PROVE Control'
  <2>1. KeysOK' /\ BallotsKept
    BY <1>16 DEF ScanYes, Control, KeysOK, BallotsKept
  <2>2. ThreadOK(t)'
    <3>1. proposal[t] \in Proposals /\ proposal[t].sender \in Nodes
      BY <1>16, EnvelopeTypes DEF ScanYes, Control, ThreadOK, EmitOK, HeldSteps, Proposals
    <3>2. [proposer |-> proposal[t].sender, yes |-> YesVoters(proposal[t]), no |-> {}] \in Artifact
      BY <3>1 DEF Artifact, YesVoters
    <3>3. event'[t] \in Artifact /\ pc'[t] = "scan_no" /\ UNCHANGED <<env, cur, replay, proposal, ballot_box>>
      BY <1>16, <3>2 DEF ScanYes, TypeOK
    <3> QED BY <1>16, <3>3 DEF ScanYes, Control, ThreadOK, EnvOK, ReplayOK, BallotOK, EmitOK,
         Vote, ProposalSteps, BallotSteps, HeldSteps
  <2>3. ASSUME NEW u \in Threads, u # t PROVE ThreadOK(u)'
    <3>1. SameFrame(u)
      BY <1>16, <2>3 DEF ScanYes, SameFrame, End, Unwind, TypeOK
    <3> QED BY <2>1, <3>1, FrameKept DEF Control
  <2> QED BY <2>1, <2>2, <2>3 DEF Control
<1>17. ASSUME NEW t \in Threads, ScanNo(t) PROVE Control'
  <2>1. KeysOK' /\ BallotsKept
    BY <1>17 DEF ScanNo, Control, KeysOK, BallotsKept
  <2>2. ThreadOK(t)'
    <3>1. event'[t] \in Artifact
      BY <1>17 DEF ScanNo, Control, ThreadOK, EmitOK, Artifact, NoVoters, TypeOK
    <3>2. pc'[t] = "write_approval" /\ UNCHANGED <<env, cur, replay, proposal, ballot_box>>
      BY <1>17 DEF ScanNo, TypeOK
    <3> QED BY <1>17, <3>1, <3>2 DEF ScanNo, Control, ThreadOK, EnvOK, ReplayOK, BallotOK, EmitOK,
         Vote, ProposalSteps, BallotSteps, HeldSteps
  <2>3. ASSUME NEW u \in Threads, u # t PROVE ThreadOK(u)'
    <3>1. SameFrame(u)
      BY <1>17, <2>3 DEF ScanNo, SameFrame, End, Unwind, TypeOK
    <3> QED BY <2>1, <3>1, FrameKept DEF Control
  <2> QED BY <2>1, <2>2, <2>3 DEF Control
<1>18. ASSUME NEW t \in Threads, WriteApproval(t) PROVE Control'
  <2>1. KeysOK' /\ BallotsKept
    BY <1>18 DEF WriteApproval, Control, KeysOK, BallotsKept
  <2>2. ThreadOK(t)'
    BY <1>18, <2>1, EndOK, ReturnOK DEF WriteApproval, Control, ThreadOK, AnswerLost
  <2>3. ASSUME NEW u \in Threads, u # t PROVE ThreadOK(u)'
    BY <1>18, <2>1, <2>3, OthersSame, FrameKept DEF WriteApproval, Control, AnswerLost
  <2> QED BY <2>1, <2>2, <2>3 DEF Control
<1>19. ASSUME NEW t \in Threads, StoreRaises(t) PROVE Control'
  <2>1. KeysOK' /\ BallotsKept
    BY <1>19 DEF StoreRaises, Control, KeysOK, BallotsKept
  <2>2. ThreadOK(t)'
    BY <1>19, <2>1, EndOK DEF StoreRaises, Control, ThreadOK
  <2>3. ASSUME NEW u \in Threads, u # t PROVE ThreadOK(u)'
    BY <1>19, <2>1, <2>3, OthersSame, FrameKept DEF StoreRaises, Control
  <2> QED BY <2>1, <2>2, <2>3 DEF Control
<1>20. ASSUME NEW t \in Threads, NEW u \in Threads, ScanBroken(t, u) PROVE Control'
  <2>1. KeysOK' /\ BallotsKept
    BY <1>20 DEF ScanBroken, Control, KeysOK, BallotsKept
  <2>2. ThreadOK(t)'
    BY <1>20, UnwindOK DEF ScanBroken, TypeOK
  <2>3. ThreadOK(u)'
    <3>1. /\ pc[u] = "cast" /\ pc'[u] = "look_tally" /\ env'[u] = env[u] /\ cur'[u] = cur[u]
          /\ replay'[u] = replay[u] /\ ballot_box' = ballot_box
      BY <1>20 DEF ScanBroken, Unwind, TypeOK
    <3> QED BY <3>1 DEF Control, ThreadOK, EnvOK, ReplayOK, BallotOK, EmitOK, Vote,
         ProposalSteps, BallotSteps, HeldSteps
  <2>4. ASSUME NEW v \in Threads, v # t, v # u PROVE ThreadOK(v)'
    <3>1. SameFrame(v)
      BY <1>20, <2>4 DEF ScanBroken, Unwind, SameFrame, TypeOK
    <3> QED BY <2>1, <3>1, FrameKept DEF Control
  <2> QED BY <2>1, <2>2, <2>3, <2>4 DEF Control
<1>21. ASSUME Restart PROVE Control'
  BY <1>21 DEF Restart, EachHash, EachThread, Control, KeysOK, ThreadOK, EnvOK, ReplayOK,
     BallotOK, EmitOK, ProposalSteps, BallotSteps, HeldSteps
<1>23. ASSUME NEW t \in Threads, LookUp(t) PROVE Control'
  <2>1. KeysOK' /\ BallotsKept
    BY <1>23 DEF LookUp, Control, KeysOK, BallotsKept
  <2>2. pc[t] \in BallotSteps \ {"idle"} /\ (pc'[t] \in ProposalSteps => pc[t] \in ProposalSteps)
    BY <1>23, LookUpFrame DEF BallotSteps, ProposalSteps
  <2>3. /\ ballot_box[Vote(t).hash] \in Proposals
        /\ ballot_box[Vote(t).hash].hash = Vote(t).hash
    BY <2>2, VoteTypes, EnvelopeTypes DEF Control, KeysOK, TypeOK, ThreadOK, BallotOK
  <2>4. UNCHANGED <<env, cur, replay, event, ballot_box>>
    BY <1>23 DEF LookUp
  <2>5. ThreadOK(t)'
    <3>1. EmitOK(t)'
      BY <1>23, <2>3, <2>4, LookUpFrame DEF EmitOK, Vote
    <3>2. EnvOK(t)' /\ ReplayOK(t)' /\ BallotOK(t)'
      BY <2>2, <2>3, <2>4, <1>23, LookUpFrame, EnvelopeTypes
         DEF Control, ThreadOK, EnvOK, ReplayOK, BallotOK, Vote, Proposals
    <3> QED BY <3>1, <3>2 DEF ThreadOK
  <2>6. ASSUME NEW u \in Threads, u # t PROVE ThreadOK(u)'
    <3>1. SameFrame(u)
      BY <1>23, <2>4, <2>6, LookUpFrame DEF SameFrame
    <3> QED BY <2>1, <3>1, FrameKept DEF Control
  <2> QED BY <2>1, <2>5, <2>6 DEF Control
<1>22. ASSUME UNCHANGED vars PROVE Control'
  <2>1. KeysOK' /\ BallotsKept
    BY <1>22 DEF vars, Control, KeysOK, BallotsKept
  <2>2. ASSUME NEW u \in Threads PROVE SameFrame(u)
    BY <1>22 DEF vars, SameFrame
  <2> QED BY <2>1, <2>2, FrameKept DEF Control
<1> QED BY <1>1, <1>2, <1>3, <1>4, <1>5, <1>6, <1>7, <1>8, <1>9, <1>10, <1>11, <1>12, <1>13,
           <1>14, <1>15, <1>16, <1>17, <1>18, <1>19, <1>20, <1>21, <1>22, <1>23 DEF Next, Handle

(* Every reachable state is well typed, and every thread is where the      *)
(* control invariant says: no step of a handler finds a frame, a ballot or *)
(* an artifact missing that an earlier step was to leave there, whatever   *)
(* other handlers, failing store calls and restarts did in between.        *)
THEOREM TypeCorrect == Spec => [](TypeOK /\ Control)
<1>1. Init => TypeOK /\ Control
  BY TypeInit
<1>2. TypeOK /\ Control /\ [Next]_vars => (TypeOK /\ Control)'
  BY TypeNext, ControlNext
<1> QED BY <1>1, <1>2, PTL DEF Spec

-------------------------------------------------------------------------------
(* Where the names in an approval come from.                               *)

Sound(e) == e \in heard /\ Genuine(e)

SharedSound ==
  /\ \A h \in Hashes :
       /\ ballot_box[h] # None => Sound(ballot_box[h])
       /\ \A i \in 1..Len(pending_votes[h]) : Sound(pending_votes[h][i])
  /\ \A p \in Proposals, n \in Nodes : votes[p][n] # "none" => n \in Said(p.hash, votes[p][n])
  /\ AuthenticApprovals

FrameSound(t) ==
  /\ env[t] # None => Sound(env[t])
  /\ cur[t] # None => Sound(cur[t])
  /\ \A i \in 1..Len(replay[t]) : Sound(replay[t][i])
  /\ pc[t] \in HeldSteps => Sound(proposal[t])
  /\ pc[t] \in {"scan_no", "write_approval"} => Backed(Vote(t).hash, event[t])

Testimony == SharedSound /\ \A t \in Threads : FrameSound(t)

LEMMA AdmissibleIsGenuine ==
  ASSUME NEW e \in Envelopes, Admissible(e)
  PROVE  Genuine(e)
BY EnvelopeTypes, EnvelopesAssumption DEF Admissible, AdmissibleProposal, AdmissibleVote, Genuine, Proposals, Envelope

LEMMA SoundKept ==
  ASSUME NEW u \in Threads, FrameSound(u), SameFrame(u), heard \subseteq heard'
  PROVE  FrameSound(u)'
<1>1. Said(Vote(u).hash, "yes") \subseteq Said(Vote(u).hash, "yes")'
      /\ Said(Vote(u).hash, "no") \subseteq Said(Vote(u).hash, "no")'
  BY DEF Said, SameFrame, Vote
<1>2. Backed(Vote(u).hash, event[u]) => Backed(Vote(u).hash, event[u])'
  BY <1>1 DEF Backed, SameFrame, Vote
<1> QED BY <1>2 DEF FrameSound, SameFrame, Sound, Vote

LEMMA SharedKept ==
  ASSUME SharedSound, heard \subseteq heard',
         UNCHANGED <<ballot_box, votes, pending_votes, db_approvals>>
  PROVE  SharedSound'
<1>1. ASSUME NEW h \in Hashes, db_approvals[h] # None
      PROVE  Backed(h, db_approvals[h])'
  BY <1>1 DEF SharedSound, AuthenticApprovals, Backed, Said
<1>2. ASSUME NEW p \in Proposals, NEW n \in Nodes, votes[p][n] # "none"
      PROVE  n \in Said(p.hash, votes[p][n])'
  BY <1>2 DEF SharedSound, Said
<1> QED BY <1>1, <1>2 DEF SharedSound, AuthenticApprovals, Sound

LEMMA GotoSound ==
  ASSUME TypeOK, NEW t \in Threads, FrameSound(t), heard \subseteq heard', NEW l, Goto(t, l),
         l \notin HeldSteps \ {"look_fetch"} /\ l # "write_approval",
         l = "look_fetch" => pc[t] = "require"
  PROVE  FrameSound(t)'
BY DEF Goto, TypeOK, FrameSound, Sound, HeldSteps

LEMMA UnwindSound ==
  ASSUME TypeOK, NEW t \in Threads, Unwind(t), pc'[t] = "idle"
  PROVE  FrameSound(t)'
BY DEF Unwind, TypeOK, FrameSound, HeldSteps

LEMMA EndSound ==
  ASSUME TypeOK, NEW t \in Threads, End(t)
  PROVE  FrameSound(t)'
BY UnwindSound DEF End, TypeOK

LEMMA ReturnSound ==
  ASSUME TypeOK, NEW t \in Threads, FrameSound(t), heard \subseteq heard', Return(t)
  PROVE  FrameSound(t)'
<1>1. CASE cur[t] = None
  BY <1>1, EndSound DEF Return
<1>2. CASE cur[t] # None
  <2>1. /\ pc'[t] = "next" /\ env' = env /\ cur' = cur /\ replay' = replay
    BY <1>2 DEF Return, TypeOK
  <2> QED BY <2>1 DEF FrameSound, Sound, HeldSteps
<1> QED BY <1>1, <1>2

LEMMA VoteSound ==
  ASSUME TypeOK, Control, Testimony, NEW t \in Threads, pc[t] # "idle"
  PROVE  Sound(Vote(t)) /\ Vote(t) \in Envelopes /\ Vote(t).hash \in Hashes
BY VoteTypes, EnvelopeTypes DEF Testimony, FrameSound, Vote, Control, ThreadOK

LEMMA CastSound ==
  ASSUME TypeOK, Control, Testimony, NEW t \in Threads, pc[t] = "cast", SetVote(t),
         UNCHANGED <<heard, ballot_box, pending_votes, db_approvals>>
  PROVE  SharedSound'
<1>1. Sound(Vote(t)) /\ Vote(t) \in Envelopes /\ Vote(t).hash \in Hashes
  BY VoteSound
<1>2. proposal[t] \in Proposals /\ proposal[t].hash = Vote(t).hash
  BY DEF Control, ThreadOK, EmitOK, HeldSteps
<1>3. Vote(t).voter \in Said(Vote(t).hash, Vote(t).vote)
  BY <1>1, EnvelopeTypes DEF Sound, Said
<1>4. ASSUME NEW p \in Proposals, NEW n \in Nodes, votes'[p][n] # "none"
      PROVE  n \in Said(p.hash, votes'[p][n])
  <2>1. CASE p = proposal[t] /\ n = Vote(t).voter
    <3>1. votes'[p][n] = Vote(t).vote
      BY <1>2, <2>1, EnvelopeTypes, <1>1 DEF SetVote, TypeOK
    <3> QED BY <1>2, <1>3, <2>1, <3>1
  <2>2. CASE ~(p = proposal[t] /\ n = Vote(t).voter)
    <3>1. votes'[p][n] = votes[p][n]
      BY <1>2, <2>2 DEF SetVote, TypeOK
    <3> QED BY <1>4, <3>1 DEF Testimony, SharedSound
  <2> QED BY <2>1, <2>2
<1>5. ASSUME NEW p \in Proposals, NEW n \in Nodes, votes'[p][n] # "none"
      PROVE  n \in Said(p.hash, votes[p][n])'
  BY <1>4, <1>5 DEF Said
<1>6. AuthenticApprovals'
  BY DEF Testimony, SharedSound, AuthenticApprovals, Backed, Said
<1> QED BY <1>5, <1>6 DEF Testimony, SharedSound, Sound

LEMMA TestimonyInit == Init => Testimony
BY DEF Init, EachHash, EachThread, NoVotes, Testimony, SharedSound, AuthenticApprovals, FrameSound,
       HeldSteps

LEMMA TestimonyNext ==
  ASSUME TypeOK, Control, Testimony, [Next]_vars
  PROVE  Testimony'
<1> USE DEF memory, ledger, locals, Referenced, InsertProposal, UpsertVote, InsertApproval
<1>1. ASSUME NEW t \in Threads, NEW e \in Envelopes, Accept(t, e) PROVE Testimony'
  <2>1. SharedSound' /\ heard \subseteq heard'
    BY <1>1, SharedKept DEF Accept, HandOver, Testimony
  <2>2. e \in heard' /\ Genuine(e)
    BY <1>1, AdmissibleIsGenuine DEF Accept, HandOver
  <2>3. FrameSound(t)'
    <3>1. /\ cur'[t] = None /\ replay'[t] = <<>> /\ env'[t] = e
          /\ pc'[t] = IF e.type = "CONSENSUS_PROPOSAL" THEN "propose" ELSE "find"
      BY <1>1 DEF Accept, HandOver, Control, ThreadOK, ReplayOK, TypeOK
    <3> QED BY <2>2, <3>1 DEF FrameSound, Sound, HeldSteps
  <2>4. ASSUME NEW u \in Threads, u # t PROVE FrameSound(u)'
    <3>1. SameFrame(u)
      BY <1>1, <2>4 DEF Accept, SameFrame, TypeOK
    <3> QED BY <2>1, <3>1, SoundKept DEF Testimony
  <2> QED BY <2>1, <2>3, <2>4 DEF Testimony
<1>2. ASSUME NEW t \in Threads, NEW e \in Envelopes, Reject(t, e) PROVE Testimony'
  <2>1. SharedSound' /\ heard \subseteq heard'
    BY <1>2, SharedKept DEF Reject, HandOver, Testimony
  <2>2. ASSUME NEW u \in Threads PROVE SameFrame(u)
    BY <1>2 DEF Reject, SameFrame
  <2> QED BY <2>1, <2>2, SoundKept DEF Testimony
<1>3. ASSUME NEW t \in Threads, Propose(t) PROVE Testimony'
  <2>1. SharedSound' /\ heard \subseteq heard'
    BY <1>3, SharedKept DEF Propose, Testimony
  <2>2. FrameSound(t)'
    BY <1>3, <2>1, GotoSound, EndSound DEF Propose, Testimony, HeldSteps
  <2>3. ASSUME NEW u \in Threads, u # t PROVE FrameSound(u)'
    <3>1. SameFrame(u)
      BY <1>3, <2>3, OthersSame DEF Propose, SameFrame, TypeOK
    <3> QED BY <2>1, <3>1, SoundKept DEF Testimony
  <2> QED BY <2>1, <2>2, <2>3 DEF Testimony
<1>4. ASSUME NEW t \in Threads, Register(t) PROVE Testimony'
  <2>1. env[t] \in Proposals /\ env[t] \in Envelopes /\ Sound(env[t])
    BY <1>4, EnvelopeTypes DEF Register, Control, ThreadOK, EnvOK, ProposalSteps, Proposals,
       Testimony, FrameSound
  <2>2. ASSUME NEW h \in Hashes, ballot_box'[h] # None PROVE Sound(ballot_box'[h])
    BY <1>4, <2>1, <2>2 DEF Register, Testimony, SharedSound, TypeOK
  <2>3. ASSUME NEW p \in Proposals, NEW n \in Nodes, votes'[p][n] # "none"
        PROVE  n \in Said(p.hash, votes'[p][n])
    <3>1. CASE p = env[t]
      <4>1. votes'[p] = [NoVotes EXCEPT ![env[t].sender] = "yes"]
        BY <1>4, <2>1, <3>1 DEF Register, TypeOK
      <4>2. n = env[t].sender /\ votes'[p][n] = "yes"
        BY <2>3, <4>1 DEF NoVotes
      <4>3. env[t].voter = env[t].sender /\ env[t].vote = "yes"
        BY <2>1, EnvelopeTypes
      <4> QED BY <2>1, <3>1, <4>2, <4>3 DEF Said, Sound
    <3>2. CASE p # env[t]
      <4>1. votes'[p] = votes[p]
        BY <1>4, <3>2 DEF Register, TypeOK
      <4> QED BY <2>3, <4>1 DEF Testimony, SharedSound
    <3> QED BY <3>1, <3>2
  <2>4. ASSUME NEW p \in Proposals, NEW n \in Nodes, votes'[p][n] # "none"
        PROVE  n \in Said(p.hash, votes[p][n])'
    BY <1>4, <2>3, <2>4 DEF Said, Register
  <2>5. SharedSound' /\ heard \subseteq heard'
    <3>1. AuthenticApprovals'
      BY <1>4 DEF Register, Testimony, SharedSound, AuthenticApprovals, Backed, Said
    <3> QED BY <1>4, <2>2, <2>4, <3>1 DEF Register, Testimony, SharedSound, Sound
  <2>6. FrameSound(t)'
    BY <1>4, <2>5, GotoSound DEF Register, Testimony, HeldSteps
  <2>7. ASSUME NEW u \in Threads, u # t PROVE FrameSound(u)'
    <3>1. SameFrame(u)
      BY <1>4, <2>7, OthersSame DEF Register
    <3> QED BY <2>5, <3>1, SoundKept DEF Testimony
  <2> QED BY <2>5, <2>6, <2>7 DEF Testimony
<1>5. ASSUME NEW t \in Threads, RecordProposal(t) PROVE Testimony'
  <2>1. SharedSound' /\ heard \subseteq heard'
    BY <1>5, SharedKept DEF RecordProposal, Testimony
  <2>2. FrameSound(t)'
    BY <1>5, <2>1, GotoSound, EndSound DEF RecordProposal, Testimony, AnswerLost, HeldSteps
  <2>3. ASSUME NEW u \in Threads, u # t PROVE FrameSound(u)'
    <3>1. SameFrame(u)
      BY <1>5, <2>3, OthersSame DEF RecordProposal, SameFrame, TypeOK, AnswerLost
    <3> QED BY <2>1, <3>1, SoundKept DEF Testimony
  <2> QED BY <2>1, <2>2, <2>3 DEF Testimony
<1>6. ASSUME NEW t \in Threads, PopPending(t) PROVE Testimony'
  <2>1. env[t].hash \in Hashes
    BY <1>6, EnvelopeTypes DEF PopPending, Control, ThreadOK, EnvOK
  <2>2. SharedSound'
    <3>1. AuthenticApprovals'
      BY <1>6 DEF PopPending, Testimony, SharedSound, AuthenticApprovals, Backed, Said
    <3>2. \A h \in Hashes : \A i \in 1..Len(pending_votes'[h]) : Sound(pending_votes'[h][i])
      BY <1>6, <2>1 DEF PopPending, Testimony, SharedSound, TypeOK
    <3>3. \A p \in Proposals, n \in Nodes : votes'[p][n] # "none" => n \in Said(p.hash, votes[p][n])'
      BY <1>6 DEF PopPending, Testimony, SharedSound, Said
    <3> QED BY <1>6, <3>1, <3>2, <3>3 DEF PopPending, Testimony, SharedSound, Sound
  <2>3. FrameSound(t)'
    <3>1. /\ pc'[t] = "next" /\ replay'[t] = pending_votes[env[t].hash]
          /\ UNCHANGED <<env, cur, heard>>
      BY <1>6 DEF PopPending, TypeOK
    <3> QED BY <2>1, <3>1 DEF FrameSound, Testimony, SharedSound, Sound, HeldSteps
  <2>4. ASSUME NEW u \in Threads, u # t PROVE FrameSound(u)'
    <3>1. SameFrame(u) /\ heard' = heard
      BY <1>6, <2>4 DEF PopPending, SameFrame, TypeOK
    <3> QED BY <3>1, SoundKept DEF Testimony
  <2> QED BY <2>2, <2>3, <2>4 DEF Testimony
<1>7. ASSUME NEW t \in Threads, NextPending(t) PROVE Testimony'
  <2>1. SharedSound' /\ heard' = heard
    BY <1>7, SharedKept DEF NextPending, Testimony
  <2>2. ASSUME replay[t] = <<>> PROVE FrameSound(t)'
    <3>1. pc'[t] = "look_check" /\ cur'[t] = None /\ UNCHANGED <<replay, env>>
      BY <1>7, <2>2 DEF NextPending, TypeOK
    <3> QED BY <2>1, <3>1 DEF FrameSound, Testimony, Sound, HeldSteps
  <2>3. ASSUME replay[t] # <<>> PROVE FrameSound(t)'
    <3>1. /\ pc'[t] = "find" /\ cur'[t] = Head(replay[t]) /\ replay'[t] = Tail(replay[t])
          /\ env' = env
      BY <1>7, <2>3 DEF NextPending, TypeOK
    <3>2. replay[t] \in Seq(Envelopes)
      BY DEF TypeOK
    <3>3. /\ 1 \in 1..Len(replay[t]) /\ Head(replay[t]) = replay[t][1]
          /\ \A i \in 1..Len(Tail(replay[t])) :
               i + 1 \in 1..Len(replay[t]) /\ Tail(replay[t])[i] = replay[t][i + 1]
      BY <2>3, <3>2
    <3> QED BY <2>1, <3>1, <3>3 DEF FrameSound, Testimony, Sound, HeldSteps
  <2>4. ASSUME NEW u \in Threads, u # t PROVE FrameSound(u)'
    <3>1. SameFrame(u)
      BY <1>7, <2>4 DEF NextPending, SameFrame, TypeOK
    <3> QED BY <2>1, <3>1, SoundKept DEF Testimony
  <2> QED BY <2>1, <2>2, <2>3, <2>4 DEF Testimony
<1>8. ASSUME NEW t \in Threads, Check(t) PROVE Testimony'
  <2>1. SharedSound' /\ heard \subseteq heard'
    BY <1>8, SharedKept DEF Check, Testimony
  <2>2. FrameSound(t)'
    BY <1>8, <2>1, GotoSound, EndSound DEF Check, Testimony, HeldSteps
  <2>3. ASSUME NEW u \in Threads, u # t PROVE FrameSound(u)'
    <3>1. SameFrame(u)
      BY <1>8, <2>3, OthersSame DEF Check, SameFrame, TypeOK
    <3> QED BY <2>1, <3>1, SoundKept DEF Testimony
  <2> QED BY <2>1, <2>2, <2>3 DEF Testimony
<1>9. ASSUME NEW t \in Threads, Find(t) PROVE Testimony'
  <2>1. SharedSound' /\ heard \subseteq heard'
    BY <1>9, SharedKept DEF Find, Testimony
  <2>2. FrameSound(t)'
    BY <1>9, <2>1, GotoSound DEF Find, Testimony, Goto, HeldSteps
  <2>3. ASSUME NEW u \in Threads, u # t PROVE FrameSound(u)'
    <3>1. SameFrame(u)
      BY <1>9, <2>3, OthersSame DEF Find, SameFrame, TypeOK
    <3> QED BY <2>1, <3>1, SoundKept DEF Testimony
  <2> QED BY <2>1, <2>2, <2>3 DEF Testimony
<1>10. ASSUME NEW t \in Threads, Queue(t) PROVE Testimony'
  <2>1. Sound(Vote(t)) /\ Vote(t) \in Envelopes /\ Vote(t).hash \in Hashes
    BY <1>10, VoteSound DEF Queue
  <2>2. ASSUME NEW h \in Hashes, NEW i \in 1..Len(pending_votes'[h])
        PROVE  Sound(pending_votes'[h][i])
    <3>1. pending_votes[h] \in Seq(Envelopes)
      BY DEF TypeOK
    <3>2. CASE h = Vote(t).hash
      <4>1. pending_votes'[h] = Append(pending_votes[h], Vote(t))
        BY <1>10, <3>2 DEF Queue, TypeOK
      <4>2. i \in 1..Len(pending_votes[h]) \/ pending_votes'[h][i] = Vote(t)
        BY <2>1, <3>1, <4>1
      <4>3. i \in 1..Len(pending_votes[h]) => pending_votes'[h][i] = pending_votes[h][i]
        BY <2>1, <3>1, <4>1
      <4> QED BY <2>1, <4>2, <4>3 DEF Testimony, SharedSound
    <3>3. CASE h # Vote(t).hash
      <4>1. pending_votes'[h] = pending_votes[h]
        BY <1>10, <3>3 DEF Queue, TypeOK
      <4> QED BY <4>1 DEF Testimony, SharedSound
    <3> QED BY <3>2, <3>3
  <2>3. SharedSound' /\ heard' = heard
    <3>1. AuthenticApprovals'
      BY <1>10 DEF Queue, Testimony, SharedSound, AuthenticApprovals, Backed, Said
    <3>2. \A p \in Proposals, n \in Nodes : votes'[p][n] # "none" => n \in Said(p.hash, votes[p][n])'
      BY <1>10 DEF Queue, Testimony, SharedSound, Said
    <3> QED BY <1>10, <2>2, <3>1, <3>2 DEF Queue, Testimony, SharedSound, Sound
  <2>4. FrameSound(t)'
    BY <1>10, <2>3, ReturnSound DEF Queue, Testimony
  <2>5. ASSUME NEW u \in Threads, u # t PROVE FrameSound(u)'
    <3>1. SameFrame(u)
      BY <1>10, <2>5, OthersSame DEF Queue
    <3> QED BY <2>3, <3>1, SoundKept DEF Testimony
  <2> QED BY <2>3, <2>4, <2>5 DEF Testimony
<1>11. ASSUME NEW t \in Threads, Cast(t) PROVE Testimony'
  <2>1. SharedSound' /\ heard' = heard
    BY <1>11, CastSound DEF Cast
  <2>2. FrameSound(t)'
    BY <1>11, <2>1, GotoSound DEF Cast, Testimony, HeldSteps
  <2>3. ASSUME NEW u \in Threads, u # t PROVE FrameSound(u)'
    <3>1. SameFrame(u)
      BY <1>11, <2>3, OthersSame DEF Cast
    <3> QED BY <2>1, <3>1, SoundKept DEF Testimony
  <2> QED BY <2>1, <2>2, <2>3 DEF Testimony
<1>12. ASSUME NEW t \in Threads, Tally(t) PROVE Testimony'
  <2>1. SharedSound' /\ heard' = heard
    BY <1>12, SharedKept DEF Tally, Testimony
  <2>2. FrameSound(t)'
    BY <1>12, <2>1 DEF Tally, TypeOK, Testimony, FrameSound, Sound, HeldSteps
  <2>3. ASSUME NEW u \in Threads, u # t PROVE FrameSound(u)'
    <3>1. SameFrame(u)
      BY <1>12, <2>3 DEF Tally, SameFrame, TypeOK
    <3> QED BY <2>1, <3>1, SoundKept DEF Testimony
  <2> QED BY <2>1, <2>2, <2>3 DEF Testimony
<1>13. ASSUME NEW t \in Threads, RecordVote(t) PROVE Testimony'
  <2>1. SharedSound' /\ heard \subseteq heard'
    BY <1>13, SharedKept DEF RecordVote, Testimony
  <2>2. FrameSound(t)'
    BY <1>13, <2>1, GotoSound, EndSound, ReturnSound DEF RecordVote, Testimony, AnswerLost, HeldSteps
  <2>3. ASSUME NEW u \in Threads, u # t PROVE FrameSound(u)'
    <3>1. SameFrame(u)
      BY <1>13, <2>3, OthersSame DEF RecordVote, SameFrame, TypeOK, AnswerLost
    <3> QED BY <2>1, <3>1, SoundKept DEF Testimony
  <2> QED BY <2>1, <2>2, <2>3 DEF Testimony
<1>14. ASSUME NEW t \in Threads, HasApproval(t) PROVE Testimony'
  <2>1. SharedSound' /\ heard \subseteq heard'
    BY <1>14, SharedKept DEF HasApproval, Testimony
  <2>2. FrameSound(t)'
    BY <1>14, <2>1, GotoSound, ReturnSound DEF HasApproval, Testimony, HeldSteps
  <2>3. ASSUME NEW u \in Threads, u # t PROVE FrameSound(u)'
    <3>1. SameFrame(u)
      BY <1>14, <2>3, OthersSame DEF HasApproval, SameFrame, TypeOK
    <3> QED BY <2>1, <3>1, SoundKept DEF Testimony
  <2> QED BY <2>1, <2>2, <2>3 DEF Testimony
<1>15. ASSUME NEW t \in Threads, Require(t) PROVE Testimony'
  <2>1. SharedSound' /\ heard \subseteq heard'
    BY <1>15, SharedKept DEF Require, Testimony
  <2>2. FrameSound(t)'
    BY <1>15, <2>1, GotoSound, EndSound DEF Require, Testimony, HeldSteps
  <2>3. ASSUME NEW u \in Threads, u # t PROVE FrameSound(u)'
    <3>1. SameFrame(u)
      BY <1>15, <2>3, OthersSame DEF Require, SameFrame, TypeOK
    <3> QED BY <2>1, <3>1, SoundKept DEF Testimony
  <2> QED BY <2>1, <2>2, <2>3 DEF Testimony
<1>16. ASSUME NEW t \in Threads, ScanYes(t) PROVE Testimony'
  <2>1. SharedSound' /\ heard' = heard
    BY <1>16, SharedKept DEF ScanYes, Testimony
  <2>2. proposal[t] \in Proposals /\ proposal[t].hash = Vote(t).hash /\ Sound(proposal[t])
    BY <1>16 DEF ScanYes, Control, ThreadOK, EmitOK, Testimony, FrameSound, HeldSteps
  <2>3. /\ pc'[t] = "scan_no" /\ UNCHANGED <<env, cur, replay, proposal>>
        /\ event'[t] = [proposer |-> proposal[t].sender, yes |-> YesVoters(proposal[t]), no |-> {}]
    BY <1>16 DEF ScanYes, TypeOK
  <2>4. YesVoters(proposal[t]) \subseteq Said(Vote(t).hash, "yes")
    BY <2>2 DEF YesVoters, Testimony, SharedSound
  <2>5. Backed(Vote(t).hash, event[t])'
    BY <2>1, <2>2, <2>3, <2>4 DEF Backed, Sound, Said, Vote
  <2>6. FrameSound(t)'
    BY <1>16, <2>1, <2>3, <2>5 DEF ScanYes, Testimony, FrameSound, Sound, HeldSteps
  <2>7. ASSUME NEW u \in Threads, u # t PROVE FrameSound(u)'
    <3>1. SameFrame(u)
      BY <1>16, <2>7 DEF ScanYes, SameFrame, TypeOK
    <3> QED BY <2>1, <3>1, SoundKept DEF Testimony
  <2> QED BY <2>1, <2>6, <2>7 DEF Testimony
<1>17. ASSUME NEW t \in Threads, ScanNo(t) PROVE Testimony'
  <2>1. SharedSound' /\ heard' = heard
    BY <1>17, SharedKept DEF ScanNo, Testimony
  <2>2. proposal[t] \in Proposals /\ proposal[t].hash = Vote(t).hash /\ Backed(Vote(t).hash, event[t])
    BY <1>17 DEF ScanNo, Control, ThreadOK, EmitOK, Testimony, FrameSound, HeldSteps
  <2>3. /\ pc'[t] = "write_approval" /\ UNCHANGED <<env, cur, replay, proposal>>
        /\ event'[t] = [event[t] EXCEPT !.no = NoVoters(proposal[t])] /\ event[t] \in Artifact
    BY <1>17 DEF ScanNo, TypeOK, Control, ThreadOK, EmitOK
  <2>4. NoVoters(proposal[t]) \subseteq Said(Vote(t).hash, "no")
    BY <2>2 DEF NoVoters, Testimony, SharedSound
  <2>5. Backed(Vote(t).hash, event[t])'
    BY <2>1, <2>2, <2>3, <2>4 DEF Backed, Said, Vote, Artifact
  <2>6. FrameSound(t)'
    BY <1>17, <2>1, <2>3, <2>5 DEF ScanNo, Testimony, FrameSound, Sound, HeldSteps
  <2>7. ASSUME NEW u \in Threads, u # t PROVE FrameSound(u)'
    <3>1. SameFrame(u)
      BY <1>17, <2>7 DEF ScanNo, SameFrame, TypeOK
    <3> QED BY <2>1, <3>1, SoundKept DEF Testimony
  <2> QED BY <2>1, <2>6, <2>7 DEF Testimony
<1>18. ASSUME NEW t \in Threads, WriteApproval(t) PROVE Testimony'
  <2>1. Backed(Vote(t).hash, event[t]) /\ heard' = heard /\ Vote(t).hash \in Hashes
    BY <1>18, VoteSound DEF WriteApproval, Testimony, FrameSound
  <2>2. ASSUME NEW h \in Hashes, db_approvals'[h] # None
        PROVE  Backed(h, db_approvals'[h])
    BY <1>18, <2>1, <2>2 DEF WriteApproval, Testimony, SharedSound, AuthenticApprovals, TypeOK
  <2>3. AuthenticApprovals'
    BY <2>1, <2>2 DEF AuthenticApprovals, Backed, Said
  <2>4. SharedSound'
    <3>1. \A p \in Proposals, n \in Nodes : votes'[p][n] # "none" => n \in Said(p.hash, votes[p][n])'
      BY <1>18 DEF WriteApproval, Testimony, SharedSound, Said
    <3> QED BY <1>18, <2>3, <3>1 DEF WriteApproval, Testimony, SharedSound, Sound
  <2>5. FrameSound(t)'
    BY <1>18, <2>1, EndSound, ReturnSound DEF WriteApproval, AnswerLost, Testimony
  <2>6. ASSUME NEW u \in Threads, u # t PROVE FrameSound(u)'
    <3>1. SameFrame(u)
      BY <1>18, <2>6, OthersSame DEF WriteApproval, AnswerLost
    <3> QED BY <2>1, <3>1, SoundKept DEF Testimony
  <2> QED BY <2>4, <2>5, <2>6 DEF Testimony
<1>19. ASSUME NEW t \in Threads, StoreRaises(t) PROVE Testimony'
  <2>1. SharedSound' /\ heard \subseteq heard'
    BY <1>19, SharedKept DEF StoreRaises, Testimony
  <2>2. FrameSound(t)'
    BY <1>19, <2>1, EndSound DEF StoreRaises, Testimony
  <2>3. ASSUME NEW u \in Threads, u # t PROVE FrameSound(u)'
    <3>1. SameFrame(u)
      BY <1>19, <2>3, OthersSame DEF StoreRaises, SameFrame, TypeOK
    <3> QED BY <2>1, <3>1, SoundKept DEF Testimony
  <2> QED BY <2>1, <2>2, <2>3 DEF Testimony
<1>20. ASSUME NEW t \in Threads, NEW u \in Threads, ScanBroken(t, u) PROVE Testimony'
  <2>1. SharedSound' /\ heard' = heard
    BY <1>20, CastSound DEF ScanBroken
  <2>2. FrameSound(t)'
    BY <1>20, UnwindSound DEF ScanBroken, TypeOK
  <2>3. FrameSound(u)'
    <3>1. /\ pc'[u] = "look_tally" /\ env'[u] = env[u] /\ cur'[u] = cur[u] /\ replay'[u] = replay[u]
      BY <1>20 DEF ScanBroken, Unwind, TypeOK
    <3> QED BY <2>1, <3>1 DEF Testimony, FrameSound, Sound, HeldSteps
  <2>4. ASSUME NEW v \in Threads, v # t, v # u PROVE FrameSound(v)'
    <3>1. SameFrame(v)
      BY <1>20, <2>4 DEF ScanBroken, Unwind, SameFrame, TypeOK
    <3> QED BY <2>1, <3>1, SoundKept DEF Testimony
  <2> QED BY <2>1, <2>2, <2>3, <2>4 DEF Testimony
<1>21. ASSUME Restart PROVE Testimony'
  <2>1. AuthenticApprovals'
    BY <1>21 DEF Restart, Testimony, SharedSound, AuthenticApprovals, Backed, Said
  <2> QED BY <1>21, <2>1 DEF Restart, EachHash, EachThread, NoVotes, Testimony, SharedSound,
       FrameSound, HeldSteps
<1>23. ASSUME NEW t \in Threads, LookUp(t) PROVE Testimony'
  <2>1. SharedSound' /\ heard' = heard
    BY <1>23, SharedKept DEF LookUp, Testimony
  <2>2. FrameSound(t)'
    <3>1. pc[t] \in BallotSteps /\ pc[t] # "idle"
      BY <1>23, LookUpFrame DEF BallotSteps
    <3>2. Sound(ballot_box[Vote(t).hash])
      BY <3>1, VoteSound DEF Control, ThreadOK, BallotOK, Testimony, SharedSound
    <3>3. /\ proposal'[t] = ballot_box[Vote(t).hash] /\ pc'[t] \notin {"scan_no", "write_approval"}
          /\ UNCHANGED <<env, cur, replay>>
      BY <1>23, LookUpFrame DEF LookUp
    <3> QED BY <2>1, <3>2, <3>3 DEF Testimony, FrameSound, Sound
  <2>3. ASSUME NEW u \in Threads, u # t PROVE FrameSound(u)'
    <3>1. SameFrame(u)
      BY <1>23, <2>3, LookUpFrame DEF LookUp, SameFrame
    <3> QED BY <2>1, <3>1, SoundKept DEF Testimony
  <2> QED BY <2>1, <2>2, <2>3 DEF Testimony
<1>22. ASSUME UNCHANGED vars PROVE Testimony'
  <2>1. SharedSound' /\ heard' = heard
    BY <1>22, SharedKept DEF vars, Testimony
  <2>2. ASSUME NEW u \in Threads PROVE SameFrame(u)
    BY <1>22 DEF vars, SameFrame
  <2> QED BY <2>1, <2>2, SoundKept DEF Testimony
<1> QED BY <1>1, <1>2, <1>3, <1>4, <1>5, <1>6, <1>7, <1>8, <1>9, <1>10, <1>11, <1>12, <1>13,
           <1>14, <1>15, <1>16, <1>17, <1>18, <1>19, <1>20, <1>21, <1>22, <1>23 DEF Next, Handle

LEMMA TestimonyAlways == Spec => [](TypeOK /\ Control /\ Testimony)
<1>1. Init => TypeOK /\ Control /\ Testimony
  BY TypeInit, TestimonyInit
<1>2. TypeOK /\ Control /\ Testimony /\ [Next]_vars => (TypeOK /\ Control /\ Testimony)'
  BY TypeNext, ControlNext, TestimonyNext
<1> QED BY <1>1, <1>2, PTL DEF Spec

(* No approval names a node that did not say what the approval says it     *)
(* said, with any number of racing handlers, failing store calls, restarts *)
(* and replays: the votes an approval lists were all handed over in an     *)
(* envelope in which that authorized node answered for this hash.          *)
THEOREM ApprovalsAuthentic == Spec => []AuthenticApprovals
<1>1. Testimony => AuthenticApprovals
  BY DEF Testimony, SharedSound
<1> QED BY <1>1, TestimonyAlways, PTL

(* A stored approval is never changed or removed by any step, whatever     *)
(* races, failing calls and restarts precede it.                           *)
THEOREM ApprovalsFinal == Spec => ApprovalIsFinal
<1>1. ASSUME TypeOK, [Next]_vars
      PROVE  \A h \in Hashes : db_approvals[h] # None => db_approvals'[h] = db_approvals[h]
  <2> USE DEF ledger, memory, locals, Referenced, InsertProposal, UpsertVote, InsertApproval
  <2>1. ASSUME NEW t \in Threads, WriteApproval(t)
        PROVE  \A h \in Hashes : db_approvals[h] # None => db_approvals'[h] = db_approvals[h]
    BY <1>1, <2>1 DEF WriteApproval, TypeOK
  <2>2. CASE \E t \in Threads : WriteApproval(t)
    BY <2>1, <2>2
  <2>3. CASE ~ \E t \in Threads : WriteApproval(t)
    <3>1. db_approvals' = db_approvals
      BY <1>1, <2>3 DEF Next, Handle, vars, Accept, Reject, Propose, Register, RecordProposal,
         PopPending, NextPending, LookUp, Check, Find, Queue, Cast, Tally, RecordVote, HasApproval,
         Require, ScanYes, ScanNo, StoreRaises, ScanBroken, Restart
    <3> QED BY <3>1
  <2> QED BY <2>2, <2>3
<1> QED BY <1>1, TypeCorrect, PTL DEF Spec, ApprovalIsFinal

-------------------------------------------------------------------------------
(* Quorums.                                                                *)

LEMMA QuorumGrows ==
  ASSUME NEW A, NEW B, A \subseteq B, B \subseteq Authorized, IsQuorum(Authorized, A)
  PROVE  IsQuorum(Authorized, B)
<1>1. IsFiniteSet(B)
  BY AuthorizedAssumption, FS_Subset
<1>2. Cardinality(A) <= Cardinality(B) /\ Cardinality(A) \in Nat /\ Cardinality(B) \in Nat
  BY <1>1, FS_Subset, FS_CardinalityType
<1>3. Threshold(Authorized) \in Int
  BY AuthorizedAssumption, FS_CardinalityType DEF Threshold
<1> QED BY <1>2, <1>3 DEF IsQuorum

(* What all steps but Accept, Require and ScanYes do to the frames.        *)
QuietFrames ==
  \A t \in Threads :
    /\ env'[t] \in {env[t], None}
    /\ pc'[t] \in {"propose", "register"} => pc[t] \in {"propose", "register"}
    /\ pc'[t] \in {"look_fetch", "scan_yes"} =>
         pc[t] \in {"look_fetch", "scan_yes"} /\ proposal'[t] = proposal[t]
    /\ pc'[t] \in {"scan_no", "write_approval"} =>
         pc[t] \in {"scan_no", "write_approval"} /\ event'[t].yes = event[t].yes

LEMMA QuietGoto ==
  ASSUME TypeOK, NEW t \in Threads, NEW l, Goto(t, l),
         l \in {"propose", "register"} => pc[t] \in {"propose", "register"},
         l \notin {"look_fetch", "scan_yes", "scan_no", "write_approval"}
  PROVE  QuietFrames
BY DEF TypeOK, Goto, QuietFrames

LEMMA QuietEnd ==
  ASSUME TypeOK, NEW t \in Threads, End(t)
  PROVE  QuietFrames
BY DEF TypeOK, End, Unwind, QuietFrames

LEMMA QuietReturn ==
  ASSUME TypeOK, NEW t \in Threads, Return(t)
  PROVE  QuietFrames
<1>1. CASE cur[t] = None
  BY <1>1, QuietEnd DEF Return
<1>2. CASE cur[t] # None
  BY <1>2 DEF Return, TypeOK, QuietFrames
<1> QED BY <1>1, <1>2

(* Each envelope is in one place: still in the inbox, or with one thread.  *)
(* So the envelope that names a registered ballot is not being registered  *)
(* again, and nobody resets the votes of a ballot that is being emitted.   *)
Registered(p) ==
  p \notin inbox /\ \A t \in Threads : env[t] = p => pc[t] \notin {"propose", "register"}

Fresh ==
  /\ \A t \in Threads : env[t] # None => env[t] \notin inbox
  /\ \A t, u \in Threads : t # u /\ env[t] # None => env[t] # env[u]
  /\ \A h \in Hashes : ballot_box[h] # None => Registered(ballot_box[h])
  /\ \A t \in Threads : pc[t] \in {"look_fetch", "scan_yes"} => Registered(proposal[t])

LEMMA FreshKept ==
  ASSUME TypeOK, Control, Fresh, QuietFrames, inbox' \subseteq inbox, ballot_box' = ballot_box
  PROVE  Fresh'
<1>1. ASSUME NEW q, q # None, Registered(q) PROVE q \notin inbox' /\ \A t \in Threads : env'[t] = q => pc'[t] \notin {"propose", "register"}
  BY <1>1 DEF Registered, QuietFrames
<1>2. ASSUME NEW h \in Hashes, ballot_box'[h] # None PROVE Registered(ballot_box[h])'
  BY <1>1, <1>2 DEF Fresh, Registered
<1>3. ASSUME NEW t \in Threads, pc'[t] \in {"look_fetch", "scan_yes"}
      PROVE  Registered(proposal[t])'
  <2>1. pc[t] \in {"look_fetch", "scan_yes"} /\ proposal'[t] = proposal[t]
    BY <1>3 DEF QuietFrames
  <2>2. proposal[t] # None
    BY <2>1, EnvelopeTypes DEF Control, ThreadOK, EmitOK, HeldSteps, Proposals
  <2> QED BY <1>1, <2>1, <2>2 DEF Fresh, Registered
<1> QED BY <1>2, <1>3 DEF Fresh, QuietFrames

Quorate ==
  /\ \A t \in Threads :
       /\ pc[t] \in {"look_fetch", "scan_yes"} => IsQuorum(Authorized, YesVoters(proposal[t]))
       /\ pc[t] \in {"scan_no", "write_approval"} => IsQuorum(Authorized, event[t].yes)
  /\ \A h \in Hashes : db_approvals[h] # None => IsQuorum(Authorized, db_approvals[h].yes)

LEMMA QuorateKept ==
  ASSUME Quorate, QuietFrames, votes' = votes, db_approvals' = db_approvals
  PROVE  Quorate'
BY DEF Quorate, QuietFrames, YesVoters

(* Where a mutation is proposed once, every look-up of its ballot finds    *)
(* the same Proposal object.                                               *)
LEMMA LoneBallot ==
  ASSUME TypeOK, Control, Testimony, ProposedOnce, NEW t \in Threads, pc[t] \in HeldSteps
  PROVE  proposal[t] = ballot_box[Vote(t).hash] /\ proposal[t] # None /\ Vote(t).hash \in Hashes
<1>1. pc[t] \in BallotSteps \cup {"look_fetch"} /\ pc[t] # "idle"
  BY DEF HeldSteps, BallotSteps
<1>2. Vote(t).hash \in Hashes /\ ballot_box[Vote(t).hash] # None
  BY <1>1, VoteSound DEF Control, ThreadOK, BallotOK, BallotSteps
<1>3. proposal[t] \in Proposals /\ proposal[t].hash = Vote(t).hash /\ Genuine(proposal[t])
  BY DEF Control, ThreadOK, EmitOK, Testimony, FrameSound, Sound
<1>4. /\ ballot_box[Vote(t).hash] \in Proposals /\ ballot_box[Vote(t).hash].hash = Vote(t).hash
      /\ Genuine(ballot_box[Vote(t).hash])
  BY <1>2 DEF TypeOK, Control, KeysOK, Testimony, SharedSound, Sound
<1> QED BY <1>2, <1>3, <1>4, EnvelopeTypes DEF ProposedOnce, Proposals

(* With steadfast nodes a yes that a ballot holds is never taken back.     *)
LEMMA YesStays ==
  ASSUME TypeOK, Control, Testimony, Steadfast,
         NEW t \in Threads, pc[t] = "cast", SetVote(t), NEW p \in Proposals
  PROVE  YesVoters(p) \subseteq YesVoters(p)'
<1>1. Sound(Vote(t)) /\ Vote(t) \in Envelopes /\ Vote(t).hash \in Hashes
  BY VoteSound
<1>2. proposal[t] \in Proposals /\ proposal[t].hash = Vote(t).hash
  BY DEF Control, ThreadOK, EmitOK, HeldSteps
<1>3. ASSUME NEW n \in Nodes, votes[p][n] = "yes" PROVE votes'[p][n] = "yes"
  <2>1. CASE p = proposal[t] /\ n = Vote(t).voter
    <3>1. n \in Said(p.hash, "yes")
      BY <1>3 DEF Testimony, SharedSound
    <3>2. PICK e \in heard : Genuine(e) /\ e.hash = p.hash /\ e.voter = n /\ e.vote = "yes"
      BY <3>1 DEF Said
    <3>3. e \in Envelopes
      BY DEF TypeOK
    <3>4. Vote(t).vote = "yes"
      BY <1>1, <1>2, <2>1, <3>2, <3>3 DEF Steadfast, Sound
    <3> QED BY <1>2, <2>1, <3>4 DEF SetVote, TypeOK
  <2>2. CASE ~(p = proposal[t] /\ n = Vote(t).voter)
    BY <1>2, <1>3, <2>2 DEF SetVote, TypeOK
  <2> QED BY <2>1, <2>2
<1> QED BY <1>3 DEF YesVoters

LEMMA QuorateCast ==
  ASSUME TypeOK, Control, Testimony, Testimony', Steadfast, Quorate, QuietFrames,
         NEW t \in Threads, pc[t] = "cast", SetVote(t), db_approvals' = db_approvals
  PROVE  Quorate'
<1>1. ASSUME NEW u \in Threads, pc'[u] \in {"look_fetch", "scan_yes"}
      PROVE  IsQuorum(Authorized, YesVoters(proposal[u]))'
  <2>1. /\ pc[u] \in {"look_fetch", "scan_yes"}
        /\ proposal'[u] = proposal[u] /\ proposal[u] \in Proposals
    BY <1>1 DEF QuietFrames, Control, ThreadOK, EmitOK, HeldSteps
  <2>2. IsQuorum(Authorized, {n \in Nodes : votes[proposal[u]][n] = "yes"})
    BY <2>1 DEF Quorate, YesVoters
  <2>3. {n \in Nodes : votes[proposal[u]][n] = "yes"} \subseteq {n \in Nodes : votes'[proposal[u]][n] = "yes"}
    BY <2>1, YesStays DEF YesVoters
  <2>4. {n \in Nodes : votes'[proposal[u]][n] = "yes"} \subseteq Authorized
    BY <2>1 DEF Testimony, SharedSound, Said, Genuine
  <2>5. IsQuorum(Authorized, {n \in Nodes : votes'[proposal[u]][n] = "yes"})
    BY <2>2, <2>3, <2>4, QuorumGrows
  <2> QED BY <2>1, <2>5 DEF YesVoters, IsQuorum, Threshold
<1>2. ASSUME NEW u \in Threads, pc'[u] \in {"scan_no", "write_approval"}
      PROVE  IsQuorum(Authorized, event[u].yes)'
  BY <1>2 DEF QuietFrames, Quorate, IsQuorum
<1>3. ASSUME NEW h \in Hashes, db_approvals'[h] # None
      PROVE  IsQuorum(Authorized, db_approvals[h].yes)'
  BY <1>3 DEF Quorate
<1> QED BY <1>1, <1>2, <1>3 DEF Quorate

LEMMA QuorumNext ==
  ASSUME TypeOK, Control, Testimony, Testimony', Steadfast, ProposedOnce, Fresh, Quorate,
         [Next]_vars
  PROVE  Fresh' /\ Quorate'
<1> USE DEF memory, ledger, locals, Referenced, InsertProposal, UpsertVote, InsertApproval
<1>1. ASSUME NEW t \in Threads, NEW e \in Envelopes, Accept(t, e) PROVE Fresh' /\ Quorate'
  <2>1. /\ env'[t] = e /\ e \in inbox /\ inbox' = inbox \ {e} /\ ballot_box' = ballot_box
        /\ pc'[t] \in {"propose", "find"} /\ proposal' = proposal /\ event' = event
        /\ votes' = votes /\ db_approvals' = db_approvals
        /\ \A u \in Threads \ {t} : env'[u] = env[u] /\ pc'[u] = pc[u]
    BY <1>1 DEF Accept, HandOver, TypeOK
  <2>2. ASSUME NEW q, Registered(q)
        PROVE  q \notin inbox' /\ \A u \in Threads : env'[u] = q => pc'[u] \notin {"propose", "register"}
    BY <2>1, <2>2 DEF Registered
  <2>3. ASSUME NEW h \in Hashes, ballot_box'[h] # None PROVE Registered(ballot_box[h])'
    BY <2>1, <2>2, <2>3 DEF Fresh, Registered
  <2>4. ASSUME NEW u \in Threads, pc'[u] \in {"look_fetch", "scan_yes"}
        PROVE  Registered(proposal[u])'
    BY <2>1, <2>2, <2>4 DEF Fresh, Registered
  <2>5. Fresh'
    BY <2>1, <2>3, <2>4 DEF Fresh
  <2>6. Quorate'
    BY <2>1 DEF Quorate, YesVoters
  <2> QED BY <2>5, <2>6
<1>2. ASSUME NEW t \in Threads, NEW e \in Envelopes, Reject(t, e) PROVE Fresh' /\ Quorate'
  <2>1. QuietFrames /\ inbox' \subseteq inbox
    BY <1>2 DEF Reject, HandOver, QuietFrames
  <2> QED BY <1>2, <2>1, FreshKept, QuorateKept DEF Reject
<1>3. ASSUME NEW t \in Threads, Propose(t) PROVE Fresh' /\ Quorate'
  <2>1. QuietFrames
    BY <1>3, QuietGoto, QuietEnd DEF Propose
  <2> QED BY <1>3, <2>1, FreshKept, QuorateKept DEF Propose
<1>4. ASSUME NEW t \in Threads, Register(t) PROVE Fresh' /\ Quorate'
  <2>1. QuietFrames
    BY <1>4, QuietGoto DEF Register
  <2>2. /\ env[t] \in Proposals /\ env[t] # None /\ env' = env /\ pc[t] = "register"
        /\ pc' = [pc EXCEPT ![t] = "record_proposal"] /\ proposal' = proposal /\ inbox' = inbox
        /\ ballot_box' = [ballot_box EXCEPT ![env[t].hash] = env[t]]
    BY <1>4, EnvelopeTypes DEF Register, Goto, Control, ThreadOK, EnvOK, ProposalSteps, Proposals
  <2>3. Registered(env[t])'
    BY <2>2 DEF Registered, Fresh, TypeOK
  <2>4. ASSUME NEW q, Registered(q) PROVE q \notin inbox' /\ \A u \in Threads : env'[u] = q => pc'[u] \notin {"propose", "register"}
    BY <2>2, <2>4 DEF Registered, TypeOK
  <2>5. ASSUME NEW h \in Hashes, ballot_box'[h] # None PROVE Registered(ballot_box[h])'
    BY <2>2, <2>3, <2>4, <2>5 DEF Fresh, Registered, TypeOK
  <2>6. ASSUME NEW u \in Threads, pc'[u] \in {"look_fetch", "scan_yes"}
        PROVE  Registered(proposal[u])'
    BY <2>2, <2>4, <2>6 DEF Fresh, Registered, TypeOK
  <2>7. Fresh'
    BY <2>2, <2>5, <2>6 DEF Fresh
  <2>8. ASSUME NEW u \in Threads, pc'[u] \in {"look_fetch", "scan_yes"}
        PROVE  IsQuorum(Authorized, YesVoters(proposal[u]))'
    <3>1. /\ pc[u] \in {"look_fetch", "scan_yes"} /\ proposal'[u] = proposal[u]
          /\ proposal[u] # env[t]
      BY <2>2, <2>8 DEF Fresh, Registered, TypeOK
    <3>2. votes'[proposal[u]] = votes[proposal[u]]
      BY <1>4, <3>1 DEF Register, TypeOK, Control, ThreadOK, EmitOK, HeldSteps
    <3> QED BY <3>1, <3>2 DEF Quorate, YesVoters
  <2>9. Quorate'
    BY <1>4, <2>1, <2>8 DEF Register, Quorate, QuietFrames
  <2> QED BY <2>7, <2>9
<1>5. ASSUME NEW t \in Threads, RecordProposal(t) PROVE Fresh' /\ Quorate'
  <2>1. QuietFrames
    BY <1>5, QuietGoto, QuietEnd DEF RecordProposal, AnswerLost
  <2> QED BY <1>5, <2>1, FreshKept, QuorateKept DEF RecordProposal
<1>6. ASSUME NEW t \in Threads, PopPending(t) PROVE Fresh' /\ Quorate'
  <2>1. QuietFrames
    BY <1>6 DEF PopPending, QuietFrames, TypeOK
  <2> QED BY <1>6, <2>1, FreshKept, QuorateKept DEF PopPending
<1>7. ASSUME NEW t \in Threads, NextPending(t) PROVE Fresh' /\ Quorate'
  <2>1. QuietFrames
    BY <1>7 DEF NextPending, QuietFrames, TypeOK
  <2> QED BY <1>7, <2>1, FreshKept, QuorateKept DEF NextPending
<1>8. ASSUME NEW t \in Threads, Check(t) PROVE Fresh' /\ Quorate'
  <2>1. QuietFrames
    BY <1>8, QuietGoto, QuietEnd DEF Check
  <2> QED BY <1>8, <2>1, FreshKept, QuorateKept DEF Check
<1>9. ASSUME NEW t \in Threads, Find(t) PROVE Fresh' /\ Quorate'
  <2>1. QuietFrames
    BY <1>9, QuietGoto DEF Find, Goto
  <2> QED BY <1>9, <2>1, FreshKept, QuorateKept DEF Find
<1>10. ASSUME NEW t \in Threads, Queue(t) PROVE Fresh' /\ Quorate'
  <2>1. QuietFrames
    BY <1>10, QuietReturn DEF Queue
  <2> QED BY <1>10, <2>1, FreshKept, QuorateKept DEF Queue
<1>11. ASSUME NEW t \in Threads, Cast(t) PROVE Fresh' /\ Quorate'
  <2>1. QuietFrames
    BY <1>11, QuietGoto DEF Cast
  <2> QED BY <1>11, <2>1, FreshKept, QuorateCast DEF Cast
<1>12. ASSUME NEW t \in Threads, Tally(t) PROVE Fresh' /\ Quorate'
  <2>1. QuietFrames
    BY <1>12 DEF Tally, QuietFrames, TypeOK
  <2> QED BY <1>12, <2>1, FreshKept, QuorateKept DEF Tally
<1>13. ASSUME NEW t \in Threads, RecordVote(t) PROVE Fresh' /\ Quorate'
  <2>1. QuietFrames
    BY <1>13, QuietGoto, QuietEnd, QuietReturn DEF RecordVote, AnswerLost
  <2> QED BY <1>13, <2>1, FreshKept, QuorateKept DEF RecordVote
<1>14. ASSUME NEW t \in Threads, HasApproval(t) PROVE Fresh' /\ Quorate'
  <2>1. QuietFrames
    BY <1>14, QuietGoto, QuietReturn DEF HasApproval
  <2> QED BY <1>14, <2>1, FreshKept, QuorateKept DEF HasApproval
<1>15. ASSUME NEW t \in Threads, Require(t) PROVE Fresh' /\ Quorate'
  <2>1. CASE ~Reached(proposal[t])
    BY <1>15, <2>1, QuietEnd, FreshKept, QuorateKept DEF Require
  <2>2. CASE Reached(proposal[t])
    <3>1. /\ pc' = [pc EXCEPT ![t] = "look_fetch"] /\ pc[t] = "require"
          /\ UNCHANGED <<env, proposal, event, inbox, ballot_box, votes, db_approvals>>
      BY <1>15, <2>2 DEF Require, Goto
    <3>2. Registered(proposal[t])
      BY <3>1, LoneBallot DEF Fresh, HeldSteps
    <3>3. ASSUME NEW q, Registered(q) PROVE q \notin inbox' /\ \A u \in Threads : env'[u] = q => pc'[u] \notin {"propose", "register"}
      BY <3>1, <3>3 DEF Registered, TypeOK
    <3>4. ASSUME NEW h \in Hashes, ballot_box'[h] # None PROVE Registered(ballot_box[h])'
      BY <3>1, <3>3, <3>4 DEF Fresh, Registered
    <3>5. ASSUME NEW u \in Threads, pc'[u] \in {"look_fetch", "scan_yes"}
          PROVE  Registered(proposal[u])'
      <4>1. CASE u = t
        BY <3>1, <3>2, <3>3, <4>1 DEF Registered
      <4>2. CASE u # t
        BY <3>1, <3>3, <3>5, <4>2 DEF Fresh, Registered, TypeOK
      <4> QED BY <4>1, <4>2
    <3>6. Fresh'
      BY <3>1, <3>4, <3>5 DEF Fresh
    <3>7. Quorate'
      BY <2>2, <3>1 DEF Quorate, Reached, YesVoters, TypeOK
    <3> QED BY <3>6, <3>7
  <2> QED BY <2>1, <2>2
<1>16. ASSUME NEW t \in Threads, ScanYes(t) PROVE Fresh' /\ Quorate'
  <2>1. /\ pc[t] = "scan_yes" /\ pc' = [pc EXCEPT ![t] = "scan_no"]
        /\ event'[t] = [proposer |-> proposal[t].sender, yes |-> YesVoters(proposal[t]), no |-> {}]
        /\ \A u \in Threads \ {t} : event'[u] = event[u]
        /\ UNCHANGED <<env, proposal, inbox, ballot_box, votes, db_approvals>>
    BY <1>16 DEF ScanYes, TypeOK
  <2>2. ASSUME NEW q, Registered(q) PROVE q \notin inbox' /\ \A u \in Threads : env'[u] = q => pc'[u] \notin {"propose", "register"}
    BY <2>1, <2>2 DEF Registered, TypeOK
  <2>3. ASSUME NEW h \in Hashes, ballot_box'[h] # None PROVE Registered(ballot_box[h])'
    BY <2>1, <2>2, <2>3 DEF Fresh, Registered
  <2>4. ASSUME NEW u \in Threads, pc'[u] \in {"look_fetch", "scan_yes"}
        PROVE  Registered(proposal[u])'
    BY <2>1, <2>2, <2>4 DEF Fresh, Registered, TypeOK
  <2>5. Fresh'
    BY <2>1, <2>3, <2>4 DEF Fresh
  <2>6. IsQuorum(Authorized, event'[t].yes)
    BY <2>1 DEF Quorate
  <2>7. ASSUME NEW u \in Threads, pc'[u] \in {"scan_no", "write_approval"}
        PROVE  IsQuorum(Authorized, event'[u].yes)
    BY <2>1, <2>6, <2>7 DEF Quorate, TypeOK
  <2>8. ASSUME NEW u \in Threads, pc'[u] \in {"look_fetch", "scan_yes"}
        PROVE  IsQuorum(Authorized, YesVoters(proposal[u]))'
    BY <2>1, <2>8 DEF Quorate, YesVoters, TypeOK
  <2>9. Quorate'
    BY <2>1, <2>7, <2>8 DEF Quorate
  <2> QED BY <2>5, <2>9
<1>17. ASSUME NEW t \in Threads, ScanNo(t) PROVE Fresh' /\ Quorate'
  <2>1. event[t] \in Artifact
    BY <1>17 DEF ScanNo, Control, ThreadOK, EmitOK
  <2>2. QuietFrames
    BY <1>17, <2>1 DEF ScanNo, QuietFrames, TypeOK, Artifact
  <2> QED BY <1>17, <2>2, FreshKept, QuorateKept DEF ScanNo
<1>18. ASSUME NEW t \in Threads, WriteApproval(t) PROVE Fresh' /\ Quorate'
  <2>1. QuietFrames
    BY <1>18, QuietEnd, QuietReturn DEF WriteApproval, AnswerLost
  <2>2. ASSUME NEW h \in Hashes, db_approvals'[h] # None
        PROVE  IsQuorum(Authorized, db_approvals'[h].yes)
    BY <1>18, <2>2 DEF WriteApproval, Quorate, TypeOK
  <2>3. Quorate'
    BY <1>18, <2>1, <2>2 DEF WriteApproval, Quorate, QuietFrames, YesVoters, IsQuorum
  <2> QED BY <1>18, <2>1, <2>3, FreshKept DEF WriteApproval
<1>19. ASSUME NEW t \in Threads, StoreRaises(t) PROVE Fresh' /\ Quorate'
  <2>1. QuietFrames
    BY <1>19, QuietEnd DEF StoreRaises
  <2> QED BY <1>19, <2>1, FreshKept, QuorateKept DEF StoreRaises
<1>20. ASSUME NEW t \in Threads, NEW u \in Threads, ScanBroken(t, u) PROVE Fresh' /\ Quorate'
  <2>1. QuietFrames
    BY <1>20 DEF ScanBroken, Unwind, QuietFrames, TypeOK
  <2> QED BY <1>20, <2>1, FreshKept, QuorateCast DEF ScanBroken
<1>21. ASSUME Restart PROVE Fresh' /\ Quorate'
  BY <1>21 DEF Restart, EachHash, EachThread, Fresh, Quorate
<1>23. ASSUME NEW t \in Threads, LookUp(t) PROVE Fresh' /\ Quorate'
  <2>1. pc'[t] = "scan_yes" => pc[t] = "look_fetch" /\ proposal'[t] = proposal[t]
    BY <1>23, LookUpFrame, LoneBallot DEF HeldSteps
  <2>2. QuietFrames
    BY <1>23, <2>1, LookUpFrame DEF LookUp, QuietFrames
  <2> QED BY <1>23, <2>2, FreshKept, QuorateKept DEF LookUp
<1>22. ASSUME UNCHANGED vars PROVE Fresh' /\ Quorate'
  <2>1. QuietFrames
    BY <1>22 DEF vars, QuietFrames
  <2> QED BY <1>22, <2>1, FreshKept, QuorateKept DEF vars
<1> QED BY <1>1, <1>2, <1>3, <1>4, <1>5, <1>6, <1>7, <1>8, <1>9, <1>10, <1>11, <1>12, <1>13,
           <1>14, <1>15, <1>16, <1>17, <1>18, <1>19, <1>20, <1>21, <1>22, <1>23 DEF Next, Handle

(* If no node changes its answer on a mutation, and each mutation is       *)
(* proposed in one message that is delivered once, every stored approval   *)
(* carries a quorum of yes and no double entry, however many handlers race *)
(* between the tally, the count, the second look-up of the ballot, the two *)
(* scans and the write, and whatever store calls fail.  Neither hypothesis *)
(* can be dropped: a changed vote between the scans and a second copy of   *)
(* the proposal between the count and the look-up each break the block.    *)
THEOREM SteadfastQuorum ==
  ASSUME Steadfast, ProposedOnce PROVE Spec => []ApprovalCarriesQuorum
<1> DEFINE IInv == TypeOK /\ Control /\ Testimony /\ Fresh /\ Quorate
<1>1. Init => IInv
  <2>1. Init => Fresh /\ Quorate
    BY DEF Init, EachHash, EachThread, Fresh, Quorate
  <2> QED BY <2>1, TypeInit, TestimonyInit
<1>2. IInv /\ [Next]_vars => IInv'
  BY TypeNext, ControlNext, TestimonyNext, QuorumNext
<1>3. IInv => ApprovalCarriesQuorum
  <2> SUFFICES ASSUME IInv, NEW h \in Hashes, db_approvals[h] # None
               PROVE  /\ IsQuorum(Authorized, db_approvals[h].yes)
                      /\ db_approvals[h].yes \cap db_approvals[h].no = {}
    BY DEF ApprovalCarriesQuorum
  <2>1. ASSUME NEW n \in Said(h, "yes") \cap Said(h, "no") PROVE FALSE
    BY DEF Said, Steadfast, TypeOK
  <2>2. db_approvals[h].yes \subseteq Said(h, "yes") /\ db_approvals[h].no \subseteq Said(h, "no")
    BY DEF Testimony, SharedSound, AuthenticApprovals, Backed
  <2> QED BY <2>1, <2>2 DEF Quorate
<1> HIDE DEF IInv
<1> QED BY <1>1, <1>2, <1>3, PTL DEF Spec

-------------------------------------------------------------------------------
(* One handler at a time: nodes may change their minds as they like.       *)

Sequential == \A t, u \in Threads : t = u

(* Nobody replaces the ballot a thread has looked up, so it counts, looks  *)
(* up again and scans one Proposal object.                                 *)
Snapshot(t) ==
  /\ pc[t] \in HeldSteps => proposal[t] = ballot_box[Vote(t).hash]
  /\ pc[t] \in {"look_fetch", "scan_yes"} => IsQuorum(Authorized, YesVoters(proposal[t]))
  /\ pc[t] = "scan_no" => /\ event[t].yes = YesVoters(proposal[t])
                          /\ IsQuorum(Authorized, event[t].yes)
  /\ pc[t] = "write_approval" => /\ IsQuorum(Authorized, event[t].yes)
                                 /\ event[t].yes \cap event[t].no = {}

SequentialInv == ApprovalCarriesQuorum /\ \A t \in Threads : Snapshot(t)

LEMMA SnapshotQuiet ==
  ASSUME Sequential, SequentialInv, db_approvals' = db_approvals, NEW t \in Threads,
         pc'[t] \notin HeldSteps \cup {"write_approval"}
  PROVE  SequentialInv'
<1>1. ApprovalCarriesQuorum'
  BY DEF SequentialInv, ApprovalCarriesQuorum
<1>2. ASSUME NEW u \in Threads PROVE Snapshot(u)'
  <2>1. u = t
    BY DEF Sequential
  <2> QED BY <2>1 DEF Snapshot, HeldSteps
<1> QED BY <1>1, <1>2 DEF SequentialInv

LEMMA SequentialNext ==
  ASSUME TypeOK, Control, Sequential, SequentialInv, [Next]_vars
  PROVE  SequentialInv'
<1> USE DEF memory, ledger, locals, Referenced, InsertProposal, UpsertVote, InsertApproval
<1>0. HeldSteps = {"cast", "tally", "check", "require", "look_fetch", "scan_yes", "scan_no"}
  BY DEF HeldSteps
<1>1. ASSUME NEW t \in Threads, NEW e \in Envelopes, Accept(t, e) \/ Reject(t, e) PROVE SequentialInv'
  BY <1>0, <1>1, SnapshotQuiet DEF Accept, Reject, HandOver, TypeOK
<1>2. ASSUME NEW t \in Threads, StoreRaises(t) \/ Propose(t) \/ Register(t) \/ RecordProposal(t)
      PROVE  SequentialInv'
  BY <1>0, <1>2, SnapshotQuiet
     DEF StoreRaises, Propose, Register, RecordProposal, AnswerLost, Goto, End, TypeOK
<1>3. ASSUME NEW t \in Threads, PopPending(t) \/ NextPending(t) \/ Check(t) \/ Find(t) \/ Queue(t)
      PROVE  SequentialInv'
  BY <1>0, <1>3, SnapshotQuiet
     DEF PopPending, NextPending, Check, Find, Queue, Goto, End, Return, TypeOK
<1>4. ASSUME NEW t \in Threads, Cast(t) \/ Tally(t) \/ RecordVote(t) \/ HasApproval(t)
      PROVE  SequentialInv'
  BY <1>0, <1>4, SnapshotQuiet
     DEF Cast, Tally, RecordVote, HasApproval, AnswerLost, Goto, End, Return, TypeOK
<1>5. ASSUME NEW t \in Threads, Require(t) PROVE SequentialInv'
  <2>1. CASE ~Reached(proposal[t])
    BY <1>0, <1>5, <2>1, SnapshotQuiet DEF Require, End, TypeOK
  <2>2. CASE Reached(proposal[t])
    <3>1. /\ pc[t] = "require" /\ pc'[t] = "look_fetch"
          /\ UNCHANGED <<proposal, env, cur, ballot_box, votes, db_approvals>>
      BY <1>5, <2>2 DEF Require, Goto, TypeOK
    <3>2. Snapshot(t)'
      BY <1>0, <2>2, <3>1 DEF SequentialInv, Snapshot, Reached, YesVoters, Vote
    <3> QED BY <3>1, <3>2 DEF Sequential, SequentialInv, ApprovalCarriesQuorum
  <2> QED BY <2>1, <2>2
<1>12. ASSUME NEW t \in Threads, LookUp(t) PROVE SequentialInv'
  <2>1. /\ proposal'[t] = ballot_box[Vote(t).hash]
        /\ pc'[t] \in {"cast", "tally", "check", "require"} \/ (pc[t] = "look_fetch" /\ pc'[t] = "scan_yes")
        /\ UNCHANGED <<env, cur, ballot_box, votes, db_approvals>>
    BY <1>12, LookUpFrame DEF LookUp
  <2>2. proposal'[t] = ballot_box'[Vote(t)'.hash]
    BY <2>1 DEF Vote
  <2>3. ASSUME pc'[t] = "scan_yes" PROVE IsQuorum(Authorized, YesVoters(proposal[t]))'
    <3>1. pc[t] = "look_fetch" /\ proposal'[t] = proposal[t]
      BY <1>0, <2>1, <2>3 DEF SequentialInv, Snapshot
    <3> QED BY <2>1, <3>1 DEF SequentialInv, Snapshot, YesVoters
  <2>4. Snapshot(t)'
    BY <2>1, <2>2, <2>3 DEF Snapshot
  <2> QED BY <2>1, <2>4 DEF Sequential, SequentialInv, ApprovalCarriesQuorum
<1>6. ASSUME NEW t \in Threads, ScanYes(t) PROVE SequentialInv'
  <2>1. /\ pc[t] = "scan_yes" /\ pc'[t] = "scan_no"
        /\ UNCHANGED <<proposal, env, cur, ballot_box>>
        /\ event'[t].yes = YesVoters(proposal[t]) /\ votes' = votes /\ db_approvals' = db_approvals
    BY <1>6 DEF ScanYes, TypeOK
  <2>2. Snapshot(t)'
    BY <1>0, <2>1 DEF SequentialInv, Snapshot, YesVoters, Vote
  <2> QED BY <2>1, <2>2 DEF Sequential, SequentialInv, ApprovalCarriesQuorum
<1>7. ASSUME NEW t \in Threads, ScanNo(t) PROVE SequentialInv'
  <2>1. event[t] \in Artifact
    BY <1>7 DEF ScanNo, Control, ThreadOK, EmitOK
  <2>2. /\ pc[t] = "scan_no" /\ pc'[t] = "write_approval"
        /\ event'[t].yes = event[t].yes /\ event'[t].no = NoVoters(proposal[t])
        /\ db_approvals' = db_approvals
    BY <1>7, <2>1 DEF ScanNo, TypeOK, Artifact
  <2>3. Snapshot(t)'
    BY <1>0, <2>2 DEF SequentialInv, Snapshot, YesVoters, NoVoters
  <2> QED BY <2>2, <2>3 DEF Sequential, SequentialInv, ApprovalCarriesQuorum
<1>8. ASSUME NEW t \in Threads, WriteApproval(t) PROVE SequentialInv'
  <2>1. pc'[t] \in {"idle", "next"}
    BY <1>8 DEF WriteApproval, Return, AnswerLost, End, TypeOK
  <2>2. \A u \in Threads : Snapshot(u)'
    BY <1>0, <2>1 DEF Sequential, Snapshot
  <2>3. ASSUME NEW h \in Hashes, db_approvals'[h] # None
        PROVE  /\ IsQuorum(Authorized, db_approvals'[h].yes)
               /\ db_approvals'[h].yes \cap db_approvals'[h].no = {}
    BY <1>8, <2>3 DEF WriteApproval, SequentialInv, ApprovalCarriesQuorum, Snapshot, TypeOK
  <2> QED BY <2>2, <2>3 DEF SequentialInv, ApprovalCarriesQuorum
<1>9. ASSUME NEW t \in Threads, NEW u \in Threads, ScanBroken(t, u) PROVE SequentialInv'
  BY <1>9 DEF ScanBroken, Sequential
<1>10. ASSUME Restart PROVE SequentialInv'
  BY <1>0, <1>10 DEF Restart, EachThread, SequentialInv, ApprovalCarriesQuorum, Snapshot
<1>11. ASSUME UNCHANGED vars PROVE SequentialInv'
  BY <1>11 DEF vars, SequentialInv, ApprovalCarriesQuorum, Snapshot, YesVoters, Vote
<1> QED BY <1>1, <1>2, <1>3, <1>4, <1>5, <1>6, <1>7, <1>8, <1>9, <1>10, <1>11, <1>12 DEF Next, Handle

(* With one handler at a time (the replay command line), every stored      *)
(* approval carries a quorum and no double entry even when nodes change    *)
(* their votes: the ballot counted is the ballot written.                  *)
THEOREM SequentialQuorum == ASSUME Sequential PROVE Spec => []ApprovalCarriesQuorum
<1>1. Init => TypeOK /\ Control /\ SequentialInv
  <2>1. Init => SequentialInv
    BY DEF Init, EachHash, EachThread, SequentialInv, ApprovalCarriesQuorum, Snapshot, HeldSteps
  <2> QED BY <2>1, TypeInit
<1>2. TypeOK /\ Control /\ SequentialInv /\ [Next]_vars => (TypeOK /\ Control /\ SequentialInv)'
  BY TypeNext, ControlNext, SequentialNext
<1>3. SequentialInv => ApprovalCarriesQuorum
  BY DEF SequentialInv
<1> QED BY <1>1, <1>2, <1>3, PTL DEF Spec

-------------------------------------------------------------------------------
(* No quorum goes unnoticed: with a store that answers, whatever handlers  *)
(* race and however often the process restarts, a ballot that is at quorum *)
(* and has no approval is always in the care of a handler that will look.  *)

(* What the foreign keys rely on: the steps behind record_proposal, and    *)
(* everything a replaying handler does, find the proposal's row.           *)
RowSteps == {"pop", "next", "look_check", "check", "has_approval", "look_require", "require",
             "look_fetch", "scan_yes", "scan_no", "write_approval"}

RowOK(t) == pc[t] \in RowSteps \/ cur[t] # None => Referenced(env[t].hash)

RowsKept == \A h \in Hashes : Referenced(h) => Referenced(h)'

LEMMA RowsStay ==
  ASSUME TypeOK, Control, [Next]_vars
  PROVE  RowsKept
<1>1. ASSUME NEW t \in Threads, RecordProposal(t) PROVE RowsKept
  BY <1>1 DEF RecordProposal, InsertProposal, RowsKept, Referenced, TypeOK
<1>2. CASE \A t \in Threads : ~RecordProposal(t)
  <2>1. db_proposals' = db_proposals
    BY <1>2 DEF Next, Handle, vars, memory, ledger, Accept, Reject, Propose, Register, PopPending,
       NextPending, LookUp, Check, Find, Queue, Cast, Tally, RecordVote, HasApproval, Require,
       ScanYes, ScanNo, WriteApproval, StoreRaises, ScanBroken, Restart
  <2> QED BY <2>1 DEF RowsKept, Referenced
<1> QED BY <1>1, <1>2

(* The handler of a vote works on the hash of the envelope it was handed.  *)
LEMMA VoteHash ==
  ASSUME Control, NEW t \in Threads
  PROVE  Vote(t).hash = env[t].hash
BY DEF Control, ThreadOK, ReplayOK, Vote

LEMMA RowFrame ==
  ASSUME TypeOK, Control, RowsKept, NEW t \in Threads, RowOK(t), pc[t] # "idle",
         env'[t] = env[t], cur'[t] = cur[t],
         pc'[t] \in RowSteps => pc[t] \in RowSteps \/ Referenced(env[t].hash)'
  PROVE  RowOK(t)'
<1>1. env[t].hash \in Hashes
  BY EnvelopeTypes DEF Control, ThreadOK, EnvOK
<1> QED BY <1>1 DEF RowOK, RowsKept

LEMMA RowIdle ==
  ASSUME NEW t \in Threads, pc'[t] = "idle", cur'[t] = None
  PROVE  RowOK(t)'
BY DEF RowOK, RowSteps

LEMMA RowReturn ==
  ASSUME TypeOK, Control, RowsKept, NEW t \in Threads, RowOK(t), pc[t] # "idle", Return(t)
  PROVE  RowOK(t)'
<1>1. CASE cur[t] = None
  BY <1>1, RowIdle DEF Return, End, Unwind, TypeOK
<1>2. CASE cur[t] # None
  <2>1. env' = env /\ cur' = cur /\ env[t].hash \in Hashes
    BY <1>2, EnvelopeTypes DEF Return, Control, ThreadOK, EnvOK
  <2> QED BY <1>2, <2>1 DEF RowOK, RowsKept
<1> QED BY <1>1, <1>2

(* What the other handlers see of a step of thread t: nothing.             *)
OthersKept(t) ==
  \A u \in Threads \ {t} :
    /\ pc'[u] = pc[u] /\ env'[u] = env[u] /\ cur'[u] = cur[u]
    /\ reached'[u] = reached[u] /\ proposal'[u] = proposal[u]

LEMMA HandlerAlone ==
  ASSUME TypeOK, NEW t \in Threads,
         (\E e \in Envelopes : Accept(t, e)) \/ Handle(t) \/ StoreRaises(t)
  PROVE  OthersKept(t)
<1> USE DEF TypeOK, OthersKept, Goto, End, Unwind, Return, AnswerLost
<1>1. CASE (\E e \in Envelopes : Accept(t, e)) \/ StoreRaises(t) \/ Propose(t) \/ Register(t)
  BY <1>1 DEF Accept, StoreRaises, Propose, Register
<1>2. CASE RecordProposal(t) \/ PopPending(t) \/ NextPending(t) \/ Check(t)
  BY <1>2 DEF RecordProposal, PopPending, NextPending, Check
<1>3. CASE Find(t) \/ Queue(t) \/ Cast(t) \/ Tally(t) \/ LookUp(t)
  BY <1>3 DEF Find, Queue, Cast, Tally, LookUp
<1>4. CASE RecordVote(t) \/ HasApproval(t) \/ Require(t)
  BY <1>4 DEF RecordVote, HasApproval, Require
<1>5. CASE ScanYes(t) \/ ScanNo(t) \/ WriteApproval(t)
  BY <1>5 DEF ScanYes, ScanNo, WriteApproval
<1> QED BY <1>1, <1>2, <1>3, <1>4, <1>5 DEF Handle

LEMMA RowOthers ==
  ASSUME TypeOK, Control, RowsKept, NEW t \in Threads, OthersKept(t),
         NEW u \in Threads, u # t, RowOK(u)
  PROVE  RowOK(u)'
<1>1. pc[u] # "idle" => RowOK(u)'
  BY RowFrame DEF OthersKept
<1>2. pc[u] = "idle" => RowOK(u)'
  BY RowIdle DEF OthersKept, Control, ThreadOK, ReplayOK
<1> QED BY <1>1, <1>2

LEMMA RowNext ==
  ASSUME TypeOK, Control, \A t \in Threads : RowOK(t), [Next]_vars
  PROVE  \A t \in Threads : RowOK(t)'
<1> USE DEF memory, ledger, locals
<1>0. RowsKept
  BY RowsStay
<1>1. ASSUME NEW t \in Threads, NEW e \in Envelopes, Accept(t, e) PROVE RowOK(t)'
  BY <1>1 DEF Accept, HandOver, Control, ThreadOK, ReplayOK, TypeOK, RowOK, RowSteps
<1>2. ASSUME NEW t \in Threads, Propose(t) \/ Register(t) \/ Check(t) PROVE RowOK(t)'
  <2>1. CASE End(t)
    BY <2>1, RowIdle DEF End, Unwind, TypeOK
  <2>2. CASE ~End(t)
    BY <1>0, <1>2, <2>2, RowFrame DEF Propose, Register, Check, Goto, TypeOK, RowSteps
  <2> QED BY <2>1, <2>2
<1>3. ASSUME NEW t \in Threads, RecordProposal(t) PROVE RowOK(t)'
  <2>1. CASE AnswerLost(t)
    BY <2>1, RowIdle DEF AnswerLost, End, Unwind, TypeOK
  <2>2. CASE Goto(t, "pop")
    <3>1. env[t].hash \in Hashes /\ env[t].sender # None
      BY <1>3, EnvelopeTypes, NoneAssumption DEF RecordProposal, Control, ThreadOK, EnvOK
    <3>2. Referenced(env[t].hash)'
      BY <1>3, <2>2, <3>1 DEF RecordProposal, InsertProposal, Referenced, Goto, TypeOK
    <3> QED BY <1>0, <1>3, <2>2, <3>2, RowFrame DEF RecordProposal, Goto, TypeOK
  <2> QED BY <1>3, <2>1, <2>2 DEF RecordProposal
<1>4. ASSUME NEW t \in Threads, PopPending(t) PROVE RowOK(t)'
  BY <1>0, <1>4, RowFrame DEF PopPending, TypeOK, RowSteps
<1>5. ASSUME NEW t \in Threads, NextPending(t) PROVE RowOK(t)'
  <2>1. env[t].hash \in Hashes /\ Referenced(env[t].hash) /\ env' = env
    BY <1>5, EnvelopeTypes DEF NextPending, Control, ThreadOK, EnvOK, RowOK, RowSteps
  <2> QED BY <1>0, <2>1 DEF RowOK, RowsKept
<1>6. ASSUME NEW t \in Threads, Find(t) \/ Cast(t) \/ Tally(t) PROVE RowOK(t)'
  BY <1>0, <1>6, RowFrame DEF Find, Cast, Tally, Goto, TypeOK, RowSteps
<1>7. ASSUME NEW t \in Threads, Queue(t) PROVE RowOK(t)'
  BY <1>0, <1>7, RowReturn DEF Queue
<1>8. ASSUME NEW t \in Threads, RecordVote(t) PROVE RowOK(t)'
  <2>1. CASE End(t)
    BY <2>1, RowIdle DEF End, Unwind, TypeOK
  <2>2. CASE Return(t)
    BY <1>0, <1>8, <2>2, RowReturn DEF RecordVote
  <2>3. CASE Referenced(Vote(t).hash) /\ Goto(t, "has_approval")
    <3>1. Referenced(env[t].hash)'
      BY <1>0, <1>8, <2>3, VoteHash, EnvelopeTypes
         DEF RecordVote, RowsKept, Goto, Referenced, Control, ThreadOK, EnvOK
    <3> QED BY <1>0, <1>8, <2>3, <3>1, RowFrame DEF RecordVote, Goto, TypeOK
  <2> QED BY <1>8, <2>1, <2>2, <2>3 DEF RecordVote, AnswerLost
<1>9. ASSUME NEW t \in Threads, HasApproval(t) PROVE RowOK(t)'
  <2>1. CASE Return(t)
    BY <1>0, <1>9, <2>1, RowReturn DEF HasApproval
  <2>2. CASE Goto(t, "look_require")
    BY <1>0, <1>9, <2>2, RowFrame DEF HasApproval, Goto, TypeOK, RowSteps
  <2> QED BY <1>9, <2>1, <2>2 DEF HasApproval
<1>10. ASSUME NEW t \in Threads, Require(t) PROVE RowOK(t)'
  <2>1. CASE End(t)
    BY <2>1, RowIdle DEF End, Unwind, TypeOK
  <2>2. CASE Goto(t, "look_fetch")
    BY <1>0, <1>10, <2>2, RowFrame DEF Require, Goto, TypeOK, RowSteps
  <2> QED BY <1>10, <2>1, <2>2 DEF Require
<1>11. ASSUME NEW t \in Threads, ScanYes(t) \/ ScanNo(t) PROVE RowOK(t)'
  BY <1>0, <1>11, RowFrame DEF ScanYes, ScanNo, TypeOK, RowSteps
<1>12. ASSUME NEW t \in Threads, WriteApproval(t) PROVE RowOK(t)'
  BY <1>0, <1>12, RowReturn, RowIdle DEF WriteApproval, AnswerLost, End, Unwind, TypeOK
<1>18. ASSUME NEW t \in Threads, LookUp(t) PROVE RowOK(t)'
  BY <1>0, <1>18, RowFrame, LookUpFrame DEF LookUp, RowSteps
<1>13. ASSUME NEW t \in Threads, StoreRaises(t) PROVE RowOK(t)'
  BY <1>13, RowIdle DEF StoreRaises, End, Unwind, TypeOK
<1>14. ASSUME NEW t \in Threads, (\E e \in Envelopes : Accept(t, e)) \/ Handle(t) \/ StoreRaises(t),
              NEW u \in Threads
       PROVE  RowOK(u)'
  <2>1. RowOK(t)'
    BY <1>1, <1>2, <1>3, <1>4, <1>5, <1>6, <1>7, <1>8, <1>9, <1>10, <1>11, <1>12, <1>13, <1>14,
       <1>18 DEF Handle
  <2> QED BY <1>0, <1>14, <2>1, HandlerAlone, RowOthers
<1>15. ASSUME NEW t \in Threads, NEW u \in Threads, ScanBroken(t, u), NEW v \in Threads
       PROVE  RowOK(v)'
  <2>1. CASE v = t
    BY <1>15, <2>1, RowIdle DEF ScanBroken, Unwind, TypeOK
  <2>2. CASE v = u /\ v # t
    BY <1>0, <1>15, <2>2, RowFrame DEF ScanBroken, Unwind, TypeOK, RowSteps
  <2>3. CASE v # u /\ v # t
    <3>1. pc'[v] = pc[v] /\ env'[v] = env[v] /\ cur'[v] = cur[v]
      BY <1>15, <2>3 DEF ScanBroken, Unwind, TypeOK
    <3> QED BY <1>0, <3>1, RowFrame, RowIdle DEF Control, ThreadOK, ReplayOK
  <2> QED BY <2>1, <2>2, <2>3
<1>16. ASSUME Restart, NEW u \in Threads PROVE RowOK(u)'
  BY <1>16, RowIdle DEF Restart, EachThread
<1>17. ASSUME UNCHANGED <<memory, ledger, locals>>, NEW u \in Threads PROVE RowOK(u)'
  BY <1>17 DEF RowOK, Referenced
<1> QED BY <1>14, <1>15, <1>16, <1>17 DEF Next, Reject, vars

-------------------------------------------------------------------------------
(* Who looks after a ballot that is at quorum.                             *)

Due(h) == ballot_box[h] # None /\ Reached(ballot_box[h]) /\ db_approvals[h] = None

(* Thread t will come to count the ballot of h, or is emitting for it: it  *)
(* is on its way to look the ballot up, it holds the registered ballot and *)
(* not one that has been replaced, or it counted and saw the quorum.       *)
CountSteps == {"check", "tally", "require"}

Attending(t, h) ==
  /\ env[t].hash = h
  /\ \/ pc[t] \in (RowSteps \ CountSteps) \cup {"record_proposal", "look_tally"}
     \/ pc[t] \in CountSteps /\ proposal[t] = ballot_box[h]
     \/ pc[t] = "record_vote" /\ reached[t]
     \/ cur[t] # None /\ pc[t] \notin {"check", "require"}

(* A ballot whose row is missing is one whose row is just being written.   *)
Recording(h) ==
  ballot_box[h] # None /\ ~Referenced(h) =>
    \E t \in Threads : pc[t] = "record_proposal" /\ env[t].hash = h

Noticed ==
  /\ \A t \in Threads : RowOK(t) /\ (pc[t] = "propose" => cur[t] = None)
  /\ \A h \in Hashes : Recording(h) /\ (Due(h) => \E t \in Threads : Attending(t, h))

(* The care of hash h survives a step of t that leaves the ballot of h     *)
(* alone, and that t does not use to let go of h.                          *)
LEMMA CareKept ==
  ASSUME Noticed, NEW t \in Threads, OthersKept(t), NEW h \in Hashes, Due(h),
         ballot_box'[h] = ballot_box[h], Attending(t, h) => Attending(t, h)'
  PROVE  \E u \in Threads : Attending(u, h)'
<1>1. PICK u \in Threads : Attending(u, h)
  BY DEF Noticed
<1>2. CASE u = t
  BY <1>1, <1>2
<1>3. CASE u # t
  BY <1>1, <1>3 DEF OthersKept, Attending
<1> QED BY <1>2, <1>3

(* The ballots of other mutations do not notice a vote.                    *)
LEMMA VoteElsewhere ==
  ASSUME TypeOK, Control, NEW t \in Threads, pc[t] = "cast", SetVote(t),
         UNCHANGED <<ballot_box, db_approvals>>,
         NEW h \in Hashes, h # Vote(t).hash
  PROVE  Due(h)' => Due(h)
<1>1. proposal[t].hash = Vote(t).hash
  BY DEF Control, ThreadOK, EmitOK, HeldSteps
<1>2. ASSUME ballot_box[h] # None PROVE votes'[ballot_box[h]] = votes[ballot_box[h]]
  <2>1. ballot_box[h] \in Proposals
    BY <1>2 DEF TypeOK
  <2>2. ballot_box[h].hash = h
    BY <1>2 DEF Control, KeysOK
  <2>3. ballot_box[h] # proposal[t]
    BY <1>1, <2>2
  <2> QED BY <2>1, <2>3 DEF SetVote, TypeOK
<1> QED BY <1>2 DEF Due, Reached, YesVoters

LEMMA BallotOfVote ==
  ASSUME TypeOK, Control, NEW t \in Threads, pc[t] # "idle"
  PROVE  env[t].hash \in Hashes /\ Vote(t).hash = env[t].hash
BY VoteHash, EnvelopeTypes DEF Control, ThreadOK, EnvOK

LEMMA RecordingNext ==
  ASSUME TypeOK, Control, Noticed, Faulty = {}, [Next]_vars, NEW h \in Hashes
  PROVE  Recording(h)'
<1> USE DEF memory, ledger, locals
<1>0. RowsKept
  BY RowsStay
<1> SUFFICES ASSUME ballot_box'[h] # None, ~Referenced(h)'
             PROVE  \E u \in Threads : pc'[u] = "record_proposal" /\ env'[u].hash = h
  BY DEF Recording
<1>1. ASSUME ballot_box[h] # None,
             \A u \in Threads : pc[u] = "record_proposal" /\ env[u].hash = h
                                  => pc'[u] = pc[u] /\ env'[u] = env[u]
      PROVE  \E u \in Threads : pc'[u] = "record_proposal" /\ env'[u].hash = h
  BY <1>0, <1>1 DEF Noticed, Recording, RowsKept
<1>2. ASSUME NEW t \in Threads, Register(t)
      PROVE  \E u \in Threads : pc'[u] = "record_proposal" /\ env'[u].hash = h
  <2>1. CASE h = env[t].hash
    BY <1>2, <2>1 DEF Register, Goto, TypeOK
  <2>2. CASE h # env[t].hash
    BY <1>1, <1>2, <2>2, HandlerAlone DEF Register, TypeOK, OthersKept, Handle
  <2> QED BY <2>1, <2>2
<1>3. ASSUME NEW t \in Threads, RecordProposal(t)
      PROVE  \E u \in Threads : pc'[u] = "record_proposal" /\ env'[u].hash = h
  <2>1. env[t].hash \in Hashes /\ env[t].sender # None
    BY <1>3, EnvelopeTypes, NoneAssumption DEF RecordProposal, Control, ThreadOK, EnvOK
  <2>2. h # env[t].hash
    BY <1>3, <2>1 DEF RecordProposal, InsertProposal, Referenced, TypeOK
  <2> QED BY <1>1, <1>3, <2>2, HandlerAlone DEF RecordProposal, Handle, OthersKept
<1>4. ASSUME NEW t \in Threads, (\E e \in Envelopes : Accept(t, e)) \/ Handle(t),
             ~Register(t), ~RecordProposal(t)
      PROVE  \E u \in Threads : pc'[u] = "record_proposal" /\ env'[u].hash = h
  <2>1. ballot_box' = ballot_box /\ pc[t] # "record_proposal"
    BY <1>4, LookUpSteps DEF Handle, Accept, HandOver, Propose, PopPending, NextPending, LookUp,
       Check, Find, Queue, Cast, Tally, RecordVote, HasApproval, Require, ScanYes, ScanNo, WriteApproval
  <2> QED BY <1>1, <1>4, <2>1, HandlerAlone DEF OthersKept
<1>5. ASSUME NEW t \in Threads, NEW u \in Threads, ScanBroken(t, u)
      PROVE  \E v \in Threads : pc'[v] = "record_proposal" /\ env'[v].hash = h
  <2>1. pc[t] # "record_proposal"
    <3>1. proposal[u] # None
      BY <1>5, EnvelopeTypes DEF ScanBroken, Control, ThreadOK, EmitOK, HeldSteps, Proposals
    <3> QED BY <1>5, <3>1 DEF ScanBroken, Scanning
  <2> QED BY <1>1, <1>5, <2>1 DEF ScanBroken, Unwind, TypeOK
<1>6. ASSUME Restart PROVE FALSE
  BY <1>6 DEF Restart, EachHash
<1>7. ASSUME NEW t \in Threads, StoreRaises(t) PROVE FALSE
  BY <1>7 DEF StoreRaises
<1>8. ASSUME UNCHANGED <<memory, ledger, locals>>
      PROVE  \E u \in Threads : pc'[u] = "record_proposal" /\ env'[u].hash = h
  BY <1>1, <1>8
<1> QED BY <1>2, <1>3, <1>4, <1>5, <1>6, <1>7, <1>8 DEF Next, Reject, vars

(* A step of t that leaves ballots, votes and approvals alone.             *)
LEMMA QuietCare ==
  ASSUME Noticed, NEW t \in Threads, OthersKept(t),
         UNCHANGED <<ballot_box, votes, db_approvals>>,
         \A h \in Hashes : Due(h) /\ Attending(t, h) => Attending(t, h)'
  PROVE  \A h \in Hashes : Due(h)' => \E u \in Threads : Attending(u, h)'
<1> SUFFICES ASSUME NEW h \in Hashes, Due(h)' PROVE \E u \in Threads : Attending(u, h)'
  OBVIOUS
<1>1. Due(h)
  BY DEF Due, Reached, YesVoters
<1> QED BY <1>1, CareKept

LEMMA AttendReturn ==
  ASSUME TypeOK, NEW t \in Threads, NEW h, Attending(t, h), Return(t), cur[t] # None
  PROVE  Attending(t, h)'
BY DEF Attending, Return, TypeOK, RowSteps, CountSteps

LEMMA AttendGoto ==
  ASSUME TypeOK, NEW t \in Threads, NEW h, Attending(t, h), NEW l, Goto(t, l),
         l \in (RowSteps \ CountSteps) \cup {"record_proposal", "look_tally"}
  PROVE  Attending(t, h)'
BY DEF Attending, Goto, TypeOK

LEMMA CareNext ==
  ASSUME TypeOK, Control, Noticed, Faulty = {}, [Next]_vars
  PROVE  \A h \in Hashes : Due(h)' => \E u \in Threads : Attending(u, h)'
<1> USE DEF memory, ledger, locals
<1> DEFINE Cared == \A h \in Hashes : Due(h)' => \E u \in Threads : Attending(u, h)'
<1> SUFFICES Cared
  OBVIOUS
<1>0. ASSUME NEW t \in Threads, (\E e \in Envelopes : Accept(t, e)) \/ Handle(t)
      PROVE  OthersKept(t)
  BY <1>0, HandlerAlone
<1>1. ASSUME NEW t \in Threads, NEW e \in Envelopes, Accept(t, e) PROVE Cared
  <2>1. cur[t] = None /\ pc[t] = "idle"
    BY <1>1 DEF Accept, HandOver, Control, ThreadOK, ReplayOK
  <2>2. \A h \in Hashes : ~Attending(t, h)
    BY <2>1 DEF Attending, RowSteps, CountSteps
  <2> QED BY <1>0, <1>1, <2>2, QuietCare DEF Accept
<1>2. ASSUME NEW t \in Threads, Propose(t) PROVE Cared
  <2>1. \A h \in Hashes : ~Attending(t, h)
    BY <1>2 DEF Propose, Noticed, Attending, RowSteps, CountSteps
  <2> QED BY <1>0, <1>2, <2>1, QuietCare DEF Propose, Handle
<1>3. ASSUME NEW t \in Threads, Register(t) PROVE Cared
  <2> SUFFICES ASSUME NEW h \in Hashes, Due(h)' PROVE \E u \in Threads : Attending(u, h)'
    OBVIOUS
  <2>1. CASE h = env[t].hash
    BY <1>3, <2>1 DEF Register, Goto, Attending, CountSteps, TypeOK
  <2>2. CASE h # env[t].hash
    <3>1. env[t] \in Proposals /\ ballot_box'[h] = ballot_box[h]
      BY <1>3, <2>2 DEF Register, Control, ThreadOK, EnvOK, ProposalSteps, TypeOK
    <3>2. ballot_box[h] # None => votes'[ballot_box[h]] = votes[ballot_box[h]]
      BY <1>3, <2>2, <3>1 DEF Register, Control, KeysOK, TypeOK
    <3>3. Due(h)
      BY <1>3, <3>1, <3>2 DEF Register, Due, Reached, YesVoters
    <3> QED BY <1>0, <1>3, <2>2, <3>1, <3>3, CareKept DEF Handle, Attending
  <2> QED BY <2>1, <2>2
<1>4. ASSUME NEW t \in Threads, RecordProposal(t) PROVE Cared
  <2>1. \A h \in Hashes : Attending(t, h) => Attending(t, h)'
    BY <1>4, AttendGoto DEF RecordProposal, AnswerLost, RowSteps, CountSteps
  <2> QED BY <1>0, <1>4, <2>1, QuietCare DEF RecordProposal, Handle
<1>5. ASSUME NEW t \in Threads, PopPending(t) PROVE Cared
  <2>1. \A h \in Hashes : Attending(t, h) => Attending(t, h)'
    BY <1>5 DEF PopPending, Attending, RowSteps, CountSteps, TypeOK
  <2> QED BY <1>0, <1>5, <2>1, QuietCare DEF PopPending, Handle
<1>6. ASSUME NEW t \in Threads, NextPending(t) PROVE Cared
  <2>1. ASSUME replay[t] = <<>> PROVE pc'[t] = "look_check" /\ env'[t] = env[t]
    BY <1>6, <2>1 DEF NextPending, TypeOK
  <2>2. ASSUME replay[t] # <<>> PROVE cur'[t] # None /\ pc'[t] = "find" /\ env'[t] = env[t]
    <3>1. Head(replay[t]) \in Envelopes
      BY <2>2 DEF TypeOK
    <3> QED BY <1>6, <2>2, <3>1, EnvelopeTypes DEF NextPending, TypeOK
  <2>3. \A h \in Hashes : Attending(t, h) => Attending(t, h)'
    <3>1. CASE replay[t] = <<>>
      BY <2>1, <3>1 DEF Attending, RowSteps, CountSteps
    <3>2. CASE replay[t] # <<>>
      BY <2>2, <3>2 DEF Attending, RowSteps, CountSteps
    <3> QED BY <3>1, <3>2
  <2> QED BY <1>0, <1>6, <2>3, QuietCare DEF NextPending, Handle
<1>7. ASSUME NEW t \in Threads, Check(t) PROVE Cared
  <2>1. ASSUME NEW h \in Hashes, Due(h), Attending(t, h) PROVE Attending(t, h)'
    <3>1. Goto(t, "has_approval")
      BY <1>7, <2>1 DEF Check, Due, Attending, RowSteps, CountSteps
    <3> QED BY <2>1, <3>1, AttendGoto DEF RowSteps, CountSteps
  <2> QED BY <1>0, <1>7, <2>1, QuietCare DEF Check, Handle
<1>8. ASSUME NEW t \in Threads, Find(t) PROVE Cared
  <2>1. ASSUME NEW h \in Hashes, Attending(t, h) PROVE Attending(t, h)'
    BY <1>8, <2>1 DEF Find, Goto, Attending, RowSteps, CountSteps
  <2> QED BY <1>0, <1>8, <2>1, QuietCare DEF Find, Handle
<1>9. ASSUME NEW t \in Threads, Queue(t) PROVE Cared
  <2>1. ASSUME NEW h \in Hashes, Attending(t, h) PROVE Attending(t, h)'
    <3>1. cur[t] # None
      BY <1>9, <2>1 DEF Queue, Attending, RowSteps, CountSteps
    <3> QED BY <1>9, <2>1, <3>1, AttendReturn DEF Queue
  <2> QED BY <1>0, <1>9, <2>1, QuietCare DEF Queue, Handle
<1>10. ASSUME NEW t \in Threads, Cast(t) PROVE Cared
  <2> SUFFICES ASSUME NEW h \in Hashes, Due(h)' PROVE \E u \in Threads : Attending(u, h)'
    OBVIOUS
  <2>1. env[t].hash = Vote(t).hash
    BY VoteHash
  <2>2. CASE h = Vote(t).hash
    BY <1>10, <2>1, <2>2 DEF Cast, Goto, Attending, RowSteps, CountSteps, TypeOK
  <2>3. CASE h # Vote(t).hash
    <3>1. Due(h)
      BY <1>10, <2>3, VoteElsewhere DEF Cast
    <3> QED BY <1>0, <1>10, <2>1, <2>3, <3>1, CareKept DEF Cast, Handle, Attending
  <2> QED BY <2>2, <2>3
<1>11. ASSUME NEW t \in Threads, Tally(t) PROVE Cared
  <2>1. ASSUME NEW h \in Hashes, Due(h), Attending(t, h) PROVE Attending(t, h)'
    <3>1. pc'[t] = "record_vote" /\ env' = env /\ cur' = cur
      BY <1>11 DEF Tally, TypeOK
    <3>2. cur[t] # None \/ reached'[t]
      BY <1>11, <2>1 DEF Tally, Due, Attending, RowSteps, CountSteps, TypeOK
    <3> QED BY <2>1, <3>1, <3>2 DEF Attending
  <2> QED BY <1>0, <1>11, <2>1, QuietCare DEF Tally, Handle
<1>12. ASSUME NEW t \in Threads, RecordVote(t) PROVE Cared
  <2>1. CASE ~Referenced(Vote(t).hash)
    <3>1. PICK k \in Hashes : k = Vote(t).hash /\ k = env[t].hash
      BY <1>12, BallotOfVote DEF RecordVote
    <3>2. ballot_box[k] # None
      BY <1>12, <3>1 DEF RecordVote, Control, ThreadOK, BallotOK, BallotSteps
    <3>3. PICK u \in Threads : pc[u] = "record_proposal" /\ env[u].hash = k
      BY <2>1, <3>1, <3>2 DEF Noticed, Recording
    <3>4. u # t
      BY <1>12, <3>3 DEF RecordVote
    <3>5. Attending(u, k)'
      BY <1>0, <1>12, <3>3, <3>4 DEF Handle, OthersKept, Attending
    <3> SUFFICES ASSUME NEW h \in Hashes, Due(h)' PROVE \E v \in Threads : Attending(v, h)'
      OBVIOUS
    <3>6. CASE h = k
      BY <3>5, <3>6
    <3>7. CASE h # k
      <4>1. Due(h)
        BY <1>12 DEF RecordVote, Due, Reached, YesVoters
      <4>2. OthersKept(t) /\ UNCHANGED ballot_box
        BY <1>0, <1>12 DEF RecordVote, Handle
      <4>3. ~Attending(t, h)
        BY <3>1, <3>7 DEF Attending
      <4> QED BY <4>1, <4>2, <4>3, CareKept
    <3> QED BY <3>6, <3>7
  <2>2. CASE Referenced(Vote(t).hash)
    <3>1. ASSUME NEW h \in Hashes, Attending(t, h) PROVE Attending(t, h)'
      <4>1. CASE reached[t] /\ Goto(t, "has_approval")
        BY <3>1, <4>1, AttendGoto DEF RowSteps, CountSteps
      <4>2. CASE ~reached[t] /\ Return(t)
        <5>1. cur[t] # None
          BY <1>12, <3>1, <4>2 DEF RecordVote, Attending, RowSteps, CountSteps
        <5> QED BY <3>1, <4>2, <5>1, AttendReturn
      <4> QED BY <1>12, <2>2, <4>1, <4>2 DEF RecordVote, AnswerLost
    <3> QED BY <1>0, <1>12, <3>1, QuietCare DEF RecordVote, Handle
  <2> QED BY <2>1, <2>2
<1>13. ASSUME NEW t \in Threads, HasApproval(t) PROVE Cared
  <2>1. ASSUME NEW h \in Hashes, Due(h), Attending(t, h) PROVE Attending(t, h)'
    <3>1. Goto(t, "look_require")
      BY <1>13, <2>1, VoteHash DEF HasApproval, Due, Attending
    <3> QED BY <2>1, <3>1, AttendGoto DEF RowSteps, CountSteps
  <2> QED BY <1>0, <1>13, <2>1, QuietCare DEF HasApproval, Handle
<1>14. ASSUME NEW t \in Threads, Require(t) PROVE Cared
  <2>1. ASSUME NEW h \in Hashes, Due(h), Attending(t, h) PROVE Attending(t, h)'
    <3>1. Goto(t, "look_fetch")
      BY <1>14, <2>1 DEF Require, Due, Attending, RowSteps, CountSteps
    <3> QED BY <2>1, <3>1, AttendGoto DEF RowSteps, CountSteps
  <2> QED BY <1>0, <1>14, <2>1, QuietCare DEF Require, Handle
<1>15. ASSUME NEW t \in Threads, ScanYes(t) \/ ScanNo(t) PROVE Cared
  <2>1. \A h \in Hashes : Attending(t, h) => Attending(t, h)'
    BY <1>15 DEF ScanYes, ScanNo, Attending, RowSteps, CountSteps, TypeOK
  <2> QED BY <1>0, <1>15, <2>1, QuietCare DEF ScanYes, ScanNo, Handle
<1>16. ASSUME NEW t \in Threads, WriteApproval(t) PROVE Cared
  <2> SUFFICES ASSUME NEW h \in Hashes, Due(h)' PROVE \E u \in Threads : Attending(u, h)'
    OBVIOUS
  <2>1. env[t].hash \in Hashes /\ Vote(t).hash = env[t].hash /\ Referenced(Vote(t).hash)
    BY <1>16, BallotOfVote DEF WriteApproval, Noticed, RowOK, RowSteps, CountSteps
  <2>2. event[t] # None
    BY <1>16, NoneAssumption DEF WriteApproval, Control, ThreadOK, EmitOK
  <2>3. h # env[t].hash /\ db_approvals[h] = None
    BY <1>16, <2>1, <2>2 DEF WriteApproval, InsertApproval, Due, TypeOK
  <2>4. Due(h)
    BY <1>16, <2>3 DEF WriteApproval, Due, Reached, YesVoters
  <2> QED BY <1>0, <1>16, <2>3, <2>4, CareKept DEF WriteApproval, Handle, Attending
<1>17. ASSUME NEW t \in Threads, NEW u \in Threads, ScanBroken(t, u) PROVE Cared
  <2> SUFFICES ASSUME NEW h \in Hashes, Due(h)' PROVE \E v \in Threads : Attending(v, h)'
    OBVIOUS
  <2>1. env[u].hash = Vote(u).hash /\ env[t].hash = Vote(t).hash
    BY VoteHash
  <2>2. CASE h = Vote(u).hash
    BY <1>17, <2>1, <2>2 DEF ScanBroken, Unwind, Attending, RowSteps, CountSteps, TypeOK
  <2>3. CASE h # Vote(u).hash
    <3>1. Due(h)
      BY <1>17, <2>3, VoteElsewhere DEF ScanBroken
    <3>2. PICK v \in Threads : Attending(v, h)
      BY <3>1 DEF Noticed
    <3>3. Vote(t).hash = Vote(u).hash
      <4>1. proposal[u] # None /\ proposal[u].hash = Vote(u).hash
        BY <1>17, EnvelopeTypes DEF ScanBroken, Control, ThreadOK, EmitOK, HeldSteps, Proposals
      <4>2. pc[t] \in HeldSteps /\ proposal[t] = proposal[u]
        BY <1>17, <4>1 DEF ScanBroken, Scanning, HeldSteps
      <4> QED BY <4>1, <4>2 DEF Control, ThreadOK, EmitOK
    <3>4. v # t /\ v # u
      BY <2>1, <2>3, <3>2, <3>3 DEF Attending
    <3>5. /\ pc'[v] = pc[v] /\ env'[v] = env[v] /\ cur'[v] = cur[v]
          /\ reached'[v] = reached[v] /\ proposal'[v] = proposal[v] /\ ballot_box' = ballot_box
      BY <1>17, <3>4 DEF ScanBroken, Unwind, TypeOK
    <3> QED BY <3>2, <3>5 DEF Attending
  <2> QED BY <2>2, <2>3
<1>18. ASSUME Restart PROVE Cared
  BY <1>18 DEF Restart, EachHash, Due
<1>21. ASSUME NEW t \in Threads, LookUp(t) PROVE Cared
  <2>1. ASSUME NEW h \in Hashes, Attending(t, h) PROVE Attending(t, h)'
    BY <1>21, <2>1, LookUpFrame, VoteHash DEF LookUp, Attending, RowSteps, CountSteps
  <2> QED BY <1>0, <1>21, <2>1, QuietCare DEF LookUp, Handle
<1>19. ASSUME NEW t \in Threads, StoreRaises(t) PROVE FALSE
  BY <1>19 DEF StoreRaises
<1>20. ASSUME UNCHANGED <<memory, ledger, locals>> PROVE Cared
  BY <1>20 DEF Due, Reached, YesVoters, Attending, Noticed
<1> HIDE DEF Cared
<1> QED BY <1>1, <1>2, <1>3, <1>4, <1>5, <1>6, <1>7, <1>8, <1>9, <1>10, <1>11, <1>12, <1>13,
           <1>14, <1>15, <1>16, <1>17, <1>18, <1>19, <1>20, <1>21 DEF Next, Handle, Reject, vars

LEMMA NoticedNext ==
  ASSUME TypeOK, Control, Noticed, Faulty = {}, [Next]_vars
  PROVE  Noticed'
<1>1. \A t \in Threads : RowOK(t)'
  BY RowNext DEF Noticed
<1>2. ASSUME NEW t \in Threads, pc'[t] = "propose" PROVE cur'[t] = None
  <2> USE DEF memory, ledger, locals, TypeOK, Goto, End, Unwind, Return, AnswerLost
  <2>1. ASSUME NEW u \in Threads, NEW e \in Envelopes, Accept(u, e) PROVE cur'[t] = None
    BY <1>2, <2>1 DEF Accept, HandOver, Noticed, Control, ThreadOK, ReplayOK
  <2>2. ASSUME NEW u \in Threads, Handle(u) \/ StoreRaises(u) PROVE cur'[t] = None
    <3>1. u # t
      BY <1>2, <2>2, LookUpFrame DEF Handle, StoreRaises, Propose, Register, RecordProposal,
         PopPending, NextPending, Check, Find, Queue, Cast, Tally, RecordVote, HasApproval, Require, ScanYes,
         ScanNo, WriteApproval
    <3> QED BY <1>2, <2>2, <3>1, HandlerAlone DEF OthersKept, Noticed
  <2>3. ASSUME NEW u \in Threads, NEW v \in Threads, ScanBroken(u, v) PROVE cur'[t] = None
    BY <1>2, <2>3 DEF ScanBroken, Noticed
  <2>4. CASE Restart
    BY <2>4 DEF Restart, EachThread
  <2>5. CASE UNCHANGED <<memory, ledger, locals>>
    BY <1>2, <2>5 DEF Noticed
  <2> QED BY <2>1, <2>2, <2>3, <2>4, <2>5 DEF Next, Reject, vars
<1> QED BY <1>1, <1>2, RecordingNext, CareNext DEF Noticed

(* With a store that answers, a ballot that is at quorum when no handler   *)
(* runs has its approval: of the handlers that race to the tally, replace  *)
(* each other's ballots and break each other's scans, one always notices   *)
(* the quorum, also when the process is restarted at any moment.           *)
THEOREM QuorumAlwaysApproved == ASSUME Faulty = {} PROVE Spec => []QuorumIsApproved
<1>1. Init => TypeOK /\ Control /\ Noticed
  <2>1. Init => Noticed
    BY DEF Init, EachHash, EachThread, Noticed, RowOK, RowSteps, Recording, Due
  <2> QED BY <2>1, TypeInit
<1>2. TypeOK /\ Control /\ Noticed /\ [Next]_vars => (TypeOK /\ Control /\ Noticed)'
  BY TypeNext, ControlNext, NoticedNext
<1>3. TypeOK /\ Control /\ Noticed => QuorumIsApproved
  <2> SUFFICES ASSUME TypeOK, Control, Noticed, Idle, NEW h \in Hashes, Due(h) PROVE FALSE
    BY DEF QuorumIsApproved, Due
  <2>1. PICK t \in Threads : Attending(t, h)
    BY DEF Noticed
  <2> QED BY <2>1 DEF Idle, Attending, RowSteps, CountSteps, Control, ThreadOK, ReplayOK
<1> QED BY <1>1, <1>2, <1>3, PTL DEF Spec
===============================================================================
