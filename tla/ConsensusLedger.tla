---------------------------- MODULE ConsensusLedger ----------------------------
(***************************************************************************)
(* What the consensus service promises, without threads, envelopes or      *)
(* store calls: a ballot per mutation collects votes, and a mutation gets  *)
(* at most one approval, a snapshot of a ballot that is at quorum at that  *)
(* moment.  Ballots may be forgotten (README: in-memory ballot state is    *)
(* ephemeral); approvals may not.                                          *)
(***************************************************************************)
EXTENDS QuorumRule

CONSTANTS Nodes, Authorized, Hashes, None

VARIABLES
  ballots,    \* hash -> None or [proposer, votes]
  approvals   \* hash -> None or [proposer, yes, no]

ledgerVars == <<ballots, approvals>>

Init ==
  /\ ballots = [h \in Hashes |-> None]
  /\ approvals = [h \in Hashes |-> None]

Voters(b, v) == {n \in Nodes : b.votes[n] = v}

Open(h, p) ==
  /\ ballots[h] = None
  /\ ballots' = [ballots EXCEPT ![h] =
       [proposer |-> p, votes |-> [n \in Nodes |-> IF n = p THEN "yes" ELSE "none"]]]
  /\ UNCHANGED approvals

Cast(h, n, v) ==
  /\ ballots[h] # None
  /\ ballots' = [ballots EXCEPT ![h].votes[n] = v]
  /\ UNCHANGED approvals

Approve(h) ==
  /\ ballots[h] # None
  /\ approvals[h] = None
  /\ IsQuorum(Authorized, Voters(ballots[h], "yes"))
  /\ approvals' = [approvals EXCEPT ![h] =
       [proposer |-> ballots[h].proposer,
        yes |-> Voters(ballots[h], "yes"), no |-> Voters(ballots[h], "no")]]
  /\ UNCHANGED ballots

Forget ==
  /\ ballots' = [h \in Hashes |-> None]
  /\ UNCHANGED approvals

Next ==
  \/ \E h \in Hashes, n \in Authorized :
       Open(h, n) \/ (\E v \in {"yes", "no"} : Cast(h, n, v))
  \/ \E h \in Hashes : Approve(h)
  \/ Forget

Spec == Init /\ [][Next]_ledgerVars
===============================================================================
