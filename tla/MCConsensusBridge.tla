--------------------------- MODULE MCConsensusBridge ---------------------------
(***************************************************************************)
(* Small instances of ConsensusBridge for TLC: four authorized nodes (the  *)
(* threshold is 3, so one node may dissent) and an outsider.               *)
(***************************************************************************)
EXTENDS ConsensusBridge

CONSTANTS n1, n2, n3, n4, outsider, h1, h2

MCAuthorized == {n1, n2, n3, n4}
MCNodes == MCAuthorized \cup {outsider}

Proposing(i, n, h) ==
  [id |-> i, type |-> "CONSENSUS_PROPOSAL", sender |-> n, voter |-> n,
   hash |-> h, vote |-> "yes", canonical |-> TRUE]

Voting(i, n, h, v) ==
  [id |-> i, type |-> "CONSENSUS_VOTE", sender |-> n, voter |-> n,
   hash |-> h, vote |-> v, canonical |-> TRUE]

(* A quorum for h1, one dissenter who changes its mind.                    *)
Core == {Proposing(1, n1, h1), Voting(2, n2, h1, "yes"), Voting(3, n3, h1, "yes"),
         Voting(4, n4, h1, "no"), Voting(5, n4, h1, "yes")}

(* A second proposer of h1, a vote for h2 that stays pending, and every    *)
(* kind of envelope the bridge refuses.                                    *)
Refused == {[Proposing(11, n2, h2) EXCEPT !.canonical = FALSE],
            Proposing(12, outsider, h2), Voting(13, outsider, h1, "yes"),
            [Voting(14, n4, h1, "yes") EXCEPT !.voter = n3]}
SecondProposal == Proposing(6, n2, h1)

(* The runs' envelopes.                                                    *)
SequentialEnvelopes == Core \cup {SecondProposal, Voting(7, n3, h2, "yes")} \cup Refused

(* With failing store calls and restarts: a flip, a dissenter, an outsider *)
(* and two proposers are enough, every one of them can be heard again.     *)
FaultyEnvelopes == {Proposing(1, n1, h1), Proposing(6, n2, h1), Voting(3, n3, h1, "yes"),
                    Voting(4, n4, h1, "no"), Voting(5, n4, h1, "yes"),
                    [Voting(14, n4, h1, "yes") EXCEPT !.voter = n2]}

(* A quorum beside a second proposer and a dissenter who changes its mind. *)
LiveEnvelopes == SequentialEnvelopes \cup {Voting(8, n1, h1, "yes")}

(* Racing handlers, and everybody is in favour: two proposers and votes    *)
(* that complete a quorum.                                                 *)
SteadfastEnvelopes == {Proposing(1, n1, h1), Proposing(6, n2, h1), Voting(3, n3, h1, "yes"),
                       Voting(5, n4, h1, "yes"), Voting(8, n1, h1, "yes")}

(* Racing handlers: one node also dissents and flips.                      *)
RacingEnvelopes == SteadfastEnvelopes \cup {Voting(4, n4, h1, "no")}
===============================================================================
