--------------------------- MODULE ConsensusNetwork ---------------------------
(***************************************************************************)
(* Several nodes of the consensus service: GossipTransport with a bridge   *)
(* behind on_message on every node, and the bridge's command line, which   *)
(* replays a node's ledger file.                                           *)
(*                                                                         *)
(* One mutation, proposed by the message Proposal; every other message is  *)
(* its sender's yes.  A handler is one step here and a ballot is the set   *)
(* of messages it has taken: that is what ConsensusBridge shows of one     *)
(* handler at a time, in any order of arrival and with duplicates.         *)
(***************************************************************************)
EXTENDS GossipTransport, QuorumRule

CONSTANT Proposal

ASSUME ProposalAssumption == Proposal \in Messages

VARIABLES
  ballot,   \* node -> messages the bridge in its serve process has taken
  approved  \* node -> whether its store has the approval

bridges == <<ballot, approved>>
vars == <<gossipVars, bridges>>

(* Nodes whose yes is in the ballot that the messages of S make.           *)
Supporters(S) == IF Proposal \in S THEN {Sender[m] : m \in S} ELSE {}

Approves(S) == IsQuorum(net.nodes, Supporters(S))

NetworkInit ==
  /\ Init
  /\ ballot = ForNodes({})
  /\ approved = ForNodes(FALSE)

-------------------------------------------------------------------------------
(* Mutant of Count: a vote that comes before its proposal is dropped.      *)
CountUnqueued(n, m) ==
  /\ ballot' = [ballot EXCEPT ![n] =
                  IF m = Proposal \/ Proposal \in @ THEN @ \cup {m} ELSE @]
  /\ approved' = [approved EXCEPT ![n] = @ \/ Approves(ballot'[n])]

(* handle_envelope: the message joins the ballot; at quorum the approval   *)
(* is written.                                                             *)
Count(n, m) ==
  /\ ballot' = [ballot EXCEPT ![n] = @ \cup {m}]
  /\ approved' = [approved EXCEPT ![n] = @ \/ Approves(ballot'[n])]

(* handle_envelope raises: the store refused, before or after the vote     *)
(* was counted in memory, or its answer was lost once the approval was     *)
(* committed.                                                              *)
CountRaises(n, m) ==
  \/ Count(n, m)
  \/ /\ ballot' \in {ballot, [ballot EXCEPT ![n] = @ \cup {m}]}
     /\ UNCHANGED approved

(* A new process starts with an empty ballot box over the same store.      *)
Forget(n) ==
  /\ ballot' = [ballot EXCEPT ![n] = {}]
  /\ UNCHANGED approved

(* load_jsonl: one bad line and nothing is replayed.                       *)
Replayed(n) == IF Torn \in Range(ledger[n]) THEN {} ELSE Range(ledger[n])

(* The replay command: a fresh bridge takes every line of the file.        *)
Replay(n) ==
  /\ n \in net.nodes
  /\ approved' = [approved EXCEPT ![n] = @ \/ Approves(Replayed(n))]
  /\ UNCHANGED <<gossipVars, ballot>>

-------------------------------------------------------------------------------

HandOver(n, c) ==
  \/ Dispatch(n, c) /\ Count(n, conn[n][c].msg)
  \/ HandlerRaises(n, c) /\ CountRaises(n, conn[n][c].msg)

Next ==
  \/ Carry /\ UNCHANGED bridges
  \/ \E n \in Nodes, c \in Conns : HandOver(n, c)
  \/ \E n \in Nodes : Crash(n) /\ Forget(n)
  \/ \E n \in Nodes : Replay(n)

Spec == NetworkInit /\ [][Next]_vars

(* A command that has logged its message broadcasts it, and a node takes   *)
(* its connections and runs their threads; nobody has to send anything, to *)
(* restart a node or to replay.                                            *)
Progress ==
  \/ \E m \in Messages : Broadcast(m) /\ UNCHANGED bridges
  \/ \E n \in Nodes, c \in Conns :
       \/ (Accept(n, c) \/ AppendLine(n, c) \/ Mark(n, c) \/ Forward(n, c)) /\ UNCHANGED bridges
       \/ HandOver(n, c)

FairSpec == Spec /\ WF_vars(Progress)

-------------------------------------------------------------------------------
(* Type invariant.                                                         *)
TypeOK ==
  /\ GossipTypeOK
  /\ ballot \in [Nodes -> SUBSET Messages]
  /\ approved \in [Nodes -> BOOLEAN]

-------------------------------------------------------------------------------
(* Safety.                                                                 *)

Sent == {m \in Messages : cli[m] = "done"}
Sound(n) == Torn \notin Range(ledger[n])

Quiet ==
  /\ wire = EmptyBag
  /\ \A m \in Messages : cli[m] # "broadcast"
  /\ \A n \in Nodes, c \in Conns : conn[n][c].pc = "idle"

(* As long as its ledger file is sound, a node hands a message over at     *)
(* most once per connection it handles at a time, so exactly once when     *)
(* they come one by one: the seen set, and after a restart the file, drop  *)
(* every later copy.                                                       *)
OncePerConnection ==
  \A n \in Nodes, m \in Messages : Sound(n) => heard[n][m] <= net.conns

(* What a node handed to its bridges and what its commands broadcast.      *)
Known(n) == {m \in Messages : heard[n][m] > 0 \/ (m \in Sent /\ Sender[m] = n)}

(* A quorum that the bridge of a node was ever handed, in any of its lives *)
(* and together with what the node sent itself, is found again by the      *)
(* replay of its ledger file, unless a line of the file is torn: nothing   *)
(* is handed over, and nothing sent, before it is in the file.             *)
ReplayRebuildsQuorum ==
  \A n \in Nodes : Sound(n) /\ Approves(Known(n)) => Approves(Replayed(n))

(* A torn line costs the ledger file at most one message, the one written  *)
(* on to it: of all that a node handed over or sent there are never more   *)
(* messages missing from its file than the file has torn lines, however    *)
(* writes fail, commands and handlers share the file and processes die.    *)
TornLineCostsOne ==
  \A n \in Nodes :
    Cardinality(Known(n) \ Range(ledger[n]))
      <= Cardinality({i \in DOMAIN ledger[n] : ledger[n][i] = Torn})

(* When the flood is over and nothing failed, the running bridge of a node *)
(* has a quorum exactly when the others are one: it knows everything they  *)
(* sent and never hears of what its own node proposed or voted.            *)
OthersMakeTheQuorum ==
  Quiet /\ faults = 0 =>
    \A n \in net.nodes :
      Approves(ballot[n]) <=> Approves({m \in Sent : Sender[m] # n})

(* A node approves only what more than two thirds of the nodes sent a yes  *)
(* for and one of them proposed, whichever copies were lost or repeated,   *)
(* and whatever was replayed from a torn file.                             *)
ApprovedMeansSupported ==
  LET issued == {m \in Messages : cli[m] # "ready"} IN
  \A n \in Nodes : approved[n] =>
    /\ Proposal \in issued
    /\ 3 * Cardinality({Sender[m] : m \in issued}) > 2 * Cardinality(net.nodes)

(* README.md on the flow: when the yes votes reach the threshold, the      *)
(* bridge writes the approval.  Stated for a flood in which nothing failed *)
(* and everyone said yes, and for the bridge of any node.                  *)
SomeBridgeApproves ==
  Quiet /\ faults = 0 /\ Approves(Sent) => \E n \in Nodes : approved[n]

(* n is in every set that holds the sender of m and is closed under the    *)
(* sends of m that did not fail, through nodes that handled it.            *)
Reached(m, n) ==
  \A S \in SUBSET Nodes :
    /\ Sender[m] \in S
    /\ \A a \in S : \A b \in net.peers[a] :
         <<m, a, b>> \in lost \/ <<m, b, b>> \in lost \/ b \in S
    => n \in S

Arrived ==
  \A m \in Sent, n \in net.nodes : n # Sender[m] /\ Reached(m, n) => heard[n][m] > 0

ShortPaths == Cardinality(net.nodes) <= TTL + 2
NothingForgotten == \A n \in net.nodes : Sound(n)

(* When the flood is over, every node that a path of working sends leads   *)
(* to has handled the message: TTL decay and the seen test stop it no      *)
(* earlier, though a node forwards only the first copy it sees, whatever   *)
(* the TTL of that one.  Two conditions: there are at most TTL + 2 nodes,  *)
(* and no ledger file is torn.  A process that lost an id with a torn line *)
(* forwards a second time, with less TTL, and a node that this copy        *)
(* reaches first does not pass the message on.                             *)
FloodArrives == Quiet /\ ShortPaths /\ NothingForgotten => Arrived

-------------------------------------------------------------------------------
(* Liveness.                                                               *)

(* Once a message is sent, every node that a path of working sends leads   *)
(* to gets it, and the flood ends.                                         *)
FloodReachesAll == ShortPaths => <>[](NothingForgotten => Arrived)
===============================================================================
