---------------------------- MODULE GossipTransport ----------------------------
(***************************************************************************)
(* gossip_protocol.py on every node: command-line processes that append a  *)
(* message to their node's ledger file and broadcast it, and serve         *)
(* processes that take copies from connections, drop what they have seen,  *)
(* append, hand over to on_message and flood on with a smaller TTL.        *)
(*                                                                         *)
(* A message is its id.  A signature is what it covers: here the TTL, the  *)
(* only field that changes on the way.  The sends of one loop over peers   *)
(* are one step, in which any of them may fail: a process that dies in the *)
(* loop is one whose remaining sends fail.                                 *)
(***************************************************************************)
EXTENDS Integers, FiniteSets, Sequences, SequencesExt, Bags

CONSTANTS
  Nodes,
  Messages,     \* message ids
  Sender,       \* message -> sender_id
  TTL,          \* the ttl an envelope is built with
  Deployments,  \* configurations the operators may have chosen
  Torn,         \* a ledger line that is no JSON
  None

(* peers is CODEX_GOSSIP_PEERS of each node, messages are those that will  *)
(* be sent, conns bounds the connections a node handles at a time, faults  *)
(* the failures of sends, writes, handlers and processes.  That a node     *)
(* lists other nodes of the service only is up to whoever deploys it: the  *)
(* code checks no entry.                                                   *)
Deployment == [nodes: SUBSET Nodes, peers: [Nodes -> SUBSET Nodes],
               messages: SUBSET Messages, conns: Nat \ {0}, faults: Nat]

ASSUME NodesAssumption == IsFiniteSet(Nodes)
ASSUME SenderAssumption == Sender \in [Messages -> Nodes]
ASSUME TTLAssumption == TTL \in Nat
ASSUME DeploymentsAssumption == Deployments \subseteq Deployment
ASSUME PeersAssumption ==
  \A d \in Deployments, n \in Nodes :
    d.peers[n] \subseteq d.nodes \ {n} /\ (n \notin d.nodes => d.peers[n] = {})
ASSUME TornAssumption == Torn \notin Messages /\ None \notin Messages

VARIABLES
  net,     \* the deployment, chosen once
  cli,     \* message -> step of the propose or vote command that sends it
  wire,    \* bag of copies that are in a connection
  up,      \* node -> whether its serve process runs
  seen,    \* node -> GossipLedger._seen of that process
  ledger,  \* node -> lines of messages.jsonl
  open,    \* node -> whether the last of them lacks its newline
  conn,    \* node -> connection -> handler thread
  heard,   \* node -> message -> calls of on_message (history)
  lost,    \* copies <<m, from, to>> that failed, and <<m, n, n>> when
           \* m died in a handler of n (history)
  faults   \* failures so far

disk == <<ledger, open>>
history == <<heard, lost, faults>>
gossipVars == <<net, cli, wire, up, seen, disk, conn, history>>

Copy == [id: Messages, ttl: Nat, sig: Nat, from: Nodes, to: Nodes]
IdleConn == [pc |-> "idle", msg |-> None, ttl |-> 0]
Conns == 1..net.conns

(* AuthenticatedEnvelope.verify                                            *)
Verify(copy) == copy.sig = copy.ttl /\ copy.ttl >= 0

(* Mutant of Forwarded: the envelope is not signed again.                  *)
ForwardedUnsigned(m, ttl, n, p) ==
  [id |-> m, ttl |-> ttl - 1, sig |-> ttl, from |-> n, to |-> p]

(* The envelope forward passes on, TTL decremented and signed again.       *)
Forwarded(m, ttl, n, p) ==
  [id |-> m, ttl |-> ttl - 1, sig |-> ttl - 1, from |-> n, to |-> p]

(* build_proposal and build_vote                                           *)
Built(m, p) == [id |-> m, ttl |-> TTL, sig |-> TTL, from |-> Sender[m], to |-> p]

-------------------------------------------------------------------------------

ForNodes(x) == [n \in Nodes |-> x]

Init ==
  /\ net \in Deployments
  /\ cli = [m \in Messages |-> "ready"]
  /\ wire = EmptyBag
  /\ up = ForNodes(TRUE)
  /\ seen = ForNodes({})
  /\ ledger = ForNodes(<<>>)
  /\ open = ForNodes(FALSE)
  /\ conn = ForNodes([c \in Conns |-> IdleConn])
  /\ heard = ForNodes([m \in Messages |-> 0])
  /\ lost = {}
  /\ faults = 0

Fault(k) == faults' = faults + k /\ faults' <= net.faults

Step(n, c, label) == conn' = [conn EXCEPT ![n][c].pc = label]
Close(n, c) == conn' = [conn EXCEPT ![n][c] = IdleConn]

-------------------------------------------------------------------------------
(* GossipLedger: the file is shared by the serve process and the commands  *)
(* of a node; one write of a line is not torn by another process.          *)

(* A line written after one without a newline joins it.                    *)
WriteLine(n, m) ==
  /\ ledger' = [ledger EXCEPT ![n] =
                  IF open[n] THEN Append(Front(@), Torn) ELSE Append(@, m)]
  /\ open' = [open EXCEPT ![n] = FALSE]

(* A write that fails half way: nothing, a piece, or all but the newline.  *)
WritePart(n, m) ==
  \/ UNCHANGED disk
  \/ /\ open' = [open EXCEPT ![n] = TRUE]
     /\ \E line \in (IF open[n] THEN {Torn} ELSE {Torn, m}) :
          ledger' = [ledger EXCEPT ![n] =
                       Append(IF open[n] THEN Front(@) ELSE @, line)]

(* Mutant of LoadSeen: the file is not read at start.                      *)
LoadSeenNothing(n) == {}

(* _load_seen skips lines it cannot parse.                                 *)
LoadSeen(n) == Range(ledger[n]) \ {Torn}

(* send to each of targets: a copy goes out or the error is printed.       *)
Send(m, n, targets, copies) ==
  \E failed \in SUBSET targets :
    /\ \A p \in targets \ failed : up[p]
    /\ Fault(Cardinality({p \in failed : up[p]}))
    /\ wire' = wire (+) SetToBag({k \in copies : k.to \notin failed})
    /\ lost' = lost \cup {<<m, n, p>> : p \in failed}

-------------------------------------------------------------------------------
(* The propose and vote commands.                                          *)

(* Mutant of CliAppend: the command does not log what it sends.            *)
CliAppendNothing(m) ==
  /\ cli[m] = "ready" /\ m \in net.messages
  /\ cli' = [cli EXCEPT ![m] = "broadcast"]
  /\ UNCHANGED <<net, wire, up, seen, disk, conn, history>>

(* transport.ledger.append(envelope); its id is new.                       *)
CliAppend(m) ==
  /\ cli[m] = "ready" /\ m \in net.messages
  /\ cli' = [cli EXCEPT ![m] = "broadcast"]
  /\ WriteLine(Sender[m], m)
  /\ UNCHANGED <<net, wire, up, seen, conn, history>>

(* The write raises and the command ends without a broadcast.              *)
CliAppendFails(m) ==
  /\ cli[m] = "ready" /\ m \in net.messages
  /\ cli' = [cli EXCEPT ![m] = "failed"]
  /\ WritePart(Sender[m], m)
  /\ Fault(1)
  /\ UNCHANGED <<net, wire, up, seen, conn, heard, lost>>

Broadcast(m) ==
  /\ cli[m] = "broadcast"
  /\ cli' = [cli EXCEPT ![m] = "done"]
  /\ LET peers == net.peers[Sender[m]] IN
       Send(m, Sender[m], peers, {Built(m, p) : p \in peers})
  /\ UNCHANGED <<net, up, seen, disk, conn, heard>>

-------------------------------------------------------------------------------
(* receive, in thread c of node n.                                         *)

Duplicate(n, m) == m \in seen[n]

(* A connection brings a copy: it is verified and looked up.               *)
Accept(n, c) ==
  /\ up[n] /\ conn[n][c].pc = "idle"
  /\ \E copy \in BagToSet(wire) :
       /\ copy.to = n
       /\ wire' = wire (-) SetToBag({copy})
       /\ conn' = IF Verify(copy) /\ ~Duplicate(n, copy.id)
                  THEN [conn EXCEPT ![n][c] =
                          [pc |-> "append", msg |-> copy.id, ttl |-> copy.ttl]]
                  ELSE conn
  /\ UNCHANGED <<net, cli, up, seen, disk, history>>

(* append looks again, then writes; receive goes on in either case.        *)
AppendLine(n, c) ==
  /\ conn[n][c].pc = "append"
  /\ IF Duplicate(n, conn[n][c].msg)
     THEN Step(n, c, "dispatch") /\ UNCHANGED disk
     ELSE Step(n, c, "mark") /\ WriteLine(n, conn[n][c].msg)
  /\ UNCHANGED <<net, cli, wire, up, seen, history>>

(* Mutant of AppendFails: the error is swallowed, and receive goes on.     *)
AppendFailsQuietly(n, c) ==
  /\ conn[n][c].pc = "append" /\ ~Duplicate(n, conn[n][c].msg)
  /\ Step(n, c, "mark")
  /\ WritePart(n, conn[n][c].msg)
  /\ Fault(1)
  /\ UNCHANGED <<net, cli, wire, up, seen, heard, lost>>

(* The write raises; the exception ends the thread.                        *)
AppendFails(n, c) ==
  /\ conn[n][c].pc = "append" /\ ~Duplicate(n, conn[n][c].msg)
  /\ Close(n, c)
  /\ WritePart(n, conn[n][c].msg)
  /\ Fault(1)
  /\ lost' = lost \cup {<<conn[n][c].msg, n, n>>}
  /\ UNCHANGED <<net, cli, wire, up, seen, heard>>

(* self._seen.add(message_id)                                              *)
Mark(n, c) ==
  /\ conn[n][c].pc = "mark"
  /\ seen' = [seen EXCEPT ![n] = @ \cup {conn[n][c].msg}]
  /\ Step(n, c, "dispatch")
  /\ UNCHANGED <<net, cli, wire, up, disk, history>>

(* Mutant of Dispatch: a copy whose TTL is used up is forwarded as well.   *)
DispatchForwards(n, c) ==
  /\ conn[n][c].pc = "dispatch"
  /\ heard' = [heard EXCEPT ![n][conn[n][c].msg] = @ + 1]
  /\ Step(n, c, "forward")
  /\ UNCHANGED <<net, cli, wire, up, seen, disk, lost, faults>>

(* Mutant of Dispatch: a copy that has one hop left is not forwarded.      *)
DispatchStopsEarly(n, c) ==
  /\ conn[n][c].pc = "dispatch"
  /\ heard' = [heard EXCEPT ![n][conn[n][c].msg] = @ + 1]
  /\ IF conn[n][c].ttl > 1 THEN Step(n, c, "forward") ELSE Close(n, c)
  /\ UNCHANGED <<net, cli, wire, up, seen, disk, lost, faults>>

(* self.on_message(envelope) returns.                                      *)
Dispatch(n, c) ==
  /\ conn[n][c].pc = "dispatch"
  /\ heard' = [heard EXCEPT ![n][conn[n][c].msg] = @ + 1]
  /\ IF conn[n][c].ttl > 0 THEN Step(n, c, "forward") ELSE Close(n, c)
  /\ UNCHANGED <<net, cli, wire, up, seen, disk, lost, faults>>

(* self.on_message(envelope) raises: nothing is forwarded.                 *)
HandlerRaises(n, c) ==
  /\ conn[n][c].pc = "dispatch"
  /\ heard' = [heard EXCEPT ![n][conn[n][c].msg] = @ + 1]
  /\ Close(n, c)
  /\ Fault(1)
  /\ lost' = lost \cup {<<conn[n][c].msg, n, n>>}
  /\ UNCHANGED <<net, cli, wire, up, seen, disk>>

FloodTargets(n, m) == net.peers[n] \ {Sender[m]}

(* The flood: every peer except the original sender.                       *)
Forward(n, c) ==
  /\ conn[n][c].pc = "forward"
  /\ Close(n, c)
  /\ LET m == conn[n][c].msg IN
       Send(m, n, FloodTargets(n, m),
            {Forwarded(m, conn[n][c].ttl, n, p) : p \in FloodTargets(n, m)})
  /\ UNCHANGED <<net, cli, up, seen, disk, heard>>

-------------------------------------------------------------------------------
(* The serve process dies: its connections break, and a line it was        *)
(* writing may be cut.                                                     *)
Crash(n) ==
  /\ up[n] /\ Fault(1)
  /\ up' = [up EXCEPT ![n] = FALSE]
  /\ seen' = [seen EXCEPT ![n] = {}]
  /\ conn' = [conn EXCEPT ![n] = [c \in Conns |-> IdleConn]]
  /\ LET gone == {k \in BagToSet(wire) : k.to = n}
         busy == {c \in Conns : conn[n][c].pc # "idle"} IN
       /\ wire' = [k \in BagToSet(wire) \ gone |-> wire[k]]
       /\ lost' = lost \cup {<<k.id, k.from, n>> : k \in gone}
                       \cup {<<conn[n][c].msg, n, n>> : c \in busy}
       /\ \/ UNCHANGED disk
          \/ \E c \in busy : conn[n][c].pc = "append" /\ WritePart(n, conn[n][c].msg)
  /\ UNCHANGED <<net, cli, heard>>

(* serve starts again and loads the ids of the file.                       *)
Restart(n) ==
  /\ ~up[n]
  /\ up' = [up EXCEPT ![n] = TRUE]
  /\ seen' = [seen EXCEPT ![n] = LoadSeen(n)]
  /\ UNCHANGED <<net, cli, wire, disk, conn, history>>

-------------------------------------------------------------------------------

(* The steps that leave the handler alone.                                 *)
Carry ==
  \/ \E m \in Messages : CliAppend(m) \/ CliAppendFails(m) \/ Broadcast(m)
  \/ \E n \in Nodes, c \in Conns :
       Accept(n, c) \/ AppendLine(n, c) \/ AppendFails(n, c) \/ Mark(n, c) \/ Forward(n, c)
  \/ \E n \in Nodes : Restart(n)

-------------------------------------------------------------------------------

GossipTypeOK ==
  /\ net \in Deployments
  /\ cli \in [Messages -> {"ready", "broadcast", "done", "failed"}]
  /\ BagToSet(wire) \subseteq Copy
  /\ up \in [Nodes -> BOOLEAN]
  /\ seen \in [Nodes -> SUBSET Messages]
  /\ ledger \in [Nodes -> Seq(Messages \cup {Torn})]
  /\ open \in [Nodes -> BOOLEAN]
  /\ conn \in [Nodes -> [Conns -> [pc: {"idle", "append", "mark", "dispatch", "forward"},
                                   msg: Messages \cup {None}, ttl: 0..TTL]]]
  /\ heard \in [Nodes -> [Messages -> Nat]]
  /\ lost \subseteq Messages \X Nodes \X Nodes
  /\ faults \in 0..net.faults
===============================================================================
