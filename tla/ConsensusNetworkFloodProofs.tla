---------------------- MODULE ConsensusNetworkFloodProofs ----------------------
(***************************************************************************)
(* How far a flood gets, for every deployment and any number of messages,  *)
(* connections, races and failures: every node that a path of working      *)
(* sends leads to, if the TTL is large enough for the number of nodes and  *)
(* no ledger file is torn.  What that means for the ballots when nothing   *)
(* fails.  And what a torn line costs a ledger file.                       *)
(***************************************************************************)
EXTENDS ConsensusNetworkProofs

(* A path of peers leads from the sender of m to n, whether or not the     *)
(* sends along it work.                                                    *)
Leads(m, n) ==
  \A S \in SUBSET Nodes :
    Sender[m] \in S /\ (\A a \in S : net.peers[a] \subseteq S) => n \in S

(* m may be on its way to n.                                               *)
Aimed(m, n) == cli[m] = "done" /\ n \in net.nodes /\ n # Sender[m] /\ Leads(m, n)

(* m died in a handler of n.                                               *)
Dead(m, n) == <<m, n, n>> \in lost

(* V are the nodes that a copy of m has come through: the sender, and      *)
(* nodes that handed m over.  No two of them are the same: a node that has *)
(* handed m over takes no copy that comes back.                            *)
Trail(m, ttl, V) ==
  /\ Sender[m] \in V /\ Cardinality(V) = TTL - ttl + 1
  /\ \A v \in V : v = Sender[m] \/ heard[v][m] > 0

Carried ==
  \A k \in BagToSet(wire) :
    k.sig = k.ttl /\ Aimed(k.id, k.to) /\ \E V \in SUBSET net.nodes : Trail(k.id, k.ttl, V)

HeldBy(n, t) ==
  t.pc # "idle" =>
    /\ Aimed(t.msg, n)
    /\ \E V \in SUBSET net.nodes : n \notin V /\ Trail(t.msg, t.ttl, V)
    /\ t.pc = "forward" => heard[n][t.msg] > 0

Held == \A n \in Nodes, c \in Conns : HeldBy(n, conn[n][c])

Taken == \A n \in Nodes, m \in Messages : heard[n][m] > 0 => Aimed(m, n)

At(n, m, steps) == \E c \in Conns : conn[n][c].pc \in steps /\ conn[n][c].msg = m

(* A message that another node sent and that is in the file was handed     *)
(* over, is about to be, or died.                                          *)
Written ==
  \A n \in Nodes, m \in Messages :
    m \in Range(ledger[n]) /\ n # Sender[m] =>
      heard[n][m] > 0 \/ Dead(m, n) \/ At(n, m, {"mark", "dispatch"})

(* What n sent p of m has been handed over, is about to be, or was lost.   *)
Coming(m, n, p) ==
  \/ <<m, n, p>> \in lost \/ Dead(m, p) \/ heard[p][m] > 0
  \/ \E k \in BagToSet(wire) : k.id = m /\ k.from = n /\ k.to = p
  \/ At(p, m, {"append", "mark", "dispatch"})

(* A node that has m has passed it on, or is about to.                     *)
PassedOn(m, n) ==
  At(n, m, {"forward"}) \/ \A p \in net.peers[n] \ {Sender[m]} : Coming(m, n, p)

Has(m, n) == cli[m] = "done" /\ (n = Sender[m] \/ (heard[n][m] > 0 /\ ~Dead(m, n)))

Frontier == \A m \in Messages, n \in Nodes : Has(m, n) => PassedOn(m, n)

(* wire counts copies.                                                     *)
Proper(bag) == \A k \in DOMAIN bag : bag[k] \in Nat \ {0}

Wave == Proper(wire) /\ Carried /\ Held /\ Taken /\ Written /\ (ShortPaths => Frontier)

(* A torn file makes a process forget, and only then can a node that has   *)
(* handed m over take it again.                                            *)
FloodInv == NothingForgotten => Wave

-------------------------------------------------------------------------------
(* What a step does to the pieces the invariant is made of.                *)

(* What has been sent, handed over or lost stays so.                       *)
Lasting ==
  /\ net' = net /\ Conns' = Conns /\ lost \subseteq lost'
  /\ \A m \in Messages : cli[m] = "done" => cli'[m] = "done"
  /\ \A n \in Nodes, m \in Messages : heard[n][m] > 0 => heard'[n][m] > 0

LEMMA SendLoses ==
  ASSUME NEW m, NEW n, NEW targets, NEW copies, Send(m, n, targets, copies)
  PROVE  lost \subseteq lost'
BY DEF Send

LEMMA LastingStep ==
  ASSUME TypeOK, Control, [Next]_vars
  PROVE  Lasting
<1>1. net' = net /\ Conns' = Conns
  BY IssuedGrows DEF Conns
<1>2. lost \subseteq lost'
  <2>1. ASSUME NEW m \in Messages, Broadcast(m) PROVE lost \subseteq lost'
    BY <2>1, SendLoses DEF Broadcast
  <2>2. ASSUME NEW n \in Nodes, NEW c \in Conns, Forward(n, c) PROVE lost \subseteq lost'
    BY <2>2, SendLoses DEF Forward
  <2>3. ASSUME NEW n \in Nodes, Crash(n) PROVE lost \subseteq lost'
    BY <2>3 DEF Crash
  <2>4. ASSUME NEW n \in Nodes, NEW c \in Conns, AppendFails(n, c) \/ HandlerRaises(n, c)
        PROVE  lost \subseteq lost'
    BY <2>4 DEF AppendFails, HandlerRaises
  <2>5. CASE UNCHANGED lost
    BY <2>5
  <2> QED
    BY <2>1, <2>2, <2>3, <2>4, <2>5
    DEF Next, Carry, CliAppend, CliAppendFails, Accept, AppendLine, Mark, Restart,
        HandOver, Dispatch, Replay, gossipVars, vars, history
<1>3. ASSUME NEW m \in Messages, cli[m] = "done" PROVE cli'[m] = "done"
  <2>1. ASSUME NEW x \in Messages, CliAppend(x) \/ CliAppendFails(x) \/ Broadcast(x)
        PROVE  cli'[m] = "done"
    BY <1>3, <2>1 DEF CliAppend, CliAppendFails, Broadcast, TypeOK, GossipTypeOK
  <2>2. CASE UNCHANGED cli
    BY <1>3, <2>2
  <2> QED
    BY <2>1, <2>2
    DEF Next, Carry, Accept, AppendLine, AppendFails, Mark, Forward, Restart, HandOver,
        Dispatch, HandlerRaises, Crash, Replay, gossipVars, vars
<1>4. ASSUME NEW n \in Nodes, NEW m \in Messages, heard[n][m] > 0 PROVE heard'[n][m] > 0
  <2>1. ASSUME NEW x \in Nodes, NEW z \in Messages,
               heard' = [heard EXCEPT ![x][z] = @ + 1]
        PROVE  heard'[n][m] > 0
    BY <1>4, <2>1 DEF TypeOK, GossipTypeOK
  <2>2. ASSUME NEW x \in Nodes, NEW c \in Conns, Dispatch(x, c) \/ HandlerRaises(x, c)
        PROVE  heard'[n][m] > 0
    <3>1. conn[x][c].msg \in Messages
      BY <2>2, ThreadType DEF Dispatch, HandlerRaises
    <3> QED BY <2>1, <2>2, <3>1 DEF Dispatch, HandlerRaises
  <2>3. CASE UNCHANGED heard
    BY <1>4, <2>3
  <2> QED
    BY <2>2, <2>3
    DEF Next, Carry, CliAppend, CliAppendFails, Broadcast, Accept, AppendLine, AppendFails,
        Mark, Forward, Restart, HandOver, Crash, Replay, gossipVars, vars, history
<1> QED BY <1>1, <1>2, <1>3, <1>4 DEF Lasting

(* A thread stays, takes a copy that was not seen, goes on to the next     *)
(* step with its message, forwards it, or ends.                            *)
Stays(n, c) ==
  conn'[n][c] = conn[n][c] \/ (conn'[n][c].pc = "idle" /\ conn[n][c].pc = "idle")

Takes(n, c) ==
  /\ up[n] /\ conn[n][c].pc = "idle" /\ conn'[n][c].pc = "append"
  /\ \E k \in BagToSet(wire) :
       /\ k.to = n /\ k.id \notin seen[n]
       /\ conn'[n][c].msg = k.id /\ conn'[n][c].ttl = k.ttl

GoesOn(n, c) ==
  /\ conn'[n][c].msg = conn[n][c].msg /\ conn'[n][c].ttl = conn[n][c].ttl
  /\ \/ conn[n][c].pc = "append" /\ conn'[n][c].pc \in {"mark", "dispatch"}
     \/ conn[n][c].pc = "mark" /\ conn'[n][c].pc = "dispatch"
     \/ /\ conn[n][c].pc = "dispatch" /\ conn'[n][c].pc = "forward"
        /\ heard'[n][conn[n][c].msg] > 0

Ends(n, c) ==
  /\ conn[n][c].pc # "idle" /\ conn'[n][c].pc = "idle"
  /\ \/ <<conn[n][c].msg, n, n>> \in lost'
     \/ conn[n][c].pc = "dispatch" /\ conn[n][c].ttl = 0 /\ heard'[n][conn[n][c].msg] > 0
     \/ Forward(n, c)

(* The thread that a step is of.                                           *)
LEMMA OneStep ==
  ASSUME TypeOK, NEW n \in Nodes, NEW c \in Conns, NEW label \in Labels, Step(n, c, label)
  PROVE  /\ conn'[n][c].pc = label /\ conn'[n][c].msg = conn[n][c].msg
         /\ conn'[n][c].ttl = conn[n][c].ttl
         /\ \A x \in Nodes, y \in Conns : <<x, y>> # <<n, c>> => conn'[x][y] = conn[x][y]
<1>1. conn \in [Nodes -> [Conns -> Thread]]
  BY DEF TypeOK, GossipTypeOK, Thread, Labels
<1>2. PICK t : conn' = [conn EXCEPT ![n][c] = t] /\ t.pc = label /\ t.msg = conn[n][c].msg
               /\ t.ttl = conn[n][c].ttl
  BY StepThread
<1> QED BY <1>1, <1>2

LEMMA OneClose ==
  ASSUME TypeOK, NEW n \in Nodes, NEW c \in Conns, Close(n, c)
  PROVE  /\ conn'[n][c].pc = "idle"
         /\ \A x \in Nodes, y \in Conns : <<x, y>> # <<n, c>> => conn'[x][y] = conn[x][y]
<1>1. conn \in [Nodes -> [Conns -> Thread]]
  BY DEF TypeOK, GossipTypeOK, Thread, Labels
<1> QED BY <1>1 DEF Close, IdleConn

LEMMA HandsOver ==
  ASSUME TypeOK, Control, NEW n \in Nodes, NEW c \in Conns,
         Dispatch(n, c) \/ HandlerRaises(n, c)
  PROVE  /\ conn[n][c].pc = "dispatch" /\ conn[n][c].msg \in Messages
         /\ heard'[n][conn[n][c].msg] > 0
         /\ \A x \in Nodes, m \in Messages :
              heard'[x][m] # heard[x][m] => x = n /\ m = conn[n][c].msg
<1>1. conn[n][c].pc = "dispatch" /\ conn[n][c].msg \in Messages
  BY ThreadType DEF Dispatch, HandlerRaises
<1>2. heard' = [heard EXCEPT ![n][conn[n][c].msg] = @ + 1]
  BY DEF Dispatch, HandlerRaises
<1>3. heard \in [Nodes -> [Messages -> Nat]]
  BY DEF TypeOK, GossipTypeOK
<1> QED BY <1>1, <1>2, <1>3

LEMMA Moves ==
  ASSUME TypeOK, Control, [Next]_vars, NEW n \in Nodes, NEW c \in Conns
  PROVE  Stays(n, c) \/ Takes(n, c) \/ GoesOn(n, c) \/ Ends(n, c)
<1>1. CASE UNCHANGED conn
  BY <1>1 DEF Stays
<1>2. ASSUME NEW x \in Nodes, NEW y \in Conns, Accept(x, y)
      PROVE  conn'[n][c] = conn[n][c] \/ Takes(n, c)
  <2>1. PICK k \in BagToSet(wire) :
          /\ k.to = x
          /\ conn' = IF Verify(k) /\ ~Duplicate(x, k.id)
                     THEN [conn EXCEPT ![x][y] = [pc |-> "append", msg |-> k.id, ttl |-> k.ttl]]
                     ELSE conn
    BY <1>2 DEF Accept
  <2>2. CASE conn' # conn
    <3> DEFINE t == [pc |-> "append", msg |-> k.id, ttl |-> k.ttl]
    <3>1. conn' = [conn EXCEPT ![x][y] = t] /\ k.id \notin seen[x]
      BY <2>1, <2>2 DEF Duplicate
    <3>2. t.pc = "append" /\ t.msg = k.id /\ t.ttl = k.ttl
      OBVIOUS
    <3> HIDE DEF t
    <3>3. /\ conn'[x][y] = t
          /\ \A v \in Nodes, z \in Conns : <<v, z>> # <<x, y>> => conn'[v][z] = conn[v][z]
      BY <3>1, ThreadType
    <3>4. CASE <<x, y>> = <<n, c>>
      BY <1>2, <2>1, <3>1, <3>2, <3>3, <3>4 DEF Takes, Accept
    <3> QED BY <3>3, <3>4
  <2> QED BY <2>2
<1>3. ASSUME NEW x \in Nodes, NEW y \in Conns, AppendLine(x, y)
      PROVE  conn'[n][c] = conn[n][c] \/ GoesOn(n, c)
  <2>1. PICK label \in {"dispatch", "mark"} : Step(x, y, label)
    BY <1>3 DEF AppendLine
  <2>2. conn[x][y].pc = "append" /\ label \in Labels
    BY <1>3 DEF AppendLine, Labels
  <2> QED BY <2>1, <2>2, OneStep DEF GoesOn
<1>4. ASSUME NEW x \in Nodes, NEW y \in Conns, Mark(x, y)
      PROVE  conn'[n][c] = conn[n][c] \/ GoesOn(n, c)
  <2>1. Step(x, y, "dispatch") /\ conn[x][y].pc = "mark" /\ "dispatch" \in Labels
    BY <1>4 DEF Mark, Labels
  <2> QED BY <2>1, OneStep DEF GoesOn
<1>5. ASSUME NEW x \in Nodes, NEW y \in Conns, Dispatch(x, y)
      PROVE  conn'[n][c] = conn[n][c] \/ GoesOn(n, c) \/ Ends(n, c)
  <2>1. conn[x][y].pc = "dispatch" /\ heard'[x][conn[x][y].msg] > 0
    BY <1>5, HandsOver
  <2>2. CASE Step(x, y, "forward")
    <3>1. "forward" \in Labels
      BY DEF Labels
    <3> QED BY <2>1, <2>2, <3>1, OneStep DEF GoesOn
  <2>3. CASE Close(x, y) /\ conn[x][y].ttl = 0
    BY <2>1, <2>3, OneClose DEF Ends
  <2>4. conn[x][y].ttl \in Nat
    BY ThreadType, TTLAssumption DEF Thread
  <2> QED BY <1>5, <2>2, <2>3, <2>4 DEF Dispatch
<1>6. ASSUME NEW x \in Nodes, NEW y \in Conns, Forward(x, y)
      PROVE  conn'[n][c] = conn[n][c] \/ Ends(n, c)
  <2>1. Close(x, y) /\ conn[x][y].pc = "forward"
    BY <1>6 DEF Forward
  <2> QED BY <1>6, <2>1, OneClose DEF Ends
<1>7. ASSUME NEW x \in Nodes, NEW y \in Conns, AppendFails(x, y) \/ HandlerRaises(x, y)
      PROVE  conn'[n][c] = conn[n][c] \/ Ends(n, c)
  <2>1. Close(x, y) /\ conn[x][y].pc # "idle" /\ <<conn[x][y].msg, x, x>> \in lost'
    BY <1>7 DEF AppendFails, HandlerRaises
  <2> QED BY <2>1, OneClose DEF Ends
<1>8. ASSUME NEW x \in Nodes, Crash(x)
      PROVE  Stays(n, c) \/ Ends(n, c)
  <2>1. /\ conn' = [conn EXCEPT ![x] = [y \in Conns |-> IdleConn]]
        /\ \A y \in Conns : conn[x][y].pc # "idle" => <<conn[x][y].msg, x, x>> \in lost'
    BY <1>8 DEF Crash
  <2>2. conn \in [Nodes -> [Conns -> Thread]]
    BY ThreadType
  <2>3. CASE x = n /\ conn[n][c].pc # "idle"
    <3>1. conn'[n][c].pc = "idle"
      BY <2>1, <2>2, <2>3 DEF IdleConn
    <3> QED BY <2>1, <2>3, <3>1 DEF Ends
  <2>4. CASE x = n /\ conn[n][c].pc = "idle"
    <3>1. conn'[n][c].pc = "idle"
      BY <2>1, <2>2, <2>4 DEF IdleConn
    <3> QED BY <2>4, <3>1 DEF Stays
  <2>5. CASE x # n
    BY <2>1, <2>2, <2>5 DEF Stays
  <2> QED BY <2>3, <2>4, <2>5
<1> QED
  BY <1>1, <1>2, <1>3, <1>4, <1>5, <1>6, <1>7, <1>8
  DEF Next, Carry, CliAppend, CliAppendFails, Broadcast, Restart, HandOver, Replay,
      gossipVars, vars, Stays
(* Bags.                                                                   *)
LEMMA BagsProper ==
  ASSUME NEW B, NEW S, Proper(B)
  PROVE  Proper(B (+) SetToBag(S)) /\ Proper(B (-) SetToBag(S))
<1>1. Proper(B (+) SetToBag(S))
  BY DEF BagToSet, SetToBag, (+), Proper
<1>2. Proper(B (-) SetToBag(S))
  BY DEF BagToSet, SetToBag, (-), Proper
<1> QED BY <1>1, <1>2

LEMMA BagLoses ==
  ASSUME NEW B, NEW k, Proper(B)
  PROVE  BagToSet(B) \ {k} \subseteq BagToSet(B (-) SetToBag({k}))
BY DEF BagToSet, SetToBag, (-), Proper

(* The copies of a loop of sends are on the wire or lost, and nothing else *)
(* is put on it.                                                           *)
LEMMA SendCases ==
  ASSUME NEW m, NEW n, NEW targets, NEW copies, Send(m, n, targets, copies)
  PROVE  /\ BagToSet(wire) \subseteq BagToSet(wire')
         /\ BagToSet(wire') \subseteq BagToSet(wire) \cup copies
         /\ \A k \in copies : k.to \in targets =>
              k \in BagToSet(wire') \/ <<m, n, k.to>> \in lost'
         /\ Proper(wire) => Proper(wire')
<1>1. PICK failed \in SUBSET targets :
        /\ wire' = wire (+) SetToBag({k \in copies : k.to \notin failed})
        /\ lost' = lost \cup {<<m, n, p>> : p \in failed}
  BY DEF Send
<1>2. BagToSet(wire') = BagToSet(wire) \cup {k \in copies : k.to \notin failed}
  BY <1>1, BagAdds
<1>3. Proper(wire) => Proper(wire')
  BY <1>1, BagsProper
<1> QED BY <1>1, <1>2, <1>3

(* n has sent m to each of its peers, or failed to.                        *)
Sends(m, n) ==
  \A p \in net.peers[n] \ {Sender[m]} :
    \/ <<m, n, p>> \in lost'
    \/ \E k \in BagToSet(wire') : k.id = m /\ k.from = n /\ k.to = p

LEMMA ForwardSends ==
  ASSUME TypeOK, Control, NEW n \in Nodes, NEW c \in Conns, Forward(n, c)
  PROVE  LET m == conn[n][c].msg IN
         /\ Sends(m, n)
         /\ conn[n][c].pc = "forward" /\ m \in Messages /\ conn[n][c].ttl \in 1..TTL
         /\ Proper(wire) => Proper(wire')
         /\ BagToSet(wire) \subseteq BagToSet(wire')
         /\ \A k \in BagToSet(wire') \ BagToSet(wire) :
              \E p \in net.peers[n] \ {Sender[m]} : k = Forwarded(m, conn[n][c].ttl, n, p)
<1>1. PICK m, ttl : m = conn[n][c].msg /\ ttl = conn[n][c].ttl
  OBVIOUS
<1>2. conn[n][c].pc = "forward" /\ m \in Messages /\ ttl \in 1..TTL
  BY <1>1, ThreadType, TTLAssumption DEF Forward, ThreadOK, Thread
<1>3. PICK targets : targets = net.peers[n] \ {Sender[m]}
  OBVIOUS
<1>4. PICK copies : copies = {Forwarded(m, ttl, n, p) : p \in targets}
  OBVIOUS
<1>5. Send(m, n, targets, copies)
  BY <1>1, <1>3, <1>4 DEF Forward, FloodTargets
<1>6. /\ BagToSet(wire) \subseteq BagToSet(wire')
      /\ BagToSet(wire') \subseteq BagToSet(wire) \cup copies
      /\ \A k \in copies : k.to \in targets =>
           k \in BagToSet(wire') \/ <<m, n, k.to>> \in lost'
      /\ Proper(wire) => Proper(wire')
  BY <1>5, SendCases
<1>7. \A p \in targets : LET k == Forwarded(m, ttl, n, p) IN
        k \in copies /\ k.id = m /\ k.from = n /\ k.to = p
  BY <1>4 DEF Forwarded
<1>8. Sends(m, n)
  BY <1>3, <1>6, <1>7 DEF Sends
<1> QED BY <1>1, <1>2, <1>3, <1>4, <1>6, <1>8

LEMMA BroadcastSends ==
  ASSUME NEW m \in Messages, NEW n, n = Sender[m], Broadcast(m)
  PROVE  /\ Sends(m, n)
         /\ Proper(wire) => Proper(wire')
         /\ BagToSet(wire) \subseteq BagToSet(wire')
         /\ \A k \in BagToSet(wire') \ BagToSet(wire) : \E p \in net.peers[n] : k = Built(m, p)
<1>1. PICK targets : targets = net.peers[n]
  OBVIOUS
<1>2. PICK copies : copies = {Built(m, p) : p \in targets}
  OBVIOUS
<1>3. Send(m, n, targets, copies)
  BY <1>1, <1>2 DEF Broadcast
<1>4. /\ BagToSet(wire) \subseteq BagToSet(wire')
      /\ BagToSet(wire') \subseteq BagToSet(wire) \cup copies
      /\ \A k \in copies : k.to \in targets =>
           k \in BagToSet(wire') \/ <<m, n, k.to>> \in lost'
      /\ Proper(wire) => Proper(wire')
  BY <1>3, SendCases
<1>5. \A p \in targets : LET k == Built(m, p) IN
        k \in copies /\ k.id = m /\ k.from = n /\ k.to = p
  BY <1>2 DEF Built
<1>6. Sends(m, n)
  BY <1>1, <1>4, <1>5 DEF Sends
<1> QED BY <1>1, <1>2, <1>4, <1>6
(* The wire gets what a command or a thread sends.                         *)
LEMMA WireGains ==
  ASSUME TypeOK, Control, [Next]_vars, Proper(wire)
  PROVE  /\ Proper(wire')
         /\ \A k \in BagToSet(wire') \ BagToSet(wire) :
              \/ \E m \in Messages, p \in Nodes :
                   Broadcast(m) /\ p \in net.peers[Sender[m]] /\ k = Built(m, p)
              \/ \E n \in Nodes, c \in Conns, p \in Nodes :
                   /\ Forward(n, c) /\ p \in net.peers[n] \ {Sender[conn[n][c].msg]}
                   /\ k = Forwarded(conn[n][c].msg, conn[n][c].ttl, n, p)
<1>0. \A n \in Nodes : net.peers[n] \subseteq Nodes
  BY NetType
<1>1. ASSUME NEW m \in Messages, Broadcast(m)
      PROVE  /\ Proper(wire')
             /\ \A k \in BagToSet(wire') \ BagToSet(wire) :
                  \E p \in Nodes : p \in net.peers[Sender[m]] /\ k = Built(m, p)
  <2>1. PICK n \in Nodes : n = Sender[m]
    BY SenderAssumption
  <2> QED BY <1>0, <1>1, <2>1, BroadcastSends
<1>2. ASSUME NEW n \in Nodes, NEW c \in Conns, Forward(n, c)
      PROVE  /\ Proper(wire')
             /\ \A k \in BagToSet(wire') \ BagToSet(wire) :
                  \E p \in Nodes :
                    /\ p \in net.peers[n] \ {Sender[conn[n][c].msg]}
                    /\ k = Forwarded(conn[n][c].msg, conn[n][c].ttl, n, p)
  BY <1>0, <1>2, ForwardSends
<1>3. ASSUME NEW n \in Nodes, NEW c \in Conns, Accept(n, c)
      PROVE  Proper(wire') /\ BagToSet(wire') \subseteq BagToSet(wire)
  BY <1>3, BagTakes, BagsProper DEF Accept
<1>4. ASSUME NEW n \in Nodes, Crash(n)
      PROVE  Proper(wire') /\ BagToSet(wire') \subseteq BagToSet(wire)
  BY <1>4 DEF Crash, BagToSet, Proper
<1>5. \/ \E m \in Messages : Broadcast(m)
      \/ \E n \in Nodes, c \in Conns : Forward(n, c) \/ Accept(n, c)
      \/ \E n \in Nodes : Crash(n)
      \/ UNCHANGED wire
  BY DEF Next, Carry, CliAppend, CliAppendFails, AppendLine, AppendFails, Mark, Restart,
         HandOver, Dispatch, HandlerRaises, Replay, gossipVars, vars
<1> QED BY <1>1, <1>2, <1>3, <1>4, <1>5

(* A copy stays on the wire until it is lost or its node accepts it: then  *)
(* it does not verify, was seen, or has a thread.                          *)
LEMMA WireLoses ==
  ASSUME TypeOK, Control, [Next]_vars, Proper(wire), NEW k \in BagToSet(wire)
  PROVE  \/ k \in BagToSet(wire')
         \/ <<k.id, k.from, k.to>> \in lost'
         \/ k.sig # k.ttl
         \/ k.id \in seen[k.to]
         \/ \E c \in Conns : conn'[k.to][c].pc = "append" /\ conn'[k.to][c].msg = k.id
<1>0. k \in Copy
  BY DEF TypeOK, GossipTypeOK
<1>1. ASSUME NEW m \in Messages, Broadcast(m) PROVE k \in BagToSet(wire')
  <2>1. PICK n \in Nodes : n = Sender[m]
    BY SenderAssumption
  <2> QED BY <1>1, <2>1, BroadcastSends
<1>2. ASSUME NEW n \in Nodes, NEW c \in Conns, Forward(n, c) PROVE k \in BagToSet(wire')
  BY <1>2, ForwardSends
<1>3. ASSUME NEW n \in Nodes, NEW c \in Conns, Accept(n, c), k \notin BagToSet(wire'),
             k.sig = k.ttl, k.id \notin seen[k.to]
      PROVE  conn'[k.to][c].pc = "append" /\ conn'[k.to][c].msg = k.id
  <2>1. PICK x \in BagToSet(wire) :
          /\ x.to = n /\ wire' = wire (-) SetToBag({x})
          /\ conn' = IF Verify(x) /\ ~Duplicate(n, x.id)
                     THEN [conn EXCEPT ![n][c] = [pc |-> "append", msg |-> x.id, ttl |-> x.ttl]]
                     ELSE conn
    BY <1>3 DEF Accept
  <2>2. x = k
    BY <1>3, <2>1, BagLoses
  <2>3. Verify(k) /\ ~Duplicate(n, k.id)
    BY <1>0, <1>3, <2>1, <2>2 DEF Verify, Duplicate, Copy
  <2>4. conn' = [conn EXCEPT ![n][c] = [pc |-> "append", msg |-> k.id, ttl |-> k.ttl]]
    BY <2>1, <2>2, <2>3
  <2>5. conn \in [Nodes -> [Conns -> Thread]]
    BY ThreadType
  <2> QED BY <2>1, <2>2, <2>4, <2>5
<1>4. ASSUME NEW n \in Nodes, Crash(n)
      PROVE  k \in BagToSet(wire') \/ <<k.id, k.from, k.to>> \in lost'
  BY <1>4 DEF Crash, BagToSet
<1>5. CASE UNCHANGED wire
  BY <1>5
<1> QED
  BY <1>1, <1>2, <1>3, <1>4, <1>5
  DEF Next, Carry, CliAppend, CliAppendFails, AppendLine, AppendFails, Mark, Restart,
      HandOver, Dispatch, HandlerRaises, Replay, gossipVars, vars

(* What is handed over was held by a thread, which forwards it, had its    *)
(* TTL used up, or was ended by the handler.                               *)
LEMMA HeardGains ==
  ASSUME TypeOK, Control, [Next]_vars, NEW n \in Nodes, NEW m \in Messages,
         heard'[n][m] # heard[n][m]
  PROVE  \E c \in Conns :
           /\ conn[n][c].pc = "dispatch" /\ conn[n][c].msg = m
           /\ \/ <<m, n, n>> \in lost'
              \/ conn'[n][c].pc = "forward" /\ conn'[n][c].msg = m
              \/ conn[n][c].ttl = 0
<1>1. ASSUME NEW x \in Nodes, NEW c \in Conns, Dispatch(x, c)
      PROVE  /\ x = n /\ conn[n][c].pc = "dispatch" /\ conn[n][c].msg = m
             /\ (conn'[n][c].pc = "forward" /\ conn'[n][c].msg = m) \/ conn[n][c].ttl = 0
  <2>1. x = n /\ conn[n][c].pc = "dispatch" /\ conn[n][c].msg = m
    BY <1>1, HandsOver
  <2>2. CASE Step(x, c, "forward")
    <3>1. "forward" \in Labels
      BY DEF Labels
    <3> QED BY <2>1, <2>2, <3>1, OneStep
  <2>3. conn[n][c].ttl \in Nat
    BY ThreadType, TTLAssumption DEF Thread
  <2> QED BY <1>1, <2>1, <2>2, <2>3 DEF Dispatch
<1>2. ASSUME NEW x \in Nodes, NEW c \in Conns, HandlerRaises(x, c)
      PROVE  /\ x = n /\ conn[n][c].pc = "dispatch" /\ conn[n][c].msg = m
             /\ <<m, n, n>> \in lost'
  BY <1>2, HandsOver DEF HandlerRaises
<1>3. heard' # heard
  OBVIOUS
<1> QED
  BY <1>1, <1>2, <1>3
  DEF Next, Carry, CliAppend, CliAppendFails, Broadcast, Accept, AppendLine, AppendFails,
      Mark, Forward, Restart, HandOver, Crash, Replay, gossipVars, vars, history

(* A line of a message that another node sent is of a thread.              *)
LEMMA LineGains ==
  ASSUME TypeOK, Control, [Next]_vars, NEW n \in Nodes, NEW m \in Messages,
         m \in Range(ledger'[n]) \ Range(ledger[n])
  PROVE  \/ n = Sender[m]
         \/ <<m, n, n>> \in lost'
         \/ \E c \in Conns : conn'[n][c].pc = "mark" /\ conn'[n][c].msg = m
<1>0. m # Torn
  BY TornAssumption
<1>1. ASSUME NEW x \in Nodes, NEW z \in Messages, WriteLine(x, z) \/ WritePart(x, z)
      PROVE  x = n /\ z = m
  <2>1. /\ \A y \in Nodes \ {x} : ledger'[y] = ledger[y]
        /\ Range(ledger'[x]) \subseteq Range(ledger[x]) \cup {z, Torn}
    BY <1>1, WriteType
  <2> QED BY <1>0, <2>1
<1>2. ASSUME NEW x \in Messages, CliAppend(x) \/ CliAppendFails(x)
      PROVE  n = Sender[m]
  BY <1>1, <1>2, SenderAssumption DEF CliAppend, CliAppendFails
<1>3. ASSUME NEW x \in Nodes, NEW c \in Conns, AppendLine(x, c)
      PROVE  conn'[n][c].pc = "mark" /\ conn'[n][c].msg = m
  <2>1. conn[x][c].msg \in Messages
    BY <1>3, ThreadType DEF AppendLine
  <2>2. ~ UNCHANGED disk
    BY DEF disk
  <2>3. Step(x, c, "mark") /\ WriteLine(x, conn[x][c].msg) /\ "mark" \in Labels
    BY <1>3, <2>2 DEF AppendLine, Labels
  <2>4. x = n /\ conn[x][c].msg = m
    BY <1>1, <2>1, <2>3
  <2> QED BY <2>3, <2>4, OneStep
<1>4. ASSUME NEW x \in Nodes, NEW c \in Conns, AppendFails(x, c)
      PROVE  <<m, n, n>> \in lost'
  <2>1. conn[x][c].msg \in Messages
    BY <1>4, ThreadType DEF AppendFails
  <2> QED BY <1>1, <1>4, <2>1 DEF AppendFails
<1>5. ASSUME NEW x \in Nodes, Crash(x)
      PROVE  <<m, n, n>> \in lost'
  <2>1. ~ UNCHANGED disk
    BY DEF disk
  <2>2. PICK c \in Conns :
          /\ conn[x][c].pc = "append" /\ WritePart(x, conn[x][c].msg)
          /\ <<conn[x][c].msg, x, x>> \in lost'
    BY <1>5, <2>1 DEF Crash
  <2>3. conn[x][c].msg \in Messages
    BY <2>2, ThreadType
  <2> QED BY <1>1, <2>2, <2>3
<1>6. ledger' # ledger
  OBVIOUS
<1> QED
  BY <1>2, <1>3, <1>4, <1>5, <1>6
  DEF Next, Carry, Broadcast, Accept, Mark, Forward, Restart, HandOver, Dispatch,
      HandlerRaises, Replay, gossipVars, vars, disk
-------------------------------------------------------------------------------
(* Where messages are and which way they came.                             *)
LEMMA Links ==
  ASSUME TypeOK, NEW n \in Nodes
  PROVE  /\ net.peers[n] \subseteq net.nodes \ {n}
         /\ net.peers[n] # {} => n \in net.nodes
         /\ net.nodes \subseteq Nodes
BY PeersAssumption, NetType DEF TypeOK, GossipTypeOK

LEMMA LeadsPeer ==
  ASSUME NEW m, NEW n, NEW p \in net.peers[n], n = Sender[m] \/ Leads(m, n)
  PROVE  Leads(m, p)
BY DEF Leads

LEMMA AimedStays ==
  ASSUME Lasting, NEW m \in Messages, NEW n
  PROVE  Aimed(m, n) => Aimed(m, n)'
BY DEF Lasting, Aimed, Leads

LEMMA TrailStays ==
  ASSUME Lasting, TypeOK, NEW m \in Messages, NEW ttl, NEW V \in SUBSET net.nodes
  PROVE  Trail(m, ttl, V) => Trail(m, ttl, V)'
BY NetType DEF Lasting, Trail

(* A node that takes m forward adds itself to the trail.                   *)
LEMMA TrailGrows ==
  ASSUME TypeOK, NEW m \in Messages, NEW ttl \in 0..TTL, NEW V \in SUBSET net.nodes,
         NEW n \in net.nodes, n \notin V, Trail(m, ttl, V), heard[n][m] > 0
  PROVE  Trail(m, ttl - 1, V \cup {n})
<1>1. IsFiniteSet(V)
  BY NetType, NodesAssumption, FS_Subset
<1>2. Cardinality(V \cup {n}) = Cardinality(V) + 1
  BY <1>1, FS_AddElement
<1>3. Cardinality(V) = TTL - ttl + 1
  BY DEF Trail
<1>4. Cardinality(V \cup {n}) = TTL - (ttl - 1) + 1
  BY <1>2, <1>3, TTLAssumption
<1> QED BY <1>4 DEF Trail

LEMMA CarriedStep ==
  ASSUME TypeOK, Control, Wave, [Next]_vars
  PROVE  Carried'
<1>0. Lasting /\ net' = net
  BY LastingStep DEF Lasting
<1> SUFFICES ASSUME NEW k \in BagToSet(wire')
             PROVE  /\ k.sig = k.ttl /\ Aimed(k.id, k.to)'
                    /\ \E V \in SUBSET net'.nodes : Trail(k.id, k.ttl, V)'
  BY DEF Carried
<1>1. CASE k \in BagToSet(wire)
  <2>1. PICK m, n, ttl : m = k.id /\ n = k.to /\ ttl = k.ttl
    OBVIOUS
  <2>2. PICK V \in SUBSET net.nodes : Trail(m, ttl, V)
    BY <1>1, <2>1 DEF Wave, Carried
  <2>3. k \in Copy /\ m \in Messages /\ Aimed(m, n) /\ k.sig = k.ttl
    BY <1>1, <2>1 DEF Wave, Carried, TypeOK, GossipTypeOK, Copy
  <2>4. Aimed(m, n)' /\ Trail(m, ttl, V)'
    BY <1>0, <2>2, <2>3, AimedStays, TrailStays
  <2> QED BY <1>0, <2>1, <2>2, <2>3, <2>4
<1>2. ASSUME NEW m \in Messages, NEW p \in Nodes, Broadcast(m), p \in net.peers[Sender[m]],
             k = Built(m, p)
      PROVE  /\ k.sig = k.ttl /\ Aimed(k.id, k.to)'
             /\ \E V \in SUBSET net'.nodes : Trail(k.id, k.ttl, V)'
  <2>1. PICK n \in Nodes : n = Sender[m]
    BY SenderAssumption
  <2>2. k.sig = TTL /\ k.ttl = TTL /\ k.id = m /\ k.to = p
    BY <1>2 DEF Built
  <2>3. p \in net.peers[n] /\ p \in net.nodes /\ p # n /\ n \in net.nodes
    BY <1>2, <2>1, Links
  <2>4. Leads(m, p) /\ cli'[m] = "done"
    BY <1>2, <2>1, LeadsPeer DEF Broadcast, TypeOK, GossipTypeOK
  <2>5. Aimed(m, p)'
    BY <1>0, <2>1, <2>3, <2>4 DEF Aimed, Leads
  <2>6. Trail(m, TTL, {n})'
    <3>1. Cardinality({n}) = 1
      BY FS_Singleton
    <3>2. TTL - TTL + 1 = 1
      BY TTLAssumption
    <3> QED BY <2>1, <3>1, <3>2 DEF Trail
  <2> QED BY <1>0, <2>2, <2>3, <2>5, <2>6
<1>3. ASSUME NEW n \in Nodes, NEW c \in Conns, NEW p \in Nodes, Forward(n, c),
             p \in net.peers[n] \ {Sender[conn[n][c].msg]},
             k = Forwarded(conn[n][c].msg, conn[n][c].ttl, n, p)
      PROVE  /\ k.sig = k.ttl /\ Aimed(k.id, k.to)'
             /\ \E V \in SUBSET net'.nodes : Trail(k.id, k.ttl, V)'
  <2>1. PICK m, ttl : m = conn[n][c].msg /\ ttl = conn[n][c].ttl
    OBVIOUS
  <2>2. m \in Messages /\ ttl \in 0..TTL /\ conn[n][c].pc = "forward"
    BY <1>3, <2>1, ThreadType DEF Forward, Thread
  <2>3. k.sig = ttl - 1 /\ k.ttl = ttl - 1 /\ k.id = m /\ k.to = p
    BY <1>3, <2>1 DEF Forwarded
  <2>4. p \in net.peers[n] /\ p \in net.nodes /\ p # Sender[m]
    BY <1>3, <2>1, Links
  <2>5. /\ Aimed(m, n) /\ heard[n][m] > 0
        /\ \E V \in SUBSET net.nodes : n \notin V /\ Trail(m, ttl, V)
    BY <2>1, <2>2 DEF Wave, Held, HeldBy
  <2>6. PICK V \in SUBSET net.nodes : n \notin V /\ Trail(m, ttl, V)
    BY <2>5
  <2>7. Aimed(m, p)
    BY <2>4, <2>5, LeadsPeer DEF Aimed
  <2>8. V \cup {n} \in SUBSET net.nodes /\ Trail(m, ttl - 1, V \cup {n})
    BY <2>2, <2>5, <2>6, TrailGrows DEF Aimed
  <2>9. Aimed(m, p)' /\ Trail(m, ttl - 1, V \cup {n})'
    BY <1>0, <2>2, <2>7, <2>8, AimedStays, TrailStays
  <2> QED BY <1>0, <2>3, <2>8, <2>9
<1> QED BY <1>1, <1>2, <1>3, WireGains DEF Wave

(* A process with sound files refuses what it has handed over.             *)
LEMMA TakesNew ==
  ASSUME TypeOK, Control, Once, NothingForgotten, NEW n \in net.nodes, NEW m \in Messages,
         up[n], m \notin seen[n]
  PROVE  ~ (heard[n][m] > 0)
<1>1. n \in Nodes
  BY NetType
<1> QED BY <1>1 DEF Once, OnceHeard, NothingForgotten

LEMMA HeldStep ==
  ASSUME TypeOK, Control, Once, NothingForgotten, Wave, [Next]_vars
  PROVE  Held'
<1>0. Lasting /\ net' = net /\ Conns' = Conns
  BY LastingStep DEF Lasting
<1>1. ASSUME NEW n \in Nodes, NEW c \in Conns, NEW m \in Messages, NEW ttl, NEW V \in SUBSET net.nodes,
             conn'[n][c].msg = m, conn'[n][c].ttl = ttl,
             Aimed(m, n), n \notin V, Trail(m, ttl, V),
             conn'[n][c].pc = "forward" => heard'[n][m] > 0
      PROVE  HeldBy(n, conn[n][c])'
  <2>1. Aimed(m, n)' /\ Trail(m, ttl, V)'
    BY <1>0, <1>1, AimedStays, TrailStays
  <2> QED BY <1>0, <1>1, <2>1 DEF HeldBy
<1>2. ASSUME NEW n \in Nodes, NEW c \in Conns, conn[n][c].pc # "idle",
             conn'[n][c].msg = conn[n][c].msg, conn'[n][c].ttl = conn[n][c].ttl,
             \/ conn'[n][c].pc = conn[n][c].pc
             \/ conn'[n][c].pc = "forward" => heard'[n][conn[n][c].msg] > 0
      PROVE  HeldBy(n, conn[n][c])'
  <2>1. PICK m, ttl : m = conn[n][c].msg /\ ttl = conn[n][c].ttl
    OBVIOUS
  <2>2. m \in Messages
    BY <1>2, <2>1, ThreadType
  <2>3. /\ Aimed(m, n)
        /\ conn[n][c].pc = "forward" => heard[n][m] > 0
        /\ \E V \in SUBSET net.nodes : n \notin V /\ Trail(m, ttl, V)
    BY <1>2, <2>1 DEF Wave, Held, HeldBy
  <2>4. conn'[n][c].pc = "forward" => heard'[n][m] > 0
    BY <1>0, <1>2, <2>1, <2>2, <2>3 DEF Lasting
  <2>5. PICK V \in SUBSET net.nodes : n \notin V /\ Trail(m, ttl, V)
    BY <2>3
  <2> QED BY <1>1, <1>2, <2>1, <2>2, <2>3, <2>4, <2>5
<1>3. ASSUME NEW n \in Nodes, NEW c \in Conns, Takes(n, c)
      PROVE  HeldBy(n, conn[n][c])'
  <2>1. PICK k \in BagToSet(wire) :
          /\ up[n] /\ k.to = n /\ k.id \notin seen[n] /\ conn'[n][c].pc = "append"
          /\ conn'[n][c].msg = k.id /\ conn'[n][c].ttl = k.ttl
    BY <1>3 DEF Takes
  <2>2. PICK m, ttl : m = k.id /\ ttl = k.ttl
    OBVIOUS
  <2>3. m \in Messages /\ Aimed(m, n) /\ \E V \in SUBSET net.nodes : Trail(m, ttl, V)
    BY <2>1, <2>2 DEF Wave, Carried, TypeOK, GossipTypeOK, Copy
  <2>4. PICK V \in SUBSET net.nodes : Trail(m, ttl, V)
    BY <2>3
  <2>5. n \notin V
    BY <2>1, <2>2, <2>3, <2>4, TakesNew DEF Trail, Aimed
  <2> QED BY <1>1, <2>1, <2>2, <2>3, <2>4, <2>5
<1> SUFFICES ASSUME NEW n \in Nodes, NEW c \in Conns PROVE HeldBy(n, conn[n][c])'
  BY <1>0 DEF Held
<1>4. CASE Stays(n, c)
  BY <1>2, <1>4 DEF Stays, HeldBy
<1>5. CASE GoesOn(n, c)
  BY <1>2, <1>5 DEF GoesOn
<1>6. CASE Ends(n, c)
  BY <1>6 DEF Ends, HeldBy
<1> QED BY <1>3, <1>4, <1>5, <1>6, Moves

LEMMA TakenStep ==
  ASSUME TypeOK, Control, Wave, [Next]_vars
  PROVE  Taken'
<1> SUFFICES ASSUME NEW n \in Nodes, NEW m \in Messages, heard'[n][m] > 0
             PROVE  Aimed(m, n)'
  BY DEF Taken
<1>1. Lasting
  BY LastingStep
<1>2. CASE heard'[n][m] = heard[n][m]
  BY <1>1, <1>2, AimedStays DEF Wave, Taken
<1>3. CASE heard'[n][m] # heard[n][m]
  <2>1. PICK c \in Conns : conn[n][c].pc = "dispatch" /\ conn[n][c].msg = m
    BY <1>3, HeardGains
  <2>2. Aimed(m, n)
    BY <2>1 DEF Wave, Held, HeldBy
  <2> QED BY <1>1, <2>2, AimedStays
<1> QED BY <1>2, <1>3
-------------------------------------------------------------------------------
(* What a thread holds is handed over or dies.                             *)
LEMMA AtStep ==
  ASSUME TypeOK, Control, [Next]_vars, NEW n \in Nodes, NEW m \in Messages,
         NEW steps \in {{"mark", "dispatch"}, {"append", "mark", "dispatch"}}, At(n, m, steps)
  PROVE  At(n, m, steps)' \/ Dead(m, n)' \/ heard'[n][m] > 0
<1>1. Conns' = Conns
  BY LastingStep DEF Lasting
<1>2. PICK c \in Conns : conn[n][c].pc \in steps /\ conn[n][c].msg = m
  BY DEF At
<1>3. CASE Stays(n, c)
  BY <1>1, <1>2, <1>3 DEF Stays, At
<1>4. CASE GoesOn(n, c)
  BY <1>1, <1>2, <1>4 DEF GoesOn, At
<1>5. CASE Ends(n, c)
  <2>1. conn[n][c].pc # "forward"
    BY <1>2
  <2> QED BY <1>2, <1>5, <2>1 DEF Ends, Dead, Forward
<1>6. CASE Takes(n, c)
  BY <1>2, <1>6 DEF Takes
<1> QED BY <1>3, <1>4, <1>5, <1>6, Moves

(* What a thread is about to forward is sent, unless the thread dies.      *)
LEMMA AtForward ==
  ASSUME TypeOK, Control, [Next]_vars, NEW n \in Nodes, NEW m \in Messages, At(n, m, {"forward"})
  PROVE  At(n, m, {"forward"})' \/ Dead(m, n)' \/ Sends(m, n)
<1>1. Conns' = Conns
  BY LastingStep DEF Lasting
<1>2. PICK c \in Conns : conn[n][c].pc = "forward" /\ conn[n][c].msg = m
  BY DEF At
<1>3. CASE Stays(n, c)
  BY <1>1, <1>2, <1>3 DEF Stays, At
<1>4. CASE Ends(n, c)
  BY <1>2, <1>4, ForwardSends DEF Ends, Dead
<1>5. CASE Takes(n, c)
  BY <1>2, <1>5 DEF Takes
<1>6. ~ GoesOn(n, c)
  BY <1>2 DEF GoesOn
<1> QED BY <1>3, <1>4, <1>5, <1>6, Moves
LEMMA WrittenStep ==
  ASSUME TypeOK, Control, Wave, [Next]_vars
  PROVE  Written'
<1> SUFFICES ASSUME NEW n \in Nodes, NEW m \in Messages, m \in Range(ledger'[n]), n # Sender[m]
             PROVE  heard'[n][m] > 0 \/ Dead(m, n)' \/ At(n, m, {"mark", "dispatch"})'
  BY DEF Written
<1>1. Lasting
  BY LastingStep
<1>2. CASE m \in Range(ledger[n])
  <2>1. heard[n][m] > 0 \/ Dead(m, n) \/ At(n, m, {"mark", "dispatch"})
    BY <1>2 DEF Wave, Written
  <2>2. CASE At(n, m, {"mark", "dispatch"})
    BY <2>2, AtStep
  <2> QED BY <1>1, <2>1, <2>2 DEF Lasting, Dead
<1>3. CASE m \notin Range(ledger[n])
  <2>1. Dead(m, n)' \/ \E c \in Conns : conn'[n][c].pc = "mark" /\ conn'[n][c].msg = m
    BY <1>3, LineGains DEF Dead
  <2> QED BY <1>1, <2>1 DEF Lasting, At
<1> QED BY <1>2, <1>3

(* What is coming to a node with a sound file arrives or dies there: a     *)
(* copy that the process refuses is of a message in the file.              *)
LEMMA ComingStep ==
  ASSUME TypeOK, Control, Kept, NothingForgotten, Wave, [Next]_vars,
         NEW m \in Messages, NEW n \in Nodes, NEW p \in Nodes, Coming(m, n, p)
  PROVE  Coming(m, n, p)'
<1>1. Lasting
  BY LastingStep
<1>2. CASE <<m, n, p>> \in lost \/ Dead(m, p) \/ heard[p][m] > 0
  BY <1>1, <1>2 DEF Lasting, Dead, Coming
<1>3. ASSUME NEW steps \in {{"mark", "dispatch"}, {"append", "mark", "dispatch"}}, At(p, m, steps)
      PROVE  Coming(m, n, p)'
  <2>1. At(p, m, steps)' \/ Dead(m, p)' \/ heard'[p][m] > 0
    BY <1>3, AtStep
  <2>2. At(p, m, steps)' => At(p, m, {"append", "mark", "dispatch"})'
    BY DEF At
  <2> QED BY <2>1, <2>2 DEF Coming
<1>4. ASSUME NEW k \in BagToSet(wire), k.id = m, k.from = n, k.to = p
      PROVE  Coming(m, n, p)'
  <2>1. k.sig = k.ttl /\ p \in net.nodes /\ p # Sender[m]
    BY <1>4 DEF Wave, Carried, Aimed
  <2>2. CASE m \in seen[p]
    <3>1. m \in Range(ledger[p])
      BY <2>1, <2>2 DEF NothingForgotten, Kept, KeptMessages
    <3>2. heard[p][m] > 0 \/ Dead(m, p) \/ At(p, m, {"mark", "dispatch"})
      BY <2>1, <3>1 DEF Wave, Written
    <3> QED BY <1>2, <1>3, <3>2
  <2>3. CASE \E c \in Conns : conn'[p][c].pc = "append" /\ conn'[p][c].msg = m
    BY <1>1, <2>3 DEF Lasting, Coming, At
  <2>4. CASE k \in BagToSet(wire') \/ <<m, n, p>> \in lost'
    BY <1>4, <2>4 DEF Coming
  <2> QED BY <1>4, <2>1, <2>2, <2>3, <2>4, WireLoses DEF Wave
<1> QED BY <1>2, <1>3, <1>4 DEF Coming

LEMMA SendsPassOn ==
  ASSUME net' = net, NEW m, NEW n, Sends(m, n)
  PROVE  PassedOn(m, n)'
BY DEF Sends, PassedOn, Coming

(* A message that is passed on stays so as long as its node is one that    *)
(* has it.                                                                 *)
LEMMA PassedOnStays ==
  ASSUME TypeOK, Control, Kept, NothingForgotten, Wave, [Next]_vars,
         NEW m \in Messages, NEW n \in Nodes, PassedOn(m, n), Has(m, n)'
  PROVE  PassedOn(m, n)'
<1>1. net' = net
  BY LastingStep DEF Lasting
<1>2. CASE At(n, m, {"forward"})
  <2>1. n # Sender[m]
    BY <1>2 DEF At, Wave, Held, HeldBy, Aimed
  <2>2. ~ Dead(m, n)'
    BY <2>1 DEF Has
  <2>3. CASE At(n, m, {"forward"})'
    BY <2>3 DEF PassedOn
  <2>4. CASE Sends(m, n)
    BY <1>1, <2>4, SendsPassOn
  <2> QED BY <1>2, <2>2, <2>3, <2>4, AtForward
<1>3. CASE \A p \in net.peers[n] \ {Sender[m]} : Coming(m, n, p)
  <2>1. net.peers[n] \subseteq Nodes
    BY NetType
  <2>2. \A p \in net.peers[n] \ {Sender[m]} : Coming(m, n, p)'
    BY <1>3, <2>1, ComingStep
  <2> QED BY <1>1, <2>2 DEF PassedOn
<1> QED BY <1>2, <1>3 DEF PassedOn

(* A trail whose TTL is used up has been everywhere.                       *)
LEMMA TrailEnds ==
  ASSUME TypeOK, ShortPaths, NEW n \in net.nodes, NEW m, NEW V \in SUBSET net.nodes,
         n \notin V, Trail(m, 0, V), NEW p \in net.nodes, p # n
  PROVE  p = Sender[m] \/ heard[p][m] > 0
<1>1. IsFiniteSet(V) /\ IsFiniteSet(net.nodes)
  BY NetType, NodesAssumption, FS_Subset
<1>2. Cardinality(V \cup {n}) = Cardinality(V) + 1
  BY <1>1, FS_AddElement
<1>3. Cardinality(V) = TTL + 1
  <2>1. TTL - 0 + 1 = TTL + 1
    BY TTLAssumption
  <2> QED BY <2>1 DEF Trail
<1>4. Cardinality(V \cup {n}) = TTL + 2
  BY <1>2, <1>3, TTLAssumption
<1>5. V \cup {n} = net.nodes
  <2>1. Cardinality(net.nodes) \in Nat /\ Cardinality(V \cup {n}) <= Cardinality(net.nodes)
    BY <1>1, FS_Subset, FS_CardinalityType
  <2>2. Cardinality(V \cup {n}) = Cardinality(net.nodes)
    BY <1>4, <2>1, TTLAssumption DEF ShortPaths
  <2> QED BY <1>1, <2>2, FS_Subset
<1> QED BY <1>5 DEF Trail

LEMMA FrontierStep ==
  ASSUME TypeOK, Control, Kept, Once, NothingForgotten, Wave, ShortPaths, [Next]_vars
  PROVE  Frontier'
<1> SUFFICES ASSUME NEW m \in Messages, NEW n \in Nodes, Has(m, n)'
             PROVE  PassedOn(m, n)'
  BY DEF Frontier
<1>1. Lasting /\ net' = net
  BY LastingStep DEF Lasting
<1>2. CASE Has(m, n)
  BY <1>2, PassedOnStays DEF Wave, Frontier
<1>3. ASSUME NEW x \in Messages, Broadcast(x), ~Has(m, n)
      PROVE  PassedOn(m, n)'
  <2>1. cli[x] = "broadcast" /\ UNCHANGED heard /\ \A z \in Messages \ {x} : cli'[z] = cli[z]
    BY <1>3 DEF Broadcast, TypeOK, GossipTypeOK
  <2>2. m = x
    BY <1>1, <1>3, <2>1 DEF Has, Lasting, Dead
  <2>3. n = Sender[m]
    BY <2>1, <2>2 DEF Has, Wave, Taken, Aimed
  <2> QED BY <1>1, <1>3, <2>2, <2>3, BroadcastSends, SendsPassOn
<1>4. CASE heard'[n][m] # heard[n][m] /\ n # Sender[m]
  <2>1. PICK c \in Conns :
          /\ conn[n][c].pc = "dispatch" /\ conn[n][c].msg = m
          /\ \/ <<m, n, n>> \in lost'
             \/ conn'[n][c].pc = "forward" /\ conn'[n][c].msg = m
             \/ conn[n][c].ttl = 0
    BY <1>4, HeardGains
  <2>2. CASE conn'[n][c].pc = "forward" /\ conn'[n][c].msg = m
    BY <1>1, <2>2 DEF PassedOn, At, Lasting
  <2>3. <<m, n, n>> \notin lost'
    BY <1>4 DEF Has, Dead
  <2>4. CASE conn[n][c].ttl = 0
    <3>1. PICK V \in SUBSET net.nodes : n \notin V /\ Trail(m, 0, V)
      BY <2>1, <2>4 DEF Wave, Held, HeldBy
    <3>2. n \in net.nodes
      BY <2>1 DEF Wave, Held, HeldBy, Aimed
    <3>3. ASSUME NEW p \in net.peers[n] \ {Sender[m]} PROVE Coming(m, n, p)'
      <4>1. p \in net.nodes /\ p # n /\ p \in Nodes
        BY Links
      <4>2. heard[p][m] > 0
        BY <3>1, <3>2, <4>1, TrailEnds
      <4> QED BY <1>1, <4>1, <4>2 DEF Lasting, Coming
    <3> QED BY <1>1, <3>3 DEF PassedOn
  <2> QED BY <2>1, <2>2, <2>3, <2>4
<1>5. ASSUME \A x \in Messages : ~Broadcast(x), ~Has(m, n)
      PROVE  heard'[n][m] # heard[n][m] /\ n # Sender[m]
  <2>1. cli[m] = "done"
    BY <1>5 DEF Has, Next, Carry, CliAppend, CliAppendFails, Accept, AppendLine, AppendFails, Mark,
       Forward, Restart, HandOver, Dispatch, HandlerRaises, Crash, Replay, gossipVars, vars,
       TypeOK, GossipTypeOK
  <2> QED BY <1>1, <1>5, <2>1 DEF Has, Lasting, Dead
<1> QED BY <1>2, <1>3, <1>4, <1>5

LEMMA WaveStep ==
  ASSUME TypeOK, Control, Kept, Once, FloodInv, [Next]_vars
  PROVE  FloodInv'
<1> SUFFICES ASSUME NothingForgotten' PROVE Wave'
  BY DEF FloodInv
<1>1. net' = net
  BY LastingStep DEF Lasting
<1>2. NothingForgotten
  BY <1>1, SoundGrows, NetType DEF NothingForgotten
<1>3. Wave
  BY <1>2 DEF FloodInv
<1>4. Proper(wire')
  BY <1>3, WireGains DEF Wave
<1>5. ShortPaths' => Frontier'
  BY <1>1, <1>2, <1>3, FrontierStep DEF ShortPaths
<1> QED BY <1>2, <1>3, <1>4, <1>5, CarriedStep, HeldStep, TakenStep, WrittenStep DEF Wave

LEMMA WaveInit == NetworkInit => FloodInv
<1> SUFFICES ASSUME NetworkInit PROVE Wave
  BY DEF FloodInv
<1>1. BagToSet(wire) = {} /\ Proper(wire)
  BY DEF NetworkInit, Init, EmptyBag, SetToBag, BagToSet, Proper
<1>2. /\ \A n \in Nodes : Range(ledger[n]) = {} /\ \A m \in Messages : heard[n][m] = 0
      /\ \A n \in Nodes, c \in Conns : conn[n][c].pc = "idle"
      /\ \A m \in Messages : cli[m] = "ready"
  BY DEF NetworkInit, Init, ForNodes, IdleConn, Range
<1> QED BY <1>1, <1>2 DEF Wave, Carried, Held, HeldBy, Taken, Written, Frontier, Has

LEMMA FloodInvariant == Spec => [](TypeOK /\ Control /\ FloodInv)
<1>1. TypeOK /\ Control /\ Kept /\ Once /\ FloodInv /\ [Next]_vars => FloodInv'
  BY WaveStep
<1> QED BY <1>1, WaveInit, OnceInvariant, PTL DEF Spec
-------------------------------------------------------------------------------
(* When the flood is over, every node that a path of working sends leads   *)
(* to has handled the message, with at most TTL + 2 nodes and no file torn.*)
THEOREM FloodsArrive == Spec => []FloodArrives
<1>1. TypeOK /\ FloodInv => FloodArrives
  <2> SUFFICES ASSUME TypeOK, FloodInv, Quiet, ShortPaths, NothingForgotten,
                      NEW m \in Sent, NEW n \in net.nodes, n # Sender[m], Reached(m, n)
               PROVE  heard[n][m] > 0
    BY DEF FloodArrives, Arrived
  <2>1. Wave /\ Frontier /\ n \in Nodes /\ m \in Messages /\ cli[m] = "done"
    BY NetType DEF FloodInv, Wave, Sent
  <2>2. /\ BagToSet(wire) = {}
        /\ \A x \in Nodes, c \in Conns : conn[x][c].pc = "idle"
    BY DEF Quiet, EmptyBag, SetToBag, BagToSet
  <2> DEFINE S == {Sender[m]} \cup {x \in Nodes : heard[x][m] > 0 /\ ~Dead(m, x)}
  <2>3. ASSUME NEW a \in S, NEW b \in net.peers[a]
        PROVE  <<m, a, b>> \in lost \/ <<m, b, b>> \in lost \/ b \in S
    <3>1. a \in Nodes /\ b \in Nodes /\ Has(m, a)
      BY <2>1, NetType, SenderAssumption DEF Has
    <3>2. PassedOn(m, a) /\ ~At(a, m, {"forward"})
      BY <2>1, <2>2, <3>1 DEF Frontier, At
    <3>3. CASE b # Sender[m]
      <4>1. Coming(m, a, b)
        BY <3>2, <3>3 DEF PassedOn
      <4>2. ~At(b, m, {"append", "mark", "dispatch"})
        BY <2>2, <3>1 DEF At
      <4> QED BY <2>2, <3>1, <4>1, <4>2 DEF Coming, Dead
    <3> QED BY <3>3
  <2>4. S \in SUBSET Nodes /\ Sender[m] \in S
    BY <2>1, SenderAssumption
  <2>5. n \in S
    <3> HIDE DEF S
    <3> QED BY <2>3, <2>4 DEF Reached
  <2> QED BY <2>5
<1> QED BY <1>1, FloodInvariant, PTL

-------------------------------------------------------------------------------
(* Without a failure nothing is lost or torn, every process runs, and a    *)
(* ballot is what was handed over.                                         *)
Calm ==
  /\ lost = {}
  /\ \A n \in Nodes :
       up[n] /\ ~open[n] /\ Sound(n) /\ ballot[n] = {m \in Messages : heard[n][m] > 0}

CalmInv == faults = 0 => Calm

LEMMA FaultsGrow ==
  ASSUME TypeOK, Control, [Next]_vars
  PROVE  faults' = 0 => faults = 0
<1>1. faults \in Nat
  BY NetType DEF TypeOK, GossipTypeOK
<1>2. ASSUME Fault(1) PROVE faults' # 0
  BY <1>1, <1>2 DEF Fault
<1>3. ASSUME NEW S \in SUBSET Nodes, Fault(Cardinality({p \in S : up[p]})), faults' = 0
      PROVE  faults = 0
  <2>1. Cardinality({p \in S : up[p]}) \in Nat
    BY NodesAssumption, FS_Subset, FS_CardinalityType
  <2> QED BY <1>1, <1>3, <2>1 DEF Fault
<1>4. ASSUME NEW m \in Messages, Broadcast(m), faults' = 0 PROVE faults = 0
  <2>1. net.peers[Sender[m]] \in SUBSET Nodes
    BY NetType, SenderAssumption
  <2> QED BY <1>3, <1>4, <2>1 DEF Broadcast, Send
<1>5. ASSUME NEW n \in Nodes, NEW c \in Conns, Forward(n, c), faults' = 0 PROVE faults = 0
  <2>1. FloodTargets(n, conn[n][c].msg) \in SUBSET Nodes
    BY NetType DEF FloodTargets
  <2> QED BY <1>3, <1>5, <2>1 DEF Forward, Send
<1>6. CASE UNCHANGED faults
  BY <1>6
<1> QED
  BY <1>2, <1>4, <1>5, <1>6
  DEF Next, Carry, CliAppend, CliAppendFails, Accept, AppendLine, AppendFails, Mark, Restart,
      HandOver, Dispatch, HandlerRaises, Crash, Replay, gossipVars, history, vars

(* All sends of a loop succeed.                                            *)
LEMMA SendsAll ==
  ASSUME Calm, faults = 0, faults' = 0, NEW m, NEW n, NEW targets \in SUBSET Nodes, NEW copies,
         Send(m, n, targets, copies)
  PROVE  lost' = lost
<1>1. PICK failed \in SUBSET targets :
        /\ Fault(Cardinality({p \in failed : up[p]}))
        /\ lost' = lost \cup {<<m, n, p>> : p \in failed}
  BY DEF Send
<1>2. {p \in failed : up[p]} = failed
  BY DEF Calm
<1>3. IsFiniteSet(failed) /\ Cardinality(failed) \in Nat
  BY NodesAssumption, FS_Subset, FS_CardinalityType
<1>4. Cardinality(failed) = 0
  <2>1. Fault(Cardinality(failed))
    BY <1>1, <1>2
  <2>2. faults' = 0 + Cardinality(failed)
    BY <2>1 DEF Fault
  <2> QED BY <1>3, <2>2
<1>5. failed = {}
  BY <1>3, <1>4, FS_EmptySet
<1> QED BY <1>1, <1>5

LEMMA CalmStep ==
  ASSUME TypeOK, Control, CalmInv, [Next]_vars
  PROVE  CalmInv'
<1> SUFFICES ASSUME faults' = 0 PROVE Calm'
  BY DEF CalmInv
<1>1. faults = 0 /\ Calm
  BY FaultsGrow DEF CalmInv
<1>2. ~Fault(1) /\ \A n \in Nodes : ~Restart(n)
  BY <1>1 DEF Fault, Calm, Restart
<1>3. ASSUME UNCHANGED <<up, ballot, heard>>, lost' = lost, UNCHANGED disk
      PROVE  Calm'
  BY <1>1, <1>3 DEF Calm, disk, Sound
<1>4. ASSUME NEW x \in Nodes, NEW m \in Messages, WriteLine(x, m),
             UNCHANGED <<up, ballot, heard, lost>>
      PROVE  Calm'
  <2>1. ledger[x] \in Seq(Lines) /\ m \in Lines /\ ~open[x]
    BY <1>1 DEF Calm, TypeOK, GossipTypeOK, Lines
  <2>2. Range(Append(ledger[x], m)) = Range(ledger[x]) \cup {m}
    BY <2>1, AppendLines
  <2>3. \A y \in Nodes : ledger'[y] = ledger[y] \/ Range(ledger'[y]) = Range(ledger[y]) \cup {m}
    BY <1>4, <2>1, <2>2 DEF WriteLine, TypeOK, GossipTypeOK
  <2>4. \A y \in Nodes : Torn \notin Range(ledger'[y])
    BY <1>1, <2>3, TornAssumption DEF Calm, Sound
  <2>5. \A y \in Nodes : ~open'[y]
    BY <1>1, <1>4 DEF WriteLine, Calm, TypeOK, GossipTypeOK
  <2> QED BY <1>1, <1>4, <2>4, <2>5 DEF Calm, Sound
<1>5. ASSUME NEW m \in Messages, Broadcast(m), UNCHANGED bridges
      PROVE  Calm'
  <2>1. net.peers[Sender[m]] \in SUBSET Nodes
    BY SenderAssumption, NetType
  <2>2. lost' = lost
    BY <1>1, <1>5, <2>1, SendsAll DEF Broadcast
  <2> QED BY <1>3, <1>5, <2>2 DEF Broadcast, bridges
<1>6. ASSUME NEW n \in Nodes, NEW c \in Conns, Forward(n, c), UNCHANGED bridges
      PROVE  Calm'
  <2>1. FloodTargets(n, conn[n][c].msg) \in SUBSET Nodes
    BY NetType DEF FloodTargets
  <2>2. lost' = lost
    BY <1>1, <1>6, <2>1, SendsAll DEF Forward
  <2> QED BY <1>3, <1>6, <2>2 DEF Forward, bridges
<1>7. ASSUME NEW n \in Nodes, NEW c \in Conns, Dispatch(n, c), Count(n, conn[n][c].msg)
      PROVE  Calm'
  <2>1. PICK m \in Messages : m = conn[n][c].msg
    BY <1>7, ThreadType DEF Dispatch
  <2>2. /\ heard' = [heard EXCEPT ![n][m] = @ + 1]
        /\ ballot' = [ballot EXCEPT ![n] = @ \cup {m}]
        /\ UNCHANGED <<up, lost, disk>>
    BY <1>7, <2>1 DEF Dispatch, Count
  <2>3. heard \in [Nodes -> [Messages -> Nat]] /\ ballot \in [Nodes -> SUBSET Messages]
    BY DEF TypeOK, GossipTypeOK
  <2>4. ballot'[n] = {x \in Messages : heard'[n][x] > 0}
    <3>1. /\ heard'[n][m] > 0 /\ \A x \in Messages \ {m} : heard'[n][x] = heard[n][x]
          /\ ballot'[n] = ballot[n] \cup {m}
      BY <2>2, <2>3
    <3> QED BY <1>1, <3>1 DEF Calm
  <2>5. \A y \in Nodes \ {n} : ballot'[y] = ballot[y] /\ heard'[y] = heard[y]
    BY <2>2, <2>3
  <2> QED BY <1>1, <2>2, <2>4, <2>5 DEF Calm, Sound, disk
<1>8. ASSUME NEW m \in Messages, CliAppend(m), UNCHANGED bridges
      PROVE  Calm'
  BY <1>4, <1>8, SenderAssumption DEF CliAppend, history, bridges
<1>9. ASSUME NEW n \in Nodes, NEW c \in Conns, AppendLine(n, c), UNCHANGED bridges
      PROVE  Calm'
  <2>1. conn[n][c].msg \in Messages
    BY <1>9, ThreadType DEF AppendLine
  <2> QED BY <1>3, <1>4, <1>9, <2>1 DEF AppendLine, history, bridges
<1> QED
  BY <1>2, <1>3, <1>5, <1>6, <1>7, <1>8, <1>9
  DEF Next, Carry, HandOver, CliAppendFails, Accept, AppendFails, Mark, HandlerRaises, Crash,
      Replay, gossipVars, history, bridges, vars

LEMMA CalmInvariant == Spec => [](TypeOK /\ Control /\ FloodInv /\ CalmInv)
<1>1. NetworkInit => CalmInv
  BY DEF NetworkInit, Init, ForNodes, CalmInv, Calm, Sound, Range
<1>2. TypeOK /\ Control /\ CalmInv /\ [Next]_vars => CalmInv'
  BY CalmStep
<1> QED BY <1>1, <1>2, FloodInvariant, PTL DEF Spec

(* When the flood is over and nothing failed, the ballot of a bridge holds *)
(* exactly the messages that another node has sent and that a path of      *)
(* peers leads to it, if there are at most TTL + 2 nodes: the seen test    *)
(* and the TTL stop no message early, and a node never hears its own.      *)
FloodSettles ==
  Quiet /\ faults = 0 /\ ShortPaths =>
    \A n \in net.nodes : ballot[n] = {m \in Sent : n # Sender[m] /\ Reached(m, n)}

LEMMA Settles ==
  ASSUME TypeOK, FloodInv, CalmInv, FloodArrives
  PROVE  FloodSettles
<1> SUFFICES ASSUME Quiet, faults = 0, ShortPaths, NEW n \in net.nodes
             PROVE  ballot[n] = {m \in Sent : n # Sender[m] /\ Reached(m, n)}
  BY DEF FloodSettles
<1>1. Calm /\ n \in Nodes
  BY NetType DEF CalmInv
<1>2. NothingForgotten
  BY <1>1, NetType DEF NothingForgotten, Calm
<1>3. ballot[n] = {m \in Messages : heard[n][m] > 0} /\ lost = {}
  BY <1>1 DEF Calm
<1>4. ASSUME NEW m \in Messages, heard[n][m] > 0
      PROVE  m \in Sent /\ n # Sender[m] /\ Reached(m, n)
  BY <1>1, <1>2, <1>3, <1>4 DEF FloodInv, Wave, Taken, Aimed, Leads, Reached, Sent
<1>5. ASSUME NEW m \in Sent, n # Sender[m], Reached(m, n)
      PROVE  m \in Messages /\ heard[n][m] > 0
  BY <1>2, <1>5 DEF FloodArrives, Arrived, Sent
<1> QED BY <1>3, <1>4, <1>5

(* A flood without a failure leaves in each ballot all that the others     *)
(* sent and nothing else.                                                  *)
THEOREM FloodTakenWhole == Spec => []FloodSettles
<1>1. TypeOK /\ FloodInv /\ CalmInv /\ FloodArrives => FloodSettles
  BY Settles
<1> QED BY <1>1, CalmInvariant, FloodsArrive, PTL
-------------------------------------------------------------------------------
(* A deployment in which every node reaches every other over the peers,    *)
(* within the TTL, and whose messages its own nodes send.                  *)
Connected(d) ==
  \A S \in SUBSET d.nodes :
    S # {} /\ (\A a \in S : d.peers[a] \subseteq S) => S = d.nodes

Complete(d) ==
  /\ Cardinality(d.nodes) <= TTL + 2 /\ Connected(d)
  /\ \A m \in d.messages : Sender[m] \in d.nodes

(* Only messages of the deployment are sent.                               *)
Chosen == \A m \in Messages : cli[m] # "ready" => m \in net.messages

LEMMA ChosenStep ==
  ASSUME TypeOK, Control, Chosen, [Next]_vars
  PROVE  Chosen'
<1>1. net' = net
  BY IssuedGrows
<1>2. ASSUME NEW m \in Messages, CliAppend(m) \/ CliAppendFails(m) PROVE Chosen'
  BY <1>1, <1>2 DEF Chosen, CliAppend, CliAppendFails, TypeOK, GossipTypeOK
<1>3. ASSUME NEW m \in Messages, Broadcast(m) PROVE Chosen'
  BY <1>1, <1>3 DEF Chosen, Broadcast, TypeOK, GossipTypeOK
<1>4. CASE UNCHANGED cli
  BY <1>1, <1>4 DEF Chosen
<1> QED
  BY <1>2, <1>3, <1>4
  DEF Next, Carry, Accept, AppendLine, AppendFails, Mark, Forward, Restart, HandOver,
      Dispatch, HandlerRaises, Crash, Replay, gossipVars, vars

LEMMA ChosenInvariant == Spec => [](TypeOK /\ CalmInv /\ FloodSettles /\ Chosen)
<1>1. NetworkInit => Chosen
  BY DEF NetworkInit, Init, Chosen
<1>2. TypeOK /\ Control /\ Chosen /\ [Next]_vars => Chosen'
  BY ChosenStep
<1> QED BY <1>1, <1>2, CalmInvariant, FloodTakenWhole, PTL DEF Spec

LEMMA AllReached ==
  ASSUME TypeOK, Complete(net), lost = {}, NEW m \in Messages, Sender[m] \in net.nodes,
         NEW n \in net.nodes
  PROVE  Reached(m, n)
<1> SUFFICES ASSUME NEW S \in SUBSET Nodes, Sender[m] \in S,
                    \A a \in S : \A b \in net.peers[a] : b \in S
             PROVE  n \in S
  BY DEF Reached
<1> DEFINE T == S \cap net.nodes
<1>1. ASSUME NEW a \in T PROVE net.peers[a] \subseteq T
  BY NetType, Links
<1>2. T \in SUBSET net.nodes /\ T # {}
  OBVIOUS
<1>3. T = net.nodes
  <2> HIDE DEF T
  <2> QED BY <1>1, <1>2 DEF Complete, Connected
<1> QED BY <1>3

(* In deployments where every node can reach every other, the bridge of a  *)
(* node has a quorum after a flood without failures exactly when the other *)
(* nodes are one.                                                          *)
THEOREM OthersDecide ==
  ASSUME \A d \in Deployments : Complete(d)
  PROVE  Spec => []OthersMakeTheQuorum
<1>1. TypeOK /\ CalmInv /\ FloodSettles /\ Chosen => OthersMakeTheQuorum
  <2> SUFFICES ASSUME TypeOK, CalmInv, FloodSettles, Chosen, Quiet, faults = 0, NEW n \in net.nodes
               PROVE  Approves(ballot[n]) <=> Approves({m \in Sent : Sender[m] # n})
    BY DEF OthersMakeTheQuorum
  <2>1. Complete(net) /\ lost = {}
    BY DEF TypeOK, GossipTypeOK, CalmInv, Calm
  <2>2. ballot[n] = {m \in Sent : n # Sender[m] /\ Reached(m, n)}
    BY <2>1 DEF FloodSettles, Complete, ShortPaths
  <2>3. \A m \in Sent : m \in Messages /\ Sender[m] \in net.nodes
    BY <2>1 DEF Sent, Chosen, Complete
  <2>4. \A m \in Sent : Reached(m, n)
    BY <2>1, <2>3, AllReached
  <2>5. ballot[n] = {m \in Sent : Sender[m] # n}
    BY <2>2, <2>4
  <2> QED BY <2>5
<1> QED BY <1>1, ChosenInvariant, PTL
-------------------------------------------------------------------------------
(* What a torn line costs.                                                 *)

(* The lines that end in a newline: a line written next does not change    *)
(* them.                                                                   *)
Closed(n) == IF open[n] THEN Len(ledger[n]) - 1 ELSE Len(ledger[n])
Gaps(n) == {i \in 1..Closed(n) : ledger[n][i] = Torn}
Whole(n) == {ledger[n][i] : i \in 1..Closed(n)}

(* What n has written to its file and handed over, sent, or is about to.   *)
Logged(n) ==
  {m \in Messages : \/ heard[n][m] > 0
                    \/ Sender[m] = n /\ cli[m] \in {"broadcast", "done"}
                    \/ At(n, m, {"mark", "dispatch"})}

(* A thread that finds its message seen when it comes to append it has     *)
(* another one of the same process to thank for that.                      *)
Repeats(n) ==
  \A c \in Conns :
    conn[n][c].pc = "append" /\ conn[n][c].msg \in seen[n] => conn[n][c].msg \in Logged(n)

(* Each element of S has an element of T for itself.                       *)
Matched(S, T) == \E f \in [S -> T] : \A a, b \in S : f[a] = f[b] => a = b

Accounted == \A n \in Nodes : Repeats(n) /\ Matched(Logged(n) \ Whole(n), Gaps(n))

LEMMA MatchedLess ==
  ASSUME NEW S, NEW T, NEW S1 \in SUBSET S, NEW T1, T \subseteq T1, Matched(S, T)
  PROVE  Matched(S1, T1)
<1>1. PICK f \in [S -> T] : \A a, b \in S : f[a] = f[b] => a = b
  BY DEF Matched
<1>2. [x \in S1 |-> f[x]] \in [S1 -> T1]
  BY <1>1
<1> QED BY <1>1, <1>2 DEF Matched

LEMMA MatchedMore ==
  ASSUME NEW S, NEW T, NEW x, NEW y, y \notin T, Matched(S, T)
  PROVE  Matched(S \cup {x}, T \cup {y})
<1>1. PICK f \in [S -> T] : \A a, b \in S : f[a] = f[b] => a = b
  BY DEF Matched
<1>2. CASE x \in S
  BY <1>2, MatchedLess
<1>3. CASE x \notin S
  <2> DEFINE g == [a \in S \cup {x} |-> IF a = x THEN y ELSE f[a]]
  <2>1. g \in [S \cup {x} -> T \cup {y}]
    BY <1>1
  <2>2. \A a, b \in S \cup {x} : g[a] = g[b] => a = b
    BY <1>1, <1>3
  <2> QED BY <2>1, <2>2 DEF Matched
<1> QED BY <1>2, <1>3

(* A write keeps the closed lines; a whole one closes one more.            *)
Longer(n) ==
  /\ Closed(n)' = Closed(n) + 1
  /\ \A i \in 1..Closed(n) : ledger'[n][i] = ledger[n][i]

AsLong(n) ==
  /\ Closed(n)' = Closed(n)
  /\ \A i \in 1..Closed(n) : ledger'[n][i] = ledger[n][i]

LEMMA FileLines ==
  ASSUME TypeOK, Control, NEW n \in Nodes
  PROVE  /\ ledger[n] \in Seq(Lines) /\ Len(ledger[n]) \in Nat /\ open[n] \in BOOLEAN
         /\ DOMAIN ledger[n] = 1..Len(ledger[n])
         /\ Closed(n) \in Nat /\ Closed(n) <= Len(ledger[n])
         /\ open[n] => ledger[n] # <<>> /\ Len(ledger[n]) = Closed(n) + 1
         /\ ~open[n] => Len(ledger[n]) = Closed(n)
<1>1. ledger[n] \in Seq(Lines) /\ open[n] \in BOOLEAN /\ (open[n] => ledger[n] # <<>>)
  BY DEF TypeOK, GossipTypeOK, Control, Lines
<1>2. Len(ledger[n]) \in Nat /\ (ledger[n] # <<>> => Len(ledger[n]) > 0)
      /\ DOMAIN ledger[n] = 1..Len(ledger[n])
  BY <1>1
<1> QED BY <1>1, <1>2 DEF Closed

LEMMA FrontKeeps ==
  ASSUME NEW s \in Seq(Lines), s # <<>>, NEW line \in Lines
  PROVE  /\ Len(Append(Front(s), line)) = Len(s)
         /\ \A i \in 1..Len(s) - 1 : Append(Front(s), line)[i] = s[i]
         /\ Append(Front(s), line)[Len(s)] = line
<1>1. Len(s) \in Nat /\ Len(s) > 0
  OBVIOUS
<1>2. Front(s) = [i \in 1..Len(s) - 1 |-> s[i]]
  BY DEF Front
<1>3. Front(s) \in Seq(Lines) /\ Len(Front(s)) = Len(s) - 1
  BY <1>1, <1>2
<1> QED BY <1>1, <1>2, <1>3

LEMMA LineCloses ==
  ASSUME TypeOK, Control, NEW n \in Nodes, NEW m \in Messages, WriteLine(n, m)
  PROVE  /\ Longer(n)
         /\ ledger'[n][Closed(n) + 1] = (IF open[n] THEN Torn ELSE m)
         /\ \A x \in Nodes \ {n} : AsLong(x)
<1>0. /\ ledger \in [Nodes -> Seq(Lines)] /\ open \in [Nodes -> BOOLEAN]
      /\ Torn \in Lines /\ m \in Lines
  BY DEF TypeOK, GossipTypeOK, Lines
<1>1. open' = [open EXCEPT ![n] = FALSE] /\ open'[n] = FALSE
  BY <1>0 DEF WriteLine
<1>2. \A x \in Nodes \ {n} : AsLong(x)
  BY <1>0, <1>1 DEF WriteLine, AsLong, Closed
<1>3. CASE open[n]
  <2>1. ledger'[n] = Append(Front(ledger[n]), Torn)
    BY <1>0, <1>3 DEF WriteLine
  <2>2. /\ Len(ledger'[n]) = Len(ledger[n]) /\ ledger'[n][Len(ledger[n])] = Torn
        /\ \A i \in 1..Len(ledger[n]) - 1 : ledger'[n][i] = ledger[n][i]
    BY <1>0, <1>3, <2>1, FileLines, FrontKeeps
  <2> QED BY <1>1, <1>2, <1>3, <2>2, FileLines DEF Longer, Closed
<1>4. CASE ~open[n]
  <2>1. ledger'[n] = Append(ledger[n], m)
    BY <1>0, <1>4 DEF WriteLine
  <2>2. /\ Len(ledger'[n]) = Len(ledger[n]) + 1 /\ ledger'[n][Len(ledger[n]) + 1] = m
        /\ \A i \in 1..Len(ledger[n]) : ledger'[n][i] = ledger[n][i]
    BY <1>0, <2>1, FileLines
  <2> QED BY <1>1, <1>2, <1>4, <2>2, FileLines DEF Longer, Closed
<1> QED BY <1>0, <1>3, <1>4

LEMMA PartCloses ==
  ASSUME TypeOK, Control, NEW n \in Nodes, NEW m \in Messages, WritePart(n, m), NEW x \in Nodes
  PROVE  AsLong(x)
<1>0. /\ ledger \in [Nodes -> Seq(Lines)] /\ open \in [Nodes -> BOOLEAN]
      /\ Torn \in Lines /\ m \in Lines
  BY DEF TypeOK, GossipTypeOK, Lines
<1>1. CASE UNCHANGED disk
  BY <1>1 DEF disk, AsLong, Closed
<1>2. CASE ~ UNCHANGED disk
  <2>1. PICK line \in {Torn, m} :
          /\ open' = [open EXCEPT ![n] = TRUE]
          /\ ledger' = [ledger EXCEPT ![n] = Append(IF open[n] THEN Front(ledger[n]) ELSE ledger[n], line)]
    BY <1>0, <1>2 DEF WritePart
  <2>2. CASE x # n
    BY <1>0, <2>1, <2>2 DEF AsLong, Closed
  <2>3. CASE x = n /\ open[n]
    <3>1. ledger'[n] = Append(Front(ledger[n]), line) /\ open'[n] = TRUE
      BY <1>0, <2>1, <2>3
    <3>2. /\ Len(ledger'[n]) = Len(ledger[n])
          /\ \A i \in 1..Len(ledger[n]) - 1 : ledger'[n][i] = ledger[n][i]
      BY <1>0, <2>3, <3>1, FileLines, FrontKeeps
    <3> QED BY <2>3, <3>1, <3>2, FileLines DEF AsLong, Closed
  <2>4. CASE x = n /\ ~open[n]
    <3>1. ledger'[n] = Append(ledger[n], line) /\ open'[n] = TRUE
      BY <1>0, <2>1, <2>4
    <3>2. /\ Len(ledger'[n]) = Len(ledger[n]) + 1
          /\ \A i \in 1..Len(ledger[n]) : ledger'[n][i] = ledger[n][i]
      BY <1>0, <3>1, FileLines
    <3> QED BY <2>4, <3>1, <3>2, FileLines DEF AsLong, Closed
  <2> QED BY <1>0, <2>2, <2>3, <2>4
<1> QED BY <1>1, <1>2

LEMMA FileCases ==
  ASSUME TypeOK, Control, [Next]_vars, NEW n \in Nodes
  PROVE  Longer(n) \/ AsLong(n)
<1>1. ASSUME NEW x \in Nodes, NEW m \in Messages, WriteLine(x, m) \/ WritePart(x, m)
      PROVE  Longer(n) \/ AsLong(n)
  BY <1>1, LineCloses, PartCloses
<1>2. CASE UNCHANGED disk
  BY <1>2 DEF disk, AsLong, Closed
<1>3. ASSUME NEW m \in Messages, CliAppend(m) \/ CliAppendFails(m)
      PROVE  Longer(n) \/ AsLong(n)
  BY <1>1, <1>3, SenderAssumption DEF CliAppend, CliAppendFails
<1>4. ASSUME NEW x \in Nodes, NEW c \in Conns, conn[x][c].pc # "idle",
             WriteLine(x, conn[x][c].msg) \/ WritePart(x, conn[x][c].msg)
      PROVE  Longer(n) \/ AsLong(n)
  BY <1>1, <1>4, ThreadType
<1>5. \/ UNCHANGED disk
      \/ \E m \in Messages : CliAppend(m) \/ CliAppendFails(m)
      \/ \E x \in Nodes, c \in Conns :
           /\ conn[x][c].pc # "idle"
           /\ WriteLine(x, conn[x][c].msg) \/ WritePart(x, conn[x][c].msg)
  BY DEF Next, Carry, Broadcast, Accept, AppendLine, AppendFails, Mark, Forward, Restart,
         HandOver, Dispatch, HandlerRaises, Crash, Replay, gossipVars, vars
<1> QED BY <1>2, <1>3, <1>4, <1>5

(* Only receive's append step takes a message from a connection to the     *)
(* file, or past it.                                                       *)
LEMMA AppendMoves ==
  ASSUME TypeOK, Control, [Next]_vars, NEW n \in Nodes, NEW c \in Conns,
         conn[n][c].pc = "append", conn'[n][c].pc \in {"mark", "dispatch"}
  PROVE  AppendLine(n, c)
<1>1. conn \in [Nodes -> [Conns -> Thread]]
  BY ThreadType
<1>2. ASSUME NEW x \in Nodes, NEW y \in Conns, AppendLine(x, y)
      PROVE  x = n /\ y = c
  <2>1. PICK label \in {"dispatch", "mark"} : Step(x, y, label) /\ label \in Labels
    BY <1>2 DEF AppendLine, Labels
  <2> QED BY <2>1, OneStep
<1>3. ASSUME NEW x \in Nodes, NEW y \in Conns, NEW label \in Labels, Step(x, y, label),
             conn[x][y].pc \in {"mark", "dispatch"}
      PROVE  FALSE
  BY <1>3, OneStep
<1>4. ASSUME NEW x \in Nodes, NEW y \in Conns, Close(x, y)
      PROVE  FALSE
  BY <1>4, OneClose
<1>5. ASSUME NEW x \in Nodes, NEW y \in Conns, Accept(x, y)
      PROVE  FALSE
  BY <1>1, <1>5 DEF Accept
<1>6. ASSUME NEW x \in Nodes, Crash(x)
      PROVE  FALSE
  <2>1. conn' = [conn EXCEPT ![x] = [y \in Conns |-> IdleConn]]
    BY <1>6 DEF Crash
  <2> QED BY <1>1, <2>1 DEF IdleConn
<1>7. conn' # conn
  OBVIOUS
<1> QED
  BY <1>2, <1>3, <1>4, <1>5, <1>6, <1>7
  DEF Next, Carry, CliAppend, CliAppendFails, Broadcast, AppendFails, Mark, Forward, Restart,
      HandOver, Dispatch, HandlerRaises, Replay, gossipVars, vars, Labels

(* A step logs one message, which it writes to the file, or none.          *)
LEMMA LoggedCases ==
  ASSUME TypeOK, Control, [Next]_vars, NEW n \in Nodes, Repeats(n)
  PROVE  \/ Logged(n)' \subseteq Logged(n)
         \/ \E m \in Messages : WriteLine(n, m) /\ Logged(n)' \subseteq Logged(n) \cup {m}
<1>0. Conns' = Conns
  BY LastingStep DEF Lasting
<1>1. ASSUME NEW x \in Messages, CliAppend(x)
      PROVE  \/ Logged(n)' \subseteq Logged(n)
             \/ WriteLine(n, x) /\ Logged(n)' \subseteq Logged(n) \cup {x}
  <2>1. WriteLine(Sender[x], x) /\ UNCHANGED <<conn, heard>>
    BY <1>1 DEF CliAppend, history
  <2>2. \A m \in Messages \ {x} : cli'[m] = cli[m]
    BY <1>1 DEF CliAppend, TypeOK, GossipTypeOK
  <2>3. \A m \in Messages : At(n, m, {"mark", "dispatch"})' => At(n, m, {"mark", "dispatch"})
    BY <1>0, <2>1 DEF At
  <2>4. \A m \in Logged(n)' : m \in Logged(n) \/ (m = x /\ Sender[x] = n)
    BY <2>1, <2>2, <2>3 DEF Logged
  <2> QED BY <2>1, <2>4
<1>2. ASSUME NEW x \in Nodes, NEW y \in Conns, AppendLine(x, y)
      PROVE  \/ Logged(n)' \subseteq Logged(n)
             \/ \E m \in Messages : WriteLine(n, m) /\ Logged(n)' \subseteq Logged(n) \cup {m}
  <2>1. PICK m \in Messages : m = conn[x][y].msg
    BY <1>2, ThreadType DEF AppendLine
  <2>2. PICK label \in {"dispatch", "mark"} :
          /\ Step(x, y, label) /\ label \in Labels /\ conn[x][y].pc = "append"
          /\ label = "dispatch" => m \in seen[x]
          /\ label = "mark" => WriteLine(x, m)
    BY <1>2, <2>1 DEF AppendLine, Duplicate, Labels
  <2>3. \A z \in Messages : At(n, z, {"mark", "dispatch"})' =>
          At(n, z, {"mark", "dispatch"}) \/ (z = m /\ x = n)
    BY <1>0, <2>1, <2>2, OneStep DEF At
  <2>4. UNCHANGED <<cli, heard>>
    BY <1>2 DEF AppendLine, history
  <2>5. Logged(n)' \subseteq Logged(n) \cup (IF x = n THEN {m} ELSE {})
    BY <2>3, <2>4 DEF Logged
  <2>6. x = n /\ label = "dispatch" => m \in Logged(n)
    BY <2>1, <2>2 DEF Repeats
  <2> QED BY <2>2, <2>5, <2>6
<1>3. ASSUME \A x \in Messages : ~ CliAppend(x), \A x \in Nodes, y \in Conns : ~ AppendLine(x, y),
             NEW m \in Logged(n)'
      PROVE  m \in Logged(n)
  <2>1. m \in Messages
    BY DEF Logged
  <2>2. CASE heard'[n][m] > 0
    <3>1. heard'[n][m] = heard[n][m] \/ At(n, m, {"mark", "dispatch"})
      BY <2>1, HeardGains DEF At
    <3> QED BY <2>1, <2>2, <3>1 DEF Logged
  <2>3. CASE Sender[m] = n /\ cli'[m] \in {"broadcast", "done"}
    <3>1. ASSUME NEW x \in Messages, CliAppendFails(x) \/ Broadcast(x)
          PROVE  cli[m] \in {"broadcast", "done"}
      BY <2>1, <2>3, <3>1 DEF CliAppendFails, Broadcast, TypeOK, GossipTypeOK
    <3>2. ASSUME UNCHANGED cli PROVE cli[m] \in {"broadcast", "done"}
      BY <2>3, <3>2
    <3>3. cli[m] \in {"broadcast", "done"}
      BY <1>3, <3>1, <3>2
      DEF Next, Carry, Accept, AppendFails, Mark, Forward, Restart, HandOver,
          Dispatch, HandlerRaises, Crash, Replay, gossipVars, vars
    <3> QED BY <2>1, <2>3, <3>3 DEF Logged
  <2>4. CASE At(n, m, {"mark", "dispatch"})'
    <3>1. PICK c \in Conns : conn'[n][c].pc \in {"mark", "dispatch"} /\ conn'[n][c].msg = m
      BY <1>0, <2>4 DEF At
    <3>2. conn[n][c].pc \in {"mark", "dispatch"} /\ conn[n][c].msg = m
      BY <1>3, <3>1, Moves, AppendMoves DEF Stays, Takes, GoesOn, Ends
    <3> QED BY <2>1, <3>2 DEF Logged, At
  <2> QED BY <2>2, <2>3, <2>4 DEF Logged
<1> QED BY <1>1, <1>2, <1>3

(* A thread that ends after append has handed its message over, unless its *)
(* process died.                                                           *)
LEMMA EndsHanded ==
  ASSUME TypeOK, Control, [Next]_vars, NEW n \in Nodes, NEW c \in Conns, ~ Crash(n),
         conn[n][c].pc \in {"mark", "dispatch"}, conn'[n][c].pc = "idle"
  PROVE  heard'[n][conn[n][c].msg] > 0
<1>1. conn \in [Nodes -> [Conns -> Thread]]
  BY ThreadType
<1>2. ASSUME NEW x \in Nodes, NEW y \in Conns, Dispatch(x, y) \/ HandlerRaises(x, y)
      PROVE  heard'[n][conn[n][c].msg] > 0
  <2>1. Close(x, y) \/ Step(x, y, "forward")
    BY <1>2 DEF Dispatch, HandlerRaises
  <2>2. x = n /\ y = c
    BY <2>1, OneStep, OneClose DEF Labels
  <2> QED BY <1>2, <2>2, HandsOver
<1>3. ASSUME NEW x \in Nodes, NEW y \in Conns, NEW label \in Labels, Step(x, y, label),
             label # "idle"
      PROVE  FALSE
  BY <1>3, OneStep
<1>4. ASSUME NEW x \in Nodes, NEW y \in Conns, Close(x, y), conn[x][y].pc \in {"append", "forward"}
      PROVE  FALSE
  BY <1>4, OneClose
<1>5. ASSUME NEW x \in Nodes, NEW y \in Conns, Accept(x, y)
      PROVE  FALSE
  BY <1>1, <1>5 DEF Accept
<1>6. ASSUME NEW x \in Nodes \ {n}, Crash(x)
      PROVE  FALSE
  <2>1. conn' = [conn EXCEPT ![x] = [y \in Conns |-> IdleConn]]
    BY <1>6 DEF Crash
  <2> QED BY <1>1, <2>1
<1>7. conn' # conn
  OBVIOUS
<1>8. ASSUME NEW x \in Nodes, NEW y \in Conns, AppendLine(x, y) \/ Mark(x, y)
      PROVE  FALSE
  <2>1. \E label \in {"mark", "dispatch"} : Step(x, y, label)
    BY <1>8 DEF AppendLine, Mark
  <2> QED BY <1>3, <2>1 DEF Labels
<1>9. ASSUME NEW x \in Nodes, NEW y \in Conns, AppendFails(x, y) \/ Forward(x, y)
      PROVE  FALSE
  BY <1>4, <1>9 DEF AppendFails, Forward
<1> QED
  BY <1>2, <1>5, <1>6, <1>7, <1>8, <1>9
  DEF Next, Carry, CliAppend, CliAppendFails, Broadcast, Restart, HandOver, Replay,
      gossipVars, vars

LEMMA CliLasts ==
  ASSUME TypeOK, Control, [Next]_vars, NEW m \in Messages, cli[m] \in {"broadcast", "done"}
  PROVE  cli'[m] \in {"broadcast", "done"}
<1>1. ASSUME NEW x \in Messages, CliAppend(x) \/ CliAppendFails(x) \/ Broadcast(x)
      PROVE  cli'[m] \in {"broadcast", "done"}
  BY <1>1 DEF CliAppend, CliAppendFails, Broadcast, TypeOK, GossipTypeOK
<1>2. ASSUME UNCHANGED cli PROVE cli'[m] \in {"broadcast", "done"}
  BY <1>2
<1>3. ASSUME Carry PROVE cli'[m] \in {"broadcast", "done"}
  BY <1>1, <1>2, <1>3 DEF Carry, Accept, AppendLine, AppendFails, Mark, Forward, Restart
<1>4. ASSUME NEW n \in Nodes, Crash(n) PROVE UNCHANGED cli
  BY <1>4 DEF Crash
<1>5. ASSUME NEW n \in Nodes, NEW c \in Conns, HandOver(n, c) PROVE UNCHANGED cli
  BY <1>5 DEF HandOver, Dispatch, HandlerRaises
<1> QED BY <1>2, <1>3, <1>4, <1>5 DEF Next, Replay, gossipVars, vars

(* What is logged stays logged while the process lives.                    *)
LEMMA LoggedGrows ==
  ASSUME TypeOK, Control, [Next]_vars, NEW n \in Nodes, NEW m \in Logged(n), ~ Crash(n)
  PROVE  m \in Logged(n)'
<1>0. m \in Messages /\ Lasting
  BY LastingStep DEF Logged
<1>1. CASE heard[n][m] > 0
  BY <1>0, <1>1 DEF Logged, Lasting
<1>2. CASE Sender[m] = n /\ cli[m] \in {"broadcast", "done"}
  BY <1>0, <1>2, CliLasts DEF Logged
<1>3. CASE At(n, m, {"mark", "dispatch"})
  <2>1. PICK c \in Conns : conn[n][c].pc \in {"mark", "dispatch"} /\ conn[n][c].msg = m
    BY <1>3 DEF At
  <2>2. \/ conn'[n][c].pc \in {"mark", "dispatch"} /\ conn'[n][c].msg = m
        \/ heard'[n][m] > 0
    <3>1. CASE Stays(n, c) \/ Takes(n, c)
      BY <2>1, <3>1 DEF Stays, Takes
    <3>2. CASE GoesOn(n, c)
      BY <2>1, <3>2 DEF GoesOn
    <3>3. CASE Ends(n, c)
      BY <2>1, <3>3, EndsHanded DEF Ends
    <3> QED BY <3>1, <3>2, <3>3, Moves
  <2> QED BY <1>0, <2>1, <2>2 DEF Logged, At, Lasting
<1> QED BY <1>1, <1>2, <1>3 DEF Logged

(* A step that opens no gap and logs nothing new, and one that does.       *)
LEMMA LessLogged ==
  ASSUME TypeOK, Control, NEW n \in Nodes, Longer(n) \/ AsLong(n),
         Logged(n)' \subseteq Logged(n), Matched(Logged(n) \ Whole(n), Gaps(n))
  PROVE  Matched((Logged(n) \ Whole(n))', Gaps(n)')
<1>1. Closed(n) \in Nat /\ Closed(n)' \in Nat /\ Closed(n) <= Closed(n)'
  BY FileLines DEF Longer, AsLong
<1>2. \A i \in 1..Closed(n) : i \in 1..Closed(n)' /\ ledger'[n][i] = ledger[n][i]
  BY <1>1 DEF Longer, AsLong
<1>3. Gaps(n) \subseteq Gaps(n)' /\ Whole(n) \subseteq Whole(n)'
  BY <1>2 DEF Gaps, Whole
<1> QED BY <1>3, MatchedLess

LEMMA MoreLogged ==
  ASSUME TypeOK, Control, NEW n \in Nodes, NEW m \in Messages, WriteLine(n, m),
         Logged(n)' \subseteq Logged(n) \cup {m}, Matched(Logged(n) \ Whole(n), Gaps(n))
  PROVE  Matched((Logged(n) \ Whole(n))', Gaps(n)')
<1> DEFINE k == Closed(n) + 1
<1>1. Closed(n) \in Nat /\ Closed(n)' = k
  BY FileLines, LineCloses DEF Longer
<1>2. /\ \A i \in 1..Closed(n) : i \in 1..Closed(n)' /\ ledger'[n][i] = ledger[n][i]
      /\ k \in 1..Closed(n)' /\ k \notin 1..Closed(n)
      /\ ledger'[n][k] = (IF open[n] THEN Torn ELSE m)
  BY <1>1, LineCloses DEF Longer
<1> HIDE DEF k
<1>3. Gaps(n) \subseteq Gaps(n)' /\ Whole(n) \subseteq Whole(n)' /\ k \notin Gaps(n)
  BY <1>2 DEF Gaps, Whole
<1>4. CASE open[n]
  <2>1. k \in Gaps(n)'
    BY <1>2, <1>4 DEF Gaps
  <2>2. Matched((Logged(n) \ Whole(n)) \cup {m}, Gaps(n) \cup {k})
    BY <1>3, MatchedMore
  <2>3. (Logged(n) \ Whole(n))' \subseteq (Logged(n) \ Whole(n)) \cup {m}
    BY <1>3
  <2> QED BY <1>3, <2>1, <2>2, <2>3, MatchedLess
<1>5. CASE ~open[n]
  <2>1. m \in Whole(n)'
    BY <1>2, <1>5 DEF Whole
  <2>2. (Logged(n) \ Whole(n))' \subseteq Logged(n) \ Whole(n)
    BY <1>3, <2>1
  <2> QED BY <1>3, <2>2, MatchedLess
<1> QED BY <1>4, <1>5

(* What a process sees for the first time, one of its threads has written  *)
(* and marked.                                                             *)
LEMMA SeenMarked ==
  ASSUME TypeOK, Control, [Next]_vars, NEW n \in Nodes, NEW m \in Messages,
         up[n], m \in seen'[n], m \notin seen[n]
  PROVE  At(n, m, {"mark"})
<1>1. seen \in [Nodes -> SUBSET Messages]
  BY DEF TypeOK, GossipTypeOK
<1>2. ASSUME NEW x \in Nodes, NEW y \in Conns, Mark(x, y)
      PROVE  At(n, m, {"mark"})
  BY <1>1, <1>2 DEF Mark, At
<1>3. ASSUME NEW x \in Nodes, Crash(x) \/ Restart(x)
      PROVE  FALSE
  <2>1. /\ seen'[x] = {} \/ ~ up[x]
        /\ \A z \in Nodes \ {x} : seen'[z] = seen[z]
    BY <1>1, <1>3 DEF Crash, Restart
  <2> QED BY <2>1
<1> QED
  BY <1>2, <1>3
  DEF Next, Carry, CliAppend, CliAppendFails, Broadcast, Accept, AppendLine, AppendFails, Forward,
      HandOver, Dispatch, HandlerRaises, Replay, gossipVars, vars

LEMMA RepeatsStep ==
  ASSUME TypeOK, Control, [Next]_vars, NEW n \in Nodes, Repeats(n)
  PROVE  Repeats(n)'
<1> SUFFICES ASSUME NEW c \in Conns, conn'[n][c].pc = "append", conn'[n][c].msg \in seen'[n]
             PROVE  conn'[n][c].msg \in Logged(n)'
  BY LastingStep DEF Repeats, Lasting
<1> DEFINE m == conn'[n][c].msg
<1>1. m \in Messages
  BY TypeStep DEF TypeOK, GossipTypeOK
<1>2. ~ Crash(n)
  <2> SUFFICES ASSUME Crash(n) PROVE FALSE
    OBVIOUS
  <2>1. conn' = [conn EXCEPT ![n] = [y \in Conns |-> IdleConn]]
    BY DEF Crash
  <2> QED BY <2>1, ThreadType DEF IdleConn
<1>3. up[n] /\ (m \in seen[n] => conn'[n][c] = conn[n][c] /\ conn[n][c].pc = "append")
  BY Moves, ThreadType DEF Stays, Takes, GoesOn, Ends
<1> HIDE DEF m
<1>4. m \in Logged(n)
  <2>1. CASE m \in seen[n]
    BY <1>3, <2>1 DEF Repeats, m
  <2>2. CASE m \notin seen[n]
    <3>1. m \in seen'[n]
      BY DEF m
    <3> QED BY <1>1, <1>3, <2>2, <3>1, SeenMarked DEF Logged, At
  <2> QED BY <2>1, <2>2
<1> QED BY <1>2, <1>4, LoggedGrows DEF m

LEMMA AccountedStep ==
  ASSUME TypeOK, Control, [Next]_vars, Accounted
  PROVE  Accounted'
<1> SUFFICES ASSUME NEW n \in Nodes
             PROVE  Repeats(n)' /\ Matched((Logged(n) \ Whole(n))', Gaps(n)')
  BY DEF Accounted
<1>1. Repeats(n) /\ Matched(Logged(n) \ Whole(n), Gaps(n))
  BY DEF Accounted
<1>2. CASE Logged(n)' \subseteq Logged(n)
  BY <1>1, <1>2, RepeatsStep, FileCases, LessLogged
<1>3. CASE \E m \in Messages : WriteLine(n, m) /\ Logged(n)' \subseteq Logged(n) \cup {m}
  BY <1>1, <1>3, RepeatsStep, MoreLogged
<1> QED BY <1>1, <1>2, <1>3, LoggedCases

LEMMA AccountedInit == NetworkInit => Accounted
<1> SUFFICES ASSUME NetworkInit, NEW n \in Nodes
             PROVE  Repeats(n) /\ Matched(Logged(n) \ Whole(n), Gaps(n))
  BY DEF Accounted
<1>1. /\ \A c \in Conns : conn[n][c].pc = "idle"
      /\ \A m \in Messages : heard[n][m] = 0 /\ cli[m] = "ready"
  BY DEF NetworkInit, Init, ForNodes, IdleConn
<1>2. Repeats(n) /\ Logged(n) = {}
  BY <1>1 DEF Repeats, Logged, At
<1>3. Matched({}, Gaps(n))
  <2>1. [x \in {} |-> x] \in [{} -> Gaps(n)]
    OBVIOUS
  <2> QED BY <2>1 DEF Matched
<1> QED BY <1>2, <1>3

(* Never more messages are missing from a ledger file than it has torn     *)
(* lines: each of them has a torn line for itself, the one it was written  *)
(* on to.                                                                  *)
THEOREM TornLinesCostOne == Spec => []TornLineCostsOne
<1>1. TypeOK /\ Control /\ Accounted => TornLineCostsOne
  <2> SUFFICES ASSUME TypeOK, Control, Accounted, NEW n \in Nodes
               PROVE  Cardinality(Known(n) \ Range(ledger[n]))
                        <= Cardinality({i \in DOMAIN ledger[n] : ledger[n][i] = Torn})
    BY DEF TornLineCostsOne
  <2> DEFINE missing == Known(n) \ Range(ledger[n])
             torn == {i \in DOMAIN ledger[n] : ledger[n][i] = Torn}
  <2>1. DOMAIN ledger[n] = 1..Len(ledger[n]) /\ Len(ledger[n]) \in Nat
        /\ Closed(n) \in Nat /\ Closed(n) <= Len(ledger[n])
    BY FileLines
  <2>2. missing \subseteq Logged(n) \ Whole(n)
    BY <2>1 DEF Known, Sent, Logged, Whole, Range
  <2>3. Gaps(n) \subseteq torn
    BY <2>1 DEF Gaps
  <2>4. IsFiniteSet(torn)
    <3>1. IsFiniteSet(1..Len(ledger[n]))
      BY <2>1, FS_Interval
    <3>2. torn \in SUBSET (1..Len(ledger[n]))
      BY <2>1
    <3> HIDE DEF torn
    <3> QED BY <3>1, <3>2, FS_Subset
  <2>5. Matched(missing, torn)
    <3>1. Matched(Logged(n) \ Whole(n), Gaps(n))
      BY DEF Accounted
    <3> QED BY <2>2, <2>3, <3>1, MatchedLess
  <2> HIDE DEF missing, torn
  <2>6. PICK f \in [missing -> torn] : \A a, b \in missing : f[a] = f[b] => a = b
    BY <2>5 DEF Matched
  <2>7. f \in Injection(missing, torn)
    BY <2>6 DEF Injection, IsInjective
  <2>8. Cardinality(missing) <= Cardinality(torn)
    BY <2>4, <2>7, FS_Injection
  <2> QED BY <2>8 DEF missing, torn
<1>2. TypeOK /\ Control /\ Accounted /\ [Next]_vars => Accounted'
  BY AccountedStep
<1> QED
  BY <1>1, <1>2, AccountedInit, TypeCorrect, PTL DEF Spec
===============================================================================
