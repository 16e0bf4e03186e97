------------------------- MODULE ConsensusNetworkProofs -------------------------
(***************************************************************************)
(* Theorems about ConsensusNetwork, for every set of deployments, messages *)
(* and nodes and any number of connections and failures.                   *)
(***************************************************************************)
EXTENDS ConsensusNetwork, FiniteSetTheorems, TLAPS

(* Which copies, locals and files go together.                             *)
ThreadOK(n, c) ==
  /\ conn[n][c].msg = None <=> conn[n][c].pc = "idle"
  /\ conn[n][c].pc # "idle" => up[n]
  /\ conn[n][c].pc = "forward" => conn[n][c].ttl > 0
  /\ conn[n][c].pc \in {"dispatch", "forward"} => conn[n][c].msg \in seen[n]

Control ==
  /\ \A k \in BagToSet(wire) : k.ttl <= TTL
  /\ \A n \in Nodes, c \in Conns : ThreadOK(n, c)
  /\ \A n \in Nodes : open[n] => ledger[n] # <<>>

-------------------------------------------------------------------------------
LEMMA NetType ==
  ASSUME TypeOK
  PROVE  /\ net \in Deployment /\ net.conns \in Nat \ {0} /\ net.faults \in Nat
         /\ net.nodes \in SUBSET Nodes /\ \A n \in Nodes : net.peers[n] \in SUBSET Nodes
         /\ Conns = 1..net.conns
BY DeploymentsAssumption DEF TypeOK, GossipTypeOK, Deployment, Conns

LEMMA TypeInit == NetworkInit => TypeOK /\ Control
<1> SUFFICES ASSUME NetworkInit PROVE TypeOK /\ Control
  OBVIOUS
<1>1. net \in Deployments /\ net.faults \in Nat
  BY DeploymentsAssumption DEF NetworkInit, Init, Deployment
<1>2. BagToSet(wire) = {}
  BY DEF NetworkInit, Init, EmptyBag, SetToBag, BagToSet
<1>3. TypeOK
  BY <1>1, <1>2, TTLAssumption
  DEF NetworkInit, Init, TypeOK, GossipTypeOK, ForNodes, IdleConn
<1>4. Control
  BY <1>2 DEF NetworkInit, Init, Control, ThreadOK, ForNodes, IdleConn
<1> QED
  BY <1>3, <1>4

(* Bags.                                                                   *)
LEMMA BagAdds ==
  ASSUME NEW B, NEW S
  PROVE  BagToSet(B (+) SetToBag(S)) = BagToSet(B) \cup S
BY DEF BagToSet, SetToBag, (+)

LEMMA BagTakes ==
  ASSUME NEW B, NEW S
  PROVE  BagToSet(B (-) SetToBag(S)) \subseteq BagToSet(B)
BY DEF BagToSet, SetToBag, (-)

(* send in a loop.                                                         *)
LEMMA SendType ==
  ASSUME TypeOK, NEW m \in Messages, NEW n \in Nodes,
         NEW targets \in SUBSET Nodes, NEW copies \in SUBSET Copy,
         Send(m, n, targets, copies)
  PROVE  /\ BagToSet(wire') \subseteq BagToSet(wire) \cup copies
         /\ BagToSet(wire') \subseteq Copy
         /\ lost' \subseteq Messages \X Nodes \X Nodes
         /\ faults' \in 0..net.faults
<1>1. PICK failed \in SUBSET targets :
        /\ Fault(Cardinality({p \in failed : up[p]}))
        /\ wire' = wire (+) SetToBag({k \in copies : k.to \notin failed})
        /\ lost' = lost \cup {<<m, n, p>> : p \in failed}
  BY DEF Send
<1>2. BagToSet(wire') = BagToSet(wire) \cup {k \in copies : k.to \notin failed}
  BY <1>1, BagAdds
<1>3. Cardinality({p \in failed : up[p]}) \in Nat
  BY NodesAssumption, FS_Subset, FS_CardinalityType
<1>4. faults' \in 0..net.faults
  BY <1>1, <1>3, NetType DEF Fault, TypeOK, GossipTypeOK
<1>5. lost' \subseteq Messages \X Nodes \X Nodes
  BY <1>1 DEF TypeOK, GossipTypeOK
<1> QED
  BY <1>2, <1>4, <1>5 DEF TypeOK, GossipTypeOK

Lines == Messages \cup {Torn}

LEMMA AppendLines ==
  ASSUME NEW s \in Seq(Lines), NEW line \in Lines
  PROVE  /\ Append(s, line) \in Seq(Lines) /\ Append(s, line) # <<>>
         /\ Range(Append(s, line)) = Range(s) \cup {line}
<1>1. Append(s, line) \in Seq(Lines) /\ Len(Append(s, line)) = Len(s) + 1
  OBVIOUS
<1>2. DOMAIN Append(s, line) = 1..Len(s) + 1 /\ DOMAIN s = 1..Len(s) /\ Len(s) \in Nat
  OBVIOUS
<1>3. \A i \in 1..Len(s) : Append(s, line)[i] = s[i]
  OBVIOUS
<1>4. Append(s, line)[Len(s) + 1] = line
  OBVIOUS
<1>5. Append(s, line) # <<>>
  BY <1>1, <1>2
<1> QED
  BY <1>1, <1>2, <1>3, <1>4, <1>5 DEF Range

LEMMA FrontLines ==
  ASSUME NEW s \in Seq(Lines), s # <<>>
  PROVE  Front(s) \in Seq(Lines) /\ Range(Front(s)) \subseteq Range(s)
BY DEF Front, Range

(* Writes to a ledger file: it stays as it was, gets a line, or its last   *)
(* line is replaced by a torn one.                                         *)
LEMMA WriteType ==
  ASSUME TypeOK, Control, NEW n \in Nodes, NEW m \in Messages,
         WriteLine(n, m) \/ WritePart(n, m)
  PROVE  /\ ledger' \in [Nodes -> Seq(Lines)]
         /\ open' \in [Nodes -> BOOLEAN]
         /\ \A x \in Nodes : open'[x] => ledger'[x] # <<>>
         /\ \A x \in Nodes \ {n} : ledger'[x] = ledger[x]
         /\ Range(ledger'[n]) \subseteq Range(ledger[n]) \cup {m, Torn}
         /\ Torn \notin Range(ledger'[n]) =>
              /\ Torn \notin Range(ledger[n])
              /\ Range(ledger[n]) \subseteq Range(ledger'[n])
              /\ WriteLine(n, m) => m \in Range(ledger'[n])
<1>1. /\ ledger[n] \in Seq(Lines)
      /\ open[n] \in BOOLEAN /\ (open[n] => ledger[n] # <<>>)
      /\ ledger \in [Nodes -> Seq(Lines)] /\ open \in [Nodes -> BOOLEAN] /\ Torn \in Lines
  BY DEF TypeOK, GossipTypeOK, Control, Lines
<1>2. ASSUME NEW line \in {m, Torn}, ~open[n],
             ledger' = [ledger EXCEPT ![n] = Append(ledger[n], line)]
      PROVE  /\ ledger' \in [Nodes -> Seq(Lines)]
             /\ ledger'[n] # <<>> /\ \A x \in Nodes \ {n} : ledger'[x] = ledger[x]
             /\ Range(ledger'[n]) = Range(ledger[n]) \cup {line}
  <2>1. line \in Lines
    BY DEF Lines
  <2>2. /\ Append(ledger[n], line) \in Seq(Lines) /\ Append(ledger[n], line) # <<>>
        /\ Range(Append(ledger[n], line)) = Range(ledger[n]) \cup {line}
    BY <1>1, <2>1, AppendLines
  <2> QED
    BY <1>1, <1>2, <2>2
<1>3. ASSUME open[n], ledger' = [ledger EXCEPT ![n] = Append(Front(ledger[n]), Torn)]
      PROVE  /\ ledger' \in [Nodes -> Seq(Lines)]
             /\ ledger'[n] # <<>> /\ \A x \in Nodes \ {n} : ledger'[x] = ledger[x]
             /\ Range(ledger'[n]) \subseteq Range(ledger[n]) \cup {Torn} /\ Torn \in Range(ledger'[n])
  <2>1. Front(ledger[n]) \in Seq(Lines) /\ Range(Front(ledger[n])) \subseteq Range(ledger[n])
    BY <1>1, <1>3, FrontLines
  <2> QED
    BY <1>1, <1>3, <2>1, AppendLines
<1>4. CASE WriteLine(n, m)
  <2>1. open' = [open EXCEPT ![n] = FALSE]
    BY <1>4 DEF WriteLine
  <2>2. CASE open[n]
    BY <1>1, <1>3, <1>4, <2>1, <2>2 DEF WriteLine, Control
  <2>3. CASE ~open[n]
    <3>1. ledger' = [ledger EXCEPT ![n] = Append(ledger[n], m)]
      BY <1>4, <2>3 DEF WriteLine
    <3> QED
      BY <1>1, <1>2, <2>1, <2>3, <3>1 DEF Control
  <2> QED
    BY <1>1, <2>2, <2>3
<1>5. CASE WritePart(n, m)
  <2>1. CASE UNCHANGED disk
    BY <1>1, <2>1 DEF disk, Control, WriteLine
  <2>2. CASE ~ UNCHANGED disk
    <3>1. PICK line \in (IF open[n] THEN {Torn} ELSE {Torn, m}) :
            /\ ledger' = [ledger EXCEPT ![n] = Append(IF open[n] THEN Front(@) ELSE @, line)]
            /\ open' = [open EXCEPT ![n] = TRUE]
      BY <1>5, <2>2 DEF WritePart
    <3>2. ~ WriteLine(n, m)
      BY <1>1, <3>1 DEF WriteLine
    <3>3. CASE open[n]
      BY <1>1, <1>3, <3>1, <3>2, <3>3 DEF Control
    <3>4. CASE ~open[n]
      BY <1>1, <1>2, <3>1, <3>2, <3>4 DEF Control
    <3> QED
      BY <1>1, <3>3, <3>4
  <2> QED
    BY <2>1, <2>2
<1> QED
  BY <1>4, <1>5

-------------------------------------------------------------------------------
Labels == {"idle", "append", "mark", "dispatch", "forward"}
Thread == [pc: Labels, msg: Messages \cup {None}, ttl: 0..TTL]

LEMMA ThreadType ==
  ASSUME TypeOK, Control, NEW n \in Nodes, NEW c \in Conns
  PROVE  /\ conn \in [Nodes -> [Conns -> Thread]]
         /\ conn[n][c] \in Thread /\ ThreadOK(n, c)
         /\ conn[n][c].pc # "idle" => conn[n][c].msg \in Messages /\ up[n]
BY DEF TypeOK, GossipTypeOK, Control, ThreadOK, Thread, Labels

Moved(t, label) == [t EXCEPT !.pc = label]

LEMMA StepThread ==
  ASSUME TypeOK, NEW n \in Nodes, NEW c \in Conns, NEW label \in Labels, Step(n, c, label)
  PROVE  /\ Moved(conn[n][c], label) \in Thread
         /\ Moved(conn[n][c], label).pc = label
         /\ Moved(conn[n][c], label).msg = conn[n][c].msg
         /\ Moved(conn[n][c], label).ttl = conn[n][c].ttl
         /\ conn' = [conn EXCEPT ![n][c] = Moved(conn[n][c], label)]
<1>1. conn[n][c] \in Thread
  BY DEF TypeOK, GossipTypeOK, Thread, Labels
<1>2. conn' = [conn EXCEPT ![n][c] = Moved(conn[n][c], label)]
  BY DEF Step, Moved
<1>3. \A t \in Thread : /\ Moved(t, label) \in Thread /\ Moved(t, label).pc = label
                        /\ Moved(t, label).msg = t.msg /\ Moved(t, label).ttl = t.ttl
  BY DEF Thread, Moved
<1> QED
  BY <1>1, <1>2, <1>3

LEMMA CloseThread ==
  ASSUME NEW n \in Nodes, NEW c \in Conns, Close(n, c)
  PROVE  IdleConn \in Thread /\ conn' = [conn EXCEPT ![n][c] = IdleConn]
BY TTLAssumption DEF Thread, Labels, Close, IdleConn

LEMMA FaultType ==
  ASSUME TypeOK, Fault(1)
  PROVE  faults' \in 0..net.faults
BY NetType DEF TypeOK, GossipTypeOK, Fault

LEMMA ThreadsKept ==
  ASSUME TypeOK, Control, NEW n \in Nodes, NEW c \in Conns, NEW t \in Thread,
         conn' = [conn EXCEPT ![n][c] = t],
         UNCHANGED <<net, up>>, \A x \in Nodes : seen[x] \subseteq seen'[x],
         /\ t.msg = None <=> t.pc = "idle"
         /\ t.pc # "idle" => up[n]
         /\ t.pc = "forward" => t.ttl > 0
         /\ t.pc \in {"dispatch", "forward"} => t.msg \in seen'[n]
  PROVE  /\ conn' \in [Nodes -> [Conns' -> Thread]]
         /\ \A x \in Nodes, y \in Conns' : ThreadOK(x, y)'
<1>1. /\ conn' \in [Nodes -> [Conns -> Thread]] /\ conn'[n][c] = t
      /\ \A x \in Nodes, y \in Conns : <<x, y>> # <<n, c>> => conn'[x][y] = conn[x][y]
  <2>1. conn \in [Nodes -> [Conns -> Thread]]
    BY ThreadType
  <2> QED
    BY <2>1
<1>2. Conns' = Conns
  BY DEF Conns
<1>3. ThreadOK(n, c)'
  BY <1>1 DEF ThreadOK
<1>4. ASSUME NEW x \in Nodes, NEW y \in Conns, <<x, y>> # <<n, c>>
      PROVE  ThreadOK(x, y)'
  <2>1. ThreadOK(x, y) /\ conn'[x][y] = conn[x][y]
    BY <1>1, <1>4 DEF Control
  <2> QED
    BY <2>1 DEF ThreadOK
<1> QED
  BY <1>1, <1>2, <1>3, <1>4

LEMMA CliStep ==
  ASSUME TypeOK, Control, NEW m \in Messages,
         CliAppend(m) \/ CliAppendFails(m) \/ Broadcast(m)
  PROVE  GossipTypeOK' /\ Control'
<1>1. Sender[m] \in Nodes /\ Conns' = Conns
  BY SenderAssumption DEF CliAppend, CliAppendFails, Broadcast, Conns
<1>2. CASE CliAppend(m)
  <2>1. WriteLine(Sender[m], m)
    BY <1>2 DEF CliAppend
  <2> QED
    BY <1>1, <1>2, <2>1, WriteType
    DEF CliAppend, TypeOK, GossipTypeOK, Control, ThreadOK, history, Lines
<1>3. CASE CliAppendFails(m)
  <2>1. WritePart(Sender[m], m) /\ Fault(1)
    BY <1>3 DEF CliAppendFails
  <2> QED
    BY <1>1, <1>3, <2>1, WriteType, FaultType
    DEF CliAppendFails, TypeOK, GossipTypeOK, Control, ThreadOK, history, Lines
<1>4. CASE Broadcast(m)
  <2> DEFINE peers == net.peers[Sender[m]]
             copies == {Built(m, p) : p \in peers}
  <2>1. peers \in SUBSET Nodes /\ Send(m, Sender[m], peers, copies)
    BY <1>1, <1>4, NetType DEF Broadcast
  <2>2. copies \in SUBSET Copy /\ \A k \in copies : k.ttl <= TTL
    BY <1>1, <2>1, TTLAssumption DEF Built, Copy
  <2>3. /\ BagToSet(wire') \subseteq BagToSet(wire) \cup copies
        /\ BagToSet(wire') \subseteq Copy
        /\ lost' \subseteq Messages \X Nodes \X Nodes
        /\ faults' \in 0..net.faults
    BY <1>1, <2>1, <2>2, SendType
  <2>4. \A k \in BagToSet(wire') : k.ttl <= TTL
    BY <2>2, <2>3 DEF Control
  <2>5. GossipTypeOK'
    BY <1>1, <1>4, <2>3 DEF Broadcast, TypeOK, GossipTypeOK, disk
  <2> QED
    BY <1>1, <1>4, <2>4, <2>5 DEF Broadcast, Control, ThreadOK, disk
<1> QED
  BY <1>2, <1>3, <1>4

LEMMA AcceptStep ==
  ASSUME TypeOK, Control, NEW n \in Nodes, NEW c \in Conns, Accept(n, c)
  PROVE  GossipTypeOK' /\ Control'
<1>1. PICK copy \in BagToSet(wire) :
        /\ wire' = wire (-) SetToBag({copy})
        /\ conn' = IF Verify(copy) /\ ~Duplicate(n, copy.id)
                   THEN [conn EXCEPT ![n][c] =
                           [pc |-> "append", msg |-> copy.id, ttl |-> copy.ttl]]
                   ELSE conn
  BY DEF Accept
<1>2. /\ BagToSet(wire') \subseteq BagToSet(wire)
      /\ copy \in Copy /\ copy.ttl \in 0..TTL /\ copy.id \in Messages
  BY <1>1, BagTakes, TTLAssumption DEF TypeOK, GossipTypeOK, Control, Copy
<1>3. /\ conn' \in [Nodes -> [Conns' -> Thread]]
      /\ \A x \in Nodes, y \in Conns' : ThreadOK(x, y)'
  <2>1. CASE conn' = conn
    BY <2>1 DEF Accept, TypeOK, GossipTypeOK, Control, Conns, ThreadOK, Thread, Labels
  <2>2. CASE conn' # conn
    <3> DEFINE t == [pc |-> "append", msg |-> copy.id, ttl |-> copy.ttl]
    <3>1. t \in Thread /\ t.msg # None /\ t.pc = "append"
      BY <1>2, TornAssumption DEF Thread, Labels
    <3>2. conn' = [conn EXCEPT ![n][c] = t]
      BY <1>1, <2>2
    <3>3. UNCHANGED <<net, up, seen>> /\ up[n]
      BY DEF Accept
    <3> HIDE DEF t
    <3> QED
      BY <3>1, <3>2, <3>3, ThreadsKept
  <2> QED
    BY <2>1, <2>2
<1> QED
  BY <1>2, <1>3 DEF Accept, TypeOK, GossipTypeOK, Control, Conns, Thread, Labels, disk, history

(* A thread ends, or goes on with the same message.                        *)
LEMMA ThreadEnds ==
  ASSUME TypeOK, Control, NEW n \in Nodes, NEW c \in Conns, Close(n, c),
         UNCHANGED <<net, up>>, \A x \in Nodes : seen[x] \subseteq seen'[x]
  PROVE  /\ conn' \in [Nodes -> [Conns' -> Thread]]
         /\ \A x \in Nodes, y \in Conns' : ThreadOK(x, y)'
<1>1. IdleConn \in Thread /\ conn' = [conn EXCEPT ![n][c] = IdleConn]
  BY CloseThread
<1>2. IdleConn.pc = "idle" /\ IdleConn.msg = None
  BY DEF IdleConn
<1> QED
  BY <1>1, <1>2, ThreadsKept

LEMMA ThreadGoesOn ==
  ASSUME TypeOK, Control, NEW n \in Nodes, NEW c \in Conns, conn[n][c].pc # "idle",
         NEW label \in Labels, Step(n, c, label), label # "idle",
         label = "forward" => conn[n][c].ttl > 0,
         label \in {"dispatch", "forward"} => conn[n][c].msg \in seen'[n],
         UNCHANGED <<net, up>>, \A x \in Nodes : seen[x] \subseteq seen'[x]
  PROVE  /\ conn' \in [Nodes -> [Conns' -> Thread]]
         /\ \A x \in Nodes, y \in Conns' : ThreadOK(x, y)'
<1> DEFINE t == Moved(conn[n][c], label)
<1>1. /\ conn[n][c] \in Thread /\ ThreadOK(n, c) /\ up[n]
      /\ conn[n][c].msg # None
  BY ThreadType, TornAssumption
<1>2. /\ t \in Thread /\ t.pc = label /\ t.msg = conn[n][c].msg /\ t.ttl = conn[n][c].ttl
      /\ conn' = [conn EXCEPT ![n][c] = t]
  BY StepThread
<1> HIDE DEF t
<1> QED
  BY <1>1, <1>2, ThreadsKept

LEMMA AppendLineStep ==
  ASSUME TypeOK, Control, NEW n \in Nodes, NEW c \in Conns, AppendLine(n, c)
  PROVE  GossipTypeOK' /\ Control'
<1>1. conn[n][c].msg \in Messages /\ conn[n][c].pc # "idle"
  BY ThreadType DEF AppendLine
<1>2. PICK label \in {"dispatch", "mark"} :
        /\ Step(n, c, label)
        /\ label = "dispatch" => UNCHANGED disk /\ conn[n][c].msg \in seen[n]
        /\ label = "mark" => WriteLine(n, conn[n][c].msg)
  BY DEF AppendLine, Duplicate
<1>3. /\ conn' \in [Nodes -> [Conns' -> Thread]]
      /\ \A x \in Nodes, y \in Conns' : ThreadOK(x, y)'
  <2>1. UNCHANGED <<net, up, seen>>
    BY DEF AppendLine
  <2>2. Step(n, c, label) /\ label # "idle" /\ label # "forward" /\ label \in Labels
    BY <1>2 DEF Labels
  <2>3. label = "dispatch" => conn[n][c].msg \in seen'[n]
    BY <1>2, <2>1
  <2> QED
    BY <1>1, <2>1, <2>2, <2>3, ThreadGoesOn
<1>4. /\ ledger' \in [Nodes -> Seq(Lines)] /\ open' \in [Nodes -> BOOLEAN]
      /\ \A x \in Nodes : open'[x] => ledger'[x] # <<>>
  <2>1. CASE UNCHANGED disk
    BY <2>1 DEF disk, TypeOK, GossipTypeOK, Control, Lines
  <2>2. CASE WriteLine(n, conn[n][c].msg)
    BY <1>1, <2>2, WriteType
  <2> QED
    BY <1>2, <2>1, <2>2
<1> QED
  BY <1>3, <1>4
  DEF AppendLine, TypeOK, GossipTypeOK, Control, Conns, Thread, Labels, Lines, history

LEMMA AppendFailsStep ==
  ASSUME TypeOK, Control, NEW n \in Nodes, NEW c \in Conns, AppendFails(n, c)
  PROVE  GossipTypeOK' /\ Control'
<1>1. conn[n][c].msg \in Messages /\ conn[n][c].pc # "idle"
  BY ThreadType DEF AppendFails
<1>2. /\ Close(n, c) /\ UNCHANGED <<net, up, seen>> /\ Fault(1)
      /\ WritePart(n, conn[n][c].msg)
  BY DEF AppendFails
<1>3. /\ conn' \in [Nodes -> [Conns' -> Thread]]
      /\ \A x \in Nodes, y \in Conns' : ThreadOK(x, y)'
  BY <1>2, ThreadEnds
<1>4. /\ ledger' \in [Nodes -> Seq(Lines)] /\ open' \in [Nodes -> BOOLEAN]
      /\ \A x \in Nodes : open'[x] => ledger'[x] # <<>>
  BY <1>1, <1>2, WriteType
<1>5. faults' \in 0..net.faults
  BY <1>2, FaultType
<1> QED
  BY <1>1, <1>3, <1>4, <1>5
  DEF AppendFails, TypeOK, GossipTypeOK, Control, Conns, Thread, Labels, Lines

LEMMA MarkStep ==
  ASSUME TypeOK, Control, NEW n \in Nodes, NEW c \in Conns, Mark(n, c)
  PROVE  GossipTypeOK' /\ Control'
<1>1. conn[n][c].msg \in Messages /\ conn[n][c].pc # "idle"
  BY ThreadType DEF Mark
<1>2. /\ seen' \in [Nodes -> SUBSET Messages] /\ conn[n][c].msg \in seen'[n]
      /\ \A x \in Nodes : seen[x] \subseteq seen'[x]
  BY <1>1 DEF Mark, TypeOK, GossipTypeOK
<1>3. /\ conn' \in [Nodes -> [Conns' -> Thread]]
      /\ \A x \in Nodes, y \in Conns' : ThreadOK(x, y)'
  <2>1. UNCHANGED <<net, up>> /\ Step(n, c, "dispatch") /\ "dispatch" \in Labels
    BY DEF Mark, Labels
  <2> QED
    BY <1>1, <1>2, <2>1, ThreadGoesOn
<1> QED
  BY <1>2, <1>3
  DEF Mark, TypeOK, GossipTypeOK, Control, Conns, Thread, Labels, disk, history

LEMMA DispatchStep ==
  ASSUME TypeOK, Control, NEW n \in Nodes, NEW c \in Conns,
         Dispatch(n, c) \/ HandlerRaises(n, c)
  PROVE  GossipTypeOK' /\ Control'
<1>1. /\ conn[n][c].msg \in Messages /\ conn[n][c].pc = "dispatch"
      /\ conn[n][c].msg \in seen[n] /\ conn[n][c].ttl \in 0..TTL
  BY ThreadType DEF Dispatch, HandlerRaises, ThreadOK, Thread
<1>2. UNCHANGED <<net, up, seen>>
  BY DEF Dispatch, HandlerRaises
<1>3. /\ conn' \in [Nodes -> [Conns' -> Thread]]
      /\ \A x \in Nodes, y \in Conns' : ThreadOK(x, y)'
  <2>1. CASE Close(n, c)
    BY <1>2, <2>1, ThreadEnds
  <2>2. CASE Step(n, c, "forward") /\ conn[n][c].ttl > 0
    BY <1>1, <1>2, <2>2, ThreadGoesOn DEF Labels
  <2> QED
    BY <2>1, <2>2 DEF Dispatch, HandlerRaises
<1>4. heard' \in [Nodes -> [Messages -> Nat]]
  <2>1. heard \in [Nodes -> [Messages -> Nat]] /\ heard[n][conn[n][c].msg] \in Nat
    BY <1>1 DEF TypeOK, GossipTypeOK
  <2>2. heard' = [heard EXCEPT ![n][conn[n][c].msg] = heard[n][conn[n][c].msg] + 1]
    BY DEF Dispatch, HandlerRaises
  <2> QED
    BY <1>1, <2>1, <2>2
<1>5. faults' \in 0..net.faults /\ lost' \subseteq Messages \X Nodes \X Nodes
  <2>1. CASE Dispatch(n, c)
    BY <2>1 DEF Dispatch, TypeOK, GossipTypeOK
  <2>2. CASE HandlerRaises(n, c)
    <3>1. lost' = lost \cup {<<conn[n][c].msg, n, n>>} /\ Fault(1)
      BY <2>2 DEF HandlerRaises
    <3>2. lost \subseteq Messages \X Nodes \X Nodes
      BY DEF TypeOK, GossipTypeOK
    <3> QED
      BY <1>1, <3>1, <3>2, FaultType
  <2> QED
    BY <2>1, <2>2
<1> QED
  BY <1>2, <1>3, <1>4, <1>5
  DEF Dispatch, HandlerRaises, TypeOK, GossipTypeOK, Control, Conns, Thread, Labels, disk

LEMMA ForwardStep ==
  ASSUME TypeOK, Control, NEW n \in Nodes, NEW c \in Conns, Forward(n, c)
  PROVE  GossipTypeOK' /\ Control'
<1> DEFINE m == conn[n][c].msg
           copies == {Forwarded(m, conn[n][c].ttl, n, p) : p \in FloodTargets(n, m)}
<1>1. /\ m \in Messages /\ conn[n][c].ttl \in 1..TTL
      /\ FloodTargets(n, m) \in SUBSET Nodes
  BY ThreadType, NetType, TTLAssumption DEF Forward, ThreadOK, Thread, FloodTargets
<1>2. Send(m, n, FloodTargets(n, m), copies) /\ Close(n, c) /\ UNCHANGED <<net, up, seen>>
  BY DEF Forward
<1>3. copies \in SUBSET Copy /\ \A k \in copies : k.ttl <= TTL
  BY <1>1, TTLAssumption DEF Forwarded, Copy
<1>4. /\ BagToSet(wire') \subseteq BagToSet(wire) \cup copies
      /\ BagToSet(wire') \subseteq Copy
      /\ lost' \subseteq Messages \X Nodes \X Nodes
      /\ faults' \in 0..net.faults
  <2> HIDE DEF m, copies
  <2> QED
    BY <1>1, <1>2, <1>3, SendType
<1>5. \A k \in BagToSet(wire') : k.ttl <= TTL
  BY <1>3, <1>4 DEF Control
<1>6. /\ conn' \in [Nodes -> [Conns' -> Thread]]
      /\ \A x \in Nodes, y \in Conns' : ThreadOK(x, y)'
  BY <1>2, ThreadEnds
<1> QED
  BY <1>4, <1>5, <1>6
  DEF Forward, TypeOK, GossipTypeOK, Control, Conns, Thread, Labels, disk

LEMMA CrashStep ==
  ASSUME TypeOK, Control, NEW n \in Nodes, Crash(n)
  PROVE  GossipTypeOK' /\ Control'
<1> DEFINE gone == {k \in BagToSet(wire) : k.to = n}
           busy == {c \in Conns : conn[n][c].pc # "idle"}
<1>1. /\ up' = [up EXCEPT ![n] = FALSE] /\ seen' = [seen EXCEPT ![n] = {}]
      /\ conn' = [conn EXCEPT ![n] = [c \in Conns |-> IdleConn]]
      /\ wire' = [k \in BagToSet(wire) \ gone |-> wire[k]]
      /\ lost' = lost \cup {<<k.id, k.from, n>> : k \in gone}
                      \cup {<<conn[n][c].msg, n, n>> : c \in busy}
      /\ UNCHANGED <<net, cli, heard>> /\ Fault(1)
  BY DEF Crash
<1>2. \A c \in busy : conn[n][c].msg \in Messages
  BY ThreadType
<1>3. /\ ledger' \in [Nodes -> Seq(Lines)] /\ open' \in [Nodes -> BOOLEAN]
      /\ \A x \in Nodes : open'[x] => ledger'[x] # <<>>
  <2>1. CASE UNCHANGED disk
    BY <2>1 DEF disk, TypeOK, GossipTypeOK, Control, Lines
  <2>2. ASSUME NEW c \in busy, WritePart(n, conn[n][c].msg)
        PROVE  /\ ledger' \in [Nodes -> Seq(Lines)] /\ open' \in [Nodes -> BOOLEAN]
               /\ \A x \in Nodes : open'[x] => ledger'[x] # <<>>
    BY <1>2, <2>2, WriteType
  <2> QED
    BY <2>1, <2>2 DEF Crash
<1>4. BagToSet(wire') \subseteq BagToSet(wire)
  BY <1>1 DEF BagToSet
<1>5. lost' \subseteq Messages \X Nodes \X Nodes
  BY <1>1, <1>2 DEF TypeOK, GossipTypeOK, Copy
<1>6. faults' \in 0..net.faults
  BY <1>1, FaultType
<1>7. /\ conn' \in [Nodes -> [Conns' -> Thread]] /\ Conns' = Conns
      /\ \A x \in Nodes, y \in Conns' : ThreadOK(x, y)'
  <2>1. IdleConn \in Thread /\ IdleConn.pc = "idle" /\ IdleConn.msg = None
    BY TTLAssumption DEF IdleConn, Thread, Labels
  <2>2. conn \in [Nodes -> [Conns -> Thread]] /\ Conns' = Conns
    BY <1>1 DEF TypeOK, GossipTypeOK, Thread, Labels, Conns
  <2>3. ASSUME NEW x \in Nodes, NEW y \in Conns
        PROVE  ThreadOK(x, y)'
    <3>1. CASE x = n
      BY <1>1, <2>1, <2>2, <3>1 DEF ThreadOK
    <3>2. CASE x # n
      <4>1. conn'[x] = conn[x] /\ up'[x] = up[x] /\ seen'[x] = seen[x] /\ ThreadOK(x, y)
        BY <1>1, <2>2, <3>2 DEF Control, TypeOK, GossipTypeOK
      <4> QED
        BY <4>1 DEF ThreadOK
    <3> QED
      BY <3>1, <3>2
  <2> QED
    BY <1>1, <2>1, <2>2, <2>3
<1>8. up' \in [Nodes -> BOOLEAN] /\ seen' \in [Nodes -> SUBSET Messages]
  BY <1>1 DEF TypeOK, GossipTypeOK
<1> QED
  BY <1>1, <1>3, <1>4, <1>5, <1>6, <1>7, <1>8
  DEF TypeOK, GossipTypeOK, Control, Thread, Labels, Lines

LEMMA RestartStep ==
  ASSUME TypeOK, Control, NEW n \in Nodes, Restart(n)
  PROVE  GossipTypeOK' /\ Control'
<1>1. Range(ledger[n]) \subseteq Messages \cup {Torn}
  BY DEF TypeOK, GossipTypeOK, Range
<1>2. seen' \in [Nodes -> SUBSET Messages] /\ \A x \in Nodes \ {n} : seen'[x] = seen[x]
  BY <1>1 DEF Restart, LoadSeen, TypeOK, GossipTypeOK
<1>3. up' \in [Nodes -> BOOLEAN] /\ \A x \in Nodes \ {n} : up'[x] = up[x]
  BY DEF Restart, TypeOK, GossipTypeOK
<1>4. Conns' = Conns /\ UNCHANGED conn
  BY DEF Restart, Conns
<1>5. ASSUME NEW x \in Nodes, NEW y \in Conns
      PROVE  ThreadOK(x, y)'
  <2>1. ThreadOK(x, y)
    BY DEF Control
  <2>2. CASE x = n
    BY <1>4, <2>1, <2>2 DEF Restart, ThreadOK
  <2>3. CASE x # n
    BY <1>2, <1>3, <1>4, <2>1, <2>3 DEF ThreadOK
  <2> QED
    BY <2>2, <2>3
<1> QED
  BY <1>2, <1>3, <1>4, <1>5
  DEF Restart, TypeOK, GossipTypeOK, Control, disk, history

(* What a step does to ballots and approvals.                              *)
LEMMA BridgeCases ==
  ASSUME TypeOK, Control, [Next]_vars, NEW n \in Nodes
  PROVE  /\ \/ ballot'[n] \subseteq ballot[n]
            \/ \E c \in Conns : /\ conn[n][c].pc # "idle"
                                /\ ballot'[n] = ballot[n] \cup {conn[n][c].msg}
         /\ \/ approved'[n] = approved[n]
            \/ approved'[n] = (approved[n] \/ Approves(ballot'[n]))
            \/ approved'[n] = (approved[n] \/ Approves(Replayed(n)))
         /\ ballot' = [x \in Nodes |-> ballot'[x]]
         /\ approved' = [x \in Nodes |-> approved'[x]]
<1>1. ballot \in [Nodes -> SUBSET Messages] /\ approved \in [Nodes -> BOOLEAN]
  BY DEF TypeOK
<1>2. CASE UNCHANGED bridges
  BY <1>1, <1>2 DEF bridges
<1>3. ASSUME NEW x \in Nodes, NEW c \in Conns, HandOver(x, c)
      PROVE  /\ \/ ballot'[n] \subseteq ballot[n]
                \/ \E y \in Conns : /\ conn[n][y].pc # "idle"
                                    /\ ballot'[n] = ballot[n] \cup {conn[n][y].msg}
             /\ \/ approved'[n] = approved[n]
                \/ approved'[n] = (approved[n] \/ Approves(ballot'[n]))
             /\ ballot' = [y \in Nodes |-> ballot'[y]]
             /\ approved' = [y \in Nodes |-> approved'[y]]
  <2>1. conn[x][c].pc # "idle"
    BY <1>3 DEF HandOver, Dispatch, HandlerRaises
  <2>2. CASE Count(x, conn[x][c].msg)
    BY <1>1, <2>1, <2>2 DEF Count
  <2>3. CASE CountRaises(x, conn[x][c].msg)
    BY <1>1, <2>1, <2>3 DEF Count, CountRaises
  <2> QED
    BY <1>3, <2>2, <2>3 DEF HandOver
<1>4. ASSUME NEW x \in Nodes, Crash(x) /\ Forget(x)
      PROVE  /\ ballot'[n] \subseteq ballot[n] /\ approved'[n] = approved[n]
             /\ ballot' = [y \in Nodes |-> ballot'[y]]
             /\ approved' = [y \in Nodes |-> approved'[y]]
  BY <1>1, <1>4 DEF Forget
<1>5. ASSUME NEW x \in Nodes, Replay(x)
      PROVE  /\ ballot'[n] \subseteq ballot[n]
             /\ \/ approved'[n] = approved[n]
                \/ approved'[n] = (approved[n] \/ Approves(Replayed(n)))
             /\ ballot' = [y \in Nodes |-> ballot'[y]]
             /\ approved' = [y \in Nodes |-> approved'[y]]
  BY <1>1, <1>5 DEF Replay
<1> QED
  BY <1>2, <1>3, <1>4, <1>5 DEF Next, vars, bridges

LEMMA GossipStep ==
  ASSUME TypeOK, Control, [Next]_vars
  PROVE  GossipTypeOK' /\ Control'
<1>1. CASE UNCHANGED gossipVars
  BY <1>1 DEF gossipVars, disk, history, TypeOK, GossipTypeOK, Control, ThreadOK, Conns
<1>2. CASE Carry
  BY <1>2, CliStep, AcceptStep, AppendLineStep, AppendFailsStep, MarkStep, ForwardStep, RestartStep
  DEF Carry
<1>3. ASSUME NEW n \in Nodes, NEW c \in Conns, HandOver(n, c)
      PROVE  GossipTypeOK' /\ Control'
  BY <1>3, DispatchStep DEF HandOver
<1>4. ASSUME NEW n \in Nodes, Crash(n)
      PROVE  GossipTypeOK' /\ Control'
  BY <1>4, CrashStep
<1> QED
  BY <1>1, <1>2, <1>3, <1>4 DEF Next, Replay, vars

LEMMA TypeStep ==
  ASSUME TypeOK, Control, [Next]_vars
  PROVE  TypeOK' /\ Control'
<1>1. ASSUME NEW n \in Nodes
      PROVE  ballot'[n] \in SUBSET Messages /\ approved'[n] \in BOOLEAN
  <2>1. ballot[n] \in SUBSET Messages /\ approved[n] \in BOOLEAN
    BY DEF TypeOK
  <2>2. \A c \in Conns : conn[n][c].pc # "idle" => conn[n][c].msg \in Messages
    BY ThreadType
  <2>3. ballot'[n] \in SUBSET Messages
    BY <2>1, <2>2, BridgeCases
  <2>4. approved'[n] \in BOOLEAN
    BY <2>1, BridgeCases
  <2> QED
    BY <2>3, <2>4
<1>2. ballot' = [x \in Nodes |-> ballot'[x]] /\ approved' = [x \in Nodes |-> approved'[x]]
  BY BridgeCases, SenderAssumption, ProposalAssumption
<1>3. ballot' \in [Nodes -> SUBSET Messages] /\ approved' \in [Nodes -> BOOLEAN]
  BY <1>1, <1>2
<1> QED
  BY <1>3, GossipStep DEF TypeOK

(* Every variable has its type; a thread in flight has a message and a     *)
(* running process behind it; no copy has more TTL than it was built with. *)
THEOREM TypeCorrect == Spec => [](TypeOK /\ Control)
<1>1. TypeOK /\ Control /\ [Next]_vars => (TypeOK /\ Control)'
  BY TypeStep
<1> QED
  BY <1>1, TypeInit, PTL DEF Spec

-------------------------------------------------------------------------------
(* Where things come from: whatever is on the wire, in a thread, in a file *)
(* or in a ballot was issued by its command, and an approval rests on what *)
(* was issued.                                                             *)
Issued == {m \in Messages : cli[m] # "ready"}

Provenance ==
  /\ \A k \in BagToSet(wire) : k.id \in Issued
  /\ \A n \in Nodes, c \in Conns : conn[n][c].pc # "idle" => conn[n][c].msg \in Issued
  /\ \A n \in Nodes : Range(ledger[n]) \subseteq Issued \cup {Torn}
  /\ \A n \in Nodes : ballot[n] \subseteq Issued
  /\ \A n \in Nodes : approved[n] => Approves(Issued)

(* A quorum has more than two thirds of the nodes, so it is not empty.     *)
LEMMA QuorumProposed ==
  ASSUME TypeOK, NEW S, Approves(S)
  PROVE  /\ Proposal \in S
         /\ Supporters(S) = {Sender[m] : m \in S}
         /\ IsFiniteSet(Supporters(S)) =>
              3 * Cardinality(Supporters(S)) > 2 * Cardinality(net.nodes)
<1>1. IsFiniteSet(net.nodes)
  BY NetType, NodesAssumption, FS_Subset
<1>2. Cardinality(net.nodes) \in Nat
  BY <1>1, FS_CardinalityType
<1>3. \A x \in Nat : (x \div 3) \in Nat /\ 3 * (x \div 3) + 3 > x
  OBVIOUS
<1>4. Threshold(net.nodes) \in Nat /\ Threshold(net.nodes) > 0
      /\ 3 * Threshold(net.nodes) > 2 * Cardinality(net.nodes)
  BY <1>2, <1>3 DEF Threshold
<1>5. Cardinality({}) = 0
  BY FS_EmptySet
<1>6. Proposal \in S
  BY <1>4, <1>5 DEF Approves, IsQuorum, Supporters
<1>7. ASSUME IsFiniteSet(Supporters(S))
      PROVE  3 * Cardinality(Supporters(S)) > 2 * Cardinality(net.nodes)
  <2>1. Cardinality(Supporters(S)) \in Nat
    BY <1>7, FS_CardinalityType
  <2> QED
    BY <1>2, <1>4, <2>1 DEF Approves, IsQuorum
<1> QED
  BY <1>6, <1>7 DEF Supporters

LEMMA ApprovesGrows ==
  ASSUME TypeOK, NEW S, NEW T \in SUBSET Messages, S \subseteq T, Approves(S)
  PROVE  Approves(T)
<1>1. Proposal \in S
  BY QuorumProposed
<1>2. Supporters(S) \subseteq Supporters(T) /\ Supporters(T) \subseteq Nodes
  BY <1>1, SenderAssumption DEF Supporters
<1>3. IsFiniteSet(Supporters(T)) /\ IsFiniteSet(net.nodes)
  BY <1>2, NetType, NodesAssumption, FS_Subset
<1>4. /\ Cardinality(Supporters(S)) <= Cardinality(Supporters(T))
      /\ Cardinality(Supporters(S)) \in Nat /\ Cardinality(Supporters(T)) \in Nat
      /\ Cardinality(net.nodes) \in Nat
  BY <1>2, <1>3, FS_Subset, FS_CardinalityType
<1>5. Threshold(net.nodes) \in Int
  BY <1>4 DEF Threshold
<1> QED
  BY <1>4, <1>5 DEF Approves, IsQuorum

LEMMA IssuedGrows ==
  ASSUME TypeOK, [Next]_vars
  PROVE  Issued \subseteq Issued' /\ net' = net
<1>1. ASSUME NEW m \in Messages, CliAppend(m) \/ CliAppendFails(m) \/ Broadcast(m)
      PROVE  Issued \subseteq Issued' /\ net' = net
  BY <1>1 DEF CliAppend, CliAppendFails, Broadcast, Issued, TypeOK, GossipTypeOK
<1>2. CASE UNCHANGED cli /\ UNCHANGED net
  BY <1>2 DEF Issued
<1> QED
  BY <1>1, <1>2
  DEF Next, Carry, Accept, AppendLine, AppendFails, Mark, Forward, Restart, HandOver,
      Dispatch, HandlerRaises, Crash, Replay, gossipVars, vars

(* A copy is old, is broadcast by its command or passed on by a thread.    *)
LEMMA WireCases ==
  ASSUME TypeOK, Control, [Next]_vars, NEW k \in BagToSet(wire')
  PROVE  \/ k \in BagToSet(wire)
         \/ k.id \in Messages /\ cli[k.id] = "broadcast"
         \/ \E n \in Nodes, c \in Conns : conn[n][c].pc # "idle" /\ k.id = conn[n][c].msg
<1>1. ASSUME NEW m \in Messages, Broadcast(m), k \notin BagToSet(wire)
      PROVE  k.id = m /\ cli[m] = "broadcast"
  <2> DEFINE peers == net.peers[Sender[m]]
             copies == {Built(m, p) : p \in peers}
  <2>1. /\ Sender[m] \in Nodes /\ peers \in SUBSET Nodes
        /\ Send(m, Sender[m], peers, copies) /\ cli[m] = "broadcast"
    BY <1>1, NetType, SenderAssumption DEF Broadcast
  <2>2. copies \in SUBSET Copy /\ \A x \in copies : x.id = m
    BY <2>1, TTLAssumption DEF Built, Copy
  <2>3. BagToSet(wire') \subseteq BagToSet(wire) \cup copies
    <3> HIDE DEF copies, peers
    <3> QED
      BY <2>1, <2>2, SendType
  <2>4. k \in copies
    <3> HIDE DEF copies
    <3> QED
      BY <1>1, <2>3
  <2> QED
    BY <2>1, <2>2, <2>4
<1>2. ASSUME NEW n \in Nodes, NEW c \in Conns, Forward(n, c), k \notin BagToSet(wire)
      PROVE  conn[n][c].pc # "idle" /\ k.id = conn[n][c].msg
  <2> DEFINE m == conn[n][c].msg
             copies == {Forwarded(m, conn[n][c].ttl, n, p) : p \in FloodTargets(n, m)}
  <2>1. /\ m \in Messages /\ conn[n][c].ttl \in 1..TTL /\ conn[n][c].pc = "forward"
        /\ FloodTargets(n, m) \in SUBSET Nodes
    BY <1>2, ThreadType, NetType, TTLAssumption DEF Forward, ThreadOK, Thread, FloodTargets
  <2>2. Send(m, n, FloodTargets(n, m), copies)
    BY <1>2 DEF Forward
  <2>3. copies \in SUBSET Copy /\ \A x \in copies : x.id = m
    BY <2>1, TTLAssumption DEF Forwarded, Copy
  <2>4. BagToSet(wire') \subseteq BagToSet(wire) \cup copies
    <3> HIDE DEF m, copies
    <3> QED
      BY <2>1, <2>2, <2>3, SendType
  <2>5. k \in copies
    <3> HIDE DEF copies
    <3> QED
      BY <1>2, <2>4
  <2> QED
    BY <2>1, <2>3, <2>5
<1>3. ASSUME NEW n \in Nodes, NEW c \in Conns, Accept(n, c)
      PROVE  k \in BagToSet(wire)
  BY <1>3, BagTakes DEF Accept
<1>4. ASSUME NEW n \in Nodes, Crash(n)
      PROVE  k \in BagToSet(wire)
  BY <1>4 DEF Crash, BagToSet
<1>5. CASE UNCHANGED wire
  BY <1>5
<1> QED
  BY <1>1, <1>2, <1>3, <1>4, <1>5
  DEF Next, Carry, CliAppend, CliAppendFails, AppendLine, AppendFails, Mark, Restart,
      HandOver, Dispatch, HandlerRaises, Replay, gossipVars, vars

(* A thread keeps its message, ends, or takes one from the wire.           *)
LEMMA ThreadCases ==
  ASSUME TypeOK, Control, [Next]_vars, NEW n \in Nodes, NEW c \in Conns,
         conn'[n][c].pc # "idle"
  PROVE  \/ conn[n][c].pc # "idle" /\ conn'[n][c].msg = conn[n][c].msg
         \/ \E k \in BagToSet(wire) : conn'[n][c].msg = k.id
<1>1. conn \in [Nodes -> [Conns -> Thread]]
  BY ThreadType
<1>2. CASE UNCHANGED conn
  BY <1>2
<1>3. ASSUME NEW x \in Nodes, NEW y \in Conns, Close(x, y)
      PROVE  conn[n][c].pc # "idle" /\ conn'[n][c].msg = conn[n][c].msg
  <2>1. <<x, y>> # <<n, c>>
    BY <1>1, <1>3 DEF Close, IdleConn
  <2> QED
    BY <1>1, <1>3, <2>1 DEF Close
<1>4. ASSUME NEW x \in Nodes, NEW y \in Conns, NEW label \in Labels, Step(x, y, label),
             conn[x][y].pc # "idle"
      PROVE  conn[n][c].pc # "idle" /\ conn'[n][c].msg = conn[n][c].msg
  <2>1. /\ Moved(conn[x][y], label).msg = conn[x][y].msg
        /\ conn' = [conn EXCEPT ![x][y] = Moved(conn[x][y], label)]
    BY <1>4, StepThread
  <2>2. CASE <<x, y>> = <<n, c>>
    BY <1>1, <1>4, <2>1, <2>2
  <2>3. CASE <<x, y>> # <<n, c>>
    BY <1>1, <2>1, <2>3
  <2> QED
    BY <2>2, <2>3
<1>5. ASSUME NEW x \in Nodes, NEW y \in Conns, Accept(x, y), conn'[n][c] # conn[n][c]
      PROVE  \E k \in BagToSet(wire) : conn'[n][c].msg = k.id
  BY <1>1, <1>5 DEF Accept
<1>6. ASSUME NEW x \in Nodes, Crash(x)
      PROVE  conn'[n][c] = conn[n][c]
  <2>1. conn' = [conn EXCEPT ![x] = [y \in Conns |-> IdleConn]]
    BY <1>6 DEF Crash
  <2> QED
    BY <1>1, <2>1 DEF IdleConn
<1> QED
  BY <1>2, <1>3, <1>4, <1>5, <1>6
  DEF Next, Carry, CliAppend, CliAppendFails, Broadcast, AppendLine, AppendFails, Mark,
      Forward, Restart, HandOver, Dispatch, HandlerRaises, Replay, gossipVars, vars, Labels

(* A line is old, torn, issued by a command or handed to a thread.         *)
LEMMA LineCases ==
  ASSUME TypeOK, Control, [Next]_vars, NEW n \in Nodes, NEW m \in Range(ledger'[n])
  PROVE  \/ m \in Range(ledger[n]) \cup {Torn}
         \/ m \in Issued'
         \/ \E c \in Conns : conn[n][c].pc # "idle" /\ m = conn[n][c].msg
<1>1. ASSUME NEW x \in Messages, CliAppend(x) \/ CliAppendFails(x)
      PROVE  m \in Range(ledger[n]) \cup {Torn} \/ m \in Issued'
  <2>1. Sender[x] \in Nodes /\ x \in Issued'
    BY <1>1, SenderAssumption DEF CliAppend, CliAppendFails, Issued, TypeOK, GossipTypeOK
  <2>2. WriteLine(Sender[x], x) \/ WritePart(Sender[x], x)
    BY <1>1 DEF CliAppend, CliAppendFails
  <2> QED
    BY <2>1, <2>2, WriteType
<1>2. ASSUME NEW x \in Nodes, NEW c \in Conns, conn[x][c].pc # "idle",
             WriteLine(x, conn[x][c].msg) \/ WritePart(x, conn[x][c].msg)
      PROVE  \/ m \in Range(ledger[n]) \cup {Torn}
             \/ \E y \in Conns : conn[n][y].pc # "idle" /\ m = conn[n][y].msg
  <2>1. conn[x][c].msg \in Messages
    BY <1>2, ThreadType
  <2>2. /\ \A y \in Nodes \ {x} : ledger'[y] = ledger[y]
        /\ Range(ledger'[x]) \subseteq Range(ledger[x]) \cup {conn[x][c].msg, Torn}
    BY <1>2, <2>1, WriteType
  <2> QED
    BY <1>2, <2>2
<1>3. CASE UNCHANGED disk
  BY <1>3 DEF disk
<1> QED
  BY <1>1, <1>2, <1>3
  DEF Next, Carry, Broadcast, Accept, AppendLine, AppendFails, Mark, Forward, Restart,
      HandOver, Dispatch, HandlerRaises, Crash, Replay, gossipVars, vars

LEMMA ProvenanceStep ==
  ASSUME TypeOK, Control, Provenance, [Next]_vars
  PROVE  Provenance'
<1>1. /\ Issued \subseteq Issued' /\ net' = net /\ Conns' = Conns
      /\ Issued \subseteq Messages /\ Issued' \subseteq Messages
  BY IssuedGrows DEF Issued, Conns
<1>2. ASSUME NEW k \in BagToSet(wire')
      PROVE  k.id \in Issued'
  <2>1. \A m \in Messages : cli[m] = "broadcast" => m \in Issued
    BY DEF Issued
  <2> QED
    BY <1>1, <2>1, WireCases DEF Provenance
<1>3. ASSUME NEW n \in Nodes, NEW c \in Conns, conn'[n][c].pc # "idle"
      PROVE  conn'[n][c].msg \in Issued'
  BY <1>1, <1>3, ThreadCases DEF Provenance
<1>4. ASSUME NEW n \in Nodes
      PROVE  Range(ledger'[n]) \subseteq Issued' \cup {Torn}
  BY <1>1, LineCases DEF Provenance
<1>5. ASSUME NEW n \in Nodes
      PROVE  ballot'[n] \subseteq Issued'
  BY <1>1, BridgeCases DEF Provenance
<1>6. ASSUME NEW n \in Nodes, approved'[n]
      PROVE  Approves(Issued')
  <2>1. CASE approved[n]
    <3>1. Approves(Issued)
      BY <2>1 DEF Provenance
    <3> QED
      BY <1>1, <3>1, ApprovesGrows
  <2>2. CASE Approves(ballot'[n])
    BY <1>1, <1>5, <2>2, ApprovesGrows
  <2>3. CASE Approves(Replayed(n))
    <3>1. Replayed(n) \subseteq Issued
      BY DEF Provenance, Replayed
    <3> QED
      BY <1>1, <2>3, <3>1, ApprovesGrows
  <2> QED
    BY <1>6, <2>1, <2>2, <2>3, BridgeCases
<1>7. Approves(Issued') = Approves(Issued)'
  BY <1>1 DEF Approves, Supporters
<1> QED
  BY <1>1, <1>2, <1>3, <1>4, <1>5, <1>6, <1>7 DEF Provenance

LEMMA ProvenanceInit == NetworkInit => Provenance
<1> SUFFICES ASSUME NetworkInit PROVE Provenance
  OBVIOUS
<1>1. BagToSet(wire) = {}
  BY DEF NetworkInit, Init, EmptyBag, SetToBag, BagToSet
<1>2. \A n \in Nodes : Range(ledger[n]) = {}
  BY DEF NetworkInit, Init, ForNodes, Range
<1> QED
  BY <1>1, <1>2 DEF NetworkInit, Init, ForNodes, IdleConn, Provenance

(* A node approves only what more than two thirds of the nodes sent a yes  *)
(* for, whichever copies, writes and processes failed.                     *)
THEOREM SupportedApprovals == Spec => []ApprovedMeansSupported
<1>1. TypeOK /\ Control /\ Provenance /\ [Next]_vars => Provenance'
  BY ProvenanceStep
<1>2. TypeOK /\ Provenance => ApprovedMeansSupported
  <2> SUFFICES ASSUME TypeOK, Provenance, NEW n \in Nodes, approved[n]
               PROVE  /\ Proposal \in Issued
                      /\ 3 * Cardinality({Sender[m] : m \in Issued}) > 2 * Cardinality(net.nodes)
    BY DEF ApprovedMeansSupported, Issued
  <2>1. Approves(Issued)
    BY DEF Provenance
  <2>2. Proposal \in Issued /\ Supporters(Issued) = {Sender[m] : m \in Issued}
    BY <2>1, QuorumProposed
  <2>3. Supporters(Issued) \subseteq Nodes
    BY <2>2, SenderAssumption DEF Issued
  <2>4. IsFiniteSet(Supporters(Issued))
    BY <2>3, NodesAssumption, FS_Subset
  <2> QED
    BY <2>1, <2>2, <2>4, QuorumProposed
<1> QED
  BY <1>1, <1>2, ProvenanceInit, TypeCorrect, PTL DEF Spec

-------------------------------------------------------------------------------
(* What the sound file of a node holds: everything that was handed over,   *)
(* that its own commands sent, and that its process has seen.              *)
KeptMessages(n) ==
  /\ \A m \in Messages : heard[n][m] > 0 => m \in Range(ledger[n])
  /\ \A m \in Messages :
       Sender[m] = n /\ cli[m] \in {"broadcast", "done"} => m \in Range(ledger[n])
  /\ seen[n] \subseteq Range(ledger[n])
  /\ \A c \in Conns : conn[n][c].pc = "mark" => conn[n][c].msg \in Range(ledger[n])

Kept == \A n \in Nodes : Sound(n) => KeptMessages(n)

(* A step changes the file of a node by a write, which a sound file        *)
(* survives with all its lines.                                            *)
LEMMA SoundGrows ==
  ASSUME TypeOK, Control, [Next]_vars, NEW n \in Nodes, Sound(n)'
  PROVE  Sound(n) /\ Range(ledger[n]) \subseteq Range(ledger'[n])
<1>1. ASSUME NEW x \in Nodes, NEW m \in Messages, WriteLine(x, m) \/ WritePart(x, m)
      PROVE  Sound(n) /\ Range(ledger[n]) \subseteq Range(ledger'[n])
  BY <1>1, WriteType DEF Sound
<1>2. CASE UNCHANGED disk
  BY <1>2 DEF disk, Sound
<1>3. ASSUME NEW m \in Messages, CliAppend(m) \/ CliAppendFails(m)
      PROVE  Sound(n) /\ Range(ledger[n]) \subseteq Range(ledger'[n])
  BY <1>1, <1>3, SenderAssumption DEF CliAppend, CliAppendFails
<1>4. ASSUME NEW x \in Nodes, NEW c \in Conns, conn[x][c].pc # "idle",
             WriteLine(x, conn[x][c].msg) \/ WritePart(x, conn[x][c].msg)
      PROVE  Sound(n) /\ Range(ledger[n]) \subseteq Range(ledger'[n])
  BY <1>1, <1>4, ThreadType
<1> QED
  BY <1>2, <1>3, <1>4
  DEF Next, Carry, Broadcast, Accept, AppendLine, AppendFails, Mark, Forward, Restart,
      HandOver, Dispatch, HandlerRaises, Crash, Replay, gossipVars, vars

(* Only a handler that has marked its message hands it over.               *)
LEMMA HeardCases ==
  ASSUME TypeOK, Control, [Next]_vars, NEW n \in Nodes, NEW m \in Messages
  PROVE  heard'[n][m] # heard[n][m] => m \in seen[n]
<1>1. ASSUME NEW x \in Nodes, NEW c \in Conns, Dispatch(x, c) \/ HandlerRaises(x, c),
             heard'[n][m] # heard[n][m]
      PROVE  m \in seen[n]
  <2>1. heard \in [Nodes -> [Messages -> Nat]] /\ conn[x][c].msg \in Messages
    BY <1>1, ThreadType DEF Dispatch, HandlerRaises, TypeOK, GossipTypeOK
  <2>2. heard' = [heard EXCEPT ![x][conn[x][c].msg] = heard[x][conn[x][c].msg] + 1]
    BY <1>1 DEF Dispatch, HandlerRaises
  <2>3. x = n /\ m = conn[x][c].msg
    BY <1>1, <2>1, <2>2
  <2>4. ThreadOK(x, c) /\ conn[x][c].pc = "dispatch"
    BY <1>1 DEF Control, Dispatch, HandlerRaises
  <2> QED
    BY <2>3, <2>4 DEF ThreadOK
<1>2. CASE UNCHANGED heard
  BY <1>2
<1> QED
  BY <1>1, <1>2
  DEF Next, Carry, CliAppend, CliAppendFails, Broadcast, Accept, AppendLine, AppendFails, Mark,
      Forward, Restart, HandOver, Crash, Replay, gossipVars, vars, history

(* The seen set gets what a handler has written, or is read from the file. *)
LEMMA SeenCases ==
  ASSUME TypeOK, Control, [Next]_vars, NEW n \in Nodes, NEW m \in seen'[n]
  PROVE  \/ m \in seen[n] \/ m \in Range(ledger[n])
         \/ \E c \in Conns : conn[n][c].pc = "mark" /\ m = conn[n][c].msg
<1>1. ASSUME NEW x \in Nodes, NEW c \in Conns, Mark(x, c)
      PROVE  m \in seen[n] \/ (conn[n][c].pc = "mark" /\ m = conn[n][c].msg)
  BY <1>1 DEF Mark, TypeOK, GossipTypeOK
<1>2. ASSUME NEW x \in Nodes, Restart(x) \/ Crash(x)
      PROVE  m \in seen[n] \/ m \in Range(ledger[n])
  BY <1>2 DEF Restart, Crash, LoadSeen, TypeOK, GossipTypeOK
<1>3. CASE UNCHANGED seen
  BY <1>3
<1> QED
  BY <1>1, <1>2, <1>3
  DEF Next, Carry, CliAppend, CliAppendFails, Broadcast, Accept, AppendLine, AppendFails,
      Forward, HandOver, Dispatch, HandlerRaises, Replay, gossipVars, vars

(* A handler goes on to mark what it has written.                          *)
LEMMA MarkCases ==
  ASSUME TypeOK, Control, [Next]_vars, NEW n \in Nodes, NEW c \in Conns,
         conn'[n][c].pc = "mark"
  PROVE  \/ conn[n][c].pc = "mark" /\ conn'[n][c].msg = conn[n][c].msg
         \/ /\ conn[n][c].pc # "idle" /\ conn'[n][c].msg = conn[n][c].msg
            /\ WriteLine(n, conn[n][c].msg)
<1>1. conn \in [Nodes -> [Conns -> Thread]]
  BY ThreadType
<1>2. CASE conn'[n][c] = conn[n][c]
  BY <1>2
<1>3. ASSUME NEW x \in Nodes, NEW y \in Conns, AppendLine(x, y), conn'[n][c] # conn[n][c]
      PROVE  /\ conn[n][c].pc # "idle" /\ conn'[n][c].msg = conn[n][c].msg
             /\ WriteLine(n, conn[n][c].msg)
  <2>1. PICK label \in {"dispatch", "mark"} :
          Step(x, y, label) /\ (label = "mark" => WriteLine(x, conn[x][y].msg))
    BY <1>3 DEF AppendLine
  <2>2. /\ Moved(conn[x][y], label).msg = conn[x][y].msg
        /\ Moved(conn[x][y], label).pc = label
        /\ conn' = [conn EXCEPT ![x][y] = Moved(conn[x][y], label)]
    BY <2>1, StepThread DEF Labels
  <2>3. x = n /\ y = c
    BY <1>1, <1>3, <2>2
  <2> QED
    BY <1>1, <1>3, <2>1, <2>2, <2>3 DEF AppendLine
<1>4. ASSUME NEW x \in Nodes, NEW y \in Conns, Close(x, y)
      PROVE  conn'[n][c] = conn[n][c]
  BY <1>1, <1>4 DEF Close, IdleConn
<1>5. ASSUME NEW x \in Nodes, NEW y \in Conns, NEW label \in {"dispatch", "forward"},
             Step(x, y, label)
      PROVE  conn'[n][c] = conn[n][c]
  BY <1>1, <1>5 DEF Step, Thread
<1>6. ASSUME NEW x \in Nodes, NEW y \in Conns, Accept(x, y)
      PROVE  conn'[n][c] = conn[n][c]
  BY <1>1, <1>6 DEF Accept
<1>7. ASSUME NEW x \in Nodes, Crash(x)
      PROVE  conn'[n][c] = conn[n][c]
  <2>1. conn' = [conn EXCEPT ![x] = [y \in Conns |-> IdleConn]]
    BY <1>7 DEF Crash
  <2> QED
    BY <1>1, <2>1 DEF IdleConn
<1> QED
  BY <1>2, <1>3, <1>4, <1>5, <1>6, <1>7
  DEF Next, Carry, CliAppend, CliAppendFails, Broadcast, AppendFails, Mark, Forward, Restart,
      HandOver, Dispatch, HandlerRaises, Replay, gossipVars, vars

(* A command broadcasts only what it has written.                          *)
LEMMA SentCases ==
  ASSUME TypeOK, Control, [Next]_vars, NEW m \in Messages, cli'[m] \in {"broadcast", "done"}
  PROVE  cli[m] \in {"broadcast", "done"} \/ WriteLine(Sender[m], m)
<1>1. ASSUME NEW x \in Messages, CliAppend(x)
      PROVE  cli[m] \in {"broadcast", "done"} \/ WriteLine(Sender[m], m)
  BY <1>1 DEF CliAppend, TypeOK, GossipTypeOK
<1>2. ASSUME NEW x \in Messages, CliAppendFails(x) \/ Broadcast(x)
      PROVE  cli[m] \in {"broadcast", "done"}
  BY <1>2 DEF CliAppendFails, Broadcast, TypeOK, GossipTypeOK
<1>3. CASE UNCHANGED cli
  BY <1>3
<1> QED
  BY <1>1, <1>2, <1>3
  DEF Next, Carry, Accept, AppendLine, AppendFails, Mark, Forward, Restart, HandOver,
      Dispatch, HandlerRaises, Crash, Replay, gossipVars, vars

LEMMA KeptStep ==
  ASSUME TypeOK, Control, Kept, [Next]_vars
  PROVE  Kept'
<1> SUFFICES ASSUME NEW n \in Nodes, Sound(n)' PROVE KeptMessages(n)'
  BY DEF Kept
<1> DEFINE old == Range(ledger[n])
           new == Range(ledger'[n])
<1>1. Sound(n) /\ old \subseteq new /\ KeptMessages(n)
  BY SoundGrows DEF Kept
<1>2. ASSUME NEW m \in Messages, WriteLine(n, m)
      PROVE  m \in new
  BY <1>2, WriteType DEF Sound
<1>3. Conns' = Conns
  BY IssuedGrows DEF Conns
<1>4. ASSUME NEW m \in Messages, heard'[n][m] > 0
      PROVE  m \in new
  <2>1. CASE heard'[n][m] = heard[n][m]
    BY <1>1, <1>4, <2>1 DEF KeptMessages
  <2>2. CASE heard'[n][m] # heard[n][m]
    BY <1>1, <2>2, HeardCases DEF KeptMessages
  <2> QED
    BY <2>1, <2>2
<1>5. ASSUME NEW m \in Messages, Sender[m] = n, cli'[m] \in {"broadcast", "done"}
      PROVE  m \in new
  BY <1>1, <1>2, <1>5, SentCases DEF KeptMessages
<1>6. seen'[n] \subseteq new
  BY <1>1, SeenCases DEF KeptMessages
<1>7. ASSUME NEW c \in Conns, conn'[n][c].pc = "mark"
      PROVE  conn'[n][c].msg \in new
  <2>1. conn[n][c].pc # "idle" => conn[n][c].msg \in Messages
    BY ThreadType
  <2> QED
    BY <1>1, <1>2, <1>7, <2>1, MarkCases DEF KeptMessages
<1> QED
  BY <1>3, <1>4, <1>5, <1>6, <1>7 DEF KeptMessages

LEMMA KeptInit == NetworkInit => Kept
BY DEF NetworkInit, Init, ForNodes, IdleConn, Kept, KeptMessages

LEMMA KeptInvariant == Spec => [](TypeOK /\ Control /\ Kept)
<1>1. TypeOK /\ Control /\ Kept /\ [Next]_vars => Kept'
  BY KeptStep
<1> QED
  BY <1>1, KeptInit, TypeCorrect, PTL DEF Spec

(* The replay of a sound ledger file finds every quorum the node ever      *)
(* heard of or took part in.                                               *)
THEOREM QuorumsReplayed == Spec => []ReplayRebuildsQuorum
<1>1. TypeOK /\ Kept => ReplayRebuildsQuorum
  <2> SUFFICES ASSUME TypeOK, Kept, NEW n \in Nodes, Sound(n),
                      Approves(Known(n))
               PROVE  Approves(Replayed(n))
    BY DEF ReplayRebuildsQuorum
  <2>1. Replayed(n) = Range(ledger[n])
    BY DEF Replayed, Sound
  <2>2. Known(n) \subseteq Replayed(n)
    BY <2>1 DEF Kept, KeptMessages, Known, Sent
  <2>3. Replayed(n) \in SUBSET Messages
    BY <2>1 DEF Sound, TypeOK, GossipTypeOK, Range
  <2> QED
    BY <2>2, <2>3, ApprovesGrows
<1> QED
  BY <1>1, KeptInvariant, PTL

-------------------------------------------------------------------------------
(* The handlers of a node that will still hand m over.                     *)
Under(n, m) ==
  {c \in Conns : conn[n][c].pc \in {"append", "mark", "dispatch"} /\ conn[n][c].msg = m}

(* A process that handed m over takes no copy of it any more, so m is      *)
(* handed over once by each handler that has it now.                       *)
OnceHeard(n) ==
  \A m \in Messages :
    /\ up[n] /\ heard[n][m] > 0 => m \in seen[n]
    /\ heard[n][m] + Cardinality(Under(n, m)) <= net.conns

Once == \A n \in Nodes : Sound(n) => OnceHeard(n)

LEMMA ConnsSize ==
  ASSUME NEW k \in Nat
  PROVE  IsFiniteSet(1..k) /\ Cardinality(1..k) <= k
<1>1. 1 \in Int /\ k \in Int
  OBVIOUS
<1> QED
  BY <1>1, FS_Interval

LEMMA UnderSize ==
  ASSUME TypeOK, NEW n \in Nodes, NEW m \in Messages
  PROVE  /\ IsFiniteSet(Under(n, m)) /\ Cardinality(Under(n, m)) \in 0..net.conns
<1>1. net.conns \in Nat /\ Conns = 1..net.conns
  BY NetType
<1>2. IsFiniteSet(1..net.conns) /\ Cardinality(1..net.conns) <= net.conns
  BY <1>1, ConnsSize
<1>3. Under(n, m) \in SUBSET (1..net.conns)
  BY <1>1 DEF Under
<1>4. IsFiniteSet(Under(n, m)) /\ Cardinality(Under(n, m)) <= Cardinality(1..net.conns)
  BY <1>2, <1>3, FS_Subset
<1>5. Cardinality(Under(n, m)) \in Nat /\ Cardinality(1..net.conns) \in Nat
  BY <1>2, <1>4, FS_CardinalityType
<1> QED
  BY <1>1, <1>2, <1>4, <1>5

(* What the handlers of a node do to m in a step: none takes it up and the *)
(* count stays, one hands it over, or one takes it up that was not seen.   *)
LEMMA UnderCases ==
  ASSUME TypeOK, Control, [Next]_vars, NEW n \in Nodes, NEW m \in Messages
  PROVE  \/ Under(n, m)' \subseteq Under(n, m) /\ heard'[n][m] = heard[n][m]
         \/ \E c \in Under(n, m) : /\ Under(n, m)' \subseteq Under(n, m) \ {c}
                                   /\ heard'[n][m] = heard[n][m] + 1
         \/ up[n] /\ m \notin seen[n] /\ heard'[n][m] = heard[n][m]
<1>1. conn \in [Nodes -> [Conns -> Thread]] /\ heard \in [Nodes -> [Messages -> Nat]]
  BY ThreadType DEF TypeOK, GossipTypeOK
<1>2. Conns' = Conns
  BY IssuedGrows DEF Conns
<1>3. CASE UNCHANGED <<conn, heard>>
  BY <1>2, <1>3 DEF Under
<1>4. ASSUME NEW x \in Nodes, NEW y \in Conns, Accept(x, y)
      PROVE  \/ Under(n, m)' \subseteq Under(n, m) /\ heard'[n][m] = heard[n][m]
             \/ up[n] /\ m \notin seen[n] /\ heard'[n][m] = heard[n][m]
  <2>1. UNCHANGED heard
    BY <1>4 DEF Accept, history
  <2>2. PICK k \in BagToSet(wire) :
          conn' = IF Verify(k) /\ ~Duplicate(x, k.id)
                  THEN [conn EXCEPT ![x][y] = [pc |-> "append", msg |-> k.id, ttl |-> k.ttl]]
                  ELSE conn
    BY <1>4 DEF Accept
  <2>3. CASE conn' = conn
    BY <1>2, <2>1, <2>3 DEF Under
  <2>4. CASE conn' # conn /\ x = n /\ k.id = m
    BY <1>4, <2>1, <2>2, <2>4 DEF Accept, Duplicate
  <2>5. CASE conn' # conn /\ (x # n \/ k.id # m)
    <3>1. conn' = [conn EXCEPT ![x][y] = [pc |-> "append", msg |-> k.id, ttl |-> k.ttl]]
      BY <2>2, <2>5
    <3>2. \A c \in Conns : conn'[n][c] = conn[n][c] \/ conn'[n][c].msg # m
      BY <1>1, <2>5, <3>1
    <3> QED
      BY <1>2, <2>1, <3>2 DEF Under
  <2> QED
    BY <2>3, <2>4, <2>5
<1>5. ASSUME NEW x \in Nodes, NEW y \in Conns, Close(x, y), UNCHANGED heard
      PROVE  Under(n, m)' \subseteq Under(n, m) /\ heard'[n][m] = heard[n][m]
  <2>1. \A c \in Conns : conn'[n][c] = conn[n][c] \/ conn'[n][c].pc = "idle"
    BY <1>1, <1>5 DEF Close, IdleConn
  <2> QED
    BY <1>2, <1>5, <2>1 DEF Under
<1>6. ASSUME NEW x \in Nodes, NEW y \in Conns, NEW label \in Labels, Step(x, y, label),
             conn[x][y].pc \in {"append", "mark"}, UNCHANGED heard
      PROVE  Under(n, m)' \subseteq Under(n, m) /\ heard'[n][m] = heard[n][m]
  <2>1. /\ Moved(conn[x][y], label).msg = conn[x][y].msg
        /\ conn' = [conn EXCEPT ![x][y] = Moved(conn[x][y], label)]
    BY <1>6, StepThread
  <2>2. \A c \in Conns : \/ conn'[n][c] = conn[n][c]
                         \/ /\ conn'[n][c].msg = conn[n][c].msg
                            /\ conn[n][c].pc \in {"append", "mark"}
    BY <1>1, <1>6, <2>1
  <2> QED
    BY <1>2, <1>6, <2>2 DEF Under
<1>7. ASSUME NEW x \in Nodes, NEW y \in Conns, Dispatch(x, y) \/ HandlerRaises(x, y)
      PROVE  \/ Under(n, m)' \subseteq Under(n, m) /\ heard'[n][m] = heard[n][m]
             \/ \E c \in Under(n, m) : /\ Under(n, m)' \subseteq Under(n, m) \ {c}
                                       /\ heard'[n][m] = heard[n][m] + 1
  <2>1. conn[x][y].msg \in Messages /\ conn[x][y].pc = "dispatch"
    BY <1>7, ThreadType DEF Dispatch, HandlerRaises
  <2>2. heard' = [heard EXCEPT ![x][conn[x][y].msg] = heard[x][conn[x][y].msg] + 1]
    BY <1>7 DEF Dispatch, HandlerRaises
  <2>3. /\ conn'[x][y].pc \notin {"append", "mark", "dispatch"}
        /\ \A c \in Conns : <<x, y>> # <<n, c>> => conn'[n][c] = conn[n][c]
    <3>1. CASE Close(x, y)
      BY <1>1, <3>1 DEF Close, IdleConn
    <3>2. CASE Step(x, y, "forward")
      <4>1. /\ Moved(conn[x][y], "forward").pc = "forward"
            /\ conn' = [conn EXCEPT ![x][y] = Moved(conn[x][y], "forward")]
        BY <3>2, StepThread DEF Labels
      <4> QED
        BY <1>1, <4>1
    <3> QED
      BY <1>7, <3>1, <3>2 DEF Dispatch, HandlerRaises
  <2>4. Under(n, m)' \subseteq Under(n, m)
    BY <1>2, <2>3 DEF Under
  <2>5. CASE x = n /\ conn[x][y].msg = m
    <3>1. y \in Under(n, m) /\ y \notin Under(n, m)'
      BY <2>1, <2>3, <2>5 DEF Under
    <3>2. heard'[n][m] = heard[n][m] + 1
      BY <1>1, <2>1, <2>2, <2>5
    <3> QED
      BY <2>4, <3>1, <3>2
  <2>6. CASE ~(x = n /\ conn[x][y].msg = m)
    BY <1>1, <2>1, <2>2, <2>4, <2>6
  <2> QED
    BY <2>5, <2>6
<1>8. ASSUME NEW x \in Nodes, Crash(x)
      PROVE  Under(n, m)' \subseteq Under(n, m) /\ heard'[n][m] = heard[n][m]
  <2>1. conn' = [conn EXCEPT ![x] = [y \in Conns |-> IdleConn]] /\ UNCHANGED heard
    BY <1>8 DEF Crash
  <2>2. \A c \in Conns : conn'[n][c] = conn[n][c] \/ conn'[n][c].pc = "idle"
    BY <1>1, <2>1 DEF IdleConn
  <2> QED
    BY <1>2, <2>1, <2>2 DEF Under
<1> QED
  BY <1>3, <1>4, <1>5, <1>6, <1>7, <1>8
  DEF Next, Carry, CliAppend, CliAppendFails, Broadcast, AppendLine, AppendFails, Mark,
      Forward, Restart, HandOver, Replay, gossipVars, vars, history, Labels

(* A process that runs on forgets nothing; one that starts reads its file. *)
LEMMA SeenStays ==
  ASSUME TypeOK, Control, [Next]_vars, NEW n \in Nodes, up'[n]
  PROVE  \/ up[n] /\ seen[n] \subseteq seen'[n]
         \/ seen'[n] = LoadSeen(n) /\ UNCHANGED heard
<1>1. ASSUME NEW x \in Nodes, NEW c \in Conns, Mark(x, c)
      PROVE  up[n] /\ seen[n] \subseteq seen'[n]
  BY <1>1 DEF Mark, TypeOK, GossipTypeOK
<1>2. ASSUME NEW x \in Nodes, Restart(x)
      PROVE  \/ up[n] /\ seen[n] \subseteq seen'[n]
             \/ seen'[n] = LoadSeen(n) /\ UNCHANGED heard
  BY <1>2 DEF Restart, TypeOK, GossipTypeOK, history
<1>3. ASSUME NEW x \in Nodes, Crash(x)
      PROVE  up[n] /\ seen[n] \subseteq seen'[n]
  BY <1>3 DEF Crash, TypeOK, GossipTypeOK
<1>4. CASE UNCHANGED <<up, seen>>
  BY <1>4
<1> QED
  BY <1>1, <1>2, <1>3, <1>4
  DEF Next, Carry, CliAppend, CliAppendFails, Broadcast, Accept, AppendLine, AppendFails,
      Forward, HandOver, Dispatch, HandlerRaises, Replay, gossipVars, vars

LEMMA OnceStep ==
  ASSUME TypeOK, Control, Kept, Once, [Next]_vars
  PROVE  Once'
<1> SUFFICES ASSUME NEW n \in Nodes, Sound(n)', NEW m \in Messages
             PROVE  /\ up'[n] /\ heard'[n][m] > 0 => m \in seen'[n]
                    /\ heard'[n][m] + Cardinality(Under(n, m)') <= net'.conns
  BY DEF Once, OnceHeard
<1>1. Sound(n) /\ KeptMessages(n) /\ OnceHeard(n)
  BY SoundGrows DEF Kept, Once
<1>2. net' = net /\ Conns' = 1..net.conns /\ net.conns \in Nat
  BY IssuedGrows, NetType DEF Conns
<1>3. ASSUME up'[n], heard'[n][m] > 0
      PROVE  m \in seen'[n]
  <2>1. CASE up[n] /\ seen[n] \subseteq seen'[n]
    BY <1>1, <1>3, <2>1, HeardCases DEF OnceHeard
  <2>2. CASE seen'[n] = LoadSeen(n) /\ UNCHANGED heard
    BY <1>1, <1>3, <2>2, TornAssumption DEF KeptMessages, LoadSeen
  <2> QED
    BY <1>3, <2>1, <2>2, SeenStays
<1>4. heard'[n][m] + Cardinality(Under(n, m)') <= net.conns
  <2>1. /\ heard[n][m] \in Nat /\ heard[n][m] + Cardinality(Under(n, m)) <= net.conns
        /\ IsFiniteSet(Under(n, m)) /\ Cardinality(Under(n, m)) \in Nat
    BY <1>1, UnderSize DEF OnceHeard, TypeOK, GossipTypeOK
  <2>2. CASE Under(n, m)' \subseteq Under(n, m) /\ heard'[n][m] = heard[n][m]
    <3>1. IsFiniteSet(Under(n, m)') /\ Cardinality(Under(n, m)') <= Cardinality(Under(n, m))
      BY <2>1, <2>2, FS_Subset
    <3>2. Cardinality(Under(n, m)') \in Nat
      BY <3>1, FS_CardinalityType
    <3> QED
      BY <1>2, <2>1, <2>2, <3>1, <3>2
  <2>3. ASSUME NEW c \in Under(n, m), Under(n, m)' \subseteq Under(n, m) \ {c},
               heard'[n][m] = heard[n][m] + 1
        PROVE  heard'[n][m] + Cardinality(Under(n, m)') <= net.conns
    <3>1. /\ IsFiniteSet(Under(n, m) \ {c})
          /\ Cardinality(Under(n, m) \ {c}) = Cardinality(Under(n, m)) - 1
      BY <2>1, FS_RemoveElement
    <3>2. /\ IsFiniteSet(Under(n, m)')
          /\ Cardinality(Under(n, m)') <= Cardinality(Under(n, m) \ {c})
      BY <2>3, <3>1, FS_Subset
    <3>3. Cardinality(Under(n, m)') \in Nat
      BY <3>2, FS_CardinalityType
    <3> QED
      BY <1>2, <2>1, <2>3, <3>1, <3>2, <3>3
  <2>4. CASE up[n] /\ m \notin seen[n] /\ heard'[n][m] = heard[n][m]
    <3>1. heard'[n][m] = 0
      BY <1>1, <2>1, <2>4 DEF OnceHeard
    <3>2. Under(n, m)' \in SUBSET (1..net.conns)
      BY <1>2 DEF Under
    <3>3. IsFiniteSet(1..net.conns) /\ Cardinality(1..net.conns) <= net.conns
      BY <1>2, ConnsSize
    <3>4. /\ IsFiniteSet(Under(n, m)')
          /\ Cardinality(Under(n, m)') <= Cardinality(1..net.conns)
      BY <3>2, <3>3, FS_Subset
    <3>5. Cardinality(Under(n, m)') \in Nat /\ Cardinality(1..net.conns) \in Nat
      BY <3>3, <3>4, FS_CardinalityType
    <3> QED
      BY <1>2, <3>1, <3>3, <3>4, <3>5
  <2> QED
    BY <2>2, <2>3, <2>4, UnderCases
<1> QED
  BY <1>2, <1>3, <1>4

LEMMA OnceInit == NetworkInit => Once
<1> SUFFICES ASSUME NetworkInit, NEW n \in Nodes, NEW m \in Messages
             PROVE  heard[n][m] = 0 /\ heard[n][m] + Cardinality(Under(n, m)) <= net.conns
  BY DEF Once, OnceHeard
<1>1. heard[n][m] = 0 /\ Under(n, m) = {}
  BY DEF NetworkInit, Init, ForNodes, IdleConn, Under
<1>2. net.conns \in Nat
  BY TypeInit, NetType
<1> QED
  BY <1>1, <1>2, FS_EmptySet

LEMMA OnceInvariant == Spec => [](TypeOK /\ Control /\ Kept /\ Once)
<1>1. TypeOK /\ Control /\ Kept /\ Once /\ [Next]_vars => Once'
  BY OnceStep
<1> QED
  BY <1>1, OnceInit, KeptInvariant, PTL DEF Spec

(* A node with a sound ledger file hands a message over at most once per   *)
(* connection it handles at a time, over all the lives of its process.     *)
THEOREM HandedOverOnce == Spec => []OncePerConnection
<1>1. TypeOK /\ Once => OncePerConnection
  <2> SUFFICES ASSUME TypeOK, Once, NEW n \in Nodes, NEW m \in Messages, Sound(n)
               PROVE  heard[n][m] <= net.conns
    BY DEF OncePerConnection
  <2>1. heard[n][m] \in Nat /\ heard[n][m] + Cardinality(Under(n, m)) <= net.conns
    BY DEF Once, OnceHeard, TypeOK, GossipTypeOK
  <2>2. Cardinality(Under(n, m)) \in Nat /\ net.conns \in Nat
    BY UnderSize, NetType
  <2> QED
    BY <2>1, <2>2
<1> QED
  BY <1>1, OnceInvariant, PTL
===============================================================================
