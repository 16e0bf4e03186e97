--------------------------- MODULE MCPreReceiveGate ---------------------------
(***************************************************************************)
(* Small instances of PreReceiveGate for TLC.  The hub has main at c0:     *)
(*                                                                         *)
(*   c0 -- c1 -- c2      c1 raises cascade_depth and adds schema_version,  *)
(*    |                  c2 deletes src/state.json                         *)
(*    +--- c3 -- c4      c3 brings a forbidden call, c4 only adds a file   *)
(*    +--- c5            c5 breaks src/state.json                          *)
(*   c6                  another root, with the state of c0                *)
(***************************************************************************)
EXTENDS PreReceiveGate

CONSTANTS main, dev, tag, c0, c1, c2, c3, c4, c5, c6

MCRefs == {main, dev, tag}
MCAllowedRefs == {main, dev}
MCCommits == {c0, c1, c2, c3, c4, c5, c6}
MCParameters == {"cascade_depth", "schema_version"}

MCAncestors ==
  (c0 :> {c0}) @@ (c1 :> {c0, c1}) @@ (c2 :> {c0, c1, c2}) @@ (c3 :> {c0, c3})
    @@ (c4 :> {c0, c3, c4}) @@ (c5 :> {c0, c5}) @@ (c6 :> {c6})

Json(kind, num) == [kind |-> kind, num |-> num]
Object(depth, schema) ==
  [valid |-> TRUE, fields |-> ("cascade_depth" :> depth) @@ ("schema_version" :> schema)]
Broken == [valid |-> FALSE, fields |-> [x \in MCParameters |-> Missing]]

StateWith(changed) ==
  (c0 :> Object(Json("int", 0), Missing)) @@ (c1 :> changed) @@ (c2 :> NoBlob)
    @@ (c3 :> Object(Json("int", 0), Missing)) @@ (c4 :> Object(Json("int", 0), Missing))
    @@ (c5 :> Broken) @@ (c6 :> Object(Json("int", 0), Missing))

MCState == StateWith(Object(Json("int", 1), Json("int", 1)))

(* c1 rewrites cascade_depth from 0 to false.                              *)
RetypedState == StateWith(Object(Json("bool", 0), Missing))

MCSource ==
  (c0 :> ("a.py" :> "clean")) @@ (c1 :> ("a.py" :> "clean")) @@ (c2 :> ("b.py" :> "clean"))
    @@ (c3 :> ("a.py" :> "banned")) @@ (c4 :> ("a.py" :> "banned" @@ "b.py" :> "clean"))
    @@ (c5 :> ("a.py" :> "clean")) @@ (c6 :> ("b.py" :> "clean"))

MCStart == (main :> c0) @@ (dev :> Zero) @@ (tag :> Zero)

Raise == Move(main, c0, c1)
Drop == Move(main, c1, c2)
Branch == Move(dev, Zero, c0)
Rewind == Move(main, c1, c0)

(* The operator flow, updates without consensus, stale and false old ids,  *)
(* a rewind, deletions, a forbidden ref, and a push of two refs.           *)
MCPushes ==
  {<<Raise>>, <<Drop>>, <<Branch>>, <<Raise, Branch>>, <<Move(main, c0, c2)>>,
   <<Move(main, c0, c3)>>, <<Move(main, c3, c4)>>, <<Move(main, c0, c4)>>,
   <<Move(main, c0, c5)>>, <<Rewind>>, <<Move(main, c0, Zero)>>,
   <<Move(main, c1, Zero)>>, <<Move(main, Zero, c1)>>, <<Move(dev, c0, Zero)>>, <<Move(dev, c0, c6)>>,
   <<Move(tag, Zero, c0)>>}

(* With deletions and rewinds allowed, and the rewind approved as well,    *)
(* main comes back to c0 and is raised again under its one approval.       *)
OpenPushes ==
  {<<Raise>>, <<Raise, Branch>>, <<Move(main, c0, c3)>>, <<Move(main, c3, c4)>>,
   <<Rewind>>, <<Move(main, c1, Zero)>>, <<Move(main, Zero, c1)>>, <<Move(dev, c0, c6)>>}
BackAndForth == {Raise, Rewind, Branch}

RaisePushes == {<<Raise>>, <<Branch>>, <<Rewind>>}
RaiseBranch == {Raise, Branch}
RaiseOnly == {Raise}

(* Receive-pack processes are alike; for the runs without liveness.        *)
Symmetric == Permutations(Pushers)

Four == <<1, 2, 3, 4>>
FourEnvironments == {Four}
Environments2 == {Four, <<5, 2, Blank, 1>>}

(* A quorum of the four, the three others of the second environment, and   *)
(* a quorum with a node that is also under no.                             *)
Quorum3 == [proposer |-> 1, yes |-> {1, 2, 3}, no |-> {}]
MCBallots == {Quorum3, [proposer |-> 1, yes |-> {1, 2, 5}, no |-> {}], [proposer |-> 1, yes |-> {1, 2, 3}, no |-> {3}]}
OneBallot == {Quorum3}
TwoBallots == {Quorum3, [proposer |-> 1, yes |-> {1, 2, 3}, no |-> {3}]}
===============================================================================
