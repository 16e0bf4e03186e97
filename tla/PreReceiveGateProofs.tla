------------------------- MODULE PreReceiveGateProofs -------------------------
(***************************************************************************)
(* Theorems about PreReceiveGate, for every commit graph, any number of    *)
(* pushers, every set of pushes and ballots and every setting of the node  *)
(* list.                                                                   *)
(***************************************************************************)
EXTENDS PreReceiveGate, AlgebraGateProofs

(* An approval of mutation m that the nodes of raw carry is in the table.  *)
Approved(m, raw) == \E r \in rows : r.payload.material = m /\ Carried(r, Configured(raw))

LEMMA ApprovalFound ==
  ASSUME NEW m, NEW raw, RequireConsensusApproval(m, rows, raw)
  PROVE  Approved(m, raw)
<1>1. PICK r \in Found(rows, m) :
        VerifyApprovalPayload(r.payload, m, AuthorizedNodesFromEnv(raw))
  BY DEF RequireConsensusApproval
<1>2. /\ r \in rows /\ r.payload.material = m
      /\ VerifyQuorum(r.payload.quorum, AuthorizedNodesFromEnv(raw))
  BY <1>1 DEF Found, VerifyApprovalPayload
<1>3. AuthorizedNodesFromEnv(raw) = Configured(raw)
  BY <1>2 DEF VerifyQuorum, AuthorizedNodesFromEnv, Configured
<1> QED
  BY <1>2, <1>3, QuorumVerified DEF Approved, Carried

-------------------------------------------------------------------------------
(* What the hook has established of an update that passed: it does not     *)
(* become false while the push waits to be applied, because objects do not *)
(* change and approvals only arrive.                                       *)
Judged(u, raw) ==
  /\ u.newrev = Zero => AllowDeletes
  /\ u.newrev # Zero =>
       /\ FastForward(u)
       /\ SourcesPass(u)
       /\ \A m \in ProtectedMutations(u) : Approved(m, raw)

PassedJudged ==
  \A p \in Pushers : \A i \in 1..Len(passed[p]) : Judged(passed[p][i], env[p])

(* A list of updates loses its first or gets one more.                     *)
LEMMA TailType ==
  ASSUME NEW s \in Seq(RefUpdate), s # <<>>
  PROVE  /\ Head(s) \in RefUpdate /\ Head(s) = s[1] /\ 1 \in 1..Len(s)
         /\ Tail(s) \in Seq(RefUpdate)
         /\ \A i \in 1..Len(Tail(s)) : i + 1 \in 1..Len(s) /\ Tail(s)[i] = s[i + 1]
OBVIOUS

LEMMA AppendType ==
  ASSUME NEW s \in Seq(RefUpdate), NEW u \in RefUpdate
  PROVE  /\ Append(s, u) \in Seq(RefUpdate)
         /\ \A i \in 1..Len(Append(s, u)) :
              (i \in 1..Len(s) /\ Append(s, u)[i] = s[i]) \/ Append(s, u)[i] = u
OBVIOUS

LEMMA HubInit == Init => TypeOK /\ PassedJudged
<1> SUFFICES ASSUME Init PROVE TypeOK /\ PassedJudged
  OBVIOUS
<1>1. TypeOK
  BY StartAssumption DEF Init, TypeOK
<1>2. PassedJudged
  BY DEF Init, PassedJudged
<1> QED
  BY <1>1, <1>2

(* Approve stores one row, for a mutation that had none.                   *)
LEMMA ApproveStores ==
  ASSUME NEW m, NEW b, Approve(m, b)
  PROVE  \E r : r.proposal_hash = m /\ rows' = rows \cup {r}
<1> DEFINE event == ApprovalEvent(m, ToSet(environment) \ {Blank}, b.proposer, b.yes, b.no, "now")
<1>1. rows' = rows \cup {ApprovalRow(event)}
  BY DEF Approve
<1>2. event.proposal_hash = m
  BY DEF ApprovalEvent, Sealed
<1>3. ApprovalRow(event).proposal_hash = m
  BY <1>2 DEF ApprovalRow
<1> QED
  BY <1>1, <1>3

LEMMA HubTypeStep ==
  ASSUME TypeOK, [Next]_vars
  PROVE  TypeOK'
<1>1. CASE UNCHANGED vars
  BY <1>1 DEF TypeOK, vars
<1>2. ASSUME NEW p \in Pushers, NEW push \in Pushes, Receive(p, push)
      PROVE  TypeOK'
  BY <1>2, PushesAssumption DEF Receive, TypeOK
<1>3. ASSUME NEW p \in Pushers, CheckUpdate(p)
      PROVE  TypeOK'
  <2>1. /\ todo[p] \in Seq(RefUpdate) /\ todo[p] # <<>> /\ passed[p] \in Seq(RefUpdate)
    BY <1>3 DEF CheckUpdate, TypeOK
  <2>2. Head(todo[p]) \in RefUpdate /\ Tail(todo[p]) \in Seq(RefUpdate)
    BY <2>1, TailType
  <2>3. Append(passed[p], Head(todo[p])) \in Seq(RefUpdate) /\ <<>> \in Seq(RefUpdate)
    BY <2>1, <2>2, AppendType
  <2> QED
    BY <1>3, <2>2, <2>3 DEF CheckUpdate, TypeOK
<1>4. ASSUME NEW p \in Pushers, ApplyUpdate(p)
      PROVE  TypeOK'
  <2>1. Head(passed[p]) \in RefUpdate /\ Tail(passed[p]) \in Seq(RefUpdate)
    BY <1>4, TailType DEF ApplyUpdate, TypeOK
  <2>2. /\ Head(passed[p]).refname \in Refs
        /\ Head(passed[p]).newrev \in Commits \cup {Zero}
    BY <2>1 DEF RefUpdate
  <2> QED
    BY <1>4, <2>1, <2>2 DEF ApplyUpdate, TypeOK
<1>5. ASSUME NEW m, NEW b, Approve(m, b)
      PROVE  TypeOK'
  <2>1. PICK r : r.proposal_hash = m /\ rows' = rows \cup {r}
    BY <1>5, ApproveStores
  <2>2. \A s \in rows : s.proposal_hash # m
    BY <1>5 DEF Approve
  <2> QED
    BY <1>5, <2>1, <2>2 DEF Approve, TypeOK
<1>6. ASSUME NEW raw \in Environments, Reconfigure(raw)
      PROVE  TypeOK'
  BY <1>6 DEF Reconfigure, TypeOK
<1> QED
  BY <1>1, <1>2, <1>3, <1>4, <1>5, <1>6 DEF Next

LEMMA JudgedStays ==
  ASSUME NEW u, NEW raw, Judged(u, raw), rows \subseteq rows'
  PROVE  Judged(u, raw)'
BY DEF Judged, Approved

LEMMA JudgedStep ==
  ASSUME TypeOK, PassedJudged, [Next]_vars
  PROVE  PassedJudged'
<1>1. CASE UNCHANGED vars
  BY <1>1 DEF PassedJudged, Judged, Approved, vars
<1>2. ASSUME NEW p \in Pushers, NEW push \in Pushes, Receive(p, push)
      PROVE  PassedJudged'
  <2>1. passed[p] = <<>> /\ UNCHANGED <<passed, rows>>
    BY <1>2 DEF Receive, Idle
  <2>2. \A q \in Pushers \ {p} : env'[q] = env[q]
    BY <1>2 DEF Receive, TypeOK
  <2>3. ASSUME NEW q \in Pushers, NEW i \in 1..Len(passed[q])
        PROVE  q # p /\ Judged(passed[q][i], env[q])
    BY <2>1, <2>3 DEF PassedJudged
  <2>4. ASSUME NEW q \in Pushers, NEW i \in 1..Len(passed'[q])
        PROVE  Judged(passed[q][i], env[q])'
    <3>1. env'[q] = env[q] /\ Judged(passed[q][i], env[q])
      BY <2>1, <2>2, <2>3, <2>4
    <3> QED
      BY <2>1, <3>1 DEF Judged, Approved
  <2> QED
    BY <2>4 DEF PassedJudged
<1>3. ASSUME NEW p \in Pushers, CheckUpdate(p)
      PROVE  PassedJudged'
  <2>1. /\ todo[p] \in Seq(RefUpdate) /\ todo[p] # <<>> /\ passed[p] \in Seq(RefUpdate)
    BY <1>3 DEF CheckUpdate, TypeOK
  <2> DEFINE u == Head(todo[p])
  <2>2. UNCHANGED <<rows, env>> /\ u \in RefUpdate
    BY <1>3, <2>1, TailType DEF CheckUpdate
  <2>3. \A q \in Pushers \ {p} : passed'[q] = passed[q]
    BY <1>3 DEF CheckUpdate, TypeOK
  <2>4. ASSUME NEW i \in 1..Len(passed'[p])
        PROVE  Judged(passed'[p][i], env[p])
    <3>1. CASE Passes(u, env[p])
      <4>1. passed'[p] = Append(passed[p], u)
        BY <1>3, <3>1 DEF CheckUpdate, TypeOK
      <4>2. \A m \in ProtectedMutations(u) :
              RequireConsensusApproval(m, rows, env[p]) => Approved(m, env[p])
        BY ApprovalFound
      <4>3. Judged(u, env[p])
        BY <3>1, <4>2 DEF Judged, Passes, UpdatePasses
      <4> HIDE DEF u
      <4> QED
        BY <2>1, <2>2, <2>4, <4>1, <4>3, AppendType DEF PassedJudged
    <3>2. CASE ~Passes(u, env[p])
      BY <1>3, <2>4, <3>2 DEF CheckUpdate, TypeOK
    <3> QED
      BY <3>1, <3>2
  <2>5. ASSUME NEW q \in Pushers, NEW i \in 1..Len(passed'[q])
        PROVE  Judged(passed'[q][i], env[q])
    BY <2>3, <2>4, <2>5 DEF PassedJudged
  <2> QED
    BY <2>2, <2>5 DEF PassedJudged, Judged, Approved
<1>4. ASSUME NEW p \in Pushers, ApplyUpdate(p)
      PROVE  PassedJudged'
  <2>1. passed[p] \in Seq(RefUpdate) /\ passed[p] # <<>> /\ UNCHANGED <<rows, env>>
    BY <1>4 DEF ApplyUpdate, TypeOK
  <2>2. passed' = [passed EXCEPT ![p] = Tail(passed[p])]
    BY <1>4 DEF ApplyUpdate
  <2>3. ASSUME NEW q \in Pushers, NEW i \in 1..Len(passed'[q])
        PROVE  Judged(passed'[q][i], env[q])
    <3>1. CASE q = p
      <4>1. passed'[q] = Tail(passed[p])
        BY <2>2, <3>1 DEF TypeOK
      <4> QED
        BY <2>1, <2>3, <3>1, <4>1, TailType DEF PassedJudged
    <3>2. CASE q # p
      BY <2>2, <2>3, <3>2 DEF TypeOK, PassedJudged
    <3> QED
      BY <3>1, <3>2
  <2> QED
    BY <2>1, <2>3 DEF PassedJudged, Judged, Approved
<1>5. ASSUME NEW m, NEW b, Approve(m, b)
      PROVE  PassedJudged'
  <2>1. rows \subseteq rows' /\ UNCHANGED <<passed, env>>
    BY <1>5 DEF Approve
  <2> QED
    BY <2>1, JudgedStays DEF PassedJudged
<1>6. ASSUME NEW raw \in Environments, Reconfigure(raw)
      PROVE  PassedJudged'
  BY <1>6 DEF Reconfigure, PassedJudged, Judged, Approved
<1> QED
  BY <1>1, <1>2, <1>3, <1>4, <1>5, <1>6 DEF Next

(* Types, and what the hook established of every update that waits to be   *)
(* applied holds under the node list its hook was started with, while refs *)
(* move, approvals arrive and the list changes.                            *)
THEOREM HubCorrect == Spec => [](TypeOK /\ PassedJudged)
<1>1. TypeOK /\ PassedJudged /\ [Next]_vars => (TypeOK /\ PassedJudged)'
  BY HubTypeStep, JudgedStep
<1> QED
  BY <1>1, HubInit, PTL DEF Spec

-------------------------------------------------------------------------------
(* A ref moves only when receive-pack applies an update that passed, from  *)
(* where the update says it is.                                            *)
LEMMA MoveCases ==
  ASSUME TypeOK, PassedJudged, [Next]_vars, NEW r \in Refs, refs'[r] # refs[r]
  PROVE  \E p \in Pushers :
           LET u == Move(r, refs[r], refs'[r]) IN
           /\ u \in RefUpdate /\ u = Head(passed[p]) /\ Judged(u, env[p])
           /\ landed' = landed \cup {u}
           /\ \A q \in Pushers \ {p} : passed'[q] = passed[q]
<1>1. PICK p \in Pushers : ApplyUpdate(p)
  BY DEF Next, vars, Receive, CheckUpdate, Approve, Reconfigure
<1> DEFINE u == Head(passed[p])
<1>2. passed[p] \in Seq(RefUpdate) /\ passed[p] # <<>>
  BY <1>1 DEF ApplyUpdate, TypeOK
<1>3. u \in RefUpdate /\ u = passed[p][1] /\ 1 \in 1..Len(passed[p])
  BY <1>2, TailType
<1>4. Judged(u, env[p])
  BY <1>3 DEF PassedJudged
<1>5. /\ refs[u.refname] = u.oldrev /\ refs' = [refs EXCEPT ![u.refname] = u.newrev]
      /\ landed' = landed \cup {u}
  BY <1>1 DEF ApplyUpdate
<1>6. r = u.refname /\ refs[r] = u.oldrev /\ refs'[r] = u.newrev
  BY <1>3, <1>5 DEF TypeOK, RefUpdate
<1>7. u = Move(r, refs[r], refs'[r])
  BY <1>3, <1>6 DEF Move, RefUpdate
<1>8. \A q \in Pushers \ {p} : passed'[q] = passed[q]
  BY <1>1 DEF ApplyUpdate, TypeOK
<1> HIDE DEF u
<1> QED
  BY <1>3, <1>4, <1>5, <1>7, <1>8 DEF u

(* Scanning the files that differ from a clean revision is scanning all.   *)
LEMMA ScanSuffices ==
  ASSUME NEW u \in RefUpdate, Clean(u.oldrev), SourcesPass(u)
  PROVE  Clean(u.newrev)
BY DEF Clean, SourcesPass, Scanned

(* No branch tip ever holds a forbidden call: the old id a hook scanned    *)
(* against is where the ref is when it moves, and that tip was clean.      *)
THEOREM TipsStayClean == Spec => []TipsClean
<1>1. Init => TipsClean
  BY StartAssumption DEF Init, TipsClean
<1>2. TypeOK /\ PassedJudged /\ TipsClean /\ [Next]_vars => TipsClean'
  <2> SUFFICES ASSUME TypeOK, PassedJudged, TipsClean, [Next]_vars, NEW r \in Refs
               PROVE  Clean(refs'[r])
    BY DEF TipsClean
  <2>1. CASE refs'[r] = refs[r]
    BY <2>1 DEF TipsClean
  <2>2. CASE refs'[r] = Zero
    BY <2>2 DEF Clean, SourceAt
  <2>3. CASE refs'[r] # refs[r] /\ refs'[r] # Zero
    <3> DEFINE u == Move(r, refs[r], refs'[r])
    <3>1. u \in RefUpdate /\ \E p \in Pushers : Judged(u, env[p])
      BY <2>3, MoveCases
    <3>2. u.oldrev = refs[r] /\ u.newrev = refs'[r]
      BY DEF Move
    <3>3. SourcesPass(u)
      BY <2>3, <3>1, <3>2 DEF Judged
    <3>4. Clean(u.oldrev)
      BY <3>2 DEF TipsClean
    <3> HIDE DEF u
    <3> QED
      BY <3>1, <3>2, <3>3, <3>4, ScanSuffices
  <2> QED
    BY <2>1, <2>2, <2>3
<1> QED
  BY <1>1, <1>2, HubCorrect, PTL DEF Spec

DefaultFlags == ~AllowDeletes /\ ~AllowNonFastForward

LEMMA OnlyForward ==
  ASSUME DefaultFlags, TypeOK, PassedJudged, [Next]_vars, NEW r \in Refs, refs'[r] # refs[r]
  PROVE  refs'[r] # Zero /\ (refs[r] = Zero \/ refs[r] \in Ancestors[refs'[r]])
<1> DEFINE u == Move(r, refs[r], refs'[r])
<1>1. \E p \in Pushers : Judged(u, env[p])
  BY MoveCases
<1>2. u.oldrev = refs[r] /\ u.newrev = refs'[r]
  BY DEF Move
<1> HIDE DEF u
<1> QED
  BY <1>1, <1>2 DEF Judged, FastForward, DefaultFlags

(* With the default flags a ref only moves to descendants of where it is.  *)
THEOREM HistoryGrows ==
  ASSUME DefaultFlags
  PROVE  Spec => HistoryOnlyGrows
<1>1. TypeOK /\ PassedJudged /\ [Next]_vars =>
        [\A r \in Refs : refs[r] # Zero =>
           refs'[r] # Zero /\ refs[r] \in Ancestors[refs'[r]]]_vars
  <2> SUFFICES ASSUME TypeOK, PassedJudged, [Next]_vars, NEW r \in Refs, refs[r] # Zero
               PROVE  refs'[r] # Zero /\ refs[r] \in Ancestors[refs'[r]]
    OBVIOUS
  <2>1. refs[r] \in Ancestors[refs[r]]
    BY AncestorsAssumption DEF TypeOK
  <2> QED
    BY <2>1, OnlyForward
<1> QED
  BY <1>1, HubCorrect, PTL DEF Spec, HistoryOnlyGrows

(* Where an update took a ref, the ref still is or has gone on from.       *)
Behind ==
  \A u \in landed :
    /\ u.newrev # Zero /\ refs[u.refname] # Zero
    /\ u.newrev \in Ancestors[refs[u.refname]]

LEMMA BehindStep ==
  ASSUME DefaultFlags, TypeOK, PassedJudged, Behind, [Next]_vars
  PROVE  Behind'
<1> SUFFICES ASSUME NEW u \in landed'
             PROVE  /\ u.newrev # Zero /\ refs'[u.refname] # Zero
                    /\ u.newrev \in Ancestors[refs'[u.refname]]
  BY DEF Behind
<1>1. TypeOK'
  BY HubTypeStep
<1>2. CASE u \in landed
  <2>1. u.refname \in Refs /\ u.newrev # Zero /\ refs[u.refname] # Zero
        /\ u.newrev \in Ancestors[refs[u.refname]]
    BY <1>2 DEF TypeOK, RefUpdate, Behind
  <2>2. /\ refs[u.refname] \in Commits /\ refs'[u.refname] \in Commits \cup {Zero}
    BY <1>1, <2>1 DEF TypeOK
  <2>3. CASE refs'[u.refname] = refs[u.refname]
    BY <2>1, <2>3
  <2>4. CASE refs'[u.refname] # refs[u.refname]
    <3>1. refs'[u.refname] # Zero /\ refs[u.refname] \in Ancestors[refs'[u.refname]]
      BY <2>1, <2>4, OnlyForward
    <3> QED
      BY <2>1, <2>2, <3>1, AncestorsAssumption
  <2> QED
    BY <2>3, <2>4
<1>3. CASE u \notin landed
  <2>1. PICK p \in Pushers : ApplyUpdate(p)
    BY <1>3 DEF Next, vars, Receive, CheckUpdate, Approve, Reconfigure
  <2>2. /\ u = Head(passed[p]) /\ refs' = [refs EXCEPT ![u.refname] = u.newrev]
    BY <1>3, <2>1 DEF ApplyUpdate
  <2>3. u \in RefUpdate /\ Judged(u, env[p])
    BY <2>1, <2>2, TailType DEF ApplyUpdate, TypeOK, PassedJudged
  <2>4. u.newrev # Zero /\ u.newrev \in Commits /\ refs'[u.refname] = u.newrev
    BY <2>2, <2>3 DEF Judged, DefaultFlags, RefUpdate, TypeOK
  <2> QED
    BY <2>4, AncestorsAssumption
<1> QED
  BY <1>2, <1>3

(* With the default flags an update, and so the approval it used, moves a  *)
(* ref at most once, whichever pushes of it race.                          *)
THEOREM EachLandsOnce ==
  ASSUME DefaultFlags
  PROVE  Spec => LandsOnce
<1>1. Init => Behind
  BY DEF Init, Behind
<1>2. TypeOK /\ PassedJudged /\ Behind /\ [Next]_vars => Behind'
  BY BehindStep
<1>3. TypeOK /\ PassedJudged /\ Behind /\ [Next]_vars =>
        [\A r \in Refs : refs'[r] # refs[r] => Move(r, refs[r], refs'[r]) \notin landed]_vars
  <2> SUFFICES ASSUME TypeOK, PassedJudged, Behind, [Next]_vars, NEW r \in Refs,
                      refs'[r] # refs[r], Move(r, refs[r], refs'[r]) \in landed
               PROVE  FALSE
    OBVIOUS
  <2>1. refs[r] # Zero /\ refs'[r] # Zero /\ refs'[r] \in Ancestors[refs[r]]
    BY DEF Behind, Move
  <2>2. refs[r] \in Ancestors[refs'[r]]
    BY <2>1, OnlyForward
  <2>3. refs[r] \in Commits /\ refs'[r] \in Commits
    BY <2>1, HubTypeStep DEF TypeOK
  <2> QED
    BY <2>1, <2>2, <2>3, AncestorsAssumption
<1> QED
  BY <1>1, <1>2, <1>3, HubCorrect, PTL DEF Spec, LandsOnce

(* No two revisions hold values of a protected parameter that Python finds *)
(* equal though their JSON differs.                                        *)
OneTypePerField ==
  \A c, d \in Commits \cup {Zero}, x \in Parameters :
    PythonEqual(Field(StateAt(c), x), Field(StateAt(d), x)) =>
      Field(StateAt(c), x) = Field(StateAt(d), x)

(* Every protected parameter a push changes was approved for exactly this  *)
(* move by a quorum of the nodes the hook trusts, if no change only        *)
(* retypes a value.                                                        *)
THEOREM ChangesApproved ==
  ASSUME OneTypePerField
  PROVE  Spec => ProtectedChangesApproved
<1>1. TypeOK /\ PassedJudged /\ [Next]_vars =>
        [\A p \in Pushers, r \in Refs :
           passed'[p] # passed[p] /\ refs'[r] \notin {refs[r], Zero} =>
             LET u == Move(r, refs[r], refs'[r])
             IN  \A x \in ChangedParameters(u) :
                   \E a \in Approvals(u, x) : Carried(a, Configured(env[p]))]_vars
  <2> SUFFICES ASSUME TypeOK, PassedJudged, [Next]_vars, NEW p \in Pushers, NEW r \in Refs,
                      passed'[p] # passed[p], refs'[r] \notin {refs[r], Zero},
                      NEW x \in ChangedParameters(Move(r, refs[r], refs'[r]))
               PROVE  \E a \in Approvals(Move(r, refs[r], refs'[r]), x) :
                        Carried(a, Configured(env[p]))
    OBVIOUS
  <2> DEFINE u == Move(r, refs[r], refs'[r])
             v == Field(StateAt(u.oldrev), x)
             w == Field(StateAt(u.newrev), x)
  <2>1. u \in RefUpdate /\ Judged(u, env[p]) /\ u.newrev = refs'[r]
    BY MoveCases DEF Move
  <2>2. x \in Parameters /\ v # w
    BY DEF ChangedParameters
  <2>3. ~PythonEqual(v, w)
    BY <2>1, <2>2 DEF OneTypePerField, RefUpdate
  <2>4. StateAt(u.oldrev) # StateAt(u.newrev) /\ Differs(v, w)
    BY <2>2, <2>3 DEF Differs
  <2>5. Mutation(u, x, v, w) \in ProtectedMutations(u)
    BY <2>2, <2>4 DEF ProtectedMutations
  <2>6. Approved(Mutation(u, x, v, w), env[p])
    BY <2>1, <2>5 DEF Judged
  <2> HIDE DEF u
  <2> QED
    BY <2>6 DEF Approved, Approvals, u
<1> QED
  BY <1>1, HubCorrect, PTL DEF Spec, ProtectedChangesApproved
===============================================================================
