---------------------------- MODULE PreReceiveGate ----------------------------
(***************************************************************************)
(* The hub: git receive-pack runs the pre-receive hook                     *)
(* (pre_receive_gate.py) once per push, over all the ref updates of that   *)
(* push, and then moves the refs one by one, each only if it is still at   *)
(* the old object id the client named.  Pushes are handled concurrently,   *)
(* so refs move and approvals arrive while a hook is running.              *)
(*                                                                         *)
(* Git objects are constants: a commit's ancestors, its src/state.json and *)
(* its Python files.  diff_hash and changed_paths are functions of the two *)
(* revisions a mutation names, and are left out of it.                     *)
(***************************************************************************)
EXTENDS AlgebraGate

CONSTANTS
  Refs, Commits,
  AllowedRefs,          \* the refs under allowed_ref_prefixes
  Ancestors,            \* commit -> its ancestors and itself
  State,                \* commit -> its src/state.json, or NoBlob
  Source,               \* commit -> its Python files: path -> what ast finds
  Parameters,           \* PROTECTED_JSON_FIELDS["src/state.json"]
  Start,                \* ref -> where the hub has it before the first push
  Zero,                 \* the zero object id
  NoBlob, Missing,      \* no such file; no such key in the object
  AllowDeletes, AllowNonFastForward,
  Pushers,              \* receive-pack processes that can run together
  Pushes,               \* what clients send: sequences of ref updates
  Approvable,           \* ref updates the operators run the producer on
  Environments,         \* values of CODEX_AUTHORIZED_NODES
  Ballots               \* [proposer, yes, no] of ballots that get stored

Paths == UNION {DOMAIN Source[c] : c \in Commits}

RefUpdate == [refname: Refs, oldrev: Commits \cup {Zero}, newrev: Commits \cup {Zero}]

(* The zero id stands for the empty tree.                                  *)
StateAt(rev) == IF rev = Zero THEN NoBlob ELSE State[rev]
SourceAt(rev, path) ==
  IF rev # Zero /\ path \in DOMAIN Source[rev] THEN Source[rev][path] ELSE NoBlob

Clean(rev) == \A path \in Paths : SourceAt(rev, path) \in {"clean", NoBlob}

ASSUME StartAssumption ==
  Start \in [Refs -> Commits \cup {Zero}] /\ \A r \in Refs : Clean(Start[r])
ASSUME AllowedRefsAssumption == AllowedRefs \subseteq Refs
ASSUME AncestorsAssumption ==
  /\ Ancestors \in [Commits -> SUBSET Commits]
  /\ \A c \in Commits : c \in Ancestors[c]
  /\ \A c, d \in Commits : c \in Ancestors[d] => Ancestors[c] \subseteq Ancestors[d]
  /\ \A c, d \in Commits : c \in Ancestors[d] /\ d \in Ancestors[c] => c = d
ASSUME PushesAssumption == Pushes \subseteq Seq(RefUpdate) /\ <<>> \notin Pushes
ASSUME ZeroAssumption == Zero \notin Commits
ASSUME FlagsAssumption == {AllowDeletes, AllowNonFastForward} \subseteq BOOLEAN

VARIABLES
  refs,         \* the hub's refs: the object id, Zero when there is no such ref
  rows,         \* consensus_approvals
  environment,  \* CODEX_AUTHORIZED_NODES as configured now
  todo,         \* pusher -> ref updates the hook has not checked yet
  passed,       \* pusher -> ref updates that passed and are not applied yet
  env,          \* pusher -> the environment its hook was started with
  landed        \* ref updates that moved a ref so far (history)

vars == <<refs, rows, environment, todo, passed, env, landed>>

Idle(p) == todo[p] = <<>> /\ passed[p] = <<>>

-------------------------------------------------------------------------------
(* The mutations of a ref update.                                          *)

Field(blob, x) == IF blob = NoBlob THEN Missing ELSE blob.fields[x]

(* Python's == on JSON scalars: 1, 1.0 and true are one value.             *)
PythonEqual(v, w) ==
  \/ v = w
  \/ /\ Missing \notin {v, w}
     /\ {v.kind, w.kind} \subseteq {"int", "float", "bool"}
     /\ v.num = w.num

(* Mutant of Differs: a field is protected only once it exists.            *)
DiffersIfPresent(v, w) == v # Missing /\ ~PythonEqual(v, w)

Differs(v, w) == (v = Missing) # (w = Missing) \/ ~PythonEqual(v, w)

MutationType(v, w) ==
  IF v = Missing THEN "add" ELSE IF w = Missing THEN "delete" ELSE "update"

Mutation(u, x, v, w) ==
  [refname |-> u.refname, oldrev |-> u.oldrev, newrev |-> u.newrev,
   parameter |-> x, mutation_type |-> MutationType(v, w), old_value |-> v, new_value |-> w]

(* _protected_mutations; a `git show` that fails is an absent file.        *)
ProtectedMutations(u) ==
  LET old == StateAt(u.oldrev)
      new == StateAt(u.newrev)
  IN  IF old = new THEN {}
      ELSE {Mutation(u, x, Field(old, x), Field(new, x)) :
              x \in {y \in Parameters : Differs(Field(old, y), Field(new, y))}}

(* _json_object raises on anything but an object.                          *)
Readable(blob) == blob = NoBlob \/ blob.valid

(* proposal_producer.py: the same derivation, before the push.             *)
DeriveMutations(u) ==
  IF u.newrev # Zero /\ Readable(StateAt(u.oldrev)) /\ Readable(StateAt(u.newrev))
  THEN ProtectedMutations(u) ELSE {}

-------------------------------------------------------------------------------
(* check_update.                                                           *)

(* Mutant of FastForward: both exit codes of merge-base count as yes.      *)
FastForwardAlways(u) == TRUE

FastForward(u) ==
  u.oldrev = Zero \/ AllowNonFastForward \/ u.oldrev \in Ancestors[u.newrev]

(* The changed Python files that the new revision has.                     *)
Scanned(u) ==
  {path \in Paths : SourceAt(u.newrev, path) \notin {SourceAt(u.oldrev, path), NoBlob}}

(* Mutant of SourcesPass: the scan reads the old revision.                 *)
SourcesPassOld(u) ==
  \A path \in Scanned(u) : SourceAt(u.oldrev, path) \in {"clean", NoBlob}

(* _scan_changed_python                                                    *)
SourcesPass(u) == \A path \in Scanned(u) : SourceAt(u.newrev, path) = "clean"

(* What check_update finds of an update that deletes nothing.              *)
UpdatePasses(u, raw) ==
  /\ FastForward(u)
  /\ SourcesPass(u)
  /\ StateAt(u.oldrev) # StateAt(u.newrev) =>
       Readable(StateAt(u.oldrev)) /\ Readable(StateAt(u.newrev))
  /\ \A m \in ProtectedMutations(u) : RequireConsensusApproval(m, rows, raw)

(* Mutant of Passes: deletions pass whatever the flag says.                *)
PassesDeletes(u, raw) ==
  /\ u.refname \in AllowedRefs
  /\ u.newrev # Zero => UpdatePasses(u, raw)

Passes(u, raw) ==
  /\ u.refname \in AllowedRefs
  /\ IF u.newrev = Zero THEN AllowDeletes ELSE UpdatePasses(u, raw)

-------------------------------------------------------------------------------

Init ==
  /\ refs = Start
  /\ rows = {}
  /\ environment \in Environments
  /\ todo = [p \in Pushers |-> <<>>]
  /\ passed = [p \in Pushers |-> <<>>]
  /\ env = [p \in Pushers |-> environment]
  /\ landed = {}

(* A client pushes; receive-pack starts the hook.                          *)
Receive(p, push) ==
  /\ Idle(p)
  /\ todo' = [todo EXCEPT ![p] = push]
  /\ env' = [env EXCEPT ![p] = environment]
  /\ UNCHANGED <<refs, rows, environment, passed, landed>>

(* check_updates: the next update passes, or the hook exits with 1 and     *)
(* nothing of the push is applied.                                         *)
CheckUpdate(p) ==
  /\ todo[p] # <<>>
  /\ LET u == Head(todo[p]) IN
       IF Passes(u, env[p])
       THEN /\ todo' = [todo EXCEPT ![p] = Tail(@)]
            /\ passed' = [passed EXCEPT ![p] = Append(@, u)]
       ELSE /\ todo' = [todo EXCEPT ![p] = <<>>]
            /\ passed' = [passed EXCEPT ![p] = <<>>]
  /\ UNCHANGED <<refs, rows, environment, env, landed>>

(* receive-pack moves the refs of a push its hook accepted: each is locked *)
(* and compared with the client's old id; one that has moved is refused    *)
(* and the others go on.                                                   *)
ApplyUpdate(p) ==
  /\ todo[p] = <<>> /\ passed[p] # <<>>
  /\ LET u == Head(passed[p]) IN
     IF refs[u.refname] = u.oldrev
     THEN /\ refs' = [refs EXCEPT ![u.refname] = u.newrev]
          /\ landed' = landed \cup {u}
     ELSE UNCHANGED <<refs, landed>>
  /\ passed' = [passed EXCEPT ![p] = Tail(@)]
  /\ UNCHANGED <<rows, environment, todo, env>>

(* Mutant of Approve: the store takes a second approval of a mutation.     *)
ApproveAgain(m, ballot) ==
  /\ LET members == ToSet(environment) \ {Blank} IN
     /\ ballot.yes \cup ballot.no \subseteq members
     /\ rows' = rows \cup
          {ApprovalRow(ApprovalEvent(m, members, ballot.proposer, ballot.yes, ballot.no, "now"))}
  /\ UNCHANGED <<refs, environment, todo, passed, env, landed>>

(* The consensus service stores an approval of a mutation the producer     *)
(* derived, for the nodes configured now; it never replaces one.           *)
Approve(m, ballot) ==
  /\ \A r \in rows : r.proposal_hash # m
  /\ LET members == ToSet(environment) \ {Blank} IN
     /\ ballot.yes \cup ballot.no \subseteq members
     /\ rows' = rows \cup
          {ApprovalRow(ApprovalEvent(m, members, ballot.proposer, ballot.yes, ballot.no, "now"))}
  /\ UNCHANGED <<refs, environment, todo, passed, env, landed>>

(* The operator changes CODEX_AUTHORIZED_NODES.                            *)
Reconfigure(raw) ==
  /\ environment # raw
  /\ environment' = raw
  /\ UNCHANGED <<refs, rows, todo, passed, env, landed>>

Next ==
  \/ \E p \in Pushers :
       (\E push \in Pushes : Receive(p, push)) \/ CheckUpdate(p) \/ ApplyUpdate(p)
  \/ \E u \in Approvable : \E m \in DeriveMutations(u) : \E b \in Ballots : Approve(m, b)
  \/ \E raw \in Environments : Reconfigure(raw)

Spec == Init /\ [][Next]_vars

(* A hook that was started runs to its end, and receive-pack then applies  *)
(* what the hook let through.  Clients, voters and operators owe nothing.  *)
FairSpec == Spec /\ \A p \in Pushers : WF_vars(CheckUpdate(p) \/ ApplyUpdate(p))

-------------------------------------------------------------------------------
(* Type invariant.                                                         *)

TypeOK ==
  /\ refs \in [Refs -> Commits \cup {Zero}]
  /\ \A r, s \in rows : r.proposal_hash = s.proposal_hash => r = s
  /\ environment \in Environments
  /\ todo \in [Pushers -> Seq(RefUpdate)]
  /\ passed \in [Pushers -> Seq(RefUpdate)]
  /\ env \in [Pushers -> Environments]
  /\ landed \subseteq RefUpdate

-------------------------------------------------------------------------------
(* Safety.                                                                 *)

(* The move of a ref from old to new.                                      *)
Move(r, old, new) == [refname |-> r, oldrev |-> old, newrev |-> new]

(* The protected parameters whose JSON value an update changes.            *)
ChangedParameters(u) ==
  {x \in Parameters : Field(StateAt(u.oldrev), x) # Field(StateAt(u.newrev), x)}

(* The stored approvals of the change that u makes to parameter x.         *)
Approvals(u, x) ==
  {r \in rows : r.payload.material =
     Mutation(u, x, Field(StateAt(u.oldrev), x), Field(StateAt(u.newrev), x))}

(* At least 2/3 + 1 of these nodes are under yes, nobody is on both sides. *)
Carried(r, members) ==
  /\ IsQuorum(members, members \cap ToSet(r.payload.quorum.yes_votes))
  /\ ToSet(r.payload.quorum.yes_votes) \cap ToSet(r.payload.quorum.no_votes) = {}

Configured(raw) == ToSet(raw) \ {Blank}

(* When a push moves a ref of the hub, every protected parameter whose     *)
(* value differs between where the ref really was and where it goes has an *)
(* approval for exactly this move, by a quorum of the nodes the hook was   *)
(* configured with: however pushes race, whatever old id a client names    *)
(* and whichever nodes had voted under an earlier configuration.           *)
ProtectedChangesApproved ==
  [][\A p \in Pushers, r \in Refs :
       passed'[p] # passed[p] /\ refs'[r] \notin {refs[r], Zero} =>
         LET u == Move(r, refs[r], refs'[r])
         IN  \A x \in ChangedParameters(u) : \E a \in Approvals(u, x) : Carried(a, Configured(env[p]))]_vars

(* With the default flags a ref of the hub only moves to a descendant, and *)
(* is never deleted, though each hook judged an old id its client named.   *)
HistoryOnlyGrows ==
  [][\A r \in Refs : refs[r] # Zero =>
       refs'[r] # Zero /\ refs[r] \in Ancestors[refs'[r]]]_vars

(* No branch tip holds a Python file with a forbidden call, although a     *)
(* hook looks only at the files that differ from the old id it was given.  *)
TipsClean == \A r \in Refs : Clean(refs[r])

(* With the default flags the same ref update, and so the same approval,   *)
(* moves a ref at most once, also when two pushes of it pass the hook.     *)
LandsOnce ==
  [][\A r \in Refs : refs'[r] # refs[r] => Move(r, refs[r], refs'[r]) \notin landed]_vars

-------------------------------------------------------------------------------
(* Liveness.                                                               *)

(* An update the operator flow has prepared: it is a clean fast-forward of *)
(* an allowed ref, and the bridge stored an approval of each mutation from *)
(* a sound ballot of the nodes in raw.                                     *)
Prepared(u, raw) ==
  /\ u.refname \in AllowedRefs
  /\ u.newrev # Zero
  /\ u.oldrev = Zero \/ u.oldrev \in Ancestors[u.newrev]
  /\ Clean(u.newrev)
  /\ Readable(StateAt(u.oldrev)) /\ Readable(StateAt(u.newrev))
  /\ \A x \in ChangedParameters(u) :
       \E a \in Approvals(u, x) :
         /\ Carried(a, Configured(raw))
         /\ a.payload.quorum.authorized_nodes = SortedNodes(Configured(raw))

(* A prepared update that is pushed lands, unless another push moves the   *)
(* ref first: the gate asks for nothing but what the producer derived and  *)
(* the bridge stored.                                                      *)
PreparedPushLands ==
  \A p \in Pushers, u \in Approvable :
    todo[p] = <<u>> /\ Prepared(u, env[p])
      ~> (refs[u.refname] = u.newrev \/ refs[u.refname] # u.oldrev)
===============================================================================
