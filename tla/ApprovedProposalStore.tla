------------------------- MODULE ApprovedProposalStore -------------------------
(***************************************************************************)
(* The file-backed store of consensus_transport_bridge.py: _emit_approval  *)
(* and write_approval cut at every touch of the file system, run by any    *)
(* number of bridge threads and replay commands over one directory.        *)
(*                                                                         *)
(* An artifact is the number of the attempt that built it (no two have the *)
(* same approved_at and votes), and a file is its inode, named by the      *)
(* attempt that created it: two openers of one temporary name share one.   *)
(***************************************************************************)
EXTENDS Integers, Sequences, SequencesExt

CONSTANTS
  Writers,    \* threads and processes that emit approvals
  Hashes,
  MaxEvents,  \* bound on the artifacts ever built
  Torn,       \* content or a line that is no JSON
  None

Events == 1..MaxEvents

ASSUME BoundAssumption == MaxEvents \in Nat
ASSUME DistinctAssumption ==
  /\ Torn # None /\ Torn \notin Events /\ None \notin Events \cup Hashes

VARIABLES
  built,        \* artifacts built so far
  about,        \* artifact -> the hash it approves
  content,      \* inode -> artifact it holds; None: empty, Torn: no JSON
  path,         \* hash -> inode of <hash>.json
  tmp,          \* hash -> inode of <hash>.json.tmp
  events,       \* lines of events.jsonl
  open,         \* whether the last of them lacks its newline
  pc,           \* writer -> next step
  hash,         \* writer -> hash it emits
  event,        \* writer -> artifact it built
  fd,           \* writer -> inode it has open
  result,       \* writer -> what its last emission returned, on which hash
  shared,       \* hashes two writers were about to write at once (history)
  unlogged      \* hashes whose writer failed at the events line (history)

files == <<content, path, tmp>>
journal == <<events, open>>
locals == <<hash, event, fd>>
vars == <<built, about, files, journal, pc, locals, result, shared, unlogged>>

Labels == {"idle", "has", "read", "exists", "open", "write", "replace", "log"}

Init ==
  /\ built = 0
  /\ about = [e \in Events |-> None]
  /\ content = [e \in Events |-> None]
  /\ path = [h \in Hashes |-> None]
  /\ tmp = [h \in Hashes |-> None]
  /\ events = <<>>
  /\ open = FALSE
  /\ pc = [w \in Writers |-> "idle"]
  /\ hash = [w \in Writers |-> None]
  /\ event = [w \in Writers |-> None]
  /\ fd = [w \in Writers |-> None]
  /\ result = [w \in Writers |-> None]
  /\ shared = {}
  /\ unlogged = {}

Goto(w, label) == pc' = [pc EXCEPT ![w] = label]

Done(w) ==
  /\ Goto(w, "idle")
  /\ hash' = [hash EXCEPT ![w] = None]
  /\ event' = [event EXCEPT ![w] = None]
  /\ fd' = [fd EXCEPT ![w] = None]

(* _emit_approval returns artifact e to the handler.                       *)
Returns(w, e) ==
  /\ Done(w)
  /\ result' = [result EXCEPT ![w] = [hash |-> hash[w], event |-> e]]

-------------------------------------------------------------------------------

(* Mutant of Exists: the name looked for is not the one that is written.   *)
ExistsElsewhere(h) == FALSE

(* path.exists()                                                           *)
Exists(h) == path[h] # None

Begin(w, h) ==
  /\ pc[w] = "idle"
  /\ Goto(w, "has")
  /\ hash' = [hash EXCEPT ![w] = h]
  /\ result' = [result EXCEPT ![w] = None]
  /\ UNCHANGED <<built, about, files, journal, event, fd, shared, unlogged>>

(* Writers of h that found no approval and have not published one.         *)
Writing(h) ==
  {w \in Writers : hash[w] = h /\ pc[w] \in {"exists", "open", "write", "replace"}}

(* _approval_event_from_proposal                                           *)
Build(w) ==
  /\ built < MaxEvents
  /\ built' = built + 1
  /\ about' = [about EXCEPT ![built'] = hash[w]]
  /\ event' = [event EXCEPT ![w] = built']
  /\ shared' = IF Writing(hash[w]) = {} THEN shared ELSE shared \cup {hash[w]}
  /\ Goto(w, "exists")

(* Mutant of HasApproval: the artifact is built without asking.            *)
HasApprovalUnasked(w) ==
  /\ pc[w] = "has"
  /\ Build(w)
  /\ UNCHANGED <<files, journal, hash, fd, result, unlogged>>

HasApproval(w) ==
  /\ pc[w] = "has"
  /\ IF Exists(hash[w])
     THEN Goto(w, "read") /\ UNCHANGED <<built, about, event, shared>>
     ELSE Build(w)
  /\ UNCHANGED <<files, journal, hash, fd, result, unlogged>>

(* Mutant of ReadApproval: an empty file is taken for an artifact.         *)
ReadApprovalEmpty(w) ==
  /\ pc[w] = "read"
  /\ Returns(w, content[path[hash[w]]])
  /\ UNCHANGED <<built, about, files, journal, shared, unlogged>>

(* read_approval: json.load raises on what is no JSON.                     *)
ReadApproval(w) ==
  /\ pc[w] = "read"
  /\ Returns(w, IF content[path[hash[w]]] = None THEN Torn ELSE content[path[hash[w]]])
  /\ UNCHANGED <<built, about, files, journal, shared, unlogged>>

(* The test at the top of write_approval.                                  *)
TestExists(w) ==
  /\ pc[w] = "exists"
  /\ IF Exists(hash[w])
     THEN Returns(w, event[w])
     ELSE Goto(w, "open") /\ UNCHANGED <<locals, result>>
  /\ UNCHANGED <<built, about, files, journal, shared, unlogged>>

(* Mutant of OpenTemporary: a file that is there is not truncated.         *)
OpenTemporaryToAppend(w) ==
  /\ pc[w] = "open"
  /\ LET i == IF tmp[hash[w]] = None THEN event[w] ELSE tmp[hash[w]] IN
       /\ tmp' = [tmp EXCEPT ![hash[w]] = i]
       /\ fd' = [fd EXCEPT ![w] = i]
  /\ Goto(w, "write")
  /\ UNCHANGED <<built, about, content, path, journal, hash, event, result, shared, unlogged>>

(* tmp.open("w"): a new file, or the one that is there, truncated.         *)
OpenTemporary(w) ==
  /\ pc[w] = "open"
  /\ LET i == IF tmp[hash[w]] = None THEN event[w] ELSE tmp[hash[w]] IN
       /\ tmp' = [tmp EXCEPT ![hash[w]] = i]
       /\ content' = [content EXCEPT ![i] = None]
       /\ fd' = [fd EXCEPT ![w] = i]
  /\ Goto(w, "write")
  /\ UNCHANGED <<built, about, path, journal, hash, event, result, shared, unlogged>>

(* json.dump and close.  Over what another writer put into the same file,  *)
(* the artifact may be shorter and leave a rest.                           *)
WriteTemporary(w) ==
  /\ pc[w] = "write"
  /\ \E e \in (IF content[fd[w]] = None THEN {event[w]} ELSE {event[w], Torn}) :
       content' = [content EXCEPT ![fd[w]] = e]
  /\ Goto(w, "replace")
  /\ UNCHANGED <<built, about, path, tmp, journal, locals, result, shared, unlogged>>

(* tmp.replace(path): raises when another writer has moved the file away.  *)
Replace(w) ==
  /\ pc[w] = "replace"
  /\ IF tmp[hash[w]] = None
     THEN Done(w) /\ UNCHANGED <<path, tmp>>
     ELSE /\ path' = [path EXCEPT ![hash[w]] = tmp[hash[w]]]
          /\ tmp' = [tmp EXCEPT ![hash[w]] = None]
          /\ Goto(w, "log")
          /\ UNCHANGED locals
  /\ UNCHANGED <<built, about, content, journal, result, shared, unlogged>>

(* A line written after one without a newline joins it.                    *)
Line(e) == IF open THEN Append(Front(events), Torn) ELSE Append(events, e)

(* Mutant of LogEvent: the line is left out.                               *)
LogEventNothing(w) ==
  /\ pc[w] = "log"
  /\ Returns(w, event[w])
  /\ UNCHANGED <<built, about, files, journal, shared, unlogged>>

(* The line of events.jsonl.                                               *)
LogEvent(w) ==
  /\ pc[w] = "log"
  /\ events' = Line(event[w])
  /\ open' = FALSE
  /\ Returns(w, event[w])
  /\ UNCHANGED <<built, about, files, shared, unlogged>>

-------------------------------------------------------------------------------
(* A write raises, or the process of w dies: the artifact or the line is   *)
(* missing, cut short, or complete but for what follows it.                *)
Stop(w) ==
  /\ pc[w] # "idle"
  /\ Done(w)
  /\ \/ UNCHANGED <<content, journal>>
     \/ /\ pc[w] = "write"
        /\ \E e \in (IF content[fd[w]] = None THEN {event[w], Torn} ELSE {Torn}) :
             content' = [content EXCEPT ![fd[w]] = e]
        /\ UNCHANGED journal
     \/ /\ pc[w] = "log"
        /\ \E e \in {event[w], Torn} : events' = Line(e)
        /\ open' = TRUE
        /\ UNCHANGED content
  /\ unlogged' = IF pc[w] = "log" THEN unlogged \cup {hash[w]} ELSE unlogged
  /\ UNCHANGED <<built, about, path, tmp, result, shared>>

Next ==
  \E w \in Writers :
    \/ \E h \in Hashes : Begin(w, h)
    \/ HasApproval(w) \/ ReadApproval(w) \/ TestExists(w) \/ OpenTemporary(w)
    \/ WriteTemporary(w) \/ Replace(w) \/ LogEvent(w) \/ Stop(w)

Spec == Init /\ [][Next]_vars

-------------------------------------------------------------------------------
(* Type invariant.                                                         *)
TypeOK ==
  /\ built \in 0..MaxEvents
  /\ about \in [Events -> Hashes \cup {None}]
  /\ content \in [Events -> Events \cup {None, Torn}]
  /\ path \in [Hashes -> Events \cup {None}]
  /\ tmp \in [Hashes -> Events \cup {None}]
  /\ events \in Seq(Events \cup {Torn})
  /\ open \in BOOLEAN
  /\ pc \in [Writers -> Labels]
  /\ hash \in [Writers -> Hashes \cup {None}]
  /\ event \in [Writers -> Events \cup {None}]
  /\ fd \in [Writers -> Events \cup {None}]
  /\ result \in [Writers -> [hash: Hashes, event: Events \cup {Torn}] \cup {None}]
  /\ shared \subseteq Hashes
  /\ unlogged \subseteq Hashes

-------------------------------------------------------------------------------
(* Safety, for hashes that no two writers were about to write at once:     *)
(* readers may come at any time, and writers may fail or die at any step   *)
(* and leave their temporary file behind.                                  *)

Alone(h) == h \notin shared

(* What can be read under the name of an approval is a complete artifact   *)
(* for that hash.                                                          *)
PublishedWhole ==
  \A h \in Hashes : Alone(h) /\ path[h] # None =>
    /\ content[path[h]] \in Events
    /\ about[content[path[h]]] = h

(* A published approval is never replaced, written to or removed.          *)
PublishedFinal ==
  [][\A h \in Hashes : shared' = shared /\ Alone(h) /\ path[h] # None =>
       path'[h] = path[h] /\ content'[path[h]] = content[path[h]]]_vars

(* What _emit_approval returned is what is stored, whether it was read or  *)
(* built: approved_at is not made up a second time.                        *)
ReturnedIsStored ==
  \A w \in Writers :
    result[w] # None /\ Alone(result[w].hash) =>
      /\ path[result[w].hash] # None
      /\ content[path[result[w].hash]] = result[w].event

(* events.jsonl tells of approvals that are there, each once and as it is; *)
(* an approval it does not tell of is one whose writer failed just then,   *)
(* or whose line joined one that was torn before.                          *)
JournalMatches ==
  /\ \A i, j \in DOMAIN events :
       LET h == about[events[i]] IN
       events[i] # Torn /\ Alone(h) =>
         /\ path[h] # None /\ content[path[h]] = events[i]
         /\ events[i] = events[j] => i = j
  /\ \A h \in Hashes :
       path[h] # None /\ Alone(h) =>
         \/ content[path[h]] \in Range(events)
         \/ h \in unlogged \/ Torn \in Range(events)
         \/ \E w \in Writers : hash[w] = h /\ pc[w] = "log"
===============================================================================
