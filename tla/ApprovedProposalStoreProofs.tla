---------------------- MODULE ApprovedProposalStoreProofs ----------------------
(***************************************************************************)
(* Theorems about ApprovedProposalStore, for every set of writers and      *)
(* hashes and any number of artifacts, with writers that fail or die at    *)
(* any step.                                                               *)
(***************************************************************************)
EXTENDS ApprovedProposalStore, TLAPS

(* What a writer at a given step can rely on, and which inodes its names   *)
(* and descriptors can be: those that an attempt for its hash created.     *)
Attempting == {"exists", "open", "write", "replace", "log"}

WriterOK(w) ==
  /\ hash[w] = None <=> pc[w] = "idle"
  /\ pc[w] \in Attempting => event[w] \in 1..built /\ about[event[w]] = hash[w]
  /\ pc[w] \in {"write", "replace"} => fd[w] \in 1..built /\ about[fd[w]] = hash[w]
  /\ pc[w] = "read" => path[hash[w]] # None

FileOK(h) ==
  /\ path[h] # None => path[h] \in 1..built /\ about[path[h]] = h
  /\ tmp[h] # None => tmp[h] \in 1..built /\ about[tmp[h]] = h

Control == (\A w \in Writers : WriterOK(w)) /\ (\A h \in Hashes : FileOK(h))

-------------------------------------------------------------------------------

LEMMA TypeInit == Init => TypeOK /\ Control
<1> SUFFICES ASSUME Init PROVE TypeOK /\ Control
  OBVIOUS
<1>1. TypeOK
  <2>1. built \in 0..MaxEvents
    BY BoundAssumption DEF Init
  <2>2. events \in Seq(Events \cup {Torn})
    BY DEF Init
  <2> QED
    BY <2>1, <2>2 DEF Init, TypeOK, Labels
<1>2. ASSUME NEW w \in Writers PROVE WriterOK(w)
  BY DEF Init, WriterOK, Attempting
<1>3. ASSUME NEW h \in Hashes PROVE FileOK(h)
  BY DEF Init, FileOK
<1> QED
  BY <1>1, <1>2, <1>3 DEF Control

(* A line is added to the journal.                                         *)
LEMMA LineType ==
  ASSUME TypeOK, NEW e \in Events \cup {Torn}
  PROVE  Line(e) \in Seq(Events \cup {Torn})
BY DEF TypeOK, Line, Front

(* Done and Returns forget the locals of w.                                *)
LEMMA DoneType ==
  ASSUME TypeOK, NEW w \in Writers, Done(w)
  PROVE  /\ pc' \in [Writers -> Labels]
         /\ hash' \in [Writers -> Hashes \cup {None}]
         /\ event' \in [Writers -> Events \cup {None}]
         /\ fd' \in [Writers -> Events \cup {None}]
         /\ pc'[w] = "idle" /\ hash'[w] = None /\ event'[w] = None
         /\ \A v \in Writers \ {w} :
              pc'[v] = pc[v] /\ hash'[v] = hash[v] /\ event'[v] = event[v] /\ fd'[v] = fd[v]
BY DEF TypeOK, Done, Goto, Labels

LEMMA TypeStep ==
  ASSUME TypeOK, Control, [Next]_vars
  PROVE  TypeOK'
<1> USE DistinctAssumption, BoundAssumption
<1>1. CASE UNCHANGED vars
  BY <1>1 DEF TypeOK, vars, files, journal, locals
<1>2. ASSUME NEW w \in Writers, NEW h \in Hashes, Begin(w, h)
      PROVE  TypeOK'
  BY <1>2 DEF Begin, TypeOK, Goto, files, journal, Labels
<1>3. ASSUME NEW w \in Writers, HasApproval(w)
      PROVE  TypeOK'
  <2>1. hash[w] \in Hashes
    BY <1>3 DEF HasApproval, Control, WriterOK, TypeOK
  <2>2. CASE Exists(hash[w])
    BY <1>3, <2>2 DEF HasApproval, TypeOK, Goto, files, journal, Labels
  <2>3. CASE ~Exists(hash[w])
    <3>1. Build(w)
      BY <1>3, <2>3 DEF HasApproval
    <3>2. built' \in Events /\ built' = built + 1
      BY <3>1 DEF Build, TypeOK, Events
    <3> QED
      BY <1>3, <2>1, <3>1, <3>2 DEF HasApproval, Build, TypeOK, Goto, files, journal, Labels, Events
  <2> QED
    BY <2>2, <2>3
<1>4. ASSUME NEW w \in Writers, ReadApproval(w)
      PROVE  TypeOK'
  <2>1. hash[w] \in Hashes /\ path[hash[w]] \in Events
    BY <1>4 DEF ReadApproval, Control, WriterOK, TypeOK
  <2>2. Done(w) /\ UNCHANGED <<built, about, files, journal, shared, unlogged>>
    BY <1>4 DEF ReadApproval, Returns
  <2>3. result' \in [Writers -> [hash: Hashes, event: Events \cup {Torn}] \cup {None}]
    BY <1>4, <2>1 DEF ReadApproval, Returns, TypeOK
  <2> QED
    BY <2>2, <2>3, DoneType DEF TypeOK, files, journal
<1>5. ASSUME NEW w \in Writers, TestExists(w)
      PROVE  TypeOK'
  <2>1. hash[w] \in Hashes /\ event[w] \in Events
    BY <1>5 DEF TestExists, Control, WriterOK, TypeOK, Attempting, Events
  <2>2. CASE Exists(hash[w])
    <3>1. Done(w) /\ UNCHANGED <<built, about, files, journal, shared, unlogged>>
      BY <1>5, <2>2 DEF TestExists, Returns
    <3>2. result' \in [Writers -> [hash: Hashes, event: Events \cup {Torn}] \cup {None}]
      BY <1>5, <2>1, <2>2 DEF TestExists, Returns, TypeOK
    <3> QED
      BY <3>1, <3>2, DoneType DEF TypeOK, files, journal
  <2>3. CASE ~Exists(hash[w])
    BY <1>5, <2>3 DEF TestExists, TypeOK, Goto, files, journal, locals, Labels
  <2> QED
    BY <2>2, <2>3
<1>6. ASSUME NEW w \in Writers, OpenTemporary(w)
      PROVE  TypeOK'
  <2>1. hash[w] \in Hashes /\ event[w] \in Events /\ tmp[hash[w]] \in Events \cup {None}
    BY <1>6 DEF OpenTemporary, Control, WriterOK, TypeOK, Attempting, Events
  <2> DEFINE i == IF tmp[hash[w]] = None THEN event[w] ELSE tmp[hash[w]]
  <2>2. i \in Events
    BY <2>1
  <2>3. /\ tmp' = [tmp EXCEPT ![hash[w]] = i] /\ content' = [content EXCEPT ![i] = None]
        /\ fd' = [fd EXCEPT ![w] = i] /\ pc' = [pc EXCEPT ![w] = "write"]
        /\ UNCHANGED <<built, about, path, journal, hash, event, result, shared, unlogged>>
    BY <1>6 DEF OpenTemporary, Goto
  <2> HIDE DEF i
  <2> QED
    BY <2>1, <2>2, <2>3 DEF TypeOK, journal, Labels
<1>7. ASSUME NEW w \in Writers, WriteTemporary(w)
      PROVE  TypeOK'
  <2>1. event[w] \in Events
    BY <1>7 DEF WriteTemporary, Control, WriterOK, TypeOK, Attempting, Events
  <2>2. PICK e \in {event[w], Torn} : content' = [content EXCEPT ![fd[w]] = e]
    BY <1>7 DEF WriteTemporary
  <2>3. content' \in [Events -> Events \cup {None, Torn}]
    BY <2>1, <2>2 DEF TypeOK
  <2> QED
    BY <1>7, <2>3 DEF WriteTemporary, TypeOK, Goto, journal, locals, Labels
<1>8. ASSUME NEW w \in Writers, Replace(w)
      PROVE  TypeOK'
  <2>1. hash[w] \in Hashes
    BY <1>8 DEF Replace, Control, WriterOK, TypeOK
  <2>2. CASE tmp[hash[w]] = None
    BY <1>8, <2>2, DoneType DEF Replace, TypeOK, journal
  <2>3. CASE tmp[hash[w]] # None
    BY <1>8, <2>1, <2>3 DEF Replace, TypeOK, Goto, journal, locals, Labels
  <2> QED
    BY <2>2, <2>3
<1>9. ASSUME NEW w \in Writers, LogEvent(w)
      PROVE  TypeOK'
  <2>1. hash[w] \in Hashes /\ event[w] \in Events
    BY <1>9 DEF LogEvent, Control, WriterOK, TypeOK, Attempting, Events
  <2>2. Done(w) /\ UNCHANGED <<built, about, files, shared, unlogged>> /\ open' = FALSE
    BY <1>9 DEF LogEvent, Returns
  <2>3. result' \in [Writers -> [hash: Hashes, event: Events \cup {Torn}] \cup {None}]
    BY <1>9, <2>1 DEF LogEvent, Returns, TypeOK
  <2>4. events' \in Seq(Events \cup {Torn})
    BY <1>9, <2>1, LineType DEF LogEvent
  <2> QED
    BY <2>2, <2>3, <2>4, DoneType DEF TypeOK, files
<1>10. ASSUME NEW w \in Writers, Stop(w)
       PROVE  TypeOK'
  <2>1. hash[w] \in Hashes
    BY <1>10 DEF Stop, Control, WriterOK, TypeOK
  <2>2. pc[w] \in {"write", "log"} => event[w] \in Events
    BY DEF Control, WriterOK, TypeOK, Attempting, Events
  <2>3. content' \in [Events -> Events \cup {None, Torn}]
    <3>1. CASE UNCHANGED <<content, journal>>
      BY <3>1 DEF TypeOK
    <3>2. CASE /\ pc[w] = "write"
               /\ \E e \in (IF content[fd[w]] = None THEN {event[w], Torn} ELSE {Torn}) :
                    content' = [content EXCEPT ![fd[w]] = e]
      <4>1. PICK e \in {event[w], Torn} : content' = [content EXCEPT ![fd[w]] = e]
        BY <3>2
      <4> QED
        BY <2>2, <3>2, <4>1 DEF TypeOK
    <3>3. CASE pc[w] = "log" /\ UNCHANGED content
      BY <3>3 DEF TypeOK
    <3>4. \/ UNCHANGED <<content, journal>>
          \/ /\ pc[w] = "write"
             /\ \E e \in (IF content[fd[w]] = None THEN {event[w], Torn} ELSE {Torn}) :
                  content' = [content EXCEPT ![fd[w]] = e]
          \/ pc[w] = "log" /\ UNCHANGED content
      BY <1>10, Zenon DEF Stop
    <3> QED
      BY <3>1, <3>2, <3>3, <3>4
  <2>4. events' \in Seq(Events \cup {Torn}) /\ open' \in BOOLEAN
    <3>1. CASE UNCHANGED journal
      BY <3>1 DEF TypeOK, journal
    <3>2. CASE pc[w] = "log" /\ (\E e \in {event[w], Torn} : events' = Line(e)) /\ open' = TRUE
      <4>1. PICK e \in {event[w], Torn} : events' = Line(e)
        BY <3>2
      <4>2. e \in Events \cup {Torn}
        BY <2>2, <3>2, <4>1
      <4> QED
        BY <3>2, <4>1, <4>2, LineType
    <3> QED
      BY <1>10, <3>1, <3>2 DEF Stop
  <2>5. Done(w) /\ UNCHANGED <<built, about, path, tmp, result, shared>>
    BY <1>10 DEF Stop
  <2>6. unlogged' \subseteq Hashes
    BY <1>10, <2>1 DEF Stop, TypeOK
  <2>7. /\ pc' \in [Writers -> Labels]
        /\ hash' \in [Writers -> Hashes \cup {None}]
        /\ event' \in [Writers -> Events \cup {None}]
        /\ fd' \in [Writers -> Events \cup {None}]
    BY <2>5, DoneType
  <2> QED
    BY <2>3, <2>4, <2>5, <2>6, <2>7 DEF TypeOK
<1> QED
  BY <1>1, <1>2, <1>3, <1>4, <1>5, <1>6, <1>7, <1>8, <1>9, <1>10 DEF Next

-------------------------------------------------------------------------------
(* A step of w touches only the locals of w.                               *)
LEMMA OthersUnchanged ==
  ASSUME TypeOK, NEW w \in Writers, NEW v \in Writers \ {w},
         \/ \E h \in Hashes : Begin(w, h)
         \/ HasApproval(w) \/ ReadApproval(w) \/ TestExists(w) \/ OpenTemporary(w)
         \/ WriteTemporary(w) \/ Replace(w) \/ LogEvent(w) \/ Stop(w)
  PROVE  /\ pc'[v] = pc[v] /\ hash'[v] = hash[v] /\ event'[v] = event[v] /\ fd'[v] = fd[v]
         /\ result'[v] = result[v]
<1>1. CASE \E h \in Hashes : Begin(w, h)
  BY <1>1 DEF Begin, Goto, TypeOK
<1>2. CASE HasApproval(w)
  BY <1>2 DEF HasApproval, Build, Goto, TypeOK
<1>3. CASE ReadApproval(w)
  BY <1>3 DEF ReadApproval, Returns, Done, Goto, TypeOK
<1>4. CASE TestExists(w)
  BY <1>4 DEF TestExists, Returns, Done, Goto, TypeOK, locals
<1>5. CASE OpenTemporary(w)
  BY <1>5 DEF OpenTemporary, Goto, TypeOK
<1>6. CASE WriteTemporary(w)
  BY <1>6 DEF WriteTemporary, Goto, TypeOK, locals
<1>7. CASE Replace(w)
  BY <1>7 DEF Replace, Done, Goto, TypeOK, locals
<1>8. CASE LogEvent(w)
  BY <1>8 DEF LogEvent, Returns, Done, Goto, TypeOK
<1>9. CASE Stop(w)
  BY <1>9 DEF Stop, Done, Goto, TypeOK
<1> QED
  BY <1>1, <1>2, <1>3, <1>4, <1>5, <1>6, <1>7, <1>8, <1>9

(* Artifacts keep the hash they were built for, and names are not removed. *)
LEMMA Grows ==
  ASSUME TypeOK, Control, [Next]_vars
  PROVE  /\ built <= built' /\ shared \subseteq shared'
         /\ \A e \in 1..built : about'[e] = about[e]
         /\ \A h \in Hashes : path[h] # None => path'[h] # None
<1> USE BoundAssumption, DistinctAssumption
<1>1. CASE UNCHANGED vars
  BY <1>1 DEF TypeOK, vars, files
<1>2. ASSUME NEW w \in Writers, HasApproval(w)
      PROVE  /\ built <= built' /\ shared \subseteq shared'
             /\ \A e \in 1..built : about'[e] = about[e]
             /\ \A h \in Hashes : path[h] # None => path'[h] # None
  <2>1. CASE UNCHANGED <<built, about, event, shared>> /\ path' = path
    BY <2>1 DEF TypeOK
  <2>2. CASE Build(w) /\ path' = path
    BY <2>2 DEF Build, TypeOK, Events
  <2> QED
    BY <1>2, <2>1, <2>2 DEF HasApproval, files
<1>3. ASSUME NEW w \in Writers, Replace(w)
      PROVE  /\ UNCHANGED <<built, about, shared>>
             /\ \A h \in Hashes : path[h] # None => path'[h] # None
  BY <1>3 DEF Replace, TypeOK
<1>4. ASSUME NEW w \in Writers,
             \/ \E h \in Hashes : Begin(w, h)
             \/ ReadApproval(w) \/ TestExists(w) \/ OpenTemporary(w)
             \/ WriteTemporary(w) \/ LogEvent(w) \/ Stop(w)
      PROVE  UNCHANGED <<built, about, shared, path>>
  BY <1>4 DEF Begin, ReadApproval, TestExists, OpenTemporary, WriteTemporary, LogEvent, Stop, files
<1> QED
  <2>1. built \in Int
    BY DEF TypeOK
  <2> QED
    BY <1>1, <1>2, <1>3, <1>4, <2>1 DEF Next

LEMMA FilesStep ==
  ASSUME TypeOK, Control, [Next]_vars, NEW h \in Hashes
  PROVE  FileOK(h)'
<1> USE BoundAssumption, DistinctAssumption
<1>1. /\ built <= built' /\ built \in Int /\ built' \in Int
      /\ \A e \in 1..built : about'[e] = about[e]
  BY Grows, TypeStep DEF TypeOK
<1>2. FileOK(h)
  BY DEF Control
<1>3. CASE path'[h] = path[h] /\ tmp'[h] = tmp[h]
  BY <1>1, <1>2, <1>3 DEF FileOK
<1>4. ASSUME NEW w \in Writers, OpenTemporary(w)
      PROVE  FileOK(h)'
  <2>1. event[w] \in 1..built /\ about[event[w]] = hash[w] /\ hash[w] \in Hashes
    BY <1>4 DEF OpenTemporary, Control, WriterOK, Attempting, TypeOK
  <2>2. path' = path /\ about' = about /\ built' = built
    BY <1>4 DEF OpenTemporary
  <2>3. tmp' = [tmp EXCEPT ![hash[w]] = IF tmp[hash[w]] = None THEN event[w] ELSE tmp[hash[w]]]
    BY <1>4 DEF OpenTemporary
  <2> QED
    BY <1>2, <2>1, <2>2, <2>3 DEF FileOK, TypeOK
<1>5. ASSUME NEW w \in Writers, Replace(w)
      PROVE  FileOK(h)'
  BY <1>2, <1>5 DEF Replace, FileOK, TypeOK
<1>6. ASSUME NEW w \in Writers,
             \/ \E g \in Hashes : Begin(w, g)
             \/ HasApproval(w) \/ ReadApproval(w) \/ TestExists(w)
             \/ WriteTemporary(w) \/ LogEvent(w) \/ Stop(w)
      PROVE  path' = path /\ tmp' = tmp
  BY <1>6 DEF Begin, HasApproval, ReadApproval, TestExists, WriteTemporary, LogEvent, Stop, files
<1>7. CASE UNCHANGED vars
  BY <1>3, <1>7 DEF vars, files
<1> QED
  BY <1>3, <1>4, <1>5, <1>6, <1>7 DEF Next

LEMMA WritersStep ==
  ASSUME TypeOK, Control, [Next]_vars, NEW v \in Writers
  PROVE  WriterOK(v)'
<1> USE BoundAssumption, DistinctAssumption
<1>1. /\ built <= built' /\ built \in Int /\ built' \in Int
      /\ \A e \in 1..built : about'[e] = about[e]
      /\ \A h \in Hashes : path[h] # None => path'[h] # None
  BY Grows, TypeStep DEF TypeOK
<1>2. WriterOK(v) /\ (hash[v] # None => hash[v] \in Hashes)
  BY DEF Control, TypeOK
<1>3. CASE /\ pc'[v] = pc[v] /\ hash'[v] = hash[v] /\ event'[v] = event[v] /\ fd'[v] = fd[v]
  BY <1>1, <1>2, <1>3 DEF WriterOK, Attempting
<1>4. CASE UNCHANGED vars
  BY <1>3, <1>4 DEF vars, locals
<1>5. ASSUME NEW h \in Hashes, Begin(v, h)
      PROVE  WriterOK(v)'
  BY <1>5 DEF Begin, Goto, WriterOK, Attempting, TypeOK
<1>6. CASE HasApproval(v)
  BY <1>2, <1>6 DEF HasApproval, Build, Exists, Goto, files, WriterOK, Attempting, TypeOK, Events
<1>7. CASE ReadApproval(v) \/ LogEvent(v) \/ Stop(v)
  BY <1>7 DEF ReadApproval, LogEvent, Stop, Returns, Done, Goto, WriterOK, Attempting, TypeOK
<1>8. CASE TestExists(v)
  BY <1>2, <1>8 DEF TestExists, Returns, Done, Goto, locals, WriterOK, Attempting, TypeOK
<1>9. CASE OpenTemporary(v)
  <2>1. event[v] \in 1..built /\ about[event[v]] = hash[v] /\ hash[v] \in Hashes
    BY <1>2, <1>9 DEF OpenTemporary, WriterOK, Attempting, TypeOK
  <2>2. FileOK(hash[v])
    BY <2>1 DEF Control
  <2> QED
    BY <1>2, <1>9, <2>1, <2>2 DEF OpenTemporary, Goto, WriterOK, FileOK, Attempting, TypeOK
<1>10. CASE WriteTemporary(v)
  BY <1>2, <1>10 DEF WriteTemporary, Goto, locals, WriterOK, Attempting, TypeOK
<1>11. CASE Replace(v)
  BY <1>2, <1>11 DEF Replace, Done, Goto, locals, WriterOK, Attempting, TypeOK
<1>12. ASSUME NEW w \in Writers, w # v,
              \/ \E h \in Hashes : Begin(w, h)
              \/ HasApproval(w) \/ ReadApproval(w) \/ TestExists(w) \/ OpenTemporary(w)
              \/ WriteTemporary(w) \/ Replace(w) \/ LogEvent(w) \/ Stop(w)
       PROVE  WriterOK(v)'
  BY <1>3, <1>12, OthersUnchanged
<1> QED
  BY <1>4, <1>5, <1>6, <1>7, <1>8, <1>9, <1>10, <1>11, <1>12 DEF Next

(* Every reachable state has the types of TypeOK, and a writer past its    *)
(* test holds its own artifact and an inode that an attempt for its hash   *)
(* created: approvals of different hashes never share a file.              *)
THEOREM TypeCorrect == Spec => [](TypeOK /\ Control)
<1>1. TypeOK /\ Control /\ [Next]_vars => (TypeOK /\ Control)'
  BY TypeStep, FilesStep, WritersStep DEF Control
<1> QED
  BY <1>1, TypeInit, PTL DEF Spec

-------------------------------------------------------------------------------
(* What holds of a hash that two writers never were about to write at      *)
(* once: nothing is published while somebody writes, the writer alone has  *)
(* the temporary file, and what it published or returned is in place.      *)
WriterSolo(h, w) ==
  /\ w \in Writing(h) => path[h] = None /\ Writing(h) = {w}
  /\ hash[w] = h =>
       /\ pc[w] = "write" => fd[w] = tmp[h] /\ content[fd[w]] = None
       /\ pc[w] = "replace" => fd[w] = tmp[h] /\ content[fd[w]] = event[w]
       /\ pc[w] = "log" => path[h] # None /\ content[path[h]] = event[w]
  /\ result[w] # None /\ result[w].hash = h =>
       path[h] # None /\ content[path[h]] = result[w].event

Whole(h) == path[h] # None => content[path[h]] \in 1..built /\ about[content[path[h]]] = h

Solo(h) == Whole(h) /\ \A w \in Writers : WriterSolo(h, w)

LEMMA SoloInit == Init => \A h \in Hashes : Solo(h)
BY DEF Init, Solo, Whole, WriterSolo, Writing

(* Solo(h) survives a step of w that leaves what is published under h and  *)
(* the files of the other writers alone, and after which w is no writer of *)
(* h.                                                                      *)
LEMMA Frame ==
  ASSUME TypeOK, Control, NEW h \in Hashes, Solo(h), NEW w \in Writers,
         \A v \in Writers \ {w} :
           /\ pc'[v] = pc[v] /\ hash'[v] = hash[v] /\ event'[v] = event[v]
           /\ fd'[v] = fd[v] /\ result'[v] = result[v]
           /\ v \in Writing(h) /\ pc[v] \in {"write", "replace"} =>
                content'[fd[v]] = content[fd[v]],
         hash'[w] = h => pc'[w] \in {"has", "read"},
         result'[w] # None /\ result'[w].hash = h =>
           path[h] # None /\ content[path[h]] = result'[w].event,
         path'[h] = path[h], tmp'[h] = tmp[h],
         path[h] # None => content'[path[h]] = content[path[h]],
         built' \in Nat, built <= built',
         \A e \in 1..built : about'[e] = about[e]
  PROVE  Solo(h)'
<1>1. Whole(h)'
  BY DEF Solo, Whole, TypeOK
<1>2. Writing(h)' = Writing(h) \ {w}
  BY DEF Writing
<1>3. ASSUME NEW v \in Writers \ {w}
      PROVE  WriterSolo(h, v)'
  <2>1. WriterSolo(h, v)
    BY DEF Solo
  <2>2. v \in Writing(h)' => path'[h] = None /\ Writing(h)' = {v}
    BY <1>2, <2>1 DEF WriterSolo
  <2>3. hash[v] = h /\ pc[v] \in {"write", "replace"} => content'[fd[v]] = content[fd[v]]
    BY DEF Writing
  <2> QED
    BY <2>1, <2>2, <2>3 DEF WriterSolo
<1>4. WriterSolo(h, w)'
  BY <1>2 DEF WriterSolo
<1> QED
  BY <1>1, <1>3, <1>4 DEF Solo

(* A step of a writer of another hash does not touch the files of h.       *)
LEMMA OtherFiles ==
  ASSUME TypeOK, Control, NEW h \in Hashes,
         NEW w \in Writers, hash[w] # h,
         \/ HasApproval(w) \/ ReadApproval(w) \/ TestExists(w) \/ OpenTemporary(w)
         \/ WriteTemporary(w) \/ Replace(w) \/ LogEvent(w) \/ Stop(w)
  PROVE  /\ path'[h] = path[h] /\ tmp'[h] = tmp[h]
         /\ \A i \in 1..built : about[i] = h => content'[i] = content[i]
<1> USE BoundAssumption, DistinctAssumption
<1>1. WriterOK(w) /\ hash[w] \in Hashes
  BY DEF Control, WriterOK, TypeOK, HasApproval, ReadApproval, TestExists, OpenTemporary,
         WriteTemporary, Replace, LogEvent, Stop
<1>2. path'[h] = path[h] /\ tmp'[h] = tmp[h]
  BY <1>1 DEF TypeOK, files, HasApproval, ReadApproval, TestExists, OpenTemporary,
         WriteTemporary, Replace, LogEvent, Stop
<1>3. ASSUME NEW i \in 1..built, about[i] = h
      PROVE  content'[i] = content[i]
  <2>1. i \in Events
    BY DEF TypeOK, Events
  <2>2. CASE OpenTemporary(w)
    <3>1. event[w] # i
      BY <1>1, <1>3, <2>2 DEF WriterOK, Attempting, OpenTemporary
    <3>2. tmp[hash[w]] # i
      BY <1>1, <1>3, <2>1 DEF Control, FileOK
    <3>3. PICK j : j # i /\ content' = [content EXCEPT ![j] = None]
      BY <2>2, <3>1, <3>2 DEF OpenTemporary
    <3> QED
      BY <2>1, <3>3 DEF TypeOK
  <2>3. pc[w] = "write" => fd[w] # i
    BY <1>1, <1>3 DEF WriterOK
  <2>4. CASE WriteTemporary(w)
    BY <2>1, <2>3, <2>4 DEF WriteTemporary, TypeOK
  <2>5. CASE Stop(w)
    BY <2>1, <2>3, <2>5 DEF Stop, TypeOK
  <2>6. CASE HasApproval(w) \/ ReadApproval(w) \/ TestExists(w) \/ Replace(w) \/ LogEvent(w)
    BY <2>6 DEF HasApproval, ReadApproval, TestExists, Replace, LogEvent, files
  <2> QED
    BY <2>2, <2>4, <2>5, <2>6
<1> QED
  BY <1>2, <1>3

(* A step of a writer of another hash keeps Solo(h).                       *)
LEMMA OtherHash ==
  ASSUME TypeOK, Control, NEW h \in Hashes, Solo(h), [Next]_vars,
         NEW w \in Writers, hash[w] # h,
         \/ HasApproval(w) \/ ReadApproval(w) \/ TestExists(w) \/ OpenTemporary(w)
         \/ WriteTemporary(w) \/ Replace(w) \/ LogEvent(w) \/ Stop(w)
  PROVE  Solo(h)'
<1> USE BoundAssumption, DistinctAssumption
<1>1. /\ WriterOK(w) /\ FileOK(h) /\ hash[w] \in Hashes
      /\ pc[w] # "idle"
  BY DEF Control, WriterOK, TypeOK, HasApproval, ReadApproval, TestExists, OpenTemporary,
         WriteTemporary, Replace, LogEvent, Stop
<1>2. /\ built' \in Nat /\ built <= built' /\ \A e \in 1..built : about'[e] = about[e]
  BY Grows, TypeStep DEF TypeOK
<1>3. /\ path'[h] = path[h] /\ tmp'[h] = tmp[h]
      /\ \A i \in 1..built : about[i] = h => content'[i] = content[i]
  BY OtherFiles
<1>4. hash'[w] # h
  BY DEF TypeOK, locals, Returns, Done, HasApproval, ReadApproval, TestExists, OpenTemporary,
         WriteTemporary, Replace, LogEvent, Stop
<1>5. result'[w] = None \/ result'[w] = result[w] \/ result'[w].hash # h
  BY DEF TypeOK, locals, Returns, Done, HasApproval, ReadApproval, TestExists, OpenTemporary,
         WriteTemporary, Replace, LogEvent, Stop
<1>7. path[h] # None => content'[path[h]] = content[path[h]]
  BY <1>1, <1>3 DEF FileOK
<1>8. ASSUME NEW v \in Writers \ {w}
      PROVE  /\ pc'[v] = pc[v] /\ hash'[v] = hash[v] /\ event'[v] = event[v]
             /\ fd'[v] = fd[v] /\ result'[v] = result[v]
             /\ v \in Writing(h) /\ pc[v] \in {"write", "replace"} => content'[fd[v]] = content[fd[v]]
  <2>1. WriterOK(v)
    BY DEF Control
  <2> QED
    BY <1>3, <2>1, OthersUnchanged DEF WriterOK, Writing
<1>9. result'[w] # None /\ result'[w].hash = h =>
        path[h] # None /\ content[path[h]] = result'[w].event
  BY <1>5 DEF Solo, WriterSolo
<1> QED
  BY <1>2, <1>3, <1>4, <1>7, <1>8, <1>9, Frame

(* While w writes h, nobody else does, and nothing of h is published,      *)
(* logged or returned.                                                     *)
LEMMA SoleWriter ==
  ASSUME NEW h \in Hashes, Solo(h), NEW w \in Writing(h)
  PROVE  /\ path[h] = None
         /\ \A v \in Writers \ {w} :
              hash[v] = h => pc[v] \notin {"exists", "open", "write", "replace", "log"}
         /\ \A v \in Writers : result[v] # None => result[v].hash # h
<1>1. w \in Writers /\ path[h] = None /\ Writing(h) = {w}
  BY DEF Writing, Solo, WriterSolo
<1> QED
  BY <1>1 DEF Writing, Solo, WriterSolo

(* A step of the one that may write h.                                     *)
LEMMA OwnHash ==
  ASSUME TypeOK, Control, NEW h \in Hashes, Solo(h), h \notin shared', [Next]_vars,
         NEW w \in Writers, hash[w] = h,
         \/ HasApproval(w) \/ ReadApproval(w) \/ TestExists(w) \/ OpenTemporary(w)
         \/ WriteTemporary(w) \/ Replace(w) \/ LogEvent(w) \/ Stop(w)
  PROVE  Solo(h)'
<1> USE BoundAssumption, DistinctAssumption
<1>1. WriterOK(w) /\ FileOK(h) /\ Whole(h) /\ WriterSolo(h, w)
  BY DEF Control, Solo
<1>2. /\ built' \in Nat /\ built <= built' /\ \A e \in 1..built : about'[e] = about[e]
  BY Grows, TypeStep DEF TypeOK
<1>3. \A v \in Writers \ {w} :
        /\ pc'[v] = pc[v] /\ hash'[v] = hash[v] /\ event'[v] = event[v]
        /\ fd'[v] = fd[v] /\ result'[v] = result[v]
  BY OthersUnchanged
<1>4. w \in Writing(h) <=> pc[w] \in {"exists", "open", "write", "replace"}
  BY DEF Writing
<1>5. CASE HasApproval(w)
  <2>1. CASE Exists(h)
    BY <1>2, <1>3, <1>5, <2>1, Frame DEF HasApproval, Goto, TypeOK, files, WriterSolo, Solo
  <2>2. CASE ~Exists(h)
    <3>1. Build(w) /\ path[h] = None /\ Writing(h) = {}
      BY <1>5, <2>2 DEF HasApproval, Build, Exists
    <3>2. Writing(h)' = {w}
      BY <1>3, <1>5, <3>1 DEF Writing, HasApproval, Build, Goto, TypeOK
    <3>3. UNCHANGED <<files, result>> /\ pc'[w] = "exists"
      BY <1>5, <3>1 DEF HasApproval, Build, Goto, TypeOK
    <3>4. ASSUME NEW v \in Writers PROVE WriterSolo(h, v)'
      <4>1. WriterSolo(h, v)
        BY DEF Solo
      <4>2. CASE v = w
        BY <3>1, <3>2, <3>3, <4>1, <4>2 DEF WriterSolo, files
      <4>3. CASE v # w
        BY <1>3, <3>1, <3>2, <3>3, <4>1, <4>3 DEF WriterSolo, files
      <4> QED
        BY <4>2, <4>3
    <3> QED
      BY <3>1, <3>3, <3>4 DEF Solo, Whole, files
  <2> QED
    BY <2>1, <2>2
<1>6. CASE ReadApproval(w)
  <2>1. path[h] # None /\ content[path[h]] # None /\ content[path[h]] \in 1..built
    BY <1>1, <1>6 DEF ReadApproval, WriterOK, Whole, TypeOK, Events
  <2>2. /\ result'[w] = [hash |-> h, event |-> content[path[h]]]
        /\ hash'[w] = None /\ UNCHANGED <<files, built>>
    BY <1>6, <2>1 DEF ReadApproval, Returns, Done, TypeOK
  <2> QED
    BY <1>2, <1>3, <2>1, <2>2, Frame DEF files
<1>7. CASE TestExists(w)
  <2>1. w \in Writing(h) /\ path[h] = None
    BY <1>4, <1>7, SoleWriter DEF TestExists
  <2>2. pc'[w] = "open" /\ UNCHANGED <<files, locals, result>>
    BY <1>7, <2>1 DEF TestExists, Exists, Goto, TypeOK
  <2>3. Writing(h)' = Writing(h)
    BY <1>3, <1>4, <2>1, <2>2 DEF Writing, locals
  <2>4. ASSUME NEW v \in Writers PROVE WriterSolo(h, v)'
    <3>1. WriterSolo(h, v)
      BY DEF Solo
    <3> QED
      BY <1>3, <2>1, <2>2, <2>3, <3>1 DEF WriterSolo, files, locals
  <2> QED
    BY <1>1, <2>1, <2>2, <2>4 DEF Solo, Whole, files
<1>8. CASE OpenTemporary(w)
  <2>1. w \in Writing(h)
    BY <1>4, <1>8 DEF OpenTemporary
  <2>2. /\ path[h] = None /\ Writing(h) = {w}
        /\ \A v \in Writers \ {w} :
             hash[v] = h => pc[v] \notin {"exists", "open", "write", "replace", "log"}
        /\ \A v \in Writers : result[v] # None => result[v].hash # h
    BY <1>1, <2>1, SoleWriter DEF WriterSolo
  <2>3. event[w] \in Events /\ tmp[h] \in Events \cup {None}
    BY <1>1, <1>8 DEF OpenTemporary, WriterOK, Attempting, TypeOK, Events
  <2>4. /\ fd'[w] = tmp'[h] /\ content'[fd'[w]] = None /\ pc'[w] = "write"
        /\ UNCHANGED <<path, hash, result>>
    BY <1>8, <2>3 DEF OpenTemporary, Goto, TypeOK
  <2>5. Writing(h)' = {w}
    BY <1>3, <2>2, <2>4 DEF Writing
  <2>6. ASSUME NEW v \in Writers PROVE WriterSolo(h, v)'
    BY <1>3, <2>2, <2>4, <2>5 DEF WriterSolo
  <2> QED
    BY <2>2, <2>4, <2>6 DEF Solo, Whole
<1>9. CASE WriteTemporary(w)
  <2>1. w \in Writing(h)
    BY <1>4, <1>9 DEF WriteTemporary
  <2>2. /\ path[h] = None /\ Writing(h) = {w}
        /\ \A v \in Writers \ {w} :
             hash[v] = h => pc[v] \notin {"exists", "open", "write", "replace", "log"}
        /\ \A v \in Writers : result[v] # None => result[v].hash # h
    BY <1>1, <2>1, SoleWriter DEF WriterSolo
  <2>3. fd[w] \in Events /\ fd[w] = tmp[h] /\ content[fd[w]] = None
    BY <1>1, <1>9 DEF WriteTemporary, WriterOK, WriterSolo, TypeOK, Events
  <2>4. content' = [content EXCEPT ![fd[w]] = event[w]]
    BY <1>9, <2>3 DEF WriteTemporary
  <2>5. /\ content'[fd[w]] = event[w] /\ pc'[w] = "replace"
        /\ UNCHANGED <<path, tmp, hash, event, fd, result>>
    BY <1>9, <2>3, <2>4 DEF WriteTemporary, Goto, TypeOK, locals
  <2>6. Writing(h)' = {w}
    BY <1>3, <2>2, <2>5 DEF Writing
  <2>7. ASSUME NEW v \in Writers PROVE WriterSolo(h, v)'
    BY <1>3, <2>2, <2>3, <2>5, <2>6 DEF WriterSolo
  <2> QED
    BY <2>2, <2>5, <2>7 DEF Solo, Whole
<1>10. CASE Replace(w)
  <2>1. w \in Writing(h)
    BY <1>4, <1>10 DEF Replace
  <2>2. /\ path[h] = None /\ Writing(h) = {w}
        /\ \A v \in Writers \ {w} :
             hash[v] = h => pc[v] \notin {"exists", "open", "write", "replace", "log"}
        /\ \A v \in Writers : result[v] # None => result[v].hash # h
    BY <1>1, <2>1, SoleWriter DEF WriterSolo
  <2>3. /\ tmp[h] = fd[w] /\ fd[w] \in 1..built /\ content[fd[w]] = event[w]
        /\ event[w] \in 1..built /\ about[event[w]] = h
    BY <1>1, <1>10 DEF Replace, WriterOK, WriterSolo, Attempting
  <2>4. tmp[h] # None
    BY <2>3 DEF TypeOK, Events
  <2>5. /\ path'[h] = tmp[h] /\ pc'[w] = "log"
        /\ UNCHANGED <<built, about, content, hash, event, fd, result>>
    BY <1>10, <2>4 DEF Replace, Goto, TypeOK, locals
  <2>6. Writing(h)' = {}
    BY <1>3, <2>2, <2>5 DEF Writing
  <2>7. ASSUME NEW v \in Writers PROVE WriterSolo(h, v)'
    BY <1>3, <2>2, <2>3, <2>4, <2>5, <2>6 DEF WriterSolo
  <2> QED
    BY <2>3, <2>5, <2>7 DEF Solo, Whole
<1>11. CASE LogEvent(w)
  <2>1. path[h] # None /\ content[path[h]] = event[w]
    BY <1>1, <1>11 DEF LogEvent, WriterSolo
  <2>2. /\ result'[w] = [hash |-> h, event |-> event[w]]
        /\ hash'[w] = None /\ UNCHANGED files
    BY <1>11 DEF LogEvent, Returns, Done, TypeOK
  <2> QED
    BY <1>2, <1>3, <2>1, <2>2, Frame DEF files
<1>12. CASE Stop(w)
  <2>1. hash'[w] = None /\ UNCHANGED <<path, tmp, result>>
    BY <1>12 DEF Stop, Done, TypeOK
  <2>2. CASE pc[w] = "write"
    <3>1. w \in Writing(h)
      BY <1>4, <2>2
    <3>2. path[h] = None /\ Writing(h) = {w}
      BY <1>1, <3>1 DEF WriterSolo
    <3>3. result'[w] # None => result'[w].hash # h
      BY <2>1, <3>1, SoleWriter
    <3> QED
      BY <1>2, <1>3, <2>1, <3>2, <3>3, Frame
  <2>3. CASE pc[w] # "write"
    <3>1. UNCHANGED content
      BY <1>12, <2>3 DEF Stop
    <3> QED
      BY <1>1, <1>2, <1>3, <2>1, <3>1, Frame DEF WriterSolo
  <2> QED
    BY <2>2, <2>3
<1> QED
  BY <1>5, <1>6, <1>7, <1>8, <1>9, <1>10, <1>11, <1>12

LEMMA SoloStep ==
  ASSUME TypeOK, Control, [Next]_vars, NEW h \in Hashes, Alone(h) => Solo(h), Alone(h)'
  PROVE  Solo(h)'
<1> USE DistinctAssumption
<1>1. Solo(h) /\ h \notin shared'
  BY Grows DEF Alone
<1>2. CASE UNCHANGED vars
  BY <1>1, <1>2 DEF vars, files, locals, Solo, Whole, WriterSolo, Writing
<1>3. ASSUME NEW w \in Writers, NEW g \in Hashes, Begin(w, g)
      PROVE  Solo(h)'
  <2>1. /\ pc'[w] = "has" /\ result'[w] = None /\ UNCHANGED <<files, built, about>>
    BY <1>3 DEF Begin, Goto, TypeOK
  <2>2. \A v \in Writers \ {w} :
          /\ pc'[v] = pc[v] /\ hash'[v] = hash[v] /\ event'[v] = event[v]
          /\ fd'[v] = fd[v] /\ result'[v] = result[v]
    BY <1>3, OthersUnchanged
  <2>3. built \in Nat /\ built <= built' /\ built' \in Nat
    BY <2>1 DEF TypeOK
  <2> QED
    BY <1>1, <2>1, <2>2, <2>3, Frame DEF files
<1>4. ASSUME NEW w \in Writers,
             \/ HasApproval(w) \/ ReadApproval(w) \/ TestExists(w) \/ OpenTemporary(w)
             \/ WriteTemporary(w) \/ Replace(w) \/ LogEvent(w) \/ Stop(w)
      PROVE  Solo(h)'
  BY <1>1, <1>4, OwnHash, OtherHash
<1> QED
  BY <1>2, <1>3, <1>4 DEF Next

(* The step of no writer removes, replaces or rewrites what is published.  *)
LEMMA PublishedKept ==
  ASSUME TypeOK, Control, [Next]_vars, NEW h \in Hashes, Solo(h), path[h] # None
  PROVE  path'[h] = path[h] /\ content'[path[h]] = content[path[h]]
<1>1. CASE UNCHANGED vars
  BY <1>1 DEF vars, files
<1>2. ASSUME NEW w \in Writers, NEW g \in Hashes, Begin(w, g)
      PROVE  path'[h] = path[h] /\ content'[path[h]] = content[path[h]]
  BY <1>2 DEF Begin, files
<1>3. ASSUME NEW w \in Writers, hash[w] # h,
             \/ HasApproval(w) \/ ReadApproval(w) \/ TestExists(w) \/ OpenTemporary(w)
             \/ WriteTemporary(w) \/ Replace(w) \/ LogEvent(w) \/ Stop(w)
      PROVE  path'[h] = path[h] /\ content'[path[h]] = content[path[h]]
  BY <1>3, OtherFiles DEF Control, FileOK
<1>4. ASSUME NEW w \in Writers, hash[w] = h,
             \/ HasApproval(w) \/ ReadApproval(w) \/ TestExists(w) \/ OpenTemporary(w)
             \/ WriteTemporary(w) \/ Replace(w) \/ LogEvent(w) \/ Stop(w)
      PROVE  path'[h] = path[h] /\ content'[path[h]] = content[path[h]]
  <2>1. pc[w] \notin {"exists", "open", "write", "replace"}
    BY <1>4, SoleWriter DEF Writing
  <2> QED
    BY <1>4, <2>1 DEF HasApproval, ReadApproval, TestExists, OpenTemporary, WriteTemporary,
                      Replace, LogEvent, Stop, files
<1> QED
  BY <1>1, <1>2, <1>3, <1>4 DEF Next

SoloInv == \A h \in Hashes : Alone(h) => Solo(h)

LEMMA SoloInvariant == Spec => [](TypeOK /\ Control /\ SoloInv)
<1>1. Init => SoloInv
  BY SoloInit DEF SoloInv
<1>2. TypeOK /\ Control /\ SoloInv /\ [Next]_vars => SoloInv'
  BY SoloStep DEF SoloInv
<1> QED
  BY <1>1, <1>2, TypeCorrect, PTL DEF Spec

(* What can be read under the name of an approval that no two writers were *)
(* about to write at once is a complete artifact for it, however many      *)
(* attempts died before.                                                   *)
THEOREM WholeApprovals == Spec => []PublishedWhole
<1>1. TypeOK /\ SoloInv => PublishedWhole
  BY BoundAssumption DEF TypeOK, SoloInv, Solo, Whole, PublishedWhole, Events
<1> QED
  BY <1>1, SoloInvariant, PTL

(* What _emit_approval returned is what is stored under the name.          *)
THEOREM StoredApprovals == Spec => []ReturnedIsStored
<1>1. TypeOK /\ SoloInv => ReturnedIsStored
  <2> SUFFICES ASSUME TypeOK, SoloInv, NEW w \in Writers, result[w] # None,
                      Alone(result[w].hash)
               PROVE  /\ path[result[w].hash] # None
                      /\ content[path[result[w].hash]] = result[w].event
    BY DEF ReturnedIsStored
  <2>1. result[w].hash \in Hashes
    BY DEF TypeOK
  <2> QED
    BY <2>1 DEF SoloInv, Solo, WriterSolo
<1> QED
  BY <1>1, SoloInvariant, PTL

(* A published approval stays what it is.                                  *)
THEOREM FinalApprovals == Spec => PublishedFinal
<1>1. TypeOK /\ Control /\ SoloInv /\ [Next]_vars =>
        [\A h \in Hashes : shared' = shared /\ Alone(h) /\ path[h] # None =>
           path'[h] = path[h] /\ content'[path[h]] = content[path[h]]]_vars
  BY PublishedKept DEF SoloInv
<1> QED
  BY <1>1, SoloInvariant, PTL DEF Spec, PublishedFinal

-------------------------------------------------------------------------------
(* The journal: its lines are artifacts that were built, each is there     *)
(* once, none is that of an attempt still under way, and no two attempts   *)
(* have the same artifact.                                                 *)
Lines ==
  /\ open => events # <<>>
  /\ \A e \in 1..built : about[e] \in Hashes
  /\ \A i \in DOMAIN events : events[i] # Torn => events[i] \in 1..built

Once == \A i, j \in DOMAIN events : events[i] # Torn /\ events[i] = events[j] => i = j

Fresh ==
  \A w \in Writers : pc[w] \in Attempting =>
    /\ \A i \in DOMAIN events : events[i] # event[w]
    /\ \A v \in Writers : pc[v] \in Attempting /\ event[v] = event[w] => v = w

(* A line about h is what is stored, and what is stored has a line unless  *)
(* its writer is about to write it or could not.                           *)
Told(h) ==
  /\ \A i \in DOMAIN events :
       events[i] # Torn /\ about[events[i]] = h => path[h] # None /\ content[path[h]] = events[i]
  /\ path[h] # None =>
       \/ content[path[h]] \in Range(events)
       \/ h \in unlogged \/ Torn \in Range(events)
       \/ \E w \in Writers : hash[w] = h /\ pc[w] = "log"

Journal == Lines /\ Once /\ Fresh /\ \A h \in Hashes : Alone(h) => Told(h)

LEMMA JournalInit == Init => Journal
BY DEF Init, Journal, Lines, Once, Fresh, Told, Attempting

(* What a further line leaves of the lines before: all of them, or, where  *)
(* the last was not ended, all but the last and a torn one.                *)
LEMMA LineFacts ==
  ASSUME TypeOK, open => events # <<>>, NEW e \in Events \cup {Torn}
  PROVE  /\ Line(e) # <<>>
         /\ \A i \in DOMAIN Line(e) :
              \/ i \in DOMAIN events /\ i < Len(Line(e)) /\ Line(e)[i] = events[i]
              \/ i = Len(Line(e)) /\ Line(e)[i] = IF open THEN Torn ELSE e
         /\ \A x \in Range(events) \cup {e} : x \in Range(Line(e)) \/ Torn \in Range(Line(e))
<1>1. events \in Seq(Events \cup {Torn}) /\ Len(events) \in Nat /\ DOMAIN events = 1..Len(events)
  BY DEF TypeOK
<1>2. CASE open
  <2>1. Len(events) \in Nat \ {0}
    BY <1>1, <1>2
  <2>2. /\ Front(events) \in Seq(Events \cup {Torn}) /\ Len(Front(events)) = Len(events) - 1
        /\ \A i \in 1..(Len(events) - 1) : Front(events)[i] = events[i]
    BY <1>1, <2>1 DEF Front
  <2>3. Line(e) = Append(Front(events), Torn)
    BY <1>2 DEF Line
  <2>4. /\ Len(Line(e)) = Len(events) /\ DOMAIN Line(e) = 1..Len(events)
        /\ Line(e)[Len(events)] = Torn
        /\ \A i \in 1..(Len(events) - 1) : Line(e)[i] = events[i]
    BY <2>1, <2>2, <2>3
  <2>5. Torn \in Range(Line(e))
    BY <2>1, <2>4 DEF Range
  <2> QED
    BY <1>1, <1>2, <2>1, <2>4, <2>5
<1>3. CASE ~open
  <2>1. Line(e) = Append(events, e)
    BY <1>3 DEF Line
  <2>2. /\ Len(Line(e)) = Len(events) + 1 /\ DOMAIN Line(e) = 1..(Len(events) + 1)
        /\ Line(e)[Len(events) + 1] = e
        /\ \A i \in 1..Len(events) : Line(e)[i] = events[i]
    BY <1>1, <2>1
  <2>3. \A x \in Range(events) \cup {e} : x \in Range(Line(e))
    BY <1>1, <2>2 DEF Range
  <2> QED
    BY <1>1, <1>3, <2>2, <2>3
<1> QED
  BY <1>2, <1>3

(* The journal changes only where a writer is about to write its line.     *)
LEMMA JournalCases ==
  ASSUME [Next]_vars
  PROVE  \/ UNCHANGED <<journal, unlogged>>
         \/ \E w \in Writers :
              /\ Stop(w) /\ UNCHANGED journal
              /\ unlogged' = IF pc[w] = "log" THEN unlogged \cup {hash[w]} ELSE unlogged
         \/ \E w \in Writers :
              /\ pc[w] = "log" /\ (LogEvent(w) \/ Stop(w)) /\ Done(w)
              /\ UNCHANGED <<built, about, files, shared>>
              /\ \E e \in {event[w], Torn} :
                   /\ events' = Line(e)
                   /\ \/ e = event[w] /\ unlogged' = unlogged
                      \/ unlogged' = unlogged \cup {hash[w]}
<1>1. CASE UNCHANGED vars
  BY <1>1 DEF vars
<1>2. ASSUME NEW w \in Writers,
             \/ \E h \in Hashes : Begin(w, h)
             \/ HasApproval(w) \/ ReadApproval(w) \/ TestExists(w) \/ OpenTemporary(w)
             \/ WriteTemporary(w) \/ Replace(w)
      PROVE  UNCHANGED <<journal, unlogged>>
  BY <1>2 DEF Begin, HasApproval, ReadApproval, TestExists, OpenTemporary, WriteTemporary, Replace
<1>3. ASSUME NEW w \in Writers, LogEvent(w)
      PROVE  /\ pc[w] = "log" /\ Done(w) /\ UNCHANGED <<built, about, files, shared>>
             /\ events' = Line(event[w]) /\ unlogged' = unlogged
  BY <1>3 DEF LogEvent, Returns
<1>4. ASSUME NEW w \in Writers, Stop(w), journal' # journal
      PROVE  /\ pc[w] = "log" /\ Done(w) /\ UNCHANGED <<built, about, files, shared>>
             /\ \E e \in {event[w], Torn} : events' = Line(e)
             /\ unlogged' = unlogged \cup {hash[w]}
  BY <1>4 DEF Stop, files
<1>5. ASSUME NEW w \in Writers, Stop(w)
      PROVE  unlogged' = IF pc[w] = "log" THEN unlogged \cup {hash[w]} ELSE unlogged
  BY <1>5 DEF Stop
<1> QED
  BY <1>1, <1>2, <1>3, <1>4, <1>5 DEF Next

(* A line is added.                                                        *)
LEMMA JournalGrows ==
  ASSUME TypeOK, Control, SoloInv, Journal, NEW w \in Writers, pc[w] = "log",
         LogEvent(w) \/ Stop(w), Done(w), UNCHANGED <<built, about, files, shared>>,
         NEW e \in {event[w], Torn}, events' = Line(e),
         (e = event[w] /\ unlogged' = unlogged) \/ unlogged' = unlogged \cup {hash[w]}
  PROVE  Journal'
<1> USE BoundAssumption, DistinctAssumption
<1>1. /\ event[w] \in 1..built /\ event[w] \in Events /\ about[event[w]] = hash[w]
      /\ hash[w] \in Hashes
  BY DEF Control, WriterOK, Attempting, TypeOK, Events
<1>2. /\ events' # <<>>
      /\ \A i \in DOMAIN events' :
           \/ i \in DOMAIN events /\ i < Len(events') /\ events'[i] = events[i]
           \/ i = Len(events') /\ (events'[i] = event[w] \/ events'[i] = Torn)
      /\ \A x \in Range(events) \cup {e} : x \in Range(events') \/ Torn \in Range(events')
  BY <1>1, LineFacts DEF Journal, Lines
<1>3. /\ \A i \in DOMAIN events : events[i] # event[w]
      /\ \A v \in Writers \ {w} : pc[v] \in Attempting => event[v] # event[w]
  BY DEF Journal, Fresh, Attempting
<1>4. /\ pc'[w] = "idle"
      /\ \A v \in Writers \ {w} : pc'[v] = pc[v] /\ hash'[v] = hash[v] /\ event'[v] = event[v]
  BY DoneType
<1>5. Lines'
  BY <1>1, <1>2 DEF Journal, Lines
<1>6. Once'
  BY <1>2, <1>3 DEF Journal, Once
<1>7. Fresh'
  <2> SUFFICES ASSUME NEW v \in Writers, pc'[v] \in Attempting
               PROVE  /\ \A i \in DOMAIN events' : events'[i] # event'[v]
                      /\ \A u \in Writers : pc'[u] \in Attempting /\ event'[u] = event'[v] => u = v
    BY DEF Fresh
  <2>1. v # w /\ pc[v] \in Attempting /\ event'[v] = event[v]
    BY <1>4 DEF Attempting
  <2>2. event[v] # Torn
    BY <2>1 DEF Control, WriterOK, TypeOK, Events
  <2>3. \A u \in Writers : pc'[u] \in Attempting => u # w
    BY <1>4 DEF Attempting
  <2>4. /\ \A i \in DOMAIN events : events[i] # event[v]
        /\ \A u \in Writers : pc[u] \in Attempting /\ event[u] = event[v] => u = v
    BY <2>1 DEF Journal, Fresh
  <2>5. \A i \in DOMAIN events' : events'[i] # event[v]
    BY <1>2, <1>3, <2>1, <2>2, <2>4
  <2> QED
    BY <1>4, <2>1, <2>3, <2>4, <2>5
<1>8. ASSUME NEW h \in Hashes, Alone(h)'
      PROVE  Told(h)'
  <2>1. Alone(h) /\ Told(h) /\ Solo(h) /\ UNCHANGED <<path, content, about>>
    BY <1>8 DEF Journal, SoloInv, Alone, files
  <2>2. hash[w] = h => path[h] # None /\ content[path[h]] = event[w]
    BY <2>1 DEF Solo, WriterSolo
  <2>3. ASSUME NEW i \in DOMAIN events', events'[i] # Torn, about[events'[i]] = h
        PROVE  path[h] # None /\ content[path[h]] = events'[i]
    BY <1>1, <1>2, <2>1, <2>2, <2>3 DEF Told
  <2>4. ASSUME path[h] # None
        PROVE  \/ content[path[h]] \in Range(events')
               \/ h \in unlogged' \/ Torn \in Range(events')
               \/ \E v \in Writers : hash'[v] = h /\ pc'[v] = "log"
    <3>1. CASE hash[w] = h
      BY <1>2, <2>2, <3>1
    <3>2. CASE hash[w] # h
      BY <1>2, <1>4, <2>1, <2>4, <3>2 DEF Told
    <3> QED
      BY <3>1, <3>2
  <2> QED
    BY <2>1, <2>3, <2>4 DEF Told
<1> QED
  BY <1>5, <1>6, <1>7, <1>8 DEF Journal

(* The journal stays and some writer takes a step.                         *)
LEMMA FreshStep ==
  ASSUME TypeOK, Control, Journal, UNCHANGED journal, NEW w \in Writers,
         \/ \E h \in Hashes : Begin(w, h)
         \/ HasApproval(w) \/ ReadApproval(w) \/ TestExists(w) \/ OpenTemporary(w)
         \/ WriteTemporary(w) \/ Replace(w) \/ LogEvent(w) \/ Stop(w)
  PROVE  Fresh'
<1> USE BoundAssumption, DistinctAssumption
<1>1. \A v \in Writers \ {w} : pc'[v] = pc[v] /\ event'[v] = event[v]
  BY OthersUnchanged
<1>2. events' = events
  BY DEF journal
<1>3. CASE HasApproval(w) /\ Build(w)
  <2>1. pc'[w] = "exists" /\ event'[w] = built + 1 /\ built \in Nat
    BY <1>3 DEF Build, Goto, TypeOK
  <2>2. \A v \in Writers : pc[v] \in Attempting => event[v] \in 1..built
    BY DEF Control, WriterOK
  <2>3. \A i \in DOMAIN events : events[i] \in 1..built \/ events[i] = Torn
    BY DEF Journal, Lines
  <2>4. built + 1 # Torn
    BY <1>3 DEF Build, TypeOK, Events
  <2>5. \A v \in Writers \ {w} : pc'[v] \in Attempting => event'[v] # event'[w]
    BY <1>1, <2>1, <2>2
  <2>6. \A i \in DOMAIN events : events[i] # event'[w]
    BY <2>1, <2>3, <2>4
  <2> QED
    BY <1>1, <1>2, <2>5, <2>6 DEF Journal, Fresh
<1>4. CASE pc'[w] \in Attempting => pc[w] \in Attempting /\ event'[w] = event[w]
  BY <1>1, <1>2, <1>4 DEF Journal, Fresh
<1>5. ~(HasApproval(w) /\ Build(w)) =>
        (pc'[w] \in Attempting => pc[w] \in Attempting /\ event'[w] = event[w])
  BY DEF Begin, HasApproval, ReadApproval, TestExists, OpenTemporary, WriteTemporary, Replace,
         LogEvent, Stop, Returns, Done, Goto, locals, Attempting, TypeOK
<1> QED
  BY <1>3, <1>4, <1>5

LEMMA ToldStep ==
  ASSUME TypeOK, Control, SoloInv, Journal, [Next]_vars, UNCHANGED journal,
         NEW h \in Hashes, Alone(h)'
  PROVE  Told(h)'
<1> USE BoundAssumption, DistinctAssumption
<1>1. Alone(h) /\ Told(h) /\ Solo(h) /\ events' = events
  BY Grows DEF Alone, Journal, SoloInv, journal
<1>2. \A e \in 1..built : about'[e] = about[e]
  BY Grows
<1>3. path[h] # None => path'[h] = path[h] /\ content'[path[h]] = content[path[h]]
  BY <1>1, PublishedKept
<1>4. unlogged \subseteq unlogged'
  BY JournalCases
<1>5. \A i \in DOMAIN events : events[i] # Torn => events[i] \in 1..built
  BY DEF Journal, Lines
<1>6. \A i \in DOMAIN events' :
        events'[i] # Torn /\ about'[events'[i]] = h =>
          path'[h] # None /\ content'[path'[h]] = events'[i]
  BY <1>1, <1>2, <1>3, <1>5 DEF Told
<1>7. CASE UNCHANGED vars
  BY <1>1, <1>7 DEF vars, files, locals, journal, Told
<1>8. ASSUME NEW w \in Writers, path'[h] # None,
             \/ \E g \in Hashes : Begin(w, g)
             \/ HasApproval(w) \/ ReadApproval(w) \/ TestExists(w) \/ OpenTemporary(w)
             \/ WriteTemporary(w) \/ Replace(w) \/ LogEvent(w) \/ Stop(w)
      PROVE  \/ content'[path'[h]] \in Range(events')
             \/ h \in unlogged' \/ Torn \in Range(events')
             \/ \E v \in Writers : hash'[v] = h /\ pc'[v] = "log"
  <2>1. \A v \in Writers \ {w} : pc'[v] = pc[v] /\ hash'[v] = hash[v]
    BY <1>8, OthersUnchanged
  <2>2. CASE path[h] = None
    <3>1. Replace(w) /\ hash[w] = h
      <4>1. CASE Replace(w)
        BY <1>8, <2>2, <4>1 DEF Replace, TypeOK
      <4>2. CASE ~Replace(w)
        BY <1>8, <2>2, <4>2 DEF Begin, HasApproval, ReadApproval, TestExists, OpenTemporary,
                                WriteTemporary, LogEvent, Stop, files
      <4> QED
        BY <4>1, <4>2
    <3>2. path' # path
      BY <1>8, <2>2
    <3>3. pc'[w] = "log" /\ hash'[w] = h
      BY <3>1, <3>2 DEF Replace, Goto, TypeOK, locals
    <3> QED
      BY <3>3
  <2>3. CASE path[h] # None /\ hash[w] = h /\ pc[w] = "log"
    <3>1. CASE LogEvent(w)
      <4>1. events' = Line(event[w]) /\ content[path[h]] = event[w]
        BY <1>1, <2>3, <3>1 DEF LogEvent, Solo, WriterSolo
      <4>2. event[w] \in Events /\ (open => events # <<>>)
        BY <2>3 DEF Control, WriterOK, Attempting, TypeOK, Events, Journal, Lines
      <4>3. event[w] \in Range(events') \/ Torn \in Range(events')
        BY <4>1, <4>2, LineFacts
      <4> QED
        BY <1>3, <2>3, <4>1, <4>3
    <3>2. CASE Stop(w)
      BY <2>3, <3>2 DEF Stop
    <3> QED
      BY <1>8, <2>3, <3>1, <3>2 DEF Begin, HasApproval, ReadApproval, TestExists,
                                   OpenTemporary, WriteTemporary, Replace
  <2>4. CASE path[h] # None /\ ~(hash[w] = h /\ pc[w] = "log")
    BY <1>1, <1>3, <1>4, <2>1, <2>4 DEF Told
  <2> QED
    BY <2>2, <2>3, <2>4
<1> QED
  BY <1>6, <1>7, <1>8 DEF Next, Told

LEMMA JournalStep ==
  ASSUME TypeOK, Control, SoloInv, Journal, [Next]_vars
  PROVE  Journal'
<1> USE BoundAssumption
<1>1. CASE UNCHANGED journal
  <2>1. Lines'
    <3>1. \A e \in 1..built' : about'[e] \in Hashes
      <4>1. CASE UNCHANGED <<built, about>>
        BY <4>1 DEF Journal, Lines
      <4>2. ASSUME NEW w \in Writers, HasApproval(w), Build(w)
            PROVE  \A e \in 1..built' : about'[e] \in Hashes
        <5>1. hash[w] \in Hashes
          BY <4>2 DEF HasApproval, Control, WriterOK, TypeOK
        <5> QED
          BY <4>2, <5>1 DEF Build, Journal, Lines, TypeOK, Events
      <4>3. UNCHANGED <<built, about>> \/ \E w \in Writers : HasApproval(w) /\ Build(w)
        BY DEF Next, vars, Begin, HasApproval, ReadApproval, TestExists, OpenTemporary,
               WriteTemporary, Replace, LogEvent, Stop
      <4> QED
        BY <4>1, <4>2, <4>3
    <3>2. built \in Int /\ built' \in Int /\ built <= built'
      BY Grows, TypeStep DEF TypeOK
    <3> QED
      BY <1>1, <3>1, <3>2 DEF Journal, Lines, journal
  <2>2. Once'
    BY <1>1 DEF Journal, Once, journal
  <2>3. Fresh'
    <3>1. CASE UNCHANGED vars
      BY <3>1 DEF vars, journal, locals, Journal, Fresh
    <3> QED
      BY <1>1, <3>1, FreshStep DEF Next
  <2> QED
    BY <1>1, <2>1, <2>2, <2>3, ToldStep DEF Journal
<1>2. CASE ~UNCHANGED journal
  BY <1>2, JournalCases, JournalGrows
<1> QED
  BY <1>1, <1>2

(* events.jsonl tells of stored approvals, each once and as it is, and a   *)
(* stored approval it does not tell of is one whose writer failed just     *)
(* then or whose line joined a torn one.                                   *)
THEOREM JournalTrue == Spec => []JournalMatches
<1>1. Journal => JournalMatches
  <2> SUFFICES ASSUME Journal PROVE JournalMatches
    OBVIOUS
  <2>1. ASSUME NEW i \in DOMAIN events, NEW j \in DOMAIN events,
               events[i] # Torn, Alone(about[events[i]])
        PROVE  /\ path[about[events[i]]] # None
               /\ content[path[about[events[i]]]] = events[i]
               /\ events[i] = events[j] => i = j
    <3>1. about[events[i]] \in Hashes
      BY <2>1 DEF Journal, Lines
    <3> QED
      BY <2>1, <3>1 DEF Journal, Once, Told
  <2>2. ASSUME NEW h \in Hashes, path[h] # None, Alone(h)
        PROVE  \/ content[path[h]] \in Range(events)
               \/ h \in unlogged \/ Torn \in Range(events)
               \/ \E w \in Writers : hash[w] = h /\ pc[w] = "log"
    BY <2>2 DEF Journal, Told
  <2> QED
    BY <2>1, <2>2 DEF JournalMatches
<1> QED
  BY <1>1, JournalInit, JournalStep, SoloInvariant, PTL DEF Spec
===============================================================================
