------------------------ MODULE ZFDownLoaderManagerProofs ------------------------
(****************************************************************************)
(* Proofs about ZFDownLoaderManager for servers that honour the Range       *)
(* header and a file system that does what it is asked (WellBehaved), with  *)
(* any number of URLs, requests and tasks, file names shared or not, and    *)
(* the process killed and started again at any point.                       *)
(*                                                                          *)
(* The properties are about pairs of things that different callbacks        *)
(* change: the dictionary and the tasks, a temporary file and the offset of *)
(* the request that continues it.  MInv ties them together.  A busy task is *)
(* the one task of the loader that the dictionary holds for its URL, and it *)
(* is at one of three points: its response has not been delivered           *)
(* (Waiting: the temporary file still has the size the Range header was     *)
(* made from), it appends to the temporary file (Receiving: the loader, the *)
(* task and the file agree on how many chunks there are), or its response   *)
(* said that all is there (Moved: only its completion is to come).          *)
(****************************************************************************)
EXTENDS ZFDownLoaderManager, ZFDownLoaderProofs

Busy(t) == tasks[t].phase # "idle"

Untold(d) == told[d].success = 0 /\ told[d].fail = 0

Waiting(t) ==
    LET r == tasks[t]
        l == loaders[r.owner]
    IN  /\ l.state = "Unknown" /\ stream[r.owner] = nil
        /\ l.tmpSize = r.offset /\ r.offset = Kept(r.url)
        /\ ~r.suspended /\ r.at = r.got
        /\ r.phase \in {"sent", "answered", "over"}
        /\ r.phase = "sent" => ~r.answer
        /\ r.phase = "answered" => r.answer
        /\ r.phase = "over" => r.error
        /\ r.answer => /\ r.kind = "range" /\ r.total = Length[r.url]
                       /\ r.offset < Length[r.url] =>
                            r.at = r.offset /\ r.len = Length[r.url]

Receiving(t) ==
    LET r == tasks[t]
        l == loaders[r.owner]
        path == downLoadTmpPath(r.url)
    IN  /\ l.state \in {"Downing", "Pause"}
        /\ stream[r.owner] = path /\ files[path] # NoFile
        /\ l.tmpSize = r.at /\ Len(files[path]) = r.at
        /\ l.totalSize = Length[r.url]
        /\ r.phase \in {"body", "over"} /\ ~r.answer /\ r.kind = "range"
        /\ r.at <= r.got /\ r.got <= r.len /\ r.len = Length[r.url]
        /\ (r.phase = "over" /\ ~r.error) => r.got = r.len
        /\ r.phase = "body" => (r.suspended <=> l.state = "Pause")

Moved(t) ==
    LET r == tasks[t]
    IN  /\ loaders[r.owner].state = "Success" /\ stream[r.owner] = nil
        /\ r.phase = "over" /\ r.error /\ ~r.answer /\ r.at = r.got

\* A busy task is the task of the loader that the dictionary holds for its URL.
Entered(t) ==
    LET r == tasks[t]
    IN  /\ r.owner \in asked
        /\ loaders[r.owner].url = r.url /\ loaders[r.owner].task = t
        /\ downLoaderInfos[r.url] = r.owner
        /\ Untold(r.owner)

TaskOK(t) == Busy(t) => Entered(t) /\ (Waiting(t) \/ Receiving(t) \/ Moved(t))

\* An entry of the dictionary has a busy task.
EntryOK(u) ==
    downLoaderInfos[u] # nil =>
        \E t \in Task : Busy(t) /\ tasks[t].owner = downLoaderInfos[u] /\ tasks[t].url = u

\* A loader that was given a URL has told its client once it is not in the dictionary.
LoaderOK(d) ==
    /\ d \notin asked => loaders[d].url = nil
    /\ loaders[d].url = nil => loaders[d] = FreshLoader /\ Untold(d)
    /\ loaders[d].url # nil /\ d \notin Registered => told[d].success + told[d].fail = 1
    /\ told[d].success > 0 => isFileExists(files, downLoadCachePath(loaders[d].url))

MInv ==
    /\ DLInv
    /\ downLoaderInfos \in [URL -> Loader \cup {nil}] /\ asked \in SUBSET Loader
    /\ CacheWhole
    /\ TmpIsPrefix
    /\ \A t \in Task : TaskOK(t)
    /\ \A u \in URL : EntryOK(u)
    /\ \A d \in Loader : LoaderOK(d)

----------------------------------------------------------------------------
(* Types, for every server and with failing file operations.                *)

\* Killing the process leaves fresh loaders, whatever files the system purged.
LEMMA RestartDLInv ==
    ASSUME DLInv, Restart
    PROVE  DLInv'
<1>1. PICK lost \in SUBSET Path :
        files' = [p \in Path |-> IF p \in lost THEN NoFile ELSE files[p]]
  BY DEF Restart
<1>2. /\ loaders' = [d \in Loader |-> FreshLoader]
      /\ stream' = [d \in Loader |-> nil]
      /\ tasks' = [t \in Task |-> IdleTask]
      /\ told' = [d \in Loader |-> [success |-> 0, fail |-> 0]]
  BY DEF Restart
<1>3. files' \in [Path -> Seq(Chunk) \cup {NoFile}]
  BY <1>1, Types
<1>4. FreshLoader \in LoaderRec /\ FreshLoader.state = "Unknown"
  BY DEF FreshLoader, LoaderRec, DownState
<1>5. /\ IdleTask \in TaskRec /\ IdleTask.phase = "idle"
      /\ ~IdleTask.answer /\ IdleTask.at = IdleTask.got
  BY DEF IdleTask, TaskRec, ResponseKinds
<1>6. [success |-> 0, fail |-> 0] \in [success: 0..ReportCap, fail: 0..ReportCap]
  BY DownLoaderAssumption
<1>7. DLTypeOK'
  BY <1>2, <1>3, <1>4, <1>5, <1>6 DEF DLTypeOK
<1>8. Attached' /\ StreamOnFile' /\ NoLeakedStream' /\ DowningHasTask'
  BY <1>2, <1>4, <1>5, PathFacts
     DEF Attached, StreamOnFile, NoLeakedStream, DowningHasTask
<1> QED
  BY <1>7, <1>8 DEF DLInv

\* What the loaders promise on their own they promise under the manager.
LEMMA ManagerDLInv ==
    ASSUME DLInv, [Next]_vars
    PROVE  DLInv'
<1>1. ASSUME NEW d \in Loader, NEW u \in URL, DownLoad(d, u)
      PROVE  DLInv'
  <2>1. resume(At(u)) \/ downLoadWithURL(d, u)
    BY <1>1 DEF DownLoad
  <2>2. CASE resume(At(u))
    BY <2>2, SetSuspendedInv DEF resume
  <2>3. CASE downLoadWithURL(d, u)
    BY <2>3, CachedInv, DowningInv, PausedInv, StartInv DEF downLoadWithURL
  <2> QED
    BY <2>1, <2>2, <2>3
<1>2. ASSUME NEW u \in URL, pauseWithURL(u) \/ resumeWithURL(u) \/ cancelWithURL(u)
      PROVE  DLInv'
  BY <1>2, SetSuspendedInv, CancelInv
     DEF pauseWithURL, resumeWithURL, cancelWithURL, pause, resume
<1>3. CASE pauseAll \/ resumeAll \/ cancelAll
  BY <1>3, SetSuspendedInv, CancelInv DEF pauseAll, resumeAll, cancelAll, pause, resume
<1>4. ASSUME NEW t \in Task, Deliver(t) \/ Transfer(t)
      PROVE  DLInv'
  BY <1>4, MainQueueInv, NetworkInv
     DEF Deliver, Transfer, Response, Data, Complete, MainQueue
<1>5. CASE Restart
  BY <1>5, RestartDLInv
<1>6. CASE UNCHANGED vars
  BY <1>6 DEF vars, DLInv, DLTypeOK, Attached, StreamOnFile, NoLeakedStream,
     DowningHasTask, Outstanding
<1> QED
  BY <1>1, <1>2, <1>3, <1>4, <1>5, <1>6 DEF Next

\* The dictionary and the requests keep their types.
LEMMA DictionaryTypes ==
    ASSUME TypeOK, DLInv, [Next]_vars
    PROVE  downLoaderInfos' \in [URL -> Loader \cup {nil}] /\ asked' \in SUBSET Loader
<1>1. downLoaderInfos \in [URL -> Loader \cup {nil}] /\ asked \in SUBSET Loader
  BY DEF TypeOK
<1>2. ASSUME NEW d \in Loader, NEW u \in URL, DownLoad(d, u)
      PROVE  downLoaderInfos' \in [URL -> Loader \cup {nil}] /\ asked' \in SUBSET Loader
  BY <1>1, <1>2 DEF DownLoad
<1>3. ASSUME NEW t \in Task, Deliver(t)
      PROVE  downLoaderInfos' \in [URL -> Loader \cup {nil}] /\ asked' \in SUBSET Loader
  BY <1>1, <1>3 DEF Deliver, Response, Data, Complete, Unregister
<1>4. CASE Restart
  BY <1>4 DEF Restart
<1>5. CASE UNCHANGED <<downLoaderInfos, asked>>
  BY <1>1, <1>5
<1> QED
  BY <1>2, <1>3, <1>4, <1>5
     DEF Next, pauseWithURL, resumeWithURL, cancelWithURL, pauseAll, resumeAll,
         cancelAll, Transfer, vars

\* The manager and its loaders keep their types, whatever the servers answer and
\* whichever file operations fail.
THEOREM ManagerTypes == Spec => []TypeOK
<1>1. Init => TypeOK /\ DLInv
  <2> SUFFICES ASSUME Init
               PROVE  TypeOK /\ DLInv
    OBVIOUS
  <2>1. DLInv
    BY InitInv DEF Init
  <2> QED
    BY <2>1 DEF Init, TypeOK, DLInv
<1>2. (TypeOK /\ DLInv) /\ [Next]_vars => (TypeOK /\ DLInv)'
  <2> SUFFICES ASSUME TypeOK, DLInv, [Next]_vars
               PROVE  TypeOK' /\ DLInv'
    OBVIOUS
  <2>1. DLInv'
    BY ManagerDLInv
  <2> QED
    BY <2>1, DictionaryTypes DEF TypeOK, DLInv
<1> QED
  BY <1>1, <1>2, PTL DEF Spec

----------------------------------------------------------------------------
(* Tasks.                                                                   *)

\* A busy task, its loader and its URL.
LEMMA BusyFacts ==
    ASSUME MInv, NEW t \in Task, Busy(t)
    PROVE  /\ tasks[t] \in TaskRec /\ tasks[t].owner \in Loader /\ tasks[t].url \in URL
           /\ loaders[tasks[t].owner] \in LoaderRec
           /\ Entered(t)
           /\ Waiting(t) \/ Receiving(t) \/ Moved(t)
           /\ Length[tasks[t].url] \in Nat \ {0}
<1>1. /\ tasks[t] \in TaskRec /\ tasks[t].owner \in Loader /\ tasks[t].url \in URL
      /\ loaders[tasks[t].owner] \in LoaderRec
  BY OwnerFacts DEF MInv, Busy
<1>2. Length[tasks[t].url] \in Nat \ {0}
  BY <1>1, DownLoaderAssumption
<1> QED
  BY <1>1, <1>2 DEF MInv, TaskOK

\* Two busy tasks are of different loaders and different URLs.
LEMMA Apart ==
    ASSUME MInv, NEW s \in Task, NEW t \in Task, s # t, Busy(s), Busy(t)
    PROVE  tasks[s].owner # tasks[t].owner /\ tasks[s].url # tasks[t].url
BY BusyFacts DEF Entered

\* Temporary files of different URLs, and files of the two directories, differ.
LEMMA TmpPaths ==
    ASSUME NEW u \in URL
    PROVE  /\ downLoadTmpPath(u) \in Path
           /\ \A v \in URL : /\ downLoadTmpPath(u) = downLoadTmpPath(v) => u = v
                             /\ downLoadTmpPath(u) # downLoadCachePath(v)
           /\ \A n \in Name : <<"cache", n>> \in Path /\ <<"cache", n>> # downLoadTmpPath(u)
           /\ lastPathComponent[u] \in Name
           /\ downLoadCachePath(u) = <<"cache", lastPathComponent[u]>>
BY DownLoaderAssumption DEF downLoadTmpPath, downLoadCachePath, Path

\* A task is where it was if the step left it, its loader and its file alone.
LEMMA TaskFrame ==
    ASSUME NEW s \in Task, TaskOK(s), tasks'[s] = tasks[s],
           Busy(s) =>
               /\ loaders'[tasks[s].owner] = loaders[tasks[s].owner]
               /\ stream'[tasks[s].owner] = stream[tasks[s].owner]
               /\ told'[tasks[s].owner] = told[tasks[s].owner]
               /\ files'[downLoadTmpPath(tasks[s].url)] =
                      files[downLoadTmpPath(tasks[s].url)]
               /\ downLoaderInfos'[tasks[s].url] = downLoaderInfos[tasks[s].url]
               /\ tasks[s].owner \in asked'
    PROVE  TaskOK(s)'
<1> SUFFICES ASSUME Busy(s)'
             PROVE  Entered(s)' /\ (Waiting(s)' \/ Receiving(s)' \/ Moved(s)')
  BY DEF TaskOK
<1>1. Busy(s)
  BY DEF Busy
<1>2. Entered(s)'
  BY <1>1 DEF TaskOK, Entered, Untold
<1>3. Waiting(s) => Waiting(s)'
  BY <1>1 DEF Waiting, Kept, isFileExists
<1>4. Receiving(s) => Receiving(s)'
  BY <1>1 DEF Receiving
<1>5. Moved(s) => Moved(s)'
  BY <1>1 DEF Moved
<1> QED
  BY <1>1, <1>2, <1>3, <1>4, <1>5 DEF TaskOK

\* A step of a busy task that stays busy touches its loader, its stream and the
\* files of its URL; it keeps MInv if it keeps what MInv says of the task and the
\* files.
LEMMA OwnerStep ==
    ASSUME MInv, DLInv', CacheWhole', TmpIsPrefix',
           NEW t \in Task, Busy(t), TaskOK(t)',
           tasks'[t].phase # "idle",
           tasks'[t].owner = tasks[t].owner, tasks'[t].url = tasks[t].url,
           \A s \in Task \ {t} : tasks'[s] = tasks[s],
           \A l \in Loader \ {tasks[t].owner} :
               loaders'[l] = loaders[l] /\ stream'[l] = stream[l],
           loaders'[tasks[t].owner].url = loaders[tasks[t].owner].url,
           \A v \in URL \ {tasks[t].url} :
               files'[downLoadTmpPath(v)] = files[downLoadTmpPath(v)],
           \A v \in URL : isFileExists(files, downLoadCachePath(v)) =>
                             isFileExists(files', downLoadCachePath(v)),
           UNCHANGED <<told, downLoaderInfos, asked>>
    PROVE  MInv'
<1> DEFINE d == tasks[t].owner
           u == tasks[t].url
<1>1. /\ d \in Loader /\ u \in URL /\ Entered(t)
      /\ downLoaderInfos \in [URL -> Loader \cup {nil}] /\ asked \in SUBSET Loader
  BY BusyFacts DEF MInv
<1>2. ASSUME NEW s \in Task
      PROVE  TaskOK(s)'
  <2>1. CASE s = t
    BY <2>1
  <2>2. CASE s # t
    <3>1. tasks'[s] = tasks[s] /\ TaskOK(s)
      BY <2>2 DEF MInv
    <3>2. Busy(s) => /\ tasks[s].owner \in Loader \ {d} /\ tasks[s].url \in URL \ {u}
                     /\ tasks[s].owner \in asked
      BY <2>2, Apart, BusyFacts DEF Entered
    <3> QED
      BY <1>1, <3>1, <3>2, TaskFrame
  <2> QED
    BY <2>1, <2>2
<1>3. ASSUME NEW v \in URL
      PROVE  EntryOK(v)'
  <2> SUFFICES ASSUME downLoaderInfos[v] # nil
               PROVE  \E s \in Task : /\ tasks'[s].phase # "idle"
                                      /\ tasks'[s].owner = downLoaderInfos[v]
                                      /\ tasks'[s].url = v
    BY DEF EntryOK, Busy
  <2>1. PICK s \in Task : /\ tasks[s].phase # "idle"
                          /\ tasks[s].owner = downLoaderInfos[v] /\ tasks[s].url = v
    BY DEF MInv, EntryOK, Busy
  <2>2. /\ tasks'[s].phase # "idle" /\ tasks'[s].owner = tasks[s].owner
        /\ tasks'[s].url = tasks[s].url
    BY <2>1
  <2> QED
    BY <2>1, <2>2
<1>4. ASSUME NEW l \in Loader
      PROVE  LoaderOK(l)'
  <2>1. LoaderOK(l) /\ Registered' = Registered
    BY DEF MInv, Registered
  <2>2. loaders'[l].url = loaders[l].url
    BY <1>1
  <2>3. loaders[l].url = nil => loaders'[l] = loaders[l]
    <3>1. loaders[d].url # nil
      BY <1>1, DownLoaderAssumption DEF Entered
    <3> QED
      BY <3>1
  <2>4. loaders[l].url \in URL \cup {nil} /\ told'[l] = told[l]
    BY Types DEF MInv, LoaderRec
  <2>5. told[l].success > 0 => isFileExists(files', downLoadCachePath(loaders[l].url))
    <3>1. loaders[l].url = nil => ~(told[l].success > 0)
      BY <2>1 DEF LoaderOK, Untold
    <3> QED
      BY <2>1, <2>4, <3>1 DEF LoaderOK
  <2> QED
    BY <2>1, <2>2, <2>3, <2>4, <2>5 DEF LoaderOK, Untold
<1> QED
  BY <1>1, <1>2, <1>3, <1>4 DEF MInv

----------------------------------------------------------------------------
(* The network.                                                             *)

\* A step of the network changes one busy task only.
LEMMA TransferStep ==
    ASSUME MInv, DLInv', NEW t \in Task, Busy(t),
           NEW r \in TaskRec, r.phase # "idle",
           r.owner = tasks[t].owner, r.url = tasks[t].url,
           tasks' = [tasks EXCEPT ![t] = r],
           UNCHANGED <<loaders, stream, files, told, downLoaderInfos, asked>>,
           Waiting(t)' \/ Receiving(t)' \/ Moved(t)'
    PROVE  MInv'
<1>1. tasks'[t] = r /\ \A s \in Task \ {t} : tasks'[s] = tasks[s]
  BY Types DEF MInv
<1>2. Entered(t)'
  BY <1>1, BusyFacts DEF Entered, Untold
<1>3. CacheWhole' /\ TmpIsPrefix'
  BY DEF MInv, CacheWhole, TmpIsPrefix
<1> QED
  BY <1>1, <1>2, <1>3, OwnerStep DEF TaskOK

\* A server that honours the Range header answers from the offset it was asked for.
LEMMA AnswersMInv ==
    ASSUME WellBehaved, MInv, DLInv', NEW t \in Task, ServerAnswers(t),
           UNCHANGED <<downLoaderInfos, asked>>
    PROVE  MInv'
<1>1. PICK kind \in ServerKinds :
        LET a == Answered(t, kind)
        IN  tasks' = [tasks EXCEPT ![t].phase = "answered", ![t].answer = TRUE,
                                   ![t].kind = kind, ![t].total = a.total,
                                   ![t].at = a.at, ![t].got = a.at,
                                   ![t].len = a.len]
  BY DEF ServerAnswers
<1>2. /\ tasks[t].phase = "sent" /\ Busy(t) /\ kind = "range"
      /\ UNCHANGED <<loaders, stream, files, told>>
  BY DEF ServerAnswers, Busy, WellBehaved
<1>3. /\ tasks[t] \in TaskRec /\ tasks[t].url \in URL
      /\ Length[tasks[t].url] \in Nat /\ tasks[t].offset \in Nat
      /\ Waiting(t)
  BY <1>2, BusyFacts DEF Receiving, Moved, TaskRec
<1> DEFINE a == Answered(t, kind)
           size == Length[tasks[t].url]
<1>4. /\ a.total = size /\ a.at \in Nat /\ a.len \in Nat
      /\ tasks[t].offset < size => a.at = tasks[t].offset /\ a.len = size
  BY <1>2, <1>3 DEF Answered
<1> DEFINE r == [tasks[t] EXCEPT !.phase = "answered", !.answer = TRUE,
                                 !.kind = kind, !.total = a.total,
                                 !.at = a.at, !.got = a.at, !.len = a.len]
<1>5. tasks' = [tasks EXCEPT ![t] = r]
  BY <1>1
<1> HIDE DEF a
<1>6. /\ r \in TaskRec /\ r.phase = "answered"
      /\ r.owner = tasks[t].owner /\ r.url = tasks[t].url /\ r.offset = tasks[t].offset
      /\ r.answer /\ r.kind = "range" /\ r.total = a.total /\ r.at = a.at
      /\ r.got = a.at /\ r.len = a.len /\ r.suspended = tasks[t].suspended
  BY <1>2, <1>3, <1>4 DEF TaskRec, ResponseKinds
<1> HIDE DEF r
<1>7. tasks'[t] = r
  BY <1>5, Types DEF MInv
<1>8. Waiting(t)'
  BY <1>2, <1>3, <1>4, <1>6, <1>7 DEF Waiting, Kept
<1> QED
  BY <1>2, <1>5, <1>6, <1>8, TransferStep

\* A chunk arrives behind the ones that wait in the main queue.
LEMMA SendsMInv ==
    ASSUME MInv, DLInv', NEW t \in Task, ServerSends(t),
           UNCHANGED <<downLoaderInfos, asked>>
    PROVE  MInv'
<1> DEFINE r == [tasks[t] EXCEPT !.got = @ + 1]
<1>1. /\ tasks[t].phase = "body" /\ Busy(t) /\ tasks[t].got < tasks[t].len
      /\ tasks' = [tasks EXCEPT ![t] = r]
      /\ UNCHANGED <<loaders, stream, files, told>>
  BY DEF ServerSends, Busy
<1>2. tasks[t] \in TaskRec /\ Receiving(t)
  BY <1>1, BusyFacts DEF Waiting, Moved
<1>3. /\ r \in TaskRec /\ r.phase = "body" /\ r.got = tasks[t].got + 1
      /\ r.owner = tasks[t].owner /\ r.url = tasks[t].url /\ r.answer = tasks[t].answer
      /\ r.kind = tasks[t].kind /\ r.at = tasks[t].at /\ r.len = tasks[t].len
      /\ r.suspended = tasks[t].suspended
      /\ tasks[t].got \in Nat /\ tasks[t].at \in Nat /\ tasks[t].len \in Nat
  BY <1>1, <1>2 DEF TaskRec
<1> HIDE DEF r
<1>4. tasks'[t] = r
  BY <1>1, Types DEF MInv
<1>5. r.at <= r.got /\ r.got <= r.len
  BY <1>1, <1>2, <1>3 DEF Receiving
<1>6. Receiving(t)'
  BY <1>1, <1>2, <1>3, <1>4, <1>5 DEF Receiving
<1> QED
  BY <1>1, <1>3, <1>6, TransferStep

\* The end of the body, or an error at any point of a task that is not over.
LEMMA OverMInv ==
    ASSUME MInv, DLInv', NEW t \in Task, NEW e \in BOOLEAN, Live(t),
           tasks' = [tasks EXCEPT ![t].phase = "over", ![t].error = e],
           ~e => tasks[t].phase = "body" /\ tasks[t].got = tasks[t].len,
           UNCHANGED <<loaders, stream, files, told, downLoaderInfos, asked>>
    PROVE  MInv'
<1> DEFINE r == [tasks[t] EXCEPT !.phase = "over", !.error = e]
<1>1. Busy(t) /\ tasks' = [tasks EXCEPT ![t] = r]
  BY DEF Busy, Live
<1>2. tasks[t] \in TaskRec /\ (Waiting(t) \/ Receiving(t))
  BY <1>1, BusyFacts DEF Moved, Live
<1>3. /\ r \in TaskRec /\ r.phase = "over" /\ r.error = e
      /\ r.owner = tasks[t].owner /\ r.url = tasks[t].url /\ r.answer = tasks[t].answer
      /\ r.kind = tasks[t].kind /\ r.at = tasks[t].at /\ r.len = tasks[t].len
      /\ r.got = tasks[t].got /\ r.total = tasks[t].total
      /\ r.offset = tasks[t].offset /\ r.suspended = tasks[t].suspended
  BY <1>2 DEF TaskRec
<1> HIDE DEF r
<1>4. tasks'[t] = r
  BY <1>1, Types DEF MInv
<1>5. CASE Waiting(t)
  <2>1. e
    BY <1>5 DEF Waiting
  <2>2. Waiting(t)'
    BY <1>3, <1>4, <1>5, <2>1 DEF Waiting, Kept
  <2> QED
    BY <1>1, <1>3, <2>2, TransferStep
<1>6. CASE Receiving(t)
  <2>1. Receiving(t)'
    BY <1>3, <1>4, <1>6 DEF Receiving
  <2> QED
    BY <1>1, <1>3, <2>1, TransferStep
<1> QED
  BY <1>2, <1>5, <1>6

\* Every step of the URL loading system keeps MInv.
LEMMA TransferMInv ==
    ASSUME WellBehaved, MInv, DLInv', NEW t \in Task, Transfer(t)
    PROVE  MInv'
<1>1. Network(t) /\ UNCHANGED <<downLoaderInfos, asked>>
  BY DEF Transfer
<1>2. CASE ServerAnswers(t)
  BY <1>1, <1>2, AnswersMInv
<1>3. CASE ServerSends(t)
  BY <1>1, <1>3, SendsMInv
<1>4. CASE ServerFinishes(t)
  BY <1>1, <1>4, OverMInv DEF ServerFinishes, Live
<1>5. CASE NetworkFails(t)
  BY <1>1, <1>5, OverMInv DEF NetworkFails
<1> QED
  BY <1>1, <1>2, <1>3, <1>4, <1>5 DEF Network

----------------------------------------------------------------------------
(* pause, resume and cancel, of one URL or of all.                          *)

\* A call that begins and ends no task and changes no file keeps MInv if it keeps
\* what MInv says of the tasks.
LEMMA ControlStep ==
    ASSUME MInv, DLInv', \A t \in Task : TaskOK(t)',
           \A t \in Task : /\ tasks'[t].phase = "idle" <=> tasks[t].phase = "idle"
                           /\ tasks'[t].owner = tasks[t].owner
                           /\ tasks'[t].url = tasks[t].url,
           \A l \in Loader : /\ loaders'[l].url = loaders[l].url
                             /\ loaders[l].url = nil => loaders'[l] = loaders[l],
           UNCHANGED <<files, told, downLoaderInfos>>,
           asked \subseteq asked', asked' \subseteq Loader
    PROVE  MInv'
<1>1. CacheWhole' /\ TmpIsPrefix'
  BY DEF MInv, CacheWhole, TmpIsPrefix
<1>2. \A u \in URL : EntryOK(u)'
  BY DEF MInv, EntryOK, Busy
<1>3. ASSUME NEW l \in Loader
      PROVE  LoaderOK(l)'
  <2>1. LoaderOK(l) /\ Registered' = Registered
    BY DEF MInv, Registered
  <2> QED
    BY <2>1 DEF LoaderOK, Untold
<1> QED
  BY <1>1, <1>2, <1>3 DEF MInv

\* Cancelling ends a live task with an error and changes nothing else of it.
LEMMA CancelledFields ==
    ASSUME NEW r \in TaskRec
    PROVE  LET c == Cancelled(r)
           IN  /\ c = r \/ (c.phase = "over" /\ c.error)
               /\ c.phase \in {r.phase, "over"}
               /\ c.offset = r.offset /\ c.suspended = r.suspended
               /\ c.kind = r.kind /\ c.total = r.total /\ c.len = r.len
BY DEF Cancelled, TaskRec

\* cancelWithURL: and cancelAll keep MInv.
LEMMA CancelMInv ==
    ASSUME MInv, DLInv', NEW S, cancel(S), UNCHANGED <<downLoaderInfos, asked>>
    PROVE  MInv'
<1>1. tasks' = CancelSession(S) /\ UNCHANGED <<loaders, stream, files, told>>
  BY DEF cancel
<1>2. tasks \in [Task -> TaskRec]
  BY Types DEF MInv
<1>3. \A t \in Task : /\ tasks'[t].phase = "idle" <=> tasks[t].phase = "idle"
                      /\ tasks'[t].owner = tasks[t].owner
                      /\ tasks'[t].url = tasks[t].url
                      /\ tasks'[t].answer = tasks[t].answer
                      /\ tasks'[t].at = tasks[t].at
                      /\ tasks'[t].got = tasks[t].got
  BY <1>1, <1>2, CancelFacts
<1>4. ASSUME NEW t \in Task
      PROVE  TaskOK(t)'
  <2>1. tasks'[t] \in {tasks[t], Cancelled(tasks[t])} /\ tasks[t] \in TaskRec
    BY <1>1, <1>2 DEF CancelSession
  <2>2. CASE tasks'[t] = tasks[t]
    BY <1>1, <2>2, TaskFrame, BusyFacts DEF MInv, Entered
  <2>3. CASE tasks'[t] # tasks[t]
    <3> SUFFICES ASSUME Busy(t)'
                 PROVE  Entered(t)' /\ (Waiting(t)' \/ Receiving(t)' \/ Moved(t)')
      BY DEF TaskOK
    <3>1. Busy(t)
      BY <1>3 DEF Busy
    <3>2. Entered(t) /\ (Waiting(t) \/ Receiving(t) \/ Moved(t))
      BY <3>1, BusyFacts
    <3>3. /\ tasks'[t].phase = "over" /\ tasks'[t].error
          /\ tasks'[t].offset = tasks[t].offset /\ tasks'[t].suspended = tasks[t].suspended
          /\ tasks'[t].kind = tasks[t].kind /\ tasks'[t].total = tasks[t].total
          /\ tasks'[t].len = tasks[t].len
      BY <2>1, <2>3, CancelledFields
    <3>4. Entered(t)'
      BY <1>1, <1>3, <3>2 DEF Entered, Untold
    <3>5. Waiting(t) => Waiting(t)'
      BY <1>1, <1>3, <3>3 DEF Waiting, Kept
    <3>6. Receiving(t) => Receiving(t)'
      BY <1>1, <1>3, <3>3 DEF Receiving
    <3>7. Moved(t) => Moved(t)'
      BY <1>1, <1>3, <3>3 DEF Moved
    <3> QED
      BY <3>2, <3>4, <3>5, <3>6, <3>7
  <2> QED
    BY <2>2, <2>3
<1> QED
  BY <1>1, <1>3, <1>4, ControlStep DEF MInv

\* Suspending a task changes nothing else of it.
LEMMA SuspendFields ==
    ASSUME NEW q \in TaskRec, NEW b \in BOOLEAN
    PROVE  LET r == [q EXCEPT !.suspended = b]
           IN  /\ r.suspended = b /\ r.offset = q.offset /\ r.error = q.error
               /\ r.kind = q.kind /\ r.total = q.total /\ r.len = q.len
BY DEF TaskRec

\* The task of a loader that shows Downing or Pause is busy and is its own.
LEMMA ShownTask ==
    ASSUME MInv, NEW d \in Loader, loaders[d].state \in {"Downing", "Pause"}
    PROVE  \E t \in Task : /\ Busy(t) /\ tasks[t].owner = d /\ loaders[d].task = t
                           /\ Receiving(t)
<1>1. PICK t \in Task : Busy(t) /\ tasks[t].owner = d
  BY DEF MInv, DLInv, DowningHasTask, Outstanding, Busy
<1>2. loaders[d].task = t
  BY <1>1, BusyFacts DEF Entered
<1>3. Receiving(t)
  BY <1>1, BusyFacts DEF Waiting, Moved
<1> QED
  BY <1>1, <1>2, <1>3

\* pause and resume, of one URL or of all, keep MInv: the state of a loader and the
\* suspension of its task change together.
LEMMA SuspendMInv ==
    ASSUME MInv, DLInv', NEW S \in SUBSET Loader,
           pause(S) \/ resume(S), UNCHANGED downLoaderInfos,
           asked \subseteq asked', asked' \subseteq Loader
    PROVE  MInv'
<1>1. PICK from \in {"Downing", "Pause"}, to \in {"Downing", "Pause"}, b \in BOOLEAN :
        SetSuspended(S, from, to, b) /\ (b <=> to = "Pause")
  BY DEF pause, resume
<1> DEFINE act == {l \in S : loaders[l].state = from}
<1>2. /\ loaders' = [l \in Loader |->
              IF l \in act THEN [loaders[l] EXCEPT !.state = to] ELSE loaders[l]]
      /\ tasks' = [t \in Task |->
              IF \E l \in act : loaders[l].task = t
              THEN [tasks[t] EXCEPT !.suspended = b] ELSE tasks[t]]
      /\ UNCHANGED <<stream, files, told>>
  BY <1>1 DEF SetSuspended
<1>3. \A l \in act : l \in Loader /\ loaders[l].state = from
  OBVIOUS
<1> HIDE DEF act
<1>4. tasks \in [Task -> TaskRec] /\ loaders \in [Loader -> LoaderRec]
  BY Types DEF MInv
<1>5. \A t \in Task : /\ tasks'[t].phase = tasks[t].phase
                      /\ tasks'[t].owner = tasks[t].owner
                      /\ tasks'[t].url = tasks[t].url
                      /\ tasks'[t].answer = tasks[t].answer
                      /\ tasks'[t].at = tasks[t].at
                      /\ tasks'[t].got = tasks[t].got
  BY <1>2, <1>4, SuspendFacts
<1>6. \A l \in Loader : /\ loaders'[l].url = loaders[l].url
                        /\ l \notin act => loaders'[l] = loaders[l]
                        /\ l \in act => /\ loaders'[l].state = to
                                        /\ loaders'[l].task = loaders[l].task
                                        /\ loaders'[l].tmpSize = loaders[l].tmpSize
                                        /\ loaders'[l].totalSize = loaders[l].totalSize
  <2>1. \A q \in LoaderRec : LET r == [q EXCEPT !.state = to]
                             IN  /\ r.url = q.url /\ r.state = to /\ r.task = q.task
                                 /\ r.tmpSize = q.tmpSize /\ r.totalSize = q.totalSize
    BY DEF LoaderRec
  <2> QED
    BY <1>2, <1>4, <2>1
<1>7. \A l \in Loader : loaders[l].url = nil => l \notin act
  <2>1. FreshLoader.state = "Unknown"
    BY DEF FreshLoader
  <2> QED
    BY <1>3, <2>1 DEF MInv, LoaderOK
<1>8. ASSUME NEW t \in Task
      PROVE  TaskOK(t)'
  <2>1. CASE tasks[t].owner \notin act
    <3>1. ~\E l \in act : loaders[l].task = t
      <4> SUFFICES ASSUME NEW l \in act, loaders[l].task = t
                   PROVE  FALSE
        OBVIOUS
      <4>1. PICK s \in Task : Busy(s) /\ tasks[s].owner = l /\ loaders[l].task = s
        BY <1>3, ShownTask
      <4> QED
        BY <2>1, <4>1
    <3>2. tasks'[t] = tasks[t]
      BY <1>2, <3>1
    <3>3. Busy(t) => tasks[t].owner \in Loader /\ tasks[t].owner \in asked
      BY BusyFacts DEF Entered
    <3> QED
      BY <1>2, <1>6, <2>1, <3>2, <3>3, TaskFrame DEF MInv
  <2>2. CASE tasks[t].owner \in act
    <3> SUFFICES ASSUME Busy(t)'
                 PROVE  Entered(t)' /\ Receiving(t)'
      BY DEF TaskOK
    <3>1. Busy(t)
      BY <1>5 DEF Busy
    <3>2. Entered(t) /\ Receiving(t) /\ tasks[t].owner \in Loader
      BY <1>3, <2>2, <3>1, BusyFacts DEF Waiting, Moved
    <3>3. tasks'[t] = [tasks[t] EXCEPT !.suspended = b] /\ tasks[t] \in TaskRec
      BY <1>2, <1>4, <2>2, <3>2 DEF Entered
    <3>4. /\ tasks'[t].suspended = b /\ tasks'[t].error = tasks[t].error
          /\ tasks'[t].kind = tasks[t].kind /\ tasks'[t].len = tasks[t].len
      BY <3>3, SuspendFields
    <3>5. Entered(t)'
      BY <1>2, <1>5, <1>6, <2>2, <3>2 DEF Entered, Untold
    <3>6. Receiving(t)'
      BY <1>1, <1>2, <1>5, <1>6, <2>2, <3>2, <3>4 DEF Receiving
    <3> QED
      BY <3>5, <3>6
  <2> QED
    BY <2>1, <2>2
<1>9. \A t \in Task : tasks'[t].phase = "idle" <=> tasks[t].phase = "idle"
  BY <1>5
<1> QED
  BY <1>2, <1>5, <1>6, <1>7, <1>8, <1>9, ControlStep

----------------------------------------------------------------------------
(* Files.                                                                   *)

\* A stream is open only for the busy task of its loader, on its temporary file.
LEMMA StreamOwner ==
    ASSUME MInv, NEW l \in Loader, stream[l] # nil
    PROVE  \E s \in Task : /\ Busy(s) /\ tasks[s].owner = l /\ Receiving(s)
                           /\ stream[l] = downLoadTmpPath(tasks[s].url)
<1>1. PICK s \in Task : Busy(s) /\ tasks[s].owner = l
  BY DEF MInv, DLInv, NoLeakedStream, Outstanding, Busy
<1>2. Receiving(s)
  BY <1>1, BusyFacts DEF Waiting, Moved
<1> QED
  BY <1>1, <1>2 DEF Receiving

\* What is kept of a URL is at most its resource.
LEMMA KeptFacts ==
    ASSUME MInv, NEW u \in URL
    PROVE  /\ files[downLoadTmpPath(u)] \in Seq(Chunk) \cup {NoFile}
           /\ Kept(u) \in Nat /\ Kept(u) <= Length[u]
           /\ Kept(u) > 0 => /\ files[downLoadTmpPath(u)] # NoFile
                             /\ Len(files[downLoadTmpPath(u)]) = Kept(u)
           /\ files[downLoadTmpPath(u)] # NoFile =>
                  Len(files[downLoadTmpPath(u)]) = Kept(u)
<1>1. files[downLoadTmpPath(u)] \in Seq(Chunk) \cup {NoFile} /\ Length[u] \in Nat
  BY TmpPaths, Types, DownLoaderAssumption DEF MInv
<1>2. CASE files[downLoadTmpPath(u)] = NoFile
  BY <1>1, <1>2 DEF Kept, isFileExists
<1>3. CASE files[downLoadTmpPath(u)] # NoFile
  <2>1. Kept(u) = Len(files[downLoadTmpPath(u)])
    BY <1>3 DEF Kept, isFileExists
  <2>2. Kept(u) <= Length[u]
    BY <1>3, <2>1 DEF MInv, TmpIsPrefix, isFileExists
  <2> QED
    BY <1>1, <1>3, <2>1, <2>2
<1> QED
  BY <1>2, <1>3

\* A temporary file of full length is the resource.
LEMMA WholeFile ==
    ASSUME MInv, NEW u \in URL, files[downLoadTmpPath(u)] # NoFile,
           Len(files[downLoadTmpPath(u)]) = Length[u]
    PROVE  files[downLoadTmpPath(u)] = Content(u)
<1> DEFINE f == files[downLoadTmpPath(u)]
<1>1. f \in Seq(Chunk) /\ \A i \in 1..Len(f) : f[i] = <<u, i>>
  BY KeptFacts DEF MInv, TmpIsPrefix, isFileExists
<1>2. f = [i \in 1..Len(f) |-> f[i]]
  BY <1>1
<1> HIDE DEF f
<1>3. f = [i \in 1..Length[u] |-> <<u, i>>]
  BY <1>1, <1>2 DEF f
<1> QED
  BY <1>3 DEF f, Content

\* A move of a whole temporary file: the cache holds the resource, or held a file of
\* that name before, in which case nothing is moved.
LEMMA MoveOutcome ==
    ASSUME MInv, ~IOErrors, NEW u \in URL, files[downLoadTmpPath(u)] # NoFile,
           Len(files[downLoadTmpPath(u)]) = Length[u],
           NEW fs \in moveFile(files, downLoadTmpPath(u), downLoadCachePath(u))
    PROVE  IF files[downLoadCachePath(u)] # NoFile THEN fs = files
           ELSE /\ fs # files
                /\ fs \in [Path -> Seq(Chunk) \cup {NoFile}]
                /\ fs[downLoadTmpPath(u)] = NoFile
                /\ fs[downLoadCachePath(u)] = Content(u)
                /\ \A p \in Path \ {downLoadTmpPath(u), downLoadCachePath(u)} :
                       fs[p] = files[p]
<1> DEFINE from == downLoadTmpPath(u)
           to == downLoadCachePath(u)
<1>1. from \in Path /\ to \in Path /\ from # to
  BY PathFacts
<1>2. files \in [Path -> Seq(Chunk) \cup {NoFile}]
  BY Types DEF MInv
<1>3. files[from] = Content(u)
  BY WholeFile
<1>4. fs \in IF files[from] # NoFile /\ files[to] = NoFile
             THEN {[files EXCEPT ![to] = files[from], ![from] = NoFile]} ELSE {files}
  BY DEF moveFile, isFileExists
<1> HIDE DEF from, to
<1>5. files[from] # NoFile
  BY DEF from
<1>6. CASE files[to] # NoFile
  BY <1>4, <1>6 DEF to
<1>7. CASE files[to] = NoFile
  <2>1. fs = [files EXCEPT ![to] = files[from], ![from] = NoFile]
    BY <1>4, <1>5, <1>7
  <2>2. fs \in [Path -> Seq(Chunk) \cup {NoFile}]
    BY <1>1, <1>2, <2>1
  <2>3. fs[from] = NoFile /\ fs[to] = files[from]
    BY <1>1, <1>2, <2>1
  <2>4. \A p \in Path \ {from, to} : fs[p] = files[p]
    BY <1>1, <1>2, <2>1
  <2> QED
    BY <1>3, <1>5, <1>7, <2>2, <2>3, <2>4 DEF from, to
<1> QED
  BY <1>6, <1>7

\* Such a move keeps what MInv says of the files.
LEMMA MoveStep ==
    ASSUME MInv, ~IOErrors, NEW u \in URL, files[downLoadTmpPath(u)] # NoFile,
           Len(files[downLoadTmpPath(u)]) = Length[u],
           files' \in moveFile(files, downLoadTmpPath(u), downLoadCachePath(u))
    PROVE  /\ CacheWhole' /\ TmpIsPrefix'
           /\ isFileExists(files', downLoadCachePath(u))
           /\ \A v \in URL \ {u} : files'[downLoadTmpPath(v)] = files[downLoadTmpPath(v)]
           /\ \A v \in URL : isFileExists(files, downLoadCachePath(v)) =>
                                isFileExists(files', downLoadCachePath(v))
<1> DEFINE from == downLoadTmpPath(u)
           to == downLoadCachePath(u)
<1>1. IF files[to] # NoFile THEN files' = files
      ELSE /\ files' # files
           /\ files' \in [Path -> Seq(Chunk) \cup {NoFile}]
           /\ files'[from] = NoFile /\ files'[to] = Content(u)
           /\ \A p \in Path \ {from, to} : files'[p] = files[p]
  BY MoveOutcome
<1>2. CASE files[to] # NoFile
  <2>1. files' = files
    BY <1>1, <1>2
  <2> QED
    BY <1>2, <2>1 DEF MInv, CacheWhole, TmpIsPrefix, isFileExists
<1>3. CASE files[to] = NoFile
  <2>1. /\ files'[from] = NoFile /\ files'[to] = Content(u)
        /\ \A p \in Path \ {from, to} : files'[p] = files[p]
    BY <1>1, <1>3
  <2>2. /\ from \in Path /\ to \in Path
        /\ \A v \in URL : /\ downLoadTmpPath(v) \in Path /\ downLoadTmpPath(v) # to
                          /\ v # u => downLoadTmpPath(v) # from
                          /\ downLoadCachePath(v) \in Path /\ downLoadCachePath(v) # from
        /\ \A n \in Name : <<"cache", n>> \in Path /\ <<"cache", n>> # from
        /\ to = <<"cache", lastPathComponent[u]>> /\ lastPathComponent[u] \in Name
    BY TmpPaths, PathFacts
  <2>3. files'[to] # NoFile
    <3>1. files[from] = Content(u)
      BY WholeFile
    <3> QED
      BY <2>1, <3>1
  <2> HIDE DEF from, to
  <2>4. \A v \in URL \ {u} : files'[downLoadTmpPath(v)] = files[downLoadTmpPath(v)]
    BY <2>1, <2>2
  <2>5. TmpIsPrefix'
    <3> SUFFICES ASSUME NEW v \in URL, files'[downLoadTmpPath(v)] # NoFile
                 PROVE  LET f == files'[downLoadTmpPath(v)]
                        IN  Len(f) <= Length[v] /\ \A i \in 1..Len(f) : f[i] = <<v, i>>
      BY DEF TmpIsPrefix, isFileExists
    <3>1. v # u
      BY <2>1 DEF from
    <3>2. files'[downLoadTmpPath(v)] = files[downLoadTmpPath(v)]
      BY <2>4, <3>1
    <3> QED
      BY <3>2 DEF MInv, TmpIsPrefix, isFileExists
  <2>6. CacheWhole'
    <3> SUFFICES ASSUME NEW n \in Name, files'[<<"cache", n>>] # NoFile
                 PROVE  \E v \in URL : /\ lastPathComponent[v] = n
                                       /\ files'[<<"cache", n>>] = Content(v)
      BY DEF CacheWhole, Content
    <3>1. CASE n = lastPathComponent[u]
      BY <2>1, <2>2, <3>1
    <3>2. CASE n # lastPathComponent[u]
      <4>1. <<"cache", n>> # to
        BY <2>2, <3>2
      <4>2. files'[<<"cache", n>>] = files[<<"cache", n>>]
        BY <2>1, <2>2, <4>1
      <4> QED
        BY <4>2 DEF MInv, CacheWhole
    <3> QED
      BY <3>1, <3>2
  <2>7. \A v \in URL : files[downLoadCachePath(v)] # NoFile =>
                          files'[downLoadCachePath(v)] # NoFile
    BY <2>1, <2>2, <2>3
  <2> QED
    BY <2>3, <2>4, <2>5, <2>6, <2>7 DEF isFileExists, to
<1> QED
  BY <1>2, <1>3

----------------------------------------------------------------------------
(* The callbacks.                                                           *)

\* A response finds its task Waiting, with no more at hand than there is.
LEMMA ResponseFacts ==
    ASSUME MInv, NEW t \in Task, tasks[t].answer
    PROVE  /\ Busy(t) /\ Waiting(t) /\ Entered(t)
           /\ tasks[t] \in TaskRec /\ tasks[t].owner \in Loader /\ tasks[t].url \in URL
           /\ tasks[t].total = Length[tasks[t].url]
           /\ loaders[tasks[t].owner].tmpSize = Kept(tasks[t].url)
           /\ loaders[tasks[t].owner].tmpSize \in Nat
           /\ Length[tasks[t].url] \in Nat
           /\ loaders[tasks[t].owner].tmpSize <= tasks[t].total
<1>1. Busy(t)
  BY OwnerFacts DEF MInv, Busy
<1>2. /\ tasks[t] \in TaskRec /\ tasks[t].owner \in Loader /\ tasks[t].url \in URL
      /\ Entered(t) /\ Waiting(t) /\ Length[tasks[t].url] \in Nat
  BY <1>1, BusyFacts DEF Receiving, Moved
<1>3. /\ tasks[t].total = Length[tasks[t].url]
      /\ loaders[tasks[t].owner].tmpSize = Kept(tasks[t].url)
  BY <1>2 DEF Waiting
<1> QED
  BY <1>1, <1>2, <1>3, KeptFacts

\* The response says that all is there: the file is moved, and only the completion,
\* with the error of the cancellation, is to come.
LEMMA ResponseCompleteMInv ==
    ASSUME WellBehaved, MInv, DLInv', NEW t \in Task, tasks[t].answer,
           ResponseComplete(t, tasks[t].owner), UNCHANGED <<downLoaderInfos, asked>>
    PROVE  MInv'
<1> DEFINE d == tasks[t].owner
           u == tasks[t].url
           r == [Cancelled(tasks[t]) EXCEPT !.answer = FALSE]
<1>1. /\ Busy(t) /\ Waiting(t) /\ Entered(t) /\ tasks[t] \in TaskRec
      /\ d \in Loader /\ u \in URL /\ tasks[t].total = Length[u]
      /\ loaders[d].tmpSize = Kept(u) /\ loaders[d].url = u /\ Length[u] \in Nat \ {0}
  BY ResponseFacts, DownLoaderAssumption DEF Entered
<1>2. /\ loaders[d].tmpSize = tasks[t].total
      /\ loaders' = [loaders EXCEPT ![d].totalSize = tasks[t].total,
                                    ![d].state = "Success"]
      /\ tasks' = [tasks EXCEPT ![t] = r]
      /\ MoveToCache(u) /\ UNCHANGED told
  BY <1>1 DEF ResponseComplete
<1>3. /\ r \in TaskRec /\ r.phase = "over" /\ r.error /\ ~r.answer
      /\ r.owner = d /\ r.url = u /\ r.at = r.got
  <2>1. tasks[t].phase \in {"answered", "over"} /\ (tasks[t].phase = "over" => tasks[t].error)
        /\ tasks[t].at = tasks[t].got
    BY <1>1 DEF Waiting
  <2> QED
    BY <1>1, <2>1 DEF Cancelled, TaskRec
<1> HIDE DEF r
<1>4. tasks'[t] = r /\ \A s \in Task \ {t} : tasks'[s] = tasks[s]
  BY <1>2, Types DEF MInv
<1>5. /\ loaders'[d].url = u /\ loaders'[d].state = "Success"
      /\ loaders'[d].task = loaders[d].task
      /\ \A l \in Loader \ {d} : loaders'[l] = loaders[l]
  <2>1. loaders \in [Loader -> LoaderRec]
    BY Types DEF MInv
  <2> QED
    BY <1>1, <1>2, <2>1 DEF LoaderRec
<1>6. files[downLoadTmpPath(u)] # NoFile /\ Len(files[downLoadTmpPath(u)]) = Length[u]
  <2>1. Kept(u) = Length[u] /\ Kept(u) > 0
    BY <1>1, <1>2
  <2> QED
    BY <1>1, <2>1, KeptFacts
<1>7. PICK fs \in moveFile(files, downLoadTmpPath(u), downLoadCachePath(u)) :
        /\ files' = fs
        /\ stream' = IF fs # files THEN Follow(downLoadTmpPath(u), downLoadCachePath(u))
                     ELSE stream
  BY <1>2 DEF MoveToCache
<1>8. /\ CacheWhole' /\ TmpIsPrefix'
      /\ \A v \in URL \ {u} : files'[downLoadTmpPath(v)] = files[downLoadTmpPath(v)]
      /\ \A v \in URL : isFileExists(files, downLoadCachePath(v)) =>
                           isFileExists(files', downLoadCachePath(v))
  BY <1>1, <1>6, <1>7, MoveStep DEF WellBehaved
<1>9. ASSUME NEW l \in Loader
      PROVE  stream'[l] = stream[l]
  <2>1. stream[l] # downLoadTmpPath(u)
    <3> SUFFICES ASSUME stream[l] = downLoadTmpPath(u)
                 PROVE  FALSE
      OBVIOUS
    <3>1. stream[l] # nil
      BY <1>1, PathFacts
    <3>2. PICK s \in Task : /\ Busy(s) /\ tasks[s].owner = l /\ Receiving(s)
                            /\ stream[l] = downLoadTmpPath(tasks[s].url)
      BY <3>1, StreamOwner
    <3>3. tasks[s].url = u
      BY <1>1, <3>2, BusyFacts, TmpPaths
    <3>4. s = t
      BY <1>1, <3>2, <3>3, Apart
    <3> QED
      BY <1>1, <3>2, <3>4 DEF Waiting, Receiving
  <2> QED
    BY <1>7, <2>1 DEF Follow
<1>10. TaskOK(t)'
  <2>1. Entered(t)'
    <3>1. tasks'[t].owner = d /\ tasks'[t].url = u
      BY <1>3, <1>4
    <3>2. told' = told /\ downLoaderInfos' = downLoaderInfos /\ asked' = asked
      BY <1>2
    <3> QED
      BY <1>1, <1>5, <3>1, <3>2 DEF Entered, Untold
  <2>2. Moved(t)'
    BY <1>1, <1>3, <1>4, <1>5, <1>9 DEF Moved, Waiting
  <2> QED
    BY <2>1, <2>2 DEF TaskOK
<1>11. loaders'[d].url = loaders[d].url /\ tasks'[t].phase # "idle"
       /\ tasks'[t].owner = d /\ tasks'[t].url = u
  BY <1>1, <1>3, <1>4, <1>5
<1>12. UNCHANGED <<told, downLoaderInfos, asked>>
  BY <1>2
<1> QED
  BY <1>1, <1>4, <1>5, <1>8, <1>9, <1>10, <1>11, <1>12, OwnerStep

\* The response opens the stream on the file that the request continues.
LEMMA ResponseAllowMInv ==
    ASSUME WellBehaved, MInv, DLInv', NEW t \in Task, tasks[t].answer,
           ResponseAllow(t, tasks[t].owner), UNCHANGED <<downLoaderInfos, asked>>
    PROVE  MInv'
<1> DEFINE d == tasks[t].owner
           u == tasks[t].url
           path == downLoadTmpPath(u)
           r == [tasks[t] EXCEPT !.answer = FALSE,
                                 !.phase = IF @ = "answered" THEN "body" ELSE @]
<1>1. /\ Busy(t) /\ Waiting(t) /\ Entered(t) /\ tasks[t] \in TaskRec
      /\ d \in Loader /\ u \in URL /\ tasks[t].total = Length[u]
      /\ loaders[d].tmpSize = Kept(u) /\ loaders[d].url = u /\ Length[u] \in Nat \ {0}
  BY ResponseFacts, DownLoaderAssumption DEF Entered
<1>2. /\ loaders[d].tmpSize < tasks[t].total
      /\ files' = IF files[path] # NoFile THEN files ELSE [files EXCEPT ![path] = <<>>]
      /\ stream' = [stream EXCEPT ![d] = path]
      /\ loaders' = [loaders EXCEPT ![d].totalSize = tasks[t].total,
                                    ![d].state = "Downing"]
      /\ tasks' = [tasks EXCEPT ![t] = r] /\ UNCHANGED told
  BY <1>1 DEF ResponseAllow, OpenedFile, isFileExists
<1>3. /\ tasks[t].kind = "range" /\ tasks[t].at = Kept(u) /\ tasks[t].len = Length[u]
      /\ tasks[t].got = tasks[t].at /\ ~tasks[t].suspended
      /\ tasks[t].phase \in {"answered", "over"} /\ (tasks[t].phase = "over" => tasks[t].error)
  BY <1>1, <1>2 DEF Waiting
<1>4. /\ r \in TaskRec /\ r.phase \in {"body", "over"} /\ ~r.answer
      /\ (r.phase = "over" => r.error)
      /\ r.owner = d /\ r.url = u /\ r.at = tasks[t].at /\ r.got = tasks[t].got
      /\ r.len = tasks[t].len /\ r.kind = tasks[t].kind /\ r.suspended = tasks[t].suspended
  BY <1>1, <1>3 DEF TaskRec
<1>5. path \in Path
  BY <1>1, TmpPaths
<1> HIDE DEF r
<1>6. tasks'[t] = r /\ \A s \in Task \ {t} : tasks'[s] = tasks[s]
  BY <1>2, Types DEF MInv
<1>7. /\ loaders'[d].url = u /\ loaders'[d].state = "Downing"
      /\ loaders'[d].task = loaders[d].task /\ loaders'[d].tmpSize = loaders[d].tmpSize
      /\ loaders'[d].totalSize = tasks[t].total
      /\ \A l \in Loader \ {d} : loaders'[l] = loaders[l]
  <2>1. loaders \in [Loader -> LoaderRec]
    BY Types DEF MInv
  <2> QED
    BY <1>1, <1>2, <2>1 DEF LoaderRec
<1>8. stream'[d] = path /\ \A l \in Loader \ {d} : stream'[l] = stream[l]
  BY <1>1, <1>2, Types DEF MInv
<1>9. /\ files'[path] # NoFile /\ Len(files'[path]) = Kept(u)
      /\ files[path] # NoFile => files'[path] = files[path]
      /\ files[path] = NoFile => files'[path] = <<>>
      /\ \A p \in Path \ {path} : files'[p] = files[p]
  <2>1. <<>> \in Seq(Chunk) /\ Len(<<>>) = 0
    OBVIOUS
  <2>2. <<>> # NoFile
    BY <2>1, DistinctAssumption
  <2>3. files \in [Path -> Seq(Chunk) \cup {NoFile}]
    BY Types DEF MInv
  <2>4. CASE files[path] # NoFile
    BY <1>1, <1>2, <2>4, KeptFacts
  <2>5. CASE files[path] = NoFile
    <3>1. Kept(u) = 0
      BY <2>5 DEF Kept, isFileExists
    <3> QED
      BY <1>2, <1>5, <2>1, <2>2, <2>3, <2>5, <3>1
  <2> QED
    BY <2>4, <2>5
<1>10. TmpIsPrefix'
  <2> SUFFICES ASSUME NEW v \in URL, files'[downLoadTmpPath(v)] # NoFile
               PROVE  LET f == files'[downLoadTmpPath(v)]
                      IN  Len(f) <= Length[v] /\ \A i \in 1..Len(f) : f[i] = <<v, i>>
    BY DEF TmpIsPrefix, isFileExists
  <2>1. CASE files[downLoadTmpPath(v)] # NoFile
    <3>1. files'[downLoadTmpPath(v)] = files[downLoadTmpPath(v)]
      BY <1>9, <2>1, TmpPaths
    <3> QED
      BY <2>1, <3>1 DEF MInv, TmpIsPrefix, isFileExists
  <2>2. CASE files[downLoadTmpPath(v)] = NoFile
    <3>1. downLoadTmpPath(v) = path
      BY <1>9, <2>2, TmpPaths
    <3>2. v = u /\ files'[downLoadTmpPath(v)] = <<>>
      BY <1>1, <1>9, <2>2, <3>1, TmpPaths
    <3>3. Len(<<>>) = 0
      OBVIOUS
    <3> QED
      BY <1>1, <3>2, <3>3
  <2> QED
    BY <2>1, <2>2
<1>11. \A v \in URL : files'[downLoadCachePath(v)] = files[downLoadCachePath(v)]
  BY <1>1, <1>9, TmpPaths, PathFacts
<1>12. CacheWhole'
  <2>1. \A n \in Name : files'[<<"cache", n>>] = files[<<"cache", n>>]
    BY <1>1, <1>9, TmpPaths
  <2> QED
    BY <2>1 DEF MInv, CacheWhole
<1>13. \A v \in URL \ {u} : files'[downLoadTmpPath(v)] = files[downLoadTmpPath(v)]
  BY <1>1, <1>9, TmpPaths
<1>14. TaskOK(t)'
  <2>1. Entered(t)'
    <3>1. tasks'[t].owner = d /\ tasks'[t].url = u
      BY <1>4, <1>6
    <3>2. told' = told /\ downLoaderInfos' = downLoaderInfos /\ asked' = asked
      BY <1>2
    <3> QED
      BY <1>1, <1>7, <3>1, <3>2 DEF Entered, Untold
  <2>2. Kept(u) \in Nat /\ Kept(u) <= Length[u]
    BY <1>1, KeptFacts
  <2>3. /\ tasks'[t].at <= tasks'[t].got /\ tasks'[t].got <= tasks'[t].len
        /\ tasks'[t].len = Length[u]
    BY <1>3, <1>4, <1>6, <2>2
  <2>4. Receiving(t)'
    BY <1>1, <1>3, <1>4, <1>6, <1>7, <1>8, <1>9, <2>3 DEF Receiving
  <2> QED
    BY <2>1, <2>4 DEF TaskOK
<1>15. /\ loaders'[d].url = loaders[d].url /\ tasks'[t].phase # "idle"
       /\ tasks'[t].owner = d /\ tasks'[t].url = u
       /\ \A v \in URL : isFileExists(files, downLoadCachePath(v)) =>
                            isFileExists(files', downLoadCachePath(v))
  BY <1>1, <1>4, <1>6, <1>7, <1>11 DEF isFileExists
<1>16. UNCHANGED <<told, downLoaderInfos, asked>>
  BY <1>2
<1> QED
  BY <1>1, <1>6, <1>7, <1>8, <1>10, <1>12, <1>13, <1>14, <1>15, <1>16, OwnerStep

\* didReceiveResponse keeps MInv; there are never more bytes at hand than there are.
LEMMA ResponseMInv ==
    ASSUME WellBehaved, MInv, DLInv', NEW t \in Task, Response(t)
    PROVE  MInv'
<1>1. tasks[t].answer /\ UNCHANGED <<downLoaderInfos, asked>>
  BY DEF Response, didReceiveResponse
<1>2. ~ResponseTooLong(t, tasks[t].owner)
  BY <1>1, ResponseFacts DEF ResponseTooLong
<1>3. ResponseComplete(t, tasks[t].owner) \/ ResponseAllow(t, tasks[t].owner)
  BY <1>2 DEF Response, didReceiveResponse
<1> QED
  BY <1>1, <1>3, ResponseCompleteMInv, ResponseAllowMInv

\* didReceiveData appends the chunk that the file is to be continued with.
LEMMA DataMInv ==
    ASSUME WellBehaved, MInv, DLInv', NEW t \in Task, Data(t)
    PROVE  MInv'
<1> DEFINE d == tasks[t].owner
           u == tasks[t].url
           path == downLoadTmpPath(u)
           r == [tasks[t] EXCEPT !.at = @ + 1]
<1>1. /\ ~tasks[t].answer /\ tasks[t].at < tasks[t].got
      /\ loaders' = [loaders EXCEPT ![d].tmpSize = @ + 1]
      /\ tasks' = [tasks EXCEPT ![t] = r]
      /\ files' \in Written(d, NextChunk(t))
      /\ stream' = stream /\ told' = told
      /\ downLoaderInfos' = downLoaderInfos /\ asked' = asked
  BY DEF Data, didReceiveData
<1>2. tasks[t].at # tasks[t].got
  BY <1>1, Types DEF MInv, TaskRec
<1>3. Busy(t)
  BY <1>2, OwnerFacts DEF MInv, Busy
<1>4. /\ Receiving(t) /\ Entered(t) /\ tasks[t] \in TaskRec
      /\ d \in Loader /\ u \in URL /\ loaders[d].url = u /\ path \in Path
      /\ loaders[d] \in LoaderRec /\ Length[u] \in Nat
  BY <1>2, <1>3, BusyFacts, TmpPaths DEF Waiting, Moved, Entered
<1>5. /\ stream[d] = path /\ files[path] # NoFile /\ loaders[d].tmpSize = tasks[t].at
      /\ Len(files[path]) = tasks[t].at /\ tasks[t].kind = "range"
      /\ tasks[t].got <= tasks[t].len /\ tasks[t].len = Length[u]
  BY <1>4 DEF Receiving
<1>6. /\ r \in TaskRec /\ r.phase = tasks[t].phase /\ r.owner = d /\ r.url = u
      /\ r.at = tasks[t].at + 1 /\ r.got = tasks[t].got /\ r.len = tasks[t].len
      /\ r.kind = tasks[t].kind /\ r.suspended = tasks[t].suspended
      /\ r.answer = tasks[t].answer /\ r.error = tasks[t].error
      /\ tasks[t].at \in Nat /\ tasks[t].got \in Nat
  BY <1>4 DEF TaskRec
<1> HIDE DEF r
<1>7. tasks'[t] = r /\ \A s \in Task \ {t} : tasks'[s] = tasks[s]
  BY <1>1, Types DEF MInv
<1>8. /\ loaders'[d].url = u /\ loaders'[d].state = loaders[d].state
      /\ loaders'[d].task = loaders[d].task /\ loaders'[d].tmpSize = tasks[t].at + 1
      /\ loaders'[d].totalSize = loaders[d].totalSize
      /\ \A l \in Loader \ {d} : loaders'[l] = loaders[l]
  <2>1. loaders \in [Loader -> LoaderRec]
    BY Types DEF MInv
  <2> QED
    BY <1>1, <1>4, <1>5, <2>1 DEF LoaderRec
<1> DEFINE f == files[path]
           g == Append(f, <<u, tasks[t].at + 1>>)
<1>9. f \in Seq(Chunk) /\ Len(f) = tasks[t].at /\ \A i \in 1..Len(f) : f[i] = <<u, i>>
  BY <1>4, <1>5, KeptFacts DEF MInv, TmpIsPrefix, isFileExists
<1>10. /\ files' = [files EXCEPT ![path] = g]
       /\ files \in [Path -> Seq(Chunk) \cup {NoFile}]
  <2>1. NextChunk(t) = <<u, tasks[t].at + 1>>
    BY <1>5 DEF NextChunk
  <2>2. Written(d, NextChunk(t)) = {[files EXCEPT ![path] = Append(@, NextChunk(t))]}
    BY <1>4, <1>5 DEF Written, WellBehaved
  <2> QED
    BY <1>1, <2>1, <2>2, Types DEF MInv
<1>11. g \in Seq(Chunk) /\ Len(g) = tasks[t].at + 1 /\ \A i \in 1..Len(g) : g[i] = <<u, i>>
  <2>1. <<u, tasks[t].at + 1>> \in Chunk
    BY <1>4, <1>6 DEF Chunk
  <2> HIDE DEF f
  <2>2. g \in Seq(Chunk) /\ Len(g) = Len(f) + 1
    BY <1>9, <2>1
  <2>3. ASSUME NEW i \in 1..Len(g)
        PROVE  g[i] = <<u, i>>
    <3>1. CASE i = Len(f) + 1
      BY <1>9, <2>1, <3>1
    <3>2. CASE i # Len(f) + 1
      <4>1. i \in 1..Len(f)
        BY <1>9, <2>2, <3>2
      <4> QED
        BY <1>9, <2>1, <4>1
    <3> QED
      BY <3>1, <3>2
  <2> QED
    BY <1>9, <2>2, <2>3
<1> HIDE DEF f, g
<1>12. g # NoFile
  BY <1>11, DistinctAssumption
<1>13. files'[path] = g /\ \A p \in Path \ {path} : files'[p] = files[p]
  BY <1>4, <1>10
<1>14. \A v \in URL \ {u} : files'[downLoadTmpPath(v)] = files[downLoadTmpPath(v)]
  BY <1>4, <1>13, TmpPaths
<1>15. tasks[t].at + 1 <= tasks[t].got /\ tasks[t].at + 1 <= Length[u]
  BY <1>1, <1>4, <1>5, <1>6
<1>16. TmpIsPrefix'
  <2> SUFFICES ASSUME NEW v \in URL, files'[downLoadTmpPath(v)] # NoFile
               PROVE  LET h == files'[downLoadTmpPath(v)]
                      IN  Len(h) <= Length[v] /\ \A i \in 1..Len(h) : h[i] = <<v, i>>
    BY DEF TmpIsPrefix, isFileExists
  <2>1. CASE v = u
    BY <1>11, <1>13, <1>15, <2>1
  <2>2. CASE v # u
    <3>1. files'[downLoadTmpPath(v)] = files[downLoadTmpPath(v)]
      BY <1>14, <2>2
    <3> QED
      BY <3>1 DEF MInv, TmpIsPrefix, isFileExists
  <2> QED
    BY <2>1, <2>2
<1>17. \A v \in URL : files'[downLoadCachePath(v)] = files[downLoadCachePath(v)]
  BY <1>4, <1>13, TmpPaths, PathFacts
<1>18. CacheWhole'
  <2>1. \A n \in Name : files'[<<"cache", n>>] = files[<<"cache", n>>]
    BY <1>4, <1>13, TmpPaths
  <2> QED
    BY <2>1 DEF MInv, CacheWhole
<1>19. TaskOK(t)'
  <2>1. Entered(t)'
    BY <1>1, <1>4, <1>6, <1>7, <1>8 DEF Entered, Untold
  <2>2. Receiving(t)'
    <3>1. /\ tasks'[t].at <= tasks'[t].got /\ tasks'[t].got <= tasks'[t].len
          /\ tasks'[t].len = Length[u]
          /\ Len(files'[path]) = tasks'[t].at /\ files'[path] # NoFile
          /\ tasks'[t].url = u /\ tasks'[t].owner = d
      BY <1>5, <1>6, <1>7, <1>11, <1>12, <1>13, <1>15
    <3> QED
      BY <1>1, <1>4, <1>6, <1>7, <1>8, <3>1 DEF Receiving
  <2> QED
    BY <2>1, <2>2 DEF TaskOK
<1>20. /\ loaders'[d].url = loaders[d].url /\ tasks'[t].phase # "idle"
       /\ tasks'[t].owner = d /\ tasks'[t].url = u
       /\ \A v \in URL : isFileExists(files, downLoadCachePath(v)) =>
                            isFileExists(files', downLoadCachePath(v))
  BY <1>3, <1>4, <1>6, <1>7, <1>8, <1>17 DEF isFileExists, Busy
<1> QED
  BY <1>1, <1>3, <1>7, <1>8, <1>14, <1>16, <1>18, <1>19, <1>20, OwnerStep

----------------------------------------------------------------------------
(* Completions.                                                             *)

\* The counts of a loader that has told nothing, after one block.
LEMMA FirstTell ==
    ASSUME MInv, ReportCap > 0, NEW d \in Loader, Untold(d),
           NEW block \in {"success", "fail"}, Tell(d, block)
    PROVE  /\ told'[d].success = IF block = "success" THEN 1 ELSE 0
           /\ told'[d].fail = IF block = "fail" THEN 1 ELSE 0
           /\ \A l \in Loader \ {d} : told'[l] = told[l]
<1>1. told \in [Loader -> [success: 0..ReportCap, fail: 0..ReportCap]] /\ 0 < ReportCap
  BY Types, DownLoaderAssumption DEF MInv
<1>2. told[d][block] = 0
  BY DEF Untold
<1>3. told' = [told EXCEPT ![d] = [told[d] EXCEPT ![block] = 1]]
  BY <1>1, <1>2 DEF Tell
<1> QED
  BY <1>1, <1>3 DEF Untold

\* The entry of a URL is the only one of its loader.
LEMMA OneEntry ==
    ASSUME MInv, NEW t \in Task, Busy(t), NEW v \in URL,
           downLoaderInfos[v] = tasks[t].owner
    PROVE  v = tasks[t].url
<1>1. /\ Entered(t) /\ tasks[t].owner \in Loader /\ tasks[t].owner # nil
  BY BusyFacts, DownLoaderAssumption
<1>2. PICK s \in Task : Busy(s) /\ tasks[s].owner = tasks[t].owner /\ tasks[s].url = v
  BY <1>1 DEF MInv, EntryOK
<1>3. s = t
  BY <1>2, Apart
<1> QED
  BY <1>2, <1>3

\* A completion ends the task, tells the client and clears the entry.
LEMMA CompletionStep ==
    ASSUME MInv, ReportCap > 0, DLInv', CacheWhole', TmpIsPrefix',
           NEW t \in Task, Busy(t),
           NEW state \in {"Success", "Fail"}, Finished(t, tasks[t].owner, state),
           NEW block \in {"success", "fail"}, Tell(tasks[t].owner, block),
           downLoaderInfos' = Unregister(tasks[t].owner), UNCHANGED asked,
           \A l \in Loader \ {tasks[t].owner} : stream'[l] = stream[l],
           \A v \in URL \ {tasks[t].url} :
               files'[downLoadTmpPath(v)] = files[downLoadTmpPath(v)],
           \A v \in URL : isFileExists(files, downLoadCachePath(v)) =>
                             isFileExists(files', downLoadCachePath(v)),
           block = "success" => isFileExists(files', downLoadCachePath(tasks[t].url))
    PROVE  MInv'
<1> DEFINE d == tasks[t].owner
           u == tasks[t].url
<1>1. /\ d \in Loader /\ u \in URL /\ Entered(t) /\ loaders[d].url = u /\ Untold(d)
      /\ d # nil /\ u # nil /\ d \in asked /\ downLoaderInfos[u] = d
      /\ downLoaderInfos \in [URL -> Loader \cup {nil}] /\ asked \in SUBSET Loader
  BY BusyFacts, DownLoaderAssumption DEF MInv, Entered
<1>2. /\ tasks' = [tasks EXCEPT ![t] = IdleTask]
      /\ loaders' = [loaders EXCEPT ![d].state = state,
                                    ![d].task = IF @ = t THEN nil ELSE @]
      /\ downLoaderInfos' = [downLoaderInfos EXCEPT ![u] = nil]
  BY <1>1 DEF Finished, Unregister
<1>3. tasks'[t] = IdleTask /\ \A s \in Task \ {t} : tasks'[s] = tasks[s]
  BY <1>2, Types DEF MInv
<1>4. loaders'[d].url = u /\ \A l \in Loader \ {d} : loaders'[l] = loaders[l]
  <2>1. loaders \in [Loader -> LoaderRec]
    BY Types DEF MInv
  <2> QED
    BY <1>1, <1>2, <2>1 DEF LoaderRec
<1>5. /\ told'[d].success = IF block = "success" THEN 1 ELSE 0
      /\ told'[d].fail = IF block = "fail" THEN 1 ELSE 0
      /\ \A l \in Loader \ {d} : told'[l] = told[l]
  BY <1>1, FirstTell
<1>6. /\ downLoaderInfos' \in [URL -> Loader \cup {nil}]
      /\ downLoaderInfos'[u] = nil
      /\ \A v \in URL \ {u} : downLoaderInfos'[v] = downLoaderInfos[v]
  BY <1>1, <1>2
<1>7. ASSUME NEW s \in Task
      PROVE  TaskOK(s)'
  <2>1. CASE s = t
    BY <1>3, <2>1 DEF TaskOK, Busy, IdleTask
  <2>2. CASE s # t
    <3>1. tasks'[s] = tasks[s] /\ TaskOK(s)
      BY <1>3, <2>2 DEF MInv
    <3>2. Busy(s) => /\ tasks[s].owner \in Loader \ {d} /\ tasks[s].url \in URL \ {u}
                     /\ tasks[s].owner \in asked
      BY <2>2, Apart, BusyFacts DEF Entered
    <3> QED
      BY <1>4, <1>5, <1>6, <3>1, <3>2, TaskFrame
  <2> QED
    BY <2>1, <2>2
<1>8. ASSUME NEW v \in URL
      PROVE  EntryOK(v)'
  <2> SUFFICES ASSUME downLoaderInfos'[v] # nil
               PROVE  \E s \in Task : /\ tasks'[s].phase # "idle"
                                      /\ tasks'[s].owner = downLoaderInfos'[v]
                                      /\ tasks'[s].url = v
    BY DEF EntryOK, Busy
  <2>1. v # u /\ downLoaderInfos'[v] = downLoaderInfos[v]
    BY <1>6
  <2>2. PICK s \in Task : /\ Busy(s)
                          /\ tasks[s].owner = downLoaderInfos[v] /\ tasks[s].url = v
    BY <2>1 DEF MInv, EntryOK
  <2>3. tasks'[s] = tasks[s]
    BY <1>3, <2>1, <2>2
  <2> QED
    BY <2>1, <2>2, <2>3 DEF Busy
<1>9. d \notin Registered' /\ \A l \in Loader \ {d} : l \in Registered' <=> l \in Registered
  <2>1. \A v \in URL : downLoaderInfos[v] = d => v = u
    BY OneEntry
  <2>2. \A v \in URL : downLoaderInfos'[v] # d
    BY <1>1, <1>6, <2>1
  <2>3. \A l \in Loader \ {d} : \A v \in URL :
            downLoaderInfos'[v] = l <=> downLoaderInfos[v] = l
    BY <1>1, <1>6, DownLoaderAssumption
  <2> QED
    BY <2>2, <2>3, DownLoaderAssumption DEF Registered
<1>10. ASSUME NEW l \in Loader
       PROVE  LoaderOK(l)'
  <2>1. CASE l = d
    BY <1>1, <1>4, <1>5, <2>1 DEF LoaderOK
  <2>2. CASE l # d
    <3>1. /\ LoaderOK(l) /\ loaders'[l] = loaders[l] /\ told'[l] = told[l]
          /\ l \in Registered' <=> l \in Registered
      BY <1>4, <1>5, <1>9, <2>2 DEF MInv
    <3>2. loaders[l].url \in URL \cup {nil}
      BY Types DEF MInv, LoaderRec
    <3>3. told[l].success > 0 => loaders[l].url # nil
      BY <3>1 DEF LoaderOK, Untold
    <3> QED
      BY <3>1, <3>2, <3>3 DEF LoaderOK, Untold
  <2> QED
    BY <2>1, <2>2
<1> QED
  BY <1>1, <1>6, <1>7, <1>8, <1>10 DEF MInv

\* Only the stream of its own loader is open on the temporary file of a busy task.
LEMMA OwnStream ==
    ASSUME MInv, NEW t \in Task, Busy(t), NEW l \in Loader, l # tasks[t].owner
    PROVE  stream[l] # downLoadTmpPath(tasks[t].url)
<1> SUFFICES ASSUME stream[l] = downLoadTmpPath(tasks[t].url)
             PROVE  FALSE
  OBVIOUS
<1>1. tasks[t].url \in URL
  BY BusyFacts
<1>2. stream[l] # nil
  BY <1>1, PathFacts
<1>3. PICK s \in Task : /\ Busy(s) /\ tasks[s].owner = l
                        /\ stream[l] = downLoadTmpPath(tasks[s].url)
  BY <1>2, StreamOwner
<1>4. tasks[s].url = tasks[t].url
  BY <1>1, <1>3, BusyFacts, TmpPaths
<1> QED
  BY <1>3, <1>4, Apart

\* didCompleteWithError, with the block that the manager gave its loader, keeps
\* MInv: without an error the whole resource is in the temporary file.
LEMMA CompleteMInv ==
    ASSUME WellBehaved, ReportCap > 0, MInv, DLInv', NEW t \in Task, Complete(t)
    PROVE  MInv'
<1> DEFINE d == tasks[t].owner
           u == tasks[t].url
           from == downLoadTmpPath(u)
           to == downLoadCachePath(u)
<1>1. /\ tasks[t].phase = "over" /\ Busy(t)
      /\ ~tasks[t].answer /\ tasks[t].at = tasks[t].got
      /\ CompleteSuccess(t, d) \/ CompleteFail(t, d)
      /\ downLoaderInfos' = Unregister(d) /\ UNCHANGED asked
  BY DEF Complete, didCompleteWithError, Busy
<1>2. /\ d \in Loader /\ u \in URL /\ loaders[d].url = u
  BY <1>1, BusyFacts DEF Entered
<1>3. stream \in [Loader -> Path \cup {nil, Unlinked}]
  BY Types DEF MInv
<1>4. CASE CompleteSuccess(t, d)
  <2>1. PICK fs \in moveFile(files, from, to) :
          /\ files' = fs
          /\ stream' = CloseStream(IF fs # files THEN Follow(from, to) ELSE stream, d)
    BY <1>2, <1>4 DEF CompleteSuccess
  <2>2. ~tasks[t].error /\ Finished(t, d, "Success") /\ Tell(d, "success")
    BY <1>4 DEF CompleteSuccess
  <2>3. Receiving(t)
    BY <1>1, <2>2, BusyFacts DEF Waiting, Moved
  <2>4. files[from] # NoFile /\ Len(files[from]) = Length[u]
    BY <1>1, <2>2, <2>3 DEF Receiving
  <2>5. /\ CacheWhole' /\ TmpIsPrefix' /\ isFileExists(files', to)
        /\ \A v \in URL \ {u} : files'[downLoadTmpPath(v)] = files[downLoadTmpPath(v)]
        /\ \A v \in URL : isFileExists(files, downLoadCachePath(v)) =>
                             isFileExists(files', downLoadCachePath(v))
    BY <1>2, <2>1, <2>4, MoveStep DEF WellBehaved
  <2>6. \A l \in Loader \ {d} : stream'[l] = stream[l]
    <3>1. \A l \in Loader \ {d} : stream[l] # from
      BY <1>1, OwnStream
    <3> QED
      BY <1>3, <2>1, <3>1 DEF CloseStream, Follow
  <2> QED
    BY <1>1, <2>2, <2>5, <2>6, CompletionStep
<1>5. CASE CompleteFail(t, d)
  <2>1. /\ Finished(t, d, "Fail") /\ Tell(d, "fail") /\ UNCHANGED files
        /\ stream' = [stream EXCEPT ![d] = nil]
    BY <1>5 DEF CompleteFail, CloseStream
  <2>2. CacheWhole' /\ TmpIsPrefix'
    BY <2>1 DEF MInv, CacheWhole, TmpIsPrefix
  <2>3. \A l \in Loader \ {d} : stream'[l] = stream[l]
    BY <1>3, <2>1
  <2> QED
    BY <1>1, <2>1, <2>2, <2>3, CompletionStep
<1> QED
  BY <1>1, <1>4, <1>5

----------------------------------------------------------------------------
(* Requests.                                                                *)

\* The loader that a request allocates has done nothing, and no task is its.
LEMMA FreshFacts ==
    ASSUME MInv, NEW d \in Loader, d \notin asked
    PROVE  /\ loaders[d] = FreshLoader /\ Untold(d) /\ stream[d] = nil
           /\ \A t \in Task : tasks[t].owner = d => ~Busy(t)
           /\ \A u \in URL : downLoaderInfos[u] # d
           /\ CancelSession({d}) = tasks
<1>1. loaders[d] = FreshLoader /\ Untold(d)
  BY DEF MInv, LoaderOK
<1>2. \A t \in Task : tasks[t].owner = d => ~Busy(t)
  BY BusyFacts DEF Entered
<1>3. stream[d] = nil
  BY <1>2, StreamOwner
<1>4. \A u \in URL : downLoaderInfos[u] # d
  BY <1>2, DownLoaderAssumption DEF MInv, EntryOK
<1>5. CancelSession({d}) = tasks
  <2>1. tasks \in [Task -> TaskRec]
    BY Types DEF MInv
  <2>2. \A t \in Task : tasks[t].owner \in {d} => Cancelled(tasks[t]) = tasks[t]
    BY <1>2 DEF Cancelled, Busy
  <2>3. CancelSession({d}) = [t \in Task |-> tasks[t]]
    BY <2>2 DEF CancelSession
  <2> QED
    BY <2>1, <2>3
<1> QED
  BY <1>1, <1>2, <1>3, <1>4, <1>5

\* A request for a file in the cache is answered at once.
LEMMA CachedMInv ==
    ASSUME ReportCap > 0, MInv, DLInv', NEW d \in Loader, NEW u \in URL, d \notin asked,
           downLoaderInfos[u] = nil, DownLoadCached(d, u),
           UNCHANGED downLoaderInfos, asked' = asked \cup {d}
    PROVE  MInv'
<1>1. /\ loaders' = [loaders EXCEPT ![d].url = u, ![d].state = "Success"]
      /\ isFileExists(files, downLoadCachePath(u))
      /\ Tell(d, "success") /\ UNCHANGED <<stream, tasks, files>>
  BY DEF DownLoadCached
<1>2. /\ Untold(d) /\ u # nil
      /\ \A t \in Task : tasks[t].owner = d => ~Busy(t)
      /\ \A v \in URL : downLoaderInfos[v] # d
  BY FreshFacts, DownLoaderAssumption
<1>3. loaders'[d].url = u /\ \A l \in Loader \ {d} : loaders'[l] = loaders[l]
  <2>1. loaders \in [Loader -> LoaderRec]
    BY Types DEF MInv
  <2> QED
    BY <1>1, <2>1 DEF LoaderRec
<1>4. /\ told'[d].success = 1 /\ told'[d].fail = 0
      /\ \A l \in Loader \ {d} : told'[l] = told[l]
  BY <1>1, <1>2, FirstTell
<1>5. CacheWhole' /\ TmpIsPrefix' /\ \A v \in URL : EntryOK(v)'
  BY <1>1 DEF MInv, CacheWhole, TmpIsPrefix, EntryOK, Busy
<1>6. ASSUME NEW s \in Task
      PROVE  TaskOK(s)'
  <2>1. Busy(s) => tasks[s].owner \in Loader \ {d} /\ tasks[s].owner \in asked'
    BY <1>2, BusyFacts DEF Entered
  <2> QED
    BY <1>1, <1>3, <1>4, <2>1, TaskFrame DEF MInv
<1>7. ASSUME NEW l \in Loader
      PROVE  LoaderOK(l)'
  <2>1. Registered' = Registered /\ d \notin Registered
    BY <1>2 DEF Registered
  <2>2. CASE l = d
    BY <1>1, <1>2, <1>3, <1>4, <2>1, <2>2 DEF LoaderOK
  <2>3. CASE l # d
    BY <1>1, <1>3, <1>4, <2>1, <2>3 DEF MInv, LoaderOK, Untold
  <2> QED
    BY <2>2, <2>3
<1> QED
  BY <1>5, <1>6, <1>7 DEF MInv

\* A request that starts a transfer asks for the bytes after those on disk.
LEMMA StartMInv ==
    ASSUME WellBehaved, MInv, DLInv', NEW d \in Loader, NEW u \in URL, d \notin asked,
           downLoaderInfos[u] = nil, DownLoadStart(d, u),
           downLoaderInfos' = [downLoaderInfos EXCEPT ![u] = d], asked' = asked \cup {d}
    PROVE  MInv'
<1>1. PICK t \in Task, size \in fileTotalSize(files, downLoadTmpPath(u)) :
        /\ tasks[t].phase = "idle"
        /\ loaders' = [loaders EXCEPT ![d].url = u, ![d].tmpSize = size, ![d].task = t]
        /\ tasks' = [CancelSession({d}) EXCEPT ![t] = NewTask(d, u, size)]
  BY DEF DownLoadStart
<1>2. UNCHANGED <<stream, files, told>>
  BY DEF DownLoadStart
<1>3. /\ loaders[d] = FreshLoader /\ Untold(d) /\ stream[d] = nil /\ u # nil /\ d # nil
      /\ \A s \in Task : tasks[s].owner = d => ~Busy(s)
      /\ \A v \in URL : downLoaderInfos[v] # d
      /\ CancelSession({d}) = tasks
  BY FreshFacts, DownLoaderAssumption
<1>4. size = Kept(u)
  BY DEF fileTotalSize, Kept, WellBehaved
<1>5. /\ tasks'[t] = NewTask(d, u, size)
      /\ \A s \in Task \ {t} : tasks'[s] = tasks[s]
  BY <1>1, <1>3, Types DEF MInv
<1>6. /\ loaders'[d].url = u /\ loaders'[d].tmpSize = size /\ loaders'[d].task = t
      /\ loaders'[d].state = "Unknown"
      /\ \A l \in Loader \ {d} : loaders'[l] = loaders[l]
  <2>1. loaders \in [Loader -> LoaderRec]
    BY Types DEF MInv
  <2> QED
    BY <1>1, <1>3, <2>1 DEF LoaderRec, FreshLoader
<1>7. downLoaderInfos'[u] = d /\ \A v \in URL \ {u} : downLoaderInfos'[v] = downLoaderInfos[v]
      /\ downLoaderInfos' \in [URL -> Loader \cup {nil}] /\ asked' \in SUBSET Loader
  BY DEF MInv
<1>8. CacheWhole' /\ TmpIsPrefix'
  BY <1>2 DEF MInv, CacheWhole, TmpIsPrefix
<1>9. ASSUME NEW s \in Task
      PROVE  TaskOK(s)'
  <2>1. CASE s = t
    <3>1. Entered(t)'
      BY <1>2, <1>3, <1>5, <1>6, <1>7 DEF Entered, Untold, NewTask, IdleTask
    <3>2. Waiting(t)'
      BY <1>2, <1>3, <1>4, <1>5, <1>6 DEF Waiting, NewTask, IdleTask, Kept
    <3> QED
      BY <2>1, <3>1, <3>2 DEF TaskOK
  <2>2. CASE s # t
    <3>1. Busy(s) => /\ tasks[s].owner \in Loader \ {d} /\ tasks[s].owner \in asked'
                     /\ tasks[s].url \in URL \ {u}
      BY <1>3, BusyFacts, DownLoaderAssumption DEF Entered
    <3> QED
      BY <1>2, <1>5, <1>6, <1>7, <2>2, <3>1, TaskFrame DEF MInv
  <2> QED
    BY <2>1, <2>2
<1>10. ASSUME NEW v \in URL
       PROVE  EntryOK(v)'
  <2> SUFFICES ASSUME downLoaderInfos'[v] # nil
               PROVE  \E s \in Task : /\ tasks'[s].phase # "idle"
                                      /\ tasks'[s].owner = downLoaderInfos'[v]
                                      /\ tasks'[s].url = v
    BY DEF EntryOK, Busy
  <2>1. CASE v = u
    BY <1>5, <1>7, <2>1 DEF NewTask, IdleTask
  <2>2. CASE v # u
    <3>1. downLoaderInfos'[v] = downLoaderInfos[v]
      BY <1>7, <2>2
    <3>2. PICK s \in Task : /\ tasks[s].phase # "idle"
                            /\ tasks[s].owner = downLoaderInfos[v] /\ tasks[s].url = v
      BY <3>1 DEF MInv, EntryOK, Busy
    <3>3. tasks'[s] = tasks[s]
      BY <1>1, <1>5, <3>2
    <3> QED
      BY <3>1, <3>2, <3>3
  <2> QED
    BY <2>1, <2>2
<1>11. ASSUME NEW l \in Loader
       PROVE  LoaderOK(l)'
  <2>1. d \in Registered' /\ \A k \in Loader \ {d} : k \in Registered' <=> k \in Registered
    <3>1. d \in Registered'
      BY <1>3, <1>7 DEF Registered
    <3>2. \A k \in Loader \ {d} : \A v \in URL :
              downLoaderInfos'[v] = k <=> downLoaderInfos[v] = k
      BY <1>7, DownLoaderAssumption
    <3> QED
      BY <3>1, <3>2 DEF Registered
  <2>2. CASE l = d
    BY <1>2, <1>3, <1>6, <2>1, <2>2 DEF LoaderOK, Untold
  <2>3. CASE l # d
    BY <1>2, <1>6, <2>1, <2>3 DEF MInv, LoaderOK, Untold
  <2> QED
    BY <2>2, <2>3
<1> QED
  BY <1>7, <1>8, <1>9, <1>10, <1>11 DEF MInv

\* The manager's downLoadWithURL keeps MInv.
LEMMA DownLoadMInv ==
    ASSUME WellBehaved, ReportCap > 0, MInv, DLInv', NEW d \in Loader, NEW u \in URL,
           DownLoad(d, u)
    PROVE  MInv'
<1>1. /\ d \notin asked /\ asked' = asked \cup {d} /\ asked \in SUBSET Loader
      /\ downLoaderInfos \in [URL -> Loader \cup {nil}]
  BY DEF DownLoad, MInv
<1>2. CASE downLoaderInfos[u] # nil
  <2>1. resume(At(u)) /\ UNCHANGED downLoaderInfos
    BY <1>2 DEF DownLoad
  <2>2. At(u) \in SUBSET Loader
    BY <1>1 DEF At
  <2> QED
    BY <1>1, <2>1, <2>2, SuspendMInv
<1>3. CASE downLoaderInfos[u] = nil
  <2>1. /\ downLoadWithURL(d, u)
        /\ downLoaderInfos' = [downLoaderInfos EXCEPT
              ![u] = IF isFileExists(files, downLoadCachePath(u)) THEN nil ELSE d]
    BY <1>3 DEF DownLoad
  <2>2. loaders[d].task = nil
    <3>1. FreshLoader.task = nil
      BY DEF FreshLoader
    <3> QED
      BY <1>1, <3>1, FreshFacts
  <2>3. DownLoadCached(d, u) \/ DownLoadStart(d, u)
    BY <2>1, <2>2 DEF downLoadWithURL, DownLoadDowning, DownLoadPaused, SameURL
  <2>4. CASE DownLoadCached(d, u)
    <3>1. downLoaderInfos' = downLoaderInfos
      BY <1>1, <1>3, <2>1, <2>4 DEF DownLoadCached
    <3> QED
      BY <1>1, <1>3, <2>4, <3>1, CachedMInv
  <2>5. CASE DownLoadStart(d, u)
    <3>1. downLoaderInfos' = [downLoaderInfos EXCEPT ![u] = d]
      BY <2>1, <2>5 DEF DownLoadStart
    <3> QED
      BY <1>1, <1>3, <2>5, <3>1, StartMInv
  <2> QED
    BY <2>3, <2>4, <2>5
<1> QED
  BY <1>2, <1>3

----------------------------------------------------------------------------
(* The invariant.                                                           *)

\* A new life of the process begins with nothing in memory; what the system purged
\* of the files takes nothing away from those it kept.
LEMMA RestartMInv ==
    ASSUME MInv, DLInv', Restart
    PROVE  MInv'
<1>1. /\ loaders' = [d \in Loader |-> FreshLoader]
      /\ tasks' = [t \in Task |-> IdleTask]
      /\ told' = [d \in Loader |-> [success |-> 0, fail |-> 0]]
      /\ downLoaderInfos' = [u \in URL |-> nil] /\ asked' = {}
      /\ \A p \in Path : files'[p] \in {files[p], NoFile}
  BY DEF Restart
<1>2. CacheWhole'
  <2> SUFFICES ASSUME NEW n \in Name, files'[<<"cache", n>>] # NoFile
               PROVE  \E u \in URL : /\ lastPathComponent[u] = n
                                     /\ files'[<<"cache", n>>] = Content(u)
    BY DEF CacheWhole, Content
  <2>1. files'[<<"cache", n>>] = files[<<"cache", n>>]
    BY <1>1 DEF Path
  <2> QED
    BY <2>1 DEF MInv, CacheWhole
<1>3. TmpIsPrefix'
  BY <1>1, TmpPaths DEF MInv, TmpIsPrefix, isFileExists
<1>4. (\A t \in Task : TaskOK(t)') /\ \A u \in URL : EntryOK(u)'
  BY <1>1 DEF TaskOK, EntryOK, Busy, IdleTask
<1>5. \A d \in Loader : LoaderOK(d)'
  <2>1. FreshLoader.url = nil
    BY DEF FreshLoader
  <2> QED
    BY <1>1, <2>1 DEF LoaderOK, Untold
<1> QED
  BY <1>1, <1>2, <1>3, <1>4, <1>5 DEF MInv

\* MInv holds of a first life of the process.
LEMMA InitMInv == Init => MInv
<1> SUFFICES ASSUME Init
             PROVE  MInv
  OBVIOUS
<1>1. DLInv
  BY InitInv DEF Init
<1>2. /\ loaders = [d \in Loader |-> FreshLoader]
      /\ tasks = [t \in Task |-> IdleTask]
      /\ told = [d \in Loader |-> [success |-> 0, fail |-> 0]]
      /\ downLoaderInfos = [u \in URL |-> nil] /\ asked = {}
      /\ files = [p \in Path |-> NoFile]
  BY DEF Init, DLInit
<1>3. CacheWhole /\ TmpIsPrefix
  BY <1>2, TmpPaths DEF CacheWhole, TmpIsPrefix, isFileExists, Path
<1>4. (\A t \in Task : TaskOK(t)) /\ \A u \in URL : EntryOK(u)
  BY <1>2 DEF TaskOK, EntryOK, Busy, IdleTask
<1>5. \A d \in Loader : LoaderOK(d)
  <2>1. FreshLoader.url = nil
    BY DEF FreshLoader
  <2> QED
    BY <1>2, <2>1 DEF LoaderOK, Untold
<1> QED
  BY <1>1, <1>2, <1>3, <1>4, <1>5 DEF MInv

\* Every step of the manager, its clients, its loaders, the network and the system
\* keeps MInv.
LEMMA NextMInv ==
    ASSUME WellBehaved, ReportCap > 0, MInv, [Next]_vars
    PROVE  MInv'
<1>1. DLInv'
  BY ManagerDLInv DEF MInv
<1>2. \A u \in URL : At(u) \in SUBSET Loader
  BY DEF MInv, At
<1>3. Registered \in SUBSET Loader
  BY DEF MInv, Registered
<1>4. ASSUME NEW d \in Loader, NEW u \in URL, DownLoad(d, u)
      PROVE  MInv'
  BY <1>1, <1>4, DownLoadMInv
<1>5. ASSUME NEW u \in URL, pauseWithURL(u) \/ resumeWithURL(u) \/ cancelWithURL(u)
      PROVE  MInv'
  <2>1. CASE cancelWithURL(u)
    BY <1>1, <2>1, CancelMInv DEF cancelWithURL
  <2>2. CASE pauseWithURL(u) \/ resumeWithURL(u)
    BY <1>1, <1>2, <2>2, SuspendMInv DEF pauseWithURL, resumeWithURL, MInv
  <2> QED
    BY <1>5, <2>1, <2>2
<1>6. CASE pauseAll \/ resumeAll \/ cancelAll
  <2>1. CASE cancelAll
    BY <1>1, <2>1, CancelMInv DEF cancelAll
  <2>2. CASE pauseAll \/ resumeAll
    BY <1>1, <1>3, <2>2, SuspendMInv DEF pauseAll, resumeAll, MInv
  <2> QED
    BY <1>6, <2>1, <2>2
<1>7. ASSUME NEW t \in Task, Deliver(t) \/ Transfer(t)
      PROVE  MInv'
  BY <1>1, <1>7, ResponseMInv, DataMInv, CompleteMInv, TransferMInv DEF Deliver
<1>8. CASE Restart
  BY <1>1, <1>8, RestartMInv
<1>9. CASE UNCHANGED vars
  <2>1. CacheWhole' /\ TmpIsPrefix'
    BY <1>9 DEF MInv, vars, CacheWhole, TmpIsPrefix
  <2>2. ASSUME NEW t \in Task
        PROVE  TaskOK(t)'
    BY <1>9, TaskFrame, BusyFacts DEF MInv, vars, Entered
  <2> QED
    BY <1>1, <1>9, <2>1, <2>2, ControlStep DEF MInv, vars
<1> QED
  BY <1>4, <1>5, <1>6, <1>7, <1>8, <1>9 DEF Next

\* MInv is an invariant of the manager.
THEOREM ManagerInvariance ==
    ASSUME WellBehaved, ReportCap > 0
    PROVE  Spec => []MInv
<1>1. MInv /\ [Next]_vars => MInv'
  BY NextMInv
<1> QED
  BY <1>1, InitMInv, PTL DEF Spec

----------------------------------------------------------------------------
(* What MInv says to the manager's clients.                                 *)

\* A file in the cache directory is the whole of a resource of that name: what a
\* request is answered with at once was downloaded to its end, through every
\* cancellation, failed transfer and restart of the process.
THEOREM ManagerCacheWhole ==
    ASSUME WellBehaved, ReportCap > 0
    PROVE  Spec => []CacheWhole
<1>1. MInv => CacheWhole
  BY DEF MInv
<1> QED
  BY <1>1, ManagerInvariance, PTL

\* A temporary file holds the first chunks of its resource in order, so the Range
\* request from its size continues it.
THEOREM ManagerTmpIsPrefix ==
    ASSUME WellBehaved, ReportCap > 0
    PROVE  Spec => []TmpIsPrefix
<1>1. MInv => TmpIsPrefix
  BY DEF MInv
<1> QED
  BY <1>1, ManagerInvariance, PTL

\* No two tasks of a URL have callbacks to come, however often it is cancelled and
\* asked for again.
THEOREM ManagerOneTransfer ==
    ASSUME WellBehaved, ReportCap > 0
    PROVE  Spec => []OneTransferPerURL
<1>1. MInv => OneTransferPerURL
  BY Apart DEF OneTransferPerURL, Busy
<1> QED
  BY <1>1, ManagerInvariance, PTL

\* A loader is in the dictionary exactly while its task has callbacks to come.
THEOREM ManagerRegistered ==
    ASSUME WellBehaved, ReportCap > 0
    PROVE  Spec => []RegisteredWhileBusy
<1>1. MInv => RegisteredWhileBusy
  <2> SUFFICES ASSUME MInv, NEW u \in URL, NEW d \in Loader
               PROVE  downLoaderInfos[u] = d <=>
                        \E t \in Task : Busy(t) /\ tasks[t].owner = d /\ tasks[t].url = u
    BY DEF RegisteredWhileBusy, Busy
  <2>1. ASSUME downLoaderInfos[u] = d
        PROVE  \E t \in Task : Busy(t) /\ tasks[t].owner = d /\ tasks[t].url = u
    BY <2>1, DownLoaderAssumption DEF MInv, EntryOK
  <2>2. ASSUME NEW t \in Task, Busy(t), tasks[t].owner = d, tasks[t].url = u
        PROVE  downLoaderInfos[u] = d
    BY <2>2, BusyFacts DEF Entered
  <2> QED
    BY <2>1, <2>2
<1> QED
  BY <1>1, ManagerInvariance, PTL

\* The blocks of a request that started a loader run once in all, exactly when the
\* loader leaves the dictionary.
THEOREM ManagerToldWhenDone ==
    ASSUME WellBehaved, ReportCap > 0
    PROVE  Spec => []ToldWhenDone
<1>1. MInv => ToldWhenDone
  <2> SUFFICES ASSUME MInv, NEW d \in Loader, loaders[d].url # nil
               PROVE  told[d].success + told[d].fail = IF d \in Registered THEN 0 ELSE 1
    BY DEF ToldWhenDone
  <2>1. CASE d \in Registered
    <3>1. PICK u \in URL : downLoaderInfos[u] = d
      BY <2>1 DEF Registered
    <3>2. PICK t \in Task : Busy(t) /\ tasks[t].owner = d
      BY <3>1, DownLoaderAssumption DEF MInv, EntryOK
    <3>3. Untold(d)
      BY <3>2, BusyFacts DEF Entered
    <3> QED
      BY <2>1, <3>3 DEF Untold
  <2>2. CASE d \notin Registered
    BY <2>2 DEF MInv, LoaderOK
  <2> QED
    BY <2>1, <2>2
<1> QED
  BY <1>1, ManagerInvariance, PTL

\* A success block is handed a path at which the file is.
THEOREM ManagerSuccessStored ==
    ASSUME WellBehaved, ReportCap > 0
    PROVE  Spec => []SuccessMeansStored
<1>1. MInv => SuccessMeansStored
  BY DEF MInv, LoaderOK, SuccessMeansStored
<1> QED
  BY <1>1, ManagerInvariance, PTL

\* The progress a loader reports is that of the file on disk and never above 1.
THEOREM ManagerProgressHonest ==
    ASSUME WellBehaved, ReportCap > 0
    PROVE  Spec => []ProgressHonest
<1>1. MInv => ProgressHonest
  <2> SUFFICES ASSUME MInv, NEW d \in Loader, loaders[d].state \in {"Downing", "Pause"}
               PROVE  /\ loaders[d].tmpSize = Len(files[downLoadTmpPath(loaders[d].url)])
                      /\ loaders[d].tmpSize <= loaders[d].totalSize
    BY DEF ProgressHonest
  <2>1. PICK t \in Task : Busy(t) /\ tasks[t].owner = d /\ Receiving(t)
    BY ShownTask
  <2>2. loaders[d].url = tasks[t].url /\ tasks[t] \in TaskRec /\ Length[tasks[t].url] \in Nat
    BY <2>1, BusyFacts DEF Entered
  <2>3. /\ loaders[d].tmpSize = tasks[t].at
        /\ Len(files[downLoadTmpPath(tasks[t].url)]) = tasks[t].at
        /\ tasks[t].at <= tasks[t].got /\ tasks[t].got <= tasks[t].len
        /\ tasks[t].len = loaders[d].totalSize
    BY <2>1 DEF Receiving
  <2>4. tasks[t].at \in Nat /\ tasks[t].got \in Nat /\ tasks[t].len \in Nat
    BY <2>2 DEF TaskRec
  <2>5. loaders[d].tmpSize <= loaders[d].totalSize
    BY <2>3, <2>4
  <2> QED
    BY <2>2, <2>3, <2>5
<1> QED
  BY <1>1, ManagerInvariance, PTL

\* A suspended task can always be resumed by its URL.
THEOREM ManagerNoStuckTask ==
    ASSUME WellBehaved, ReportCap > 0
    PROVE  Spec => []NoStuckTask
<1>1. MInv => NoStuckTask
  <2> SUFFICES ASSUME MInv, NEW t \in Task, Live(t), tasks[t].suspended
               PROVE  /\ tasks[t].owner = downLoaderInfos[tasks[t].url]
                      /\ loaders[tasks[t].owner].state = "Pause"
    BY DEF NoStuckTask
  <2>1. Busy(t)
    BY DEF Busy, Live
  <2>2. Entered(t) /\ Receiving(t)
    BY <2>1, BusyFacts DEF Waiting, Moved, Live
  <2> QED
    BY <2>2 DEF Entered, Receiving, Live
<1> QED
  BY <1>1, ManagerInvariance, PTL

----------------------------------------------------------------------------
(* What the steps do to the files.                                          *)

\* A response moves a whole temporary file, makes an empty one, or does nothing.
LEMMA ResponseEffect ==
    ASSUME WellBehaved, MInv, NEW t \in Task, Response(t)
    PROVE  LET u == tasks[t].url
               d == tasks[t].owner
               tmp == downLoadTmpPath(u)
           IN  /\ u \in URL /\ d \in Loader /\ Busy(t)
               /\ loaders[d].state = "Unknown" /\ loaders'[d].state # "Pause"
               /\ \A l \in Loader \ {d} : loaders'[l] = loaders[l]
               /\ UNCHANGED <<told, downLoaderInfos, asked>>
               /\ \/ /\ files[tmp] # NoFile /\ Len(files[tmp]) = Length[u]
                     /\ files' \in moveFile(files, tmp, downLoadCachePath(u))
                  \/ files' = files
                  \/ files[tmp] = NoFile /\ files' = [files EXCEPT ![tmp] = <<>>]
<1> DEFINE u == tasks[t].url
           d == tasks[t].owner
           tmp == downLoadTmpPath(u)
<1>1. tasks[t].answer /\ UNCHANGED <<downLoaderInfos, asked>>
  BY DEF Response, didReceiveResponse
<1>2. /\ u \in URL /\ d \in Loader /\ Busy(t) /\ Waiting(t) /\ loaders[d].url = u
      /\ loaders[d].tmpSize = Kept(u) /\ tasks[t].total = Length[u]
      /\ loaders[d].tmpSize <= tasks[t].total
      /\ loaders[d].tmpSize \in Nat /\ Length[u] \in Nat \ {0}
  BY <1>1, ResponseFacts, DownLoaderAssumption DEF Entered
<1>3. loaders[d].state = "Unknown"
  BY <1>2 DEF Waiting
<1>4. loaders \in [Loader -> LoaderRec]
  BY Types DEF MInv
<1>5. ResponseComplete(t, d) \/ ResponseAllow(t, d)
  BY <1>2 DEF Response, didReceiveResponse, ResponseTooLong
<1>6. CASE ResponseComplete(t, d)
  <2>1. /\ loaders[d].tmpSize = tasks[t].total
        /\ loaders' = [loaders EXCEPT ![d].totalSize = tasks[t].total,
                                      ![d].state = "Success"]
        /\ MoveToCache(u) /\ UNCHANGED told
    BY <1>2, <1>6 DEF ResponseComplete
  <2>2. loaders'[d].state = "Success" /\ \A l \in Loader \ {d} : loaders'[l] = loaders[l]
    BY <1>2, <1>4, <2>1 DEF LoaderRec
  <2>3. files[tmp] # NoFile /\ Len(files[tmp]) = Length[u]
    <3>1. Kept(u) = Length[u] /\ Kept(u) > 0
      BY <1>2, <2>1
    <3> QED
      BY <1>2, <3>1, KeptFacts
  <2>4. files' \in moveFile(files, tmp, downLoadCachePath(u))
    BY <2>1 DEF MoveToCache
  <2> QED
    BY <1>1, <1>2, <1>3, <2>1, <2>2, <2>3, <2>4
<1>7. CASE ResponseAllow(t, d)
  <2>1. /\ loaders' = [loaders EXCEPT ![d].totalSize = tasks[t].total,
                                      ![d].state = "Downing"]
        /\ files' = IF files[tmp] # NoFile THEN files ELSE [files EXCEPT ![tmp] = <<>>]
        /\ UNCHANGED told
    BY <1>2, <1>7 DEF ResponseAllow, OpenedFile, isFileExists
  <2>2. loaders'[d].state = "Downing" /\ \A l \in Loader \ {d} : loaders'[l] = loaders[l]
    BY <1>2, <1>4, <2>1 DEF LoaderRec
  <2> QED
    BY <1>1, <1>2, <1>3, <2>1, <2>2
<1> QED
  BY <1>5, <1>6, <1>7

\* A data callback adds the next chunk of the resource to the temporary file.
LEMMA DataEffect ==
    ASSUME WellBehaved, MInv, NEW t \in Task, Data(t)
    PROVE  LET u == tasks[t].url
               d == tasks[t].owner
               tmp == downLoadTmpPath(u)
           IN  /\ u \in URL /\ d \in Loader /\ Busy(t)
               /\ \A l \in Loader : loaders'[l].state = loaders[l].state
               /\ UNCHANGED <<told, downLoaderInfos, asked>>
               /\ files[tmp] \in Seq(Chunk) /\ Len(files[tmp]) = Kept(u)
               /\ Kept(u) < Length[u]
               /\ files' = [files EXCEPT ![tmp] = Append(files[tmp], <<u, Kept(u) + 1>>)]
               /\ <<u, Kept(u) + 1>> \in Chunk
<1> DEFINE d == tasks[t].owner
           u == tasks[t].url
           tmp == downLoadTmpPath(u)
<1>1. /\ ~tasks[t].answer /\ tasks[t].at < tasks[t].got
      /\ loaders' = [loaders EXCEPT ![d].tmpSize = @ + 1]
      /\ files' \in Written(d, NextChunk(t))
      /\ UNCHANGED <<told, downLoaderInfos, asked>>
  BY DEF Data, didReceiveData
<1>2. tasks[t].at # tasks[t].got
  BY <1>1, Types DEF MInv, TaskRec
<1>3. Busy(t)
  BY <1>2, OwnerFacts DEF MInv, Busy
<1>4. /\ Receiving(t) /\ tasks[t] \in TaskRec
      /\ d \in Loader /\ u \in URL /\ tmp \in Path /\ Length[u] \in Nat
  BY <1>2, <1>3, BusyFacts, TmpPaths DEF Waiting, Moved
<1>5. /\ stream[d] = tmp /\ files[tmp] # NoFile
      /\ Len(files[tmp]) = tasks[t].at /\ tasks[t].kind = "range"
      /\ tasks[t].got <= tasks[t].len /\ tasks[t].len = Length[u]
  BY <1>4 DEF Receiving
<1>6. files[tmp] \in Seq(Chunk) /\ Kept(u) = tasks[t].at
  BY <1>4, <1>5, KeptFacts
<1>7. tasks[t].at \in Nat /\ tasks[t].got \in Nat
  BY <1>4 DEF TaskRec
<1>8. Kept(u) < Length[u] /\ <<u, Kept(u) + 1>> \in Chunk
  BY <1>1, <1>4, <1>5, <1>6, <1>7 DEF Chunk
<1>9. NextChunk(t) = <<u, Kept(u) + 1>>
  BY <1>5, <1>6 DEF NextChunk
<1>10. files' = [files EXCEPT ![tmp] = Append(files[tmp], <<u, Kept(u) + 1>>)]
  <2>1. Written(d, NextChunk(t)) = {[files EXCEPT ![tmp] = Append(@, NextChunk(t))]}
    BY <1>4, <1>5 DEF Written, WellBehaved
  <2> QED
    BY <1>1, <1>9, <2>1
<1>11. \A l \in Loader : loaders'[l].state = loaders[l].state
  BY <1>1, Types DEF MInv, LoaderRec
<1> QED
  BY <1>1, <1>3, <1>4, <1>5, <1>6, <1>8, <1>10, <1>11

\* A completion without an error moves the whole file; one with an error changes
\* no file.  The loader runs the block of that name.
LEMMA CompleteEffect ==
    ASSUME WellBehaved, ReportCap > 0, MInv, NEW t \in Task, Complete(t)
    PROVE  LET u == tasks[t].url
               d == tasks[t].owner
               tmp == downLoadTmpPath(u)
           IN  /\ u \in URL /\ d \in Loader /\ Busy(t) /\ Entered(t)
               /\ \A l \in Loader \ {d} : loaders'[l] = loaders[l] /\ told'[l] = told[l]
               /\ downLoaderInfos' = [downLoaderInfos EXCEPT ![u] = nil]
               /\ UNCHANGED asked
               /\ \/ /\ files[tmp] # NoFile /\ Len(files[tmp]) = Length[u]
                     /\ files' \in moveFile(files, tmp, downLoadCachePath(u))
                     /\ told'[d].success = 1 /\ told'[d].fail = 0
                  \/ /\ files' = files
                     /\ told'[d].success = 0 /\ told'[d].fail = 1
<1> DEFINE d == tasks[t].owner
           u == tasks[t].url
           tmp == downLoadTmpPath(u)
<1>1. /\ tasks[t].phase = "over" /\ Busy(t) /\ tasks[t].at = tasks[t].got
      /\ CompleteSuccess(t, d) \/ CompleteFail(t, d)
      /\ downLoaderInfos' = Unregister(d) /\ UNCHANGED asked
  BY DEF Complete, didCompleteWithError, Busy
<1>2. d \in Loader /\ u \in URL /\ loaders[d].url = u /\ Untold(d) /\ Entered(t)
  BY <1>1, BusyFacts DEF Entered
<1>3. downLoaderInfos' = [downLoaderInfos EXCEPT ![u] = nil]
  BY <1>1, <1>2 DEF Unregister
<1>4. loaders \in [Loader -> LoaderRec]
  BY Types DEF MInv
<1>5. \A l \in Loader \ {d} : loaders'[l] = loaders[l]
  BY <1>1, <1>4 DEF CompleteSuccess, CompleteFail, Finished
<1>6. CASE CompleteSuccess(t, d)
  <2>1. /\ files' \in moveFile(files, tmp, downLoadCachePath(u))
        /\ ~tasks[t].error /\ Tell(d, "success")
    BY <1>2, <1>6 DEF CompleteSuccess
  <2>2. Receiving(t)
    BY <1>1, <2>1, BusyFacts DEF Waiting, Moved
  <2>3. files[tmp] # NoFile /\ Len(files[tmp]) = Length[u]
    BY <1>1, <2>1, <2>2 DEF Receiving
  <2>4. /\ told'[d].success = 1 /\ told'[d].fail = 0
        /\ \A l \in Loader \ {d} : told'[l] = told[l]
    BY <1>2, <2>1, FirstTell
  <2> QED
    BY <1>1, <1>2, <1>3, <1>5, <2>1, <2>3, <2>4
<1>7. CASE CompleteFail(t, d)
  <2>1. /\ told'[d].success = 0 /\ told'[d].fail = 1
        /\ \A l \in Loader \ {d} : told'[l] = told[l]
    BY <1>2, <1>7, FirstTell DEF CompleteFail
  <2> QED
    BY <1>1, <1>2, <1>3, <1>5, <1>7, <2>1 DEF CompleteFail
<1> QED
  BY <1>1, <1>6, <1>7

\* A sequence is the beginning of itself and of any sequence that continues it.
LEMMA Beginnings ==
    ASSUME NEW S, NEW s \in Seq(S), NEW e \in S
    PROVE  /\ s = SubSeq(s, 1, Len(s))
           /\ s = SubSeq(Append(s, e), 1, Len(s)) /\ Len(s) <= Len(Append(s, e))
<1>1. Len(s) \in Nat
  OBVIOUS
<1>2. /\ Append(s, e) \in Seq(S) /\ Len(Append(s, e)) = Len(s) + 1
      /\ \A i \in 1..Len(s) : Append(s, e)[i] = s[i]
  OBVIOUS
<1>3. SubSeq(s, 1, Len(s)) = [i \in 1..Len(s) |-> s[i]]
  BY <1>1
<1>4. SubSeq(Append(s, e), 1, Len(s)) = [i \in 1..Len(s) |-> s[i]]
  BY <1>1, <1>2
<1>5. s = [i \in 1..Len(s) |-> s[i]]
  OBVIOUS
<1> QED
  BY <1>1, <1>2, <1>3, <1>4, <1>5

\* What a step other than a restart may do to the temporary file of a URL.
KeepsBytes(u) ==
    LET old == files[downLoadTmpPath(u)]
        new == files'[downLoadTmpPath(u)]
    IN  old # NoFile =>
          \/ new # NoFile /\ Len(old) <= Len(new) /\ old = SubSeq(new, 1, Len(old))
          \/ files'[downLoadCachePath(u)] = old

\* A file that a step leaves alone keeps its bytes.
LEMMA SameFileKept ==
    ASSUME MInv, NEW u \in URL, files'[downLoadTmpPath(u)] = files[downLoadTmpPath(u)]
    PROVE  KeepsBytes(u)
<1> DEFINE f == files[downLoadTmpPath(u)]
<1>1. f \in Seq(Chunk) \cup {NoFile}
  BY KeptFacts
<1>2. ASSUME f \in Seq(Chunk)
      PROVE  Len(f) <= Len(f) /\ f = SubSeq(f, 1, Len(f))
  <2>1. <<u, 1>> \in Chunk
    BY DEF Chunk
  <2> HIDE DEF f
  <2>2. Len(f) \in Nat
    BY <1>2
  <2> QED
    BY <1>2, <2>1, <2>2, Beginnings
<1> QED
  BY <1>1, <1>2 DEF KeepsBytes

\* So does a whole file that is moved to the cache, and every other file.
LEMMA MoveKept ==
    ASSUME WellBehaved, MInv, NEW v \in URL, files[downLoadTmpPath(v)] # NoFile,
           Len(files[downLoadTmpPath(v)]) = Length[v],
           files' \in moveFile(files, downLoadTmpPath(v), downLoadCachePath(v)),
           NEW u \in URL
    PROVE  KeepsBytes(u)
<1>1. IF files[downLoadCachePath(v)] # NoFile THEN files' = files
      ELSE /\ files'[downLoadCachePath(v)] = Content(v)
           /\ \A p \in Path \ {downLoadTmpPath(v), downLoadCachePath(v)} :
                  files'[p] = files[p]
  BY MoveOutcome DEF WellBehaved
<1>2. CASE u = v /\ files[downLoadCachePath(v)] = NoFile
  <2>1. files[downLoadTmpPath(v)] = Content(v)
    BY WholeFile
  <2> QED
    BY <1>1, <1>2, <2>1 DEF KeepsBytes
<1>3. CASE ~(u = v /\ files[downLoadCachePath(v)] = NoFile)
  <2>1. files'[downLoadTmpPath(u)] = files[downLoadTmpPath(u)]
    BY <1>1, <1>3, TmpPaths
  <2> QED
    BY <2>1, SameFileKept
<1> QED
  BY <1>2, <1>3

\* Every step but a restart keeps the bytes of every temporary file.
LEMMA StepKeepsBytes ==
    ASSUME WellBehaved, ReportCap > 0, MInv, [Next]_vars, ~Restart, NEW u \in URL
    PROVE  KeepsBytes(u)
<1>1. files \in [Path -> Seq(Chunk) \cup {NoFile}]
  BY Types DEF MInv
<1>2. CASE UNCHANGED files
  BY <1>2, SameFileKept
<1>3. ASSUME NEW t \in Task, Response(t)
      PROVE  KeepsBytes(u)
  <2> DEFINE v == tasks[t].url
             tmp == downLoadTmpPath(v)
  <2>1. /\ v \in URL
        /\ \/ /\ files[tmp] # NoFile /\ Len(files[tmp]) = Length[v]
              /\ files' \in moveFile(files, tmp, downLoadCachePath(v))
           \/ files' = files
           \/ files[tmp] = NoFile /\ files' = [files EXCEPT ![tmp] = <<>>]
    BY <1>3, ResponseEffect
  <2>2. CASE /\ files[tmp] # NoFile /\ Len(files[tmp]) = Length[v]
             /\ files' \in moveFile(files, tmp, downLoadCachePath(v))
    BY <2>1, <2>2, MoveKept
  <2>3. CASE files' = files
    BY <2>3, SameFileKept
  <2>4. CASE files[tmp] = NoFile /\ files' = [files EXCEPT ![tmp] = <<>>]
    <3>1. CASE u = v
      BY <2>4, <3>1 DEF KeepsBytes
    <3>2. CASE u # v
      BY <1>1, <2>1, <2>4, <3>2, TmpPaths, SameFileKept
    <3> QED
      BY <3>1, <3>2
  <2> QED
    BY <2>1, <2>2, <2>3, <2>4
<1>4. ASSUME NEW t \in Task, Data(t)
      PROVE  KeepsBytes(u)
  <2> DEFINE v == tasks[t].url
             tmp == downLoadTmpPath(v)
             e == <<v, Kept(v) + 1>>
  <2>1. /\ v \in URL /\ files[tmp] \in Seq(Chunk) /\ e \in Chunk
        /\ files' = [files EXCEPT ![tmp] = Append(files[tmp], e)]
    BY <1>4, DataEffect
  <2>2. CASE u = v
    <3>1. files'[tmp] = Append(files[tmp], e)
      BY <1>1, <2>1, TmpPaths
    <3>2. files[tmp] = SubSeq(files'[tmp], 1, Len(files[tmp]))
          /\ Len(files[tmp]) <= Len(files'[tmp])
      BY <2>1, <3>1, Beginnings
    <3>3. files'[tmp] # NoFile
      <4>1. files'[tmp] \in Seq(Chunk)
        BY <2>1, <3>1
      <4> QED
        BY <4>1, DistinctAssumption
    <3> QED
      BY <2>2, <3>2, <3>3 DEF KeepsBytes
  <2>3. CASE u # v
    BY <1>1, <2>1, <2>3, TmpPaths, SameFileKept
  <2> QED
    BY <2>2, <2>3
<1>5. ASSUME NEW t \in Task, Complete(t)
      PROVE  KeepsBytes(u)
  <2> DEFINE v == tasks[t].url
             tmp == downLoadTmpPath(v)
  <2>1. /\ v \in URL
        /\ \/ /\ files[tmp] # NoFile /\ Len(files[tmp]) = Length[v]
              /\ files' \in moveFile(files, tmp, downLoadCachePath(v))
           \/ files' = files
    BY <1>5, CompleteEffect
  <2> QED
    BY <2>1, MoveKept, SameFileKept
<1>6. ASSUME NEW d \in Loader, NEW v \in URL, DownLoad(d, v)
      PROVE  UNCHANGED files
  BY <1>6 DEF DownLoad, resume, SetSuspended, downLoadWithURL, DownLoadCached,
     DownLoadDowning, DownLoadPaused, DownLoadStart
<1>7. ASSUME NEW v \in URL, pauseWithURL(v) \/ resumeWithURL(v) \/ cancelWithURL(v)
      PROVE  UNCHANGED files
  BY <1>7 DEF pauseWithURL, resumeWithURL, cancelWithURL, pause, resume, SetSuspended,
     cancel
<1>8. pauseAll \/ resumeAll \/ cancelAll => UNCHANGED files
  BY DEF pauseAll, resumeAll, cancelAll, pause, resume, SetSuspended, cancel
<1>9. ASSUME NEW t \in Task, Transfer(t)
      PROVE  UNCHANGED files
  BY <1>9 DEF Transfer, Network, ServerAnswers, ServerSends, ServerFinishes, NetworkFails
<1>10. UNCHANGED vars => UNCHANGED files
  BY DEF vars
<1> QED
  BY <1>2, <1>3, <1>4, <1>5, <1>6, <1>7, <1>8, <1>9, <1>10 DEF Next, Deliver

\* Chunks that are on disk are kept: no step but the purge of a restart takes bytes
\* from a temporary file, except by publishing all of it in the cache directory.
THEOREM ManagerKeepsBytes ==
    ASSUME WellBehaved, ReportCap > 0
    PROVE  Spec => ResumeKeepsBytes
<1>1. ASSUME MInv, [Next]_vars, NEW u \in URL
      PROVE  isFileExists(files, downLoadTmpPath(u)) =>
               \/ Restart
               \/ /\ isFileExists(files', downLoadTmpPath(u))
                  /\ LET old == files[downLoadTmpPath(u)]
                         new == files'[downLoadTmpPath(u)]
                     IN  Len(old) <= Len(new) /\ old = SubSeq(new, 1, Len(old))
               \/ files'[downLoadCachePath(u)] = files[downLoadTmpPath(u)]
  <2>1. ~Restart => KeepsBytes(u)
    BY <1>1, StepKeepsBytes
  <2> QED
    BY <2>1 DEF KeepsBytes, isFileExists
<1>2. MInv /\ [Next]_vars =>
        [\A u \in URL : isFileExists(files, downLoadTmpPath(u)) =>
           \/ Restart
           \/ /\ isFileExists(files', downLoadTmpPath(u))
              /\ LET old == files[downLoadTmpPath(u)]
                     new == files'[downLoadTmpPath(u)]
                 IN  Len(old) <= Len(new) /\ old = SubSeq(new, 1, Len(old))
           \/ files'[downLoadCachePath(u)] = files[downLoadTmpPath(u)]]_vars
  BY <1>1
<1> QED
  BY <1>2, ManagerInvariance, PTL DEF Spec, ResumeKeepsBytes
================================================================================
