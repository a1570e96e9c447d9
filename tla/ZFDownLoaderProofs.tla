--------------------------- MODULE ZFDownLoaderProofs ---------------------------
(****************************************************************************)
(* Proofs about ZFDownLoader for every number of loaders, tasks and URLs,   *)
(* every kind of server and with failing file operations.                   *)
(****************************************************************************)
EXTENDS ZFDownLoader, TLAPS

\* A task with callbacks to come belongs to a loader that was given a URL; an idle
\* one has none.
Attached ==
    \A t \in Task :
        IF tasks[t].phase = "idle"
        THEN ~tasks[t].answer /\ tasks[t].at = tasks[t].got
        ELSE /\ tasks[t].owner \in Loader
             /\ tasks[t].url \in URL
             /\ loaders[tasks[t].owner].url \in URL

\* An open stream that has a name is open on a file that exists.
StreamOnFile ==
    \A d \in Loader : stream[d] \in Path => files[stream[d]] # NoFile

\* The inductive invariant.
DLInv ==
    /\ DLTypeOK
    /\ Attached
    /\ StreamOnFile
    /\ NoLeakedStream
    /\ DowningHasTask

----------------------------------------------------------------------------
(* Files.                                                                   *)

\* The paths of -downLoadWithURL: are paths of the two directories, and differ.
LEMMA PathFacts ==
    /\ \A u \in URL : /\ downLoadTmpPath(u) \in Path
                      /\ downLoadCachePath(u) \in Path
                      /\ downLoadTmpPath(u) # downLoadCachePath(u)
    /\ Unlinked \notin Path
    /\ nil \notin Path /\ nil # Unlinked
<1>1. \A u \in URL : lastPathComponent[u] \in Name
  BY DownLoaderAssumption
<1>2. \A u \in URL : downLoadTmpPath(u) \in Path
  BY DEF downLoadTmpPath, Path
<1>3. \A u \in URL : downLoadCachePath(u) \in Path
  BY <1>1 DEF downLoadCachePath, Path
<1>4. \A u \in URL : downLoadTmpPath(u) # downLoadCachePath(u)
  BY DEF downLoadTmpPath, downLoadCachePath
<1>5. Unlinked \notin Path
  BY DEF Unlinked, Path
<1>6. nil \notin Path /\ nil # Unlinked
  BY DistinctAssumption
<1> QED
  BY <1>2, <1>3, <1>4, <1>5, <1>6

\* moveFile: and removeFileAtPath: keep the type of the file system; a file that is
\* lost is the one that was moved or removed.
LEMMA MoveFacts ==
    ASSUME NEW fs, fs \in [Path -> Seq(Chunk) \cup {NoFile}],
           NEW from \in Path, NEW to \in Path, from # to,
           NEW new \in moveFile(fs, from, to)
    PROVE  /\ new \in [Path -> Seq(Chunk) \cup {NoFile}]
           /\ \A p \in Path \ {from} : fs[p] # NoFile => new[p] # NoFile
           /\ new # fs => new[to] # NoFile
BY DEF moveFile, isFileExists

\* Removing a file changes no other file.
LEMMA RemoveFacts ==
    ASSUME NEW fs, fs \in [Path -> Seq(Chunk) \cup {NoFile}],
           NEW path \in Path,
           NEW new \in removeFileAtPath(fs, path)
    PROVE  /\ new \in [Path -> Seq(Chunk) \cup {NoFile}]
           /\ \A p \in Path \ {path} : fs[p] # NoFile => new[p] # NoFile
BY DEF removeFileAtPath, isFileExists

----------------------------------------------------------------------------

\* DLInv holds of fresh loaders.
LEMMA InitInv == DLInit => DLInv
<1> SUFFICES ASSUME DLInit PROVE DLInv
  OBVIOUS
<1>1. DLTypeOK
  BY DownLoaderAssumption DEF DLInit, DLTypeOK, FreshLoader, LoaderRec, IdleTask,
     TaskRec, DownState, ResponseKinds
<1>2. Attached /\ StreamOnFile /\ NoLeakedStream /\ DowningHasTask
  BY PathFacts DEF DLInit, Attached, StreamOnFile, NoLeakedStream, DowningHasTask,
     FreshLoader, IdleTask
<1> QED
  BY <1>1, <1>2 DEF DLInv

----------------------------------------------------------------------------
(* The public methods.                                                      *)

\* Cancelling tasks takes no completion away.
LEMMA CancelledFacts ==
    ASSUME NEW r \in TaskRec
    PROVE  /\ Cancelled(r) \in TaskRec
           /\ Cancelled(r).phase = "idle" <=> r.phase = "idle"
           /\ Cancelled(r).owner = r.owner
           /\ Cancelled(r).url = r.url
           /\ Cancelled(r).answer = r.answer
           /\ Cancelled(r).at = r.at
           /\ Cancelled(r).got = r.got
BY DEF Cancelled, TaskRec

\* -cancel leaves every task with the completion it had to come.
LEMMA CancelFacts ==
    ASSUME tasks \in [Task -> TaskRec], NEW S
    PROVE  /\ CancelSession(S) \in [Task -> TaskRec]
           /\ \A t \in Task :
                /\ CancelSession(S)[t].phase = "idle" <=> tasks[t].phase = "idle"
                /\ CancelSession(S)[t].owner = tasks[t].owner
                /\ CancelSession(S)[t].url = tasks[t].url
                /\ CancelSession(S)[t].answer = tasks[t].answer
                /\ CancelSession(S)[t].at = tasks[t].at
                /\ CancelSession(S)[t].got = tasks[t].got
<1>1. \A t \in Task : CancelSession(S)[t] \in {Cancelled(tasks[t]), tasks[t]}
  BY DEF CancelSession
<1>2. CancelSession(S) = [t \in Task |-> CancelSession(S)[t]]
  BY DEF CancelSession
<1>3. \A t \in Task : tasks[t] \in TaskRec
  OBVIOUS
<1> QED
  BY <1>1, <1>2, <1>3, CancelledFacts

\* Suspending or resuming a task changes nothing else of it.
LEMMA SuspendFacts ==
    ASSUME NEW q \in TaskRec, NEW b \in BOOLEAN
    PROVE  LET r == [q EXCEPT !.suspended = b]
           IN  /\ r \in TaskRec
               /\ r.phase = q.phase
               /\ r.owner = q.owner
               /\ r.url = q.url
               /\ r.answer = q.answer
               /\ r.at = q.at
               /\ r.got = q.got
BY DEF TaskRec

\* Running a block keeps the counts in their range.
LEMMA TellFacts ==
    ASSUME told \in [Loader -> [success: 0..ReportCap, fail: 0..ReportCap]],
           NEW d \in Loader, Tell(d, "success") \/ Tell(d, "fail")
    PROVE  told' \in [Loader -> [success: 0..ReportCap, fail: 0..ReportCap]]
<1>1. CASE Tell(d, "success")
  BY <1>1, DownLoaderAssumption DEF Tell
<1>2. CASE Tell(d, "fail")
  BY <1>2, DownLoaderAssumption DEF Tell
<1> QED
  BY <1>1, <1>2

\* The parts of DLTypeOK, for steps that need one of them.
LEMMA Types ==
    ASSUME DLInv
    PROVE  /\ loaders \in [Loader -> LoaderRec]
           /\ stream \in [Loader -> Path \cup {nil, Unlinked}]
           /\ tasks \in [Task -> TaskRec]
           /\ files \in [Path -> Seq(Chunk) \cup {NoFile}]
           /\ told \in [Loader -> [success: 0..ReportCap, fail: 0..ReportCap]]
BY DEF DLInv, DLTypeOK

\* A step that takes no task away, closes no loader's books and touches neither
\* streams nor files keeps the invariant if it keeps the types.
LEMMA QuietStep ==
    ASSUME DLInv, DLTypeOK', UNCHANGED <<stream, files>>,
           Attached',
           \A l \in Loader : Outstanding(l) \subseteq Outstanding(l)',
           \A l \in Loader : loaders'[l].state \in {"Downing", "Pause"}
                               => loaders[l].state \in {"Downing", "Pause"}
    PROVE  DLInv'
BY DEF DLInv, StreamOnFile, NoLeakedStream, DowningHasTask

\* Attached is about fields of tasks that few steps change.
LEMMA AttachedStep ==
    ASSUME DLInv,
           \A l \in Loader : loaders[l].url \in URL => loaders'[l].url \in URL,
           \A s \in Task : /\ tasks'[s].phase = "idle" <=> tasks[s].phase = "idle"
                           /\ tasks'[s].owner = tasks[s].owner
                           /\ tasks'[s].url = tasks[s].url
                           /\ tasks'[s].answer = tasks[s].answer
                           /\ tasks'[s].at = tasks[s].at
                           /\ tasks'[s].got = tasks[s].got
    PROVE  Attached'
<1> SUFFICES ASSUME NEW s \in Task
             PROVE  IF tasks'[s].phase = "idle"
                    THEN ~tasks'[s].answer /\ tasks'[s].at = tasks'[s].got
                    ELSE /\ tasks'[s].owner \in Loader
                         /\ tasks'[s].url \in URL
                         /\ loaders'[tasks'[s].owner].url \in URL
  BY DEF Attached
<1>1. IF tasks[s].phase = "idle"
      THEN ~tasks[s].answer /\ tasks[s].at = tasks[s].got
      ELSE /\ tasks[s].owner \in Loader
           /\ tasks[s].url \in URL
           /\ loaders[tasks[s].owner].url \in URL
  BY DEF DLInv, Attached
<1> QED
  BY <1>1

\* A new URL and a new state change nothing else of a loader.
LEMMA URLAndState ==
    ASSUME loaders \in [Loader -> LoaderRec], NEW d \in Loader, NEW u \in URL,
           NEW st \in DownState,
           loaders' = [loaders EXCEPT ![d].url = u, ![d].state = st]
    PROVE  /\ loaders' \in [Loader -> LoaderRec]
           /\ loaders'[d].url = u /\ loaders'[d].state = st
           /\ \A l \in Loader \ {d} : loaders'[l] = loaders[l]
<1>1. loaders[d] \in LoaderRec
  OBVIOUS
<1>2. PICK r : r = [loaders[d] EXCEPT !.url = u, !.state = st]
  OBVIOUS
<1>3. r \in LoaderRec /\ r.url = u /\ r.state = st
  BY <1>1, <1>2 DEF LoaderRec
<1>4. loaders' = [loaders EXCEPT ![d] = r]
  BY <1>2
<1> QED
  BY <1>3, <1>4

\* -downLoadWithURL: of a cached file keeps DLInv.
LEMMA CachedInv ==
    ASSUME DLInv, NEW d \in Loader, NEW u \in URL, DownLoadCached(d, u)
    PROVE  DLInv'
<1>1. /\ loaders' = [loaders EXCEPT ![d].url = u, ![d].state = "Success"]
      /\ Tell(d, "success")
      /\ UNCHANGED <<stream, tasks, files>>
  BY DEF DownLoadCached
<1>2. /\ loaders' \in [Loader -> LoaderRec]
      /\ loaders'[d].url = u /\ loaders'[d].state = "Success"
      /\ \A l \in Loader \ {d} : loaders'[l] = loaders[l]
  BY <1>1, Types, URLAndState DEF DownState
<1>3. DLTypeOK'
  BY <1>1, <1>2, Types, TellFacts DEF DLTypeOK
<1>4. Attached'
  BY <1>1, <1>2 DEF DLInv, Attached
<1> QED
  BY <1>1, <1>2, <1>3, <1>4, QuietStep DEF Outstanding

\* -downLoadWithURL: of the URL being downloaded keeps DLInv.
LEMMA DowningInv ==
    ASSUME DLInv, NEW d \in Loader, NEW u \in URL, DownLoadDowning(d, u)
    PROVE  DLInv'
<1>1. /\ loaders' = [loaders EXCEPT ![d].url = u]
      /\ UNCHANGED <<stream, tasks, files, told>>
  BY DEF DownLoadDowning
<1>2. /\ loaders' \in [Loader -> LoaderRec]
      /\ loaders'[d].url = u /\ loaders'[d].state = loaders[d].state
      /\ \A l \in Loader \ {d} : loaders'[l] = loaders[l]
  BY <1>1, Types DEF LoaderRec
<1>3. DLTypeOK'
  BY <1>1, <1>2, Types DEF DLTypeOK
<1>4. Attached'
  BY <1>1, <1>2 DEF DLInv, Attached
<1> QED
  BY <1>1, <1>2, <1>3, <1>4, QuietStep DEF Outstanding

\* -downLoadWithURL: of the URL that is paused keeps DLInv.
LEMMA PausedInv ==
    ASSUME DLInv, NEW d \in Loader, NEW u \in URL, DownLoadPaused(d, u)
    PROVE  DLInv'
<1>1. PICK t \in Task : t = loaders[d].task
  BY Types DEF DownLoadPaused, SameURL, LoaderRec
<1>2. /\ loaders' = [loaders EXCEPT ![d].url = u, ![d].state = "Downing"]
      /\ tasks' = [tasks EXCEPT ![t].suspended = FALSE]
      /\ loaders[d].state = "Pause"
      /\ UNCHANGED <<stream, files, told>>
  BY <1>1 DEF DownLoadPaused
<1>3. /\ loaders' \in [Loader -> LoaderRec]
      /\ loaders'[d].url = u /\ loaders'[d].state = "Downing"
      /\ \A l \in Loader \ {d} : loaders'[l] = loaders[l]
  BY <1>2, Types, URLAndState DEF DownState
<1>4. /\ tasks' \in [Task -> TaskRec]
      /\ \A s \in Task : /\ tasks'[s].phase = tasks[s].phase
                          /\ tasks'[s].owner = tasks[s].owner
                          /\ tasks'[s].url = tasks[s].url
                          /\ tasks'[s].answer = tasks[s].answer
                          /\ tasks'[s].at = tasks[s].at
                          /\ tasks'[s].got = tasks[s].got
  <2>1. tasks \in [Task -> TaskRec]
    BY Types
  <2>2. tasks' = [tasks EXCEPT ![t] = [tasks[t] EXCEPT !.suspended = FALSE]]
    BY <1>2, <2>1
  <2> DEFINE r == [tasks[t] EXCEPT !.suspended = FALSE]
  <2>3. /\ r \in TaskRec
        /\ r.phase = tasks[t].phase
        /\ r.owner = tasks[t].owner
        /\ r.url = tasks[t].url
        /\ r.answer = tasks[t].answer
        /\ r.at = tasks[t].at
        /\ r.got = tasks[t].got
    BY <2>1, SuspendFacts
  <2>4. tasks' = [tasks EXCEPT ![t] = r]
    BY <2>2
  <2> HIDE DEF r
  <2>5. tasks' \in [Task -> TaskRec] /\ tasks'[t] = r
    BY <2>1, <2>3, <2>4
  <2>6. \A s \in Task \ {t} : tasks'[s] = tasks[s]
    BY <2>1, <2>4
  <2> QED
    BY <2>3, <2>5, <2>6
<1>5. DLTypeOK'
  BY <1>2, <1>3, <1>4, Types DEF DLTypeOK
<1>6. Attached'
  BY <1>3, <1>4, AttachedStep
<1> QED
  BY <1>2, <1>3, <1>4, <1>5, <1>6, QuietStep DEF Outstanding

\* -downLoadWithURL: that starts a task keeps DLInv.
LEMMA StartInv ==
    ASSUME DLInv, NEW d \in Loader, NEW u \in URL, DownLoadStart(d, u)
    PROVE  DLInv'
<1>1. PICK t \in Task, size \in fileTotalSize(files, downLoadTmpPath(u)) :
        /\ tasks[t].phase = "idle"
        /\ loaders' = [loaders EXCEPT ![d].url = u, ![d].tmpSize = size,
                                      ![d].task = t]
        /\ tasks' = [CancelSession({d}) EXCEPT ![t] = NewTask(d, u, size)]
  BY DEF DownLoadStart
<1>2. UNCHANGED <<stream, files, told>>
  BY DEF DownLoadStart
<1>3. size \in Nat
  BY PathFacts, Types DEF fileTotalSize, isFileExists
<1>4. /\ loaders' \in [Loader -> LoaderRec]
      /\ loaders'[d].url = u /\ loaders'[d].state = loaders[d].state
      /\ \A l \in Loader \ {d} : loaders'[l] = loaders[l]
  <2>1. loaders \in [Loader -> LoaderRec]
    BY Types
  <2> QED
    BY <1>1, <1>3, <2>1 DEF LoaderRec
<1>5. /\ NewTask(d, u, size) \in TaskRec
      /\ NewTask(d, u, size).phase = "sent"
      /\ NewTask(d, u, size).owner = d
      /\ NewTask(d, u, size).url = u
  BY <1>3 DEF NewTask, IdleTask, TaskRec
<1>6. /\ tasks' \in [Task -> TaskRec]
      /\ tasks'[t] = NewTask(d, u, size)
      /\ \A s \in Task \ {t} : tasks'[s] = CancelSession({d})[s]
  BY <1>1, <1>5, CancelFacts, Types
<1>7. DLTypeOK'
  BY <1>2, <1>4, <1>6, Types DEF DLTypeOK
<1>8. Attached'
  <2> SUFFICES ASSUME NEW s \in Task
               PROVE  IF tasks'[s].phase = "idle"
                      THEN ~tasks'[s].answer /\ tasks'[s].at = tasks'[s].got
                      ELSE /\ tasks'[s].owner \in Loader
                           /\ tasks'[s].url \in URL
                           /\ loaders'[tasks'[s].owner].url \in URL
    BY DEF Attached
  <2>1. CASE s = t
    BY <1>4, <1>5, <1>6, <2>1
  <2>2. CASE s # t
    <3>1. tasks'[s] = CancelSession({d})[s]
      BY <1>6, <2>2
    <3>2. /\ tasks'[s].phase = "idle" <=> tasks[s].phase = "idle"
          /\ tasks'[s].owner = tasks[s].owner
          /\ tasks'[s].url = tasks[s].url
          /\ tasks'[s].answer = tasks[s].answer
          /\ tasks'[s].at = tasks[s].at
          /\ tasks'[s].got = tasks[s].got
      BY <3>1, CancelFacts, Types
    <3>3. IF tasks[s].phase = "idle"
          THEN ~tasks[s].answer /\ tasks[s].at = tasks[s].got
          ELSE /\ tasks[s].owner \in Loader
               /\ tasks[s].url \in URL
               /\ loaders[tasks[s].owner].url \in URL
      BY DEF DLInv, Attached
    <3> QED
      BY <1>4, <3>2, <3>3
  <2> QED
    BY <2>1, <2>2
<1>9. \A l \in Loader : Outstanding(l) \subseteq Outstanding(l)'
  BY <1>1, <1>6, CancelFacts, Types DEF Outstanding
<1> QED
  BY <1>2, <1>4, <1>7, <1>8, <1>9, QuietStep

\* -resume and -pause keep DLInv.
LEMMA SetSuspendedInv ==
    ASSUME DLInv, NEW S, NEW from \in {"Downing", "Pause"},
           NEW to \in {"Downing", "Pause"}, NEW b \in BOOLEAN,
           SetSuspended(S, from, to, b)
    PROVE  DLInv'
<1> DEFINE act == {l \in S : loaders[l].state = from}
<1>1. /\ loaders' = [l \in Loader |->
              IF l \in act THEN [loaders[l] EXCEPT !.state = to] ELSE loaders[l]]
      /\ tasks' = [t \in Task |->
              IF \E l \in act : loaders[l].task = t
              THEN [tasks[t] EXCEPT !.suspended = b] ELSE tasks[t]]
      /\ UNCHANGED <<stream, files, told>>
  BY DEF SetSuspended
<1>2. \A l \in act : loaders[l].state = from
  OBVIOUS
<1> HIDE DEF act
<1>3. \A l \in Loader : /\ [loaders[l] EXCEPT !.state = to] \in LoaderRec
                        /\ [loaders[l] EXCEPT !.state = to].url = loaders[l].url
  <2>1. \A r \in LoaderRec : /\ [r EXCEPT !.state = to] \in LoaderRec
                             /\ [r EXCEPT !.state = to].url = r.url
    BY DEF LoaderRec, DownState
  <2> QED
    BY <2>1, Types
<1>4. \A t \in Task : LET r == [tasks[t] EXCEPT !.suspended = b]
                      IN  /\ r \in TaskRec
                          /\ r.phase = tasks[t].phase
                          /\ r.owner = tasks[t].owner
                          /\ r.url = tasks[t].url
                          /\ r.answer = tasks[t].answer
                          /\ r.at = tasks[t].at
                          /\ r.got = tasks[t].got
  BY SuspendFacts, Types
<1>5. /\ loaders' \in [Loader -> LoaderRec]
      /\ \A l \in Loader : loaders'[l].url = loaders[l].url
  BY <1>1, <1>3, Types
<1>10. \A l \in Loader : loaders'[l].state \in {"Downing", "Pause"}
                            => loaders[l].state \in {"Downing", "Pause"}
  BY <1>1, <1>2
<1>6. /\ tasks' \in [Task -> TaskRec]
      /\ \A s \in Task : /\ tasks'[s].phase = tasks[s].phase
                          /\ tasks'[s].owner = tasks[s].owner
                          /\ tasks'[s].url = tasks[s].url
                          /\ tasks'[s].answer = tasks[s].answer
                          /\ tasks'[s].at = tasks[s].at
                          /\ tasks'[s].got = tasks[s].got
  BY <1>1, <1>4, Types
<1>7. DLTypeOK'
  BY <1>1, <1>5, <1>6, Types DEF DLTypeOK
<1>8. Attached'
  <2>1. \A l \in Loader : loaders[l].url \in URL => loaders'[l].url \in URL
    BY <1>5
  <2>2. \A s \in Task : tasks'[s].phase = "idle" <=> tasks[s].phase = "idle"
    BY <1>6
  <2> QED
    BY <1>6, <2>1, <2>2, AttachedStep
<1>9. \A l \in Loader : Outstanding(l) \subseteq Outstanding(l)'
  BY <1>6 DEF Outstanding
<1> QED
  BY <1>1, <1>7, <1>8, <1>9, <1>10, QuietStep

\* -cancel keeps DLInv.
LEMMA CancelInv ==
    ASSUME DLInv, NEW S, cancel(S)
    PROVE  DLInv'
<1>1. tasks' = CancelSession(S) /\ UNCHANGED <<loaders, stream, files, told>>
  BY DEF cancel
<1>2. DLTypeOK'
  BY <1>1, CancelFacts, Types DEF DLTypeOK
<1>3. Attached'
  BY <1>1, CancelFacts, Types DEF DLInv, Attached
<1>4. \A l \in Loader : Outstanding(l) \subseteq Outstanding(l)'
  BY <1>1, CancelFacts, Types DEF Outstanding
<1> QED
  BY <1>1, <1>2, <1>3, <1>4, QuietStep

----------------------------------------------------------------------------
(* Streams and the files they are open on.                                  *)

FileType == [Path -> Seq(Chunk) \cup {NoFile}]
StreamType == [Loader -> Path \cup {nil, Unlinked}]

\* Streams that are open on existing files.
Sound(open, fs) == \A l \in Loader : open[l] \in Path => fs[open[l]] # NoFile

\* After a move, with the streams on the moved file following it.
LEMMA MovedStreams ==
    ASSUME DLInv, NEW u \in URL,
           NEW fs \in moveFile(files, downLoadTmpPath(u), downLoadCachePath(u)),
           NEW open,
           open = IF fs # files
                  THEN Follow(downLoadTmpPath(u), downLoadCachePath(u)) ELSE stream
    PROVE  /\ fs \in FileType
           /\ open \in StreamType
           /\ Sound(open, fs)
           /\ \A l \in Loader : open[l] # nil => stream[l] # nil
<1> DEFINE from == downLoadTmpPath(u)
           to == downLoadCachePath(u)
<1>1. from \in Path /\ to \in Path /\ from # to
  BY PathFacts
<1>2. fs \in moveFile(files, from, to)
  OBVIOUS
<1>3. open = IF fs # files
             THEN [d \in Loader |-> IF stream[d] = from THEN to ELSE stream[d]]
             ELSE stream
  BY DEF Follow
<1> HIDE DEF from, to
<1>4. /\ fs \in FileType
      /\ \A p \in Path \ {from} : files[p] # NoFile => fs[p] # NoFile
      /\ fs # files => fs[to] # NoFile
  BY <1>1, <1>2, MoveFacts, Types DEF FileType
<1>5. \A l \in Loader : stream[l] \in Path => files[stream[l]] # NoFile
  BY DEF DLInv, StreamOnFile
<1>6. CASE fs = files
  BY <1>3, <1>4, <1>5, <1>6, Types DEF StreamType, Sound
<1>7. CASE fs # files
  <2>1. open = [d \in Loader |-> IF stream[d] = from THEN to ELSE stream[d]]
    BY <1>3, <1>7
  <2>2. open \in StreamType
    BY <1>1, <2>1, Types DEF StreamType
  <2>3. \A l \in Loader : IF stream[l] = from THEN open[l] = to
                                               ELSE open[l] = stream[l]
    BY <2>1
  <2>4. Sound(open, fs)
    BY <1>4, <1>5, <1>7, <2>3 DEF Sound
  <2>5. \A l \in Loader : open[l] # nil => stream[l] # nil
    BY <1>1, <2>3, PathFacts
  <2> QED
    BY <1>4, <2>2, <2>4, <2>5
<1> QED
  BY <1>6, <1>7

\* After a removal, with the streams on the removed file left without a name.
LEMMA RemovedStreams ==
    ASSUME DLInv, NEW path \in Path,
           NEW fs \in removeFileAtPath(files, path),
           NEW open,
           open = IF fs # files THEN Follow(path, Unlinked) ELSE stream
    PROVE  /\ fs \in FileType
           /\ open \in StreamType
           /\ Sound(open, fs)
           /\ \A l \in Loader : open[l] # nil => stream[l] # nil
<1>1. open = IF fs # files
             THEN [d \in Loader |-> IF stream[d] = path THEN Unlinked ELSE stream[d]]
             ELSE stream
  BY DEF Follow
<1>2. /\ fs \in FileType
      /\ \A p \in Path \ {path} : files[p] # NoFile => fs[p] # NoFile
  BY RemoveFacts, Types DEF FileType
<1>3. \A l \in Loader : stream[l] \in Path => files[stream[l]] # NoFile
  BY DEF DLInv, StreamOnFile
<1>4. CASE fs = files
  BY <1>1, <1>2, <1>3, <1>4, Types DEF StreamType, Sound
<1>5. CASE fs # files
  BY <1>1, <1>2, <1>3, <1>5, PathFacts, Types DEF StreamType, Sound
<1> QED
  BY <1>4, <1>5

\* A step that takes no task away keeps the invariant if the streams it leaves are
\* sound, were open before, or belong to a loader with a task.
LEMMA StreamStep ==
    ASSUME DLInv, DLTypeOK', Attached',
           Sound(stream, files)',
           \A l \in Loader : stream'[l] # nil =>
               stream[l] # nil \/ Outstanding(l)' # {},
           \A l \in Loader : Outstanding(l) \subseteq Outstanding(l)',
           \A l \in Loader : loaders'[l].state \in {"Downing", "Pause"} =>
               \/ loaders[l].state \in {"Downing", "Pause"}
               \/ Outstanding(l)' # {}
    PROVE  DLInv'
BY DEF DLInv, StreamOnFile, Sound, NoLeakedStream, DowningHasTask

\* -cancelAndClearCache keeps DLInv.
LEMMA ClearInv ==
    ASSUME DLInv, NEW d \in Loader, cancelAndClearCache(d)
    PROVE  DLInv'
<1>1. tasks' = CancelSession({d}) /\ UNCHANGED <<loaders, told>>
  BY DEF cancelAndClearCache
<1>2. Attached'
  BY <1>1, CancelFacts, Types, AttachedStep
<1>3. \A l \in Loader : Outstanding(l) \subseteq Outstanding(l)'
  BY <1>1, CancelFacts, Types DEF Outstanding
<1>4. tasks' \in [Task -> TaskRec]
  BY <1>1, CancelFacts, Types
<1>5. /\ files' \in FileType
      /\ stream' \in StreamType
      /\ Sound(stream', files')
      /\ \A l \in Loader : stream'[l] # nil => stream[l] # nil
  <2>1. CASE loaders[d].url = nil
    <3>1. UNCHANGED <<files, stream>>
      BY <2>1 DEF cancelAndClearCache
    <3> QED
      BY <3>1, Types DEF FileType, StreamType, Sound, DLInv, StreamOnFile
  <2>2. CASE loaders[d].url # nil
    <3> DEFINE path == downLoadCachePath(loaders[d].url)
    <3>1. path \in Path
      BY <2>2, PathFacts, Types DEF LoaderRec
    <3>2. PICK fs \in removeFileAtPath(files, path) :
            /\ files' = fs
            /\ stream' = IF fs # files THEN Follow(path, Unlinked) ELSE stream
      BY <2>2 DEF cancelAndClearCache
    <3> HIDE DEF path
    <3> QED
      BY <3>1, <3>2, RemovedStreams
  <2> QED
    BY <2>1, <2>2
<1>6. DLTypeOK'
  BY <1>1, <1>4, <1>5, Types DEF DLTypeOK, FileType, StreamType
<1>7. Sound(stream, files)'
  BY <1>5 DEF Sound
<1> QED
  BY <1>1, <1>2, <1>3, <1>5, <1>6, <1>7, StreamStep

----------------------------------------------------------------------------
(* The delegate callbacks.                                                  *)

\* A step of a busy task that stays busy.
LEMMA BusyStep ==
    ASSUME DLInv, NEW t \in Task, tasks[t].phase # "idle",
           tasks'[t].phase # "idle",
           tasks'[t].owner = tasks[t].owner, tasks'[t].url = tasks[t].url,
           \A s \in Task \ {t} : tasks'[s] = tasks[s],
           \A l \in Loader : loaders[l].url \in URL => loaders'[l].url \in URL
    PROVE  /\ Attached'
           /\ \A l \in Loader : Outstanding(l) = Outstanding(l)'
<1>1. Attached'
  <2> SUFFICES ASSUME NEW s \in Task
               PROVE  IF tasks'[s].phase = "idle"
                      THEN ~tasks'[s].answer /\ tasks'[s].at = tasks'[s].got
                      ELSE /\ tasks'[s].owner \in Loader
                           /\ tasks'[s].url \in URL
                           /\ loaders'[tasks'[s].owner].url \in URL
    BY DEF Attached
  <2>1. IF tasks[s].phase = "idle"
        THEN ~tasks[s].answer /\ tasks[s].at = tasks[s].got
        ELSE /\ tasks[s].owner \in Loader
             /\ tasks[s].url \in URL
             /\ loaders[tasks[s].owner].url \in URL
    BY DEF DLInv, Attached
  <2>2. CASE s = t
    BY <2>1, <2>2
  <2>3. CASE s # t
    <3>1. tasks'[s] = tasks[s]
      BY <2>3
    <3> QED
      BY <2>1, <3>1
  <2> QED
    BY <2>2, <2>3
<1>2. \A l \in Loader : Outstanding(l) = Outstanding(l)'
  BY DEF Outstanding
<1> QED
  BY <1>1, <1>2

\* The loader of a task with callbacks to come, and its paths.
LEMMA OwnerFacts ==
    ASSUME DLInv, NEW t \in Task,
           tasks[t].phase # "idle" \/ tasks[t].answer \/ tasks[t].at # tasks[t].got
    PROVE  /\ tasks[t].phase # "idle"
           /\ tasks[t] \in TaskRec
           /\ tasks[t].url \in URL
           /\ tasks[t].owner \in Loader
           /\ loaders[tasks[t].owner] \in LoaderRec
           /\ loaders[tasks[t].owner].url \in URL
           /\ t \in Outstanding(tasks[t].owner)
<1>1. /\ tasks[t].phase # "idle"
      /\ tasks[t].url \in URL
      /\ tasks[t].owner \in Loader
      /\ loaders[tasks[t].owner].url \in URL
  BY DEF DLInv, Attached
<1>2. tasks[t] \in TaskRec
  BY Types
<1>3. loaders[tasks[t].owner] \in LoaderRec
  BY <1>1, Types
<1> QED
  BY <1>1, <1>2, <1>3 DEF Outstanding

\* The response is taken from the queue and the task cancelled.
LEMMA RefusedFacts ==
    ASSUME NEW r \in TaskRec, r.phase # "idle"
    PROVE  LET q == [Cancelled(r) EXCEPT !.answer = FALSE]
           IN  /\ q \in TaskRec
               /\ q.phase # "idle"
               /\ q.owner = r.owner
               /\ q.url = r.url
<1>1. \A x \in TaskRec : LET q == [x EXCEPT !.answer = FALSE]
                         IN  /\ q \in TaskRec
                             /\ q.phase = x.phase
                             /\ q.owner = x.owner
                             /\ q.url = x.url
  BY DEF TaskRec
<1> QED
  BY <1>1, CancelledFacts

\* didReceiveResponse with all bytes at hand keeps DLInv.
LEMMA ResponseCompleteInv ==
    ASSUME DLInv, NEW t \in Task, tasks[t].answer,
           NEW d \in Loader, d = tasks[t].owner, ResponseComplete(t, d)
    PROVE  DLInv'
<1> DEFINE r == [Cancelled(tasks[t]) EXCEPT !.answer = FALSE]
<1>1. /\ loaders' = [loaders EXCEPT ![d].totalSize = tasks[t].total,
                                    ![d].state = "Success"]
      /\ tasks' = [tasks EXCEPT ![t] = r]
      /\ MoveToCache(loaders[d].url)
      /\ UNCHANGED told
  BY DEF ResponseComplete
<1>2. /\ tasks[t].phase # "idle" /\ tasks[t] \in TaskRec
      /\ loaders[d].url \in URL
  BY OwnerFacts
<1>3. /\ r \in TaskRec /\ r.phase # "idle"
      /\ r.owner = tasks[t].owner /\ r.url = tasks[t].url
  BY <1>2, RefusedFacts
<1> HIDE DEF r
<1>4. /\ tasks' \in [Task -> TaskRec] /\ tasks'[t] = r
      /\ \A s \in Task \ {t} : tasks'[s] = tasks[s]
  BY <1>1, <1>3, Types
<1>5. tasks[t].total \in Nat
  BY <1>2 DEF TaskRec
<1>6. /\ loaders' \in [Loader -> LoaderRec]
      /\ loaders'[d].url = loaders[d].url /\ loaders'[d].state = "Success"
      /\ \A l \in Loader \ {d} : loaders'[l] = loaders[l]
  <2>1. loaders \in [Loader -> LoaderRec]
    BY Types
  <2> QED
    BY <1>1, <1>5, <2>1 DEF LoaderRec, DownState
<1>7. /\ Attached'
      /\ \A l \in Loader : Outstanding(l) = Outstanding(l)'
  BY <1>2, <1>3, <1>4, <1>6, BusyStep
<1>8. /\ files' \in FileType
      /\ stream' \in StreamType
      /\ Sound(stream', files')
      /\ \A l \in Loader : stream'[l] # nil => stream[l] # nil
  BY <1>1, <1>2, MovedStreams DEF MoveToCache
<1>9. DLTypeOK'
  BY <1>1, <1>4, <1>6, <1>8, Types DEF DLTypeOK, FileType, StreamType
<1>10. Sound(stream, files)'
  BY <1>8 DEF Sound
<1> QED
  BY <1>6, <1>7, <1>8, <1>9, <1>10, StreamStep

\* didReceiveResponse that opens the stream keeps DLInv: its task is busy.
LEMMA ResponseAllowInv ==
    ASSUME DLInv, NEW t \in Task, tasks[t].answer,
           NEW d \in Loader, d = tasks[t].owner, ResponseAllow(t, d)
    PROVE  DLInv'
<1> DEFINE path == downLoadTmpPath(loaders[d].url)
           r == [tasks[t] EXCEPT !.answer = FALSE,
                                 !.phase = IF @ = "answered" THEN "body" ELSE @]
<1>1. /\ files' = IF isFileExists(files, path) THEN files
                  ELSE [files EXCEPT ![path] = <<>>]
      /\ stream' = [stream EXCEPT ![d] = path]
      /\ loaders' = [loaders EXCEPT ![d].totalSize = tasks[t].total,
                                    ![d].state = "Downing"]
      /\ tasks' = [tasks EXCEPT ![t] = r]
      /\ UNCHANGED told
  BY DEF ResponseAllow, OpenedFile
<1>2. /\ tasks[t].phase # "idle" /\ tasks[t] \in TaskRec
      /\ loaders[d].url \in URL /\ t \in Outstanding(d)
  BY OwnerFacts
<1>3. /\ r \in TaskRec /\ r.phase # "idle"
      /\ r.owner = tasks[t].owner /\ r.url = tasks[t].url
  BY <1>2 DEF TaskRec
<1>4. path \in Path
  BY <1>2, PathFacts
<1> HIDE DEF r, path
<1>5. /\ tasks' \in [Task -> TaskRec] /\ tasks'[t] = r
      /\ \A s \in Task \ {t} : tasks'[s] = tasks[s]
  BY <1>1, <1>3, Types
<1>6. /\ loaders' \in [Loader -> LoaderRec]
      /\ loaders'[d].url = loaders[d].url
      /\ \A l \in Loader \ {d} : loaders'[l] = loaders[l]
  <2>1. loaders \in [Loader -> LoaderRec] /\ tasks[t].total \in Nat
    BY <1>2, Types DEF TaskRec
  <2>2. loaders' = [loaders EXCEPT ![d].totalSize = tasks[t].total,
                                   ![d].state = "Downing"]
    BY <1>1
  <2> QED
    BY <2>1, <2>2 DEF LoaderRec, DownState
<1>7. /\ Attached'
      /\ \A l \in Loader : Outstanding(l) = Outstanding(l)'
  BY <1>2, <1>3, <1>5, <1>6, BusyStep
<1>8. /\ files' \in FileType
      /\ files'[path] # NoFile
      /\ \A p \in Path : files[p] # NoFile => files'[p] # NoFile
  <2>1. <<>> \in Seq(Chunk)
    OBVIOUS
  <2>2. <<>> # NoFile
    BY <2>1, DistinctAssumption
  <2> QED
    BY <1>1, <1>4, <2>1, <2>2, Types DEF FileType, isFileExists
<1>9. /\ stream' \in StreamType
      /\ stream'[d] = path
      /\ \A l \in Loader \ {d} : stream'[l] = stream[l]
  BY <1>1, <1>4, Types DEF StreamType
<1>10. Sound(stream, files)'
  BY <1>8, <1>9 DEF Sound, DLInv, StreamOnFile
<1>11. DLTypeOK'
  BY <1>1, <1>5, <1>6, <1>8, <1>9, Types DEF DLTypeOK, FileType, StreamType
<1> QED
  BY <1>2, <1>6, <1>7, <1>9, <1>10, <1>11, StreamStep

\* didReceiveResponse with too many bytes at hand keeps DLInv.
LEMMA ResponseTooLongInv ==
    ASSUME DLInv, NEW t \in Task, tasks[t].answer,
           NEW d \in Loader, d = tasks[t].owner, ResponseTooLong(t, d)
    PROVE  DLInv'
<1> DEFINE path == downLoadTmpPath(loaders[d].url)
           r == [Cancelled(tasks[t]) EXCEPT !.answer = FALSE]
<1>1. PICK new \in Task, fs \in removeFileAtPath(files, path) :
        /\ tasks[new].phase = "idle"
        /\ files' = fs
        /\ stream' = IF fs # files THEN Follow(path, Unlinked) ELSE stream
        /\ tasks' = [tasks EXCEPT ![t] = r, ![new] = NewTask(d, tasks[t].url, 0)]
        /\ loaders' = [loaders EXCEPT ![d].totalSize = tasks[t].total,
                                      ![d].task = new]
  BY DEF ResponseTooLong
<1>2. UNCHANGED told
  BY DEF ResponseTooLong
<1>3. /\ tasks[t].phase # "idle" /\ tasks[t] \in TaskRec
      /\ tasks[t].url \in URL /\ loaders[d].url \in URL
  BY OwnerFacts
<1>4. /\ r \in TaskRec /\ r.phase # "idle"
      /\ r.owner = tasks[t].owner /\ r.url = tasks[t].url
  BY <1>3, RefusedFacts
<1> DEFINE n == NewTask(d, tasks[t].url, 0)
<1>5. /\ n \in TaskRec /\ n.phase # "idle" /\ n.owner = d /\ n.url \in URL
  BY <1>3 DEF NewTask, IdleTask, TaskRec
<1>6. path \in Path
  BY <1>3, PathFacts
<1>7. tasks' = [tasks EXCEPT ![t] = r, ![new] = n]
  BY <1>1
<1> HIDE DEF r, path, n
<1>8. /\ tasks' \in [Task -> TaskRec] /\ tasks'[t] = r /\ tasks'[new] = n
      /\ t # new
      /\ \A s \in Task \ {t, new} : tasks'[s] = tasks[s]
  BY <1>1, <1>3, <1>4, <1>5, <1>7, Types
<1>9. /\ loaders' \in [Loader -> LoaderRec]
      /\ loaders'[d].url = loaders[d].url
      /\ loaders'[d].state = loaders[d].state
      /\ \A l \in Loader \ {d} : loaders'[l] = loaders[l]
  <2>1. loaders \in [Loader -> LoaderRec] /\ tasks[t].total \in Nat
    BY <1>3, Types DEF TaskRec
  <2>2. loaders' = [loaders EXCEPT ![d].totalSize = tasks[t].total, ![d].task = new]
    BY <1>1
  <2> QED
    BY <2>1, <2>2 DEF LoaderRec
<1>10. \A l \in Loader : Outstanding(l) \subseteq Outstanding(l)'
  <2> SUFFICES ASSUME NEW l \in Loader, NEW s \in Task,
                      tasks[s].phase # "idle", tasks[s].owner = l
               PROVE  tasks'[s].phase # "idle" /\ tasks'[s].owner = l
    BY DEF Outstanding
  <2>1. s # new
    BY <1>1
  <2>2. CASE s = t
    BY <1>4, <1>8, <2>2
  <2>3. CASE s # t
    BY <1>8, <2>1, <2>3
  <2> QED
    BY <2>2, <2>3
<1>11. Attached'
  <2> SUFFICES ASSUME NEW s \in Task
               PROVE  IF tasks'[s].phase = "idle"
                      THEN ~tasks'[s].answer /\ tasks'[s].at = tasks'[s].got
                      ELSE /\ tasks'[s].owner \in Loader
                           /\ tasks'[s].url \in URL
                           /\ loaders'[tasks'[s].owner].url \in URL
    BY DEF Attached
  <2>1. CASE s = t
    BY <1>3, <1>4, <1>8, <1>9, <2>1
  <2>2. CASE s = new
    BY <1>3, <1>5, <1>8, <1>9, <2>2
  <2>3. CASE s # t /\ s # new
    <3>1. tasks'[s] = tasks[s]
      BY <1>8, <2>3
    <3>2. IF tasks[s].phase = "idle"
          THEN ~tasks[s].answer /\ tasks[s].at = tasks[s].got
          ELSE /\ tasks[s].owner \in Loader
               /\ tasks[s].url \in URL
               /\ loaders[tasks[s].owner].url \in URL
      BY DEF DLInv, Attached
    <3> QED
      BY <1>9, <3>1, <3>2
  <2> QED
    BY <2>1, <2>2, <2>3
<1>12. /\ files' \in FileType
       /\ stream' \in StreamType
       /\ Sound(stream', files')
       /\ \A l \in Loader : stream'[l] # nil => stream[l] # nil
  BY <1>1, <1>6, RemovedStreams
<1>13. DLTypeOK'
  BY <1>2, <1>8, <1>9, <1>12, Types DEF DLTypeOK, FileType, StreamType
<1>14. Sound(stream, files)'
  BY <1>12 DEF Sound
<1> QED
  BY <1>9, <1>10, <1>11, <1>12, <1>13, <1>14, StreamStep

\* didReceiveData keeps DLInv: it writes only to a file that exists.
LEMMA DataInv ==
    ASSUME DLInv, NEW t \in Task, didReceiveData(t)
    PROVE  DLInv'
<1> DEFINE d == tasks[t].owner
<1>1. /\ loaders' = [loaders EXCEPT ![d].tmpSize = @ + 1]
      /\ tasks' = [tasks EXCEPT ![t].at = @ + 1]
      /\ tasks[t].at < tasks[t].got
      /\ UNCHANGED <<stream, told>>
  BY DEF didReceiveData
<1>2. PICK fs \in Written(d, NextChunk(t)) : files' = fs
  BY DEF didReceiveData
<1>3. tasks[t].at # tasks[t].got
  BY <1>1, Types DEF TaskRec
<1>4. /\ tasks[t].phase # "idle" /\ tasks[t] \in TaskRec
      /\ tasks[t].url \in URL
      /\ d \in Loader
  BY <1>3, OwnerFacts
<1>5. NextChunk(t) \in Chunk
  BY <1>4 DEF NextChunk, Chunk, TaskRec
<1> HIDE DEF d
<1>6. /\ loaders' \in [Loader -> LoaderRec]
      /\ \A l \in Loader : /\ loaders'[l].url = loaders[l].url
                            /\ loaders'[l].state = loaders[l].state
  <2>1. loaders \in [Loader -> LoaderRec]
    BY Types
  <2> QED
    BY <1>1, <1>4, <2>1 DEF LoaderRec
<1>7. /\ tasks' \in [Task -> TaskRec]
      /\ tasks'[t].phase # "idle"
      /\ tasks'[t].owner = tasks[t].owner /\ tasks'[t].url = tasks[t].url
      /\ \A s \in Task \ {t} : tasks'[s] = tasks[s]
  <2>1. tasks \in [Task -> TaskRec]
    BY Types
  <2> QED
    BY <1>1, <1>4, <2>1 DEF TaskRec
<1>8. /\ Attached'
      /\ \A l \in Loader : Outstanding(l) = Outstanding(l)'
  <2>1. \A l \in Loader : loaders[l].url \in URL => loaders'[l].url \in URL
    BY <1>6
  <2> QED
    BY <1>4, <1>7, <2>1, BusyStep
<1>9. /\ files' \in FileType
      /\ \A p \in Path : files[p] # NoFile => files'[p] # NoFile
  <2>1. CASE files' = files
    BY <2>1, Types DEF FileType
  <2>2. CASE files' # files
    <3>1. stream[d] \in Path
          /\ files' = [files EXCEPT ![stream[d]] = Append(@, NextChunk(t))]
      BY <1>2, <2>2 DEF Written
    <3>2. files[stream[d]] \in Seq(Chunk)
      BY <1>4, <3>1, Types DEF DLInv, StreamOnFile
    <3>3. Append(files[stream[d]], NextChunk(t)) \in Seq(Chunk)
      BY <1>5, <3>2
    <3>4. Append(files[stream[d]], NextChunk(t)) # NoFile
      BY <3>3, DistinctAssumption
    <3> QED
      BY <3>1, <3>3, <3>4, Types DEF FileType
  <2> QED
    BY <2>1, <2>2
<1>10. Sound(stream, files)'
  BY <1>1, <1>9 DEF Sound, DLInv, StreamOnFile
<1>11. DLTypeOK'
  BY <1>1, <1>6, <1>7, <1>9, Types DEF DLTypeOK, FileType
<1> QED
  BY <1>1, <1>6, <1>8, <1>10, <1>11, StreamStep

\* A completion takes the task away and leaves its loader without a stream, in
\* neither Downing nor Pause.
LEMMA FinishedInv ==
    ASSUME DLInv, NEW t \in Task, tasks[t].phase # "idle",
           NEW d \in Loader, d = tasks[t].owner,
           NEW state \in {"Success", "Fail"},
           Finished(t, d, state),
           Tell(d, "success") \/ Tell(d, "fail"),
           files' \in FileType, stream' \in StreamType,
           Sound(stream', files'),
           stream'[d] = nil,
           \A l \in Loader : stream'[l] # nil => stream[l] # nil
    PROVE  DLInv'
<1>1. /\ tasks' = [tasks EXCEPT ![t] = IdleTask]
      /\ loaders' = [loaders EXCEPT ![d].state = state,
                                    ![d].task = IF @ = t THEN nil ELSE @]
  BY DEF Finished
<1>2. /\ IdleTask \in TaskRec /\ IdleTask.phase = "idle"
      /\ ~IdleTask.answer /\ IdleTask.at = IdleTask.got
  BY DEF IdleTask, TaskRec
<1>3. /\ tasks' \in [Task -> TaskRec] /\ tasks'[t] = IdleTask
      /\ \A s \in Task \ {t} : tasks'[s] = tasks[s]
  BY <1>1, <1>2, Types
<1>4. /\ loaders' \in [Loader -> LoaderRec]
      /\ loaders'[d].url = loaders[d].url /\ loaders'[d].state = state
      /\ \A l \in Loader \ {d} : loaders'[l] = loaders[l]
  <2>1. loaders \in [Loader -> LoaderRec]
    BY Types
  <2> QED
    BY <1>1, <2>1 DEF LoaderRec, DownState
<1>5. \A l \in Loader \ {d} : Outstanding(l)' = Outstanding(l)
  BY <1>2, <1>3 DEF Outstanding
<1>6. DLTypeOK'
  BY <1>3, <1>4, TellFacts, Types DEF DLTypeOK, FileType, StreamType
<1>7. Attached'
  <2> SUFFICES ASSUME NEW s \in Task
               PROVE  IF tasks'[s].phase = "idle"
                      THEN ~tasks'[s].answer /\ tasks'[s].at = tasks'[s].got
                      ELSE /\ tasks'[s].owner \in Loader
                           /\ tasks'[s].url \in URL
                           /\ loaders'[tasks'[s].owner].url \in URL
    BY DEF Attached
  <2>1. CASE s = t
    BY <1>2, <1>3, <2>1
  <2>2. CASE s # t
    <3>1. tasks'[s] = tasks[s]
      BY <1>3, <2>2
    <3>2. IF tasks[s].phase = "idle"
          THEN ~tasks[s].answer /\ tasks[s].at = tasks[s].got
          ELSE /\ tasks[s].owner \in Loader
               /\ tasks[s].url \in URL
               /\ loaders[tasks[s].owner].url \in URL
      BY DEF DLInv, Attached
    <3> QED
      BY <1>4, <3>1, <3>2
  <2> QED
    BY <2>1, <2>2
<1>8. StreamOnFile'
  BY DEF StreamOnFile, Sound
<1>9. NoLeakedStream'
  BY <1>5 DEF NoLeakedStream, DLInv
<1>10. DowningHasTask'
  <2> SUFFICES ASSUME NEW l \in Loader, loaders'[l].state \in {"Downing", "Pause"}
               PROVE  Outstanding(l)' # {}
    BY DEF DowningHasTask
  <2>1. l # d
    BY <1>4
  <2> QED
    BY <1>4, <1>5, <2>1 DEF DowningHasTask, DLInv
<1> QED
  BY <1>6, <1>7, <1>8, <1>9, <1>10 DEF DLInv

\* didCompleteWithError keeps DLInv, on success and on failure.
LEMMA CompleteInv ==
    ASSUME DLInv, NEW t \in Task, didCompleteWithError(t)
    PROVE  DLInv'
<1>1. tasks[t].phase # "idle"
  BY DEF didCompleteWithError
<1>2. PICK d \in Loader : d = tasks[t].owner /\ loaders[d].url \in URL
  BY <1>1, OwnerFacts
<1>3. CompleteSuccess(t, d) \/ CompleteFail(t, d)
  BY <1>2 DEF didCompleteWithError
<1>4. CASE CompleteFail(t, d)
  <2>1. /\ stream' = [stream EXCEPT ![d] = nil] /\ UNCHANGED files
        /\ Finished(t, d, "Fail") /\ Tell(d, "fail")
    BY <1>4 DEF CompleteFail, CloseStream
  <2>2. /\ stream' \in StreamType /\ stream'[d] = nil
        /\ \A l \in Loader \ {d} : stream'[l] = stream[l]
    BY <2>1, Types DEF StreamType
  <2>3. Sound(stream', files')
    BY <2>1, <2>2, PathFacts DEF Sound, DLInv, StreamOnFile
  <2>4. files' \in FileType
    BY <2>1, Types DEF FileType
  <2> QED
    BY <1>1, <1>2, <2>1, <2>2, <2>3, <2>4, FinishedInv
<1>5. CASE CompleteSuccess(t, d)
  <2> DEFINE from == downLoadTmpPath(loaders[d].url)
             to == downLoadCachePath(loaders[d].url)
             Open(fs) == IF fs # files THEN Follow(from, to) ELSE stream
  <2>1. PICK fs \in moveFile(files, from, to) :
          files' = fs /\ stream' = [Open(fs) EXCEPT ![d] = nil]
    BY <1>5 DEF CompleteSuccess, CloseStream
  <2>2. Finished(t, d, "Success") /\ Tell(d, "success")
    BY <1>5 DEF CompleteSuccess
  <2>3. PICK open : open = Open(fs)
    OBVIOUS
  <2>4. /\ fs \in FileType
        /\ open \in StreamType
        /\ Sound(open, fs)
        /\ \A l \in Loader : open[l] # nil => stream[l] # nil
    BY <1>2, <2>3, MovedStreams
  <2>5. stream' = [open EXCEPT ![d] = nil]
    BY <2>1, <2>3
  <2> HIDE DEF Open, from, to
  <2>6. /\ stream' \in StreamType /\ stream'[d] = nil
        /\ \A l \in Loader \ {d} : stream'[l] = open[l]
    BY <2>4, <2>5 DEF StreamType
  <2>7. Sound(stream', files')
    BY <2>1, <2>4, <2>6, PathFacts DEF Sound
  <2>8. \A l \in Loader : stream'[l] # nil => stream[l] # nil
    BY <2>4, <2>6
  <2> QED
    BY <1>1, <1>2, <2>1, <2>2, <2>4, <2>6, <2>7, <2>8, FinishedInv
<1> QED
  BY <1>3, <1>4, <1>5

----------------------------------------------------------------------------
(* The network.                                                             *)

\* A step of the network changes one busy task, and leaves it busy.
LEMMA NetworkStep ==
    ASSUME DLInv, NEW t \in Task, tasks[t].phase # "idle",
           NEW r \in TaskRec, r.phase # "idle",
           r.owner = tasks[t].owner, r.url = tasks[t].url,
           tasks' = [tasks EXCEPT ![t] = r],
           UNCHANGED <<loaders, stream, files, told>>
    PROVE  DLInv'
<1>1. /\ tasks' \in [Task -> TaskRec] /\ tasks'[t] = r
      /\ \A s \in Task \ {t} : tasks'[s] = tasks[s]
  BY Types
<1>2. /\ Attached'
      /\ \A l \in Loader : Outstanding(l) = Outstanding(l)'
  BY <1>1, BusyStep
<1>3. DLTypeOK'
  BY <1>1, Types DEF DLTypeOK
<1> QED
  BY <1>2, <1>3, QuietStep

\* The answer of a server of any kind keeps DLInv.
LEMMA AnswersInv ==
    ASSUME DLInv, NEW t \in Task, ServerAnswers(t)
    PROVE  DLInv'
<1>1. PICK kind \in ServerKinds :
        LET a == Answered(t, kind)
        IN  tasks' = [tasks EXCEPT ![t].phase = "answered", ![t].answer = TRUE,
                                   ![t].kind = kind, ![t].total = a.total,
                                   ![t].at = a.at, ![t].got = a.at,
                                   ![t].len = a.len]
  BY DEF ServerAnswers
<1>2. tasks[t].phase # "idle" /\ UNCHANGED <<loaders, stream, files, told>>
  BY DEF ServerAnswers
<1>3. tasks[t] \in TaskRec /\ tasks[t].url \in URL
  BY <1>2, OwnerFacts
<1>4. kind \in ResponseKinds
  BY DownLoaderAssumption
<1> DEFINE a == Answered(t, kind)
<1>5. a.total \in Nat /\ a.at \in Nat /\ a.len \in Nat
  <2>1. Length[tasks[t].url] \in Nat /\ tasks[t].offset \in Nat
    BY <1>3, DownLoaderAssumption DEF TaskRec
  <2> QED
    BY <1>4, <2>1 DEF Answered, ResponseKinds, PageLength
<1> DEFINE r == [tasks[t] EXCEPT !.phase = "answered", !.answer = TRUE,
                                 !.kind = kind, !.total = a.total,
                                 !.at = a.at, !.got = a.at, !.len = a.len]
<1>6. tasks' = [tasks EXCEPT ![t] = r]
  BY <1>1
<1> HIDE DEF a
<1>7. /\ r \in TaskRec /\ r.phase # "idle"
      /\ r.owner = tasks[t].owner /\ r.url = tasks[t].url
  BY <1>3, <1>4, <1>5 DEF TaskRec
<1> HIDE DEF r
<1> QED
  BY <1>2, <1>6, <1>7, NetworkStep

\* Every step of the URL loading system keeps DLInv.
LEMMA NetworkInv ==
    ASSUME DLInv, NEW t \in Task, Network(t)
    PROVE  DLInv'
<1>1. CASE ServerAnswers(t)
  BY <1>1, AnswersInv
<1>2. CASE ServerSends(t)
  <2> DEFINE r == [tasks[t] EXCEPT !.got = @ + 1]
  <2>1. /\ tasks[t].phase # "idle"
        /\ tasks' = [tasks EXCEPT ![t] = r]
        /\ UNCHANGED <<loaders, stream, files, told>>
    BY <1>2 DEF ServerSends
  <2>2. tasks[t] \in TaskRec
    BY Types
  <2>3. /\ r \in TaskRec /\ r.phase # "idle"
        /\ r.owner = tasks[t].owner /\ r.url = tasks[t].url
    BY <2>1, <2>2 DEF TaskRec
  <2> HIDE DEF r
  <2> QED
    BY <2>1, <2>3, NetworkStep
<1>3. ASSUME NEW e \in BOOLEAN, tasks[t].phase # "idle",
             tasks' = [tasks EXCEPT ![t].phase = "over", ![t].error = e],
             UNCHANGED <<loaders, stream, files, told>>
      PROVE  DLInv'
  <2> DEFINE r == [tasks[t] EXCEPT !.phase = "over", !.error = e]
  <2>1. tasks' = [tasks EXCEPT ![t] = r]
    BY <1>3
  <2>2. tasks[t] \in TaskRec
    BY Types
  <2>3. /\ r \in TaskRec /\ r.phase # "idle"
        /\ r.owner = tasks[t].owner /\ r.url = tasks[t].url
    BY <2>2 DEF TaskRec
  <2> HIDE DEF r
  <2> QED
    BY <1>3, <2>1, <2>3, NetworkStep
<1>4. CASE ServerFinishes(t)
  BY <1>3, <1>4 DEF ServerFinishes
<1>5. CASE NetworkFails(t)
  BY <1>3, <1>5 DEF NetworkFails, Live
<1> QED
  BY <1>1, <1>2, <1>4, <1>5 DEF Network

----------------------------------------------------------------------------
(* The specification.                                                       *)

\* Every call of the client keeps DLInv.
LEMMA ClientInv ==
    ASSUME DLInv, NEW d \in Loader, Client(d)
    PROVE  DLInv'
<1>1. CASE \E u \in URL : downLoadWithURL(d, u)
  <2>1. PICK u \in URL : downLoadWithURL(d, u)
    BY <1>1
  <2> QED
    BY <2>1, CachedInv, DowningInv, PausedInv, StartInv DEF downLoadWithURL
<1>2. CASE resume({d})
  BY <1>2, SetSuspendedInv DEF resume
<1>3. CASE pause({d})
  BY <1>3, SetSuspendedInv DEF pause
<1>4. CASE cancel({d})
  BY <1>4, CancelInv
<1>5. CASE cancelAndClearCache(d)
  BY <1>5, ClearInv
<1> QED
  BY <1>1, <1>2, <1>3, <1>4, <1>5 DEF Client

\* Every delegate callback keeps DLInv.
LEMMA MainQueueInv ==
    ASSUME DLInv, NEW t \in Task, MainQueue(t)
    PROVE  DLInv'
<1>1. CASE didReceiveResponse(t)
  <2>1. tasks[t].answer
    BY <1>1 DEF didReceiveResponse
  <2>2. PICK d \in Loader : d = tasks[t].owner
    BY <2>1, OwnerFacts
  <2>3. ResponseComplete(t, d) \/ ResponseTooLong(t, d) \/ ResponseAllow(t, d)
    BY <1>1, <2>2 DEF didReceiveResponse
  <2> QED
    BY <2>1, <2>2, <2>3, ResponseCompleteInv, ResponseTooLongInv, ResponseAllowInv
<1>2. CASE didReceiveData(t)
  BY <1>2, DataInv
<1>3. CASE didCompleteWithError(t)
  BY <1>3, CompleteInv
<1> QED
  BY <1>1, <1>2, <1>3 DEF MainQueue

\* DLInv is inductive.
LEMMA NextInv == DLInv /\ [DLNext]_dlVars => DLInv'
<1> SUFFICES ASSUME DLInv, [DLNext]_dlVars PROVE DLInv'
  OBVIOUS
<1>1. CASE DLNext
  BY <1>1, ClientInv, MainQueueInv, NetworkInv DEF DLNext
<1>2. CASE UNCHANGED dlVars
  BY <1>2 DEF dlVars, DLInv, DLTypeOK, Attached, StreamOnFile, NoLeakedStream,
     DowningHasTask, Outstanding
<1> QED
  BY <1>1, <1>2

\* DLInv holds in every state, for all loaders, tasks and URLs, all server answers
\* and with or without failing file operations.
THEOREM Invariance == DLSpec => []DLInv
<1>1. DLInit => DLInv
  BY InitInv
<1>2. DLInv /\ [DLNext]_dlVars => DLInv'
  BY NextInv
<1> QED
  BY <1>1, <1>2, PTL DEF DLSpec

\* Type correctness of ZFDownLoader: what its methods and its delegate callbacks do
\* to the ivars, the tasks and the files is well-typed in every interleaving.
THEOREM TypeCorrect == DLSpec => []DLTypeOK
<1>1. DLInv => DLTypeOK
  BY DEF DLInv
<1> QED
  BY <1>1, Invariance, PTL

\* No output stream is left open by a loader that waits for no completion: every
\* stream that didReceiveResponse opens is closed by a didCompleteWithError.
THEOREM StreamsClosed == DLSpec => []NoLeakedStream
<1>1. DLInv => NoLeakedStream
  BY DEF DLInv
<1> QED
  BY <1>1, Invariance, PTL

\* A loader whose state is Downing or Pause waits for a completion, which will set
\* another state: no sequence of calls and callbacks strands it there.
THEOREM DowningEnds == DLSpec => []DowningHasTask
<1>1. DLInv => DowningHasTask
  BY DEF DLInv
<1> QED
  BY <1>1, Invariance, PTL

================================================================================
