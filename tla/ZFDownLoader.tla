------------------------------ MODULE ZFDownLoader ------------------------------
(****************************************************************************)
(* ZFDownLoader: a resumable download of one URL at a time into a temporary *)
(* file that is moved to the cache directory when it is complete.           *)
(*                                                                          *)
(* Every method and every NSURLSession delegate callback runs on the main   *)
(* queue (delegateQueue is the main queue), so each is one atomic action.   *)
(* What interleaves is the caller, the callbacks that wait in the main      *)
(* queue, and the URL loading system, which is outside the repository and   *)
(* is modelled from how the class uses it:                                  *)
(*   - a task's callbacks arrive in the order response, data, completion;   *)
(*     callbacks of different tasks arrive in any order;                    *)
(*   - cancelling a task queues a completion with an error behind the       *)
(*     callbacks that are already queued, which are still delivered;        *)
(*   - suspending a task stops its traffic, not its queued callbacks.       *)
(*                                                                          *)
(* Sizes are counted in chunks: a data callback carries one chunk.          *)
(****************************************************************************)
EXTENDS Integers, Sequences, FiniteSets, ZFFileManagerTool

CONSTANTS
    URL,                \* the URLs that can be downloaded
    Name,               \* the file names their last path components take
    lastPathComponent,  \* [URL -> Name]
    Length,             \* [URL -> size of the resource, in chunks]
    Loader,             \* the ZFDownLoader objects
    Task,               \* the NSURLSessionDataTask objects alive at a time
    ServerKinds,        \* the ways the servers answer, see ResponseKinds
    SizeCap,            \* bound: no answer once a temporary file is longer
    ReportCap,          \* bound: told counts no further than this
    nil

\* range   the Range header is honoured: 206 with Content-Range, or 416 with
\*         "Content-Range: bytes */<length>" when the offset is past the end
\* full    the Range header is ignored: 200 with the whole resource
\* chunked as full, but without Content-Length (chunked transfer encoding)
\* page    an error status whose body is a page of PageLength chunks
ResponseKinds == {"range", "full", "chunked", "page"}
PageLength == 1

ASSUME DownLoaderAssumption ==
    /\ lastPathComponent \in [URL -> Name]
    /\ Length \in [URL -> Nat \ {0}]
    /\ ServerKinds \in SUBSET ResponseKinds
    /\ SizeCap \in Nat /\ ReportCap \in Nat
    /\ nil \notin URL /\ nil \notin Loader /\ nil \notin Task

VARIABLES
    loaders,   \* the ivars of each ZFDownLoader
    stream,    \* outputSream of each: nil, the path of the open file, or Unlinked
    tasks,     \* the data tasks and what waits in the main queue for each
    files,     \* the file system
    told       \* how often each loader ran its success and its fail block

dlVars == <<loaders, stream, tasks, files, told>>

----------------------------------------------------------------------------
(* Paths and contents.  md5Str is taken to be injective on URL.             *)

downLoadTmpPath(u)   == <<"tmp", u>>
downLoadCachePath(u) == <<"cache", lastPathComponent[u]>>

Path == ({"tmp"} \X URL) \cup ({"cache"} \X Name)

Unlinked == <<"unlinked">>   \* an open file whose name was removed

\* The chunk at a position of a resource; position 0 stands for an error page.
Chunk == URL \X Nat
Content(u) == [i \in 1..Length[u] |-> <<u, i>>]

ASSUME DistinctAssumption ==
    /\ nil \notin Path \cup {Unlinked}
    /\ NoFile \notin Seq(Chunk)

----------------------------------------------------------------------------
(* Data tasks.  The main queue holds, for a task, its response if answer is *)
(* TRUE, then the chunks at+1..got of its body, then, once it is over, its  *)
(* completion.                                                              *)

DownState == {"Unknown", "Pause", "Downing", "Success", "Fail"}

LoaderRec == [state: DownState, tmpSize: Nat, totalSize: Nat,
              url: URL \cup {nil}, task: Task \cup {nil}]

FreshLoader == [state |-> "Unknown", tmpSize |-> 0, totalSize |-> 0,
                url |-> nil, task |-> nil]

TaskRec == [phase: {"idle", "sent", "answered", "body", "over"},
            owner: Loader \cup {nil}, url: URL \cup {nil}, offset: Nat,
            suspended: BOOLEAN, answer: BOOLEAN,
            kind: ResponseKinds \cup {nil}, total: Nat,
            at: Nat, got: Nat, len: Nat, error: BOOLEAN]

IdleTask == [phase |-> "idle", owner |-> nil, url |-> nil, offset |-> 0,
             suspended |-> FALSE, answer |-> FALSE, kind |-> nil, total |-> 0,
             at |-> 0, got |-> 0, len |-> 0, error |-> FALSE]

Live(t) == tasks[t].phase \in {"sent", "answered", "body"}

\* [task cancel] and completionHandler(NSURLSessionResponseCancel).
Cancelled(task) ==
    IF task.phase \in {"sent", "answered", "body"}
    THEN [task EXCEPT !.phase = "over", !.error = TRUE]
    ELSE task

\* Mutant of NewTask: the Range header begins one chunk early.
NewTaskEarly(d, u, offset) ==
    [IdleTask EXCEPT !.phase = "sent", !.owner = d, !.url = u, !.offset = offset - 1]

\* Mutant of NewTask: no Range header.
NewTaskWhole(d, u, offset) ==
    [IdleTask EXCEPT !.phase = "sent", !.owner = d, !.url = u]

\* -downLoadWithURL:offset: makes a task and resumes it.
NewTask(d, u, offset) ==
    [IdleTask EXCEPT !.phase = "sent", !.owner = d, !.url = u, !.offset = offset]

\* -cancel invalidates the session, which cancels every task made with it; the
\* tasks of earlier sessions were cancelled when those were invalidated.
CancelSession(S) ==
    [t \in Task |-> IF tasks[t].owner \in S THEN Cancelled(tasks[t]) ELSE tasks[t]]

----------------------------------------------------------------------------
(* The client's blocks.                                                     *)

\* Mutant of Tell: the fail block is never run.
TellSuccess(d, block) ==
    told' = IF block = "success"
            THEN [told EXCEPT ![d][block] = IF @ < ReportCap THEN @ + 1 ELSE @]
            ELSE told

Tell(d, block) ==
    told' = [told EXCEPT ![d][block] = IF @ < ReportCap THEN @ + 1 ELSE @]

\* An open stream follows its file when the file is renamed or removed.
Follow(from, to) ==
    [d \in Loader |-> IF stream[d] = from THEN to ELSE stream[d]]

----------------------------------------------------------------------------
(* The public methods.                                                      *)

\* The file is in the cache: report it and leave any running task alone.
DownLoadCached(d, u) ==
    /\ isFileExists(files, downLoadCachePath(u))
    /\ loaders' = [loaders EXCEPT ![d].url = u, ![d].state = "Success"]
    /\ Tell(d, "success")
    /\ UNCHANGED <<stream, tasks, files>>

SameURL(d, u) ==
    /\ loaders[d].task # nil
    /\ tasks[loaders[d].task].url = u

\* The task of this URL is downloading: only the blocks and paths are replaced.
DownLoadDowning(d, u) ==
    /\ ~isFileExists(files, downLoadCachePath(u))
    /\ SameURL(d, u)
    /\ loaders[d].state = "Downing"
    /\ loaders' = [loaders EXCEPT ![d].url = u]
    /\ UNCHANGED <<stream, tasks, files, told>>

\* The task of this URL is paused: resume it.
DownLoadPaused(d, u) ==
    /\ ~isFileExists(files, downLoadCachePath(u))
    /\ SameURL(d, u)
    /\ loaders[d].state = "Pause"
    /\ loaders' = [loaders EXCEPT ![d].url = u, ![d].state = "Downing"]
    /\ tasks' = [tasks EXCEPT ![loaders[d].task].suspended = FALSE]
    /\ UNCHANGED <<stream, files, told>>

\* Otherwise cancel whatever runs and ask for the bytes after the ones at hand.
DownLoadStart(d, u) ==
    /\ ~isFileExists(files, downLoadCachePath(u))
    /\ ~(SameURL(d, u) /\ loaders[d].state \in {"Downing", "Pause"})
    /\ \E t \in Task, size \in fileTotalSize(files, downLoadTmpPath(u)) :
        /\ tasks[t].phase = "idle"
        /\ loaders' = [loaders EXCEPT ![d].url = u, ![d].tmpSize = size,
                                      ![d].task = t]
        /\ tasks' = [CancelSession({d}) EXCEPT ![t] = NewTask(d, u, size)]
    /\ UNCHANGED <<stream, files, told>>

downLoadWithURL(d, u) ==
    \/ DownLoadCached(d, u)
    \/ DownLoadDowning(d, u)
    \/ DownLoadPaused(d, u)
    \/ DownLoadStart(d, u)

\* resume and pause act on a set of loaders: one for -resume and -pause, those
\* of the dictionary for the manager's resumeAll and pauseAll.
SetSuspended(S, from, to, suspended) ==
    LET act == {d \in S : loaders[d].state = from}
    IN  /\ loaders' = [d \in Loader |->
              IF d \in act THEN [loaders[d] EXCEPT !.state = to] ELSE loaders[d]]
        /\ tasks' = [t \in Task |->
              IF \E d \in act : loaders[d].task = t
              THEN [tasks[t] EXCEPT !.suspended = suspended] ELSE tasks[t]]
        /\ UNCHANGED <<stream, files, told>>

\* Mutant of resume: the state changes but the task stays suspended.
resumeStateOnly(S) == SetSuspended(S, "Pause", "Downing", TRUE)

resume(S) == SetSuspended(S, "Pause", "Downing", FALSE)

pause(S) == SetSuspended(S, "Downing", "Pause", TRUE)

\* cancel changes neither the state nor the stream: the completion callback of
\* the cancelled task will.
cancel(S) ==
    /\ tasks' = CancelSession(S)
    /\ UNCHANGED <<loaders, stream, files, told>>

\* Removes the file in the cache directory; the temporary file stays.
cancelAndClearCache(d) ==
    /\ tasks' = CancelSession({d})
    /\ IF loaders[d].url = nil
       THEN UNCHANGED <<files, stream>>
       ELSE LET path == downLoadCachePath(loaders[d].url)
            IN  \E fs \in removeFileAtPath(files, path) :
                  /\ files' = fs
                  /\ stream' = IF fs # files THEN Follow(path, Unlinked) ELSE stream
    /\ UNCHANGED <<loaders, told>>

----------------------------------------------------------------------------
(* The delegate callbacks, taken from the main queue.                       *)

\* Move the temporary file to the cache directory; streams open on it follow.
MoveToCache(u) ==
    \E fs \in moveFile(files, downLoadTmpPath(u), downLoadCachePath(u)) :
        /\ files' = fs
        /\ stream' = IF fs # files
                     THEN Follow(downLoadTmpPath(u), downLoadCachePath(u))
                     ELSE stream

\* The bytes at hand are all there is.
ResponseComplete(t, d) ==
    /\ loaders[d].tmpSize = tasks[t].total
    /\ MoveToCache(loaders[d].url)
    /\ loaders' = [loaders EXCEPT ![d].totalSize = tasks[t].total,
                                  ![d].state = "Success"]
    /\ tasks' = [tasks EXCEPT ![t] = [Cancelled(@) EXCEPT !.answer = FALSE]]
    /\ UNCHANGED told

\* More bytes at hand than there are: drop them and ask for all.
ResponseTooLong(t, d) ==
    /\ loaders[d].tmpSize > tasks[t].total
    /\ \E new \in Task,
          fs \in removeFileAtPath(files, downLoadTmpPath(loaders[d].url)) :
        /\ tasks[new].phase = "idle"
        /\ files' = fs
        /\ stream' = IF fs # files
                     THEN Follow(downLoadTmpPath(loaders[d].url), Unlinked)
                     ELSE stream
        /\ tasks' = [tasks EXCEPT ![t] = [Cancelled(@) EXCEPT !.answer = FALSE],
                                  ![new] = NewTask(d, tasks[t].url, 0)]
        /\ loaders' = [loaders EXCEPT ![d].totalSize = tasks[t].total,
                                      ![d].task = new]
    /\ UNCHANGED told

\* Mutant of OpenedFile: append:NO, the file is emptied.
OpenedFileEmptied(path) == [files EXCEPT ![path] = <<>>]

\* -open of a stream made with append:YES makes the file if there is none.
OpenedFile(path) ==
    IF isFileExists(files, path) THEN files ELSE [files EXCEPT ![path] = <<>>]

\* Open the temporary file for appending and let the body come.
ResponseAllow(t, d) ==
    LET path == downLoadTmpPath(loaders[d].url)
    IN  /\ loaders[d].tmpSize < tasks[t].total
        /\ files' = OpenedFile(path)
        /\ stream' = [stream EXCEPT ![d] = path]
        /\ loaders' = [loaders EXCEPT ![d].totalSize = tasks[t].total,
                                      ![d].state = "Downing"]
        /\ tasks' = [tasks EXCEPT ![t].answer = FALSE,
                                  ![t].phase = IF @ = "answered" THEN "body" ELSE @]
        /\ UNCHANGED told

didReceiveResponse(t) ==
    /\ tasks[t].answer
    /\ LET d == tasks[t].owner
       IN  ResponseComplete(t, d) \/ ResponseTooLong(t, d) \/ ResponseAllow(t, d)

\* The chunk at the head of a task's queue.
NextChunk(t) ==
    <<tasks[t].url, IF tasks[t].kind = "page" THEN 0 ELSE tasks[t].at + 1>>

\* The result of write:maxLength: is not looked at.
Written(d, chunk) ==
    IF stream[d] \in Path
    THEN {[files EXCEPT ![stream[d]] = Append(@, chunk)]}
            \cup (IF IOErrors THEN {files} ELSE {})
    ELSE {files}

didReceiveData(t) ==
    /\ ~tasks[t].answer /\ tasks[t].at < tasks[t].got
    /\ LET d == tasks[t].owner
       IN  /\ loaders' = [loaders EXCEPT ![d].tmpSize = @ + 1]
           /\ \E fs \in Written(d, NextChunk(t)) : files' = fs
           /\ tasks' = [tasks EXCEPT ![t].at = @ + 1]
    /\ UNCHANGED <<stream, told>>

\* Mutant of Finished: the state is left as it was.
FinishedSilently(t, d, state) ==
    /\ tasks' = [tasks EXCEPT ![t] = IdleTask]
    /\ loaders' = [loaders EXCEPT ![d].task = IF @ = t THEN nil ELSE @]

\* The session drops a finished task, which clears the weak reference to it.
Finished(t, d, state) ==
    /\ tasks' = [tasks EXCEPT ![t] = IdleTask]
    /\ loaders' = [loaders EXCEPT ![d].state = state,
                                  ![d].task = IF @ = t THEN nil ELSE @]

\* Mutant of CloseStream: the stream is not closed.
CloseStreamForgotten(open, d) == open

CloseStream(open, d) == [open EXCEPT ![d] = nil]

\* The stream is closed first; then the file the CURRENT paths name is moved.
CompleteSuccess(t, d) ==
    /\ ~tasks[t].error
    /\ LET from == downLoadTmpPath(loaders[d].url)
           to   == downLoadCachePath(loaders[d].url)
       IN  \E fs \in moveFile(files, from, to) :
             /\ files' = fs
             /\ stream' = CloseStream(IF fs # files THEN Follow(from, to)
                                                    ELSE stream, d)
    /\ Finished(t, d, "Success")
    /\ Tell(d, "success")

CompleteFail(t, d) ==
    /\ tasks[t].error
    /\ stream' = CloseStream(stream, d)
    /\ Finished(t, d, "Fail")
    /\ Tell(d, "fail")
    /\ UNCHANGED files

didCompleteWithError(t) ==
    /\ tasks[t].phase = "over" /\ ~tasks[t].answer /\ tasks[t].at = tasks[t].got
    /\ LET d == tasks[t].owner
       IN  CompleteSuccess(t, d) \/ CompleteFail(t, d)

----------------------------------------------------------------------------
(* The URL loading system and the servers (external).                       *)

Answered(t, kind) ==
    LET task == tasks[t]
        size == Length[task.url]
    IN  CASE kind = "range" /\ task.offset < size ->
               [total |-> size, at |-> task.offset, len |-> size]
          [] kind = "range" /\ task.offset >= size ->
               [total |-> size, at |-> 0, len |-> 0]
          [] kind = "full" -> [total |-> size, at |-> 0, len |-> size]
          [] kind = "chunked" -> [total |-> 0, at |-> 0, len |-> size]
          [] kind = "page" -> [total |-> PageLength, at |-> 0, len |-> PageLength]

ServerAnswers(t) ==
    /\ tasks[t].phase = "sent" /\ ~tasks[t].suspended
    /\ LET tmp == files[downLoadTmpPath(tasks[t].url)]
       IN  tmp # NoFile => Len(tmp) <= SizeCap
    /\ \E kind \in ServerKinds :
         LET a == Answered(t, kind)
         IN  tasks' = [tasks EXCEPT ![t].phase = "answered", ![t].answer = TRUE,
                                    ![t].kind = kind, ![t].total = a.total,
                                    ![t].at = a.at, ![t].got = a.at,
                                    ![t].len = a.len]
    /\ UNCHANGED <<loaders, stream, files, told>>

ServerSends(t) ==
    /\ tasks[t].phase = "body" /\ ~tasks[t].suspended
    /\ tasks[t].got < tasks[t].len
    /\ tasks' = [tasks EXCEPT ![t].got = @ + 1]
    /\ UNCHANGED <<loaders, stream, files, told>>

ServerFinishes(t) ==
    /\ tasks[t].phase = "body" /\ ~tasks[t].suspended
    /\ tasks[t].got = tasks[t].len
    /\ tasks' = [tasks EXCEPT ![t].phase = "over", ![t].error = FALSE]
    /\ UNCHANGED <<loaders, stream, files, told>>

NetworkFails(t) ==
    /\ Live(t) /\ ~tasks[t].suspended
    /\ tasks' = [tasks EXCEPT ![t].phase = "over", ![t].error = TRUE]
    /\ UNCHANGED <<loaders, stream, files, told>>

----------------------------------------------------------------------------
(* A client that uses ZFDownLoader objects directly.                        *)

DLInit ==
    /\ loaders = [d \in Loader |-> FreshLoader]
    /\ stream = [d \in Loader |-> nil]
    /\ tasks = [t \in Task |-> IdleTask]
    /\ files = [p \in Path |-> NoFile]
    /\ told = [d \in Loader |-> [success |-> 0, fail |-> 0]]

MainQueue(t) ==
    didReceiveResponse(t) \/ didReceiveData(t) \/ didCompleteWithError(t)

Network(t) ==
    ServerAnswers(t) \/ ServerSends(t) \/ ServerFinishes(t) \/ NetworkFails(t)

Client(d) ==
    \/ \E u \in URL : downLoadWithURL(d, u)
    \/ resume({d})
    \/ pause({d})
    \/ cancel({d})
    \/ cancelAndClearCache(d)

DLNext ==
    \/ \E d \in Loader : Client(d)
    \/ \E t \in Task : MainQueue(t) \/ Network(t)

\* The main run loop serves its queue, and the URL loading system ends every
\* task that is not suspended.  The client owes nothing.
DLFairness == \A t \in Task : WF_dlVars(MainQueue(t)) /\ WF_dlVars(Network(t))

DLSpec == DLInit /\ [][DLNext]_dlVars /\ DLFairness

----------------------------------------------------------------------------
(* Properties.                                                              *)

\* The tasks of a loader that have not delivered their completion yet.
Outstanding(d) == {t \in Task : tasks[t].phase # "idle" /\ tasks[t].owner = d}

\* The ivars, the stream, the data tasks, the files and the block counts of every
\* ZFDownLoader keep their types: in particular no Range header ever asks for a
\* negative offset and _tmpSize and _totalSize stay non-negative.
DLTypeOK ==
    /\ loaders \in [Loader -> LoaderRec]
    /\ stream \in [Loader -> Path \cup {nil, Unlinked}]
    /\ tasks \in [Task -> TaskRec]
    /\ files \in [Path -> Seq(Chunk) \cup {NoFile}]
    /\ told \in [Loader -> [success: 0..ReportCap, fail: 0..ReportCap]]

\* The output stream that didReceiveResponse opens is never left open by a loader
\* that waits for no completion: whatever the client calls, whatever the servers
\* answer and however the callbacks of replaced tasks interleave, one more
\* didCompleteWithError will close it.
NoLeakedStream == \A d \in Loader : stream[d] # nil => Outstanding(d) # {}

\* A loader that shows Downing or Pause still has a task whose completion will
\* take it out of that state: cancel, which does not touch the state, and
\* completions of replaced tasks never leave it there for good.
DowningHasTask ==
    \A d \in Loader : loaders[d].state \in {"Downing", "Pause"} => Outstanding(d) # {}

\* "A finished file is returned at once": a file in the cache directory is the
\* whole of a resource of that name, which is what -downLoadWithURL: assumes when
\* it answers a request from the cache without asking a server.
CacheWhole ==
    \A n \in Name : files[<<"cache", n>>] # NoFile =>
        \E u \in URL : lastPathComponent[u] = n /\ files[<<"cache", n>>] = Content(u)

\* The loader removed a temporary file that was too long, asked for the resource
\* from its first byte, and has not begun to receive it.
DownloadingAgain(d) ==
    \E t \in Task : /\ tasks[t].phase \in {"sent", "answered"}
                    /\ tasks[t].owner = d /\ tasks[t].offset = 0
                    /\ loaders[d].tmpSize > loaders[d].totalSize
                    /\ loaders[d].totalSize > 0

\* "Download again": the second request that didReceiveResponse makes after
\* removing a temporary file that is longer than the resource gets somewhere: the
\* loader does not remove and ask again for ever.
RestartDownloads == \A d \in Loader : DownloadingAgain(d) ~> ~DownloadingAgain(d)

================================================================================
