--------------------------- MODULE ZFDownLoaderManager ---------------------------
(****************************************************************************)
(* ZFDownLoaderManager: the shared object that keeps one ZFDownLoader per   *)
(* URL in a dictionary from the moment a download is asked for until its    *)
(* success or fail block runs, and forwards pause, resume and cancel to it. *)
(*                                                                          *)
(* A call of the manager's downLoadWithURL is identified with the           *)
(* ZFDownLoader it allocates when the URL is not in the dictionary, so      *)
(* Loader also bounds the number of requests in one life of the process.    *)
(****************************************************************************)
EXTENDS ZFDownLoader

VARIABLES
    downLoaderInfos,   \* [URL -> the registered ZFDownLoader, or nil]
    asked              \* the requests made so far in this life of the process

vars == <<loaders, stream, tasks, files, told, downLoaderInfos, asked>>

Registered == {downLoaderInfos[u] : u \in URL} \ {nil}

At(u) == {downLoaderInfos[u]} \ {nil}

----------------------------------------------------------------------------
(* The public methods.                                                      *)

\* The URL is in the dictionary: resume its loader; the caller's blocks are
\* dropped.  Otherwise a new loader is registered and started, and if the file
\* is already cached its success block unregisters it at once.
DownLoad(d, u) ==
    /\ d \notin asked
    /\ asked' = asked \cup {d}
    /\ IF downLoaderInfos[u] # nil
       THEN resume(At(u)) /\ UNCHANGED downLoaderInfos
       ELSE /\ downLoadWithURL(d, u)
            /\ downLoaderInfos' =
                 [downLoaderInfos EXCEPT
                    ![u] = IF isFileExists(files, downLoadCachePath(u))
                           THEN nil ELSE d]

pauseWithURL(u) == pause(At(u)) /\ UNCHANGED <<downLoaderInfos, asked>>

resumeWithURL(u) == resume(At(u)) /\ UNCHANGED <<downLoaderInfos, asked>>

\* Mutant of cancelWithURL: the entry is removed before the completion comes.
cancelWithURLForgets(u) ==
    /\ cancel(At(u))
    /\ downLoaderInfos' = [downLoaderInfos EXCEPT ![u] = nil]
    /\ UNCHANGED asked

cancelWithURL(u) == cancel(At(u)) /\ UNCHANGED <<downLoaderInfos, asked>>

pauseAll == pause(Registered) /\ UNCHANGED <<downLoaderInfos, asked>>

resumeAll == resume(Registered) /\ UNCHANGED <<downLoaderInfos, asked>>

cancelAll == cancel(Registered) /\ UNCHANGED <<downLoaderInfos, asked>>

----------------------------------------------------------------------------
(* The loaders' callbacks, with the blocks the manager hands to its loaders. *)

Response(t) == didReceiveResponse(t) /\ UNCHANGED <<downLoaderInfos, asked>>

Data(t) == didReceiveData(t) /\ UNCHANGED <<downLoaderInfos, asked>>

\* Mutant of Unregister: the blocks leave the entry in the dictionary.
UnregisterForgotten(d) == downLoaderInfos

\* Both blocks remove the entry of the URL, whichever loader it holds.
Unregister(d) == [downLoaderInfos EXCEPT ![loaders[d].url] = nil]

Complete(t) ==
    /\ didCompleteWithError(t)
    /\ downLoaderInfos' = Unregister(tasks[t].owner)
    /\ UNCHANGED asked

Deliver(t) == Response(t) \/ Data(t) \/ Complete(t)

Transfer(t) == Network(t) /\ UNCHANGED <<downLoaderInfos, asked>>

----------------------------------------------------------------------------
(* The process.                                                             *)

\* The process is killed and started again.  Memory is lost; of the files in
\* the temporary and cache directories the system keeps what it likes.
Restart ==
    /\ \E lost \in SUBSET Path :
         files' = [p \in Path |-> IF p \in lost THEN NoFile ELSE files[p]]
    /\ loaders' = [d \in Loader |-> FreshLoader]
    /\ stream' = [d \in Loader |-> nil]
    /\ tasks' = [t \in Task |-> IdleTask]
    /\ told' = [d \in Loader |-> [success |-> 0, fail |-> 0]]
    /\ downLoaderInfos' = [u \in URL |-> nil]
    /\ asked' = {}

Init ==
    /\ DLInit
    /\ downLoaderInfos = [u \in URL |-> nil]
    /\ asked = {}

Next ==
    \/ \E d \in Loader, u \in URL : DownLoad(d, u)
    \/ \E u \in URL : pauseWithURL(u) \/ resumeWithURL(u) \/ cancelWithURL(u)
    \/ pauseAll \/ resumeAll \/ cancelAll
    \/ \E t \in Task : Deliver(t) \/ Transfer(t)
    \/ Restart

Fairness == \A t \in Task : WF_vars(Deliver(t)) /\ WF_vars(Transfer(t))

Spec == Init /\ [][Next]_vars /\ Fairness

----------------------------------------------------------------------------
(* Properties.                                                              *)

\* The servers honour the Range header and the file system does what it is asked.
WellBehaved == ServerKinds \subseteq {"range"} /\ ~IOErrors

\* The loaders' types, and the dictionary maps URLs to loaders.
TypeOK ==
    /\ DLTypeOK
    /\ downLoaderInfos \in [URL -> Loader \cup {nil}]
    /\ asked \in SUBSET Loader

\* A temporary file holds the first chunks of its URL's resource in order, so the
\* Range request from its size continues it, through every pause, cancellation,
\* failure and restart of the process.
TmpIsPrefix ==
    \A u \in URL : isFileExists(files, downLoadTmpPath(u)) =>
        LET f == files[downLoadTmpPath(u)]
        IN  Len(f) <= Length[u] /\ \A i \in 1..Len(f) : f[i] = <<u, i>>

\* The dictionary keeps two transfers from appending to one temporary file: no two
\* tasks of a URL have callbacks to come, even when a cancelled download is asked
\* for again at once.
OneTransferPerURL ==
    \A s, t \in Task : (/\ tasks[s].phase # "idle" /\ tasks[t].phase # "idle"
                         /\ tasks[s].url = tasks[t].url) => s = t

\* A loader is in the dictionary exactly while its task has callbacks to come: none
\* is forgotten there by its blocks (which would block the URL for good), and none
\* is dropped while it can still be paused or cancelled.
RegisteredWhileBusy ==
    \A u \in URL, d \in Loader :
        downLoaderInfos[u] = d <=> \E t \in Task : /\ tasks[t].phase # "idle"
                                                   /\ tasks[t].owner = d
                                                   /\ tasks[t].url = u

\* The blocks of a request that started a loader run once in all, success or fail,
\* and exactly when the loader leaves the dictionary.
ToldWhenDone ==
    \A d \in Loader : loaders[d].url # nil =>
        told[d].success + told[d].fail = IF d \in Registered THEN 0 ELSE 1

\* A success block is handed a path at which the file is.
SuccessMeansStored ==
    \A d \in Loader : told[d].success > 0 =>
                        isFileExists(files, downLoadCachePath(loaders[d].url))

\* The progress that a running or paused loader reports, _tmpSize / _totalSize, is
\* that of the file on disk and never above 1.
ProgressHonest ==
    \A d \in Loader : loaders[d].state \in {"Downing", "Pause"} =>
        /\ loaders[d].tmpSize = Len(files[downLoadTmpPath(loaders[d].url)])
        /\ loaders[d].tmpSize <= loaders[d].totalSize

\* A suspended task can always be resumed: its loader is in the dictionary and
\* shows Pause, which is what -resume requires.
NoStuckTask ==
    \A t \in Task : (Live(t) /\ tasks[t].suspended) =>
        /\ tasks[t].owner = downLoaderInfos[tasks[t].url]
        /\ loaders[tasks[t].owner].state = "Pause"

\* Chunks that are on disk are kept: a temporary file only grows at its end, or
\* leaves for the cache directory; only the system's purge loses any.
ResumeKeepsBytes ==
    [][\A u \in URL : isFileExists(files, downLoadTmpPath(u)) =>
         \/ Restart
         \/ /\ isFileExists(files', downLoadTmpPath(u))
            /\ LET old == files[downLoadTmpPath(u)]
                   new == files'[downLoadTmpPath(u)]
               IN  Len(old) <= Len(new) /\ old = SubSeq(new, 1, Len(old))
         \/ files'[downLoadCachePath(u)] = files[downLoadTmpPath(u)]]_vars

\* A request that started a loader is answered by one of its blocks, unless the
\* client leaves the download paused or the process is killed.
RequestAnswered ==
    \A d \in Loader :
        (d \in Registered) ~>
            \/ told[d].success + told[d].fail > 0
            \/ loaders[d].state = "Pause"
            \/ d \notin asked

----------------------------------------------------------------------------
(* The manager implements ZFDownLoadService: a download's chunks are those  *)
(* of its temporary file, an answer is the block that has run, and a file   *)
(* in the cache is the URL whose whole resource it is.                      *)

Outcome(d) ==
    CASE told[d] = [success |-> 0, fail |-> 0] -> "none"
      [] told[d] = [success |-> 1, fail |-> 0] -> "success"
      [] told[d] = [success |-> 0, fail |-> 1] -> "fail"
      [] OTHER -> "told twice"

Kept(u) ==
    IF isFileExists(files, downLoadTmpPath(u))
    THEN Len(files[downLoadTmpPath(u)]) ELSE 0

Published(n) ==
    LET whole == {u \in URL : files[<<"cache", n>>] = Content(u)}
    IN  IF ~isFileExists(files, <<"cache", n>>) THEN nil
        ELSE IF whole = {} THEN "damaged" ELSE CHOOSE u \in whole : TRUE

PausedURLs ==
    {u \in URL : \E d \in At(u) : loaders[d].state = "Pause"}

Service == INSTANCE ZFDownLoadService WITH
    pending <- downLoaderInfos,
    paused <- PausedURLs,
    outcome <- [d \in Loader |-> Outcome(d)],
    kept <- [u \in URL |-> Kept(u)],
    cache <- [n \in Name |-> Published(n)]

\* The manager does what ZFDownLoadService promises: through every interleaving of
\* calls and callbacks each request is dropped, or answered once with the truth
\* about the file; chunks are kept until they are published whole.
ImplementsService == Service!Spec

----------------------------------------------------------------------------
(* What comments in the code say and the code does not do.                  *)

\* "Download finished": once a loader shows Success it does not turn to Fail; the
\* download it reported to the state block as finished is finished.
SuccessIsFinal ==
    [][\A d \in Loader : (loaders[d].state = "Success" /\ d \in asked') =>
                            loaders'[d].state = "Success"]_vars

================================================================================
