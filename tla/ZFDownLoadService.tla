--------------------------- MODULE ZFDownLoadService ---------------------------
(****************************************************************************)
(* What ZFDownLoaderManager promises its clients, without loaders, tasks,   *)
(* streams, callbacks or file operations.  A URL has at most one request in *)
(* progress; the chunks it has received are kept until they are all there   *)
(* and then published under the file name of the URL; a request is answered *)
(* once, and with success only if a file has been published.                *)
(****************************************************************************)
EXTENDS Naturals

CONSTANTS URL, Name, lastPathComponent, Length, Loader, nil

VARIABLES
    asked,     \* the requests made
    pending,   \* [URL -> the request in progress, or nil]
    paused,    \* the URLs whose download the client has paused
    outcome,   \* [Loader -> the answer each request got]
    kept,      \* [URL -> how many chunks of an unfinished download are kept]
    cache      \* [Name -> the URL whose resource was published, or nil]

service == <<asked, pending, paused, outcome, kept, cache>>

Pending == {u \in URL : pending[u] # nil}

Cached(u) == cache[lastPathComponent[u]] # nil

----------------------------------------------------------------------------
\* A request for a URL in progress is dropped, and ends a pause of it.
Ask(d, u) ==
    /\ d \notin asked
    /\ asked' = asked \cup {d}
    /\ \/ /\ u \in Pending
          /\ paused' = paused \ {u}
          /\ UNCHANGED <<pending, outcome>>
       \/ /\ u \notin Pending /\ Cached(u)
          /\ outcome' = [outcome EXCEPT ![d] = "success"]
          /\ UNCHANGED <<pending, paused>>
       \/ /\ u \notin Pending /\ ~Cached(u)
          /\ pending' = [pending EXCEPT ![u] = d]
          /\ UNCHANGED <<paused, outcome>>
    /\ UNCHANGED <<kept, cache>>

SetPaused ==
    /\ paused' \in SUBSET Pending
    /\ UNCHANGED <<asked, pending, outcome, kept, cache>>

Receive(u) ==
    /\ u \in Pending
    /\ kept[u] < Length[u]
    /\ kept' = [kept EXCEPT ![u] = @ + 1]
    /\ UNCHANGED <<asked, pending, paused, outcome, cache>>

\* A complete file is published unless the name is taken; then it is kept.
Publish(u) ==
    /\ kept[u] = Length[u]
    /\ IF Cached(u)
       THEN UNCHANGED <<kept, cache>>
       ELSE /\ kept' = [kept EXCEPT ![u] = 0]
            /\ cache' = [cache EXCEPT ![lastPathComponent[u]] = u]

PublishOnly(u) ==
    /\ u \in Pending
    /\ Publish(u)
    /\ UNCHANGED <<asked, pending, paused, outcome>>

Answer(u, how) ==
    /\ u \in Pending
    /\ outcome[pending[u]] = "none"
    /\ outcome' = [outcome EXCEPT ![pending[u]] = how]
    /\ pending' = [pending EXCEPT ![u] = nil]
    /\ paused' = paused \ {u}
    /\ UNCHANGED asked

Succeed(u) == Publish(u) /\ Answer(u, "success")

\* A cancelled or failed download keeps its chunks, or what it has published.
Fail(u) == Answer(u, "fail") /\ UNCHANGED <<kept, cache>>

\* A new life of the process finds on disk what the system has not purged.
Restart ==
    /\ asked' = {}
    /\ pending' = [u \in URL |-> nil]
    /\ paused' = {}
    /\ outcome' = [d \in Loader |-> "none"]
    /\ \A u \in URL : kept'[u] \in {0, kept[u]}
    /\ \A n \in Name : cache'[n] \in {nil, cache[n]}

Init ==
    /\ asked = {}
    /\ pending = [u \in URL |-> nil]
    /\ paused = {}
    /\ outcome = [d \in Loader |-> "none"]
    /\ kept = [u \in URL |-> 0]
    /\ cache = [n \in Name |-> nil]

Next ==
    \/ \E d \in Loader, u \in URL : Ask(d, u)
    \/ SetPaused
    \/ \E u \in URL : Receive(u) \/ PublishOnly(u) \/ Succeed(u) \/ Fail(u)
    \/ Restart

\* No request is for ever in progress and not paused.
Answers ==
    \A u \in URL, d \in Loader : []<>(pending[u] # d \/ u \in paused)

Spec == Init /\ [][Next]_service /\ Answers
================================================================================
