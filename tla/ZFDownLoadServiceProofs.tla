------------------------ MODULE ZFDownLoadServiceProofs ------------------------
(****************************************************************************)
(* ZFDownLoaderManager implements the safety part of ZFDownLoadService: the *)
(* initial states map to initial states and every step of the manager, its  *)
(* loaders, the network and the system maps to a step of the service or to  *)
(* no step at all.  MInv says what the mapping cannot see: the file that a  *)
(* completion moves is whole, the loader it tells has told nothing.         *)
(*                                                                          *)
(* The mapped variables are functions of a file's content, of a loader's    *)
(* block counts and of the loaders' states; those functions come first.     *)
(****************************************************************************)
EXTENDS ZFDownLoaderManagerProofs

KeptOf(f) == IF f # NoFile THEN Len(f) ELSE 0

PublishedOf(f) ==
    LET whole == {u \in URL : f = Content(u)}
    IN  IF f = NoFile THEN nil
        ELSE IF whole = {} THEN "damaged" ELSE CHOOSE u \in whole : TRUE

OutcomeOf(r) ==
    CASE r = [success |-> 0, fail |-> 0] -> "none"
      [] r = [success |-> 1, fail |-> 0] -> "success"
      [] r = [success |-> 0, fail |-> 1] -> "fail"
      [] OTHER -> "told twice"

KeptMap == [u \in URL |-> KeptOf(files[downLoadTmpPath(u)])]

CacheMap == [n \in Name |-> PublishedOf(files[<<"cache", n>>])]

OutcomeMap == [d \in Loader |-> OutcomeOf(told[d])]

\* The variables of the service under the refinement mapping, now and after a step.
LEMMA Mapped ==
    /\ [u \in URL |-> Kept(u)] = KeptMap /\ [u \in URL |-> Kept(u)]' = KeptMap'
    /\ [n \in Name |-> Published(n)] = CacheMap /\ [n \in Name |-> Published(n)]' = CacheMap'
    /\ [d \in Loader |-> Outcome(d)] = OutcomeMap /\ [d \in Loader |-> Outcome(d)]' = OutcomeMap'
<1>1. [u \in URL |-> Kept(u)] = KeptMap /\ [u \in URL |-> Kept(u)]' = KeptMap'
  BY DEF KeptMap, Kept, KeptOf, isFileExists
<1>2. [n \in Name |-> Published(n)] = CacheMap /\ [n \in Name |-> Published(n)]' = CacheMap'
  BY DEF CacheMap, Published, PublishedOf, isFileExists
<1>3. [d \in Loader |-> Outcome(d)] = OutcomeMap /\ [d \in Loader |-> Outcome(d)]' = OutcomeMap'
  BY DEF OutcomeMap, Outcome, OutcomeOf
<1> QED
  BY <1>1, <1>2, <1>3

\* What the mapping makes of the counts of the blocks.
LEMMA OutcomeFacts ==
    /\ OutcomeOf([success |-> 0, fail |-> 0]) = "none"
    /\ OutcomeOf([success |-> 1, fail |-> 0]) = "success"
    /\ OutcomeOf([success |-> 0, fail |-> 1]) = "fail"
<1> DEFINE none == [success |-> 0, fail |-> 0]
           good == [success |-> 1, fail |-> 0]
           bad == [success |-> 0, fail |-> 1]
<1>1. none.success = 0 /\ none.fail = 0 /\ good.success = 1 /\ bad.fail = 1 /\ good.fail = 0
  OBVIOUS
<1>2. none # good /\ none # bad /\ good # bad
  BY <1>1
<1> QED
  BY <1>2 DEF OutcomeOf

\* The resources of two URLs differ.
LEMMA ContentInjective ==
    ASSUME NEW u \in URL, NEW v \in URL, Content(u) = Content(v)
    PROVE  u = v
<1>1. Length[u] \in Nat \ {0} /\ Length[v] \in Nat \ {0}
  BY DownLoaderAssumption
<1>2. Content(u)[1] = <<u, 1>> /\ Content(v)[1] = <<v, 1>>
  BY <1>1 DEF Content
<1>3. <<u, 1>> = <<v, 1>>
  BY <1>2
<1> QED
  BY <1>3

\* What the mapping makes of a file in the cache directory.
LEMMA PublishedFacts ==
    /\ PublishedOf(NoFile) = nil
    /\ \A u \in URL : Content(u) # NoFile => PublishedOf(Content(u)) = u
<1>1. PublishedOf(NoFile) = nil
  BY DEF PublishedOf
<1>2. ASSUME NEW u \in URL, Content(u) # NoFile
      PROVE  PublishedOf(Content(u)) = u
  <2> DEFINE whole == {v \in URL : Content(u) = Content(v)}
  <2>1. whole = {u}
    BY ContentInjective
  <2> HIDE DEF whole
  <2>2. (CHOOSE v \in whole : TRUE) = u
    BY <2>1
  <2> QED
    BY <1>2, <2>1, <2>2 DEF PublishedOf, whole
<1> QED
  BY <1>1, <1>2

\* A file is published exactly when there is one.
LEMMA CachedFacts ==
    ASSUME MInv, NEW u \in URL
    PROVE  /\ lastPathComponent[u] \in Name
           /\ CacheMap[lastPathComponent[u]] # nil <=> files[downLoadCachePath(u)] # NoFile
<1>1. /\ lastPathComponent[u] \in Name
      /\ downLoadCachePath(u) = <<"cache", lastPathComponent[u]>>
  BY TmpPaths
<1>2. CacheMap[lastPathComponent[u]] = PublishedOf(files[downLoadCachePath(u)])
  BY <1>1 DEF CacheMap
<1>3. ASSUME files[downLoadCachePath(u)] # NoFile
      PROVE  PublishedOf(files[downLoadCachePath(u)]) # nil
  <2>1. PICK v \in URL : files[downLoadCachePath(u)] = Content(v)
    BY <1>1, <1>3 DEF MInv, CacheWhole
  <2> QED
    BY <1>3, <2>1, PublishedFacts, DownLoaderAssumption
<1> QED
  BY <1>1, <1>2, <1>3, PublishedFacts

\* Steps that change no file, no count or no state leave the mapped variables alone.
LEMMA MapFrame ==
    /\ UNCHANGED files => UNCHANGED <<KeptMap, CacheMap>>
    /\ UNCHANGED told => UNCHANGED OutcomeMap
BY DEF KeptMap, CacheMap, OutcomeMap

\* The paused URLs are those whose registered loader shows Pause.
LEMMA PausedFrame ==
    ASSUME UNCHANGED downLoaderInfos,
           \A u \in URL : downLoaderInfos[u] # nil =>
               (loaders'[downLoaderInfos[u]].state = "Pause" <=>
                    loaders[downLoaderInfos[u]].state = "Pause")
    PROVE  UNCHANGED PausedURLs
BY DEF PausedURLs, At

\* A move of a whole file publishes it, or finds the name taken.
LEMMA MoveMaps ==
    ASSUME WellBehaved, MInv, NEW u \in URL, files[downLoadTmpPath(u)] # NoFile,
           Len(files[downLoadTmpPath(u)]) = Length[u],
           files' \in moveFile(files, downLoadTmpPath(u), downLoadCachePath(u))
    PROVE  /\ KeptMap[u] = Length[u]
           /\ IF CacheMap[lastPathComponent[u]] # nil
              THEN KeptMap' = KeptMap /\ CacheMap' = CacheMap
              ELSE /\ KeptMap' = [KeptMap EXCEPT ![u] = 0]
                   /\ CacheMap' = [CacheMap EXCEPT ![lastPathComponent[u]] = u]
<1> DEFINE tmp == downLoadTmpPath(u)
           to == downLoadCachePath(u)
<1>1. IF files[to] # NoFile THEN files' = files
      ELSE /\ files'[tmp] = NoFile /\ files'[to] = Content(u)
           /\ \A p \in Path \ {tmp, to} : files'[p] = files[p]
  BY MoveOutcome DEF WellBehaved
<1>2. KeptMap[u] = Length[u]
  BY DEF KeptMap, KeptOf
<1>3. CacheMap[lastPathComponent[u]] # nil <=> files[to] # NoFile
  BY CachedFacts
<1>4. CASE files[to] # NoFile
  BY <1>1, <1>2, <1>3, <1>4, MapFrame
<1>5. CASE files[to] = NoFile
  <2>1. /\ files'[tmp] = NoFile /\ files'[to] = Content(u)
        /\ \A p \in Path \ {tmp, to} : files'[p] = files[p]
    BY <1>1, <1>5
  <2>2. Content(u) # NoFile
    BY WholeFile
  <2>3. ASSUME NEW v \in URL
        PROVE  KeptOf(files'[downLoadTmpPath(v)]) = IF v = u THEN 0 ELSE KeptMap[v]
    BY <2>1, TmpPaths DEF KeptOf, KeptMap
  <2>4. ASSUME NEW n \in Name
        PROVE  PublishedOf(files'[<<"cache", n>>]) =
                 IF n = lastPathComponent[u] THEN u ELSE CacheMap[n]
    <3>1. CASE n = lastPathComponent[u]
      BY <2>1, <2>2, <3>1, TmpPaths, PublishedFacts
    <3>2. CASE n # lastPathComponent[u]
      <4>1. <<"cache", n>> \in Path \ {tmp, to}
        BY <3>2, TmpPaths
      <4> QED
        BY <2>1, <3>2, <4>1 DEF CacheMap
    <3> QED
      BY <3>1, <3>2
  <2>5. KeptMap' = [KeptMap EXCEPT ![u] = 0]
    BY <2>3 DEF KeptMap
  <2>6. CacheMap' = [CacheMap EXCEPT ![lastPathComponent[u]] = u]
    BY <2>4 DEF CacheMap
  <2> QED
    BY <1>2, <1>3, <1>5, <2>5, <2>6
<1> QED
  BY <1>4, <1>5

----------------------------------------------------------------------------
(* The steps.                                                               *)

\* A step that the service does not see.
LEMMA Unseen ==
    ASSUME UNCHANGED <<asked, downLoaderInfos, PausedURLs, KeptMap, CacheMap, OutcomeMap>>
    PROVE  UNCHANGED Service!service
BY Mapped DEF Service!service

\* The URL of a busy task is pending.
LEMMA BusyPending ==
    ASSUME MInv, NEW t \in Task, Busy(t)
    PROVE  /\ tasks[t].url \in Service!Pending
           /\ downLoaderInfos[tasks[t].url] = tasks[t].owner
           /\ OutcomeMap[tasks[t].owner] = "none"
<1>1. /\ tasks[t].owner \in Loader /\ tasks[t].url \in URL
      /\ downLoaderInfos[tasks[t].url] = tasks[t].owner /\ Untold(tasks[t].owner)
  BY BusyFacts DEF Entered
<1>2. told[tasks[t].owner] = [success |-> 0, fail |-> 0]
  BY <1>1, Types DEF MInv, Untold
<1>3. OutcomeMap[tasks[t].owner] = "none"
  BY <1>1, <1>2, OutcomeFacts DEF OutcomeMap
<1> QED
  BY <1>1, <1>3, DownLoaderAssumption DEF Service!Pending

\* A data callback is the arrival of a chunk.
LEMMA DataService ==
    ASSUME WellBehaved, MInv, NEW t \in Task, Data(t)
    PROVE  Service!Receive(tasks[t].url)
<1> DEFINE u == tasks[t].url
           tmp == downLoadTmpPath(u)
           g == Append(files[tmp], <<u, Kept(u) + 1>>)
<1>1. /\ u \in URL /\ Busy(t)
      /\ \A l \in Loader : loaders'[l].state = loaders[l].state
      /\ UNCHANGED <<told, downLoaderInfos, asked>>
      /\ files[tmp] \in Seq(Chunk) /\ Len(files[tmp]) = Kept(u) /\ Kept(u) < Length[u]
      /\ files' = [files EXCEPT ![tmp] = g]
      /\ <<u, Kept(u) + 1>> \in Chunk
  BY DataEffect
<1>2. g \in Seq(Chunk) /\ Len(g) = Kept(u) + 1
  BY <1>1
<1>3. /\ g # NoFile /\ files[tmp] # NoFile
      /\ files \in [Path -> Seq(Chunk) \cup {NoFile}]
  BY <1>1, <1>2, DistinctAssumption, Types DEF MInv
<1> HIDE DEF g
<1>4. KeptMap[u] = Kept(u)
  BY <1>1, <1>3 DEF KeptMap, KeptOf
<1>5. ASSUME NEW v \in URL
      PROVE  KeptOf(files'[downLoadTmpPath(v)]) = IF v = u THEN Kept(u) + 1 ELSE KeptMap[v]
  BY <1>1, <1>2, <1>3, TmpPaths DEF KeptOf, KeptMap
<1>6. KeptMap' = [KeptMap EXCEPT ![u] = Kept(u) + 1]
  BY <1>5 DEF KeptMap
<1>7. UNCHANGED CacheMap
  <2>1. \A n \in Name : files'[<<"cache", n>>] = files[<<"cache", n>>]
    BY <1>1, <1>3, TmpPaths
  <2> QED
    BY <2>1 DEF CacheMap
<1>8. UNCHANGED PausedURLs
  <2>1. \A v \in URL : downLoaderInfos[v] # nil => downLoaderInfos[v] \in Loader
    BY DEF MInv
  <2> QED
    BY <1>1, <2>1, PausedFrame
<1>9. UNCHANGED OutcomeMap
  BY <1>1, MapFrame
<1>10. u \in Service!Pending
  BY <1>1, BusyPending
<1> QED
  BY <1>1, <1>4, <1>6, <1>7, <1>8, <1>9, <1>10, Mapped DEF Service!Receive

\* A response publishes a complete file, or the service does not see it.
LEMMA ResponseService ==
    ASSUME WellBehaved, MInv, NEW t \in Task, Response(t)
    PROVE  Service!PublishOnly(tasks[t].url) \/ UNCHANGED Service!service
<1> DEFINE u == tasks[t].url
           d == tasks[t].owner
           tmp == downLoadTmpPath(u)
<1>1. /\ u \in URL /\ d \in Loader /\ Busy(t)
      /\ loaders[d].state = "Unknown" /\ loaders'[d].state # "Pause"
      /\ \A l \in Loader \ {d} : loaders'[l] = loaders[l]
      /\ UNCHANGED <<told, downLoaderInfos, asked>>
      /\ \/ /\ files[tmp] # NoFile /\ Len(files[tmp]) = Length[u]
            /\ files' \in moveFile(files, tmp, downLoadCachePath(u))
         \/ files' = files
         \/ files[tmp] = NoFile /\ files' = [files EXCEPT ![tmp] = <<>>]
  BY ResponseEffect
<1>2. UNCHANGED PausedURLs
  <2>1. \A v \in URL : downLoaderInfos[v] # nil => downLoaderInfos[v] \in Loader
    BY DEF MInv
  <2> QED
    BY <1>1, <2>1, PausedFrame
<1>3. UNCHANGED OutcomeMap
  BY <1>1, MapFrame
<1>4. CASE /\ files[tmp] # NoFile /\ Len(files[tmp]) = Length[u]
           /\ files' \in moveFile(files, tmp, downLoadCachePath(u))
  <2>1. /\ KeptMap[u] = Length[u]
        /\ IF CacheMap[lastPathComponent[u]] # nil
           THEN KeptMap' = KeptMap /\ CacheMap' = CacheMap
           ELSE /\ KeptMap' = [KeptMap EXCEPT ![u] = 0]
                /\ CacheMap' = [CacheMap EXCEPT ![lastPathComponent[u]] = u]
    BY <1>1, <1>4, MoveMaps
  <2>2. u \in Service!Pending
    BY <1>1, BusyPending
  <2> QED
    BY <1>1, <1>2, <1>3, <2>1, <2>2, Mapped
       DEF Service!PublishOnly, Service!Publish, Service!Cached
<1>5. CASE files' = files
  BY <1>1, <1>2, <1>3, <1>5, MapFrame, Unseen
<1>6. CASE files[tmp] = NoFile /\ files' = [files EXCEPT ![tmp] = <<>>]
  <2>1. files \in [Path -> Seq(Chunk) \cup {NoFile}] /\ Len(<<>>) = 0 /\ tmp \in Path
    BY <1>1, TmpPaths, Types DEF MInv
  <2>2. \A v \in URL : KeptOf(files'[downLoadTmpPath(v)]) = KeptOf(files[downLoadTmpPath(v)])
    BY <1>1, <1>6, <2>1, TmpPaths DEF KeptOf
  <2>3. \A n \in Name : files'[<<"cache", n>>] = files[<<"cache", n>>]
    BY <1>1, <1>6, <2>1, TmpPaths
  <2>4. UNCHANGED <<KeptMap, CacheMap>>
    BY <2>2, <2>3 DEF KeptMap, CacheMap
  <2> QED
    BY <1>1, <1>2, <1>3, <2>4, Unseen
<1> QED
  BY <1>1, <1>4, <1>5, <1>6

\* A completion answers the request, with success once the file is published.
LEMMA CompleteService ==
    ASSUME WellBehaved, ReportCap > 0, MInv, NEW t \in Task, Complete(t)
    PROVE  Service!Succeed(tasks[t].url) \/ Service!Fail(tasks[t].url)
<1> DEFINE u == tasks[t].url
           d == tasks[t].owner
           tmp == downLoadTmpPath(u)
<1>1. /\ u \in URL /\ d \in Loader /\ Busy(t) /\ Entered(t)
      /\ \A l \in Loader \ {d} : loaders'[l] = loaders[l] /\ told'[l] = told[l]
      /\ downLoaderInfos' = [downLoaderInfos EXCEPT ![u] = nil]
      /\ UNCHANGED asked
      /\ \/ /\ files[tmp] # NoFile /\ Len(files[tmp]) = Length[u]
            /\ files' \in moveFile(files, tmp, downLoadCachePath(u))
            /\ told'[d].success = 1 /\ told'[d].fail = 0
         \/ /\ files' = files
            /\ told'[d].success = 0 /\ told'[d].fail = 1
  BY CompleteEffect
<1>2. u \in Service!Pending /\ downLoaderInfos[u] = d /\ OutcomeMap[d] = "none"
  BY <1>1, BusyPending
<1>3. downLoaderInfos \in [URL -> Loader \cup {nil}]
  BY DEF MInv
<1>4. PausedURLs' = PausedURLs \ {u}
  <2>1. ASSUME NEW v \in URL
        PROVE  v \in PausedURLs' <=> v \in PausedURLs /\ v # u
    <3>1. CASE v = u
      BY <1>1, <1>3, <3>1 DEF PausedURLs, At
    <3>2. CASE v # u
      <4>1. downLoaderInfos'[v] = downLoaderInfos[v] /\ downLoaderInfos[v] # d
        BY <1>1, <1>3, <3>2, OneEntry
      <4>2. downLoaderInfos[v] # nil =>
              loaders'[downLoaderInfos[v]] = loaders[downLoaderInfos[v]]
        BY <1>1, <1>3, <4>1
      <4> QED
        BY <3>2, <4>1, <4>2 DEF PausedURLs, At
    <3> QED
      BY <3>1, <3>2
  <2> QED
    BY <2>1 DEF PausedURLs
<1>5. told' \in [Loader -> [success: 0..ReportCap, fail: 0..ReportCap]]
  BY ManagerDLInv DEF MInv, DLInv, DLTypeOK, Next, Deliver
<1>6. ASSUME NEW how \in {"success", "fail"},
             told'[d] = IF how = "success" THEN [success |-> 1, fail |-> 0]
                        ELSE [success |-> 0, fail |-> 1]
      PROVE  Service!Answer(u, how)
  <2>1. OutcomeOf(told'[d]) = how
    BY <1>6, OutcomeFacts
  <2>2. \A l \in Loader : OutcomeOf(told'[l]) = IF l = d THEN how ELSE OutcomeMap[l]
    BY <1>1, <2>1 DEF OutcomeMap
  <2>3. OutcomeMap' = [OutcomeMap EXCEPT ![d] = how]
    BY <2>2 DEF OutcomeMap
  <2> QED
    BY <1>1, <1>2, <1>4, <2>3, Mapped DEF Service!Answer
<1>7. CASE /\ files[tmp] # NoFile /\ Len(files[tmp]) = Length[u]
           /\ files' \in moveFile(files, tmp, downLoadCachePath(u))
           /\ told'[d].success = 1 /\ told'[d].fail = 0
  <2>1. told'[d] = [success |-> 1, fail |-> 0]
    BY <1>1, <1>5, <1>7
  <2>2. Service!Answer(u, "success")
    BY <1>6, <2>1
  <2>3. /\ KeptMap[u] = Length[u]
        /\ IF CacheMap[lastPathComponent[u]] # nil
           THEN KeptMap' = KeptMap /\ CacheMap' = CacheMap
           ELSE /\ KeptMap' = [KeptMap EXCEPT ![u] = 0]
                /\ CacheMap' = [CacheMap EXCEPT ![lastPathComponent[u]] = u]
    BY <1>1, <1>7, MoveMaps
  <2>4. Service!Publish(u)
    BY <2>3, Mapped DEF Service!Publish, Service!Cached
  <2> QED
    BY <2>2, <2>4 DEF Service!Succeed
<1>8. CASE files' = files /\ told'[d].success = 0 /\ told'[d].fail = 1
  <2>1. told'[d] = [success |-> 0, fail |-> 1]
    BY <1>1, <1>5, <1>8
  <2>2. Service!Answer(u, "fail")
    BY <1>6, <2>1
  <2> QED
    BY <1>8, <2>2, MapFrame, Mapped DEF Service!Fail
<1> QED
  BY <1>1, <1>7, <1>8

\* pause and resume change the set of paused URLs, and nothing else the service sees.
LEMMA SuspendService ==
    ASSUME MInv, NEW S, pause(S) \/ resume(S), UNCHANGED <<downLoaderInfos, asked>>
    PROVE  Service!SetPaused
<1>1. UNCHANGED <<files, told>>
  BY DEF pause, resume, SetSuspended
<1>2. PausedURLs' \in SUBSET Service!Pending
  BY DEF PausedURLs, At, Service!Pending
<1> QED
  BY <1>1, <1>2, MapFrame, Mapped DEF Service!SetPaused

\* The service does not see a cancellation before its completion.
LEMMA CancelService ==
    ASSUME NEW S, cancel(S), UNCHANGED <<downLoaderInfos, asked>>
    PROVE  UNCHANGED Service!service
<1>1. UNCHANGED <<loaders, files, told>>
  BY DEF cancel
<1>2. UNCHANGED PausedURLs
  BY <1>1, PausedFrame
<1> QED
  BY <1>1, <1>2, MapFrame, Unseen

\* Nor the network.
LEMMA TransferService ==
    ASSUME NEW t \in Task, Transfer(t)
    PROVE  UNCHANGED Service!service
<1>1. UNCHANGED <<loaders, files, told, downLoaderInfos, asked>>
  BY DEF Transfer, Network, ServerAnswers, ServerSends, ServerFinishes, NetworkFails
<1>2. UNCHANGED PausedURLs
  BY <1>1, PausedFrame
<1> QED
  BY <1>1, <1>2, MapFrame, Unseen

\* A request is dropped, answered from the cache or started.
LEMMA DownLoadService ==
    ASSUME WellBehaved, ReportCap > 0, MInv, NEW d \in Loader, NEW u \in URL,
           DownLoad(d, u)
    PROVE  Service!Ask(d, u)
<1>1. /\ d \notin asked /\ asked' = asked \cup {d}
      /\ downLoaderInfos \in [URL -> Loader \cup {nil}]
      /\ loaders \in [Loader -> LoaderRec]
  BY Types DEF DownLoad, MInv
<1>2. CASE downLoaderInfos[u] # nil
  <2>1. resume(At(u)) /\ UNCHANGED downLoaderInfos
    BY <1>2 DEF DownLoad
  <2>2. UNCHANGED <<files, told>>
    BY <2>1 DEF resume, SetSuspended
  <2> DEFINE e == downLoaderInfos[u]
  <2>3. /\ e \in Loader /\ loaders'[e].state # "Pause"
        /\ \A l \in Loader \ {e} : loaders'[l] = loaders[l]
    <3>1. e \in Loader /\ At(u) = {e}
      BY <1>1, <1>2 DEF At
    <3>2. loaders' = [l \in Loader |->
              IF l = e /\ loaders[l].state = "Pause"
              THEN [loaders[l] EXCEPT !.state = "Downing"] ELSE loaders[l]]
      BY <2>1, <3>1 DEF resume, SetSuspended
    <3> QED
      BY <1>1, <3>1, <3>2 DEF LoaderRec
  <2>4. \A v \in URL : downLoaderInfos[v] = e => v = u
    <3>1. PICK t \in Task : Busy(t) /\ tasks[t].owner = e /\ tasks[t].url = u
      BY <1>2 DEF MInv, EntryOK
    <3> QED
      BY <3>1, OneEntry
  <2>5. PausedURLs' = PausedURLs \ {u}
    <3>1. ASSUME NEW v \in URL
          PROVE  v \in PausedURLs' <=> v \in PausedURLs /\ v # u
      <4>1. CASE v = u
        BY <1>2, <2>1, <2>3, <4>1 DEF PausedURLs, At
      <4>2. CASE v # u
        <5>1. downLoaderInfos[v] # nil =>
                loaders'[downLoaderInfos[v]] = loaders[downLoaderInfos[v]]
          BY <1>1, <2>3, <2>4, <4>2
        <5> QED
          BY <2>1, <4>2, <5>1 DEF PausedURLs, At
      <4> QED
        BY <4>1, <4>2
    <3> QED
      BY <3>1 DEF PausedURLs
  <2>6. u \in Service!Pending
    BY <1>2 DEF Service!Pending
  <2> QED
    BY <1>1, <2>1, <2>2, <2>5, <2>6, MapFrame, Mapped DEF Service!Ask
<1>3. CASE downLoaderInfos[u] = nil
  <2>1. /\ downLoadWithURL(d, u)
        /\ downLoaderInfos' = [downLoaderInfos EXCEPT
              ![u] = IF files[downLoadCachePath(u)] # NoFile THEN nil ELSE d]
    BY <1>3 DEF DownLoad, isFileExists
  <2>2. /\ loaders[d] = FreshLoader /\ Untold(d)
        /\ \A v \in URL : downLoaderInfos[v] # d
    BY <1>1, FreshFacts
  <2>3. loaders[d].task = nil /\ loaders[d].state = "Unknown"
    <3>1. FreshLoader.task = nil /\ FreshLoader.state = "Unknown"
      BY DEF FreshLoader
    <3> QED
      BY <2>2, <3>1
  <2>4. u \notin Service!Pending
    BY <1>3 DEF Service!Pending
  <2>5. CacheMap[lastPathComponent[u]] # nil <=> files[downLoadCachePath(u)] # NoFile
    BY CachedFacts
  <2>6. DownLoadCached(d, u) \/ DownLoadStart(d, u)
    BY <2>1, <2>3 DEF downLoadWithURL, DownLoadDowning, DownLoadPaused, SameURL
  <2>7. CASE DownLoadCached(d, u)
    <3>1. /\ files[downLoadCachePath(u)] # NoFile
          /\ loaders' = [loaders EXCEPT ![d].url = u, ![d].state = "Success"]
          /\ Tell(d, "success") /\ UNCHANGED files
      BY <2>7 DEF DownLoadCached, isFileExists
    <3>2. downLoaderInfos' = downLoaderInfos
      BY <1>1, <1>3, <2>1, <3>1
    <3>3. /\ told'[d].success = 1 /\ told'[d].fail = 0
          /\ \A l \in Loader \ {d} : told'[l] = told[l]
      BY <2>2, <3>1, FirstTell
    <3>4. told'[d] = [success |-> 1, fail |-> 0]
      <4>1. DLInv'
        BY ManagerDLInv DEF MInv, Next
      <4>2. told' \in [Loader -> [success: 0..ReportCap, fail: 0..ReportCap]]
        BY <4>1 DEF DLInv, DLTypeOK
      <4> QED
        BY <3>3, <4>2
    <3>5. \A l \in Loader : OutcomeOf(told'[l]) = IF l = d THEN "success" ELSE OutcomeMap[l]
      BY <3>3, <3>4, OutcomeFacts DEF OutcomeMap
    <3>6. OutcomeMap' = [OutcomeMap EXCEPT ![d] = "success"]
      BY <3>5 DEF OutcomeMap
    <3>7. UNCHANGED PausedURLs
      <4>1. \A l \in Loader \ {d} : loaders'[l] = loaders[l]
        BY <1>1, <3>1
      <4> QED
        BY <1>1, <2>2, <3>2, <4>1, PausedFrame
    <3> QED
      BY <1>1, <2>4, <2>5, <3>1, <3>2, <3>6, <3>7, MapFrame, Mapped
         DEF Service!Ask, Service!Cached
  <2>8. CASE DownLoadStart(d, u)
    <3>1. PICK t \in Task, size \in fileTotalSize(files, downLoadTmpPath(u)) :
            loaders' = [loaders EXCEPT ![d].url = u, ![d].tmpSize = size, ![d].task = t]
      BY <2>8 DEF DownLoadStart
    <3>2. files[downLoadCachePath(u)] = NoFile /\ UNCHANGED <<files, told>>
      BY <2>8 DEF DownLoadStart, isFileExists
    <3>3. downLoaderInfos' = [downLoaderInfos EXCEPT ![u] = d]
      BY <2>1, <3>2
    <3>4. \A l \in Loader : loaders'[l].state = loaders[l].state
      BY <1>1, <3>1 DEF LoaderRec
    <3>5. UNCHANGED PausedURLs
      <4>1. ASSUME NEW v \in URL
            PROVE  v \in PausedURLs' <=> v \in PausedURLs
        <5>1. CASE v = u
          <6>1. loaders'[d].state # "Pause"
            BY <2>3, <3>4
          <6> QED
            BY <1>1, <1>3, <3>3, <5>1, <6>1 DEF PausedURLs, At
        <5>2. CASE v # u
          <6>1. downLoaderInfos'[v] = downLoaderInfos[v]
                /\ downLoaderInfos[v] \in Loader \cup {nil}
            BY <1>1, <3>3, <5>2
          <6> QED
            BY <3>4, <6>1 DEF PausedURLs, At
        <5> QED
          BY <5>1, <5>2
      <4> QED
        BY <4>1 DEF PausedURLs
    <3> QED
      BY <1>1, <2>4, <2>5, <3>2, <3>3, <3>5, MapFrame, Mapped
         DEF Service!Ask, Service!Cached
  <2> QED
    BY <2>6, <2>7, <2>8
<1> QED
  BY <1>2, <1>3

\* The counts of loaders that have told nothing.
LEMMA NothingTold ==
    ASSUME NEW f, f = [d \in Loader |-> [success |-> 0, fail |-> 0]]
    PROVE  [d \in Loader |-> OutcomeOf(f[d])] = [d \in Loader |-> "none"]
BY OutcomeFacts

\* A restart of the process is one of the service.
LEMMA RestartService ==
    ASSUME MInv, Restart
    PROVE  Service!Restart
<1>1. /\ told' = [d \in Loader |-> [success |-> 0, fail |-> 0]]
      /\ downLoaderInfos' = [u \in URL |-> nil] /\ asked' = {}
      /\ \A p \in Path : files'[p] \in {files[p], NoFile}
  BY DEF Restart
<1>2. PausedURLs' = {}
  BY <1>1 DEF PausedURLs, At
<1>3. OutcomeMap' = [d \in Loader |-> "none"]
  BY <1>1, NothingTold DEF OutcomeMap
<1>4. \A u \in URL : KeptMap'[u] \in {0, KeptMap[u]}
  BY <1>1, TmpPaths DEF KeptMap, KeptOf
<1>5. \A n \in Name : CacheMap'[n] \in {nil, CacheMap[n]}
  <2>1. \A n \in Name : <<"cache", n>> \in Path
    BY DEF Path
  <2> QED
    BY <1>1, <2>1, PublishedFacts DEF CacheMap
<1> QED
  BY <1>1, <1>2, <1>3, <1>4, <1>5, Mapped DEF Service!Restart

\* The first life of the process is an initial state of the service.
LEMMA InitService == Init => Service!Init
<1> SUFFICES ASSUME Init
             PROVE  Service!Init
  OBVIOUS
<1>1. /\ told = [d \in Loader |-> [success |-> 0, fail |-> 0]]
      /\ downLoaderInfos = [u \in URL |-> nil] /\ asked = {}
      /\ files = [p \in Path |-> NoFile]
  BY DEF Init, DLInit
<1>2. PausedURLs = {}
  BY <1>1 DEF PausedURLs, At
<1>3. OutcomeMap = [d \in Loader |-> "none"]
  BY <1>1, NothingTold DEF OutcomeMap
<1>4. KeptMap = [u \in URL |-> 0]
  BY <1>1, TmpPaths DEF KeptMap, KeptOf
<1>5. CacheMap = [n \in Name |-> nil]
  <2>1. \A n \in Name : files[<<"cache", n>>] = NoFile
    BY <1>1 DEF Path
  <2> QED
    BY <2>1, PublishedFacts DEF CacheMap
<1> QED
  BY <1>1, <1>2, <1>3, <1>4, <1>5, Mapped DEF Service!Init

\* Every step maps to a step of the service or to none.
LEMMA NextService ==
    ASSUME WellBehaved, ReportCap > 0, MInv, [Next]_vars
    PROVE  [Service!Next]_(Service!service)
<1>1. ASSUME NEW d \in Loader, NEW u \in URL, DownLoad(d, u)
      PROVE  Service!Next
  BY <1>1, DownLoadService DEF Service!Next
<1>2. ASSUME NEW u \in URL, pauseWithURL(u) \/ resumeWithURL(u)
      PROVE  Service!Next
  BY <1>2, SuspendService DEF Service!Next, pauseWithURL, resumeWithURL
<1>3. CASE pauseAll \/ resumeAll
  BY <1>3, SuspendService DEF Service!Next, pauseAll, resumeAll
<1>4. ASSUME NEW u \in URL, cancelWithURL(u)
      PROVE  UNCHANGED Service!service
  BY <1>4, CancelService DEF cancelWithURL
<1>5. CASE cancelAll
  BY <1>5, CancelService DEF cancelAll
<1>6. ASSUME NEW t \in Task, Deliver(t)
      PROVE  Service!Next \/ UNCHANGED Service!service
  <2>1. Response(t) \/ Data(t) \/ Complete(t)
    BY <1>6 DEF Deliver
  <2>2. tasks[t].url \in URL
    BY <2>1, ResponseEffect, DataEffect, CompleteEffect
  <2>3. CASE Response(t)
    BY <2>2, <2>3, ResponseService DEF Service!Next
  <2>4. CASE Data(t)
    BY <2>2, <2>4, DataService DEF Service!Next
  <2>5. CASE Complete(t)
    BY <2>2, <2>5, CompleteService DEF Service!Next
  <2> QED
    BY <2>1, <2>3, <2>4, <2>5
<1>7. ASSUME NEW t \in Task, Transfer(t)
      PROVE  UNCHANGED Service!service
  BY <1>7, TransferService
<1>8. CASE Restart
  BY <1>8, RestartService DEF Service!Next
<1>9. CASE UNCHANGED vars
  <2>1. UNCHANGED <<loaders, files, told, downLoaderInfos, asked>>
    BY <1>9 DEF vars
  <2>2. UNCHANGED PausedURLs
    BY <2>1, PausedFrame
  <2> QED
    BY <2>1, <2>2, MapFrame, Unseen
<1> QED
  BY <1>1, <1>2, <1>3, <1>4, <1>5, <1>6, <1>7, <1>8, <1>9 DEF Next

\* The manager implements the safety part of ZFDownLoadService (all of
\* ImplementsService but its liveness): through every interleaving of requests,
\* pauses, cancellations, callbacks and restarts each request is dropped or answered
\* once with the truth about the file, and chunks are kept until they are published.
THEOREM ManagerImplementsService ==
    ASSUME WellBehaved, ReportCap > 0
    PROVE  Spec => Service!Init /\ [][Service!Next]_(Service!service)
<1>1. MInv /\ [Next]_vars => [Service!Next]_(Service!service)
  BY NextService
<1> QED
  BY <1>1, InitService, ManagerInvariance, PTL DEF Spec
================================================================================
