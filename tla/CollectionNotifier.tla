--------------------------- MODULE CollectionNotifier ---------------------------
(****************************************************************************)
(* Change notifications of Realm's object store: the CollectionNotifiers of *)
(* one Realm instance, the RealmCoordinator whose background worker brings  *)
(* them up to date, and the NotifierPackage that delivers what they found   *)
(* on the Realm's own thread.                                               *)
(*                                                                          *)
(* Three actors step: the Realm's thread (target), which runs the callbacks *)
(* and whatever they call; the worker; and everybody else who writes to the *)
(* file, removes a callback or drops a collection.  What is done under      *)
(* m_notifier_mutex or m_callback_mutex is one action; neither is held      *)
(* while a callback runs or a condition is waited for.                      *)
(*                                                                          *)
(* A transaction is a version number and a change set is the set of the     *)
(* versions whose changes it holds, so merging change sets is union.  The   *)
(* notifiers are those whose run() needs no query (lists, objects), and no  *)
(* row is observed by KVO.                                                  *)
(****************************************************************************)
EXTENDS Integers, Sequences, FiniteSets

CONSTANTS
    Notifier,     \* the notifiers that may be created
    MaxVersion,   \* bound: the last version of the file, the first is 1
    MaxTokens,    \* bound: callbacks added to one notifier
    Practice,     \* what else the application does, see Practices
    nil

\* A callback writes to the Realm; it adds a callback to its own collection; a
\* callback is removed by the delivery in which it was added; a collection is
\* destroyed on a thread other than the Realm's; a commit that was to go without
\* notifying fails.
Practices ==
    {"write inside", "add inside", "remove fresh", "drop elsewhere", "commit fails"}

ASSUME NotifierAssumption ==
    /\ nil \notin Notifier
    /\ MaxVersion \in Nat \ {0} /\ MaxTokens \in Nat
    /\ Practice \subseteq Practices

VARIABLES
    version,      \* the latest version of the file
    changed,      \* the versions whose transactions changed the collections
    read,         \* the version the Realm reads
    writing,      \* the Realm holds the write lock
    suppressing,  \* commitWriteTransactionWithoutNotifying: is under way
    notifier,     \* the members of each notifier, see NotifierRec
    target,       \* what the Realm's thread is doing, see TargetRec
    worker,       \* what the worker is doing, see WorkerRec
    skip_version, \* m_notifier_skip_version, 0 for none
    woken,        \* the worker has been woken up
    posted,       \* Realm::notify() is due on the Realm's thread
    opened,       \* which of the worker's two SharedGroups are open
    async_error,  \* m_async_error is set
    told          \* history: what the callback being called after an advance
                  \* was told, see Called; else nil

file == <<version, changed, read, writing, suppressing>>
coordinator == <<worker, skip_version, woken, opened, async_error>>
vars == <<file, notifier, target, coordinator, posted, told>>

----------------------------------------------------------------------------
(* State.                                                                   *)

Version == 1..MaxVersion

\* acc      accumulated_changes            todo    changes_to_deliver
\* initial  initial_delivered              skip    skip_next
\* at       history: the version of the last call
\* hidden   history: the versions committed, or about to be, without notifying it
CallbackRec ==
    [token: 1..MaxTokens, acc: SUBSET Version, todo: SUBSET Version,
     initial: BOOLEAN, skip: BOOLEAN, at: 0..MaxVersion, hidden: SUBSET Version]

\* where  in m_new_notifiers, in m_notifiers, in neither      ver    m_sg_version
\* alive  m_realm is set     have  m_have_callbacks    next  the last token given
\* index  m_callback_index, 0 for npos    count  m_callback_count
\* fresh  history: the tokens given since it was packaged
NotifierRec ==
    [where: {"none", "new", "main"}, alive: BOOLEAN, ver: 0..MaxVersion,
     has_run: BOOLEAN, have: BOOLEAN, next: 0..MaxTokens,
     callbacks: Seq(CallbackRec), index: 0..MaxTokens, count: Int,
     fresh: SUBSET (1..MaxTokens)]

NoNotifier ==
    [where |-> "none", alive |-> FALSE, ver |-> 0, has_run |-> FALSE,
     have |-> FALSE, next |-> 0, callbacks |-> <<>>, index |-> 0, count |-> -1,
     fresh |-> {}]

\* op    which function delivers           want  the version it waits for, or 0
\* list  the notifiers in the package      ver   its version, or 0
\* left  those the pass has yet to begin   cur   the one it is at, or nil
\* err   the package carries an error
\* call  the notifier and token of the callback being called, or nil
TargetRec ==
    [pc: {"idle", "package", "before", "advance", "after", "error"},
     op: {"ready", "latest", "begin", "async"}, want: 0..MaxVersion,
     list: SUBSET Notifier, left: SUBSET Notifier,
     cur: Notifier \cup {nil}, ver: 0..MaxVersion, err: BOOLEAN,
     call: (Notifier \X (1..MaxTokens)) \cup {nil}]

Idle ==
    [pc |-> "idle", op |-> "async", want |-> 0, list |-> {}, left |-> {},
     cur |-> nil, ver |-> 0, err |-> FALSE, call |-> nil]

\* old, new  the worker's copies of the two lists
\* ver       the version it goes to      skip  the version it stops at, or 0
WorkerRec ==
    [pc: {"idle", "skip", "final"}, old: SUBSET Notifier, new: SUBSET Notifier,
     ver: 0..MaxVersion, skip: 0..MaxVersion]

Resting == [pc |-> "idle", old |-> {}, new |-> {}, ver |-> 0, skip |-> 0]

In(N, where) == {n \in Notifier : N[n].where = where}

NotifiersForRealm ==
    {n \in In(notifier, "new") \cup In(notifier, "main") : notifier[n].alive}

Between(v, w) == {x \in changed : v < x /\ x <= w}

\* The Realm's thread runs the application's code, outside a write transaction.
UserCode ==
    \/ target.pc = "idle" /\ ~writing
    \/ target.call # nil /\ (target.pc = "before" \/ ~writing)

----------------------------------------------------------------------------
(* The list of callbacks.                                                   *)

Tokens(r) == {r.callbacks[i].token : i \in DOMAIN r.callbacks}

Position(r, k) == CHOOSE i \in DOMAIN r.callbacks : r.callbacks[i].token = k

Without(s, i) == SubSeq(s, 1, i - 1) \o SubSeq(s, i + 1, Len(s))

\* Mutant of Removed: the iteration is not moved back.
RemovedKeepsIndex(r, k) ==
    LET rest == Without(r.callbacks, Position(r, k))
    IN  [r EXCEPT !.callbacks = rest, !.count = @ - 1, !.have = rest # <<>>]

\* Mutant of Removed: the number of callbacks to call is kept.
RemovedKeepsCount(r, k) ==
    LET i == Position(r, k)
        rest == Without(r.callbacks, i)
    IN  [r EXCEPT !.callbacks = rest, !.index = IF @ >= i THEN @ - 1 ELSE @,
                  !.have = rest # <<>>]

\* Mutant of Removed: m_have_callbacks is left alone.
RemovedKeepsHave(r, k) ==
    LET i == Position(r, k)
    IN  [r EXCEPT !.callbacks = Without(@, i), !.count = @ - 1,
                  !.index = IF @ >= i THEN @ - 1 ELSE @]

\* Mutant of Removed: npos is moved back too.
RemovedMovesNpos(r, k) ==
    LET i == Position(r, k)
        rest == Without(r.callbacks, i)
    IN  [r EXCEPT !.callbacks = rest, !.count = @ - 1, !.have = rest # <<>>,
                  !.index = IF @ = 0 \/ @ >= i THEN @ - 1 ELSE @]

\* remove_callback of a token that is there.
Removed(r, k) ==
    LET i == Position(r, k)
        rest == Without(r.callbacks, i)
    IN  [r EXCEPT !.callbacks = rest,
                  !.index = IF @ >= i THEN @ - 1 ELSE @,
                  !.count = @ - 1,
                  !.have = rest # <<>>]

AddChanges(c, changes) ==
    IF c.skip THEN [c EXCEPT !.skip = FALSE] ELSE [c EXCEPT !.acc = @ \cup changes]

\* Mutant of HandedOver: m_has_run is not set.
HandedOverNotRun(r, v) ==
    [r EXCEPT !.ver = v,
              !.callbacks = [i \in DOMAIN @ |-> AddChanges(@[i], Between(r.ver, v))]]

\* The worker has brought r to version v: run() and prepare_handover().
HandedOver(r, v) ==
    [r EXCEPT !.ver = v, !.has_run = TRUE,
              !.callbacks = [i \in DOMAIN @ |-> AddChanges(@[i], Between(r.ver, v))]]

\* package_for_delivery.
Packaged(r) ==
    [r EXCEPT !.callbacks =
                  [i \in DOMAIN @ |-> [@[i] EXCEPT !.todo = r.callbacks[i].acc, !.acc = {}]],
              !.count = Len(r.callbacks), !.fresh = {}]

\* history: the next version is not hidden from the callbacks of r after all.
Unhidden(r) ==
    [r EXCEPT !.callbacks =
                  [i \in DOMAIN @ |->
                     [@[i] EXCEPT !.hidden = r.callbacks[i].hidden \ {version + 1}]]]

----------------------------------------------------------------------------
(* The application: collections, callbacks and transactions.                *)

\* List::add_notification_callback, its first half: RealmCoordinator's
\* register_notifier.  Opening the advancer's SharedGroup may fail.
RegisterNotifier(n) ==
    /\ UserCode /\ notifier[n] = NoNotifier
    /\ notifier' = [notifier EXCEPT ![n].where = "new", ![n].alive = TRUE,
                                    ![n].ver = read]
    /\ IF async_error \/ "advancer" \in opened
       THEN UNCHANGED <<opened, async_error>>
       ELSE \/ opened' = opened \cup {"advancer"} /\ UNCHANGED async_error
            \/ async_error' = TRUE /\ UNCHANGED opened
    /\ UNCHANGED <<file, target, worker, skip_version, woken, posted, told>>

\* Its second half, add_callback.  A notifier that has lost all its callbacks is
\* not used again.
AddCallback(n) ==
    /\ UserCode /\ notifier[n].alive
    /\ notifier[n].next = 0 \/ notifier[n].have
    /\ notifier[n].index = 0 \/ "add inside" \in Practice
    /\ notifier[n].next < MaxTokens
    /\ LET k == notifier[n].next + 1
           c == [token |-> k, acc |-> {}, todo |-> {}, initial |-> FALSE,
                 skip |-> FALSE, at |-> 0, hidden |-> {}]
       IN  notifier' = [notifier EXCEPT
             ![n].next = k, ![n].callbacks = Append(@, c), ![n].fresh = @ \cup {k},
             ![n].have = @ \/ notifier[n].index = 0]
    /\ woken' = (woken \/ notifier[n].index = 0)
    /\ UNCHANGED <<file, target, worker, skip_version, opened, async_error, posted, told>>

\* The package being delivered counts on the callbacks of n.
Delivering(n) ==
    \/ target.pc \in {"before", "advance"} /\ n \in target.list /\ ~target.err
    \/ target.pc = "after" /\ n \in target.left
    \/ target.pc \in {"after", "error"} /\ n = target.cur

\* NotificationToken's destructor, on any thread.
RemoveCallback(n, k) ==
    /\ k \in Tokens(notifier[n])
    /\ "remove fresh" \in Practice \/ ~Delivering(n) \/ k \notin notifier[n].fresh
    /\ notifier' = [notifier EXCEPT ![n] = Removed(@, k)]
    /\ UNCHANGED <<file, target, coordinator, posted, told>>

\* The collection goes: Handle::reset.
Unregister(n) ==
    /\ notifier[n].alive
    /\ \/ target.pc = "idle" /\ ~suppressing
       \/ target.call # nil
       \/ "drop elsewhere" \in Practice
    /\ notifier' = [notifier EXCEPT ![n].alive = FALSE]
    /\ UNCHANGED <<file, target, coordinator, posted, told>>

\* RealmCoordinator::commit_write of a transaction that changes the collections or
\* does not.  The worker is to stop at the Realm's own versions.
CommitWrite ==
    /\ version < MaxVersion
    /\ version' = version + 1 /\ read' = version + 1
    /\ changed' \in {changed, changed \cup {version + 1}}
    /\ skip_version' = IF \E n \in In(notifier, "main") : notifier[n].alive
                       THEN version + 1 ELSE skip_version
    /\ woken' = TRUE

\* commit_transaction, also as the last step of a commit without notifying.
Commit ==
    /\ target.pc = "idle" /\ writing
    /\ CommitWrite /\ writing' = FALSE /\ suppressing' = FALSE
    /\ UNCHANGED <<notifier, target, worker, opened, async_error, posted, told>>

\* commitWriteTransactionWithoutNotifying: suppresses one of its tokens, under
\* m_callback_mutex alone; the commit comes after them all.
SuppressNextNotification(n, k) ==
    /\ target.pc = "idle" /\ writing /\ version < MaxVersion
    /\ notifier[n].alive /\ k \in Tokens(notifier[n])
    /\ suppressing' = TRUE
    /\ LET i == Position(notifier[n], k)
       IN  notifier' = [notifier EXCEPT
             ![n].callbacks[i].skip = TRUE,
             ![n].callbacks[i].hidden = @ \cup {version + 1}]
    /\ UNCHANGED <<version, changed, read, writing, target, coordinator, posted, told>>

\* Its commit fails, or a token of another Realm makes it throw before it commits.
\* The transaction goes on and nothing takes skip_next back.
CommitFails ==
    /\ "commit fails" \in Practice /\ suppressing
    /\ suppressing' = FALSE
    /\ notifier' = [n \in Notifier |-> Unhidden(notifier[n])]
    /\ UNCHANGED <<version, changed, read, writing, target, coordinator, posted, told>>

CancelTransaction ==
    /\ target.pc = "idle" /\ writing /\ ~suppressing
    /\ writing' = FALSE
    /\ UNCHANGED <<version, changed, read, suppressing, notifier, target, coordinator,
                   posted, told>>

\* A callback writes: begin_transaction sees m_is_sending_notifications and
\* delivers nothing.
WriteInCallback ==
    /\ "write inside" \in Practice /\ target.pc = "after" /\ target.call # nil /\ ~writing
    /\ CommitWrite
    /\ UNCHANGED <<writing, suppressing, notifier, target, worker, opened, async_error,
                   posted, told>>

\* Another Realm instance or process commits.
OtherCommit ==
    /\ ~writing /\ version < MaxVersion
    /\ version' = version + 1
    /\ changed' \in {changed, changed \cup {version + 1}}
    /\ woken' = TRUE
    /\ UNCHANGED <<read, writing, suppressing, notifier, target, worker, skip_version,
                   opened, async_error, posted, told>>

----------------------------------------------------------------------------
(* Delivery, on the Realm's thread.                                         *)

\* What package_and_wait waits for; the version 0 is that of a call that does not.
UpToDate(n, want) ==
    want = 0 \/ ~notifier[n].have \/ (notifier[n].has_run /\ notifier[n].ver >= want)

\* A package is made of the Realm's notifiers.  If it has to wait for one of them
\* it wakes the worker.
Deliver(op, want) ==
    /\ woken' = (woken \/ (~async_error /\ \E n \in NotifiersForRealm : ~UpToDate(n, want)))
    /\ target' = [Idle EXCEPT !.pc = IF async_error THEN "advance" ELSE "package",
                              !.op = op, !.want = want, !.err = async_error,
                              !.list = NotifiersForRealm]

\* process_available_async packages the notifiers that are at the Realm's version.
ProcessAvailableAsync ==
    LET list == {n \in NotifiersForRealm :
                   async_error \/ (notifier[n].has_run /\ notifier[n].ver = read)}
    IN  IF async_error
        THEN /\ target' = IF list = {} THEN Idle
                          ELSE [Idle EXCEPT !.pc = "error", !.list = list,
                                            !.left = list, !.err = TRUE]
             /\ UNCHANGED notifier
        ELSE /\ notifier' = [n \in Notifier |-> IF n \in list THEN Packaged(notifier[n])
                                                ELSE notifier[n]]
             /\ target' = [Idle EXCEPT !.pc = "after", !.list = list, !.left = list,
                                       !.ver = read]

\* Realm::notify, called by the run loop.
Notify ==
    /\ posted /\ target.pc = "idle" /\ ~suppressing
    /\ posted' = FALSE
    /\ \/ writing /\ UNCHANGED <<target, notifier, woken>>
       \/ ~writing /\ version = read /\ ProcessAvailableAsync /\ UNCHANGED woken
       \/ ~writing /\ version # read /\ Deliver("ready", 0) /\ UNCHANGED notifier
    /\ UNCHANGED <<file, worker, skip_version, opened, async_error, told>>

\* Realm::refresh: advance_to_latest.
Refresh ==
    /\ target.pc = "idle" /\ ~writing
    /\ Deliver("latest", version)
    /\ UNCHANGED <<file, notifier, worker, skip_version, opened, async_error, posted, told>>

\* Realm::begin_transaction: promote_to_write takes the write lock, then waits for
\* the notifiers.
BeginTransaction ==
    /\ target.pc = "idle" /\ ~writing
    /\ writing' = TRUE
    /\ Deliver("begin", version)
    /\ UNCHANGED <<version, changed, read, suppressing, notifier, worker, skip_version,
                   opened, async_error, posted, told>>

\* Where the thread goes with a package of version v.  Notifications older than
\* the Realm are discarded.
AfterPackaging(v) ==
    CASE target.op = "ready" /\ v > 0 /\ v < read -> "idle"
      [] target.op = "ready" /\ v = read -> "after"
      [] target.op = "begin" /\ version = read -> "after"
      [] OTHER -> "before"

\* package_and_wait.
PackageAndWait ==
    /\ target.pc = "package"
    /\ \A n \in target.list : UpToDate(n, target.want)
    /\ LET ran == {n \in target.list : notifier[n].has_run}
       IN  \E v \in IF ran = {} THEN {0} ELSE {notifier[n].ver : n \in ran} :
             LET stale == v > 0 /\ v < target.want
                 list == IF stale THEN {} ELSE ran
                 pc == AfterPackaging(IF stale THEN 0 ELSE v)
             IN  /\ notifier' = [n \in Notifier |-> IF n \in ran THEN Packaged(notifier[n])
                                                    ELSE notifier[n]]
                 /\ target' = IF pc = "idle" THEN Idle
                              ELSE [target EXCEPT !.pc = pc, !.list = list, !.left = list,
                                                  !.ver = IF stale THEN 0 ELSE v]
    /\ UNCHANGED <<file, coordinator, posted, told>>

\* Mutant of Wanted: only changes are told.
WantedForChanges(c) == c.todo # {} \/ target.pc = "error"

\* The callback c is called in the pass the thread is in.
Wanted(c) ==
    CASE target.pc = "before" -> c.todo # {}
      [] target.pc = "after"  -> c.todo # {} \/ ~c.initial
      [] OTHER                -> TRUE

\* What a callback is told after the advance.
Called(c) == [initial |-> ~c.initial, changes |-> c.todo, from |-> c.at,
              to |-> target.ver, hidden |-> c.hidden]

\* for_each_callback on n: on to the next callback to call, or to the end.
ForEachCallback(n) ==
    LET r == IF target.pc = "error" /\ target.cur = nil
             THEN [notifier[n] EXCEPT !.count = Len(notifier[n].callbacks), !.fresh = {}]
             ELSE notifier[n]
        rest == {i \in DOMAIN r.callbacks :
                   r.index < i /\ i <= r.count /\ Wanted(r.callbacks[i])}
        i == CHOOSE j \in rest : \A k \in rest : j <= k
        c == r.callbacks[i]
    IN  /\ target.pc \in {"before", "after", "error"} /\ target.call = nil
        /\ target.cur = n \/ (target.cur = nil /\ n \in target.left)
        /\ \/ /\ rest = {}
              /\ notifier' = [notifier EXCEPT ![n] = [r EXCEPT !.index = 0]]
              /\ target' = [target EXCEPT !.cur = nil, !.left = @ \ {n}]
              /\ UNCHANGED told
           \/ /\ rest # {}
              /\ target' = [target EXCEPT !.cur = n, !.left = @ \ {n},
                                          !.call = <<n, c.token>>]
              /\ IF target.pc = "after"
                 THEN /\ notifier' = [notifier EXCEPT ![n] =
                           [r EXCEPT !.index = i, !.callbacks[i] =
                              [c EXCEPT !.initial = TRUE, !.todo = {}, !.at = target.ver]]]
                      /\ told' = Called(c)
                 ELSE /\ notifier' = [notifier EXCEPT ![n] = [r EXCEPT !.index = i]]
                      /\ UNCHANGED told
        /\ UNCHANGED <<file, coordinator, posted>>

\* The callback returns; after an error it is removed.
CallbackReturns ==
    /\ target.call # nil
    /\ LET n == target.call[1]
           k == target.call[2]
       IN  notifier' = IF target.pc = "error" /\ k \in Tokens(notifier[n])
                       THEN [notifier EXCEPT ![n] = Removed(@, k)] ELSE notifier
    /\ target' = [target EXCEPT !.call = nil]
    /\ told' = nil
    /\ UNCHANGED <<file, coordinator, posted>>

\* The Realm moves to the package's version, or to the latest.
Advance ==
    /\ \/ target.pc = "before" /\ target.left = {} /\ target.cur = nil
       \/ target.pc = "advance"
    /\ read' = IF target.ver > 0 THEN target.ver ELSE version
    /\ target' = [target EXCEPT !.pc = IF target.err THEN "error" ELSE "after",
                                !.left = target.list]
    /\ UNCHANGED <<version, changed, writing, suppressing, notifier, coordinator, posted,
                   told>>

Delivered ==
    /\ target.pc \in {"after", "error"} /\ target.left = {} /\ target.cur = nil
    /\ target' = Idle
    /\ UNCHANGED <<file, notifier, coordinator, posted, told>>

----------------------------------------------------------------------------
(* The worker: RealmCoordinator::on_change.                                 *)

\* clean_up_dead_notifiers.
CleanedUp(N) ==
    [n \in Notifier |-> IF N[n].alive THEN N[n] ELSE [N[n] EXCEPT !.where = "none"]]

\* m_notifier_skip_version when the lists go from N to M.
SkipAfterCleaning(N, M) ==
    IF In(N, "main") # {} /\ In(M, "main") = {} THEN 0 ELSE skip_version

\* run_async_notifiers up to the release of the lock.
RunAsyncNotifiers ==
    LET N == CleanedUp(notifier)
        new == In(N, "new")
        old == In(N, "main")
        moved == [n \in Notifier |-> IF n \in new THEN [N[n] EXCEPT !.where = "main"]
                                     ELSE N[n]]
        skip == SkipAfterCleaning(notifier, N)
        Quit == /\ worker' = worker /\ posted' = TRUE /\ skip_version' = skip
    IN  /\ woken /\ worker.pc = "idle"
        /\ woken' = FALSE
        /\ \/ /\ new \cup old = {}
              /\ notifier' = N /\ Quit
              /\ UNCHANGED <<opened, async_error>>
           \/ /\ new \cup old # {} /\ (async_error \/ "notifier" \notin opened)
              /\ notifier' = moved /\ Quit
              /\ async_error' = TRUE /\ UNCHANGED opened
           \/ /\ new \cup old # {} /\ ~async_error
              /\ notifier' = moved
              /\ worker' = [pc |-> IF skip > 0 THEN "skip" ELSE "final",
                            old |-> old, new |-> new, ver |-> version,
                            skip |-> skip]
              /\ skip_version' = 0
              /\ opened' = opened \cup {"notifier"}
              /\ UNCHANGED <<async_error, posted>>
        /\ UNCHANGED <<file, target, told>>

\* The old notifiers stop at the version the Realm committed itself.
RunToSkipVersion ==
    /\ worker.pc = "skip"
    /\ notifier' = [n \in Notifier |-> IF n \in worker.old
                      THEN HandedOver(notifier[n], worker.skip) ELSE notifier[n]]
    /\ worker' = [worker EXCEPT !.pc = "final"]
    /\ UNCHANGED <<file, target, skip_version, woken, opened, async_error, posted, told>>

\* All of them reach the version picked at the start, and the Realms are notified.
RunToVersion ==
    /\ worker.pc = "final"
    /\ LET N == [n \in Notifier |-> IF n \in worker.old \cup worker.new
                   THEN HandedOver(notifier[n], worker.ver) ELSE notifier[n]]
       IN  /\ notifier' = CleanedUp(N)
           /\ skip_version' = SkipAfterCleaning(N, CleanedUp(N))
    /\ worker' = Resting
    /\ posted' = TRUE
    /\ UNCHANGED <<file, target, woken, opened, async_error, told>>

----------------------------------------------------------------------------
Init ==
    /\ version = 1 /\ changed = {} /\ read = 1
    /\ writing = FALSE /\ suppressing = FALSE
    /\ notifier = [n \in Notifier |-> NoNotifier]
    /\ target = Idle /\ worker = Resting
    /\ skip_version = 0 /\ woken = FALSE /\ posted = FALSE
    /\ opened = {} /\ async_error = FALSE
    /\ told = nil

\* Steps of a call that is under way on the Realm's thread.
Proceed ==
    \/ PackageAndWait \/ CallbackReturns \/ Advance \/ Delivered
    \/ \E n \in Notifier : ForEachCallback(n)

EndTransaction == Commit \/ CancelTransaction

Worker == RunAsyncNotifiers \/ RunToSkipVersion \/ RunToVersion

Next ==
    \/ \E n \in Notifier : RegisterNotifier(n) \/ AddCallback(n) \/ Unregister(n)
    \/ \E n \in Notifier, k \in 1..MaxTokens :
         RemoveCallback(n, k) \/ SuppressNextNotification(n, k)
    \/ EndTransaction \/ CommitFails \/ WriteInCallback \/ OtherCommit
    \/ Notify \/ Refresh \/ BeginTransaction
    \/ Proceed \/ Worker

Spec == Init /\ [][Next]_vars

\* The worker runs when it is woken; calls proceed, callbacks return and write
\* transactions end; the thread comes back to its run loop.
Fairness ==
    WF_vars(Worker) /\ WF_vars(Proceed) /\ WF_vars(EndTransaction) /\ SF_vars(Notify)

FairSpec == Spec /\ Fairness

----------------------------------------------------------------------------
(* Properties.                                                              *)

\* The members keep their types.
TypeOK ==
    /\ version \in Version /\ changed \subseteq 1..version /\ read \in 1..version
    /\ suppressing => writing /\ target.pc = "idle"
    /\ \A n \in Notifier :
         /\ [notifier[n] EXCEPT !.callbacks = <<>>] \in NotifierRec
         /\ \A i \in DOMAIN notifier[n].callbacks :
              notifier[n].callbacks[i] \in CallbackRec
    /\ target \in TargetRec /\ worker \in WorkerRec
    /\ skip_version \in 0..version

\* A callback that has had its first notification is told, whenever it is called
\* again, of the transactions since the last call that changed the collection: of
\* no other, of none twice and of none before the Realm shows it, and only one that
\* was committed without notifying it may be left out.
ToldExactly ==
    told # nil /\ ~told.initial =>
        /\ told.changes \subseteq Between(told.from, told.to)
        /\ Between(told.from, told.to) \subseteq told.changes \cup told.hidden

\* A callback is never told of changes committed without notifying it.
SuppressedNotTold == told # nil => told.changes \cap told.hidden = {}

\* m_callback_count, to which for_each_callback goes without looking at the size
\* of the vector, is the number of callbacks that were there when the notifier was
\* packaged and still are.
CountIsPackaged ==
    \A n \in Notifier : Delivering(n) =>
        notifier[n].count = Cardinality(Tokens(notifier[n]) \ notifier[n].fresh)

\* m_have_callbacks is only an atomic copy, updated in two places, of whether
\* there are callbacks; package_and_wait does not wait for a notifier without.
HaveCallbacksExact ==
    \A n \in Notifier : notifier[n].have = (notifier[n].callbacks # <<>>)

\* refresh and begin_transaction, the latter with the write lock held, do not wait
\* for ever for a notifier, unless the worker could not open the file.
WaitEnds == target.pc = "package" ~> (target.pc # "package" \/ async_error)

Added(n, k) == k \in Tokens(notifier[n])

\* A callback gets its first notification if it is not removed, its collection
\* lives on and the worker could open the file.
FirstNotification ==
    \A n \in Notifier, k \in 1..MaxTokens :
        Added(n, k) ~> \/ ~Added(n, k) \/ ~notifier[n].alive \/ async_error
                       \/ notifier[n].callbacks[Position(notifier[n], k)].initial

================================================================================
