# A TLA+ verification project for ZFBaseFramework

ZFBaseFramework is an Objective-C library for iOS (deployment target 9.0): a
resumable downloader with a manager, a wrapper of SQLite, an audio player, a
segment bar and small categories. Its own code is
`src/ZFBaseFramework/Classes` (1848 lines). The library's own tests are
nearly empty (`ZFDownLoadTests.m` has no assertion), so what follows is about
behaviour nothing else checks. `src/Example/Pods` holds Realm, vendored and used
by the example's tests; it is nearly all of the repository's lines, and its
object store has the repository's only multi-threaded code, so the two parts of
it with the hardest concurrency, synchronization sessions and collection
notifications, are modelled too.

## Inventory

| Component | State | Operations | What is hard | What makes it correct |
|---|---|---|---|---|
| `ZFFileManagerTool` | the two directories | exists, size, move, remove | every error is swallowed | callers cope with a call that did nothing |
| `ZFDownLoader` | state, `_tmpSize`, `_totalSize`, paths, stream, session, weak task | download, pause, resume, cancel, cancelAndClearCache; three delegate callbacks | callbacks of cancelled or replaced tasks arrive later; process killed between chunks; servers that ignore Range | contents of the temporary and cache files; stream closed; no stranded state |
| `ZFDownLoaderManager` | dictionary URL -> loader | download, pause/resume/cancel of one or all; success and fail blocks | re-request of a URL whose cancellation is still queued | one transfer per URL; registered exactly while busy; every block once |
| `ZFSqliteTool` | static handle `db` | executeSql, executeSqls, querySql | opening, a statement or the commit fails, a crash between two steps, two threads | atomic batches, truthful result, closed connections |
| `ZFAudioPlayer` | AVPlayer, observation, mute, rate, volume | play, pause, resume, stop, seek, mute, rate, volume, dealloc | observers must balance; the item becomes ready at any time | no exception, a ready item plays |
| `ZFUISegmentBar` | buttons, last button, selectedIndex, scroll offset | setItems, selectedIndex, tap, configuration, layout | references to replaced buttons and indices | one selected button, in view, right fromIndex, index in range |
| Realm `SyncSession`, `SyncUser`, `SyncManager` | session state, `m_session`, queued handlers, external reference; the user's sessions; the manager's map | get_session, references dropped, log out and in, suspend and resume, tokens, commits, waits; completions and errors from the sync client | three mutexes, callbacks of the client's loop, revival while closing | one registered session per file while referenced, a handler at most once, changes uploaded before the end |
| Realm `CollectionNotifier`, `RealmCoordinator`, `NotifierPackage` | callbacks with accumulated and packaged changes, iteration index and count, two lists of notifiers, skip version | add, remove, suppress, unregister; begin, commit, cancel, refresh, notify; the worker | a worker, other threads that remove callbacks, callbacks that call back, waiting with the write lock, a commit that fails after the suppression | no change lost, told twice or told early, bounds of the iteration, waits that end |
| `CALayer+ZFPauseAimate` | the layer's clock | pause, resume | called twice or out of order | not modelled |
| `UIView+ZFLayout`, `UIImage+ZFImage`, `NSString+ZFTool`, `ZFDeviceInfo` | none | accessors, drawing, MD5, device queries | - | - |

The manager calls its loaders, the loaders call the manager back through the
success and fail blocks, both use `ZFFileManagerTool`, and `ZFSqliteTool` takes
its path from it. All downloader code runs on the main queue
(`ZFDownLoader.m:140` makes it the delegate queue), so a method or a callback is
one atomic action; what interleaves is the client, the callbacks that wait in
the queue, and the URL loading system. A Realm that is opened with a sync
configuration has a `SyncSession`, to which `RealmCoordinator::commit_write`
announces each commit (`realm_coordinator.cpp:423`); the two Realm modules meet
at that call only, so they are separate.

## Modules

**`ZFFileManagerTool`** - pure operators on a file system
`[Path -> contents or NoFile]`. A method that can fail is the set of its outcomes.

**`ZFDownLoader`** extends it. `loaders` holds the ivars, `stream` the path the
output stream is open on, `tasks` the data tasks with what the main queue holds
for each (a response, then chunks, then a completion), `files` the two
directories, `told` how often each block ran. Sizes count chunks. Actions:

| Code (`ZFDownLoader.m`) | Definition |
|---|---|
| `downLoadWithURL:` 33-90 | `DownLoadCached`, `DownLoadDowning`, `DownLoadPaused`, `DownLoadStart` |
| `downLoadWithURL:offset:` 92-102 | `NewTask` |
| `resume`, `pause` 104-117 | `SetSuspended` |
| `cancel`, `cancelAndClearCache` 118-127 | `cancel`, `cancelAndClearCache` |
| `didReceiveResponse` 157-204 | `ResponseComplete`, `ResponseTooLong`, `ResponseAllow`; its reading of the headers 160-165 is in `Answered` |
| `didReceiveData` 207-212 | `didReceiveData` |
| `didCompleteWithError` 214-234 | `CompleteSuccess`, `CompleteFail` |

`ServerAnswers`, `ServerSends`, `ServerFinishes`, `NetworkFails` and `Cancelled`
are the URL loading system and are external: callbacks of a task come in order,
those of different tasks in any order; cancelling queues an error behind what is
already queued; suspending stops traffic only. Servers answer as `ServerKinds`
allows: honouring Range, ignoring it, without a length, or with an error page.

**`ZFDownLoaderManager`** composes the loaders with the dictionary
`downLoaderInfos`. A request is identified with the loader it would allocate.
`Restart` kills the process and lets the system purge any files.

**`ZFDownLoadService`** is the abstract specification of the manager: a request
is dropped if its URL is in progress, answered at once if a file is published,
or in progress until it is answered; chunks are kept until they are all there and
then published under the file name. It has no loaders, tasks, streams, queues or
file operations. `Service` in `ZFDownLoaderManager` instantiates it with
`pending <- downLoaderInfos` (the dictionary), `paused` the URLs whose loader
shows Pause, `outcome` the block that has run, `kept` the chunks in the temporary
file and `cache` the URL whose whole resource is in the cache file, or "damaged".
`ImplementsService` is the refinement: mixed-up bytes, a block that runs twice, a
lost chunk or a second transfer for a URL have no counterpart in the service. Its
liveness part `Answers` says that no request is for ever in progress unless it
is paused.

**`ZFSqliteTool`** has a program counter per call; each sqlite3 call of the code
is a step, since a crash or, with `Overlap`, another call can come between two.
SQLite (`ExecOK`, `ExecFails`, `Rolledback`, ...) is external; a refused
statement may have rolled the transaction back. Opening, a statement and the
commit may fail. BEGIN does not: the code ignores its result
(`ZFSqliteTool.m:133`), and a deferred BEGIN on a connection that was just opened
takes no lock and does no I/O, so it fails only for lack of memory. If it did, the
statements of the batch would commit one by one, and `AllOrNothing` would not hold.

**`ZFAudioPlayer`** and **`ZFUISegmentBar`** are single modules; AVFoundation and
UIKit are external. `StrictKVO` says whether the system is older than iOS 11,
where releasing an observed item raises. In the segment bar the layout
arithmetic is kept, in whole points.

**`SyncSession`** models the session of one file. `sessions` holds the members of
each `SyncSession` object (two can exist), `m_sessions` the manager's entry,
`user` the `SyncUser`, `refs` who holds an external reference, `thread` where
each application thread and the client's loop is. A critical section of
`m_state_mutex` is one action (`Section`), since nothing else is waited for in
it; `SyncManager::m_session_mutex` and `SyncUser::m_mutex` are held across such
sections and are the variables `lockM` and `lockU`. The state classes of
`sync_session.cpp` are the operators `LogOut`, `Revive`, `Close`, `Notified` and
`Refreshed` on a session's record, by state:

| Code | Definition |
|---|---|
| `SyncManager::get_session` | `GetSession`, `RegisterSession`, `ReviveIfNeeded`, `ExternalReference` |
| `~ExternalReference` | `DropReference`, `DidDropExternalReference` |
| `SyncUser::log_out`, `update_refresh_token` | `UserLogOut`, `SessionLogOut`, `UserLogOutEnd`; `UpdateRefreshToken` |
| `Inactive::enter_state`, `unregister_session` | `EnterInactive`, `UnregisterSession`, `UnregisterSessionEnd`, `AbortPackages` |
| `Dying::enter_state` and its completion | `ToDying`, `UploadCompleted` |
| `handle_error` | `HandleError`, then `AccessTokenExpired`, `CancelPendingWaits`, `Invalidate` or `ResetSession` |
| `wait_for_*_completion` | `WaitForCompletion` |
| `RealmCoordinator::commit_write` | `Commit` under `m_notifier_mutex`, then `Announce`: the version read at any time since, and `nonsync_transact_notify` |

`Writer` says which threads commit. `handle_error` looks at the state, releases
the mutex and may then make a session INACTIVE that is so already
(`ResetSession`). The `REALM_ASSERT` against that (`sync_session.cpp:702`) is empty
in this build: `include/core/realm/util/config.h:9` sets
`REALM_ENABLE_ASSERTIONS` to 0 and nothing in the project defines `REALM_DEBUG`.

realm-sync (`sync::Session`) is not in the repository: it uploads announced
versions in order, calls each registered handler once on its loop, and cancels
the handlers of a session that is destroyed.

**`CollectionNotifier`** models the notifiers of one Realm instance, whose thread
(`target`) delivers, the worker of `RealmCoordinator` (`worker`) and everybody
else who commits, removes callbacks or drops collections. A section of
`m_notifier_mutex` or `m_callback_mutex` is one action; a callback in progress is
a state (`target.call`), so anything can happen during it. A change set is the
set of versions whose changes it holds.

| Code | Definition |
|---|---|
| `add_callback`, `remove_callback` | `AddCallback`, `Removed` |
| `commitWriteTransactionWithoutNotifying` | `SuppressNextNotification` for each token, then `Commit` or `CommitFails`; `suppressing` while it is between them |
| `register_notifier`, `unregister` | `RegisterNotifier`, `Unregister` |
| `run_async_notifiers` | `RunAsyncNotifiers` up to the release of the lock, `RunToSkipVersion`, `RunToVersion` |
| `Realm::notify`, `refresh`, `begin_transaction`, `commit_transaction`, `cancel_transaction` | `Notify`, `Refresh`, `BeginTransaction`, `Commit`, `CancelTransaction` |
| `package_and_wait`, `advance_to_ready` | `PackageAndWait`, `AfterPackaging` |
| `before_advance`, `after_advance`, `deliver_error`, `for_each_callback` | `ForEachCallback`, `CallbackReturns`, `Advance`, `Delivered` |

The worker may run between a suppression and its commit, and a commit that fails
leaves `skip_next` set and the transaction open, to be committed or cancelled.

The constant `Practice` says which of five unusual things happen: a callback
writes, a callback is added to the collection that is calling, a callback is removed
in the delivery that added it, a collection is destroyed on another thread, a commit
without notifying fails.

The modules whose names end in **`Proofs`** hold the theorems about the module they
are named after (`ZFDownLoadServiceProofs`: the refinement);
**`MCDownLoader`**, **`MCDownLoaderManager`**, **`MCSqliteTool`** and **`MCSyncSession`** the values of the constants for
TLC. A definition whose comment begins "Mutant of" is a faulty variant of the
definition below it, used to see that a property notices the fault; no
specification uses it.

## Runs

Passing:

| Run | Instance | Shows |
|---|---|---|
| `manager` | two URLs of 3 and 2 chunks with one file name, 2 requests per life of the process, 2 tasks, restarts without limit; 49 318 states | `CacheWhole`, `TmpIsPrefix`, `OneTransferPerURL`, `RegisteredWhileBusy`, `ToldWhenDone`, `SuccessMeansStored`, `ProgressHonest`, `NoStuckTask`, `ResumeKeepsBytes`, `RequestAnswered`, `ImplementsService` |
| `direct` | one loader, one URL, three overlapping tasks, all server kinds; 1.6 million states | `NoLeakedStream`, `DowningHasTask` |
| `sqlite` | one single statement and batches of 2 and 3, in any order and method, one at a time; 22 550 states | `AllOrNothing`, `NoMeansNothing`, `ConnectionsClosed`, `CallReturns` |
| `audio` | three items | `NeverRaises`, `ReadyPlays` |
| `segment` | up to 4 buttons of widths 24 and 60 in a bar of 180 | `OneSelected`, `ClickedIsVisible`, `FromIsPrevious` |
| `sync` | two application threads, which both commit, and the loop, two session objects, one completion handler, one commit, two opens, two stops (log out, suspension or error), the three stop policies, four kinds of error; 2.6 million states | `SessionMatchesState`, `CalledOnce`, `ReferencedIsRegistered` |
| `sync_upload` | two threads of which one commits, one session object, two commits, three opens, two stops, AfterChangesUploaded; 1.3 million states | `UploadedBeforeDeath` |
| `notifier` | one notifier, two callbacks in all, two commits after the first version, callbacks added inside callbacks; 706 463 states | `ToldExactly`, `CountIsPackaged`, `HaveCallbacksExact` |
| `notifier_live` | one notifier, two callbacks, one commit, callbacks that write, commits that fail; 89 366 states | `WaitEnds`, `FirstNotification` |

Each safety run also checks its module's type invariant. Why the bounds are enough: the
manager's hazards need one URL asked for twice while an old task is alive, or a
second URL that competes for the file name, which it may also have taken in an
earlier life of the process; three chunks give a file that is
empty, partial and one short. With two tasks at most one per URL is ever needed,
which is what `OneTransferPerURL` says. In `direct`, three tasks let two replaced
tasks wait while a third runs. `SizeCap` stops answers once a temporary file is
longer (a server that ignores Range makes it grow without limit); `ReportCap`
caps the counts of `told`, at 2 in the `manager` run so that a block that runs twice is seen.
In the segment bar, three buttons of 24 with their margins are narrower than the
180 points and four, or three of 60, are wider, so both clamps of the scroll
offset apply. In `sync`, two opens let one thread find the session that another
is closing, and two stops let a session be logged out and hit by an error, or
suspended twice. In `sync_upload`, the second commit can find the session active,
waiting, dying or revived after the first, and the third open revives it once more.
In `notifier`, two commits let
the worker be one version behind while the Realm is at the other, and two
callbacks let one be removed, or added, while the other is called.
Symmetry is used for safety only (tasks in `direct`, threads and session objects in `sync`).

Violated, each a finding in `PROJECT.json` that quotes the comment or test:

| Run | What the code does |
|---|---|
| `success_is_final` | a download found complete in `didReceiveResponse` shows Success, then Fail, and runs the fail block |
| `restart` | after removing a temporary file that is too long, the loader asks again for ever, since `_tmpSize` is not reset |
| `suppressed` | a callback is told of a transaction that `commitWriteTransactionWithoutNotifying` was to hide from it, when the worker was busy with an earlier one: the end of that run clears `skip_next` |

### What else the models show

TLC also reached the following, in the modules as they stand and with the
constants named. They have no run of their own; the hazards in `PROJECT.json`
record them, and they are the limits of what the passing runs say.

- Two URLs with the same last path component share a cache file: the second is
  answered with the first one's resource (`manager` allows it: `CacheWhole` asks
  for the resource of some URL of that name).
- A loader used directly for a second URL lets a callback of the first task move
  the second URL's unfinished file to the cache; the manager makes a loader for
  each request, which is why `CacheWhole` holds there (`ZFDownLoader` with two URLs).
- `executeSqls` returns YES although the commit failed.
- `setItems:` leaves a `selectedIndex` beyond the last button; the layout reads
  the array with it.
- `SyncUser::log_out` and `SyncManager::get_session` take their two mutexes in
  opposite orders and can deadlock; `unregister_session` can close a session, and
  so call itself, with `m_session_mutex` held (`sync_manager.cpp:482`).
- `get_session` revives a session before it takes a reference to it, so a last
  reference dropped in between closes it again; a commit made then, while the
  session is DYING, is not announced (`UploadedBeforeDeath` speaks of commits
  made before). A session revived without a reference can be forgotten by the
  manager, after which `unregister_session` finds no entry (`undefined`).
- Two threads commit versions 1 and 2 and, with `m_notifier_mutex` released, announce
  2 and then 1 while the session waits for a token. `m_deferred_commit_notification`
  goes back to 1, and the session, which everybody then leaves, ends when version 1
  is uploaded, although `AfterChangesUploaded` promises to "wait for uploads to
  complete and stop" (`sync_manager.hpp:50`). (`UploadedBeforeDeath` with `Writer` =
  `{a1, a2}`, `Session` = `{s1}`, no `Waiter`, `ErrorKinds` = `{"expired"}`,
  `MaxVersion` 2, `MaxOpens` 2, `MaxStops` 1: a trace of 22 states.)
- `commitWriteTransactionWithoutNotifying` fails at its commit, as `RLMRealm.h:279`
  says it may, and leaves `skip_next` set; the transaction is committed again, with
  notifications, and the callback is not told of it but of the next version only.
  (`ToldExactly` with `Practice` = `{"commit fails"}`, `MaxVersion` 3, `MaxTokens` 1:
  a trace of 25 states.)
- A callback removed in the delivery that added it leaves `m_callback_count` too
  small (`Practice` with "remove fresh"). A callback added to the collection that
  is calling gets its first notification only after the next change ("add
  inside" with `FirstNotification`). With callbacks that write, and
  `MaxVersion` 5, `advance_to_ready` discards a package that is older than the
  Realm, and its changes are lost, though the comment says that only `begin_read`
  leads there ("write inside" with `ToldExactly`). A collection destroyed on
  another thread while `begin_transaction` waits leaves it waiting for ever
  ("drop elsewhere" with `WaitEnds`).

## Fairness

`DLFairness` and `Fairness` of the manager: the main run loop serves each task's
callbacks, and the URL loading system ends every task that is not suspended (a
request here has no timeout of its own, but the system reports lost
connections). Nothing is asked of the client, so `RequestAnswered` exempts
paused downloads. `ZFSqliteTool`: a method that was entered goes on.
`ZFAudioPlayer`: AVFoundation decides the status of the item the player holds.
`ZFUISegmentBar` and `SyncSession` have no liveness property and no fairness.
`CollectionNotifier`: the worker runs when it has been woken (its thread does
nothing else), a call that is under way proceeds, callbacks return and write
transactions end, all weak; `Notify` is strong, since the Realm's thread comes back
to its run loop again and again, but may be busy in between. `CHECK_DEADLOCK FALSE`
is set for the SQLite, audio and segment runs, where all calls may have been
made, or the object is gone, and for the runs of `SyncSession`, where the calls are bounded and the
code's own mutexes can deadlock, as said above.

## Proofs

`ZFDownLoaderProofs`, for every set of loaders, tasks, URLs, lengths and server
kinds, with or without failing file operations, from the named assumptions of
`ZFFileManagerTool` and `ZFDownLoader` (typing of the constants; nil, NoFile and
Unlinked differ from what they stand beside):

- `TypeCorrect`, `StreamsClosed`, `DowningEnds`: `DLTypeOK`, `NoLeakedStream` and
  `DowningHasTask` hold in every state.
- The inductive invariant `DLInv` adds `Attached` (a busy task has an owner and a
  URL, and its owner knows a URL, so the callbacks' paths exist) and
  `StreamOnFile` (a stream is open on a file that exists, or on one that lost its
  name, so a write is well-typed). Neither property is inductive alone: that a completion may
  close the stream and set the state needs that each busy task has its owner.

`ZFSqliteToolProofs`, for every set of calls and statement counts, any refusals
of SQLite and a crash anywhere, assuming `~Overlap`:

- `SqlTypeInvariance`, `BatchesAtomic`, `RefusedStoresNothing`,
  `ConnectionsAreClosed`: `TypeOK`, `AllOrNothing`, `NoMeansNothing` and
  `ConnectionsClosed`.
- The inductive invariant `SqlInv` says for each point of a method which of the
  call's rows are in the file and what its connection holds: none of the rows
  before the commit, exactly the rows `1..at` pending in the loop, no statement
  left when the connection is closed; and that a call in progress owns `db`,
  hence is alone.

`ZFDownLoaderManagerProofs`, for every set of URLs (also with equal last path
components), lengths, requests and tasks, and any number of restarts:

- `ManagerTypes`: `TypeOK`, whatever servers and files do.
- Under `WellBehaved` (servers honour Range, file operations do not fail) and
  `ReportCap > 0`, the assumptions of the `manager` run: `ManagerCacheWhole`,
  `ManagerTmpIsPrefix`, `ManagerOneTransfer`, `ManagerRegistered`,
  `ManagerToldWhenDone`, `ManagerSuccessStored`, `ManagerProgressHonest`,
  `ManagerNoStuckTask` and the action property `ManagerKeepsBytes`.
- The inductive invariant `MInv` (`ManagerInvariance`) adds to `DLInv` the phase
  of every busy task: `Waiting` (before the response: no stream, the offset asked
  for is the size of the file), `Receiving` (stream on the file, position,
  `_tmpSize` and size agree, what comes next is the next chunk of the URL) or
  `Moved` (the file was found complete and is in the cache). Without it neither
  `TmpIsPrefix` (what does the chunk that arrives continue?) nor `CacheWhole` (is
  the file complete when the completion moves it?) is inductive. `Apart` follows
  from it: the registered loader of a URL has its only task.

`ZFDownLoadServiceProofs`: `ManagerImplementsService`, under the same assumptions.
From `MInv`, the initial state of the manager is one of the service under the
mapping of `Service`, and each action is a step of the service or a stutter:
chunks map to `Receive`, the move to `Publish`, the blocks to `Answer`, and the
loading system's own steps to stutters. This is the safety part of
`ImplementsService`.

`ZFAudioPlayerProofs`: `AudioTypes`, and `AudioNeverRaises` under
`~StrictKVO` (before iOS 11 the code does raise). `AudioInv` adds that
the player's item is observed, which is what removing its observer needs, and that
something was raised only on a strict system.

`ZFUISegmentBarProofs`, for any number of buttons of any widths that fit the bar:
`BarTypes`, `BarOneSelected`, and the action properties `BarClickedIsVisible` and
`BarFromIsPrevious`. `BarInv` relates `lastSelectedBtn`, which may be a button
that was replaced, to the last call of the delegate. That a click scrolls the
button into view needs the sum of the widths before a button to be monotonic, by
induction; the library's induction theorems take a predicate, which the provers
cannot instantiate, so `SetInduction` states induction with a set, from the
well-foundedness of the natural numbers.

`SyncSessionProofs`, for any finite number of application threads and any number
of session objects, handlers, versions, opens and stops: `SyncTypes`,
`SyncSessionMatches`, `SyncReferencedIsRegistered`, `SyncCalledOnce` and, under
`OneWriter` (one thread alone commits; with two it is false, see above), the action property `SyncUploadedBeforeDeath`. The invariant has layers, each proved from
those before it: `AllGood` (what a session's state says of its `sync::Session` and
of the versions announced to it) with `Announcing` (a thread between its commit and
the announcement is a writer and, if it is the only one, announces the latest
version; together `SyncRecords`), `Registered` (a thread inside `get_session` or
`unregister_session` holds `m_session_mutex` and works on the registered session),
`Single` (a handler is in one place: queued, taken by one thread, registered once,
or answered), `Lives` and `Current` (the wait of a session's last death asks for
all that is owed; older waits carry an older death count) and `Credit` (how many
references can still make a session die: each death uses up a call of
`get_session`, which bounds `m_death_count` and is what `TypeOK` needs).

`CollectionNotifierProofs`, for any number of notifiers, versions and callbacks:

- `NotifierTypes` and `NotifierHaveExact`, whatever the application does.
- `NotifierCount`, under `KeepsFresh` (no callback is removed in the delivery that
  added it, where the count is wrong). `CountIsPackaged` says that a count is a
  cardinality; the inductive reason is that tokens are in the order they were
  given, so the callbacks that were packaged are a prefix of the vector, and the
  count is its length (`Prefix`). For that the calling callback must be one of
  the prefix (`CallIsOld`) and only the notifier that is calling may have an
  index (`Iterating`).
- `NotifierToldExactly`, under `Plain` (callbacks add callbacks at most and no
  commit without notifying fails; with callbacks that write, or commits that fail,
  it is false, see above): no change is told twice or early, and none is lost but
  those committed without notifying the callback, which it may still be told of
  (`suppressed`). The inductive invariant `Telling` rests on `Delivery` and has two
  more storeys. `Ground`: the notifiers that live and have run are all at one
  version, and with the worker while it works (`Opened`, `Abreast`); the package
  holds every living notifier with a callback that was called, at a version the
  Realm then shows (`Listing`, `Carried`, `Reaches`); the write lock holds notifiers
  and worker at the latest version (`Held`). `AllFine`, for each callback: what is
  to be delivered reaches from its last call to the version of the package and what
  has accumulated from there to the version of its notifier (`Accounts`); the
  Realm is ahead of a notifier only by its own last commit, and then nothing has
  accumulated, so a package that `advance_to_ready` discards held nothing (`Calm`);
  a pending `skip_next` drops only versions that were hidden from the callback
  (`Skipping`), or its transaction is still open, is hidden and, the write lock
  being held, will be the next version of all (`Hiding`, with `Suppression`).

The assumptions of the proofs are the `ASSUME`s of the modules, which TLC evaluates
on every run, and the hypotheses named above, which are those of the runs
(`ServerKinds`, `IOErrors`, `ReportCap`, `Overlap`, `StrictKVO`, `Writer` and `Practice` in
their cfgs).

Only model-checked:

- the liveness properties `RequestAnswered`, `CallReturns`, `ReadyPlays`,
  `WaitEnds`, `FirstNotification` and the liveness part of `ImplementsService`:
  fairness and `ENABLED` are out of the prover's reach.

Every safety property of a passing run is stated by a theorem.

## Not modelled

`contentType:`; `didReceiveChallenge` (answers a certificate, touches no state);
the order of progress reports; blocks and delegates that call back into the
object that calls them; object lifetimes, such as the session that retains its
loader; `seekWithTime:` and the audio progress; the conversion of columns in
`querySql`; heights and colours of the segment bar; redirects, which would make
`response.URL` differ from the URL asked for (`ZFDownLoader.m:190`); the
stateless categories and `ZFDeviceInfo`; `CALayer+ZFPauseAimate`, two methods of
QuartzCore's arithmetic on a layer's clock that nothing calls; the example
application and fastlane.

Of Realm's object store: `handle_reconnect`, `override_server`, connection states
and progress reports, the metadata Realm, management, permission and admin
sessions; the queries of `ResultsNotifier`, KVO observers, schema changes,
`invalidate` and Realms without a read transaction, `Realm::notify` called from
a nested run loop, several Realm instances on one file; and its schema,
migration, results, permission and keychain code and the Objective-C binding.

Of Realm's core and sync libraries only the headers under
`Realm/include/core` are in the repository, about two thirds of its
implementation lines: templates and inline accessors of the storage engine (bit
packed arrays, columns, query nodes), networking and serialization, most of
whose algorithms are in a compiled library that is not here. The share of the
repository's lines that this project models is therefore small: it covers the
library's own stateful classes and the two parts of the object store named above,
and the rest of the object store and of the binding, some thirty thousand lines of mostly
sequential code, is left out.

## Plan

1. The manager with servers that ignore Range; delegates that call back into the
   segment bar; two Realm instances on one file in `CollectionNotifier`.
