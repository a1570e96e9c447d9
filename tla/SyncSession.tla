------------------------------ MODULE SyncSession ------------------------------
(****************************************************************************)
(* The life of the synchronization session of one Realm file, in Realm's    *)
(* object store: SyncSession, with the parts of SyncUser and SyncManager    *)
(* that own, revive, log out and forget sessions.                           *)
(*                                                                          *)
(* Three mutexes are involved.  m_state_mutex of a session is never held    *)
(* while another lock or a callback is waited for, so a critical section of *)
(* it is one action.  SyncUser::m_mutex (lockU) and                         *)
(* SyncManager::m_session_mutex (lockM) are held across such sections and   *)
(* are variables.  Entering the state INACTIVE releases m_state_mutex       *)
(* before the manager forgets the session and before the queued completion  *)
(* handlers are called, so those are steps of their own.  A commit releases *)
(* the coordinator's mutex before the session is told of it, so that is a   *)
(* step of its own as well.                                                 *)
(*                                                                          *)
(* App threads make the public calls and run the binding's token handler;   *)
(* the thread `loop' runs the callbacks of realm-sync (sync::Session),      *)
(* which is outside the repository and modelled from how it is used.        *)
(****************************************************************************)
EXTENDS Integers, FiniteSets

CONSTANTS
    App,          \* the application's threads
    Writer,       \* the threads of App that commit to the Realm file
    loop,         \* the event loop thread of the sync client
    Session,      \* identities of SyncSession objects
    Waiter,       \* completion handlers
    ErrorKinds,   \* the errors the server may report, see HandleError
    StopPolicy,   \* the SyncSessionStopPolicy values of the configuration
    MaxVersion,   \* bound: commits to the Realm file
    MaxOpens,     \* bound: calls of get_session
    MaxStops,     \* bound: log outs, suspensions and server errors
    nil

Thread == App \cup {loop}

ASSUME SyncAssumption ==
    /\ IsFiniteSet(App) /\ loop \notin App /\ Writer \subseteq App
    /\ nil \notin Thread \cup Session \cup Waiter
    /\ StopPolicy \subseteq
         {"Immediately", "LiveIndefinitely", "AfterChangesUploaded"}
    /\ ErrorKinds \subseteq {"expired", "auth", "reset", "cancel"}
    /\ MaxVersion \in Nat /\ MaxOpens \in Nat /\ MaxStops \in Nat

VARIABLES
    stop_policy,  \* m_config.stop_policy of the Realm's configuration
    sessions,     \* the members of each SyncSession object
    m_sessions,   \* SyncManager's entry for the path: a session or nil
    user,         \* SyncUser: its state, and the session in each of its two maps
    lockM, lockU, \* who holds SyncManager::m_session_mutex, SyncUser::m_mutex
    refs,         \* [App -> the session the thread holds an external reference to]
    thread,       \* where each thread is, see ThreadRec
    waits,        \* wait operations registered with sync::Session objects
    issued,       \* the handlers that were registered
    answered,     \* [Waiter -> how often the handler was called]
    version,      \* the last version committed to the file
    uploaded,     \* the last version the server has acknowledged
    opened,       \* calls of get_session so far
    stopped,      \* log outs, suspensions and server errors so far
    owed,         \* history: the highest version announced to each session
                  \* while it was not DYING
    undefined     \* unregister_session dereferenced m_sessions.end()

data    == <<stop_policy, issued, answered, version, uploaded, owed, undefined>>
counts  == <<opened, stopped>>
locks   == <<lockM, lockU>>
outside == <<m_sessions, user, refs, locks, data, counts>>
vars    == <<sessions, waits, thread, outside>>

----------------------------------------------------------------------------
(* State.                                                                   *)

State == {"inactive", "waiting", "active", "dying"}

\* session      m_session is set          known   last version announced to it
\* deferred     m_deferred_commit_notification, 0 for none
SessionRec ==
    [alive: BOOLEAN, state: State, session: BOOLEAN, deferredClose: BOOLEAN,
     death: 0..MaxOpens, packages: SUBSET Waiter, deferred: 0..MaxVersion,
     known: 0..MaxVersion]

NoSession ==
    [alive |-> FALSE, state |-> "inactive", session |-> FALSE,
     deferredClose |-> FALSE, death |-> 0, packages |-> {}, deferred |-> 0,
     known |-> 0]

\* pc    what the thread does next          s     the session it works on
\* then  where it goes after "abort"        held  packages it has to abort
\* x     the session whose external reference unregister_session has looked up
\* v     the version it committed, to be announced
ThreadRec ==
    [pc: {"idle", "register", "revive", "ref", "drop", "announce", "logout",
          "logout_end", "unregister", "unregister_end", "abort", "expired",
          "auth", "invalidate", "reset", "cancel"},
     s: Session \cup {nil},
     then: {"idle", "ref", "logout_end", "invalidate", "abort"},
     held: SUBSET Waiter, x: Session \cup {nil}, v: 0..MaxVersion]

Idle ==
    [pc |-> "idle", s |-> nil, then |-> "idle", held |-> {}, x |-> nil, v |-> 0]

At(pc, s) == [Idle EXCEPT !.pc = pc, !.s = IF pc = "idle" THEN nil ELSE s]

\* m_external_reference of s has not expired.
Referenced(s) ==
    (\E t \in App : refs[t] = s) \/ (\E t \in Thread : thread[t].x = s)

\* A shared_ptr to s is held by the manager, a client or a running call.
Owned(s) ==
    m_sessions = s \/ Referenced(s) \/ \E t \in Thread : thread[t].s = s

----------------------------------------------------------------------------
(* Transitions of the session's state machine, as new values of a record.   *)

\* Mutant of ToInactive: m_session is left running.
ToInactiveRunning(r) == [r EXCEPT !.state = "inactive", !.packages = {}]

\* Mutant of ToInactive: the packages are copied, not moved.
ToInactiveCopies(r) == [r EXCEPT !.state = "inactive", !.session = FALSE]

ToInactive(r) ==
    [r EXCEPT !.state = "inactive", !.packages = {}, !.session = FALSE]

ToWaiting(r) == [r EXCEPT !.state = "waiting", !.deferredClose = FALSE]

ToDying(r) ==
    IF r.session THEN [r EXCEPT !.state = "dying", !.death = @ + 1]
                 ELSE ToInactive(r)

LogOut(r) == IF r.state = "inactive" THEN r ELSE ToInactive(r)

Revive(r) ==
    CASE r.state = "inactive" -> ToWaiting(r)
      [] r.state = "waiting"  -> [r EXCEPT !.deferredClose = FALSE]
      [] r.state = "dying"    -> [r EXCEPT !.state = "active"]
      [] OTHER                -> r

Close(r) ==
    CASE r.state \in {"waiting", "active"} /\ stop_policy = "Immediately"
           -> ToInactive(r)
      [] r.state = "waiting" /\ stop_policy # "Immediately"
           -> [r EXCEPT !.deferredClose = TRUE]
      [] r.state = "active" /\ stop_policy = "AfterChangesUploaded"
           -> ToDying(r)
      [] OTHER -> r

\* The later of two versions.
Later(v, w) == IF v < w THEN w ELSE v

\* Mutant of Notified: announces the version after the commit.
NotifiedEarly(r, v) == IF r.state = "active" THEN [r EXCEPT !.known = v + 1] ELSE r

\* sync::Session keeps the latest version that it is told; a waiting SyncSession
\* keeps the last one.
Notified(r, v) ==
    CASE r.state = "active"  -> [r EXCEPT !.known = Later(@, v)]
      [] r.state = "waiting" -> [r EXCEPT !.deferred = v]
      [] OTHER -> r

\* The first token after create_sync_session binds the new sync::Session, which
\* announces what is in the file; a later one refreshes it.  The deferred commit is
\* announced, the deferred close done.
Refreshed(r) ==
    LET open == [r EXCEPT !.state = "active", !.session = TRUE,
                          !.packages = {}, !.deferred = 0,
                          !.known = IF ~r.session THEN version
                                    ELSE Later(@, r.deferred)]
    IN  IF r.state # "waiting" THEN r
        ELSE IF r.deferredClose THEN Close(open) ELSE open

----------------------------------------------------------------------------
(* Critical sections.                                                       *)

Upload(s, n, need) == [s |-> s, who |-> nil, count |-> n, need |-> need]
Handler(s, w)      == [s |-> s, who |-> w, count |-> 0, need |-> 0]

\* Destroying a sync::Session cancels its waits: their handlers will be called
\* without anything having been uploaded.
Terminated(W, s) ==
    {IF w.s = s THEN [w EXCEPT !.need = 0] ELSE w : w \in W}

\* Entering INACTIVE: the sync::Session is destroyed and the lock released; the
\* thread goes on to unregister, to abort the packages it took, and then to `cont'.
EnterInactive(t, s, W, cont) ==
    /\ sessions' = [sessions EXCEPT ![s] = ToInactive(@)]
    /\ waits' = Terminated(W, s)
    /\ thread' = [thread EXCEPT ![t] =
         [At("unregister", s) EXCEPT !.then = cont.pc,
                                     !.held = sessions[s].packages \cup cont.held]]

\* A critical section of s's m_state_mutex in which thread t moves the session to r,
\* leaving W with sync::Session, and goes on as cont.  Entering DYING registers a
\* wait for the upload of what has been announced.
Section(t, s, r, W, cont) ==
    IF r.state = "inactive" /\ sessions[s].state # "inactive"
    THEN EnterInactive(t, s, W, cont)
    ELSE LET dies == r.state = "dying" /\ sessions[s].state # "dying"
         IN  /\ sessions' = [sessions EXCEPT ![s] = r]
             /\ waits' = W \cup IF dies THEN {Upload(s, r.death, r.known)} ELSE {}
             /\ thread' = [thread EXCEPT ![t] = cont]

IsIdle(t) == thread[t].pc = "idle"

----------------------------------------------------------------------------
(* SyncManager::get_session, on an application thread.                      *)

\* Under m_session_mutex, which is kept: find the session, or create it together
\* with its external reference.
GetSession(t) ==
    /\ IsIdle(t) /\ refs[t] = nil /\ lockM = nil /\ opened < MaxOpens
    /\ opened' = opened + 1
    /\ lockM' = t
    /\ \/ /\ m_sessions # nil
          /\ thread' = [thread EXCEPT ![t] = At("register", m_sessions)]
          /\ UNCHANGED <<sessions, m_sessions, refs>>
       \/ /\ m_sessions = nil
          /\ \E s \in Session :
               /\ ~sessions[s].alive /\ \A w \in waits : w.s # s
               /\ sessions' = [sessions EXCEPT ![s].alive = TRUE]
               /\ m_sessions' = s
               /\ refs' = [refs EXCEPT ![t] = s]
               /\ thread' = [thread EXCEPT ![t] = At("register", s)]
    /\ UNCHANGED <<user, lockU, waits, stopped, data>>

\* SyncUser::register_session.
RegisterSession(t) ==
    LET s == thread[t].s
    IN  /\ thread[t].pc = "register" /\ lockU = nil
        /\ user' = CASE user.state = "Active"    -> [user EXCEPT !.active = s]
                     [] user.state = "LoggedOut" -> [user EXCEPT !.waiting = s]
                     [] OTHER                    -> user
        /\ thread' = [thread EXCEPT ![t] =
             IF user.state = "Active" THEN [At("revive", s) EXCEPT !.then = "ref"]
             ELSE At("ref", s)]
        /\ UNCHANGED <<sessions, m_sessions, refs, waits, data, counts, locks>>

ReviveIfNeeded(t) ==
    LET s == thread[t].s
    IN  /\ thread[t].pc = "revive"
        /\ Section(t, s, Revive(sessions[s]), waits, At(thread[t].then, s))
        /\ UNCHANGED outside

\* external_reference, and the end of get_session.
ExternalReference(t) ==
    /\ thread[t].pc = "ref"
    /\ refs' = [refs EXCEPT ![t] = thread[t].s]
    /\ thread' = [thread EXCEPT ![t] = Idle]
    /\ lockM' = nil
    /\ UNCHANGED <<sessions, m_sessions, user, lockU, waits, data, counts>>

----------------------------------------------------------------------------
(* Other calls on application threads.                                      *)

\* The last reference runs did_drop_external_reference.
DropReference(t) ==
    /\ IsIdle(t) /\ refs[t] # nil
    /\ refs' = [refs EXCEPT ![t] = nil]
    /\ thread' = [thread EXCEPT ![t] =
         IF (\E o \in App \ {t} : refs[o] = refs[t])
              \/ (\E o \in Thread : thread[o].x = refs[t])
         THEN Idle ELSE At("drop", refs[t])]
    /\ UNCHANGED <<sessions, m_sessions, user, waits, data, counts, locks>>

DidDropExternalReference(t) ==
    LET s == thread[t].s
    IN  /\ thread[t].pc = "drop"
        /\ Section(t, s, IF Referenced(s) THEN sessions[s] ELSE Close(sessions[s]),
                   waits, Idle)
        /\ UNCHANGED outside

\* SyncUser::log_out keeps m_mutex until its session is out.
UserLogOut(t) ==
    /\ IsIdle(t) /\ lockU = nil /\ user.state # "LoggedOut"
    /\ IF user.active # nil /\ Owned(user.active)
       THEN /\ lockU' = t
            /\ user' = [user EXCEPT !.state = "LoggedOut"]
            /\ thread' = [thread EXCEPT ![t] = At("logout", user.active)]
       ELSE /\ user' = [user EXCEPT !.state = "LoggedOut", !.active = nil]
            /\ UNCHANGED <<lockU, thread>>
    /\ stopped < MaxStops /\ stopped' = stopped + 1
    /\ UNCHANGED <<sessions, m_sessions, lockM, refs, waits, opened, data>>

SessionLogOut(t) ==
    LET s == thread[t].s
    IN  /\ thread[t].pc = "logout"
        /\ Section(t, s, LogOut(sessions[s]), waits, At("logout_end", s))
        /\ UNCHANGED outside

UserLogOutEnd(t) ==
    /\ thread[t].pc = "logout_end"
    /\ user' = [user EXCEPT !.waiting = thread[t].s, !.active = nil]
    /\ lockU' = nil
    /\ thread' = [thread EXCEPT ![t] = Idle]
    /\ UNCHANGED <<sessions, m_sessions, lockM, refs, waits, data, counts>>

\* SyncUser::update_refresh_token of a logged-out user: logged in again.
UpdateRefreshToken(t) ==
    /\ IsIdle(t) /\ lockU = nil /\ user.state = "LoggedOut"
    /\ IF user.waiting # nil /\ Owned(user.waiting)
       THEN /\ user' = [state |-> "Active", active |-> user.waiting, waiting |-> nil]
            /\ thread' = [thread EXCEPT ![t] = At("revive", user.waiting)]
       ELSE /\ user' = [user EXCEPT !.state = "Active", !.waiting = nil]
            /\ UNCHANGED thread
    /\ UNCHANGED <<sessions, m_sessions, refs, waits, data, counts, locks>>

\* The binding's -suspend and -resume.
Suspend(t) ==
    /\ IsIdle(t) /\ refs[t] # nil
    /\ Section(t, refs[t], LogOut(sessions[refs[t]]), waits, Idle)
    /\ stopped < MaxStops /\ stopped' = stopped + 1
    /\ UNCHANGED <<m_sessions, user, refs, opened, data, locks>>

Resume(t) ==
    /\ IsIdle(t) /\ refs[t] # nil
    /\ Section(t, refs[t], Revive(sessions[refs[t]]), waits, Idle)
    /\ UNCHANGED outside

\* The binding delivers an access token; only a waiting session changes.
RefreshAccessToken(t) ==
    \E s \in Session :
        /\ IsIdle(t) /\ Owned(s) /\ sessions[s].state = "waiting"
        /\ Section(t, s, Refreshed(sessions[s]),
                   waits \cup {Handler(s, w) : w \in sessions[s].packages}, Idle)
        /\ UNCHANGED outside

\* wait_for_upload_completion and wait_for_download_completion.
WaitForCompletion(t, w) ==
    /\ IsIdle(t) /\ refs[t] # nil /\ w \notin issued
    /\ issued' = issued \cup {w}
    /\ LET s == refs[t]
           r == sessions[s]
       IN  IF r.state \in {"active", "dying"}
           THEN Section(t, s, r, waits \cup {Handler(s, w)}, Idle)
           ELSE Section(t, s, [r EXCEPT !.packages = @ \cup {w}], waits, Idle)
    /\ UNCHANGED <<stop_policy, m_sessions, user, refs, answered, version,
                   uploaded, owed, undefined, counts, locks>>

\* commit_write commits under the coordinator's m_notifier_mutex.
Commit(t) ==
    /\ t \in Writer /\ IsIdle(t) /\ refs[t] # nil /\ version < MaxVersion
    /\ version' = version + 1
    /\ thread' = [thread EXCEPT ![t] =
         [At("announce", refs[t]) EXCEPT !.v = version + 1]]
    /\ UNCHANGED <<stop_policy, sessions, m_sessions, user, refs, waits, issued,
                   answered, uploaded, owed, undefined, counts, locks>>

\* Without that mutex it then reads the number of the latest snapshot, at any time
\* since its commit, and hands it to nonsync_transact_notify.
Announce(t) ==
    LET s == thread[t].s
    IN  /\ thread[t].pc = "announce"
        /\ \E v \in thread[t].v..version :
             /\ Section(t, s, Notified(sessions[s], v), waits, Idle)
             /\ owed' = [owed EXCEPT ![s] =
                           IF sessions[s].state = "dying" THEN @ ELSE Later(@, v)]
        /\ UNCHANGED <<stop_policy, m_sessions, user, refs, issued, answered, version,
                       uploaded, undefined, counts, locks>>

----------------------------------------------------------------------------
(* The rest of entering INACTIVE, on whichever thread did.                  *)

\* Mutant of LeftRegistered: the session is forgotten in any case.
LeftRegisteredNever == FALSE

LeftRegistered == m_sessions # nil /\ Referenced(m_sessions)

\* SyncManager::unregister_session.  existing_external_reference returns a
\* reference of its own, which lives to the end of the condition.
UnregisterSession(t) ==
    /\ thread[t].pc = "unregister" /\ lockM = nil
    /\ \/ /\ m_sessions = nil
          /\ undefined' = TRUE
          /\ UNCHANGED <<m_sessions, lockM, thread>>
       \/ /\ LeftRegistered
          /\ lockM' = t
          /\ thread' = [thread EXCEPT ![t].pc = "unregister_end",
                                      ![t].x = m_sessions]
          /\ UNCHANGED <<m_sessions, undefined>>
       \/ /\ m_sessions # nil /\ ~LeftRegistered
          /\ m_sessions' = nil
          /\ thread' = [thread EXCEPT ![t].pc = "abort"]
          /\ UNCHANGED <<lockM, undefined>>
    /\ UNCHANGED <<stop_policy, sessions, user, lockU, refs, waits, issued,
                   answered, version, uploaded, owed, counts>>

\* The looked-up reference goes; if it has become the last one it closes the
\* session, with m_session_mutex still held.
UnregisterSessionEnd(t) ==
    LET x == thread[t].x
        last == /\ \A o \in App : refs[o] # x
                /\ \A o \in Thread \ {t} : thread[o].x # x
        cont == [thread[t] EXCEPT !.pc = "abort", !.x = nil]
    IN  /\ thread[t].pc = "unregister_end"
        /\ Section(t, x, IF last THEN Close(sessions[x]) ELSE sessions[x], waits, cont)
        /\ lockM' = IF thread'[t] = cont THEN nil ELSE lockM
        /\ UNCHANGED <<m_sessions, user, lockU, refs, data, counts>>

\* The handlers that were queued are told that they were aborted.
AbortPackages(t) ==
    /\ thread[t].pc = "abort"
    /\ answered' = [w \in Waiter |->
                      answered[w] + IF w \in thread[t].held THEN 1 ELSE 0]
    /\ thread' = [thread EXCEPT ![t] = At(thread[t].then, thread[t].s)]
    /\ UNCHANGED <<stop_policy, sessions, m_sessions, user, refs, waits, issued,
                   version, uploaded, owed, undefined, counts, locks>>

\* A SyncSession object that nobody owns is destroyed, and its sync::Session.
Destroy(s) ==
    /\ sessions[s].alive /\ ~Owned(s)
    /\ sessions' = [sessions EXCEPT ![s] = NoSession]
    /\ waits' = Terminated(waits, s)
    /\ owed' = [owed EXCEPT ![s] = 0]
    /\ UNCHANGED <<stop_policy, m_sessions, user, refs, thread, issued, answered,
                   version, uploaded, undefined, counts, locks>>

----------------------------------------------------------------------------
(* The sync client's event loop.                                            *)

UploadVersion ==
    /\ \E s \in Session : /\ sessions[s].state \in {"active", "dying"}
                          /\ uploaded < sessions[s].known
    /\ uploaded' = uploaded + 1
    /\ UNCHANGED <<stop_policy, sessions, m_sessions, user, refs, thread, waits,
                   issued, answered, version, owed, undefined, counts, locks>>

\* A client's completion handler is called, done or cancelled.
HandlerCalled(c) ==
    /\ IsIdle(loop) /\ c \in waits /\ c.who # nil
    /\ waits' = waits \ {c}
    /\ answered' = [answered EXCEPT ![c.who] = @ + 1]
    /\ UNCHANGED <<stop_policy, sessions, m_sessions, user, refs, thread, issued,
                   version, uploaded, owed, undefined, counts, locks>>

\* Mutant of IsCurrentDeath: m_death_count is not compared.
IsDying(c) == sessions[c.s].state = "dying"

\* The wait c was registered when the session entered DYING for the last time.
IsCurrentDeath(c) ==
    sessions[c.s].state = "dying" /\ sessions[c.s].death = c.count

\* The wait registered on entering DYING is over, done or cancelled.
UploadCompleted(c) ==
    /\ IsIdle(loop) /\ c \in waits /\ c.who = nil /\ c.need <= uploaded
    /\ IF Owned(c.s) /\ IsCurrentDeath(c)
       THEN EnterInactive(loop, c.s, waits \ {c}, Idle)
       ELSE /\ waits' = waits \ {c}
            /\ UNCHANGED <<sessions, thread>>
    /\ UNCHANGED outside

\* SyncSession::handle_error.  A DYING session takes a fatal error for the end;
\* otherwise the lock is released before the kind of the error is looked at.
\* Errors that are only reported, or not even that, change nothing.
HandleError(s, kind) ==
    /\ IsIdle(loop) /\ sessions[s].session /\ Owned(s)
    /\ \/ /\ sessions[s].state = "dying" /\ kind # "expired"
          /\ EnterInactive(loop, s, waits, Idle)
       \/ /\ sessions[s].state # "dying"
          /\ thread' = [thread EXCEPT ![loop] = At(kind, s)]
          /\ UNCHANGED <<sessions, waits>>
    /\ stopped < MaxStops /\ stopped' = stopped + 1
    /\ UNCHANGED <<m_sessions, user, refs, opened, data, locks>>

\* token_expired: an active session waits for a new token.
AccessTokenExpired ==
    LET s == thread[loop].s
        r == sessions[s]
    IN  /\ thread[loop].pc = "expired"
        /\ Section(loop, s, IF r.state = "active" THEN ToWaiting(r) ELSE r, waits, Idle)
        /\ UNCHANGED outside

\* Fatal errors cancel the pending waits; bad_authentication also invalidates the
\* user.
CancelPendingWaits ==
    LET s == thread[loop].s
    IN  /\ thread[loop].pc \in {"auth", "cancel"}
        /\ sessions' = [sessions EXCEPT ![s].packages = {}]
        /\ thread' = [thread EXCEPT ![loop] =
             [At("abort", s) EXCEPT
                !.then = IF thread[loop].pc = "auth" THEN "invalidate" ELSE "idle",
                !.held = sessions[s].packages]]
        /\ UNCHANGED <<waits, outside>>

Invalidate ==
    /\ thread[loop].pc = "invalidate" /\ lockU = nil
    /\ user' = [user EXCEPT !.state = "Error"]
    /\ thread' = [thread EXCEPT ![loop] = Idle]
    /\ UNCHANGED <<sessions, m_sessions, refs, waits, data, counts, locks>>

\* permission_denied or diverging histories: INACTIVE, whatever the state is by now.
\* If it is INACTIVE already it is entered again: the assertion of advance_state is
\* compiled out (REALM_ENABLE_ASSERTIONS is 0 in the config.h of the pod).
ResetSession ==
    /\ thread[loop].pc = "reset"
    /\ EnterInactive(loop, thread[loop].s, waits, Idle)
    /\ UNCHANGED outside

----------------------------------------------------------------------------
Init ==
    /\ stop_policy \in StopPolicy
    /\ sessions = [s \in Session |-> NoSession]
    /\ m_sessions = nil
    /\ user = [state |-> "Active", active |-> nil, waiting |-> nil]
    /\ lockM = nil /\ lockU = nil
    /\ refs = [t \in App |-> nil]
    /\ thread = [t \in Thread |-> Idle]
    /\ waits = {} /\ issued = {}
    /\ answered = [w \in Waiter |-> 0]
    /\ version = 0 /\ uploaded = 0 /\ opened = 0 /\ stopped = 0
    /\ owed = [s \in Session |-> 0]
    /\ undefined = FALSE

AppNext(t) ==
    \/ GetSession(t) \/ RegisterSession(t) \/ ExternalReference(t)
    \/ DropReference(t) \/ DidDropExternalReference(t)
    \/ UserLogOut(t) \/ SessionLogOut(t) \/ UserLogOutEnd(t) \/ UpdateRefreshToken(t)
    \/ Suspend(t) \/ Resume(t) \/ RefreshAccessToken(t)
    \/ Commit(t) \/ Announce(t)
    \/ \E w \in Waiter : WaitForCompletion(t, w)

LoopNext ==
    \/ UploadVersion
    \/ \E c \in waits : HandlerCalled(c) \/ UploadCompleted(c)
    \/ \E s \in Session, kind \in ErrorKinds : HandleError(s, kind)
    \/ AccessTokenExpired \/ CancelPendingWaits \/ Invalidate \/ ResetSession

Next ==
    /\ ~undefined
    /\ \/ \E t \in App : AppNext(t)
       \/ \E t \in Thread : \/ ReviveIfNeeded(t) \/ UnregisterSession(t)
                             \/ UnregisterSessionEnd(t) \/ AbortPackages(t)
       \/ LoopNext
       \/ \E s \in Session : Destroy(s)

Spec == Init /\ [][Next]_vars

----------------------------------------------------------------------------
(* Properties.                                                              *)

\* The members keep their types and nothing is uploaded that was not committed.
TypeOK ==
    /\ stop_policy \in StopPolicy
    /\ sessions \in [Session -> SessionRec]
    /\ m_sessions \in Session \cup {nil}
    /\ user \in [state: {"Active", "LoggedOut", "Error"},
                 active: Session \cup {nil}, waiting: Session \cup {nil}]
    /\ lockM \in Thread \cup {nil} /\ lockU \in Thread \cup {nil}
    /\ refs \in [App -> Session \cup {nil}]
    /\ thread \in [Thread -> ThreadRec]
    /\ version \in 0..MaxVersion /\ uploaded \in 0..version

\* An active or dying session has its sync::Session, which every call in those
\* states dereferences, and an inactive one has none left running, whichever of the
\* threads moved it there.
SessionMatchesState ==
    \A s \in Session : sessions[s].alive =>
        /\ sessions[s].state \in {"active", "dying"} => sessions[s].session
        /\ sessions[s].state = "inactive" => ~sessions[s].session

Places(w) ==
    answered[w]
    + Cardinality({s \in Session : w \in sessions[s].packages})
    + Cardinality({t \in Thread : w \in thread[t].held})
    + Cardinality({c \in waits : c.who = w})

\* A completion handler is called at most once: it is never both queued and
\* registered, or taken by two threads that abort the queue.
CalledOnce == \A w \in Waiter : Places(w) <= 1

\* The manager keeps a session for as long as it has an external reference, so the
\* clients of a Realm never hold two sessions: not when get_session finds a session
\* that another thread is about to unregister, and not after log out or an error.
ReferencedIsRegistered ==
    \A s \in Session : Referenced(s) => m_sessions = s

\* AfterChangesUploaded: a session that ends because its upload is complete has
\* uploaded every version that was announced to it before it began to die, whatever
\* the number of times it was revived, logged out or waited for a token meanwhile.
\* One thread alone commits: the announcements of two can overtake each other.
UploadedBeforeDeath ==
    [][\A c \in waits :
         (UploadCompleted(c) /\ sessions'[c.s].state # sessions[c.s].state)
            => uploaded >= owed[c.s]]_vars

================================================================================
