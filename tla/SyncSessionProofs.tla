--------------------------- MODULE SyncSessionProofs ---------------------------
(****************************************************************************)
(* Proofs about SyncSession for every number of application threads,        *)
(* session objects, completion handlers and commits.                        *)
(*                                                                          *)
(* The invariants come in layers.  Good says of every session record what   *)
(* its state implies for its sync::Session and for the versions announced   *)
(* to it.  Registration says which threads hold SyncManager's mutex and     *)
(* that the session they work on is the registered one.  Single says that a *)
(* completion handler is in one place.  Current says that the wait of the   *)
(* last death asks for everything that is owed, which rests on one thread   *)
(* committing: Announcing says that it then announces the last version, and *)
(* Good that a session knows what it was told.  Credit counts the           *)
(* references that can still make a session die.                            *)
(****************************************************************************)
EXTENDS SyncSession, FiniteSetTheorems, TLAPS

\* SessionRec without the bound on m_death_count.
SessionRecN ==
    [alive: BOOLEAN, state: State, session: BOOLEAN, deferredClose: BOOLEAN,
     death: Nat, packages: SUBSET Waiter, deferred: Nat, known: Nat]

WaitRec == [s: Session, who: Waiter \cup {nil}, count: Nat, need: Nat]

\* One thread alone commits to the file.
OneWriter == \A a, b \in Writer : a = b

\* What holds of a session record r, of the version o owed through it, of the last
\* version v of the file and of the stop policy p.
Good(r, o, v, p) ==
    /\ r.state \in {"active", "dying"} => r.session /\ (OneWriter => o <= r.known)
    /\ r.state = "waiting" /\ r.session =>
           (OneWriter => o <= r.known \/ o <= r.deferred)
    /\ r.state = "inactive" => ~r.session
    /\ r.deferredClose => p # "Immediately"
    /\ r.known <= v /\ r.deferred <= v /\ o <= v

\* What holds of a thread: when it works on a session, and where it can return to.
Placed(q) ==
    /\ q.pc # "idle" => q.s \in Session
    /\ q.x # nil <=> q.pc = "unregister_end"
    /\ q.then = "ref" => q.pc = "revive"

Typed ==
    /\ stop_policy \in StopPolicy
    /\ sessions \in [Session -> SessionRecN]
    /\ m_sessions \in Session \cup {nil}
    /\ user \in [state: {"Active", "LoggedOut", "Error"},
                 active: Session \cup {nil}, waiting: Session \cup {nil}]
    /\ lockM \in Thread \cup {nil} /\ lockU \in Thread \cup {nil}
    /\ refs \in [App -> Session \cup {nil}]
    /\ thread \in [Thread -> ThreadRec]
    /\ \A t \in Thread : Placed(thread[t])
    /\ waits \in SUBSET WaitRec
    /\ issued \in SUBSET Waiter /\ answered \in [Waiter -> Nat]
    /\ version \in 0..MaxVersion /\ uploaded \in 0..version
    /\ opened \in 0..MaxOpens
    /\ owed \in [Session -> Nat]

AllGood == \A s \in Session : Good(sessions[s], owed[s], version, stop_policy)

\* A thread that has a commit to announce is a writer, and the only writer announces
\* the last version.
Announcing ==
    \A t \in Thread : thread[t].pc = "announce" =>
        t \in Writer /\ (OneWriter => thread[t].v = version)

----------------------------------------------------------------------------
(* The other layers of the invariant.                                       *)

\* The thread is inside get_session, between finding the session and referencing it.
Opening(q) == q.pc \in {"register", "ref"} \/ q.then = "ref"

\* A thread inside get_session, or between the two parts of unregister_session, holds
\* m_session_mutex and works on the registered session; a referenced session is the
\* registered one.
Registered ==
    /\ \A s \in Session : Referenced(s) => m_sessions = s
    /\ \A t \in Thread : Opening(thread[t]) => lockM = t /\ m_sessions = thread[t].s
    /\ \A t \in Thread : thread[t].pc = "unregister_end" =>
           lockM = t /\ m_sessions = thread[t].x

Queued(w, s)  == w \in sessions[s].packages
Taken(w, t)   == w \in thread[t].held
Pending(w, c) == c \in waits /\ c.who = w

\* The handler w is in none of the three places.
Nowhere(w) ==
    /\ \A s \in Session : ~Queued(w, s)
    /\ \A t \in Thread : ~Taken(w, t)
    /\ \A c \in waits : ~Pending(w, c)

\* The handler w is in one place at most.
OnePlace(w) ==
    /\ \A s, o \in Session : Queued(w, s) /\ Queued(w, o) => s = o
    /\ \A t, o \in Thread : Taken(w, t) /\ Taken(w, o) => t = o
    /\ \A c, d \in waits : Pending(w, c) /\ Pending(w, d) => c = d
    /\ \A s \in Session, t \in Thread : ~(Queued(w, s) /\ Taken(w, t))
    /\ \A s \in Session, c \in waits : ~(Queued(w, s) /\ Pending(w, c))
    /\ \A t \in Thread, c \in waits : ~(Taken(w, t) /\ Pending(w, c))

\* A handler is in one place at most, in none before it is registered and in none after
\* it was called; only a thread that enters INACTIVE or aborts holds handlers.
Single ==
    /\ \A w \in Waiter : OnePlace(w) /\ answered[w] \in {0, 1}
    /\ \A w \in Waiter : w \notin issued => Nowhere(w) /\ answered[w] = 0
    /\ \A w \in Waiter : answered[w] = 1 => Nowhere(w)
    /\ \A t \in Thread : thread[t].pc \notin {"unregister", "unregister_end", "abort"} =>
           thread[t].held = {}

\* What somebody owns is alive, and what is not alive is INACTIVE.
Lives ==
    /\ \A s \in Session : Owned(s) => sessions[s].alive
    /\ \A s \in Session : ~sessions[s].alive => sessions[s].state = "inactive"

\* The upload wait of the last death asks for everything that is owed.
Current ==
    \A c \in waits : c.who = nil /\ sessions[c.s].alive =>
        /\ c.count <= sessions[c.s].death
        /\ sessions[c.s].state = "dying" /\ c.count = sessions[c.s].death =>
               owed[c.s] <= c.need

\* The application threads whose call of get_session has not yet been used up by a
\* dropped reference.
Creditors ==
    {t \in App : refs[t] # nil \/ thread[t].pc = "drop" \/ Opening(thread[t])}

\* A close that is remembered until the token comes.
Deferred(r) == IF r.state = "waiting" /\ r.deferredClose THEN 1 ELSE 0

\* The reference unregister_session looked up is the last one.
LastLookup(s) ==
    IF (\E t \in Thread : thread[t].x = s) /\ \A t \in App : refs[t] # s THEN 1 ELSE 0

\* The deaths of a session record, with the one it remembers.
Deaths(r) == r.death + Deferred(r)

\* The same, with the one the end of unregister_session is going to cause.
Debt(s) == Deaths(sessions[s]) + LastLookup(s)

\* A session dies at most once per call of get_session: each death uses up a dropped
\* reference.
Credit ==
    /\ \A t \in App : thread[t].pc = "drop" => refs[t] = nil
    /\ Cardinality(Creditors) <= opened
    /\ \A s \in Session : Debt(s) + Cardinality(Creditors) <= opened

----------------------------------------------------------------------------
(* The transitions of a session record.                                     *)

\* Entering INACTIVE.
LEMMA InactiveGood ==
    ASSUME NEW r \in SessionRecN, NEW o \in Nat, NEW v \in Nat, NEW p, Good(r, o, v, p)
    PROVE  /\ ToInactive(r) \in SessionRecN /\ Good(ToInactive(r), o, v, p)
           /\ ToInactive(r).state = "inactive" /\ ToInactive(r).packages = {}
           /\ ToInactive(r).alive = r.alive /\ ToInactive(r).death = r.death
BY DEF ToInactive, SessionRecN, State, Good

\* Entering WAITING_FOR_ACCESS_TOKEN, from a state in which nothing owed is lost.
LEMMA WaitingGood ==
    ASSUME NEW r \in SessionRecN, NEW o \in Nat, NEW v \in Nat, NEW p, Good(r, o, v, p)
    PROVE  /\ ToWaiting(r) \in SessionRecN /\ Good(ToWaiting(r), o, v, p)
           /\ ToWaiting(r).state = "waiting" /\ ToWaiting(r).packages = r.packages
           /\ ToWaiting(r).alive = r.alive /\ ToWaiting(r).death = r.death
           /\ ~ToWaiting(r).deferredClose
BY DEF ToWaiting, SessionRecN, State, Good

\* log_out.
LEMMA LogOutGood ==
    ASSUME NEW r \in SessionRecN, NEW o \in Nat, NEW v \in Nat, NEW p, Good(r, o, v, p)
    PROVE  /\ LogOut(r) \in SessionRecN /\ Good(LogOut(r), o, v, p)
           /\ LogOut(r).state = "inactive"
           /\ LogOut(r).alive = r.alive /\ LogOut(r).death = r.death
           /\ r.state = "inactive" => LogOut(r) = r
BY InactiveGood DEF LogOut

\* revive_if_needed.
LEMMA ReviveGood ==
    ASSUME NEW r \in SessionRecN, NEW o \in Nat, NEW v \in Nat, NEW p, Good(r, o, v, p)
    PROVE  /\ Revive(r) \in SessionRecN /\ Good(Revive(r), o, v, p)
           /\ Revive(r).state \in {"waiting", "active"}
           /\ Revive(r).packages = r.packages
           /\ Revive(r).alive = r.alive /\ Revive(r).death = r.death
           /\ Revive(r).state = "waiting" => ~Revive(r).deferredClose
<1>1. CASE r.state = "inactive"
  BY <1>1, WaitingGood DEF Revive
<1>2. CASE r.state = "waiting"
  <2>1. Revive(r) = [r EXCEPT !.deferredClose = FALSE]
    BY <1>2 DEF Revive
  <2> QED
    BY <1>2, <2>1 DEF SessionRecN, Good
<1>3. CASE r.state = "dying"
  <2>1. Revive(r) = [r EXCEPT !.state = "active"]
    BY <1>3 DEF Revive
  <2> QED
    BY <1>3, <2>1 DEF SessionRecN, State, Good
<1>4. CASE r.state = "active"
  <2>1. Revive(r) = r
    BY <1>4 DEF Revive
  <2> QED
    BY <1>4, <2>1 DEF SessionRecN, State, Good
<1> QED
  BY <1>1, <1>2, <1>3, <1>4 DEF SessionRecN, State

\* Closing, when the last external reference goes.  A session dies, or remembers to
\* close, at most once.
LEMMA CloseGood ==
    ASSUME NEW r \in SessionRecN, NEW o \in Nat, NEW v \in Nat, Good(r, o, v, stop_policy)
    PROVE  /\ Close(r) \in SessionRecN /\ Good(Close(r), o, v, stop_policy)
           /\ Close(r).alive = r.alive /\ Close(r).known = r.known
           /\ Close(r).state # "inactive" => Close(r).packages = r.packages
           /\ stop_policy # "Immediately" /\ r.state # "inactive" =>
                  Close(r).state # "inactive"
           /\ \/ Close(r).death = r.death
              \/ /\ r.state = "active" /\ Close(r).state = "dying"
                 /\ Close(r).death = r.death + 1
           /\ Close(r).state = "dying" =>
                  r = Close(r) \/ (r.state = "active" /\ Close(r).death = r.death + 1)
           /\ Close(r).state = "active" => Close(r) = r
<1>1. CASE r.state \in {"waiting", "active"} /\ stop_policy = "Immediately"
  <2>1. Close(r) = ToInactive(r)
    BY <1>1 DEF Close
  <2>2. ToInactive(r).known = r.known
    BY DEF ToInactive, SessionRecN
  <2> QED
    BY <1>1, <2>1, <2>2, InactiveGood
<1>2. CASE r.state = "waiting" /\ stop_policy # "Immediately"
  <2>1. Close(r) = [r EXCEPT !.deferredClose = TRUE]
    BY <1>2 DEF Close
  <2> QED
    BY <1>2, <2>1 DEF SessionRecN, State, Good
<1>3. CASE r.state = "active" /\ stop_policy = "AfterChangesUploaded"
  <2>1. Close(r) = [r EXCEPT !.state = "dying", !.death = @ + 1]
    BY <1>3 DEF Close, ToDying, Good
  <2> DEFINE n == r.death + 1
             c == [r EXCEPT !.state = "dying", !.death = n]
  <2>0. n \in Nat
    BY DEF SessionRecN
  <2> HIDE DEF n
  <2>2. /\ c \in SessionRecN /\ c.state = "dying" /\ c.death = n
        /\ c.alive = r.alive /\ c.known = r.known /\ c.packages = r.packages
        /\ c.session = r.session /\ c.deferred = r.deferred
        /\ c.deferredClose = r.deferredClose
    BY <2>0 DEF SessionRecN, State
  <2> HIDE DEF c
  <2>3. Good(c, o, v, stop_policy)
    BY <1>3, <2>2 DEF Good
  <2> QED
    BY <1>3, <2>1, <2>2, <2>3 DEF c, n
<1>4. CASE \/ r.state \in {"inactive", "dying"}
           \/ r.state = "active" /\ stop_policy \notin {"Immediately", "AfterChangesUploaded"}
  <2>1. Close(r) = r
    BY <1>4 DEF Close
  <2> QED
    BY <1>4, <2>1 DEF SessionRecN, State, Good
<1> QED
  BY <1>1, <1>2, <1>3, <1>4 DEF SessionRecN, State

\* nonsync_transact_notify changes what a session knows of and nothing else.
LEMMA NotifiedRecord ==
    ASSUME NEW r \in SessionRecN, NEW v \in Nat
    PROVE  LET n == Notified(r, v)
           IN  /\ n \in SessionRecN
               /\ n.state = r.state /\ n.packages = r.packages
               /\ n.alive = r.alive /\ n.death = r.death
               /\ n.deferredClose = r.deferredClose
<1>1. CASE r.state = "active"
  <2>1. Notified(r, v) = [r EXCEPT !.known = Later(r.known, v)]
    BY <1>1 DEF Notified
  <2>2. Later(r.known, v) \in Nat
    BY DEF SessionRecN, Later
  <2> QED
    BY <2>1, <2>2 DEF SessionRecN
<1>2. CASE r.state = "waiting"
  <2>1. Notified(r, v) = [r EXCEPT !.deferred = v]
    BY <1>2 DEF Notified
  <2> QED
    BY <2>1 DEF SessionRecN
<1>3. CASE r.state \in {"inactive", "dying"}
  BY <1>3 DEF Notified
<1> QED
  BY <1>1, <1>2, <1>3 DEF SessionRecN, State

\* A version w of those up to v, the last one if one thread alone commits, is owed from
\* its announcement on unless the session is dying.
LEMMA NotifiedGood ==
    ASSUME NEW r \in SessionRecN, NEW o \in Nat, NEW v \in Nat, NEW p, Good(r, o, v, p),
           NEW w \in Nat, w <= v, OneWriter => w = v
    PROVE  Good(Notified(r, w), IF r.state = "dying" THEN o ELSE Later(o, w), v, p)
<1>1. CASE r.state = "active"
  <2>1. Notified(r, w) = [r EXCEPT !.known = Later(r.known, w)]
    BY <1>1 DEF Notified
  <2> QED
    BY <1>1, <2>1 DEF SessionRecN, State, Good, Later
<1>2. CASE r.state = "waiting"
  <2>1. Notified(r, w) = [r EXCEPT !.deferred = w]
    BY <1>2 DEF Notified
  <2> QED
    BY <1>2, <2>1 DEF SessionRecN, State, Good, Later
<1>3. CASE r.state \in {"inactive", "dying"}
  <2>1. Notified(r, w) = r
    BY <1>3 DEF Notified
  <2> QED
    BY <1>3, <2>1 DEF SessionRecN, State, Good, Later
<1> QED
  BY <1>1, <1>2, <1>3 DEF SessionRecN, State

\* refresh_access_token of a waiting session: it is open with everything owed
\* announced, or dying at once if a close was deferred.
LEMMA RefreshedGood ==
    ASSUME NEW r \in SessionRecN, NEW o \in Nat, version \in Nat,
           Good(r, o, version, stop_policy), r.state = "waiting"
    PROVE  LET n == Refreshed(r)
           IN  /\ n \in SessionRecN /\ Good(n, o, version, stop_policy)
               /\ n.state \in {"active", "dying"} /\ n.packages = {}
               /\ n.alive = r.alive
               /\ n.death = r.death + (IF n.state = "dying" THEN 1 ELSE 0)
               /\ n.state = "dying" => r.deferredClose
<1> DEFINE k == IF ~r.session THEN version
                ELSE Later(r.known, r.deferred)
           open == [r EXCEPT !.state = "active", !.session = TRUE,
                             !.packages = {}, !.deferred = 0, !.known = k]
<1>1. k \in Nat /\ (OneWriter => o <= k) /\ k <= version
  BY DEF SessionRecN, Good, Later
<1> HIDE DEF k
<1>2. /\ open \in SessionRecN /\ open.state = "active" /\ open.session
      /\ open.packages = {} /\ open.alive = r.alive /\ open.death = r.death
      /\ open.known = k /\ open.deferred = 0 /\ open.deferredClose = r.deferredClose
  BY <1>1 DEF SessionRecN, State
<1>3. Refreshed(r) = IF r.deferredClose THEN Close(open) ELSE open
  BY DEF Refreshed, k
<1> HIDE DEF open
<1>4. Good(open, o, version, stop_policy)
  BY <1>1, <1>2 DEF Good
<1>5. CASE r.deferredClose
  <2>1. Refreshed(r) = Close(open) /\ stop_policy # "Immediately"
    BY <1>3, <1>5 DEF Good
  <2>2. /\ Close(open) \in SessionRecN /\ Good(Close(open), o, version, stop_policy)
        /\ Close(open).state # "inactive" /\ Close(open).packages = {}
        /\ Close(open).alive = r.alive
    BY <1>2, <1>4, <2>1, CloseGood
  <2>3. \/ Close(open).state = "active" /\ Close(open).death = r.death
        \/ Close(open).state = "dying" /\ Close(open).death = r.death + 1
    <3>1. stop_policy = "AfterChangesUploaded" =>
            Close(open) = [open EXCEPT !.state = "dying", !.death = @ + 1]
      BY <1>2 DEF Close, ToDying
    <3>2. stop_policy # "AfterChangesUploaded" => Close(open) = open
      BY <1>2, <2>1 DEF Close
    <3> QED
      BY <1>2, <3>1, <3>2 DEF SessionRecN
  <2> QED
    BY <1>5, <2>1, <2>2, <2>3 DEF SessionRecN
<1>6. CASE ~r.deferredClose
  BY <1>2, <1>3, <1>4, <1>6 DEF SessionRecN
<1> QED
  BY <1>5, <1>6

----------------------------------------------------------------------------
(* Critical sections.                                                       *)

\* Threads between two sections.
LEMMA PlacedAt ==
    /\ Idle \in ThreadRec /\ Placed(Idle)
    /\ \A pc, s : /\ At(pc, s).pc = pc /\ At(pc, s).then = "idle"
                  /\ At(pc, s).held = {} /\ At(pc, s).x = nil
                  /\ At(pc, s).s = IF pc = "idle" THEN nil ELSE s
    /\ Idle.pc = "idle" /\ Idle.then = "idle" /\ Idle.held = {} /\ Idle.x = nil /\ Idle.s = nil
BY SyncAssumption DEF Idle, At, ThreadRec, Placed

StepName ==
    {"idle", "register", "revive", "ref", "drop", "announce", "logout", "logout_end",
     "unregister", "abort", "expired", "auth", "invalidate", "reset", "cancel"}

\* The types of At.
LEMMA AtTyped ==
    ASSUME NEW pc \in StepName, NEW s \in Session
    PROVE  At(pc, s) \in ThreadRec /\ Placed(At(pc, s))
BY PlacedAt, SyncAssumption DEF At, Idle, ThreadRec, Placed, StepName

\* The version that is owed may be less than the last one.
LEMMA GoodLater ==
    ASSUME NEW r \in SessionRecN, NEW o \in Nat, NEW v \in Nat, NEW w \in Nat, NEW p,
           Good(r, o, v, p), v <= w
    PROVE  Good(r, o, w, p)
BY DEF Good, SessionRecN

\* Destroying a sync::Session keeps every wait, with nothing left to upload.
LEMMA TerminatedFacts ==
    ASSUME NEW W \in SUBSET WaitRec, NEW s
    PROVE  /\ Terminated(W, s) \in SUBSET WaitRec
           /\ \A c \in Terminated(W, s) : \E w \in W :
                  /\ c = IF w.s = s THEN [w EXCEPT !.need = 0] ELSE w
                  /\ c.s = w.s /\ c.who = w.who /\ c.count = w.count
                  /\ w.s # s => c = w
           /\ \A w \in W : w.s # s => w \in Terminated(W, s)
<1>1. \A w \in W : LET c == IF w.s = s THEN [w EXCEPT !.need = 0] ELSE w
                   IN  /\ c \in WaitRec /\ c.s = w.s /\ c.who = w.who
                       /\ c.count = w.count
  BY DEF WaitRec
<1> QED
  BY <1>1 DEF Terminated

\* What entering INACTIVE does.
LEMMA EnterInactiveEffect ==
    ASSUME Typed, AllGood, NEW t \in Thread, NEW s \in Session, NEW W \in SUBSET WaitRec,
           NEW cont \in ThreadRec, cont.pc \in {"idle", "logout_end", "abort"},
           EnterInactive(t, s, W, cont)
    PROVE  /\ sessions' \in [Session -> SessionRecN]
           /\ sessions'[s] = ToInactive(sessions[s])
           /\ \A o \in Session \ {s} : sessions'[o] = sessions[o]
           /\ thread' \in [Thread -> ThreadRec]
           /\ \A o \in Thread \ {t} : thread'[o] = thread[o]
           /\ thread'[t].pc = "unregister" /\ thread'[t].s = s /\ thread'[t].x = nil
           /\ thread'[t].then = cont.pc
           /\ thread'[t].held = sessions[s].packages \cup cont.held
           /\ Placed(thread'[t])
           /\ waits' = Terminated(W, s) /\ waits' \in SUBSET WaitRec
<1> DEFINE held == sessions[s].packages \cup cont.held
           q == [At("unregister", s) EXCEPT !.then = cont.pc, !.held = held]
<1>1. /\ sessions' = [sessions EXCEPT ![s] = ToInactive(sessions[s])]
      /\ waits' = Terminated(W, s)
      /\ thread' = [thread EXCEPT ![t] = q]
  BY DEF EnterInactive
<1>2. /\ sessions \in [Session -> SessionRecN] /\ thread \in [Thread -> ThreadRec]
      /\ sessions[s] \in SessionRecN
  BY DEF Typed
<1>3. ToInactive(sessions[s]) \in SessionRecN
  BY <1>2 DEF ToInactive, SessionRecN, State
<1>4. held \in SUBSET Waiter
  BY <1>2 DEF SessionRecN, ThreadRec
<1> HIDE DEF held
<1>5. At("unregister", s) \in ThreadRec /\ At("unregister", s).pc = "unregister"
      /\ At("unregister", s).s = s /\ At("unregister", s).x = nil
  BY AtTyped, PlacedAt DEF StepName
<1>6. /\ q \in ThreadRec /\ q.pc = "unregister" /\ q.s = s /\ q.x = nil
      /\ q.then = cont.pc /\ q.held = held
  BY <1>4, <1>5 DEF ThreadRec
<1> HIDE DEF q
<1>7. Placed(q)
  BY <1>6, SyncAssumption DEF Placed
<1>8. waits' \in SUBSET WaitRec
  BY <1>1, TerminatedFacts
<1> QED
  BY <1>1, <1>2, <1>3, <1>6, <1>7, <1>8 DEF held

\* A critical section leaves the session as computed, or leaves it INACTIVE.
LEMMA SectionEffect ==
    ASSUME Typed, AllGood, NEW t \in Thread, NEW s \in Session, NEW r \in SessionRecN,
           NEW W \in SUBSET WaitRec, NEW cont \in ThreadRec, Placed(cont),
           (r.state = "inactive" /\ sessions[s].state # "inactive") =>
               cont.pc \in {"idle", "logout_end", "abort"},
           Section(t, s, r, W, cont)
    PROVE  /\ sessions' \in [Session -> SessionRecN]
           /\ \A o \in Session \ {s} : sessions'[o] = sessions[o]
           /\ thread' \in [Thread -> ThreadRec]
           /\ \A o \in Thread \ {t} : thread'[o] = thread[o]
           /\ Placed(thread'[t])
           /\ waits' \in SUBSET WaitRec
           /\ IF r.state = "inactive" /\ sessions[s].state # "inactive"
              THEN /\ EnterInactive(t, s, W, cont)
                   /\ sessions'[s] = ToInactive(sessions[s])
                   /\ thread'[t].pc = "unregister" /\ thread'[t].s = s
                   /\ thread'[t].x = nil /\ thread'[t].then = cont.pc
                   /\ thread'[t].held = sessions[s].packages \cup cont.held
                   /\ waits' = Terminated(W, s)
              ELSE /\ sessions'[s] = r /\ thread'[t] = cont
                   /\ waits' = W \cup (IF r.state = "dying" /\ sessions[s].state # "dying"
                                       THEN {Upload(s, r.death, r.known)} ELSE {})
<1>1. CASE r.state = "inactive" /\ sessions[s].state # "inactive"
  <2>1. EnterInactive(t, s, W, cont)
    BY <1>1 DEF Section
  <2>2. cont.pc \in {"idle", "logout_end", "abort"}
    BY <1>1
  <2>3. /\ sessions' \in [Session -> SessionRecN]
        /\ sessions'[s] = ToInactive(sessions[s])
        /\ \A o \in Session \ {s} : sessions'[o] = sessions[o]
        /\ thread' \in [Thread -> ThreadRec]
        /\ \A o \in Thread \ {t} : thread'[o] = thread[o]
        /\ thread'[t].pc = "unregister" /\ thread'[t].s = s /\ thread'[t].x = nil
        /\ thread'[t].then = cont.pc
        /\ thread'[t].held = sessions[s].packages \cup cont.held
        /\ Placed(thread'[t])
        /\ waits' = Terminated(W, s) /\ waits' \in SUBSET WaitRec
    BY <2>1, <2>2, EnterInactiveEffect
  <2> QED
    BY <1>1, <2>1, <2>3
<1>2. CASE ~(r.state = "inactive" /\ sessions[s].state # "inactive")
  <2>1. /\ sessions' = [sessions EXCEPT ![s] = r]
        /\ thread' = [thread EXCEPT ![t] = cont]
        /\ waits' = W \cup (IF r.state = "dying" /\ sessions[s].state # "dying"
                            THEN {Upload(s, r.death, r.known)} ELSE {})
    BY <1>2 DEF Section
  <2>2. Upload(s, r.death, r.known) \in WaitRec
    BY DEF Upload, WaitRec, SessionRecN
  <2>3. waits' \in SUBSET WaitRec
    BY <2>1, <2>2
  <2> QED
    BY <1>2, <2>1, <2>3 DEF Typed
<1> QED
  BY <1>1, <1>2

\* A critical section keeps the types and what Good says, if it computes a good record.
LEMMA SectionGood ==
    ASSUME Typed, AllGood, NEW t \in Thread, NEW s \in Session, NEW r \in SessionRecN,
           NEW W \in SUBSET WaitRec, NEW cont \in ThreadRec, Placed(cont),
           (r.state = "inactive" /\ sessions[s].state # "inactive") =>
               cont.pc \in {"idle", "logout_end", "abort"} /\ owed'[s] = owed[s],
           Section(t, s, r, W, cont),
           Good(r, owed'[s], version', stop_policy),
           UNCHANGED stop_policy,
           version' \in Nat, version <= version', owed' \in [Session -> Nat],
           \A o \in Session \ {s} : owed'[o] = owed[o]
    PROVE  /\ AllGood'
           /\ sessions' \in [Session -> SessionRecN]
           /\ thread' \in [Thread -> ThreadRec]
           /\ \A o \in Thread : Placed(thread'[o])
           /\ waits' \in SUBSET WaitRec
<1>1. /\ sessions' \in [Session -> SessionRecN]
      /\ \A o \in Session \ {s} : sessions'[o] = sessions[o]
      /\ thread' \in [Thread -> ThreadRec]
      /\ \A o \in Thread \ {t} : thread'[o] = thread[o]
      /\ Placed(thread'[t])
      /\ waits' \in SUBSET WaitRec
      /\ IF r.state = "inactive" /\ sessions[s].state # "inactive"
         THEN sessions'[s] = ToInactive(sessions[s]) ELSE sessions'[s] = r
  BY SectionEffect
<1>2. \A o \in Session : Good(sessions[o], owed[o], version', stop_policy)
  <2>1. version \in Nat
    BY DEF Typed
  <2> QED
    BY <2>1, GoodLater DEF Typed, AllGood
<1>3. Good(sessions'[s], owed'[s], version', stop_policy)
  <2>1. sessions[s] \in SessionRecN /\ owed[s] \in Nat
    BY DEF Typed
  <2> QED
    BY <1>1, <1>2, <2>1, InactiveGood
<1>4. AllGood'
  <2> SUFFICES ASSUME NEW o \in Session
               PROVE  Good(sessions'[o], owed'[o], version', stop_policy')
    BY DEF AllGood, Good
  <2> QED
    BY <1>1, <1>2, <1>3
<1>5. \A o \in Thread : Placed(thread'[o])
  BY <1>1 DEF Typed
<1> QED
  BY <1>1, <1>4, <1>5

----------------------------------------------------------------------------
(* Types, and what Good says, of every step.                                *)

\* What a thread that works on a session works on.
LEMMA ThreadFacts ==
    ASSUME Typed, NEW t \in Thread, thread[t].pc # "idle"
    PROVE  /\ thread[t] \in ThreadRec /\ thread[t].s \in Session
           /\ sessions[thread[t].s] \in SessionRecN
BY DEF Typed, Placed

\* A session's record and what is owed through it.
LEMMA RecordFacts ==
    ASSUME Typed, AllGood, NEW s \in Session
    PROVE  /\ sessions[s] \in SessionRecN /\ owed[s] \in Nat /\ version \in Nat
           /\ Good(sessions[s], owed[s], version, stop_policy)
BY DEF Typed, AllGood

\* A critical section with nothing else.
LEMMA PlainSection ==
    ASSUME Typed, AllGood, NEW t \in Thread, NEW s \in Session, NEW r \in SessionRecN,
           NEW W \in SUBSET WaitRec, NEW cont \in ThreadRec, Placed(cont),
           (r.state = "inactive" /\ sessions[s].state # "inactive") =>
               cont.pc \in {"idle", "logout_end", "abort"},
           Section(t, s, r, W, cont), Good(r, owed[s], version, stop_policy),
           UNCHANGED <<m_sessions, user, refs, lockU, data, opened>>,
           lockM' \in Thread \cup {nil}
    PROVE  Typed' /\ AllGood'
<1>1. UNCHANGED <<stop_policy, issued, answered, version, uploaded, owed>>
  BY DEF data
<1>2. /\ version' \in Nat /\ version <= version' /\ owed' \in [Session -> Nat]
      /\ \A o \in Session : owed'[o] = owed[o]
      /\ Good(r, owed'[s], version', stop_policy)
  BY <1>1 DEF Typed
<1>3. /\ AllGood'
      /\ sessions' \in [Session -> SessionRecN]
      /\ thread' \in [Thread -> ThreadRec]
      /\ \A o \in Thread : Placed(thread'[o])
      /\ waits' \in SUBSET WaitRec
  BY <1>1, <1>2, SectionGood
<1> QED
  BY <1>1, <1>3 DEF Typed

\* revive_if_needed, did_drop_external_reference, SyncSession::log_out, -suspend and
\* -resume.
LEMMA ControlTyped ==
    ASSUME Typed, AllGood, NEW t \in Thread,
           \/ ReviveIfNeeded(t) \/ SessionLogOut(t)
           \/ t \in App /\ (DidDropExternalReference(t) \/ Suspend(t) \/ Resume(t))
    PROVE  Typed' /\ AllGood'
<1>1. /\ waits \in SUBSET WaitRec /\ lockM \in Thread \cup {nil}
      /\ Idle \in ThreadRec /\ Placed(Idle) /\ Idle.pc = "idle"
  BY PlacedAt DEF Typed
<1>2. CASE ReviveIfNeeded(t)
  <2> DEFINE s == thread[t].s
             cont == At(thread[t].then, s)
  <2>1. /\ Section(t, s, Revive(sessions[s]), waits, cont) /\ UNCHANGED outside
        /\ s \in Session /\ thread[t] \in ThreadRec
    BY <1>2, ThreadFacts DEF ReviveIfNeeded
  <2>2. /\ Revive(sessions[s]) \in SessionRecN
        /\ Good(Revive(sessions[s]), owed[s], version, stop_policy)
        /\ Revive(sessions[s]).state # "inactive"
    BY <2>1, RecordFacts, ReviveGood
  <2>3. cont \in ThreadRec /\ Placed(cont)
    BY <2>1, AtTyped DEF ThreadRec, StepName
  <2> QED
    BY <1>1, <2>1, <2>2, <2>3, PlainSection DEF outside, locks, counts
<1>3. CASE SessionLogOut(t)
  <2> DEFINE s == thread[t].s
             cont == At("logout_end", s)
  <2>1. /\ Section(t, s, LogOut(sessions[s]), waits, cont) /\ UNCHANGED outside
        /\ s \in Session
    BY <1>3, ThreadFacts DEF SessionLogOut
  <2>2. /\ LogOut(sessions[s]) \in SessionRecN
        /\ Good(LogOut(sessions[s]), owed[s], version, stop_policy)
    BY <2>1, RecordFacts, LogOutGood
  <2>3. cont \in ThreadRec /\ Placed(cont) /\ cont.pc = "logout_end"
    BY <2>1, AtTyped, PlacedAt DEF StepName
  <2> QED
    BY <1>1, <2>1, <2>2, <2>3, PlainSection DEF outside, locks, counts
<1>4. CASE t \in App /\ DidDropExternalReference(t)
  <2> DEFINE s == thread[t].s
             r == IF Referenced(s) THEN sessions[s] ELSE Close(sessions[s])
  <2>1. /\ Section(t, s, r, waits, Idle) /\ UNCHANGED outside /\ s \in Session
    BY <1>4, ThreadFacts DEF DidDropExternalReference
  <2>2. r \in SessionRecN /\ Good(r, owed[s], version, stop_policy)
    BY <2>1, RecordFacts, CloseGood
  <2> HIDE DEF r
  <2> QED
    BY <1>1, <2>1, <2>2, PlainSection DEF outside, locks, counts
<1>5. CASE t \in App /\ Suspend(t)
  <2>1. /\ Section(t, refs[t], LogOut(sessions[refs[t]]), waits, Idle)
        /\ refs[t] \in Session
        /\ UNCHANGED <<m_sessions, user, refs, opened, data, locks>>
    BY <1>5 DEF Suspend, Typed
  <2>2. /\ LogOut(sessions[refs[t]]) \in SessionRecN
        /\ Good(LogOut(sessions[refs[t]]), owed[refs[t]], version, stop_policy)
    BY <2>1, RecordFacts, LogOutGood
  <2> QED
    BY <1>1, <2>1, <2>2, PlainSection DEF locks
<1>6. CASE t \in App /\ Resume(t)
  <2>1. /\ Section(t, refs[t], Revive(sessions[refs[t]]), waits, Idle)
        /\ refs[t] \in Session /\ UNCHANGED outside
    BY <1>6 DEF Resume, Typed
  <2>2. /\ Revive(sessions[refs[t]]) \in SessionRecN
        /\ Good(Revive(sessions[refs[t]]), owed[refs[t]], version, stop_policy)
    BY <2>1, RecordFacts, ReviveGood
  <2> QED
    BY <1>1, <2>1, <2>2, PlainSection DEF outside, locks, counts
<1> QED
  BY <1>2, <1>3, <1>4, <1>5, <1>6

\* The wait of a handler.
LEMMA HandlerTyped ==
    ASSUME NEW s \in Session, NEW w \in Waiter
    PROVE  /\ Handler(s, w) \in WaitRec /\ Handler(s, w).s = s /\ Handler(s, w).who = w
BY DEF Handler, WaitRec

\* refresh_access_token.
LEMMA RefreshTyped ==
    ASSUME Typed, AllGood, NEW t \in App, RefreshAccessToken(t)
    PROVE  Typed' /\ AllGood'
<1>1. PICK s \in Session :
        /\ sessions[s].state = "waiting"
        /\ Section(t, s, Refreshed(sessions[s]),
                   waits \cup {Handler(s, w) : w \in sessions[s].packages}, Idle)
  BY DEF RefreshAccessToken
<1>2. UNCHANGED outside /\ t \in Thread
  BY DEF RefreshAccessToken, Thread
<1>3. /\ Refreshed(sessions[s]) \in SessionRecN
      /\ Good(Refreshed(sessions[s]), owed[s], version, stop_policy)
  BY <1>1, RecordFacts, RefreshedGood
<1>4. waits \cup {Handler(s, w) : w \in sessions[s].packages} \in SUBSET WaitRec
  BY RecordFacts, HandlerTyped DEF Typed, SessionRecN
<1>5. Idle \in ThreadRec /\ Placed(Idle) /\ Idle.pc = "idle" /\ lockM \in Thread \cup {nil}
  BY PlacedAt DEF Typed
<1> QED
  BY <1>1, <1>2, <1>3, <1>4, <1>5, PlainSection DEF outside, locks, counts

\* Queueing a completion handler changes nothing else of the record.
LEMMA QueuedGood ==
    ASSUME NEW r \in SessionRecN, NEW o \in Nat, NEW v \in Nat, NEW p, Good(r, o, v, p),
           NEW P \in SUBSET Waiter
    PROVE  LET q == [r EXCEPT !.packages = P]
           IN  /\ q \in SessionRecN /\ Good(q, o, v, p)
               /\ q.state = r.state /\ q.packages = P
               /\ q.alive = r.alive /\ q.death = r.death
               /\ q.deferredClose = r.deferredClose
BY DEF SessionRecN, Good

\* wait_for_upload_completion and wait_for_download_completion.
LEMMA WaitTyped ==
    ASSUME Typed, AllGood, NEW t \in App, NEW w \in Waiter, WaitForCompletion(t, w)
    PROVE  Typed' /\ AllGood'
<1> DEFINE s == refs[t]
           r == sessions[s]
           q == [r EXCEPT !.packages = r.packages \cup {w}]
<1>1. /\ issued' = issued \cup {w} /\ s \in Session /\ t \in Thread
      /\ UNCHANGED <<stop_policy, m_sessions, user, refs, answered, version,
                     uploaded, owed, undefined, counts, locks>>
      /\ IF r.state \in {"active", "dying"}
         THEN Section(t, s, r, waits \cup {Handler(s, w)}, Idle)
         ELSE Section(t, s, q, waits, Idle)
  BY DEF WaitForCompletion, Typed, Thread
<1>2. /\ r \in SessionRecN /\ owed[s] \in Nat /\ version \in Nat
      /\ Good(r, owed[s], version, stop_policy)
  BY <1>1, RecordFacts
<1>3. q \in SessionRecN /\ Good(q, owed[s], version, stop_policy) /\ q.state = r.state
  <2>1. r.packages \cup {w} \in SUBSET Waiter
    BY <1>2 DEF SessionRecN
  <2> QED
    BY <1>2, <2>1, QueuedGood
<1>4. Idle \in ThreadRec /\ Placed(Idle) /\ Idle.pc = "idle"
  BY PlacedAt
<1>5. waits \cup {Handler(s, w)} \in SUBSET WaitRec /\ waits \in SUBSET WaitRec
  BY <1>1, HandlerTyped DEF Typed
<1>6. \E n \in {r, q}, W \in {waits, waits \cup {Handler(s, w)}} : Section(t, s, n, W, Idle)
  BY <1>1
<1> HIDE DEF q, r
<1>7. /\ AllGood'
      /\ sessions' \in [Session -> SessionRecN]
      /\ thread' \in [Thread -> ThreadRec]
      /\ \A o \in Thread : Placed(thread'[o])
      /\ waits' \in SUBSET WaitRec
  <2>1. PICK n \in {r, q}, W \in {waits, waits \cup {Handler(s, w)}} :
          Section(t, s, n, W, Idle)
    BY <1>6
  <2>2. n \in SessionRecN /\ Good(n, owed[s], version, stop_policy) /\ W \in SUBSET WaitRec
    BY <1>2, <1>3, <1>5
  <2>3. owed \in [Session -> Nat] /\ version <= version
    BY <1>2 DEF Typed
  <2> QED
    BY <1>1, <1>2, <1>4, <2>1, <2>2, <2>3, SectionGood
<1>8. UNCHANGED <<lockM, lockU, opened>>
  BY <1>1 DEF counts, locks
<1> QED
  BY <1>1, <1>7, <1>8 DEF Typed

\* The threads after a step of one of them.
LEMMA OneThread ==
    ASSUME Typed, NEW t \in Thread, NEW q \in ThreadRec, Placed(q),
           thread' = [thread EXCEPT ![t] = q]
    PROVE  /\ thread' \in [Thread -> ThreadRec] /\ \A o \in Thread : Placed(thread'[o])
           /\ thread'[t] = q /\ \A o \in Thread \ {t} : thread'[o] = thread[o]
BY DEF Typed

\* What a thread does with its commit.
LEMMA CommitThread ==
    ASSUME Typed, NEW t \in App, Commit(t)
    PROVE  LET q == [At("announce", refs[t]) EXCEPT !.v = version + 1]
           IN  /\ t \in Thread /\ t \in Writer /\ refs[t] \in Session
               /\ q \in ThreadRec /\ Placed(q)
               /\ q.pc = "announce" /\ q.s = refs[t] /\ q.v = version + 1
               /\ q.x = nil /\ q.then = "idle" /\ q.held = {}
               /\ thread' = [thread EXCEPT ![t] = q]
<1>1. /\ t \in Thread /\ t \in Writer /\ refs[t] \in Session
      /\ version \in 0..MaxVersion /\ version < MaxVersion /\ MaxVersion \in Nat
  BY SyncAssumption DEF Commit, Typed, Thread
<1>2. version + 1 \in 0..MaxVersion
  BY <1>1
<1>3. /\ At("announce", refs[t]) \in ThreadRec
      /\ At("announce", refs[t]).pc = "announce" /\ At("announce", refs[t]).s = refs[t]
      /\ At("announce", refs[t]).x = nil /\ At("announce", refs[t]).then = "idle"
      /\ At("announce", refs[t]).held = {}
  BY <1>1, AtTyped, PlacedAt DEF StepName
<1> QED
  BY <1>1, <1>2, <1>3 DEF Commit, ThreadRec, Placed

\* A commit leaves the sessions alone.
LEMMA CommitTyped ==
    ASSUME Typed, AllGood, NEW t \in App, Commit(t)
    PROVE  Typed' /\ AllGood'
<1>1. /\ version < MaxVersion /\ version' = version + 1
      /\ UNCHANGED <<stop_policy, sessions, m_sessions, user, refs, waits, issued,
                     answered, uploaded, owed, undefined, counts, locks>>
  BY DEF Commit
<1>2. thread' \in [Thread -> ThreadRec] /\ \A o \in Thread : Placed(thread'[o])
  BY CommitThread, OneThread
<1>3. /\ version \in Nat /\ version' \in Nat /\ version <= version'
      /\ version' \in 0..MaxVersion /\ uploaded' \in 0..version'
  BY <1>1, SyncAssumption DEF Typed
<1>4. \A s \in Session : Good(sessions[s], owed[s], version', stop_policy)
  BY <1>3, RecordFacts, GoodLater
<1>5. AllGood'
  BY <1>1, <1>4 DEF AllGood, Good
<1>6. UNCHANGED <<lockM, lockU, opened>>
  BY <1>1 DEF counts, locks
<1> QED
  BY <1>1, <1>2, <1>3, <1>5, <1>6 DEF Typed

\* The version a thread announces, and what is owed after that.
LEMMA AnnounceFacts ==
    ASSUME Typed, AllGood, NEW t \in App, Announce(t)
    PROVE  /\ t \in Thread /\ thread[t].s \in Session /\ Owned(thread[t].s)
           /\ UNCHANGED <<stop_policy, m_sessions, user, refs, issued, answered,
                          version, uploaded, undefined, counts, locks>>
           /\ \E v \in Nat :
                /\ v <= version
                /\ Announcing => (OneWriter => v = version)
                /\ Section(t, thread[t].s, Notified(sessions[thread[t].s], v), waits, Idle)
                /\ owed' = [owed EXCEPT ![thread[t].s] =
                      IF sessions[thread[t].s].state = "dying" THEN owed[thread[t].s]
                      ELSE Later(owed[thread[t].s], v)]
<1>1. /\ t \in Thread /\ thread[t].pc = "announce"
      /\ UNCHANGED <<stop_policy, m_sessions, user, refs, issued, answered,
                     version, uploaded, undefined, counts, locks>>
  BY DEF Announce, Thread
<1>2. thread[t] \in ThreadRec /\ thread[t].s \in Session
  BY <1>1, ThreadFacts
<1>3. thread[t].v \in Nat /\ version \in Nat
  BY <1>2, SyncAssumption DEF ThreadRec, Typed
<1>4. PICK v \in thread[t].v..version :
        /\ Section(t, thread[t].s, Notified(sessions[thread[t].s], v), waits, Idle)
        /\ owed' = [owed EXCEPT ![thread[t].s] =
              IF sessions[thread[t].s].state = "dying" THEN @ ELSE Later(@, v)]
  BY DEF Announce
<1>5. v \in Nat /\ v <= version /\ thread[t].v <= v
  BY <1>3, <1>4
<1>6. ASSUME Announcing, OneWriter
      PROVE  v = version
  <2>1. thread[t].v = version
    BY <1>1, <1>6 DEF Announcing
  <2> QED
    BY <1>3, <1>5, <2>1
<1>7. Owned(thread[t].s)
  BY <1>1 DEF Owned
<1> QED
  BY <1>1, <1>2, <1>4, <1>5, <1>6, <1>7

\* nonsync_transact_notify.
LEMMA AnnounceTyped ==
    ASSUME Typed, AllGood, Announcing, NEW t \in App, Announce(t)
    PROVE  Typed' /\ AllGood'
<1> DEFINE s == thread[t].s
<1>1. PICK v \in Nat :
        /\ v <= version /\ (OneWriter => v = version)
        /\ Section(t, s, Notified(sessions[s], v), waits, Idle)
        /\ owed' = [owed EXCEPT ![s] =
              IF sessions[s].state = "dying" THEN owed[s] ELSE Later(owed[s], v)]
  BY AnnounceFacts
<1>2. /\ t \in Thread /\ s \in Session
      /\ UNCHANGED <<stop_policy, m_sessions, user, refs, issued, answered,
                     version, uploaded, undefined, counts, locks>>
  BY AnnounceFacts
<1> DEFINE n == Notified(sessions[s], v)
           o == IF sessions[s].state = "dying" THEN owed[s] ELSE Later(owed[s], v)
<1>3. /\ sessions[s] \in SessionRecN /\ owed[s] \in Nat /\ version \in Nat
      /\ Good(sessions[s], owed[s], version, stop_policy)
      /\ owed \in [Session -> Nat]
  BY <1>2, RecordFacts DEF Typed
<1>4. /\ n \in SessionRecN /\ n.state = sessions[s].state
      /\ Good(n, o, version, stop_policy)
  BY <1>1, <1>3, NotifiedRecord, NotifiedGood
<1>5. o \in Nat
  BY <1>3 DEF Later
<1>6. Section(t, s, n, waits, Idle) /\ owed' = [owed EXCEPT ![s] = o]
  BY <1>1
<1> HIDE DEF n, o, s
<1>7. /\ owed' \in [Session -> Nat] /\ owed'[s] = o
      /\ \A p \in Session \ {s} : owed'[p] = owed[p]
  BY <1>2, <1>3, <1>5, <1>6
<1>8. Idle \in ThreadRec /\ Placed(Idle) /\ Idle.pc = "idle" /\ waits \in SUBSET WaitRec
  BY PlacedAt DEF Typed
<1>9. version' \in Nat /\ version <= version' /\ Good(n, owed'[s], version', stop_policy)
  BY <1>2, <1>3, <1>4, <1>7
<1>10. /\ AllGood'
       /\ sessions' \in [Session -> SessionRecN]
       /\ thread' \in [Thread -> ThreadRec]
       /\ \A p \in Thread : Placed(thread'[p])
       /\ waits' \in SUBSET WaitRec
  BY <1>2, <1>4, <1>6, <1>7, <1>8, <1>9, SectionGood
<1>11. UNCHANGED <<lockM, lockU, opened>>
  BY <1>2 DEF counts, locks
<1> QED
  BY <1>2, <1>7, <1>10, <1>11 DEF Typed

\* The end of unregister_session.
LEMMA UnregisterEndTyped ==
    ASSUME Typed, AllGood, NEW t \in Thread, UnregisterSessionEnd(t)
    PROVE  /\ Typed' /\ AllGood'
           /\ thread[t].x \in Session
           /\ \E r \in SessionRecN :
                /\ r = Close(sessions[thread[t].x]) \/ r = sessions[thread[t].x]
                /\ Section(t, thread[t].x, r, waits,
                           [thread[t] EXCEPT !.pc = "abort", !.x = nil])
<1> DEFINE x == thread[t].x
           last == /\ \A o \in App : refs[o] # x
                   /\ \A o \in Thread \ {t} : thread[o].x # x
           cont == [thread[t] EXCEPT !.pc = "abort", !.x = nil]
           r == IF last THEN Close(sessions[x]) ELSE sessions[x]
<1>1. /\ thread[t].pc = "unregister_end"
      /\ Section(t, x, r, waits, cont)
      /\ lockM' = IF thread'[t] = cont THEN nil ELSE lockM
      /\ UNCHANGED <<m_sessions, user, lockU, refs, data, counts>>
  BY DEF UnregisterSessionEnd
<1>2. x \in Session /\ thread[t] \in ThreadRec /\ thread[t].s \in Session
      /\ thread[t].then # "ref"
  BY <1>1, SyncAssumption DEF Typed, Placed, ThreadRec
<1>3. r \in SessionRecN /\ Good(r, owed[x], version, stop_policy)
  BY <1>2, RecordFacts, CloseGood
<1>4. cont \in ThreadRec /\ Placed(cont) /\ cont.pc = "abort"
  BY <1>2, SyncAssumption DEF ThreadRec, Placed
<1>5. r = Close(sessions[x]) \/ r = sessions[x]
  OBVIOUS
<1> HIDE DEF r, cont
<1>6. lockM' \in Thread \cup {nil} /\ waits \in SUBSET WaitRec /\ UNCHANGED opened
  BY <1>1 DEF Typed, counts
<1>7. Typed' /\ AllGood'
  BY <1>1, <1>2, <1>3, <1>4, <1>6, PlainSection
<1> QED
  BY <1>1, <1>2, <1>3, <1>5, <1>7 DEF cont

\* A step that enters INACTIVE whatever the state is.
LEMMA InactiveTyped ==
    ASSUME Typed, AllGood, NEW t \in Thread, NEW s \in Session, NEW W \in SUBSET WaitRec,
           EnterInactive(t, s, W, Idle),
           UNCHANGED <<m_sessions, user, refs, locks, data, opened>>
    PROVE  Typed' /\ AllGood'
<1>1. Idle \in ThreadRec /\ Idle.pc = "idle"
  BY PlacedAt
<1>2. /\ sessions' \in [Session -> SessionRecN]
      /\ sessions'[s] = ToInactive(sessions[s])
      /\ \A o \in Session \ {s} : sessions'[o] = sessions[o]
      /\ thread' \in [Thread -> ThreadRec]
      /\ \A o \in Thread \ {t} : thread'[o] = thread[o]
      /\ Placed(thread'[t])
      /\ waits' \in SUBSET WaitRec
  BY <1>1, EnterInactiveEffect
<1>3. Good(sessions'[s], owed[s], version, stop_policy)
  BY <1>2, RecordFacts, InactiveGood
<1>4. UNCHANGED <<stop_policy, issued, answered, version, uploaded, owed, lockM, lockU>>
  BY DEF data, locks
<1>5. AllGood'
  <2> SUFFICES ASSUME NEW o \in Session
               PROVE  Good(sessions'[o], owed[o], version, stop_policy)
    BY <1>4 DEF AllGood, Good
  <2> QED
    BY <1>2, <1>3 DEF AllGood
<1> QED
  BY <1>2, <1>4, <1>5 DEF Typed

\* A step that leaves the sessions alone.
LEMMA QuietGood ==
    ASSUME AllGood, UNCHANGED <<sessions, owed, version, stop_policy>>
    PROVE  AllGood'
BY DEF AllGood, Good

\* get_session, register_session, external_reference and dropping a reference.
LEMMA ReferenceTyped ==
    ASSUME Typed, AllGood, NEW t \in App,
           GetSession(t) \/ RegisterSession(t) \/ ExternalReference(t) \/ DropReference(t)
    PROVE  Typed' /\ AllGood'
<1>1. t \in Thread /\ refs[t] \in Session \cup {nil} /\ Idle \in ThreadRec /\ Placed(Idle)
  BY PlacedAt DEF Typed, Thread
<1>2. CASE GetSession(t)
  <2>1. /\ opened < MaxOpens /\ opened' = opened + 1 /\ lockM' = t
        /\ UNCHANGED <<user, lockU, waits, stop_policy, issued, answered, version,
                       uploaded, owed>>
    BY <1>2 DEF GetSession, data
  <2>2. opened' \in 0..MaxOpens
    BY <2>1, SyncAssumption DEF Typed
  <2>3. \E s \in Session : /\ thread' = [thread EXCEPT ![t] = At("register", s)]
                           /\ m_sessions' = s /\ refs' \in [App -> Session \cup {nil}]
                           /\ \/ sessions' = sessions
                              \/ sessions' = [sessions EXCEPT ![s].alive = TRUE]
    BY <1>1, <1>2 DEF GetSession, Typed
  <2>4. PICK s \in Session : /\ thread' = [thread EXCEPT ![t] = At("register", s)]
                             /\ m_sessions' = s /\ refs' \in [App -> Session \cup {nil}]
                             /\ \/ sessions' = sessions
                                \/ sessions' = [sessions EXCEPT ![s].alive = TRUE]
    BY <2>3
  <2>5. thread' \in [Thread -> ThreadRec] /\ \A o \in Thread : Placed(thread'[o])
    BY <1>1, <2>4, AtTyped, OneThread DEF StepName
  <2>6. sessions' \in [Session -> SessionRecN] /\ AllGood'
    <3>1. CASE sessions' = sessions
      BY <2>1, <3>1, QuietGood DEF Typed
    <3>2. CASE sessions' = [sessions EXCEPT ![s].alive = TRUE]
      <4> DEFINE r == [sessions[s] EXCEPT !.alive = TRUE]
      <4>1. sessions' = [sessions EXCEPT ![s] = r]
        BY <3>2
      <4>2. r \in SessionRecN /\ Good(r, owed[s], version, stop_policy)
        BY RecordFacts DEF SessionRecN, Good
      <4> HIDE DEF r
      <4>3. sessions' \in [Session -> SessionRecN]
            /\ \A o \in Session : Good(sessions'[o], owed[o], version, stop_policy)
        BY <4>1, <4>2 DEF Typed, AllGood
      <4> QED
        BY <2>1, <4>3 DEF AllGood, Good
    <3> QED
      BY <2>4, <3>1, <3>2
  <2> QED
    BY <1>1, <2>1, <2>2, <2>4, <2>5, <2>6 DEF Typed
<1>3. CASE RegisterSession(t)
  <2> DEFINE s == thread[t].s
             q == IF user.state = "Active" THEN [At("revive", s) EXCEPT !.then = "ref"]
                  ELSE At("ref", s)
  <2>1. /\ thread[t].pc = "register" /\ s \in Session /\ thread' = [thread EXCEPT ![t] = q]
        /\ user' = CASE user.state = "Active"    -> [user EXCEPT !.active = s]
                     [] user.state = "LoggedOut" -> [user EXCEPT !.waiting = s]
                     [] OTHER                    -> user
        /\ UNCHANGED <<sessions, m_sessions, refs, waits, data, counts, locks>>
    BY <1>1, <1>3, ThreadFacts DEF RegisterSession
  <2>2. user' \in [state: {"Active", "LoggedOut", "Error"},
                   active: Session \cup {nil}, waiting: Session \cup {nil}]
    BY <2>1 DEF Typed
  <2>3. q \in ThreadRec /\ Placed(q)
    <3>1. At("revive", s) \in ThreadRec /\ At("ref", s) \in ThreadRec /\ Placed(At("ref", s))
          /\ At("revive", s).s = s /\ At("revive", s).x = nil /\ At("revive", s).pc = "revive"
      BY <2>1, AtTyped, PlacedAt DEF StepName
    <3>2. [At("revive", s) EXCEPT !.then = "ref"] \in ThreadRec
          /\ Placed([At("revive", s) EXCEPT !.then = "ref"])
      BY <2>1, <3>1 DEF ThreadRec, Placed
    <3> QED
      BY <3>1, <3>2
  <2> HIDE DEF q
  <2>4. thread' \in [Thread -> ThreadRec] /\ \A o \in Thread : Placed(thread'[o])
    BY <1>1, <2>1, <2>3, OneThread
  <2> QED
    BY <2>1, <2>2, <2>4, QuietGood DEF Typed, data, counts, locks
<1>4. CASE ExternalReference(t)
  <2>1. /\ thread[t].s \in Session /\ refs' = [refs EXCEPT ![t] = thread[t].s]
        /\ thread' = [thread EXCEPT ![t] = Idle] /\ lockM' = nil
        /\ UNCHANGED <<sessions, m_sessions, user, lockU, waits, data, counts>>
    BY <1>1, <1>4, ThreadFacts DEF ExternalReference
  <2>2. thread' \in [Thread -> ThreadRec] /\ \A o \in Thread : Placed(thread'[o])
    BY <1>1, <2>1, OneThread
  <2> QED
    BY <2>1, <2>2, QuietGood DEF Typed, data, counts
<1>5. CASE DropReference(t)
  <2>1. /\ refs[t] \in Session /\ refs' = [refs EXCEPT ![t] = nil]
        /\ \/ thread' = [thread EXCEPT ![t] = Idle]
           \/ thread' = [thread EXCEPT ![t] = At("drop", refs[t])]
        /\ UNCHANGED <<sessions, m_sessions, user, waits, data, counts, locks>>
    BY <1>1, <1>5 DEF DropReference
  <2>2. At("drop", refs[t]) \in ThreadRec /\ Placed(At("drop", refs[t]))
    BY <2>1, AtTyped DEF StepName
  <2>3. thread' \in [Thread -> ThreadRec] /\ \A o \in Thread : Placed(thread'[o])
    BY <1>1, <2>1, <2>2, OneThread
  <2> QED
    BY <2>1, <2>3, QuietGood DEF Typed, data, counts, locks
<1> QED
  BY <1>2, <1>3, <1>4, <1>5

\* SyncUser::log_out and update_refresh_token.
LEMMA UserTyped ==
    ASSUME Typed, AllGood, NEW t \in App,
           UserLogOut(t) \/ UserLogOutEnd(t) \/ UpdateRefreshToken(t)
    PROVE  Typed' /\ AllGood'
<1>1. /\ t \in Thread /\ Idle \in ThreadRec /\ Placed(Idle)
      /\ user \in [state: {"Active", "LoggedOut", "Error"},
                   active: Session \cup {nil}, waiting: Session \cup {nil}]
      /\ lockU \in Thread \cup {nil}
  BY PlacedAt DEF Typed, Thread
<1>2. CASE UserLogOut(t)
  <2>1. /\ lockU' \in {t, lockU}
        /\ \/ user' = [user EXCEPT !.state = "LoggedOut"]
           \/ user' = [user EXCEPT !.state = "LoggedOut", !.active = nil]
        /\ \/ thread' = thread
           \/ user.active # nil /\ thread' = [thread EXCEPT ![t] = At("logout", user.active)]
        /\ UNCHANGED <<sessions, m_sessions, lockM, refs, waits, opened, data>>
    BY <1>2 DEF UserLogOut
  <2>2. user' \in [state: {"Active", "LoggedOut", "Error"},
                   active: Session \cup {nil}, waiting: Session \cup {nil}]
    BY <1>1, <2>1
  <2>3. thread' \in [Thread -> ThreadRec] /\ \A o \in Thread : Placed(thread'[o])
    <3>1. CASE thread' = thread
      BY <3>1 DEF Typed
    <3>2. CASE user.active # nil /\ thread' = [thread EXCEPT ![t] = At("logout", user.active)]
      <4>1. user.active \in Session
        BY <1>1, <3>2
      <4>2. At("logout", user.active) \in ThreadRec /\ Placed(At("logout", user.active))
        BY <4>1, AtTyped DEF StepName
      <4> QED
        BY <1>1, <3>2, <4>2, OneThread
    <3> QED
      BY <2>1, <3>1, <3>2
  <2>4. lockU' \in Thread \cup {nil}
    BY <1>1, <2>1
  <2> QED
    BY <2>1, <2>2, <2>3, <2>4, QuietGood DEF Typed, data
<1>3. CASE UserLogOutEnd(t)
  <2>1. /\ thread[t].s \in Session /\ thread' = [thread EXCEPT ![t] = Idle] /\ lockU' = nil
        /\ user' = [user EXCEPT !.waiting = thread[t].s, !.active = nil]
        /\ UNCHANGED <<sessions, m_sessions, lockM, refs, waits, data, counts>>
    BY <1>1, <1>3, ThreadFacts DEF UserLogOutEnd
  <2>2. user' \in [state: {"Active", "LoggedOut", "Error"},
                   active: Session \cup {nil}, waiting: Session \cup {nil}]
    BY <1>1, <2>1
  <2>3. thread' \in [Thread -> ThreadRec] /\ \A o \in Thread : Placed(thread'[o])
    BY <1>1, <2>1, OneThread
  <2> QED
    BY <2>1, <2>2, <2>3, QuietGood DEF Typed, data, counts
<1>4. CASE UpdateRefreshToken(t)
  <2>1. /\ \/ user' = [state |-> "Active", active |-> user.waiting, waiting |-> nil]
           \/ user' = [user EXCEPT !.state = "Active", !.waiting = nil]
        /\ \/ thread' = thread
           \/ user.waiting # nil /\ thread' = [thread EXCEPT ![t] = At("revive", user.waiting)]
        /\ UNCHANGED <<sessions, m_sessions, refs, waits, data, counts, locks>>
    BY <1>4 DEF UpdateRefreshToken
  <2>2. user' \in [state: {"Active", "LoggedOut", "Error"},
                   active: Session \cup {nil}, waiting: Session \cup {nil}]
    <3>1. user.waiting \in Session \cup {nil}
      BY <1>1
    <3>2. CASE user' = [state |-> "Active", active |-> user.waiting, waiting |-> nil]
      BY <3>1, <3>2
    <3>3. CASE user' = [user EXCEPT !.state = "Active", !.waiting = nil]
      BY <1>1, <3>3
    <3> QED
      BY <2>1, <3>2, <3>3
  <2>3. thread' \in [Thread -> ThreadRec] /\ \A o \in Thread : Placed(thread'[o])
    <3>1. CASE thread' = thread
      BY <3>1 DEF Typed
    <3>2. CASE user.waiting # nil /\ thread' = [thread EXCEPT ![t] = At("revive", user.waiting)]
      <4>1. user.waiting \in Session
        BY <1>1, <3>2
      <4>2. At("revive", user.waiting) \in ThreadRec /\ Placed(At("revive", user.waiting))
        BY <4>1, AtTyped DEF StepName
      <4> QED
        BY <1>1, <3>2, <4>2, OneThread
    <3> QED
      BY <2>1, <3>1, <3>2
  <2> QED
    BY <2>1, <2>2, <2>3, QuietGood DEF Typed, data, counts, locks
<1> QED
  BY <1>2, <1>3, <1>4


\* unregister_session, up to the lookup of the external reference, and the abortion of
\* the queued handlers.
LEMMA UnregisterTyped ==
    ASSUME Typed, AllGood, NEW t \in Thread, UnregisterSession(t) \/ AbortPackages(t)
    PROVE  Typed' /\ AllGood'
<1>1. CASE UnregisterSession(t)
  <2>1. /\ thread[t].pc = "unregister" /\ m_sessions \in Session \cup {nil}
        /\ thread[t] \in ThreadRec /\ thread[t].s \in Session /\ thread[t].then # "ref"
        /\ thread[t].x = nil
    BY <1>1, SyncAssumption DEF UnregisterSession, Typed, Placed
  <2>2. UNCHANGED <<stop_policy, sessions, user, lockU, refs, waits, issued,
                    answered, version, uploaded, owed, opened>>
    BY <1>1 DEF UnregisterSession, counts
  <2>3. CASE UNCHANGED <<m_sessions, lockM, thread>>
    BY <2>2, <2>3, QuietGood DEF Typed
  <2>4. CASE /\ m_sessions # nil /\ lockM' = t /\ UNCHANGED m_sessions
             /\ thread' = [thread EXCEPT ![t].pc = "unregister_end", ![t].x = m_sessions]
    <3> DEFINE q == [thread[t] EXCEPT !.pc = "unregister_end", !.x = m_sessions]
    <3>1. q \in ThreadRec /\ Placed(q)
      BY <2>1, <2>4 DEF ThreadRec, Placed
    <3>2. thread' = [thread EXCEPT ![t] = q]
      BY <2>4 DEF Typed
    <3> HIDE DEF q
    <3> QED
      BY <2>2, <2>4, <3>1, <3>2, OneThread, QuietGood DEF Typed
  <2>5. CASE /\ m_sessions' = nil /\ UNCHANGED lockM
             /\ thread' = [thread EXCEPT ![t].pc = "abort"]
    <3> DEFINE q == [thread[t] EXCEPT !.pc = "abort"]
    <3>1. q \in ThreadRec /\ Placed(q)
      BY <2>1 DEF ThreadRec, Placed
    <3>2. thread' = [thread EXCEPT ![t] = q]
      BY <2>5 DEF Typed
    <3> HIDE DEF q
    <3> QED
      BY <2>2, <2>5, <3>1, <3>2, OneThread, QuietGood DEF Typed
  <2> QED
    BY <1>1, <2>3, <2>4, <2>5 DEF UnregisterSession, LeftRegistered
<1>2. CASE AbortPackages(t)
  <2> DEFINE q == At(thread[t].then, thread[t].s)
  <2>1. /\ thread[t].pc = "abort" /\ thread' = [thread EXCEPT ![t] = q]
        /\ answered' = [w \in Waiter |->
                          answered[w] + IF w \in thread[t].held THEN 1 ELSE 0]
        /\ UNCHANGED <<stop_policy, sessions, m_sessions, user, refs, waits, issued,
                       version, uploaded, owed, opened, lockM, lockU>>
    BY <1>2 DEF AbortPackages, counts, locks
  <2>2. thread[t] \in ThreadRec /\ thread[t].s \in Session
    BY <2>1, ThreadFacts
  <2>3. q \in ThreadRec /\ Placed(q)
    BY <2>2, AtTyped DEF ThreadRec, StepName
  <2>4. answered' \in [Waiter -> Nat]
    BY <2>1 DEF Typed
  <2> HIDE DEF q
  <2> QED
    BY <2>1, <2>3, <2>4, OneThread, QuietGood DEF Typed
<1> QED
  BY <1>1, <1>2

\* The callbacks of the sync client on its event loop.
LEMMA LoopTyped ==
    ASSUME Typed, AllGood, LoopNext
    PROVE  Typed' /\ AllGood'
<1>1. /\ loop \in Thread /\ Idle \in ThreadRec /\ Placed(Idle) /\ Idle.pc = "idle"
      /\ waits \in SUBSET WaitRec /\ lockM \in Thread \cup {nil}
  BY PlacedAt DEF Typed, Thread
<1>2. CASE UploadVersion
  <2>1. /\ uploaded' = uploaded + 1
        /\ UNCHANGED <<stop_policy, sessions, m_sessions, user, refs, thread, waits,
                       issued, answered, version, owed, opened, lockM, lockU>>
    BY <1>2 DEF UploadVersion, counts, locks
  <2>2. PICK s \in Session : uploaded < sessions[s].known
    BY <1>2 DEF UploadVersion
  <2>3. sessions[s].known \in Nat /\ sessions[s].known <= version
    BY RecordFacts DEF SessionRecN, Good
  <2>4. uploaded' \in 0..version /\ version \in Nat
    BY <2>1, <2>2, <2>3 DEF Typed
  <2> QED
    BY <2>1, <2>4, QuietGood DEF Typed
<1>3. ASSUME NEW c \in waits, HandlerCalled(c)
      PROVE  Typed' /\ AllGood'
  <2>1. /\ waits' = waits \ {c} /\ answered' = [answered EXCEPT ![c.who] = @ + 1]
        /\ c.who # nil
        /\ UNCHANGED <<stop_policy, sessions, m_sessions, user, refs, thread, issued,
                       version, uploaded, owed, opened, lockM, lockU>>
    BY <1>3 DEF HandlerCalled, counts, locks
  <2>2. c.who \in Waiter
    BY <1>1, <2>1 DEF WaitRec
  <2>3. answered' \in [Waiter -> Nat] /\ waits' \in SUBSET WaitRec
    BY <1>1, <2>1, <2>2 DEF Typed
  <2> QED
    BY <2>1, <2>3, QuietGood DEF Typed
<1>4. ASSUME NEW c \in waits, UploadCompleted(c)
      PROVE  Typed' /\ AllGood'
  <2>1. waits \ {c} \in SUBSET WaitRec /\ c.s \in Session
    BY <1>1 DEF WaitRec
  <2>2. UNCHANGED <<m_sessions, user, refs, locks, data, opened>>
    BY <1>4 DEF UploadCompleted, outside, counts
  <2>3. CASE EnterInactive(loop, c.s, waits \ {c}, Idle)
    BY <1>1, <2>1, <2>2, <2>3, InactiveTyped
  <2>4. CASE waits' = waits \ {c} /\ UNCHANGED <<sessions, thread>>
    BY <2>1, <2>2, <2>4, QuietGood DEF Typed, locks, data
  <2> QED
    BY <1>4, <2>3, <2>4 DEF UploadCompleted
<1>5. ASSUME NEW s \in Session, NEW kind \in ErrorKinds, HandleError(s, kind)
      PROVE  Typed' /\ AllGood'
  <2>1. UNCHANGED <<m_sessions, user, refs, locks, data, opened>>
    BY <1>5 DEF HandleError
  <2>2. CASE EnterInactive(loop, s, waits, Idle)
    BY <1>1, <2>1, <2>2, InactiveTyped
  <2>3. CASE thread' = [thread EXCEPT ![loop] = At(kind, s)] /\ UNCHANGED <<sessions, waits>>
    <3>1. At(kind, s) \in ThreadRec /\ Placed(At(kind, s))
      BY AtTyped, SyncAssumption DEF StepName
    <3> QED
      BY <1>1, <2>1, <2>3, <3>1, OneThread, QuietGood DEF Typed, locks, data
  <2> QED
    BY <1>5, <2>2, <2>3 DEF HandleError
<1>6. CASE AccessTokenExpired
  <2> DEFINE s == thread[loop].s
             r == IF sessions[s].state = "active" THEN ToWaiting(sessions[s])
                  ELSE sessions[s]
  <2>1. Section(loop, s, r, waits, Idle) /\ UNCHANGED outside /\ s \in Session
    BY <1>1, <1>6, ThreadFacts DEF AccessTokenExpired
  <2>2. r \in SessionRecN /\ Good(r, owed[s], version, stop_policy)
    BY <2>1, RecordFacts, WaitingGood
  <2> HIDE DEF r
  <2> QED
    BY <1>1, <2>1, <2>2, PlainSection DEF outside, locks, counts
<1>7. CASE CancelPendingWaits
  <2> DEFINE s == thread[loop].s
             r == [sessions[s] EXCEPT !.packages = {}]
             next == IF thread[loop].pc = "auth" THEN "invalidate" ELSE "idle"
             q == [At("abort", s) EXCEPT !.then = next, !.held = sessions[s].packages]
  <2>1. /\ thread' = [thread EXCEPT ![loop] = q] /\ s \in Session
        /\ sessions' = [sessions EXCEPT ![s].packages = {}]
        /\ UNCHANGED <<waits, m_sessions, user, refs, lockM, lockU, opened, data>>
    BY <1>1, <1>7, ThreadFacts DEF CancelPendingWaits, outside, locks, counts
  <2>2. /\ sessions[s] \in SessionRecN /\ sessions' = [sessions EXCEPT ![s] = r]
        /\ r \in SessionRecN /\ Good(r, owed[s], version, stop_policy)
    BY <2>1, RecordFacts, QueuedGood DEF Typed
  <2>3. q \in ThreadRec /\ Placed(q)
    <3>1. At("abort", s) \in ThreadRec /\ Placed(At("abort", s))
          /\ At("abort", s).pc = "abort" /\ At("abort", s).s = s /\ At("abort", s).x = nil
      BY <2>1, AtTyped, PlacedAt DEF StepName
    <3>2. sessions[s].packages \in SUBSET Waiter /\ next \in {"invalidate", "idle"}
      BY <2>2 DEF SessionRecN
    <3> HIDE DEF next
    <3> QED
      BY <2>1, <3>1, <3>2 DEF ThreadRec, Placed
  <2> HIDE DEF q, r
  <2>4. sessions' \in [Session -> SessionRecN]
        /\ \A o \in Session : Good(sessions'[o], owed[o], version, stop_policy)
    BY <2>1, <2>2 DEF Typed, AllGood
  <2>5. AllGood'
    BY <2>1, <2>4 DEF AllGood, Good, data
  <2>6. UNCHANGED <<stop_policy, issued, answered, version, uploaded, owed>>
    BY <2>1 DEF data
  <2> QED
    BY <1>1, <2>1, <2>3, <2>4, <2>5, <2>6, OneThread DEF Typed
<1>8. CASE Invalidate
  <2>1. /\ user' = [user EXCEPT !.state = "Error"]
        /\ thread' = [thread EXCEPT ![loop] = Idle]
        /\ UNCHANGED <<sessions, m_sessions, refs, waits, data, opened, lockM, lockU>>
    BY <1>8 DEF Invalidate, counts, locks
  <2>2. user' \in [state: {"Active", "LoggedOut", "Error"},
                   active: Session \cup {nil}, waiting: Session \cup {nil}]
    BY <2>1 DEF Typed
  <2> QED
    BY <1>1, <2>1, <2>2, OneThread, QuietGood DEF Typed, data
<1>9. CASE ResetSession
  <2>1. /\ EnterInactive(loop, thread[loop].s, waits, Idle) /\ thread[loop].s \in Session
        /\ UNCHANGED <<m_sessions, user, refs, locks, data, opened>>
    BY <1>1, <1>9, ThreadFacts DEF ResetSession, outside, counts
  <2> QED
    BY <1>1, <2>1, InactiveTyped
<1> QED
  BY <1>2, <1>3, <1>4, <1>5, <1>6, <1>7, <1>8, <1>9 DEF LoopNext

\* The destructor.
LEMMA DestroyTyped ==
    ASSUME Typed, AllGood, NEW s \in Session, Destroy(s)
    PROVE  Typed' /\ AllGood'
<1>1. /\ sessions' = [sessions EXCEPT ![s] = NoSession]
      /\ waits' = Terminated(waits, s) /\ owed' = [owed EXCEPT ![s] = 0]
      /\ UNCHANGED <<stop_policy, m_sessions, user, refs, thread, issued, answered,
                     version, uploaded, opened, lockM, lockU>>
  BY DEF Destroy, counts, locks
<1>2. NoSession \in SessionRecN /\ Good(NoSession, 0, version, stop_policy)
  BY DEF NoSession, SessionRecN, State, Good, Typed
<1>3. /\ sessions' \in [Session -> SessionRecN] /\ owed' \in [Session -> Nat]
      /\ \A o \in Session : Good(sessions'[o], owed'[o], version, stop_policy)
  BY <1>1, <1>2 DEF Typed, AllGood
<1>4. waits' \in SUBSET WaitRec
  BY <1>1, TerminatedFacts DEF Typed
<1>5. AllGood'
  BY <1>1, <1>3 DEF AllGood, Good
<1> QED
  BY <1>1, <1>3, <1>4, <1>5 DEF Typed

\* Every step keeps the types and what is said of every session record.
LEMMA TypedNext ==
    ASSUME Typed, AllGood, Announcing, [Next]_vars
    PROVE  Typed' /\ AllGood'
<1>1. ASSUME NEW t \in App, AppNext(t)
      PROVE  Typed' /\ AllGood'
  <2>1. t \in Thread
    BY DEF Thread
  <2>2. ASSUME NEW w \in Waiter, WaitForCompletion(t, w)
        PROVE  Typed' /\ AllGood'
    BY <2>2, WaitTyped
  <2> QED
    BY <1>1, <2>1, <2>2, ReferenceTyped, ControlTyped, UserTyped, RefreshTyped, CommitTyped,
       AnnounceTyped DEF AppNext
<1>2. ASSUME NEW t \in Thread,
             \/ ReviveIfNeeded(t) \/ UnregisterSession(t)
             \/ UnregisterSessionEnd(t) \/ AbortPackages(t)
      PROVE  Typed' /\ AllGood'
  BY <1>2, ControlTyped, UnregisterTyped, UnregisterEndTyped
<1>3. CASE UNCHANGED vars
  BY <1>3, QuietGood DEF vars, outside, data, counts, locks, Typed
<1> QED
  BY <1>1, <1>2, <1>3, LoopTyped, DestroyTyped DEF Next

\* The initial states.
LEMMA TypedInit ==
    ASSUME Init
    PROVE  Typed /\ AllGood
<1>1. NoSession \in SessionRecN /\ NoSession.state = "inactive" /\ ~NoSession.session
      /\ ~NoSession.deferredClose /\ NoSession.known = 0 /\ NoSession.deferred = 0
  BY DEF NoSession, SessionRecN, State
<1>2. Idle \in ThreadRec /\ Placed(Idle)
  BY PlacedAt
<1>3. AllGood
  BY <1>1 DEF Init, AllGood, Good
<1>4. Typed
  BY <1>1, <1>2, SyncAssumption DEF Init, Typed
<1> QED
  BY <1>3, <1>4

\* A critical section leaves its thread at the continuation or in unregister_session.
LEMMA SectionThread ==
    ASSUME Typed, NEW t \in Thread, NEW s, NEW r, NEW W, NEW cont,
           Section(t, s, r, W, cont)
    PROVE  /\ \A o \in Thread \ {t} : thread'[o] = thread[o]
           /\ \/ thread'[t] = cont
              \/ /\ thread'[t].pc = "unregister" /\ thread'[t].s = s
                 /\ thread'[t].x = nil /\ thread'[t].then = cont.pc
                 /\ thread'[t].held = sessions[s].packages \cup cont.held
<1> DEFINE held == sessions[s].packages \cup cont.held
           q == [At("unregister", s) EXCEPT !.then = cont.pc, !.held = held]
<1>1. thread' = [thread EXCEPT ![t] = cont] \/ thread' = [thread EXCEPT ![t] = q]
  BY DEF Section, EnterInactive
<1>2. q.pc = "unregister" /\ q.s = s /\ q.x = nil /\ q.then = cont.pc /\ q.held = held
  BY DEF At, Idle
<1> HIDE DEF q, held
<1> QED
  BY <1>1, <1>2 DEF Typed, held

\* A step of one thread that is not a commit.
LEMMA AnnouncingStep ==
    ASSUME Announcing, UNCHANGED version, NEW t \in Thread,
           \A o \in Thread \ {t} : thread'[o] = thread[o],
           thread'[t] = thread[t] \/ thread'[t].pc # "announce"
    PROVE  Announcing'
BY DEF Announcing

\* The steps of the application's threads.
LEMMA AppAnnouncing ==
    ASSUME Typed, Announcing, NEW t \in App, AppNext(t)
    PROVE  Announcing'
<1>0. t \in Thread /\ Idle.pc = "idle" /\ \A pc, s : At(pc, s).pc = pc
  BY PlacedAt DEF Thread
<1>1. ASSUME NEW q, thread' = [thread EXCEPT ![t] = q] \/ thread' = thread,
             q.pc # "announce", UNCHANGED version
      PROVE  Announcing'
  <2>1. /\ \A o \in Thread \ {t} : thread'[o] = thread[o]
        /\ thread'[t] = thread[t] \/ thread'[t].pc # "announce"
    BY <1>0, <1>1 DEF Typed
  <2> QED
    BY <1>0, <1>1, <2>1, AnnouncingStep
<1>2. ASSUME NEW s, NEW r, NEW W, NEW cont, Section(t, s, r, W, cont),
             cont.pc # "announce", UNCHANGED version
      PROVE  Announcing'
  <2>1. /\ \A o \in Thread \ {t} : thread'[o] = thread[o]
        /\ thread'[t].pc # "announce"
    BY <1>0, <1>2, SectionThread
  <2> QED
    BY <1>0, <1>2, <2>1, AnnouncingStep
<1>3. CASE GetSession(t) \/ ExternalReference(t) \/ DropReference(t)
  BY <1>0, <1>1, <1>3 DEF GetSession, ExternalReference, DropReference, data
<1>4. CASE RegisterSession(t)
  <2> DEFINE s == thread[t].s
             q == IF user.state = "Active" THEN [At("revive", s) EXCEPT !.then = "ref"]
                  ELSE At("ref", s)
  <2>1. thread' = [thread EXCEPT ![t] = q] /\ UNCHANGED version
    BY <1>4 DEF RegisterSession, data
  <2>2. q.pc # "announce"
    BY DEF At, Idle
  <2> HIDE DEF q
  <2> QED
    BY <1>1, <2>1, <2>2
<1>5. CASE UserLogOut(t) \/ UserLogOutEnd(t) \/ UpdateRefreshToken(t)
  BY <1>0, <1>1, <1>5 DEF UserLogOut, UserLogOutEnd, UpdateRefreshToken, data
<1>6. CASE DidDropExternalReference(t) \/ SessionLogOut(t) \/ Suspend(t) \/ Resume(t)
  BY <1>0, <1>2, <1>6
     DEF DidDropExternalReference, SessionLogOut, Suspend, Resume, outside, data
<1>7. CASE RefreshAccessToken(t) \/ \E w \in Waiter : WaitForCompletion(t, w)
  BY <1>0, <1>2, <1>7 DEF RefreshAccessToken, WaitForCompletion, outside, data
<1>8. CASE Announce(t)
  BY <1>0, <1>2, <1>8 DEF Announce
<1>9. CASE Commit(t)
  <2> DEFINE q == [At("announce", refs[t]) EXCEPT !.v = version + 1]
  <2>1. /\ t \in Writer /\ q.pc = "announce" /\ q.v = version + 1
        /\ thread' = [thread EXCEPT ![t] = q]
    BY <1>9, CommitThread
  <2> HIDE DEF q
  <2>2. thread'[t] = q /\ (\A o \in Thread \ {t} : thread'[o] = thread[o])
        /\ version' = version + 1
    BY <1>0, <1>9, <2>1 DEF Commit, Typed
  <2>3. ASSUME NEW o \in Thread, thread'[o].pc = "announce"
        PROVE  o \in Writer /\ (OneWriter => thread'[o].v = version')
    <3>1. CASE o = t
      BY <2>1, <2>2, <3>1
    <3>2. CASE o # t
      <4>1. o \in Writer
        BY <2>2, <2>3, <3>2 DEF Announcing
      <4>2. ~OneWriter
        BY <2>1, <3>2, <4>1 DEF OneWriter
      <4> QED
        BY <4>1, <4>2
    <3> QED
      BY <3>1, <3>2
  <2> QED
    BY <2>3 DEF Announcing
<1> QED
  BY <1>3, <1>4, <1>5, <1>6, <1>7, <1>8, <1>9 DEF AppNext

\* The only writer stays at its commit until it has announced it.
LEMMA AnnouncingNext ==
    ASSUME Typed, Announcing, [Next]_vars
    PROVE  Announcing'
<1>0. loop \in Thread /\ Idle.pc = "idle" /\ \A pc, s : At(pc, s).pc = pc
  BY PlacedAt DEF Thread
<1>1. ASSUME NEW t \in Thread, NEW q, thread' = [thread EXCEPT ![t] = q] \/ thread' = thread,
             q.pc # "announce", UNCHANGED version
      PROVE  Announcing'
  <2>1. /\ \A o \in Thread \ {t} : thread'[o] = thread[o]
        /\ thread'[t] = thread[t] \/ thread'[t].pc # "announce"
    BY <1>1 DEF Typed
  <2> QED
    BY <1>1, <2>1, AnnouncingStep
<1>2. ASSUME NEW t \in Thread, NEW s, NEW r, NEW W, NEW cont, Section(t, s, r, W, cont),
             cont.pc # "announce", UNCHANGED version
      PROVE  Announcing'
  <2>1. /\ \A o \in Thread \ {t} : thread'[o] = thread[o]
        /\ thread'[t].pc # "announce"
    BY <1>2, SectionThread
  <2> QED
    BY <1>2, <2>1, AnnouncingStep
<1>3. ASSUME NEW s, NEW W, EnterInactive(loop, s, W, Idle), UNCHANGED version
      PROVE  Announcing'
  <2> DEFINE q == [At("unregister", s) EXCEPT !.then = Idle.pc,
                                              !.held = sessions[s].packages \cup Idle.held]
  <2>1. thread' = [thread EXCEPT ![loop] = q]
    BY <1>3 DEF EnterInactive
  <2>2. q.pc # "announce"
    BY DEF At, Idle
  <2> HIDE DEF q
  <2> QED
    BY <1>0, <1>1, <1>3, <2>1, <2>2
<1>4. CASE UNCHANGED vars
  BY <1>4 DEF vars, outside, data, Announcing
<1>5. ASSUME NEW t \in Thread,
             \/ ReviveIfNeeded(t) \/ UnregisterSession(t)
             \/ UnregisterSessionEnd(t) \/ AbortPackages(t)
      PROVE  Announcing'
  <2>0. thread[t] \in ThreadRec /\ thread[t].then # "announce"
    BY DEF Typed, ThreadRec
  <2>1. CASE ReviveIfNeeded(t)
    BY <1>0, <1>2, <2>0, <2>1 DEF ReviveIfNeeded, outside, data
  <2>2. CASE AbortPackages(t)
    <3>1. /\ thread' = [thread EXCEPT ![t] = At(thread[t].then, thread[t].s)]
          /\ UNCHANGED version /\ At(thread[t].then, thread[t].s).pc # "announce"
      BY <1>0, <2>0, <2>2 DEF AbortPackages
    <3> QED
      BY <1>1, <3>1
  <2>3. CASE UnregisterSessionEnd(t)
    <3> DEFINE cont == [thread[t] EXCEPT !.pc = "abort", !.x = nil]
    <3>1. (\E s, r : Section(t, s, r, waits, cont)) /\ UNCHANGED version
      BY <2>3 DEF UnregisterSessionEnd, data
    <3>2. cont.pc # "announce"
      BY <2>0 DEF ThreadRec
    <3> HIDE DEF cont
    <3> QED
      BY <1>2, <3>1, <3>2
  <2>4. CASE UnregisterSession(t)
    <3> DEFINE a == [thread[t] EXCEPT !.pc = "unregister_end", !.x = m_sessions]
               b == [thread[t] EXCEPT !.pc = "abort"]
    <3>1. /\ UNCHANGED version
          /\ \/ thread' = thread
             \/ thread' = [thread EXCEPT ![t] = a]
             \/ thread' = [thread EXCEPT ![t] = b]
      BY <2>4 DEF UnregisterSession, Typed
    <3>2. a.pc # "announce" /\ b.pc # "announce"
      BY <2>0 DEF ThreadRec
    <3> HIDE DEF a, b
    <3> QED
      BY <1>1, <3>1, <3>2
  <2> QED
    BY <1>5, <2>1, <2>2, <2>3, <2>4
<1>6. CASE LoopNext \/ \E s \in Session : Destroy(s)
  <2>0. UNCHANGED version
    BY <1>6 DEF LoopNext, UploadVersion, HandlerCalled, UploadCompleted, HandleError,
           AccessTokenExpired, CancelPendingWaits, Invalidate, ResetSession, Destroy,
           outside, data
  <2>1. CASE UploadVersion \/ \E s \in Session : Destroy(s)
    BY <1>0, <1>1, <2>0, <2>1 DEF UploadVersion, Destroy
  <2>2. ASSUME NEW c \in waits, HandlerCalled(c) \/ UploadCompleted(c)
        PROVE  Announcing'
    BY <1>0, <1>1, <1>3, <2>0, <2>2 DEF HandlerCalled, UploadCompleted
  <2>3. ASSUME NEW s \in Session, NEW kind \in ErrorKinds, HandleError(s, kind)
        PROVE  Announcing'
    <3>1. kind # "announce"
      BY SyncAssumption
    <3> QED
      BY <1>0, <1>1, <1>3, <2>0, <2>3, <3>1 DEF HandleError
  <2>4. CASE AccessTokenExpired
    BY <1>0, <1>2, <2>0, <2>4 DEF AccessTokenExpired
  <2>5. CASE CancelPendingWaits
    <3> DEFINE next == IF thread[loop].pc = "auth" THEN "invalidate" ELSE "idle"
               q == [At("abort", thread[loop].s) EXCEPT
                       !.then = next, !.held = sessions[thread[loop].s].packages]
    <3>1. thread' = [thread EXCEPT ![loop] = q]
      BY <2>5 DEF CancelPendingWaits
    <3>2. q.pc # "announce"
      BY DEF At, Idle
    <3> HIDE DEF q
    <3> QED
      BY <1>0, <1>1, <2>0, <3>1, <3>2
  <2>6. CASE Invalidate
    BY <1>0, <1>1, <2>0, <2>6 DEF Invalidate
  <2>7. CASE ResetSession
    BY <1>3, <2>0, <2>7 DEF ResetSession
  <2> QED
    BY <1>6, <2>1, <2>2, <2>3, <2>4, <2>5, <2>6, <2>7 DEF LoopNext
<1> QED
  BY <1>4, <1>5, <1>6, AppAnnouncing DEF Next

\* Every reachable state has the types and good session records, and a thread between
\* a commit and its announcement is where Announcing says.
THEOREM SyncRecords == Spec => [](Typed /\ AllGood /\ Announcing)
<1>1. Init => Typed /\ AllGood /\ Announcing
  BY TypedInit, PlacedAt DEF Init, Announcing
<1>2. Typed /\ AllGood /\ Announcing /\ [Next]_vars => (Typed /\ AllGood /\ Announcing)'
  BY TypedNext, AnnouncingNext
<1> QED
  BY <1>1, <1>2, PTL DEF Spec

\* An active or dying session has its sync::Session and an inactive one has none,
\* whichever threads moved it there and for any number of them (SessionMatchesState).
THEOREM SyncSessionMatches == Spec => []SessionMatchesState
<1>1. Typed /\ AllGood => SessionMatchesState
  BY DEF AllGood, Good, SessionMatchesState
<1> QED
  BY <1>1, SyncRecords, PTL


----------------------------------------------------------------------------
(* Registration: who holds m_session_mutex, and the session it protects.    *)

\* A step that takes no lock, drops references at most, and leaves one thread outside
\* get_session or as far inside as before.
LEMMA RegisteredStep ==
    ASSUME Typed, Registered, NEW t \in Thread, UNCHANGED <<m_sessions, lockM>>,
           \A o \in App : refs'[o] \in {refs[o], nil},
           \A o \in Thread \ {t} : thread'[o] = thread[o],
           thread'[t].x = nil, thread'[t].pc # "unregister_end",
           Opening(thread'[t]) => Opening(thread[t]) /\ thread'[t].s = thread[t].s
    PROVE  Registered'
<1>0. nil \notin Session
  BY SyncAssumption
<1>1. ASSUME NEW s \in Session, Referenced(s)'
      PROVE  m_sessions' = s
  <2>1. \/ \E o \in App : refs'[o] = s
        \/ \E o \in Thread : thread'[o].x = s
    BY <1>1 DEF Referenced
  <2>2. Referenced(s)
    BY <1>0, <2>1 DEF Referenced
  <2> QED
    BY <2>2 DEF Registered
<1>2. ASSUME NEW o \in Thread
      PROVE  /\ Opening(thread'[o]) => lockM' = o /\ m_sessions' = thread'[o].s
             /\ thread'[o].pc = "unregister_end" => lockM' = o /\ m_sessions' = thread'[o].x
  BY DEF Registered
<1> QED
  BY <1>1, <1>2 DEF Registered, Opening

\* The same for a critical section of a thread outside get_session.
LEMMA RegisteredSection ==
    ASSUME Typed, Registered, NEW t \in Thread, NEW s, NEW r, NEW W, NEW cont,
           Section(t, s, r, W, cont), UNCHANGED <<m_sessions, lockM, refs>>,
           cont.x = nil, cont.pc \notin {"unregister_end", "ref"}, ~Opening(cont)
    PROVE  Registered'
<1>1. /\ \A o \in Thread \ {t} : thread'[o] = thread[o]
      /\ \/ thread'[t] = cont
         \/ /\ thread'[t].pc = "unregister" /\ thread'[t].x = nil
            /\ thread'[t].then = cont.pc
  BY SectionThread
<1>2. /\ thread'[t].x = nil /\ thread'[t].pc # "unregister_end" /\ ~Opening(thread'[t])
  BY <1>1 DEF Opening
<1> QED
  BY <1>1, <1>2, RegisteredStep

\* The same for entering INACTIVE.
LEMMA RegisteredInactive ==
    ASSUME Typed, Registered, NEW t \in Thread, NEW s, NEW W,
           EnterInactive(t, s, W, Idle), UNCHANGED <<m_sessions, lockM, refs>>
    PROVE  Registered'
<1> DEFINE q == [At("unregister", s) EXCEPT !.then = Idle.pc,
                                            !.held = sessions[s].packages \cup Idle.held]
<1>1. thread' = [thread EXCEPT ![t] = q]
  BY DEF EnterInactive
<1>2. q.pc = "unregister" /\ q.x = nil /\ q.then = "idle"
  BY DEF At, Idle
<1> HIDE DEF q
<1>3. thread'[t] = q /\ \A o \in Thread \ {t} : thread'[o] = thread[o]
  BY <1>1 DEF Typed
<1>4. thread'[t].x = nil /\ thread'[t].pc # "unregister_end" /\ ~Opening(thread'[t])
  BY <1>2, <1>3 DEF Opening
<1> QED
  BY <1>3, <1>4, RegisteredStep

\* A thread at the beginning of a step other than those of get_session.
LEMMA AtOutside ==
    /\ ~Opening(Idle) /\ Idle.x = nil /\ Idle.pc = "idle"
    /\ \A pc, s : At(pc, s).x = nil /\ At(pc, s).pc = pc
    /\ \A pc, s : pc \notin {"register", "ref"} => ~Opening(At(pc, s))
BY PlacedAt DEF Opening

\* The steps of get_session and dropping a reference.
LEMMA ReferenceRegistered ==
    ASSUME Typed, Registered, NEW t \in App,
           GetSession(t) \/ RegisterSession(t) \/ ExternalReference(t) \/ DropReference(t)
    PROVE  Registered'
<1>1. t \in Thread /\ nil \notin Session /\ t # nil
  BY SyncAssumption DEF Thread
<1>2. CASE GetSession(t)
  <2>1. PICK s \in Session :
          /\ thread' = [thread EXCEPT ![t] = At("register", s)] /\ m_sessions' = s
          /\ \/ m_sessions = s /\ refs' = refs
             \/ m_sessions = nil /\ refs' = [refs EXCEPT ![t] = s]
    BY <1>2 DEF GetSession, Typed
  <2>2. lockM = nil /\ lockM' = t
    BY <1>2 DEF GetSession
  <2>3. /\ thread'[t].x = nil /\ thread'[t].pc = "register" /\ thread'[t].s = s
        /\ \A o \in Thread \ {t} : thread'[o] = thread[o]
    BY <1>1, <2>1, PlacedAt DEF Typed
  <2>4. \A o \in Thread : ~Opening(thread[o]) /\ thread[o].pc # "unregister_end"
    BY <2>2, SyncAssumption DEF Registered
  <2>5. ASSUME NEW p \in Session, Referenced(p)'
        PROVE  m_sessions' = p
    <3>1. \/ \E o \in App : refs'[o] = p
          \/ \E o \in Thread : thread'[o].x = p
      BY <2>5 DEF Referenced
    <3>2. CASE p = s
      BY <2>1, <3>2
    <3>3. CASE p # s
      <4>1. Referenced(p)
        BY <1>1, <2>1, <2>3, <3>1, <3>3 DEF Referenced, Typed
      <4> QED
        BY <1>1, <2>1, <3>3, <4>1 DEF Registered
    <3> QED
      BY <3>2, <3>3
  <2>6. ASSUME NEW o \in Thread
        PROVE  /\ Opening(thread'[o]) => lockM' = o /\ m_sessions' = thread'[o].s
               /\ thread'[o].pc = "unregister_end" => lockM' = o /\ m_sessions' = thread'[o].x
    BY <2>1, <2>2, <2>3, <2>4
  <2> QED
    BY <2>5, <2>6 DEF Registered, Opening
<1>3. CASE RegisterSession(t)
  <2> DEFINE s == thread[t].s
             q == IF user.state = "Active" THEN [At("revive", s) EXCEPT !.then = "ref"]
                  ELSE At("ref", s)
  <2>1. /\ thread[t].pc = "register" /\ thread' = [thread EXCEPT ![t] = q]
        /\ UNCHANGED <<m_sessions, refs, lockM>>
    BY <1>3 DEF RegisterSession, locks
  <2>2. q.x = nil /\ q.pc # "unregister_end" /\ q.s = s
    BY DEF At, Idle
  <2> HIDE DEF q
  <2>3. thread'[t] = q /\ \A o \in Thread \ {t} : thread'[o] = thread[o]
    BY <1>1, <2>1 DEF Typed
  <2>4. Opening(thread[t])
    BY <2>1 DEF Opening
  <2> QED
    BY <1>1, <2>1, <2>2, <2>3, <2>4, RegisteredStep
<1>4. CASE ExternalReference(t)
  <2>1. /\ thread[t].pc = "ref" /\ refs' = [refs EXCEPT ![t] = thread[t].s]
        /\ thread' = [thread EXCEPT ![t] = Idle] /\ lockM' = nil /\ m_sessions' = m_sessions
    BY <1>4 DEF ExternalReference
  <2>2. lockM = t /\ m_sessions = thread[t].s
    BY <1>1, <2>1 DEF Registered, Opening
  <2>3. thread'[t] = Idle /\ \A o \in Thread \ {t} : thread'[o] = thread[o]
    BY <1>1, <2>1 DEF Typed
  <2>4. \A o \in Thread \ {t} : ~Opening(thread[o]) /\ thread[o].pc # "unregister_end"
    BY <2>2 DEF Registered
  <2>5. ASSUME NEW p \in Session, Referenced(p)'
        PROVE  m_sessions' = p
    <3>1. \/ \E o \in App : refs'[o] = p
          \/ \E o \in Thread : thread'[o].x = p
      BY <2>5 DEF Referenced
    <3>2. p = thread[t].s \/ Referenced(p)
      BY <1>1, <2>1, <2>3, <3>1, AtOutside DEF Referenced, Typed
    <3> QED
      BY <2>1, <2>2, <3>2 DEF Registered
  <2>6. ASSUME NEW o \in Thread
        PROVE  /\ Opening(thread'[o]) => lockM' = o /\ m_sessions' = thread'[o].s
               /\ thread'[o].pc = "unregister_end" => lockM' = o /\ m_sessions' = thread'[o].x
    BY <2>3, <2>4, AtOutside
  <2> QED
    BY <2>5, <2>6 DEF Registered, Opening
<1>5. CASE DropReference(t)
  <2>1. /\ refs' = [refs EXCEPT ![t] = nil]
        /\ \/ thread' = [thread EXCEPT ![t] = Idle]
           \/ thread' = [thread EXCEPT ![t] = At("drop", refs[t])]
        /\ UNCHANGED <<m_sessions, lockM>>
    BY <1>5 DEF DropReference, locks
  <2>2. /\ \A o \in Thread \ {t} : thread'[o] = thread[o]
        /\ thread'[t].x = nil /\ thread'[t].pc # "unregister_end" /\ ~Opening(thread'[t])
        /\ \A o \in App : refs'[o] \in {refs[o], nil}
    BY <1>1, <2>1, AtOutside DEF Typed
  <2> QED
    BY <1>1, <2>1, <2>2, RegisteredStep
<1> QED
  BY <1>2, <1>3, <1>4, <1>5

\* The calls on application threads that leave the references alone.
LEMMA AppRegistered ==
    ASSUME Typed, Registered, NEW t \in App,
           \/ DidDropExternalReference(t) \/ UserLogOut(t) \/ SessionLogOut(t)
           \/ UserLogOutEnd(t) \/ UpdateRefreshToken(t) \/ Suspend(t) \/ Resume(t)
           \/ RefreshAccessToken(t) \/ Commit(t) \/ Announce(t)
           \/ \E w \in Waiter : WaitForCompletion(t, w)
    PROVE  Registered'
<1>1. t \in Thread
  BY DEF Thread
<1>2. UNCHANGED <<m_sessions, lockM, refs>>
  BY DEF DidDropExternalReference, UserLogOut, SessionLogOut, UserLogOutEnd,
         UpdateRefreshToken, Suspend, Resume, RefreshAccessToken, Commit,
         Announce, WaitForCompletion, outside, locks
<1>3. ASSUME \E s, r, W : Section(t, s, r, W, Idle)
      PROVE  Registered'
  BY <1>1, <1>2, <1>3, RegisteredSection, AtOutside
<1>4. CASE SessionLogOut(t)
  <2>1. \E s, r, W : Section(t, s, r, W, At("logout_end", s))
    BY <1>4 DEF SessionLogOut
  <2> QED
    BY <1>1, <1>2, <2>1, RegisteredSection, AtOutside
<1>5. ASSUME NEW q, thread' = [thread EXCEPT ![t] = q] \/ thread' = thread,
             q.x = nil, q.pc # "unregister_end", ~Opening(q)
      PROVE  Registered'
  <2>1. CASE thread' = [thread EXCEPT ![t] = q]
    <3>1. thread'[t] = q /\ \A o \in Thread \ {t} : thread'[o] = thread[o]
      BY <1>1, <2>1 DEF Typed
    <3> QED
      BY <1>1, <1>2, <1>5, <3>1, RegisteredStep
  <2>2. CASE thread' = thread
    BY <1>2, <2>2 DEF Registered, Opening, Referenced
  <2> QED
    BY <1>5, <2>1, <2>2
<1>6. CASE UserLogOut(t) \/ UserLogOutEnd(t) \/ UpdateRefreshToken(t)
  <2>1. \E q \in {Idle, At("logout", user.active), At("revive", user.waiting)} :
           thread' = [thread EXCEPT ![t] = q] \/ thread' = thread
    BY <1>6 DEF UserLogOut, UserLogOutEnd, UpdateRefreshToken
  <2>2. \A q \in {Idle, At("logout", user.active), At("revive", user.waiting)} :
           q.x = nil /\ q.pc # "unregister_end" /\ ~Opening(q)
    BY AtOutside
  <2> QED
    BY <1>5, <2>1, <2>2
<1>7. CASE DidDropExternalReference(t)
  BY <1>3, <1>7 DEF DidDropExternalReference
<1>8. CASE Suspend(t) \/ Resume(t) \/ Announce(t)
  BY <1>3, <1>8 DEF Suspend, Resume, Announce
<1>9. CASE RefreshAccessToken(t)
  BY <1>3, <1>9 DEF RefreshAccessToken
<1>10. CASE \E w \in Waiter : WaitForCompletion(t, w)
  BY <1>3, <1>10 DEF WaitForCompletion
<1>11. CASE Commit(t)
  <2> DEFINE q == [At("announce", refs[t]) EXCEPT !.v = version + 1]
  <2>1. /\ thread' = [thread EXCEPT ![t] = q] /\ q.x = nil /\ q.pc = "announce"
        /\ q.then = "idle"
    BY <1>11, CommitThread
  <2> HIDE DEF q
  <2> QED
    BY <1>5, <2>1 DEF Opening
<1> QED
  BY <1>4, <1>6, <1>7, <1>8, <1>9, <1>10, <1>11

\* revive_if_needed, unregister_session and the abortion of the queued handlers, on any
\* thread.
LEMMA ThreadRegistered ==
    ASSUME Typed, Registered, NEW t \in Thread,
           \/ ReviveIfNeeded(t) \/ UnregisterSession(t)
           \/ UnregisterSessionEnd(t) \/ AbortPackages(t)
    PROVE  Registered'
<1>0. nil \notin Session /\ t # nil
  BY SyncAssumption
<1>1. CASE ReviveIfNeeded(t)
  <2> DEFINE s == thread[t].s
             cont == At(thread[t].then, s)
  <2>1. /\ thread[t].pc = "revive" /\ Section(t, s, Revive(sessions[s]), waits, cont)
        /\ UNCHANGED <<m_sessions, lockM, refs>>
    BY <1>1 DEF ReviveIfNeeded, outside, locks
  <2>2. /\ \A o \in Thread \ {t} : thread'[o] = thread[o]
        /\ \/ thread'[t] = cont
           \/ /\ thread'[t].pc = "unregister" /\ thread'[t].s = s
              /\ thread'[t].x = nil /\ thread'[t].then = cont.pc
    BY <2>1, SectionThread
  <2>3. cont.x = nil /\ cont.pc = thread[t].then /\ cont.then = "idle"
        /\ (cont.pc # "idle" => cont.s = s)
    BY PlacedAt
  <2>4. /\ thread[t] \in ThreadRec /\ thread[t].then # "register"
        /\ thread[t].then # "unregister_end"
    BY DEF Typed, ThreadRec
  <2> HIDE DEF cont
  <2>5. /\ thread'[t].x = nil /\ thread'[t].pc # "unregister_end"
    BY <2>2, <2>3, <2>4
  <2>6. ASSUME Opening(thread'[t])
        PROVE  Opening(thread[t]) /\ thread'[t].s = thread[t].s
    BY <2>2, <2>3, <2>4, <2>6 DEF Opening
  <2> QED
    BY <2>1, <2>2, <2>5, <2>6, RegisteredStep
<1>2. CASE UnregisterSession(t)
  <2>1. /\ thread[t].pc = "unregister" /\ lockM = nil /\ UNCHANGED refs
        /\ thread[t].x = nil /\ thread[t].then # "ref"
    BY <1>2, SyncAssumption DEF UnregisterSession, Typed, Placed
  <2>2. \A o \in Thread : ~Opening(thread[o]) /\ thread[o].pc # "unregister_end"
    BY <2>1, SyncAssumption DEF Registered
  <2>3. CASE UNCHANGED <<m_sessions, lockM, thread>>
    BY <2>1, <2>3 DEF Registered, Opening, Referenced
  <2>4. CASE /\ LeftRegistered /\ lockM' = t /\ UNCHANGED m_sessions
             /\ thread' = [thread EXCEPT ![t].pc = "unregister_end", ![t].x = m_sessions]
    <3>1. /\ thread'[t].pc = "unregister_end" /\ thread'[t].x = m_sessions
          /\ thread'[t].then = thread[t].then
          /\ \A o \in Thread \ {t} : thread'[o] = thread[o]
      <4>1. thread[t] \in ThreadRec
        BY DEF Typed
      <4>2. thread'[t] = [thread[t] EXCEPT !.pc = "unregister_end", !.x = m_sessions]
            /\ \A o \in Thread \ {t} : thread'[o] = thread[o]
        BY <2>4 DEF Typed
      <4> QED
        BY <4>1, <4>2 DEF ThreadRec
    <3>2. ASSUME NEW p \in Session, Referenced(p)'
          PROVE  m_sessions' = p
      <4>1. \/ \E o \in App : refs'[o] = p
            \/ \E o \in Thread : thread'[o].x = p
        BY <3>2 DEF Referenced
      <4>2. p = m_sessions \/ Referenced(p)
        BY <2>1, <3>1, <4>1 DEF Referenced
      <4> QED
        BY <2>4, <4>2 DEF Registered
    <3>3. ASSUME NEW o \in Thread
          PROVE  /\ Opening(thread'[o]) => lockM' = o /\ m_sessions' = thread'[o].s
                 /\ thread'[o].pc = "unregister_end" =>
                        lockM' = o /\ m_sessions' = thread'[o].x
      <4>1. CASE o = t
        BY <2>1, <2>4, <3>1, <4>1 DEF Opening
      <4>2. CASE o # t
        BY <2>2, <3>1, <4>2
      <4> QED
        BY <4>1, <4>2
    <3> QED
      BY <3>2, <3>3 DEF Registered, Opening
  <2>5. CASE /\ m_sessions # nil /\ ~LeftRegistered /\ m_sessions' = nil /\ UNCHANGED lockM
             /\ thread' = [thread EXCEPT ![t].pc = "abort"]
    <3>1. /\ thread'[t].pc = "abort" /\ thread'[t].x = nil /\ thread'[t].then # "ref"
          /\ \A o \in Thread \ {t} : thread'[o] = thread[o]
      <4>1. thread[t] \in ThreadRec
        BY DEF Typed
      <4>2. thread'[t] = [thread[t] EXCEPT !.pc = "abort"]
            /\ \A o \in Thread \ {t} : thread'[o] = thread[o]
        BY <2>5 DEF Typed
      <4> QED
        BY <2>1, <4>1, <4>2 DEF ThreadRec
    <3>2. ASSUME NEW p \in Session, Referenced(p)'
          PROVE  FALSE
      <4>1. \/ \E o \in App : refs'[o] = p
            \/ \E o \in Thread : thread'[o].x = p
        BY <3>2 DEF Referenced
      <4>2. Referenced(p)
        BY <1>0, <2>1, <3>1, <4>1 DEF Referenced
      <4>3. m_sessions = p
        BY <4>2 DEF Registered
      <4> QED
        BY <2>5, <4>2, <4>3 DEF LeftRegistered
    <3>3. ASSUME NEW o \in Thread
          PROVE  ~Opening(thread'[o]) /\ thread'[o].pc # "unregister_end"
      <4>1. CASE o = t
        BY <3>1, <4>1 DEF Opening
      <4>2. CASE o # t
        BY <2>2, <3>1, <4>2
      <4> QED
        BY <4>1, <4>2
    <3> QED
      BY <3>2, <3>3 DEF Registered, Opening
  <2> QED
    BY <1>2, <2>3, <2>4, <2>5 DEF UnregisterSession
<1>3. CASE UnregisterSessionEnd(t)
  <2> DEFINE x == thread[t].x
             cont == [thread[t] EXCEPT !.pc = "abort", !.x = nil]
  <2>1. /\ thread[t].pc = "unregister_end" /\ \E r : Section(t, x, r, waits, cont)
        /\ lockM' \in {nil, lockM} /\ UNCHANGED <<m_sessions, refs>>
    BY <1>3 DEF UnregisterSessionEnd
  <2>2. thread[t] \in ThreadRec /\ thread[t].then # "ref"
    BY <2>1 DEF Typed, Placed
  <2>3. cont.pc = "abort" /\ cont.x = nil /\ cont.then # "ref"
    BY <2>2 DEF ThreadRec
  <2> HIDE DEF cont
  <2>4. /\ \A o \in Thread \ {t} : thread'[o] = thread[o]
        /\ thread'[t].x = nil /\ thread'[t].pc # "unregister_end" /\ ~Opening(thread'[t])
    BY <2>1, <2>3, SectionThread DEF Opening
  <2>5. \A o \in Thread \ {t} : ~Opening(thread[o]) /\ thread[o].pc # "unregister_end"
    BY <2>1 DEF Registered
  <2>6. ASSUME NEW p \in Session, Referenced(p)'
        PROVE  m_sessions' = p
    <3>1. \/ \E o \in App : refs'[o] = p
          \/ \E o \in Thread : thread'[o].x = p
      BY <2>6 DEF Referenced
    <3>2. Referenced(p)
      BY <1>0, <2>1, <2>4, <3>1 DEF Referenced
    <3> QED
      BY <2>1, <3>2 DEF Registered
  <2>7. ASSUME NEW o \in Thread
        PROVE  ~Opening(thread'[o]) /\ thread'[o].pc # "unregister_end"
    BY <2>4, <2>5
  <2> QED
    BY <2>6, <2>7 DEF Registered, Opening
<1>4. CASE AbortPackages(t)
  <2>1. /\ thread[t].pc = "abort" /\ thread[t] \in ThreadRec /\ thread[t].then # "ref"
        /\ thread' = [thread EXCEPT ![t] = At(thread[t].then, thread[t].s)]
        /\ UNCHANGED <<m_sessions, lockM, refs>>
    BY <1>4 DEF AbortPackages, Typed, Placed, locks
  <2>2. thread[t].then \notin {"register", "ref", "unregister_end"}
    BY <2>1 DEF ThreadRec
  <2>3. /\ \A o \in Thread \ {t} : thread'[o] = thread[o]
        /\ thread'[t].x = nil /\ thread'[t].pc # "unregister_end" /\ ~Opening(thread'[t])
    BY <2>1, <2>2, AtOutside DEF Typed
  <2> QED
    BY <2>1, <2>3, RegisteredStep
<1> QED
  BY <1>1, <1>2, <1>3, <1>4

\* The event loop and the destructor.
LEMMA LoopRegistered ==
    ASSUME Typed, Registered, LoopNext \/ \E s \in Session : Destroy(s)
    PROVE  Registered'
<1>1. loop \in Thread
  BY DEF Thread
<1>2. UNCHANGED <<m_sessions, lockM, refs>>
  BY DEF LoopNext, UploadVersion, HandlerCalled, UploadCompleted, HandleError,
         AccessTokenExpired, CancelPendingWaits, Invalidate, ResetSession, Destroy,
         outside, locks
<1>3. CASE thread' = thread
  BY <1>2, <1>3 DEF Registered, Opening, Referenced
<1>4. CASE \E s, W : EnterInactive(loop, s, W, Idle)
  BY <1>1, <1>2, <1>4, RegisteredInactive
<1>5. CASE AccessTokenExpired
  <2>1. \E s, r, W : Section(loop, s, r, W, Idle)
    BY <1>5 DEF AccessTokenExpired
  <2> QED
    BY <1>1, <1>2, <2>1, RegisteredSection, AtOutside
<1>6. ASSUME NEW q, thread' = [thread EXCEPT ![loop] = q],
             q.x = nil, q.pc # "unregister_end", ~Opening(q)
      PROVE  Registered'
  <2>1. thread'[loop] = q /\ \A o \in Thread \ {loop} : thread'[o] = thread[o]
    BY <1>1, <1>6 DEF Typed
  <2> QED
    BY <1>1, <1>2, <1>6, <2>1, RegisteredStep
<1>7. ASSUME NEW s \in Session, NEW kind \in ErrorKinds,
             thread' = [thread EXCEPT ![loop] = At(kind, s)]
      PROVE  Registered'
  <2>1. At(kind, s).x = nil /\ At(kind, s).pc # "unregister_end" /\ ~Opening(At(kind, s))
    BY AtOutside, SyncAssumption
  <2> QED
    BY <1>6, <1>7, <2>1
<1>8. CASE CancelPendingWaits
  <2> DEFINE next == IF thread[loop].pc = "auth" THEN "invalidate" ELSE "idle"
             q == [At("abort", thread[loop].s) EXCEPT
                     !.then = next, !.held = sessions[thread[loop].s].packages]
  <2>1. thread' = [thread EXCEPT ![loop] = q]
    BY <1>8 DEF CancelPendingWaits
  <2>2. q.x = nil /\ q.pc = "abort" /\ q.then = next /\ next # "ref"
    BY DEF At, Idle
  <2> HIDE DEF q
  <2> QED
    BY <1>6, <2>1, <2>2 DEF Opening
<1>9. CASE Invalidate
  BY <1>6, <1>9, AtOutside DEF Invalidate
<1>10. CASE LoopNext
  <2>1. CASE UploadVersion
    BY <1>3, <2>1 DEF UploadVersion
  <2>2. ASSUME NEW c \in waits, HandlerCalled(c) \/ UploadCompleted(c)
        PROVE  Registered'
    BY <1>3, <1>4, <2>2 DEF HandlerCalled, UploadCompleted
  <2>3. ASSUME NEW s \in Session, NEW kind \in ErrorKinds, HandleError(s, kind)
        PROVE  Registered'
    BY <1>4, <1>7, <2>3 DEF HandleError
  <2>4. CASE ResetSession
    BY <1>4, <2>4 DEF ResetSession
  <2> QED
    BY <1>5, <1>8, <1>9, <1>10, <2>1, <2>2, <2>3, <2>4 DEF LoopNext
<1>11. CASE \E s \in Session : Destroy(s)
  BY <1>3, <1>11 DEF Destroy
<1> QED
  BY <1>10, <1>11

\* Every step keeps Registered.
LEMMA RegisteredNext ==
    ASSUME Typed, Registered, [Next]_vars
    PROVE  Registered'
<1>1. CASE UNCHANGED vars
  BY <1>1 DEF vars, outside, locks, Registered, Opening, Referenced
<1>2. ASSUME NEW t \in App, AppNext(t)
      PROVE  Registered'
  BY <1>2, ReferenceRegistered, AppRegistered DEF AppNext
<1> QED
  BY <1>1, <1>2, ThreadRegistered, LoopRegistered DEF Next

\* The manager keeps a session for as long as it has an external reference, for any
\* number of threads in get_session, unregister_session and the sync client's callbacks
\* (ReferencedIsRegistered).
THEOREM SyncReferencedIsRegistered == Spec => []ReferencedIsRegistered
<1>1. Init => Registered
  BY AtOutside, SyncAssumption DEF Init, Registered, Referenced
<1>2. Typed /\ Registered /\ [Next]_vars => Registered'
  BY RegisteredNext
<1>3. Spec => []Registered
  BY <1>1, <1>2, SyncRecords, PTL DEF Spec
<1>4. Registered => ReferencedIsRegistered
  BY DEF Registered, ReferencedIsRegistered
<1> QED
  BY <1>3, <1>4, PTL


----------------------------------------------------------------------------
(* Handlers: each is in one place at most.                                  *)

\* The waits V come from the waits W: no handler is added and none is doubled.
KeptWaits(W, V) ==
    \A c, d \in V : c.who # nil /\ c.who = d.who =>
        \E e, f \in W : e.who = c.who /\ f.who = d.who /\ (e = f => c = d)

\* A thread that holds handlers is unregistering or aborting.
HoldsNothing(q) == q.pc \notin {"unregister", "unregister_end", "abort"} => q.held = {}

\* A step that adds no handler: those of a queue may go to the thread that makes the
\* step, or vanish with the queue.
LEMMA SingleStep ==
    ASSUME Single, NEW t \in Thread, nil \notin Waiter,
           UNCHANGED <<issued, answered>>,
           \A s \in Session : sessions'[s].packages \subseteq sessions[s].packages,
           \A o \in Thread \ {t} : thread'[o] = thread[o],
           \A w \in thread'[t].held :
               \/ w \in thread[t].held
               \/ \E s \in Session : /\ w \in sessions[s].packages
                                     /\ w \notin sessions'[s].packages,
           HoldsNothing(thread'[t]),
           KeptWaits(waits, waits')
    PROVE  Single'
<1>1. ASSUME NEW w \in Waiter, Nowhere(w)
      PROVE  Nowhere(w)'
  <2>1. \A s \in Session : w \notin sessions'[s].packages
    BY <1>1 DEF Nowhere, Queued
  <2>2. \A o \in Thread : w \notin thread'[o].held
    BY <1>1 DEF Nowhere, Queued, Taken
  <2>3. \A c \in waits' : c.who # w
    BY <1>1 DEF Nowhere, Pending, KeptWaits
  <2> QED
    BY <2>1, <2>2, <2>3 DEF Nowhere, Queued, Taken, Pending
<1>2. ASSUME NEW w \in Waiter
      PROVE  OnePlace(w)'
  <2>0. OnePlace(w) /\ w # nil
    BY DEF Single
  <2>1. \A s, o \in Session : w \in sessions'[s].packages /\ w \in sessions'[o].packages => s = o
    BY <2>0 DEF OnePlace, Queued
  <2>2. \A p, o \in Thread : w \in thread'[p].held /\ w \in thread'[o].held => p = o
    BY <2>0 DEF OnePlace, Queued, Taken
  <2>3. \A c, d \in waits' : c.who = w /\ d.who = w => c = d
    BY <2>0 DEF OnePlace, Pending, KeptWaits
  <2>4. \A s \in Session, o \in Thread : ~(w \in sessions'[s].packages /\ w \in thread'[o].held)
    BY <2>0 DEF OnePlace, Queued, Taken
  <2>5. \A c \in waits' : c.who = w => \E d \in waits : d.who = w
    BY <2>0 DEF KeptWaits
  <2>6. \A s \in Session, c \in waits' : ~(w \in sessions'[s].packages /\ c.who = w)
    BY <2>0, <2>5 DEF OnePlace, Queued, Pending
  <2>7. \A o \in Thread, c \in waits' : ~(w \in thread'[o].held /\ c.who = w)
    BY <2>0, <2>5 DEF OnePlace, Queued, Taken, Pending
  <2> QED
    BY <2>1, <2>2, <2>3, <2>4, <2>6, <2>7 DEF OnePlace, Queued, Taken, Pending
<1>3. \A o \in Thread : HoldsNothing(thread'[o])
  BY DEF Single, HoldsNothing
<1> QED
  BY <1>1, <1>2, <1>3 DEF Single, HoldsNothing

\* Waits that are cut down, or cancelled, or joined by waits for an upload, are kept.
LEMMA KeptFacts ==
    ASSUME NEW W, NEW V \in SUBSET W
    PROVE  /\ KeptWaits(W, V)
           /\ \A c : c.who = nil => KeptWaits(W, V \cup {c})
           /\ W \subseteq WaitRec => \A s : KeptWaits(W, Terminated(V, s))
<1>1. KeptWaits(W, V)
  BY DEF KeptWaits
<1>2. \A c : c.who = nil => KeptWaits(W, V \cup {c})
  BY DEF KeptWaits
<1>3. ASSUME W \subseteq WaitRec, NEW s
      PROVE  KeptWaits(W, Terminated(V, s))
  <2>1. V \in SUBSET WaitRec
    BY <1>3
  <2>2. \A c \in Terminated(V, s) : \E w \in V :
           c = (IF w.s = s THEN [w EXCEPT !.need = 0] ELSE w) /\ c.who = w.who
    BY <2>1, TerminatedFacts
  <2> QED
    BY <2>2 DEF KeptWaits
<1> QED
  BY <1>1, <1>2, <1>3

\* Entering INACTIVE moves the queue to the thread that does it.
LEMMA SingleInactive ==
    ASSUME Typed, AllGood, Single, NEW t \in Thread, NEW s \in Session,
           NEW W \in SUBSET waits, NEW cont \in ThreadRec,
           cont.pc \in {"idle", "logout_end", "abort"}, cont.held \subseteq thread[t].held,
           EnterInactive(t, s, W, cont), UNCHANGED <<issued, answered>>
    PROVE  Single'
<1>1. W \in SUBSET WaitRec
  BY DEF Typed
<1>2. /\ sessions'[s] = ToInactive(sessions[s])
      /\ \A o \in Session \ {s} : sessions'[o] = sessions[o]
      /\ \A o \in Thread \ {t} : thread'[o] = thread[o]
      /\ thread'[t].pc = "unregister"
      /\ thread'[t].held = sessions[s].packages \cup cont.held
      /\ waits' = Terminated(W, s)
  BY <1>1, EnterInactiveEffect
<1>3. sessions'[s].packages = {}
  BY <1>2, RecordFacts, InactiveGood
<1>4. KeptWaits(waits, waits')
  BY <1>2, KeptFacts DEF Typed
<1>5. HoldsNothing(thread'[t])
  BY <1>2 DEF HoldsNothing
<1>6. \A o \in Session : sessions'[o].packages \subseteq sessions[o].packages
  BY <1>2, <1>3
<1>7. \A w \in thread'[t].held :
        \/ w \in thread[t].held
        \/ \E o \in Session : w \in sessions[o].packages /\ w \notin sessions'[o].packages
  BY <1>2, <1>3
<1> QED
  BY <1>2, <1>4, <1>5, <1>6, <1>7, SingleStep, SyncAssumption

\* A critical section that keeps the queue, unless it enters INACTIVE.
LEMMA SingleSection ==
    ASSUME Typed, AllGood, Single, NEW t \in Thread, NEW s \in Session,
           NEW r \in SessionRecN, NEW cont \in ThreadRec, Placed(cont),
           (r.state = "inactive" /\ sessions[s].state # "inactive") =>
               cont.pc \in {"idle", "logout_end", "abort"},
           r.packages # sessions[s].packages =>
               r.state = "inactive" /\ sessions[s].state # "inactive",
           cont.held \subseteq thread[t].held, HoldsNothing(cont),
           Section(t, s, r, waits, cont), UNCHANGED <<issued, answered>>
    PROVE  Single'
<1>0. waits \in SUBSET WaitRec
  BY DEF Typed
<1>1. CASE r.state = "inactive" /\ sessions[s].state # "inactive"
  <2>1. EnterInactive(t, s, waits, cont)
    BY <1>1 DEF Section
  <2> QED
    BY <1>1, <2>1, SingleInactive
<1>2. CASE ~(r.state = "inactive" /\ sessions[s].state # "inactive")
  <2>1. /\ \A o \in Session \ {s} : sessions'[o] = sessions[o]
        /\ \A o \in Thread \ {t} : thread'[o] = thread[o]
        /\ sessions'[s] = r /\ thread'[t] = cont
        /\ waits' = waits \cup (IF r.state = "dying" /\ sessions[s].state # "dying"
                                THEN {Upload(s, r.death, r.known)} ELSE {})
    BY <1>0, <1>2, SectionEffect
  <2>2. waits' = waits \/ waits' = waits \cup {Upload(s, r.death, r.known)}
    BY <2>1
  <2>3. Upload(s, r.death, r.known).who = nil
    BY DEF Upload
  <2>4. KeptWaits(waits, waits')
    BY <2>2, <2>3, KeptFacts
  <2>5. \A o \in Session : sessions'[o].packages = sessions[o].packages
    BY <1>2, <2>1
  <2> QED
    BY <2>1, <2>4, <2>5, SingleStep, SyncAssumption
<1> QED
  BY <1>1, <1>2

\* A step that leaves the queues and the waits alone and one thread without handlers.
LEMMA SingleQuiet ==
    ASSUME Typed, Single, NEW t \in Thread, NEW q, thread' = [thread EXCEPT ![t] = q],
           q.held \subseteq thread[t].held, HoldsNothing(q), KeptWaits(waits, waits'),
           \A s \in Session : sessions'[s].packages = sessions[s].packages,
           UNCHANGED <<issued, answered>>
    PROVE  Single'
<1>1. thread'[t] = q /\ \A o \in Thread \ {t} : thread'[o] = thread[o]
  BY DEF Typed
<1> QED
  BY <1>1, SingleStep, SyncAssumption

\* Threads between two calls hold nothing.
LEMMA AtHolds ==
    /\ Idle.held = {} /\ HoldsNothing(Idle)
    /\ \A pc, s : At(pc, s).held = {} /\ HoldsNothing(At(pc, s))
BY PlacedAt DEF HoldsNothing

\* revive_if_needed, did_drop_external_reference, log_out, -suspend, -resume, the
\* announcement of a commit and the end of unregister_session: one critical section.
LEMMA ControlSingle ==
    ASSUME Typed, AllGood, Single, NEW t \in Thread,
           \/ ReviveIfNeeded(t) \/ SessionLogOut(t) \/ UnregisterSessionEnd(t)
           \/ t \in App /\ (\/ DidDropExternalReference(t) \/ Suspend(t) \/ Resume(t)
                            \/ Announce(t))
    PROVE  Single'
<1>0. Idle \in ThreadRec /\ Placed(Idle) /\ Idle.pc = "idle"
  BY PlacedAt
<1>1. UNCHANGED <<issued, answered>>
  BY DEF ReviveIfNeeded, SessionLogOut, UnregisterSessionEnd, DidDropExternalReference,
         Suspend, Resume, Announce, outside, data
<1>2. CASE ReviveIfNeeded(t)
  <2> DEFINE s == thread[t].s
             cont == At(thread[t].then, s)
  <2>1. /\ Section(t, s, Revive(sessions[s]), waits, cont)
        /\ s \in Session /\ thread[t] \in ThreadRec
    BY <1>2, ThreadFacts DEF ReviveIfNeeded
  <2>2. /\ Revive(sessions[s]) \in SessionRecN
        /\ Revive(sessions[s]).packages = sessions[s].packages
        /\ Revive(sessions[s]).state # "inactive"
    BY <2>1, RecordFacts, ReviveGood
  <2>3. cont \in ThreadRec /\ Placed(cont) /\ cont.held = {} /\ HoldsNothing(cont)
    BY <2>1, AtTyped, AtHolds DEF ThreadRec, StepName
  <2> HIDE DEF cont
  <2> QED
    BY <1>1, <2>1, <2>2, <2>3, SingleSection
<1>3. CASE SessionLogOut(t)
  <2> DEFINE s == thread[t].s
             cont == At("logout_end", s)
  <2>1. Section(t, s, LogOut(sessions[s]), waits, cont) /\ s \in Session
    BY <1>3, ThreadFacts DEF SessionLogOut
  <2>2. /\ LogOut(sessions[s]) \in SessionRecN /\ LogOut(sessions[s]).state = "inactive"
        /\ sessions[s].state = "inactive" => LogOut(sessions[s]) = sessions[s]
    BY <2>1, RecordFacts, LogOutGood
  <2>3. cont \in ThreadRec /\ Placed(cont) /\ cont.pc = "logout_end"
        /\ cont.held = {} /\ HoldsNothing(cont)
    BY <2>1, AtTyped, PlacedAt, AtHolds DEF StepName
  <2> HIDE DEF cont
  <2> QED
    BY <1>1, <2>1, <2>2, <2>3, SingleSection
<1>4. CASE UnregisterSessionEnd(t)
  <2> DEFINE x == thread[t].x
             cont == [thread[t] EXCEPT !.pc = "abort", !.x = nil]
  <2>1. PICK r \in SessionRecN :
          /\ r = Close(sessions[x]) \/ r = sessions[x]
          /\ Section(t, x, r, waits, cont)
    BY <1>4, UnregisterEndTyped
  <2>2. x \in Session /\ thread[t] \in ThreadRec /\ thread[t].s \in Session
        /\ thread[t].then # "ref"
    BY <1>4, SyncAssumption DEF UnregisterSessionEnd, Typed, Placed, ThreadRec
  <2>3. cont \in ThreadRec /\ Placed(cont) /\ cont.pc = "abort"
        /\ cont.held = thread[t].held /\ HoldsNothing(cont)
    BY <2>2, SyncAssumption DEF ThreadRec, Placed, HoldsNothing
  <2>4. r.packages # sessions[x].packages =>
           r.state = "inactive" /\ sessions[x].state # "inactive"
    <3>1. sessions[x].state = "inactive" => Close(sessions[x]) = sessions[x]
      BY DEF Close
    <3> QED
      BY <2>1, <2>2, <3>1, RecordFacts, CloseGood
  <2> HIDE DEF cont
  <2> QED
    BY <1>1, <2>1, <2>2, <2>3, <2>4, SingleSection
<1>5. CASE t \in App /\ DidDropExternalReference(t)
  <2> DEFINE s == thread[t].s
             r == IF Referenced(s) THEN sessions[s] ELSE Close(sessions[s])
  <2>1. /\ Section(t, s, r, waits, Idle) /\ s \in Session
    BY <1>5, ThreadFacts DEF DidDropExternalReference
  <2>2. sessions[s].state = "inactive" => Close(sessions[s]) = sessions[s]
    BY DEF Close
  <2>3. /\ r \in SessionRecN
        /\ r.packages # sessions[s].packages =>
              r.state = "inactive" /\ sessions[s].state # "inactive"
    BY <2>1, <2>2, RecordFacts, CloseGood
  <2> HIDE DEF r
  <2> QED
    BY <1>0, <1>1, <2>1, <2>3, SingleSection, AtHolds
<1>6. CASE t \in App /\ (Suspend(t) \/ Resume(t))
  <2> DEFINE s == refs[t]
  <2>1. /\ s \in Session
        /\ \E r \in {LogOut(sessions[s]), Revive(sessions[s])} : Section(t, s, r, waits, Idle)
    BY <1>6 DEF Suspend, Resume, Typed
  <2>2. ASSUME NEW r \in {LogOut(sessions[s]), Revive(sessions[s])}
        PROVE  /\ r \in SessionRecN
               /\ r.packages # sessions[s].packages =>
                     r.state = "inactive" /\ sessions[s].state # "inactive"
    BY <2>1, RecordFacts, LogOutGood, ReviveGood
  <2> QED
    BY <1>0, <1>1, <2>1, <2>2, SingleSection, AtHolds
<1>7. CASE t \in App /\ Announce(t)
  <2> DEFINE s == thread[t].s
  <2>1. s \in Session /\ \E v \in Nat : Section(t, s, Notified(sessions[s], v), waits, Idle)
    BY <1>7, AnnounceFacts
  <2>2. PICK v \in Nat : Section(t, s, Notified(sessions[s], v), waits, Idle)
    BY <2>1
  <2>3. /\ Notified(sessions[s], v) \in SessionRecN
        /\ Notified(sessions[s], v).packages = sessions[s].packages
    BY <2>1, RecordFacts, NotifiedRecord
  <2> QED
    BY <1>0, <1>1, <2>1, <2>2, <2>3, SingleSection, AtHolds
<1> QED
  BY <1>2, <1>3, <1>4, <1>5, <1>6, <1>7



\* refresh_access_token hands the queue to the new sync::Session.
LEMMA RefreshSingle ==
    ASSUME Typed, AllGood, Single, NEW t \in App, RefreshAccessToken(t)
    PROVE  Single'
<1>1. PICK s \in Session :
        /\ thread[t].pc = "idle" /\ sessions[s].state = "waiting"
        /\ Section(t, s, Refreshed(sessions[s]),
                   waits \cup {Handler(s, w) : w \in sessions[s].packages}, Idle)
  BY DEF RefreshAccessToken, IsIdle
<1> DEFINE H == {Handler(s, w) : w \in sessions[s].packages}
           r == Refreshed(sessions[s])
<1>2. UNCHANGED <<issued, answered>> /\ t \in Thread /\ nil \notin Waiter
  BY SyncAssumption DEF RefreshAccessToken, Thread, outside, data
<1>3. r \in SessionRecN /\ r.state \in {"active", "dying"} /\ r.packages = {}
  BY <1>1, RecordFacts, RefreshedGood
<1>4. \A w \in sessions[s].packages : w \in Waiter
  BY RecordFacts DEF SessionRecN
<1>5. /\ \A c \in H : c.who \in sessions[s].packages /\ c = Handler(s, c.who)
      /\ H \in SUBSET WaitRec
  BY <1>4, HandlerTyped
<1>6. waits \cup H \in SUBSET WaitRec
  BY <1>5 DEF Typed
<1> HIDE DEF r, H
<1>7. Idle \in ThreadRec /\ Placed(Idle) /\ Idle.pc = "idle" /\ Idle.held = {}
  BY PlacedAt
<1>8. Section(t, s, r, waits \cup H, Idle)
  BY <1>1 DEF r, H
<1>9. /\ \A o \in Session \ {s} : sessions'[o] = sessions[o]
      /\ \A o \in Thread \ {t} : thread'[o] = thread[o]
      /\ sessions'[s] = r /\ thread'[t] = Idle
      /\ waits' = (waits \cup H) \cup (IF r.state = "dying" /\ sessions[s].state # "dying"
                                       THEN {Upload(s, r.death, r.known)} ELSE {})
  BY <1>2, <1>3, <1>6, <1>7, <1>8, SectionEffect
<1>10. \A c \in waits' : c.who # nil => c \in waits \/ c \in H
  BY <1>9 DEF Upload
<1>11. /\ \A o \in Session : \A w \in sessions'[o].packages : w \in sessions[o].packages /\ o # s
       /\ \A o \in Thread : \A w \in thread'[o].held : w \in thread[o].held
  BY <1>3, <1>7, <1>9
<1>12. ASSUME NEW w \in Waiter, Nowhere(w)
       PROVE  Nowhere(w)'
  <2>1. w \notin sessions[s].packages /\ \A c \in H : c.who # w
    BY <1>5, <1>12 DEF Nowhere, Queued
  <2>2. \A c \in waits' : c.who # w
    BY <1>2, <1>10, <1>12, <2>1 DEF Nowhere, Pending
  <2> QED
    BY <1>11, <1>12, <2>2 DEF Nowhere, Queued, Taken, Pending
<1>13. ASSUME NEW w \in Waiter
       PROVE  OnePlace(w)'
  <2>0. OnePlace(w) /\ w # nil
    BY <1>2 DEF Single
  <2>1. CASE w \in sessions[s].packages
    <3>1. /\ \A o \in Session : w \notin sessions'[o].packages
          /\ \A o \in Thread : w \notin thread'[o].held
      BY <1>11, <2>0, <2>1 DEF OnePlace, Queued, Taken
    <3>2. \A c \in waits' : c.who = w => c = Handler(s, w)
      BY <1>5, <1>10, <2>0, <2>1 DEF OnePlace, Queued, Pending
    <3> QED
      BY <3>1, <3>2 DEF OnePlace, Queued, Taken, Pending
  <2>2. CASE w \notin sessions[s].packages
    <3>1. \A c \in waits' : c.who = w => c \in waits
      BY <1>5, <1>10, <2>0, <2>2
    <3> QED
      BY <1>11, <2>0, <3>1 DEF OnePlace, Queued, Taken, Pending
  <2> QED
    BY <2>1, <2>2
<1>14. \A o \in Thread : HoldsNothing(thread'[o])
  BY <1>9, AtHolds DEF Single, HoldsNothing
<1> QED
  BY <1>2, <1>12, <1>13, <1>14 DEF Single, HoldsNothing

\* wait_for_upload_completion and wait_for_download_completion: a new handler.
LEMMA WaitSingle ==
    ASSUME Typed, AllGood, Single, NEW t \in App, NEW w \in Waiter, WaitForCompletion(t, w)
    PROVE  Single'
<1> DEFINE s == refs[t]
           r == sessions[s]
           P == r.packages \cup {w}
           q == [r EXCEPT !.packages = P]
<1>1. /\ issued' = issued \cup {w} /\ w \notin issued /\ s \in Session /\ t \in Thread
      /\ UNCHANGED answered /\ nil \notin Waiter
      /\ IF r.state \in {"active", "dying"}
         THEN Section(t, s, r, waits \cup {Handler(s, w)}, Idle)
         ELSE Section(t, s, q, waits, Idle)
  BY SyncAssumption DEF WaitForCompletion, Typed, Thread
<1>2. /\ r \in SessionRecN /\ owed[s] \in Nat /\ version \in Nat
      /\ Good(r, owed[s], version, stop_policy)
  BY <1>1, RecordFacts
<1> HIDE DEF r
<1>2a. P \in SUBSET Waiter
  BY <1>2 DEF SessionRecN
<1> HIDE DEF P
<1>3. q \in SessionRecN /\ q.state = r.state /\ q.packages = P
  BY <1>2, <1>2a, QueuedGood
<1> HIDE DEF q
<1>4. Idle \in ThreadRec /\ Placed(Idle) /\ Idle.pc = "idle" /\ Idle.held = {}
  BY PlacedAt
<1>5. /\ waits \cup {Handler(s, w)} \in SUBSET WaitRec /\ waits \in SUBSET WaitRec
      /\ Handler(s, w).who = w
  BY <1>1, HandlerTyped DEF Typed
<1>6. /\ \A o \in Session \ {s} : sessions'[o] = sessions[o]
      /\ \A o \in Thread \ {t} : thread'[o] = thread[o]
      /\ thread'[t] = Idle
      /\ \/ sessions'[s] = r /\ waits' = waits \cup {Handler(s, w)}
         \/ sessions'[s] = q /\ waits' = waits
  <2>1. CASE r.state \in {"active", "dying"}
    <3>1. Section(t, s, r, waits \cup {Handler(s, w)}, Idle)
      BY <1>1, <2>1
    <3>2. /\ \A o \in Session \ {s} : sessions'[o] = sessions[o]
          /\ \A o \in Thread \ {t} : thread'[o] = thread[o]
          /\ thread'[t] = Idle /\ sessions'[s] = r
          /\ waits' = (waits \cup {Handler(s, w)}) \cup
                (IF r.state = "dying" /\ sessions[s].state # "dying"
                 THEN {Upload(s, r.death, r.known)} ELSE {})
      <4> DEFINE W == waits \cup {Handler(s, w)}
      <4>1. /\ ~(r.state = "inactive" /\ sessions[s].state # "inactive")
            /\ Section(t, s, r, W, Idle) /\ W \in SUBSET WaitRec
        BY <1>5, <2>1, <3>1
      <4> HIDE DEF W, s
      <4>2. /\ \A o \in Session \ {s} : sessions'[o] = sessions[o]
            /\ \A o \in Thread \ {t} : thread'[o] = thread[o]
            /\ thread'[t] = Idle /\ sessions'[s] = r
            /\ waits' = W \cup (IF r.state = "dying" /\ sessions[s].state # "dying"
                                THEN {Upload(s, r.death, r.known)} ELSE {})
        BY <1>1, <1>2, <1>4, <4>1, SectionEffect
      <4> QED
        BY <4>2 DEF W
    <3> QED
      BY <3>2 DEF r
  <2>2. CASE r.state \notin {"active", "dying"}
    <3>1. Section(t, s, q, waits, Idle)
      BY <1>1, <2>2
    <3>2. /\ \A o \in Session \ {s} : sessions'[o] = sessions[o]
          /\ \A o \in Thread \ {t} : thread'[o] = thread[o]
          /\ thread'[t] = Idle /\ sessions'[s] = q
          /\ waits' = waits \cup (IF q.state = "dying" /\ sessions[s].state # "dying"
                                  THEN {Upload(s, q.death, q.known)} ELSE {})
      <4>1. ~(q.state = "inactive" /\ sessions[s].state # "inactive")
        BY <1>3 DEF r
      <4>2. /\ s \in Session /\ t \in Thread /\ waits \in SUBSET WaitRec
            /\ q \in SessionRecN /\ Idle \in ThreadRec /\ Placed(Idle)
        BY <1>1, <1>3, <1>4, <1>5
      <4> HIDE DEF s
      <4>3. /\ sessions' = [sessions EXCEPT ![s] = q]
            /\ thread' = [thread EXCEPT ![t] = Idle]
            /\ waits' = waits \cup (IF q.state = "dying" /\ sessions[s].state # "dying"
                                    THEN {Upload(s, q.death, q.known)} ELSE {})
        BY <3>1, <4>1 DEF Section
      <4> QED
        BY <4>2, <4>3 DEF Typed
    <3> QED
      BY <1>3, <2>2, <3>2 DEF r
  <2> QED
    BY <2>1, <2>2
<1>7. /\ \A o \in Session : \A v \in sessions'[o].packages :
            v \in sessions[o].packages \/ (v = w /\ o = s /\ waits' = waits)
      /\ \A o \in Thread : \A v \in thread'[o].held : v \in thread[o].held
      /\ \A c \in waits' : c \in waits \/
            (c = Handler(s, w) /\ \A o \in Session : sessions'[o] = sessions[o])
  <2>1. \A o \in Thread : \A v \in thread'[o].held : v \in thread[o].held
    BY <1>4, <1>6
  <2>2. CASE sessions'[s] = r /\ waits' = waits \cup {Handler(s, w)}
    <3>1. \A o \in Session : sessions'[o] = sessions[o]
      BY <1>6, <2>2 DEF r
    <3> QED
      BY <2>1, <2>2, <3>1
  <2>3. CASE sessions'[s] = q /\ waits' = waits
    <3>1. \A o \in Session : \A v \in sessions'[o].packages :
             v \in sessions[o].packages \/ (v = w /\ o = s)
      BY <1>3, <1>6, <2>3 DEF r, P
    <3> QED
      BY <2>1, <2>3, <3>1
  <2> QED
    BY <1>6, <2>2, <2>3
<1> HIDE DEF s
<1>8. Nowhere(w) /\ answered[w] = 0
  BY <1>1 DEF Single
<1>9. ASSUME NEW v \in Waiter, v # w
      PROVE  OnePlace(v)' /\ (Nowhere(v) => Nowhere(v)')
  <2>0. OnePlace(v)
    BY DEF Single
  <2>1. /\ \A o \in Session : v \in sessions'[o].packages => v \in sessions[o].packages
        /\ \A o \in Thread : v \in thread'[o].held => v \in thread[o].held
        /\ \A c \in waits' : c.who = v => c \in waits
    BY <1>5, <1>7, <1>9
  <2> QED
    BY <2>0, <2>1 DEF OnePlace, Nowhere, Queued, Taken, Pending
<1>10. OnePlace(w)'
  <2>1. \A o \in Thread : w \notin thread'[o].held
    BY <1>7, <1>8 DEF Nowhere, Taken
  <2>2. \A o \in Session : w \in sessions'[o].packages => o = s /\ waits' = waits
    BY <1>7, <1>8 DEF Nowhere, Queued
  <2>3. \A c \in waits' : c.who = w => c = Handler(s, w) /\ c \notin waits
    BY <1>7, <1>8 DEF Nowhere, Pending
  <2> QED
    BY <2>1, <2>2, <2>3 DEF OnePlace, Queued, Taken, Pending
<1>11. \A o \in Thread : HoldsNothing(thread'[o])
  BY <1>6, AtHolds DEF Single, HoldsNothing
<1>12. \A v \in Waiter : OnePlace(v)' /\ answered'[v] \in {0, 1}
  BY <1>1, <1>9, <1>10 DEF Single
<1>13. \A v \in Waiter : v \notin issued' => Nowhere(v)' /\ answered'[v] = 0
  BY <1>1, <1>9 DEF Single
<1>14. \A v \in Waiter : answered'[v] = 1 => Nowhere(v)'
  BY <1>1, <1>8, <1>9 DEF Single
<1> QED
  BY <1>11, <1>12, <1>13, <1>14 DEF Single, HoldsNothing

\* Handlers that are called, by the sync client or by a thread that aborts.
LEMMA CalledSingle ==
    ASSUME Typed, Single,
           \/ \E c \in waits : HandlerCalled(c)
           \/ \E t \in Thread : AbortPackages(t)
    PROVE  Single'
<1>1. ASSUME NEW C \in SUBSET Waiter,
             \A w \in Waiter : answered'[w] = answered[w] + IF w \in C THEN 1 ELSE 0,
             issued' = issued,
             \A w \in C : ~Nowhere(w) /\ Nowhere(w)',
             \A s \in Session : sessions'[s].packages \subseteq sessions[s].packages,
             \A t \in Thread : thread'[t].held \subseteq thread[t].held,
             \A t \in Thread : HoldsNothing(thread'[t]),
             waits' \subseteq waits
      PROVE  Single'
  <2>1. ASSUME NEW w \in Waiter
        PROVE  OnePlace(w)' /\ (Nowhere(w) => Nowhere(w)')
    <3>1. OnePlace(w)
      BY DEF Single
    <3> QED
      BY <1>1, <3>1 DEF OnePlace, Nowhere, Queued, Taken, Pending
  <2>2. \A w \in Waiter : answered[w] \in {0, 1} /\ (w \in C => answered[w] = 0)
    BY <1>1 DEF Single
  <2>3. \A w \in Waiter : answered'[w] = answered[w] + IF w \in C THEN 1 ELSE 0
    BY <1>1
  <2>4. \A w \in Waiter : answered'[w] \in {0, 1}
    BY <2>2, <2>3
  <2>5. \A w \in Waiter : w \notin issued' => Nowhere(w)' /\ answered'[w] = 0
    BY <1>1, <2>1, <2>3 DEF Single
  <2>6. \A w \in Waiter : answered'[w] = 1 => Nowhere(w)'
    <3> SUFFICES ASSUME NEW w \in Waiter, answered'[w] = 1
                 PROVE  Nowhere(w)'
      OBVIOUS
    <3>1. CASE w \in C
      BY <1>1, <3>1
    <3>2. CASE w \notin C
      <4>1. answered[w] = 1
        BY <2>2, <2>3, <3>2
      <4> QED
        BY <2>1, <4>1 DEF Single
    <3> QED
      BY <3>1, <3>2
  <2> QED
    BY <1>1, <2>1, <2>4, <2>5, <2>6 DEF Single, HoldsNothing
<1>2. ASSUME NEW c \in waits, HandlerCalled(c)
      PROVE  Single'
  <2>1. /\ waits' = waits \ {c} /\ answered' = [answered EXCEPT ![c.who] = @ + 1]
        /\ c.who # nil /\ UNCHANGED <<sessions, thread, issued>>
    BY <1>2 DEF HandlerCalled
  <2>2. c.who \in Waiter /\ answered \in [Waiter -> Nat]
    BY <2>1 DEF Typed, WaitRec
  <2>3. \A w \in Waiter : answered'[w] = answered[w] + IF w \in {c.who} THEN 1 ELSE 0
    BY <2>1, <2>2
  <2>4. OnePlace(c.who)
    BY <2>2 DEF Single
  <2>5. ~Nowhere(c.who)
    BY DEF Nowhere, Pending
  <2>6. Nowhere(c.who)'
    <3>1. /\ \A s \in Session : c.who \notin sessions[s].packages
          /\ \A t \in Thread : c.who \notin thread[t].held
          /\ \A d \in waits : d.who = c.who => d = c
      BY <2>4 DEF OnePlace, Queued, Taken, Pending
    <3> QED
      BY <2>1, <3>1 DEF Nowhere, Queued, Taken, Pending
  <2>7. \A t \in Thread : HoldsNothing(thread'[t])
    BY <2>1 DEF Single, HoldsNothing
  <2> QED
    BY <1>1, <2>1, <2>2, <2>3, <2>5, <2>6, <2>7
<1>3. ASSUME NEW t \in Thread, AbortPackages(t)
      PROVE  Single'
  <2>1. /\ thread' = [thread EXCEPT ![t] = At(thread[t].then, thread[t].s)]
        /\ \A w \in Waiter : answered'[w] = answered[w] + IF w \in thread[t].held THEN 1 ELSE 0
        /\ UNCHANGED <<sessions, waits, issued>>
    BY <1>3 DEF AbortPackages
  <2>2. /\ thread[t].held \in SUBSET Waiter
        /\ thread'[t].held = {} /\ HoldsNothing(thread'[t])
        /\ \A o \in Thread \ {t} : thread'[o] = thread[o]
    BY <2>1, AtHolds DEF Typed, ThreadRec
  <2>3. \A o \in Thread : HoldsNothing(thread'[o]) /\ thread'[o].held \subseteq thread[o].held
    BY <2>2 DEF Single, HoldsNothing
  <2>4. ASSUME NEW w \in thread[t].held
        PROVE  ~Nowhere(w) /\ Nowhere(w)'
    <3>1. OnePlace(w)
      BY <2>2 DEF Single
    <3>2. /\ \A s \in Session : w \notin sessions[s].packages
          /\ \A o \in Thread : w \in thread[o].held => o = t
          /\ \A d \in waits : d.who # w
      BY <3>1 DEF OnePlace, Queued, Taken, Pending
    <3>3. \A o \in Thread : w \notin thread'[o].held
      BY <2>2, <3>2
    <3> QED
      BY <2>1, <3>2, <3>3 DEF Nowhere, Queued, Taken, Pending
  <2> QED
    BY <1>1, <2>1, <2>2, <2>3, <2>4
<1> QED
  BY <1>2, <1>3


\* The steps of get_session, of the references, of the user and of unregister_session,
\* and a commit, move no handler.
LEMMA QuietSingle ==
    ASSUME Typed, Single, NEW t \in Thread,
           \/ t \in App /\ (\/ GetSession(t) \/ RegisterSession(t) \/ ExternalReference(t)
                            \/ DropReference(t) \/ UserLogOut(t) \/ UserLogOutEnd(t)
                            \/ UpdateRefreshToken(t) \/ Commit(t))
           \/ UnregisterSession(t)
    PROVE  Single'
<1>1. UNCHANGED <<issued, answered, waits>>
  BY DEF GetSession, RegisterSession, ExternalReference, DropReference, UserLogOut,
         UserLogOutEnd, UpdateRefreshToken, UnregisterSession, Commit, data
<1>2. \A s \in Session : sessions'[s].packages = sessions[s].packages
  <2>1. sessions' = sessions \/ \E s \in Session : sessions' = [sessions EXCEPT ![s].alive = TRUE]
    BY DEF GetSession, RegisterSession, ExternalReference, DropReference, UserLogOut,
           UserLogOutEnd, UpdateRefreshToken, UnregisterSession, Commit
  <2>2. ASSUME NEW s \in Session, sessions' = [sessions EXCEPT ![s].alive = TRUE],
               NEW o \in Session
        PROVE  sessions'[o].packages = sessions[o].packages
    <3>1. sessions[s] \in SessionRecN
      BY DEF Typed
    <3>2. [sessions[s] EXCEPT !.alive = TRUE].packages = sessions[s].packages
      BY <3>1 DEF SessionRecN
    <3>3. sessions'[o] = IF o = s THEN [sessions[s] EXCEPT !.alive = TRUE] ELSE sessions[o]
      BY <2>2 DEF Typed
    <3> QED
      BY <3>2, <3>3
  <2> QED
    BY <2>1, <2>2
<1>3. KeptWaits(waits, waits')
  BY <1>1, KeptFacts
<1>4. \/ thread' = thread
      \/ \E q : /\ thread' = [thread EXCEPT ![t] = q] /\ HoldsNothing(q)
                /\ q.held \subseteq thread[t].held
  <2>1. CASE t \in App /\ (GetSession(t) \/ ExternalReference(t) \/ DropReference(t))
    BY <2>1, AtHolds DEF GetSession, ExternalReference, DropReference
  <2>2. CASE t \in App /\ (UserLogOut(t) \/ UserLogOutEnd(t) \/ UpdateRefreshToken(t))
    BY <2>2, AtHolds DEF UserLogOut, UserLogOutEnd, UpdateRefreshToken
  <2>3. CASE t \in App /\ RegisterSession(t)
    <3> DEFINE s == thread[t].s
               q == IF user.state = "Active" THEN [At("revive", s) EXCEPT !.then = "ref"]
                    ELSE At("ref", s)
    <3>1. thread' = [thread EXCEPT ![t] = q]
      BY <2>3 DEF RegisterSession
    <3>2. q.held = {}
      BY DEF At, Idle
    <3> HIDE DEF q
    <3> QED
      BY <3>1, <3>2 DEF HoldsNothing
  <2>4. CASE UnregisterSession(t)
    <3>1. thread[t] \in ThreadRec
      BY DEF Typed
    <3>2. CASE thread' = [thread EXCEPT ![t].pc = "unregister_end", ![t].x = m_sessions]
      <4> DEFINE q == [thread[t] EXCEPT !.pc = "unregister_end", !.x = m_sessions]
      <4>1. thread' = [thread EXCEPT ![t] = q]
        BY <3>2 DEF Typed
      <4>2. q.pc = "unregister_end" /\ q.held = thread[t].held
        BY <3>1 DEF ThreadRec
      <4> HIDE DEF q
      <4> QED
        BY <4>1, <4>2 DEF HoldsNothing
    <3>3. CASE thread' = [thread EXCEPT ![t].pc = "abort"]
      <4> DEFINE q == [thread[t] EXCEPT !.pc = "abort"]
      <4>1. thread' = [thread EXCEPT ![t] = q]
        BY <3>3 DEF Typed
      <4>2. q.pc = "abort" /\ q.held = thread[t].held
        BY <3>1 DEF ThreadRec
      <4> HIDE DEF q
      <4> QED
        BY <4>1, <4>2 DEF HoldsNothing
    <3> QED
      BY <2>4, <3>2, <3>3 DEF UnregisterSession
  <2>5. CASE t \in App /\ Commit(t)
    <3> DEFINE q == [At("announce", refs[t]) EXCEPT !.v = version + 1]
    <3>1. thread' = [thread EXCEPT ![t] = q] /\ q.held = {}
      BY <2>5, CommitThread
    <3> HIDE DEF q
    <3> QED
      BY <3>1 DEF HoldsNothing
  <2> QED
    BY <2>1, <2>2, <2>3, <2>4, <2>5
<1>5. CASE thread' = thread
  <2>1. HoldsNothing(thread[t])
    BY DEF Single, HoldsNothing
  <2> QED
    BY <1>1, <1>2, <1>3, <1>5, <2>1, SingleStep, SyncAssumption
<1> QED
  BY <1>1, <1>2, <1>3, <1>4, <1>5, SingleQuiet

\* The event loop, except for the calls of handlers, and the destructor.
LEMMA LoopSingle ==
    ASSUME Typed, AllGood, Single, LoopNext \/ \E s \in Session : Destroy(s)
    PROVE  Single'
<1>1. /\ loop \in Thread /\ nil \notin Waiter /\ HoldsNothing(thread[loop])
      /\ Idle \in ThreadRec /\ Placed(Idle) /\ Idle.pc = "idle" /\ Idle.held = {}
      /\ HoldsNothing(Idle)
  BY PlacedAt, AtHolds, SyncAssumption DEF Thread, Single, HoldsNothing
<1>2. CASE UploadVersion
  BY <1>1, <1>2, KeptFacts, SingleStep DEF UploadVersion
<1>3. ASSUME NEW c \in waits, UploadCompleted(c)
      PROVE  Single'
  <2>1. UNCHANGED <<issued, answered>> /\ waits \ {c} \in SUBSET waits /\ c.s \in Session
    BY <1>3 DEF UploadCompleted, outside, data, Typed, WaitRec
  <2>2. CASE EnterInactive(loop, c.s, waits \ {c}, Idle)
    BY <1>1, <2>1, <2>2, SingleInactive
  <2>3. CASE waits' = waits \ {c} /\ UNCHANGED <<sessions, thread>>
    BY <1>1, <2>1, <2>3, KeptFacts, SingleStep
  <2> QED
    BY <1>3, <2>2, <2>3 DEF UploadCompleted
<1>4. ASSUME NEW s \in Session, NEW kind \in ErrorKinds, HandleError(s, kind)
      PROVE  Single'
  <2>1. UNCHANGED <<issued, answered>>
    BY <1>4 DEF HandleError, data
  <2>2. CASE EnterInactive(loop, s, waits, Idle)
    BY <1>1, <2>1, <2>2, SingleInactive
  <2>3. CASE thread' = [thread EXCEPT ![loop] = At(kind, s)] /\ UNCHANGED <<sessions, waits>>
    BY <1>1, <2>1, <2>3, AtHolds, KeptFacts, SingleQuiet
  <2> QED
    BY <1>4, <2>2, <2>3 DEF HandleError
<1>5. CASE AccessTokenExpired
  <2> DEFINE s == thread[loop].s
             r == IF sessions[s].state = "active" THEN ToWaiting(sessions[s])
                  ELSE sessions[s]
  <2>1. /\ Section(loop, s, r, waits, Idle) /\ s \in Session /\ UNCHANGED <<issued, answered>>
    BY <1>1, <1>5, ThreadFacts DEF AccessTokenExpired, outside, data
  <2>2. r \in SessionRecN /\ r.packages = sessions[s].packages
    BY <2>1, RecordFacts, WaitingGood
  <2> HIDE DEF r
  <2> QED
    BY <1>1, <2>1, <2>2, SingleSection
<1>6. CASE CancelPendingWaits
  <2> DEFINE s == thread[loop].s
             next == IF thread[loop].pc = "auth" THEN "invalidate" ELSE "idle"
             q == [At("abort", s) EXCEPT !.then = next, !.held = sessions[s].packages]
  <2>1. /\ thread' = [thread EXCEPT ![loop] = q] /\ s \in Session
        /\ sessions' = [sessions EXCEPT ![s].packages = {}]
        /\ UNCHANGED <<waits, issued, answered>>
    BY <1>1, <1>6, ThreadFacts DEF CancelPendingWaits, outside, data
  <2>2. q.pc = "abort" /\ q.held = sessions[s].packages
    BY DEF At, Idle
  <2> HIDE DEF q
  <2>3. sessions'[s].packages = {} /\ \A o \in Session \ {s} : sessions'[o] = sessions[o]
    <3>1. sessions[s] \in SessionRecN
      BY <2>1 DEF Typed
    <3>2. /\ sessions'[s] = [sessions[s] EXCEPT !.packages = {}]
          /\ \A o \in Session \ {s} : sessions'[o] = sessions[o]
      BY <2>1 DEF Typed
    <3> QED
      BY <3>1, <3>2 DEF SessionRecN
  <2>4. thread'[loop] = q /\ \A o \in Thread \ {loop} : thread'[o] = thread[o]
    BY <1>1, <2>1 DEF Typed
  <2>5. /\ \A o \in Session : sessions'[o].packages \subseteq sessions[o].packages
        /\ \A w \in thread'[loop].held :
              w \in sessions[s].packages /\ w \notin sessions'[s].packages
        /\ HoldsNothing(thread'[loop])
    BY <2>2, <2>3, <2>4 DEF HoldsNothing
  <2> QED
    BY <1>1, <2>1, <2>4, <2>5, KeptFacts, SingleStep
<1>7. CASE Invalidate
  <2>1. /\ thread' = [thread EXCEPT ![loop] = Idle]
        /\ UNCHANGED <<sessions, waits, issued, answered>>
    BY <1>7 DEF Invalidate, data
  <2> QED
    BY <1>1, <2>1, KeptFacts, SingleQuiet
<1>8. CASE ResetSession
  <2>1. /\ EnterInactive(loop, thread[loop].s, waits, Idle) /\ thread[loop].s \in Session
        /\ UNCHANGED <<issued, answered>>
    BY <1>1, <1>8, ThreadFacts DEF ResetSession, outside, data
  <2> QED
    BY <1>1, <2>1, SingleInactive
<1>9. ASSUME NEW s \in Session, Destroy(s)
      PROVE  Single'
  <2>1. /\ sessions' = [sessions EXCEPT ![s] = NoSession] /\ waits' = Terminated(waits, s)
        /\ UNCHANGED <<thread, issued, answered>>
    BY <1>9 DEF Destroy
  <2>2. \A o \in Session : sessions'[o].packages \subseteq sessions[o].packages
    BY <2>1 DEF Typed, NoSession
  <2>3. KeptWaits(waits, waits')
    BY <2>1, KeptFacts DEF Typed
  <2> QED
    BY <1>1, <2>1, <2>2, <2>3, SingleStep
<1>10. ASSUME NEW c \in waits, HandlerCalled(c)
       PROVE  Single'
  BY <1>10, CalledSingle
<1> QED
  BY <1>2, <1>3, <1>4, <1>5, <1>6, <1>7, <1>8, <1>9, <1>10 DEF LoopNext

\* Every step keeps Single.
LEMMA SingleNext ==
    ASSUME Typed, AllGood, Single, [Next]_vars
    PROVE  Single'
<1>1. CASE UNCHANGED vars
  BY <1>1 DEF vars, outside, data, Single, OnePlace, Nowhere, Queued, Taken, Pending
<1>2. ASSUME NEW t \in App, AppNext(t)
      PROVE  Single'
  <2>1. t \in Thread
    BY DEF Thread
  <2> QED
    BY <1>2, <2>1, QuietSingle, ControlSingle, RefreshSingle, WaitSingle DEF AppNext
<1>3. ASSUME NEW t \in Thread,
             \/ ReviveIfNeeded(t) \/ UnregisterSession(t)
             \/ UnregisterSessionEnd(t) \/ AbortPackages(t)
      PROVE  Single'
  BY <1>3, QuietSingle, ControlSingle, CalledSingle
<1> QED
  BY <1>1, <1>2, <1>3, LoopSingle DEF Next

\* A set without two different elements has none or one.
LEMMA AtMostOne ==
    ASSUME NEW S, \A x, y \in S : x = y
    PROVE  /\ S = {} => Cardinality(S) = 0
           /\ S # {} => Cardinality(S) = 1
<1>1. Cardinality({}) = 0
  BY FS_EmptySet
<1>2. CASE S # {}
  <2>1. PICK x \in S : TRUE
    BY <1>2
  <2>2. S = {x}
    BY <2>1
  <2>3. Cardinality({x}) = 1
    BY FS_Singleton
  <2> QED
    BY <1>2, <2>2, <2>3
<1> QED
  BY <1>1, <1>2

\* A completion handler is called at most once, for any number of handlers, threads and
\* sessions (CalledOnce).
THEOREM SyncCalledOnce == Spec => []CalledOnce
<1>1. Init => Single
  BY AtHolds DEF Init, Single, OnePlace, Nowhere, Queued, Taken, Pending, NoSession
<1>2. Typed /\ AllGood /\ Single /\ [Next]_vars => Single'
  BY SingleNext
<1>3. Spec => []Single
  BY <1>1, <1>2, SyncRecords, PTL DEF Spec
<1>4. ASSUME Single, NEW w \in Waiter
      PROVE  Places(w) <= 1
  <2> DEFINE Q == {s \in Session : w \in sessions[s].packages}
             H == {t \in Thread : w \in thread[t].held}
             C == {c \in waits : c.who = w}
  <2>1. OnePlace(w) /\ answered[w] \in {0, 1} /\ (answered[w] = 1 => Nowhere(w))
    BY <1>4 DEF Single
  <2>2. /\ \A x, y \in Q : x = y
        /\ \A x, y \in H : x = y
        /\ \A x, y \in C : x = y
        /\ Q = {} \/ H = {}
        /\ Q = {} \/ C = {}
        /\ H = {} \/ C = {}
    BY <2>1 DEF OnePlace, Queued, Taken, Pending
  <2>3. answered[w] = 1 => Q = {} /\ H = {} /\ C = {}
    BY <2>1 DEF Nowhere, Queued, Taken, Pending
  <2>4. Places(w) = answered[w] + Cardinality(Q) + Cardinality(H) + Cardinality(C)
    BY DEF Places
  <2> HIDE DEF Q, H, C
  <2>5. /\ (Q = {} /\ Cardinality(Q) = 0) \/ (Q # {} /\ Cardinality(Q) = 1)
        /\ (H = {} /\ Cardinality(H) = 0) \/ (H # {} /\ Cardinality(H) = 1)
        /\ (C = {} /\ Cardinality(C) = 0) \/ (C # {} /\ Cardinality(C) = 1)
    BY <2>2, AtMostOne
  <2> QED
    BY <2>1, <2>2, <2>3, <2>4, <2>5
<1>5. Single => CalledOnce
  BY <1>4 DEF CalledOnce
<1> QED
  BY <1>3, <1>5, PTL


----------------------------------------------------------------------------
(* Deaths: the wait of the last one asks for everything that is owed.       *)

\* Who owns a session after a step that gives the thread t, and whoever is given a
\* reference, sessions that had an owner.
LEMMA OwnedStep ==
    ASSUME NEW t \in Thread, m_sessions' \in {m_sessions, nil}, nil \notin Session,
           \A o \in Thread \ {t} : thread'[o] = thread[o],
           \A o \in App : refs'[o] \in Session => refs'[o] = refs[o] \/ Owned(refs'[o]),
           thread'[t].s \in Session => Owned(thread'[t].s),
           thread'[t].x \in Session => Owned(thread'[t].x),
           NEW p \in Session, Owned(p)'
    PROVE  Owned(p)
<1>1. \/ m_sessions' = p
      \/ \E o \in App : refs'[o] = p
      \/ \E o \in Thread : thread'[o].x = p
      \/ \E o \in Thread : thread'[o].s = p
  BY DEF Owned, Referenced
<1>2. CASE m_sessions' = p
  BY <1>2 DEF Owned
<1>3. CASE \E o \in App : refs'[o] = p
  BY <1>3 DEF Owned, Referenced
<1>4. CASE \E o \in Thread : thread'[o].x = p
  BY <1>4 DEF Owned, Referenced
<1>5. CASE \E o \in Thread : thread'[o].s = p
  BY <1>5 DEF Owned
<1> QED
  BY <1>1, <1>2, <1>3, <1>4, <1>5

\* A step that changes neither a session's state nor what is owed, and gives nobody a
\* session that had no owner.
LEMMA LiveQuiet ==
    ASSUME Typed, Lives, Current,
           \A p \in Session : Owned(p)' => Owned(p),
           \A p \in Session : /\ sessions'[p].alive = sessions[p].alive
                              /\ sessions'[p].state = sessions[p].state
                              /\ sessions'[p].death = sessions[p].death,
           waits' \subseteq waits, UNCHANGED owed
    PROVE  Lives' /\ Current'
<1>1. Lives'
  BY DEF Lives
<1>2. Current'
  <2>1. \A c \in waits' : c \in waits /\ c.s \in Session
    BY DEF Typed, WaitRec
  <2> QED
    BY <2>1 DEF Current
<1> QED
  BY <1>1, <1>2

\* Entering INACTIVE.
LEMMA LiveInactive ==
    ASSUME Typed, AllGood, Lives, Current, NEW t \in Thread, NEW s \in Session, Owned(s),
           NEW W \in SUBSET WaitRec, \A c \in W : c.who = nil => c \in waits,
           NEW cont \in ThreadRec, cont.pc \in {"idle", "logout_end", "abort"},
           EnterInactive(t, s, W, cont), UNCHANGED <<m_sessions, refs>>,
           \A o \in Session \ {s} : owed'[o] = owed[o]
    PROVE  Lives' /\ Current'
<1>1. /\ sessions'[s] = ToInactive(sessions[s])
      /\ \A o \in Session \ {s} : sessions'[o] = sessions[o]
      /\ \A o \in Thread \ {t} : thread'[o] = thread[o]
      /\ thread'[t].s = s /\ thread'[t].x = nil
      /\ waits' = Terminated(W, s) /\ waits' \in SUBSET WaitRec
  BY EnterInactiveEffect
<1>2. /\ sessions'[s].state = "inactive" /\ sessions'[s].alive = sessions[s].alive
      /\ sessions'[s].death = sessions[s].death
  BY <1>1, RecordFacts, InactiveGood
<1>3. \A p \in Session : Owned(p)' => Owned(p)
  BY <1>1, OwnedStep, SyncAssumption
<1>4. Lives'
  BY <1>1, <1>2, <1>3 DEF Lives
<1>5. ASSUME NEW c \in waits', c.who = nil, sessions'[c.s].alive
      PROVE  /\ c.count <= sessions'[c.s].death
             /\ sessions'[c.s].state = "dying" /\ c.count = sessions'[c.s].death =>
                    owed'[c.s] <= c.need
  <2>1. PICK w \in W : /\ c.s = w.s /\ c.who = w.who /\ c.count = w.count
                       /\ w.s # s => c = w
    <3>1. c \in Terminated(W, s)
      BY <1>1
    <3>2. \A d \in Terminated(W, s) : \E w \in W :
             /\ d.s = w.s /\ d.who = w.who /\ d.count = w.count
             /\ w.s # s => d = w
      BY TerminatedFacts
    <3> QED
      BY <3>1, <3>2
  <2>2. w \in waits /\ c.s \in Session
    BY <1>5, <2>1 DEF WaitRec
  <2> QED
    BY <1>1, <1>2, <1>5, <2>1, <2>2 DEF Current
<1> QED
  BY <1>4, <1>5 DEF Current

\* The record r may become n, through which o is owed before and p after: a death is
\* counted, and what is owed through a dying session stays.
Aged(r, n, o, p) ==
    /\ n.alive = r.alive
    /\ \/ r.state # "dying" /\ n.state = "dying" /\ n.death = r.death + 1
       \/ n.death = r.death /\ (n.state = "dying" => r.state = "dying" /\ o = p)

\* A critical section of a session that has an owner.
LEMMA LiveSection ==
    ASSUME Typed, AllGood, Lives, Current, NEW t \in Thread, NEW s \in Session, Owned(s),
           NEW r \in SessionRecN, NEW W \in SUBSET WaitRec,
           \A c \in W : c.who = nil => c \in waits,
           NEW cont \in ThreadRec, Placed(cont), cont.x = nil,
           cont.s \in Session => Owned(cont.s),
           (r.state = "inactive" /\ sessions[s].state # "inactive") =>
               cont.pc \in {"idle", "logout_end", "abort"},
           Aged(sessions[s], r, owed[s], owed'[s]),
           r.state = "dying" => owed'[s] <= r.known,
           Section(t, s, r, W, cont), UNCHANGED <<m_sessions, refs>>,
           \A o \in Session \ {s} : owed'[o] = owed[o]
    PROVE  Lives' /\ Current'
<1>1. CASE r.state = "inactive" /\ sessions[s].state # "inactive"
  <2>1. EnterInactive(t, s, W, cont) /\ cont.pc \in {"idle", "logout_end", "abort"}
    BY <1>1 DEF Section
  <2> QED
    BY <2>1, LiveInactive
<1>2. CASE ~(r.state = "inactive" /\ sessions[s].state # "inactive")
  <2>1. /\ \A o \in Session \ {s} : sessions'[o] = sessions[o]
        /\ \A o \in Thread \ {t} : thread'[o] = thread[o]
        /\ sessions'[s] = r /\ thread'[t] = cont /\ waits' \in SUBSET WaitRec
        /\ waits' = W \cup (IF r.state = "dying" /\ sessions[s].state # "dying"
                            THEN {Upload(s, r.death, r.known)} ELSE {})
    BY <1>2, SectionEffect
  <2>2. \A p \in Session : Owned(p)' => Owned(p)
    BY <2>1, OwnedStep, SyncAssumption
  <2>3. sessions[s].alive /\ r.alive
    BY DEF Lives, Aged
  <2>4. Lives'
    BY <2>1, <2>2, <2>3 DEF Lives
  <2>5. ASSUME NEW c \in waits', c.who = nil, sessions'[c.s].alive
        PROVE  /\ c.count <= sessions'[c.s].death
               /\ sessions'[c.s].state = "dying" /\ c.count = sessions'[c.s].death =>
                      owed'[c.s] <= c.need
    <3>0. c \in WaitRec /\ c.s \in Session /\ c.count \in Nat /\ c.need \in Nat
      BY <2>1 DEF WaitRec
    <3>1. CASE c \in waits
      <4>1. CASE c.s # s
        BY <2>1, <2>5, <3>0, <3>1, <4>1 DEF Current
      <4>2. CASE c.s = s
        <5>1. /\ c.count <= sessions[s].death
              /\ sessions[s].state = "dying" /\ c.count = sessions[s].death =>
                     owed[s] <= c.need
          BY <2>3, <2>5, <3>1, <4>2 DEF Current
        <5>2. sessions[s].death \in Nat /\ r.death \in Nat
          BY DEF Typed, SessionRecN
        <5>3. CASE r.state # "dying" \/ r.death = sessions[s].death
          BY <2>1, <3>0, <4>2, <5>1, <5>2, <5>3 DEF Aged
        <5>4. CASE r.state = "dying" /\ r.death = sessions[s].death + 1
          BY <2>1, <3>0, <4>2, <5>1, <5>2, <5>4
        <5> QED
          BY <5>3, <5>4 DEF Aged
      <4> QED
        BY <4>1, <4>2
    <3>2. CASE c \notin waits
      <4>1. c = Upload(s, r.death, r.known) /\ r.state = "dying"
        BY <2>1, <2>5, <3>2
      <4>2. c.s = s /\ c.count = r.death /\ c.need = r.known
        BY <4>1 DEF Upload
      <4> QED
        BY <2>1, <3>0, <4>1, <4>2
    <3> QED
      BY <3>1, <3>2
  <2> QED
    BY <2>4, <2>5 DEF Current
<1> QED
  BY <1>1, <1>2

\* What the transitions of a record do to its age.
LEMMA AgedFacts ==
    ASSUME NEW r \in SessionRecN, NEW o \in Nat, version \in Nat,
           Good(r, o, version, stop_policy)
    PROVE  /\ Aged(r, r, o, o)
           /\ Aged(r, Revive(r), o, o) /\ Aged(r, LogOut(r), o, o)
           /\ Aged(r, Close(r), o, o) /\ Aged(r, ToWaiting(r), o, o)
           /\ r.state = "waiting" => Aged(r, Refreshed(r), o, o)
           /\ \A v, p \in Nat : Aged(r, Notified(r, v), o, IF r.state = "dying" THEN o ELSE p)
<1>1. Aged(r, r, o, o)
  BY DEF Aged
<1>2. Aged(r, Revive(r), o, o)
  BY ReviveGood DEF Aged
<1>3. Aged(r, LogOut(r), o, o)
  BY LogOutGood DEF Aged
<1>4. Aged(r, Close(r), o, o)
  <2>1. /\ Close(r).alive = r.alive
        /\ \/ Close(r).death = r.death
           \/ /\ r.state = "active" /\ Close(r).state = "dying"
              /\ Close(r).death = r.death + 1
        /\ Close(r).state = "dying" =>
               r = Close(r) \/ (r.state = "active" /\ Close(r).death = r.death + 1)
    BY CloseGood
  <2> QED
    BY <2>1 DEF Aged
<1>5. Aged(r, ToWaiting(r), o, o)
  BY WaitingGood DEF Aged
<1>6. r.state = "waiting" => Aged(r, Refreshed(r), o, o)
  <2> SUFFICES ASSUME r.state = "waiting"
               PROVE  Aged(r, Refreshed(r), o, o)
    OBVIOUS
  <2>1. /\ Refreshed(r).state \in {"active", "dying"} /\ Refreshed(r).alive = r.alive
        /\ Refreshed(r).death = r.death + (IF Refreshed(r).state = "dying" THEN 1 ELSE 0)
    BY RefreshedGood
  <2>2. r.death \in Nat
    BY DEF SessionRecN
  <2> QED
    BY <2>1, <2>2 DEF Aged
<1>7. \A v, p \in Nat : Aged(r, Notified(r, v), o, IF r.state = "dying" THEN o ELSE p)
  BY NotifiedRecord DEF Aged
<1> QED
  BY <1>1, <1>2, <1>3, <1>4, <1>5, <1>6, <1>7

\* Threads own what they work on, and applications what they reference.
LEMMA OwnedFacts ==
    /\ \A t \in Thread : Owned(thread[t].s) /\ Owned(thread[t].x)
    /\ \A t \in App : Owned(refs[t])
    /\ Owned(m_sessions)
BY DEF Owned, Referenced


\* A critical section in which nothing is committed and no handler is involved.
LEMMA LivePlain ==
    ASSUME OneWriter, Typed, AllGood, Lives, Current, NEW t \in Thread, NEW s \in Session, Owned(s),
           NEW r \in SessionRecN, NEW cont \in ThreadRec, Placed(cont), cont.x = nil,
           cont.s \in Session => Owned(cont.s),
           (r.state = "inactive" /\ sessions[s].state # "inactive") =>
               cont.pc \in {"idle", "logout_end", "abort"},
           Aged(sessions[s], r, owed[s], owed[s]), Good(r, owed[s], version, stop_policy),
           Section(t, s, r, waits, cont), UNCHANGED <<m_sessions, refs, owed>>
    PROVE  Lives' /\ Current'
<1>1. waits \in SUBSET WaitRec
  BY DEF Typed
<1>2. /\ Aged(sessions[s], r, owed[s], owed'[s])
      /\ r.state = "dying" => owed'[s] <= r.known
      /\ \A o \in Session \ {s} : owed'[o] = owed[o]
  BY DEF Good
<1> QED
  BY <1>1, <1>2, LiveSection

\* revive_if_needed, did_drop_external_reference, log_out, -suspend, -resume, the end of
\* unregister_session and the expiry of a token: one critical section.
LEMMA ControlLive ==
    ASSUME OneWriter, Typed, AllGood, Lives, Current, NEW t \in Thread,
           \/ ReviveIfNeeded(t) \/ SessionLogOut(t) \/ UnregisterSessionEnd(t)
           \/ t \in App /\ (DidDropExternalReference(t) \/ Suspend(t) \/ Resume(t))
           \/ t = loop /\ AccessTokenExpired
    PROVE  Lives' /\ Current'
<1>0. /\ Idle \in ThreadRec /\ Placed(Idle) /\ Idle.pc = "idle" /\ Idle.x = nil
      /\ Idle.s \notin Session
  BY PlacedAt, SyncAssumption
<1>1. UNCHANGED <<m_sessions, refs, owed>>
  BY DEF ReviveIfNeeded, SessionLogOut, UnregisterSessionEnd, DidDropExternalReference,
         Suspend, Resume, AccessTokenExpired, outside, data
<1>2. CASE ReviveIfNeeded(t)
  <2> DEFINE s == thread[t].s
             cont == At(thread[t].then, s)
  <2>1. /\ Section(t, s, Revive(sessions[s]), waits, cont)
        /\ s \in Session /\ thread[t] \in ThreadRec /\ Owned(s)
    BY <1>2, ThreadFacts, OwnedFacts DEF ReviveIfNeeded
  <2>2. /\ Revive(sessions[s]) \in SessionRecN
        /\ Good(Revive(sessions[s]), owed[s], version, stop_policy)
        /\ Aged(sessions[s], Revive(sessions[s]), owed[s], owed[s])
        /\ Revive(sessions[s]).state # "inactive"
    BY <2>1, RecordFacts, ReviveGood, AgedFacts
  <2>3. cont \in ThreadRec /\ Placed(cont) /\ cont.x = nil /\ cont.s \in {s, nil}
    BY <2>1, AtTyped, PlacedAt DEF ThreadRec, StepName
  <2>4. cont.s \in Session => Owned(cont.s)
    BY <2>1, <2>3, SyncAssumption
  <2> HIDE DEF cont
  <2> QED
    BY <1>1, <2>1, <2>2, <2>3, <2>4, LivePlain
<1>3. CASE SessionLogOut(t)
  <2> DEFINE s == thread[t].s
             cont == At("logout_end", s)
  <2>1. Section(t, s, LogOut(sessions[s]), waits, cont) /\ s \in Session /\ Owned(s)
    BY <1>3, ThreadFacts, OwnedFacts DEF SessionLogOut
  <2>2. /\ LogOut(sessions[s]) \in SessionRecN
        /\ Good(LogOut(sessions[s]), owed[s], version, stop_policy)
        /\ Aged(sessions[s], LogOut(sessions[s]), owed[s], owed[s])
    BY <2>1, RecordFacts, LogOutGood, AgedFacts
  <2>3. /\ cont \in ThreadRec /\ Placed(cont) /\ cont.pc = "logout_end"
        /\ cont.x = nil /\ cont.s = s
    BY <2>1, AtTyped, PlacedAt DEF StepName
  <2> HIDE DEF cont
  <2> QED
    BY <1>1, <2>1, <2>2, <2>3, LivePlain
<1>4. CASE UnregisterSessionEnd(t)
  <2> DEFINE x == thread[t].x
             cont == [thread[t] EXCEPT !.pc = "abort", !.x = nil]
  <2>1. PICK r \in SessionRecN :
          /\ r = Close(sessions[x]) \/ r = sessions[x]
          /\ Section(t, x, r, waits, cont)
    BY <1>4, UnregisterEndTyped
  <2>2. x \in Session /\ thread[t] \in ThreadRec /\ thread[t].s \in Session
        /\ thread[t].then # "ref" /\ Owned(x) /\ Owned(thread[t].s)
    BY <1>4, OwnedFacts, SyncAssumption DEF UnregisterSessionEnd, Typed, Placed, ThreadRec
  <2>3. cont \in ThreadRec /\ Placed(cont) /\ cont.pc = "abort"
        /\ cont.x = nil /\ cont.s = thread[t].s
    BY <2>2, SyncAssumption DEF ThreadRec, Placed
  <2>4. Good(r, owed[x], version, stop_policy) /\ Aged(sessions[x], r, owed[x], owed[x])
    BY <2>1, <2>2, RecordFacts, CloseGood, AgedFacts
  <2> HIDE DEF cont
  <2> QED
    BY <1>1, <2>1, <2>2, <2>3, <2>4, LivePlain
<1>5. CASE t \in App /\ DidDropExternalReference(t)
  <2> DEFINE s == thread[t].s
             r == IF Referenced(s) THEN sessions[s] ELSE Close(sessions[s])
  <2>1. /\ Section(t, s, r, waits, Idle) /\ s \in Session /\ Owned(s)
    BY <1>5, ThreadFacts, OwnedFacts DEF DidDropExternalReference
  <2>2. /\ r \in SessionRecN /\ Good(r, owed[s], version, stop_policy)
        /\ Aged(sessions[s], r, owed[s], owed[s])
    BY <2>1, RecordFacts, CloseGood, AgedFacts
  <2> HIDE DEF r
  <2> QED
    BY <1>0, <1>1, <2>1, <2>2, LivePlain
<1>6. CASE t \in App /\ (Suspend(t) \/ Resume(t))
  <2> DEFINE s == refs[t]
  <2>1. /\ s \in Session /\ Owned(s)
        /\ \E r \in {LogOut(sessions[s]), Revive(sessions[s])} : Section(t, s, r, waits, Idle)
    BY <1>6, OwnedFacts DEF Suspend, Resume, Typed
  <2>2. PICK r \in {LogOut(sessions[s]), Revive(sessions[s])} : Section(t, s, r, waits, Idle)
    BY <2>1
  <2>3. /\ sessions[s] \in SessionRecN /\ owed[s] \in Nat /\ version \in Nat
        /\ Good(sessions[s], owed[s], version, stop_policy)
    BY <2>1, RecordFacts
  <2>4. /\ r \in SessionRecN /\ Good(r, owed[s], version, stop_policy)
        /\ Aged(sessions[s], r, owed[s], owed[s])
    BY <2>2, <2>3, LogOutGood, ReviveGood, AgedFacts
  <2> QED
    BY <1>0, <1>1, <2>1, <2>2, <2>4, LivePlain
<1>7. CASE t = loop /\ AccessTokenExpired
  <2> DEFINE s == thread[loop].s
             r == IF sessions[s].state = "active" THEN ToWaiting(sessions[s])
                  ELSE sessions[s]
  <2>1. Section(loop, s, r, waits, Idle) /\ s \in Session /\ Owned(s)
    BY <1>7, ThreadFacts, OwnedFacts DEF AccessTokenExpired
  <2>2. /\ r \in SessionRecN /\ Good(r, owed[s], version, stop_policy)
        /\ Aged(sessions[s], r, owed[s], owed[s])
    BY <2>1, RecordFacts, WaitingGood, AgedFacts
  <2> HIDE DEF r
  <2> QED
    BY <1>0, <1>1, <1>7, <2>1, <2>2, LivePlain
<1> QED
  BY <1>2, <1>3, <1>4, <1>5, <1>6, <1>7

\* The announcement of a commit.
LEMMA AnnounceLive ==
    ASSUME OneWriter, Typed, AllGood, Announcing, Lives, Current, NEW t \in App, Announce(t)
    PROVE  Lives' /\ Current'
<1> DEFINE s == thread[t].s
<1>1. PICK v \in Nat :
        /\ v <= version /\ v = version
        /\ Section(t, s, Notified(sessions[s], v), waits, Idle)
        /\ owed' = [owed EXCEPT ![s] =
              IF sessions[s].state = "dying" THEN owed[s] ELSE Later(owed[s], v)]
  BY AnnounceFacts
<1>2. /\ t \in Thread /\ s \in Session /\ Owned(s) /\ UNCHANGED <<m_sessions, refs>>
  BY AnnounceFacts
<1> DEFINE n == Notified(sessions[s], v)
           o == IF sessions[s].state = "dying" THEN owed[s] ELSE Later(owed[s], v)
<1>3. /\ sessions[s] \in SessionRecN /\ owed[s] \in Nat /\ version \in Nat
      /\ Good(sessions[s], owed[s], version, stop_policy)
      /\ owed \in [Session -> Nat] /\ waits \in SUBSET WaitRec
  BY <1>2, RecordFacts DEF Typed
<1>4. /\ n \in SessionRecN /\ n.state = sessions[s].state
      /\ Good(n, o, version, stop_policy)
  BY <1>1, <1>3, NotifiedRecord, NotifiedGood
<1>5. Aged(sessions[s], n, owed[s], o)
  <2>1. Later(owed[s], v) \in Nat
    BY <1>3 DEF Later
  <2> QED
    BY <1>3, <2>1, AgedFacts
<1>6. n.state = "dying" => o <= n.known
  BY <1>4 DEF Good
<1>7. Section(t, s, n, waits, Idle) /\ owed' = [owed EXCEPT ![s] = o]
  BY <1>1
<1>8. /\ Idle \in ThreadRec /\ Placed(Idle) /\ Idle.pc = "idle" /\ Idle.x = nil
      /\ Idle.s \notin Session
  BY PlacedAt, SyncAssumption
<1> HIDE DEF n, o, s
<1>9. owed'[s] = o /\ \A p \in Session \ {s} : owed'[p] = owed[p]
  BY <1>2, <1>3, <1>7
<1> QED
  BY <1>2, <1>3, <1>4, <1>5, <1>6, <1>7, <1>8, <1>9, LiveSection

\* refresh_access_token and the two wait_for_..._completion.
LEMMA HandlerLive ==
    ASSUME OneWriter, Typed, AllGood, Lives, Current, NEW t \in App,
           RefreshAccessToken(t) \/ \E w \in Waiter : WaitForCompletion(t, w)
    PROVE  Lives' /\ Current'
<1>0. /\ Idle \in ThreadRec /\ Placed(Idle) /\ Idle.pc = "idle" /\ Idle.x = nil
      /\ Idle.s \notin Session /\ t \in Thread
  BY PlacedAt, SyncAssumption DEF Thread
<1>1. UNCHANGED <<m_sessions, refs, owed>>
  BY DEF RefreshAccessToken, WaitForCompletion, outside, data
<1>2. ASSUME NEW s \in Session, Owned(s), NEW r \in SessionRecN, NEW H \in SUBSET Waiter,
             Good(r, owed[s], version, stop_policy), r.state = "inactive" => sessions[s].state = "inactive",
             Aged(sessions[s], r, owed[s], owed[s]),
             Section(t, s, r, waits \cup {Handler(s, w) : w \in H}, Idle)
      PROVE  Lives' /\ Current'
  <2> DEFINE W == waits \cup {Handler(s, w) : w \in H}
  <2>1. W \in SUBSET WaitRec /\ \A c \in W : c.who = nil => c \in waits
    BY HandlerTyped, SyncAssumption DEF Typed
  <2>2. /\ Aged(sessions[s], r, owed[s], owed'[s])
        /\ r.state = "dying" => owed'[s] <= r.known
        /\ \A o \in Session \ {s} : owed'[o] = owed[o]
    BY <1>1, <1>2 DEF Good
  <2>3. Section(t, s, r, W, Idle)
    BY <1>2
  <2> HIDE DEF W
  <2> QED
    BY <1>0, <1>1, <1>2, <2>1, <2>2, <2>3, LiveSection
<1>3. CASE RefreshAccessToken(t)
  <2>1. PICK s \in Session :
          /\ Owned(s) /\ sessions[s].state = "waiting"
          /\ Section(t, s, Refreshed(sessions[s]),
                     waits \cup {Handler(s, w) : w \in sessions[s].packages}, Idle)
    BY <1>3 DEF RefreshAccessToken
  <2>2. /\ sessions[s] \in SessionRecN /\ owed[s] \in Nat /\ version \in Nat
        /\ Good(sessions[s], owed[s], version, stop_policy)
        /\ sessions[s].packages \in SUBSET Waiter
    BY RecordFacts DEF SessionRecN
  <2>3. /\ Refreshed(sessions[s]) \in SessionRecN
        /\ Good(Refreshed(sessions[s]), owed[s], version, stop_policy)
        /\ Aged(sessions[s], Refreshed(sessions[s]), owed[s], owed[s])
        /\ Refreshed(sessions[s]).state # "inactive"
    BY <2>1, <2>2, RefreshedGood, AgedFacts
  <2> QED
    BY <1>2, <2>1, <2>2, <2>3
<1>4. ASSUME NEW w \in Waiter, WaitForCompletion(t, w)
      PROVE  Lives' /\ Current'
  <2> DEFINE s == refs[t]
             r == sessions[s]
             P == r.packages \cup {w}
             q == [r EXCEPT !.packages = P]
  <2>1. /\ s \in Session /\ Owned(s)
        /\ IF r.state \in {"active", "dying"}
           THEN Section(t, s, r, waits \cup {Handler(s, w)}, Idle)
           ELSE Section(t, s, q, waits, Idle)
    BY <1>4, OwnedFacts DEF WaitForCompletion, Typed
  <2>2. /\ r \in SessionRecN /\ owed[s] \in Nat /\ version \in Nat
        /\ Good(r, owed[s], version, stop_policy) /\ r = sessions[s]
    BY <2>1, RecordFacts
  <2> HIDE DEF r, s
  <2>3. P \in SUBSET Waiter
    BY <2>2 DEF SessionRecN
  <2> HIDE DEF P
  <2>4. /\ q \in SessionRecN /\ Good(q, owed[s], version, stop_policy)
        /\ q.state = r.state /\ q.alive = r.alive /\ q.death = r.death
    <3>1. r \in SessionRecN /\ owed[s] \in Nat /\ version \in Nat
      BY <2>2
    <3>2. Good(r, owed[s], version, stop_policy)
      BY <2>2
    <3> QED
      BY <2>3, <3>1, <3>2, QueuedGood
  <2> HIDE DEF q
  <2>5. Aged(r, r, owed[s], owed[s]) /\ Aged(r, q, owed[s], owed[s])
    BY <2>2, <2>4 DEF Aged
  <2>6. CASE r.state \in {"active", "dying"}
    <3>1. {Handler(s, v) : v \in {w}} = {Handler(s, w)} /\ {w} \in SUBSET Waiter
      OBVIOUS
    <3>2. Section(t, s, r, waits \cup {Handler(s, v) : v \in {w}}, Idle)
      BY <2>1, <2>6, <3>1
    <3> QED
      BY <1>2, <2>1, <2>2, <2>5, <3>1, <3>2
  <2>7. CASE r.state \notin {"active", "dying"}
    <3>1. waits \cup {Handler(s, v) : v \in {}} = waits /\ {} \in SUBSET Waiter
      OBVIOUS
    <3>2. Section(t, s, q, waits \cup {Handler(s, v) : v \in {}}, Idle)
      BY <2>1, <2>7, <3>1
    <3> QED
      BY <1>2, <2>1, <2>2, <2>4, <2>5, <3>1, <3>2
  <2> QED
    BY <2>6, <2>7
<1> QED
  BY <1>3, <1>4


\* A step of one thread that leaves the sessions alone.
LEMMA LiveThread ==
    ASSUME Typed, Lives, Current, NEW t \in Thread, NEW q,
           thread' = [thread EXCEPT ![t] = q] \/ (thread' = thread /\ q = thread[t]),
           q.s \in Session => Owned(q.s), q.x \in Session => Owned(q.x),
           m_sessions' \in {m_sessions, nil},
           \A o \in App : refs'[o] \in Session => refs'[o] = refs[o] \/ Owned(refs'[o]),
           \A p \in Session : /\ sessions'[p].alive = sessions[p].alive
                              /\ sessions'[p].state = sessions[p].state
                              /\ sessions'[p].death = sessions[p].death,
           UNCHANGED <<waits, owed>>
    PROVE  Lives' /\ Current'
<1>1. thread'[t] = q /\ \A o \in Thread \ {t} : thread'[o] = thread[o]
  BY DEF Typed
<1>2. \A p \in Session : Owned(p)' => Owned(p)
  BY <1>1, OwnedStep, SyncAssumption
<1> QED
  BY <1>2, LiveQuiet

\* The steps of get_session, of the references and of the user, and a commit.
LEMMA ReferenceLive ==
    ASSUME Typed, Lives, Current, NEW t \in App,
           \/ GetSession(t) \/ RegisterSession(t) \/ ExternalReference(t)
           \/ DropReference(t) \/ UserLogOut(t) \/ UserLogOutEnd(t)
           \/ UpdateRefreshToken(t) \/ Commit(t)
    PROVE  Lives' /\ Current'
<1>1. /\ t \in Thread /\ nil \notin Session
      /\ Idle.s \notin Session /\ Idle.x \notin Session
      /\ \A pc, s : At(pc, s).x \notin Session /\ At(pc, s).s \in {s, nil}
  BY PlacedAt, SyncAssumption DEF Thread
<1>2. UNCHANGED <<waits, owed>>
  BY DEF GetSession, RegisterSession, ExternalReference, DropReference, UserLogOut,
         UserLogOutEnd, UpdateRefreshToken, Commit, data
<1>3. CASE GetSession(t)
  <2>1. CASE m_sessions # nil
    <3>1. thread' = [thread EXCEPT ![t] = At("register", m_sessions)]
          /\ UNCHANGED <<sessions, m_sessions, refs>>
      BY <1>3, <2>1 DEF GetSession
    <3> QED
      BY <1>1, <1>2, <3>1, OwnedFacts, LiveThread
  <2>2. CASE m_sessions = nil
    <3>1. PICK s \in Session :
            /\ ~sessions[s].alive /\ \A w \in waits : w.s # s
            /\ sessions' = [sessions EXCEPT ![s].alive = TRUE]
            /\ m_sessions' = s
            /\ refs' = [refs EXCEPT ![t] = s]
            /\ thread' = [thread EXCEPT ![t] = At("register", s)]
      BY <1>3, <2>2 DEF GetSession
    <3>2. /\ thread'[t].s \in {s, nil} /\ thread'[t].x \notin Session
          /\ \A o \in Thread \ {t} : thread'[o] = thread[o]
      BY <1>1, <3>1 DEF Typed
    <3>3. /\ sessions'[s].alive /\ \A o \in Session \ {s} : sessions'[o] = sessions[o]
      <4>1. sessions[s] \in SessionRecN
        BY DEF Typed
      <4>2. /\ sessions'[s] = [sessions[s] EXCEPT !.alive = TRUE]
            /\ \A o \in Session \ {s} : sessions'[o] = sessions[o]
        BY <3>1 DEF Typed
      <4> QED
        BY <4>1, <4>2 DEF SessionRecN
    <3>4. ASSUME NEW p \in Session, p # s, Owned(p)'
          PROVE  Owned(p)
      <4>1. \/ m_sessions' = p
            \/ \E o \in App : refs'[o] = p
            \/ \E o \in Thread : thread'[o].x = p
            \/ \E o \in Thread : thread'[o].s = p
        BY <3>4 DEF Owned, Referenced
      <4>2. \/ \E o \in App : refs[o] = p
            \/ \E o \in Thread : thread[o].x = p
            \/ \E o \in Thread : thread[o].s = p
        BY <1>1, <3>1, <3>2, <3>4, <4>1 DEF Typed
      <4> QED
        BY <4>2 DEF Owned, Referenced
    <3>5. Lives'
      BY <3>3, <3>4 DEF Lives
    <3>6. Current'
      <4>1. \A c \in waits' : c \in waits /\ c.s \in Session /\ c.s # s
        BY <1>2, <3>1 DEF Typed, WaitRec
      <4> QED
        BY <1>2, <3>3, <4>1 DEF Current
    <3> QED
      BY <3>5, <3>6
  <2> QED
    BY <2>1, <2>2
<1>4. CASE RegisterSession(t)
  <2> DEFINE s == thread[t].s
             q == IF user.state = "Active" THEN [At("revive", s) EXCEPT !.then = "ref"]
                  ELSE At("ref", s)
  <2>1. thread' = [thread EXCEPT ![t] = q] /\ UNCHANGED <<sessions, m_sessions, refs>>
    BY <1>4 DEF RegisterSession
  <2>2. q.x = nil /\ q.s = s
    BY DEF At, Idle
  <2>3. Owned(s)
    BY <1>1, OwnedFacts
  <2> HIDE DEF q
  <2> QED
    BY <1>1, <1>2, <2>1, <2>2, <2>3, LiveThread
<1>5. CASE ExternalReference(t)
  <2>1. /\ thread' = [thread EXCEPT ![t] = Idle] /\ UNCHANGED <<sessions, m_sessions>>
        /\ refs' = [refs EXCEPT ![t] = thread[t].s] /\ Owned(thread[t].s)
    BY <1>1, <1>5, OwnedFacts DEF ExternalReference
  <2>2. \A o \in App : refs'[o] \in Session => refs'[o] = refs[o] \/ Owned(refs'[o])
    BY <2>1 DEF Typed
  <2> QED
    BY <1>1, <1>2, <2>1, <2>2, LiveThread
<1>6. CASE DropReference(t)
  <2>1. /\ UNCHANGED <<sessions, m_sessions>> /\ refs' = [refs EXCEPT ![t] = nil]
        /\ \E q \in {Idle, At("drop", refs[t])} : thread' = [thread EXCEPT ![t] = q]
    BY <1>6 DEF DropReference
  <2>2. \A o \in App : refs'[o] \in Session => refs'[o] = refs[o] \/ Owned(refs'[o])
    BY <1>1, <2>1 DEF Typed
  <2>3. PICK q \in {Idle, At("drop", refs[t])} : thread' = [thread EXCEPT ![t] = q]
    BY <2>1
  <2>4. (q.s \in Session => Owned(q.s)) /\ (q.x \in Session => Owned(q.x))
    BY <1>1, OwnedFacts
  <2> QED
    BY <1>1, <1>2, <2>1, <2>2, <2>3, <2>4, LiveThread
<1>7. CASE UserLogOut(t) \/ UserLogOutEnd(t) \/ UpdateRefreshToken(t)
  <2>1. UNCHANGED <<sessions, m_sessions, refs>>
    BY <1>7 DEF UserLogOut, UserLogOutEnd, UpdateRefreshToken
  <2>2. \/ thread' = thread
        \/ thread' = [thread EXCEPT ![t] = Idle]
        \/ Owned(user.active) /\ thread' = [thread EXCEPT ![t] = At("logout", user.active)]
        \/ Owned(user.waiting) /\ thread' = [thread EXCEPT ![t] = At("revive", user.waiting)]
    BY <1>7 DEF UserLogOut, UserLogOutEnd, UpdateRefreshToken
  <2>3. CASE thread' = thread
    BY <1>1, <1>2, <2>1, <2>3, OwnedFacts, LiveThread
  <2>4. CASE thread' # thread
    <3>1. PICK q : /\ thread' = [thread EXCEPT ![t] = q]
                   /\ q.s \in Session => Owned(q.s)
                   /\ q.x \in Session => Owned(q.x)
      BY <1>1, <2>2, <2>4
    <3> QED
      BY <1>1, <1>2, <2>1, <3>1, LiveThread
  <2> QED
    BY <2>3, <2>4
<1>8. CASE Commit(t)
  <2> DEFINE q == [At("announce", refs[t]) EXCEPT !.v = version + 1]
  <2>1. /\ thread' = [thread EXCEPT ![t] = q] /\ q.x = nil /\ q.s = refs[t]
        /\ UNCHANGED <<sessions, m_sessions, refs>>
    BY <1>8, CommitThread DEF Commit
  <2> HIDE DEF q
  <2>2. (q.s \in Session => Owned(q.s)) /\ (q.x \in Session => Owned(q.x))
    BY <1>1, <2>1, OwnedFacts
  <2> QED
    BY <1>1, <1>2, <2>1, <2>2, LiveThread
<1> QED
  BY <1>3, <1>4, <1>5, <1>6, <1>7, <1>8

\* unregister_session and the abortion of the queued handlers.
LEMMA UnregisterLive ==
    ASSUME Typed, Lives, Current, NEW t \in Thread, UnregisterSession(t) \/ AbortPackages(t)
    PROVE  Lives' /\ Current'
<1>1. /\ nil \notin Session /\ thread[t] \in ThreadRec
      /\ \A pc, s : At(pc, s).x \notin Session /\ At(pc, s).s \in {s, nil}
  BY PlacedAt, SyncAssumption DEF Typed
<1>2. UNCHANGED <<sessions, waits, owed, refs>> /\ m_sessions' \in {m_sessions, nil}
  BY DEF UnregisterSession, AbortPackages
<1>3. \/ thread' = thread
      \/ \E q \in {[thread[t] EXCEPT !.pc = "unregister_end", !.x = m_sessions],
                   [thread[t] EXCEPT !.pc = "abort"], At(thread[t].then, thread[t].s)} :
           thread' = [thread EXCEPT ![t] = q]
  BY DEF UnregisterSession, AbortPackages, Typed
<1>4. CASE thread' = thread
  BY <1>2, <1>4, OwnedFacts, LiveThread
<1>5. CASE thread' # thread
  <2>1. PICK q \in {[thread[t] EXCEPT !.pc = "unregister_end", !.x = m_sessions],
                    [thread[t] EXCEPT !.pc = "abort"], At(thread[t].then, thread[t].s)} :
           thread' = [thread EXCEPT ![t] = q]
    BY <1>3, <1>5
  <2>2. q.s \in {thread[t].s, nil} /\ (q.x \in Session => q.x \in {thread[t].x, m_sessions})
    BY <1>1, <2>1 DEF ThreadRec
  <2>3. (q.s \in Session => Owned(q.s)) /\ (q.x \in Session => Owned(q.x))
    BY <1>1, <2>2, OwnedFacts
  <2> QED
    BY <1>2, <2>1, <2>3, LiveThread
<1> QED
  BY <1>4, <1>5

\* The event loop and the destructor.
LEMMA LoopLive ==
    ASSUME OneWriter, Typed, AllGood, Lives, Current, LoopNext \/ \E s \in Session : Destroy(s)
    PROVE  Lives' /\ Current'
<1>1. /\ loop \in Thread /\ nil \notin Session /\ waits \in SUBSET WaitRec
      /\ Idle \in ThreadRec /\ Idle.pc = "idle" /\ Idle.s \notin Session /\ Idle.x \notin Session
      /\ \A pc, s : At(pc, s).x \notin Session /\ At(pc, s).s \in {s, nil}
  BY PlacedAt, SyncAssumption DEF Thread, Typed
<1>2. ASSUME UNCHANGED <<sessions, m_sessions, refs, thread, owed>>, waits' \subseteq waits
      PROVE  Lives' /\ Current'
  <2>1. \A p \in Session : Owned(p)' => Owned(p)
    BY <1>2 DEF Owned, Referenced
  <2> QED
    BY <1>2, <2>1, LiveQuiet
<1>3. CASE UploadVersion
  BY <1>2, <1>3 DEF UploadVersion
<1>4. ASSUME NEW c \in waits, HandlerCalled(c)
      PROVE  Lives' /\ Current'
  BY <1>2, <1>4 DEF HandlerCalled
<1>5. ASSUME NEW c \in waits, UploadCompleted(c)
      PROVE  Lives' /\ Current'
  <2>1. UNCHANGED <<m_sessions, refs, owed>> /\ waits \ {c} \in SUBSET WaitRec
        /\ c.s \in Session
    BY <1>1, <1>5 DEF UploadCompleted, outside, data, WaitRec
  <2>2. CASE Owned(c.s) /\ EnterInactive(loop, c.s, waits \ {c}, Idle)
    BY <1>1, <2>1, <2>2, LiveInactive
  <2>3. CASE waits' = waits \ {c} /\ UNCHANGED <<sessions, thread>>
    BY <1>2, <2>1, <2>3
  <2> QED
    BY <1>5, <2>2, <2>3 DEF UploadCompleted
<1>6. ASSUME NEW s \in Session, NEW kind \in ErrorKinds, HandleError(s, kind)
      PROVE  Lives' /\ Current'
  <2>1. UNCHANGED <<m_sessions, refs, owed>> /\ Owned(s)
    BY <1>6 DEF HandleError, data
  <2>2. CASE EnterInactive(loop, s, waits, Idle)
    BY <1>1, <2>1, <2>2, LiveInactive
  <2>3. CASE thread' = [thread EXCEPT ![loop] = At(kind, s)] /\ UNCHANGED <<sessions, waits>>
    <3>1. At(kind, s).s \in Session => Owned(At(kind, s).s)
      BY <1>1, <2>1
    <3> QED
      BY <1>1, <2>1, <2>3, <3>1, LiveThread
  <2> QED
    BY <1>6, <2>2, <2>3 DEF HandleError
<1>7. CASE CancelPendingWaits
  <2> DEFINE s == thread[loop].s
             next == IF thread[loop].pc = "auth" THEN "invalidate" ELSE "idle"
             q == [At("abort", s) EXCEPT !.then = next, !.held = sessions[s].packages]
  <2>1. /\ thread' = [thread EXCEPT ![loop] = q] /\ s \in Session
        /\ sessions' = [sessions EXCEPT ![s].packages = {}]
        /\ UNCHANGED <<waits, owed, m_sessions, refs>>
    BY <1>1, <1>7, ThreadFacts DEF CancelPendingWaits, outside, data
  <2>2. q.x = nil /\ q.s = s /\ Owned(s)
    BY <1>1, OwnedFacts DEF At, Idle
  <2> HIDE DEF q
  <2>3. \A p \in Session : /\ sessions'[p].alive = sessions[p].alive
                           /\ sessions'[p].state = sessions[p].state
                           /\ sessions'[p].death = sessions[p].death
    <3>1. sessions[s] \in SessionRecN
      BY <2>1 DEF Typed
    <3>2. /\ sessions'[s] = [sessions[s] EXCEPT !.packages = {}]
          /\ \A o \in Session \ {s} : sessions'[o] = sessions[o]
      BY <2>1 DEF Typed
    <3>3. /\ sessions'[s].alive = sessions[s].alive
          /\ sessions'[s].state = sessions[s].state
          /\ sessions'[s].death = sessions[s].death
      BY <3>1, <3>2 DEF SessionRecN
    <3> QED
      BY <3>2, <3>3
  <2> QED
    BY <1>1, <2>1, <2>2, <2>3, LiveThread
<1>8. CASE Invalidate
  <2>1. /\ thread' = [thread EXCEPT ![loop] = Idle]
        /\ UNCHANGED <<sessions, waits, owed, m_sessions, refs>>
    BY <1>8 DEF Invalidate, data
  <2> QED
    BY <1>1, <2>1, LiveThread
<1>9. CASE ResetSession
  <2>1. /\ EnterInactive(loop, thread[loop].s, waits, Idle) /\ thread[loop].s \in Session
        /\ UNCHANGED <<m_sessions, refs, owed>> /\ Owned(thread[loop].s)
    BY <1>1, <1>9, ThreadFacts, OwnedFacts DEF ResetSession, outside, data
  <2> QED
    BY <1>1, <2>1, LiveInactive
<1>10. CASE AccessTokenExpired
  BY <1>1, <1>10, ControlLive
<1>11. ASSUME NEW s \in Session, Destroy(s)
       PROVE  Lives' /\ Current'
  <2>1. /\ sessions' = [sessions EXCEPT ![s] = NoSession] /\ ~Owned(s)
        /\ waits' = Terminated(waits, s) /\ owed' = [owed EXCEPT ![s] = 0]
        /\ UNCHANGED <<m_sessions, refs, thread>>
    BY <1>11 DEF Destroy
  <2>2. /\ \A o \in Session \ {s} : sessions'[o] = sessions[o] /\ owed'[o] = owed[o]
        /\ sessions'[s].state = "inactive" /\ ~sessions'[s].alive
    BY <2>1 DEF Typed, NoSession
  <2>3. \A p \in Session : Owned(p)' => Owned(p)
    BY <2>1 DEF Owned, Referenced
  <2>4. Lives'
    BY <2>1, <2>2, <2>3 DEF Lives
  <2>5. ASSUME NEW c \in waits', c.who = nil, sessions'[c.s].alive
        PROVE  /\ c.count <= sessions'[c.s].death
               /\ sessions'[c.s].state = "dying" /\ c.count = sessions'[c.s].death =>
                      owed'[c.s] <= c.need
    <3>1. c \in Terminated(waits, s)
      BY <2>1
    <3>2. \A d \in Terminated(waits, s) : \E w \in waits :
             /\ d.s = w.s /\ d.who = w.who /\ d.count = w.count
             /\ w.s # s => d = w
      <4>1. waits \in SUBSET WaitRec
        BY <1>1
      <4> QED
        BY ONLY <4>1, TerminatedFacts
    <3>3. PICK w \in waits : c.s = w.s /\ (w.s # s => c = w)
      BY <3>1, <3>2
    <3>4. w = c /\ c.s \in Session \ {s}
      BY <1>1, <2>2, <2>5, <3>3 DEF WaitRec
    <3> QED
      BY <2>2, <2>5, <3>4 DEF Current
  <2> QED
    BY <2>4, <2>5 DEF Current
<1> QED
  BY <1>3, <1>4, <1>5, <1>6, <1>7, <1>8, <1>9, <1>10, <1>11 DEF LoopNext

\* Every step keeps Lives and Current.
LEMMA LiveNext ==
    ASSUME OneWriter, Typed, AllGood, Announcing, Lives, Current, [Next]_vars
    PROVE  Lives' /\ Current'
<1>1. CASE UNCHANGED vars
  BY <1>1 DEF vars, outside, data, Lives, Current, Owned, Referenced
<1>2. ASSUME NEW t \in App, AppNext(t)
      PROVE  Lives' /\ Current'
  <2>1. t \in Thread
    BY DEF Thread
  <2> QED
    BY <1>2, <2>1, ReferenceLive, ControlLive, AnnounceLive, HandlerLive DEF AppNext
<1>3. ASSUME NEW t \in Thread,
             \/ ReviveIfNeeded(t) \/ UnregisterSession(t)
             \/ UnregisterSessionEnd(t) \/ AbortPackages(t)
      PROVE  Lives' /\ Current'
  BY <1>3, ControlLive, UnregisterLive
<1> QED
  BY <1>1, <1>2, <1>3, LoopLive DEF Next

\* If one thread alone commits, a session that ends because its upload is complete has
\* uploaded every version that was announced to it before it began to die, whatever the
\* number of commits, threads and revivals (UploadedBeforeDeath).
THEOREM SyncUploadedBeforeDeath ==
    ASSUME OneWriter
    PROVE  Spec => UploadedBeforeDeath
<1>1. Init => Lives /\ Current
  BY PlacedAt, SyncAssumption
     DEF Init, Lives, Current, Owned, Referenced, NoSession
<1>2. Typed /\ AllGood /\ Announcing /\ Lives /\ Current /\ [Next]_vars => (Lives /\ Current)'
  BY LiveNext
<1>3. Typed /\ AllGood /\ Lives /\ Current =>
        \A c \in waits : (UploadCompleted(c) /\ sessions'[c.s].state # sessions[c.s].state)
                            => uploaded >= owed[c.s]
  <2> SUFFICES ASSUME Typed, Lives, Current, NEW c \in waits, UploadCompleted(c),
                      sessions'[c.s].state # sessions[c.s].state
               PROVE  uploaded >= owed[c.s]
    OBVIOUS
  <2>1. c \in WaitRec /\ c.s \in Session /\ c.need \in Nat
    BY DEF Typed, WaitRec
  <2>2. Owned(c.s) /\ IsCurrentDeath(c) /\ c.who = nil /\ c.need <= uploaded
    BY DEF UploadCompleted
  <2>3. owed[c.s] <= c.need
    BY <2>1, <2>2 DEF Lives, Current, IsCurrentDeath
  <2>4. owed[c.s] \in Nat /\ uploaded \in Nat
    BY <2>1 DEF Typed
  <2> QED
    BY <2>1, <2>2, <2>3, <2>4
<1> QED
  BY <1>1, <1>2, <1>3, SyncRecords, PTL DEF Spec, UploadedBeforeDeath


----------------------------------------------------------------------------
(* Credit: each death uses up a call of get_session.                        *)

\* What the transitions of a record do to its deaths.
LEMMA DeathsFacts ==
    ASSUME NEW r \in SessionRecN, NEW o \in Nat, version \in Nat,
           Good(r, o, version, stop_policy)
    PROVE  /\ Deaths(r) \in Nat
           /\ Deaths(ToInactive(r)) <= Deaths(r)
           /\ Deaths(ToWaiting(r)) <= Deaths(r)
           /\ Deaths(LogOut(r)) <= Deaths(r)
           /\ Deaths(Revive(r)) <= Deaths(r)
           /\ Deaths(Close(r)) <= Deaths(r) + 1
           /\ r.state = "waiting" => Deaths(Refreshed(r)) <= Deaths(r)
           /\ \A v \in Nat : Deaths(Notified(r, v)) <= Deaths(r)
<1>0. r.death \in Nat /\ Deferred(r) \in {0, 1}
  BY DEF SessionRecN, Deferred
<1>1. Deaths(ToInactive(r)) <= Deaths(r)
  BY <1>0, InactiveGood DEF Deaths, Deferred
<1>2. Deaths(ToWaiting(r)) <= Deaths(r)
  BY <1>0, WaitingGood DEF Deaths, Deferred
<1>3. Deaths(LogOut(r)) <= Deaths(r)
  BY <1>0, LogOutGood DEF Deaths, Deferred
<1>4. Deaths(Revive(r)) <= Deaths(r)
  <2>1. Revive(r).death = r.death /\ Deferred(Revive(r)) = 0
    BY ReviveGood DEF Deferred
  <2> QED
    BY <1>0, <2>1 DEF Deaths
<1>5. Deaths(Close(r)) <= Deaths(r) + 1
  <2>1. Close(r).death \in Nat
    BY CloseGood DEF SessionRecN
  <2>2. \/ Close(r).death = r.death
        \/ Close(r).state = "dying" /\ Close(r).death = r.death + 1
    BY CloseGood
  <2>3. Deferred(Close(r)) \in {0, 1} /\ (Close(r).state = "dying" => Deferred(Close(r)) = 0)
    BY DEF Deferred
  <2> QED
    BY <1>0, <2>1, <2>2, <2>3 DEF Deaths
<1>6. ASSUME r.state = "waiting"
      PROVE  Deaths(Refreshed(r)) <= Deaths(r)
  <2>1. /\ Refreshed(r).state \in {"active", "dying"}
        /\ Refreshed(r).death = r.death + (IF Refreshed(r).state = "dying" THEN 1 ELSE 0)
        /\ Refreshed(r).state = "dying" => r.deferredClose
    BY <1>6, RefreshedGood
  <2>2. Deferred(Refreshed(r)) = 0 /\ (Refreshed(r).state = "dying" => Deferred(r) = 1)
    BY <1>6, <2>1 DEF Deferred
  <2> QED
    BY <1>0, <2>1, <2>2 DEF Deaths
<1>7. ASSUME NEW v \in Nat
      PROVE  Deaths(Notified(r, v)) <= Deaths(r)
  <2>1. /\ Notified(r, v).death = r.death
        /\ Notified(r, v).state = r.state
        /\ Notified(r, v).deferredClose = r.deferredClose
    BY NotifiedRecord
  <2> QED
    BY <1>0, <2>1 DEF Deaths, Deferred
<1> QED
  BY <1>0, <1>1, <1>2, <1>3, <1>4, <1>5, <1>6, <1>7 DEF Deaths

\* Counts of threads and deaths are natural numbers.
LEMMA CreditTypes ==
    ASSUME Typed, Typed'
    PROVE  /\ opened \in Nat /\ opened' \in Nat
           /\ IsFiniteSet(Creditors) /\ Cardinality(Creditors) \in Nat
           /\ IsFiniteSet(Creditors') /\ Cardinality(Creditors') \in Nat
           /\ \A s \in Session : Debt(s) \in Nat /\ Debt(s)' \in Nat
           /\ \A s \in Session : Deaths(sessions[s]) \in Nat /\ Deaths(sessions'[s]) \in Nat
           /\ \A s \in Session : LastLookup(s) \in {0, 1} /\ LastLookup(s)' \in {0, 1}
<1>1. /\ \A r \in SessionRecN : Deaths(r) \in Nat
  BY DEF Deaths, Deferred, SessionRecN
<1>2. \A s \in Session : sessions[s] \in SessionRecN /\ sessions'[s] \in SessionRecN
  BY DEF Typed
<1>3. \A s \in Session : LastLookup(s) \in {0, 1} /\ LastLookup(s)' \in {0, 1}
  BY DEF LastLookup
<1>4. \A s \in Session : Deaths(sessions[s]) \in Nat /\ Deaths(sessions'[s]) \in Nat
  BY <1>1, <1>2
<1>5. \A s \in Session : Debt(s) \in Nat /\ Debt(s)' \in Nat
  <2>1. ASSUME NEW s \in Session
        PROVE  Debt(s) \in Nat /\ Debt(s)' \in Nat
    <3>1. /\ Debt(s) = Deaths(sessions[s]) + LastLookup(s)
          /\ Debt(s)' = Deaths(sessions'[s]) + LastLookup(s)'
      BY DEF Debt, Deaths, Deferred
    <3> QED
      BY <1>3, <1>4, <3>1
  <2> QED
    BY <2>1
<1>6. Creditors \in SUBSET App /\ Creditors' \in SUBSET App
  BY DEF Creditors
<1>7. /\ IsFiniteSet(Creditors) /\ Cardinality(Creditors) \in Nat
      /\ IsFiniteSet(Creditors') /\ Cardinality(Creditors') \in Nat
  BY <1>6, SyncAssumption, FS_Subset, FS_CardinalityType
<1>8. opened \in Nat /\ opened' \in Nat
  BY DEF Typed
<1> QED
  BY <1>3, <1>4, <1>5, <1>7, <1>8

\* The books: a debt grows by one only when a creditor goes, and a creditor comes only
\* when get_session is called.
LEMMA CreditCount ==
    ASSUME Typed, Typed', Credit, NEW t,
           \A o \in App : thread'[o].pc = "drop" => refs'[o] = nil,
           \/ /\ Creditors' \subseteq Creditors /\ opened' = opened
              /\ \A s \in Session : Debt(s)' <= Debt(s)
           \/ /\ t \in Creditors /\ Creditors' \subseteq Creditors \ {t} /\ opened' = opened
              /\ \A s \in Session : Debt(s)' <= Debt(s) + 1
           \/ /\ Creditors' \subseteq Creditors \cup {t} /\ opened' = opened + 1
              /\ \A s \in Session : Debt(s)' <= Debt(s)
    PROVE  Credit'
<1> DEFINE K == Cardinality(Creditors)
           L == Cardinality(Creditors')
<1>1. /\ opened \in Nat /\ opened' \in Nat /\ K \in Nat /\ L \in Nat
      /\ IsFiniteSet(Creditors) /\ IsFiniteSet(Creditors')
      /\ \A s \in Session : Debt(s) \in Nat /\ Debt(s)' \in Nat
  BY CreditTypes
<1>2. K <= opened /\ \A s \in Session : Debt(s) + K <= opened
  BY DEF Credit
<1>3. L <= opened' /\ \A s \in Session : Debt(s)' + L <= opened'
  <2>1. CASE /\ Creditors' \subseteq Creditors /\ opened' = opened
             /\ \A s \in Session : Debt(s)' <= Debt(s)
    <3>1. L <= K
      BY <1>1, <2>1, FS_Subset
    <3> HIDE DEF K, L
    <3> QED
      BY <1>1, <1>2, <2>1, <3>1
  <2>2. CASE /\ t \in Creditors /\ Creditors' \subseteq Creditors \ {t} /\ opened' = opened
             /\ \A s \in Session : Debt(s)' <= Debt(s) + 1
    <3>1. IsFiniteSet(Creditors \ {t}) /\ Cardinality(Creditors \ {t}) = K - 1
      BY <1>1, <2>2, FS_RemoveElement
    <3>2. L <= K - 1
      BY <2>2, <3>1, FS_Subset
    <3> HIDE DEF K, L
    <3> QED
      BY <1>1, <1>2, <2>2, <3>2
  <2>3. CASE /\ Creditors' \subseteq Creditors \cup {t} /\ opened' = opened + 1
             /\ \A s \in Session : Debt(s)' <= Debt(s)
    <3>1. IsFiniteSet(Creditors \cup {t}) /\ Cardinality(Creditors \cup {t}) \in {K, K + 1}
      BY <1>1, FS_AddElement
    <3>2. L <= Cardinality(Creditors \cup {t})
      BY <2>3, <3>1, FS_Subset
    <3>3. L <= K + 1
      BY <1>1, <3>1, <3>2
    <3> HIDE DEF K, L
    <3> QED
      BY <1>1, <1>2, <2>3, <3>3
  <2> QED
    BY <2>1, <2>2, <2>3
<1>4. \A o \in App : (thread[o].pc = "drop" => refs[o] = nil)'
  OBVIOUS
<1> QED
  BY <1>3, <1>4 DEF Credit

\* The debt after a step: that of the record and that of a lookup.
LEMMA DebtLess ==
    ASSUME Typed, Typed', NEW s \in Session, NEW n \in {0, 1},
           Deaths(sessions'[s]) + LastLookup(s)' <= Deaths(sessions[s]) + LastLookup(s) + n
    PROVE  Debt(s)' <= Debt(s) + n
<1>1. /\ Debt(s) = Deaths(sessions[s]) + LastLookup(s)
      /\ Debt(s)' = Deaths(sessions'[s]) + LastLookup(s)'
  BY DEF Debt, Deaths, Deferred
<1> QED
  BY <1>1

\* A step of one thread that looks up no reference and leaves the references alone.
LEMMA CreditThread ==
    ASSUME Typed, Typed', Credit, NEW t \in Thread,
           \A o \in Thread \ {t} : thread'[o] = thread[o],
           \/ thread'[t] = thread[t]
           \/ /\ thread'[t].x = nil /\ thread'[t].pc # "drop"
              /\ Opening(thread'[t]) => Opening(thread[t]),
           UNCHANGED <<refs, opened>>,
           \A s \in Session : Deaths(sessions'[s]) <= Deaths(sessions[s])
    PROVE  Credit'
<1>1. \A s \in Session : LastLookup(s)' <= LastLookup(s)
  <2>1. \A s \in Session : (\E o \in Thread : thread'[o].x = s) =>
                             \E o \in Thread : thread[o].x = s
    BY SyncAssumption
  <2> QED
    BY <2>1 DEF LastLookup
<1>2. \A s \in Session : Debt(s)' <= Debt(s)
  <2> SUFFICES ASSUME NEW s \in Session
               PROVE  Debt(s)' <= Debt(s)
    OBVIOUS
  <2>1. /\ Deaths(sessions[s]) \in Nat /\ Deaths(sessions'[s]) \in Nat
        /\ LastLookup(s) \in {0, 1} /\ LastLookup(s)' \in {0, 1}
        /\ Debt(s) \in Nat /\ Debt(s)' \in Nat
    BY CreditTypes
  <2>2. Deaths(sessions'[s]) + LastLookup(s)' <= Deaths(sessions[s]) + LastLookup(s) + 0
    BY <1>1, <2>1
  <2>3. Debt(s)' <= Debt(s) + 0
    BY <2>2, DebtLess
  <2> QED
    BY <2>1, <2>3
<1>3. Creditors' \subseteq Creditors
  <2> SUFFICES ASSUME NEW o \in App, refs'[o] # nil \/ thread'[o].pc = "drop" \/ Opening(thread'[o])
               PROVE  refs[o] # nil \/ thread[o].pc = "drop" \/ Opening(thread[o])
    BY DEF Creditors, Opening
  <2> QED
    BY DEF Thread
<1>4. \A o \in App : thread'[o].pc = "drop" => refs'[o] = nil
  BY DEF Credit, Thread
<1> QED
  BY <1>2, <1>3, <1>4, CreditCount

\* What a critical section does to the records.
LEMMA SectionRecords ==
    ASSUME Typed, NEW t, NEW s \in Session, NEW r, NEW W, NEW cont,
           Section(t, s, r, W, cont)
    PROVE  /\ \A o \in Session \ {s} : sessions'[o] = sessions[o]
           /\ sessions'[s] \in {r, ToInactive(sessions[s])}
BY DEF Section, EnterInactive, Typed

\* A critical section that adds no death.
LEMMA CreditSection ==
    ASSUME Typed, AllGood, Typed', Credit, NEW t \in Thread, NEW s \in Session, NEW r, NEW W,
           NEW cont, Section(t, s, r, W, cont),
           Deaths(r) <= Deaths(sessions[s]),
           cont.x = nil, cont.pc # "drop", cont.pc \notin {"register", "ref"} \/ Opening(thread[t]),
           cont.then # "ref", UNCHANGED <<refs, opened>>
    PROVE  Credit'
<1>1. /\ \A o \in Thread \ {t} : thread'[o] = thread[o]
      /\ \/ thread'[t] = cont
         \/ /\ thread'[t].pc = "unregister" /\ thread'[t].x = nil
            /\ thread'[t].then = cont.pc
  BY SectionThread
<1>2. /\ \A o \in Session \ {s} : sessions'[o] = sessions[o]
      /\ sessions'[s] \in {r, ToInactive(sessions[s])}
  BY SectionRecords
<1>3. /\ Deaths(ToInactive(sessions[s])) <= Deaths(sessions[s])
      /\ \A o \in Session : Deaths(sessions[o]) \in Nat
  BY RecordFacts, DeathsFacts
<1>4. \A o \in Session : Deaths(sessions'[o]) <= Deaths(sessions[o])
  BY <1>2, <1>3
<1>5. /\ thread'[t].x = nil /\ thread'[t].pc # "drop"
      /\ Opening(thread'[t]) => Opening(thread[t])
  BY <1>1 DEF Opening
<1> QED
  BY <1>1, <1>4, <1>5, CreditThread


\* The steps of get_session and dropping a reference.
LEMMA ReferenceCredit ==
    ASSUME Typed, AllGood, Typed', Registered, Credit, NEW t \in App,
           GetSession(t) \/ RegisterSession(t) \/ ExternalReference(t) \/ DropReference(t)
    PROVE  Credit'
<1>0. /\ t \in Thread /\ nil \notin Session
      /\ \A s \in Session : Deaths(sessions[s]) \in Nat
      /\ \A s \in Session : LastLookup(s) \in {0, 1} /\ LastLookup(s)' \in {0, 1}
      /\ \A s \in Session : Debt(s) \in Nat /\ Debt(s)' \in Nat
  BY CreditTypes, SyncAssumption DEF Thread
<1>1. ASSUME NEW n \in {0, 1},
             \A s \in Session : Deaths(sessions'[s]) = Deaths(sessions[s]),
             \A s \in Session : LastLookup(s)' <= LastLookup(s) + n
      PROVE  \A s \in Session : Debt(s)' <= Debt(s) + n
  <2> SUFFICES ASSUME NEW s \in Session
               PROVE  Debt(s)' <= Debt(s) + n
    OBVIOUS
  <2>1. Deaths(sessions'[s]) + LastLookup(s)' <= Deaths(sessions[s]) + LastLookup(s) + n
    BY <1>0, <1>1
  <2> QED
    BY <2>1, DebtLess
<1>2. CASE GetSession(t)
  <2>1. PICK s \in Session :
          /\ thread' = [thread EXCEPT ![t] = At("register", s)]
          /\ \/ refs' = refs
             \/ refs' = [refs EXCEPT ![t] = s]
          /\ \/ sessions' = sessions
             \/ sessions' = [sessions EXCEPT ![s].alive = TRUE]
    BY <1>2 DEF GetSession, Typed
  <2>2. opened' = opened + 1 /\ refs[t] = nil
    BY <1>2 DEF GetSession
  <2>3. /\ thread'[t].x = nil /\ thread'[t].pc = "register"
        /\ \A o \in Thread \ {t} : thread'[o] = thread[o]
    BY <1>0, <2>1, PlacedAt DEF Typed
  <2>4. \A o \in App : refs[o] # nil => refs'[o] = refs[o]
    BY <2>1, <2>2 DEF Typed
  <2>5. \A p \in Session : Deaths(sessions'[p]) = Deaths(sessions[p])
    <3>1. CASE sessions' = sessions
      BY <3>1
    <3>2. CASE sessions' = [sessions EXCEPT ![s].alive = TRUE]
      <4>1. sessions[s] \in SessionRecN
        BY DEF Typed
      <4>2. /\ sessions'[s] = [sessions[s] EXCEPT !.alive = TRUE]
            /\ \A o \in Session \ {s} : sessions'[o] = sessions[o]
        BY <3>2 DEF Typed
      <4>3. /\ sessions'[s].death = sessions[s].death
            /\ sessions'[s].state = sessions[s].state
            /\ sessions'[s].deferredClose = sessions[s].deferredClose
        BY <4>1, <4>2 DEF SessionRecN
      <4>4. Deaths(sessions'[s]) = Deaths(sessions[s])
        BY <4>3 DEF Deaths, Deferred
      <4> QED
        BY <4>2, <4>4
    <3> QED
      BY <2>1, <3>1, <3>2
  <2>6. \A p \in Session : LastLookup(p)' <= LastLookup(p) + 0
    <3> SUFFICES ASSUME NEW p \in Session, \E o \in Thread : thread'[o].x = p,
                        \A o \in App : refs'[o] # p
                 PROVE  (\E o \in Thread : thread[o].x = p) /\ \A o \in App : refs[o] # p
      BY DEF LastLookup
    <3> QED
      BY <1>0, <2>3, <2>4
  <2>7. \A p \in Session : Debt(p)' <= Debt(p)
    BY <1>0, <1>1, <2>5, <2>6
  <2>8. Creditors' \subseteq Creditors \cup {t}
    <3> SUFFICES ASSUME NEW o \in App, o # t,
                        refs'[o] # nil \/ thread'[o].pc = "drop" \/ Opening(thread'[o])
                 PROVE  refs[o] # nil \/ thread[o].pc = "drop" \/ Opening(thread[o])
      BY DEF Creditors, Opening
    <3> QED
      BY <2>1, <2>3 DEF Thread, Typed
  <2>9. \A o \in App : thread'[o].pc = "drop" => refs'[o] = nil
    BY <2>1, <2>3 DEF Credit, Thread, Typed
  <2> QED
    BY <2>2, <2>7, <2>8, <2>9, CreditCount
<1>3. CASE RegisterSession(t)
  <2> DEFINE s == thread[t].s
             q == IF user.state = "Active" THEN [At("revive", s) EXCEPT !.then = "ref"]
                  ELSE At("ref", s)
  <2>1. /\ thread[t].pc = "register" /\ thread' = [thread EXCEPT ![t] = q]
        /\ UNCHANGED <<sessions, refs, opened>>
    BY <1>3 DEF RegisterSession, counts
  <2>2. q.x = nil /\ q.pc \in {"revive", "ref"}
    BY DEF At, Idle
  <2> HIDE DEF q
  <2>3. thread'[t] = q /\ \A o \in Thread \ {t} : thread'[o] = thread[o]
    BY <1>0, <2>1 DEF Typed
  <2>4. Opening(thread[t])
    BY <2>1 DEF Opening
  <2>5. \A p \in Session : Deaths(sessions'[p]) <= Deaths(sessions[p])
    BY <1>0, <2>1
  <2> QED
    BY <1>0, <2>1, <2>2, <2>3, <2>4, <2>5, CreditThread
<1>4. CASE ExternalReference(t)
  <2>1. /\ thread[t].pc = "ref" /\ refs' = [refs EXCEPT ![t] = thread[t].s]
        /\ thread' = [thread EXCEPT ![t] = Idle] /\ UNCHANGED <<sessions, opened>>
    BY <1>4 DEF ExternalReference, counts
  <2>2. Opening(thread[t])
    BY <2>1 DEF Opening
  <2>3. m_sessions = thread[t].s
    BY <1>0, <2>2 DEF Registered
  <2>4. thread'[t] = Idle /\ \A o \in Thread \ {t} : thread'[o] = thread[o]
    BY <1>0, <2>1 DEF Typed
  <2>5. \A o \in App : refs[o] \in Session => refs'[o] = refs[o]
    <3>1. refs[t] \in Session => Referenced(refs[t])
      BY DEF Referenced
    <3>2. refs[t] \in Session => refs[t] = thread[t].s
      BY <2>3, <3>1 DEF Registered
    <3> QED
      BY <2>1, <3>2 DEF Typed
  <2>6. \A p \in Session : LastLookup(p)' <= LastLookup(p) + 0
    <3> SUFFICES ASSUME NEW p \in Session, \E o \in Thread : thread'[o].x = p,
                        \A o \in App : refs'[o] # p
                 PROVE  (\E o \in Thread : thread[o].x = p) /\ \A o \in App : refs[o] # p
      BY DEF LastLookup
    <3> QED
      BY <1>0, <2>4, <2>5, AtOutside
  <2>7. \A p \in Session : Debt(p)' <= Debt(p)
    <3>1. \A p \in Session : Deaths(sessions'[p]) = Deaths(sessions[p])
      BY <2>1
    <3> QED
      BY <1>0, <1>1, <2>6, <3>1
  <2>8. Creditors' \subseteq Creditors
    <3> SUFFICES ASSUME NEW o \in App,
                        refs'[o] # nil \/ thread'[o].pc = "drop" \/ Opening(thread'[o])
                 PROVE  refs[o] # nil \/ thread[o].pc = "drop" \/ Opening(thread[o])
      BY DEF Creditors, Opening
    <3> QED
      BY <2>1, <2>2, <2>4 DEF Thread, Typed
  <2>9. \A o \in App : thread'[o].pc = "drop" => refs'[o] = nil
    BY <2>1, <2>4, AtOutside DEF Credit, Thread, Typed
  <2> QED
    BY <2>1, <2>7, <2>8, <2>9, CreditCount
<1>5. CASE DropReference(t)
  <2> DEFINE kept == \/ \E o \in App \ {t} : refs[o] = refs[t]
                     \/ \E o \in Thread : thread[o].x = refs[t]
  <2>1. /\ refs[t] # nil /\ refs' = [refs EXCEPT ![t] = nil]
        /\ thread' = [thread EXCEPT ![t] = IF kept THEN Idle ELSE At("drop", refs[t])]
        /\ UNCHANGED <<sessions, opened>>
    BY <1>5 DEF DropReference, counts
  <2>2. /\ \A o \in Thread \ {t} : thread'[o] = thread[o]
        /\ thread'[t] = IF kept THEN Idle ELSE At("drop", refs[t])
        /\ refs'[t] = nil /\ \A o \in App \ {t} : refs'[o] = refs[o]
        /\ thread'[t].x = nil
    BY <1>0, <2>1, AtOutside DEF Typed
  <2>3. \A o \in App : thread'[o].pc = "drop" => refs'[o] = nil
    BY <2>2 DEF Credit, Thread
  <2>4. \A p \in Session : Deaths(sessions'[p]) = Deaths(sessions[p])
    BY <2>1
  <2>5. CASE kept
    <3>1. \A p \in Session : LastLookup(p)' <= LastLookup(p) + 1
      BY <1>0
    <3>2. \A p \in Session : Debt(p)' <= Debt(p) + 1
      BY <1>0, <1>1, <2>4, <3>1
    <3>3. t \in Creditors
      BY <2>1 DEF Creditors
    <3>4. Creditors' \subseteq Creditors \ {t}
      <4> SUFFICES ASSUME NEW o \in App,
                          refs'[o] # nil \/ thread'[o].pc = "drop" \/ Opening(thread'[o])
                   PROVE  o # t /\ (refs[o] # nil \/ thread[o].pc = "drop" \/ Opening(thread[o]))
        BY DEF Creditors, Opening
      <4> QED
        BY <2>2, <2>5, AtOutside DEF Thread
    <3> QED
      BY <2>1, <2>3, <3>2, <3>3, <3>4, CreditCount
  <2>6. CASE ~kept
    <3>1. \A p \in Session : LastLookup(p)' <= LastLookup(p) + 0
      <4> SUFFICES ASSUME NEW p \in Session, \E o \in Thread : thread'[o].x = p,
                          \A o \in App : refs'[o] # p
                   PROVE  (\E o \in Thread : thread[o].x = p) /\ \A o \in App : refs[o] # p
        BY DEF LastLookup
      <4> QED
        BY <1>0, <2>2, <2>6
    <3>2. \A p \in Session : Debt(p)' <= Debt(p)
      BY <1>0, <1>1, <2>4, <3>1
    <3>3. Creditors' \subseteq Creditors
      <4> SUFFICES ASSUME NEW o \in App,
                          refs'[o] # nil \/ thread'[o].pc = "drop" \/ Opening(thread'[o])
                   PROVE  refs[o] # nil \/ thread[o].pc = "drop" \/ Opening(thread[o])
        BY DEF Creditors, Opening
      <4> QED
        BY <2>1, <2>2 DEF Thread
    <3> QED
      BY <2>1, <2>3, <3>2, <3>3, CreditCount
  <2> QED
    BY <2>5, <2>6
<1> QED
  BY <1>2, <1>3, <1>4, <1>5

\* did_drop_external_reference, which uses up the call of get_session.
LEMMA DropCredit ==
    ASSUME Typed, AllGood, Typed', Credit, NEW t \in App, DidDropExternalReference(t)
    PROVE  Credit'
<1> DEFINE s == thread[t].s
           r == IF Referenced(s) THEN sessions[s] ELSE Close(sessions[s])
<1>1. /\ t \in Thread /\ thread[t].pc = "drop" /\ Section(t, s, r, waits, Idle)
      /\ UNCHANGED <<refs, opened>> /\ nil \notin Session
  BY SyncAssumption DEF DidDropExternalReference, outside, counts, Thread
<1>2. s \in Session /\ refs[t] = nil
  BY <1>1, ThreadFacts DEF Credit
<1>3. /\ \A o \in Thread \ {t} : thread'[o] = thread[o]
      /\ \/ thread'[t] = Idle
         \/ thread'[t].pc = "unregister" /\ thread'[t].x = nil /\ thread'[t].then = "idle"
  BY <1>1, SectionThread, PlacedAt
<1>4. thread'[t].x = nil /\ thread'[t].pc # "drop" /\ ~Opening(thread'[t])
  BY <1>3, AtOutside DEF Opening
<1>5. /\ \A o \in Session \ {s} : sessions'[o] = sessions[o]
      /\ sessions'[s] \in {r, ToInactive(sessions[s])}
  BY <1>1, <1>2, SectionRecords
<1>6. /\ \A p \in Session : Deaths(sessions[p]) \in Nat /\ Deaths(sessions'[p]) \in Nat
      /\ \A p \in Session : LastLookup(p) \in {0, 1} /\ LastLookup(p)' \in {0, 1}
  BY CreditTypes
<1>7. /\ Deaths(ToInactive(sessions[s])) <= Deaths(sessions[s])
      /\ Deaths(Close(sessions[s])) <= Deaths(sessions[s]) + 1
  BY <1>2, RecordFacts, DeathsFacts
<1>8. \A p \in Session : Deaths(sessions'[p]) <= Deaths(sessions[p]) + 1
  BY <1>2, <1>5, <1>6, <1>7
<1>9. \A p \in Session : LastLookup(p)' <= LastLookup(p)
  <2> SUFFICES ASSUME NEW p \in Session, \E o \in Thread : thread'[o].x = p,
                      \A o \in App : refs'[o] # p
               PROVE  (\E o \in Thread : thread[o].x = p) /\ \A o \in App : refs[o] # p
    BY DEF LastLookup
  <2> QED
    BY <1>1, <1>3, <1>4
<1>10. \A p \in Session : Debt(p)' <= Debt(p) + 1
  <2> SUFFICES ASSUME NEW p \in Session
               PROVE  Debt(p)' <= Debt(p) + 1
    OBVIOUS
  <2>1. Deaths(sessions'[p]) + LastLookup(p)' <= Deaths(sessions[p]) + LastLookup(p) + 1
    BY <1>6, <1>8, <1>9
  <2> QED
    BY <2>1, DebtLess
<1>11. t \in Creditors
  BY <1>1 DEF Creditors
<1>12. Creditors' \subseteq Creditors \ {t}
  <2> SUFFICES ASSUME NEW o \in App,
                      refs'[o] # nil \/ thread'[o].pc = "drop" \/ Opening(thread'[o])
               PROVE  o # t /\ (refs[o] # nil \/ thread[o].pc = "drop" \/ Opening(thread[o]))
    BY DEF Creditors, Opening
  <2> QED
    BY <1>1, <1>2, <1>3, <1>4 DEF Thread
<1>13. \A o \in App : thread'[o].pc = "drop" => refs'[o] = nil
  BY <1>1, <1>3, <1>4 DEF Credit, Thread
<1> QED
  BY <1>1, <1>10, <1>11, <1>12, <1>13, CreditCount


\* unregister_session: the looked-up reference closes the session at most once, in place
\* of the references that were dropped meanwhile.
LEMMA UnregisterCredit ==
    ASSUME Typed, AllGood, Typed', Credit, NEW t \in Thread,
           UnregisterSession(t) \/ UnregisterSessionEnd(t)
    PROVE  Credit'
<1>0. /\ nil \notin Session /\ thread[t] \in ThreadRec
      /\ \A p \in Session : Deaths(sessions[p]) \in Nat /\ Deaths(sessions'[p]) \in Nat
      /\ \A p \in Session : LastLookup(p) \in {0, 1} /\ LastLookup(p)' \in {0, 1}
      /\ \A p \in Session : Debt(p) \in Nat /\ Debt(p)' \in Nat
  BY CreditTypes, SyncAssumption DEF Typed
<1>1. ASSUME \A o \in Thread \ {t} : thread'[o] = thread[o],
             thread'[t].pc # "drop", ~Opening(thread'[t]),
             UNCHANGED <<refs, opened>>,
             \A p \in Session : Deaths(sessions'[p]) + LastLookup(p)'
                                  <= Deaths(sessions[p]) + LastLookup(p)
      PROVE  Credit'
  <2>1. \A p \in Session : Debt(p)' <= Debt(p)
    <3> SUFFICES ASSUME NEW p \in Session
                 PROVE  Debt(p)' <= Debt(p)
      OBVIOUS
    <3>1. Deaths(sessions'[p]) + LastLookup(p)' <= Deaths(sessions[p]) + LastLookup(p) + 0
      BY <1>0, <1>1
    <3>2. Debt(p)' <= Debt(p) + 0
      BY <3>1, DebtLess
    <3> QED
      BY <1>0, <3>2
  <2>2. Creditors' \subseteq Creditors
    <3> SUFFICES ASSUME NEW o \in App,
                        refs'[o] # nil \/ thread'[o].pc = "drop" \/ Opening(thread'[o])
                 PROVE  refs[o] # nil \/ thread[o].pc = "drop" \/ Opening(thread[o])
      BY DEF Creditors, Opening
    <3> QED
      BY <1>1 DEF Thread
  <2>3. \A o \in App : thread'[o].pc = "drop" => refs'[o] = nil
    BY <1>1 DEF Credit, Thread
  <2> QED
    BY <1>1, <2>1, <2>2, <2>3, CreditCount
<1>2. CASE UnregisterSession(t)
  <2>1. /\ thread[t].pc = "unregister" /\ thread[t].x = nil /\ thread[t].then # "ref"
        /\ UNCHANGED <<sessions, refs, opened>>
    BY <1>2, SyncAssumption DEF UnregisterSession, Typed, Placed, counts
  <2>2. CASE thread' = thread
    BY <1>0, <2>1, <2>2, CreditThread
  <2>3. CASE /\ LeftRegistered
             /\ thread' = [thread EXCEPT ![t].pc = "unregister_end", ![t].x = m_sessions]
    <3>1. thread'[t] = [thread[t] EXCEPT !.pc = "unregister_end", !.x = m_sessions]
          /\ \A o \in Thread \ {t} : thread'[o] = thread[o]
      BY <2>3 DEF Typed
    <3>2. /\ thread'[t].pc = "unregister_end" /\ thread'[t].x = m_sessions
          /\ thread'[t].then # "ref"
      BY <1>0, <2>1, <3>1 DEF ThreadRec
    <3>3. \A p \in Session : LastLookup(p)' <= LastLookup(p)
      <4> SUFFICES ASSUME NEW p \in Session, \E o \in Thread : thread'[o].x = p,
                          \A o \in App : refs'[o] # p
                   PROVE  (\E o \in Thread : thread[o].x = p) /\ \A o \in App : refs[o] # p
        BY DEF LastLookup
      <4>1. p = m_sessions => \E o \in Thread : thread[o].x = p
        BY <2>1, <2>3 DEF LeftRegistered, Referenced
      <4> QED
        BY <2>1, <3>1, <3>2, <4>1
    <3>4. \A p \in Session : Deaths(sessions'[p]) + LastLookup(p)'
                               <= Deaths(sessions[p]) + LastLookup(p)
      BY <1>0, <2>1, <3>3
    <3>5. ~Opening(thread'[t])
      BY <3>2 DEF Opening
    <3> QED
      BY <1>1, <2>1, <3>1, <3>2, <3>4, <3>5
  <2>4. CASE thread' = [thread EXCEPT ![t].pc = "abort"]
    <3>1. thread'[t] = [thread[t] EXCEPT !.pc = "abort"]
          /\ \A o \in Thread \ {t} : thread'[o] = thread[o]
      BY <2>4 DEF Typed
    <3>2. thread'[t].pc = "abort" /\ thread'[t].x = nil /\ thread'[t].then # "ref"
      BY <1>0, <2>1, <3>1 DEF ThreadRec
    <3>3. ~Opening(thread'[t])
      BY <3>2 DEF Opening
    <3>4. \A p \in Session : Deaths(sessions'[p]) <= Deaths(sessions[p])
      BY <1>0, <2>1
    <3> QED
      BY <2>1, <3>1, <3>2, <3>3, <3>4, CreditThread
  <2> QED
    BY <1>2, <2>2, <2>3, <2>4 DEF UnregisterSession
<1>3. CASE UnregisterSessionEnd(t)
  <2> DEFINE x == thread[t].x
             last == /\ \A o \in App : refs[o] # x
                     /\ \A o \in Thread \ {t} : thread[o].x # x
             cont == [thread[t] EXCEPT !.pc = "abort", !.x = nil]
             r == IF last THEN Close(sessions[x]) ELSE sessions[x]
  <2>1. /\ thread[t].pc = "unregister_end" /\ Section(t, x, r, waits, cont)
        /\ UNCHANGED <<refs, opened>>
    BY <1>3 DEF UnregisterSessionEnd, counts
  <2>2. x \in Session /\ thread[t].then # "ref"
    BY <1>0, <2>1, SyncAssumption DEF Typed, Placed, ThreadRec
  <2>3. cont.pc = "abort" /\ cont.x = nil /\ cont.then # "ref"
    BY <1>0, <2>2 DEF ThreadRec
  <2> HIDE DEF cont
  <2>4. /\ \A o \in Thread \ {t} : thread'[o] = thread[o]
        /\ thread'[t].x = nil /\ thread'[t].pc # "drop" /\ ~Opening(thread'[t])
    BY <2>1, <2>3, SectionThread DEF Opening
  <2>5. PICK y \in Session : y = x
    BY <2>2
  <2>6. /\ \A o \in Session \ {y} : sessions'[o] = sessions[o]
        /\ sessions'[y] \in {IF last THEN Close(sessions[y]) ELSE sessions[y],
                             ToInactive(sessions[y])}
    BY <2>1, <2>5, SectionRecords
  <2>7. /\ Deaths(ToInactive(sessions[y])) <= Deaths(sessions[y])
        /\ Deaths(Close(sessions[y])) <= Deaths(sessions[y]) + 1
    BY RecordFacts, DeathsFacts
  <2>8. \A p \in Session : LastLookup(p)' <= LastLookup(p)
    <3> SUFFICES ASSUME NEW p \in Session, \E o \in Thread : thread'[o].x = p,
                        \A o \in App : refs'[o] # p
                 PROVE  (\E o \in Thread : thread[o].x = p) /\ \A o \in App : refs[o] # p
      BY DEF LastLookup
    <3> QED
      BY <1>0, <2>1, <2>4
  <2>9. ASSUME last
        PROVE  LastLookup(y) = 1 /\ LastLookup(y)' = 0
    <3>1. LastLookup(y) = 1
      BY <2>5, <2>9 DEF LastLookup
    <3>2. \A o \in Thread : thread'[o].x # y
      BY <1>0, <2>4, <2>5, <2>9
    <3> QED
      BY <3>1, <3>2 DEF LastLookup
  <2>10. Deaths(sessions'[y]) + LastLookup(y)' <= Deaths(sessions[y]) + LastLookup(y)
    <3>1. CASE last
      <4>1. Deaths(sessions'[y]) <= Deaths(sessions[y]) + 1
        BY <1>0, <2>6, <2>7, <3>1
      <4> QED
        BY <1>0, <2>9, <3>1, <4>1
    <3>2. CASE ~last
      <4>1. Deaths(sessions'[y]) <= Deaths(sessions[y])
        BY <1>0, <2>6, <2>7, <3>2
      <4> QED
        BY <1>0, <2>8, <4>1
    <3> QED
      BY <3>1, <3>2
  <2>11. \A p \in Session : Deaths(sessions'[p]) + LastLookup(p)'
                              <= Deaths(sessions[p]) + LastLookup(p)
    <3> SUFFICES ASSUME NEW p \in Session, p # y
                 PROVE  Deaths(sessions'[p]) + LastLookup(p)'
                          <= Deaths(sessions[p]) + LastLookup(p)
      BY <2>10
    <3> QED
      BY <1>0, <2>6, <2>8
  <2> QED
    BY <1>1, <2>1, <2>4, <2>11
<1> QED
  BY <1>2, <1>3

\* The other calls of the application.
LEMMA AppCredit ==
    ASSUME Typed, AllGood, Typed', Credit, NEW t \in App,
           \/ UserLogOut(t) \/ SessionLogOut(t) \/ UserLogOutEnd(t) \/ UpdateRefreshToken(t)
           \/ Suspend(t) \/ Resume(t) \/ RefreshAccessToken(t)
           \/ Commit(t) \/ Announce(t)
           \/ \E w \in Waiter : WaitForCompletion(t, w)
    PROVE  Credit'
<1>0. /\ t \in Thread /\ Idle.x = nil /\ Idle.pc = "idle" /\ Idle.then = "idle"
      /\ \A pc, s : At(pc, s).x = nil /\ At(pc, s).pc = pc /\ At(pc, s).then = "idle"
      /\ \A s \in Session : Deaths(sessions[s]) \in Nat
  BY PlacedAt, CreditTypes DEF Thread
<1>1. UNCHANGED refs /\ UNCHANGED opened
  BY DEF UserLogOut, SessionLogOut, UserLogOutEnd, UpdateRefreshToken, Suspend, Resume,
         RefreshAccessToken, Commit, Announce, WaitForCompletion, outside, counts
<1>2. ASSUME NEW s \in Session, NEW r, NEW W, Section(t, s, r, W, Idle),
             Deaths(r) <= Deaths(sessions[s])
      PROVE  Credit'
  BY <1>0, <1>1, <1>2, CreditSection
<1>3. CASE UserLogOut(t) \/ UserLogOutEnd(t) \/ UpdateRefreshToken(t)
  <2>1. /\ UNCHANGED sessions
        /\ \/ thread' = thread
           \/ \E q \in {Idle, At("logout", user.active), At("revive", user.waiting)} :
                thread' = [thread EXCEPT ![t] = q]
    BY <1>3 DEF UserLogOut, UserLogOutEnd, UpdateRefreshToken
  <2>2. \A s \in Session : Deaths(sessions'[s]) <= Deaths(sessions[s])
    BY <1>0, <2>1
  <2>3. CASE thread' = thread
    BY <1>0, <1>1, <2>2, <2>3, CreditThread
  <2>4. CASE thread' # thread
    <3>1. PICK q \in {Idle, At("logout", user.active), At("revive", user.waiting)} :
             thread' = [thread EXCEPT ![t] = q]
      BY <2>1, <2>4
    <3>2. q.x = nil /\ q.pc # "drop" /\ ~Opening(q)
      BY <1>0, <3>1, AtOutside
    <3>3. thread'[t] = q /\ \A o \in Thread \ {t} : thread'[o] = thread[o]
      BY <1>0, <3>1 DEF Typed
    <3> QED
      BY <1>0, <1>1, <2>2, <3>2, <3>3, CreditThread
  <2> QED
    BY <2>3, <2>4
<1>4. CASE SessionLogOut(t)
  <2>1. /\ Section(t, thread[t].s, LogOut(sessions[thread[t].s]), waits,
                   At("logout_end", thread[t].s))
        /\ thread[t].s \in Session
    BY <1>0, <1>4, ThreadFacts DEF SessionLogOut
  <2>2. Deaths(LogOut(sessions[thread[t].s])) <= Deaths(sessions[thread[t].s])
    BY <2>1, RecordFacts, DeathsFacts
  <2> QED
    BY <1>0, <1>1, <2>1, <2>2, CreditSection
<1>5. CASE Suspend(t) \/ Resume(t)
  <2> DEFINE s == refs[t]
  <2>1. /\ s \in Session
        /\ \E r \in {LogOut(sessions[s]), Revive(sessions[s])} : Section(t, s, r, waits, Idle)
    BY <1>5 DEF Suspend, Resume, Typed
  <2>2. \A r \in {LogOut(sessions[s]), Revive(sessions[s])} : Deaths(r) <= Deaths(sessions[s])
    BY <2>1, RecordFacts, DeathsFacts
  <2> QED
    BY <1>2, <2>1, <2>2
<1>6. CASE RefreshAccessToken(t)
  <2>1. PICK s \in Session :
          /\ sessions[s].state = "waiting"
          /\ Section(t, s, Refreshed(sessions[s]),
                     waits \cup {Handler(s, w) : w \in sessions[s].packages}, Idle)
    BY <1>6 DEF RefreshAccessToken
  <2>2. Deaths(Refreshed(sessions[s])) <= Deaths(sessions[s])
    BY <2>1, RecordFacts, DeathsFacts
  <2> QED
    BY <1>2, <2>1, <2>2
<1>7. ASSUME NEW w \in Waiter, WaitForCompletion(t, w)
      PROVE  Credit'
  <2> DEFINE s == refs[t]
             r == sessions[s]
             P == r.packages \cup {w}
             q == [r EXCEPT !.packages = P]
  <2>1. /\ s \in Session
        /\ \/ \E W : Section(t, s, r, W, Idle)
           \/ \E W : Section(t, s, q, W, Idle)
    BY <1>7 DEF WaitForCompletion, Typed
  <2>2. r \in SessionRecN
    BY <2>1 DEF Typed
  <2> HIDE DEF P
  <2>3. q.death = r.death /\ q.state = r.state /\ q.deferredClose = r.deferredClose
    BY <2>2 DEF SessionRecN
  <2>4. Deaths(q) = Deaths(r) /\ Deaths(r) \in Nat
    BY <1>0, <2>1, <2>3 DEF Deaths, Deferred
  <2> HIDE DEF q
  <2> QED
    BY <1>2, <2>1, <2>4
<1>8. CASE Announce(t)
  <2> DEFINE s == thread[t].s
  <2>1. s \in Session /\ \E v \in Nat : Section(t, s, Notified(sessions[s], v), waits, Idle)
    BY <1>8, AnnounceFacts
  <2>2. \A v \in Nat : Deaths(Notified(sessions[s], v)) <= Deaths(sessions[s])
    BY <2>1, RecordFacts, DeathsFacts
  <2> QED
    BY <1>2, <2>1, <2>2
<1>9. CASE Commit(t)
  <2> DEFINE q == [At("announce", refs[t]) EXCEPT !.v = version + 1]
  <2>1. /\ thread' = [thread EXCEPT ![t] = q] /\ q.x = nil /\ q.pc = "announce"
        /\ q.then = "idle" /\ sessions' = sessions
    BY <1>9, CommitThread DEF Commit
  <2> HIDE DEF q
  <2>2. thread'[t] = q /\ \A o \in Thread \ {t} : thread'[o] = thread[o]
    BY <1>0, <2>1 DEF Typed
  <2>3. \A s \in Session : Deaths(sessions'[s]) <= Deaths(sessions[s])
    BY <1>0, <2>1
  <2>4. ~Opening(thread'[t])
    BY <2>1, <2>2 DEF Opening
  <2> QED
    BY <1>0, <1>1, <2>1, <2>2, <2>3, <2>4, CreditThread
<1> QED
  BY <1>3, <1>4, <1>5, <1>6, <1>7, <1>8, <1>9

\* revive_if_needed and the abortion of the queued handlers.
LEMMA ThreadCredit ==
    ASSUME Typed, AllGood, Typed', Credit, NEW t \in Thread,
           ReviveIfNeeded(t) \/ AbortPackages(t)
    PROVE  Credit'
<1>0. /\ \A pc, s : At(pc, s).x = nil /\ At(pc, s).pc = pc /\ At(pc, s).then = "idle"
      /\ \A s \in Session : Deaths(sessions[s]) \in Nat
      /\ thread[t].then \notin {"drop", "register"}
  BY PlacedAt, CreditTypes DEF Typed, ThreadRec
<1>1. CASE ReviveIfNeeded(t)
  <2>1. /\ Section(t, thread[t].s, Revive(sessions[thread[t].s]), waits,
                   At(thread[t].then, thread[t].s))
        /\ thread[t].s \in Session /\ UNCHANGED refs /\ UNCHANGED opened
    BY <1>1, ThreadFacts DEF ReviveIfNeeded, outside, counts
  <2>2. Deaths(Revive(sessions[thread[t].s])) <= Deaths(sessions[thread[t].s])
    BY <2>1, RecordFacts, DeathsFacts
  <2>3. thread[t].then \notin {"register", "ref"} \/ Opening(thread[t])
    BY <1>0 DEF Opening
  <2> QED
    BY <1>0, <2>1, <2>2, <2>3, CreditSection
<1>2. CASE AbortPackages(t)
  <2>1. /\ thread' = [thread EXCEPT ![t] = At(thread[t].then, thread[t].s)]
        /\ UNCHANGED <<sessions, refs, opened>> /\ thread[t].then # "ref"
    BY <1>2 DEF AbortPackages, counts, Typed, Placed
  <2>2. thread'[t] = At(thread[t].then, thread[t].s)
        /\ \A o \in Thread \ {t} : thread'[o] = thread[o]
    BY <2>1 DEF Typed
  <2>3. thread'[t].x = nil /\ thread'[t].pc # "drop" /\ ~Opening(thread'[t])
    BY <1>0, <2>1, <2>2, AtOutside
  <2>4. \A s \in Session : Deaths(sessions'[s]) <= Deaths(sessions[s])
    BY <1>0, <2>1
  <2> QED
    BY <2>1, <2>2, <2>3, <2>4, CreditThread
<1> QED
  BY <1>1, <1>2

\* The event loop and the destructor.
LEMMA LoopCredit ==
    ASSUME Typed, AllGood, Typed', Credit, LoopNext \/ \E s \in Session : Destroy(s)
    PROVE  Credit'
<1>0. /\ loop \in Thread /\ Idle.x = nil /\ Idle.pc = "idle" /\ Idle.then = "idle"
      /\ \A pc, s : At(pc, s).x = nil /\ At(pc, s).pc = pc /\ At(pc, s).then = "idle"
      /\ \A s \in Session : Deaths(sessions[s]) \in Nat
  BY PlacedAt, CreditTypes DEF Thread
<1>1. UNCHANGED refs /\ UNCHANGED opened
  BY DEF LoopNext, UploadVersion, HandlerCalled, UploadCompleted, HandleError,
         AccessTokenExpired, CancelPendingWaits, Invalidate, ResetSession, Destroy,
         outside, counts
<1>2. ASSUME thread' = thread, sessions' = sessions
      PROVE  Credit'
  BY <1>0, <1>1, <1>2, CreditThread
<1>3. ASSUME NEW q, thread' = [thread EXCEPT ![loop] = q],
             q.x = nil, q.pc # "drop", ~Opening(q),
             \A s \in Session : Deaths(sessions'[s]) <= Deaths(sessions[s])
      PROVE  Credit'
  <2>1. thread'[loop] = q /\ \A o \in Thread \ {loop} : thread'[o] = thread[o]
    BY <1>0, <1>3 DEF Typed
  <2> QED
    BY <1>0, <1>1, <1>3, <2>1, CreditThread
<1>4. ASSUME NEW s \in Session, NEW W, EnterInactive(loop, s, W, Idle)
      PROVE  Credit'
  <2> DEFINE q == [At("unregister", s) EXCEPT !.then = Idle.pc,
                                              !.held = sessions[s].packages \cup Idle.held]
  <2>1. thread' = [thread EXCEPT ![loop] = q]
        /\ sessions' = [sessions EXCEPT ![s] = ToInactive(sessions[s])]
    BY <1>4 DEF EnterInactive
  <2>2. q.pc = "unregister" /\ q.x = nil /\ q.then = "idle"
    BY DEF At, Idle
  <2> HIDE DEF q
  <2>3. ~Opening(q)
    BY <2>2 DEF Opening
  <2>4. Deaths(ToInactive(sessions[s])) <= Deaths(sessions[s])
    BY RecordFacts, DeathsFacts
  <2>5. \A p \in Session : Deaths(sessions'[p]) <= Deaths(sessions[p])
    BY <1>0, <2>1, <2>4 DEF Typed
  <2> QED
    BY <1>3, <2>1, <2>2, <2>3, <2>5
<1>5. CASE UploadVersion
  BY <1>2, <1>5 DEF UploadVersion
<1>6. ASSUME NEW c \in waits, HandlerCalled(c) \/ UploadCompleted(c)
      PROVE  Credit'
  <2>1. c.s \in Session
    BY DEF Typed, WaitRec
  <2> QED
    BY <1>2, <1>4, <1>6, <2>1 DEF HandlerCalled, UploadCompleted
<1>7. ASSUME NEW s \in Session, NEW kind \in ErrorKinds, HandleError(s, kind)
      PROVE  Credit'
  <2>1. CASE EnterInactive(loop, s, waits, Idle)
    BY <1>4, <2>1
  <2>2. CASE thread' = [thread EXCEPT ![loop] = At(kind, s)] /\ UNCHANGED sessions
    <3>1. At(kind, s).x = nil /\ At(kind, s).pc # "drop" /\ ~Opening(At(kind, s))
      BY AtOutside, SyncAssumption
    <3>2. \A p \in Session : Deaths(sessions'[p]) <= Deaths(sessions[p])
      BY <1>0, <2>2
    <3> QED
      BY <1>3, <2>2, <3>1, <3>2
  <2> QED
    BY <1>7, <2>1, <2>2 DEF HandleError
<1>8. CASE AccessTokenExpired
  <2> DEFINE s == thread[loop].s
             r == IF sessions[s].state = "active" THEN ToWaiting(sessions[s])
                  ELSE sessions[s]
  <2>1. Section(loop, s, r, waits, Idle) /\ s \in Session
    BY <1>0, <1>8, ThreadFacts DEF AccessTokenExpired
  <2>2. Deaths(ToWaiting(sessions[s])) <= Deaths(sessions[s])
    BY <2>1, RecordFacts, DeathsFacts
  <2>3. Deaths(r) <= Deaths(sessions[s])
    BY <1>0, <2>1, <2>2
  <2> HIDE DEF r
  <2> QED
    BY <1>0, <1>1, <2>1, <2>3, CreditSection
<1>9. CASE CancelPendingWaits
  <2> DEFINE s == thread[loop].s
             next == IF thread[loop].pc = "auth" THEN "invalidate" ELSE "idle"
             q == [At("abort", s) EXCEPT !.then = next, !.held = sessions[s].packages]
  <2>1. /\ thread' = [thread EXCEPT ![loop] = q] /\ s \in Session
        /\ sessions' = [sessions EXCEPT ![s].packages = {}]
    BY <1>0, <1>9, ThreadFacts DEF CancelPendingWaits
  <2>2. q.x = nil /\ q.pc = "abort" /\ q.then # "ref"
    BY DEF At, Idle
  <2> HIDE DEF q
  <2>3. ~Opening(q)
    BY <2>2 DEF Opening
  <2>4. \A p \in Session : Deaths(sessions'[p]) <= Deaths(sessions[p])
    <3>1. sessions[s] \in SessionRecN
      BY <2>1 DEF Typed
    <3>2. /\ sessions'[s] = [sessions[s] EXCEPT !.packages = {}]
          /\ \A o \in Session \ {s} : sessions'[o] = sessions[o]
      BY <2>1 DEF Typed
    <3>3. /\ sessions'[s].death = sessions[s].death
          /\ sessions'[s].state = sessions[s].state
          /\ sessions'[s].deferredClose = sessions[s].deferredClose
      BY <3>1, <3>2 DEF SessionRecN
    <3>4. Deaths(sessions'[s]) = Deaths(sessions[s])
      BY <3>3 DEF Deaths, Deferred
    <3> QED
      BY <1>0, <2>1, <3>2, <3>4
  <2> QED
    BY <1>3, <2>1, <2>2, <2>3, <2>4
<1>10. CASE Invalidate
  <2>1. thread' = [thread EXCEPT ![loop] = Idle] /\ UNCHANGED sessions
    BY <1>10 DEF Invalidate
  <2>2. \A p \in Session : Deaths(sessions'[p]) <= Deaths(sessions[p])
    BY <1>0, <2>1
  <2> QED
    BY <1>0, <1>3, <2>1, <2>2, AtOutside
<1>11. CASE ResetSession
  <2>1. EnterInactive(loop, thread[loop].s, waits, Idle) /\ thread[loop].s \in Session
    BY <1>0, <1>11, ThreadFacts DEF ResetSession
  <2> QED
    BY <1>4, <2>1
<1>12. ASSUME NEW s \in Session, Destroy(s)
       PROVE  Credit'
  <2>1. sessions' = [sessions EXCEPT ![s] = NoSession] /\ thread' = thread
    BY <1>12 DEF Destroy
  <2>2. Deaths(NoSession) = 0
    BY DEF Deaths, Deferred, NoSession
  <2>3. \A p \in Session : Deaths(sessions'[p]) <= Deaths(sessions[p])
    BY <1>0, <2>1, <2>2 DEF Typed
  <2> QED
    BY <1>0, <1>1, <2>1, <2>3, CreditThread
<1> QED
  BY <1>5, <1>6, <1>7, <1>8, <1>9, <1>10, <1>11, <1>12 DEF LoopNext

\* Every step keeps Credit.
LEMMA CreditNext ==
    ASSUME Typed, AllGood, Announcing, Registered, Credit, [Next]_vars
    PROVE  Credit'
<1>0. Typed'
  BY TypedNext
<1>1. CASE UNCHANGED vars
  <2>1. UNCHANGED <<sessions, thread, refs, opened>>
    BY <1>1 DEF vars, outside, counts
  <2>2. \A s \in Session : Deaths(sessions'[s]) <= Deaths(sessions[s])
    BY <1>0, <2>1, CreditTypes
  <2>3. loop \in Thread
    BY DEF Thread
  <2> QED
    BY <1>0, <2>1, <2>2, <2>3, CreditThread
<1>2. ASSUME NEW t \in App, AppNext(t)
      PROVE  Credit'
  BY <1>0, <1>2, ReferenceCredit, DropCredit, AppCredit DEF AppNext
<1>3. ASSUME NEW t \in Thread,
             \/ ReviveIfNeeded(t) \/ UnregisterSession(t)
             \/ UnregisterSessionEnd(t) \/ AbortPackages(t)
      PROVE  Credit'
  BY <1>0, <1>3, ThreadCredit, UnregisterCredit
<1> QED
  BY <1>0, <1>1, <1>2, <1>3, LoopCredit DEF Next

\* The members keep their types, and m_death_count never exceeds the calls of
\* get_session: no sequence of revivals, log outs and token refreshes makes a session
\* die twice for the same dropped reference (TypeOK).
THEOREM SyncTypes == Spec => []TypeOK
<1>1. Init => Registered
  BY AtOutside, SyncAssumption DEF Init, Registered, Referenced
<1>2. Init => Credit
  <2> SUFFICES ASSUME Init
               PROVE  Credit
    OBVIOUS
  <2>1. Creditors = {}
    BY AtOutside DEF Init, Creditors, Thread
  <2>2. Cardinality(Creditors) = 0
    BY <2>1, FS_EmptySet
  <2>3. \A s \in Session : Debt(s) = 0
    <3>1. \A s \in Session : Deaths(sessions[s]) = 0
      BY DEF Init, NoSession, Deaths, Deferred
    <3>2. \A s \in Session : LastLookup(s) = 0
      BY PlacedAt, SyncAssumption DEF Init, LastLookup
    <3> QED
      BY <3>1, <3>2 DEF Debt
  <2>4. \A t \in App : thread[t].pc = "drop" => refs[t] = nil
    BY DEF Init
  <2> QED
    BY <2>2, <2>3, <2>4 DEF Credit, Init
<1>3. Typed /\ AllGood /\ Announcing /\ Registered /\ Credit /\ [Next]_vars =>
        (Registered /\ Credit)'
  BY RegisteredNext, CreditNext
<1>4. Typed /\ AllGood /\ Credit => TypeOK
  <2> SUFFICES ASSUME Typed, AllGood, Credit
               PROVE  TypeOK
    OBVIOUS
  <2>1. ASSUME NEW s \in Session
        PROVE  sessions[s] \in SessionRec
    <3>1. /\ sessions[s] \in SessionRecN /\ Good(sessions[s], owed[s], version, stop_policy)
          /\ version \in 0..MaxVersion /\ opened \in 0..MaxOpens
          /\ MaxVersion \in Nat /\ MaxOpens \in Nat
      BY SyncAssumption DEF Typed, AllGood
    <3>2. IsFiniteSet(Creditors) /\ Cardinality(Creditors) \in Nat
      <4>1. Creditors \in SUBSET App
        BY DEF Creditors
      <4> QED
        BY <4>1, SyncAssumption, FS_Subset, FS_CardinalityType
    <3>3. Deferred(sessions[s]) \in {0, 1} /\ LastLookup(s) \in {0, 1}
          /\ sessions[s].death \in Nat
      BY <3>1 DEF Deferred, LastLookup, SessionRecN
    <3>4. sessions[s].death + Deferred(sessions[s]) + LastLookup(s)
             + Cardinality(Creditors) <= opened
      BY DEF Credit, Debt, Deaths
    <3>5. sessions[s].death \in 0..MaxOpens
      BY <3>1, <3>2, <3>3, <3>4
    <3>6. sessions[s].known \in 0..MaxVersion /\ sessions[s].deferred \in 0..MaxVersion
      BY <3>1 DEF Good, SessionRecN
    <3> QED
      BY <3>1, <3>5, <3>6 DEF SessionRecN, SessionRec
  <2>2. sessions \in [Session -> SessionRec]
    BY <2>1 DEF Typed
  <2> QED
    BY <2>2 DEF Typed, TypeOK
<1>5. Spec => [](Registered /\ Credit)
  BY <1>1, <1>2, <1>3, SyncRecords, PTL DEF Spec
<1> QED
  BY <1>4, <1>5, SyncRecords, PTL
================================================================================
