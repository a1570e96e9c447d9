------------------------ MODULE CollectionNotifierProofs ------------------------
(****************************************************************************)
(* Proofs about CollectionNotifier, for any number of notifiers, versions   *)
(* and callbacks.                                                           *)
(*                                                                          *)
(* The invariants come in layers.  Typed bounds every version by that of    *)
(* the file and every index by the number of callbacks; it holds whatever   *)
(* the application does.  Delivery relates the thread to the records: only  *)
(* the notifier that is calling has an index, the tokens are in the order   *)
(* they were given, so that the callbacks which were there when a notifier  *)
(* was packaged are a prefix of its vector, and m_callback_count is the     *)
(* length of that prefix.  It needs KeepsFresh.                             *)
(*                                                                          *)
(* ToldExactly needs more, and Plain.  Opened and Abreast are about the     *)
(* worker: it could open the file if a notifier has run, and those that     *)
(* live and have run are at one version.  Listing, Carried, Reaches and     *)
(* Held relate the package to the Realm: which version it has, whom it      *)
(* holds, and that the write lock keeps notifiers and worker at the latest  *)
(* version.  On that ground Fine is proved of each callback: what it is to  *)
(* be told and what has accumulated for it cover the versions since its     *)
(* last call but the hidden ones (Accounts), a package that is discarded    *)
(* held nothing (Calm), and skip_next drops hidden versions only, or is set *)
(* for the transaction about to be committed (Skipping).  Accounts and Calm *)
(* need each other.                                                         *)
(*                                                                          *)
(* What the code does to a record (Removed, HandedOver, Packaged, a step of *)
(* for_each_callback) is stated field by field in lemmas first.             *)
(****************************************************************************)
EXTENDS CollectionNotifier, FiniteSetTheorems, WellFoundedInduction, TLAPS

Callbacks(n) == notifier[n].callbacks

\* What holds of a notifier record r when the last version of the file is v.
Sound(r, v) ==
    /\ r \in NotifierRec
    /\ r.ver <= v
    /\ Len(r.callbacks) <= r.next /\ r.index <= Len(r.callbacks)
    /\ r.have = (r.callbacks # <<>>)

\* The types, with the version of the file as a bound of the others.
Typed ==
    /\ version \in Version /\ changed \subseteq 1..version /\ read \in 1..version
    /\ writing \in BOOLEAN /\ woken \in BOOLEAN /\ posted \in BOOLEAN
    /\ async_error \in BOOLEAN /\ opened \subseteq {"advancer", "notifier"}
    /\ notifier \in [Notifier -> NotifierRec]
    /\ \A n \in Notifier : Sound(notifier[n], version)
    /\ target \in TargetRec /\ target.ver <= version
    /\ worker \in WorkerRec /\ worker.ver <= version /\ worker.skip <= version
    /\ worker.pc # "idle" => worker.ver > 0
    /\ worker.pc = "skip" => worker.skip > 0
    /\ skip_version \in 0..version

----------------------------------------------------------------------------
(* The operations on a notifier record.                                     *)

\* A non-empty set of positions has a first one.
LEMMA FirstExists ==
    ASSUME NEW S \in SUBSET Nat, S # {}
    PROVE  \E j \in S : \A k \in S : j <= k
<1> DEFINE R == OpToRel(<, Nat)
<1>1. IsWellFoundedOn(R, Nat)
  BY NatLessThanWellFounded, Zenon
<1>2. \A a, b \in Nat : a < b => <<a, b>> \in R
  BY Zenon DEF OpToRel
<1> HIDE DEF R
<1>3. PICK x \in S : \A y \in S : <<y, x>> \notin R
  BY <1>1, WFMin
<1>4. \A y \in S : ~(y < x)
  BY <1>2, <1>3
<1> QED
  BY <1>3, <1>4

\* Without drops one element.
LEMMA WithoutFacts ==
    ASSUME NEW D, NEW s \in Seq(D), NEW p \in 1..Len(s)
    PROVE  /\ Without(s, p) \in Seq(D)
           /\ Len(Without(s, p)) = Len(s) - 1
           /\ \A j \in 1..(Len(s) - 1) :
                Without(s, p)[j] = IF j < p THEN s[j] ELSE s[j + 1]
<1> DEFINE a == SubSeq(s, 1, p - 1)
           b == SubSeq(s, p + 1, Len(s))
<1>1. a \in Seq(D) /\ Len(a) = p - 1 /\ \A j \in 1..(p - 1) : a[j] = s[j]
  OBVIOUS
<1>2. b \in Seq(D) /\ Len(b) = Len(s) - p /\ \A j \in 1..(Len(s) - p) : b[j] = s[p + j]
  OBVIOUS
<1>3. Without(s, p) = a \o b
  BY DEF Without
<1> HIDE DEF a, b
<1>4. a \o b \in Seq(D) /\ Len(a \o b) = Len(s) - 1
  <2>1. a \in Seq(D) /\ b \in Seq(D)
    BY <1>1, <1>2
  <2>2. a \o b \in Seq(D)
    BY <2>1
  <2>3. Len(a \o b) = Len(a) + Len(b)
    BY <2>1
  <2> QED
    BY <1>1, <1>2, <2>2, <2>3
<1>5. ASSUME NEW j \in 1..(Len(s) - 1)
      PROVE  (a \o b)[j] = IF j < p THEN s[j] ELSE s[j + 1]
  <2>1. CASE j < p
    BY <1>1, <1>2, <2>1
  <2>2. CASE ~(j < p)
    <3>1. (a \o b)[j] = b[j - (p - 1)]
      BY <1>1, <1>2, <2>2
    <3>2. j - (p - 1) \in 1..(Len(s) - p) /\ p + (j - (p - 1)) = j + 1
      BY <2>2
    <3> QED
      BY <1>2, <2>2, <3>1, <3>2
  <2> QED
    BY <2>1, <2>2
<1> QED
  BY <1>3, <1>4, <1>5

\* What stays of a notifier record when its callbacks change.
Kept(r, s) ==
    /\ s.where = r.where /\ s.alive = r.alive /\ s.ver = r.ver
    /\ s.has_run = r.has_run /\ s.next = r.next

\* s is r without the callback at position p.
RemovedAt(r, s, p) ==
    /\ Kept(r, s) /\ s.fresh = r.fresh /\ s.count = r.count - 1
    /\ s.index = IF r.index >= p THEN r.index - 1 ELSE r.index
    /\ Len(s.callbacks) = Len(r.callbacks) - 1
    /\ \A j \in 1..Len(s.callbacks) :
         s.callbacks[j] = IF j < p THEN r.callbacks[j] ELSE r.callbacks[j + 1]

\* remove_callback.
LEMMA RemovedFacts ==
    ASSUME NEW v \in Int, NEW r, Sound(r, v), NEW k \in Tokens(r)
    PROVE  /\ Sound(Removed(r, k), v)
           /\ \E p \in 1..Len(r.callbacks) :
                r.callbacks[p].token = k /\ RemovedAt(r, Removed(r, k), p)
<1> DEFINE p == Position(r, k)
           rest == Without(r.callbacks, p)
           s == [r EXCEPT !.callbacks = rest,
                          !.index = IF @ >= p THEN @ - 1 ELSE @,
                          !.count = @ - 1, !.have = rest # <<>>]
<1>1. r \in NotifierRec /\ r.callbacks \in Seq(CallbackRec)
  BY DEF Sound, NotifierRec
<1>2. p \in 1..Len(r.callbacks) /\ r.callbacks[p].token = k
  BY <1>1 DEF Tokens, Position
<1>3. /\ rest \in Seq(CallbackRec) /\ Len(rest) = Len(r.callbacks) - 1
      /\ \A j \in 1..Len(rest) : rest[j] = IF j < p THEN r.callbacks[j] ELSE r.callbacks[j + 1]
  <2> HIDE DEF p
  <2> QED
    BY <1>1, <1>2, WithoutFacts
<1>4. Removed(r, k) = s
  BY DEF Removed
<1> HIDE DEF p, rest
<1>5. s \in NotifierRec
  <2>1. r.index \in 0..MaxTokens /\ r.count \in Int /\ MaxTokens \in Nat
    BY <1>1, NotifierAssumption DEF NotifierRec
  <2>2. (IF r.index >= p THEN r.index - 1 ELSE r.index) \in 0..MaxTokens
    BY <1>2, <2>1
  <2>3. r.count - 1 \in Int /\ (rest # <<>>) \in BOOLEAN
    BY <2>1
  <2> QED
    BY <1>1, <1>3, <2>2, <2>3 DEF NotifierRec
<1>6. /\ s.where = r.where /\ s.alive = r.alive /\ s.ver = r.ver
      /\ s.has_run = r.has_run /\ s.next = r.next
      /\ s.fresh = r.fresh /\ s.count = r.count - 1 /\ s.callbacks = rest
      /\ s.index = IF r.index >= p THEN r.index - 1 ELSE r.index
      /\ s.have = (rest # <<>>)
  BY <1>1 DEF NotifierRec
<1> HIDE DEF s
<1>7. s.index <= Len(rest) /\ Len(rest) <= s.next /\ s.ver <= v
  <2>1. r.index \in Nat /\ r.index <= Len(r.callbacks) /\ Len(r.callbacks) <= r.next
        /\ r.next \in Nat /\ r.ver <= v
    BY <1>1 DEF Sound, NotifierRec
  <2> QED
    BY <1>2, <1>3, <1>6, <2>1
<1>8. Sound(s, v)
  BY <1>5, <1>6, <1>7 DEF Sound
<1>9. RemovedAt(r, s, p)
  BY <1>3, <1>6 DEF RemovedAt, Kept
<1> QED
  BY <1>2, <1>4, <1>8, <1>9

\* d is c with more changes, or with the changes dropped that were to be skipped.
More(c, d, changes) ==
    /\ d.token = c.token /\ d.todo = c.todo /\ d.initial = c.initial
    /\ d.at = c.at /\ d.hidden = c.hidden /\ d.skip = FALSE
    /\ d.acc = IF c.skip THEN c.acc ELSE c.acc \cup changes

\* r brought to version v is s.
Reached(r, s, v) ==
    /\ s.alive = r.alive /\ s.next = r.next
    /\ s.index = r.index /\ s.count = r.count /\ s.fresh = r.fresh
    /\ s.ver = v /\ s.has_run = TRUE
    /\ Len(s.callbacks) = Len(r.callbacks)
    /\ \A i \in 1..Len(r.callbacks) :
         More(r.callbacks[i], s.callbacks[i], Between(r.ver, v))

\* prepare_handover: the iteration and the tokens stay.
LEMMA HandedOverFacts ==
    ASSUME Typed, NEW v \in 1..version, NEW r, Sound(r, version)
    PROVE  /\ Sound(HandedOver(r, v), version)
           /\ HandedOver(r, v).where = r.where
           /\ Reached(r, HandedOver(r, v), v)
<1> DEFINE ch == Between(r.ver, v)
           cs == [i \in DOMAIN r.callbacks |-> AddChanges(r.callbacks[i], ch)]
           s == [r EXCEPT !.ver = v, !.has_run = TRUE, !.callbacks = cs]
<1>1. r \in NotifierRec /\ r.callbacks \in Seq(CallbackRec)
  BY DEF Sound, NotifierRec
<1>2. ch \subseteq Version
  <2>1. ch \subseteq changed
    BY DEF Between
  <2>2. 1..version \subseteq Version
    BY NotifierAssumption DEF Typed, Version
  <2> QED
    BY <2>1, <2>2 DEF Typed
<1>3. HandedOver(r, v) = s
  BY <1>1 DEF HandedOver, NotifierRec
<1> HIDE DEF ch
<1>4. ASSUME NEW c \in CallbackRec
      PROVE  AddChanges(c, ch) \in CallbackRec /\ More(c, AddChanges(c, ch), ch)
  BY <1>2 DEF AddChanges, More, CallbackRec
<1>5. \A i \in 1..Len(r.callbacks) : r.callbacks[i] \in CallbackRec
  BY <1>1
<1>6. DOMAIN r.callbacks = 1..Len(r.callbacks) /\ Len(r.callbacks) \in Nat
  BY <1>1
<1>7. cs \in [1..Len(r.callbacks) -> CallbackRec]
  BY <1>4, <1>5, <1>6
<1>8. cs \in Seq(CallbackRec) /\ Len(cs) = Len(r.callbacks)
  BY <1>6, <1>7
<1>9. \A i \in 1..Len(r.callbacks) : More(r.callbacks[i], cs[i], ch)
  BY <1>4, <1>5, <1>6
<1> HIDE DEF cs
<1>10. v \in 0..MaxVersion
  BY NotifierAssumption DEF Typed, Version
<1>11. s \in NotifierRec
  BY <1>1, <1>8, <1>10 DEF NotifierRec
<1>12. /\ s.where = r.where /\ s.alive = r.alive /\ s.next = r.next
       /\ s.index = r.index /\ s.count = r.count /\ s.fresh = r.fresh
       /\ s.ver = v /\ s.has_run = TRUE /\ s.have = r.have /\ s.callbacks = cs
  BY <1>1 DEF NotifierRec
<1> HIDE DEF s
<1>13. (cs # <<>>) = (r.callbacks # <<>>)
  BY <1>1, <1>8
<1>14. Sound(s, version)
  BY <1>8, <1>11, <1>12, <1>13 DEF Sound
<1>15. Reached(r, s, v)
  BY <1>8, <1>9, <1>12 DEF Reached, ch
<1> QED
  BY <1>3, <1>12, <1>14, <1>15

\* package_for_delivery: the accumulated changes become those to deliver.
LEMMA PackagedFacts ==
    ASSUME NEW v \in Int, NEW r, Sound(r, v)
    PROVE  LET s == Packaged(r)
           IN  /\ Sound(s, v) /\ Kept(r, s)
               /\ s.index = r.index /\ s.count = Len(r.callbacks) /\ s.fresh = {}
               /\ Len(s.callbacks) = Len(r.callbacks)
               /\ \A i \in 1..Len(r.callbacks) :
                    LET c == r.callbacks[i]
                        d == s.callbacks[i]
                    IN  /\ d.token = c.token /\ d.initial = c.initial /\ d.at = c.at
                        /\ d.hidden = c.hidden /\ d.skip = c.skip
                        /\ d.todo = c.acc /\ d.acc = {}
<1> DEFINE P(c) == [c EXCEPT !.todo = c.acc, !.acc = {}]
           cs == [i \in DOMAIN r.callbacks |-> P(r.callbacks[i])]
           s == [r EXCEPT !.callbacks = cs, !.count = Len(r.callbacks), !.fresh = {}]
<1>1. r \in NotifierRec /\ r.callbacks \in Seq(CallbackRec)
  BY DEF Sound, NotifierRec
<1>3. Packaged(r) = s
  BY <1>1 DEF Packaged, NotifierRec
<1>4. ASSUME NEW c \in CallbackRec
      PROVE  /\ P(c) \in CallbackRec
             /\ P(c).token = c.token /\ P(c).initial = c.initial /\ P(c).at = c.at
             /\ P(c).hidden = c.hidden /\ P(c).skip = c.skip
             /\ P(c).todo = c.acc /\ P(c).acc = {}
  BY DEF CallbackRec
<1>5. \A i \in 1..Len(r.callbacks) : r.callbacks[i] \in CallbackRec
  BY <1>1
<1>6. DOMAIN r.callbacks = 1..Len(r.callbacks) /\ Len(r.callbacks) \in Nat
  BY <1>1
<1> HIDE DEF P
<1>7. cs \in [1..Len(r.callbacks) -> CallbackRec]
  BY <1>4, <1>5, <1>6
<1>8. cs \in Seq(CallbackRec) /\ Len(cs) = Len(r.callbacks)
  BY <1>6, <1>7
<1>9. \A i \in 1..Len(r.callbacks) : cs[i] = P(r.callbacks[i])
  BY <1>6
<1> HIDE DEF cs
<1>10. Len(r.callbacks) \in Int /\ {} \in SUBSET (1..MaxTokens)
  BY <1>6
<1>11. s \in NotifierRec
  BY <1>1, <1>8, <1>10 DEF NotifierRec
<1>12. /\ s.where = r.where /\ s.alive = r.alive /\ s.next = r.next
       /\ s.index = r.index /\ s.count = Len(r.callbacks) /\ s.fresh = {}
       /\ s.ver = r.ver /\ s.has_run = r.has_run /\ s.have = r.have /\ s.callbacks = cs
  BY <1>1 DEF NotifierRec
<1> HIDE DEF s
<1>13. (cs # <<>>) = (r.callbacks # <<>>)
  BY <1>1, <1>8
<1>14. Sound(s, v)
  BY <1>8, <1>11, <1>12, <1>13 DEF Sound
<1>15. ASSUME NEW i \in 1..Len(r.callbacks)
       PROVE  LET c == r.callbacks[i]
                  d == s.callbacks[i]
              IN  /\ d.token = c.token /\ d.initial = c.initial /\ d.at = c.at
                  /\ d.hidden = c.hidden /\ d.skip = c.skip
                  /\ d.todo = c.acc /\ d.acc = {}
  BY <1>4, <1>5, <1>9, <1>12
<1> QED
  BY <1>3, <1>8, <1>12, <1>14, <1>15 DEF Kept

\* A commit without notifying that fails: only what is hidden changes.
LEMMA UnhiddenFacts ==
    ASSUME NEW v \in Int, NEW r, Sound(r, v)
    PROVE  LET s == Unhidden(r)
           IN  /\ Sound(s, v) /\ Kept(r, s)
               /\ s.index = r.index /\ s.count = r.count /\ s.fresh = r.fresh
               /\ Len(s.callbacks) = Len(r.callbacks)
               /\ \A i \in 1..Len(r.callbacks) :
                    /\ s.callbacks[i].token = r.callbacks[i].token
                    /\ s.callbacks[i].initial = r.callbacks[i].initial
<1> DEFINE P(c) == [c EXCEPT !.hidden = @ \ {version + 1}]
           cs == [i \in DOMAIN r.callbacks |-> P(r.callbacks[i])]
           s == [r EXCEPT !.callbacks = cs]
<1>1. r \in NotifierRec /\ r.callbacks \in Seq(CallbackRec)
  BY DEF Sound, NotifierRec
<1>2. Unhidden(r) = s
  BY DEF Unhidden
<1>3. ASSUME NEW c \in CallbackRec
      PROVE  P(c) \in CallbackRec /\ P(c).token = c.token /\ P(c).initial = c.initial
  BY DEF CallbackRec
<1>4. \A i \in 1..Len(r.callbacks) : r.callbacks[i] \in CallbackRec
  BY <1>1
<1>5. DOMAIN r.callbacks = 1..Len(r.callbacks) /\ Len(r.callbacks) \in Nat
  BY <1>1
<1> HIDE DEF P
<1>6. cs \in [1..Len(r.callbacks) -> CallbackRec]
  BY <1>3, <1>4, <1>5
<1>7. cs \in Seq(CallbackRec) /\ Len(cs) = Len(r.callbacks)
  BY <1>5, <1>6
<1>8. \A i \in 1..Len(r.callbacks) : cs[i] = P(r.callbacks[i])
  BY <1>5
<1> HIDE DEF cs
<1>9. s \in NotifierRec
  BY <1>1, <1>7 DEF NotifierRec
<1>10. /\ s.where = r.where /\ s.alive = r.alive /\ s.next = r.next
       /\ s.index = r.index /\ s.count = r.count /\ s.fresh = r.fresh
       /\ s.ver = r.ver /\ s.has_run = r.has_run /\ s.have = r.have /\ s.callbacks = cs
  BY <1>1 DEF NotifierRec
<1> HIDE DEF s
<1>11. (cs # <<>>) = (r.callbacks # <<>>)
  BY <1>1, <1>7
<1>12. Sound(s, v)
  BY <1>1, <1>7, <1>9, <1>10, <1>11 DEF Sound
<1> QED
  BY <1>2, <1>3, <1>4, <1>7, <1>8, <1>10, <1>12 DEF Kept

----------------------------------------------------------------------------
(* What the actions do to the notifiers.                                    *)

\* The bound on the versions may grow.
LEMMA SoundLater ==
    ASSUME NEW v \in Int, NEW w \in Int, v <= w, NEW r, Sound(r, v)
    PROVE  Sound(r, w)
<1>1. r.ver \in Int
  BY DEF Sound, NotifierRec
<1> QED
  BY <1>1 DEF Sound

\* A typed state has sound notifier records.
LEMMA SoundAll ==
    ASSUME Typed, NEW n \in Notifier
    PROVE  /\ Sound(notifier[n], version) /\ version \in Int
           /\ notifier[n] \in NotifierRec
           /\ Callbacks(n) \in Seq(CallbackRec) /\ Len(Callbacks(n)) \in Nat
           /\ DOMAIN Callbacks(n) = 1..Len(Callbacks(n))
           /\ notifier[n].index \in Nat /\ notifier[n].count \in Int
           /\ notifier[n].index <= Len(Callbacks(n))
           /\ notifier[n].next \in Nat /\ notifier[n].ver \in Nat
<1>1. /\ Sound(notifier[n], version) /\ version \in Int /\ notifier[n] \in NotifierRec
      /\ notifier[n].index <= Len(notifier[n].callbacks)
  BY DEF Typed, Version, Sound
<1>2. /\ notifier[n].callbacks \in Seq(CallbackRec) /\ notifier[n].index \in Nat
      /\ notifier[n].count \in Int /\ notifier[n].next \in Nat /\ notifier[n].ver \in Nat
  BY <1>1 DEF NotifierRec
<1> QED
  BY <1>1, <1>2 DEF Callbacks

\* One notifier record is replaced.
Replaced(n, s) == notifier' = [notifier EXCEPT ![n] = s]

\* Only that record changes, and if the new one is sound all are.
LEMMA ReplacedFacts ==
    ASSUME Typed, NEW n \in Notifier, NEW s, Replaced(n, s)
    PROVE  /\ notifier'[n] = s
           /\ \A m \in Notifier : m # n => notifier'[m] = notifier[m]
           /\ Sound(s, version) => /\ notifier' \in [Notifier -> NotifierRec]
                                   /\ \A m \in Notifier : Sound(notifier'[m], version)
<1>1. notifier \in [Notifier -> NotifierRec]
  BY DEF Typed
<1>2. notifier'[n] = s /\ \A m \in Notifier : m # n => notifier'[m] = notifier[m]
  BY <1>1 DEF Replaced
<1>3. ASSUME Sound(s, version)
      PROVE  /\ notifier' \in [Notifier -> NotifierRec]
             /\ \A m \in Notifier : Sound(notifier'[m], version)
  <2>1. s \in NotifierRec
    BY <1>3 DEF Sound
  <2>2. notifier' \in [Notifier -> NotifierRec]
    BY <1>1, <2>1 DEF Replaced
  <2>3. \A m \in Notifier : Sound(notifier[m], version)
    BY DEF Typed
  <2> QED
    BY <1>2, <1>3, <2>2, <2>3
<1> QED
  BY <1>2, <1>3

\* register_notifier: a new record, without callbacks.
LEMMA RegisterSteps ==
    ASSUME Typed, NEW n \in Notifier, RegisterNotifier(n)
    PROVE  \E s : /\ Replaced(n, s) /\ Sound(s, version)
                  /\ s.where = "new" /\ s.alive = TRUE /\ s.ver = read
                  /\ s.has_run = FALSE /\ s.callbacks = <<>> /\ s.next = 0
                  /\ s.index = 0 /\ s.fresh = {} /\ s.count = -1
<1> DEFINE s == [NoNotifier EXCEPT !.where = "new", !.alive = TRUE, !.ver = read]
<1>1. notifier[n] = NoNotifier /\ notifier \in [Notifier -> NotifierRec]
  BY DEF RegisterNotifier, Typed
<1>2. read \in 0..MaxVersion /\ read <= version /\ 0 \in 0..MaxTokens
  BY NotifierAssumption DEF Typed, Version
<1>3. NoNotifier \in NotifierRec
  BY <1>1
<1>4. notifier' = [notifier EXCEPT ![n].where = "new", ![n].alive = TRUE, ![n].ver = read]
  BY DEF RegisterNotifier
<1>5. Replaced(n, s)
  <2> HIDE DEF NoNotifier
  <2> QED
    BY <1>1, <1>4 DEF Replaced
<1>6. s \in NotifierRec
  BY <1>2, <1>3 DEF NotifierRec
<1>7. /\ s.where = "new" /\ s.alive = TRUE /\ s.ver = read
      /\ s.has_run = FALSE /\ s.callbacks = <<>> /\ s.next = 0
      /\ s.index = 0 /\ s.fresh = {} /\ s.count = -1 /\ s.have = FALSE
  BY DEF NoNotifier
<1> HIDE DEF s
<1>8. Sound(s, version)
  <2>1. Len(s.callbacks) = 0
    BY <1>7
  <2>2. s.have = (s.callbacks # <<>>)
    BY <1>7
  <2>3. s.ver <= version /\ s.index <= 0 /\ 0 <= s.next
    BY <1>2, <1>7
  <2> QED
    BY <1>6, <2>1, <2>2, <2>3 DEF Sound
<1> QED
  BY <1>5, <1>7, <1>8

\* add_callback: one more callback, that has seen nothing.
LEMMA AddSteps ==
    ASSUME Typed, NEW n \in Notifier, AddCallback(n)
    PROVE  \E s : /\ Replaced(n, s) /\ Sound(s, version)
                  /\ s.where = notifier[n].where /\ s.alive = notifier[n].alive
                  /\ s.ver = notifier[n].ver /\ s.has_run = notifier[n].has_run
                  /\ s.index = notifier[n].index /\ s.count = notifier[n].count
                  /\ s.next = notifier[n].next + 1
                  /\ s.fresh = notifier[n].fresh \cup {s.next}
                  /\ Len(s.callbacks) = Len(Callbacks(n)) + 1
                  /\ \A i \in 1..Len(Callbacks(n)) : s.callbacks[i] = Callbacks(n)[i]
                  /\ LET c == s.callbacks[Len(Callbacks(n)) + 1]
                     IN  c.token = s.next /\ ~c.initial /\ ~c.skip
<1> DEFINE r == notifier[n]
           k == r.next + 1
           c == [token |-> k, acc |-> {}, todo |-> {}, initial |-> FALSE,
                 skip |-> FALSE, at |-> 0, hidden |-> {}]
           s == [r EXCEPT !.next = k, !.callbacks = Append(@, c), !.fresh = @ \cup {k},
                          !.have = @ \/ r.index = 0]
<1>1. notifier \in [Notifier -> NotifierRec] /\ r \in NotifierRec /\ Sound(r, version)
  BY DEF Typed
<1>2. r.next \in Nat /\ r.next < MaxTokens /\ MaxTokens \in Nat /\ k \in 1..MaxTokens
  <2>1. r.next \in 0..MaxTokens /\ MaxTokens \in Nat
    BY <1>1, NotifierAssumption DEF NotifierRec
  <2>2. r.next < MaxTokens
    BY DEF AddCallback
  <2> QED
    BY <2>1, <2>2
<1>3. c \in CallbackRec
  BY <1>2, NotifierAssumption DEF CallbackRec
<1>4. notifier' = [notifier EXCEPT
             ![n].next = k, ![n].callbacks = Append(@, c), ![n].fresh = @ \cup {k},
             ![n].have = @ \/ notifier[n].index = 0]
  BY Zenon DEF AddCallback
<1>5. Replaced(n, s)
  <2> HIDE DEF k, c
  <2> QED
    BY <1>1, <1>4 DEF Replaced
<1>6. r.callbacks \in Seq(CallbackRec) /\ Len(r.callbacks) \in Nat
  BY <1>1 DEF NotifierRec
<1>7. /\ Append(r.callbacks, c) \in Seq(CallbackRec)
      /\ Len(Append(r.callbacks, c)) = Len(r.callbacks) + 1
      /\ \A i \in 1..Len(r.callbacks) : Append(r.callbacks, c)[i] = r.callbacks[i]
      /\ Append(r.callbacks, c)[Len(r.callbacks) + 1] = c
      /\ Append(r.callbacks, c) # <<>>
  <2> HIDE DEF c
  <2> QED
    BY <1>3, <1>6
<1>8. c.token = k /\ ~c.initial /\ ~c.skip
  OBVIOUS
<1> HIDE DEF c, k
<1>9. r.have \/ r.index = 0
  <2>1. r.index \in Nat /\ r.index <= Len(r.callbacks) /\ r.have = (r.callbacks # <<>>)
    BY <1>1 DEF Sound, NotifierRec
  <2>2. r.index # 0 => r.callbacks # <<>>
    BY <1>6, <2>1
  <2> QED
    BY <2>1, <2>2
<1>10. r.fresh \cup {k} \in SUBSET (1..MaxTokens) /\ k \in 0..MaxTokens
  BY <1>1, <1>2 DEF NotifierRec
<1>11. s \in NotifierRec
  BY <1>1, <1>7, <1>9, <1>10 DEF NotifierRec
<1>12. /\ s.where = r.where /\ s.alive = r.alive /\ s.ver = r.ver
       /\ s.has_run = r.has_run /\ s.index = r.index /\ s.count = r.count
       /\ s.next = k /\ s.fresh = r.fresh \cup {k}
       /\ s.callbacks = Append(r.callbacks, c) /\ s.have = TRUE
  BY <1>1, <1>9 DEF NotifierRec
<1> HIDE DEF s
<1>13. Sound(s, version)
  <2>1. r.ver <= version /\ r.index <= Len(r.callbacks) /\ Len(r.callbacks) <= r.next
        /\ r.index \in Nat
    BY <1>1 DEF Sound, NotifierRec
  <2>2. Len(s.callbacks) <= s.next /\ s.index <= Len(s.callbacks)
    <3>1. k = r.next + 1 /\ Len(s.callbacks) = Len(r.callbacks) + 1 /\ s.next = k
          /\ s.index = r.index
      BY <1>7, <1>12 DEF k
    <3> QED
      BY <1>2, <1>6, <2>1, <3>1
  <2> QED
    BY <1>7, <1>11, <1>12, <2>1, <2>2 DEF Sound
<1> QED
  BY <1>5, <1>7, <1>8, <1>12, <1>13 DEF Callbacks, k

\* The collection goes.
LEMMA UnregisterSteps ==
    ASSUME Typed, NEW n \in Notifier, Unregister(n)
    PROVE  \E s : /\ Replaced(n, s) /\ Sound(s, version)
                  /\ s.where = notifier[n].where /\ s.alive = FALSE
                  /\ s.ver = notifier[n].ver /\ s.has_run = notifier[n].has_run
                  /\ s.index = notifier[n].index /\ s.count = notifier[n].count
                  /\ s.next = notifier[n].next /\ s.fresh = notifier[n].fresh
                  /\ s.callbacks = Callbacks(n)
<1> DEFINE r == notifier[n]
           s == [r EXCEPT !.alive = FALSE]
<1>1. notifier \in [Notifier -> NotifierRec] /\ r \in NotifierRec /\ Sound(r, version)
  BY DEF Typed
<1>2. Replaced(n, s)
  BY <1>1 DEF Replaced, Unregister
<1>3. /\ s \in NotifierRec
      /\ s.where = r.where /\ s.alive = FALSE /\ s.ver = r.ver /\ s.have = r.have
      /\ s.has_run = r.has_run /\ s.index = r.index /\ s.count = r.count
      /\ s.next = r.next /\ s.fresh = r.fresh /\ s.callbacks = r.callbacks
  BY <1>1 DEF NotifierRec
<1>4. Sound(s, version)
  BY <1>1, <1>3 DEF Sound
<1> QED
  BY <1>2, <1>3, <1>4 DEF Callbacks

\* suppress_next_notification: one callback is to skip the next version.
LEMMA SuppressSteps ==
    ASSUME Typed, NEW n \in Notifier, NEW k \in 1..MaxTokens, SuppressNextNotification(n, k)
    PROVE  \E s : \E p \in 1..Len(Callbacks(n)) :
             /\ Replaced(n, s) /\ Sound(s, version) /\ Kept(notifier[n], s)
             /\ s.index = notifier[n].index /\ s.count = notifier[n].count
             /\ s.fresh = notifier[n].fresh
             /\ Len(s.callbacks) = Len(Callbacks(n))
             /\ \A i \in 1..Len(Callbacks(n)) : i # p => s.callbacks[i] = Callbacks(n)[i]
             /\ LET c == Callbacks(n)[p]
                    d == s.callbacks[p]
                IN  /\ d.token = c.token /\ d.initial = c.initial /\ d.at = c.at
                    /\ d.todo = c.todo /\ d.acc = c.acc
                    /\ d.hidden = c.hidden \cup {version + 1}
<1> DEFINE r == notifier[n]
           p == Position(r, k)
           c == r.callbacks[p]
           d == [c EXCEPT !.skip = TRUE, !.hidden = @ \cup {version + 1}]
           cs == [r.callbacks EXCEPT ![p] = d]
           s == [r EXCEPT !.callbacks = cs]
<1>1. notifier \in [Notifier -> NotifierRec] /\ r \in NotifierRec /\ Sound(r, version)
  BY DEF Typed
<1>2. r.callbacks \in Seq(CallbackRec) /\ Len(r.callbacks) \in Nat
      /\ DOMAIN r.callbacks = 1..Len(r.callbacks)
  BY <1>1 DEF NotifierRec
<1>3. p \in 1..Len(r.callbacks)
  BY <1>2 DEF Tokens, Position, SuppressNextNotification
<1>4. c \in CallbackRec
  BY <1>2, <1>3
<1>5. {version + 1} \subseteq Version
  BY NotifierAssumption DEF SuppressNextNotification, Typed, Version
<1>6. notifier' = [notifier EXCEPT ![n].callbacks[p].skip = TRUE,
                                   ![n].callbacks[p].hidden = @ \cup {version + 1}]
  BY DEF SuppressNextNotification
<1> HIDE DEF p
<1>7. Replaced(n, s)
  <2> DEFINE c1 == [c EXCEPT !.skip = TRUE]
             r1 == [r EXCEPT !.callbacks = [r.callbacks EXCEPT ![p] = c1]]
             A  == [notifier EXCEPT ![n] = r1]
  <2>1. A = [notifier EXCEPT ![n].callbacks[p].skip = TRUE]
    OBVIOUS
  <2>2. notifier' = [A EXCEPT ![n].callbacks[p].hidden = @ \cup {version + 1}]
    BY <1>6, <2>1
  <2>3. A[n] = r1 /\ n \in DOMAIN notifier
    BY <1>1
  <2>4. r1.callbacks = [r.callbacks EXCEPT ![p] = c1] /\ r1.callbacks[p] = c1
    BY <1>1, <1>2, <1>3 DEF NotifierRec
  <2>5. c1.hidden = c.hidden /\ d = [c1 EXCEPT !.hidden = c.hidden \cup {version + 1}]
    BY <1>4 DEF CallbackRec
  <2>6. notifier' = [A EXCEPT ![n] = [r1 EXCEPT !.callbacks = [r1.callbacks EXCEPT ![p] = d]]]
    <3> HIDE DEF A, r1, c1, d, c
    <3> QED
      BY <2>2, <2>3, <2>4, <2>5
  <2>7. [r1.callbacks EXCEPT ![p] = d] = cs
    <3> HIDE DEF d, c1
    <3> QED
      BY <1>2, <1>3, <2>4
  <2>8. [r1 EXCEPT !.callbacks = cs] = s
    <3> HIDE DEF cs, c1
    <3> QED
      BY <1>1 DEF NotifierRec
  <2>9. [A EXCEPT ![n] = s] = [notifier EXCEPT ![n] = s]
    <3> HIDE DEF r1, s
    <3> QED
      BY <1>1
  <2> QED
    BY <2>6, <2>7, <2>8, <2>9 DEF Replaced
<1>8. /\ d \in CallbackRec /\ d.token = c.token /\ d.initial = c.initial /\ d.at = c.at
      /\ d.todo = c.todo /\ d.acc = c.acc /\ d.hidden = c.hidden \cup {version + 1}
  <2> HIDE DEF c
  <2> QED
    BY <1>4, <1>5 DEF CallbackRec
<1> HIDE DEF d
<1>9. /\ cs \in Seq(CallbackRec) /\ Len(cs) = Len(r.callbacks) /\ cs[p] = d
      /\ \A i \in 1..Len(r.callbacks) : i # p => cs[i] = r.callbacks[i]
  BY <1>2, <1>3, <1>8
<1>10. (cs # <<>>) = (r.callbacks # <<>>)
  BY <1>2, <1>9
<1> HIDE DEF cs
<1>11. /\ s \in NotifierRec
       /\ s.where = r.where /\ s.alive = r.alive /\ s.ver = r.ver /\ s.have = r.have
       /\ s.has_run = r.has_run /\ s.index = r.index /\ s.count = r.count
       /\ s.next = r.next /\ s.fresh = r.fresh /\ s.callbacks = cs
  BY <1>1, <1>9 DEF NotifierRec
<1> HIDE DEF s
<1>12. Sound(s, version)
  BY <1>1, <1>9, <1>10, <1>11 DEF Sound
<1>13. Kept(r, s)
  BY <1>11 DEF Kept
<1>14. Len(s.callbacks) = Len(r.callbacks) /\ s.callbacks[p] = d
       /\ \A i \in 1..Len(r.callbacks) : i # p => s.callbacks[i] = r.callbacks[i]
  BY <1>9, <1>11
<1>15. r = notifier[n] /\ r.callbacks = Callbacks(n) /\ c = Callbacks(n)[p]
       /\ p \in 1..Len(Callbacks(n))
  BY <1>3 DEF Callbacks
<1> HIDE DEF r, c
<1> QED
  BY <1>7, <1>8, <1>11, <1>12, <1>13, <1>14, <1>15

\* The pass over a notifier starts with a count of its own after an error.
Recounts == target.pc = "error" /\ target.cur = nil

\* s is the record of n with the iteration at i, 0 for its end.
Iterated(n, s, i) ==
    /\ Replaced(n, s) /\ Sound(s, version) /\ Kept(notifier[n], s)
    /\ s.index = i
    /\ s.count = IF Recounts THEN Len(Callbacks(n)) ELSE notifier[n].count
    /\ s.fresh = IF Recounts THEN {} ELSE notifier[n].fresh
    /\ Len(s.callbacks) = Len(Callbacks(n))

\* c after it has been called with version v.
Told(c, d, v) ==
    /\ d.token = c.token /\ d.hidden = c.hidden /\ d.skip = c.skip /\ d.acc = c.acc
    /\ d.initial = TRUE /\ d.todo = {} /\ d.at = v

\* No callback after position i and before position j is called.
NoneWanted(n, i, j) ==
    \A x \in 1..Len(Callbacks(n)) : i < x /\ x < j => ~Wanted(Callbacks(n)[x])

\* The pass over n ends.
EndsPass(n, s) ==
    /\ Iterated(n, s, 0) /\ s.callbacks = Callbacks(n)
    /\ NoneWanted(n, notifier[n].index, s.count + 1)
    /\ target' = [target EXCEPT !.cur = nil, !.left = @ \ {n}]
    /\ UNCHANGED told

\* The callback at position i of n is called.
CallsAt(n, s, i) ==
    /\ Iterated(n, s, i) /\ notifier[n].index < i /\ i <= s.count
    /\ Wanted(Callbacks(n)[i])
    /\ NoneWanted(n, notifier[n].index, i)
    /\ target' = [target EXCEPT !.cur = n, !.left = @ \ {n},
                    !.call = <<n, Callbacks(n)[i].token>>]
    /\ \A j \in 1..Len(Callbacks(n)) : j # i => s.callbacks[j] = Callbacks(n)[j]
    /\ target.pc = "after" => /\ told' = Called(Callbacks(n)[i])
                              /\ Told(Callbacks(n)[i], s.callbacks[i], target.ver)
    /\ target.pc # "after" => UNCHANGED told /\ s.callbacks = Callbacks(n)

\* for_each_callback ends, or calls the next callback that is wanted.
LEMMA ForEachSteps ==
    ASSUME Typed, NEW n \in Notifier, ForEachCallback(n)
    PROVE  /\ target.pc \in {"before", "after", "error"} /\ target.call = nil
           /\ target.cur = n \/ (target.cur = nil /\ n \in target.left)
           /\ \/ \E s : EndsPass(n, s)
              \/ \E s : \E i \in 1..Len(Callbacks(n)) : CallsAt(n, s, i)
<1> DEFINE o == notifier[n]
           r == IF target.pc = "error" /\ target.cur = nil
                THEN [o EXCEPT !.count = Len(o.callbacks), !.fresh = {}] ELSE o
           rest == {i \in DOMAIN r.callbacks :
                     r.index < i /\ i <= r.count /\ Wanted(r.callbacks[i])}
           i == CHOOSE j \in rest : \A k \in rest : j <= k
           c == r.callbacks[i]
           d == [c EXCEPT !.initial = TRUE, !.todo = {}, !.at = target.ver]
           e == [r EXCEPT !.index = 0]
           g == [r EXCEPT !.index = i]
           cs == [r.callbacks EXCEPT ![i] = d]
           h == [r EXCEPT !.index = i, !.callbacks = cs]
<1>1. notifier \in [Notifier -> NotifierRec] /\ o \in NotifierRec /\ Sound(o, version)
  BY DEF Typed
<1>2. /\ o.callbacks \in Seq(CallbackRec) /\ Len(o.callbacks) \in Nat
      /\ DOMAIN o.callbacks = 1..Len(o.callbacks) /\ {} \in SUBSET (1..MaxTokens)
      /\ o.index \in Nat /\ Len(o.callbacks) <= o.next /\ o.next \in 0..MaxTokens
  BY <1>1 DEF NotifierRec, Sound
<1>3. /\ r \in NotifierRec
      /\ r.where = o.where /\ r.alive = o.alive /\ r.ver = o.ver /\ r.have = o.have
      /\ r.has_run = o.has_run /\ r.index = o.index /\ r.next = o.next
      /\ r.callbacks = o.callbacks
      /\ r.count = IF Recounts THEN Len(o.callbacks) ELSE o.count
      /\ r.fresh = IF Recounts THEN {} ELSE o.fresh
  <2>1. CASE Recounts
    <3>1. r = [o EXCEPT !.count = Len(o.callbacks), !.fresh = {}] /\ Len(o.callbacks) \in Int
      BY <1>2, <2>1 DEF Recounts
    <3> HIDE DEF r
    <3> QED
      BY <1>1, <1>2, <2>1, <3>1 DEF NotifierRec
  <2>2. CASE ~Recounts
    <3>1. r = o
      BY <2>2 DEF Recounts
    <3> HIDE DEF r
    <3> QED
      BY <1>1, <2>2, <3>1
  <2> QED
    BY <2>1, <2>2
<1>4. /\ target.pc \in {"before", "after", "error"} /\ target.call = nil
      /\ target.cur = n \/ (target.cur = nil /\ n \in target.left)
      /\ \/ /\ rest = {}
            /\ notifier' = [notifier EXCEPT ![n] = e]
            /\ target' = [target EXCEPT !.cur = nil, !.left = @ \ {n}]
            /\ UNCHANGED told
         \/ /\ rest # {}
            /\ target' = [target EXCEPT !.cur = n, !.left = @ \ {n},
                                        !.call = <<n, c.token>>]
            /\ IF target.pc = "after"
               THEN /\ notifier' = [notifier EXCEPT ![n] =
                         [r EXCEPT !.index = i, !.callbacks[i] = d]]
                    /\ told' = Called(c)
               ELSE /\ notifier' = [notifier EXCEPT ![n] = g]
                    /\ UNCHANGED told
  BY Zenon DEF ForEachCallback
<1>5. [r EXCEPT !.index = i, !.callbacks[i] = d] = h
  <2> HIDE DEF r, i, d
  <2> QED
    BY <1>3 DEF NotifierRec
<1>6. r.count \in Int
  BY <1>3 DEF NotifierRec
<1>7. rest = {x \in 1..Len(o.callbacks) :
                o.index < x /\ x <= r.count /\ Wanted(o.callbacks[x])}
  BY <1>2, <1>3
<1> HIDE DEF r
<1>8. CASE rest = {}
  <2>1. /\ notifier' = [notifier EXCEPT ![n] = e] /\ UNCHANGED told
        /\ target' = [target EXCEPT !.cur = nil, !.left = @ \ {n}]
    BY <1>4, <1>8
  <2>2. /\ e \in NotifierRec /\ e.where = o.where /\ e.alive = o.alive /\ e.ver = o.ver
        /\ e.have = o.have /\ e.has_run = o.has_run /\ e.index = 0 /\ e.next = o.next
        /\ e.callbacks = o.callbacks /\ e.count = r.count /\ e.fresh = r.fresh
    BY <1>3, NotifierAssumption DEF NotifierRec
  <2> HIDE DEF e
  <2>3. Sound(e, version)
    BY <1>1, <1>2, <2>2 DEF Sound
  <2>4. Iterated(n, e, 0)
    BY <1>3, <2>1, <2>2, <2>3 DEF Iterated, Replaced, Kept, Callbacks
  <2>5. NoneWanted(n, o.index, e.count + 1)
    <3>1. \A x \in 1..Len(o.callbacks) : o.index < x /\ x < r.count + 1 => ~Wanted(o.callbacks[x])
      BY <1>2, <1>6, <1>7, <1>8
    <3> QED
      BY <2>2, <3>1 DEF NoneWanted, Callbacks
  <2> QED
    BY <1>4, <2>1, <2>2, <2>4, <2>5 DEF Callbacks, EndsPass
<1>9. CASE rest # {}
  <2>1. \E j \in rest : \A k \in rest : j <= k
    <3>1. rest \in SUBSET Nat
      BY <1>7
    <3> HIDE DEF rest
    <3> QED
      BY <1>9, <3>1, FirstExists
  <2>2. i \in rest /\ \A k \in rest : i <= k
    <3> HIDE DEF rest
    <3> QED
      BY <2>1
  <2> HIDE DEF i
  <2>3. /\ i \in 1..Len(o.callbacks) /\ o.index < i /\ i <= r.count
        /\ Wanted(o.callbacks[i]) /\ c = o.callbacks[i] /\ c \in CallbackRec
    BY <1>2, <1>3, <1>7, <2>2
  <2>4. NoneWanted(n, o.index, i)
    <3>1. ASSUME NEW x \in 1..Len(o.callbacks), o.index < x, x < i, Wanted(o.callbacks[x])
          PROVE  FALSE
      <4>1. x \in rest
        BY <1>2, <1>6, <1>7, <2>3, <3>1
      <4> QED
        BY <1>2, <2>2, <2>3, <3>1, <4>1
    <3> QED
      BY <3>1 DEF NoneWanted, Callbacks
  <2>5. i \in 0..MaxTokens /\ i <= Len(o.callbacks)
    BY <1>2, <2>3, NotifierAssumption
  <2>6. CASE target.pc = "after"
    <3>1. /\ d \in CallbackRec /\ Told(c, d, target.ver)
      <4>1. target.ver \in 0..MaxVersion
        BY DEF Typed, TargetRec
      <4> HIDE DEF c
      <4> QED
        BY <2>3, <4>1 DEF CallbackRec, Told
    <3> HIDE DEF d
    <3>2. /\ cs \in Seq(CallbackRec) /\ Len(cs) = Len(o.callbacks) /\ cs[i] = d
          /\ \A j \in 1..Len(o.callbacks) : j # i => cs[j] = o.callbacks[j]
      BY <1>2, <1>3, <2>3, <3>1
    <3>3. (cs # <<>>) = (o.callbacks # <<>>)
      BY <1>2, <3>2
    <3> HIDE DEF cs
    <3>4. /\ h \in NotifierRec /\ h.where = o.where /\ h.alive = o.alive /\ h.ver = o.ver
          /\ h.have = o.have /\ h.has_run = o.has_run /\ h.index = i /\ h.next = o.next
          /\ h.callbacks = cs /\ h.count = r.count /\ h.fresh = r.fresh
      BY <1>3, <2>5, <3>2 DEF NotifierRec
    <3> HIDE DEF h
    <3>5. Sound(h, version)
      BY <1>1, <2>5, <3>2, <3>3, <3>4 DEF Sound
    <3>6. /\ notifier' = [notifier EXCEPT ![n] = h] /\ told' = Called(c)
          /\ target' = [target EXCEPT !.cur = n, !.left = @ \ {n}, !.call = <<n, c.token>>]
      BY <1>4, <1>5, <1>9, <2>6
    <3>7. Iterated(n, h, i)
      BY <1>3, <3>2, <3>4, <3>5, <3>6 DEF Iterated, Replaced, Kept, Callbacks
    <3> QED
      BY <1>4, <2>3, <2>4, <2>6, <3>1, <3>2, <3>4, <3>6, <3>7 DEF Callbacks, CallsAt
  <2>7. CASE target.pc # "after"
    <3>4. /\ g \in NotifierRec /\ g.where = o.where /\ g.alive = o.alive /\ g.ver = o.ver
          /\ g.have = o.have /\ g.has_run = o.has_run /\ g.index = i /\ g.next = o.next
          /\ g.callbacks = o.callbacks /\ g.count = r.count /\ g.fresh = r.fresh
      BY <1>3, <2>5 DEF NotifierRec
    <3> HIDE DEF g
    <3>5. Sound(g, version)
      BY <1>1, <2>5, <3>4 DEF Sound
    <3>6. /\ notifier' = [notifier EXCEPT ![n] = g] /\ UNCHANGED told
          /\ target' = [target EXCEPT !.cur = n, !.left = @ \ {n}, !.call = <<n, c.token>>]
      BY <1>4, <1>9, <2>7
    <3>7. Iterated(n, g, i)
      BY <1>3, <3>4, <3>5, <3>6 DEF Iterated, Replaced, Kept, Callbacks
    <3> QED
      BY <1>4, <2>3, <2>4, <2>7, <3>4, <3>6, <3>7 DEF Callbacks, CallsAt
  <2> QED
    BY <2>6, <2>7
<1> QED
  BY <1>8, <1>9

\* Some of the notifiers are packaged.
PackagedAll(S) ==
    notifier' = [n \in Notifier |-> IF n \in S THEN Packaged(notifier[n]) ELSE notifier[n]]

\* package_for_delivery keeps every record sound.
LEMMA PackageSteps ==
    ASSUME Typed, NEW S, PackagedAll(S)
    PROVE  /\ notifier' \in [Notifier -> NotifierRec]
           /\ \A n \in Notifier :
                /\ Sound(notifier'[n], version)
                /\ notifier'[n] = IF n \in S THEN Packaged(notifier[n]) ELSE notifier[n]
<1>1. ASSUME NEW n \in Notifier
      PROVE  Sound(Packaged(notifier[n]), version) /\ Sound(notifier[n], version)
  BY SoundAll, PackagedFacts
<1>2. \A n \in Notifier :
         notifier'[n] = IF n \in S THEN Packaged(notifier[n]) ELSE notifier[n]
  BY DEF PackagedAll
<1>3. \A n \in Notifier : Sound(notifier'[n], version)
  BY <1>1, <1>2
<1>4. \A n \in Notifier : notifier'[n] \in NotifierRec
  BY <1>3 DEF Sound
<1>5. notifier' = [n \in Notifier |-> notifier'[n]]
  BY DEF PackagedAll
<1> QED
  BY <1>2, <1>3, <1>4, <1>5

\* The lists are the only difference.
Moved(r, s, where) ==
    /\ s.where = where /\ s.alive = r.alive /\ s.ver = r.ver
    /\ s.has_run = r.has_run /\ s.next = r.next /\ s.callbacks = r.callbacks
    /\ s.index = r.index /\ s.count = r.count /\ s.fresh = r.fresh

\* Moving a notifier between the lists keeps its record sound.
LEMMA MovedFacts ==
    ASSUME NEW v \in Int, NEW r, Sound(r, v), NEW where \in {"none", "new", "main"}
    PROVE  /\ Sound([r EXCEPT !.where = where], v)
           /\ Moved(r, [r EXCEPT !.where = where], where)
<1> DEFINE s == [r EXCEPT !.where = where]
<1>1. r \in NotifierRec
  BY DEF Sound
<1>2. s \in NotifierRec /\ Moved(r, s, where) /\ s.have = r.have
  BY <1>1 DEF NotifierRec, Moved
<1> HIDE DEF s
<1>3. Sound(s, v)
  BY <1>2 DEF Sound, Moved
<1> QED
  BY <1>2, <1>3 DEF s

\* Where a notifier is after run_async_notifiers has begun.
Promoted(r) ==
    IF ~r.alive THEN "none" ELSE IF r.where = "new" THEN "main" ELSE r.where

\* The notifiers the worker finds, by list.
Living(where) == {n \in Notifier : notifier[n].alive /\ notifier[n].where = where}

\* The version the worker stops at is forgotten with the last of the old notifiers.
SkipOf(skip) ==
    skip \in {0, skip_version} /\ (Living("main") # {} => skip = skip_version)

\* run_async_notifiers ends at once: nobody to run, or the file does not open.
GivesUp ==
    /\ worker' = worker /\ opened' = opened /\ posted' = TRUE
    /\ \/ async_error' = async_error
       \/ async_error' = TRUE /\ "notifier" \notin opened
    /\ async_error' \/ Living("main") \cup Living("new") = {}

Starts(skip) ==
    /\ ~async_error /\ async_error' = async_error /\ posted' = posted
    /\ Living("main") \cup Living("new") # {}
    /\ skip_version' = 0 /\ opened' = opened \cup {"notifier"}
    /\ worker' = [pc |-> IF skip > 0 THEN "skip" ELSE "final",
                  old |-> Living("main"), new |-> Living("new"),
                  ver |-> version, skip |-> skip]

\* The first part of run_async_notifiers: the worker gives up or starts with the
\* notifiers that are alive.
LEMMA RunSteps ==
    ASSUME Typed, RunAsyncNotifiers
    PROVE  /\ notifier' \in [Notifier -> NotifierRec]
           /\ \A n \in Notifier :
                /\ Sound(notifier'[n], version)
                /\ Moved(notifier[n], notifier'[n], Promoted(notifier[n]))
           /\ worker.pc = "idle" /\ woken' = FALSE
           /\ \E skip : SkipOf(skip) /\ \/ GivesUp /\ skip_version' = skip
                                        \/ Starts(skip)
           /\ UNCHANGED <<file, target, told>>
<1> DEFINE N == CleanedUp(notifier)
           new == In(N, "new")
           old == In(N, "main")
           moved == [n \in Notifier |-> IF n \in new THEN [N[n] EXCEPT !.where = "main"]
                                        ELSE N[n]]
           skip == SkipAfterCleaning(notifier, N)
<1>1. /\ worker.pc = "idle" /\ woken' = FALSE
      /\ \/ /\ new \cup old = {} /\ notifier' = N
            /\ worker' = worker /\ posted' = TRUE /\ skip_version' = skip
            /\ UNCHANGED <<opened, async_error>>
         \/ /\ new \cup old # {} /\ (async_error \/ "notifier" \notin opened)
            /\ notifier' = moved
            /\ worker' = worker /\ posted' = TRUE /\ skip_version' = skip
            /\ async_error' = TRUE /\ UNCHANGED opened
         \/ /\ new \cup old # {} /\ ~async_error
            /\ notifier' = moved
            /\ worker' = [pc |-> IF skip > 0 THEN "skip" ELSE "final",
                          old |-> old, new |-> new, ver |-> version, skip |-> skip]
            /\ skip_version' = 0
            /\ opened' = opened \cup {"notifier"}
            /\ UNCHANGED <<async_error, posted>>
      /\ UNCHANGED <<file, target, told>>
  BY Zenon DEF RunAsyncNotifiers
<1>2. ASSUME NEW n \in Notifier
      PROVE  /\ N[n] = IF notifier[n].alive THEN notifier[n]
                       ELSE [notifier[n] EXCEPT !.where = "none"]
             /\ Sound(N[n], version)
             /\ Moved(notifier[n], N[n], IF notifier[n].alive THEN notifier[n].where ELSE "none")
  <2>1. N[n] = IF notifier[n].alive THEN notifier[n] ELSE [notifier[n] EXCEPT !.where = "none"]
    BY DEF CleanedUp
  <2>2. Sound(notifier[n], version) /\ version \in Int
    BY SoundAll
  <2>3. CASE notifier[n].alive
    BY <2>1, <2>2, <2>3 DEF Moved
  <2>4. CASE ~notifier[n].alive
    BY <2>1, <2>2, <2>4, MovedFacts
  <2> QED
    BY <2>1, <2>3, <2>4
<1> HIDE DEF N
<1>3. new = Living("new") /\ old = Living("main")
  <2>1. ASSUME NEW n \in Notifier
        PROVE  /\ N[n].where = "new" <=> notifier[n].alive /\ notifier[n].where = "new"
               /\ N[n].where = "main" <=> notifier[n].alive /\ notifier[n].where = "main"
    BY <1>2 DEF Moved
  <2> QED
    BY <2>1 DEF In, Living
<1>4. In(notifier, "main") # {} \/ Living("main") = {}
  BY DEF In, Living
<1>5. SkipOf(skip)
  BY <1>3 DEF SkipAfterCleaning, SkipOf
<1> HIDE DEF skip
<1>6. ASSUME NEW n \in Notifier
      PROVE  /\ moved[n] = IF n \in new THEN [N[n] EXCEPT !.where = "main"] ELSE N[n]
             /\ Sound(moved[n], version)
             /\ Moved(notifier[n], moved[n], Promoted(notifier[n]))
  <2>1. moved[n] = IF n \in new THEN [N[n] EXCEPT !.where = "main"] ELSE N[n]
    OBVIOUS
  <2>2. version \in Int
    BY SoundAll
  <2>3. n \in new <=> notifier[n].alive /\ notifier[n].where = "new"
    BY <1>3 DEF Living
  <2> HIDE DEF moved, new
  <2>4. CASE n \in new
    <3>1. Sound(moved[n], version) /\ Moved(N[n], moved[n], "main")
      <4>1. moved[n] = [N[n] EXCEPT !.where = "main"] /\ Sound(N[n], version)
        BY <1>2, <2>1, <2>4
      <4>2. /\ Sound([N[n] EXCEPT !.where = "main"], version)
            /\ Moved(N[n], [N[n] EXCEPT !.where = "main"], "main")
        BY <2>2, <4>1, MovedFacts
      <4> QED
        BY <4>1, <4>2
    <3> QED
      BY <1>2, <2>1, <2>3, <2>4, <3>1 DEF Moved, Promoted
  <2>5. CASE n \notin new
    BY <1>2, <2>1, <2>3, <2>5 DEF Moved, Promoted
  <2> QED
    BY <2>1, <2>4, <2>5
<1>7. /\ N \in [Notifier -> NotifierRec] /\ moved \in [Notifier -> NotifierRec]
  <2>1. N = [n \in Notifier |-> N[n]]
    BY DEF N, CleanedUp
  <2>2. \A n \in Notifier : N[n] \in NotifierRec /\ moved[n] \in NotifierRec
    BY <1>2, <1>6 DEF Sound
  <2>3. moved = [n \in Notifier |-> moved[n]]
    OBVIOUS
  <2> HIDE DEF moved
  <2> QED
    BY <2>1, <2>2, <2>3
<1> HIDE DEF moved
<1>8. CASE /\ new \cup old = {} /\ notifier' = N
           /\ worker' = worker /\ posted' = TRUE /\ skip_version' = skip
           /\ UNCHANGED <<opened, async_error>>
  <2>1. ASSUME NEW n \in Notifier
        PROVE  Moved(notifier[n], notifier'[n], Promoted(notifier[n]))
    <3>1. ~(notifier[n].alive /\ notifier[n].where = "new")
      BY <1>3, <1>8 DEF Living
    <3> QED
      BY <1>2, <1>8, <3>1 DEF Promoted
  <2> QED
    BY <1>1, <1>2, <1>3, <1>5, <1>7, <1>8, <2>1 DEF GivesUp
<1>9. CASE /\ new \cup old # {} /\ (async_error \/ "notifier" \notin opened)
           /\ notifier' = moved
           /\ worker' = worker /\ posted' = TRUE /\ skip_version' = skip
           /\ async_error' = TRUE /\ UNCHANGED opened
  <2>1. async_error \in BOOLEAN
    BY DEF Typed
  <2> QED
    BY <1>1, <1>5, <1>6, <1>7, <1>9, <2>1 DEF GivesUp
<1>10. CASE /\ new \cup old # {} /\ ~async_error
            /\ notifier' = moved
            /\ worker' = [pc |-> IF skip > 0 THEN "skip" ELSE "final",
                          old |-> old, new |-> new, ver |-> version, skip |-> skip]
            /\ skip_version' = 0
            /\ opened' = opened \cup {"notifier"}
            /\ UNCHANGED <<async_error, posted>>
  <2>1. Starts(skip)
    BY <1>3, <1>10 DEF Starts
  <2> QED
    BY <1>1, <1>5, <1>6, <1>7, <1>10, <2>1
<1> QED
  BY <1>1, <1>8, <1>9, <1>10

\* The worker has brought the notifiers in S to version v.
Handed(S, v) ==
    [n \in Notifier |-> IF n \in S THEN HandedOver(notifier[n], v) ELSE notifier[n]]

\* The worker stops at the version to be skipped.
LEMMA SkipSteps ==
    ASSUME Typed, RunToSkipVersion, worker.skip > 0
    PROVE  /\ notifier' \in [Notifier -> NotifierRec]
           /\ \A n \in Notifier :
                /\ Sound(notifier'[n], version)
                /\ n \in worker.old => /\ Reached(notifier[n], notifier'[n], worker.skip)
                                       /\ notifier'[n].where = notifier[n].where
                /\ n \notin worker.old => notifier'[n] = notifier[n]
<1> DEFINE v == worker.skip
           N == Handed(worker.old, v)
<1>1. v \in 1..version
  BY DEF Typed, WorkerRec
<1>2. notifier' = N
  BY DEF RunToSkipVersion, Handed
<1>3. ASSUME NEW n \in Notifier
      PROVE  /\ Sound(N[n], version)
             /\ n \in worker.old => /\ Reached(notifier[n], N[n], v)
                                    /\ N[n].where = notifier[n].where
             /\ n \notin worker.old => N[n] = notifier[n]
  <2>1. Sound(notifier[n], version)
    BY SoundAll
  <2>2. N[n] = IF n \in worker.old THEN HandedOver(notifier[n], v) ELSE notifier[n]
    BY DEF Handed
  <2> HIDE DEF N, v
  <2>3. Sound(HandedOver(notifier[n], v), version)
        /\ Reached(notifier[n], HandedOver(notifier[n], v), v)
        /\ HandedOver(notifier[n], v).where = notifier[n].where
    <3>1. /\ Sound(HandedOver(notifier[n], v), version)
          /\ Reached(notifier[n], HandedOver(notifier[n], v), v)
          /\ HandedOver(notifier[n], v).where = notifier[n].where
      BY <1>1, <2>1, HandedOverFacts
    <3> QED
      BY <3>1 DEF Reached
  <2> QED
    BY <2>1, <2>2, <2>3
<1>4. N = [n \in Notifier |-> N[n]]
  BY DEF Handed
<1> HIDE DEF N
<1>5. \A n \in Notifier : N[n] \in NotifierRec
  BY <1>3 DEF Sound
<1>6. N \in [Notifier -> NotifierRec]
  BY <1>4, <1>5
<1> QED
  BY <1>2, <1>3, <1>6

\* The worker reaches its version, and drops the notifiers whose collection has gone.
LEMMA FinalSteps ==
    ASSUME Typed, RunToVersion, worker.ver > 0
    PROVE  /\ notifier' \in [Notifier -> NotifierRec]
           /\ \A n \in Notifier :
                /\ Sound(notifier'[n], version)
                /\ notifier'[n].where = IF notifier[n].alive THEN notifier[n].where ELSE "none"
                /\ n \in worker.old \cup worker.new =>
                     Reached(notifier[n], notifier'[n], worker.ver)
                /\ n \notin worker.old \cup worker.new =>
                     Moved(notifier[n], notifier'[n], notifier'[n].where)
           /\ SkipOf(skip_version')
<1> DEFINE v == worker.ver
           S == worker.old \cup worker.new
           N == Handed(S, v)
           M == CleanedUp(N)
<1>1. v \in 1..version
  BY DEF Typed, WorkerRec
<1>2. notifier' = M /\ skip_version' = SkipAfterCleaning(N, M)
  BY DEF RunToVersion, Handed
<1> HIDE DEF S, v
<1>3. ASSUME NEW n \in Notifier
      PROVE  /\ Sound(N[n], version)
             /\ n \in S => Reached(notifier[n], N[n], v)
             /\ n \notin S => N[n] = notifier[n]
             /\ N[n].where = notifier[n].where /\ N[n].alive = notifier[n].alive
  <2>1. Sound(notifier[n], version)
    BY SoundAll
  <2>2. N[n] = IF n \in S THEN HandedOver(notifier[n], v) ELSE notifier[n]
    BY DEF Handed
  <2> HIDE DEF N
  <2>3. /\ Sound(HandedOver(notifier[n], v), version)
        /\ Reached(notifier[n], HandedOver(notifier[n], v), v)
        /\ HandedOver(notifier[n], v).where = notifier[n].where
        /\ HandedOver(notifier[n], v).alive = notifier[n].alive
    <3>1. /\ Sound(HandedOver(notifier[n], v), version)
          /\ Reached(notifier[n], HandedOver(notifier[n], v), v)
          /\ HandedOver(notifier[n], v).where = notifier[n].where
      BY <1>1, <2>1, HandedOverFacts
    <3> QED
      BY <3>1 DEF Reached
  <2> QED
    BY <2>1, <2>2, <2>3
<1> HIDE DEF N
<1>4. ASSUME NEW n \in Notifier
      PROVE  /\ Sound(M[n], version)
             /\ Moved(N[n], M[n], IF notifier[n].alive THEN notifier[n].where ELSE "none")
  <2>1. M[n] = IF N[n].alive THEN N[n] ELSE [N[n] EXCEPT !.where = "none"]
    BY DEF CleanedUp
  <2>2. version \in Int
    BY SoundAll
  <2> HIDE DEF M
  <2>3. CASE N[n].alive
    BY <1>3, <2>1, <2>3 DEF Moved
  <2>4. CASE ~N[n].alive
    BY <1>3, <2>1, <2>2, <2>4, MovedFacts
  <2> QED
    BY <2>3, <2>4
<1>5. M = [n \in Notifier |-> M[n]]
  BY DEF CleanedUp
<1> HIDE DEF M
<1>6. \A n \in Notifier : M[n] \in NotifierRec
  BY <1>4 DEF Sound
<1>7. M \in [Notifier -> NotifierRec]
  BY <1>5, <1>6
<1>8. ASSUME NEW n \in Notifier
      PROVE  /\ M[n].where = IF notifier[n].alive THEN notifier[n].where ELSE "none"
             /\ n \in S => Reached(notifier[n], M[n], v)
             /\ n \notin S => Moved(notifier[n], M[n], M[n].where)
  <2>1. Moved(N[n], M[n], IF notifier[n].alive THEN notifier[n].where ELSE "none")
    BY <1>4
  <2>2. M[n].where = IF notifier[n].alive THEN notifier[n].where ELSE "none"
    BY <2>1 DEF Moved
  <2>3. n \in S => Reached(notifier[n], M[n], v)
    BY <1>3, <2>1 DEF Moved, Reached
  <2>4. n \notin S => Moved(notifier[n], M[n], M[n].where)
    BY <1>3, <2>1 DEF Moved
  <2> QED
    BY <2>2, <2>3, <2>4
<1>9. SkipOf(skip_version')
  <2>1. Living("main") # {} => In(M, "main") # {}
    <3>1. \A n \in Living("main") : n \in In(M, "main")
      BY <1>8 DEF Living, In
    <3> QED
      BY <3>1
  <2> QED
    BY <1>2, <2>1 DEF SkipAfterCleaning, SkipOf
<1> QED
  BY <1>2, <1>4, <1>7, <1>8, <1>9 DEF S, v

----------------------------------------------------------------------------
(* The types.                                                               *)

\* The thread outside any delivery is well-typed.
LEMMA IdleTyped == Idle \in TargetRec /\ Idle.ver = 0 /\ Idle.pc = "idle"
<1>1. 0 \in 0..MaxVersion
  BY NotifierAssumption
<1> QED
  BY <1>1 DEF Idle, TargetRec

\* The parts of Typed that an action may leave alone.
FileTyped ==
    /\ version \in Version /\ changed \subseteq 1..version /\ read \in 1..version
    /\ writing \in BOOLEAN

NotifiersTyped ==
    /\ notifier \in [Notifier -> NotifierRec]
    /\ \A n \in Notifier : Sound(notifier[n], version)

TargetTyped == target \in TargetRec /\ target.ver <= version

CoordinatorTyped ==
    /\ woken \in BOOLEAN /\ async_error \in BOOLEAN
    /\ opened \subseteq {"advancer", "notifier"}
    /\ worker \in WorkerRec /\ worker.ver <= version /\ worker.skip <= version
    /\ worker.pc # "idle" => worker.ver > 0
    /\ worker.pc = "skip" => worker.skip > 0
    /\ skip_version \in 0..version

\* The parts together, in the next state.
LEMMA TypedParts ==
    ASSUME FileTyped', NotifiersTyped', TargetTyped', CoordinatorTyped', posted' \in BOOLEAN
    PROVE  Typed'
BY DEF Typed, FileTyped, NotifiersTyped, TargetTyped, CoordinatorTyped

\* The file grows: what was typed for its last version still is.
LEMMA GrowTyped ==
    ASSUME Typed, version < MaxVersion, version' = version + 1,
           changed' \in {changed, changed \cup {version + 1}},
           read' \in {read, version + 1}, writing' \in BOOLEAN,
           skip_version' \in {skip_version, version + 1}, woken' = TRUE,
           UNCHANGED <<target, worker, opened, async_error, posted>>
    PROVE  /\ FileTyped' /\ TargetTyped' /\ CoordinatorTyped' /\ posted' \in BOOLEAN
           /\ version \in Int /\ version' \in Int /\ version <= version'
<1>1. version \in Nat /\ version >= 1 /\ MaxVersion \in Nat
  BY NotifierAssumption DEF Typed, Version
<1>2. FileTyped'
  <2>1. version' \in Version
    BY <1>1 DEF Version
  <2>2. 1..version \subseteq 1..version' /\ version + 1 \in 1..version'
    BY <1>1
  <2> QED
    BY <2>1, <2>2 DEF Typed, FileTyped
<1>3. TargetTyped'
  <2>1. target.ver \in Nat /\ target.ver <= version
    BY DEF Typed, TargetRec
  <2> QED
    BY <1>1, <2>1 DEF Typed, TargetTyped
<1>4. CoordinatorTyped'
  <2>1. worker.ver \in Nat /\ worker.skip \in Nat /\ worker.ver <= version
        /\ worker.skip <= version /\ skip_version \in 0..version
    BY DEF Typed, WorkerRec
  <2>2. worker.ver <= version' /\ worker.skip <= version' /\ skip_version' \in 0..version'
    BY <1>1, <2>1
  <2> QED
    BY <2>2 DEF Typed, CoordinatorTyped
<1> QED
  BY <1>1, <1>2, <1>3, <1>4 DEF Typed

\* A commit of the Realm keeps the types, its notifiers aside.
LEMMA CommitTyped ==
    ASSUME Typed, CommitWrite, writing' \in BOOLEAN,
           UNCHANGED <<target, worker, opened, async_error, posted>>
    PROVE  /\ FileTyped' /\ TargetTyped' /\ CoordinatorTyped' /\ posted' \in BOOLEAN
           /\ version \in Int /\ version' \in Int /\ version <= version'
<1>1. /\ version < MaxVersion /\ version' = version + 1
      /\ changed' \in {changed, changed \cup {version + 1}}
      /\ read' \in {read, version + 1} /\ woken' = TRUE
      /\ skip_version' \in {skip_version, version + 1}
  BY DEF CommitWrite
<1> QED
  BY <1>1, GrowTyped

\* The thread starts to deliver.
LEMMA DeliverTyped ==
    ASSUME Typed, NEW op \in {"ready", "latest", "begin", "async"},
           NEW want \in 0..MaxVersion, Deliver(op, want)
    PROVE  /\ target' \in TargetRec /\ target'.ver = 0 /\ woken' \in BOOLEAN
           /\ target'.pc = IF async_error THEN "advance" ELSE "package"
           /\ target'.op = op /\ target'.want = want /\ target'.err = async_error
           /\ target'.list = NotifiersForRealm /\ target'.left = {}
           /\ target'.cur = nil /\ target'.call = nil
<1>1. NotifiersForRealm \subseteq Notifier
  BY DEF NotifiersForRealm, In
<1>2. target' = [Idle EXCEPT !.pc = IF async_error THEN "advance" ELSE "package",
                   !.op = op, !.want = want, !.err = async_error, !.list = NotifiersForRealm]
  BY DEF Deliver
<1>3. woken' \in BOOLEAN
  BY DEF Deliver, Typed
<1>4. target' \in TargetRec
  <2>1. (IF async_error THEN "advance" ELSE "package") \in {"advance", "package"}
        /\ async_error \in BOOLEAN
    BY DEF Typed
  <2>2. Idle \in TargetRec
    BY IdleTyped
  <2> HIDE DEF Idle
  <2> QED
    BY <1>1, <1>2, <2>1, <2>2 DEF TargetRec
<1> QED
  BY <1>2, <1>3, <1>4 DEF Idle

\* The initial state is well-typed.
LEMMA TypedInit == Init => Typed
<1> SUFFICES ASSUME Init PROVE Typed
  OBVIOUS
<1>1. 1 \in Version /\ 1 \in 1..1 /\ 0 \in 0..MaxVersion /\ 0 \in 0..MaxTokens
  BY NotifierAssumption DEF Version
<1>2. FileTyped
  BY <1>1 DEF Init, FileTyped
<1>3. NotifiersTyped
  <2>1. NoNotifier \in NotifierRec
    BY <1>1 DEF NoNotifier, NotifierRec
  <2>2. /\ NoNotifier.ver = 0 /\ NoNotifier.callbacks = <<>> /\ NoNotifier.next = 0
        /\ NoNotifier.index = 0 /\ NoNotifier.have = FALSE
    BY DEF NoNotifier
  <2>3. Len(NoNotifier.callbacks) = 0 /\ NoNotifier.have = (NoNotifier.callbacks # <<>>)
    BY <2>2
  <2>4. Sound(NoNotifier, 1)
    BY <2>1, <2>2, <2>3 DEF Sound
  <2> QED
    BY <2>1, <2>4 DEF Init, NotifiersTyped
<1>4. TargetTyped
  BY IdleTyped DEF Init, TargetTyped
<1>5. CoordinatorTyped
  <2>1. Resting \in WorkerRec /\ Resting.ver = 0 /\ Resting.skip = 0 /\ Resting.pc = "idle"
    BY <1>1 DEF Resting, WorkerRec
  <2>2. /\ worker = Resting /\ version = 1 /\ skip_version = 0
        /\ woken = FALSE /\ opened = {} /\ async_error = FALSE
    BY DEF Init
  <2>3. skip_version \in 0..version /\ worker.ver <= version /\ worker.skip <= version
    BY <2>1, <2>2
  <2> HIDE DEF Init
  <2> QED
    BY <2>1, <2>2, <2>3 DEF CoordinatorTyped
<1> QED
  BY <1>2, <1>3, <1>4, <1>5 DEF Init, Typed, FileTyped, NotifiersTyped, TargetTyped,
     CoordinatorTyped

\* A step that changes one notifier and nothing else of the types.
LEMMA OneTyped ==
    ASSUME Typed, NEW n \in Notifier, NEW s, Replaced(n, s), Sound(s, version),
           version' = version
    PROVE  NotifiersTyped'
BY ReplacedFacts DEF NotifiersTyped

\* register_notifier keeps the types.
LEMMA RegisterTyped ==
    ASSUME Typed, NEW n \in Notifier, RegisterNotifier(n) PROVE Typed'
<1>1. NotifiersTyped'
  BY RegisterSteps, OneTyped DEF RegisterNotifier, file
<1>2. FileTyped' /\ TargetTyped'
  BY DEF Typed, FileTyped, TargetTyped, RegisterNotifier, file
<1>3. CoordinatorTyped'
  BY DEF Typed, CoordinatorTyped, RegisterNotifier, file
<1> QED
  BY <1>1, <1>2, <1>3, TypedParts DEF Typed, RegisterNotifier

\* add_callback keeps the types.
LEMMA AddTyped ==
    ASSUME Typed, NEW n \in Notifier, AddCallback(n) PROVE Typed'
<1>1. NotifiersTyped'
  BY AddSteps, OneTyped DEF AddCallback, file
<1>2. FileTyped' /\ TargetTyped'
  BY DEF Typed, FileTyped, TargetTyped, AddCallback, file
<1>3. CoordinatorTyped'
  BY DEF Typed, CoordinatorTyped, AddCallback, file
<1> QED
  BY <1>1, <1>2, <1>3, TypedParts DEF Typed, AddCallback

\* One callback is removed.
LEMMA RemoveSteps ==
    ASSUME Typed, NEW n \in Notifier, NEW k \in Tokens(notifier[n]),
           notifier' = [notifier EXCEPT ![n] = Removed(@, k)]
    PROVE  \E s : \E p \in 1..Len(Callbacks(n)) :
             /\ Replaced(n, s) /\ Sound(s, version)
             /\ RemovedAt(notifier[n], s, p) /\ Callbacks(n)[p].token = k
<1>1. Replaced(n, Removed(notifier[n], k))
  BY DEF Replaced
<1>2. Sound(notifier[n], version) /\ version \in Int
  BY SoundAll
<1> QED
  BY <1>1, <1>2, RemovedFacts DEF Callbacks

\* remove_callback keeps the types.
LEMMA RemoveTyped ==
    ASSUME Typed, NEW n \in Notifier, NEW k \in 1..MaxTokens, RemoveCallback(n, k)
    PROVE  Typed'
<1>1. NotifiersTyped'
  BY RemoveSteps, OneTyped DEF RemoveCallback, file
<1>2. FileTyped' /\ TargetTyped'
  BY DEF Typed, FileTyped, TargetTyped, RemoveCallback, file
<1>3. CoordinatorTyped'
  BY DEF Typed, CoordinatorTyped, RemoveCallback, file, coordinator
<1> QED
  BY <1>1, <1>2, <1>3, TypedParts DEF Typed, RemoveCallback

\* The end of a collection keeps the types.
LEMMA UnregisterTyped ==
    ASSUME Typed, NEW n \in Notifier, Unregister(n) PROVE Typed'
<1>1. NotifiersTyped'
  BY UnregisterSteps, OneTyped DEF Unregister, file
<1>2. FileTyped' /\ TargetTyped'
  BY DEF Typed, FileTyped, TargetTyped, Unregister, file
<1>3. CoordinatorTyped'
  BY DEF Typed, CoordinatorTyped, Unregister, file, coordinator
<1> QED
  BY <1>1, <1>2, <1>3, TypedParts DEF Typed, Unregister

\* Records that stay are sound for the longer file.
LEMMA NotifiersLater ==
    ASSUME Typed, UNCHANGED notifier, version' \in Int, version <= version'
    PROVE  NotifiersTyped'
<1>1. \A n \in Notifier : Sound(notifier[n], version')
  BY SoundAll, SoundLater
<1> QED
  BY <1>1 DEF Typed, NotifiersTyped

\* A commit, in a transaction or in a callback, keeps the types.
LEMMA CommitsTyped ==
    ASSUME Typed, Commit \/ WriteInCallback PROVE Typed'
<1>1. CommitWrite /\ writing' \in BOOLEAN
      /\ UNCHANGED <<notifier, target, worker, opened, async_error, posted>>
  BY DEF Commit, WriteInCallback, Typed
<1> QED
  BY <1>1, CommitTyped, NotifiersLater, TypedParts

\* The suppression of a token keeps the types.
LEMMA SuppressTyped ==
    ASSUME Typed, NEW n \in Notifier, NEW k \in 1..MaxTokens, SuppressNextNotification(n, k)
    PROVE  Typed'
<1>1. NotifiersTyped'
  BY SuppressSteps, OneTyped DEF SuppressNextNotification
<1>2. FileTyped' /\ TargetTyped'
  BY DEF Typed, FileTyped, TargetTyped, SuppressNextNotification
<1>3. CoordinatorTyped'
  BY DEF Typed, CoordinatorTyped, SuppressNextNotification, coordinator
<1> QED
  BY <1>1, <1>2, <1>3, TypedParts DEF Typed, SuppressNextNotification

\* A commit without notifying that fails, record by record.
LEMMA FailSteps ==
    ASSUME Typed, CommitFails, NEW n \in Notifier
    PROVE  /\ notifier'[n] = Unhidden(notifier[n]) /\ Sound(notifier'[n], version)
           /\ Kept(notifier[n], notifier'[n])
           /\ notifier'[n].index = notifier[n].index /\ notifier'[n].count = notifier[n].count
           /\ notifier'[n].fresh = notifier[n].fresh
           /\ Len(notifier'[n].callbacks) = Len(notifier[n].callbacks)
           /\ \A i \in 1..Len(notifier[n].callbacks) :
                /\ notifier'[n].callbacks[i].token = notifier[n].callbacks[i].token
                /\ notifier'[n].callbacks[i].initial = notifier[n].callbacks[i].initial
<1>1. notifier'[n] = Unhidden(notifier[n])
  BY DEF CommitFails
<1>2. Sound(notifier[n], version) /\ version \in Int
  BY SoundAll
<1> QED
  BY <1>1, <1>2, UnhiddenFacts

\* It keeps the types.
LEMMA FailTyped ==
    ASSUME Typed, CommitFails PROVE Typed'
<1>1. NotifiersTyped'
  <2>1. \A n \in Notifier : Sound(notifier'[n], version)
    BY FailSteps
  <2>2. notifier' = [n \in Notifier |-> Unhidden(notifier[n])] /\ version' = version
    BY DEF CommitFails
  <2>3. \A n \in Notifier : notifier'[n] \in NotifierRec
    BY <2>1 DEF Sound
  <2>4. notifier' \in [Notifier -> NotifierRec]
    BY <2>2, <2>3
  <2> QED
    BY <2>1, <2>2, <2>4 DEF NotifiersTyped
<1>2. FileTyped' /\ TargetTyped'
  BY DEF Typed, FileTyped, TargetTyped, CommitFails
<1>3. CoordinatorTyped'
  BY DEF Typed, CoordinatorTyped, CommitFails, coordinator
<1> QED
  BY <1>1, <1>2, <1>3, TypedParts DEF Typed, CommitFails

\* A commit of another Realm keeps the types.
LEMMA OtherTyped ==
    ASSUME Typed, OtherCommit PROVE Typed'
<1>1. /\ version < MaxVersion /\ version' = version + 1
      /\ changed' \in {changed, changed \cup {version + 1}}
      /\ read' \in {read, version + 1} /\ writing' \in BOOLEAN /\ woken' = TRUE
      /\ skip_version' \in {skip_version, version + 1}
      /\ UNCHANGED <<notifier, target, worker, opened, async_error, posted>>
  BY DEF OtherCommit, Typed
<1> QED
  BY <1>1, GrowTyped, NotifiersLater, TypedParts

\* cancel_transaction keeps the types.
LEMMA CancelTyped ==
    ASSUME Typed, CancelTransaction PROVE Typed'
BY DEF Typed, CancelTransaction, coordinator

\* Realm::notify keeps the types.
LEMMA NotifyTyped ==
    ASSUME Typed, Notify PROVE Typed'
<1>1. FileTyped' /\ posted' \in BOOLEAN /\ version' = version
  BY DEF Typed, FileTyped, Notify, file
<1>2. CASE writing /\ UNCHANGED <<target, notifier, woken>>
  BY <1>2 DEF Typed, Notify, file
<1>3. CASE ~writing /\ version = read /\ ProcessAvailableAsync /\ UNCHANGED woken
  <2>1. CoordinatorTyped'
    BY <1>3 DEF Typed, CoordinatorTyped, Notify, file
  <2> DEFINE list == {n \in NotifiersForRealm :
                       async_error \/ (notifier[n].has_run /\ notifier[n].ver = read)}
  <2>2. list \subseteq Notifier
    BY DEF NotifiersForRealm, In
  <2>3. CASE async_error
    <3>1. /\ UNCHANGED notifier
          /\ target' = IF list = {} THEN Idle
                       ELSE [Idle EXCEPT !.pc = "error", !.list = list,
                                         !.left = list, !.err = TRUE]
      BY <1>3, <2>3 DEF ProcessAvailableAsync
    <3> HIDE DEF list
    <3>2. target' \in TargetRec /\ target'.ver = 0
      <4>1. Idle \in TargetRec /\ Idle.ver = 0
        BY IdleTyped
      <4> HIDE DEF Idle
      <4> QED
        BY <2>2, <3>1, <4>1 DEF TargetRec
    <3>3. TargetTyped'
      BY <1>1, <3>2 DEF TargetTyped, Typed, Version
    <3>4. NotifiersTyped'
      BY <1>1, <3>1 DEF NotifiersTyped, Typed
    <3> QED
      BY <1>1, <2>1, <3>3, <3>4, TypedParts
  <2>4. CASE ~async_error
    <3>1. /\ PackagedAll(list)
          /\ target' = [Idle EXCEPT !.pc = "after", !.list = list, !.left = list, !.ver = read]
      BY <1>3, <2>4 DEF ProcessAvailableAsync, PackagedAll
    <3> HIDE DEF list
    <3>2. target' \in TargetRec /\ target'.ver = read
      <4>1. Idle \in TargetRec
        BY IdleTyped
      <4>2. read \in 0..MaxVersion
        BY NotifierAssumption DEF Typed, Version
      <4> HIDE DEF Idle
      <4> QED
        BY <2>2, <3>1, <4>1, <4>2 DEF TargetRec
    <3>3. TargetTyped'
      BY <1>1, <3>2 DEF TargetTyped, Typed, Version
    <3>4. NotifiersTyped'
      BY <1>1, <3>1, PackageSteps DEF NotifiersTyped
    <3> QED
      BY <1>1, <2>1, <3>3, <3>4, TypedParts
  <2> QED
    BY <2>3, <2>4
<1>4. CASE ~writing /\ version # read /\ Deliver("ready", 0) /\ UNCHANGED notifier
  <2>1. target' \in TargetRec /\ target'.ver = 0 /\ woken' \in BOOLEAN
    BY <1>4, DeliverTyped, NotifierAssumption
  <2>2. CoordinatorTyped'
    BY <2>1 DEF Typed, CoordinatorTyped, Notify, file
  <2>3. TargetTyped' /\ NotifiersTyped'
    BY <1>1, <1>4, <2>1 DEF TargetTyped, NotifiersTyped, Typed, Version
  <2> QED
    BY <1>1, <2>2, <2>3, TypedParts
<1> QED
  BY <1>2, <1>3, <1>4 DEF Notify

\* refresh and begin_transaction keep the types.
LEMMA DeliversTyped ==
    ASSUME Typed, Refresh \/ BeginTransaction PROVE Typed'
<1>1. /\ UNCHANGED <<version, changed, read, notifier, worker, skip_version, opened,
                     async_error, posted>>
      /\ writing' \in BOOLEAN
      /\ Deliver("latest", version) \/ Deliver("begin", version)
  BY DEF Refresh, BeginTransaction, file, Typed
<1>2. version \in 0..MaxVersion
  BY NotifierAssumption DEF Typed, Version
<1>3. target' \in TargetRec /\ target'.ver = 0 /\ woken' \in BOOLEAN
  BY <1>1, <1>2, DeliverTyped
<1>4. 0 <= version
  BY DEF Typed, Version
<1> QED
  BY <1>1, <1>3, <1>4 DEF Typed

\* The package: its version is that of a notifier in it.
LEMMA PackageVersion ==
    ASSUME Typed, PackageAndWait
    PROVE  LET ran == {n \in target.list : notifier[n].has_run}
           IN  /\ target.pc = "package"
               /\ \A n \in target.list : UpToDate(n, target.want)
               /\ PackagedAll(ran) /\ ran \subseteq Notifier
               /\ \E v \in 0..version :
                    /\ IF ran = {} THEN v = 0 ELSE \E n \in ran : v = notifier[n].ver
                    /\ LET stale == v > 0 /\ v < target.want
                           list == IF stale THEN {} ELSE ran
                           pc == AfterPackaging(IF stale THEN 0 ELSE v)
                       IN  target' = IF pc = "idle" THEN Idle
                              ELSE [target EXCEPT !.pc = pc, !.list = list, !.left = list,
                                                  !.ver = IF stale THEN 0 ELSE v]
<1> DEFINE ran == {n \in target.list : notifier[n].has_run}
           vs == IF ran = {} THEN {0} ELSE {notifier[n].ver : n \in ran}
<1>1. ran \subseteq Notifier
  BY DEF Typed, TargetRec
<1>2. /\ target.pc = "package"
      /\ \A n \in target.list : UpToDate(n, target.want)
      /\ \E v \in vs :
             LET stale == v > 0 /\ v < target.want
                 list == IF stale THEN {} ELSE ran
                 pc == AfterPackaging(IF stale THEN 0 ELSE v)
             IN  /\ notifier' = [n \in Notifier |-> IF n \in ran THEN Packaged(notifier[n])
                                                    ELSE notifier[n]]
                 /\ target' = IF pc = "idle" THEN Idle
                              ELSE [target EXCEPT !.pc = pc, !.list = list, !.left = list,
                                                  !.ver = IF stale THEN 0 ELSE v]
  BY Zenon DEF PackageAndWait
<1>3. \A v \in vs : IF ran = {} THEN v = 0 ELSE \E n \in ran : v = notifier[n].ver
  OBVIOUS
<1>4. \A n \in ran : notifier[n].ver \in 0..version
  <2>1. \A n \in Notifier : notifier[n].ver \in Nat /\ notifier[n].ver <= version /\ version \in Nat
    BY DEF Typed, Sound, NotifierRec, Version
  <2> QED
    BY <1>1, <2>1
<1>5. 0 \in 0..version
  BY DEF Typed, Version
<1>6. \A v \in vs : v \in 0..version
  <2> HIDE DEF ran
  <2> QED
    BY <1>4, <1>5
<1> HIDE DEF vs, ran
<1>7. PICK v \in vs :
             LET stale == v > 0 /\ v < target.want
                 list == IF stale THEN {} ELSE ran
                 pc == AfterPackaging(IF stale THEN 0 ELSE v)
             IN  /\ notifier' = [n \in Notifier |-> IF n \in ran THEN Packaged(notifier[n])
                                                    ELSE notifier[n]]
                 /\ target' = IF pc = "idle" THEN Idle
                              ELSE [target EXCEPT !.pc = pc, !.list = list, !.left = list,
                                                  !.ver = IF stale THEN 0 ELSE v]
  BY <1>2
<1>8. v \in 0..version /\ (IF ran = {} THEN v = 0 ELSE \E n \in ran : v = notifier[n].ver)
  BY <1>3, <1>6
<1>9. PackagedAll(ran)
  BY <1>7 DEF PackagedAll
<1> QED
  BY <1>1, <1>2, <1>7, <1>8, <1>9 DEF ran

\* What the thread does with the package: it has the version and the notifiers of the
\* package, or neither when the package is too old.
LEMMA PackageShape ==
    ASSUME Typed, PackageAndWait
    PROVE  LET ran == {n \in target.list : notifier[n].has_run}
           IN  \E w, list, pc :
                 /\ w \in 0..version /\ pc = AfterPackaging(w)
                 /\ pc \in {"idle", "after", "before"}
                 /\ \/ list = ran /\ ran = {} /\ w = 0
                    \/ /\ list = ran /\ \E n \in ran : notifier[n].ver = w
                       /\ w = 0 \/ w >= target.want
                    \/ /\ list = {} /\ w = 0
                       /\ \E n \in ran : notifier[n].ver < target.want
                 /\ pc = "idle" => target' = Idle
                 /\ pc # "idle" => target' = [target EXCEPT !.pc = pc, !.list = list,
                                                            !.left = list, !.ver = w]
<1> DEFINE ran == {n \in target.list : notifier[n].has_run}
<1>1. PICK v \in 0..version :
        /\ IF ran = {} THEN v = 0 ELSE \E n \in ran : v = notifier[n].ver
        /\ LET stale == v > 0 /\ v < target.want
               list == IF stale THEN {} ELSE ran
               pc == AfterPackaging(IF stale THEN 0 ELSE v)
           IN  target' = IF pc = "idle" THEN Idle
                      ELSE [target EXCEPT !.pc = pc, !.list = list, !.left = list,
                                          !.ver = IF stale THEN 0 ELSE v]
  BY PackageVersion
<1> HIDE DEF ran
<1> DEFINE stale == v > 0 /\ v < target.want
           w == IF stale THEN 0 ELSE v
           list == IF stale THEN {} ELSE ran
           pc == AfterPackaging(w)
<1>2. target' = IF pc = "idle" THEN Idle
                ELSE [target EXCEPT !.pc = pc, !.list = list, !.left = list, !.ver = w]
  BY <1>1
<1>3. pc \in {"idle", "after", "before"}
  BY DEF AfterPackaging
<1>4. version \in Nat /\ target.want \in Nat
  BY DEF Typed, Version, TargetRec
<1>5. w \in 0..version
  BY <1>4
<1>6. \/ list = ran /\ ran = {} /\ w = 0
      \/ list = ran /\ (\E n \in ran : notifier[n].ver = w) /\ (w = 0 \/ w >= target.want)
      \/ list = {} /\ w = 0 /\ \E n \in ran : notifier[n].ver < target.want
  <2>1. CASE ran = {}
    BY <1>1, <2>1
  <2>2. CASE ran # {} /\ stale
    BY <1>1, <2>2
  <2>3. CASE ran # {} /\ ~stale
    <3>1. v = 0 \/ v >= target.want
      BY <1>4, <2>3
    <3> QED
      BY <1>1, <2>3, <3>1
  <2> QED
    BY <2>1, <2>2, <2>3
<1>7. pc = AfterPackaging(w)
  OBVIOUS
<1> HIDE DEF stale, w, list, pc
<1>8. \E x, l, p :
        /\ x \in 0..version /\ p = AfterPackaging(x)
        /\ p \in {"idle", "after", "before"}
        /\ \/ l = ran /\ ran = {} /\ x = 0
           \/ /\ l = ran /\ \E n \in ran : notifier[n].ver = x
              /\ x = 0 \/ x >= target.want
           \/ /\ l = {} /\ x = 0
              /\ \E n \in ran : notifier[n].ver < target.want
        /\ p = "idle" => target' = Idle
        /\ p # "idle" => target' = [target EXCEPT !.pc = p, !.list = l,
                                                   !.left = l, !.ver = x]
  <2> WITNESS w, list, pc
  <2> QED
    BY <1>2, <1>3, <1>5, <1>6, <1>7
<1> QED
  BY <1>8 DEF ran

\* package_and_wait keeps the types.
LEMMA PackageTyped ==
    ASSUME Typed, PackageAndWait PROVE Typed'
<1> DEFINE ran == {n \in target.list : notifier[n].has_run}
<1>1. PICK v \in 0..version :
        LET stale == v > 0 /\ v < target.want
            list == IF stale THEN {} ELSE ran
            pc == AfterPackaging(IF stale THEN 0 ELSE v)
        IN  target' = IF pc = "idle" THEN Idle
                      ELSE [target EXCEPT !.pc = pc, !.list = list, !.left = list,
                                          !.ver = IF stale THEN 0 ELSE v]
  BY PackageVersion
<1>2. PackagedAll(ran) /\ ran \subseteq Notifier
  BY PackageVersion
<1>3. version' = version /\ FileTyped' /\ CoordinatorTyped' /\ posted' \in BOOLEAN
  BY DEF PackageAndWait, file, coordinator, Typed, FileTyped, CoordinatorTyped
<1>4. NotifiersTyped'
  BY <1>2, <1>3, PackageSteps DEF NotifiersTyped
<1>5. TargetTyped'
  <2> DEFINE stale == v > 0 /\ v < target.want
             list == IF stale THEN {} ELSE ran
             w == IF stale THEN 0 ELSE v
             pc == AfterPackaging(w)
  <2>1. target' = IF pc = "idle" THEN Idle
                  ELSE [target EXCEPT !.pc = pc, !.list = list, !.left = list, !.ver = w]
    BY <1>1
  <2>2. list \subseteq Notifier /\ w \in 0..version /\ w \in 0..MaxVersion /\ w <= version
    BY <1>2, NotifierAssumption DEF Typed, Version
  <2>3. pc \in {"idle", "after", "before"}
    BY DEF AfterPackaging
  <2> HIDE DEF list, w, pc
  <2>4. CASE pc = "idle"
    BY <1>3, <2>1, <2>4, IdleTyped DEF TargetTyped, Typed, Version
  <2>5. CASE pc # "idle"
    <3>1. target' = [target EXCEPT !.pc = pc, !.list = list, !.left = list, !.ver = w]
      BY <2>1, <2>5
    <3>2. target \in TargetRec
      BY DEF Typed
    <3>3. target' \in TargetRec /\ target'.ver = w
      BY <2>2, <2>3, <3>1, <3>2 DEF TargetRec
    <3> QED
      BY <1>3, <2>2, <3>3 DEF TargetTyped
  <2> QED
    BY <2>4, <2>5
<1> QED
  BY <1>3, <1>4, <1>5, TypedParts

\* A step of for_each_callback keeps the types.
LEMMA ForEachTyped ==
    ASSUME Typed, NEW n \in Notifier, ForEachCallback(n) PROVE Typed'
<1>1. version' = version /\ FileTyped' /\ CoordinatorTyped' /\ posted' \in BOOLEAN
  BY Zenon DEF ForEachCallback, file, coordinator, Typed, FileTyped, CoordinatorTyped
<1>2. NotifiersTyped'
  BY <1>1, ForEachSteps, OneTyped DEF Iterated, EndsPass, CallsAt
<1>3. TargetTyped'
  <2>1. target \in TargetRec /\ target.ver <= version
    BY DEF Typed
  <2>2. \/ target' = [target EXCEPT !.cur = nil, !.left = @ \ {n}]
        \/ \E i \in 1..Len(Callbacks(n)) :
             target' = [target EXCEPT !.cur = n, !.left = @ \ {n},
                                   !.call = <<n, Callbacks(n)[i].token>>]
    BY ForEachSteps DEF EndsPass, CallsAt
  <2>3. \A i \in 1..Len(Callbacks(n)) : Callbacks(n)[i].token \in 1..MaxTokens
    <3>1. \A i \in 1..Len(Callbacks(n)) : Callbacks(n)[i] \in CallbackRec
      BY SoundAll
    <3> QED
      BY <3>1 DEF CallbackRec
  <2>4. target.left \ {n} \in SUBSET Notifier
    BY <2>1 DEF TargetRec
  <2>5. ASSUME NEW k \in 1..MaxTokens,
               target' = [target EXCEPT !.cur = n, !.left = @ \ {n}, !.call = <<n, k>>]
        PROVE  target' \in TargetRec /\ target'.ver = target.ver
    BY <2>1, <2>4, <2>5 DEF TargetRec
  <2>6. ASSUME target' = [target EXCEPT !.cur = nil, !.left = @ \ {n}]
        PROVE  target' \in TargetRec /\ target'.ver = target.ver
    BY <2>1, <2>4, <2>6 DEF TargetRec
  <2>7. target' \in TargetRec /\ target'.ver = target.ver
    BY <2>2, <2>3, <2>5, <2>6
  <2> QED
    BY <1>1, <2>1, <2>7 DEF TargetTyped
<1> QED
  BY <1>1, <1>2, <1>3, TypedParts

\* The return of a callback keeps the types.
LEMMA ReturnTyped ==
    ASSUME Typed, CallbackReturns PROVE Typed'
<1>1. version' = version /\ FileTyped' /\ CoordinatorTyped' /\ posted' \in BOOLEAN
  BY DEF CallbackReturns, file, coordinator, Typed, FileTyped, CoordinatorTyped
<1>2. NotifiersTyped'
  <2>1. target.call[1] \in Notifier
    BY DEF Typed, TargetRec, CallbackReturns
  <2>2. \/ UNCHANGED notifier
        \/ /\ target.call[2] \in Tokens(notifier[target.call[1]])
           /\ notifier' = [notifier EXCEPT ![target.call[1]] = Removed(@, target.call[2])]
    BY DEF CallbackReturns
  <2>3. CASE UNCHANGED notifier
    BY <1>1, <2>3 DEF Typed, NotifiersTyped
  <2>4. CASE /\ target.call[2] \in Tokens(notifier[target.call[1]])
             /\ notifier' = [notifier EXCEPT ![target.call[1]] = Removed(@, target.call[2])]
    BY <1>1, <2>1, <2>4, RemoveSteps, OneTyped
  <2> QED
    BY <2>2, <2>3, <2>4
<1>3. TargetTyped'
  BY <1>1 DEF Typed, TargetTyped, TargetRec, CallbackReturns
<1> QED
  BY <1>1, <1>2, <1>3, TypedParts

\* Advancing the Realm keeps the types.
LEMMA AdvanceTyped ==
    ASSUME Typed, Advance PROVE Typed'
<1>1. UNCHANGED <<version, changed, writing, notifier, coordinator, posted>>
  BY DEF Advance
<1>2. target.ver \in Nat /\ target.ver <= version /\ version \in Nat /\ version >= 1
  BY DEF Typed, TargetRec, Version
<1>3. read' \in 1..version
  BY <1>2 DEF Advance
<1>4. target' \in TargetRec /\ target'.ver = target.ver
  <2>1. target \in TargetRec /\ target.list \in SUBSET Notifier
    BY DEF Typed, TargetRec
  <2>2. target' = [target EXCEPT !.pc = IF target.err THEN "error" ELSE "after",
                                !.left = target.list]
    BY DEF Advance
  <2>3. (IF target.err THEN "error" ELSE "after") \in {"error", "after"}
    OBVIOUS
  <2> QED
    BY <2>1, <2>2, <2>3 DEF TargetRec
<1> QED
  BY <1>1, <1>3, <1>4 DEF Typed, coordinator

\* The end of a delivery keeps the types.
LEMMA DeliveredTyped ==
    ASSUME Typed, Delivered PROVE Typed'
<1>1. UNCHANGED <<file, notifier, coordinator, posted>> /\ target' = Idle
  BY DEF Delivered
<1>2. 0 <= version
  BY DEF Typed, Version
<1> QED
  BY <1>1, <1>2, IdleTyped DEF Typed, file, coordinator

\* The three steps of the worker keep the types.
LEMMA WorkerTyped ==
    ASSUME Typed, Worker PROVE Typed'
<1>1. version \in Nat /\ version >= 1 /\ version \in 0..MaxVersion
      /\ skip_version \in 0..version /\ MaxVersion \in Nat
  BY NotifierAssumption DEF Typed, Version
<1>2. CASE RunAsyncNotifiers
  <2>1. UNCHANGED <<file, target, told>> /\ woken' = FALSE
    BY <1>2, RunSteps
  <2>2. NotifiersTyped' /\ FileTyped' /\ TargetTyped'
    BY <1>2, <2>1, RunSteps DEF NotifiersTyped, FileTyped, TargetTyped, Typed, file
  <2>3. PICK skip : SkipOf(skip) /\ \/ GivesUp /\ skip_version' = skip
                                    \/ Starts(skip)
    BY <1>2, RunSteps
  <2>4. skip \in 0..version /\ skip \in 0..MaxVersion /\ skip <= version
    BY <1>1, <2>3 DEF SkipOf
  <2>5. CASE GivesUp /\ skip_version' = skip
    <3>1. CoordinatorTyped' /\ posted' \in BOOLEAN
      BY <2>1, <2>4, <2>5 DEF GivesUp, CoordinatorTyped, Typed, file
    <3> QED
      BY <2>2, <3>1, TypedParts
  <2>6. CASE Starts(skip)
    <3>1. Living("main") \subseteq Notifier /\ Living("new") \subseteq Notifier
      BY DEF Living
    <3>2. /\ worker' \in WorkerRec /\ worker'.ver = version /\ worker'.skip = skip
          /\ worker'.pc = "skip" => skip > 0
      BY <1>1, <2>4, <2>6, <3>1 DEF Starts, WorkerRec
    <3>3. CoordinatorTyped' /\ posted' \in BOOLEAN
      <4>1. /\ skip_version' = 0 /\ opened' = opened \cup {"notifier"} /\ ~async_error
            /\ async_error' = async_error /\ posted' = posted
        BY <2>6 DEF Starts
      <4>2. version' = version /\ opened' \subseteq {"advancer", "notifier"}
            /\ posted' \in BOOLEAN /\ async_error' \in BOOLEAN /\ 0 \in 0..version
        BY <1>1, <2>1, <4>1 DEF Typed, file
      <4>3. worker'.ver <= version /\ worker'.skip <= version /\ version > 0
        BY <1>1, <2>4, <3>2
      <4> QED
        BY <2>1, <3>2, <4>1, <4>2, <4>3 DEF CoordinatorTyped
    <3> QED
      BY <2>2, <3>3, TypedParts
  <2> QED
    BY <2>3, <2>5, <2>6
<1>3. CASE RunToSkipVersion
  <2>1. worker.skip > 0 /\ UNCHANGED <<file, target, skip_version, woken, opened, async_error,
                                        posted, told>>
        /\ worker' = [worker EXCEPT !.pc = "final"] /\ worker.pc = "skip"
    BY <1>3 DEF RunToSkipVersion, Typed
  <2>2. NotifiersTyped' /\ FileTyped' /\ TargetTyped'
    BY <1>3, <2>1, SkipSteps DEF NotifiersTyped, FileTyped, TargetTyped, Typed, file
  <2>3. /\ worker' \in WorkerRec /\ worker'.ver = worker.ver /\ worker'.skip = worker.skip
        /\ worker'.pc = "final"
    BY <2>1 DEF Typed, WorkerRec
  <2>4. CoordinatorTyped' /\ posted' \in BOOLEAN
    BY <2>1, <2>3 DEF CoordinatorTyped, Typed, file
  <2> QED
    BY <2>2, <2>4, TypedParts
<1>4. CASE RunToVersion
  <2>1. /\ worker.ver > 0 /\ UNCHANGED <<file, target, woken, opened, async_error, told>>
        /\ worker' = Resting /\ posted' = TRUE
    BY <1>4 DEF RunToVersion, Typed
  <2>2. NotifiersTyped' /\ FileTyped' /\ TargetTyped'
    BY <1>4, <2>1, FinalSteps DEF NotifiersTyped, FileTyped, TargetTyped, Typed, file
  <2>3. Resting \in WorkerRec /\ Resting.ver = 0 /\ Resting.skip = 0 /\ Resting.pc = "idle"
    BY <1>1 DEF Resting, WorkerRec
  <2>4. skip_version' \in 0..version
    BY <1>1, <1>4, <2>1, FinalSteps DEF SkipOf
  <2>5. CoordinatorTyped'
    BY <1>1, <2>1, <2>3, <2>4 DEF CoordinatorTyped, Typed, file
  <2> QED
    BY <2>1, <2>2, <2>5, TypedParts
<1> QED
  BY <1>2, <1>3, <1>4 DEF Worker

\* Every step keeps the types.
LEMMA TypedNext == Typed /\ [Next]_vars => Typed'
<1> SUFFICES ASSUME Typed, [Next]_vars PROVE Typed'
  OBVIOUS
<1>1. CASE UNCHANGED vars
  BY <1>1 DEF Typed, vars, file, coordinator
<1>2. CASE \E n \in Notifier : RegisterNotifier(n) \/ AddCallback(n) \/ Unregister(n)
  BY <1>2, RegisterTyped, AddTyped, UnregisterTyped
<1>3. CASE \E n \in Notifier, k \in 1..MaxTokens :
             RemoveCallback(n, k) \/ SuppressNextNotification(n, k)
  BY <1>3, RemoveTyped, SuppressTyped
<1>4. CASE EndTransaction \/ CommitFails \/ WriteInCallback \/ OtherCommit
  BY <1>4, CommitsTyped, FailTyped, CancelTyped, OtherTyped DEF EndTransaction
<1>5. CASE Notify \/ Refresh \/ BeginTransaction
  BY <1>5, NotifyTyped, DeliversTyped
<1>6. CASE Proceed
  BY <1>6, PackageTyped, ReturnTyped, AdvanceTyped, DeliveredTyped, ForEachTyped DEF Proceed
<1>7. CASE Worker
  BY <1>7, WorkerTyped
<1> QED
  BY <1>1, <1>2, <1>3, <1>4, <1>5, <1>6, <1>7 DEF Next

\* The types, with their bounds, hold always.
LEMMA TypedAlways == Spec => []Typed
BY TypedInit, TypedNext, PTL DEF Spec

\* commitWriteTransactionWithoutNotifying: is called in a write transaction and keeps
\* the thread until it ends.
Suppression ==
    suppressing \in BOOLEAN /\ (suppressing => writing /\ target.pc = "idle")

\* A call that is under way goes on, towards the same version.
StillHiding == suppressing => suppressing' /\ version' = version

\* It ends with its commit, or fails.
LEMMA HidingNext ==
    ASSUME Typed, Suppression, [Next]_vars
    PROVE  Suppression' /\ (StillHiding \/ Commit \/ CommitFails)
<1>1. CASE Commit \/ CommitFails
  BY <1>1 DEF Commit, CommitFails, Suppression
<1>2. CASE \E n \in Notifier, k \in 1..MaxTokens : SuppressNextNotification(n, k)
  BY <1>2 DEF SuppressNextNotification, Suppression, StillHiding
<1>3. CASE CancelTransaction \/ WriteInCallback \/ OtherCommit \/ Refresh \/ BeginTransaction
  <2>1. suppressing' = suppressing /\ ~suppressing
    <3>1. WriteInCallback => target.pc # "idle"
      BY DEF WriteInCallback
    <3> QED
      BY <1>3, <3>1 DEF CancelTransaction, WriteInCallback, OtherCommit, Refresh,
         BeginTransaction, Suppression, file
  <2> QED
    BY <2>1 DEF Suppression, StillHiding
<1>4. CASE Notify
  BY <1>4 DEF Notify, Suppression, StillHiding, file
<1>5. CASE CallbackReturns
  <2>1. target'.pc = target.pc
    BY <1>5 DEF CallbackReturns, Typed, TargetRec
  <2> QED
    BY <1>5, <2>1 DEF CallbackReturns, Suppression, StillHiding, file
<1>6. CASE PackageAndWait \/ Advance \/ Delivered \/ \E n \in Notifier : ForEachCallback(n)
  <2>1. target.pc # "idle"
    BY <1>6 DEF PackageAndWait, Advance, Delivered, ForEachCallback
  <2>2. suppressing' = suppressing
    BY <1>6 DEF PackageAndWait, Advance, Delivered, ForEachCallback, file
  <2> QED
    BY <2>1, <2>2 DEF Suppression, StillHiding
<1>7. CASE UNCHANGED <<version, writing, suppressing, target>>
  BY <1>7 DEF Suppression, StillHiding
<1>8. CASE \/ \E n \in Notifier : RegisterNotifier(n) \/ AddCallback(n) \/ Unregister(n)
           \/ \E n \in Notifier, k \in 1..MaxTokens : RemoveCallback(n, k)
           \/ Worker \/ UNCHANGED vars
  <2>1. UNCHANGED <<version, writing, suppressing, target>>
    BY <1>8 DEF RegisterNotifier, AddCallback, Unregister, RemoveCallback, Worker,
       RunAsyncNotifiers, RunToSkipVersion, RunToVersion, vars, file
  <2> QED
    BY <1>7, <2>1
<1> QED
  BY <1>1, <1>2, <1>3, <1>4, <1>5, <1>6, <1>8 DEF Next, EndTransaction, Proceed

\* The members keep their types, whatever the application does.
THEOREM NotifierTypes == Spec => []TypeOK
<1>1. Typed /\ Suppression => TypeOK
  <2> SUFFICES ASSUME Typed, Suppression PROVE TypeOK
    OBVIOUS
  <2>1. ASSUME NEW n \in Notifier
        PROVE  /\ [notifier[n] EXCEPT !.callbacks = <<>>] \in NotifierRec
               /\ \A i \in DOMAIN notifier[n].callbacks : notifier[n].callbacks[i] \in CallbackRec
    <3>1. notifier[n] \in NotifierRec /\ notifier[n].callbacks \in Seq(CallbackRec)
      BY DEF Typed, NotifierRec
    <3>2. <<>> \in Seq(CallbackRec)
      OBVIOUS
    <3>3. [notifier[n] EXCEPT !.callbacks = <<>>] \in NotifierRec
      BY <3>1, <3>2 DEF NotifierRec
    <3>4. \A i \in DOMAIN notifier[n].callbacks : notifier[n].callbacks[i] \in CallbackRec
      BY <3>1
    <3> QED
      BY <3>3, <3>4
  <2> QED
    BY <2>1 DEF Typed, TypeOK, Suppression
<1>2. Init => Typed /\ Suppression
  BY TypedInit DEF Init, Suppression
<1>3. Typed /\ Suppression /\ [Next]_vars => Typed' /\ Suppression'
  BY TypedNext, HidingNext
<1> QED
  BY <1>1, <1>2, <1>3, PTL DEF Spec

\* m_have_callbacks is exact, whatever the application does.
THEOREM NotifierHaveExact == Spec => []HaveCallbacksExact
<1>1. Typed => HaveCallbacksExact
  BY DEF Typed, Sound, HaveCallbacksExact
<1> QED
  BY <1>1, TypedAlways, PTL

----------------------------------------------------------------------------
(* The delivery of a package: the thread, the tokens and the count.         *)

\* What the thread is at: the callback being called is one of the notifier the pass
\* is at, which is in the package; only that notifier is being iterated.
Thread ==
    /\ target.left \subseteq target.list
    /\ target.pc = "idle" => target = Idle
    /\ target.pc \in {"package", "advance"} => target.cur = nil /\ target.call = nil
    /\ target.pc \in {"package", "before", "after"} => ~target.err
    /\ target.pc \in {"advance", "error"} => target.err
    /\ target.cur # nil => target.cur \in target.list \ target.left
    /\ target.call # nil => target.cur # nil /\ target.call[1] = target.cur

Iterating == \A n \in Notifier : notifier[n].index # 0 => target.cur = n

\* The tokens of a notifier record grow and have all been given.
Ordered(r) ==
    /\ \A i \in 1..Len(r.callbacks) : r.callbacks[i].token <= r.next
    /\ \A i, j \in 1..Len(r.callbacks) :
         i < j => r.callbacks[i].token < r.callbacks[j].token

\* The callbacks that were there when r was packaged come first, and the count is
\* their number.
Prefix(r) ==
    /\ r.count \in 0..Len(r.callbacks) /\ r.index <= r.count
    /\ \A i \in 1..Len(r.callbacks) :
         i <= r.count <=> r.callbacks[i].token \notin r.fresh

\* The callback being called is not one that was added by this delivery.
CallIsOld ==
    target.call # nil =>
        /\ target.call[2] <= notifier[target.call[1]].next
        /\ target.call[2] \notin notifier[target.call[1]].fresh

AllOrdered == \A n \in Notifier : Ordered(notifier[n])
AllPrefix  == \A n \in Notifier : Delivering(n) => Prefix(notifier[n])

\* s has the callbacks of r, with other contents.
SameTokens(r, s) ==
    /\ s.next = r.next /\ Len(s.callbacks) = Len(r.callbacks)
    /\ \A i \in 1..Len(r.callbacks) : s.callbacks[i].token = r.callbacks[i].token

\* And it is as far in the iteration.
SameCount(r, s) ==
    SameTokens(r, s) /\ s.index = r.index /\ s.count = r.count /\ s.fresh = r.fresh

\* The order of the tokens depends on the tokens only.
LEMMA SameOrdered ==
    ASSUME NEW r, NEW s, Ordered(r), SameTokens(r, s)
    PROVE  Ordered(s)
BY DEF Ordered, SameTokens

\* So does the prefix, on the tokens and the iteration.
LEMMA SamePrefix ==
    ASSUME NEW r, NEW s, Prefix(r), SameCount(r, s)
    PROVE  Prefix(s)
BY DEF Prefix, SameCount, SameTokens

\* The tokens of a sound record are numbers.
LEMMA TokenNat ==
    ASSUME NEW v, NEW r, Sound(r, v)
    PROVE  /\ r.next \in Nat /\ r.index \in Nat /\ r.count \in Int /\ Len(r.callbacks) \in Nat
           /\ \A i \in 1..Len(r.callbacks) : r.callbacks[i].token \in Nat
<1>1. r.callbacks \in Seq(CallbackRec) /\ r.next \in Nat /\ r.index \in Nat /\ r.count \in Int
  BY DEF Sound, NotifierRec
<1>2. \A i \in 1..Len(r.callbacks) : r.callbacks[i] \in CallbackRec
  BY <1>1
<1>3. \A i \in 1..Len(r.callbacks) : r.callbacks[i].token \in Nat
  BY <1>2 DEF CallbackRec
<1> QED
  BY <1>1, <1>3

\* Removing a callback keeps the order, and keeps the prefix when the callback was
\* there when the notifier was packaged.
LEMMA RemovedOrdered ==
    ASSUME NEW v, NEW r, Sound(r, v), NEW s, NEW p \in 1..Len(r.callbacks),
           RemovedAt(r, s, p), Ordered(r)
    PROVE  /\ Ordered(s)
           /\ Prefix(r) /\ r.callbacks[p].token \notin r.fresh => Prefix(s)
<1> DEFINE L == Len(r.callbacks)
           m == Len(s.callbacks)
           O(j) == IF j < p THEN j ELSE j + 1
<1>1. /\ r.next \in Nat /\ r.index \in Nat /\ r.count \in Int /\ L \in Nat
      /\ \A i \in 1..L : r.callbacks[i].token \in Nat
  BY TokenNat
<1>2. /\ m = L - 1 /\ s.next = r.next /\ s.fresh = r.fresh /\ s.count = r.count - 1
      /\ s.index = IF r.index >= p THEN r.index - 1 ELSE r.index
      /\ \A j \in 1..m : s.callbacks[j] = IF j < p THEN r.callbacks[j] ELSE r.callbacks[j + 1]
  BY DEF RemovedAt, Kept
<1>3. \A j \in 1..m : O(j) \in 1..L /\ s.callbacks[j] = r.callbacks[O(j)]
  BY <1>1, <1>2
<1>4. \A i, j \in 1..m : i < j => O(i) < O(j)
  BY <1>1, <1>2
<1> HIDE DEF O
<1>5. Ordered(s)
  <2>1. \A j \in 1..m : s.callbacks[j].token <= s.next
    BY <1>2, <1>3 DEF Ordered
  <2>2. ASSUME NEW i \in 1..m, NEW j \in 1..m, i < j
        PROVE  s.callbacks[i].token < s.callbacks[j].token
    BY <1>3, <1>4, <2>2 DEF Ordered
  <2> QED
    BY <2>1, <2>2 DEF Ordered
<1>6. ASSUME Prefix(r), r.callbacks[p].token \notin r.fresh
      PROVE  Prefix(s)
  <2>1. /\ r.count \in 0..L /\ r.index <= r.count /\ p <= r.count
        /\ \A i \in 1..L : i <= r.count <=> r.callbacks[i].token \notin r.fresh
    BY <1>6 DEF Prefix
  <2>2. s.count \in 0..m /\ s.index <= s.count
    BY <1>1, <1>2, <2>1
  <2>3. \A j \in 1..m : O(j) <= r.count <=> j <= s.count
    BY <1>1, <1>2, <2>1 DEF O
  <2>4. \A j \in 1..m : j <= s.count <=> s.callbacks[j].token \notin s.fresh
    BY <1>2, <1>3, <2>1, <2>3
  <2> QED
    BY <2>2, <2>4 DEF Prefix
<1> QED
  BY <1>5, <1>6

\* Adding a callback keeps both: its token is new, and fresh.
LEMMA AddedOrdered ==
    ASSUME NEW v, NEW r, Sound(r, v), NEW s, Ordered(r),
           s.index = r.index, s.count = r.count, s.next = r.next + 1,
           s.fresh = r.fresh \cup {s.next}, Len(s.callbacks) = Len(r.callbacks) + 1,
           \A i \in 1..Len(r.callbacks) : s.callbacks[i] = r.callbacks[i],
           s.callbacks[Len(r.callbacks) + 1].token = s.next
    PROVE  Ordered(s) /\ (Prefix(r) => Prefix(s))
<1> DEFINE L == Len(r.callbacks)
<1>1. /\ r.next \in Nat /\ r.index \in Nat /\ r.count \in Int /\ L \in Nat
      /\ \A i \in 1..L : r.callbacks[i].token \in Nat
  BY TokenNat
<1>2. \A j \in 1..(L + 1) : j \in 1..L \/ j = L + 1
  BY <1>1
<1>3. Ordered(s)
  <2>0. /\ \A i \in 1..L : /\ s.callbacks[i].token \in Nat
                           /\ s.callbacks[i].token <= r.next
                           /\ s.callbacks[i].token = r.callbacks[i].token
        /\ s.callbacks[L + 1].token = s.next
    BY <1>1 DEF Ordered
  <2>1. ASSUME NEW j \in 1..(L + 1)
        PROVE  s.callbacks[j].token <= s.next
    <3>1. CASE j \in 1..L
      BY <1>1, <2>0, <3>1
    <3>2. CASE j = L + 1
      BY <1>1, <2>0, <3>2
    <3> QED
      BY <1>2, <3>1, <3>2
  <2>2. ASSUME NEW i \in 1..(L + 1), NEW j \in 1..(L + 1), i < j
        PROVE  s.callbacks[i].token < s.callbacks[j].token
    <3>1. i \in 1..L
      BY <1>1, <2>2
    <3>2. CASE j \in 1..L
      BY <2>0, <2>2, <3>1, <3>2 DEF Ordered
    <3>3. CASE j = L + 1
      BY <1>1, <2>0, <3>1, <3>3
    <3> QED
      BY <1>2, <3>2, <3>3
  <2> QED
    BY <2>1, <2>2 DEF Ordered
<1>4. ASSUME Prefix(r)
      PROVE  Prefix(s)
  <2>1. /\ r.count \in 0..L /\ r.index <= r.count
        /\ \A i \in 1..L : i <= r.count <=> r.callbacks[i].token \notin r.fresh
    BY <1>4 DEF Prefix
  <2>2. \A i \in 1..L : r.callbacks[i].token # s.next
    BY <1>1 DEF Ordered
  <2>3. \A j \in 1..(L + 1) : j <= s.count <=> s.callbacks[j].token \notin s.fresh
    <3>1. ASSUME NEW j \in 1..L
          PROVE  j <= s.count <=> s.callbacks[j].token \notin s.fresh
      BY <2>1, <2>2
    <3>2. ~(L + 1 <= s.count) /\ s.callbacks[L + 1].token \in s.fresh
      BY <1>1, <2>1
    <3> QED
      BY <1>2, <3>1, <3>2
  <2>4. s.count \in 0..(L + 1) /\ s.index <= s.count
    BY <1>1, <2>1
  <2> QED
    BY <2>3, <2>4 DEF Prefix
<1> QED
  BY <1>3, <1>4

\* A record that counts all its callbacks and has no fresh one.
LEMMA CountedPrefix ==
    ASSUME NEW v, NEW r, Sound(r, v), r.count = Len(r.callbacks), r.fresh = {}
    PROVE  Prefix(r)
<1>1. Len(r.callbacks) \in Nat /\ r.index <= Len(r.callbacks)
  BY TokenNat DEF Sound
<1> QED
  BY <1>1 DEF Prefix

\* The worker and the suppression of a notification keep the tokens and the count.
LEMMA WorkerCount ==
    ASSUME Typed, Worker, NEW n \in Notifier
    PROVE  SameCount(notifier[n], notifier'[n])
<1>1. CASE RunAsyncNotifiers
  BY <1>1, RunSteps DEF Moved, SameCount, SameTokens
<1>2. CASE RunToSkipVersion
  <2>1. worker.skip > 0
    BY <1>2 DEF RunToSkipVersion, Typed
  <2>2. CASE n \in worker.old
    BY <1>2, <2>1, <2>2, SkipSteps DEF Reached, More, SameCount, SameTokens
  <2>3. CASE n \notin worker.old
    BY <1>2, <2>1, <2>3, SkipSteps DEF SameCount, SameTokens
  <2> QED
    BY <2>2, <2>3
<1>3. CASE RunToVersion
  <2>1. worker.ver > 0
    BY <1>3 DEF RunToVersion, Typed
  <2>2. CASE n \in worker.old \cup worker.new
    BY <1>3, <2>1, <2>2, FinalSteps DEF Reached, More, SameCount, SameTokens
  <2>3. CASE n \notin worker.old \cup worker.new
    BY <1>3, <2>1, <2>3, FinalSteps DEF Moved, SameCount, SameTokens
  <2> QED
    BY <2>2, <2>3
<1> QED
  BY <1>1, <1>2, <1>3 DEF Worker

\* A callback is added by AddCallback alone and removed by RemoveCallback or, after an
\* error, by CallbackReturns; everything else keeps the tokens.
Quieter ==
    \/ EndTransaction \/ CommitFails \/ WriteInCallback \/ OtherCommit
    \/ Refresh \/ BeginTransaction \/ Advance \/ Delivered \/ Worker \/ UNCHANGED vars
    \/ \E n \in Notifier : Unregister(n)
    \/ \E n \in Notifier, k \in 1..MaxTokens : SuppressNextNotification(n, k)

\* The actions that keep tokens and counts.
LEMMA QuietCount ==
    ASSUME Typed, Quieter, NEW n \in Notifier
    PROVE  SameCount(notifier[n], notifier'[n])
<1>1. CASE UNCHANGED notifier
  BY <1>1 DEF SameCount, SameTokens
<1>2. CASE \E m \in Notifier, k \in 1..MaxTokens : SuppressNextNotification(m, k)
  <2>1. PICK m \in Notifier, k \in 1..MaxTokens : SuppressNextNotification(m, k)
    BY <1>2
  <2>2. PICK s : \E p \in 1..Len(Callbacks(m)) :
             /\ Replaced(m, s) /\ Sound(s, version) /\ Kept(notifier[m], s)
             /\ s.index = notifier[m].index /\ s.count = notifier[m].count
             /\ s.fresh = notifier[m].fresh
             /\ Len(s.callbacks) = Len(Callbacks(m))
             /\ \A i \in 1..Len(Callbacks(m)) : i # p => s.callbacks[i] = Callbacks(m)[i]
             /\ s.callbacks[p].token = Callbacks(m)[p].token
    BY <2>1, SuppressSteps
  <2>3. SameCount(notifier[m], s)
    BY <2>2 DEF SameCount, SameTokens, Kept, Callbacks
  <2>4. notifier'[m] = s /\ \A o \in Notifier : o # m => notifier'[o] = notifier[o]
    BY <2>2, ReplacedFacts
  <2>5. SameCount(notifier[n], notifier[n])
    BY DEF SameCount, SameTokens
  <2> QED
    BY <2>3, <2>4, <2>5
<1>3. CASE \E m \in Notifier : Unregister(m)
  <2>1. PICK m \in Notifier : Unregister(m)
    BY <1>3
  <2>2. PICK s : /\ Replaced(m, s) /\ s.index = notifier[m].index /\ s.count = notifier[m].count
                 /\ s.next = notifier[m].next /\ s.fresh = notifier[m].fresh
                 /\ s.callbacks = Callbacks(m)
    BY <2>1, UnregisterSteps
  <2>3. SameCount(notifier[m], s)
    BY <2>2 DEF SameCount, SameTokens, Callbacks
  <2>4. notifier'[m] = s /\ \A o \in Notifier : o # m => notifier'[o] = notifier[o]
    BY <2>2, ReplacedFacts
  <2>5. SameCount(notifier[n], notifier[n])
    BY DEF SameCount, SameTokens
  <2> QED
    BY <2>3, <2>4, <2>5
<1>4. CASE Worker
  BY <1>4, WorkerCount
<1>5. ASSUME Commit \/ CancelTransaction \/ WriteInCallback \/ OtherCommit \/ Refresh
             \/ BeginTransaction \/ Advance \/ Delivered \/ UNCHANGED vars
      PROVE  UNCHANGED notifier
  BY <1>5 DEF Commit, CancelTransaction, WriteInCallback, OtherCommit, Refresh,
     BeginTransaction, Advance, Delivered, vars
<1>6. CASE CommitFails
  BY <1>6, FailSteps DEF SameCount, SameTokens, Kept
<1> QED
  BY <1>1, <1>2, <1>3, <1>4, <1>5, <1>6 DEF Quieter, EndTransaction

\* for_each_callback keeps the tokens.
LEMMA ForEachTokens ==
    ASSUME Typed, NEW n \in Notifier, ForEachCallback(n)
    PROVE  \E s : Replaced(n, s) /\ SameTokens(notifier[n], s)
<1>1. CASE \E s : Iterated(n, s, 0) /\ s.callbacks = Callbacks(n)
  BY <1>1 DEF Iterated, Kept, SameTokens, Callbacks
<1>2. CASE \E s : \E i \in 1..Len(Callbacks(n)) :
             /\ Iterated(n, s, i)
             /\ \A j \in 1..Len(Callbacks(n)) : j # i => s.callbacks[j] = Callbacks(n)[j]
             /\ s.callbacks[i].token = Callbacks(n)[i].token
  <2>1. PICK s : \E i \in 1..Len(Callbacks(n)) :
             /\ Iterated(n, s, i)
             /\ \A j \in 1..Len(Callbacks(n)) : j # i => s.callbacks[j] = Callbacks(n)[j]
             /\ s.callbacks[i].token = Callbacks(n)[i].token
    BY <1>2
  <2>2. Replaced(n, s) /\ SameTokens(notifier[n], s)
    BY <2>1 DEF Iterated, Kept, SameTokens, Callbacks
  <2> QED
    BY <2>2
<1>3. CASE \E s : \E i \in 1..Len(Callbacks(n)) :
             /\ Iterated(n, s, i)
             /\ \A j \in 1..Len(Callbacks(n)) : j # i => s.callbacks[j] = Callbacks(n)[j]
             /\ target.pc = "after" => Told(Callbacks(n)[i], s.callbacks[i], target.ver)
             /\ target.pc # "after" => s.callbacks = Callbacks(n)
  BY <1>2, <1>3 DEF Told
<1> QED
  BY <1>1, <1>3, ForEachSteps DEF EndsPass, CallsAt

\* The tokens stay in order.
LEMMA OrderedNext ==
    ASSUME Typed, AllOrdered, [Next]_vars
    PROVE  AllOrdered'
<1> SUFFICES ASSUME NEW n \in Notifier
             PROVE  Ordered(notifier'[n])
  BY DEF AllOrdered
<1>1. Ordered(notifier[n]) /\ Sound(notifier[n], version)
  BY SoundAll DEF AllOrdered
<1>2. CASE Quieter
  BY <1>1, <1>2, QuietCount, SameOrdered DEF SameCount
<1>3. CASE \E m \in Notifier : RegisterNotifier(m)
  <2>1. PICK m \in Notifier : RegisterNotifier(m)
    BY <1>3
  <2>2. PICK s : Replaced(m, s) /\ s.callbacks = <<>>
    BY <2>1, RegisterSteps
  <2>3. Ordered(s)
    <3>1. Len(s.callbacks) = 0
      BY <2>2
    <3> QED
      BY <3>1 DEF Ordered
  <2> QED
    BY <1>1, <2>2, <2>3, ReplacedFacts
<1>4. CASE \E m \in Notifier : AddCallback(m)
  <2>1. PICK m \in Notifier : AddCallback(m)
    BY <1>4
  <2>2. PICK s : /\ Replaced(m, s)
                 /\ s.index = notifier[m].index /\ s.count = notifier[m].count
                 /\ s.next = notifier[m].next + 1
                 /\ s.fresh = notifier[m].fresh \cup {s.next}
                 /\ Len(s.callbacks) = Len(Callbacks(m)) + 1
                 /\ \A i \in 1..Len(Callbacks(m)) : s.callbacks[i] = Callbacks(m)[i]
                 /\ s.callbacks[Len(Callbacks(m)) + 1].token = s.next
    BY <2>1, AddSteps
  <2>3. Ordered(s)
    <3>1. Ordered(notifier[m]) /\ Sound(notifier[m], version)
      BY SoundAll DEF AllOrdered
    <3> QED
      BY <2>2, <3>1, AddedOrdered DEF Callbacks
  <2> QED
    BY <1>1, <2>2, <2>3, ReplacedFacts
<1>5. ASSUME NEW m \in Notifier, NEW k \in Tokens(notifier[m]),
             notifier' = [notifier EXCEPT ![m] = Removed(@, k)]
      PROVE  Ordered(notifier'[n])
  <2>1. PICK s : \E p \in 1..Len(Callbacks(m)) :
             /\ Replaced(m, s) /\ Sound(s, version) /\ RemovedAt(notifier[m], s, p)
    BY <1>5, RemoveSteps
  <2>2. Ordered(s)
    <3>1. Ordered(notifier[m]) /\ Sound(notifier[m], version)
      BY SoundAll DEF AllOrdered
    <3> QED
      BY <2>1, <3>1, RemovedOrdered DEF Callbacks
  <2> QED
    BY <1>1, <2>1, <2>2, ReplacedFacts
<1>6. CASE \E m \in Notifier, k \in 1..MaxTokens : RemoveCallback(m, k)
  BY <1>5, <1>6 DEF RemoveCallback
<1>7. CASE CallbackReturns
  <2>1. target.call[1] \in Notifier
    BY <1>7 DEF Typed, TargetRec, CallbackReturns
  <2>2. \/ UNCHANGED notifier
        \/ /\ target.call[2] \in Tokens(notifier[target.call[1]])
           /\ notifier' = [notifier EXCEPT ![target.call[1]] = Removed(@, target.call[2])]
    BY <1>7 DEF CallbackReturns
  <2> QED
    BY <1>1, <1>5, <2>1, <2>2
<1>8. ASSUME NEW S, PackagedAll(S)
      PROVE  Ordered(notifier'[n])
  <2>1. notifier'[n] = IF n \in S THEN Packaged(notifier[n]) ELSE notifier[n]
    BY <1>8, PackageSteps
  <2>2. SameTokens(notifier[n], Packaged(notifier[n]))
    BY SoundAll, PackagedFacts DEF SameTokens, Kept
  <2> QED
    BY <1>1, <2>1, <2>2, SameOrdered
<1>9. CASE Notify
  <2>1. CASE UNCHANGED notifier
    BY <1>1, <2>1
  <2>2. CASE ProcessAvailableAsync
    <3>1. UNCHANGED notifier \/ \E S : PackagedAll(S)
      BY <2>2, Zenon DEF ProcessAvailableAsync, PackagedAll
    <3> QED
      BY <1>1, <1>8, <3>1
  <2> QED
    BY <1>9, <2>1, <2>2 DEF Notify
<1>10. CASE PackageAndWait
  BY <1>8, <1>10, PackageVersion
<1>11. CASE \E m \in Notifier : ForEachCallback(m)
  <2>1. PICK m \in Notifier : ForEachCallback(m)
    BY <1>11
  <2>2. PICK s : Replaced(m, s) /\ SameTokens(notifier[m], s)
    BY <2>1, ForEachTokens
  <2> QED
    BY <1>1, <2>2, ReplacedFacts, SameOrdered DEF AllOrdered
<1> QED
  BY <1>2, <1>3, <1>4, <1>6, <1>7, <1>9, <1>10, <1>11 DEF Next, Proceed, Quieter

\* The thread's record stays consistent.
LEMMA ThreadNext ==
    ASSUME Typed, Thread, [Next]_vars
    PROVE  Thread'
<1>1. CASE UNCHANGED target
  BY <1>1 DEF Thread
<1>2. CASE Notify
  <2>1. CASE ProcessAvailableAsync
    <3> DEFINE list == {n \in NotifiersForRealm :
                       async_error \/ (notifier[n].has_run /\ notifier[n].ver = read)}
    <3>1. \/ target' = Idle
          \/ target' = [Idle EXCEPT !.pc = "error", !.list = list, !.left = list, !.err = TRUE]
          \/ target' = [Idle EXCEPT !.pc = "after", !.list = list, !.left = list, !.ver = read]
      BY <2>1, Zenon DEF ProcessAvailableAsync
    <3> HIDE DEF list
    <3>2. CASE target' = Idle
      BY <3>2 DEF Thread, Idle
    <3>3. CASE target' = [Idle EXCEPT !.pc = "error", !.list = list, !.left = list, !.err = TRUE]
      BY <3>3 DEF Thread, Idle
    <3>4. CASE target' = [Idle EXCEPT !.pc = "after", !.list = list, !.left = list, !.ver = read]
      BY <3>4 DEF Thread, Idle
    <3> QED
      BY <3>1, <3>2, <3>3, <3>4
  <2>2. CASE Deliver("ready", 0)
    <3>1. 0 \in 0..MaxVersion /\ async_error \in BOOLEAN
      BY NotifierAssumption DEF Typed
    <3> QED
      BY <2>2, <3>1, DeliverTyped DEF Thread
  <2> QED
    BY <1>1, <1>2, <2>1, <2>2 DEF Notify
<1>3. CASE Refresh \/ BeginTransaction
  <2>1. version \in 0..MaxVersion /\ async_error \in BOOLEAN
    BY NotifierAssumption DEF Typed, Version
  <2>2. Deliver("latest", version) \/ Deliver("begin", version)
    BY <1>3 DEF Refresh, BeginTransaction
  <2> QED
    BY <2>1, <2>2, DeliverTyped DEF Thread
<1>4. CASE PackageAndWait
  <2>1. PICK w, list, pc :
          /\ pc \in {"idle", "after", "before"}
          /\ pc = "idle" => target' = Idle
          /\ pc # "idle" => target' = [target EXCEPT !.pc = pc, !.list = list,
                                                     !.left = list, !.ver = w]
    BY <1>4, PackageShape
  <2>2. target \in TargetRec /\ target.pc = "package"
    BY <1>4 DEF Typed, PackageAndWait
  <2>3. CASE pc = "idle"
    BY <2>1, <2>3 DEF Thread, Idle
  <2>4. CASE pc # "idle"
    <3>1. target' = [target EXCEPT !.pc = pc, !.list = list, !.left = list, !.ver = w]
          /\ pc \in {"after", "before"}
      BY <2>1, <2>4
    <3>2. /\ target'.pc = pc /\ target'.err = target.err /\ target'.list = list
          /\ target'.left = list /\ target'.cur = target.cur /\ target'.call = target.call
      BY <2>2, <3>1 DEF TargetRec
    <3> QED
      BY <2>2, <3>1, <3>2 DEF Thread
  <2> QED
    BY <2>3, <2>4
<1>5. CASE \E n \in Notifier : ForEachCallback(n)
  <2>1. PICK n \in Notifier : ForEachCallback(n)
    BY <1>5
  <2>2. target \in TargetRec /\ nil \notin Notifier
    BY NotifierAssumption DEF Typed
  <2>3. /\ target.pc \in {"before", "after", "error"} /\ target.call = nil
        /\ target.cur = n \/ (target.cur = nil /\ n \in target.left)
        /\ \/ target' = [target EXCEPT !.cur = nil, !.left = @ \ {n}]
           \/ \E k : target' = [target EXCEPT !.cur = n, !.left = @ \ {n}, !.call = <<n, k>>]
    BY <2>1, ForEachSteps DEF EndsPass, CallsAt
  <2>4. n \in target.list
    BY <2>2, <2>3 DEF Thread
  <2>5. CASE target' = [target EXCEPT !.cur = nil, !.left = @ \ {n}]
    BY <2>2, <2>3, <2>5 DEF Thread, TargetRec
  <2>6. CASE \E k : target' = [target EXCEPT !.cur = n, !.left = @ \ {n}, !.call = <<n, k>>]
    <3>1. PICK k : target' = [target EXCEPT !.cur = n, !.left = @ \ {n}, !.call = <<n, k>>]
      BY <2>6
    <3>2. /\ target'.pc = target.pc /\ target'.err = target.err /\ target'.list = target.list
          /\ target'.cur = n /\ target'.left = target.left \ {n} /\ target'.call = <<n, k>>
      BY <2>2, <3>1 DEF TargetRec
    <3>3. <<n, k>>[1] = n
      OBVIOUS
    <3> QED
      BY <2>2, <2>3, <2>4, <3>2, <3>3 DEF Thread
  <2> QED
    BY <2>3, <2>5, <2>6
<1>6. CASE CallbackReturns
  <2>1. target \in TargetRec
    BY DEF Typed
  <2>2. target' = [target EXCEPT !.call = nil] /\ target.call # nil
    BY <1>6 DEF CallbackReturns
  <2>3. target.pc # "idle"
    BY <2>2 DEF Thread, Idle
  <2> QED
    BY <2>1, <2>2, <2>3 DEF Thread, TargetRec
<1>7. CASE Advance
  <2>1. target \in TargetRec /\ target.err \in BOOLEAN
    BY DEF Typed, TargetRec
  <2>2. /\ target' = [target EXCEPT !.pc = IF target.err THEN "error" ELSE "after",
                                   !.left = target.list]
        /\ target.cur = nil
    BY <1>7 DEF Advance, Thread
  <2> QED
    BY <2>1, <2>2 DEF Thread, TargetRec
<1>8. CASE Delivered
  BY <1>8 DEF Delivered, Thread, Idle
<1> QED
  BY <1>1, <1>2, <1>3, <1>4, <1>5, <1>6, <1>7, <1>8 DEF Next, Proceed, EndTransaction, Worker,
     RegisterNotifier, AddCallback, Unregister, RemoveCallback, Commit, CancelTransaction,
     SuppressNextNotification, CommitFails, WriteInCallback, OtherCommit, RunAsyncNotifiers,
     RunToSkipVersion, RunToVersion, vars

\* Only the notifier the pass is at is being iterated.
LEMMA IteratingNext ==
    ASSUME Typed, Thread, Iterating, [Next]_vars
    PROVE  Iterating'
<1> SUFFICES ASSUME NEW n \in Notifier, notifier'[n].index # 0
             PROVE  target'.cur = n
  BY DEF Iterating
<1>1. notifier[n].index # 0 => target.cur = n
  BY DEF Iterating
<1>2. nil \notin Notifier
  BY NotifierAssumption
<1>3. ASSUME notifier[n].index # 0
      PROVE  target.pc \in {"before", "after", "error"}
  <2>1. target.cur # nil /\ target \in TargetRec
    BY <1>1, <1>2, <1>3 DEF Typed
  <2> QED
    BY <2>1 DEF Thread, Idle, TargetRec
<1>4. CASE Quieter
  <2>1. notifier[n].index # 0
    BY <1>4, QuietCount DEF SameCount
  <2>2. target.cur = n /\ target.pc \in {"before", "after", "error"}
    BY <1>1, <1>3, <2>1
  <2>3. target \in TargetRec
    BY DEF Typed
  <2>4. \/ UNCHANGED target
        \/ Advance
    BY <1>2, <1>4, <2>2 DEF Quieter, Worker, EndTransaction, Unregister, Commit,
       CancelTransaction, SuppressNextNotification, CommitFails, WriteInCallback, OtherCommit,
       RunAsyncNotifiers, RunToSkipVersion, RunToVersion, Refresh, BeginTransaction,
       Delivered, vars
  <2>5. ~Advance
    BY <1>2, <2>2 DEF Advance
  <2> QED
    BY <2>2, <2>4, <2>5
<1>5. CASE \E m \in Notifier : RegisterNotifier(m)
  <2>1. PICK m \in Notifier : RegisterNotifier(m)
    BY <1>5
  <2>2. PICK s : Replaced(m, s) /\ s.index = 0
    BY <2>1, RegisterSteps
  <2>3. notifier'[n] = notifier[n]
    BY <2>2, ReplacedFacts
  <2> QED
    BY <1>1, <2>1, <2>3 DEF RegisterNotifier
<1>6. CASE \E m \in Notifier : AddCallback(m)
  <2>1. PICK m \in Notifier : AddCallback(m)
    BY <1>6
  <2>2. PICK s : Replaced(m, s) /\ s.index = notifier[m].index
    BY <2>1, AddSteps
  <2>3. notifier'[n].index = notifier[n].index
    BY <2>2, ReplacedFacts
  <2> QED
    BY <1>1, <2>1, <2>3 DEF AddCallback
<1>7. ASSUME NEW m \in Notifier, NEW k \in Tokens(notifier[m]),
             notifier' = [notifier EXCEPT ![m] = Removed(@, k)]
      PROVE  notifier[n].index # 0
  <2>1. PICK s : \E p \in 1..Len(Callbacks(m)) :
             /\ Replaced(m, s) /\ Sound(s, version) /\ RemovedAt(notifier[m], s, p)
    BY <1>7, RemoveSteps
  <2>2. s.index # 0 => notifier[m].index # 0
    <3>1. notifier[m].index \in Nat
      BY SoundAll
    <3> QED
      BY <2>1, <3>1 DEF RemovedAt
  <2> QED
    BY <2>1, <2>2, ReplacedFacts
<1>8. CASE \E m \in Notifier, k \in 1..MaxTokens : RemoveCallback(m, k)
  <2>1. notifier[n].index # 0 /\ UNCHANGED target
    BY <1>7, <1>8 DEF RemoveCallback
  <2> QED
    BY <1>1, <2>1
<1>9. CASE CallbackReturns
  <2>1. target.call[1] \in Notifier /\ target \in TargetRec
    BY <1>9 DEF Typed, TargetRec, CallbackReturns
  <2>2. \/ UNCHANGED notifier
        \/ /\ target.call[2] \in Tokens(notifier[target.call[1]])
           /\ notifier' = [notifier EXCEPT ![target.call[1]] = Removed(@, target.call[2])]
    BY <1>9 DEF CallbackReturns
  <2>3. notifier[n].index # 0
    BY <1>7, <2>1, <2>2
  <2> QED
    BY <1>1, <1>9, <2>1, <2>3 DEF CallbackReturns, TargetRec
<1>10. ASSUME NEW S, PackagedAll(S)
       PROVE  notifier'[n].index = notifier[n].index
  <2>1. notifier'[n] = IF n \in S THEN Packaged(notifier[n]) ELSE notifier[n]
    BY <1>10, PackageSteps
  <2>2. Packaged(notifier[n]).index = notifier[n].index
    BY SoundAll, PackagedFacts
  <2> QED
    BY <2>1, <2>2
<1>11. CASE Notify
  <2>1. target.pc = "idle"
    BY <1>11 DEF Notify
  <2>2. UNCHANGED notifier \/ \E S : PackagedAll(S)
    BY <1>11, Zenon DEF Notify, ProcessAvailableAsync, PackagedAll
  <2>3. notifier'[n].index = notifier[n].index
    BY <1>10, <2>2
  <2> QED
    BY <1>3, <2>1, <2>3
<1>12. CASE PackageAndWait
  <2>1. notifier'[n].index = notifier[n].index /\ target.pc = "package"
    BY <1>10, <1>12, PackageVersion
  <2> QED
    BY <1>3, <2>1
<1>13. CASE \E m \in Notifier : ForEachCallback(m)
  <2>1. PICK m \in Notifier : ForEachCallback(m)
    BY <1>13
  <2>2. target \in TargetRec
    BY DEF Typed
  <2>3. target.cur = m \/ target.cur = nil
    BY <2>1, ForEachSteps DEF EndsPass, CallsAt
  <2>4. CASE n = m
    <3>1. \/ \E s : Iterated(m, s, 0)
          \/ \E k : target' = [target EXCEPT !.cur = m, !.left = @ \ {m}, !.call = <<m, k>>]
      BY <2>1, ForEachSteps DEF EndsPass, CallsAt
    <3>2. ASSUME NEW s, Iterated(m, s, 0)
          PROVE  FALSE
      BY <2>4, <3>2, ReplacedFacts DEF Iterated
    <3> QED
      BY <2>2, <2>4, <3>1, <3>2 DEF TargetRec
  <2>5. CASE n # m
    <3>1. PICK s : Replaced(m, s)
      BY <2>1, ForEachSteps DEF Iterated, EndsPass, CallsAt
    <3>2. notifier'[n] = notifier[n]
      BY <2>5, <3>1, ReplacedFacts
    <3> QED
      BY <1>1, <1>2, <2>3, <2>5, <3>2
  <2> QED
    BY <2>4, <2>5
<1> QED
  BY <1>4, <1>5, <1>6, <1>8, <1>9, <1>11, <1>12, <1>13 DEF Next, Proceed, Quieter

\* How far for_each_callback goes.
LEMMA ForEachCounts ==
    ASSUME Typed, NEW n \in Notifier, ForEachCallback(n)
    PROVE  \E s : \E i \in 0..Len(Callbacks(n)) :
             /\ Replaced(n, s) /\ Sound(s, version) /\ SameTokens(notifier[n], s)
             /\ s.index = i /\ (i = 0 \/ i <= s.count)
             /\ s.count = IF Recounts THEN Len(Callbacks(n)) ELSE notifier[n].count
             /\ s.fresh = IF Recounts THEN {} ELSE notifier[n].fresh
<1>1. PICK t : Replaced(n, t) /\ SameTokens(notifier[n], t)
  BY ForEachTokens
<1>2. \A s : Replaced(n, s) => s = t
  BY <1>1, ReplacedFacts
<1>3. Len(Callbacks(n)) \in Nat
  BY SoundAll
<1>4. CASE \E s : Iterated(n, s, 0)
  <2>1. 0 \in 0..Len(Callbacks(n))
    BY <1>3
  <2> QED
    BY <1>1, <1>2, <1>4, <2>1 DEF Iterated
<1>5. CASE \E s : \E i \in 1..Len(Callbacks(n)) : Iterated(n, s, i) /\ i <= s.count
  <2>1. \A i \in 1..Len(Callbacks(n)) : i \in 0..Len(Callbacks(n))
    BY <1>3
  <2> QED
    BY <1>1, <1>2, <1>5, <2>1 DEF Iterated
<1> QED
  BY <1>4, <1>5, ForEachSteps DEF EndsPass, CallsAt

\* An application that does not remove a callback by the delivery in which it was added.
KeepsFresh == "remove fresh" \notin Practice

\* Delivering depends on the thread alone; a notifier is delivered before it is not.
LEMMA DeliveringKept ==
    ASSUME Typed, Thread, NEW n \in Notifier, Delivering(n)'
    PROVE  /\ UNCHANGED target => Delivering(n)
           /\ Advance \/ CallbackReturns => Delivering(n)
           /\ ~Refresh /\ ~BeginTransaction /\ ~Delivered
<1>1. target \in TargetRec /\ nil \notin Notifier
  BY NotifierAssumption DEF Typed
<1>2. UNCHANGED target => Delivering(n)
  BY DEF Delivering
<1>3. CASE Advance
  <2>1. /\ target' = [target EXCEPT !.pc = IF target.err THEN "error" ELSE "after",
                                   !.left = target.list]
        /\ target.pc \in {"before", "advance"} /\ target.cur = nil
    BY <1>3 DEF Advance, Thread
  <2>2. /\ target'.list = target.list /\ target'.left = target.list /\ target'.cur = nil
        /\ target'.pc = IF target.err THEN "error" ELSE "after"
    BY <1>1, <2>1 DEF TargetRec
  <2>3. n \in target.list /\ ~target.err
    BY <1>1, <2>2 DEF Delivering
  <2> QED
    BY <1>1, <1>2, <1>3, <2>1, <2>3 DEF Delivering, Refresh, BeginTransaction, Delivered
<1>4. CASE CallbackReturns
  <2>1. target' = [target EXCEPT !.call = nil] /\ target.call # nil
    BY <1>4 DEF CallbackReturns
  <2>2. /\ target'.list = target.list /\ target'.left = target.left /\ target'.cur = target.cur
        /\ target'.pc = target.pc /\ target'.err = target.err
    BY <1>1, <2>1 DEF TargetRec
  <2>3. Delivering(n)
    BY <2>2 DEF Delivering
  <2>4. target.pc # "idle" /\ target.cur # nil
    BY <2>1 DEF Thread, Idle
  <2> QED
    BY <1>2, <2>3, <2>4 DEF Refresh, BeginTransaction, Delivered
<1>5. ~Delivered
  BY <1>1 DEF Delivered, Delivering, Idle
<1>6. ASSUME Refresh \/ BeginTransaction
      PROVE  FALSE
  <2>1. version \in 0..MaxVersion /\ async_error \in BOOLEAN
    BY NotifierAssumption DEF Typed, Version
  <2>2. Deliver("latest", version) \/ Deliver("begin", version)
    BY <1>6 DEF Refresh, BeginTransaction
  <2>3. /\ target'.pc = IF async_error THEN "advance" ELSE "package"
        /\ target'.err = async_error
    BY <2>1, <2>2, DeliverTyped
  <2> QED
    BY <2>3 DEF Delivering
<1> QED
  BY <1>2, <1>3, <1>4, <1>5, <1>6

\* A delivered notifier keeps its prefix, and the call stays one of an old callback.
LEMMA PrefixNext ==
    ASSUME KeepsFresh, Typed, Thread, AllOrdered, AllPrefix, CallIsOld, [Next]_vars
    PROVE  AllPrefix'
<1> SUFFICES ASSUME NEW n \in Notifier, Delivering(n)'
             PROVE  Prefix(notifier'[n])
  BY DEF AllPrefix
<1>1. Ordered(notifier[n]) /\ Sound(notifier[n], version) /\ (Delivering(n) => Prefix(notifier[n]))
  BY SoundAll DEF AllOrdered, AllPrefix
<1>2. nil \notin Notifier /\ target \in TargetRec
  BY NotifierAssumption DEF Typed
<1>3. CASE Quieter
  <2>1. SameCount(notifier[n], notifier'[n])
    BY <1>3, QuietCount
  <2>2. UNCHANGED target \/ Advance
    BY <1>3, DeliveringKept DEF Quieter, Worker, EndTransaction, Unregister, Commit,
       CancelTransaction, SuppressNextNotification, CommitFails, WriteInCallback, OtherCommit,
       RunAsyncNotifiers, RunToSkipVersion, RunToVersion, vars
  <2> QED
    BY <1>1, <2>1, <2>2, DeliveringKept, SamePrefix
<1>4. CASE \E m \in Notifier : RegisterNotifier(m)
  <2>1. PICK m \in Notifier : RegisterNotifier(m)
    BY <1>4
  <2>2. Delivering(n) /\ Prefix(notifier[n])
    BY <1>1, <2>1, DeliveringKept DEF RegisterNotifier
  <2>3. PICK s : Replaced(m, s)
    BY <2>1, RegisterSteps
  <2>4. CASE n # m
    BY <2>2, <2>3, <2>4, ReplacedFacts
  <2>5. CASE n = m
    <3>1. notifier[n].count = -1
      BY <2>1, <2>5 DEF RegisterNotifier, NoNotifier
    <3> QED
      BY <2>2, <3>1 DEF Prefix
  <2> QED
    BY <2>4, <2>5
<1>5. CASE \E m \in Notifier : AddCallback(m)
  <2>1. PICK m \in Notifier : AddCallback(m)
    BY <1>5
  <2>2. PICK s : /\ Replaced(m, s)
                 /\ s.index = notifier[m].index /\ s.count = notifier[m].count
                 /\ s.next = notifier[m].next + 1
                 /\ s.fresh = notifier[m].fresh \cup {s.next}
                 /\ Len(s.callbacks) = Len(Callbacks(m)) + 1
                 /\ \A i \in 1..Len(Callbacks(m)) : s.callbacks[i] = Callbacks(m)[i]
                 /\ s.callbacks[Len(Callbacks(m)) + 1].token = s.next
    BY <2>1, AddSteps
  <2>3. Prefix(notifier[n])
    BY <1>1, <2>1, DeliveringKept DEF AddCallback
  <2>4. CASE n # m
    BY <2>2, <2>3, <2>4, ReplacedFacts
  <2>5. CASE n = m
    <3>1. Prefix(s)
      BY <1>1, <2>2, <2>3, <2>5, AddedOrdered DEF Callbacks
    <3> QED
      BY <2>2, <2>5, <3>1, ReplacedFacts
  <2> QED
    BY <2>4, <2>5
<1>6. ASSUME NEW m \in Notifier, NEW k \in Tokens(notifier[m]),
             notifier' = [notifier EXCEPT ![m] = Removed(@, k)],
             Delivering(n), n = m => k \notin notifier[m].fresh
      PROVE  Prefix(notifier'[n])
  <2>1. PICK s : \E p \in 1..Len(Callbacks(m)) :
             /\ Replaced(m, s) /\ Sound(s, version) /\ RemovedAt(notifier[m], s, p)
             /\ Callbacks(m)[p].token = k
    BY <1>6, RemoveSteps
  <2>2. n = m => Prefix(s)
    BY <1>1, <1>6, <2>1, RemovedOrdered DEF Callbacks
  <2> QED
    BY <1>1, <1>6, <2>1, <2>2, ReplacedFacts
<1>7. CASE \E m \in Notifier, k \in 1..MaxTokens : RemoveCallback(m, k)
  <2>1. PICK m \in Notifier, k \in 1..MaxTokens : RemoveCallback(m, k)
    BY <1>7
  <2>2. /\ k \in Tokens(notifier[m]) /\ notifier' = [notifier EXCEPT ![m] = Removed(@, k)]
        /\ ~Delivering(m) \/ k \notin notifier[m].fresh
        /\ UNCHANGED target
    BY <2>1 DEF RemoveCallback, KeepsFresh
  <2> QED
    BY <1>6, <2>2, DeliveringKept
<1>8. CASE CallbackReturns
  <2>1. target.call[1] \in Notifier /\ target.call # nil
    BY <1>8 DEF Typed, TargetRec, CallbackReturns
  <2>2. \/ UNCHANGED notifier
        \/ /\ target.call[2] \in Tokens(notifier[target.call[1]])
           /\ notifier' = [notifier EXCEPT ![target.call[1]] = Removed(@, target.call[2])]
    BY <1>8 DEF CallbackReturns
  <2>3. Delivering(n) /\ target.call[2] \notin notifier[target.call[1]].fresh
    BY <1>8, <2>1, DeliveringKept DEF CallIsOld
  <2> QED
    BY <1>1, <1>6, <2>1, <2>2, <2>3
<1>9. ASSUME NEW S, PackagedAll(S), n \in S
      PROVE  Prefix(notifier'[n])
  <2>1. notifier'[n] = Packaged(notifier[n])
    BY <1>9, PackageSteps
  <2>2. /\ Sound(Packaged(notifier[n]), version)
        /\ Packaged(notifier[n]).count = Len(Packaged(notifier[n]).callbacks)
        /\ Packaged(notifier[n]).fresh = {}
    BY SoundAll, PackagedFacts
  <2> QED
    BY <2>1, <2>2, CountedPrefix
<1>10. CASE Notify
  <2>1. CASE UNCHANGED target
    <3>1. ~Delivering(n)
      BY <1>2, <1>10 DEF Notify, Delivering, Thread, Idle
    <3> QED
      BY <2>1, <3>1, DeliveringKept
  <2>2. CASE ProcessAvailableAsync
    <3> DEFINE list == {m \in NotifiersForRealm :
                       async_error \/ (notifier[m].has_run /\ notifier[m].ver = read)}
    <3>1. \/ target' = Idle
          \/ target' = [Idle EXCEPT !.pc = "error", !.list = list, !.left = list, !.err = TRUE]
          \/ /\ target' = [Idle EXCEPT !.pc = "after", !.list = list, !.left = list, !.ver = read]
             /\ PackagedAll(list)
      BY <2>2, Zenon DEF ProcessAvailableAsync, PackagedAll
    <3> HIDE DEF list
    <3>2. CASE target' = Idle
      BY <1>2, <3>2 DEF Delivering, Idle
    <3>3. CASE target' = [Idle EXCEPT !.pc = "error", !.list = list, !.left = list, !.err = TRUE]
      BY <1>2, <3>3 DEF Delivering, Idle
    <3>4. CASE /\ target' = [Idle EXCEPT !.pc = "after", !.list = list, !.left = list, !.ver = read]
               /\ PackagedAll(list)
      <4>1. n \in list
        BY <1>2, <3>4 DEF Delivering, Idle
      <4> QED
        BY <1>9, <3>4, <4>1
    <3> QED
      BY <3>1, <3>2, <3>3, <3>4
  <2>3. CASE Deliver("ready", 0)
    <3>1. 0 \in 0..MaxVersion
      BY NotifierAssumption
    <3>2. target'.pc = (IF async_error THEN "advance" ELSE "package") /\ target'.err = async_error
      BY <2>3, <3>1, DeliverTyped
    <3> QED
      BY <3>2 DEF Delivering
  <2> QED
    BY <1>10, <2>1, <2>2, <2>3 DEF Notify
<1>11. CASE PackageAndWait
  <2> DEFINE ran == {m \in target.list : notifier[m].has_run}
  <2>1. PICK w, list, pc :
          /\ pc \in {"idle", "after", "before"}
          /\ list \subseteq ran
          /\ pc = "idle" => target' = Idle
          /\ pc # "idle" => target' = [target EXCEPT !.pc = pc, !.list = list,
                                                     !.left = list, !.ver = w]
    BY <1>11, PackageShape
  <2>2. PackagedAll(ran)
    BY <1>11, PackageVersion
  <2> HIDE DEF ran
  <2>3. target.cur = nil
    BY <1>11 DEF PackageAndWait, Thread
  <2>4. n \in list
    <3>1. CASE pc = "idle"
      BY <1>2, <2>1, <3>1 DEF Delivering, Idle
    <3>2. CASE pc # "idle"
      <4>1. target'.list = list /\ target'.left = list /\ target'.cur = nil
        BY <1>2, <2>1, <2>3, <3>2 DEF TargetRec
      <4> QED
        BY <1>2, <4>1 DEF Delivering
    <3> QED
      BY <3>1, <3>2
  <2> QED
    BY <1>9, <2>1, <2>2, <2>4
<1>12. CASE \E m \in Notifier : ForEachCallback(m)
  <2>1. PICK m \in Notifier : ForEachCallback(m)
    BY <1>12
  <2>2. /\ target.pc \in {"before", "after", "error"}
        /\ target.cur = m \/ (target.cur = nil /\ m \in target.left)
    BY <2>1, ForEachSteps DEF EndsPass, CallsAt
  <2>3. /\ target'.pc = target.pc /\ target'.list = target.list /\ target'.err = target.err
        /\ target'.left = target.left \ {m} /\ target'.cur \in {nil, m}
    <3>1. \/ target' = [target EXCEPT !.cur = nil, !.left = @ \ {m}]
          \/ \E k : target' = [target EXCEPT !.cur = m, !.left = @ \ {m}, !.call = <<m, k>>]
      BY <2>1, ForEachSteps DEF EndsPass, CallsAt
    <3> QED
      BY <1>2, <3>1 DEF TargetRec
  <2>4. CASE n # m
    <3>1. PICK s : Replaced(m, s)
      BY <2>1, ForEachTokens
    <3>2. notifier'[n] = notifier[n]
      BY <2>4, <3>1, ReplacedFacts
    <3>3. Delivering(n)
      BY <1>2, <2>3, <2>4 DEF Delivering
    <3> QED
      BY <1>1, <3>2, <3>3
  <2>5. CASE n = m
    <3>1. PICK s : \E i \in 0..Len(Callbacks(n)) :
            /\ Replaced(n, s) /\ Sound(s, version) /\ SameTokens(notifier[n], s)
            /\ s.index = i /\ (i = 0 \/ i <= s.count)
            /\ s.count = IF Recounts THEN Len(Callbacks(n)) ELSE notifier[n].count
            /\ s.fresh = IF Recounts THEN {} ELSE notifier[n].fresh
      BY <2>1, <2>5, ForEachCounts
    <3>2. notifier'[n] = s
      BY <3>1, ReplacedFacts
    <3>3. CASE Recounts
      <4>1. s.count = Len(s.callbacks) /\ s.fresh = {}
        BY <3>1, <3>3 DEF SameTokens, Callbacks
      <4> QED
        BY <3>1, <3>2, <4>1, CountedPrefix
    <3>4. CASE ~Recounts
      <4>1. Delivering(n)
        BY <1>2, <2>2, <2>5, <3>4 DEF Delivering, Recounts, Thread
      <4>2. Prefix(notifier[n])
        BY <1>1, <4>1
      <4>3. s.index <= s.count
        BY <3>1, <3>4, <4>2 DEF Prefix
      <4> QED
        BY <3>1, <3>2, <3>4, <4>2, <4>3 DEF Prefix, SameTokens
    <3> QED
      BY <3>3, <3>4
  <2> QED
    BY <2>4, <2>5
<1> QED
  BY <1>3, <1>4, <1>5, <1>7, <1>8, <1>10, <1>11, <1>12 DEF Next, Proceed, Quieter

\* The callback being called stays one that was there when its notifier was packaged.
LEMMA CallNext ==
    ASSUME Typed, Thread, AllOrdered, CallIsOld, AllPrefix', [Next]_vars
    PROVE  CallIsOld'
<1> SUFFICES ASSUME target'.call # nil
             PROVE  /\ target'.call[2] <= notifier'[target'.call[1]].next
                    /\ target'.call[2] \notin notifier'[target'.call[1]].fresh
  BY DEF CallIsOld
<1>1. nil \notin Notifier /\ target \in TargetRec
  BY NotifierAssumption DEF Typed
<1>2. ASSUME UNCHANGED target,
             \A m \in Notifier :
               /\ notifier'[m].next >= notifier[m].next
               /\ \A k \in 1..MaxTokens : k <= notifier[m].next /\ k \notin notifier[m].fresh =>
                    k \notin notifier'[m].fresh
      PROVE  /\ target'.call[2] <= notifier'[target'.call[1]].next
             /\ target'.call[2] \notin notifier'[target'.call[1]].fresh
  <2> DEFINE n == target.call[1]
             k == target.call[2]
  <2>1. n \in Notifier /\ k \in 1..MaxTokens /\ target'.call[1] = n /\ target'.call[2] = k
    BY <1>1, <1>2 DEF TargetRec
  <2>2. k <= notifier[n].next /\ k \notin notifier[n].fresh
    BY <1>2 DEF CallIsOld
  <2>3. notifier[n].next \in Nat
    BY <2>1, SoundAll
  <2>4. notifier'[n].next >= notifier[n].next /\ notifier'[n].next \in Nat
    <3>1. Typed'
      BY TypedNext
    <3> HIDE DEF n
    <3>2. notifier'[n] \in NotifierRec
      BY <2>1, <3>1 DEF Typed
    <3>3. notifier'[n].next \in Nat
      BY <3>2 DEF NotifierRec
    <3> QED
      BY <1>2, <2>1, <3>3
  <2> HIDE DEF n, k
  <2> QED
    BY <1>2, <2>1, <2>2, <2>3, <2>4
<1>3. \A m \in Notifier : notifier[m].next \in Nat
  BY SoundAll
<1>4. CASE Quieter
  <2>1. \A m \in Notifier : notifier'[m].next = notifier[m].next
                            /\ notifier'[m].fresh = notifier[m].fresh
    BY <1>4, QuietCount DEF SameCount, SameTokens
  <2>2. CASE UNCHANGED target
    BY <1>2, <1>3, <2>1, <2>2
  <2>3. CASE Refresh \/ BeginTransaction
    <3>1. version \in 0..MaxVersion
      BY NotifierAssumption DEF Typed, Version
    <3>2. Deliver("latest", version) \/ Deliver("begin", version)
      BY <2>3 DEF Refresh, BeginTransaction
    <3> QED
      BY <3>1, <3>2, DeliverTyped
  <2>4. CASE Delivered
    BY <2>4 DEF Delivered, Idle
  <2>5. CASE Advance
    <3>1. target.call = nil
      BY <2>5 DEF Advance, Thread
    <3>2. target'.call = target.call
      BY <1>1, <2>5 DEF Advance, TargetRec
    <3> QED
      BY <3>1, <3>2
  <2> QED
    BY <1>4, <2>2, <2>3, <2>4, <2>5 DEF Quieter, Worker, EndTransaction, Unregister, Commit,
       CancelTransaction, SuppressNextNotification, CommitFails, WriteInCallback, OtherCommit,
       RunAsyncNotifiers, RunToSkipVersion, RunToVersion, vars
<1>5. CASE \E m \in Notifier : RegisterNotifier(m)
  <2>1. PICK m \in Notifier : RegisterNotifier(m)
    BY <1>5
  <2>2. PICK s : Replaced(m, s) /\ s.next = 0 /\ s.fresh = {}
    BY <2>1, RegisterSteps
  <2>3. notifier[m].next = 0 /\ UNCHANGED target
    BY <2>1 DEF RegisterNotifier, NoNotifier
  <2>4. ASSUME NEW o \in Notifier
        PROVE  /\ notifier'[o].next >= notifier[o].next
               /\ \A k \in 1..MaxTokens : k <= notifier[o].next /\ k \notin notifier[o].fresh =>
                    k \notin notifier'[o].fresh
    BY <1>3, <2>2, <2>3, ReplacedFacts
  <2> QED
    BY <1>2, <2>3, <2>4
<1>6. CASE \E m \in Notifier : AddCallback(m)
  <2>1. PICK m \in Notifier : AddCallback(m)
    BY <1>6
  <2>2. PICK s : /\ Replaced(m, s) /\ s.next = notifier[m].next + 1
                 /\ s.fresh = notifier[m].fresh \cup {s.next}
    BY <2>1, AddSteps
  <2>3. UNCHANGED target
    BY <2>1 DEF AddCallback
  <2>4. ASSUME NEW o \in Notifier
        PROVE  /\ notifier'[o].next >= notifier[o].next
               /\ \A k \in 1..MaxTokens : k <= notifier[o].next /\ k \notin notifier[o].fresh =>
                    k \notin notifier'[o].fresh
    <3>1. CASE o # m
      BY <1>3, <2>2, <3>1, ReplacedFacts
    <3>2. CASE o = m
      <4>1. notifier'[o] = s /\ notifier[o].next \in Nat
        BY <1>3, <2>2, <3>2, ReplacedFacts
      <4> QED
        BY <2>2, <3>2, <4>1
    <3> QED
      BY <3>1, <3>2
  <2> QED
    BY <1>2, <2>3, <2>4
<1>7. CASE \E m \in Notifier, k \in 1..MaxTokens : RemoveCallback(m, k)
  <2>1. PICK m \in Notifier, k \in 1..MaxTokens : RemoveCallback(m, k)
    BY <1>7
  <2>2. PICK s : \E p \in 1..Len(Callbacks(m)) :
             Replaced(m, s) /\ RemovedAt(notifier[m], s, p)
    BY <2>1, RemoveSteps DEF RemoveCallback
  <2>3. s.next = notifier[m].next /\ s.fresh = notifier[m].fresh /\ UNCHANGED target
    BY <2>1, <2>2 DEF RemovedAt, Kept, RemoveCallback
  <2>4. ASSUME NEW o \in Notifier
        PROVE  notifier'[o].next = notifier[o].next /\ notifier'[o].fresh = notifier[o].fresh
    BY <2>2, <2>3, ReplacedFacts
  <2> QED
    BY <1>2, <1>3, <2>3, <2>4
<1>8. CASE CallbackReturns
  BY <1>1, <1>8 DEF CallbackReturns, TargetRec
<1>9. CASE Notify
  <2>1. target.call = nil
    BY <1>9 DEF Notify, Thread, Idle
  <2>2. CASE UNCHANGED target
    BY <2>1, <2>2
  <2>3. CASE ProcessAvailableAsync
    <3> DEFINE list == {m \in NotifiersForRealm :
                       async_error \/ (notifier[m].has_run /\ notifier[m].ver = read)}
    <3>1. \/ target' = Idle
          \/ target' = [Idle EXCEPT !.pc = "error", !.list = list, !.left = list, !.err = TRUE]
          \/ target' = [Idle EXCEPT !.pc = "after", !.list = list, !.left = list, !.ver = read]
      BY <2>3, Zenon DEF ProcessAvailableAsync
    <3> HIDE DEF list
    <3>2. CASE target' = Idle
      BY <3>2 DEF Idle
    <3>3. CASE target' = [Idle EXCEPT !.pc = "error", !.list = list, !.left = list, !.err = TRUE]
      BY <3>3 DEF Idle
    <3>4. CASE target' = [Idle EXCEPT !.pc = "after", !.list = list, !.left = list, !.ver = read]
      BY <3>4 DEF Idle
    <3> QED
      BY <3>1, <3>2, <3>3, <3>4
  <2>4. CASE Deliver("ready", 0)
    <3>1. 0 \in 0..MaxVersion
      BY NotifierAssumption
    <3> QED
      BY <2>4, <3>1, DeliverTyped
  <2> QED
    BY <1>9, <2>2, <2>3, <2>4 DEF Notify
<1>10. CASE PackageAndWait
  <2>1. PICK w, list, pc :
          /\ pc = "idle" => target' = Idle
          /\ pc # "idle" => target' = [target EXCEPT !.pc = pc, !.list = list,
                                                     !.left = list, !.ver = w]
    BY <1>10, PackageShape
  <2>2. target.call = nil
    BY <1>10 DEF PackageAndWait, Thread
  <2>3. CASE pc = "idle"
    BY <2>1, <2>3 DEF Idle
  <2>4. CASE pc # "idle"
    BY <1>1, <2>1, <2>2, <2>4 DEF TargetRec
  <2> QED
    BY <2>3, <2>4
<1>11. CASE \E m \in Notifier : ForEachCallback(m)
  <2>1. PICK m \in Notifier : ForEachCallback(m)
    BY <1>11
  <2>2. target.pc \in {"before", "after", "error"} /\ target.call = nil
        /\ (target.cur = m \/ (target.cur = nil /\ m \in target.left))
    BY <2>1, ForEachSteps DEF EndsPass, CallsAt
  <2>3. ~(target' = [target EXCEPT !.cur = nil, !.left = @ \ {m}])
    BY <1>1, <2>2 DEF TargetRec
  <2>4. \A s : ~EndsPass(m, s)
    BY <2>3 DEF EndsPass
  <2>5. PICK s : \E i \in 1..Len(Callbacks(m)) : CallsAt(m, s, i)
    BY <2>1, <2>4, ForEachSteps
  <2> PICK i \in 1..Len(Callbacks(m)) : CallsAt(m, s, i)
    BY <2>5
  <2>6. PICK t : Replaced(m, t) /\ SameTokens(notifier[m], t)
    BY <2>1, ForEachTokens
  <2>7. notifier'[m] = s /\ t = s
    BY <2>6, ReplacedFacts DEF Iterated, CallsAt
  <2>8. /\ target'.pc = target.pc /\ target'.cur = m /\ target'.list = target.list
        /\ target'.err = target.err /\ target'.call = <<m, Callbacks(m)[i].token>>
    BY <1>1 DEF TargetRec, CallsAt
  <2>9. Delivering(m)'
    BY <1>1, <2>2, <2>8 DEF Delivering, Thread
  <2>10. Prefix(s)
    BY <2>7, <2>9 DEF AllPrefix
  <2>11. s.callbacks[i].token \notin s.fresh /\ s.callbacks[i].token = Callbacks(m)[i].token
    BY <2>6, <2>7, <2>10 DEF Prefix, SameTokens, Callbacks, CallsAt
  <2>12. Callbacks(m)[i].token <= notifier[m].next /\ s.next = notifier[m].next
    BY <2>6, <2>7 DEF AllOrdered, Ordered, Callbacks, SameTokens
  <2> QED
    BY <2>7, <2>8, <2>11, <2>12
<1> QED
  BY <1>4, <1>5, <1>6, <1>7, <1>8, <1>9, <1>10, <1>11 DEF Next, Proceed, Quieter

\* The layer of the delivery.
Delivery ==
    Typed /\ Thread /\ Iterating /\ AllOrdered /\ AllPrefix /\ CallIsOld

\* Nothing is being delivered at the start.
LEMMA DeliveryInit == Init => Delivery
<1> SUFFICES ASSUME Init PROVE Delivery
  OBVIOUS
<1>1. Typed
  BY TypedInit
<1>2. target = Idle /\ notifier = [n \in Notifier |-> NoNotifier]
  BY DEF Init
<1>3. Thread
  BY <1>2 DEF Thread, Idle
<1>4. Iterating /\ CallIsOld
  BY <1>2 DEF Iterating, CallIsOld, NoNotifier, Idle
<1>5. AllOrdered
  <2>1. \A n \in Notifier : Len(notifier[n].callbacks) = 0
    BY <1>2 DEF NoNotifier
  <2> QED
    BY <2>1 DEF AllOrdered, Ordered
<1>6. AllPrefix
  BY <1>2, NotifierAssumption DEF AllPrefix, Delivering, Idle
<1> QED
  BY <1>1, <1>3, <1>4, <1>5, <1>6 DEF Delivery

\* Every step keeps the layer of the delivery.
LEMMA DeliveryNext ==
    ASSUME KeepsFresh
    PROVE  Delivery /\ [Next]_vars => Delivery'
BY TypedNext, ThreadNext, IteratingNext, OrderedNext, PrefixNext, CallNext DEF Delivery

\* The layer of the delivery holds always.
LEMMA DeliveryAlways ==
    ASSUME KeepsFresh
    PROVE  Spec => []Delivery
BY DeliveryInit, DeliveryNext, PTL DEF Spec

\* The number of callbacks of a prefix.
LEMMA PrefixCardinality ==
    ASSUME NEW v, NEW r, Sound(r, v), Ordered(r), Prefix(r)
    PROVE  r.count = Cardinality(Tokens(r) \ r.fresh)
<1> DEFINE T == Tokens(r) \ r.fresh
           f == [i \in 1..r.count |-> r.callbacks[i].token]
<1>1. /\ Len(r.callbacks) \in Nat /\ r.count \in 0..Len(r.callbacks)
      /\ DOMAIN r.callbacks = 1..Len(r.callbacks)
      /\ \A i \in 1..Len(r.callbacks) : r.callbacks[i].token \in Nat
      /\ \A i \in 1..Len(r.callbacks) :
           i <= r.count <=> r.callbacks[i].token \notin r.fresh
  BY TokenNat DEF Prefix, Sound, NotifierRec
<1>2. \A i \in 1..r.count : i \in 1..Len(r.callbacks) /\ i <= r.count
  BY <1>1
<1>3. \A i \in 1..Len(r.callbacks) : i <= r.count => i \in 1..r.count
  BY <1>1
<1>4. f \in [1..r.count -> T]
  BY <1>1, <1>2 DEF Tokens
<1>5. \A i, j \in 1..r.count : f[i] = f[j] => i = j
  <2>1. ASSUME NEW i \in 1..r.count, NEW j \in 1..r.count, f[i] = f[j], i < j
        PROVE  FALSE
    BY <1>1, <1>2, <2>1 DEF Ordered
  <2>2. \A i, j \in 1..r.count : i = j \/ i < j \/ j < i
    BY <1>1
  <2> HIDE DEF f
  <2> QED
    BY <2>1, <2>2
<1>6. \A t \in T : \E i \in 1..r.count : f[i] = t
  BY <1>1, <1>3 DEF Tokens
<1> HIDE DEF f, T
<1>7. f \in Bijection(1..r.count, T)
  BY <1>4, <1>5, <1>6 DEF Bijection, Injection, Surjection, IsInjective
<1>8. ExistsBijection(1..r.count, T)
  BY <1>7 DEF ExistsBijection
<1>9. IsFiniteSet(1..r.count) /\ Cardinality(1..r.count) = r.count
  <2>1. r.count \in Int /\ 1 \in Int /\ r.count >= 0
    BY <1>1
  <2>2. /\ IsFiniteSet(1..r.count)
        /\ Cardinality(1..r.count) = IF 1 > r.count THEN 0 ELSE r.count - 1 + 1
    BY <2>1, FS_Interval
  <2> QED
    BY <2>1, <2>2
<1>10. Cardinality(T) = Cardinality(1..r.count)
  BY <1>8, <1>9, FS_Bijection
<1> QED
  BY <1>9, <1>10 DEF T

\* m_callback_count is exact, for an application that does not remove a callback by the
\* delivery in which it was added.
THEOREM NotifierCount ==
    ASSUME KeepsFresh
    PROVE  Spec => []CountIsPackaged
<1>1. Delivery => CountIsPackaged
  <2> SUFFICES ASSUME Delivery, NEW n \in Notifier, Delivering(n)
               PROVE  notifier[n].count = Cardinality(Tokens(notifier[n]) \ notifier[n].fresh)
    BY DEF CountIsPackaged
  <2>1. Sound(notifier[n], version) /\ Ordered(notifier[n]) /\ Prefix(notifier[n])
    BY DEF Delivery, Typed, AllOrdered, AllPrefix
  <2> QED
    BY <2>1, PrefixCardinality
<1> QED
  BY <1>1, DeliveryAlways, PTL

----------------------------------------------------------------------------
(* The lives of the notifiers: what the worker and the errors do.           *)

\* The application does no more than add callbacks inside callbacks.
Plain == Practice \subseteq {"add inside"}

\* Only the callbacks of a record and their iteration change.
Lives(r, s) ==
    s.where = r.where /\ s.alive = r.alive /\ s.ver = r.ver /\ s.has_run = r.has_run

\* A step that leaves the lists, the versions and the worker alone.
Settled ==
    /\ \A n \in Notifier : Lives(notifier[n], notifier'[n])
    /\ UNCHANGED <<worker, opened, async_error>>
    /\ version \in Nat /\ version' \in Nat /\ version <= version'
    /\ skip_version' = skip_version \/ skip_version' = version + 1

\* A collection gets its notifier.
Registers(n) ==
    /\ notifier[n].ver = 0 /\ ~notifier[n].alive /\ ~notifier[n].has_run
    /\ notifier[n].where = "none" /\ notifier[n].callbacks = <<>>
    /\ notifier'[n].where = "new" /\ notifier'[n].alive /\ ~notifier'[n].has_run
    /\ notifier'[n].ver = read /\ read > 0 /\ notifier'[n].callbacks = <<>>
    /\ \A m \in Notifier : m # n => notifier'[m] = notifier[m]
    /\ \/ UNCHANGED <<opened, async_error>> /\ (async_error \/ "advancer" \in opened)
       \/ "advancer" \notin opened /\ ~async_error
          /\ \/ opened' = opened \cup {"advancer"} /\ ~async_error'
             \/ opened' = opened /\ async_error'
    /\ UNCHANGED <<version, changed, read, writing, target, worker, skip_version, told>>

\* A collection goes.
Drops(n) ==
    /\ notifier[n].alive /\ ~notifier'[n].alive
    /\ notifier'[n].where = notifier[n].where /\ notifier'[n].ver = notifier[n].ver
    /\ notifier'[n].has_run = notifier[n].has_run
    /\ notifier'[n].callbacks = notifier[n].callbacks
    /\ notifier'[n].index = notifier[n].index /\ notifier'[n].fresh = notifier[n].fresh
    /\ \A m \in Notifier : m # n => notifier'[m] = notifier[m]
    /\ UNCHANGED <<version, changed, read, writing, target, worker, skip_version,
                   opened, async_error, told>>

\* register_notifier, field by field.
LEMMA RegisterLife ==
    ASSUME Typed, NEW n \in Notifier, RegisterNotifier(n)
    PROVE  Registers(n)
<1>1. PICK s : /\ Replaced(n, s) /\ s.where = "new" /\ s.alive = TRUE /\ s.ver = read
               /\ s.has_run = FALSE /\ s.callbacks = <<>>
  BY RegisterSteps
<1>2. notifier'[n] = s /\ \A m \in Notifier : m # n => notifier'[m] = notifier[m]
  BY <1>1, ReplacedFacts
<1>3. /\ notifier[n].ver = 0 /\ ~notifier[n].alive /\ ~notifier[n].has_run
      /\ notifier[n].where = "none" /\ notifier[n].callbacks = <<>>
  BY DEF RegisterNotifier, NoNotifier
<1>4. read > 0
  BY DEF Typed
<1>5. \/ UNCHANGED <<opened, async_error>> /\ (async_error \/ "advancer" \in opened)
      \/ "advancer" \notin opened /\ ~async_error
         /\ \/ opened' = opened \cup {"advancer"} /\ ~async_error'
            \/ opened' = opened /\ async_error'
  BY DEF RegisterNotifier
<1>6. UNCHANGED <<version, changed, read, writing, target, worker, skip_version, told>>
  BY DEF RegisterNotifier, file
<1> QED
  BY <1>1, <1>2, <1>3, <1>4, <1>5, <1>6 DEF Registers

\* Handle::reset, field by field.
LEMMA DropLife ==
    ASSUME Typed, NEW n \in Notifier, Unregister(n)
    PROVE  Drops(n)
<1>1. PICK s : /\ Replaced(n, s) /\ s.where = notifier[n].where /\ s.alive = FALSE
               /\ s.ver = notifier[n].ver /\ s.has_run = notifier[n].has_run
               /\ s.index = notifier[n].index /\ s.fresh = notifier[n].fresh
               /\ s.callbacks = Callbacks(n)
  BY UnregisterSteps
<1>2. notifier'[n] = s /\ \A m \in Notifier : m # n => notifier'[m] = notifier[m]
  BY <1>1, ReplacedFacts
<1>3. /\ notifier[n].alive
      /\ UNCHANGED <<version, changed, read, writing, target, worker, skip_version,
                     opened, async_error, told>>
  BY DEF Unregister, file, coordinator
<1> QED
  BY <1>1, <1>2, <1>3 DEF Drops, Callbacks

\* Packaging leaves the lives of the notifiers alone.
LEMMA PackagedLives ==
    ASSUME Typed, NEW S, PackagedAll(S), NEW n \in Notifier
    PROVE  Lives(notifier[n], notifier'[n])
<1>1. Kept(notifier[n], Packaged(notifier[n])) /\ Kept(notifier[n], notifier[n])
  BY SoundAll, PackagedFacts DEF Kept
<1> QED
  BY <1>1, PackageSteps DEF Kept, Lives

\* So does a step that replaces one record by one with the same life.
LEMMA ReplacedLives ==
    ASSUME Typed, NEW n \in Notifier, NEW s, Replaced(n, s), Lives(notifier[n], s)
    PROVE  \A m \in Notifier : Lives(notifier[m], notifier'[m])
<1>1. \A m \in Notifier : Lives(notifier[m], notifier[m])
  BY DEF Lives
<1> QED
  BY <1>1, ReplacedFacts

\* What the notifiers live through in a step.
LEMMA LifeSteps ==
    ASSUME Typed, [Next]_vars
    PROVE  \/ Settled
           \/ \E n \in Notifier : RegisterNotifier(n) /\ Registers(n)
           \/ \E n \in Notifier : Unregister(n) /\ Drops(n)
           \/ RunAsyncNotifiers \/ RunToSkipVersion \/ RunToVersion
<1>1. version \in Nat
  BY DEF Typed, Version
<1>2. ASSUME UNCHANGED notifier PROVE \A n \in Notifier : Lives(notifier[n], notifier'[n])
  BY <1>2 DEF Lives
<1>3. CASE \E n \in Notifier : RegisterNotifier(n) \/ Unregister(n)
  BY <1>3, RegisterLife, DropLife
<1>4. CASE \E n \in Notifier : AddCallback(n)
  <2>1. PICK n \in Notifier : AddCallback(n)
    BY <1>4
  <2>2. PICK s : Replaced(n, s) /\ Lives(notifier[n], s)
    BY <2>1, AddSteps DEF Lives
  <2>3. UNCHANGED <<version, worker, skip_version, opened, async_error>>
    BY <2>1 DEF AddCallback, file
  <2> QED
    BY <1>1, <2>2, <2>3, ReplacedLives DEF Settled
<1>5. CASE \E n \in Notifier, k \in 1..MaxTokens : RemoveCallback(n, k)
  <2>1. PICK n \in Notifier, k \in 1..MaxTokens : RemoveCallback(n, k)
    BY <1>5
  <2>2. /\ k \in Tokens(notifier[n]) /\ notifier' = [notifier EXCEPT ![n] = Removed(@, k)]
        /\ UNCHANGED <<version, worker, skip_version, opened, async_error>>
    BY <2>1 DEF RemoveCallback, file, coordinator
  <2>3. PICK s : Replaced(n, s) /\ Lives(notifier[n], s)
    BY <2>2, RemoveSteps DEF Lives, RemovedAt, Kept
  <2> QED
    BY <1>1, <2>2, <2>3, ReplacedLives DEF Settled
<1>6. CASE Commit \/ WriteInCallback \/ OtherCommit \/ CancelTransaction
  <2>1. /\ UNCHANGED <<notifier, worker, opened, async_error>>
        /\ version' = version \/ version' = version + 1
        /\ skip_version' = skip_version \/ skip_version' = version + 1
    BY <1>6 DEF Commit, WriteInCallback, OtherCommit, CancelTransaction, CommitWrite, coordinator
  <2> QED
    BY <1>1, <1>2, <2>1 DEF Settled
<1>7. CASE \E n \in Notifier, k \in 1..MaxTokens : SuppressNextNotification(n, k)
  <2>1. PICK n \in Notifier, k \in 1..MaxTokens : SuppressNextNotification(n, k)
    BY <1>7
  <2>2. PICK s : Replaced(n, s) /\ Lives(notifier[n], s)
    BY <2>1, SuppressSteps DEF Lives, Kept
  <2>3. UNCHANGED <<version, worker, skip_version, opened, async_error>>
    BY <2>1 DEF SuppressNextNotification, coordinator
  <2> QED
    BY <1>1, <2>2, <2>3, ReplacedLives DEF Settled
<1>8. CASE Notify
  <2>1. UNCHANGED <<version, worker, skip_version, opened, async_error>>
    BY <1>8 DEF Notify, file
  <2>2. UNCHANGED notifier \/ \E S : PackagedAll(S)
    BY <1>8, Zenon DEF Notify, ProcessAvailableAsync, PackagedAll
  <2> QED
    BY <1>1, <1>2, <2>1, <2>2, PackagedLives DEF Settled
<1>9. CASE Refresh \/ BeginTransaction \/ Advance \/ Delivered \/ UNCHANGED vars
  <2>1. UNCHANGED <<version, notifier, worker, skip_version, opened, async_error>>
    BY <1>9 DEF Refresh, BeginTransaction, Advance, Delivered, file, coordinator, vars
  <2> QED
    BY <1>1, <1>2, <2>1 DEF Settled
<1>10. CASE PackageAndWait
  <2>1. UNCHANGED <<version, worker, skip_version, opened, async_error>>
    BY <1>10 DEF PackageAndWait, file, coordinator
  <2>2. \E S : PackagedAll(S)
    BY <1>10, PackageVersion
  <2> QED
    BY <1>1, <2>1, <2>2, PackagedLives DEF Settled
<1>11. CASE \E n \in Notifier : ForEachCallback(n)
  <2>1. PICK n \in Notifier : ForEachCallback(n)
    BY <1>11
  <2>2. PICK s : Replaced(n, s) /\ Lives(notifier[n], s)
    BY <2>1, ForEachSteps DEF EndsPass, CallsAt, Iterated, Kept, Lives
  <2>3. UNCHANGED <<version, worker, skip_version, opened, async_error>>
    BY <2>1, Zenon DEF ForEachCallback, file, coordinator
  <2> QED
    BY <1>1, <2>2, <2>3, ReplacedLives DEF Settled
<1>12. CASE CallbackReturns
  <2>1. UNCHANGED <<version, worker, skip_version, opened, async_error>>
    BY <1>12 DEF CallbackReturns, file, coordinator
  <2>2. target.call[1] \in Notifier
    BY <1>12 DEF Typed, TargetRec, CallbackReturns
  <2>3. \/ UNCHANGED notifier
        \/ /\ target.call[2] \in Tokens(notifier[target.call[1]])
           /\ notifier' = [notifier EXCEPT ![target.call[1]] = Removed(@, target.call[2])]
    BY <1>12 DEF CallbackReturns
  <2>4. \/ UNCHANGED notifier
        \/ \E s : Replaced(target.call[1], s) /\ Lives(notifier[target.call[1]], s)
    <3> DEFINE m == target.call[1]
               k == target.call[2]
    <3> HIDE DEF m, k
    <3>1. ASSUME m \in Notifier, k \in Tokens(notifier[m]),
                 notifier' = [notifier EXCEPT ![m] = Removed(@, k)]
          PROVE  \E s : Replaced(m, s) /\ Lives(notifier[m], s)
      BY <3>1, RemoveSteps DEF Lives, RemovedAt, Kept
    <3> QED
      BY <2>2, <2>3, <3>1 DEF m, k
  <2> QED
    BY <1>1, <1>2, <2>1, <2>2, <2>4, ReplacedLives DEF Settled
<1>13. CASE CommitFails
  <2>1. UNCHANGED <<version, worker, skip_version, opened, async_error>>
    BY <1>13 DEF CommitFails, coordinator
  <2>2. \A n \in Notifier : Lives(notifier[n], notifier'[n])
    BY <1>13, FailSteps DEF Kept, Lives
  <2> QED
    BY <1>1, <2>1, <2>2 DEF Settled
<1> QED
  BY <1>3, <1>4, <1>5, <1>6, <1>7, <1>8, <1>9, <1>10, <1>11, <1>12, <1>13
     DEF Next, EndTransaction, Proceed, Worker

\* The error of a delivery is that of the coordinator.
ErrIsAsync == target.err => async_error

\* m_async_error is never reset.
LEMMA AsyncStays ==
    ASSUME Typed, [Next]_vars, async_error
    PROVE  async_error'
<1>1. CASE RunAsyncNotifiers
  BY <1>1, RunSteps DEF GivesUp, Starts
<1>2. CASE RunToSkipVersion \/ RunToVersion
  BY <1>2 DEF RunToSkipVersion, RunToVersion
<1> QED
  BY <1>1, <1>2, LifeSteps DEF Settled, Registers, Drops

\* A delivery gets its error from the coordinator.
LEMMA ErrNext ==
    ASSUME Typed, ErrIsAsync, [Next]_vars
    PROVE  ErrIsAsync'
<1> SUFFICES ASSUME target'.err PROVE target.err \/ async_error
  BY AsyncStays DEF ErrIsAsync
<1>1. target \in TargetRec
  BY DEF Typed
<1>2. CASE UNCHANGED target
  BY <1>2
<1>3. CASE Notify
  <2>1. CASE ProcessAvailableAsync
    <3> DEFINE list == {n \in NotifiersForRealm :
                       async_error \/ (notifier[n].has_run /\ notifier[n].ver = read)}
    <3>1. \/ async_error
          \/ target' = [Idle EXCEPT !.pc = "after", !.list = list, !.left = list, !.ver = read]
      BY <2>1, Zenon DEF ProcessAvailableAsync
    <3> HIDE DEF list
    <3>2. async_error \/ ~target'.err
      BY <3>1 DEF Idle
    <3> QED
      BY <3>2
  <2>2. CASE Deliver("ready", 0)
    <3>1. 0 \in 0..MaxVersion /\ async_error \in BOOLEAN
      BY NotifierAssumption DEF Typed
    <3>2. target'.err = async_error
      BY <2>2, <3>1, DeliverTyped
    <3> QED
      BY <3>2
  <2> QED
    BY <1>2, <1>3, <2>1, <2>2 DEF Notify
<1>4. CASE Refresh \/ BeginTransaction
  <2>1. version \in 0..MaxVersion
    BY NotifierAssumption DEF Typed, Version
  <2>2. Deliver("latest", version) \/ Deliver("begin", version)
    BY <1>4 DEF Refresh, BeginTransaction
  <2> QED
    BY <2>1, <2>2, DeliverTyped
<1>5. CASE PackageAndWait
  <2>1. PICK w, list, pc :
          \/ target' = Idle
          \/ target' = [target EXCEPT !.pc = pc, !.list = list, !.left = list, !.ver = w]
    BY <1>5, PackageShape
  <2>2. CASE target' = Idle
    BY <2>2 DEF Idle
  <2>3. CASE target' = [target EXCEPT !.pc = pc, !.list = list, !.left = list, !.ver = w]
    <3>1. target'.err = target.err
      BY <1>1, <2>3 DEF TargetRec
    <3> QED
      BY <3>1
  <2> QED
    BY <2>1, <2>2, <2>3
<1>6. CASE \E n \in Notifier : ForEachCallback(n)
  <2>1. PICK n \in Notifier : ForEachCallback(n)
    BY <1>6
  <2>2. \/ target' = [target EXCEPT !.cur = nil, !.left = @ \ {n}]
        \/ \E k : target' = [target EXCEPT !.cur = n, !.left = @ \ {n}, !.call = <<n, k>>]
    BY <2>1, ForEachSteps DEF EndsPass, CallsAt
  <2>3. target'.err = target.err
    BY <1>1, <2>2 DEF TargetRec
  <2> QED
    BY <2>3
<1>7. CASE CallbackReturns \/ Advance
  <2>1. target'.err = target.err
    BY <1>1, <1>7 DEF CallbackReturns, Advance, TargetRec
  <2> QED
    BY <2>1
<1>8. CASE Delivered
  BY <1>8 DEF Delivered, Idle
<1> QED
  BY <1>2, <1>3, <1>4, <1>5, <1>6, <1>7, <1>8 DEF Next, Proceed, EndTransaction, Worker,
     RegisterNotifier, AddCallback, Unregister, RemoveCallback, Commit, CancelTransaction,
     SuppressNextNotification, CommitFails, WriteInCallback, OtherCommit, RunAsyncNotifiers,
     RunToSkipVersion, RunToVersion, vars

\* Both SharedGroups are open and nothing has failed.
Running == ~async_error /\ "advancer" \in opened /\ "notifier" \in opened

Busy(n) == n \in worker.old \cup worker.new

\* A notifier that has run, or that the worker is at, says that the worker could open
\* the file; a living notifier is in one of the lists, and in the main list exactly
\* when it has run or is about to.
Opened ==
    /\ worker.pc = "idle" => worker = Resting
    /\ worker.pc # "idle" => Running
    /\ \A n \in Notifier :
         /\ notifier[n].has_run => Running
         /\ notifier[n].ver > 0 /\ ~async_error => "advancer" \in opened
         /\ notifier[n].alive \/ Busy(n) => notifier[n].ver > 0
         /\ notifier[n].alive => notifier[n].where # "none"
         /\ notifier[n].where = "new" => ~notifier[n].has_run
         /\ notifier[n].where = "main" /\ ~async_error =>
              notifier[n].has_run \/ n \in worker.new
         /\ n \in worker.old => notifier[n].has_run
         /\ Busy(n) => notifier[n].where # "new"

\* The worker takes the living notifiers, or fails for good.
LEMMA OpenedRun ==
    ASSUME Typed, Opened, RunAsyncNotifiers
    PROVE  Opened'
<1>1. /\ worker.pc = "idle" /\ worker = Resting
      /\ \A n \in Notifier : Moved(notifier[n], notifier'[n], Promoted(notifier[n]))
  BY RunSteps DEF Opened
<1>2. worker.old = {} /\ worker.new = {}
  BY <1>1 DEF Resting
<1>3. PICK skip : SkipOf(skip) /\ \/ GivesUp /\ skip_version' = skip
                                  \/ Starts(skip)
  BY RunSteps
<1>4. CASE GivesUp
  <2>1. /\ worker' = worker /\ opened' = opened
        /\ \/ async_error' = async_error
           \/ async_error' = TRUE /\ "notifier" \notin opened
    BY <1>4 DEF GivesUp
  <2>2. ASSUME NEW n \in Notifier
        PROVE  /\ notifier'[n].has_run => Running'
               /\ notifier'[n].ver > 0 /\ ~async_error' => "advancer" \in opened'
               /\ notifier'[n].alive => notifier'[n].ver > 0
               /\ notifier'[n].alive => notifier'[n].where # "none"
               /\ notifier'[n].where = "new" => ~notifier'[n].has_run
    BY <1>1, <2>1 DEF Moved, Promoted, Opened, Running
  <2>3. ASSUME NEW n \in Notifier, notifier'[n].where = "main", ~async_error'
        PROVE  notifier'[n].has_run
    BY <1>1, <1>2, <2>1, <2>3, <1>4 DEF Moved, Promoted, Opened, Running, GivesUp, Living
  <2> QED
    BY <1>1, <1>2, <2>1, <2>2, <2>3 DEF Opened, Busy
<1>5. CASE Starts(skip)
  <2>1. /\ ~async_error /\ async_error' = async_error
        /\ opened' = opened \cup {"notifier"} /\ Living("main") \cup Living("new") # {}
        /\ worker'.pc # "idle" /\ worker'.old = Living("main") /\ worker'.new = Living("new")
    BY <1>5 DEF Starts
  <2>2. Running'
    BY <2>1 DEF Opened, Living, Running
  <2>3. ASSUME NEW n \in Notifier
        PROVE  /\ notifier'[n].alive \/ n \in Living("main") \cup Living("new") =>
                    notifier'[n].ver > 0
               /\ notifier'[n].alive => notifier'[n].where # "none"
               /\ notifier'[n].where = "new" => ~notifier'[n].has_run
               /\ n \in Living("main") => notifier'[n].has_run
               /\ n \in Living("main") \cup Living("new") => notifier'[n].where # "new"
               /\ notifier'[n].where = "main" => notifier'[n].has_run \/ n \in Living("new")
    BY <1>1, <1>2, <2>1 DEF Moved, Promoted, Opened, Living
  <2> QED
    BY <2>1, <2>2, <2>3 DEF Opened, Running, Busy
<1> QED
  BY <1>3, <1>4, <1>5

\* Every step keeps the lists and the open files in line.
LEMMA OpenedNext ==
    ASSUME Typed, Opened, [Next]_vars
    PROVE  Opened'
<1>1. CASE Settled
  BY <1>1 DEF Settled, Opened, Lives, Running, Busy
<1>2. CASE \E n \in Notifier : Registers(n)
  <2>1. PICK n \in Notifier : Registers(n)
    BY <1>2
  <2>2. ~Busy(n) /\ UNCHANGED worker
    BY <2>1 DEF Registers, Opened
  <2>3. Running => UNCHANGED <<opened, async_error>>
    BY <2>1 DEF Registers, Running
  <2>4. /\ "advancer" \in opened => "advancer" \in opened'
        /\ "advancer" \in opened' \/ async_error'
        /\ async_error => async_error'
    BY <2>1 DEF Registers
  <2>5. ASSUME NEW m \in Notifier, m # n
        PROVE  notifier'[m] = notifier[m]
    BY <2>1, <2>5 DEF Registers
  <2>6. /\ notifier'[n].where = "new" /\ ~notifier'[n].has_run /\ notifier'[n].ver > 0
    BY <2>1 DEF Registers
  <2>7. worker.pc # "idle" => Running'
    BY <2>3 DEF Opened, Running
  <2>8. ASSUME NEW m \in Notifier, m # n
        PROVE /\ notifier'[m].has_run => Running'
              /\ notifier'[m].ver > 0 /\ ~async_error' => "advancer" \in opened'
              /\ notifier'[m].alive \/ Busy(m) => notifier'[m].ver > 0
              /\ notifier'[m].alive => notifier'[m].where # "none"
              /\ notifier'[m].where = "new" => ~notifier'[m].has_run
              /\ notifier'[m].where = "main" /\ ~async_error' =>
                   notifier'[m].has_run \/ m \in worker.new
              /\ m \in worker.old => notifier'[m].has_run
              /\ Busy(m) => notifier'[m].where # "new"
    BY <2>3, <2>4, <2>5, <2>8 DEF Opened, Running
  <2> QED
    BY <2>2, <2>4, <2>6, <2>7, <2>8 DEF Opened, Busy
<1>3. CASE \E n \in Notifier : Drops(n)
  <2>1. PICK n \in Notifier : Drops(n)
    BY <1>3
  <2>2. UNCHANGED <<worker, opened, async_error>> /\ (Running' <=> Running)
    BY <2>1 DEF Drops, Running
  <2>3. ASSUME NEW m \in Notifier
        PROVE  /\ notifier'[m].has_run = notifier[m].has_run
               /\ notifier'[m].ver = notifier[m].ver /\ notifier'[m].where = notifier[m].where
               /\ notifier'[m].alive => notifier[m].alive
    BY <2>1 DEF Drops
  <2> QED
    BY <2>2, <2>3 DEF Opened, Busy
<1>4. CASE RunAsyncNotifiers
  BY <1>4, OpenedRun
<1>5. CASE RunToSkipVersion
  <2>1. /\ worker.pc = "skip" /\ worker' = [worker EXCEPT !.pc = "final"] /\ worker \in WorkerRec
        /\ UNCHANGED <<opened, async_error>> /\ worker.skip > 0
    BY <1>5 DEF RunToSkipVersion, Typed
  <2>2. worker'.pc = "final" /\ worker'.old = worker.old /\ worker'.new = worker.new
    BY <2>1 DEF WorkerRec
  <2>3. ASSUME NEW n \in Notifier
        PROVE  /\ n \in worker.old => Reached(notifier[n], notifier'[n], worker.skip)
                                      /\ notifier'[n].where = notifier[n].where
               /\ n \notin worker.old => notifier'[n] = notifier[n]
    BY <1>5, <2>1, SkipSteps
  <2>4. Running /\ Running'
    BY <2>1 DEF Opened, Running
  <2>5. ASSUME NEW n \in Notifier
        PROVE  /\ notifier'[n].alive \/ Busy(n) => notifier'[n].ver > 0
               /\ notifier'[n].alive => notifier'[n].where # "none"
               /\ notifier'[n].where = "new" => ~notifier'[n].has_run
               /\ notifier'[n].where = "main" => notifier'[n].has_run \/ n \in worker.new
               /\ n \in worker.old => notifier'[n].has_run
               /\ Busy(n) => notifier'[n].where # "new"
    BY <2>1, <2>3, <2>4 DEF Opened, Reached, Running, Busy
  <2> QED
    BY <2>2, <2>4, <2>5 DEF Opened, Busy, Running
<1>6. CASE RunToVersion
  <2>1. /\ worker.pc = "final" /\ worker' = Resting /\ worker.ver > 0
        /\ UNCHANGED <<opened, async_error>>
    BY <1>6 DEF RunToVersion, Typed
  <2>2. worker'.pc = "idle" /\ worker'.old = {} /\ worker'.new = {}
    BY <2>1 DEF Resting
  <2>3. ASSUME NEW n \in Notifier
        PROVE  /\ notifier'[n].where = IF notifier[n].alive THEN notifier[n].where ELSE "none"
               /\ Busy(n) => Reached(notifier[n], notifier'[n], worker.ver)
               /\ ~Busy(n) => Moved(notifier[n], notifier'[n], notifier'[n].where)
    BY <1>6, <2>1, FinalSteps DEF Busy
  <2>4. Running /\ Running'
    BY <2>1 DEF Opened, Running
  <2>5. ASSUME NEW n \in Notifier
        PROVE  /\ notifier'[n].alive => notifier'[n].ver > 0
               /\ notifier'[n].alive => notifier'[n].where # "none"
               /\ notifier'[n].where = "new" => ~notifier'[n].has_run
               /\ notifier'[n].where = "main" => notifier'[n].has_run
    <3>1. CASE Busy(n)
      <4>1. notifier'[n].alive = notifier[n].alive /\ notifier'[n].ver = worker.ver
            /\ notifier'[n].has_run = TRUE
        BY <2>3, <3>1 DEF Reached
      <4>2. notifier[n].where # "new" /\ (notifier[n].alive => notifier[n].where # "none")
        BY <3>1 DEF Opened
      <4> QED
        BY <2>1, <2>3, <4>1, <4>2
    <3>2. CASE ~Busy(n)
      <4>1. notifier'[n].alive = notifier[n].alive /\ notifier'[n].ver = notifier[n].ver
            /\ notifier'[n].has_run = notifier[n].has_run
        BY <2>3, <3>2 DEF Moved
      <4> QED
        BY <2>3, <2>4, <3>2, <4>1 DEF Opened, Busy, Running
    <3> QED
      BY <3>1, <3>2
  <2> QED
    BY <2>1, <2>2, <2>4, <2>5 DEF Opened, Busy, Running
<1> QED
  BY <1>1, <1>2, <1>3, <1>4, <1>5, <1>6, LifeSteps

Ran(n) == notifier[n].alive /\ notifier[n].has_run

\* The living notifiers that have run are all at one version and, while the worker
\* works, with the worker, behind the versions it goes to; the version it is to stop
\* at is still ahead of them and of the worker.
Abreast ==
    /\ worker.pc = "skip" => worker.skip <= worker.ver
    /\ skip_version > 0 /\ worker.pc # "idle" => worker.ver < skip_version
    /\ \A n \in Notifier :
         /\ n \in worker.new => ~notifier[n].has_run
         /\ worker.pc # "idle" /\ Ran(n) => n \in worker.old
         /\ n \in worker.old /\ worker.pc = "skip" => notifier[n].ver <= worker.skip
         /\ Busy(n) => notifier[n].ver <= worker.ver
         /\ skip_version > 0 /\ Ran(n) => notifier[n].ver < skip_version
    /\ \A n, m \in Notifier : Ran(n) /\ Ran(m) => notifier[n].ver = notifier[m].ver

\* Versions are numbers.
LEMMA VersionNat ==
    ASSUME Typed
    PROVE  /\ version \in Nat /\ read \in Nat /\ target.ver \in Nat /\ worker.ver \in Nat
           /\ worker.skip \in Nat /\ skip_version \in Nat /\ version >= 1 /\ read >= 1
           /\ \A n \in Notifier : notifier[n].ver \in Nat /\ notifier[n].ver <= version
           /\ read <= version /\ target.ver <= version /\ worker.ver <= version
           /\ worker.skip <= version /\ skip_version <= version
<1>1. version \in Nat /\ read \in Nat /\ skip_version \in Nat /\ version >= 1 /\ read >= 1
      /\ read <= version /\ skip_version <= version
  BY DEF Typed, Version
<1>2. target.ver \in Nat /\ worker.ver \in Nat /\ worker.skip \in Nat
  BY DEF Typed, TargetRec, WorkerRec
<1>3. \A n \in Notifier : notifier[n].ver \in Nat /\ notifier[n].ver <= version
  BY DEF Typed, NotifierRec, Sound
<1> QED
  BY <1>1, <1>2, <1>3 DEF Typed

\* A commit or a delivery leaves them where they are.
LEMMA AbreastSettled ==
    ASSUME Typed, Abreast, Settled
    PROVE  Abreast'
<1>1. /\ \A n \in Notifier : (Ran(n)' <=> Ran(n)) /\ notifier'[n].ver = notifier[n].ver
                             /\ notifier'[n].has_run = notifier[n].has_run
      /\ UNCHANGED worker
      /\ skip_version' = skip_version \/ skip_version' = version + 1
  BY DEF Settled, Lives, Ran
<1>2. CASE skip_version' = skip_version
  BY <1>1, <1>2 DEF Abreast, Busy
<1>3. CASE skip_version' = version + 1
  <2>1. worker.ver < skip_version' /\ \A n \in Notifier : notifier[n].ver < skip_version'
    BY <1>3, VersionNat
  <2>2. ASSUME NEW n \in Notifier
        PROVE /\ n \in worker.new => ~notifier'[n].has_run
              /\ worker.pc # "idle" /\ Ran(n)' => n \in worker.old
              /\ n \in worker.old /\ worker.pc = "skip" => notifier'[n].ver <= worker.skip
              /\ Busy(n) => notifier'[n].ver <= worker.ver
              /\ notifier'[n].ver < skip_version'
    BY <1>1, <2>1 DEF Abreast
  <2>3. \A n, m \in Notifier : Ran(n)' /\ Ran(m)' => notifier'[n].ver = notifier'[m].ver
    BY <1>1 DEF Abreast
  <2>4. worker.pc = "skip" => worker.skip <= worker.ver
    BY DEF Abreast
  <2> QED
    BY <1>1, <2>1, <2>2, <2>3, <2>4 DEF Abreast, Busy
<1> QED
  BY <1>1, <1>2, <1>3

\* So does run_async_notifiers up to the release of the lock; the worker's versions
\* are ahead of all.
LEMMA AbreastRun ==
    ASSUME Typed, Opened, Abreast, RunAsyncNotifiers
    PROVE  Abreast'
<1>1. /\ worker.pc = "idle" /\ worker = Resting
      /\ \A n \in Notifier : Moved(notifier[n], notifier'[n], Promoted(notifier[n]))
  BY RunSteps DEF Opened
<1>2. worker.old = {} /\ worker.new = {}
  BY <1>1 DEF Resting
<1>3. \A n \in Notifier : /\ (Ran(n)' <=> Ran(n)) /\ notifier'[n].ver = notifier[n].ver
                          /\ notifier'[n].has_run = notifier[n].has_run
  BY <1>1 DEF Moved, Ran
<1>4. PICK skip : SkipOf(skip) /\ \/ GivesUp /\ skip_version' = skip
                                  \/ Starts(skip)
  BY RunSteps
<1>5. skip \in {0, skip_version} /\ skip \in Nat /\ skip <= version
  BY <1>4, VersionNat DEF SkipOf
<1>6. CASE GivesUp /\ skip_version' = skip
  <2>1. worker' = worker /\ (skip_version' = 0 \/ skip_version' = skip_version)
    BY <1>5, <1>6 DEF GivesUp
  <2> QED
    BY <1>1, <1>2, <1>3, <2>1 DEF Abreast, Busy
<1>7. CASE Starts(skip)
  <2>1. /\ skip_version' = 0 /\ worker'.skip = skip /\ worker'.ver = version
        /\ worker'.pc = (IF skip > 0 THEN "skip" ELSE "final")
        /\ worker'.old = Living("main") /\ worker'.new = Living("new") /\ ~async_error
    BY <1>7 DEF Starts
  <2>2. ASSUME NEW n \in Notifier
        PROVE  /\ n \in Living("main") => Ran(n)
               /\ n \in Living("new") => ~notifier[n].has_run
               /\ Ran(n) => n \in Living("main")
    <3>1. notifier[n].where \in {"none", "new", "main"}
      BY DEF Typed, NotifierRec
    <3> QED
      BY <1>2, <2>1, <3>1 DEF Opened, Living, Ran
  <2>3. ASSUME NEW n \in Notifier, Ran(n), skip > 0
        PROVE  notifier[n].ver <= skip
    BY <1>5, <2>3, VersionNat DEF Abreast
  <2>4. \A n \in Notifier : notifier[n].ver <= version
    BY VersionNat
  <2>5. \A n, m \in Notifier : Ran(n)' /\ Ran(m)' => notifier'[n].ver = notifier'[m].ver
    BY <1>3 DEF Abreast
  <2>6. worker'.pc = "skip" => skip > 0
    BY <1>5, <2>1
  <2>7. \A n \in Notifier :
         /\ n \in worker'.new => ~notifier'[n].has_run
         /\ Ran(n)' => n \in worker'.old
         /\ n \in worker'.old /\ worker'.pc = "skip" => notifier'[n].ver <= worker'.skip
         /\ notifier'[n].ver <= worker'.ver
    BY <1>3, <2>1, <2>2, <2>3, <2>4, <2>6
  <2> QED
    BY <1>5, <2>1, <2>5, <2>7 DEF Abreast, Busy
<1> QED
  BY <1>4, <1>6, <1>7

\* The notifiers reach the version the worker stops at together.
LEMMA AbreastSkip ==
    ASSUME Typed, Opened, Abreast, RunToSkipVersion
    PROVE  Abreast'
<1>1. /\ worker.pc = "skip" /\ worker' = [worker EXCEPT !.pc = "final"] /\ worker \in WorkerRec
      /\ worker.skip > 0 /\ UNCHANGED skip_version
  BY DEF RunToSkipVersion, Typed
<1>2. /\ worker'.pc = "final" /\ worker'.old = worker.old /\ worker'.new = worker.new
      /\ worker'.ver = worker.ver /\ worker'.skip = worker.skip
  BY <1>1 DEF WorkerRec
<1>3. worker.skip <= worker.ver /\ (skip_version > 0 => worker.ver < skip_version)
  BY <1>1 DEF Abreast
<1>4. ASSUME NEW n \in Notifier
      PROVE  /\ n \in worker.old => /\ notifier'[n].ver = worker.skip
                                    /\ notifier'[n].alive = notifier[n].alive
                                    /\ notifier'[n].has_run = TRUE
             /\ n \notin worker.old => notifier'[n] = notifier[n]
  BY <1>1, SkipSteps DEF Reached
<1>5. ASSUME NEW n \in Notifier, Ran(n)'
      PROVE  n \in worker.old /\ notifier'[n].ver = worker.skip
  BY <1>1, <1>4, <1>5 DEF Abreast, Ran
<1>6. ASSUME NEW n \in Notifier
      PROVE  /\ n \in worker.new => ~notifier'[n].has_run
             /\ Busy(n) => notifier'[n].ver <= worker.ver
             /\ skip_version > 0 /\ Ran(n)' => notifier'[n].ver < skip_version
  <2>1. n \in worker.new => n \notin worker.old
    BY DEF Abreast, Opened
  <2>2. CASE n \in worker.old
    <3>1. notifier'[n].ver = worker.skip /\ n \notin worker.new
      BY <1>4, <2>1, <2>2
    <3>2. worker.skip \in Nat /\ worker.ver \in Nat /\ skip_version \in Nat
      BY VersionNat
    <3> QED
      BY <1>3, <3>1, <3>2
  <2>3. CASE n \notin worker.old
    <3>1. notifier'[n] = notifier[n] /\ ~Ran(n)'
      BY <1>4, <1>5, <2>3
    <3> QED
      BY <3>1 DEF Abreast
  <2> QED
    BY <2>2, <2>3
<1> QED
  BY <1>1, <1>2, <1>3, <1>5, <1>6 DEF Abreast, Busy

\* And the version the worker goes to.
LEMMA AbreastFinal ==
    ASSUME Typed, Opened, Abreast, RunToVersion
    PROVE  Abreast'
<1>1. worker.pc = "final" /\ worker' = Resting /\ worker.ver > 0
  BY DEF RunToVersion, Typed
<1>2. worker'.pc = "idle" /\ worker'.old = {} /\ worker'.new = {}
  BY <1>1 DEF Resting
<1>3. skip_version' \in {0, skip_version} /\ (skip_version > 0 => worker.ver < skip_version)
  BY <1>1, FinalSteps DEF SkipOf, Abreast
<1>4. ASSUME NEW n \in Notifier
      PROVE  /\ Busy(n) => notifier'[n].ver = worker.ver
             /\ ~Busy(n) => /\ notifier'[n].alive = notifier[n].alive
                            /\ notifier'[n].has_run = notifier[n].has_run
  BY <1>1, FinalSteps DEF Reached, Moved, Busy
<1>5. ASSUME NEW n \in Notifier, Ran(n)'
      PROVE  notifier'[n].ver = worker.ver
  BY <1>1, <1>4, <1>5 DEF Abreast, Ran, Busy
<1> QED
  BY <1>2, <1>3, <1>5 DEF Abreast, Busy

\* The notifiers stay abreast.
LEMMA AbreastNext ==
    ASSUME Typed, Opened, Abreast, [Next]_vars
    PROVE  Abreast'
<1>1. CASE Settled
  BY <1>1, AbreastSettled
<1>2. CASE \E n \in Notifier : Registers(n)
  <2>1. PICK n \in Notifier : Registers(n)
    BY <1>2
  <2>2. ~Busy(n) /\ UNCHANGED <<worker, skip_version>> /\ ~notifier'[n].has_run
    BY <2>1 DEF Registers, Opened
  <2>3. \A m \in Notifier : m # n => notifier'[m] = notifier[m]
    BY <2>1 DEF Registers
  <2> QED
    BY <2>2, <2>3 DEF Abreast, Busy, Ran
<1>3. CASE \E n \in Notifier : Drops(n)
  <2>1. PICK n \in Notifier : Drops(n)
    BY <1>3
  <2>2. UNCHANGED <<worker, skip_version>>
    BY <2>1 DEF Drops
  <2>3. ASSUME NEW m \in Notifier
        PROVE  /\ notifier'[m].has_run = notifier[m].has_run
               /\ notifier'[m].ver = notifier[m].ver
               /\ Ran(m)' => Ran(m)
    BY <2>1 DEF Drops, Ran
  <2> QED
    BY <2>2, <2>3 DEF Abreast, Busy
<1> QED
  BY <1>1, <1>2, <1>3, AbreastRun, AbreastSkip, AbreastFinal, LifeSteps

----------------------------------------------------------------------------
(* What a package shows.                                                    *)

\* A delivery begins that waits for version want.
Begins(op, want) ==
    /\ target.pc = "idle" /\ ~writing /\ (writing' <=> op = "begin")
    /\ op = "begin" => want = version
    /\ target'.pc = IF async_error THEN "advance" ELSE "package"
    /\ target'.op = op /\ target'.want = want /\ target'.list = NotifiersForRealm
    /\ target'.cur = nil
    /\ UNCHANGED <<version, changed, read, notifier, worker, skip_version, async_error, told>>

\* The notifiers that process_available_async packages.
AsyncList == {n \in NotifiersForRealm : notifier[n].has_run /\ notifier[n].ver = read}

AsyncPasses ==
    /\ target.pc = "idle" /\ ~writing /\ version = read
    /\ PackagedAll(AsyncList)
    /\ target'.pc = "after" /\ target'.list = AsyncList /\ target'.left = AsyncList
    /\ target'.ver = read /\ target'.cur = nil
    /\ UNCHANGED <<version, changed, read, writing, worker, skip_version, told>>

\* After an error there is nothing to show.
AsyncFails ==
    /\ target.pc = "idle" /\ async_error /\ target'.pc \in {"idle", "error"}
    /\ target'.list = {} \/ target'.pc = "error"
    /\ UNCHANGED <<version, changed, read, writing, notifier, worker, skip_version, told>>

PackRan == {n \in target.list : notifier[n].has_run}

\* package_and_wait makes a package of list at version w and goes to pc.
PackagesTo(w, list, pc) ==
    /\ target.pc = "package" /\ PackagedAll(PackRan)
    /\ \A n \in target.list : UpToDate(n, target.want)
    /\ w \in 0..version /\ pc = AfterPackaging(w)
    /\ \/ list = PackRan /\ PackRan = {} /\ w = 0
       \/ /\ list = PackRan /\ \E n \in PackRan : notifier[n].ver = w
          /\ w = 0 \/ w >= target.want
       \/ list = {} /\ w = 0 /\ \E n \in PackRan : notifier[n].ver < target.want
    /\ \/ pc = "idle" /\ target' = Idle
       \/ /\ pc \in {"before", "after"} /\ target'.pc = pc
          /\ target'.list = list /\ target'.left = list /\ target'.ver = w /\ target'.cur = nil
    /\ UNCHANGED <<version, changed, read, writing, worker, skip_version, told>>

\* The Realm advances.
Advances ==
    /\ \/ target.pc = "before" /\ target.left = {} /\ target'.pc = "after"
       \/ target.pc = "advance" /\ target'.pc = "error"
    /\ target.cur = nil
    /\ read' = IF target.ver > 0 THEN target.ver ELSE version
    /\ target'.list = target.list /\ target'.left = target.list
    /\ target'.ver = target.ver /\ target'.cur = nil
    /\ UNCHANGED <<version, changed, writing, notifier, worker, skip_version, told>>

\* The delivery ends.
Ends ==
    /\ target.pc \in {"after", "error"} /\ target.left = {} /\ target.cur = nil
    /\ target' = Idle
    /\ UNCHANGED <<version, changed, read, writing, notifier, worker, skip_version, told>>

\* A callback returns.
Returns ==
    /\ target.pc \in {"before", "after", "error"}
    /\ target'.pc = target.pc /\ target'.list = target.list /\ target'.left = target.left
    /\ target'.ver = target.ver /\ target'.cur = target.cur
    /\ told' = nil
    /\ UNCHANGED <<version, changed, read, writing, worker, skip_version>>
    /\ \/ UNCHANGED notifier
       \/ /\ target.pc = "error"
          /\ \E n \in Notifier : \E k \in Tokens(notifier[n]) :
               notifier' = [notifier EXCEPT ![n] = Removed(@, k)]

\* The pass goes on at n.
Passes(n) ==
    /\ target.pc \in {"before", "after", "error"}
    /\ target.cur = n \/ (target.cur = nil /\ n \in target.left)
    /\ \/ \E s : EndsPass(n, s) /\ target'.cur = nil
       \/ \E s : \E i \in 1..Len(Callbacks(n)) : CallsAt(n, s, i) /\ target'.cur = n
    /\ target'.pc = target.pc /\ target'.list = target.list
    /\ target'.left = target.left \ {n} /\ target'.ver = target.ver
    /\ UNCHANGED <<version, changed, read, writing, worker, skip_version>>

\* The calls that begin a delivery.
LEMMA BeginSteps ==
    ASSUME Typed, NEW op \in {"ready", "latest", "begin"}, NEW want \in 0..MaxVersion,
           Deliver(op, want), target.pc = "idle", ~writing, writing' <=> op = "begin",
           op = "begin" => want = version,
           UNCHANGED <<version, changed, read, notifier, worker, skip_version, async_error, told>>
    PROVE  Begins(op, want)
BY DeliverTyped DEF Begins

\* Realm::notify begins a delivery, packages what is at hand, or does nothing.
LEMMA NotifySteps ==
    ASSUME Typed, Notify
    PROVE  \/ Begins("ready", 0) \/ AsyncPasses \/ AsyncFails
           \/ UNCHANGED <<version, changed, read, writing, notifier, target, worker,
                          skip_version, told>>
<1>1. /\ UNCHANGED <<version, changed, read, writing, worker, skip_version, async_error, told>>
      /\ target.pc = "idle"
  BY DEF Notify, file
<1>2. writing \in BOOLEAN /\ 0 \in 0..MaxVersion
  BY NotifierAssumption DEF Typed
<1>3. CASE writing /\ UNCHANGED <<target, notifier, woken>>
  BY <1>1, <1>3
<1>4. CASE ~writing /\ version # read /\ Deliver("ready", 0) /\ UNCHANGED notifier
  BY <1>1, <1>2, <1>4, BeginSteps
<1>5. CASE ~writing /\ version = read /\ ProcessAvailableAsync
  <2> DEFINE list == {n \in NotifiersForRealm :
                       async_error \/ (notifier[n].has_run /\ notifier[n].ver = read)}
  <2>1. \/ /\ async_error /\ UNCHANGED notifier
           /\ \/ target' = Idle
              \/ target' = [Idle EXCEPT !.pc = "error", !.list = list, !.left = list,
                                        !.err = TRUE]
        \/ /\ ~async_error
           /\ notifier' = [n \in Notifier |-> IF n \in list THEN Packaged(notifier[n])
                                              ELSE notifier[n]]
           /\ target' = [Idle EXCEPT !.pc = "after", !.list = list, !.left = list,
                                     !.ver = read]
    BY <1>5, Zenon DEF ProcessAvailableAsync
  <2>2. ~async_error => list = AsyncList
    BY DEF AsyncList
  <2> HIDE DEF list
  <2>3. CASE async_error
    <3>1. target'.pc \in {"idle", "error"} /\ (target'.list = {} \/ target'.pc = "error")
      <4>1. CASE target' = Idle
        BY <4>1 DEF Idle
      <4>2. CASE target' = [Idle EXCEPT !.pc = "error", !.list = list, !.left = list,
                                        !.err = TRUE]
        BY <4>2 DEF Idle
      <4> QED
        BY <2>1, <2>3, <4>1, <4>2
    <3> QED
      BY <1>1, <1>5, <2>1, <2>3, <3>1 DEF AsyncFails
  <2>4. CASE ~async_error
    <3>1. target' = [Idle EXCEPT !.pc = "after", !.list = AsyncList, !.left = AsyncList,
                                     !.ver = read]
          /\ PackagedAll(AsyncList)
      BY <2>1, <2>2, <2>4 DEF PackagedAll
    <3> HIDE DEF AsyncList
    <3>2. /\ target'.pc = "after" /\ target'.list = AsyncList /\ target'.left = AsyncList
          /\ target'.ver = read /\ target'.cur = nil
      BY <3>1 DEF Idle
    <3> QED
      BY <1>1, <1>5, <3>1, <3>2 DEF AsyncPasses
  <2> QED
    BY <2>3, <2>4
<1> QED
  BY <1>1, <1>3, <1>4, <1>5 DEF Notify

\* package_and_wait, as one of its outcomes.
LEMMA PackingSteps ==
    ASSUME Typed, Thread, PackageAndWait
    PROVE  \E w, list, pc : PackagesTo(w, list, pc)
<1>1. /\ target.pc = "package" /\ PackagedAll(PackRan)
      /\ \A n \in target.list : UpToDate(n, target.want)
  BY PackageVersion DEF PackRan
<1>2. PICK w, list, pc :
         /\ w \in 0..version /\ pc = AfterPackaging(w)
         /\ pc \in {"idle", "after", "before"}
         /\ \/ list = PackRan /\ PackRan = {} /\ w = 0
            \/ /\ list = PackRan /\ \E n \in PackRan : notifier[n].ver = w
               /\ w = 0 \/ w >= target.want
            \/ /\ list = {} /\ w = 0
               /\ \E n \in PackRan : notifier[n].ver < target.want
         /\ pc = "idle" => target' = Idle
         /\ pc # "idle" => target' = [target EXCEPT !.pc = pc, !.list = list,
                                                    !.left = list, !.ver = w]
  BY PackageShape DEF PackRan
<1>3. UNCHANGED <<version, changed, read, writing, worker, skip_version, told>>
  BY DEF PackageAndWait, file, coordinator
<1>4. target \in TargetRec /\ target.cur = nil
  BY <1>1 DEF Typed, Thread
<1>5. pc # "idle" => /\ target'.pc = pc /\ target'.list = list /\ target'.left = list
                     /\ target'.ver = w /\ target'.cur = nil
  BY <1>2, <1>4 DEF TargetRec
<1>6. PackagesTo(w, list, pc)
  BY <1>1, <1>2, <1>3, <1>5 DEF PackagesTo
<1> QED
  BY <1>6

\* for_each_callback, as a step of a pass.
LEMMA PassSteps ==
    ASSUME Typed, NEW n \in Notifier, ForEachCallback(n)
    PROVE  Passes(n)
<1>1. target \in TargetRec
  BY DEF Typed
<1>2. UNCHANGED <<version, changed, read, writing, worker, skip_version>>
  BY Zenon DEF ForEachCallback, file, coordinator
<1>3. /\ target.pc \in {"before", "after", "error"}
      /\ target.cur = n \/ (target.cur = nil /\ n \in target.left)
  BY ForEachSteps
<1>4. CASE \E s : EndsPass(n, s)
  <2>1. PICK s : EndsPass(n, s)
    BY <1>4
  <2>2. target' = [target EXCEPT !.cur = nil, !.left = @ \ {n}]
    BY <2>1 DEF EndsPass
  <2>3. /\ target'.pc = target.pc /\ target'.list = target.list /\ target'.cur = nil
        /\ target'.left = target.left \ {n} /\ target'.ver = target.ver
    BY <1>1, <2>2 DEF TargetRec
  <2> QED
    BY <1>2, <1>3, <2>1, <2>3 DEF Passes
<1>5. CASE \E s : \E i \in 1..Len(Callbacks(n)) : CallsAt(n, s, i)
  <2>0. PICK s : \E i \in 1..Len(Callbacks(n)) : CallsAt(n, s, i)
    BY <1>5
  <2>1. PICK i \in 1..Len(Callbacks(n)) : CallsAt(n, s, i)
    BY <2>0
  <2>2. target' = [target EXCEPT !.cur = n, !.left = @ \ {n},
                    !.call = <<n, Callbacks(n)[i].token>>]
    BY <2>1 DEF CallsAt
  <2>3. /\ target'.pc = target.pc /\ target'.list = target.list /\ target'.cur = n
        /\ target'.left = target.left \ {n} /\ target'.ver = target.ver
    BY <1>1, <2>2 DEF TargetRec
  <2> QED
    BY <1>2, <1>3, <2>1, <2>3 DEF Passes
<1> QED
  BY <1>4, <1>5, ForEachSteps

\* The return of a callback.
LEMMA ReturnSteps ==
    ASSUME Typed, Thread, CallbackReturns
    PROVE  Returns
<1>1. target \in TargetRec /\ target.call[1] \in Notifier /\ target.call # nil
  BY DEF Typed, TargetRec, CallbackReturns
<1>2. target.pc \in {"before", "after", "error"}
  BY <1>1 DEF Thread, TargetRec, Idle
<1>3. target' = [target EXCEPT !.call = nil] /\ told' = nil
  BY DEF CallbackReturns
<1>4. UNCHANGED <<version, changed, read, writing, worker, skip_version>>
  BY DEF CallbackReturns, file, coordinator
<1>5. /\ target'.pc = target.pc /\ target'.list = target.list /\ target'.left = target.left
      /\ target'.ver = target.ver /\ target'.cur = target.cur
  BY <1>1, <1>3 DEF TargetRec
<1>6. \/ UNCHANGED notifier
      \/ /\ target.pc = "error"
         /\ \E n \in Notifier : \E k \in Tokens(notifier[n]) :
               notifier' = [notifier EXCEPT ![n] = Removed(@, k)]
  <2> DEFINE m == target.call[1]
             k == target.call[2]
  <2>1. \/ UNCHANGED notifier
        \/ /\ target.pc = "error" /\ k \in Tokens(notifier[m])
           /\ notifier' = [notifier EXCEPT ![m] = Removed(@, k)]
    BY DEF CallbackReturns
  <2>2. m \in Notifier
    BY <1>1
  <2> HIDE DEF m, k
  <2> QED
    BY <2>1, <2>2
<1> QED
  BY <1>2, <1>3, <1>4, <1>5, <1>6 DEF Returns

\* The advance.
LEMMA AdvanceSteps ==
    ASSUME Typed, Thread, Advance
    PROVE  Advances
<1>1. target \in TargetRec /\ target.err \in BOOLEAN
  BY DEF Typed, TargetRec
<1>2. /\ target' = [target EXCEPT !.pc = IF target.err THEN "error" ELSE "after",
                                   !.left = target.list]
      /\ read' = IF target.ver > 0 THEN target.ver ELSE version
      /\ \/ target.pc = "before" /\ target.left = {} /\ target.cur = nil
         \/ target.pc = "advance"
  BY DEF Advance
<1>3. target.cur = nil /\ (target.pc = "before" => ~target.err)
      /\ (target.pc = "advance" => target.err)
  BY <1>2 DEF Thread
<1>4. /\ target'.list = target.list /\ target'.left = target.list
      /\ target'.ver = target.ver /\ target'.cur = nil
      /\ target'.pc = IF target.err THEN "error" ELSE "after"
  BY <1>1, <1>2, <1>3 DEF TargetRec
<1>5. UNCHANGED <<version, changed, writing, notifier, worker, skip_version, told>>
  BY DEF Advance, coordinator
<1> QED
  BY <1>2, <1>3, <1>4, <1>5 DEF Advances

\* refresh and begin_transaction begin a delivery.
LEMMA DeliverSteps ==
    ASSUME Typed, Refresh \/ BeginTransaction
    PROVE  Begins("latest", version) \/ Begins("begin", version)
<1>1. version \in 0..MaxVersion
  BY NotifierAssumption DEF Typed, Version
<1>2. CASE Refresh
  <2>1. /\ Deliver("latest", version) /\ target.pc = "idle" /\ ~writing /\ ~writing'
        /\ UNCHANGED <<version, changed, read, notifier, worker, skip_version, async_error, told>>
    BY <1>2 DEF Refresh, file
  <2>2. writing' <=> "latest" = "begin"
    BY <2>1
  <2>3. "latest" = "begin" => version = version
    OBVIOUS
  <2> QED
    BY <1>1, <2>1, <2>2, <2>3, BeginSteps
<1>3. CASE BeginTransaction
  <2>1. /\ Deliver("begin", version) /\ target.pc = "idle" /\ ~writing /\ writing' = TRUE
        /\ UNCHANGED <<version, changed, read, notifier, worker, skip_version, async_error, told>>
    BY <1>3 DEF BeginTransaction
  <2>2. writing' <=> "begin" = "begin"
    BY <2>1
  <2> QED
    BY <1>1, <2>1, <2>2, BeginSteps
<1> QED
  BY <1>2, <1>3

\* The steps of other actors, or of the application: the thread stays where it is.
Aside ==
    \/ \E n \in Notifier : RegisterNotifier(n) \/ AddCallback(n) \/ Unregister(n)
    \/ \E n \in Notifier, k \in 1..MaxTokens : RemoveCallback(n, k)
    \/ \E n \in Notifier, k \in 1..MaxTokens : SuppressNextNotification(n, k)
    \/ Commit \/ CancelTransaction \/ OtherCommit \/ Worker
    \/ UNCHANGED <<version, changed, read, writing, notifier, target, worker, skip_version, told>>

\* What the Realm's thread does in a step.
LEMMA ThreadSteps ==
    ASSUME Plain, Typed, Thread, [Next]_vars
    PROVE  \/ Aside /\ UNCHANGED target
           \/ \E op, want : Begins(op, want)
           \/ AsyncPasses \/ AsyncFails
           \/ \E w, list, pc : PackagesTo(w, list, pc)
           \/ Advances \/ Ends \/ Returns
           \/ \E n \in Notifier : Passes(n)
<1>1. ~WriteInCallback /\ ~CommitFails
  BY DEF Plain, WriteInCallback, CommitFails
<1>2. CASE Notify
  BY <1>2, NotifySteps DEF Aside
<1>3. CASE Refresh \/ BeginTransaction
  BY <1>3, DeliverSteps
<1>4. CASE Proceed
  <2>1. Delivered => Ends
    BY DEF Delivered, Ends, file, coordinator
  <2> QED
    BY <1>4, <2>1, PackingSteps, PassSteps, ReturnSteps, AdvanceSteps DEF Proceed
<1>5. CASE UNCHANGED vars
  BY <1>5 DEF vars, file, coordinator, Aside
<1>6. ASSUME \/ \E n \in Notifier : RegisterNotifier(n) \/ AddCallback(n) \/ Unregister(n)
             \/ \E n \in Notifier, k \in 1..MaxTokens :
                  RemoveCallback(n, k) \/ SuppressNextNotification(n, k)
             \/ EndTransaction \/ OtherCommit \/ Worker
      PROVE  Aside /\ UNCHANGED target
  <2>1. UNCHANGED target
    BY <1>6 DEF EndTransaction, Worker,
     RegisterNotifier, AddCallback, Unregister, RemoveCallback, Commit, CancelTransaction,
     SuppressNextNotification, OtherCommit, RunAsyncNotifiers,
     RunToSkipVersion, RunToVersion, coordinator
  <2> QED
    BY <1>6, <2>1 DEF Aside, EndTransaction
<1> QED
  BY <1>1, <1>2, <1>3, <1>4, <1>5, <1>6 DEF Next

----------------------------------------------------------------------------
(* What a step does to the callbacks.                                       *)

\* A notifier that has run has run, and does not go back.
LEMMA LifeGrows ==
    ASSUME Typed, Opened, Abreast, [Next]_vars, NEW n \in Notifier, notifier[n].has_run
    PROVE  notifier'[n].has_run /\ notifier[n].ver <= notifier'[n].ver
<1>1. notifier[n].ver \in Nat
  BY VersionNat
<1>2. CASE Settled
  BY <1>1, <1>2 DEF Settled, Lives
<1>3. CASE \E m \in Notifier : Registers(m) \/ Drops(m)
  <2>1. PICK m \in Notifier : Registers(m) \/ Drops(m)
    BY <1>3
  <2>2. /\ notifier'[n].has_run = notifier[n].has_run
        /\ notifier'[n].ver = notifier[n].ver
    BY <2>1 DEF Registers, Drops
  <2> QED
    BY <1>1, <2>2
<1>4. CASE RunAsyncNotifiers
  <2>1. Moved(notifier[n], notifier'[n], Promoted(notifier[n]))
    BY <1>4, RunSteps
  <2> QED
    BY <1>1, <2>1 DEF Moved
<1>5. CASE RunToSkipVersion
  <2>1. worker.pc = "skip" /\ worker.skip > 0
    BY <1>5 DEF RunToSkipVersion, Typed
  <2>2. /\ n \in worker.old => notifier'[n].ver = worker.skip /\ notifier'[n].has_run = TRUE
        /\ n \notin worker.old => notifier'[n] = notifier[n]
    BY <1>5, <2>1, SkipSteps DEF Reached
  <2> QED
    BY <1>1, <2>1, <2>2 DEF Abreast
<1>6. CASE RunToVersion
  <2>1. worker.pc = "final" /\ worker.ver > 0
    BY <1>6 DEF RunToVersion, Typed
  <2>2. /\ Busy(n) => notifier'[n].ver = worker.ver /\ notifier'[n].has_run = TRUE
        /\ ~Busy(n) => /\ notifier'[n].ver = notifier[n].ver
                       /\ notifier'[n].has_run = notifier[n].has_run
    BY <1>6, <2>1, FinalSteps DEF Reached, Moved, Busy
  <2>3. Busy(n) => notifier[n].ver <= worker.ver
    BY DEF Abreast
  <2>4. CASE Busy(n)
    <3>1. notifier'[n].has_run = TRUE /\ notifier'[n].ver = worker.ver
      BY <2>2, <2>4
    <3> QED
      BY <2>3, <2>4, <3>1
  <2>5. CASE ~Busy(n)
    <3>1. notifier'[n].has_run = notifier[n].has_run /\ notifier'[n].ver = notifier[n].ver
      BY <2>2, <2>5
    <3> QED
      BY <1>1, <3>1
  <2> QED
    BY <2>4, <2>5
<1> QED
  BY <1>2, <1>3, <1>4, <1>5, <1>6, LifeSteps

\* d is the callback c, called as often as before.
SameOne(c, d) == d.token = c.token /\ d.initial = c.initial

\* Every callback of s is one of r.
FromOld(r, s) ==
    \A i \in 1..Len(s.callbacks) :
        \E j \in 1..Len(r.callbacks) : SameOne(r.callbacks[j], s.callbacks[i])

\* The same callbacks in the same places.
LEMMA SameFromOld ==
    ASSUME NEW r, NEW s, Len(s.callbacks) = Len(r.callbacks),
           \A i \in 1..Len(r.callbacks) : SameOne(r.callbacks[i], s.callbacks[i])
    PROVE  FromOld(r, s)
BY DEF FromOld

\* remove_callback leaves callbacks that were there.
LEMMA RemovedFromOld ==
    ASSUME NEW v, NEW r, Sound(r, v), NEW s, NEW p \in 1..Len(r.callbacks),
           RemovedAt(r, s, p)
    PROVE  FromOld(r, s)
<1>1. Len(r.callbacks) \in Nat
  BY DEF Sound, NotifierRec
<1>2. ASSUME NEW i \in 1..Len(s.callbacks)
      PROVE  \E j \in 1..Len(r.callbacks) : s.callbacks[i] = r.callbacks[j]
  <2>1. /\ s.callbacks[i] = IF i < p THEN r.callbacks[i] ELSE r.callbacks[i + 1]
        /\ i \in 1..Len(r.callbacks) /\ i + 1 \in 1..Len(r.callbacks)
    BY <1>1 DEF RemovedAt
  <2> QED
    BY <2>1
<1> QED
  BY <1>2 DEF FromOld, SameOne

\* Where the callbacks of a step come from: they were there, or were just added; and a
\* pass after the advance may mark one of them as called.
LEMMA CallbackOrigin ==
    ASSUME Typed, [Next]_vars, NEW n \in Notifier
    PROVE  \/ FromOld(notifier[n], notifier'[n])
           \/ /\ AddCallback(n)
              /\ \A i \in 1..Len(Callbacks(n)') :
                   Callbacks(n)'[i].initial =>
                     \E j \in 1..Len(Callbacks(n)) : SameOne(Callbacks(n)[j], Callbacks(n)'[i])
           \/ target.pc = "after" /\ ForEachCallback(n)
<1>1. SameOne(notifier[n].callbacks[1], notifier[n].callbacks[1])
      /\ FromOld(notifier[n], notifier[n])
  BY DEF FromOld, SameOne
<1>2. ASSUME notifier'[n] = notifier[n] PROVE FromOld(notifier[n], notifier'[n])
  BY <1>1, <1>2
<1>3. ASSUME notifier'[n].callbacks = notifier[n].callbacks
      PROVE  FromOld(notifier[n], notifier'[n])
  BY <1>3 DEF FromOld, SameOne
<1>4. CASE \E m \in Notifier : Registers(m) \/ Drops(m)
  BY <1>2, <1>3, <1>4 DEF Registers, Drops
<1>5. ASSUME NEW m \in Notifier, NEW s, Replaced(m, s), m # n
      PROVE  FromOld(notifier[n], notifier'[n])
  BY <1>2, <1>5, ReplacedFacts
<1>6. CASE \E m \in Notifier : AddCallback(m)
  <2>1. PICK m \in Notifier : AddCallback(m)
    BY <1>6
  <2>2. PICK s : /\ Replaced(m, s)
                 /\ Len(s.callbacks) = Len(Callbacks(m)) + 1
                 /\ \A i \in 1..Len(Callbacks(m)) : s.callbacks[i] = Callbacks(m)[i]
                 /\ ~s.callbacks[Len(Callbacks(m)) + 1].initial
    BY <2>1, AddSteps
  <2>3. CASE m = n
    <3>1. Callbacks(n)' = s.callbacks /\ Len(Callbacks(n)) \in Nat
      BY <2>2, <2>3, ReplacedFacts, SoundAll DEF Callbacks
    <3>2. ASSUME NEW i \in 1..Len(Callbacks(n)'), Callbacks(n)'[i].initial
          PROVE  \E j \in 1..Len(Callbacks(n)) : SameOne(Callbacks(n)[j], Callbacks(n)'[i])
      <4>1. i \in 1..(Len(Callbacks(n)) + 1) /\ i # Len(Callbacks(n)) + 1
        BY <2>2, <2>3, <3>1, <3>2
      <4>2. i \in 1..Len(Callbacks(n)) /\ Callbacks(n)'[i] = Callbacks(n)[i]
        BY <2>2, <2>3, <3>1, <4>1
      <4> QED
        BY <4>2 DEF SameOne
    <3> QED
      BY <2>1, <2>3, <3>2
  <2> QED
    BY <1>5, <2>2, <2>3
<1>7. ASSUME NEW m \in Notifier, NEW k \in Tokens(notifier[m]),
             notifier' = [notifier EXCEPT ![m] = Removed(@, k)]
      PROVE  FromOld(notifier[n], notifier'[n])
  <2>1. PICK s : \E p \in 1..Len(Callbacks(m)) : Replaced(m, s) /\ RemovedAt(notifier[m], s, p)
    BY <1>7, RemoveSteps
  <2>2. CASE m = n
    <3>1. FromOld(notifier[m], s)
      BY <2>1, SoundAll, RemovedFromOld DEF Callbacks
    <3> QED
      BY <2>1, <2>2, <3>1, ReplacedFacts
  <2> QED
    BY <1>5, <2>1, <2>2
<1>8. CASE \E m \in Notifier, k \in 1..MaxTokens : RemoveCallback(m, k)
  BY <1>7, <1>8 DEF RemoveCallback
<1>9. CASE \E m \in Notifier, k \in 1..MaxTokens : SuppressNextNotification(m, k)
  <2>1. PICK m \in Notifier, k \in 1..MaxTokens : SuppressNextNotification(m, k)
    BY <1>9
  <2>2. PICK s : \E p \in 1..Len(Callbacks(m)) :
             /\ Replaced(m, s) /\ Len(s.callbacks) = Len(Callbacks(m))
             /\ \A i \in 1..Len(Callbacks(m)) : i # p => s.callbacks[i] = Callbacks(m)[i]
             /\ SameOne(Callbacks(m)[p], s.callbacks[p])
    BY <2>1, SuppressSteps DEF SameOne
  <2>3. \A i \in 1..Len(Callbacks(m)) : SameOne(Callbacks(m)[i], s.callbacks[i])
    BY <2>2 DEF SameOne
  <2>4. Len(s.callbacks) = Len(notifier[m].callbacks) /\ Replaced(m, s)
    BY <2>2 DEF Callbacks
  <2>5. FromOld(notifier[m], s)
    BY <2>3, <2>4, SameFromOld DEF Callbacks
  <2> QED
    BY <1>5, <2>4, <2>5, ReplacedFacts
<1>10. ASSUME NEW S, PackagedAll(S) PROVE FromOld(notifier[n], notifier'[n])
  <2>1. FromOld(notifier[n], Packaged(notifier[n]))
    BY SoundAll, PackagedFacts, SameFromOld DEF SameOne
  <2> QED
    BY <1>1, <1>10, <2>1, PackageSteps
<1>11. CASE Notify
  <2>1. UNCHANGED notifier \/ \E S : PackagedAll(S)
    BY <1>11, Zenon DEF Notify, ProcessAvailableAsync, PackagedAll
  <2> QED
    BY <1>2, <1>10, <2>1
<1>12. CASE PackageAndWait
  BY <1>10, <1>12, PackageVersion
<1>13. CASE \E m \in Notifier : ForEachCallback(m)
  <2>1. PICK m \in Notifier : ForEachCallback(m)
    BY <1>13
  <2>2. \E s : Replaced(m, s) /\ (target.pc # "after" => s.callbacks = Callbacks(m))
    BY <2>1, ForEachSteps DEF EndsPass, CallsAt, Iterated
  <2>3. PICK s : Replaced(m, s) /\ (target.pc # "after" => s.callbacks = Callbacks(m))
    BY <2>2
  <2> QED
    BY <1>3, <1>5, <2>1, <2>3, ReplacedFacts DEF Callbacks
<1>14. CASE CallbackReturns
  <2> DEFINE m == target.call[1]
             k == target.call[2]
  <2>1. \/ UNCHANGED notifier
        \/ /\ k \in Tokens(notifier[m])
           /\ notifier' = [notifier EXCEPT ![m] = Removed(@, k)]
    BY <1>14 DEF CallbackReturns
  <2>2. m \in Notifier
    BY <1>14 DEF Typed, TargetRec, CallbackReturns
  <2> HIDE DEF m, k
  <2> QED
    BY <1>2, <1>7, <2>1, <2>2
<1>15. CASE Worker
  <2>1. CASE RunAsyncNotifiers
    <3>1. Moved(notifier[n], notifier'[n], Promoted(notifier[n]))
      BY <2>1, RunSteps
    <3> QED
      BY <1>3, <3>1 DEF Moved
  <2>2. ASSUME NEW v, Reached(notifier[n], notifier'[n], v)
        PROVE  FromOld(notifier[n], notifier'[n])
    <3>1. Len(notifier'[n].callbacks) = Len(notifier[n].callbacks)
      BY <2>2 DEF Reached
    <3>2. \A i \in 1..Len(notifier[n].callbacks) :
             SameOne(notifier[n].callbacks[i], notifier'[n].callbacks[i])
      BY <2>2 DEF Reached, More, SameOne
    <3> QED
      BY <3>1, <3>2, SameFromOld
  <2>3. CASE RunToSkipVersion
    BY <1>2, <2>2, <2>3, SkipSteps DEF RunToSkipVersion, Typed
  <2>4. CASE RunToVersion
    <3>1. \/ Reached(notifier[n], notifier'[n], worker.ver)
          \/ Moved(notifier[n], notifier'[n], notifier'[n].where)
      BY <2>4, FinalSteps DEF RunToVersion, Typed
    <3> QED
      BY <1>3, <2>2, <3>1 DEF Moved
  <2> QED
    BY <1>15, <2>1, <2>3, <2>4 DEF Worker
<1>16. CASE Commit \/ CancelTransaction \/ WriteInCallback \/ OtherCommit \/ Refresh
             \/ BeginTransaction \/ Advance \/ Delivered \/ UNCHANGED vars
  <2>1. UNCHANGED notifier
    BY <1>16 DEF Commit, CancelTransaction, WriteInCallback, OtherCommit, Refresh,
     BeginTransaction, Advance, Delivered, vars
  <2> QED
    BY <1>2, <2>1
<1>17. CASE \E m \in Notifier : RegisterNotifier(m) \/ Unregister(m)
  BY <1>4, <1>17, RegisterLife, DropLife
<1>18. CASE CommitFails
  BY <1>18, FailSteps, SameFromOld DEF SameOne
<1> QED
  BY <1>6, <1>8, <1>9, <1>11, <1>12, <1>13, <1>14, <1>15, <1>16, <1>17, <1>18
     DEF Next, EndTransaction, Proceed

\* Another thread, or the application, changes little under a delivery.
AsideKeeps ==
    /\ \/ read' = read
       \/ target.pc = "idle" /\ writing /\ ~writing' /\ read' = version'
    /\ (writing' <=> writing) \/ (target.pc = "idle" /\ ~writing')
    /\ version' = version \/ ~writing'
    /\ target.pc = "package" => \A n \in Notifier : notifier'[n].alive = notifier[n].alive
    /\ \A n \in Notifier : notifier'[n].alive => notifier[n].alive \/ Registers(n)
    /\ told' = told

\* The worker drops no collection.
LEMMA WorkerAlive ==
    ASSUME Typed, Worker, NEW n \in Notifier
    PROVE  notifier'[n].alive = notifier[n].alive
<1>1. CASE RunAsyncNotifiers
  <2>1. Moved(notifier[n], notifier'[n], Promoted(notifier[n]))
    BY <1>1, RunSteps
  <2> QED
    BY <2>1 DEF Moved
<1>2. CASE RunToSkipVersion
  <2>1. worker.skip > 0
    BY <1>2 DEF RunToSkipVersion, Typed
  <2>2. Reached(notifier[n], notifier'[n], worker.skip) \/ notifier'[n] = notifier[n]
    BY <1>2, <2>1, SkipSteps
  <2> QED
    BY <2>2 DEF Reached
<1>3. CASE RunToVersion
  <2>1. worker.ver > 0
    BY <1>3 DEF RunToVersion, Typed
  <2>2. \/ Reached(notifier[n], notifier'[n], worker.ver)
        \/ Moved(notifier[n], notifier'[n], notifier'[n].where)
    BY <1>3, <2>1, FinalSteps
  <2> QED
    BY <2>2 DEF Reached, Moved
<1> QED
  BY <1>1, <1>2, <1>3 DEF Worker

\* The steps that leave the thread where it is.
LEMMA AsideFacts ==
    ASSUME Plain, Typed, Thread, Aside, UNCHANGED target
    PROVE  AsideKeeps
<1>1. CASE \E n \in Notifier : RegisterNotifier(n)
  <2>1. PICK n \in Notifier : RegisterNotifier(n) /\ Registers(n)
    BY <1>1, RegisterLife
  <2>2. target.pc # "package"
    BY <2>1 DEF RegisterNotifier, UserCode, Thread
  <2> QED
    BY <2>1, <2>2 DEF Registers, AsideKeeps
<1>2. CASE \E n \in Notifier : Unregister(n)
  <2>1. PICK n \in Notifier : Unregister(n) /\ Drops(n)
    BY <1>2, DropLife
  <2>2. target.pc # "package"
    BY <2>1 DEF Unregister, Plain, Thread
  <2> QED
    BY <2>1, <2>2 DEF Drops, AsideKeeps
<1>3. CASE \E n \in Notifier : AddCallback(n)
  <2>1. PICK n \in Notifier : AddCallback(n)
    BY <1>3
  <2>2. PICK s : Replaced(n, s) /\ s.alive = notifier[n].alive
    BY <2>1, AddSteps
  <2>3. \A m \in Notifier : notifier'[m].alive = notifier[m].alive
    BY <2>2, ReplacedFacts
  <2>4. UNCHANGED <<read, writing, version, told>>
    BY <2>1 DEF AddCallback, file
  <2> QED
    BY <2>3, <2>4 DEF AsideKeeps
<1>4. CASE \E n \in Notifier, k \in 1..MaxTokens : RemoveCallback(n, k)
  <2>1. PICK n \in Notifier, k \in 1..MaxTokens : RemoveCallback(n, k)
    BY <1>4
  <2>2. \E s : Replaced(n, s) /\ s.alive = notifier[n].alive
    BY <2>1, RemoveSteps DEF RemoveCallback, RemovedAt, Kept
  <2>3. \A m \in Notifier : notifier'[m].alive = notifier[m].alive
    BY <2>2, ReplacedFacts
  <2>4. UNCHANGED <<read, writing, version, told>>
    BY <2>1 DEF RemoveCallback, file
  <2> QED
    BY <2>3, <2>4 DEF AsideKeeps
<1>5. CASE \E n \in Notifier, k \in 1..MaxTokens : SuppressNextNotification(n, k)
  <2>1. PICK n \in Notifier, k \in 1..MaxTokens : SuppressNextNotification(n, k)
    BY <1>5
  <2>2. \E s : Replaced(n, s) /\ s.alive = notifier[n].alive
    BY <2>1, SuppressSteps DEF Kept
  <2>3. \A m \in Notifier : notifier'[m].alive = notifier[m].alive
    BY <2>2, ReplacedFacts
  <2>4. UNCHANGED <<read, writing, version, told>>
    BY <2>1 DEF SuppressNextNotification
  <2> QED
    BY <2>3, <2>4 DEF AsideKeeps
<1>6. CASE Commit \/ CancelTransaction
  <2>1. /\ target.pc = "idle" /\ writing /\ ~writing' /\ (read' = version' \/ read' = read)
        /\ told' = told /\ notifier' = notifier
    BY <1>6 DEF Commit, CancelTransaction, CommitWrite
  <2> QED
    BY <2>1 DEF AsideKeeps
<1>7. CASE OtherCommit
  <2>1. ~writing /\ writing' = writing /\ read' = read /\ told' = told /\ notifier' = notifier
    BY <1>7 DEF OtherCommit
  <2> QED
    BY <2>1 DEF AsideKeeps
<1>8. CASE Worker
  <2>1. \A n \in Notifier : notifier'[n].alive = notifier[n].alive
    BY <1>8, WorkerAlive
  <2>2. UNCHANGED <<read, writing, version, told>>
    BY <1>8 DEF Worker, RunAsyncNotifiers, RunToSkipVersion, RunToVersion, file
  <2> QED
    BY <2>1, <2>2 DEF AsideKeeps
<1>9. CASE UNCHANGED <<version, changed, read, writing, notifier, target, worker,
                       skip_version, told>>
  BY <1>9 DEF AsideKeeps
<1> QED
  BY <1>1, <1>2, <1>3, <1>4, <1>5, <1>6, <1>7, <1>8, <1>9 DEF Aside

----------------------------------------------------------------------------
\* package_and_wait waits for all the living notifiers, and for the version of the
\* transaction that begins.
Listing ==
    target.pc = "package" =>
        /\ \A n \in Notifier : notifier[n].alive <=> n \in target.list
        /\ writing <=> target.op = "begin"
        /\ writing => target.want = version

\* Every step keeps what package_and_wait waits for.
LEMMA ListingNext ==
    ASSUME Plain, Typed, Thread, Opened, Listing, [Next]_vars
    PROVE  Listing'
<1>1. CASE Aside /\ UNCHANGED target
  <2>1. AsideKeeps
    BY <1>1, AsideFacts
  <2> QED
    BY <1>1, <2>1 DEF Listing, AsideKeeps
<1>2. CASE \E op, want : Begins(op, want)
  <2>1. PICK op, want : Begins(op, want)
    BY <1>2
  <2>2. target'.op = op /\ target'.want = want /\ target'.list = NotifiersForRealm
        /\ version' = version /\ notifier' = notifier /\ (writing' <=> op = "begin")
        /\ (op = "begin" => want = version)
    BY <2>1 DEF Begins
  <2>3. \A n \in Notifier : notifier[n].alive <=> n \in NotifiersForRealm
    <3>1. ASSUME NEW n \in Notifier
          PROVE notifier[n].where \in {"none", "new", "main"}
      BY SoundAll DEF NotifierRec
    <3> QED
      BY <3>1 DEF NotifiersForRealm, In, Opened
  <2> QED
    BY <2>2, <2>3 DEF Listing
<1>3. CASE \/ AsyncPasses \/ AsyncFails \/ \E w, list, pc : PackagesTo(w, list, pc)
           \/ Advances \/ Ends \/ Returns \/ \E n \in Notifier : Passes(n)
  <2>1. target'.pc # "package"
    BY <1>3 DEF AsyncPasses, AsyncFails, PackagesTo, Advances, Ends, Returns, Passes, Idle
  <2> QED
    BY <2>1 DEF Listing
<1> QED
  BY <1>1, <1>2, <1>3, ThreadSteps

\* The version of a package that holds notifiers: they are all at it or beyond it; it
\* is the one the Realm shows after the advance, and the latest in a transaction.
Carried ==
    target.pc \in {"before", "after"} /\ target.list # {} =>
        /\ target.ver > 0
        /\ \A n \in target.list : notifier[n].has_run /\ target.ver <= notifier[n].ver
        /\ target.pc = "after" => read = target.ver
        /\ writing => target.ver = version

HasInitial(n) == \E i \in 1..Len(Callbacks(n)) : Callbacks(n)[i].initial

\* package_and_wait: the notifiers that have run are at one version.
LEMMA PackVersion ==
    ASSUME Typed, Opened, Abreast, Listing, NEW w, NEW list, NEW pc,
           PackagesTo(w, list, pc), PackRan # {}
    PROVE  /\ \A n \in PackRan : Ran(n)
           /\ \E v \in Nat : v > 0 /\ \A n \in PackRan : notifier[n].ver = v
           /\ list # {} => \A n \in PackRan : notifier[n].ver = w
<1>1. target.pc = "package" /\ PackRan \subseteq Notifier
  BY DEF PackagesTo, PackRan, Typed, TargetRec
<1>2. \A n \in PackRan : Ran(n)
  BY <1>1 DEF Listing, PackRan, Ran
<1>3. \A n, m \in PackRan : notifier[n].ver = notifier[m].ver
  BY <1>1, <1>2 DEF Abreast
<1>4. \A n \in PackRan : notifier[n].ver \in Nat /\ notifier[n].ver > 0
  BY <1>1, <1>2, VersionNat DEF Opened, Ran
<1>5. list # {} => \E n \in PackRan : notifier[n].ver = w
  BY DEF PackagesTo
<1> QED
  BY <1>2, <1>3, <1>4, <1>5

\* Every step keeps the version of the package.
LEMMA CarriedNext ==
    ASSUME Plain, Typed, Thread, Opened, Abreast, Listing, Carried, [Next]_vars
    PROVE  Carried'
<1> SUFFICES ASSUME target'.pc \in {"before", "after"}, target'.list # {}
             PROVE  /\ target'.ver > 0
                    /\ \A n \in target'.list :
                         notifier'[n].has_run /\ target'.ver <= notifier'[n].ver
                    /\ target'.pc = "after" => read' = target'.ver
                    /\ writing' => target'.ver = version'
  BY DEF Carried
<1>1. /\ target.list \subseteq Notifier /\ target.ver \in Nat /\ version \in Nat /\ read \in Nat
      /\ \A n \in Notifier : notifier[n].ver \in Nat /\ notifier[n].ver <= version
      /\ read <= version /\ read >= 1
  BY VersionNat DEF Typed, TargetRec
<1>2. Typed'
  BY TypedNext
<1>3. \A n \in Notifier : notifier'[n].ver \in Nat
  <2>1. ASSUME NEW n \in Notifier PROVE notifier'[n].ver \in Nat
    BY <1>2 DEF Typed, NotifierRec
  <2> QED
    BY <2>1
<1>4. ASSUME target.pc \in {"before", "after"}, target'.list = target.list,
             target'.ver = target.ver
      PROVE  /\ target'.ver > 0
             /\ \A n \in target'.list :
                  notifier'[n].has_run /\ target'.ver <= notifier'[n].ver
  <2>1. /\ target.ver > 0
        /\ \A n \in target.list : notifier[n].has_run /\ target.ver <= notifier[n].ver
    BY <1>4 DEF Carried
  <2>2. ASSUME NEW n \in target.list
        PROVE  notifier'[n].has_run /\ target.ver <= notifier'[n].ver
    <3>1. notifier'[n].has_run /\ notifier[n].ver <= notifier'[n].ver
      BY <1>1, <2>1, LifeGrows
    <3> QED
      BY <1>1, <1>3, <2>1, <3>1
  <2> QED
    BY <1>4, <2>1, <2>2
<1>5. CASE Aside /\ UNCHANGED target
  <2>1. AsideKeeps
    BY <1>5, AsideFacts
  <2>2. read' = read /\ (writing' <=> writing) /\ (writing => version' = version)
    BY <1>5, <2>1 DEF AsideKeeps
  <2> QED
    BY <1>4, <1>5, <2>2 DEF Carried
<1>6. CASE \E op, want : Begins(op, want)
  BY <1>6 DEF Begins
<1>7. CASE AsyncPasses
  <2>1. /\ target'.list = AsyncList /\ target'.ver = read /\ read' = read /\ ~writing'
        /\ PackagedAll(AsyncList) /\ ~writing
    BY <1>7 DEF AsyncPasses
  <2>2. \A n \in AsyncList : n \in Notifier /\ notifier[n].has_run /\ notifier[n].ver = read
    BY DEF AsyncList, NotifiersForRealm, In
  <2>3. \A n \in AsyncList : notifier'[n].has_run /\ notifier'[n].ver = read
    BY <2>1, <2>2, PackagedLives DEF Lives
  <2> QED
    BY <1>1, <2>1, <2>3
<1>8. CASE AsyncFails
  BY <1>8 DEF AsyncFails
<1>9. CASE \E w, list, pc : PackagesTo(w, list, pc)
  <2>1. PICK w, list, pc : PackagesTo(w, list, pc)
    BY <1>9
  <2>2. /\ target'.pc = pc /\ target'.list = list /\ target'.ver = w /\ list = PackRan
        /\ pc = AfterPackaging(w) /\ PackRan # {} /\ target.pc = "package"
        /\ PackagedAll(PackRan) /\ w \in 0..version /\ (w = 0 \/ w >= target.want)
        /\ UNCHANGED <<version, read, writing>>
    BY <2>1 DEF PackagesTo, Idle
  <2>3. /\ \A n \in PackRan : Ran(n) /\ notifier[n].ver = w
        /\ \E v \in Nat : v > 0 /\ \A n \in PackRan : notifier[n].ver = v
    BY <2>1, <2>2, PackVersion
  <2>4. w > 0 /\ PackRan \subseteq Notifier /\ w >= target.want
    BY <1>1, <2>2, <2>3 DEF PackRan
  <2>5. \A n \in PackRan : notifier'[n].has_run /\ notifier'[n].ver = w
    BY <2>2, <2>3, <2>4, PackagedLives DEF Lives, Ran
  <2>6. writing => w = version
    BY <1>1, <2>2, <2>4 DEF Listing
  <2>7. pc = "after" => read = w
    BY <1>1, <2>2, <2>6 DEF AfterPackaging, Listing
  <2> QED
    BY <2>2, <2>4, <2>5, <2>6, <2>7
<1>10. CASE Advances
  <2>1. /\ target.pc = "before" /\ target'.pc = "after" /\ target'.list = target.list
        /\ target'.ver = target.ver /\ read' = IF target.ver > 0 THEN target.ver ELSE version
        /\ UNCHANGED <<version, writing>>
    BY <1>10 DEF Advances
  <2> QED
    BY <1>4, <2>1 DEF Carried
<1>11. CASE Ends
  BY <1>11 DEF Ends, Idle
<1>12. CASE Returns \/ \E n \in Notifier : Passes(n)
  <2>1. /\ target'.pc = target.pc /\ target'.list = target.list
        /\ target'.ver = target.ver /\ UNCHANGED <<version, read, writing>>
    BY <1>12 DEF Returns, Passes
  <2> QED
    BY <1>4, <2>1 DEF Carried
<1> QED
  BY <1>5, <1>6, <1>7, <1>8, <1>9, <1>10, <1>11, <1>12, ThreadSteps

----------------------------------------------------------------------------
\* Only a notifier that has run has called its callbacks.
InitialRan == \A n \in Notifier : HasInitial(n) => notifier[n].has_run

\* A callback that has been called has been so before the step, unless the pass is at it.
LEMMA InitialOrigin ==
    ASSUME Typed, [Next]_vars, NEW n \in Notifier, HasInitial(n)'
    PROVE  HasInitial(n) \/ (target.pc = "after" /\ ForEachCallback(n))
<1>1. PICK i \in 1..Len(Callbacks(n)') : Callbacks(n)'[i].initial
  BY DEF HasInitial
<1>2. CASE FromOld(notifier[n], notifier'[n])
  <2>1. PICK j \in 1..Len(Callbacks(n)) : SameOne(Callbacks(n)[j], Callbacks(n)'[i])
    BY <1>1, <1>2 DEF FromOld, Callbacks
  <2> QED
    BY <1>1, <2>1 DEF HasInitial, SameOne
<1>3. CASE \A x \in 1..Len(Callbacks(n)') :
                   Callbacks(n)'[x].initial =>
                     \E j \in 1..Len(Callbacks(n)) : SameOne(Callbacks(n)[j], Callbacks(n)'[x])
  <2>1. PICK j \in 1..Len(Callbacks(n)) : SameOne(Callbacks(n)[j], Callbacks(n)'[i])
    BY <1>1, <1>3
  <2> QED
    BY <1>1, <2>1 DEF HasInitial, SameOne
<1> QED
  BY <1>2, <1>3, CallbackOrigin

\* A callback is called only when its notifier has run.
LEMMA InitialNext ==
    ASSUME Typed, Thread, Opened, Abreast, Carried, InitialRan, [Next]_vars
    PROVE  InitialRan'
<1> SUFFICES ASSUME NEW n \in Notifier, HasInitial(n)' PROVE notifier'[n].has_run
  BY DEF InitialRan
<1>1. CASE HasInitial(n)
  BY <1>1, LifeGrows DEF InitialRan
<1>2. CASE target.pc = "after" /\ ForEachCallback(n)
  <2>1. n \in target.list
    BY <1>2, ForEachSteps, NotifierAssumption DEF Thread
  <2> QED
    BY <1>2, <2>1, LifeGrows DEF Carried
<1> QED
  BY <1>1, <1>2, InitialOrigin

\* A package that may be told before the advance holds every living notifier which has
\* a callback that was called.
Reaches ==
    \A n \in Notifier :
        target.pc = "before" /\ notifier[n].alive /\ HasInitial(n) => n \in target.list

\* A pass changes callbacks only.
LEMMA PassLives ==
    ASSUME Typed, NEW n \in Notifier, Passes(n)
    PROVE  \A m \in Notifier : Lives(notifier[m], notifier'[m])
<1>1. PICK s : EndsPass(n, s) \/ \E i \in 1..Len(Callbacks(n)) : CallsAt(n, s, i)
  BY Zenon DEF Passes
<1>2. Replaced(n, s) /\ Kept(notifier[n], s)
  BY <1>1 DEF EndsPass, CallsAt, Iterated
<1> QED
  BY <1>2, ReplacedLives DEF Kept, Lives

\* package_and_wait waited for a notifier with callbacks.
LEMMA PackWaited ==
    ASSUME Typed, NEW w, NEW list, NEW pc, PackagesTo(w, list, pc),
           NEW n \in target.list, Callbacks(n) # <<>>, target.want > 0
    PROVE  notifier[n].has_run /\ notifier[n].ver >= target.want
<1>1. n \in Notifier
  BY DEF Typed, TargetRec
<1>2. notifier[n].have = (Callbacks(n) # <<>>)
  BY <1>1, SoundAll DEF Sound, Callbacks
<1>3. UpToDate(n, target.want) /\ target.want \in Nat
  BY DEF PackagesTo, Typed, TargetRec
<1>4. notifier[n].have
  BY <1>2, Zenon
<1>5. target.want # 0
  BY <1>3
<1> QED
  BY <1>3, <1>4, <1>5, Zenon DEF UpToDate

\* Every step keeps the package complete.
LEMMA ReachesNext ==
    ASSUME Plain, Typed, Thread, Opened, Abreast, Listing, InitialRan, Reaches, [Next]_vars
    PROVE  Reaches'
<1> SUFFICES ASSUME NEW n \in Notifier, target'.pc = "before", notifier'[n].alive,
                    HasInitial(n)'
             PROVE  n \in target'.list
  BY DEF Reaches
<1>1. CASE Aside /\ UNCHANGED target
  <2>1. AsideKeeps
    BY <1>1, AsideFacts
  <2>2. HasInitial(n)
    BY <1>1, InitialOrigin
  <2>3. ~Registers(n)
    BY <1>1 DEF HasInitial, Registers, Callbacks
  <2>4. notifier[n].alive
    BY <2>1, <2>3 DEF AsideKeeps
  <2> QED
    BY <1>1, <2>2, <2>4 DEF Reaches
<1>2. CASE \E w, list, pc : PackagesTo(w, list, pc)
  <2>1. PICK w, list, pc : PackagesTo(w, list, pc)
    BY <1>2
  <2>2. /\ target.pc = "package" /\ target'.list = list /\ PackagedAll(PackRan)
        /\ list = PackRan \/ (list = {} /\ \E m \in PackRan : notifier[m].ver < target.want)
    BY <2>1 DEF PackagesTo, Idle
  <2>3. HasInitial(n)
    BY <2>2, InitialOrigin
  <2>4. notifier[n].alive
    BY <2>2, PackagedLives DEF Lives
  <2>5. n \in PackRan /\ n \in target.list
    BY <2>2, <2>3, <2>4 DEF Listing, InitialRan, PackRan
  <2>6. Callbacks(n) # <<>>
    BY <2>3 DEF HasInitial
  <2>7. target.want \in Nat
    BY DEF Typed, TargetRec
  <2>8. ASSUME NEW m \in PackRan, notifier[m].ver < target.want PROVE FALSE
    <3>1. PICK v \in Nat : v > 0 /\ \A x \in PackRan : notifier[x].ver = v
      BY <2>1, <2>5, PackVersion
    <3>2. target.want > 0
      BY <2>7, <2>8, <3>1
    <3>3. notifier[n].ver >= target.want
      BY <2>1, <2>5, <2>6, <3>2, PackWaited
    <3> QED
      BY <2>5, <2>7, <2>8, <3>1, <3>3
  <2> QED
    BY <2>2, <2>5, <2>8
<1>3. CASE \/ AsyncPasses \/ AsyncFails \/ Advances \/ Ends \/ \E op, want : Begins(op, want)
  BY <1>3 DEF AsyncPasses, AsyncFails, Advances, Ends, Begins, Idle
<1>4. CASE Returns \/ \E m \in Notifier : Passes(m)
  <2>1. target.pc = "before" /\ target'.list = target.list
    BY <1>4 DEF Returns, Passes
  <2>2. HasInitial(n)
    BY <2>1, InitialOrigin
  <2>3. notifier'[n].alive = notifier[n].alive
    <3>1. CASE Returns
      BY <2>1, <3>1 DEF Returns
    <3>2. CASE \E m \in Notifier : Passes(m)
      BY <3>2, PassLives DEF Lives
    <3> QED
      BY <1>4, <3>1, <3>2
  <2> QED
    BY <2>1, <2>2, <2>3 DEF Reaches
<1> QED
  BY <1>1, <1>2, <1>3, <1>4, ThreadSteps

----------------------------------------------------------------------------
\* In a write transaction, once the package is made, the living notifiers that have
\* run are at the latest version, and the worker goes no further.
Held ==
    writing /\ target.pc \in {"before", "after", "idle"} =>
        \A n \in Notifier :
            notifier[n].alive /\ (Callbacks(n) # <<>> \/ target.list # {}) =>
                /\ notifier[n].has_run => notifier[n].ver = version
                /\ Busy(n) => worker.ver = version

\* A notifier that gets callbacks has them, or gets its first.
LEMMA CallbacksOrigin ==
    ASSUME Typed, [Next]_vars, NEW n \in Notifier, Callbacks(n)' # <<>>
    PROVE  Callbacks(n) # <<>> \/ AddCallback(n)
<1>1. Typed' /\ Callbacks(n)' \in Seq(CallbackRec)
  <2>1. Typed'
    BY TypedNext
  <2>2. notifier'[n] \in NotifierRec
    BY <2>1 DEF Typed
  <2> QED
    BY <2>1, <2>2 DEF Callbacks, NotifierRec
<1>2. 1 \in 1..Len(Callbacks(n)')
  BY <1>1
<1>3. CASE FromOld(notifier[n], notifier'[n])
  <2>1. \E j \in 1..Len(Callbacks(n)) : TRUE
    BY <1>2, <1>3 DEF FromOld, Callbacks
  <2> QED
    BY <2>1
<1>4. CASE target.pc = "after" /\ ForEachCallback(n)
  <2>1. PICK s : Replaced(n, s) /\ SameTokens(notifier[n], s)
    BY <1>4, ForEachTokens
  <2>2. Callbacks(n)' = s.callbacks /\ Len(s.callbacks) = Len(Callbacks(n))
    BY <2>1, ReplacedFacts DEF SameTokens, Callbacks
  <2> QED
    BY <1>2, <2>2
<1> QED
  BY <1>3, <1>4, CallbackOrigin

\* The worker takes the notifiers to the latest version only.
HeldOne(n) ==
    /\ notifier[n].has_run => notifier[n].ver = version
    /\ Busy(n) => worker.ver = version

\* The worker, with notifiers that are held.
LEMMA HeldWorker ==
    ASSUME Typed, Opened, Abreast, Worker, NEW n \in Notifier, notifier[n].alive, HeldOne(n)
    PROVE  HeldOne(n)'
<1>0. version' = version
  BY DEF Worker, RunAsyncNotifiers, RunToSkipVersion, RunToVersion, file
<1>1. CASE RunAsyncNotifiers
  <2>1. Moved(notifier[n], notifier'[n], Promoted(notifier[n]))
    BY <1>1, RunSteps
  <2>2. PICK skip : GivesUp \/ Starts(skip)
    BY <1>1, RunSteps
  <2>3. worker' = worker \/ worker'.ver = version
    BY <2>2 DEF GivesUp, Starts
  <2> QED
    BY <1>0, <2>1, <2>3 DEF HeldOne, Busy, Moved
<1>2. CASE RunToSkipVersion
  <2>1. /\ worker.pc = "skip" /\ worker.skip > 0 /\ worker'.ver = worker.ver
        /\ worker'.old = worker.old /\ worker'.new = worker.new
    BY <1>2 DEF RunToSkipVersion, Typed, WorkerRec
  <2>2. CASE n \in worker.old
    <3>1. notifier'[n].ver = worker.skip
      BY <1>2, <2>1, <2>2, SkipSteps DEF Reached
    <3>2. worker.ver = version /\ notifier[n].ver = version
      BY <2>2 DEF HeldOne, Busy, Opened
    <3>3. version <= worker.skip /\ worker.skip <= version
      BY <2>1, <2>2, <3>2, VersionNat DEF Abreast
    <3>4. worker.skip = version
      BY <3>3, VersionNat
    <3> QED
      BY <1>0, <2>1, <3>1, <3>2, <3>4 DEF HeldOne, Busy
  <2>3. CASE n \notin worker.old
    <3>1. notifier'[n] = notifier[n]
      BY <1>2, <2>1, <2>3, SkipSteps
    <3> QED
      BY <1>0, <2>1, <3>1 DEF HeldOne, Busy
  <2> QED
    BY <2>2, <2>3
<1>3. CASE RunToVersion
  <2>1. worker.pc = "final" /\ worker.ver > 0 /\ worker' = Resting
    BY <1>3 DEF RunToVersion, Typed
  <2>2. ~Busy(n)'
    BY <2>1 DEF Busy, Resting
  <2>3. CASE Busy(n)
    <3>1. notifier'[n].ver = worker.ver
      BY <1>3, <2>1, <2>3, FinalSteps DEF Reached, Busy
    <3> QED
      BY <1>0, <2>2, <2>3, <3>1 DEF HeldOne
  <2>4. CASE ~Busy(n)
    <3>1. notifier'[n].ver = notifier[n].ver /\ notifier'[n].has_run = notifier[n].has_run
      BY <1>3, <2>1, <2>4, FinalSteps DEF Moved, Busy
    <3> QED
      BY <1>0, <2>2, <3>1 DEF HeldOne
  <2> QED
    BY <2>3, <2>4
<1> QED
  BY <1>1, <1>2, <1>3 DEF Worker

\* The write lock holds the notifiers at the latest version.
LEMMA HeldNext ==
    ASSUME Plain, Typed, Thread, ErrIsAsync, Opened, Abreast, Listing, Held, [Next]_vars
    PROVE  Held'
<1> SUFFICES ASSUME writing', target'.pc \in {"before", "after", "idle"},
                    NEW n \in Notifier, notifier'[n].alive,
                    Callbacks(n)' # <<>> \/ target'.list # {}
             PROVE  HeldOne(n)'
  BY DEF Held, HeldOne
<1>1. Opened'
  BY OpenedNext
<1>2. CASE async_error'
  <2>1. ~notifier'[n].has_run
    BY <1>1, <1>2 DEF Opened, Running
  <2>2. worker' = Resting
    BY <1>1, <1>2 DEF Opened, Running
  <2>3. ~Busy(n)'
    BY <2>2 DEF Busy, Resting
  <2> QED
    BY <2>1, <2>3 DEF HeldOne
<1>3. CASE async_error
  BY <1>2, <1>3, AsyncStays
<1> SUFFICES ASSUME ~async_error PROVE HeldOne(n)'
  BY <1>3
<1>4. Callbacks(n)' # <<>> => Callbacks(n) # <<>> \/ (target.call # nil /\ target.list # {})
  <2>1. ASSUME AddCallback(n) PROVE target.call # nil /\ target.list # {}
    <3>1. UserCode /\ writing' = writing
      BY <2>1 DEF AddCallback, file
    <3>2. target.call # nil
      BY <3>1 DEF UserCode
    <3> QED
      BY <3>2 DEF Thread
  <2> QED
    BY <2>1, CallbacksOrigin
<1>5. CASE Aside /\ UNCHANGED target
  <2>1. AsideKeeps
    BY <1>5, AsideFacts
  <2>2. writing /\ version' = version
    BY <2>1 DEF AsideKeeps
  <2>3. CASE Registers(n)
    <3>1. ~notifier'[n].has_run /\ worker' = worker /\ notifier[n].ver = 0
      BY <2>3 DEF Registers
    <3>2. ~Busy(n)'
      BY <3>1 DEF Opened, Busy
    <3> QED
      BY <3>1, <3>2 DEF HeldOne
  <2>4. CASE ~Registers(n)
    <3>1. notifier[n].alive
      BY <2>1, <2>4 DEF AsideKeeps
    <3>2. HeldOne(n)
      BY <1>4, <1>5, <2>2, <3>1 DEF Held, HeldOne
    <3>3. CASE Worker
      BY <3>1, <3>2, <3>3, HeldWorker
    <3>4. CASE Settled
      BY <2>2, <3>2, <3>4 DEF Settled, Lives, HeldOne, Busy
    <3>5. CASE \E m \in Notifier : Registers(m) \/ Drops(m)
      <4>1. PICK m \in Notifier : Registers(m) \/ Drops(m)
        BY <3>5
      <4>2. notifier'[n] = notifier[n] /\ worker' = worker
        BY <2>4, <4>1 DEF Registers, Drops
      <4> QED
        BY <2>2, <3>2, <4>2 DEF HeldOne, Busy
    <3> QED
      BY <3>3, <3>4, <3>5, LifeSteps DEF Worker
  <2> QED
    BY <2>3, <2>4
<1>6. CASE \E op, want : Begins(op, want)
  BY <1>6 DEF Begins
<1>7. CASE AsyncPasses \/ AsyncFails
  BY <1>7 DEF AsyncPasses, AsyncFails
<1>8. CASE \E w, list, pc : PackagesTo(w, list, pc)
  <2>1. PICK w, list, pc : PackagesTo(w, list, pc)
    BY <1>8
  <2>2. /\ target.pc = "package" /\ PackagedAll(PackRan)
        /\ UNCHANGED <<version, writing, worker>>
    BY <2>1 DEF PackagesTo
  <2>3. /\ notifier[n].alive /\ notifier'[n].has_run = notifier[n].has_run
        /\ notifier'[n].ver = notifier[n].ver
    BY <2>2, PackagedLives DEF Lives
  <2>4. n \in target.list /\ target.want = version
    BY <2>2, <2>3 DEF Listing
  <2>5. /\ version \in Nat /\ version > 0 /\ worker.ver \in Nat /\ worker.ver <= version
        /\ \A m \in Notifier : notifier[m].ver \in Nat /\ notifier[m].ver <= version
    BY VersionNat
  <2>6. CASE Callbacks(n) # <<>>
    <3>1. notifier[n].has_run /\ notifier[n].ver >= version
      BY <2>1, <2>4, <2>5, <2>6, PackWaited
    <3>2. notifier[n].ver = version
      BY <2>5, <3>1
    <3>3. Busy(n) => worker.ver = version
      BY <2>5, <3>2 DEF Abreast
    <3> QED
      BY <2>2, <2>3, <3>2, <3>3 DEF HeldOne, Busy
  <2>7. CASE target'.list # {}
    <3>1. /\ list = PackRan /\ PackRan # {} /\ w \in 0..version
          /\ w = 0 \/ w >= target.want
      BY <2>1, <2>7 DEF PackagesTo, Idle
    <3>2. /\ \A m \in PackRan : Ran(m) /\ notifier[m].ver = w
          /\ \E v \in Nat : v > 0 /\ \A m \in PackRan : notifier[m].ver = v
      BY <2>1, <3>1, PackVersion
    <3>3. w = version
      BY <2>4, <2>5, <3>1, <3>2
    <3>4. notifier[n].has_run => notifier[n].ver = version
      BY <2>4, <3>2, <3>3 DEF PackRan
    <3>5. ASSUME Busy(n) PROVE worker.ver = version
      <4>1. worker.pc # "idle"
        BY <3>5 DEF Opened, Busy, Resting
      <4>2. PICK m \in PackRan : Ran(m) /\ notifier[m].ver = version
        BY <3>1, <3>2, <3>3
      <4>3. m \in Notifier
        BY DEF PackRan, Typed, TargetRec
      <4>4. notifier[m].ver <= worker.ver
        BY <4>1, <4>2, <4>3 DEF Abreast, Busy
      <4> QED
        BY <2>5, <4>2, <4>4
    <3> QED
      BY <2>2, <2>3, <3>4, <3>5 DEF HeldOne, Busy
  <2> QED
    BY <1>4, <2>2, <2>6, <2>7 DEF Thread
<1>9. CASE Advances \/ Ends
  <2>1. target.pc # "error" /\ target.pc # "advance"
    BY DEF Thread, ErrIsAsync
  <2>2. /\ target.pc \in {"before", "after"} /\ UNCHANGED <<version, writing, notifier, worker>>
        /\ target'.list = target.list \/ target'.list = {}
    <3>1. CASE Advances
      BY <2>1, <3>1 DEF Advances
    <3>2. CASE Ends
      <4>1. target'.list = {}
        BY <3>2 DEF Ends, Idle
      <4> QED
        BY <2>1, <3>2, <4>1 DEF Ends
    <3> QED
      BY <1>9, <3>1, <3>2
  <2>3. Callbacks(n) # <<>> \/ target.list # {}
    BY <2>2 DEF Callbacks
  <2>4. HeldOne(n)
    BY <2>2, <2>3 DEF Held, HeldOne
  <2> QED
    BY <2>2, <2>4 DEF HeldOne, Busy
<1>10. CASE Returns \/ \E m \in Notifier : Passes(m)
  <2>1. /\ target.pc = target'.pc /\ target'.list = target.list
        /\ UNCHANGED <<version, writing, worker>>
    BY <1>10 DEF Returns, Passes
  <2>2. Lives(notifier[n], notifier'[n])
    <3>1. CASE Returns
      <4>1. UNCHANGED notifier
        BY <2>1, <3>1 DEF Returns
      <4> QED
        BY <4>1 DEF Lives
    <3> QED
      BY <1>10, <3>1, PassLives
  <2>3. HeldOne(n)
    BY <1>4, <2>1, <2>2 DEF Held, HeldOne, Lives
  <2> QED
    BY <2>1, <2>2, <2>3 DEF HeldOne, Busy, Lives
<1> QED
  BY <1>5, <1>6, <1>7, <1>8, <1>9, <1>10, ThreadSteps

----------------------------------------------------------------------------
(* The changes of a callback add up.                                        *)

\* c is a callback of n.
Has(n, c) == \E i \in 1..Len(Callbacks(n)) : c = Callbacks(n)[i]

\* The changes are those that c is to be told of the versions after v and up to w.
Exact(c, v, changes, w) ==
    /\ changes \subseteq Between(v, w)
    /\ Between(v, w) \subseteq changes \cup c.hidden

\* The package of n is being delivered.
Packed(n) ==
    \/ target.pc = "before" /\ n \in target.list
    \/ target.pc = "after" /\ (n \in target.left \/ n = target.cur)

\* The changes of c add up: those to deliver from its last call to the version of the
\* package, the accumulated ones from there to the version of its notifier.
Accounts(n, c) ==
    /\ c.token \in notifier[n].fresh => ~c.initial
    /\ ~Packed(n) /\ notifier[n].alive /\ c.initial =>
         c.todo = {} /\ c.at <= notifier[n].ver /\ Exact(c, c.at, c.acc, notifier[n].ver)
    /\ Packed(n) /\ c.token \notin notifier[n].fresh =>
         /\ c.initial => c.at <= target.ver /\ Exact(c, c.at, c.todo, target.ver)
         /\ notifier[n].alive => Exact(c, target.ver, c.acc, notifier[n].ver)

\* The Realm is ahead of a notifier by its own last transaction at most, and then
\* nothing has been accumulated; nor is there anything in a transaction.
Calm(n, c) ==
    notifier[n].alive /\ c.initial =>
        /\ read - 1 <= notifier[n].ver
        /\ notifier[n].ver < read => c.acc = {}
        /\ writing /\ target.pc \in {"before", "after", "idle"} => c.acc = {}

\* The next version the worker hands over.
SkipTo ==
    IF worker.pc = "idle" THEN skip_version
    ELSE IF worker.pc = "skip" THEN worker.skip ELSE worker.ver

\* The transaction about to be committed is hidden from c.
Hiding(c) == suppressing /\ version + 1 \in c.hidden

\* A callback that skips its next changes skips what was committed without notifying
\* it, and no more, or is to skip the transaction about to be committed.
Skipping(n, c) ==
    Ran(n) /\ c.skip =>
        \/ SkipTo > 0 /\ Between(notifier[n].ver, SkipTo) \subseteq c.hidden
        \/ Hiding(c)

Fine(n, c) == Accounts(n, c) /\ Calm(n, c) /\ Skipping(n, c)

AllFine == \A n \in Notifier : \A c \in CallbackRec : Has(n, c) => Fine(n, c)

\* The callbacks the pass after the advance has gone by have been called.
GoneBy ==
    \A n \in Notifier : target.pc = "after" /\ target.cur = n =>
        \A i \in 1..Len(Callbacks(n)) :
            i <= notifier[n].index => Callbacks(n)[i].todo = {} /\ Callbacks(n)[i].initial

----------------------------------------------------------------------------
\* The file stays, or grows by a transaction.
Grows == changed' = changed \/ changed' = changed \cup {version + 1}

\* The next transaction is beyond the versions so far.
LEMMA BetweenKept ==
    ASSUME Typed, Grows, NEW v, NEW w \in Nat, w <= version
    PROVE  Between(v, w)' = Between(v, w)
<1>1. version \in Nat /\ ~(version + 1 <= w)
  BY VersionNat
<1>2. Between(v, w)' = {x \in changed' : v < x /\ x <= w}
  BY DEF Between
<1> QED
  BY <1>1, <1>2 DEF Between, Grows

\* So what was exact stays exact.
LEMMA ExactKept ==
    ASSUME Typed, Grows, NEW c, NEW v, NEW x, NEW w \in Nat, w <= version
    PROVE  Exact(c, v, x, w)' <=> Exact(c, v, x, w)
<1>1. Between(v, w)' = Between(v, w)
  BY BetweenKept
<1> QED
  BY <1>1 DEF Exact

\* The next version is one of the file.
LEMMA SkipToNat ==
    ASSUME Typed
    PROVE  SkipTo \in Nat /\ SkipTo <= version /\ (worker.pc # "idle" => SkipTo > 0)
<1>1. worker.pc \in {"idle", "skip", "final"}
  BY DEF Typed, WorkerRec
<1>2. /\ worker.pc # "idle" => worker.ver > 0
      /\ worker.pc = "skip" => worker.skip > 0
  BY DEF Typed
<1> QED
  BY <1>1, <1>2, VersionNat DEF SkipTo

\* A callback that stays, of a notifier whose version and package stay.
LEMMA AccountsKept ==
    ASSUME Typed, Grows, NEW n \in Notifier, NEW c, Accounts(n, c),
           notifier'[n].alive => notifier[n].alive, notifier'[n].ver = notifier[n].ver,
           c.token \in notifier'[n].fresh <=> c.token \in notifier[n].fresh,
           Packed(n)' <=> Packed(n), Packed(n) => target'.ver = target.ver
    PROVE  Accounts(n, c)'
<1> DEFINE v == notifier[n].ver
           t == target.ver
<1>1. v \in Nat /\ v <= version /\ t \in Nat /\ t <= version
  BY VersionNat
<1>2. PICK w \in Nat : w = v
  BY <1>1
<1>3. PICK u \in Nat : u = t
  BY <1>1
<1>4. \A y, x : Exact(c, y, x, w)' <=> Exact(c, y, x, w)
  BY <1>1, <1>2, ExactKept
<1>5. \A y, x : Exact(c, y, x, u)' <=> Exact(c, y, x, u)
  BY <1>1, <1>3, ExactKept
<1>6. c.token \in notifier'[n].fresh => ~c.initial
  BY DEF Accounts
<1>7. ASSUME ~Packed(n), notifier'[n].alive, c.initial
      PROVE  c.todo = {} /\ c.at <= w /\ Exact(c, c.at, c.acc, w)'
  BY <1>2, <1>4, <1>7 DEF Accounts
<1>8. ASSUME Packed(n), c.token \notin notifier'[n].fresh
      PROVE  /\ c.initial => c.at <= u /\ Exact(c, c.at, c.todo, u)'
             /\ notifier'[n].alive => Exact(c, u, c.acc, w)'
  BY <1>2, <1>3, <1>4, <1>5, <1>8 DEF Accounts
<1>9. notifier'[n].ver = w /\ (Packed(n) => target'.ver = u)
  BY <1>2, <1>3
<1> HIDE DEF v, t
<1> QED
  BY <1>6, <1>7, <1>8, <1>9 DEF Accounts, Exact, Between

\* And one whose Realm stays at its version.
LEMMA CalmKept ==
    ASSUME NEW n \in Notifier, NEW c, Calm(n, c),
           notifier'[n].alive => notifier[n].alive, notifier'[n].ver = notifier[n].ver,
           read' = read,
           writing' /\ target'.pc \in {"before", "after", "idle"} =>
             writing /\ target.pc \in {"before", "after", "idle"}
    PROVE  Calm(n, c)'
BY DEF Calm

\* And one whose worker has the same version ahead.
LEMMA SkippingKept ==
    ASSUME Typed, Grows, StillHiding, NEW n \in Notifier, NEW c, Skipping(n, c),
           Ran(n)' => Ran(n), notifier'[n].ver = notifier[n].ver, SkipTo' = SkipTo
    PROVE  Skipping(n, c)'
<1>1. SkipTo \in Nat /\ SkipTo <= version
  BY SkipToNat
<1>2. PICK w \in Nat : w = SkipTo
  BY <1>1
<1>3. PICK v : v = notifier[n].ver
  OBVIOUS
<1>4. Between(v, w)' = Between(v, w)
  BY <1>1, <1>2, BetweenKept
<1>5. Ran(n) /\ c.skip => (w > 0 /\ Between(v, w) \subseteq c.hidden) \/ Hiding(c)
  BY <1>2, <1>3 DEF Skipping
<1>6. SkipTo' = w /\ notifier'[n].ver = v
  BY <1>2, <1>3
<1>7. Hiding(c) => Hiding(c)'
  BY DEF Hiding, StillHiding
<1> QED
  BY <1>4, <1>5, <1>6, <1>7 DEF Skipping, Between

\* What the proof about the callbacks rests on.
Ground ==
    /\ Delivery /\ Suppression /\ ErrIsAsync /\ Opened /\ Abreast
    /\ Listing /\ Carried /\ InitialRan /\ Reaches /\ Held

\* Every step keeps it.
LEMMA GroundNext ==
    ASSUME Plain, Ground, [Next]_vars
    PROVE  Ground'
<1>1. KeepsFresh
  BY DEF Plain, KeepsFresh
<1>2. Typed /\ Thread /\ Delivery
  BY DEF Ground, Delivery
<1>3. Delivery'
  BY <1>1, <1>2, DeliveryNext
<1>4. Suppression' /\ ErrIsAsync' /\ Opened' /\ Abreast'
  BY <1>2, HidingNext, ErrNext, OpenedNext, AbreastNext DEF Ground
<1>5. Listing' /\ Carried' /\ InitialRan'
  BY <1>2, ListingNext, CarriedNext, InitialNext DEF Ground
<1>6. Reaches' /\ Held'
  BY <1>2, ReachesNext, HeldNext DEF Ground
<1> QED
  BY <1>3, <1>4, <1>5, <1>6 DEF Ground

\* A package that is being delivered holds the notifier, which has run.
LEMMA PackedRan ==
    ASSUME Ground, NEW n \in Notifier, Packed(n)
    PROVE  /\ n \in target.list /\ target.pc \in {"before", "after"} /\ Delivering(n)
           /\ notifier[n].has_run /\ target.ver > 0 /\ target.ver <= notifier[n].ver
           /\ target.pc = "after" => read = target.ver
           /\ writing => target.ver = version
<1>1. n # nil /\ Thread /\ Carried
  BY NotifierAssumption DEF Ground, Delivery
<1>2. n \in target.list /\ target.pc \in {"before", "after"} /\ Delivering(n)
  BY <1>1 DEF Packed, Thread, Delivering
<1> QED
  BY <1>1, <1>2 DEF Carried

\* After an error nothing has been called and nothing is packed.
LEMMA FineErr ==
    ASSUME Ground', async_error', NEW n \in Notifier, NEW c, Has(n, c)'
    PROVE  Fine(n, c)'
<1>1. ~notifier'[n].has_run
  BY DEF Ground, Opened, Running
<1>2. ~c.initial
  <2>1. Has(n, c)' /\ c.initial => HasInitial(n)'
    BY DEF Has, HasInitial
  <2> QED
    BY <1>1, <2>1 DEF Ground, InitialRan
<1>3. n # nil /\ Thread' /\ Carried'
  BY NotifierAssumption DEF Ground, Delivery
<1>4. Packed(n)' => n \in target'.list /\ target'.pc \in {"before", "after"}
  BY <1>3 DEF Packed, Thread
<1>5. ~Packed(n)'
  BY <1>1, <1>3, <1>4 DEF Carried
<1>6. ~Ran(n)'
  BY <1>1 DEF Ran
<1> QED
  BY <1>2, <1>5, <1>6 DEF Fine, Accounts, Calm, Skipping

\* A callback that stays, of a notifier that does.
LEMMA FineStill ==
    ASSUME Ground, AllFine, StillHiding, Grows, NEW n \in Notifier, NEW c \in CallbackRec, Has(n, c),
           notifier'[n].alive => notifier[n].alive, notifier'[n].ver = notifier[n].ver,
           notifier'[n].has_run = notifier[n].has_run,
           c.token \in notifier'[n].fresh <=> c.token \in notifier[n].fresh,
           UNCHANGED <<read, target, worker, skip_version>>, writing' => writing
    PROVE  Fine(n, c)'
<1>1. Typed /\ Accounts(n, c) /\ Calm(n, c) /\ Skipping(n, c)
  BY DEF Ground, Delivery, AllFine, Fine
<1>2. (Packed(n)' <=> Packed(n)) /\ target'.ver = target.ver
  BY DEF Packed
<1>3. Accounts(n, c)'
  BY <1>1, <1>2, AccountsKept
<1>4. Calm(n, c)'
  BY <1>1, CalmKept
<1>5. SkipTo' = SkipTo /\ (Ran(n)' => Ran(n))
  BY DEF SkipTo, Ran
<1>6. Skipping(n, c)'
  BY <1>1, <1>5, SkippingKept
<1> QED
  BY <1>3, <1>4, <1>6 DEF Fine

\* The other notifiers keep their callbacks.
LEMMA HasOther ==
    ASSUME Typed, NEW m \in Notifier, NEW s, Replaced(m, s), NEW n \in Notifier, n # m, NEW c
    PROVE  notifier'[n] = notifier[n] /\ (Has(n, c)' <=> Has(n, c))
<1>1. notifier'[n] = notifier[n]
  BY ReplacedFacts
<1> QED
  BY <1>1 DEF Has, Callbacks

\* register_notifier: no callbacks yet.
LEMMA FineRegister ==
    ASSUME Ground, AllFine, StillHiding, NEW m \in Notifier, Registers(m),
           NEW n \in Notifier, NEW c \in CallbackRec, Has(n, c)'
    PROVE  Fine(n, c)'
<1>1. n # m /\ notifier'[n] = notifier[n]
  <2>1. Callbacks(m)' = <<>>
    BY DEF Registers, Callbacks
  <2>2. n # m
    BY <2>1 DEF Has
  <2> QED
    BY <2>2 DEF Registers
<1>2. Has(n, c)
  BY <1>1 DEF Has, Callbacks
<1>3. UNCHANGED <<read, target, worker, skip_version, writing, changed>>
  BY DEF Registers
<1> QED
  BY <1>1, <1>2, <1>3, FineStill DEF Grows

\* A collection goes.
LEMMA FineDrop ==
    ASSUME Ground, AllFine, StillHiding, NEW m \in Notifier, Drops(m),
           NEW n \in Notifier, NEW c \in CallbackRec, Has(n, c)'
    PROVE  Fine(n, c)'
<1>1. /\ notifier'[n].callbacks = notifier[n].callbacks /\ notifier'[n].fresh = notifier[n].fresh
      /\ notifier'[n].alive => notifier[n].alive
      /\ notifier'[n].ver = notifier[n].ver /\ notifier'[n].has_run = notifier[n].has_run
  BY DEF Drops
<1>2. Has(n, c)
  BY <1>1 DEF Has, Callbacks
<1>3. UNCHANGED <<read, target, worker, skip_version, writing, changed>>
  BY DEF Drops
<1> QED
  BY <1>1, <1>2, <1>3, FineStill DEF Grows

\* add_callback: the new one is fresh, the others are older.
LEMMA FineAdd ==
    ASSUME Ground, AllFine, StillHiding, NEW m \in Notifier, AddCallback(m),
           NEW n \in Notifier, NEW c \in CallbackRec, Has(n, c)'
    PROVE  Fine(n, c)'
<1>1. Typed /\ AllOrdered /\ Thread
  BY DEF Ground, Delivery
<1>2. PICK s : /\ Replaced(m, s)
               /\ s.alive = notifier[m].alive
               /\ s.ver = notifier[m].ver /\ s.has_run = notifier[m].has_run
               /\ s.next = notifier[m].next + 1
               /\ s.fresh = notifier[m].fresh \cup {s.next}
               /\ Len(s.callbacks) = Len(Callbacks(m)) + 1
               /\ \A i \in 1..Len(Callbacks(m)) : s.callbacks[i] = Callbacks(m)[i]
               /\ LET d == s.callbacks[Len(Callbacks(m)) + 1]
                  IN  d.token = s.next /\ ~d.initial /\ ~d.skip
  BY <1>1, AddSteps
<1>3. UNCHANGED <<read, target, worker, skip_version, writing, changed>>
  BY DEF AddCallback, file
<1>4. CASE n # m
  BY <1>1, <1>2, <1>3, <1>4, HasOther, FineStill DEF Grows
<1>5. CASE n = m
  <2>1. notifier'[n] = s
    BY <1>1, <1>2, <1>5, ReplacedFacts
  <2>2. PICK i \in 1..Len(s.callbacks) : c = s.callbacks[i]
    BY <2>1 DEF Has, Callbacks
  <2>3. Len(Callbacks(n)) \in Nat /\ notifier[n].next \in Nat
    BY <1>1, SoundAll
  <2>4. CASE i = Len(Callbacks(n)) + 1
    <3>1. ~c.initial /\ ~c.skip /\ c.token \in notifier'[n].fresh
      BY <1>2, <1>5, <2>1, <2>2, <2>4
    <3> QED
      BY <3>1 DEF Fine, Accounts, Calm, Skipping
  <2>5. CASE i # Len(Callbacks(n)) + 1
    <3>1. i \in 1..Len(Callbacks(n)) /\ c = Callbacks(n)[i]
      BY <1>2, <1>5, <2>2, <2>3, <2>5
    <3>2. Has(n, c)
      BY <3>1 DEF Has
    <3>3. c.token <= notifier[n].next /\ c.token \in Nat
      BY <1>1, <3>1 DEF AllOrdered, Ordered, Callbacks, CallbackRec
    <3>4. c.token \in notifier'[n].fresh <=> c.token \in notifier[n].fresh
      BY <1>2, <1>5, <2>1, <2>3, <3>3
    <3>5. /\ notifier'[n].alive = notifier[n].alive /\ notifier'[n].ver = notifier[n].ver
          /\ notifier'[n].has_run = notifier[n].has_run
      BY <1>2, <1>5, <2>1
    <3> QED
      BY <1>3, <3>2, <3>4, <3>5, FineStill DEF Grows
  <2> QED
    BY <2>4, <2>5
<1> QED
  BY <1>4, <1>5

\* remove_callback: those that stay have been there.
LEMMA FineRemove ==
    ASSUME Ground, AllFine, StillHiding, NEW m \in Notifier, NEW k \in Tokens(notifier[m]),
           notifier' = [notifier EXCEPT ![m] = Removed(@, k)],
           UNCHANGED <<read, target, worker, skip_version, writing, changed>>,
           NEW n \in Notifier, NEW c \in CallbackRec, Has(n, c)'
    PROVE  Fine(n, c)'
<1>1. Typed
  BY DEF Ground, Delivery
<1>2. PICK s : \E p \in 1..Len(Callbacks(m)) : Replaced(m, s) /\ RemovedAt(notifier[m], s, p)
  BY <1>1, RemoveSteps
<1>3. PICK p \in 1..Len(Callbacks(m)) : Replaced(m, s) /\ RemovedAt(notifier[m], s, p)
  BY <1>2
<1>4. CASE n # m
  BY <1>1, <1>3, <1>4, HasOther, FineStill DEF Grows
<1>5. CASE n = m
  <2>1. notifier'[n] = s /\ Len(Callbacks(n)) \in Nat
    BY <1>1, <1>3, <1>5, ReplacedFacts, SoundAll
  <2>2. PICK i \in 1..Len(s.callbacks) : c = s.callbacks[i]
    BY <2>1 DEF Has, Callbacks
  <2>3. /\ s.callbacks[i] = IF i < p THEN Callbacks(n)[i] ELSE Callbacks(n)[i + 1]
        /\ Len(s.callbacks) = Len(Callbacks(n)) - 1
    BY <1>3, <1>5 DEF RemovedAt, Callbacks
  <2>4. i \in 1..Len(Callbacks(n)) /\ i + 1 \in 1..Len(Callbacks(n))
    BY <2>1, <2>3
  <2>5. Has(n, c)
    BY <2>2, <2>3, <2>4 DEF Has
  <2>6. /\ notifier'[n].alive = notifier[n].alive /\ notifier'[n].ver = notifier[n].ver
        /\ notifier'[n].has_run = notifier[n].has_run /\ notifier'[n].fresh = notifier[n].fresh
    BY <1>3, <1>5, <2>1 DEF RemovedAt, Kept
  <2> QED
    BY <2>5, <2>6, FineStill DEF Grows
<1> QED
  BY <1>4, <1>5

\* A notifier with a callback that was called has run.
LEMMA HasRan ==
    ASSUME Ground, NEW n \in Notifier, NEW c, Has(n, c)
    PROVE  Callbacks(n) # <<>> /\ (c.initial => notifier[n].has_run)
<1>1. Callbacks(n) # <<>>
  BY DEF Has
<1>2. c.initial => HasInitial(n)
  BY DEF Has, HasInitial
<1> QED
  BY <1>1, <1>2 DEF Ground, InitialRan

\* The Realm commits: a callback that is to skip the transaction has it hidden.
LEMMA FineCommitted ==
    ASSUME Ground, AllFine, target.pc = "idle", writing, CommitWrite, ~writing',
           UNCHANGED <<target, worker>>,
           NEW n \in Notifier, NEW c \in CallbackRec, Has(n, c),
           Lives(notifier[n], notifier'[n]), notifier'[n].fresh = notifier[n].fresh
    PROVE  Fine(n, c)'
<1>1. Typed /\ Fine(n, c) /\ Grows
  BY DEF Ground, Delivery, AllFine, CommitWrite, Grows
<1>2. /\ version' = version + 1 /\ read' = version + 1 /\ version \in Nat
      /\ notifier[n].ver \in Nat /\ notifier[n].ver <= version
  BY <1>1, VersionNat DEF CommitWrite
<1>3. /\ notifier'[n].alive = notifier[n].alive /\ notifier'[n].ver = notifier[n].ver
      /\ notifier'[n].has_run = notifier[n].has_run
  BY DEF Lives
<1>4. ~Packed(n) /\ ~Packed(n)'
  BY DEF Packed
<1>5. ASSUME Ran(n) PROVE notifier[n].ver = version
  BY <1>5, HasRan DEF Ground, Held, Ran
<1>6. Accounts(n, c)
  BY <1>1 DEF Fine
<1>7. Accounts(n, c)'
  BY <1>1, <1>3, <1>4, <1>6, AccountsKept
<1>8. Calm(n, c)'
  <2>1. ASSUME notifier[n].alive, c.initial
        PROVE  notifier[n].ver = version /\ c.acc = {}
    <3>1. Ran(n)
      BY <2>1, HasRan DEF Ran
    <3>2. c.acc = {}
      BY <1>1, <2>1 DEF Fine, Calm
    <3> QED
      BY <1>5, <3>1, <3>2
  <2>2. ASSUME notifier'[n].alive, c.initial
        PROVE  notifier'[n].ver = version /\ c.acc = {}
    BY <1>3, <2>1, <2>2
  <2>3. read' - 1 = version
    BY <1>2
  <2> QED
    BY <1>2, <2>2, <2>3 DEF Calm
<1>9. \A x \in changed' : x \in Nat
  <2>1. \A x \in changed : x \in Nat
    BY <1>1 DEF Typed
  <2> QED
    BY <1>1, <1>2, <2>1 DEF Grows
<1>10. ASSUME Ran(n)', c.skip
      PROVE  SkipTo' > 0 /\ Between(notifier[n].ver, SkipTo)' \subseteq c.hidden
  <2>1. Ran(n) /\ notifier'[n].ver = version /\ notifier[n].ver = version
    BY <1>3, <1>5, <1>10 DEF Ran
  <2>2. CASE worker.pc = "idle"
    <3>1. n \in In(notifier, "main") /\ notifier[n].alive
      <4>1. notifier[n].where \in {"none", "new", "main"}
        BY <1>1, SoundAll DEF NotifierRec
      <4> QED
        BY <2>1, <4>1 DEF In, Ran, Ground, Opened
    <3>2. skip_version' = version + 1
      BY <3>1, Zenon DEF CommitWrite
    <3>3. SkipTo' = version + 1 /\ SkipTo = skip_version
      BY <2>2, <3>2 DEF SkipTo
    <3>4. version + 1 \in c.hidden
      <4>1. skip_version > 0 \/ version + 1 \in c.hidden
        BY <1>1, <1>10, <2>1, <3>3 DEF Fine, Skipping, Hiding
      <4>2. skip_version > 0 => notifier[n].ver < skip_version
        BY <2>1 DEF Ground, Abreast
      <4>3. skip_version \in Nat /\ skip_version <= version
        BY <1>1, VersionNat
      <4> QED
        BY <1>2, <2>1, <4>1, <4>2, <4>3
    <3>7. Between(notifier[n].ver, SkipTo)' \subseteq {version + 1}
      BY <1>2, <1>9, <2>1, <3>3 DEF Between
    <3> QED
      BY <1>2, <3>3, <3>4, <3>7
  <2>3. CASE worker.pc # "idle"
    <3>1. SkipTo' = SkipTo /\ SkipTo \in Nat /\ SkipTo > 0 /\ SkipTo <= version
      BY <1>1, <2>3, SkipToNat DEF SkipTo
    <3>3. Between(notifier[n].ver, SkipTo)' = {}
      BY <1>2, <1>9, <2>1, <3>1 DEF Between
    <3> QED
      BY <3>1, <3>3
  <2> QED
    BY <2>2, <2>3
<1>11. Skipping(n, c)'
  BY <1>10 DEF Skipping
<1> QED
  BY <1>7, <1>8, <1>11 DEF Fine

\* Transactions end, and others commit.
LEMMA FineCommit ==
    ASSUME Ground, AllFine, StillHiding \/ Commit,
           Commit \/ CancelTransaction \/ OtherCommit \/
             UNCHANGED <<version, changed, read, writing, notifier, target, worker,
                         skip_version, told>>,
           NEW n \in Notifier, NEW c \in CallbackRec, Has(n, c)'
    PROVE  Fine(n, c)'
<1>1. notifier' = notifier /\ UNCHANGED <<target, worker>>
  BY DEF Commit, CancelTransaction, OtherCommit, coordinator
<1>2. Has(n, c) /\ Lives(notifier[n], notifier'[n])
  BY <1>1 DEF Has, Callbacks, Lives
<1>3. CASE Commit
  <2>1. target.pc = "idle" /\ writing /\ CommitWrite /\ ~writing'
    BY <1>3 DEF Commit
  <2> QED
    BY <1>1, <1>2, <2>1, FineCommitted
<1>4. CASE ~Commit
  <2>1. Grows /\ UNCHANGED <<read, skip_version>> /\ (writing' => writing)
    BY <1>4 DEF CancelTransaction, OtherCommit, Grows, coordinator
  <2>2. StillHiding
    BY <1>4
  <2> QED
    BY <1>1, <1>2, <2>1, <2>2, FineStill
<1> QED
  BY <1>3, <1>4

\* suppress_next_notification: the next transaction is hidden from one callback.
LEMMA FineSuppress ==
    ASSUME Ground, AllFine, NEW m \in Notifier, NEW k \in 1..MaxTokens,
           SuppressNextNotification(m, k),
           NEW n \in Notifier, NEW c \in CallbackRec, Has(n, c)'
    PROVE  Fine(n, c)'
<1>1. Typed
  BY DEF Ground, Delivery
<1>2. PICK s : \E p \in 1..Len(Callbacks(m)) :
             /\ Replaced(m, s) /\ Sound(s, version) /\ Kept(notifier[m], s)
             /\ s.index = notifier[m].index /\ s.count = notifier[m].count
             /\ s.fresh = notifier[m].fresh
             /\ Len(s.callbacks) = Len(Callbacks(m))
             /\ \A i \in 1..Len(Callbacks(m)) : i # p => s.callbacks[i] = Callbacks(m)[i]
             /\ LET a == Callbacks(m)[p]
                    d == s.callbacks[p]
                IN  /\ d.token = a.token /\ d.initial = a.initial /\ d.at = a.at
                    /\ d.todo = a.todo /\ d.acc = a.acc
                    /\ d.hidden = a.hidden \cup {version + 1}
  BY <1>1, SuppressSteps
<1>3. /\ UNCHANGED <<version, changed, read, writing, target, worker, skip_version>>
      /\ suppressing' /\ Grows /\ StillHiding
  BY DEF SuppressNextNotification, coordinator, Grows, StillHiding
<1>4. CASE n # m
  <2>1. notifier'[n] = notifier[n] /\ Has(n, c)
    BY <1>1, <1>2, <1>4, HasOther
  <2> QED
    BY <1>3, <2>1, FineStill
<1>5. CASE n = m
  <2>1. notifier'[n] = s /\ Lives(notifier[n], notifier'[n])
        /\ notifier'[n].fresh = notifier[n].fresh
    BY <1>1, <1>2, <1>5, ReplacedFacts DEF Kept, Lives
  <2>2. PICK i \in 1..Len(Callbacks(n)) : c = s.callbacks[i]
    BY <1>2, <1>5, <2>1 DEF Has, Callbacks
  <2>3. PICK b \in CallbackRec : b = Callbacks(n)[i]
    BY <1>1, <2>2, SoundAll
  <2>4. Has(n, b)
    BY <2>3 DEF Has
  <2>5. \/ c = b
        \/ /\ c.token = b.token /\ c.initial = b.initial /\ c.at = b.at
           /\ c.todo = b.todo /\ c.acc = b.acc /\ c.hidden = b.hidden \cup {version + 1}
    BY <1>2, <1>5, <2>2, <2>3
  <2>6. CASE c = b
    BY <1>3, <2>1, <2>4, <2>6, FineStill DEF Lives
  <2>7. CASE c # b
    <3>1. /\ c.token = b.token /\ c.initial = b.initial /\ c.at = b.at
          /\ c.todo = b.todo /\ c.acc = b.acc /\ b.hidden \subseteq c.hidden
          /\ version + 1 \in c.hidden
      BY <2>5, <2>7
    <3>2. Accounts(n, b) /\ Calm(n, b)
      BY <2>4 DEF AllFine, Fine
    <3>3. Accounts(n, c) /\ Calm(n, c)
      BY <3>1, <3>2 DEF Accounts, Calm, Exact
    <3>4. Packed(n)' <=> Packed(n)
      BY <1>3 DEF Packed
    <3>5. Accounts(n, c)'
      BY <1>1, <1>3, <2>1, <3>3, <3>4, AccountsKept DEF Lives
    <3>6. Calm(n, c)'
      BY <1>3, <2>1, <3>3, CalmKept DEF Lives
    <3>7. Skipping(n, c)'
      BY <1>3, <3>1 DEF Skipping, Hiding
    <3> QED
      BY <3>5, <3>6, <3>7 DEF Fine
  <2> QED
    BY <2>6, <2>7
<1> QED
  BY <1>4, <1>5

\* While a transaction is being committed without notifying, the notifiers that have run
\* are at the last version: the worker has nothing to add.
LEMMA HidingHeld ==
    ASSUME Ground, NEW n \in Notifier, NEW c, Has(n, c), Ran(n), Hiding(c),
           NEW v \in Nat, v <= version
    PROVE  Between(notifier[n].ver, v) = {}
<1>1. Typed /\ writing /\ target.pc = "idle"
  BY DEF Ground, Delivery, Suppression, Hiding
<1>2. notifier[n].ver = version
  BY <1>1, HasRan DEF Ground, Held, Ran
<1>3. version \in Nat /\ \A y \in changed : y \in Nat
  BY <1>1, VersionNat DEF Typed
<1> QED
  BY <1>2, <1>3 DEF Between

\* The changes of the versions handed over are added, or hidden.
LEMMA ExactMore ==
    ASSUME Typed, NEW b, NEW c, NEW x \in Nat, NEW v \in Nat, NEW w \in Nat,
           x <= v, v <= w, Exact(b, x, b.acc, v), More(b, c, Between(v, w)),
           b.skip => Between(v, w) \subseteq b.hidden
    PROVE  Exact(c, x, c.acc, w)
<1>1. \A y \in changed : y \in Nat
  BY DEF Typed
<1>2. Between(x, w) = Between(x, v) \cup Between(v, w)
  BY <1>1 DEF Between
<1>3. /\ c.hidden = b.hidden /\ b.acc \subseteq c.acc /\ c.acc \subseteq b.acc \cup Between(v, w)
      /\ Between(v, w) \subseteq c.acc \cup b.hidden
  BY DEF More
<1> QED
  BY <1>2, <1>3 DEF Exact

\* The worker has brought n, which has run, to version v.
LEMMA FineReached ==
    ASSUME Ground, AllFine, UNCHANGED <<changed, read, writing, target>>,
           NEW n \in Notifier, NEW b \in CallbackRec, NEW c \in CallbackRec, Has(n, b),
           notifier[n].has_run, NEW v \in Nat, notifier[n].ver <= v, v <= version,
           Ran(n) /\ b.skip => Between(notifier[n].ver, v) \subseteq b.hidden,
           More(b, c, Between(notifier[n].ver, v)),
           notifier'[n].alive = notifier[n].alive, notifier'[n].ver = v,
           notifier'[n].fresh = notifier[n].fresh
    PROVE  Fine(n, c)'
<1>1. Typed /\ Fine(n, b) /\ Grows
  BY DEF Ground, Delivery, AllFine, Grows
<1>2. PICK u \in Nat : u = notifier[n].ver
  BY <1>1, VersionNat
<1>3. PICK t \in Nat : t = target.ver
  BY <1>1, VersionNat
<1>4. (Packed(n)' <=> Packed(n)) /\ target'.ver = t /\ t <= version
  BY <1>1, <1>3, VersionNat DEF Packed
<1>5. /\ c.token = b.token /\ c.todo = b.todo /\ c.initial = b.initial
      /\ c.at = b.at /\ c.hidden = b.hidden /\ c.skip = FALSE /\ b.at \in Nat
  BY DEF More, CallbackRec
<1>6. ASSUME NEW x \in Nat, x <= u, notifier[n].alive, Exact(b, x, b.acc, u)
      PROVE  Exact(c, x, c.acc, v)'
  <2>1. b.skip => Between(u, v) \subseteq b.hidden
    BY <1>2, <1>6 DEF Ran
  <2>2. Exact(c, x, c.acc, v)
    BY <1>1, <1>2, <1>6, <2>1, ExactMore
  <2>3. PICK a : a = c.acc
    OBVIOUS
  <2>4. Exact(c, x, a, v)' <=> Exact(c, x, a, v)
    BY <1>1, ExactKept
  <2> QED
    BY <2>2, <2>3, <2>4
<1>7. ASSUME ~Packed(n), notifier[n].alive, c.initial
      PROVE  c.todo = {} /\ c.at <= v /\ Exact(c, c.at, c.acc, v)'
  <2>1. b.todo = {} /\ b.at <= u /\ Exact(b, b.at, b.acc, u)
    BY <1>1, <1>2, <1>5, <1>7 DEF Fine, Accounts
  <2>2. PICK x \in Nat : x = b.at
    BY <1>5
  <2>3. Exact(c, x, c.acc, v)'
    BY <1>6, <1>7, <2>1, <2>2
  <2> QED
    BY <1>2, <1>5, <2>1, <2>2, <2>3
<1>8. ASSUME Packed(n), c.token \notin notifier[n].fresh
      PROVE  /\ c.initial => c.at <= t /\ Exact(c, c.at, c.todo, t)'
             /\ notifier[n].alive => Exact(c, t, c.acc, v)'
  <2>1. /\ b.initial => b.at <= t /\ Exact(b, b.at, b.todo, t)
        /\ notifier[n].alive => Exact(b, t, b.acc, u)
    BY <1>1, <1>2, <1>3, <1>5, <1>8 DEF Fine, Accounts
  <2>2. t <= u
    BY <1>2, <1>3, <1>8, PackedRan
  <2>3. c.initial => Exact(c, c.at, c.todo, t)
    BY <1>5, <2>1 DEF Exact
  <2>4. \A x, y : Exact(c, x, y, t)' <=> Exact(c, x, y, t)
    BY <1>1, <1>4, ExactKept
  <2> QED
    BY <1>5, <1>6, <2>1, <2>2, <2>3, <2>4
<1>9. c.token \in notifier[n].fresh => ~c.initial
  BY <1>1, <1>5 DEF Fine, Accounts
<1>10. Accounts(n, c)'
  BY <1>4, <1>7, <1>8, <1>9 DEF Accounts
<1>11. Calm(n, c)'
  <2>1. ASSUME notifier[n].alive, c.initial
        PROVE  /\ read - 1 <= v
               /\ v < read => c.acc = {}
               /\ writing /\ target.pc \in {"before", "after", "idle"} => c.acc = {}
    <3>1. /\ read - 1 <= u /\ (u < read => b.acc = {})
          /\ writing /\ target.pc \in {"before", "after", "idle"} => b.acc = {}
      BY <1>1, <1>2, <1>5, <2>1 DEF Fine, Calm
    <3>2. read \in Nat /\ version \in Nat
      BY <1>1, VersionNat
    <3>3. c.acc \subseteq b.acc \cup Between(u, v)
      BY <1>2 DEF More
    <3>4. u = v => Between(u, v) = {}
      <4>1. \A y \in changed : y \in Nat
        BY <1>1 DEF Typed
      <4> QED
        BY <4>1 DEF Between
    <3>5. v < read => u = v /\ u < read
      BY <1>2, <3>1, <3>2
    <3>6. writing /\ target.pc \in {"before", "after", "idle"} => u = v
      <4>1. writing /\ target.pc \in {"before", "after", "idle"} => u = version
        BY <1>2, <2>1, HasRan DEF Ground, Held
      <4> QED
        BY <1>2, <3>2, <4>1
    <3> QED
      BY <1>2, <3>1, <3>2, <3>3, <3>4, <3>5, <3>6
  <2> QED
    BY <2>1 DEF Calm
<1>12. Skipping(n, c)'
  BY <1>5 DEF Skipping
<1> QED
  BY <1>10, <1>11, <1>12 DEF Fine

\* The worker has run n for the first time.
LEMMA FineFirst ==
    ASSUME Ground, AllFine, UNCHANGED <<changed, read, writing, target>>,
           NEW n \in Notifier, NEW b \in CallbackRec, NEW c \in CallbackRec, Has(n, b),
           ~notifier[n].has_run, NEW changes, More(b, c, changes),
           notifier'[n].fresh = notifier[n].fresh
    PROVE  Fine(n, c)'
<1>1. ~c.initial /\ ~c.skip
  BY HasRan DEF More
<1>2. ~Packed(n) /\ (Packed(n)' <=> Packed(n))
  BY PackedRan DEF Packed
<1> QED
  BY <1>1, <1>2 DEF Fine, Accounts, Calm, Skipping

\* The callbacks of a notifier that was handed over.
LEMMA HasReached ==
    ASSUME Typed, NEW n \in Notifier, NEW v, Reached(notifier[n], notifier'[n], v),
           NEW c, Has(n, c)'
    PROVE  \E b \in CallbackRec : Has(n, b) /\ More(b, c, Between(notifier[n].ver, v))
<1>1. PICK i \in 1..Len(Callbacks(n)') : c = Callbacks(n)'[i]
  BY DEF Has
<1>2. /\ i \in 1..Len(Callbacks(n))
      /\ More(Callbacks(n)[i], c, Between(notifier[n].ver, v))
  BY <1>1 DEF Reached, Callbacks
<1>3. Callbacks(n)[i] \in CallbackRec
  BY <1>2, SoundAll
<1> QED
  BY <1>2, <1>3 DEF Has

\* A notifier that is only moved between the lists.
LEMMA HasMoved ==
    ASSUME NEW n \in Notifier, NEW where, Moved(notifier[n], notifier'[n], where), NEW c
    PROVE  Has(n, c)' <=> Has(n, c)
BY DEF Moved, Has, Callbacks

\* A living notifier that has run is in the main list.
LEMMA RanIsLiving ==
    ASSUME Ground, NEW n \in Notifier, Ran(n)
    PROVE  n \in Living("main")
<1>1. notifier[n].where \in {"none", "new", "main"}
  BY SoundAll DEF Ground, Delivery, NotifierRec
<1> QED
  BY <1>1 DEF Ground, Opened, Ran, Living

\* The worker starts: the version it stops at is the one it was to.
LEMMA FineRun ==
    ASSUME Ground, AllFine, StillHiding, RunAsyncNotifiers,
           NEW n \in Notifier, NEW c \in CallbackRec, Has(n, c)'
    PROVE  Fine(n, c)'
<1>1. Typed /\ worker.pc = "idle" /\ UNCHANGED <<changed, read, writing, target>> /\ Grows
  BY DEF Ground, Delivery, RunAsyncNotifiers, file, Grows
<1>2. Moved(notifier[n], notifier'[n], Promoted(notifier[n]))
  BY <1>1, RunSteps
<1>3. Has(n, c)
  BY <1>2, HasMoved
<1>4. /\ notifier'[n].alive = notifier[n].alive /\ notifier'[n].ver = notifier[n].ver
      /\ notifier'[n].has_run = notifier[n].has_run /\ notifier'[n].fresh = notifier[n].fresh
  BY <1>2 DEF Moved
<1>5. Accounts(n, c) /\ Calm(n, c) /\ Skipping(n, c)
  BY <1>3 DEF AllFine, Fine
<1>6. (Packed(n)' <=> Packed(n)) /\ target'.ver = target.ver
  BY <1>1 DEF Packed
<1>7. Accounts(n, c)'
  BY <1>1, <1>4, <1>5, <1>6, AccountsKept
<1>8. Calm(n, c)'
  BY <1>1, <1>4, <1>5, CalmKept
<1>9. Ran(n)' <=> Ran(n)
  BY <1>4 DEF Ran
<1>10. CASE Ran(n) /\ c.skip /\ ~Hiding(c)
  <2>1. PICK skip : SkipOf(skip) /\ ((GivesUp /\ skip_version' = skip) \/ Starts(skip))
    BY <1>1, RunSteps
  <2>2. Living("main") # {}
    BY <1>10, RanIsLiving
  <2>3. skip = skip_version
    BY <2>1, <2>2 DEF SkipOf
  <2>4. SkipTo = skip_version /\ skip_version > 0
    BY <1>1, <1>5, <1>10 DEF Skipping, SkipTo
  <2>5. SkipTo' = skip_version
    <3>1. CASE GivesUp /\ skip_version' = skip
      BY <1>1, <2>3, <3>1 DEF SkipTo, GivesUp
    <3>2. CASE Starts(skip)
      <4>1. worker'.pc = "skip" /\ worker'.skip = skip_version
        BY <2>3, <2>4, <3>2 DEF Starts
      <4> QED
        BY <4>1 DEF SkipTo
    <3> QED
      BY <2>1, <3>1, <3>2
  <2>6. Skipping(n, c)'
    BY <1>1, <1>4, <1>5, <1>9, <2>4, <2>5, SkippingKept
  <2> QED
    BY <1>7, <1>8, <2>6 DEF Fine
<1>11. CASE ~(Ran(n) /\ c.skip)
  BY <1>7, <1>8, <1>9, <1>11 DEF Fine, Skipping
<1>12. CASE Hiding(c)
  <2>1. Hiding(c)'
    BY <1>12 DEF Hiding, StillHiding
  <2> QED
    BY <1>7, <1>8, <2>1 DEF Fine, Skipping
<1> QED
  BY <1>10, <1>11, <1>12

\* The worker stops at the version to be skipped.
LEMMA FineSkip ==
    ASSUME Ground, AllFine, RunToSkipVersion,
           NEW n \in Notifier, NEW c \in CallbackRec, Has(n, c)'
    PROVE  Fine(n, c)'
<1>1. Typed /\ Abreast /\ Opened /\ worker.pc = "skip" /\ worker.skip > 0
      /\ UNCHANGED <<changed, read, writing, target, skip_version>>
  BY DEF Ground, Delivery, RunToSkipVersion, file, Typed
<1>2. CASE n \in worker.old
  <2>1. Reached(notifier[n], notifier'[n], worker.skip)
    BY <1>1, <1>2, SkipSteps
  <2>2. PICK b \in CallbackRec :
             Has(n, b) /\ More(b, c, Between(notifier[n].ver, worker.skip))
    BY <1>1, <2>1, HasReached
  <2>3. PICK v \in Nat : v = worker.skip
    BY <1>1, VersionNat
  <2>4. notifier[n].has_run /\ notifier[n].ver <= v /\ v <= version
    BY <1>1, <1>2, <2>3, VersionNat DEF Opened, Abreast
  <2>5. SkipTo = v
    BY <1>1, <2>3 DEF SkipTo
  <2>6. Ran(n) /\ b.skip => Between(notifier[n].ver, v) \subseteq b.hidden
    <3>1. Ran(n) /\ Hiding(b) => Between(notifier[n].ver, v) = {}
      BY <2>2, <2>4, HidingHeld
    <3> QED
      BY <2>2, <2>5, <3>1 DEF AllFine, Fine, Skipping
  <2>7. /\ notifier'[n].alive = notifier[n].alive /\ notifier'[n].ver = v
        /\ notifier'[n].fresh = notifier[n].fresh
    BY <2>1, <2>3 DEF Reached
  <2>8. More(b, c, Between(notifier[n].ver, v))
    BY <2>2, <2>3
  <2> QED
    BY <1>1, <2>2, <2>4, <2>6, <2>7, <2>8, FineReached
<1>3. CASE n \notin worker.old
  <2>1. notifier'[n] = notifier[n]
    BY <1>1, <1>3, SkipSteps
  <2>2. Has(n, c)
    BY <2>1 DEF Has, Callbacks
  <2>3. ~Ran(n) /\ ~Ran(n)'
    BY <1>1, <1>3, <2>1 DEF Abreast, Ran
  <2>4. Accounts(n, c) /\ Calm(n, c)
    BY <2>2 DEF AllFine, Fine
  <2>5. (Packed(n)' <=> Packed(n)) /\ target'.ver = target.ver
    BY <1>1 DEF Packed
  <2>6. Accounts(n, c)'
    BY <1>1, <2>1, <2>4, <2>5, AccountsKept DEF Grows
  <2>7. Calm(n, c)'
    BY <1>1, <2>1, <2>4, CalmKept
  <2> QED
    BY <2>3, <2>6, <2>7 DEF Fine, Skipping
<1> QED
  BY <1>2, <1>3

\* The worker reaches its version.
LEMMA FineFinal ==
    ASSUME Ground, AllFine, RunToVersion,
           NEW n \in Notifier, NEW c \in CallbackRec, Has(n, c)'
    PROVE  Fine(n, c)'
<1>1. Typed /\ Abreast /\ Opened /\ worker.pc = "final" /\ worker.ver > 0
      /\ UNCHANGED <<changed, read, writing, target>>
  BY DEF Ground, Delivery, RunToVersion, file, Typed
<1>2. CASE Busy(n)
  <2>1. Reached(notifier[n], notifier'[n], worker.ver)
    BY <1>1, <1>2, FinalSteps DEF Busy
  <2>2. PICK b \in CallbackRec :
             Has(n, b) /\ More(b, c, Between(notifier[n].ver, worker.ver))
    BY <1>1, <2>1, HasReached
  <2>3. PICK v \in Nat : v = worker.ver
    BY <1>1, VersionNat
  <2>4. notifier[n].ver <= v /\ v <= version
    BY <1>1, <1>2, <2>3, VersionNat DEF Abreast
  <2>5. SkipTo = v
    BY <1>1, <2>3 DEF SkipTo
  <2>6. Ran(n) /\ b.skip => Between(notifier[n].ver, v) \subseteq b.hidden
    <3>1. Ran(n) /\ Hiding(b) => Between(notifier[n].ver, v) = {}
      BY <2>2, <2>4, HidingHeld
    <3> QED
      BY <2>2, <2>5, <3>1 DEF AllFine, Fine, Skipping
  <2>7. /\ notifier'[n].alive = notifier[n].alive /\ notifier'[n].ver = v
        /\ notifier'[n].fresh = notifier[n].fresh
    BY <2>1, <2>3 DEF Reached
  <2>8. More(b, c, Between(notifier[n].ver, v))
    BY <2>2, <2>3
  <2>9. CASE notifier[n].has_run
    BY <1>1, <2>2, <2>4, <2>6, <2>7, <2>8, <2>9, FineReached
  <2>10. CASE ~notifier[n].has_run
    BY <1>1, <2>2, <2>7, <2>8, <2>10, FineFirst
  <2> QED
    BY <2>9, <2>10
<1>3. CASE ~Busy(n)
  <2>1. Moved(notifier[n], notifier'[n], notifier'[n].where)
    BY <1>1, <1>3, FinalSteps DEF Busy
  <2>2. Has(n, c)
    BY <2>1, HasMoved
  <2>3. /\ notifier'[n].alive = notifier[n].alive /\ notifier'[n].ver = notifier[n].ver
        /\ notifier'[n].has_run = notifier[n].has_run /\ notifier'[n].fresh = notifier[n].fresh
    BY <2>1 DEF Moved
  <2>4. ~Ran(n)
    BY <1>1, <1>3 DEF Abreast, Busy
  <2>5. ~Ran(n)'
    BY <2>3, <2>4 DEF Ran
  <2>6. Accounts(n, c) /\ Calm(n, c)
    BY <2>2 DEF AllFine, Fine
  <2>7. (Packed(n)' <=> Packed(n)) /\ target'.ver = target.ver
    BY <1>1 DEF Packed
  <2>8. Accounts(n, c)'
    BY <1>1, <2>3, <2>6, <2>7, AccountsKept DEF Grows
  <2>9. Calm(n, c)'
    BY <1>1, <2>3, <2>6, CalmKept
  <2> QED
    BY <2>5, <2>8, <2>9 DEF Fine, Skipping
<1> QED
  BY <1>2, <1>3

\* The thread goes on; n and its package stay.
LEMMA FineThread ==
    ASSUME Ground, AllFine, StillHiding, UNCHANGED <<changed, read, worker, skip_version>>,
           NEW n \in Notifier, NEW c \in CallbackRec, Has(n, c),
           Lives(notifier[n], notifier'[n]), notifier'[n].fresh = notifier[n].fresh,
           Packed(n)' <=> Packed(n), Packed(n) => target'.ver = target.ver,
           writing' /\ target'.pc \in {"before", "after", "idle"} =>
             writing /\ target.pc \in {"before", "after", "idle"}
    PROVE  Fine(n, c)'
<1>1. Typed /\ Accounts(n, c) /\ Calm(n, c) /\ Skipping(n, c) /\ Grows
  BY DEF Ground, Delivery, AllFine, Fine, Grows
<1>2. /\ notifier'[n].alive = notifier[n].alive /\ notifier'[n].ver = notifier[n].ver
      /\ notifier'[n].has_run = notifier[n].has_run
  BY DEF Lives
<1>3. Accounts(n, c)'
  BY <1>1, <1>2, AccountsKept
<1>4. Calm(n, c)'
  BY <1>1, <1>2, CalmKept
<1>5. SkipTo' = SkipTo /\ (Ran(n)' => Ran(n))
  BY <1>2 DEF SkipTo, Ran
<1>6. Skipping(n, c)'
  BY <1>1, <1>2, <1>5, SkippingKept
<1> QED
  BY <1>3, <1>4, <1>6 DEF Fine

\* Deliveries begin and end, callbacks return: the notifiers stay.
LEMMA FineBegins ==
    ASSUME Ground, AllFine, StillHiding, ~async_error,
           (\E op, want : Begins(op, want)) \/ Ends \/ Returns,
           NEW n \in Notifier, NEW c \in CallbackRec, Has(n, c)'
    PROVE  Fine(n, c)'
<1>1. target.pc # "error" /\ n # nil /\ Thread
  BY NotifierAssumption DEF Ground, Delivery, Thread, ErrIsAsync
<1>2. CASE \E op, want : Begins(op, want)
  <2>1. /\ UNCHANGED <<changed, read, worker, skip_version, notifier>>
        /\ target.pc = "idle" /\ target'.pc \in {"advance", "package"}
    BY <1>2 DEF Begins
  <2>2. Has(n, c) /\ Lives(notifier[n], notifier'[n]) /\ ~Packed(n) /\ ~Packed(n)'
    BY <2>1 DEF Has, Callbacks, Lives, Packed
  <2> QED
    BY <2>1, <2>2, FineThread
<1>3. CASE Ends
  <2>1. /\ UNCHANGED <<changed, read, writing, worker, skip_version, notifier>>
        /\ target.pc = "after" /\ target'.pc = "idle" /\ target.left = {} /\ target.cur = nil
    BY <1>1, <1>3 DEF Ends, Idle
  <2>2. Has(n, c) /\ Lives(notifier[n], notifier'[n]) /\ ~Packed(n) /\ ~Packed(n)'
    BY <1>1, <2>1 DEF Has, Callbacks, Lives, Packed
  <2> QED
    BY <2>1, <2>2, FineThread
<1>4. CASE Returns
  <2>1. /\ UNCHANGED <<changed, read, writing, worker, skip_version, notifier>>
        /\ target'.pc = target.pc /\ target'.list = target.list /\ target'.left = target.left
        /\ target'.ver = target.ver /\ target'.cur = target.cur
    BY <1>1, <1>4 DEF Returns
  <2>2. Has(n, c) /\ Lives(notifier[n], notifier'[n]) /\ (Packed(n)' <=> Packed(n))
    BY <2>1 DEF Has, Callbacks, Lives, Packed
  <2> QED
    BY <2>1, <2>2, FineThread
<1> QED
  BY <1>2, <1>3, <1>4

\* The Realm advances to the version of the package.
LEMMA FineAdvances ==
    ASSUME Ground, AllFine, StillHiding, ~async_error, Advances,
           NEW n \in Notifier, NEW c \in CallbackRec, Has(n, c)'
    PROVE  Fine(n, c)'
<1>1. Typed /\ Thread /\ n # nil /\ target.pc # "advance"
  BY NotifierAssumption DEF Ground, Delivery, Thread, ErrIsAsync
<1>2. /\ UNCHANGED <<changed, writing, worker, skip_version, notifier>>
      /\ target.pc = "before" /\ target'.pc = "after" /\ target'.left = target.list
      /\ target'.ver = target.ver /\ target'.cur = nil
      /\ read' = IF target.ver > 0 THEN target.ver ELSE version
  BY <1>1 DEF Advances
<1>3. Has(n, c) /\ (Packed(n)' <=> Packed(n)) /\ Grows
  BY <1>1, <1>2 DEF Has, Callbacks, Packed, Grows
<1>4. Accounts(n, c) /\ Calm(n, c) /\ Skipping(n, c)
  BY <1>3 DEF AllFine, Fine
<1>5. Accounts(n, c)'
  BY <1>1, <1>2, <1>3, <1>4, AccountsKept
<1>6. SkipTo' = SkipTo /\ (Ran(n)' => Ran(n))
  BY <1>2 DEF SkipTo, Ran
<1>7. Skipping(n, c)'
  BY <1>1, <1>2, <1>3, <1>4, <1>6, SkippingKept
<1>8. ASSUME notifier[n].alive, c.initial
      PROVE  read' \in Nat /\ read' <= notifier[n].ver
  <2>1. HasInitial(n)
    BY <1>3, <1>8 DEF Has, HasInitial
  <2>2. n \in target.list
    BY <1>2, <1>8, <2>1 DEF Ground, Reaches
  <2>3. Packed(n)
    BY <1>2, <2>2 DEF Packed
  <2>4. target.ver > 0 /\ target.ver <= notifier[n].ver /\ target.ver \in Nat
    BY <1>1, <2>3, PackedRan, VersionNat
  <2> QED
    BY <1>2, <2>4
<1>9. notifier[n].ver \in Nat
  BY <1>1, VersionNat
<1>10. ASSUME notifier'[n].alive, c.initial
       PROVE  /\ read' - 1 <= notifier'[n].ver /\ ~(notifier'[n].ver < read')
              /\ writing' /\ target'.pc \in {"before", "after", "idle"} => c.acc = {}
  <2>1. notifier[n].alive /\ notifier'[n].ver = notifier[n].ver
    BY <1>2, <1>10
  <2>2. read' - 1 <= notifier[n].ver /\ ~(notifier[n].ver < read')
    BY <1>8, <1>9, <1>10, <2>1
  <2>3. writing => c.acc = {}
    BY <1>2, <1>4, <1>10, <2>1 DEF Calm
  <2> QED
    BY <1>2, <2>1, <2>2, <2>3
<1>11. Calm(n, c)'
  BY <1>10 DEF Calm
<1> QED
  BY <1>5, <1>7, <1>11 DEF Fine

\* package_for_delivery of the notifiers of S, which are at version w.
LEMMA FinePackaged ==
    ASSUME Ground, AllFine, StillHiding, NEW S, PackagedAll(S), NEW w \in Nat, w <= version,
           UNCHANGED <<changed, read, worker, skip_version>>,
           NEW n \in Notifier, NEW c \in CallbackRec, Has(n, c)', ~Packed(n),
           n \in S => Ran(n) /\ notifier[n].ver = w,
           Packed(n)' => n \in S /\ target'.ver = w,
           n \in S /\ ~Packed(n)' => \A b \in CallbackRec : Has(n, b) /\ b.initial => b.acc = {},
           n \notin S => ~writing' \/ ~Ran(n)
    PROVE  Fine(n, c)'
<1>1. Typed /\ Grows
  BY DEF Ground, Delivery, Grows
<1>2. notifier'[n] = IF n \in S THEN Packaged(notifier[n]) ELSE notifier[n]
  BY <1>1, PackageSteps
<1>3. Lives(notifier[n], notifier'[n])
  BY <1>1, PackagedLives
<1>4. /\ notifier'[n].alive = notifier[n].alive /\ notifier'[n].ver = notifier[n].ver
      /\ notifier'[n].has_run = notifier[n].has_run
  BY <1>3 DEF Lives
<1>5. SkipTo' = SkipTo /\ (Ran(n)' => Ran(n))
  BY <1>4 DEF SkipTo, Ran
<1>6. CASE n \notin S
  <2>1. notifier'[n] = notifier[n] /\ ~Packed(n)'
    BY <1>2, <1>6
  <2>2. Has(n, c)
    BY <2>1 DEF Has, Callbacks
  <2>3. Accounts(n, c) /\ Calm(n, c) /\ Skipping(n, c)
    BY <2>2 DEF AllFine, Fine
  <2>4. Accounts(n, c)'
    BY <1>1, <2>1, <2>3, AccountsKept
  <2>5. Skipping(n, c)'
    BY <1>1, <1>5, <2>1, <2>3, SkippingKept
  <2>6. CASE ~writing'
    <3>1. Calm(n, c)'
      BY <2>1, <2>3, <2>6, CalmKept
    <3> QED
      BY <2>4, <2>5, <3>1 DEF Fine
  <2>7. CASE ~Ran(n)
    <3>1. ~(notifier'[n].alive /\ c.initial)
      BY <2>1, <2>2, <2>7, HasRan DEF Ran
    <3>2. Calm(n, c)'
      BY <3>1 DEF Calm
    <3> QED
      BY <2>4, <2>5, <3>2 DEF Fine
  <2> QED
    BY <1>6, <2>6, <2>7
<1>7. CASE n \in S
  <2>1. notifier'[n] = Packaged(notifier[n]) /\ Ran(n) /\ notifier[n].ver = w
    BY <1>2, <1>7
  <2>2. PICK i \in 1..Len(Callbacks(n)') : c = Callbacks(n)'[i]
    BY DEF Has
  <2>3. /\ notifier'[n].fresh = {} /\ i \in 1..Len(Callbacks(n))
        /\ LET b == Callbacks(n)[i]
           IN  /\ c.token = b.token /\ c.initial = b.initial /\ c.at = b.at
               /\ c.hidden = b.hidden /\ c.skip = b.skip
               /\ c.todo = b.acc /\ c.acc = {}
    BY <1>1, <2>1, <2>2, SoundAll, PackagedFacts DEF Callbacks
  <2>4. PICK b \in CallbackRec : b = Callbacks(n)[i]
    BY <1>1, <2>3, SoundAll
  <2>5. /\ c.initial = b.initial /\ c.at = b.at /\ c.hidden = b.hidden
        /\ c.skip = b.skip /\ c.todo = b.acc /\ c.acc = {}
    BY <2>3, <2>4
  <2>6. Has(n, b)
    BY <2>3, <2>4 DEF Has
  <2>7. Accounts(n, b) /\ Calm(n, b) /\ Skipping(n, b)
    BY <2>6 DEF AllFine, Fine
  <2>8. c.initial => c.at <= w /\ Exact(c, c.at, c.todo, w)
    BY <2>1, <2>5, <2>7 DEF Accounts, Exact, Ran
  <2>9. \A x, y : Exact(c, x, y, w)' <=> Exact(c, x, y, w)
    BY <1>1, ExactKept
  <2>10. Exact(c, w, {}, w)
    <3>1. \A y \in changed : y \in Nat
      BY <1>1 DEF Typed
    <3> QED
      BY <3>1 DEF Exact, Between
  <2>11. notifier'[n].ver = w /\ (Packed(n)' => target'.ver = w)
    BY <1>4, <2>1
  <2>12. ~Packed(n)' /\ c.initial => c.todo = {} /\ Exact(c, c.at, c.acc, w)
    BY <1>7, <2>5, <2>6, <2>8
  <2>13. Accounts(n, c)'
    BY <2>3, <2>5, <2>8, <2>9, <2>10, <2>11, <2>12 DEF Accounts
  <2>14. Calm(n, c)'
    BY <1>4, <2>1, <2>5, <2>7 DEF Calm
  <2>15. Skipping(n, c)
    BY <2>5, <2>7 DEF Skipping, Hiding
  <2>16. Skipping(n, c)'
    BY <1>1, <1>4, <1>5, <2>15, SkippingKept
  <2> QED
    BY <2>13, <2>14, <2>16 DEF Fine
<1> QED
  BY <1>6, <1>7

\* process_available_async packages the notifiers at the Realm's version.
LEMMA FineAsync ==
    ASSUME Ground, AllFine, StillHiding, AsyncPasses,
           NEW n \in Notifier, NEW c \in CallbackRec, Has(n, c)'
    PROVE  Fine(n, c)'
<1>1. Typed /\ n # nil
  BY NotifierAssumption DEF Ground, Delivery
<1>2. /\ target.pc = "idle" /\ ~writing' /\ PackagedAll(AsyncList)
      /\ target'.pc = "after" /\ target'.left = AsyncList /\ target'.ver = read
      /\ target'.cur = nil /\ UNCHANGED <<changed, read, worker, skip_version>>
  BY DEF AsyncPasses
<1>3. PICK w \in Nat : w = read /\ w <= version
  BY <1>1, VersionNat
<1>4. ~Packed(n) /\ (Packed(n)' <=> n \in AsyncList)
  BY <1>1, <1>2 DEF Packed
<1>5. n \in AsyncList => Ran(n) /\ notifier[n].ver = w
  BY <1>3 DEF AsyncList, NotifiersForRealm, Ran
<1> QED
  BY <1>2, <1>3, <1>4, <1>5, FinePackaged

\* package_and_wait makes a package, or discards it: then there was nothing in it.
LEMMA FinePackages ==
    ASSUME Ground, AllFine, StillHiding, NEW w, NEW list, NEW pc, PackagesTo(w, list, pc),
           NEW n \in Notifier, NEW c \in CallbackRec, Has(n, c)'
    PROVE  Fine(n, c)'
<1>1. Typed /\ n # nil /\ Opened /\ Abreast /\ Listing
  BY NotifierAssumption DEF Ground, Delivery
<1>2. /\ target.pc = "package" /\ PackagedAll(PackRan) /\ pc = AfterPackaging(w)
      /\ UNCHANGED <<version, changed, read, writing, worker, skip_version>>
      /\ list = PackRan \/ (list = {} /\ \E m \in PackRan : notifier[m].ver < target.want)
      /\ \/ pc = "idle" /\ target'.pc = "idle"
         \/ /\ pc \in {"before", "after"} /\ target'.pc = pc
            /\ target'.list = list /\ target'.left = list /\ target'.ver = w /\ target'.cur = nil
  BY DEF PackagesTo, Idle
<1>3. ~Packed(n) /\ (Packed(n)' <=> pc # "idle" /\ n \in list)
  BY <1>1, <1>2 DEF Packed
<1>4. n \notin PackRan => ~Ran(n)
  BY <1>2 DEF Ground, Listing, PackRan, Ran
<1>5. CASE PackRan = {}
  <2>1. PICK x \in Nat : x <= version
    BY <1>1, VersionNat
  <2>2. n \notin PackRan /\ ~Packed(n)'
    BY <1>2, <1>3, <1>5
  <2> QED
    BY <1>2, <1>3, <1>4, <2>1, <2>2, FinePackaged
<1>6. CASE PackRan # {}
  <2>1. /\ \A m \in PackRan : Ran(m)
        /\ list # {} => \A m \in PackRan : notifier[m].ver = w
        /\ \E v \in Nat : v > 0 /\ \A m \in PackRan : notifier[m].ver = v
    BY <1>1, <1>6, PackVersion
  <2>2. PICK v \in Nat : v > 0 /\ \A m \in PackRan : notifier[m].ver = v
    BY <2>1
  <2>3. PackRan \subseteq Notifier
    BY <1>1 DEF PackRan, Typed, TargetRec
  <2>4. v <= version
    BY <1>1, <1>6, <2>2, <2>3, VersionNat
  <2>5. list # {} => w = v
    BY <1>6, <2>1, <2>2
  <2>6. ASSUME n \in PackRan, ~Packed(n)', NEW b \in CallbackRec, Has(n, b), b.initial
        PROVE  b.acc = {}
    <3>1. Callbacks(n) # <<>> /\ n \in target.list /\ target.want \in Nat
      BY <1>1, <2>6, HasRan DEF PackRan, Typed, TargetRec
    <3>2. list # {}
      <4>1. SUFFICES ASSUME NEW m \in PackRan, notifier[m].ver < target.want PROVE FALSE
        BY <1>2, <2>6
      <4>2. v < target.want /\ target.want > 0
        BY <2>2, <3>1, <4>1
      <4>3. notifier[n].ver >= target.want
        BY <1>1, <3>1, <4>2, PackWaited
      <4> QED
        BY <2>2, <2>6, <3>1, <4>2, <4>3
    <3>3. pc = "idle"
      BY <1>2, <1>3, <2>6, <3>2
    <3>4. v < read
      BY <1>2, <2>5, <3>2, <3>3 DEF AfterPackaging
    <3>5. notifier[n].alive /\ notifier[n].ver = v
      BY <2>1, <2>2, <2>6 DEF Ran
    <3> QED
      BY <2>6, <3>4, <3>5 DEF AllFine, Fine, Calm
  <2>7. n \in PackRan => Ran(n) /\ notifier[n].ver = v
    BY <2>1, <2>2
  <2>8. Packed(n)' => n \in PackRan /\ target'.ver = v
    BY <1>2, <1>3, <2>5
  <2> QED
    BY <1>2, <1>3, <1>4, <2>4, <2>6, <2>7, <2>8, FinePackaged
<1> QED
  BY <1>5, <1>6

----------------------------------------------------------------------------
\* What is told and what has been accumulated since add up.
LEMMA ExactJoin ==
    ASSUME Typed, NEW c, NEW x \in Nat, NEW v \in Nat, NEW w \in Nat, x <= v, v <= w,
           Exact(c, x, {}, v), Exact(c, v, c.acc, w)
    PROVE  Exact(c, x, c.acc, w)
<1>1. \A y \in changed : y \in Nat
  BY DEF Typed
<1>2. Between(x, w) = Between(x, v) \cup Between(v, w)
  BY <1>1 DEF Between
<1> QED
  BY <1>2 DEF Exact

\* A pass leaves the notifiers it is not at alone.
LEMMA PackedOther ==
    ASSUME Thread, NEW m \in Notifier, Passes(m), target'.cur \in {m, nil},
           NEW n \in Notifier, n # m
    PROVE  Packed(n)' <=> Packed(n)
<1>1. n # nil /\ m # nil
  BY NotifierAssumption
<1> QED
  BY <1>1 DEF Packed, Passes

\* The pass after the advance ends at n: all that were there have been called.
LEMMA FineEndsPass ==
    ASSUME Ground, AllFine, StillHiding, GoneBy, ~async_error, NEW n \in Notifier, Passes(n),
           NEW s, EndsPass(n, s), target'.cur = nil, NEW c \in CallbackRec, Has(n, c)'
    PROVE  Fine(n, c)'
<1>1. /\ Typed /\ Thread /\ Iterating /\ AllPrefix /\ n # nil
      /\ target.pc \in {"before", "after"}
  BY NotifierAssumption DEF Ground, Delivery, Thread, ErrIsAsync, Passes
<1>2. /\ target'.pc = target.pc /\ target'.list = target.list
      /\ target'.left = target.left \ {n} /\ target'.ver = target.ver
      /\ UNCHANGED <<version, changed, read, writing, worker, skip_version>>
      /\ target.cur = n \/ (target.cur = nil /\ n \in target.left)
  BY DEF Passes
<1>3. /\ notifier'[n] = s /\ Kept(notifier[n], s) /\ s.callbacks = Callbacks(n)
      /\ s.fresh = notifier[n].fresh /\ s.count = notifier[n].count
      /\ NoneWanted(n, notifier[n].index, notifier[n].count + 1)
  <2>1. Replaced(n, s) /\ Kept(notifier[n], s) /\ ~Recounts
    BY <1>1 DEF EndsPass, Iterated, Recounts
  <2> QED
    BY <1>1, <2>1, ReplacedFacts DEF EndsPass, Iterated
<1>4. Lives(notifier[n], notifier'[n]) /\ notifier'[n].fresh = notifier[n].fresh /\ Has(n, c)
  BY <1>3 DEF Lives, Kept, Has, Callbacks
<1>5. CASE target.pc = "before"
  <2>1. Packed(n)' <=> Packed(n)
    BY <1>2, <1>5 DEF Packed
  <2> QED
    BY <1>2, <1>4, <2>1, FineThread
<1>6. CASE target.pc = "after"
  <2>1. Packed(n) /\ ~Packed(n)'
    BY <1>1, <1>2, <1>6 DEF Packed
  <2>2. Accounts(n, c) /\ Calm(n, c) /\ Skipping(n, c)
    BY <1>4 DEF AllFine, Fine
  <2>3. Delivering(n) /\ target.ver <= notifier[n].ver
    BY <2>1, PackedRan
  <2>4. PICK i \in 1..Len(Callbacks(n)) : c = Callbacks(n)[i]
    BY <1>4 DEF Has
  <2>5. ASSUME c.initial PROVE c.todo = {}
    <3>1. c.token \notin notifier[n].fresh
      BY <2>2, <2>5 DEF Accounts
    <3>2. i <= notifier[n].count /\ notifier[n].count \in Int /\ notifier[n].index \in Nat
      BY <1>1, <2>3, <2>4, <3>1, SoundAll DEF AllPrefix, Prefix, Callbacks
    <3>3. CASE i <= notifier[n].index
      <4>1. notifier[n].index # 0
        BY <3>2, <3>3
      <4>2. target.cur = n
        BY <1>1, <4>1 DEF Iterating
      <4> QED
        BY <1>6, <2>4, <3>3, <4>2 DEF GoneBy
    <3>4. CASE ~(i <= notifier[n].index)
      <4>1. notifier[n].index < i /\ i < notifier[n].count + 1
        BY <2>4, <3>2, <3>4
      <4>2. ~Wanted(c)
        BY <1>3, <2>4, <4>1 DEF NoneWanted
      <4> QED
        BY <1>6, <4>2 DEF Wanted
    <3> QED
      BY <3>3, <3>4
  <2>6. PICK t \in Nat : t = target.ver
    BY <1>1, VersionNat
  <2>7. PICK w \in Nat : w = notifier[n].ver /\ w <= version
    BY <1>1, VersionNat
  <2>8. ASSUME c.initial, notifier[n].alive
        PROVE  c.at <= w /\ Exact(c, c.at, c.acc, w)
    <3>1. c.token \notin notifier[n].fresh
      BY <2>2, <2>8 DEF Accounts
    <3>2. c.at <= t /\ Exact(c, c.at, c.todo, t) /\ Exact(c, t, c.acc, w)
      BY <2>1, <2>2, <2>6, <2>7, <2>8, <3>1 DEF Accounts
    <3>3. c.todo = {} /\ c.at \in Nat /\ t <= w
      BY <2>3, <2>5, <2>6, <2>7, <2>8 DEF CallbackRec
    <3>4. Exact(c, c.at, c.acc, w)
      BY <1>1, <3>2, <3>3, ExactJoin
    <3> QED
      BY <3>2, <3>3, <3>4
  <2>9. \A x, y : Exact(c, x, y, w)' <=> Exact(c, x, y, w)
    BY <1>1, <1>2, <2>7, ExactKept DEF Grows
  <2>10. /\ notifier'[n].ver = w /\ notifier'[n].alive = notifier[n].alive
         /\ notifier'[n].has_run = notifier[n].has_run
    BY <1>4, <2>7 DEF Lives
  <2>11. Accounts(n, c)'
    BY <1>4, <2>1, <2>2, <2>5, <2>8, <2>9, <2>10 DEF Accounts
  <2>12. Calm(n, c)'
    BY <1>2, <2>2, <2>7, <2>10, CalmKept
  <2>13. Skipping(n, c)'
    <3>1. SkipTo' = SkipTo /\ (Ran(n)' => Ran(n))
      BY <1>2, <2>10 DEF SkipTo, Ran
    <3> QED
      BY <1>1, <1>2, <2>2, <2>7, <2>10, <3>1, SkippingKept DEF Grows
  <2> QED
    BY <2>11, <2>12, <2>13 DEF Fine
<1> QED
  BY <1>1, <1>5, <1>6

\* The callback at a position up to the count was there when n was packaged.
LEMMA CallsOld ==
    ASSUME Ground, ~async_error, NEW n \in Notifier, Passes(n), NEW s,
           NEW i \in 1..Len(Callbacks(n)), CallsAt(n, s, i)
    PROVE  /\ target.pc \in {"before", "after"} /\ Packed(n)
           /\ notifier'[n] = s /\ Lives(notifier[n], s) /\ s.fresh = notifier[n].fresh
           /\ s.index = i /\ Len(s.callbacks) = Len(Callbacks(n))
           /\ Callbacks(n)[i].token \notin notifier[n].fresh
<1>1. /\ Typed /\ Thread /\ AllPrefix /\ n # nil
      /\ target.pc \in {"before", "after"}
      /\ target.cur = n \/ (target.cur = nil /\ n \in target.left)
  BY NotifierAssumption DEF Ground, Delivery, Thread, ErrIsAsync, Passes
<1>2. Packed(n)
  BY <1>1 DEF Packed, Thread
<1>3. Replaced(n, s) /\ Kept(notifier[n], s) /\ ~Recounts
  BY <1>1 DEF CallsAt, Iterated, Recounts
<1>4. /\ s.fresh = notifier[n].fresh /\ s.count = notifier[n].count /\ s.index = i
      /\ Len(s.callbacks) = Len(Callbacks(n)) /\ i <= s.count
  BY <1>3 DEF CallsAt, Iterated
<1>5. Prefix(notifier[n])
  BY <1>1, <1>2, PackedRan DEF AllPrefix
<1>6. Callbacks(n)[i].token \notin notifier[n].fresh
  BY <1>4, <1>5 DEF Prefix, Callbacks
<1> QED
  BY <1>1, <1>2, <1>3, <1>4, <1>6, ReplacedFacts DEF Kept, Lives

\* The pass calls a callback of n: it has been told up to the version of the package.
LEMMA FineCallsAt ==
    ASSUME Ground, AllFine, StillHiding, ~async_error, NEW n \in Notifier, Passes(n),
           NEW s, NEW i \in 1..Len(Callbacks(n)), CallsAt(n, s, i), target'.cur = n,
           NEW c \in CallbackRec, Has(n, c)'
    PROVE  Fine(n, c)'
<1>1. /\ target.pc \in {"before", "after"} /\ Packed(n)
      /\ notifier'[n] = s /\ Lives(notifier[n], s) /\ s.fresh = notifier[n].fresh
      /\ Len(s.callbacks) = Len(Callbacks(n))
      /\ Callbacks(n)[i].token \notin notifier[n].fresh
  BY CallsOld
<1>2. /\ target'.pc = target.pc /\ target'.list = target.list
      /\ target'.ver = target.ver /\ Typed
      /\ UNCHANGED <<version, changed, read, writing, worker, skip_version>>
  BY DEF Passes, Ground, Delivery
<1>3. Packed(n)'
  BY <1>1, <1>2, PackedRan DEF Packed
<1>4. PICK j \in 1..Len(Callbacks(n)) : c = s.callbacks[j]
  BY <1>1 DEF Has, Callbacks
<1>5. CASE Has(n, c)
  BY <1>1, <1>2, <1>3, <1>5, FineThread
<1>6. CASE ~Has(n, c)
  <2>1. target.pc = "after" /\ j = i /\ Told(Callbacks(n)[i], c, target.ver)
    <3>1. s.callbacks[j] # Callbacks(n)[j]
      BY <1>4, <1>6 DEF Has
    <3> QED
      BY <1>1, <1>4, <3>1 DEF CallsAt
  <2>2. PICK b \in CallbackRec : b = Callbacks(n)[i]
    BY <1>2, SoundAll
  <2>3. Has(n, b) /\ Told(b, c, target.ver) /\ b.token \notin notifier[n].fresh
    BY <1>1, <2>1, <2>2 DEF Has
  <2>4. Accounts(n, b) /\ Calm(n, b) /\ Skipping(n, b)
    BY <2>3 DEF AllFine, Fine
  <2>5. /\ c.token = b.token /\ c.hidden = b.hidden /\ c.skip = b.skip /\ c.acc = b.acc
        /\ c.initial = TRUE /\ c.todo = {} /\ c.at = target.ver
    BY <2>3 DEF Told
  <2>6. PICK t \in Nat : t = target.ver /\ t <= version
    BY <1>2, VersionNat
  <2>7. PICK w \in Nat : w = notifier[n].ver /\ w <= version
    BY <1>2, VersionNat
  <2>8. /\ notifier'[n].ver = w /\ notifier'[n].alive = notifier[n].alive
        /\ notifier'[n].has_run = notifier[n].has_run
        /\ notifier'[n].fresh = notifier[n].fresh
    BY <1>1, <2>7 DEF Lives
  <2>9. \A v \in Nat : Between(v, v) = {}
    <3>1. \A y \in changed : y \in Nat
      BY <1>2 DEF Typed
    <3> QED
      BY <3>1 DEF Between
  <2>10. /\ \A x, y : Exact(c, x, y, w)' <=> Exact(c, x, y, w)
         /\ \A x, y : Exact(c, x, y, t)' <=> Exact(c, x, y, t)
    BY <1>2, <2>6, <2>7, ExactKept DEF Grows
  <2>11. Exact(c, t, {}, t)
    BY <2>9 DEF Exact
  <2>12. notifier[n].alive => Exact(c, t, c.acc, w)
    BY <1>1, <2>3, <2>4, <2>5, <2>6, <2>7 DEF Accounts, Exact
  <2>13. Accounts(n, c)'
    <3>1. target'.ver = t /\ c.at = t /\ c.token \notin notifier'[n].fresh
      BY <1>2, <2>3, <2>5, <2>6, <2>8
    <3> QED
      BY <1>3, <2>5, <2>8, <2>10, <2>11, <2>12, <3>1 DEF Accounts
  <2>14. Calm(n, c)'
    <3>1. read = t /\ t <= w
      BY <1>1, <2>1, <2>6, <2>7, PackedRan
    <3>2. ASSUME writing, notifier[n].alive PROVE c.acc = {}
      <4>1. t = version /\ target.list # {} /\ notifier[n].has_run
        BY <1>1, <2>6, <3>2, PackedRan
      <4>2. w = version
        BY <2>1, <2>7, <3>2, <4>1 DEF Ground, Held
      <4> QED
        BY <2>9, <2>12, <3>2, <4>1, <4>2 DEF Exact
    <3>3. read' - 1 <= notifier'[n].ver /\ ~(notifier'[n].ver < read')
      BY <1>2, <2>8, <3>1
    <3> QED
      BY <1>2, <2>8, <3>2, <3>3 DEF Calm
  <2>15. Skipping(n, c)'
    <3>1. SkipTo' = SkipTo /\ (Ran(n)' => Ran(n))
      BY <1>2, <2>8 DEF SkipTo, Ran
    <3>2. Skipping(n, c)
      BY <2>4, <2>5 DEF Skipping, Hiding
    <3> QED
      BY <1>2, <2>7, <2>8, <3>1, <3>2, SkippingKept DEF Grows
  <2> QED
    BY <2>13, <2>14, <2>15 DEF Fine
<1> QED
  BY <1>5, <1>6

\* A step of a pass.
LEMMA FinePasses ==
    ASSUME Ground, AllFine, StillHiding, GoneBy, ~async_error, NEW m \in Notifier, Passes(m),
           NEW n \in Notifier, NEW c \in CallbackRec, Has(n, c)'
    PROVE  Fine(n, c)'
<1>1. CASE n = m
  BY <1>1, FineEndsPass, FineCallsAt DEF Passes
<1>2. CASE n # m
  <2>1. Typed /\ Thread
    BY DEF Ground, Delivery
  <2>2. \E s : Replaced(m, s) /\ target'.cur \in {m, nil}
    <3>1. CASE \E s : EndsPass(m, s) /\ target'.cur = nil
      BY <3>1 DEF EndsPass, Iterated
    <3>2. CASE \E s : \E i \in 1..Len(Callbacks(m)) : CallsAt(m, s, i) /\ target'.cur = m
      BY <3>2 DEF CallsAt, Iterated
    <3> QED
      BY <3>1, <3>2 DEF Passes
  <2>3. notifier'[n] = notifier[n] /\ Has(n, c)
    BY <1>2, <2>1, <2>2, HasOther
  <2>4. Lives(notifier[n], notifier'[n])
    BY <2>3 DEF Lives
  <2>5. Packed(n)' <=> Packed(n)
    BY <1>2, <2>1, <2>2, PackedOther
  <2>6. /\ target'.ver = target.ver /\ target'.pc = target.pc
        /\ UNCHANGED <<changed, read, writing, worker, skip_version>>
    BY DEF Passes
  <2> QED
    BY <2>3, <2>4, <2>5, <2>6, FineThread
<1> QED
  BY <1>1, <1>2

\* What others do.
LEMMA FineAside ==
    ASSUME Ground, AllFine, StillHiding, Aside, UNCHANGED target,
           NEW n \in Notifier, NEW c \in CallbackRec, Has(n, c)'
    PROVE  Fine(n, c)'
<1>1. Typed
  BY DEF Ground, Delivery
<1>2. CASE \E m \in Notifier : RegisterNotifier(m) \/ AddCallback(m) \/ Unregister(m)
  BY <1>1, <1>2, RegisterLife, DropLife, FineRegister, FineDrop, FineAdd
<1>3. CASE \E m \in Notifier, k \in 1..MaxTokens : RemoveCallback(m, k)
  <2>1. PICK m \in Notifier, k \in 1..MaxTokens : RemoveCallback(m, k)
    BY <1>3
  <2>2. /\ k \in Tokens(notifier[m]) /\ notifier' = [notifier EXCEPT ![m] = Removed(@, k)]
        /\ UNCHANGED <<read, target, worker, skip_version, writing, changed>>
    BY <2>1 DEF RemoveCallback, file, coordinator
  <2> QED
    BY <2>2, FineRemove
<1>4. CASE \E m \in Notifier, k \in 1..MaxTokens : SuppressNextNotification(m, k)
  BY <1>4, FineSuppress
<1>5. CASE Worker
  BY <1>5, FineRun, FineSkip, FineFinal DEF Worker
<1> QED
  BY <1>2, <1>3, <1>4, <1>5, FineCommit DEF Aside

\* The changes of every callback go on adding up.
LEMMA FineNext ==
    ASSUME Plain, Ground, AllFine, GoneBy, [Next]_vars
    PROVE  AllFine'
<1> SUFFICES ASSUME NEW n \in Notifier, NEW c \in CallbackRec, Has(n, c)'
             PROVE  Fine(n, c)'
  BY DEF AllFine
<1>1. Ground' /\ Typed /\ Thread
  BY GroundNext DEF Ground, Delivery
<1>2. CASE async_error
  BY <1>1, <1>2, AsyncStays, FineErr
<1>3. CASE ~async_error /\ Commit
  BY <1>3, FineCommit
<1>4. CASE ~async_error /\ ~Commit
  <2>0. StillHiding
    <3>1. Suppression /\ ~CommitFails
      BY DEF Ground, Plain, CommitFails
    <3> QED
      BY <1>1, <1>4, <3>1, HidingNext
  <2>1. CASE Aside /\ UNCHANGED target
    BY <2>0, <2>1, FineAside
  <2>2. CASE (\E op, want : Begins(op, want)) \/ Ends \/ Returns
    BY <1>4, <2>0, <2>2, FineBegins
  <2>3. CASE AsyncPasses
    BY <2>0, <2>3, FineAsync
  <2>4. CASE AsyncFails
    BY <1>4, <2>4 DEF AsyncFails
  <2>5. CASE \E w, list, pc : PackagesTo(w, list, pc)
    BY <2>0, <2>5, FinePackages
  <2>6. CASE Advances
    BY <1>4, <2>0, <2>6, FineAdvances
  <2>7. CASE \E m \in Notifier : Passes(m)
    BY <1>4, <2>0, <2>7, FinePasses
  <2> QED
    BY <1>1, <2>1, <2>2, <2>3, <2>4, <2>5, <2>6, <2>7, ThreadSteps
<1> QED
  BY <1>2, <1>3, <1>4

\* The callbacks gone by stay so when the record of n keeps its iteration.
LEMMA GoneBySame ==
    ASSUME GoneBy, NEW n \in Notifier, target.pc = "after", target.cur = n,
           notifier'[n].index = notifier[n].index,
           Len(Callbacks(n)') = Len(Callbacks(n)),
           \A i \in 1..Len(Callbacks(n)) :
             /\ Callbacks(n)'[i].todo = Callbacks(n)[i].todo
             /\ Callbacks(n)'[i].initial = Callbacks(n)[i].initial
    PROVE  \A i \in 1..Len(Callbacks(n)') :
             i <= notifier'[n].index => Callbacks(n)'[i].todo = {} /\ Callbacks(n)'[i].initial
BY DEF GoneBy

\* The worker does not touch the iteration.
LEMMA GoneByWorker ==
    ASSUME Typed, Worker, NEW n \in Notifier
    PROVE  /\ notifier'[n].index = notifier[n].index
           /\ Len(Callbacks(n)') = Len(Callbacks(n))
           /\ \A i \in 1..Len(Callbacks(n)) :
                /\ Callbacks(n)'[i].todo = Callbacks(n)[i].todo
                /\ Callbacks(n)'[i].initial = Callbacks(n)[i].initial
<1>1. ASSUME NEW v, Reached(notifier[n], notifier'[n], v)
      PROVE  /\ notifier'[n].index = notifier[n].index
             /\ Len(Callbacks(n)') = Len(Callbacks(n))
             /\ \A i \in 1..Len(Callbacks(n)) :
                  /\ Callbacks(n)'[i].todo = Callbacks(n)[i].todo
                  /\ Callbacks(n)'[i].initial = Callbacks(n)[i].initial
  BY <1>1 DEF Reached, More, Callbacks
<1>2. ASSUME NEW where, Moved(notifier[n], notifier'[n], where)
      PROVE  notifier'[n].index = notifier[n].index /\ Callbacks(n)' = Callbacks(n)
  BY <1>2 DEF Moved, Callbacks
<1>3. CASE RunAsyncNotifiers
  BY <1>2, <1>3, RunSteps
<1>4. CASE RunToSkipVersion
  <2>1. worker.skip > 0
    BY <1>4 DEF RunToSkipVersion, Typed
  <2>2. Reached(notifier[n], notifier'[n], worker.skip) \/ notifier'[n] = notifier[n]
    BY <1>4, <2>1, SkipSteps
  <2> QED
    BY <1>1, <2>2 DEF Callbacks
<1>5. CASE RunToVersion
  <2>1. worker.ver > 0
    BY <1>5 DEF RunToVersion, Typed
  <2>2. \/ Reached(notifier[n], notifier'[n], worker.ver)
        \/ Moved(notifier[n], notifier'[n], notifier'[n].where)
    BY <1>5, <2>1, FinalSteps
  <2> QED
    BY <1>1, <1>2, <2>2
<1> QED
  BY <1>3, <1>4, <1>5 DEF Worker

\* A callback that is removed moves the iteration back.
LEMMA GoneByRemoved ==
    ASSUME Typed, GoneBy, NEW n \in Notifier, target.pc = "after", target.cur = n,
           NEW p \in 1..Len(Callbacks(n)), RemovedAt(notifier[n], notifier'[n], p)
    PROVE  \A i \in 1..Len(Callbacks(n)') :
             i <= notifier'[n].index => Callbacks(n)'[i].todo = {} /\ Callbacks(n)'[i].initial
<1> SUFFICES ASSUME NEW i \in 1..Len(Callbacks(n)'), i <= notifier'[n].index
             PROVE  Callbacks(n)'[i].todo = {} /\ Callbacks(n)'[i].initial
  OBVIOUS
<1>1. Len(Callbacks(n)) \in Nat /\ notifier[n].index \in Nat
  BY SoundAll
<1>2. /\ Callbacks(n)'[i] = IF i < p THEN Callbacks(n)[i] ELSE Callbacks(n)[i + 1]
      /\ Len(Callbacks(n)') = Len(Callbacks(n)) - 1
      /\ notifier'[n].index = IF notifier[n].index >= p THEN notifier[n].index - 1
                              ELSE notifier[n].index
  BY DEF RemovedAt, Callbacks
<1>3. PICK j \in 1..Len(Callbacks(n)) :
             Callbacks(n)'[i] = Callbacks(n)[j] /\ j <= notifier[n].index
  <2>1. CASE i < p
    <3>1. i \in 1..Len(Callbacks(n)) /\ i <= notifier[n].index
      BY <1>1, <1>2, <2>1
    <3> QED
      BY <1>2, <2>1, <3>1
  <2>2. CASE ~(i < p)
    <3>1. i + 1 \in 1..Len(Callbacks(n)) /\ i + 1 <= notifier[n].index
      BY <1>1, <1>2, <2>2
    <3> QED
      BY <1>2, <2>2, <3>1
  <2> QED
    BY <2>1, <2>2
<1> QED
  BY <1>3 DEF GoneBy

\* What others do to the notifier the pass is at.
LEMMA GoneByAside ==
    ASSUME Ground, GoneBy, Aside, UNCHANGED target,
           NEW n \in Notifier, target.pc = "after", target.cur = n
    PROVE  \A i \in 1..Len(Callbacks(n)') :
             i <= notifier'[n].index => Callbacks(n)'[i].todo = {} /\ Callbacks(n)'[i].initial
<1>1. Typed
  BY DEF Ground, Delivery
<1>2. CASE notifier'[n] = notifier[n]
  BY <1>2, GoneBySame DEF Callbacks
<1>3. ASSUME NEW m \in Notifier, NEW s, Replaced(m, s), n # m
      PROVE  notifier'[n] = notifier[n]
  BY <1>1, <1>3, ReplacedFacts
<1>4. CASE \E m \in Notifier : RegisterNotifier(m)
  <2>1. PICK m \in Notifier : Registers(m)
    BY <1>1, <1>4, RegisterLife
  <2>2. Callbacks(m)' = <<>>
    BY <2>1 DEF Registers, Callbacks
  <2>3. n # m => notifier'[n] = notifier[n]
    BY <2>1 DEF Registers
  <2> QED
    BY <1>2, <2>2, <2>3
<1>5. CASE \E m \in Notifier : Unregister(m)
  <2>1. PICK m \in Notifier : Drops(m)
    BY <1>1, <1>5, DropLife
  <2>2. notifier'[n].index = notifier[n].index /\ Callbacks(n)' = Callbacks(n)
    BY <2>1 DEF Drops, Callbacks
  <2> QED
    BY <2>2, GoneBySame
<1>6. CASE \E m \in Notifier : AddCallback(m)
  <2>1. PICK m \in Notifier : AddCallback(m)
    BY <1>6
  <2>2. PICK s : /\ Replaced(m, s) /\ s.index = notifier[m].index
                 /\ Len(s.callbacks) = Len(Callbacks(m)) + 1
                 /\ \A i \in 1..Len(Callbacks(m)) : s.callbacks[i] = Callbacks(m)[i]
    BY <1>1, <2>1, AddSteps
  <2>3. CASE n = m
    <3>1. /\ notifier'[n] = s /\ Len(Callbacks(n)) \in Nat /\ notifier[n].index \in Nat
          /\ notifier[n].index <= Len(Callbacks(n))
      BY <1>1, <2>2, <2>3, ReplacedFacts, SoundAll
    <3>2. ASSUME NEW i \in 1..Len(Callbacks(n)'), i <= notifier'[n].index
          PROVE  Callbacks(n)'[i].todo = {} /\ Callbacks(n)'[i].initial
      <4>1. Callbacks(n)' = s.callbacks
        BY <3>1 DEF Callbacks
      <4>2. i \in 1..Len(Callbacks(n)) /\ i <= notifier[n].index
        BY <2>2, <2>3, <3>1, <3>2, <4>1
      <4>3. Callbacks(n)'[i] = Callbacks(n)[i]
        BY <2>2, <2>3, <4>1, <4>2
      <4> QED
        BY <4>2, <4>3 DEF GoneBy
    <3> QED
      BY <3>2
  <2> QED
    BY <1>2, <1>3, <2>2, <2>3
<1>7. CASE \E m \in Notifier, k \in 1..MaxTokens : RemoveCallback(m, k)
  <2>1. PICK m \in Notifier, k \in 1..MaxTokens : RemoveCallback(m, k)
    BY <1>7
  <2>2. PICK s : \E p \in 1..Len(Callbacks(m)) : Replaced(m, s) /\ RemovedAt(notifier[m], s, p)
    BY <1>1, <2>1, RemoveSteps DEF RemoveCallback
  <2>3. CASE n = m
    <3>1. notifier'[n] = s
      BY <1>1, <2>2, <2>3, ReplacedFacts
    <3> QED
      BY <1>1, <2>2, <2>3, <3>1, GoneByRemoved
  <2> QED
    BY <1>2, <1>3, <2>2, <2>3
<1>8. CASE Worker
  BY <1>1, <1>8, GoneByWorker, GoneBySame
<1>9. CASE \/ Commit \/ CancelTransaction
           \/ \E m \in Notifier, k \in 1..MaxTokens : SuppressNextNotification(m, k)
  BY <1>9 DEF Commit, CancelTransaction, SuppressNextNotification
<1>10. CASE OtherCommit \/ UNCHANGED <<version, changed, read, writing, notifier, target, worker,
                                       skip_version, told>>
  <2>1. notifier' = notifier
    BY <1>10 DEF OtherCommit
  <2> QED
    BY <1>2, <2>1
<1> QED
  BY <1>4, <1>5, <1>6, <1>7, <1>8, <1>9, <1>10 DEF Aside

\* The callbacks gone by have been called, after every step.
LEMMA GoneByNext ==
    ASSUME Plain, Ground, GoneBy, [Next]_vars
    PROVE  GoneBy'
<1> SUFFICES ASSUME NEW n \in Notifier, target'.pc = "after", target'.cur = n
             PROVE  \A i \in 1..Len(Callbacks(n)') :
                      i <= notifier'[n].index =>
                        Callbacks(n)'[i].todo = {} /\ Callbacks(n)'[i].initial
  BY DEF GoneBy
<1>1. Typed /\ Thread /\ Iterating /\ n # nil
  BY NotifierAssumption DEF Ground, Delivery
<1>2. CASE Aside /\ UNCHANGED target
  BY <1>2, GoneByAside
<1>3. CASE Returns
  <2>1. target.pc = "after" /\ target.cur = n /\ notifier' = notifier
    BY <1>3 DEF Returns
  <2> QED
    BY <2>1, GoneBySame DEF Callbacks
<1>4. CASE \E m \in Notifier : Passes(m)
  <2>1. PICK m \in Notifier : Passes(m)
    BY <1>4
  <2>2. target.pc = "after" /\ m # nil
    BY <2>1, NotifierAssumption DEF Passes
  <2>3. CASE \E s : EndsPass(m, s) /\ target'.cur = nil
    BY <1>1, <2>3
  <2>4. CASE \E s : \E i \in 1..Len(Callbacks(m)) : CallsAt(m, s, i) /\ target'.cur = m
    <3>1. n = m
      BY <2>4
    <3>2. PICK s : \E i \in 1..Len(Callbacks(n)) : CallsAt(n, s, i)
      BY <2>4, <3>1
    <3>3. PICK i \in 1..Len(Callbacks(n)) : CallsAt(n, s, i)
      BY <3>2
    <3>4. /\ Replaced(n, s) /\ s.index = i /\ Len(s.callbacks) = Len(Callbacks(n))
          /\ Told(Callbacks(n)[i], s.callbacks[i], target.ver)
          /\ \A j \in 1..Len(Callbacks(n)) : j # i => s.callbacks[j] = Callbacks(n)[j]
          /\ NoneWanted(n, notifier[n].index, i)
      BY <2>2, <3>3 DEF CallsAt, Iterated
    <3>5. notifier'[n] = s /\ notifier[n].index \in Nat
      BY <1>1, <3>4, ReplacedFacts, SoundAll
    <3>6. ASSUME NEW j \in 1..Len(Callbacks(n)), j <= i
          PROVE  s.callbacks[j].todo = {} /\ s.callbacks[j].initial
      <4>1. CASE j = i
        BY <3>4, <4>1 DEF Told
      <4>2. CASE j # i /\ j <= notifier[n].index
        <5>1. notifier[n].index # 0
          BY <3>5, <4>2
        <5>2. target.cur = n
          BY <1>1, <5>1 DEF Iterating
        <5> QED
          BY <2>2, <3>4, <4>2, <5>2 DEF GoneBy
      <4>3. CASE j # i /\ ~(j <= notifier[n].index)
        <5>1. notifier[n].index < j /\ j < i
          BY <3>5, <3>6, <4>3
        <5>2. ~Wanted(Callbacks(n)[j])
          BY <3>4, <5>1 DEF NoneWanted
        <5> QED
          BY <2>2, <3>4, <4>3, <5>2 DEF Wanted
      <4> QED
        BY <4>1, <4>2, <4>3
    <3> QED
      BY <3>4, <3>5, <3>6 DEF Callbacks
  <2> QED
    BY <2>1, <2>3, <2>4 DEF Passes
<1>5. CASE \/ AsyncPasses \/ AsyncFails \/ \E w, list, pc : PackagesTo(w, list, pc)
           \/ Advances \/ Ends \/ \E op, want : Begins(op, want)
  BY <1>1, <1>5 DEF AsyncPasses, AsyncFails, PackagesTo, Advances, Ends, Begins, Idle
<1> QED
  BY <1>1, <1>2, <1>3, <1>4, <1>5, ThreadSteps

\* What a callback has been told stays right while it runs, though the file grows.
Heard ==
    told # nil =>
        /\ told.to \in Nat /\ told.to <= version
        /\ ~told.initial => /\ told.changes \subseteq Between(told.from, told.to)
                            /\ Between(told.from, told.to) \subseteq told.changes \cup told.hidden

\* A step adds at most the next version to the file.
LEMMA GrowsNext ==
    ASSUME Typed, [Next]_vars
    PROVE  Grows /\ version' \in Nat /\ version <= version'
<1>1. version \in Nat
  BY VersionNat
<1>2. CASE CommitWrite \/ OtherCommit
  BY <1>1, <1>2 DEF CommitWrite, OtherCommit, Grows
<1>3. CASE UNCHANGED <<version, changed>>
  BY <1>1, <1>3 DEF Grows
<1>4. CASE \E n \in Notifier : RegisterNotifier(n) \/ AddCallback(n) \/ Unregister(n)
  BY <1>3, <1>4 DEF RegisterNotifier, AddCallback, Unregister, file
<1>5. CASE \E n \in Notifier, k \in 1..MaxTokens :
             RemoveCallback(n, k) \/ SuppressNextNotification(n, k)
  BY <1>3, <1>5 DEF RemoveCallback, SuppressNextNotification, file
<1>6. CASE EndTransaction \/ CommitFails \/ WriteInCallback
  BY <1>2, <1>3, <1>6
     DEF EndTransaction, Commit, CancelTransaction, CommitFails, WriteInCallback
<1>7. CASE Notify \/ Refresh \/ BeginTransaction
  BY <1>3, <1>7 DEF Notify, Refresh, BeginTransaction, file
<1>8. CASE Proceed
  BY <1>3, <1>8
     DEF Proceed, PackageAndWait, CallbackReturns, Advance, Delivered, ForEachCallback, file
<1>9. CASE Worker
  BY <1>3, <1>9 DEF Worker, RunAsyncNotifiers, RunToSkipVersion, RunToVersion, file
<1>10. CASE UNCHANGED vars
  BY <1>3, <1>10 DEF vars, file
<1> QED
  BY <1>2, <1>4, <1>5, <1>6, <1>7, <1>8, <1>9, <1>10 DEF Next

\* What a callback is told is exact.
LEMMA HeardNext ==
    ASSUME Plain, Ground, AllFine, Heard, [Next]_vars
    PROVE  Heard'
<1>1. Typed /\ Thread
  BY DEF Ground, Delivery
<1>2. Grows /\ version' \in Nat /\ version \in Nat /\ version <= version'
  BY <1>1, GrowsNext, VersionNat
<1>3. CASE told' = nil
  BY <1>3 DEF Heard
<1>4. CASE told' = told /\ told # nil
  <2>1. PICK t : t = told
    OBVIOUS
  <2>2. t.to \in Nat /\ t.to <= version /\ t.to <= version'
    BY <1>2, <1>4, <2>1 DEF Heard
  <2>3. Between(t.from, t.to)' = Between(t.from, t.to)
    <3>1. PICK v : v = t.from
      OBVIOUS
    <3>2. PICK w \in Nat : w = t.to
      BY <2>2
    <3>3. Between(v, w)' = Between(v, w)
      BY <1>1, <1>2, <2>2, <3>2, BetweenKept
    <3> QED
      BY <3>1, <3>2, <3>3
  <2>4. ~t.initial => /\ t.changes \subseteq Between(t.from, t.to)
                      /\ Between(t.from, t.to) \subseteq t.changes \cup t.hidden
    BY <1>4, <2>1 DEF Heard
  <2>5. told' = t
    BY <1>4, <2>1
  <2> QED
    BY <2>2, <2>3, <2>4, <2>5 DEF Heard
<1>5. CASE told' = told
  BY <1>3, <1>4, <1>5
<1>6. CASE Aside /\ UNCHANGED target
  <2>1. AsideKeeps
    BY <1>1, <1>6, AsideFacts
  <2> QED
    BY <1>5, <2>1 DEF AsideKeeps
<1>7. CASE \/ AsyncPasses \/ AsyncFails \/ \E w, list, pc : PackagesTo(w, list, pc)
           \/ Advances \/ Ends \/ Returns \/ \E op, want : Begins(op, want)
  BY <1>3, <1>5, <1>7 DEF AsyncPasses, AsyncFails, PackagesTo, Advances, Ends, Returns, Begins
<1>8. CASE \E n \in Notifier : Passes(n)
  <2>1. PICK n \in Notifier : Passes(n)
    BY <1>8
  <2>2. CASE \E s : EndsPass(n, s)
    BY <1>5, <2>2 DEF EndsPass
  <2>3. CASE \E s : \E i \in 1..Len(Callbacks(n)) : CallsAt(n, s, i)
    <3>1. PICK s : \E i \in 1..Len(Callbacks(n)) : CallsAt(n, s, i)
      BY <2>3
    <3>2. PICK i \in 1..Len(Callbacks(n)) : CallsAt(n, s, i)
      BY <3>1
    <3>3. CASE target.pc # "after"
      BY <1>5, <3>2, <3>3 DEF CallsAt
    <3>4. CASE target.pc = "after"
      <4>1. PICK c \in CallbackRec : c = Callbacks(n)[i]
        BY <1>1, SoundAll
      <4>2. told' = Called(c) /\ Has(n, c)
        BY <3>2, <3>4, <4>1 DEF CallsAt, Has
      <4>3. PICK t \in Nat : t = target.ver /\ t <= version
        BY <1>1, VersionNat
      <4>4. /\ told'.to = t /\ told'.from = c.at /\ told'.changes = c.todo
            /\ told'.hidden = c.hidden /\ told'.initial = ~c.initial
        BY <4>2, <4>3 DEF Called
      <4>5. ~async_error
        <5>1. n \in target.list
          BY <1>1, <2>1, NotifierAssumption DEF Passes, Thread
        <5>2. notifier[n].has_run
          BY <3>4, <5>1 DEF Ground, Carried
        <5> QED
          BY <5>2 DEF Ground, Opened, Running
      <4>6. Packed(n) /\ c.token \notin notifier[n].fresh
        BY <2>1, <3>2, <4>1, <4>5, CallsOld
      <4>7. c.initial => Exact(c, c.at, c.todo, t)
        BY <4>2, <4>3, <4>6 DEF AllFine, Fine, Accounts
      <4>8. Exact(c, c.at, c.todo, t)' <=> Exact(c, c.at, c.todo, t)
        BY <1>1, <1>2, <4>3, ExactKept
      <4>9. t <= version'
        BY <1>2, <4>3
      <4>10. ~told'.initial => c.initial
        BY <4>4
      <4> QED
        BY <4>3, <4>4, <4>7, <4>8, <4>9, <4>10 DEF Heard, Exact
    <3> QED
      BY <3>3, <3>4
  <2> QED
    BY <2>1, <2>2, <2>3 DEF Passes
<1> QED
  BY <1>1, <1>6, <1>7, <1>8, ThreadSteps

----------------------------------------------------------------------------
\* The inductive invariant of what callbacks are told.
Telling == Ground /\ AllFine /\ GoneBy /\ Heard

\* There is nobody to tell at the start.
LEMMA TellingInit == Init => Telling
<1> SUFFICES ASSUME Init PROVE Telling
  OBVIOUS
<1>1. Delivery
  BY DeliveryInit
<1>2. /\ target = Idle /\ worker = Resting /\ told = nil /\ writing = FALSE
      /\ skip_version = 0 /\ async_error = FALSE
      /\ \A n \in Notifier : notifier[n] = NoNotifier
  BY DEF Init
<1>3. /\ target.pc = "idle" /\ target.err = FALSE /\ target.list = {}
      /\ worker.pc = "idle" /\ worker.old = {} /\ worker.new = {}
  BY <1>2 DEF Idle, Resting
<1>4. \A n \in Notifier : /\ notifier[n].alive = FALSE /\ notifier[n].has_run = FALSE
                          /\ notifier[n].ver = 0 /\ notifier[n].where = "none"
                          /\ notifier[n].callbacks = <<>>
  BY <1>2 DEF NoNotifier
<1>5. \A n \in Notifier : ~HasInitial(n) /\ \A c : ~Has(n, c)
  BY <1>4 DEF HasInitial, Has, Callbacks
<1>6. ErrIsAsync /\ Opened
  BY <1>2, <1>3, <1>4 DEF ErrIsAsync, Opened, Busy
<1>7. Abreast
  BY <1>2, <1>3, <1>4 DEF Abreast, Busy, Ran
<1>8. Listing /\ Carried /\ InitialRan /\ Reaches /\ Held
  BY <1>2, <1>3, <1>5 DEF Listing, Carried, InitialRan, Reaches, Held
<1>9. AllFine /\ GoneBy /\ Heard
  BY <1>2, <1>3, <1>5 DEF AllFine, GoneBy, Heard
<1>10. Suppression
  BY DEF Init, Suppression
<1> QED
  BY <1>1, <1>6, <1>7, <1>8, <1>9, <1>10 DEF Telling, Ground

\* Every step keeps it.
LEMMA TellingNext ==
    ASSUME Plain
    PROVE  Telling /\ [Next]_vars => Telling'
BY GroundNext, FineNext, GoneByNext, HeardNext DEF Telling

\* A callback is told of the transactions since its last call that changed the
\* collection, of no other and of none twice, and only those committed without
\* notifying it may be left out, for any number of notifiers, callbacks and versions,
\* when the application does no more than add callbacks inside callbacks and no commit
\* without notifying fails.
THEOREM NotifierToldExactly ==
    ASSUME Plain
    PROVE  Spec => []ToldExactly
<1>1. Telling => ToldExactly
  BY DEF Telling, Heard, ToldExactly
<1> QED
  BY <1>1, TellingInit, TellingNext, PTL DEF Spec
================================================================================
