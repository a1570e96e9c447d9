--------------------------- MODULE ZFAudioPlayerProofs ---------------------------
(****************************************************************************)
(* Proofs about ZFAudioPlayer, for any number of items.                     *)
(*                                                                          *)
(* That nothing is raised is not inductive: playWithURL: and dealloc remove *)
(* an observer from the current item, so AudioInv also says that the        *)
(* current item is observed, which stop, playWithURL: and dealloc keep by   *)
(* dropping the player and its observer together.  Before iOS 11 stop is    *)
(* the one method that raises, and AudioInv says so.                        *)
(****************************************************************************)
EXTENDS ZFAudioPlayer, TLAPS

\* The item of the player is observed.
PlayerObserved == player # nil => player \in observed

\* Only a system older than iOS 11 raises.
RaisedIsStrict == raised => StrictKVO

AudioInv == TypeOK /\ PlayerObserved /\ RaisedIsStrict

----------------------------------------------------------------------------

\* A ZFAudioPlayer that was just made satisfies AudioInv.
LEMMA AudioInitInv == Init => AudioInv
BY AudioAssumption
   DEF Init, AudioInv, TypeOK, Status, PlayerObserved, RaisedIsStrict

\* playWithURL: moves the observer from the old item, which has it, to the new one.
LEMMA PlayInv ==
    ASSUME AudioInv, NEW i \in Item, playWithURL(i)
    PROVE  AudioInv'
<1>1. ~RaisesOnRemove
  BY DEF AudioInv, PlayerObserved, RaisesOnRemove
<1>2. TypeOK'
  <2>1. raised' \in BOOLEAN /\ muted' \in BOOLEAN /\ playing' \in BOOLEAN
        /\ mute' \in BOOLEAN /\ alive' \in BOOLEAN
    BY DEF AudioInv, TypeOK, playWithURL
  <2>2. /\ player' \in Item \cup {nil} /\ status' \in [Item -> Status]
        /\ observed' \in SUBSET Item
    BY DEF AudioInv, TypeOK, playWithURL, Unobserved, Status
  <2> QED
    BY <2>1, <2>2 DEF TypeOK
<1>3. PlayerObserved'
  BY DEF playWithURL, PlayerObserved
<1>4. RaisedIsStrict'
  BY <1>1 DEF AudioInv, RaisedIsStrict, playWithURL
<1> QED
  BY <1>2, <1>3, <1>4 DEF AudioInv

\* pause, resume and setRate: touch the rate alone.
LEMMA RateInv ==
    ASSUME AudioInv, NEW b \in BOOLEAN, SetPlaying(b)
    PROVE  AudioInv'
<1>1. TypeOK'
  BY DEF AudioInv, TypeOK, SetPlaying
<1> QED
  BY <1>1 DEF AudioInv, PlayerObserved, RaisedIsStrict, SetPlaying

\* stop drops the player with its observer; it raises on old systems only.
LEMMA StopInv ==
    ASSUME AudioInv, stop
    PROVE  AudioInv'
<1>1. TypeOK'
  <2>1. raised' \in BOOLEAN /\ muted' \in BOOLEAN /\ playing' \in BOOLEAN
        /\ mute' \in BOOLEAN /\ alive' \in BOOLEAN
    BY DEF AudioInv, TypeOK, stop
  <2>2. /\ player' \in Item \cup {nil} /\ status' \in [Item -> Status]
        /\ observed' \in SUBSET Item
    BY DEF AudioInv, TypeOK, stop, Unobserved
  <2> QED
    BY <2>1, <2>2 DEF TypeOK
<1> QED
  BY <1>1 DEF AudioInv, PlayerObserved, RaisedIsStrict, stop

\* setMute: touches no item and no observer.
LEMMA MuteInv ==
    ASSUME AudioInv, NEW b \in BOOLEAN, setMute(b)
    PROVE  AudioInv'
<1>1. TypeOK'
  BY DEF AudioInv, TypeOK, setMute
<1> QED
  BY <1>1 DEF AudioInv, PlayerObserved, RaisedIsStrict, setMute

\* dealloc removes the observer of an item that has it, and the player is gone.
LEMMA DeallocInv ==
    ASSUME AudioInv, dealloc
    PROVE  AudioInv'
<1>1. ~RaisesOnRemove
  BY DEF AudioInv, PlayerObserved, RaisesOnRemove
<1>2. TypeOK'
  <2>1. raised' \in BOOLEAN /\ muted' \in BOOLEAN /\ playing' \in BOOLEAN
        /\ mute' \in BOOLEAN /\ alive' \in BOOLEAN
    BY DEF AudioInv, TypeOK, dealloc
  <2>2. /\ player' \in Item \cup {nil} /\ status' \in [Item -> Status]
        /\ observed' \in SUBSET Item
    BY DEF AudioInv, TypeOK, dealloc, Unobserved
  <2> QED
    BY <2>1, <2>2 DEF TypeOK
<1> QED
  BY <1>1, <1>2 DEF AudioInv, PlayerObserved, RaisedIsStrict, dealloc

\* The status of an item touches no observer.
LEMMA LoadsInv ==
    ASSUME AudioInv, NEW i \in Item, ItemLoads(i)
    PROVE  AudioInv'
<1>1. PICK new \in Status : observeValue(i, new)
  BY DEF ItemLoads, Status
<1>2. TypeOK'
  <2>1. raised' \in BOOLEAN /\ muted' \in BOOLEAN /\ playing' \in BOOLEAN
        /\ mute' \in BOOLEAN /\ alive' \in BOOLEAN
    BY <1>1 DEF AudioInv, TypeOK, observeValue
  <2>2. /\ player' \in Item \cup {nil} /\ status' \in [Item -> Status]
        /\ observed' \in SUBSET Item
    BY <1>1 DEF AudioInv, TypeOK, observeValue
  <2> QED
    BY <2>1, <2>2 DEF TypeOK
<1> QED
  BY <1>1, <1>2
     DEF AudioInv, PlayerObserved, RaisedIsStrict, observeValue

\* AudioInv is inductive.
LEMMA AudioNextInv ==
    ASSUME AudioInv, [Next]_vars
    PROVE  AudioInv'
<1>1. CASE UNCHANGED vars
  BY <1>1
     DEF AudioInv, TypeOK, PlayerObserved, RaisedIsStrict, vars
<1>2. CASE \E i \in Item : ItemLoads(i)
  BY <1>2, LoadsInv
<1>3. CASE Client
  <2>1. CASE \E i \in Item : playWithURL(i)
    BY <2>1, PlayInv
  <2>2. CASE pause \/ resume
    BY <2>2, RateInv DEF pause, resume
  <2>3. CASE stop
    BY <2>3, StopInv
  <2>4. CASE dealloc
    BY <2>4, DeallocInv
  <2>5. ASSUME NEW b \in BOOLEAN, setRate(b) \/ setMute(b) \/ setVolume(b)
        PROVE  AudioInv'
    <3>1. CASE setRate(b)
      BY <3>1, RateInv DEF setRate
    <3>2. CASE setMute(b)
      BY <3>2, MuteInv
    <3>3. CASE setVolume(b)
      BY <1>1, <3>3, MuteInv DEF setVolume
    <3> QED
      BY <2>5, <3>1, <3>2, <3>3
  <2> QED
    BY <1>3, <2>1, <2>2, <2>3, <2>4, <2>5 DEF Client
<1> QED
  BY <1>1, <1>2, <1>3 DEF Next

----------------------------------------------------------------------------
(* The specification.                                                       *)

\* AudioInv holds in every state, on every system.
THEOREM AudioInvariance == Spec => []AudioInv
<1>1. AudioInv /\ [Next]_vars => AudioInv'
  BY AudioNextInv
<1> QED
  BY <1>1, AudioInitInv, PTL DEF Spec

\* The player, the items and the flags keep their types.
THEOREM AudioTypes == Spec => []TypeOK
BY AudioInvariance, PTL DEF AudioInv

\* On iOS 11 and later no order of playWithURL:, stop, dealloc and the status changes
\* of any number of items removes an observer that is not registered.
THEOREM AudioNeverRaises ==
    ASSUME ~StrictKVO
    PROVE  Spec => []NeverRaises
<1>1. AudioInv => NeverRaises
  BY DEF AudioInv, RaisedIsStrict, NeverRaises
<1> QED
  BY <1>1, AudioInvariance, PTL
================================================================================
