------------------------------ MODULE ZFAudioPlayer ------------------------------
(****************************************************************************)
(* ZFAudioPlayer: one AVPlayer at a time, which starts to play when the     *)
(* key-value observation of its item's status reports that it is ready.     *)
(*                                                                          *)
(* AVPlayer and AVPlayerItem are outside the repository: the AVPlayer alone *)
(* holds its item, which leaves status Unknown once and is released with    *)
(* the player.  Removing an observer that is not registered raises, and so  *)
(* does, before iOS 11, the release of an item that is still observed.      *)
(* Item also bounds the number of playWithURL: calls.  The position that    *)
(* the seek methods move is the AVPlayer's own and is left out.             *)
(****************************************************************************)
CONSTANTS
    Item,        \* the AVPlayerItems, one for each playWithURL: call
    StrictKVO,   \* the system is older than iOS 11
    nil

ASSUME AudioAssumption == nil \notin Item /\ StrictKVO \in BOOLEAN

VARIABLES
    player,     \* the item of the current AVPlayer, or nil when there is none
    status,     \* AVPlayerItemStatus of each item, "Unmade" before it exists
    observed,   \* the items whose status the ZFAudioPlayer observes
    playing,    \* the rate of the AVPlayer is not 0
    muted,      \* muted of the AVPlayer
    mute,       \* the property mute
    raised,     \* an exception was raised
    alive       \* the ZFAudioPlayer was not deallocated

vars == <<player, status, observed, playing, muted, mute, raised, alive>>

Status == {"Unmade", "Unknown", "ReadyToPlay", "Failed"}

----------------------------------------------------------------------------

\* Mutant of Unobserved: addObserver: where removeObserver: belongs.
UnobservedSwapped == observed \cup {player}

\* removeObserver: on the current item; a message to nil does nothing.
Unobserved == observed \ {player}

RaisesOnRemove == player # nil /\ player \notin observed

\* A new item is observed, and a new AVPlayer, paused and not muted, holds it.
playWithURL(i) ==
    /\ status[i] = "Unmade"
    /\ observed' = Unobserved \cup {i}
    /\ raised' = (raised \/ RaisesOnRemove)
    /\ status' = [status EXCEPT ![i] = "Unknown"]
    /\ player' = i /\ playing' = FALSE /\ muted' = FALSE
    /\ UNCHANGED <<mute, alive>>

\* Messages to the player do nothing when it is nil.
SetPlaying(b) ==
    /\ playing' = (player # nil /\ b)
    /\ UNCHANGED <<player, status, observed, muted, mute, raised, alive>>

pause == SetPlaying(FALSE)

resume == SetPlaying(TRUE)

\* Any rate but 0 makes the AVPlayer play.
setRate(stopped) == SetPlaying(~stopped)

\* Mutant of stop: the observer is removed and the player is kept.
stopKeepsPlayer ==
    /\ playing' = FALSE /\ observed' = Unobserved
    /\ UNCHANGED <<player, status, muted, mute, raised, alive>>

\* The player is released, and its item with it, although it is observed.
stop ==
    /\ player' = nil /\ playing' = FALSE /\ muted' = FALSE
    /\ observed' = Unobserved
    /\ raised' = (raised \/ (StrictKVO /\ player \in observed))
    /\ UNCHANGED <<status, mute, alive>>

setMute(b) ==
    /\ mute' = b
    /\ muted' = (player # nil /\ b)
    /\ UNCHANGED <<player, status, observed, playing, raised, alive>>

\* A volume above 0 ends muting; the volume itself is the AVPlayer's.
setVolume(silent) == IF silent THEN UNCHANGED vars ELSE setMute(FALSE)

dealloc ==
    /\ observed' = Unobserved
    /\ raised' = (raised \/ RaisesOnRemove)
    /\ alive' = FALSE
    /\ player' = nil /\ playing' = FALSE /\ muted' = FALSE
    /\ UNCHANGED <<status, mute>>

\* Mutant of observeValue: the change to ready is not acted on.
observeValueIgnored(i, new) ==
    /\ player = i /\ status[i] = "Unknown"
    /\ status' = [status EXCEPT ![i] = new]
    /\ UNCHANGED <<player, observed, playing, muted, mute, raised, alive>>

\* The status of the item changes; if it is observed, observeValueForKeyPath:
\* runs, which plays the player.
observeValue(i, new) ==
    /\ player = i /\ status[i] = "Unknown"
    /\ status' = [status EXCEPT ![i] = new]
    /\ playing' = (playing \/ (i \in observed /\ new = "ReadyToPlay"))
    /\ UNCHANGED <<player, observed, muted, mute, raised, alive>>

ItemLoads(i) == observeValue(i, "ReadyToPlay") \/ observeValue(i, "Failed")

----------------------------------------------------------------------------

Init ==
    /\ player = nil /\ playing = FALSE /\ muted = FALSE /\ mute = FALSE
    /\ status = [i \in Item |-> "Unmade"]
    /\ observed = {}
    /\ raised = FALSE /\ alive = TRUE

Client ==
    \/ \E i \in Item : playWithURL(i)
    \/ pause \/ resume \/ stop \/ dealloc
    \/ \E b \in BOOLEAN : setRate(b) \/ setMute(b) \/ setVolume(b)

Next ==
    \/ alive /\ ~raised /\ Client
    \/ \E i \in Item : ItemLoads(i)

\* AVFoundation decides the status of the item that the player holds.
Fairness == \A i \in Item : WF_vars(ItemLoads(i))

Spec == Init /\ [][Next]_vars /\ Fairness

----------------------------------------------------------------------------
(* Properties.                                                              *)

\* The player, the items and the flags have their types.
TypeOK ==
    /\ player \in Item \cup {nil}
    /\ status \in [Item -> Status]
    /\ observed \in SUBSET Item
    /\ {playing, muted, mute, raised, alive} \subseteq BOOLEAN

\* playWithURL:, stop and dealloc, in any order, never remove an observer from an
\* item that has none; on iOS 11 and later, where an observed item may be released,
\* nothing is raised.
NeverRaises == ~raised

\* playWithURL: leads to playback: when the item is ready it plays, unless it
\* failed or another call dropped it first.
ReadyPlays ==
    \A i \in Item :
        (player = i /\ status[i] = "Unknown") ~>
            (playing \/ status[i] = "Failed" \/ player # i)

=============================================================================
