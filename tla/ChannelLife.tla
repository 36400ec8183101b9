---------------------------- MODULE ChannelLife ----------------------------
(***************************************************************************)
(* What a user is promised about each channel, by the page that shows the  *)
(* states and by the notifications: a recording goes through its stages in *)
(* order; it ends with exactly one announcement, "finished", "error" or    *)
(* "canceled", before the channel is idle or recorded again; and nothing   *)
(* of the kind is announced when there was no recording.  The promise of   *)
(* Watch and Process in fc2/fc2.go, which Watch implements.                *)
(***************************************************************************)
CONSTANTS
    Channels,
    Notified   \* the notifications that are enabled

VARIABLES
    state,       \* the state that is shown of each channel
    announced,   \* the last notification about it
    recording    \* a recording of it is under way

vars == <<state, announced, recording>>

Init ==
    /\ state = [c \in Channels |-> "Unspecified"]
    /\ announced = [c \in Channels |-> "none"]
    /\ recording = [c \in Channels |-> FALSE]

Stage(c, from, to, kind) ==
    /\ state[c] \in from
    /\ state' = [state EXCEPT ![c] = to]
    /\ announced' = [announced EXCEPT ![c] = IF kind \in Notified THEN kind ELSE @]

\* The channel is watched, for the first time or again.
Idle(c) ==
    /\ ~recording[c]
    /\ Stage(c, {state[c]}, "Idle", "idle")
    /\ UNCHANGED recording

Begin(c) ==
    /\ ~recording[c]
    /\ Stage(c, {"Idle"}, "PreparingFiles", "preparingFiles")
    /\ recording' = [recording EXCEPT ![c] = TRUE]

Progress(c) ==
    /\ recording[c]
    /\ \/ Stage(c, {"PreparingFiles"}, "Downloading", "downloading")
       \/ Stage(c, {"Downloading"}, "PostProcessing", "postProcessing")
    /\ UNCHANGED recording

End(c) ==
    /\ recording[c]
    /\ \/ Stage(c, {"PostProcessing"}, "Finished", "finished")
       \/ Stage(c, {"PostProcessing"}, "Canceled", "canceled")
       \/ Stage(c, {"PreparingFiles", "PostProcessing"}, state[c], "error")
    /\ recording' = [recording EXCEPT ![c] = FALSE]

Next == \E c \in Channels : Idle(c) \/ Begin(c) \/ Progress(c) \/ End(c)

Spec == Init /\ [][Next]_vars
=============================================================================
