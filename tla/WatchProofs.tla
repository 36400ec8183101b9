----------------------------- MODULE WatchProofs -----------------------------
(***************************************************************************)
(* Proofs about Watch, for any set of channels, any number of tries and    *)
(* delays, and any choice of notifications.                                *)
(*                                                                         *)
(* None of the properties is inductive: why a Watch returned, and whether  *)
(* a sleep may still come, depends on the stage the channel is in.  The    *)
(* conjuncts of IInv say, channel by channel, what a stage implies for the *)
(* tries, the late sleeps, the result and the state that is shown.         *)
(***************************************************************************)
EXTENDS Watch, TLAPS

\* IsOnline only asks again while it has tries left.
TriesLeft == \A c \in Channels : pc[c] \in {"online", "wait"} => tries[c] < Tries

\* Only a cancellation makes a sleep late, and a recording has none behind it.
LateSleeps ==
    \A c \in Channels : /\ late[c] <= 1
                        /\ ~ctxDone => late[c] = 0
                        /\ pc[c] \in Recording \cup {"none"} => late[c] = 0

\* Why a Watch returns.
StoppedExplained ==
    \A c \in Channels :
        pc[c] = "stopped" => ctxDone \/ ~WaitForLive[c] \/ result[c] = "canceled"

\* The state that is shown is the one of the stage.
Waiting == {"online", "wait", "onlineSleep", "waitSleep", "pollSleep"}

StateOfStage ==
    \A c \in Channels : /\ pc[c] \in Waiting => state[c] = "Idle"
                        /\ pc[c] = "prepare" => state[c] = "PreparingFiles"
                        /\ pc[c] = "download" => state[c] = "Downloading"
                        /\ pc[c] = "post" => state[c] = "PostProcessing"

\* handleConfig waited for all the channels.
ReturnedDone == handler = "returned" => \A c \in Channels : pc[c] = "done"

\* The inductive invariant.
IInv ==
    /\ TypeOK
    /\ TriesLeft
    /\ LateSleeps
    /\ StoppedExplained
    /\ StateOfStage
    /\ ReturnedDone
    /\ PanicExplained

USE ConstantsAssumption DEF ConstantsAssumption

LEMMA Bounds ==
    /\ 0 \in 0 .. Tries /\ 1 \in 0 .. Tries /\ 0 < Tries
    /\ 0 \in 0 .. Delays - 1
    /\ 1 \in 1 .. MaxGenerations
    /\ \A g \in 1 .. MaxGenerations :
         g < MaxGenerations => g + 1 \in 1 .. MaxGenerations
<1>1. Tries \in Nat \ {0} /\ Delays \in Nat \ {0} /\ MaxGenerations \in Nat \ {0}
  OBVIOUS
<1> QED
  BY <1>1

LEMMA InitIInv == Init => IInv
<1> SUFFICES ASSUME Init PROVE IInv
  OBVIOUS
<1> USE DEF Init
<1>1. TypeOK
  BY Bounds, Zenon DEF TypeOK
<1>2. TriesLeft /\ LateSleeps /\ StoppedExplained /\ StateOfStage
  BY DEF TriesLeft, LateSleeps, StoppedExplained, StateOfStage, Waiting, Recording
<1>3. ReturnedDone /\ PanicExplained
  BY DEF ReturnedDone, PanicExplained
<1> QED
  BY <1>1, <1>2, <1>3 DEF IInv

-----------------------------------------------------------------------------
(* The steps.                                                              *)

\* A step of handleConfig, or of its successor.
LEMMA HandlerStep ==
    ASSUME IInv, Cancel \/ HandlerReturn \/ Restart
    PROVE  IInv'
<1> USE DEF IInv, TypeOK, TriesLeft, LateSleeps, StoppedExplained, StateOfStage, Waiting,
            ReturnedDone, PanicExplained, Sleeping, Recording
<1>1. CASE Cancel
  BY <1>1 DEF Cancel
<1>2. CASE HandlerReturn
  BY <1>2 DEF HandlerReturn
<1>3. CASE Restart
  <2> USE <1>3 DEF Restart
  <2>1. /\ generation' \in 1 .. MaxGenerations /\ ctxDone' \in BOOLEAN
        /\ handler' \in {"launching", "returned"} /\ crash' \in {"no", "watch", "session"}
    BY Bounds
  <2>2. pc' \in [Channels -> {"none", "watch", "online", "wait", "stopped", "done"}
                              \cup Sleeping \cup Recording]
    OBVIOUS
  <2>3. tries' \in [Channels -> 0 .. Tries] /\ late' \in [Channels -> 0 .. Tries]
    BY Bounds, Zenon
  <2>4. delayIndex' \in [Channels -> 0 .. Delays - 1]
    BY Bounds, Zenon
  <2>5. result' \in [Channels -> {"nil", "error", "login", "canceled"}]
    OBVIOUS
  <2>6. TypeOK'
    BY <2>1, <2>2, <2>3, <2>4, <2>5
  <2>7. (TriesLeft /\ LateSleeps /\ StoppedExplained /\ StateOfStage)'
    OBVIOUS
  <2>8. (ReturnedDone /\ PanicExplained)'
    OBVIOUS
  <2> QED
    BY <2>6, <2>7, <2>8
<1> QED
  BY <1>1, <1>2, <1>3

\* The goroutine of a channel starts, or ends.
LEMMA ChannelStep ==
    ASSUME IInv, NEW c \in Channels, crash = "no", Launch(c) \/ Stopped(c)
    PROVE  IInv'
<1> USE DEF IInv, TypeOK, TriesLeft, LateSleeps, StoppedExplained, StateOfStage, Waiting,
            ReturnedDone, PanicExplained, Sleeping, Recording
<1>1. CASE Launch(c)
  BY <1>1 DEF Launch
<1>2. CASE Stopped(c)
  BY <1>2 DEF Stopped
<1> QED
  BY <1>1, <1>2

\* A step of Watch, IsOnline or WaitForOnline.
LEMMA WatchStep ==
    ASSUME IInv, NEW c \in Channels, crash = "no",
           \/ WatchIdle(c) \/ Publishes(c) \/ CheckCanceled(c) \/ Offline(c)
           \/ CheckFails(c) \/ Wake(c) \/ WakeBackoff(c)
           \/ Finished(c) \/ Canceled(c) \/ Failed(c),
           UNCHANGED <<generation, ctxDone, handler>>
    PROVE  IInv'
<1> USE DEF IInv, TypeOK, TriesLeft, LateSleeps, StoppedExplained, StateOfStage, Waiting,
            ReturnedDone, PanicExplained, Sleeping, Recording, Goto, Notify, SetChannelState
<1>1. CASE WatchIdle(c)
  BY <1>1 DEF WatchIdle, NotifyIdle
<1>2. CASE Publishes(c)
  BY <1>2 DEF Publishes, Begin, NotifyPreparingFiles
<1>3. CASE CheckCanceled(c)
  BY <1>3 DEF CheckCanceled
<1>4. CASE Offline(c)
  BY <1>4 DEF Offline, NotOnline
<1>5. CASE CheckFails(c)
  BY <1>5 DEF CheckFails
<1>6. CASE Wake(c)
  BY <1>6 DEF Wake, NotOnline
<1>7. CASE WakeBackoff(c)
  BY <1>7 DEF WakeBackoff
<1>8. CASE Finished(c)
  BY <1>8 DEF Finished, NotifyFinished
<1>9. CASE Canceled(c)
  BY <1>9 DEF Canceled, NotifyCanceled
<1>10. CASE Failed(c)
  BY <1>10 DEF Failed, NotifyError
<1> QED
  BY <1>1, <1>2, <1>3, <1>4, <1>5, <1>6, <1>7, <1>8, <1>9, <1>10

\* A step of Process.
LEMMA ProcessStep ==
    ASSUME IInv, NEW c \in Channels, crash = "no",
           FilesPrepared(c) \/ Downloaded(c) \/ SessionPanics(c),
           UNCHANGED <<generation, ctxDone, handler>>
    PROVE  IInv'
<1> USE DEF IInv, TypeOK, TriesLeft, LateSleeps, StoppedExplained, StateOfStage, Waiting,
            ReturnedDone, PanicExplained, Sleeping, Recording, Goto, Notify, SetChannelState
<1>1. CASE FilesPrepared(c)
  BY <1>1 DEF FilesPrepared, NotifyDownloading
<1>2. CASE Downloaded(c)
  BY <1>2 DEF Downloaded, NotifyPostProcessing
<1>3. CASE SessionPanics(c)
  BY <1>3 DEF SessionPanics
<1> QED
  BY <1>1, <1>2, <1>3

LEMMA NextIInv == IInv /\ [Next]_vars => IInv'
<1> SUFFICES ASSUME IInv, [Next]_vars PROVE IInv'
  OBVIOUS
<1>1. CASE UNCHANGED vars
  BY <1>1 DEF vars, IInv, TypeOK, TriesLeft, LateSleeps, StoppedExplained, StateOfStage,
              Waiting, ReturnedDone, PanicExplained
<1>2. CASE Cancel \/ HandlerReturn \/ Restart
  BY <1>2, HandlerStep
<1>3. ASSUME NEW c \in Channels, Launch(c) PROVE IInv'
  BY <1>3, ChannelStep DEF Launch
<1>4. ASSUME NEW c \in Channels, Step(c) PROVE IInv'
  BY <1>4, ChannelStep, WatchStep, ProcessStep DEF Step
<1>5. ASSUME NEW c \in Channels, Outside(c) PROVE IInv'
  BY <1>5, WatchStep, ProcessStep DEF Outside
<1> QED
  BY <1>1, <1>2, <1>3, <1>4, <1>5 DEF Next, Terminated

\* The inductive invariant holds in every reachable state.
THEOREM Invariance == Spec => []IInv
<1> QED
  BY InitIInv, NextIInv, PTL DEF Spec

(***************************************************************************)
(* Every variable keeps its type; the index into the delays of the backoff *)
(* of Watch is within bounds after any number of streams that could not be *)
(* accessed.                                                               *)
(***************************************************************************)
THEOREM TypeCorrect == Spec => []TypeOK
<1>1. IInv => TypeOK
  BY DEF IInv
<1> QED
  BY <1>1, Invariance, PTL

(***************************************************************************)
(* However many tries, delays and channels there are, a goroutine of a     *)
(* channel sleeps at most once after its context was cancelled.            *)
(***************************************************************************)
THEOREM SleepsOnce == Spec => []OneLateSleep
<1>1. IInv => OneLateSleep
  BY DEF IInv, LateSleeps, OneLateSleep
<1> QED
  BY <1>1, Invariance, PTL

(***************************************************************************)
(* The panic after Watch only tells of a channel that was not to be waited *)
(* for, or of a session that took itself for canceled.                     *)
(***************************************************************************)
THEOREM PanicIsExplained == Spec => []PanicExplained
<1>1. IInv => PanicExplained
  BY DEF IInv
<1> QED
  BY <1>1, Invariance, PTL

-----------------------------------------------------------------------------
(* The refinement.                                                         *)

LEMMA InitLife == Init => Life!Init
<1> SUFFICES ASSUME Init PROVE Life!Init
  OBVIOUS
<1>1. \A c \in Channels : (pc[c] \in Recording) = FALSE
  BY DEF Init, Recording
<1>2. [c \in Channels |-> pc[c] \in Recording] = [c \in Channels |-> FALSE]
  BY <1>1, Zenon
<1> QED
  BY <1>2 DEF Init, Life!Init

Recorded == [c \in Channels |-> pc[c] \in Recording]

\* The channels that are being recorded, after a step of one of them.
LEMMA RecordedMoves ==
    ASSUME NEW c \in Channels, NEW p, pc' = [pc EXCEPT ![c] = p],
           DOMAIN pc = Channels
    PROVE  Recorded' = [Recorded EXCEPT ![c] = p \in Recording]
<1>1. \A d \in Channels :
        Recorded'[d] = [Recorded EXCEPT ![c] = p \in Recording][d]
  BY Zenon DEF Recorded
<1> QED
  BY <1>1, Zenon DEF Recorded

LEMMA RecordedKept ==
    ASSUME \A c \in Channels : (pc'[c] \in Recording) = (pc[c] \in Recording)
    PROVE  UNCHANGED Recorded
  BY Zenon DEF Recorded

\* A step that shows nothing, and in which no recording begins or ends.
LEMMA Silent ==
    ASSUME UNCHANGED <<state, announced>>,
           \A c \in Channels : (pc'[c] \in Recording) = (pc[c] \in Recording)
    PROVE  UNCHANGED Life!vars
  BY Zenon DEF Life!vars

\* A step of a channel is a step of its life, or nothing that is shown.
LEMMA StepLife ==
    ASSUME IInv, NEW c \in Channels, Launch(c) \/ Step(c) \/ Outside(c)
    PROVE  Life!Next \/ UNCHANGED Life!vars
<1> USE DEF Sleeping, Recording, Goto, Notify, SetChannelState
<1>types. /\ pc \in [Channels -> {"none", "watch", "online", "wait", "stopped", "done"}
                                   \cup Sleeping \cup Recording]
          /\ state = [d \in Channels |-> state[d]]
          /\ announced = [d \in Channels |-> announced[d]]
          /\ StateOfStage
  BY DEF IInv, TypeOK
<1>1. CASE Launch(c) \/ Stopped(c) \/ CheckCanceled(c) \/ Offline(c) \/ CheckFails(c)
           \/ Wake(c) \/ WakeBackoff(c) \/ SessionPanics(c)
  <2>1. UNCHANGED <<state, announced>>
    BY <1>1 DEF Launch, Stopped, CheckCanceled, Offline, CheckFails, Wake, WakeBackoff,
                SessionPanics, NotOnline
  <2>2. \A d \in Channels : (pc'[d] \in Recording) = (pc[d] \in Recording)
    BY <1>1, <1>types DEF Launch, Stopped, CheckCanceled, Offline, CheckFails, Wake,
                          WakeBackoff, SessionPanics, NotOnline
  <2> QED
    BY <2>1, <2>2, Silent
<1>2. CASE WatchIdle(c)
  <2>1. pc[c] \notin Recording /\ UNCHANGED Recorded
    BY <1>2, <1>types, RecordedKept DEF WatchIdle
  <2>2. Life!Stage(c, {state[c]}, "Idle", "idle")
    BY <1>2 DEF WatchIdle, NotifyIdle, Life!Stage
  <2> QED
    BY <2>1, <2>2 DEF Life!Next, Life!Idle, Recorded
<1>3. CASE Publishes(c)
  <2>1. Life!Begin(c)
    BY <1>3, <1>types DEF Publishes, Begin, NotifyPreparingFiles, Life!Begin, Life!Stage,
                          StateOfStage, Waiting
  <2> QED
    BY <2>1 DEF Life!Next
<1>4. CASE FilesPrepared(c) \/ Downloaded(c)
  <2>1. pc[c] \in Recording /\ UNCHANGED Recorded
    BY <1>4, <1>types, RecordedKept DEF FilesPrepared, Downloaded
  <2>2. \/ Life!Stage(c, {"PreparingFiles"}, "Downloading", "downloading")
        \/ Life!Stage(c, {"Downloading"}, "PostProcessing", "postProcessing")
    BY <1>4, <1>types DEF FilesPrepared, Downloaded, NotifyDownloading,
                          NotifyPostProcessing, Life!Stage, StateOfStage
  <2> QED
    BY <2>1, <2>2 DEF Life!Next, Life!Progress, Recorded
<1>5. CASE Finished(c) \/ Canceled(c) \/ Failed(c)
  <2>1. pc[c] \in Recording
    BY <1>5 DEF Finished, Canceled, Failed
  <2>2. PICK p \in {"watch", "stopped", "backoff"} : pc' = [pc EXCEPT ![c] = p]
    BY <1>5 DEF Finished, Canceled, Failed
  <2>3. Recorded' = [Recorded EXCEPT ![c] = FALSE]
    <3>1. (p \in Recording) = FALSE
      BY <2>2
    <3> QED
      BY <2>2, <3>1, <1>types, RecordedMoves, Zenon
  <2>4. \/ Life!Stage(c, {"PostProcessing"}, "Finished", "finished")
        \/ Life!Stage(c, {"PostProcessing"}, "Canceled", "canceled")
        \/ Life!Stage(c, {"PreparingFiles", "PostProcessing"}, state[c], "error")
    BY <1>5, <1>types DEF Finished, Canceled, Failed, NotifyFinished, NotifyCanceled,
                          NotifyError, Life!Stage, StateOfStage
  <2> QED
    BY <2>1, <2>3, <2>4 DEF Life!Next, Life!End, Recorded
<1> QED
  BY <1>1, <1>2, <1>3, <1>4, <1>5 DEF Step, Outside

\* A step of handleConfig shows nothing.
LEMMA HandlerLife ==
    ASSUME IInv, Cancel \/ HandlerReturn \/ Restart \/ UNCHANGED vars
    PROVE  UNCHANGED Life!vars
<1>1. UNCHANGED <<state, announced>>
  BY DEF Cancel, HandlerReturn, Restart, vars
<1>2. \A d \in Channels : (pc'[d] \in Recording) = (pc[d] \in Recording)
  BY DEF Cancel, HandlerReturn, Restart, vars, IInv, ReturnedDone, Recording
<1> QED
  BY <1>1, <1>2, Silent

(***************************************************************************)
(* What is shown and announced of every channel is a life of ChannelLife,  *)
(* for any number of channels and configurations and any choice of         *)
(* notifications.                                                          *)
(***************************************************************************)
THEOREM Refinement == Spec => LifeCycle
<1>1. IInv /\ [Next]_vars => [Life!Next]_(Life!vars)
  <2> SUFFICES ASSUME IInv, [Next]_vars PROVE Life!Next \/ UNCHANGED Life!vars
    OBVIOUS
  <2>1. CASE Cancel \/ HandlerReturn \/ Restart \/ UNCHANGED vars
    BY <2>1, HandlerLife
  <2>2. CASE \E c \in Channels : Launch(c) \/ Step(c) \/ Outside(c)
    BY <2>2, StepLife
  <2> QED
    BY <2>1, <2>2 DEF Next, Terminated
<1> QED
  BY <1>1, InitLife, Invariance, PTL DEF Spec, LifeCycle, Life!Spec
=============================================================================
