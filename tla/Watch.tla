------------------------------- MODULE Watch -------------------------------
(***************************************************************************)
(* The channels of one configuration after the other: handleConfig, which  *)
(* launches a goroutine per channel and waits for them; Watch, IsOnline    *)
(* and WaitForOnline with their retries; and the stages of Process, with   *)
(* the state and the notifications that tell of them.                      *)
(*                                                                         *)
(* What DownloadLiveStream does is left to LiveStream, and its outcome is  *)
(* any that LiveStream has.  Sleeps never look at the context.             *)
(***************************************************************************)
EXTENDS Naturals, FiniteSets

CONSTANTS
    Channels,        \* the channels of the configuration
    WaitForLive,     \* the parameter waitForLive of each channel
    Tries,           \* how many times IsOnline tries
    Delays,          \* the number of delays of the backoff of Watch
    MaxGenerations,  \* bound on the configurations
    Notified         \* the notifications that are enabled, and can be formatted

ASSUME ConstantsAssumption ==
    /\ IsFiniteSet(Channels)
    /\ WaitForLive \in [Channels -> BOOLEAN]
    /\ {Tries, Delays, MaxGenerations} \subseteq Nat \ {0}

VARIABLES
    generation,  \* the number of the configuration
    ctxDone,     \* its context is cancelled
    handler,     \* handleConfig: "launching" or "returned"
    crash,       \* the process: "no", or why it panicked
    pc,          \* where the goroutine of each channel is
    tries,       \* the tries of its IsOnline
    delayIndex,  \* its backoff in Watch
    result,      \* what its last DownloadLiveStream returned
    state,       \* DefaultState: the state of each channel
    announced,   \* the last notification about it
    late         \* the sleeps that the cancellation of ctx did not end

vars == <<generation, ctxDone, handler, crash, pc, tries, delayIndex, result, state,
          announced, late>>

\* time.Sleep, in try called by Watch or by WaitForOnline, between two polls,
\* and after a stream that cannot be accessed.
Sleeping == {"onlineSleep", "waitSleep", "pollSleep", "backoff"}
Recording == {"prepare", "download", "post"}

Init ==
    /\ generation = 1
    /\ ctxDone = FALSE
    /\ handler = "launching"
    /\ crash = "no"
    /\ pc = [c \in Channels |-> "none"]
    /\ tries = [c \in Channels |-> 0]
    /\ delayIndex = [c \in Channels |-> 0]
    /\ result = [c \in Channels |-> "nil"]
    /\ state = [c \in Channels |-> "Unspecified"]
    /\ announced = [c \in Channels |-> "none"]
    /\ late = [c \in Channels |-> 0]

-----------------------------------------------------------------------------
(* handleConfig.                                                           *)

Cancel ==
    /\ crash = "no"
    /\ handler = "launching"
    /\ ~ctxDone
    /\ ctxDone' = TRUE
    /\ late' = [c \in Channels |-> IF pc[c] \in Sleeping THEN 1 ELSE 0]
    /\ UNCHANGED <<generation, handler, crash, pc, tries, delayIndex, result, state,
                   announced>>

\* The loop over the channels does not look at ctx either.
Launch(c) ==
    /\ crash = "no"
    /\ handler = "launching"
    /\ pc[c] = "none"
    /\ pc' = [pc EXCEPT ![c] = "watch"]
    /\ UNCHANGED <<generation, ctxDone, handler, crash, tries, delayIndex, result, state,
                   announced, late>>

\* wg.Wait()
HandlerReturn ==
    /\ crash = "no"
    /\ handler = "launching"
    /\ \A c \in Channels : pc[c] = "done"
    /\ handler' = "returned"
    /\ UNCHANGED <<generation, ctxDone, crash, pc, tries, delayIndex, result, state,
                   announced, late>>

\* ConfigReloader launches handleConfig again; DefaultState is a global.
Restart ==
    /\ crash = "no"
    /\ handler = "returned"
    /\ generation < MaxGenerations
    /\ generation' = generation + 1
    /\ ctxDone' = FALSE
    /\ handler' = "launching"
    /\ pc' = [c \in Channels |-> "none"]
    /\ tries' = [c \in Channels |-> 0]
    /\ delayIndex' = [c \in Channels |-> 0]
    /\ result' = [c \in Channels |-> "nil"]
    /\ late' = [c \in Channels |-> 0]
    /\ UNCHANGED <<crash, state, announced>>

\* The goroutine of a channel whose Watch returned.  A panic outside of the
\* goroutine of handleConfig is not recovered: the process ends.
Stopped(c) ==
    /\ pc[c] = "stopped"
    /\ IF ctxDone
       THEN pc' = [pc EXCEPT ![c] = "done"] /\ UNCHANGED crash
       ELSE crash' = "watch" /\ UNCHANGED pc
    /\ UNCHANGED <<generation, ctxDone, handler, tries, delayIndex, result, state,
                   announced, late>>

-----------------------------------------------------------------------------
(* The state and the notifications.                                        *)

SetChannelState(c, s) == state' = [state EXCEPT ![c] = s]

Notify(c, kind) ==
    announced' = [announced EXCEPT ![c] = IF kind \in Notified THEN kind ELSE @]

NotifyIdle(c) == Notify(c, "idle")
NotifyPreparingFiles(c) == Notify(c, "preparingFiles")
NotifyDownloading(c) == Notify(c, "downloading")
NotifyPostProcessing(c) == Notify(c, "postProcessing")
NotifyFinished(c) == Notify(c, "finished")
NotifyError(c) == Notify(c, "error")
NotifyCanceled(c) == Notify(c, "canceled")

Goto(c, p) ==
    /\ pc' = [pc EXCEPT ![c] = p]
    /\ late' = [late EXCEPT ![c] = IF p \in Sleeping /\ ctxDone THEN @ + 1 ELSE @]

-----------------------------------------------------------------------------
(* Watch and IsOnline.  "online" and "wait" are the calls of IsOnline by   *)
(* Watch and by WaitForOnline.                                             *)

WatchIdle(c) ==
    /\ pc[c] = "watch"
    /\ SetChannelState(c, "Idle")
    /\ NotifyIdle(c)
    /\ tries' = [tries EXCEPT ![c] = 0]
    /\ Goto(c, "online")
    /\ UNCHANGED <<delayIndex, result, crash>>

Begin(c) ==
    /\ SetChannelState(c, "PreparingFiles")
    /\ NotifyPreparingFiles(c)
    /\ Goto(c, "prepare")

Publishes(c) ==
    /\ pc[c] \in {"online", "wait"}
    /\ ~ctxDone
    /\ Begin(c)
    /\ UNCHANGED <<tries, delayIndex, result, crash>>

\* Slip: Watch goes on after Canceled, as it does after the other errors.
CanceledContinues(c) ==
    /\ pc[c] \in {"online", "wait"}
    /\ ctxDone
    /\ Goto(c, "watch")
    /\ UNCHANGED <<tries, delayIndex, result, state, announced, crash>>

\* GetMeta fails with Canceled, which is not tried again: Watch returns nil.
CheckCanceled(c) ==
    /\ pc[c] \in {"online", "wait"}
    /\ ctxDone
    /\ Goto(c, "stopped")
    /\ UNCHANGED <<tries, delayIndex, result, state, announced, crash>>

\* A channel of which Watch does not know that it is online.
NotOnline(c) == Goto(c, IF WaitForLive[c] THEN "wait" ELSE "stopped")

\* Not published, or GetMeta fails with most of its errors.
Offline(c) ==
    /\ ~ctxDone
    /\ \/ pc[c] = "online" /\ NotOnline(c)
       \/ pc[c] = "wait" /\ Goto(c, "pollSleep")
    /\ tries' = [tries EXCEPT ![c] = 0]
    /\ UNCHANGED <<delayIndex, result, state, announced, crash>>

\* Slip: Canceled is tried again, like any error.
CheckFailsCanceledToo(c) ==
    /\ \/ pc[c] = "online" /\ Goto(c, "onlineSleep")
       \/ pc[c] = "wait" /\ Goto(c, "waitSleep")
    /\ tries' = [tries EXCEPT ![c] = @ + 1]
    /\ UNCHANGED <<delayIndex, result, state, announced, crash>>

\* ErrRateLimit, or any error of GetWebSocketURL: try sleeps after every try,
\* the last one included.
CheckFails(c) ==
    /\ ~ctxDone
    /\ \/ pc[c] = "online" /\ Goto(c, "onlineSleep")
       \/ pc[c] = "wait" /\ Goto(c, "waitSleep")
    /\ tries' = [tries EXCEPT ![c] = @ + 1]
    /\ UNCHANGED <<delayIndex, result, state, announced, crash>>

\* Slip: Watch returns on every error of WaitForOnline.
WakeReturns(c) ==
    /\ \/ pc[c] = "onlineSleep" /\ (IF tries[c] < Tries THEN Goto(c, "online") ELSE NotOnline(c))
       \/ pc[c] = "waitSleep" /\ Goto(c, IF tries[c] < Tries THEN "wait" ELSE "stopped")
       \/ pc[c] = "pollSleep" /\ Goto(c, "wait")
    /\ tries' = [tries EXCEPT ![c] = IF @ < Tries THEN @ ELSE 0]
    /\ UNCHANGED <<delayIndex, result, state, announced, crash>>

\* After the last try, Watch takes the channel for offline, and goes on after
\* an error of WaitForOnline.
Wake(c) ==
    /\ \/ pc[c] = "onlineSleep" /\ (IF tries[c] < Tries THEN Goto(c, "online") ELSE NotOnline(c))
       \/ pc[c] = "waitSleep" /\ Goto(c, IF tries[c] < Tries THEN "wait" ELSE "watch")
       \/ pc[c] = "pollSleep" /\ Goto(c, "wait")
    /\ tries' = [tries EXCEPT ![c] = IF @ < Tries THEN @ ELSE 0]
    /\ UNCHANGED <<delayIndex, result, state, announced, crash>>

\* Slip: the index is not capped.
WakeBackoffFurther(c) ==
    /\ pc[c] = "backoff"
    /\ delayIndex' = [delayIndex EXCEPT ![c] = @ + 1]
    /\ Goto(c, "watch")
    /\ UNCHANGED <<tries, result, state, announced, crash>>

\* The delays double up to the last of them.
WakeBackoff(c) ==
    /\ pc[c] = "backoff"
    /\ delayIndex' = [delayIndex EXCEPT ![c] = IF @ < Delays - 1 THEN @ + 1 ELSE @]
    /\ Goto(c, "watch")
    /\ UNCHANGED <<tries, result, state, announced, crash>>

-----------------------------------------------------------------------------
(* Process.                                                                *)

FilesPrepared(c) ==
    /\ pc[c] = "prepare"
    /\ SetChannelState(c, "Downloading")
    /\ NotifyDownloading(c)
    /\ Goto(c, "download")
    /\ UNCHANGED <<tries, delayIndex, result, crash>>

\* Outcomes of DownloadLiveStream: "login" for a stream that requires a login or
\* is paid.  It may be "canceled" although ctx is not.
Downloaded(c) ==
    /\ pc[c] = "download"
    /\ \E r \in {"nil", "error", "login", "canceled"} :
         result' = [result EXCEPT ![c] = r]
    /\ SetChannelState(c, "PostProcessing")
    /\ NotifyPostProcessing(c)
    /\ Goto(c, "post")
    /\ UNCHANGED <<tries, delayIndex, crash>>

SessionPanics(c) ==
    /\ pc[c] = "download"
    /\ crash' = "session"
    /\ UNCHANGED <<pc, tries, delayIndex, result, state, announced, late>>

-----------------------------------------------------------------------------
(* Watch again: what Process returned.                                     *)

Finished(c) ==
    /\ pc[c] = "post"
    /\ result[c] = "nil"
    /\ SetChannelState(c, "Finished")
    /\ NotifyFinished(c)
    /\ delayIndex' = [delayIndex EXCEPT ![c] = 0]
    /\ Goto(c, "watch")
    /\ UNCHANGED <<tries, result, crash>>

\* Slip: nothing is announced of a recording that was canceled.
CanceledSilently(c) ==
    /\ pc[c] = "post"
    /\ result[c] = "canceled"
    /\ SetChannelState(c, "Canceled")
    /\ Goto(c, "stopped")
    /\ UNCHANGED <<announced, tries, delayIndex, result, crash>>

Canceled(c) ==
    /\ pc[c] = "post"
    /\ result[c] = "canceled"
    /\ IF state[c] # "Idle"
       THEN SetChannelState(c, "Canceled") /\ NotifyCanceled(c)
       ELSE UNCHANGED <<state, announced>>
    /\ Goto(c, "stopped")
    /\ UNCHANGED <<tries, delayIndex, result, crash>>

\* SetChannelError keeps the state: it is the one of the last stage until the
\* end of the backoff.
Failed(c) ==
    /\ \/ pc[c] = "post" /\ result[c] = "login" /\ Goto(c, "backoff")
       \/ pc[c] = "post" /\ result[c] = "error" /\ Goto(c, "watch")
       \/ pc[c] = "prepare" /\ Goto(c, "watch")
    /\ NotifyError(c)
    /\ UNCHANGED <<tries, delayIndex, result, state, crash>>

-----------------------------------------------------------------------------
\* The steps that need neither the server nor the end of a stream.
Step(c) ==
    /\ crash = "no"
    /\ \/ Stopped(c)
       \/ /\ \/ WatchIdle(c) \/ CheckCanceled(c) \/ Wake(c) \/ WakeBackoff(c)
             \/ FilesPrepared(c) \/ Finished(c) \/ Canceled(c) \/ Failed(c)
          /\ UNCHANGED <<generation, ctxDone, handler>>

\* The answers of the server, and the end of the stream.
Outside(c) ==
    /\ crash = "no"
    /\ \/ Publishes(c) \/ Offline(c) \/ CheckFails(c) \/ Downloaded(c) \/ SessionPanics(c)
    /\ UNCHANGED <<generation, ctxDone, handler>>

\* The process ended, or nothing is left to do at this bound.
Terminated ==
    /\ crash # "no" \/ handler = "returned"
    /\ UNCHANGED vars

Next ==
    \/ Cancel \/ HandlerReturn \/ Restart \/ Terminated
    \/ \E c \in Channels : Launch(c) \/ Step(c) \/ Outside(c)

(***************************************************************************)
(* Fairness: the goroutines go on, sleeps end, requests are answered, and  *)
(* a session ends once it is cancelled, as LiveStream shows.               *)
(***************************************************************************)
Spec == Init /\ [][Next]_vars

FairSpec ==
    /\ Spec
    /\ WF_vars(HandlerReturn)
    /\ \A c \in Channels :
         /\ WF_vars(Launch(c))
         /\ WF_vars(Step(c))
         /\ WF_vars((pc[c] # "download" \/ ctxDone) /\ Outside(c))

-----------------------------------------------------------------------------
(* Properties.                                                             *)

\* The type of the state; delays[delayIndex] is within bounds.
TypeOK ==
    /\ generation \in 1 .. MaxGenerations
    /\ ctxDone \in BOOLEAN
    /\ handler \in {"launching", "returned"}
    /\ crash \in {"no", "watch", "session"}
    /\ pc \in [Channels -> {"none", "watch", "online", "wait", "stopped", "done"}
                           \cup Sleeping \cup Recording]
    /\ tries \in [Channels -> 0 .. Tries]
    /\ delayIndex \in [Channels -> 0 .. Delays - 1]
    /\ result \in [Channels -> {"nil", "error", "login", "canceled"}]
    /\ state \in [Channels -> {"Unspecified", "Idle", "PreparingFiles", "Downloading",
                               "PostProcessing", "Finished", "Canceled"}]
    /\ announced \in [Channels -> Notified \cup {"none"}]
    /\ late \in [Channels -> 0 .. Tries]

(***************************************************************************)
(* What is shown and announced of each channel, over the retries, the      *)
(* backoff, the cancellations and the restarts, is a life of ChannelLife.  *)
(***************************************************************************)
Life == INSTANCE ChannelLife WITH
    recording <- [c \in Channels |-> pc[c] \in Recording]

LifeCycle == Life!Spec

(***************************************************************************)
(* "The only exit conditions": the process only panics about a channel     *)
(* that was not to be waited for, or whose session took itself for         *)
(* canceled; an error of the server never ends the other channels.         *)
(***************************************************************************)
PanicExplained ==
    crash = "watch" => \E c \in Channels : /\ pc[c] = "stopped"
                                           /\ ~WaitForLive[c] \/ result[c] = "canceled"

(***************************************************************************)
(* A channel that was cancelled sleeps once more at most, whatever it was  *)
(* doing: the 30 seconds of ConfigReloader are to be compared with one     *)
(* sleep, not with the sum of the retries.                                 *)
(***************************************************************************)
OneLateSleep == \A c \in Channels : late[c] <= 1

(***************************************************************************)
(* handleConfig returns after its context was cancelled, unless the        *)
(* process ends before: every sleep, retry and session comes to an end.    *)
(***************************************************************************)
WatchStops == ctxDone ~> (handler = "returned" \/ crash # "no")
=============================================================================
