--------------------------- MODULE ConfigObserver ---------------------------
(***************************************************************************)
(* ObserveConfig and Debounce, composed with ConfigReloader: from a write  *)
(* of the config file to the handler that runs under it.  A version of the *)
(* file stands for its content and its modification time.                  *)
(*                                                                         *)
(* The watcher watches the file, not its name: once another file was       *)
(* renamed over it (an editor, a ConfigMap), it reports that and is dead.  *)
(***************************************************************************)
EXTENDS ConfigReloader

CONSTANTS
    MaxWrites,   \* bound on the versions of the file
    Broken       \* the versions that loadConfig cannot decode

ASSUME ObserverAssumption ==
    /\ MaxWrites \in Nat
    /\ MaxWrites <= MaxConfigs
    /\ Broken \subseteq 1 .. MaxWrites

VARIABLES
    file,         \* the version of the file, 0 if it does not exist
    reported,     \* the last version that was there when the watcher looked
    watch,        \* the watcher: "none", "on", or "lost" by a replacement
    events,       \* watcher.Events has an event
    debounce,     \* Debounce: "none", timer "armed", timer "stopped", "sending"
    observer,     \* where ObserveConfig is
    lastModTime,  \* the version of the last stat, 0 for the zero time
    config,       \* the last version that was loaded
    configOf      \* the version that each handler is given

fileVars == <<file, reported, watch, events>>
observerVars == <<debounce, observer, lastModTime, config, configOf>>
systemVars == <<vars, fileVars, observerVars>>

SystemInit ==
    /\ Init
    /\ file \in {0, 1} \cap 0 .. MaxWrites
    /\ reported = 0
    /\ watch = "none"
    /\ events = FALSE
    /\ debounce = "none"
    /\ observer = "stat"
    /\ lastModTime = 0
    /\ config = 0
    /\ configOf = [i \in Configs |-> 0]

\* The process is there: no log.Fatal, no panic, no return from main.
Running == loop \notin Dead \cup {"returned"} /\ observer # "panicked"

-----------------------------------------------------------------------------
(* The file, and the watcher.                                              *)

NewVersion ==
    /\ Running
    /\ file < MaxWrites
    /\ file' = file + 1
    /\ IF watch = "on"
       THEN events' = TRUE /\ reported' = file + 1
       ELSE UNCHANGED <<events, reported>>
    /\ UNCHANGED <<vars, observerVars>>

Write == NewVersion /\ UNCHANGED watch

\* A file is renamed over the one that is watched.
Replace == NewVersion /\ file # 0 /\ watch' = IF watch = "on" THEN "lost" ELSE watch

-----------------------------------------------------------------------------
(* Debounce: its timer runs from the start, so that it fires once without  *)
(* any event; it reads no event while it sends.                            *)

DebounceEvent ==
    /\ Running
    /\ events
    /\ debounce \in {"armed", "stopped"}
    /\ events' = FALSE
    /\ debounce' = "armed"
    /\ UNCHANGED <<vars, file, reported, watch, observer, lastModTime, config, configOf>>

DebounceFires ==
    /\ Running
    /\ debounce = "armed"
    /\ debounce' = "sending"
    /\ UNCHANGED <<vars, fileVars, observer, lastModTime, config, configOf>>

-----------------------------------------------------------------------------
(* ObserveConfig.                                                          *)

\* The initial load: os.Stat, then loadConfig, then the send, without ctx.
StatFirst ==
    /\ Running
    /\ observer = "stat"
    /\ lastModTime' = file
    /\ observer' = IF file = 0 THEN "add" ELSE "load"
    /\ UNCHANGED <<vars, fileVars, debounce, config, configOf>>

Load(sends, fails) ==
    /\ Running
    /\ IF file \in Broken
       THEN observer' = fails /\ UNCHANGED <<vars, config>>
       ELSE observer' = sends /\ config' = file /\ Offer
    /\ UNCHANGED <<fileVars, debounce, lastModTime, configOf>>

LoadFirst == observer = "load" /\ Load("sendFirst", "add")

\* Slip: the timer of Debounce is only started by an event.
AddWatcherIdle ==
    /\ Running
    /\ observer = "add"
    /\ IF file = 0
       THEN observer' = "panicked" /\ UNCHANGED <<watch, reported, debounce>>
       ELSE /\ observer' = "select"
            /\ watch' = "on"
            /\ reported' = file
            /\ debounce' = "stopped"
    /\ UNCHANGED <<vars, file, events, lastModTime, config, configOf>>

\* watcher.Add fails on a file that does not exist.
AddWatcher ==
    /\ Running
    /\ observer = "add"
    /\ IF file = 0
       THEN observer' = "panicked" /\ UNCHANGED <<watch, reported, debounce>>
       ELSE /\ observer' = "select"
            /\ watch' = "on"
            /\ reported' = file
            /\ debounce' = "armed"
    /\ UNCHANGED <<vars, file, events, lastModTime, config, configOf>>

\* <-debouncedEvents, then os.Stat.
Changed ==
    /\ Running
    /\ observer = "select"
    /\ debounce = "sending"
    /\ debounce' = "stopped"
    /\ observer' = IF file = lastModTime THEN "select" ELSE "reload"
    /\ lastModTime' = file
    /\ UNCHANGED <<vars, fileVars, config, configOf>>

LoadNext == observer = "reload" /\ Load("send", "select")

\* configChan is unbuffered: the send and the receive are one step.
Receive ==
    /\ Running
    /\ ReceiveFirst \/ ReceiveNext
    /\ configOf' = [configOf EXCEPT ![current + 1] = config]
    /\ observer' = IF observer = "sendFirst" THEN "add" ELSE "select"
    /\ UNCHANGED <<fileVars, debounce, lastModTime, config>>

\* <-ctx.Done(), in the loop or instead of the send.
ObserverReturns ==
    /\ Running
    /\ observer \in {"select", "send"}
    /\ IF observer = "send" THEN Withdraw ELSE parentDone /\ UNCHANGED vars
    /\ observer' = "returned"
    /\ UNCHANGED <<fileVars, debounce, lastModTime, config, configOf>>

Observer == StatFirst \/ LoadFirst \/ AddWatcher \/ Changed \/ LoadNext
            \/ ObserverReturns

-----------------------------------------------------------------------------
\* The steps of ConfigReloader and of the handlers that are not a receive.
OtherReload ==
    /\ Running
    /\ ReloadDone \/ Shutdown \/ ShutdownDone \/ DoneTimeout
    /\ UNCHANGED <<fileVars, observerVars>>

HandlerStep(i) == Running /\ Handler(i) /\ UNCHANGED <<fileVars, observerVars>>

Cancel == Running /\ ParentCancel /\ UNCHANGED <<fileVars, observerVars>>

Ended == ~Running /\ UNCHANGED systemVars

SystemNext ==
    \/ Write \/ Replace \/ DebounceEvent \/ DebounceFires
    \/ Observer \/ Receive \/ OtherReload \/ Cancel \/ Ended
    \/ \E i \in Configs : HandlerStep(i)

Stopping(i) == context[i] \in cancelled \/ parentDone

(***************************************************************************)
(* Fairness: every goroutine goes on; a timer fires; handleConfig returns  *)
(* once its context is cancelled (see Watch), unless it hangs.             *)
(***************************************************************************)
System ==
    /\ SystemInit
    /\ [][SystemNext]_systemVars
    /\ WF_systemVars(Observer)
    /\ WF_systemVars(DebounceEvent)
    /\ WF_systemVars(DebounceFires)
    /\ WF_systemVars(Receive \/ OtherReload)
    /\ \A i \in Configs :
         /\ WF_systemVars(HandlerStep(i) /\ HandlerStart(i))
         /\ WF_systemVars(Stopping(i) /\ HandlerStep(i) /\ HandlerReturn(i))

-----------------------------------------------------------------------------
(* Properties.                                                             *)

(***************************************************************************)
(* A handler that was cancelled is replaced, or the process ends: a reload *)
(* is never stuck, and a shutdown never stays behind a handler.            *)
(***************************************************************************)
Waiting == Running /\ loop \in {"reload", "shutdown"}

ReloadEnds == Waiting ~> ~Waiting

(***************************************************************************)
(* The last version of the file that the watcher could see ends up being   *)
(* the one that is handled: no write is lost between the initial load and  *)
(* the watcher, while Debounce or ObserveConfig is blocked in a send, or   *)
(* between a stat and the load.  (It may be superseded by a later version. *)
(* A version that does not decode is skipped, with what was to be loaded   *)
(* before it, and those after it may come when the watcher is dead.)       *)
(***************************************************************************)
Handled == IF current = 0 THEN 0 ELSE configOf[current]

Skipped == (reported .. file) \cap Broken # {}

LastConfigHandled ==
    <>[](~Running \/ parentDone \/ Skipped \/ Handled >= reported)
=============================================================================
