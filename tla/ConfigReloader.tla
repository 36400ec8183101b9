--------------------------- MODULE ConfigReloader ---------------------------
(***************************************************************************)
(* ConfigReloader of cmd/watch/watch_config.go: the goroutine that runs    *)
(* handleConfig under the last configuration it received, one at a time.   *)
(* The configurations are numbered in the order in which they are          *)
(* received.  handleConfig runs in a goroutine of its own, which reads the *)
(* captured variable configContext when it starts, and sends on the        *)
(* unbuffered doneChan when handleConfig returned.                         *)
(***************************************************************************)
EXTENDS Naturals

CONSTANTS
    MaxConfigs,   \* bound on the configurations received
    MayHang       \* may a handleConfig take over 30 seconds to stop?

ASSUME ConstantsAssumption == MaxConfigs \in Nat /\ MayHang \in BOOLEAN

VARIABLES
    loop,           \* where ConfigReloader is
    parentDone,     \* ctx is cancelled
    current,        \* the last configuration received, 0 if none
    configContext,  \* the configuration of configContext, 0 for nil
    cancelled,      \* the contexts that configCancel cancelled
    handler,        \* where the goroutine of each configuration is
    context,        \* the context it passed to handleConfig, as configContext
    offered         \* ObserveConfig is blocked on configChan with a config

vars == <<loop, parentDone, current, configContext, cancelled, handler, context,
          offered>>

Configs == 1 .. MaxConfigs

\* Before it reads configContext; in handleConfig; stuck there; on doneChan.
Alive == {"spawned", "running", "hung", "sending"}

\* A log.Fatal of ConfigReloader, or a panic in a goroutine of a handler.
Dead == {"fatal", "panicked"}

Init ==
    /\ loop = "select"
    /\ parentDone = FALSE
    /\ current = 0
    /\ configContext = 0
    /\ cancelled = {}
    /\ handler = [i \in Configs |-> "none"]
    /\ context = [i \in Configs |-> 0]
    /\ offered = FALSE

ParentCancel ==
    /\ ~parentDone
    /\ parentDone' = TRUE
    /\ UNCHANGED <<loop, current, configContext, cancelled, handler, context,
                   offered>>

\* ObserveConfig has a configuration to send, within the bound.
Offer ==
    /\ ~offered
    /\ (IF loop = "reload" THEN current + 1 ELSE current) < MaxConfigs
    /\ offered' = TRUE
    /\ UNCHANGED <<loop, parentDone, current, configContext, cancelled, handler,
                   context>>

\* ObserveConfig gives up its send.
Withdraw ==
    /\ offered
    /\ parentDone
    /\ offered' = FALSE
    /\ UNCHANGED <<loop, parentDone, current, configContext, cancelled, handler,
                   context>>

\* A new context, and a goroutine that will read it.
Launch ==
    /\ current' = current + 1
    /\ configContext' = current + 1
    /\ handler' = [handler EXCEPT ![current + 1] = "spawned"]

\* newConfig := <-configChan
ReceiveFirst ==
    /\ loop = "select"
    /\ offered
    /\ configContext = 0
    /\ offered' = FALSE
    /\ Launch
    /\ UNCHANGED <<loop, parentDone, cancelled, context>>

\* Slips: the old handler is not cancelled; a configuration is handled twice.
ReloadWithoutCancel ==
    /\ loop = "select"
    /\ offered
    /\ configContext # 0
    /\ offered' = FALSE
    /\ loop' = "reload"
    /\ UNCHANGED <<parentDone, current, configContext, cancelled, handler, context>>

ReloadAgain ==
    /\ loop = "select"
    /\ offered
    /\ configContext # 0
    /\ cancelled' = cancelled \cup {configContext}
    /\ loop' = "reload"
    /\ UNCHANGED <<parentDone, current, configContext, handler, context, offered>>

\* A handler is there: cancel it, and wait for it.
ReceiveNext ==
    /\ loop = "select"
    /\ offered
    /\ configContext # 0
    /\ offered' = FALSE
    /\ cancelled' = cancelled \cup {configContext}
    /\ loop' = "reload"
    /\ UNCHANGED <<parentDone, current, configContext, handler, context>>

\* Slip: the new handler is launched once the old one is cancelled.
ReloadWithoutWait ==
    /\ loop = "reload"
    /\ Launch
    /\ loop' = "select"
    /\ UNCHANGED <<parentDone, cancelled, context, offered>>

\* <-doneChan, then the new handler.
ReloadDone ==
    /\ loop = "reload"
    /\ \E i \in Configs :
         /\ handler[i] = "sending"
         /\ current' = current + 1
         /\ configContext' = current + 1
         /\ handler' = [handler EXCEPT ![i] = "done", ![current + 1] = "spawned"]
    /\ loop' = "select"
    /\ UNCHANGED <<parentDone, cancelled, context, offered>>

\* <-ctx.Done()
Shutdown ==
    /\ loop = "select"
    /\ parentDone
    /\ cancelled' = IF configContext # 0 THEN cancelled \cup {configContext}
                    ELSE cancelled
    /\ configContext' = 0
    /\ loop' = "shutdown"
    /\ UNCHANGED <<parentDone, current, handler, context, offered>>

\* Slip: the last handler is not waited for.
ShutdownWithoutWait ==
    /\ loop = "shutdown"
    /\ loop' = "returned"
    /\ UNCHANGED <<parentDone, current, configContext, cancelled, handler, context,
                   offered>>

\* <-doneChan, or the timer below.
ShutdownDone ==
    /\ loop = "shutdown"
    /\ \E i \in Configs :
         /\ handler[i] = "sending"
         /\ handler' = [handler EXCEPT ![i] = "done"]
    /\ loop' = "returned"
    /\ UNCHANGED <<parentDone, current, configContext, cancelled, context, offered>>

\* 30 seconds on doneChan: log.Fatal.  The timer wins if there is no handler
\* to wait for, or if the handler hangs.
NothingToWaitFor == \A i \in Configs : handler[i] \in {"none", "done", "hung"}

DoneTimeout ==
    /\ loop \in {"reload", "shutdown"}
    /\ NothingToWaitFor
    /\ loop' = "fatal"
    /\ UNCHANGED <<parentDone, current, configContext, cancelled, handler, context,
                   offered>>

-----------------------------------------------------------------------------
(* The goroutine of a handler; it dies with the process.                   *)

HandlerStart(i) ==
    /\ loop \notin Dead
    /\ handler[i] = "spawned"
    /\ context' = [context EXCEPT ![i] = configContext]
    /\ handler' = [handler EXCEPT ![i] = "running"]
    /\ UNCHANGED <<loop, parentDone, current, configContext, cancelled, offered>>

\* Slip: the goroutine does not signal on doneChan once it was cancelled.
ReturnWithoutDone(i) ==
    /\ loop \notin Dead
    /\ handler[i] = "running"
    /\ handler' = [handler EXCEPT ![i] = IF context[i] \in cancelled THEN "done"
                                         ELSE "sending"]
    /\ UNCHANGED <<loop, parentDone, current, configContext, cancelled, context,
                   offered>>

\* handleConfig returns: all the channels stopped, or there was none.
HandlerReturn(i) ==
    /\ loop \notin Dead
    /\ handler[i] = "running"
    /\ handler' = [handler EXCEPT ![i] = "sending"]
    /\ UNCHANGED <<loop, parentDone, current, configContext, cancelled, context,
                   offered>>

HandlerHang(i) ==
    /\ MayHang
    /\ loop \notin Dead
    /\ handler[i] = "running"
    /\ handler' = [handler EXCEPT ![i] = "hung"]
    /\ UNCHANGED <<loop, parentDone, current, configContext, cancelled, context,
                   offered>>

\* The nil context of a shutdown: checkVersion, LoginLoop or Watch panics, if
\* the configuration has them run.
HandlerPanics(i) ==
    /\ loop \notin Dead
    /\ handler[i] = "running"
    /\ context[i] = 0
    /\ loop' = "panicked"
    /\ UNCHANGED <<parentDone, current, configContext, cancelled, handler, context,
                   offered>>

\* The process ended; or nothing more arrives at this bound.
Terminated ==
    /\ \/ loop \in Dead \cup {"returned"}
       \/ loop = "select" /\ current = MaxConfigs
    /\ UNCHANGED vars

Handler(i) == HandlerStart(i) \/ HandlerReturn(i) \/ HandlerHang(i) \/ HandlerPanics(i)

Reload == ReceiveFirst \/ ReceiveNext \/ ReloadDone \/ Shutdown \/ ShutdownDone
          \/ DoneTimeout

Next == ParentCancel \/ Offer \/ Withdraw \/ Reload \/ Terminated
        \/ \E i \in Configs : Handler(i)

Spec == Init /\ [][Next]_vars

-----------------------------------------------------------------------------
(* Properties.                                                             *)

\* The type of the state.
TypeOK ==
    /\ loop \in Dead \cup {"select", "reload", "shutdown", "returned"}
    /\ parentDone \in BOOLEAN
    /\ current \in 0 .. MaxConfigs
    /\ configContext \in 0 .. MaxConfigs
    /\ cancelled \subseteq Configs
    /\ handler \in [Configs -> Alive \cup {"none", "done"}]
    /\ context \in [Configs -> 0 .. MaxConfigs]
    /\ offered \in BOOLEAN

(***************************************************************************)
(* "Channel used to assure only one handleConfig can be launched": no two  *)
(* handlers are alive together, so that no channel is watched twice.       *)
(***************************************************************************)
OneHandler ==
    \A i, j \in Configs : (handler[i] \in Alive /\ handler[j] \in Alive) => i = j

(***************************************************************************)
(* A handler never runs under the context of another configuration,        *)
(* although it reads a variable that the next configuration overwrites.    *)
(* It runs under none, and may panic, only once the reloader's own context *)
(* is done: a reload gives no handler a nil context.                       *)
(***************************************************************************)
NoForeignContext ==
    \A i \in Configs :
        /\ context[i] \in {0, i}
        /\ context[i] = 0 /\ handler[i] \notin {"none", "spawned"} => parentDone

(***************************************************************************)
(* ConfigReloader returns only after every handler has ended.              *)
(***************************************************************************)
GracefulReturn == loop = "returned" => \A i \in Configs : handler[i] \in {"none", "done"}

(***************************************************************************)
(* ConfigReloader kills the process, "because of a deadlock", only when a  *)
(* handler did not stop within 30 seconds, or when it was shut down before *)
(* it had any handler, which it waits for all the same.                    *)
(***************************************************************************)
FatalExplained ==
    loop = "fatal" => \/ \E i \in Configs : handler[i] = "hung"
                      \/ current = 0
=============================================================================
