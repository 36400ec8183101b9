------------------------ MODULE ConfigReloaderProofs ------------------------
(***************************************************************************)
(* Proofs about ConfigReloader, for any number of configurations, and that *)
(* ConfigObserver only adds to it: what is proved of ConfigReloader is so  *)
(* of the system that has the file, its watcher and Debounce.              *)
(*                                                                         *)
(* OneHandler is not inductive: it holds because the handler that may be   *)
(* alive is always the one of the last configuration received, because     *)
(* every handler before it has sent on doneChan, and because the loop only *)
(* launches the next one when it received that message.  IInv says so.     *)
(*                                                                         *)
(* NoVersionLost is about the way of a version from the file to a handler: *)
(* SystemInv has one condition for each of its hand-overs.                 *)
(***************************************************************************)
EXTENDS ConfigObserver, TLAPS

\* Handlers start and end in the order of the configurations.
InOrder ==
    \A i \in Configs : /\ i < current => handler[i] = "done"
                       /\ i > current => handler[i] = "none"

\* configContext is the one of the last configuration, until the shutdown.
ContextOfCurrent ==
    /\ configContext \in {0, current}
    /\ loop \in {"select", "reload"} => configContext = current
    /\ current # 0 /\ configContext = 0 => parentDone

\* A configuration on its way is within the bound.
RoomForOffer ==
    /\ loop = "reload" => 1 <= current /\ current < MaxConfigs
    /\ offered => (IF loop = "reload" THEN current + 1 ELSE current) < MaxConfigs

\* Until the process ends, the last handler has not been waited for.
LastIsAlive ==
    current # 0 /\ loop \in {"select", "reload", "shutdown"} => handler[current] \in Alive

\* The inductive invariant.
IInv ==
    /\ TypeOK
    /\ InOrder
    /\ ContextOfCurrent
    /\ RoomForOffer
    /\ NoForeignContext
    /\ GracefulReturn
    /\ LastIsAlive
    /\ FatalExplained

LEMMA InitIInv == Init => IInv
<1> SUFFICES ASSUME Init PROVE IInv
  OBVIOUS
<1> USE ConstantsAssumption DEF Init, Configs, ConstantsAssumption
<1>1. TypeOK
  <2>1. parentDone \in BOOLEAN /\ offered \in BOOLEAN
    OBVIOUS
  <2>2. loop \in Dead \cup {"select", "reload", "shutdown", "returned"}
    OBVIOUS
  <2>3. current \in 0 .. MaxConfigs /\ configContext \in 0 .. MaxConfigs
    OBVIOUS
  <2>4. cancelled \subseteq Configs
    OBVIOUS
  <2>5. handler \in [Configs -> Alive \cup {"none", "done"}]
    BY DEF Alive
  <2>6. context \in [Configs -> 0 .. MaxConfigs]
    OBVIOUS
  <2> QED
    BY <2>1, <2>2, <2>3, <2>4, <2>5, <2>6 DEF TypeOK
<1>2. InOrder
  BY DEF InOrder
<1>3. ContextOfCurrent
  BY DEF ContextOfCurrent
<1>4. RoomForOffer
  BY DEF RoomForOffer
<1>5. NoForeignContext /\ GracefulReturn /\ LastIsAlive /\ FatalExplained
  BY DEF NoForeignContext, GracefulReturn, LastIsAlive, FatalExplained
<1> QED
  BY <1>1, <1>2, <1>3, <1>4, <1>5 DEF IInv

LEMMA NextIInv == IInv /\ [Next]_vars => IInv'
<1> SUFFICES ASSUME IInv, [Next]_vars PROVE IInv'
  OBVIOUS
<1> USE ConstantsAssumption
    DEF Dead, IInv, TypeOK, InOrder, ContextOfCurrent, RoomForOffer,
        NoForeignContext, GracefulReturn, LastIsAlive, FatalExplained, Alive,
        Configs, ConstantsAssumption
<1>1. CASE ParentCancel
  BY <1>1 DEF ParentCancel
<1>2. CASE Offer
  BY <1>2 DEF Offer
<1>3. CASE ReceiveFirst
  <2>1. parentDone' \in BOOLEAN /\ offered' \in BOOLEAN
    BY <1>3 DEF ReceiveFirst, Launch
  <2>2. TypeOK'
    BY <1>3, <2>1 DEF ReceiveFirst, Launch
  <2>3. InOrder' /\ ContextOfCurrent' /\ NoForeignContext' /\ GracefulReturn'
        /\ LastIsAlive' /\ FatalExplained'
    BY <1>3 DEF ReceiveFirst, Launch
  <2>4. RoomForOffer'
    BY <1>3 DEF ReceiveFirst, Launch
  <2> QED
    BY <2>1, <2>2, <2>3, <2>4
<1>4. CASE ReceiveNext
  <2>1. parentDone' \in BOOLEAN /\ offered' \in BOOLEAN
    BY <1>4 DEF ReceiveNext
  <2>2. TypeOK'
    BY <1>4, <2>1 DEF ReceiveNext
  <2>3. InOrder' /\ ContextOfCurrent' /\ NoForeignContext' /\ GracefulReturn'
        /\ LastIsAlive' /\ FatalExplained'
    BY <1>4 DEF ReceiveNext
  <2>4. RoomForOffer'
    BY <1>4 DEF ReceiveNext
  <2> QED
    BY <2>1, <2>2, <2>3, <2>4
<1>5. CASE ReloadDone
  <2>1. PICK i \in Configs :
          /\ handler[i] = "sending"
          /\ handler' = [handler EXCEPT ![i] = "done", ![current + 1] = "spawned"]
    BY <1>5 DEF ReloadDone
  <2>2. i = current
    BY <2>1
  <2>3. /\ current' = i + 1 /\ configContext' = i + 1
        /\ handler' = [handler EXCEPT ![i] = "done", ![i + 1] = "spawned"]
        /\ loop' = "select"
        /\ UNCHANGED <<parentDone, cancelled, context, offered>>
    BY <1>5, <2>1, <2>2 DEF ReloadDone
  <2>4. i + 1 \in Configs
    BY <2>2, <1>5 DEF ReloadDone
  <2>5. TypeOK'
    BY <2>3, <2>4
  <2>6. InOrder' /\ ContextOfCurrent' /\ NoForeignContext' /\ GracefulReturn'
    <3>1. InOrder' /\ ContextOfCurrent'
      BY SMTT(30), <2>2, <2>3, <2>4
    <3>2. ASSUME NEW j \in Configs, context[j] = 0, handler'[j] \notin {"none", "spawned"}
          PROVE  parentDone
      <4>1. handler[j] \notin {"none", "spawned"}
        BY <2>1, <2>3, <2>4, <3>2
      <4> QED
        BY <3>2, <4>1, Zenon DEF NoForeignContext
    <3>3. NoForeignContext'
      BY <2>3, <3>2
    <3>4. GracefulReturn'
      BY <2>3
    <3> QED
      BY <3>1, <3>3, <3>4
  <2>7. RoomForOffer'
    BY <1>5, <2>2, <2>3 DEF ReloadDone
  <2>8. LastIsAlive' /\ FatalExplained'
    <3>1. current' \in Configs /\ handler'[current'] = "spawned"
      BY <2>3, <2>4
    <3> QED
      BY <2>3, <3>1
  <2> QED
    BY <2>5, <2>6, <2>7, <2>8
<1>6. CASE Shutdown
  BY <1>6 DEF Shutdown
<1>7. CASE ShutdownDone
  BY <1>7 DEF ShutdownDone
<1>8. CASE DoneTimeout
  <2>1. /\ loop' = "fatal" /\ NothingToWaitFor
        /\ UNCHANGED <<parentDone, current, configContext, cancelled, handler, context,
                      offered>>
    BY <1>8 DEF DoneTimeout
  <2>2. FatalExplained'
    <3>1. CASE current = 0
      BY <2>1, <3>1
    <3>2. CASE current # 0
      <4>1. current \in Configs /\ handler[current] = "hung"
        BY <1>8, <2>1, <3>2 DEF DoneTimeout, NothingToWaitFor
      <4> QED
        BY <2>1, <4>1
    <3> QED
      BY <3>1, <3>2
  <2>3. TypeOK' /\ InOrder' /\ ContextOfCurrent' /\ RoomForOffer'
        /\ NoForeignContext' /\ GracefulReturn' /\ LastIsAlive'
    BY <1>8, <2>1 DEF DoneTimeout
  <2> QED
    BY <2>2, <2>3
<1>9. ASSUME NEW i \in Configs, Handler(i) PROVE IInv'
  <2>1. CASE HandlerStart(i)
    BY <2>1 DEF HandlerStart
  <2>2. CASE HandlerReturn(i)
    BY <2>2 DEF HandlerReturn
  <2>3. CASE HandlerHang(i)
    BY <2>3 DEF HandlerHang
  <2>4. CASE HandlerPanics(i)
    BY <2>4 DEF HandlerPanics
  <2> QED
    BY <1>9, <2>1, <2>2, <2>3, <2>4 DEF Handler
<1>10. CASE Withdraw
  BY <1>10 DEF Withdraw
<1>11. CASE Terminated \/ UNCHANGED vars
  <2>1. parentDone' \in BOOLEAN /\ offered' \in BOOLEAN
    BY <1>11 DEF Terminated, vars
  <2>2. TypeOK'
    BY <1>11, <2>1 DEF Terminated, vars
  <2>3. InOrder' /\ ContextOfCurrent' /\ NoForeignContext' /\ GracefulReturn'
        /\ LastIsAlive' /\ FatalExplained'
    BY <1>11 DEF Terminated, vars
  <2>4. RoomForOffer'
    BY <1>11 DEF Terminated, vars
  <2> QED
    BY <2>1, <2>2, <2>3, <2>4
<1> QED
  BY <1>1, <1>2, <1>3, <1>4, <1>5, <1>6, <1>7, <1>8, <1>9, <1>10, <1>11
  DEF Next, Reload

LEMMA SpecIInv == Spec => []IInv
  BY InitIInv, NextIInv, PTL DEF Spec

\* Every state is of the type TypeOK: in particular no configuration is launched
\* beyond the bound, and configContext is always one that was launched.
THEOREM TypeCorrect == Spec => []TypeOK
<1>1. IInv => TypeOK
  BY DEF IInv
<1> QED
  BY <1>1, SpecIInv, PTL

\* Only one handleConfig runs at a time, for any sequence of configurations and
\* any order of the goroutines.
THEOREM OneHandlerAtATime == Spec => []OneHandler
<1>1. IInv => OneHandler
  <2> SUFFICES ASSUME IInv, NEW i \in Configs, NEW j \in Configs,
                      handler[i] \in Alive, handler[j] \in Alive
               PROVE  i = j
    BY DEF OneHandler
  <2>1. i = current /\ j = current
    BY ConstantsAssumption DEF IInv, InOrder, TypeOK, Alive, Configs, ConstantsAssumption
  <2> QED
    BY <2>1
<1> QED
  BY <1>1, SpecIInv, PTL

\* handleConfig is never given the context of another configuration, and none only
\* once the context of the reloader is done, whenever its goroutine reads the
\* variable.
THEOREM ContextNotForeign == Spec => []NoForeignContext
<1>1. IInv => NoForeignContext
  BY DEF IInv
<1> QED
  BY <1>1, SpecIInv, PTL

\* When ConfigReloader returns, no handler is left.
THEOREM ReturnIsGraceful == Spec => []GracefulReturn
<1>1. IInv => GracefulReturn
  BY DEF IInv
<1> QED
  BY <1>1, SpecIInv, PTL

\* The process is only killed for a handler that did not stop, or by a shutdown
\* before the first configuration.
THEOREM FatalIsExplained == Spec => []FatalExplained
<1>1. IInv => FatalExplained
  BY DEF IInv
<1> QED
  BY <1>1, SpecIInv, PTL

-----------------------------------------------------------------------------
(* ConfigObserver.                                                         *)

\* A step of the file, of its watcher, of Debounce, of ObserveConfig or of a
\* handler is a step of ConfigReloader or one that it does not see.
LEMMA SystemStep == [SystemNext]_systemVars => [Next]_vars
<1> SUFFICES ASSUME [SystemNext]_systemVars PROVE [Next]_vars
  OBVIOUS
<1>1. CASE Write \/ Replace \/ DebounceEvent \/ DebounceFires
  BY <1>1 DEF Write, Replace, NewVersion, DebounceEvent, DebounceFires
<1>2. CASE Observer
  <2>1. CASE StatFirst \/ AddWatcher \/ Changed
    BY <2>1 DEF StatFirst, AddWatcher, Changed
  <2>2. CASE LoadFirst \/ LoadNext
    <3>1. Offer \/ UNCHANGED vars
      BY <2>2 DEF LoadFirst, LoadNext, Load
    <3> QED
      BY <3>1 DEF Next
  <2>3. CASE ObserverReturns
    <3>1. Withdraw \/ UNCHANGED vars
      BY <2>3 DEF ObserverReturns
    <3> QED
      BY <3>1 DEF Next
  <2> QED
    BY <1>2, <2>1, <2>2, <2>3 DEF Observer
<1>3. CASE Receive \/ OtherReload
  <2>1. Reload
    BY <1>3 DEF Receive, OtherReload, Reload
  <2> QED
    BY <2>1 DEF Next
<1>4. CASE Cancel
  BY <1>4 DEF Cancel, Next
<1>5. CASE \E i \in Configs : HandlerStep(i)
  BY <1>5 DEF HandlerStep, Next
<1>6. CASE Ended \/ UNCHANGED systemVars
  BY <1>6 DEF Ended, systemVars
<1> QED
  BY <1>1, <1>2, <1>3, <1>4, <1>5, <1>6 DEF SystemNext

\* ObserveConfig, Debounce and the file implement what ConfigReloader expects of
\* the one that sends the configurations: one send at a time, withdrawn only once
\* the context is done.
THEOREM ObserverKeepsReloader == System => Spec
<1>1. SystemInit => Init
  BY DEF SystemInit
<1> QED
  BY <1>1, SystemStep, PTL DEF System, Spec

\* No two handlers run together either, whenever the file changes, is replaced
\* or cannot be decoded.
THEOREM OneHandlerInSystem == System => []OneHandler
  BY ObserverKeepsReloader, OneHandlerAtATime, PTL

-----------------------------------------------------------------------------
(* No version of the file is lost.                                         *)

\* The safety part of LastConfigHandled: when nothing is under way any more (no
\* event, timer, load, send or wait for a handler), the last handler was given a
\* version that is not older than the last one the watcher could see.
NoVersionLost ==
    observer = "select" /\ ~events /\ debounce = "stopped" /\ loop = "select" =>
        Skipped \/ Handled >= reported

ObserverType ==
    /\ file \in 0 .. MaxWrites
    /\ reported \in 0 .. file
    /\ lastModTime \in 0 .. file
    /\ config \in 0 .. file
    /\ configOf \in [Configs -> 0 .. MaxWrites]

\* The configuration that is offered is the one in the hands of ObserveConfig.
OneSender == offered <=> observer \in {"sendFirst", "send"}

\* What was reported and not looked at since is to wake ObserveConfig.
Woken == lastModTime < reported => events \/ debounce \in {"armed", "sending"}

\* What ObserveConfig looked at is loaded, unless it does not decode.
Loaded ==
    \/ lastModTime <= config
    \/ observer \in {"load", "reload"}
    \/ (lastModTime .. file) \cap Broken # {}

\* What it loaded is given to the last handler, or will be to the next one.
Given ==
    \/ offered \/ observer = "returned" \/ loop \in Dead
    \/ config = IF loop = "reload" THEN configOf[current + 1] ELSE Handled

SystemInv ==
    /\ IInv
    /\ ObserverType
    /\ OneSender
    /\ Woken
    /\ Loaded
    /\ Given

LEMMA InitSystemInv == SystemInit => SystemInv
<1> SUFFICES ASSUME SystemInit PROVE SystemInv
  OBVIOUS
<1>1. IInv
  BY InitIInv DEF SystemInit
<1>2. ObserverType
  BY ObserverAssumption DEF SystemInit, ObserverType, ObserverAssumption
<1>3. OneSender /\ Woken /\ Loaded /\ Given
  BY DEF SystemInit, Init, OneSender, Woken, Loaded, Given, Handled
<1> QED
  BY <1>1, <1>2, <1>3 DEF SystemInv

LEMMA NextSystemInv == SystemInv /\ [SystemNext]_systemVars => SystemInv'
<1> SUFFICES ASSUME SystemInv, [SystemNext]_systemVars PROVE SystemInv'
  OBVIOUS
<1>0. IInv'
  BY NextIInv, SystemStep DEF SystemInv
<1> DEFINE Rest == ObserverType /\ OneSender /\ Woken /\ Loaded /\ Given
<1> SUFFICES Rest'
  BY <1>0 DEF SystemInv
<1>a. /\ Rest /\ MaxWrites \in Nat /\ MaxConfigs \in Nat
      /\ current \in 0 .. MaxConfigs
      /\ offered => (IF loop = "reload" THEN current + 1 ELSE current) < MaxConfigs
  BY ObserverAssumption, ConstantsAssumption
  DEF SystemInv, IInv, TypeOK, RoomForOffer, ObserverAssumption, ConstantsAssumption
<1> USE <1>a DEF ObserverType, OneSender, Woken, Loaded, Given, Handled, Configs, Dead
<1>1. CASE Write \/ Replace
  BY SMTT(30), <1>1 DEF Write, Replace, NewVersion, observerVars, vars
<1>2. CASE DebounceEvent
  BY <1>2 DEF DebounceEvent, vars
<1>3. CASE DebounceFires
  BY <1>3 DEF DebounceFires, fileVars, vars
<1>4. CASE StatFirst
  <2>1. /\ lastModTime' = file /\ file \in Nat /\ file' = file
        /\ observer' = IF file = 0 THEN "add" ELSE "load"
        /\ reported' = reported /\ config' = config /\ offered' = offered
        /\ observer = "stat"
        /\ UNCHANGED <<debounce, events, current, configOf, loop>>
    BY <1>4 DEF StatFirst, fileVars, vars
  <2>2. ObserverType' /\ Woken' /\ Loaded'
    BY <2>1
  <2>3. OneSender' /\ Given'
    BY <2>1
  <2> QED
    BY <2>2, <2>3
<1>5. CASE LoadFirst
  <2>1. CASE file \in Broken
    <3>1. file \in lastModTime .. file
      OBVIOUS
    <3>2. (lastModTime .. file) \cap Broken # {}
      BY <2>1, <3>1
    <3> QED
      BY <1>5, <2>1, <3>2 DEF LoadFirst, Load, fileVars, vars
  <2>2. CASE file \notin Broken
    BY <1>5, <2>2 DEF LoadFirst, Load, Offer, fileVars
  <2> QED
    BY <2>1, <2>2
<1>6. CASE AddWatcher
  BY <1>6 DEF AddWatcher, vars
<1>7. CASE Changed
  BY <1>7 DEF Changed, fileVars, vars
<1>8. CASE LoadNext
  BY SMTT(30), <1>8 DEF LoadNext, Load, Offer, fileVars, vars
<1>9. CASE ObserverReturns
  BY <1>9 DEF ObserverReturns, Withdraw, fileVars, vars
<1>10. CASE Receive
  <2>1. /\ offered /\ offered' = FALSE /\ loop = "select" /\ current + 1 \in Configs
        /\ \/ current' = current + 1 /\ loop' = loop
           \/ current' = current /\ loop' = "reload"
    BY <1>10 DEF Receive, ReceiveFirst, ReceiveNext, Launch
  <2>2. /\ configOf' = [configOf EXCEPT ![current + 1] = config]
        /\ observer' = IF observer = "sendFirst" THEN "add" ELSE "select"
        /\ observer \in {"sendFirst", "send"}
        /\ UNCHANGED <<file, reported, events, debounce, lastModTime, config>>
    BY <1>10, <2>1 DEF Receive, fileVars
  <2>3. config \in 0 .. MaxWrites /\ configOf'[current + 1] = config
    BY <2>1, <2>2
  <2>4. ObserverType' /\ OneSender' /\ Woken' /\ Loaded'
    BY <2>1, <2>2, <2>3
  <2>5. Given'
    BY <2>1, <2>2, <2>3
  <2> QED
    BY <2>4, <2>5
<1>11. CASE OtherReload
  <2>1. /\ UNCHANGED <<fileVars, observerVars, offered>>
        /\ loop \notin Dead
        /\ \/ loop = "reload" /\ loop' = "select" /\ current' = current + 1
           \/ loop # "reload" /\ loop' \in {"shutdown", "returned"} /\ current' = current
           \/ loop' = "fatal" /\ current' = current
    BY <1>11 DEF OtherReload, Running, ReloadDone, Shutdown, ShutdownDone, DoneTimeout
  <2>2. ObserverType' /\ OneSender' /\ Woken' /\ Loaded'
    BY <2>1 DEF fileVars, observerVars
  <2>3. Given'
    BY <2>1 DEF fileVars, observerVars
  <2> QED
    BY <2>2, <2>3
<1>12. CASE \E i \in Configs : HandlerStep(i)
  BY SMTT(30), <1>12
  DEF HandlerStep, Handler, HandlerStart, HandlerReturn, HandlerHang,
      HandlerPanics, fileVars,
      observerVars
<1>13. CASE Cancel
  BY <1>13 DEF Cancel, ParentCancel, fileVars, observerVars
<1>14. CASE Ended \/ UNCHANGED systemVars
  BY SMTT(30), <1>14 DEF Ended, systemVars, fileVars, observerVars, vars
<1> QED
  BY <1>1, <1>2, <1>3, <1>4, <1>5, <1>6, <1>7, <1>8, <1>9, <1>10, <1>11, <1>12,
     <1>13, <1>14
  DEF SystemNext, Observer

\* Whenever nothing is under way any more, the handler was given a version that
\* is not older than the last one that the watcher could see: for any number of
\* writes and replacements, and any versions that do not decode.
THEOREM VersionIsHandled == System => []NoVersionLost
<1>1. SystemInv => NoVersionLost
  <2> SUFFICES ASSUME SystemInv, observer = "select", ~events, debounce = "stopped",
                      loop = "select", ~Skipped
               PROVE  Handled >= reported
    BY DEF NoVersionLost
  <2>1. reported <= lastModTime /\ lastModTime <= file /\ reported \in Nat
        /\ lastModTime \in Nat /\ file \in Nat /\ config \in Nat
    BY ObserverAssumption DEF SystemInv, ObserverType, Woken, ObserverAssumption
  <2>2. lastModTime <= config
    BY <2>1 DEF SystemInv, Loaded, Skipped
  <2>3. Handled = config
    BY ObserverAssumption DEF SystemInv, Given, OneSender, Dead
  <2> QED
    BY <2>1, <2>2, <2>3
<1> QED
  BY <1>1, InitSystemInv, NextSystemInv, PTL DEF System
=============================================================================
