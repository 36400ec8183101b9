------------------------------- MODULE WsRpc -------------------------------
(***************************************************************************)
(* Requests and replies over the FC2 websocket: sendMessageAndWaitResponse *)
(* and filterMessageByID of fc2/api/api_websocket.go, with their two       *)
(* callers that run concurrently in a session, HeartbeatLoop ("heartbeat") *)
(* and GetHLSInformation ("hls"), with Listen, which feeds msgChan, and    *)
(* the flush of msgChan in DownloadLiveStream.                             *)
(*                                                                         *)
(* The calls of sendMessageAndWaitResponse are numbered in the order in    *)
(* which they read msgID.  Each call starts its own filter goroutine; all  *)
(* the filters read the same msgChan, and keep what carries their id.  A   *)
(* message of msgChan is the number of the call that the server answers.   *)
(***************************************************************************)
EXTENDS Naturals, Sequences

CONSTANTS
    MaxCalls,    \* bound on the number of calls explored
    MsgBufMax,   \* msgBufMax, the capacity of msgChan
    HlsTries     \* the tries of GetHLSInformation, 5 in the code

ASSUME ConstantsAssumption ==
    /\ MaxCalls \in Nat
    /\ MsgBufMax \in Nat \ {0}
    /\ HlsTries \in Nat \ {0}

VARIABLES
    msgID,     \* WebSocket.msgID
    calls,     \* the number of calls so far
    caller,    \* who made each call
    id,        \* the id each call sent
    stat,      \* where each call is
    outcome,   \* what sendMessageAndWaitResponse returned to it
    got,       \* the call whose reply it returned, 0 if none
    filter,    \* the filter of each call: "off", "on" or "gone"
    stop,      \* its done channel was signalled
    out,       \* its out channel
    asked,     \* the calls the server received and did not answer yet
    msgChan,   \* msgChan
    closed,    \* msgChan is closed
    listen,    \* where Listen is
    held,      \* the reply Listen is pushing
    ctxDone,   \* the context of the session is cancelled
    hb,        \* where HeartbeatLoop is
    hls,       \* where GetHLSInformation is
    tries,     \* the tries left of GetHLSInformation
    info       \* what GetHLSInformation returned last

callVars   == <<msgID, calls, caller, id, stat, outcome, got>>
filterVars == <<filter, stop, out>>
wireVars   == <<asked, msgChan, closed, listen, held>>
loopVars   == <<hb, hls, tries, info>>
vars == <<callVars, filterVars, wireVars, ctxDone, loopVars>>

Calls    == 1 .. MaxCalls
Callers  == {"heartbeat", "hls"}
Outcomes == {"reply", "closed", "NoResponse", "writeError", "deadline"}

Active(k) == stat[k] \in {"send", "wait", "leave"}

Init ==
    /\ msgID = 1
    /\ calls = 0
    /\ caller = [k \in Calls |-> "none"]
    /\ id = [k \in Calls |-> 0]
    /\ stat = [k \in Calls |-> "none"]
    /\ outcome = [k \in Calls |-> "none"]
    /\ got = [k \in Calls |-> 0]
    /\ filter = [k \in Calls |-> "off"]
    /\ stop = [k \in Calls |-> FALSE]
    /\ out = [k \in Calls |-> << >>]
    /\ asked = {}
    /\ msgChan = << >>
    /\ closed = FALSE
    /\ listen = "read"
    /\ held = 0
    /\ ctxDone = FALSE
    /\ hb = "tick"
    /\ hls = "idle"
    /\ tries = 0
    /\ info = "none"

-----------------------------------------------------------------------------
(* sendMessageAndWaitResponse.                                             *)

\* A call reads msgID, which is bumped when the call is over, and starts its
\* filter.
Begin(c) ==
    /\ calls < MaxCalls
    /\ LET k == calls + 1
       IN  /\ calls' = k
           /\ caller' = [caller EXCEPT ![k] = c]
           /\ id' = [id EXCEPT ![k] = msgID]
           /\ stat' = [stat EXCEPT ![k] = "send"]
           /\ filter' = [filter EXCEPT ![k] = "on"]
    /\ UNCHANGED <<msgID, outcome, got, stop, out>>

Leave(k, o) == /\ stat' = [stat EXCEPT ![k] = "leave"]
               /\ outcome' = [outcome EXCEPT ![k] = o]

\* sendMessage: the write succeeds, before the context is done.
Send(k) ==
    /\ stat[k] = "send"
    /\ ~ctxDone
    /\ listen # "done"
    /\ stat' = [stat EXCEPT ![k] = "wait"]
    /\ asked' = asked \cup {k}
    /\ UNCHANGED <<msgID, calls, caller, id, outcome, got, filterVars, msgChan,
                   closed, listen, held, ctxDone, loopVars>>

\* It fails, or does not succeed within 15 seconds.
SendFail(k) ==
    /\ stat[k] = "send"
    /\ \E o \in {"writeError", "deadline"} : Leave(k, o)
    /\ UNCHANGED <<msgID, calls, caller, id, got, filterVars, wireVars, ctxDone,
                   loopVars>>

Receive(k) ==
    /\ stat[k] = "wait"
    /\ out[k] # << >>
    /\ got' = [got EXCEPT ![k] = Head(out[k])]
    /\ out' = [out EXCEPT ![k] = Tail(@)]
    /\ Leave(k, "reply")
    /\ UNCHANGED <<msgID, calls, caller, id, filter, stop, wireVars, ctxDone,
                   loopVars>>

\* The filter closed its channel: a nil message, and no error.
ReceiveClosed(k) ==
    /\ stat[k] = "wait"
    /\ out[k] = << >>
    /\ filter[k] = "gone"
    /\ Leave(k, "closed")
    /\ UNCHANGED <<msgID, calls, caller, id, got, filterVars, wireVars, ctxDone,
                   loopVars>>

\* Slip: the wait has no deadline of its own.
TimeoutOfContext(k) ==
    /\ stat[k] = "wait"
    /\ ctxDone
    /\ Leave(k, "NoResponse")
    /\ UNCHANGED <<msgID, calls, caller, id, got, filterVars, wireVars, ctxDone,
                   loopVars>>

\* The deadline, or the end of the context: ErrNoResponse either way.
Timeout(k) ==
    /\ stat[k] = "wait"
    /\ Leave(k, "NoResponse")
    /\ UNCHANGED <<msgID, calls, caller, id, got, filterVars, wireVars, ctxDone,
                   loopVars>>

\* Slip: the id is bumped for the calls that got a reply only.
BumpOnReply(k) == /\ stat[k] = "leave"
                  /\ stat' = [stat EXCEPT ![k] = "over"]
                  /\ stop' = [stop EXCEPT ![k] = TRUE]
                  /\ msgID' = IF outcome[k] = "reply" THEN msgID + 1 ELSE msgID
                  /\ UNCHANGED <<calls, caller, id, outcome, got, filter, out>>

\* The deferred calls: done is signalled, and msgID is bumped.
Over(k) == /\ stat[k] = "leave"
           /\ stat' = [stat EXCEPT ![k] = "over"]
           /\ stop' = [stop EXCEPT ![k] = TRUE]
           /\ msgID' = msgID + 1
           /\ UNCHANGED <<calls, caller, id, outcome, got, filter, out>>

-----------------------------------------------------------------------------
(* filterMessageByID: one goroutine per call, all of them on msgChan.      *)

FilterTake(k) ==
    /\ filter[k] = "on"
    /\ msgChan # << >>
    /\ msgChan' = Tail(msgChan)
    /\ out' = IF id[Head(msgChan)] = id[k]
              THEN [out EXCEPT ![k] = Append(@, Head(msgChan))] ELSE out
    /\ UNCHANGED <<callVars, filter, stop, asked, closed, listen, held, ctxDone,
                   loopVars>>

FilterClosed(k) ==
    /\ filter[k] = "on"
    /\ msgChan = << >>
    /\ closed
    /\ filter' = [filter EXCEPT ![k] = "gone"]
    /\ UNCHANGED <<callVars, stop, out, wireVars, ctxDone, loopVars>>

FilterStop(k) ==
    /\ filter[k] = "on"
    /\ stop[k]
    /\ filter' = [filter EXCEPT ![k] = "gone"]
    /\ UNCHANGED <<callVars, stop, out, wireVars, ctxDone, loopVars>>

-----------------------------------------------------------------------------
(* Listen, and the flush of DownloadLiveStream.  The server answers the    *)
(* requests in any order, late, or never.                                  *)

ListenReply(k) ==
    /\ listen = "read"
    /\ ~ctxDone
    /\ k \in asked
    /\ asked' = asked \ {k}
    /\ held' = k
    /\ listen' = "push"
    /\ UNCHANGED <<callVars, filterVars, msgChan, closed, ctxDone, loopVars>>

\* msgChan <- &msgObj: it waits for room, and for nothing else.
ListenPush ==
    /\ listen = "push"
    /\ Len(msgChan) < MsgBufMax
    /\ msgChan' = Append(msgChan, held)
    /\ held' = 0
    /\ listen' = "read"
    /\ UNCHANGED <<callVars, filterVars, asked, closed, ctxDone, loopVars>>

\* The end of the stream, of the connection or of the context.
ListenEnd ==
    /\ listen = "read"
    /\ listen' = "done"
    /\ closed' = TRUE
    /\ UNCHANGED <<callVars, filterVars, asked, msgChan, held, ctxDone, loopVars>>

Flush ==
    /\ ~ctxDone
    /\ Len(msgChan) = MsgBufMax - 1
    /\ msgChan # << >>
    /\ msgChan' = << >>
    /\ UNCHANGED <<callVars, filterVars, asked, closed, listen, held, ctxDone,
                   loopVars>>

\* A worker of the session returned, or the caller of the session cancels.
Cancel ==
    /\ ~ctxDone
    /\ ctxDone' = TRUE
    /\ UNCHANGED <<callVars, filterVars, wireVars, loopVars>>

-----------------------------------------------------------------------------
(* HeartbeatLoop.                                                          *)

HbTick ==
    /\ hb = "tick"
    /\ Begin("heartbeat")
    /\ hb' = "call"
    /\ UNCHANGED <<wireVars, ctxDone, hls, tries, info>>

HbCancel ==
    /\ hb = "tick"
    /\ ctxDone
    /\ hb' = "canceled"
    /\ UNCHANGED <<callVars, filterVars, wireVars, ctxDone, hls, tries, info>>

\* A deadline on the write is ignored, a missing reply is not.
HbOver(k) ==
    /\ hb = "call"
    /\ caller[k] = "heartbeat"
    /\ Over(k)
    /\ hb' = CASE outcome[k] \in {"reply", "closed", "deadline"} -> "tick"
               [] outcome[k] = "NoResponse" -> "noResponse"
               [] outcome[k] = "writeError" -> "failed"
    /\ UNCHANGED <<wireVars, ctxDone, hls, tries, info>>

-----------------------------------------------------------------------------
(* GetHLSInformation: a few tries, then what the message says.             *)

\* fetchPlaylist asks again, at each of its own tries and at each tick.
HlsAsk ==
    /\ hls = "idle"
    /\ Begin("hls")
    /\ hls' = "call"
    /\ tries' = HlsTries - 1
    /\ info' = "none"
    /\ UNCHANGED <<wireVars, ctxDone, hb>>

\* Slip: a try is counted twice.
TryCountedTwice ==
    /\ hls = "retry"
    /\ Begin("hls")
    /\ hls' = "call"
    /\ tries' = tries - 2
    /\ UNCHANGED <<wireVars, ctxDone, hb, info>>

HlsRetry ==
    /\ hls = "retry"
    /\ Begin("hls")
    /\ hls' = "call"
    /\ tries' = tries - 1
    /\ UNCHANGED <<wireVars, ctxDone, hb, info>>

\* The reply to a heartbeat has no playlist.
HlsAnswer(k) ==
    IF outcome[k] = "closed" THEN {"noMessage"}
    ELSE IF caller[got[k]] = "heartbeat" THEN {"empty"}
    ELSE {"playlist", "empty"}

\* DoWithResult does not try again after a deadline, nor after an error that
\* wraps the Canceled of the context.
HlsOver(k) ==
    /\ hls = "call"
    /\ caller[k] = "hls"
    /\ Over(k)
    /\ \/ /\ outcome[k] \in {"reply", "closed"}
          /\ info' \in HlsAnswer(k)
          /\ hls' = "idle"
       \/ /\ outcome[k] \notin {"reply", "closed"}
          /\ \/ tries = 0
             \/ outcome[k] = "deadline"
             \/ outcome[k] = "writeError" /\ ctxDone
          /\ info' = "failed"
          /\ hls' = "idle"
       \/ /\ outcome[k] \in {"NoResponse", "writeError"}
          /\ tries > 0
          /\ hls' = "retry"
          /\ UNCHANGED info
    /\ UNCHANGED <<wireVars, ctxDone, hb, tries>>

-----------------------------------------------------------------------------
\* The bound on the calls is reached, or the session is over.
Terminated ==
    /\ \A k \in Calls : ~Active(k) /\ filter[k] # "on"
    /\ listen # "push" \/ Len(msgChan) = MsgBufMax
    /\ UNCHANGED vars

Call(k)   == Send(k) \/ SendFail(k) \/ Receive(k) \/ ReceiveClosed(k) \/ Timeout(k)
Filter(k) == FilterTake(k) \/ FilterClosed(k) \/ FilterStop(k)

Next ==
    \/ \E k \in Calls :
          Call(k) \/ Filter(k) \/ ListenReply(k) \/ HbOver(k) \/ HlsOver(k)
    \/ ListenPush \/ ListenEnd \/ Flush \/ Cancel
    \/ HbTick \/ HbCancel \/ HlsAsk \/ HlsRetry
    \/ Terminated

(***************************************************************************)
(* Fairness: goroutines go on, deadlines pass.  FilterStop is strong: the  *)
(* select of a filter picks at random between a message and its done       *)
(* channel.  No fairness on what the server answers.                       *)
(***************************************************************************)
Fairness ==
    /\ \A k \in Calls :
         /\ WF_vars(Call(k))
         /\ WF_vars(Filter(k))
         /\ SF_vars(FilterStop(k))
         /\ WF_vars(HbOver(k) \/ HlsOver(k))
    /\ WF_vars(ListenPush)
    /\ WF_vars(HbTick)
    /\ WF_vars(HbCancel)
    /\ WF_vars(HlsRetry)

Spec     == Init /\ [][Next]_vars
FairSpec == Spec /\ Fairness

-----------------------------------------------------------------------------
(* Properties.                                                             *)

\* The type of the state.
TypeOK ==
    /\ msgID \in Nat \ {0}
    /\ calls \in 0 .. MaxCalls
    /\ caller \in [Calls -> Callers \cup {"none"}]
    /\ id \in [Calls -> Nat]
    /\ stat \in [Calls -> {"none", "send", "wait", "leave", "over"}]
    /\ outcome \in [Calls -> Outcomes \cup {"none"}]
    /\ got \in [Calls -> 0 .. MaxCalls]
    /\ filter \in [Calls -> {"off", "on", "gone"}]
    /\ stop \in [Calls -> BOOLEAN]
    /\ out \in [Calls -> Seq(Calls)]
    /\ asked \subseteq Calls
    /\ msgChan \in Seq(Calls) /\ Len(msgChan) <= MsgBufMax
    /\ closed \in BOOLEAN
    /\ listen \in {"read", "push", "done"}
    /\ held \in 0 .. MaxCalls
    /\ ctxDone \in BOOLEAN
    /\ hb \in {"tick", "call", "canceled", "noResponse", "failed"}
    /\ hls \in {"idle", "call", "retry"}
    /\ tries \in 0 .. HlsTries
    /\ info \in {"none", "playlist", "empty", "noMessage", "failed"}

(***************************************************************************)
(* The late reply to a request that timed out is never taken for the reply *)
(* to a later request of the same caller.                                  *)
(***************************************************************************)
NoStaleReply ==
    \A k \in Calls :
        got[k] # 0 => ~(got[k] < k /\ caller[got[k]] = caller[k])

(***************************************************************************)
(* Every call returns, and its filter goroutine ends.                      *)
(***************************************************************************)
CallsEnd ==
    \A k \in Calls : (stat[k] = "send") ~> (stat[k] = "over" /\ filter[k] = "gone")
=============================================================================
