----------------------------- MODULE LiveStream -----------------------------
(***************************************************************************)
(* One live stream session: DownloadLiveStream, downloadStream and         *)
(* fetchPlaylist of fc2/fc2_livestream.go, with DownloadChat of            *)
(* fc2/fc2_chat_downloader.go.                                             *)
(*                                                                         *)
(* A session is an errgroup of up to four workers that share one context,  *)
(* plus the helper goroutines they start:                                  *)
(*                                                                         *)
(*   "sup"    the body of DownloadLiveStream: dial, start, flush, wait     *)
(*   "listen" reads the websocket, feeds the comment channel               *)
(*   "hb"     the heartbeat loop                                           *)
(*   "dl"     downloadStream: starts one download thread per playlist      *)
(*   "chat"   DownloadChat, and "dedup", its removeDuplicatesComment       *)
(*   "closer" closes playlistChan once the context is done                 *)
(*   "fetch"  the playlist fetching and quality upgrade loop               *)
(*                                                                         *)
(* The download threads are numbered in the order in which they are        *)
(* started.  Each one runs hls.Read, which module HlsReader details; here  *)
(* it is what Read returns.  The websocket calls are what they return      *)
(* too: module WsRpc details them.                                         *)
(***************************************************************************)
EXTENDS Integers, Sequences

CONSTANTS
    WriteChat,            \* ls.Params.WriteChat
    AllowQualityUpgrade,  \* ls.Params.AllowQualityUpgrade
    CommentBufMax,        \* commentBufMax, the capacity of commentChan
    ListenErrors,         \* what ends Listen while the context is not done
    HbErrors,             \* what ends a heartbeat: no answer, or the write
    FetchResults,         \* what fetchPlaylist returns while ctx is not done
    ReadErrors,           \* what ends hls.Read while its context is not done
    MayHang               \* may a download thread block for over 30 seconds?

ASSUME ConstantsAssumption ==
    /\ WriteChat \in BOOLEAN
    /\ AllowQualityUpgrade \in BOOLEAN
    /\ CommentBufMax \in Nat \ {0}
    /\ ListenErrors \subseteq {"EOF", "Login", "Failure"}
    /\ HbErrors \subseteq {"NoResponse", "EOF", "Failure"}
    /\ FetchResults \subseteq {"expected", "unexpected", "error"}
    /\ ReadErrors \subseteq {"EOF", "Canceled", "Failure"}
    /\ MayHang \in BOOLEAN

VARIABLES
    pc,             \* control location of each goroutine
    err,            \* the error each group worker returns
    parentDone,     \* the context of the caller is cancelled
    gErr,           \* the error kept by the errgroup; setting it cancels ctx
    errs,           \* errs, in the order of the appendErr calls
    downloading,    \* downloading, of the playlist fetching loop
    plClosed,       \* playlistChan is closed
    cur,            \* the last download thread started, 0 if none
    thread,         \* control location of each download thread
    cancelled,      \* currentCancel was called on the context of the thread
    errChan,        \* errChan, each error with the thread it comes from
    comments,       \* len(commentChan)
    commentsClosed, \* commentChan is closed
    result,         \* what DownloadLiveStream returned
    crashed         \* how the process died, if it did

groupVars    == <<parentDone, gErr, errs, err>>
playlistVars == <<downloading, plClosed>>
threadVars   == <<cur, thread, cancelled, errChan>>
chatVars     == <<comments, commentsClosed>>
endVars      == <<result, crashed>>
vars == <<pc, groupVars, playlistVars, threadVars, chatVars, endVars>>

(***************************************************************************)
(* The errors, as far as a caller tells them apart.  "EOF" is io.EOF and,  *)
(* from Listen, ErrWebSocketStreamEnded; "Canceled" context.Canceled;      *)
(* "NoResponse" api.ErrNoResponse; "Login" ErrWebSocketLoginRequired and   *)
(* ErrWebSocketPaidProgram; "Failure" every other error.                   *)
(***************************************************************************)
Kinds   == {"EOF", "Canceled", "NoResponse", "Login", "Failure"}
Group   == {"listen", "hb", "dl"} \cup (IF WriteChat THEN {"chat"} ELSE {})
Procs   == {"sup", "listen", "hb", "dl", "chat", "dedup", "closer", "fetch"}
Threads == {1, 2}   \* the fetching loop sends at most two playlists

Sending == {"sendBest", "sendFinal"}
Working == {"start", "run", "report", "hung"}

\* The context of the group: cancelled by the caller or by the first return.
CtxDone == parentDone \/ gErr # "none"

\* The context of a download thread, derived from it.
ThreadCtxDone(i) == cancelled[i] \/ CtxDone

Goto(p, l) == pc' = [pc EXCEPT ![p] = l]

\* The worker leaves its function with error e; appendErr is what is next.
Leave(w, e) == /\ pc' = [pc EXCEPT ![w] = "append"]
               /\ err' = [err EXCEPT ![w] = e]

\* The process dies: no goroutine takes another step.
Crash(how) == /\ crashed' = how
              /\ pc' = [p \in Procs |-> "dead"]
              /\ thread' = [i \in Threads |-> "dead"]

(***************************************************************************)
(* GetFirstValuableErrorOrFirst.                                           *)
(***************************************************************************)
Valuable(e) == e \notin {"EOF", "Canceled"}

First(s, i) == /\ Valuable(s[i])
               /\ \A j \in 1 .. i - 1 : ~Valuable(s[j])

\* Slips in GetFirstValuableErrorOrFirst: the first error whatever it is; the
\* end of the stream before a real error.
FirstErrorOnly(s) == s[1]

EOFBeforeFailure(s) ==
    IF \E i \in DOMAIN s : s[i] = "EOF" THEN "EOF"
    ELSE s[1]

FirstValuableErrorOrFirst(s) ==
    IF \E i \in DOMAIN s : Valuable(s[i])
    THEN s[CHOOSE i \in DOMAIN s : First(s, i)]
    ELSE IF \E i \in DOMAIN s : s[i] = "EOF" THEN "EOF" ELSE s[1]

-----------------------------------------------------------------------------
Init ==
    /\ pc = [p \in Procs |-> IF p = "sup" THEN "dial" ELSE "off"]
    /\ err = [w \in Procs |-> "none"]
    /\ parentDone = FALSE
    /\ gErr = "none"
    /\ errs = << >>
    /\ downloading = FALSE
    /\ plClosed = FALSE
    /\ cur = 0
    /\ thread = [i \in Threads |-> "none"]
    /\ cancelled = [i \in Threads |-> FALSE]
    /\ errChan = << >>
    /\ comments = 0
    /\ commentsClosed = FALSE
    /\ result = "none"
    /\ crashed = "no"

\* The caller cancels its context: a reload of the configuration or a signal.
ParentCancel ==
    /\ crashed = "no"
    /\ ~parentDone
    /\ parentDone' = TRUE
    /\ UNCHANGED <<pc, gErr, errs, err, playlistVars, threadVars, chatVars,
                   endVars>>

-----------------------------------------------------------------------------
(* The body of DownloadLiveStream.                                         *)

StartPc == [p \in Procs |->
              CASE p = "sup"    -> "loop"
                [] p = "listen" -> "read"
                [] p = "hb"     -> "tick"
                [] p = "dl"     -> "create"
                [] p = "chat"   -> IF WriteChat THEN "create" ELSE "off"
                [] p = "dedup"  -> "off"
                [] p = "closer" -> "wait"
                [] p = "fetch"  -> "fetch"]

DialOk ==
    /\ pc["sup"] = "dial"
    /\ ~CtxDone
    /\ pc' = StartPc
    /\ UNCHANGED <<groupVars, playlistVars, threadVars, chatVars, endVars>>

DialFail ==
    /\ pc["sup"] = "dial"
    /\ result' = IF CtxDone THEN "Canceled" ELSE "Failure"
    /\ Goto("sup", "done")
    /\ UNCHANGED <<groupVars, playlistVars, threadVars, chatVars, crashed>>

\* The ticker of 5 seconds: only a channel that is one short of full is flushed.
Flush ==
    /\ pc["sup"] = "loop"
    /\ WriteChat
    /\ comments = CommentBufMax - 1
    /\ comments' = 0
    /\ UNCHANGED <<pc, groupVars, playlistVars, threadVars, commentsClosed,
                   endVars>>

SupDone ==
    /\ pc["sup"] = "loop"
    /\ CtxDone
    /\ Goto("sup", "wait")
    /\ UNCHANGED <<groupVars, playlistVars, threadVars, chatVars, endVars>>

\* g.Wait returned: every worker of the group has.
SupReturn ==
    /\ pc["sup"] = "wait"
    /\ \A w \in Group : pc[w] = "done"
    /\ LET e == FirstValuableErrorOrFirst(errs)
       IN  result' = IF e = "EOF" THEN "nil" ELSE e
    /\ Goto("sup", "done")
    /\ UNCHANGED <<groupVars, playlistVars, threadVars, chatVars, crashed>>

-----------------------------------------------------------------------------
(* What every worker does with its error.                                  *)

AppendErr(w) ==
    /\ pc[w] = "append"
    /\ errs' = Append(errs, err[w])
    /\ Goto(w, "return")
    /\ UNCHANGED <<parentDone, gErr, err, playlistVars, threadVars, chatVars,
                   endVars>>

\* The errgroup keeps the first error and cancels the context.
Return(w) ==
    /\ pc[w] = "return"
    /\ gErr' = IF gErr = "none" THEN err[w] ELSE gErr
    /\ Goto(w, "done")
    /\ UNCHANGED <<parentDone, errs, err, playlistVars, threadVars, chatVars,
                   endVars>>

-----------------------------------------------------------------------------
(* Listen.  A read that succeeds does so before the context is done.       *)

ListenComment ==
    /\ pc["listen"] = "read"
    /\ ~CtxDone
    /\ WriteChat
    /\ Goto("listen", "push")
    /\ UNCHANGED <<groupVars, playlistVars, threadVars, chatVars, endVars>>

\* commentChan <- &comment: it waits for room, and for nothing else.
ListenPush ==
    /\ pc["listen"] = "push"
    /\ comments < CommentBufMax
    /\ comments' = comments + 1
    /\ Goto("listen", "read")
    /\ UNCHANGED <<groupVars, playlistVars, threadVars, commentsClosed, endVars>>

ListenErr(e) ==
    /\ pc["listen"] = "read"
    /\ e \in IF CtxDone THEN {"Canceled", "EOF"} ELSE ListenErrors
    /\ err' = [err EXCEPT !["listen"] = e]
    /\ Goto("listen", "close")
    /\ UNCHANGED <<parentDone, gErr, errs, playlistVars, threadVars, chatVars,
                   endVars>>

\* The channels are closed first; the end of the stream is not appended.
ListenClose ==
    /\ pc["listen"] = "close"
    /\ commentsClosed' = TRUE
    /\ Goto("listen", IF err["listen"] = "EOF" THEN "return" ELSE "append")
    /\ UNCHANGED <<groupVars, playlistVars, threadVars, comments, endVars>>

-----------------------------------------------------------------------------
(* HeartbeatLoop.                                                          *)

HbTick ==
    /\ pc["hb"] = "tick"
    /\ Goto("hb", "rpc")
    /\ UNCHANGED <<groupVars, playlistVars, threadVars, chatVars, endVars>>

HbAnswer ==
    /\ pc["hb"] = "rpc"
    /\ ~CtxDone
    /\ Goto("hb", "tick")
    /\ UNCHANGED <<groupVars, playlistVars, threadVars, chatVars, endVars>>

\* No answer within 15 seconds, or a cancelled wait, is ErrNoResponse; the
\* other errors are those of the write.
HbFail(e) ==
    /\ pc["hb"] = "rpc"
    /\ e \in HbErrors \cup (IF CtxDone THEN {"NoResponse", "Canceled"} ELSE {})
    /\ Leave("hb", e)
    /\ UNCHANGED <<parentDone, gErr, errs, playlistVars, threadVars, chatVars,
                   endVars>>

HbCancel ==
    /\ pc["hb"] = "tick"
    /\ CtxDone
    /\ Leave("hb", "Canceled")
    /\ UNCHANGED <<parentDone, gErr, errs, playlistVars, threadVars, chatVars,
                   endVars>>

-----------------------------------------------------------------------------
(* The goroutine that closes playlistChan, and the playlist fetching loop. *)

\* Slip: the goroutine ends without the close.
CloserForgetsClose ==
    /\ pc["closer"] = "wait"
    /\ CtxDone
    /\ Goto("closer", "done")
    /\ UNCHANGED <<groupVars, playlistVars, threadVars, chatVars, endVars>>

CloserClose ==
    /\ pc["closer"] = "wait"
    /\ CtxDone
    /\ plClosed' = TRUE
    /\ Goto("closer", "done")
    /\ UNCHANGED <<groupVars, downloading, threadVars, chatVars, endVars>>

\* Where the loop goes after an attempt that was not the last one.
AfterAttempt == IF AllowQualityUpgrade THEN "tick" ELSE "done"

\* fetchPlaylist returned the playlist of the requested quality.
FetchExpected ==
    /\ pc["fetch"] = "fetch"
    /\ "expected" \in FetchResults
    /\ ~CtxDone
    /\ Goto("fetch", "sendFinal")
    /\ UNCHANGED <<groupVars, playlistVars, threadVars, chatVars, endVars>>

\* It returned ErrQualityNotExpected with the best playlist there is.
FetchUnexpected ==
    /\ pc["fetch"] = "fetch"
    /\ "unexpected" \in FetchResults
    /\ ~CtxDone
    /\ Goto("fetch", IF downloading THEN AfterAttempt ELSE "sendBest")
    /\ UNCHANGED <<groupVars, playlistVars, threadVars, chatVars, endVars>>

\* It returned another error, which is logged.
FetchError ==
    /\ pc["fetch"] = "fetch"
    /\ CtxDone \/ "error" \in FetchResults
    /\ Goto("fetch", AfterAttempt)
    /\ UNCHANGED <<groupVars, playlistVars, threadVars, chatVars, endVars>>

FetchAgain ==
    /\ pc["fetch"] = "tick"
    /\ Goto("fetch", "fetch")
    /\ UNCHANGED <<groupVars, playlistVars, threadVars, chatVars, endVars>>

\* Slip: the context is only looked at before the first playlist.
FetchStopBeforeDownload ==
    /\ pc["fetch"] = "tick"
    /\ CtxDone
    /\ ~downloading
    /\ Goto("fetch", "done")
    /\ UNCHANGED <<groupVars, playlistVars, threadVars, chatVars, endVars>>

FetchStop ==
    /\ pc["fetch"] = "tick"
    /\ CtxDone
    /\ Goto("fetch", "done")
    /\ UNCHANGED <<groupVars, playlistVars, threadVars, chatVars, endVars>>

\* playlistChan <- playlist on a closed channel.
SendOnClosed ==
    /\ pc["fetch"] \in Sending
    /\ plClosed
    /\ Crash("panic")
    /\ UNCHANGED <<groupVars, playlistVars, cur, cancelled, errChan, chatVars,
                   result>>

-----------------------------------------------------------------------------
(* downloadStream.                                                         *)

DlCreate ==
    /\ pc["dl"] = "create"
    /\ Goto("dl", "select")
    /\ UNCHANGED <<groupVars, playlistVars, threadVars, chatVars, endVars>>

DlCreateFail ==
    /\ pc["dl"] = "create"
    /\ Leave("dl", "Failure")
    /\ UNCHANGED <<parentDone, gErr, errs, playlistVars, threadVars, chatVars,
                   endVars>>

\* The next download thread.
Launch == /\ cur' = cur + 1
          /\ thread' = [thread EXCEPT ![cur + 1] = "start"]

Cancel(i) == cancelled' = [cancelled EXCEPT ![i] = TRUE]

\* Slips: downloading is not set after the first playlist; a second playlist
\* is not received.
ReceiveForgetsDownloading ==
    /\ pc["dl"] = "select"
    /\ pc["fetch"] \in Sending
    /\ ~plClosed
    /\ pc' = [pc EXCEPT
         !["dl"]    = IF cur = 0 THEN "select" ELSE "probe",
         !["fetch"] = IF pc["fetch"] = "sendFinal" THEN "done" ELSE AfterAttempt]
    /\ IF cur = 0 THEN Launch ELSE UNCHANGED <<cur, thread>>
    /\ UNCHANGED <<groupVars, playlistVars, cancelled, errChan, chatVars, endVars>>

ReceiveFirstOnly ==
    /\ pc["dl"] = "select"
    /\ pc["fetch"] \in Sending
    /\ cur = 0
    /\ ~plClosed
    /\ pc' = [pc EXCEPT
         !["fetch"] = IF pc["fetch"] = "sendFinal" THEN "done" ELSE AfterAttempt]
    /\ downloading' = (downloading \/ pc["fetch"] = "sendBest")
    /\ Launch
    /\ UNCHANGED <<groupVars, plClosed, cancelled, errChan, chatVars, endVars>>

\* playlistChan is unbuffered: the fetching loop and downloadStream meet.  A
\* first playlist is downloaded at once, a second one is probed before.
DlReceive ==
    /\ pc["dl"] = "select"
    /\ pc["fetch"] \in Sending
    /\ ~plClosed
    /\ pc' = [pc EXCEPT
         !["dl"]    = IF cur = 0 THEN "select" ELSE "probe",
         !["fetch"] = IF pc["fetch"] = "sendFinal" THEN "done" ELSE AfterAttempt]
    /\ downloading' = (downloading \/ pc["fetch"] = "sendBest")
    /\ IF cur = 0 THEN Launch ELSE UNCHANGED <<cur, thread>>
    /\ UNCHANGED <<groupVars, plClosed, cancelled, errChan, chatVars, endVars>>

\* The probe failed: the playlist is dropped.
DlProbeErr ==
    /\ pc["dl"] = "probe"
    /\ Goto("dl", "select")
    /\ UNCHANGED <<groupVars, playlistVars, threadVars, chatVars, endVars>>

DlProbeNotReady ==
    /\ pc["dl"] = "probe"
    /\ ~CtxDone
    /\ Goto("dl", "sleep")
    /\ UNCHANGED <<groupVars, playlistVars, threadVars, chatVars, endVars>>

\* The new playlist is alive: cancel the old download thread.
DlProbeOk ==
    /\ pc["dl"] = "probe"
    /\ ~CtxDone
    /\ Cancel(cur)
    /\ Goto("dl", "swap")
    /\ UNCHANGED <<groupVars, playlistVars, cur, thread, errChan, chatVars,
                   endVars>>

DlProbeAgain ==
    /\ pc["dl"] = "sleep"
    /\ ~CtxDone
    /\ Goto("dl", "probe")
    /\ UNCHANGED <<groupVars, playlistVars, threadVars, chatVars, endVars>>

\* return ctx.Err(): the old download thread is left behind.
DlProbeCanceled ==
    /\ pc["dl"] = "sleep"
    /\ CtxDone
    /\ Leave("dl", "Canceled")
    /\ UNCHANGED <<parentDone, gErr, errs, playlistVars, threadVars, chatVars,
                   endVars>>

\* Slip: the new thread is started without waiting for the old one.
SwapWithoutWait ==
    /\ pc["dl"] = "swap"
    /\ Launch
    /\ Goto("dl", "select")
    /\ UNCHANGED <<groupVars, playlistVars, cancelled, errChan, chatVars, endVars>>

\* <-doneChan, then the new download thread.
DlSwap ==
    /\ pc["dl"] = "swap"
    /\ thread[cur] = "done"
    /\ Launch
    /\ Goto("dl", "select")
    /\ UNCHANGED <<groupVars, playlistVars, cancelled, errChan, chatVars, endVars>>

\* Slips: the close of playlistChan returns at once; the wait is not made.
ClosedWithoutCancel ==
    /\ pc["dl"] = "select"
    /\ plClosed
    /\ Leave("dl", "EOF")
    /\ UNCHANGED <<parentDone, gErr, errs, playlistVars, threadVars, chatVars,
                   endVars>>

DrainedWithoutWait ==
    /\ pc["dl"] = "drain"
    /\ Leave("dl", "EOF")
    /\ UNCHANGED <<parentDone, gErr, errs, playlistVars, threadVars, chatVars,
                   endVars>>

\* playlistChan is closed.
DlClosed ==
    /\ pc["dl"] = "select"
    /\ plClosed
    /\ IF cur = 0
       THEN Leave("dl", "EOF") /\ UNCHANGED cancelled
       ELSE Cancel(cur) /\ Goto("dl", "drain") /\ UNCHANGED err
    /\ UNCHANGED <<parentDone, gErr, errs, playlistVars, cur, thread, errChan,
                   chatVars, endVars>>

DlDrained ==
    /\ pc["dl"] = "drain"
    /\ thread[cur] = "done"
    /\ Leave("dl", "EOF")
    /\ UNCHANGED <<parentDone, gErr, errs, playlistVars, threadVars, chatVars,
                   endVars>>

\* 30 seconds went by on doneChan: log.Fatal.
DlDoneTimeout ==
    /\ pc["dl"] \in {"swap", "drain"}
    /\ thread[cur] = "hung"
    /\ Crash("fatal")
    /\ UNCHANGED <<groupVars, playlistVars, cur, cancelled, errChan, chatVars,
                   result>>

\* A download thread reported Canceled and the context is not done: go on.
DlIgnoreCanceled ==
    /\ pc["dl"] = "select"
    /\ errChan # << >>
    /\ Head(errChan).kind = "Canceled"
    /\ ~CtxDone
    /\ errChan' = Tail(errChan)
    /\ UNCHANGED <<pc, groupVars, playlistVars, cur, thread, cancelled, chatVars,
                   endVars>>

\* Any other report ends downloadStream, which cancels the current thread but
\* does not wait for it.
DlError ==
    /\ pc["dl"] = "select"
    /\ errChan # << >>
    /\ Head(errChan).kind = "Canceled" => CtxDone
    /\ errChan' = Tail(errChan)
    /\ Cancel(cur)
    /\ Leave("dl", Head(errChan).kind)
    /\ UNCHANGED <<parentDone, gErr, errs, playlistVars, cur, thread, chatVars,
                   endVars>>

-----------------------------------------------------------------------------
(* A download thread.  "start" is before checkpointMu.Lock(), "run" inside *)
(* hls.Read, "report" between Unlock and the close of doneChan.            *)

ThreadLock(i) ==
    /\ thread[i] = "start"
    /\ \A j \in Threads : thread[j] \notin {"run", "hung"}
    /\ thread' = [thread EXCEPT ![i] = "run"]
    /\ UNCHANGED <<pc, groupVars, playlistVars, cur, cancelled, errChan,
                   chatVars, endVars>>

\* hls.Read returned.  Canceled comes from the context of the thread, and
\* also from Read's own cancel after a forbidden or too many lost fragments.
ThreadEnd(i, e) ==
    /\ thread[i] = "run"
    /\ e \in ReadErrors \cup (IF ThreadCtxDone(i) THEN {"Canceled"} ELSE {})
    /\ errChan' = Append(errChan, [from |-> i, kind |-> e])
    /\ thread' = [thread EXCEPT ![i] = "report"]
    /\ UNCHANGED <<pc, groupVars, playlistVars, cur, cancelled, chatVars,
                   endVars>>

\* close(doneChan)
ThreadClose(i) ==
    /\ thread[i] = "report"
    /\ thread' = [thread EXCEPT ![i] = "done"]
    /\ UNCHANGED <<pc, groupVars, playlistVars, cur, cancelled, errChan,
                   chatVars, endVars>>

\* A write or a request that does not return.
ThreadHang(i) ==
    /\ MayHang
    /\ thread[i] = "run"
    /\ thread' = [thread EXCEPT ![i] = "hung"]
    /\ UNCHANGED <<pc, groupVars, playlistVars, cur, cancelled, errChan,
                   chatVars, endVars>>

-----------------------------------------------------------------------------
(* DownloadChat and removeDuplicatesComment.                               *)

ChatCreate ==
    /\ pc["chat"] = "create"
    /\ pc' = [pc EXCEPT !["chat"] = "run", !["dedup"] = "recv"]
    /\ UNCHANGED <<groupVars, playlistVars, threadVars, chatVars, endVars>>

ChatCreateFail ==
    /\ pc["chat"] = "create"
    /\ Leave("chat", "Failure")
    /\ UNCHANGED <<parentDone, gErr, errs, playlistVars, threadVars, chatVars,
                   endVars>>

\* One comment out of commentChan; a repeated one is dropped.
DedupReceive ==
    /\ pc["dedup"] = "recv"
    /\ comments > 0
    /\ comments' = comments - 1
    /\ \E l \in {"recv", "send"} : Goto("dedup", l)
    /\ UNCHANGED <<groupVars, playlistVars, threadVars, commentsClosed, endVars>>

\* Slip: the comments left in the channel when it is closed are lost.
DedupEndsEarly ==
    /\ pc["dedup"] = "recv"
    /\ commentsClosed
    /\ Goto("dedup", "done")
    /\ UNCHANGED <<groupVars, playlistVars, threadVars, chatVars, endVars>>

DedupEnd ==
    /\ pc["dedup"] = "recv"
    /\ comments = 0
    /\ commentsClosed
    /\ Goto("dedup", "done")
    /\ UNCHANGED <<groupVars, playlistVars, threadVars, chatVars, endVars>>

ChatWrite ==
    /\ pc["chat"] = "run"
    /\ pc["dedup"] = "send"
    /\ Goto("dedup", "recv")
    /\ UNCHANGED <<groupVars, playlistVars, threadVars, chatVars, endVars>>

ChatWriteFail ==
    /\ pc["chat"] = "run"
    /\ pc["dedup"] = "send"
    /\ pc' = [pc EXCEPT !["dedup"] = "recv", !["chat"] = "append"]
    /\ err' = [err EXCEPT !["chat"] = "Failure"]
    /\ UNCHANGED <<parentDone, gErr, errs, playlistVars, threadVars, chatVars,
                   endVars>>

ChatClosed ==
    /\ pc["chat"] = "run"
    /\ pc["dedup"] = "done"
    /\ Leave("chat", "EOF")
    /\ UNCHANGED <<parentDone, gErr, errs, playlistVars, threadVars, chatVars,
                   endVars>>

ChatCancel ==
    /\ pc["chat"] = "run"
    /\ CtxDone
    /\ Leave("chat", "Canceled")
    /\ UNCHANGED <<parentDone, gErr, errs, playlistVars, threadVars, chatVars,
                   endVars>>

-----------------------------------------------------------------------------
\* Nothing is left to run; a removeDuplicatesComment that nobody reads stays.
Terminated ==
    /\ \/ crashed # "no"
       \/ /\ pc["sup"] = "done"
          /\ pc["closer"] \in {"off", "done"}
          /\ pc["fetch"] \in {"off", "done"}
          /\ \A i \in Threads : thread[i] \in {"none", "done", "hung"}
    /\ UNCHANGED vars

Sup     == DialOk \/ DialFail \/ Flush \/ SupDone \/ SupReturn
Listen  == ListenComment \/ ListenPush \/ ListenClose \/ \E e \in Kinds : ListenErr(e)
Hb      == HbTick \/ HbAnswer \/ HbCancel \/ \E e \in Kinds : HbFail(e)
Fetch   == FetchExpected \/ FetchUnexpected \/ FetchError \/ FetchAgain
           \/ FetchStop \/ SendOnClosed
Dl      == DlCreate \/ DlCreateFail \/ DlReceive \/ DlProbeErr \/ DlProbeNotReady
           \/ DlProbeOk \/ DlProbeAgain \/ DlProbeCanceled \/ DlSwap \/ DlClosed
           \/ DlDrained \/ DlDoneTimeout \/ DlIgnoreCanceled \/ DlError
Thread(i) == ThreadLock(i) \/ ThreadClose(i) \/ ThreadHang(i)
             \/ \E e \in Kinds : ThreadEnd(i, e)
Chat    == ChatCreate \/ ChatCreateFail \/ DedupReceive \/ DedupEnd \/ ChatWrite
           \/ ChatWriteFail \/ ChatClosed \/ ChatCancel

Next ==
    \/ ParentCancel
    \/ Sup
    \/ \E w \in Group : AppendErr(w) \/ Return(w)
    \/ Listen
    \/ Hb
    \/ CloserClose
    \/ Fetch
    \/ Dl
    \/ \E i \in Threads : Thread(i)
    \/ Chat
    \/ Terminated

(***************************************************************************)
(* Fairness: a goroutine that can go on by itself does.  No fairness on    *)
(* what the environment decides: messages, the end of the stream, write    *)
(* errors, the cancellation by the caller, a thread that is not cancelled. *)
(* FetchStop is strong: the select of the loop picks at random between the *)
(* ticker and the context.                                                 *)
(***************************************************************************)
Fairness ==
    /\ WF_vars(DialOk \/ DialFail)
    /\ WF_vars(SupDone)
    /\ WF_vars(SupReturn)
    /\ \A w \in {"listen", "hb", "dl", "chat"} : WF_vars(AppendErr(w) \/ Return(w))
    /\ WF_vars(ListenPush)
    /\ WF_vars(ListenClose)
    /\ WF_vars(CtxDone /\ \E e \in Kinds : ListenErr(e))
    /\ WF_vars(HbAnswer \/ \E e \in Kinds : HbFail(e))
    /\ WF_vars(HbCancel)
    /\ WF_vars(CloserClose)
    /\ WF_vars(FetchExpected \/ FetchUnexpected \/ FetchError)
    /\ SF_vars(FetchStop)
    /\ WF_vars(SendOnClosed)
    /\ WF_vars(Dl)
    /\ \A i \in Threads :
         /\ WF_vars(ThreadLock(i))
         /\ WF_vars(ThreadCtxDone(i) /\ \E e \in Kinds : ThreadEnd(i, e))
         /\ WF_vars(ThreadClose(i))
    /\ WF_vars(ChatCreate \/ ChatCreateFail)
    /\ WF_vars(DedupReceive \/ DedupEnd)
    /\ WF_vars(ChatWrite \/ ChatWriteFail \/ ChatClosed)
    /\ WF_vars(ChatCancel)

Spec     == Init /\ [][Next]_vars
FairSpec == Spec /\ Fairness

-----------------------------------------------------------------------------
(* Properties.                                                             *)

Locations == {"off", "dial", "loop", "wait", "done", "read", "push", "close",
              "append", "return", "tick", "rpc", "fetch", "sendBest",
              "sendFinal", "create", "select", "probe", "sleep", "swap",
              "drain", "run", "recv", "send", "dead"}

\* The type of the state.
TypeOK ==
    /\ pc \in [Procs -> Locations]
    /\ err \in [Procs -> Kinds \cup {"none"}]
    /\ parentDone \in BOOLEAN
    /\ gErr \in Kinds \cup {"none"}
    /\ errs \in Seq(Kinds)
    /\ downloading \in BOOLEAN
    /\ plClosed \in BOOLEAN
    /\ cur \in {0} \cup Threads
    /\ thread \in [Threads -> Working \cup {"none", "done", "dead"}]
    /\ cancelled \in [Threads -> BOOLEAN]
    /\ errChan \in Seq([from : Threads, kind : Kinds])
    /\ comments \in 0 .. CommentBufMax
    /\ commentsClosed \in BOOLEAN
    /\ result \in Kinds \cup {"none", "nil"}
    /\ crashed \in {"no", "panic", "fatal"}

(***************************************************************************)
(* "Channel used to assure only one downloader can be launched": no two    *)
(* download threads are alive together, the mutex on the checkpoint never  *)
(* being what keeps them apart.                                            *)
(***************************************************************************)
OneDownloader ==
    \A i, j \in Threads :
        (thread[i] \in Working /\ thread[j] \in Working) => i = j

(***************************************************************************)
(* A session that some worker left with a real error is never reported as  *)
(* finished or as canceled, whatever the order in which the workers end.   *)
(***************************************************************************)
FailureNotSwallowed ==
    (result \in {"nil", "Canceled"}) =>
        \A w \in Group : err[w] \in {"none", "EOF", "Canceled"}

(***************************************************************************)
(* A session is reported as finished only if what stopped it is the end of *)
(* the stream, or the caller.                                              *)
(***************************************************************************)
FinishedHonest == result = "nil" => gErr = "EOF" \/ parentDone

(***************************************************************************)
(* Without quality upgrades the file of the recording is open as long as a *)
(* download thread writes to it: downloadStream returns after its thread.  *)
(***************************************************************************)
FileOpen == pc["dl"] \in {"select", "probe", "sleep", "swap", "drain"}

NoWriteAfterClose ==
    \A i \in Threads : thread[i] \in {"start", "run"} => FileOpen

(***************************************************************************)
(* The only way to close the playlist channel under a waiting downloader   *)
(* leads to an orderly end: once downloadStream returned because of it, no *)
(* download thread is alive.                                               *)
(***************************************************************************)
DrainedAtEnd ==
    [][(pc["dl"] = "drain" /\ pc'["dl"] = "append") =>
          \A i \in Threads : thread'[i] \notin Working]_vars

(***************************************************************************)
(* Once the context is done the session returns, or the process is gone:   *)
(* no worker waits for another one for ever.                               *)
(***************************************************************************)
SessionEnds == CtxDone ~> (pc["sup"] = "done" \/ crashed # "no")

(***************************************************************************)
(* A playlist that was fetched is recorded, probed, or the session ends:   *)
(* the fetching loop is not left blocked on playlistChan.                  *)
(***************************************************************************)
PlaylistHandedOver ==
    (pc["fetch"] \in Sending) ~> (pc["fetch"] \notin Sending)

(***************************************************************************)
(* No goroutine outlives the session for ever: the fetching loop and the   *)
(* download threads that are not stuck end after DownloadLiveStream        *)
(* returned.                                                               *)
(***************************************************************************)
NoLeak ==
    (pc["sup"] = "done") ~>
        \/ crashed # "no"
        \/ /\ pc["fetch"] \in {"off", "done"}
           /\ \A i \in Threads : thread[i] \in {"none", "done", "hung"}

(***************************************************************************)
(* A chat that ends because its channel was closed left no comment in it.  *)
(***************************************************************************)
ChatComplete == err["chat"] = "EOF" => comments = 0

(***************************************************************************)
(* A session keeps the promise of module Session.                          *)
(***************************************************************************)
SessionPhase ==
    CASE crashed # "no"                                     -> "crashed"
      [] crashed = "no" /\ result # "none"                  -> "ended"
      [] crashed = "no" /\ result = "none" /\ CtxDone       -> "stopping"
      [] crashed = "no" /\ result = "none" /\ ~CtxDone      -> "running"

RecorderOf(t) == IF \E i \in Threads : t[i] \in Working
                 THEN CHOOSE i \in Threads : t[i] \in Working ELSE 0

S == INSTANCE Session WITH
        Errors   <- {e \in Kinds : Valuable(e)},
        Ends     <- {"EOF", "Canceled"},
        phase    <- SessionPhase,
        reports  <- {errs[i] : i \in DOMAIN errs},
        recorder <- RecorderOf(thread),
        count    <- cur,
        outcome  <- result

SessionPromise == S!Spec

-----------------------------------------------------------------------------
(* What the repository says and the code does not do.                      *)

(***************************************************************************)
(* A session ends canceled only if its caller canceled it: otherwise Watch *)
(* returns and watch_command.go:339 panics.                                *)
(***************************************************************************)
CanceledByCaller == result = "Canceled" => parentDone

(***************************************************************************)
(* The end of a session never kills the process.                           *)
(***************************************************************************)
NoPanic == crashed # "panic"

(***************************************************************************)
(* A download thread that stopped is replaced or ends the session.         *)
(***************************************************************************)
StopAtFirstError ==
    \A i \in Threads :
        (thread[i] = "done" /\ cur = i /\ pc["dl"] = "select") ~>
            (CtxDone \/ cur # i \/ crashed # "no")
=============================================================================
