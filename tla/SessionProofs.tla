----------------------------- MODULE SessionProofs -----------------------------
(***************************************************************************)
(* Proofs about LiveStream, continued: that a session keeps the promise of *)
(* module Session, that downloadStream drains its thread before it ends,   *)
(* and that a chat that ends writes what it was sent.                      *)
(*                                                                         *)
(* They start from the inductive invariant IInv of LiveStreamProofs and    *)
(* add what it does not say of the ends: a process that died has stopped   *)
(* whole, a session that returned has left its workers, and a comment is   *)
(* never pushed on a channel that is closed.                               *)
(***************************************************************************)
EXTENDS LiveStreamProofs

-----------------------------------------------------------------------------
(* The invariant.                                                          *)

\* A process that died has no goroutine left.
DeadWhole ==
    crashed # "no" => /\ \A p \in Procs : pc[p] = "dead"
                      /\ \A i \in Threads : thread[i] = "dead"

\* A session that returned has no worker left; one that dials has no error.
Ended ==
    /\ result # "none" => /\ pc["sup"] \in {"done", "dead"}
                          /\ \A w \in Group : pc[w] \in {"off", "done", "dead"}
    /\ pc["sup"] = "dial" => errs = << >> /\ gErr = "none"

\* Listen is through with a channel that it closed, and what
\* removeDuplicatesComment found to be empty and closed stays so.
ChatOver ==
    /\ commentsClosed => pc["listen"] \in {"append", "return", "done", "dead"}
    /\ pc["dedup"] = "done" => commentsClosed /\ comments = 0
    /\ err["chat"] = "EOF" => commentsClosed /\ comments = 0

EndsInv == DeadWhole /\ Ended /\ ChatOver

-----------------------------------------------------------------------------
(* It holds from the start, and every step keeps it.                       *)

USE ConstantsAssumption
    DEF ConstantsAssumption, IInv, TypeOK, Control, Reports, Kinds, Procs,
        Threads, Locations, Working, Workers, Group, CtxDone, groupVars,
        playlistVars, threadVars, chatVars, endVars

LEMMA InitEnds == Init => EndsInv
  BY DEF Init, EndsInv, DeadWhole, Ended, ChatOver

\* The body of DownloadLiveStream.
LEMMA SupEnds == IInv /\ EndsInv /\ Sup => EndsInv'
<1> SUFFICES ASSUME IInv, EndsInv, Sup PROVE EndsInv'
  OBVIOUS
<1>1. CASE DialOk
  <2>1. DeadWhole'
    BY <1>1 DEF DialOk, Goto, Leave, StartPc, EndsInv, DeadWhole, NotStarted
  <2>2. Ended'
    BY <1>1 DEF DialOk, Goto, Leave, StartPc, EndsInv, Ended, NotStarted
  <2>3. ChatOver'
    BY <1>1 DEF DialOk, Goto, Leave, StartPc, EndsInv, ChatOver, NotStarted
  <2> QED
    BY <2>1, <2>2, <2>3 DEF EndsInv
<1>2. CASE DialFail
  <2>1. DeadWhole'
    BY <1>2 DEF DialFail, Goto, Leave, EndsInv, DeadWhole, NotStarted
  <2>2. Ended'
    BY <1>2 DEF DialFail, Goto, Leave, EndsInv, Ended, NotStarted
  <2>3. ChatOver'
    BY <1>2 DEF DialFail, Goto, Leave, EndsInv, ChatOver, NotStarted
  <2> QED
    BY <2>1, <2>2, <2>3 DEF EndsInv
<1>3. CASE Flush
  <2>1. DeadWhole'
    BY <1>3 DEF Flush, Goto, Leave, EndsInv, DeadWhole
  <2>2. Ended'
    BY <1>3 DEF Flush, Goto, Leave, EndsInv, Ended
  <2>3. ChatOver'
    BY <1>3 DEF Flush, Goto, Leave, EndsInv, ChatOver
  <2> QED
    BY <2>1, <2>2, <2>3 DEF EndsInv
<1>4. CASE SupDone
  <2>1. DeadWhole'
    BY <1>4 DEF SupDone, Goto, Leave, EndsInv, DeadWhole
  <2>2. Ended'
    BY <1>4 DEF SupDone, Goto, Leave, EndsInv, Ended
  <2>3. ChatOver'
    BY <1>4 DEF SupDone, Goto, Leave, EndsInv, ChatOver
  <2> QED
    BY <2>1, <2>2, <2>3 DEF EndsInv
<1>5. CASE SupReturn
  <2>1. DeadWhole'
    BY <1>5 DEF SupReturn, Goto, Leave, EndsInv, DeadWhole
  <2>2. Ended'
    BY <1>5 DEF SupReturn, Goto, Leave, EndsInv, Ended
  <2>3. ChatOver'
    BY <1>5 DEF SupReturn, Goto, Leave, EndsInv, ChatOver
  <2> QED
    BY <2>1, <2>2, <2>3 DEF EndsInv
<1> QED
  BY <1>1, <1>2, <1>3, <1>4, <1>5 DEF Sup

\* Listen.
LEMMA ListenEnds == IInv /\ EndsInv /\ Listen => EndsInv'
<1> SUFFICES ASSUME IInv, EndsInv, Listen PROVE EndsInv'
  OBVIOUS
<1>1. CASE ListenComment
  <2>1. DeadWhole'
    BY <1>1 DEF ListenComment, Goto, Leave, EndsInv, DeadWhole
  <2>2. Ended'
    BY <1>1 DEF ListenComment, Goto, Leave, EndsInv, Ended
  <2>3. ChatOver'
    BY <1>1 DEF ListenComment, Goto, Leave, EndsInv, ChatOver
  <2> QED
    BY <2>1, <2>2, <2>3 DEF EndsInv
<1>2. CASE ListenPush
  <2>1. DeadWhole'
    BY <1>2 DEF ListenPush, Goto, Leave, EndsInv, DeadWhole
  <2>2. Ended'
    BY <1>2 DEF ListenPush, Goto, Leave, EndsInv, Ended
  <2>3. ChatOver'
    BY <1>2 DEF ListenPush, Goto, Leave, EndsInv, ChatOver
  <2> QED
    BY <2>1, <2>2, <2>3 DEF EndsInv
<1>3. CASE ListenClose
  <2>1. DeadWhole'
    BY <1>3 DEF ListenClose, Goto, Leave, EndsInv, DeadWhole
  <2>2. Ended'
    BY <1>3 DEF ListenClose, Goto, Leave, EndsInv, Ended
  <2>3. ChatOver'
    BY <1>3 DEF ListenClose, Goto, Leave, EndsInv, ChatOver
  <2> QED
    BY <2>1, <2>2, <2>3 DEF EndsInv
<1>4. ASSUME NEW e \in Kinds, ListenErr(e) PROVE EndsInv'
  <2>1. DeadWhole'
    BY <1>4 DEF ListenErr, Goto, Leave, EndsInv, DeadWhole
  <2>2. Ended'
    BY <1>4 DEF ListenErr, Goto, Leave, EndsInv, Ended
  <2>3. ChatOver'
    BY <1>4 DEF ListenErr, Goto, Leave, EndsInv, ChatOver
  <2> QED
    BY <2>1, <2>2, <2>3 DEF EndsInv
<1> QED
  BY <1>1, <1>2, <1>3, <1>4 DEF Listen

\* The heartbeat loop.
LEMMA HbEnds == IInv /\ EndsInv /\ Hb => EndsInv'
<1> SUFFICES ASSUME IInv, EndsInv, Hb PROVE EndsInv'
  OBVIOUS
<1>1. CASE HbTick
  <2>1. DeadWhole'
    BY <1>1 DEF HbTick, Goto, Leave, EndsInv, DeadWhole
  <2>2. Ended'
    BY <1>1 DEF HbTick, Goto, Leave, EndsInv, Ended
  <2>3. ChatOver'
    BY <1>1 DEF HbTick, Goto, Leave, EndsInv, ChatOver
  <2> QED
    BY <2>1, <2>2, <2>3 DEF EndsInv
<1>2. CASE HbAnswer
  <2>1. DeadWhole'
    BY <1>2 DEF HbAnswer, Goto, Leave, EndsInv, DeadWhole
  <2>2. Ended'
    BY <1>2 DEF HbAnswer, Goto, Leave, EndsInv, Ended
  <2>3. ChatOver'
    BY <1>2 DEF HbAnswer, Goto, Leave, EndsInv, ChatOver
  <2> QED
    BY <2>1, <2>2, <2>3 DEF EndsInv
<1>3. CASE HbCancel
  <2>1. DeadWhole'
    BY <1>3 DEF HbCancel, Goto, Leave, EndsInv, DeadWhole
  <2>2. Ended'
    BY <1>3 DEF HbCancel, Goto, Leave, EndsInv, Ended
  <2>3. ChatOver'
    BY <1>3 DEF HbCancel, Goto, Leave, EndsInv, ChatOver
  <2> QED
    BY <2>1, <2>2, <2>3 DEF EndsInv
<1>4. ASSUME NEW e \in Kinds, HbFail(e) PROVE EndsInv'
  <2>1. DeadWhole'
    BY <1>4 DEF HbFail, Goto, Leave, EndsInv, DeadWhole
  <2>2. Ended'
    BY <1>4 DEF HbFail, Goto, Leave, EndsInv, Ended
  <2>3. ChatOver'
    BY <1>4 DEF HbFail, Goto, Leave, EndsInv, ChatOver
  <2> QED
    BY <2>1, <2>2, <2>3 DEF EndsInv
<1> QED
  BY <1>1, <1>2, <1>3, <1>4 DEF Hb

\* The playlist fetching loop.
LEMMA FetchEnds == IInv /\ EndsInv /\ Fetch => EndsInv'
<1> SUFFICES ASSUME IInv, EndsInv, Fetch PROVE EndsInv'
  OBVIOUS
<1>1. CASE FetchExpected
  <2>1. DeadWhole'
    BY <1>1 DEF FetchExpected, Goto, Leave, EndsInv, DeadWhole
  <2>2. Ended'
    BY <1>1 DEF FetchExpected, Goto, Leave, EndsInv, Ended
  <2>3. ChatOver'
    BY <1>1 DEF FetchExpected, Goto, Leave, EndsInv, ChatOver
  <2> QED
    BY <2>1, <2>2, <2>3 DEF EndsInv
<1>2. CASE FetchUnexpected
  <2>1. DeadWhole'
    BY <1>2 DEF FetchUnexpected, Goto, Leave, EndsInv, DeadWhole
  <2>2. Ended'
    BY <1>2 DEF FetchUnexpected, Goto, Leave, EndsInv, Ended
  <2>3. ChatOver'
    BY <1>2 DEF FetchUnexpected, Goto, Leave, EndsInv, ChatOver
  <2> QED
    BY <2>1, <2>2, <2>3 DEF EndsInv
<1>3. CASE FetchError
  <2>1. DeadWhole'
    BY <1>3 DEF FetchError, Goto, Leave, EndsInv, DeadWhole
  <2>2. Ended'
    BY <1>3 DEF FetchError, Goto, Leave, EndsInv, Ended
  <2>3. ChatOver'
    BY <1>3 DEF FetchError, Goto, Leave, EndsInv, ChatOver
  <2> QED
    BY <2>1, <2>2, <2>3 DEF EndsInv
<1>4. CASE FetchAgain
  <2>1. DeadWhole'
    BY <1>4 DEF FetchAgain, Goto, Leave, EndsInv, DeadWhole
  <2>2. Ended'
    BY <1>4 DEF FetchAgain, Goto, Leave, EndsInv, Ended
  <2>3. ChatOver'
    BY <1>4 DEF FetchAgain, Goto, Leave, EndsInv, ChatOver
  <2> QED
    BY <2>1, <2>2, <2>3 DEF EndsInv
<1>5. CASE FetchStop
  <2>1. DeadWhole'
    BY <1>5 DEF FetchStop, Goto, Leave, EndsInv, DeadWhole
  <2>2. Ended'
    BY <1>5 DEF FetchStop, Goto, Leave, EndsInv, Ended
  <2>3. ChatOver'
    BY <1>5 DEF FetchStop, Goto, Leave, EndsInv, ChatOver
  <2> QED
    BY <2>1, <2>2, <2>3 DEF EndsInv
<1>6. CASE SendOnClosed
  <2>1. DeadWhole'
    BY <1>6 DEF SendOnClosed, Goto, Leave, Crash, Sending, EndsInv, DeadWhole
  <2>2. Ended'
    BY <1>6 DEF SendOnClosed, Goto, Leave, Crash, Sending, EndsInv, Ended
  <2>3. ChatOver'
    BY <1>6 DEF SendOnClosed, Goto, Leave, Crash, Sending, EndsInv, ChatOver
  <2> QED
    BY <2>1, <2>2, <2>3 DEF EndsInv
<1> QED
  BY <1>1, <1>2, <1>3, <1>4, <1>5, <1>6 DEF Fetch

\* downloadStream.
LEMMA DlEnds == IInv /\ EndsInv /\ Dl => EndsInv'
<1> SUFFICES ASSUME IInv, EndsInv, Dl PROVE EndsInv'
  OBVIOUS
<1>1. CASE DlCreate
  <2>1. DeadWhole'
    BY <1>1 DEF DlCreate, Goto, Leave, EndsInv, DeadWhole
  <2>2. Ended'
    BY <1>1 DEF DlCreate, Goto, Leave, EndsInv, Ended
  <2>3. ChatOver'
    BY <1>1 DEF DlCreate, Goto, Leave, EndsInv, ChatOver
  <2> QED
    BY <2>1, <2>2, <2>3 DEF EndsInv
<1>2. CASE DlCreateFail
  <2>1. DeadWhole'
    BY <1>2 DEF DlCreateFail, Goto, Leave, EndsInv, DeadWhole
  <2>2. Ended'
    BY <1>2 DEF DlCreateFail, Goto, Leave, EndsInv, Ended
  <2>3. ChatOver'
    BY <1>2 DEF DlCreateFail, Goto, Leave, EndsInv, ChatOver
  <2> QED
    BY <2>1, <2>2, <2>3 DEF EndsInv
<1>3. CASE DlReceive
  <2>1. DeadWhole'
    BY <1>3 DEF DlReceive, Goto, Leave, Launch, EndsInv, DeadWhole
  <2>2. Ended'
    BY <1>3 DEF DlReceive, Goto, Leave, Launch, EndsInv, Ended
  <2>3. ChatOver'
    BY <1>3 DEF DlReceive, Goto, Leave, Launch, EndsInv, ChatOver
  <2> QED
    BY <2>1, <2>2, <2>3 DEF EndsInv
<1>4. CASE DlProbeErr
  <2>1. DeadWhole'
    BY <1>4 DEF DlProbeErr, Goto, Leave, EndsInv, DeadWhole
  <2>2. Ended'
    BY <1>4 DEF DlProbeErr, Goto, Leave, EndsInv, Ended
  <2>3. ChatOver'
    BY <1>4 DEF DlProbeErr, Goto, Leave, EndsInv, ChatOver
  <2> QED
    BY <2>1, <2>2, <2>3 DEF EndsInv
<1>5. CASE DlProbeNotReady
  <2>1. DeadWhole'
    BY <1>5 DEF DlProbeNotReady, Goto, Leave, EndsInv, DeadWhole
  <2>2. Ended'
    BY <1>5 DEF DlProbeNotReady, Goto, Leave, EndsInv, Ended
  <2>3. ChatOver'
    BY <1>5 DEF DlProbeNotReady, Goto, Leave, EndsInv, ChatOver
  <2> QED
    BY <2>1, <2>2, <2>3 DEF EndsInv
<1>6. CASE DlProbeOk
  <2>1. DeadWhole'
    BY <1>6 DEF DlProbeOk, Goto, Leave, Cancel, EndsInv, DeadWhole
  <2>2. Ended'
    BY <1>6 DEF DlProbeOk, Goto, Leave, Cancel, EndsInv, Ended
  <2>3. ChatOver'
    BY <1>6 DEF DlProbeOk, Goto, Leave, Cancel, EndsInv, ChatOver
  <2> QED
    BY <2>1, <2>2, <2>3 DEF EndsInv
<1>7. CASE DlProbeAgain
  <2>1. DeadWhole'
    BY <1>7 DEF DlProbeAgain, Goto, Leave, EndsInv, DeadWhole
  <2>2. Ended'
    BY <1>7 DEF DlProbeAgain, Goto, Leave, EndsInv, Ended
  <2>3. ChatOver'
    BY <1>7 DEF DlProbeAgain, Goto, Leave, EndsInv, ChatOver
  <2> QED
    BY <2>1, <2>2, <2>3 DEF EndsInv
<1>8. CASE DlProbeCanceled
  <2>1. DeadWhole'
    BY <1>8 DEF DlProbeCanceled, Goto, Leave, EndsInv, DeadWhole
  <2>2. Ended'
    BY <1>8 DEF DlProbeCanceled, Goto, Leave, EndsInv, Ended
  <2>3. ChatOver'
    BY <1>8 DEF DlProbeCanceled, Goto, Leave, EndsInv, ChatOver
  <2> QED
    BY <2>1, <2>2, <2>3 DEF EndsInv
<1>9. CASE DlSwap
  <2>1. DeadWhole'
    BY <1>9 DEF DlSwap, Goto, Leave, Launch, EndsInv, DeadWhole
  <2>2. Ended'
    BY <1>9 DEF DlSwap, Goto, Leave, Launch, EndsInv, Ended
  <2>3. ChatOver'
    BY <1>9 DEF DlSwap, Goto, Leave, Launch, EndsInv, ChatOver
  <2> QED
    BY <2>1, <2>2, <2>3 DEF EndsInv
<1>10. CASE DlClosed
  <2>1. DeadWhole'
    BY <1>10 DEF DlClosed, Goto, Leave, Cancel, EndsInv, DeadWhole
  <2>2. Ended'
    BY <1>10 DEF DlClosed, Goto, Leave, Cancel, EndsInv, Ended
  <2>3. ChatOver'
    BY <1>10 DEF DlClosed, Goto, Leave, Cancel, EndsInv, ChatOver
  <2> QED
    BY <2>1, <2>2, <2>3 DEF EndsInv
<1>11. CASE DlDrained
  <2>1. DeadWhole'
    BY <1>11 DEF DlDrained, Goto, Leave, EndsInv, DeadWhole
  <2>2. Ended'
    BY <1>11 DEF DlDrained, Goto, Leave, EndsInv, Ended
  <2>3. ChatOver'
    BY <1>11 DEF DlDrained, Goto, Leave, EndsInv, ChatOver
  <2> QED
    BY <2>1, <2>2, <2>3 DEF EndsInv
<1>12. CASE DlDoneTimeout
  <2>1. DeadWhole'
    BY <1>12 DEF DlDoneTimeout, Goto, Leave, Crash, EndsInv, DeadWhole
  <2>2. Ended'
    BY <1>12 DEF DlDoneTimeout, Goto, Leave, Crash, EndsInv, Ended
  <2>3. ChatOver'
    BY <1>12 DEF DlDoneTimeout, Goto, Leave, Crash, EndsInv, ChatOver
  <2> QED
    BY <2>1, <2>2, <2>3 DEF EndsInv
<1>13. CASE DlIgnoreCanceled
  <2>1. DeadWhole'
    BY <1>13 DEF DlIgnoreCanceled, Goto, Leave, EndsInv, DeadWhole
  <2>2. Ended'
    BY <1>13 DEF DlIgnoreCanceled, Goto, Leave, EndsInv, Ended
  <2>3. ChatOver'
    BY <1>13 DEF DlIgnoreCanceled, Goto, Leave, EndsInv, ChatOver
  <2> QED
    BY <2>1, <2>2, <2>3 DEF EndsInv
<1>14. CASE DlError
  <2>1. DeadWhole'
    BY <1>14 DEF DlError, Goto, Leave, Cancel, EndsInv, DeadWhole
  <2>2. Ended'
    BY <1>14 DEF DlError, Goto, Leave, Cancel, EndsInv, Ended
  <2>3. ChatOver'
    BY <1>14 DEF DlError, Goto, Leave, Cancel, EndsInv, ChatOver
  <2> QED
    BY <2>1, <2>2, <2>3 DEF EndsInv
<1> QED
  BY <1>1, <1>2, <1>3, <1>4, <1>5, <1>6, <1>7, <1>8, <1>9, <1>10, <1>11, <1>12,
     <1>13, <1>14 DEF Dl

\* DownloadChat and removeDuplicatesComment.
LEMMA ChatEnds == IInv /\ EndsInv /\ Chat => EndsInv'
<1> SUFFICES ASSUME IInv, EndsInv, Chat PROVE EndsInv'
  OBVIOUS
<1>1. CASE ChatCreate
  <2>1. DeadWhole'
    BY <1>1 DEF ChatCreate, Goto, Leave, EndsInv, DeadWhole
  <2>2. Ended'
    BY <1>1 DEF ChatCreate, Goto, Leave, EndsInv, Ended
  <2>3. ChatOver'
    BY <1>1 DEF ChatCreate, Goto, Leave, EndsInv, ChatOver
  <2> QED
    BY <2>1, <2>2, <2>3 DEF EndsInv
<1>2. CASE ChatCreateFail
  <2>1. DeadWhole'
    BY <1>2 DEF ChatCreateFail, Goto, Leave, EndsInv, DeadWhole
  <2>2. Ended'
    BY <1>2 DEF ChatCreateFail, Goto, Leave, EndsInv, Ended
  <2>3. ChatOver'
    BY <1>2 DEF ChatCreateFail, Goto, Leave, EndsInv, ChatOver
  <2> QED
    BY <2>1, <2>2, <2>3 DEF EndsInv
<1>3. CASE DedupReceive
  <2>1. DeadWhole'
    BY <1>3 DEF DedupReceive, Goto, Leave, EndsInv, DeadWhole
  <2>2. Ended'
    BY <1>3 DEF DedupReceive, Goto, Leave, EndsInv, Ended
  <2>3. ChatOver'
    BY <1>3 DEF DedupReceive, Goto, Leave, EndsInv, ChatOver
  <2> QED
    BY <2>1, <2>2, <2>3 DEF EndsInv
<1>4. CASE DedupEnd
  <2>1. DeadWhole'
    BY <1>4 DEF DedupEnd, Goto, Leave, EndsInv, DeadWhole
  <2>2. Ended'
    BY <1>4 DEF DedupEnd, Goto, Leave, EndsInv, Ended
  <2>3. ChatOver'
    BY <1>4 DEF DedupEnd, Goto, Leave, EndsInv, ChatOver
  <2> QED
    BY <2>1, <2>2, <2>3 DEF EndsInv
<1>5. CASE ChatWrite
  <2>1. DeadWhole'
    BY <1>5 DEF ChatWrite, Goto, Leave, EndsInv, DeadWhole
  <2>2. Ended'
    BY <1>5 DEF ChatWrite, Goto, Leave, EndsInv, Ended
  <2>3. ChatOver'
    BY <1>5 DEF ChatWrite, Goto, Leave, EndsInv, ChatOver
  <2> QED
    BY <2>1, <2>2, <2>3 DEF EndsInv
<1>6. CASE ChatWriteFail
  <2>1. DeadWhole'
    BY <1>6 DEF ChatWriteFail, Goto, Leave, EndsInv, DeadWhole
  <2>2. Ended'
    BY <1>6 DEF ChatWriteFail, Goto, Leave, EndsInv, Ended
  <2>3. ChatOver'
    BY <1>6 DEF ChatWriteFail, Goto, Leave, EndsInv, ChatOver
  <2> QED
    BY <2>1, <2>2, <2>3 DEF EndsInv
<1>7. CASE ChatClosed
  <2>1. DeadWhole'
    BY <1>7 DEF ChatClosed, Goto, Leave, EndsInv, DeadWhole
  <2>2. Ended'
    BY <1>7 DEF ChatClosed, Goto, Leave, EndsInv, Ended
  <2>3. ChatOver'
    BY <1>7 DEF ChatClosed, Goto, Leave, EndsInv, ChatOver
  <2> QED
    BY <2>1, <2>2, <2>3 DEF EndsInv
<1>8. CASE ChatCancel
  <2>1. DeadWhole'
    BY <1>8 DEF ChatCancel, Goto, Leave, EndsInv, DeadWhole
  <2>2. Ended'
    BY <1>8 DEF ChatCancel, Goto, Leave, EndsInv, Ended
  <2>3. ChatOver'
    BY <1>8 DEF ChatCancel, Goto, Leave, EndsInv, ChatOver
  <2> QED
    BY <2>1, <2>2, <2>3 DEF EndsInv
<1> QED
  BY <1>1, <1>2, <1>3, <1>4, <1>5, <1>6, <1>7, <1>8 DEF Chat

\* A worker that reports its error and returns.
LEMMA WorkerEnds ==
    IInv /\ EndsInv /\ (\E w \in Group : AppendErr(w) \/ Return(w)) => EndsInv'
<1> SUFFICES ASSUME IInv, EndsInv, NEW w \in Group, AppendErr(w) \/ Return(w)
             PROVE  EndsInv'
  OBVIOUS
<1>1. /\ pc[w] \in {"append", "return"} /\ pc' = [pc EXCEPT ![w] = pc'[w]]
      /\ pc'[w] \in {"return", "done"}
      /\ UNCHANGED <<err, comments, commentsClosed, result, crashed, thread>>
  BY DEF AppendErr, Return, Goto
<1>2. DeadWhole'
  BY <1>1 DEF EndsInv, DeadWhole
<1>3. Ended'
  BY <1>1 DEF EndsInv, Ended, NotStarted
<1>4. ChatOver'
  BY <1>1 DEF EndsInv, ChatOver
<1> QED
  BY <1>2, <1>3, <1>4 DEF EndsInv

\* A download thread, the caller and the goroutine that closes playlistChan.
LEMMA OtherEnds ==
    IInv /\ EndsInv /\ (\/ \E i \in Threads : Thread(i)
                        \/ ParentCancel \/ CloserClose
                        \/ Terminated \/ UNCHANGED vars) => EndsInv'
<1> SUFFICES ASSUME IInv, EndsInv,
                    \/ \E i \in Threads : Thread(i)
                    \/ ParentCancel \/ CloserClose
                    \/ Terminated \/ UNCHANGED vars
             PROVE  EndsInv'
  OBVIOUS
<1>1. ASSUME NEW i \in Threads, Thread(i) PROVE EndsInv'
  <2>1. /\ crashed = "no" /\ crashed' = crashed
        /\ UNCHANGED <<pc, err, errs, gErr, comments, commentsClosed, result>>
    BY <1>1 DEF Thread, ThreadLock, ThreadClose, ThreadHang, ThreadEnd, EndsInv,
           DeadWhole
  <2> QED
    BY <2>1 DEF EndsInv, DeadWhole, Ended, ChatOver
<1>2. CASE ParentCancel
  BY <1>2 DEF ParentCancel, EndsInv, DeadWhole, Ended, ChatOver
<1>3. CASE CloserClose
  BY <1>3 DEF CloserClose, Goto, EndsInv, DeadWhole, Ended, ChatOver
<1>4. CASE Terminated \/ UNCHANGED vars
  BY <1>4 DEF Terminated, vars, EndsInv, DeadWhole, Ended, ChatOver
<1> QED
  BY <1>1, <1>2, <1>3, <1>4

LEMMA NextEnds == IInv /\ EndsInv /\ [Next]_vars => EndsInv'
  BY SupEnds, WorkerEnds, ListenEnds, HbEnds, FetchEnds, DlEnds, ChatEnds,
     OtherEnds DEF Next

LEMMA SpecEnds == Spec => [](IInv /\ EndsInv)
<1>1. Init => IInv /\ EndsInv
  BY InitIInv, InitEnds
<1>2. IInv /\ EndsInv /\ [Next]_vars => (IInv /\ EndsInv)'
  BY NextIInv, NextEnds
<1> QED
  BY <1>1, <1>2, PTL DEF Spec

-----------------------------------------------------------------------------
(* The promise of module Session, step by step.                            *)

LEMMA NoRecorder ==
    ASSUME NEW t, \A i \in Threads : t[i] \notin Working
    PROVE  RecorderOf(t) = 0
  BY DEF RecorderOf

LEMMA OneRecorder ==
    ASSUME NEW t, NEW i \in Threads, t[i] \in Working,
           \A j \in Threads : t[j] \in Working => j = i
    PROVE  RecorderOf(t) = i
  BY DEF RecorderOf

\* What a session shows of itself.
Shown == <<SessionPhase, errs, thread, cur, result>>

\* A step that shows nothing is a stutter of the promise.
LEMMA Quiet == UNCHANGED Shown => UNCHANGED S!vars
  BY DEF Shown, S!vars

\* The phase only depends on these.
LEMMA SamePhase ==
    UNCHANGED <<parentDone, gErr, result, crashed>> =>
        UNCHANGED SessionPhase
  BY DEF SessionPhase

\* A worker that has not returned belongs to a session that has not.
LEMMA StillRunning ==
    ASSUME IInv, EndsInv, NEW w \in Group, pc[w] \notin {"off", "done", "dead"}
    PROVE  /\ crashed = "no" /\ result = "none"
           /\ SessionPhase = IF CtxDone THEN "stopping" ELSE "running"
<1>1. crashed = "no" /\ result = "none"
  BY DEF EndsInv, DeadWhole, Ended
<1> QED
  BY <1>1 DEF SessionPhase

\* The dial, the end of the session and what it returns.
LEMMA SupPromise == IInv /\ EndsInv /\ Sup => [S!Next]_S!vars
<1> SUFFICES ASSUME IInv, EndsInv, Sup PROVE [S!Next]_S!vars
  OBVIOUS
<1>1. CASE DialOk \/ Flush \/ SupDone
  <2>1. UNCHANGED <<parentDone, gErr, errs, thread, cur, result, crashed>>
    BY <1>1 DEF DialOk, Flush, SupDone
  <2> QED
    BY <2>1, SamePhase, Quiet DEF Shown
<1>2. CASE DialFail
  <2>1. /\ crashed = "no" /\ result = "none" /\ errs = << >> /\ cur = 0
        /\ UNCHANGED <<errs, thread, cur, crashed>>
        /\ result' \in {"Failure", "Canceled"}
    BY <1>2 DEF DialFail, EndsInv, DeadWhole, Ended, NotStarted
  <2>2. SessionPhase \in {"running", "stopping"} /\ SessionPhase' = "ended"
    BY <2>1 DEF SessionPhase
  <2>3. {errs[i] : i \in DOMAIN errs} = {}
    BY <2>1
  <2>4. S!End
    BY <2>1, <2>2, <2>3 DEF S!End
  <2> QED
    BY <2>4 DEF S!Next
<1>3. CASE SupReturn
  <2> DEFINE R == {errs[i] : i \in DOMAIN errs}
             e == FirstValuableErrorOrFirst(errs)
  <2>1. /\ pc["sup"] = "wait" /\ \A w \in Group : pc[w] = "done"
        /\ result' = IF e = "EOF" THEN "nil" ELSE e
        /\ UNCHANGED <<errs, thread, cur, crashed>>
    BY <1>3 DEF SupReturn
  <2>2. crashed = "no" /\ result = "none" /\ CtxDone /\ errs # << >>
    BY <2>1 DEF EndsInv, DeadWhole, Ended, ErrsKept, CanceledLate
  <2>3. result' # "none"
    BY <2>1, <2>2, FirstValuable
  <2>4. SessionPhase = "stopping" /\ SessionPhase' = "ended"
    BY <2>1, <2>2, <2>3 DEF SessionPhase
  <2>5. R # {} /\ R \subseteq Kinds
    <3>1. errs \in Seq(Kinds) /\ 1 \in DOMAIN errs
      BY <2>2
    <3>2. \A i \in DOMAIN errs : errs[i] \in Kinds
      BY <3>1
    <3>3. errs[1] \in R
      BY <3>1
    <3> QED
      BY <3>2, <3>3
  <2>6. result' \in S!Outcomes
    <3>1. CASE \E n \in DOMAIN errs : Valuable(errs[n])
      <4>1. PICK i \in DOMAIN errs : First(errs, i) /\ e = errs[i]
        BY <3>1, FirstExists DEF FirstValuableErrorOrFirst
      <4>2. e \in R \cap {k \in Kinds : Valuable(k)} /\ e # "EOF"
        BY <4>1, <2>5 DEF First, Valuable
      <4> QED
        BY <4>2, <2>1 DEF S!Outcomes
    <3>2. CASE ~ \E n \in DOMAIN errs : Valuable(errs[n])
      <4>1. R \cap {k \in Kinds : Valuable(k)} = {}
        BY <3>2
      <4>2. e = IF "EOF" \in R THEN "EOF" ELSE errs[1]
        BY <3>2 DEF FirstValuableErrorOrFirst
      <4>3. errs[1] \in R
        BY <2>2
      <4> QED
        BY <4>1, <4>2, <4>3, <2>1 DEF S!Outcomes
    <3> QED
      BY <3>1, <3>2
  <2>7. S!End
    BY <2>1, <2>4, <2>5, <2>6 DEF S!End
  <2> QED
    BY <2>7 DEF S!Next
<1> QED
  BY <1>1, <1>2, <1>3 DEF Sup

\* A worker reports its error; the first one to return stops the session.
LEMMA WorkerPromise ==
    IInv /\ EndsInv /\ (\E w \in Group : AppendErr(w) \/ Return(w)) =>
        [S!Next]_S!vars
<1> SUFFICES ASSUME IInv, EndsInv, NEW w \in Group, AppendErr(w) \/ Return(w)
             PROVE  [S!Next]_S!vars
  OBVIOUS
<1>0. pc[w] \in {"append", "return"} /\ err[w] \in Kinds
  BY DEF AppendErr, Return, ErrKept
<1>1. /\ crashed = "no" /\ result = "none"
      /\ SessionPhase = IF CtxDone THEN "stopping" ELSE "running"
  BY <1>0, StillRunning
<1>2. CASE AppendErr(w)
  <2>1. /\ errs' = Append(errs, err[w])
        /\ UNCHANGED <<parentDone, gErr, thread, cur, result, crashed>>
    BY <1>2 DEF AppendErr
  <2>2. {errs'[i] : i \in DOMAIN errs'} =
            {errs[i] : i \in DOMAIN errs} \cup {err[w]}
    <3> DEFINE a == err[w]
    <3>1. a \in Kinds /\ errs' = Append(errs, a) /\ errs \in Seq(Kinds)
      BY <1>0, <2>1
    <3> HIDE DEF a
    <3>2. /\ DOMAIN errs' = 1 .. Len(errs) + 1 /\ DOMAIN errs = 1 .. Len(errs)
          /\ Len(errs) \in Nat
          /\ \A i \in 1 .. Len(errs) : errs'[i] = errs[i]
          /\ errs'[Len(errs) + 1] = a
      BY <3>1
    <3>3. \A i \in 1 .. Len(errs) + 1 : i \in 1 .. Len(errs) \/ i = Len(errs) + 1
      BY <3>2
    <3>4. \A i \in 1 .. Len(errs) : i \in 1 .. Len(errs) + 1
      BY <3>2
    <3>5. Len(errs) + 1 \in 1 .. Len(errs) + 1
      BY <3>2
    <3>6. {errs'[i] : i \in DOMAIN errs'} = {errs[i] : i \in DOMAIN errs} \cup {a}
      BY <3>2, <3>3, <3>4, <3>5
    <3> QED
      BY <3>6 DEF a
  <2>3. UNCHANGED SessionPhase
    BY <2>1, SamePhase
  <2>4. err[w] \in {k \in Kinds : Valuable(k)} \cup {"EOF", "Canceled"}
    BY <1>0 DEF Valuable
  <2>5. S!Report
    BY <1>1, <2>1, <2>2, <2>3, <2>4 DEF S!Report
  <2> QED
    BY <2>5 DEF S!Next
<1>3. CASE Return(w)
  <2>1. /\ gErr' = IF gErr = "none" THEN err[w] ELSE gErr
        /\ UNCHANGED <<parentDone, errs, thread, cur, result, crashed>>
    BY <1>3 DEF Return
  <2>2. SessionPhase' = "stopping"
    BY <1>0, <1>1, <2>1 DEF SessionPhase
  <2>3. CASE CtxDone
    BY <1>1, <2>1, <2>2, <2>3, Quiet DEF Shown
  <2>4. CASE ~CtxDone
    <3>1. S!Stop
      BY <1>1, <2>1, <2>2, <2>4 DEF S!Stop
    <3> QED
      BY <3>1 DEF S!Next
  <2> QED
    BY <2>3, <2>4
<1> QED
  BY <1>2, <1>3

\* A process that dies takes its download threads with it.
LEMMA CrashPromise ==
    ASSUME IInv, EndsInv, crashed = "no",
           NEW how \in {"panic", "fatal"}, Crash(how),
           UNCHANGED <<errs, cur, result>>
    PROVE  S!Next
<1>1. SessionPhase # "crashed" /\ SessionPhase' = "crashed"
  BY DEF Crash, SessionPhase
<1>2. RecorderOf(thread') = 0
  BY NoRecorder DEF Crash
<1>3. S!Crash
  BY <1>1, <1>2 DEF S!Crash
<1> QED
  BY <1>3 DEF S!Next

\* The playlist fetching loop.
LEMMA FetchPromise == IInv /\ EndsInv /\ Fetch => [S!Next]_S!vars
<1> SUFFICES ASSUME IInv, EndsInv, Fetch PROVE [S!Next]_S!vars
  OBVIOUS
<1>1. CASE SendOnClosed
  BY <1>1, CrashPromise DEF SendOnClosed, Sending, EndsInv, DeadWhole
<1>2. CASE ~SendOnClosed
  <2>1. UNCHANGED <<parentDone, gErr, errs, thread, cur, result, crashed>>
    BY <1>2 DEF Fetch, FetchExpected, FetchUnexpected, FetchError, FetchAgain,
           FetchStop
  <2> QED
    BY <2>1, SamePhase, Quiet DEF Shown
<1> QED
  BY <1>1, <1>2

\* The next download thread is started when there is none.
LEMMA LaunchPromise ==
    ASSUME IInv, EndsInv, pc["dl"] \in {"select", "swap"}, cur < 2,
           \A i \in Threads : thread[i] \notin Working,
           Launch, UNCHANGED <<parentDone, gErr, errs, result, crashed>>
    PROVE  S!Next
<1>1. cur + 1 \in Threads /\ cur' = cur + 1
      /\ thread' = [thread EXCEPT ![cur + 1] = "start"]
  BY DEF Launch
<1>2. thread'[cur + 1] \in Working
      /\ \A j \in Threads : thread'[j] \in Working => j = cur + 1
  BY <1>1
<1>3. RecorderOf(thread) = 0 /\ RecorderOf(thread') = cur + 1
  BY <1>1, <1>2, NoRecorder, OneRecorder
<1>4. SessionPhase \in {"running", "stopping"} /\ UNCHANGED SessionPhase
  BY StillRunning, SamePhase
<1>5. S!Begin
  BY <1>1, <1>3, <1>4 DEF S!Begin
<1> QED
  BY <1>5 DEF S!Next

\* downloadStream.
LEMMA DlPromise == IInv /\ EndsInv /\ Dl => [S!Next]_S!vars
<1> SUFFICES ASSUME IInv, EndsInv, Dl PROVE [S!Next]_S!vars
  OBVIOUS
<1>1. CASE DlDoneTimeout
  BY <1>1, CrashPromise DEF DlDoneTimeout, EndsInv, DeadWhole
<1>2. CASE DlReceive /\ cur = 0
  <2>1. \A i \in Threads : thread[i] \notin Working
    BY <1>2 DEF ThreadsInOrder
  <2>2. pc["dl"] = "select" /\ Launch
        /\ UNCHANGED <<parentDone, gErr, errs, result, crashed>>
    BY <1>2 DEF DlReceive
  <2> QED
    BY <1>2, <2>1, <2>2, LaunchPromise
<1>3. CASE DlSwap
  <2>1. cur = 1 /\ thread[cur] = "done"
    BY <1>3 DEF DlSwap, FetchOnce
  <2>2. \A i \in Threads : thread[i] \notin Working
    BY <2>1 DEF ThreadsInOrder
  <2>3. pc["dl"] = "swap" /\ Launch
        /\ UNCHANGED <<parentDone, gErr, errs, result, crashed>>
    BY <1>3 DEF DlSwap
  <2> QED
    BY <2>1, <2>2, <2>3, LaunchPromise
<1>4. CASE UNCHANGED <<parentDone, gErr, errs, thread, cur, result, crashed>>
  BY <1>4, SamePhase, Quiet DEF Shown
<1>5. CASE DlReceive /\ cur # 0
  BY <1>4, <1>5 DEF DlReceive
<1>6. CASE DlCreate \/ DlCreateFail \/ DlProbeErr \/ DlProbeNotReady
  BY <1>4, <1>6 DEF DlCreate, DlCreateFail, DlProbeErr, DlProbeNotReady
<1>7. CASE DlProbeOk \/ DlProbeAgain \/ DlProbeCanceled
  BY <1>4, <1>7 DEF DlProbeOk, DlProbeAgain, DlProbeCanceled
<1>8. CASE DlClosed \/ DlDrained \/ DlIgnoreCanceled \/ DlError
  BY <1>4, <1>8 DEF DlClosed, DlDrained, DlIgnoreCanceled, DlError
<1> QED
  BY <1>1, <1>2, <1>3, <1>5, <1>6, <1>7, <1>8 DEF Dl

\* A download thread: the recorder ends when it closes doneChan.
LEMMA ThreadPromise ==
    IInv /\ EndsInv /\ (\E i \in Threads : Thread(i)) => [S!Next]_S!vars
<1> SUFFICES ASSUME IInv, EndsInv, NEW i \in Threads, Thread(i)
             PROVE  [S!Next]_S!vars
  OBVIOUS
<1>1. /\ thread[i] \in Working
      /\ thread' = [thread EXCEPT ![i] = thread'[i]]
      /\ UNCHANGED <<parentDone, gErr, errs, cur, result, crashed>>
  BY DEF Thread, ThreadLock, ThreadClose, ThreadHang, ThreadEnd
<1>2. \A j \in Threads : thread[j] \in Working => j = i
  BY <1>1 DEF ThreadsInOrder
<1>3. RecorderOf(thread) = i
  BY <1>1, <1>2, OneRecorder
<1>4. UNCHANGED SessionPhase
  BY <1>1, SamePhase
<1>5. CASE thread'[i] \in Working
  <2>1. \A j \in Threads : thread'[j] \in Working => j = i
    BY <1>1, <1>2
  <2>2. RecorderOf(thread') = i
    BY <1>5, <2>1, OneRecorder
  <2> QED
    BY <1>1, <1>3, <1>4, <2>2 DEF S!vars
<1>6. CASE thread'[i] \notin Working
  <2>1. \A j \in Threads : thread'[j] \notin Working
    BY <1>1, <1>2, <1>6
  <2>2. RecorderOf(thread') = 0
    BY <2>1, NoRecorder
  <2>3. S!Finish
    BY <1>1, <1>3, <1>4, <2>2 DEF S!Finish
  <2> QED
    BY <2>3 DEF S!Next
<1> QED
  BY <1>5, <1>6

\* The goroutines that the promise does not show, and the caller, whose
\* cancellation stops the session.
LEMMA OtherPromise ==
    IInv /\ EndsInv /\ (\/ Listen \/ Hb \/ Chat \/ ParentCancel \/ CloserClose
                        \/ Terminated \/ UNCHANGED vars) => [S!Next]_S!vars
<1> SUFFICES ASSUME IInv, EndsInv,
                    \/ Listen \/ Hb \/ Chat \/ ParentCancel \/ CloserClose
                    \/ Terminated \/ UNCHANGED vars
             PROVE  [S!Next]_S!vars
  OBVIOUS
<1> DEFINE Still == UNCHANGED <<parentDone, gErr, errs, thread, cur, result,
                                crashed>>
<1>1. Listen => Still
  BY DEF Listen, ListenComment, ListenPush, ListenClose, ListenErr
<1>2. Hb => Still
  BY DEF Hb, HbTick, HbAnswer, HbCancel, HbFail
<1>3. Chat => Still
  BY DEF Chat, ChatCreate, ChatCreateFail, DedupReceive, DedupEnd, ChatWrite,
         ChatWriteFail, ChatClosed, ChatCancel
<1>4. CloserClose \/ Terminated \/ UNCHANGED vars => Still
  BY DEF CloserClose, Terminated, vars
<1>5. CASE Still
  BY <1>5, SamePhase, Quiet DEF Shown
<1>6. CASE ParentCancel
  <2>1. /\ crashed = "no" /\ parentDone' = TRUE
        /\ UNCHANGED <<gErr, errs, thread, cur, result, crashed>>
    BY <1>6 DEF ParentCancel
  <2>2. CASE result # "none" \/ CtxDone
    <3>1. UNCHANGED SessionPhase
      BY <2>1, <2>2 DEF SessionPhase
    <3> QED
      BY <2>1, <3>1, Quiet DEF Shown
  <2>3. CASE result = "none" /\ ~CtxDone
    <3>1. SessionPhase = "running" /\ SessionPhase' = "stopping"
      BY <2>1, <2>3 DEF SessionPhase
    <3>2. S!Stop
      BY <2>1, <3>1 DEF S!Stop
    <3> QED
      BY <3>2 DEF S!Next
  <2> QED
    BY <2>2, <2>3
<1> QED
  BY <1>1, <1>2, <1>3, <1>4, <1>5, <1>6

LEMMA NextPromise == IInv /\ EndsInv /\ [Next]_vars => [S!Next]_S!vars
  BY SupPromise, WorkerPromise, FetchPromise, DlPromise, ThreadPromise,
     OtherPromise DEF Next

LEMMA InitPromise == Init => S!Init
<1> SUFFICES ASSUME Init PROVE S!Init
  OBVIOUS
<1>1. SessionPhase = "running"
  BY DEF Init, SessionPhase
<1>2. {errs[i] : i \in DOMAIN errs} = {}
  BY DEF Init
<1>3. RecorderOf(thread) = 0
  BY NoRecorder DEF Init
<1> QED
  BY <1>1, <1>2, <1>3 DEF Init, S!Init

-----------------------------------------------------------------------------
(* Theorems.                                                               *)

\* A session implements the safety part of the promise it makes to Watch:
\* recorders one after the other, one end, and an outcome that is a real error
\* if a worker reported one, whatever the interleaving of its goroutines.
THEOREM SessionKeepsPromise == Spec => S!Safety
  BY InitPromise, SpecEnds, NextPromise, PTL DEF Spec, S!Safety

\* When downloadStream returns because playlistChan was closed, the download
\* thread that it canceled has ended: nothing writes after the file is closed.
THEOREM ThreadsAreDrained == Spec => DrainedAtEnd
<1>1. ASSUME IInv, [Next]_vars, pc["dl"] = "drain", pc'["dl"] = "append"
      PROVE  DlDrained
  <2>1. ~(Sup \/ \E w \in Group : AppendErr(w) \/ Return(w))
    BY <1>1 DEF Sup, DialOk, DialFail, Flush, SupDone, SupReturn, StartPc, Goto,
           AppendErr, Return, NotStarted
  <2>2. ~(Listen \/ Hb \/ Chat)
    BY <1>1 DEF Listen, ListenComment, ListenPush, ListenClose, ListenErr, Hb,
           HbTick, HbAnswer, HbCancel, HbFail, Chat, ChatCreate, ChatCreateFail,
           DedupReceive, DedupEnd, ChatWrite, ChatWriteFail, ChatClosed,
           ChatCancel, Goto, Leave
  <2>3. ~(Fetch \/ CloserClose \/ ParentCancel \/ Terminated \/ UNCHANGED vars)
    BY <1>1 DEF Fetch, FetchExpected, FetchUnexpected, FetchError, FetchAgain,
           FetchStop, SendOnClosed, Crash, CloserClose, ParentCancel,
           Terminated, vars, Goto
  <2>4. ~ \E i \in Threads : Thread(i)
    BY <1>1 DEF Thread, ThreadLock, ThreadClose, ThreadHang, ThreadEnd
  <2>5. Dl
    BY <1>1, <2>1, <2>2, <2>3, <2>4 DEF Next
  <2> QED
    BY <1>1, <2>5 DEF Dl, DlCreate, DlCreateFail, DlReceive, DlProbeErr,
           DlProbeNotReady, DlProbeOk, DlProbeAgain, DlProbeCanceled, DlSwap,
           DlClosed, DlDoneTimeout, DlIgnoreCanceled, DlError, Crash, Goto
<1>2. ASSUME IInv, [Next]_vars, pc["dl"] = "drain", pc'["dl"] = "append"
      PROVE  \A i \in Threads : thread'[i] \notin Working
  <2>1. thread[cur] = "done" /\ thread' = thread /\ cur \in Threads
    BY <1>1, <1>2 DEF DlDrained, FetchOnce
  <2> QED
    BY <1>2, <2>1 DEF ThreadsInOrder
<1>3. IInv /\ [Next]_vars =>
        [(pc["dl"] = "drain" /\ pc'["dl"] = "append") =>
            \A i \in Threads : thread'[i] \notin Working]_vars
  BY <1>2
<1> QED
  BY <1>3, SpecIInv, PTL DEF Spec, DrainedAtEnd

\* A chat that ends because commentChan was closed has written, or dropped as
\* repeated, everything that Listen pushed and the flush left.
THEOREM ChatIsComplete == Spec => []ChatComplete
<1>1. EndsInv => ChatComplete
  BY DEF EndsInv, ChatOver, ChatComplete
<1> QED
  BY <1>1, SpecEnds, PTL
=============================================================================
