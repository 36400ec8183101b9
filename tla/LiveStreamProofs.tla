-------------------------- MODULE LiveStreamProofs --------------------------
(***************************************************************************)
(* Proofs about LiveStream, for every value of its constants.              *)
(*                                                                         *)
(* None of the properties is inductive.  What the proofs add to them:      *)
(*   - Control: the playlist fetching loop hands over at most two          *)
(*     playlists, so that no third download thread is started, and the     *)
(*     threads before the last one started have ended;                     *)
(*   - Reports: a worker that left with an error that is not the end of    *)
(*     the stream has appended it to errs before its return could cancel   *)
(*     the context, and nothing is appended once the result is known;      *)
(*   - OpenFile: without quality upgrades there is one download thread,    *)
(*     and its error is the only one downloadStream can leave on.          *)
(***************************************************************************)
EXTENDS LiveStream, TLAPS, SequenceTheorems, WellFoundedInduction

Workers == {"listen", "hb", "dl", "chat"}

-----------------------------------------------------------------------------
(* The inductive invariant.                                                *)

\* A worker on its way out has its error.
ErrKept ==
    \A w \in Workers :
        (\/ pc[w] \in {"append", "return"}
         \/ w = "listen" /\ pc[w] = "close") => err[w] \in Kinds

\* The error of downloadStream is always appended.
ErrsKept == pc["dl"] \in {"return", "done"} => errs # << >>

\* A session that dials has started nothing.
NotStarted ==
    pc["sup"] = "dial" =>
        /\ pc["fetch"] = "off" /\ pc["dl"] = "off" /\ cur = 0
        /\ \A w \in Group : pc[w] = "off" /\ err[w] = "none"

\* The second playlist is the last one.
FetchOnce ==
    /\ pc["fetch"] = "sendBest" => ~downloading
    /\ cur > 0 => downloading \/ pc["fetch"] \in {"done", "dead"}
    /\ (pc["dl"] \in {"probe", "sleep", "swap"} \/ cur = 2) =>
            pc["fetch"] \in {"done", "dead"}
    /\ pc["dl"] \in {"probe", "sleep", "swap"} => cur = 1
    /\ pc["dl"] = "drain" => cur > 0
    /\ errChan # << >> => cur > 0

\* Download threads start and end one after the other.
ThreadsInOrder ==
    \A i \in Threads :
        /\ i < cur => thread[i] \in {"done", "dead"}
        /\ i > cur => thread[i] \in {"none", "dead"}
        /\ thread[i] = "dead" => pc["dl"] = "dead"

Control == ErrKept /\ ErrsKept /\ NotStarted /\ FetchOnce /\ ThreadsInOrder

\* Only the end of the stream, seen by Listen, is not appended.
AllReported ==
    \A w \in Group :
        (pc[w] \in {"return", "done"} /\ err[w] \notin {"EOF", "none"}) =>
            \E n \in 1 .. Len(errs) : errs[n] = err[w]

GroupErrReported ==
    gErr \notin {"none", "EOF"} => \E n \in 1 .. Len(errs) : errs[n] = gErr

\* The result is known when every worker has returned.
ResultFinal ==
    result \in {"nil", "Canceled"} =>
        /\ pc["sup"] \in {"done", "dead"}
        /\ \A w \in Group : /\ pc[w] \in {"off", "done", "dead"}
                            /\ err[w] \in {"none", "EOF", "Canceled"}

\* No worker is canceled before the context of the group is.
CanceledLate ==
    /\ \A w \in Workers : err[w] = "Canceled" => CtxDone
    /\ gErr = "Canceled" => parentDone
    /\ pc["sup"] = "wait" => CtxDone

Reports ==
    /\ AllReported /\ GroupErrReported
    /\ ResultFinal /\ CanceledLate /\ FinishedHonest

\* Without quality upgrades the only download thread is the first one.
OpenFile ==
    /\ \A n \in 1 .. Len(errChan) :
          thread[errChan[n].from] \in {"report", "done", "dead"}
    /\ ~AllowQualityUpgrade =>
          /\ cur > 0 => pc["fetch"] \in {"done", "dead"}
          /\ cur < 2
          /\ pc["dl"] \notin {"probe", "sleep", "swap"}
          /\ NoWriteAfterClose

IInv == TypeOK /\ Control /\ Reports /\ OpenFile

-----------------------------------------------------------------------------
(* GetFirstValuableErrorOrFirst.                                           *)

\* The first valuable error exists if there is a valuable error.
LEMMA FirstExists ==
    ASSUME NEW s \in Seq(Kinds), NEW n \in DOMAIN s, Valuable(s[n])
    PROVE  \E i \in DOMAIN s : First(s, i)
<1> DEFINE T == {i \in DOMAIN s : Valuable(s[i])}
           R == OpToRel(<, Nat)
<1>1. T \subseteq Nat /\ T # {}
  OBVIOUS
<1>2. PICK i \in T : \A j \in T : ~ (<<j, i>> \in R)
  <2> HIDE DEF T
  <2> QED
    BY <1>1, NatLessThanWellFounded, WFMin
<1>3. \A j \in 1 .. i - 1 : j \in Nat /\ j \in DOMAIN s /\ <<j, i>> \in R
  BY <1>1 DEF OpToRel
<1> QED
  BY <1>2, <1>3 DEF First

\* What GetFirstValuableErrorOrFirst returns: a valuable error of the list if it
\* has one, else io.EOF, which the session turns into nil, or Canceled.
LEMMA FirstValuable ==
    ASSUME NEW s \in Seq(Kinds), s # << >>
    PROVE  /\ FirstValuableErrorOrFirst(s) \in Kinds
           /\ ~Valuable(FirstValuableErrorOrFirst(s)) =>
                  \A n \in DOMAIN s : ~Valuable(s[n])
<1>1. CASE \E n \in DOMAIN s : Valuable(s[n])
  <2>1. \E i \in DOMAIN s : First(s, i)
    BY <1>1, FirstExists
  <2> DEFINE i == CHOOSE i \in DOMAIN s : First(s, i)
  <2>2. i \in DOMAIN s /\ First(s, i)
    BY <2>1
  <2>3. FirstValuableErrorOrFirst(s) = s[i]
    BY <1>1 DEF FirstValuableErrorOrFirst
  <2> QED
    BY <2>2, <2>3 DEF First
<1>2. CASE ~ \E n \in DOMAIN s : Valuable(s[n])
  <2>1. s[1] \in Kinds
    OBVIOUS
  <2> QED
    BY <1>2, <2>1 DEF FirstValuableErrorOrFirst, Kinds
<1> QED
  BY <1>1, <1>2

\* A report of errChan comes from a download thread.
LEMMA ReportFromThread ==
    ASSUME NEW c \in Seq([from : Threads, kind : Kinds]), NEW n \in 1 .. Len(c)
    PROVE  c[n] \in [from : Threads, kind : Kinds] /\ c[n].from \in Threads
<1> DEFINE R == [from : Threads, kind : Kinds]
<1>1. c \in Seq(R)
  OBVIOUS
<1>2. c[n] \in R
  <2> HIDE DEF R
  <2> QED
    BY <1>1, ElementOfSeq
<1> QED
  BY <1>2

-----------------------------------------------------------------------------
(* Initial states.                                                         *)

LEMMA InitIInv == Init => IInv
<1> SUFFICES ASSUME Init PROVE IInv
  OBVIOUS
<1> USE ConstantsAssumption DEF Init, Procs, Threads, ConstantsAssumption
<1>1. TypeOK
  <2>1. pc \in [Procs -> Locations] /\ err \in [Procs -> Kinds \cup {"none"}]
    BY DEF Locations
  <2>2. /\ parentDone \in BOOLEAN /\ downloading \in BOOLEAN
        /\ plClosed \in BOOLEAN /\ commentsClosed \in BOOLEAN
        /\ cancelled \in [Threads -> BOOLEAN]
    OBVIOUS
  <2>3. thread \in [Threads -> Working \cup {"none", "done", "dead"}]
    OBVIOUS
  <2>4. errs \in Seq(Kinds) /\ errChan \in Seq([from : Threads, kind : Kinds])
    OBVIOUS
  <2> QED
    BY <2>1, <2>2, <2>3, <2>4 DEF TypeOK
<1>2. Control
  BY DEF Control, ErrKept, ErrsKept, NotStarted, FetchOnce, ThreadsInOrder,
         Workers, Group
<1>3. Reports
  BY DEF Reports, AllReported, GroupErrReported, ResultFinal, CanceledLate,
         FinishedHonest, Workers, Group
<1>4. OpenFile
  BY DEF OpenFile, NoWriteAfterClose
<1> QED
  BY <1>1, <1>2, <1>3, <1>4 DEF IInv

-----------------------------------------------------------------------------
(* Steps.  The definitions that every step needs.                          *)

USE ConstantsAssumption
    DEF ConstantsAssumption, IInv, TypeOK, Control, Reports, Kinds, Procs,
        Threads, Locations, Working, Workers, Group, CtxDone, groupVars,
        playlistVars, threadVars, chatVars, endVars

\* The body of DownloadLiveStream.
LEMMA SupStep == IInv /\ Sup => IInv'
<1> SUFFICES ASSUME IInv, Sup PROVE IInv'
  OBVIOUS
<1>1. CASE DialOk
  <2>1. TypeOK'
    BY <1>1 DEF DialOk, StartPc
  <2>2. Control'
    BY <1>1 DEF DialOk, StartPc, ErrKept, ErrsKept, NotStarted, FetchOnce,
           ThreadsInOrder
  <2>3. Reports'
    BY <1>1 DEF DialOk, StartPc, ErrKept, NotStarted, AllReported,
           GroupErrReported, ResultFinal, CanceledLate, FinishedHonest
  <2>4. OpenFile'
    BY <1>1 DEF DialOk, StartPc, OpenFile, NoWriteAfterClose, FileOpen,
           ThreadsInOrder, FetchOnce, NotStarted
  <2> QED
    BY <2>1, <2>2, <2>3, <2>4
<1>2. CASE DialFail
  <2>1. TypeOK'
    BY <1>2 DEF DialFail, Goto
  <2>2. Control'
    BY <1>2 DEF DialFail, Goto, ErrKept, ErrsKept, NotStarted, FetchOnce,
           ThreadsInOrder
  <2>3. Reports'
    BY <1>2 DEF DialFail, Goto, ErrKept, NotStarted, AllReported,
           GroupErrReported, ResultFinal, CanceledLate, FinishedHonest
  <2>4. OpenFile'
    BY <1>2 DEF DialFail, Goto, OpenFile, NoWriteAfterClose, FileOpen,
           ThreadsInOrder, FetchOnce, NotStarted
  <2> QED
    BY <2>1, <2>2, <2>3, <2>4
<1>3. CASE Flush
  <2>1. TypeOK'
    BY <1>3 DEF Flush
  <2>2. Control'
    BY <1>3 DEF Flush, ErrKept, ErrsKept, NotStarted, FetchOnce, ThreadsInOrder
  <2>3. Reports'
    BY <1>3 DEF Flush, ErrKept, NotStarted, AllReported, GroupErrReported,
           ResultFinal, CanceledLate, FinishedHonest
  <2>4. OpenFile'
    BY <1>3 DEF Flush, OpenFile, NoWriteAfterClose, FileOpen, ThreadsInOrder,
           FetchOnce, NotStarted
  <2> QED
    BY <2>1, <2>2, <2>3, <2>4
<1>4. CASE SupDone
  <2>1. TypeOK'
    BY <1>4 DEF SupDone, Goto
  <2>2. Control'
    BY <1>4 DEF SupDone, Goto, ErrKept, ErrsKept, NotStarted, FetchOnce,
           ThreadsInOrder
  <2>3. Reports'
    BY <1>4 DEF SupDone, Goto, ErrKept, NotStarted, AllReported,
           GroupErrReported, ResultFinal, CanceledLate, FinishedHonest
  <2>4. OpenFile'
    BY <1>4 DEF SupDone, Goto, OpenFile, NoWriteAfterClose, FileOpen,
           ThreadsInOrder, FetchOnce, NotStarted
  <2> QED
    BY <2>1, <2>2, <2>3, <2>4
<1>5. CASE SupReturn
  <2> DEFINE e == FirstValuableErrorOrFirst(errs)
  <2>1. /\ pc["sup"] = "wait" /\ pc["dl"] = "done"
        /\ \A w \in Group : pc[w] = "done"
        /\ pc' = [pc EXCEPT !["sup"] = "done"]
        /\ result' = IF e = "EOF" THEN "nil" ELSE e
        /\ UNCHANGED <<groupVars, playlistVars, threadVars, chatVars, crashed>>
    BY <1>5 DEF SupReturn, Goto
  <2>2. errs # << >>
    BY <2>1 DEF ErrsKept
  <2>3. /\ e \in Kinds
        /\ ~Valuable(e) => \A n \in DOMAIN errs : ~Valuable(errs[n])
    BY <2>2, FirstValuable
  <2> HIDE DEF e
  <2>4. result' \in {"nil", "Canceled"} =>
            \A w \in Group : err[w] \in {"none", "EOF", "Canceled"}
    <3> SUFFICES ASSUME result' \in {"nil", "Canceled"}, NEW w \in Group,
                        err[w] \notin {"none", "EOF"}
                 PROVE  err[w] = "Canceled"
      OBVIOUS
    <3>1. ~Valuable(e)
      BY <2>1, <2>3 DEF Valuable
    <3>2. PICK n \in 1 .. Len(errs) : errs[n] = err[w]
      BY <2>1 DEF AllReported
    <3> QED
      BY <2>3, <3>1, <3>2 DEF Valuable
  <2>5. TypeOK'
    BY <2>1, <2>3
  <2>6. Control'
    BY <2>1 DEF ErrKept, ErrsKept, NotStarted, FetchOnce, ThreadsInOrder
  <2>7. Reports'
    <3>1. AllReported' /\ GroupErrReported' /\ CanceledLate'
      BY <2>1 DEF AllReported, GroupErrReported, CanceledLate
    <3>2. ResultFinal'
      BY <2>1, <2>4 DEF ResultFinal
    <3>3. FinishedHonest'
      <4> SUFFICES ASSUME result' = "nil", gErr # "EOF" PROVE parentDone
        BY <2>1 DEF FinishedHonest
      <4>1. ~Valuable(e)
        BY <2>1, <2>3 DEF Valuable
      <4>2. gErr \in {"none", "Canceled"}
        BY <2>3, <4>1 DEF GroupErrReported, Valuable
      <4> QED
        BY <2>1, <4>2 DEF CanceledLate
    <3> QED
      BY <3>1, <3>2, <3>3
  <2>8. OpenFile'
    BY <2>1 DEF OpenFile, NoWriteAfterClose, FileOpen
  <2> QED
    BY <2>5, <2>6, <2>7, <2>8
<1> QED
  BY <1>1, <1>2, <1>3, <1>4, <1>5 DEF Sup

\* A worker that reports its error and returns.
LEMMA WorkerStep ==
    IInv /\ (\E w \in Group : AppendErr(w) \/ Return(w)) => IInv'
<1> SUFFICES ASSUME IInv, \E w \in Group : AppendErr(w) \/ Return(w) PROVE IInv'
  OBVIOUS
<1>1. ASSUME NEW w \in Group, AppendErr(w) PROVE IInv'
  <2>1. TypeOK'
    <3>1. err[w] \in Kinds
      BY <1>1 DEF AppendErr, ErrKept
    <3> QED
      BY <1>1, <3>1 DEF AppendErr, Goto
  <2>2. Control'
    <3>1. ErrKept' /\ ErrsKept'
      BY <1>1 DEF AppendErr, Goto, ErrKept, ErrsKept
    <3>2. NotStarted'
      BY <1>1 DEF AppendErr, Goto, NotStarted
    <3>3. FetchOnce' /\ ThreadsInOrder'
      BY <1>1 DEF AppendErr, Goto, FetchOnce, ThreadsInOrder
    <3> QED
      BY <3>1, <3>2, <3>3
  <2>3. Reports'
    BY <1>1 DEF AppendErr, Goto, ErrKept, NotStarted, AllReported,
           GroupErrReported, ResultFinal, CanceledLate, FinishedHonest
  <2>4. OpenFile'
    BY <1>1 DEF AppendErr, Goto, OpenFile, NoWriteAfterClose, FileOpen,
           ThreadsInOrder, FetchOnce, NotStarted
  <2> QED
    BY <2>1, <2>2, <2>3, <2>4
<1>2. ASSUME NEW w \in Group, Return(w) PROVE IInv'
  <2>1. TypeOK'
    BY <1>2 DEF Return, Goto
  <2>2. Control'
    BY <1>2 DEF Return, Goto, ErrKept, ErrsKept, NotStarted, FetchOnce,
           ThreadsInOrder
  <2>3. Reports'
    BY <1>2 DEF Return, Goto, ErrKept, NotStarted, AllReported,
           GroupErrReported, ResultFinal, CanceledLate, FinishedHonest
  <2>4. OpenFile'
    BY <1>2 DEF Return, Goto, OpenFile, NoWriteAfterClose, FileOpen,
           ThreadsInOrder, FetchOnce, NotStarted
  <2> QED
    BY <2>1, <2>2, <2>3, <2>4
<1> QED
  BY <1>1, <1>2

\* Listen.
LEMMA ListenStep == IInv /\ Listen => IInv'
<1> SUFFICES ASSUME IInv, Listen PROVE IInv'
  OBVIOUS
<1>1. CASE ListenComment
  <2>1. TypeOK'
    BY <1>1 DEF ListenComment, Goto
  <2>2. Control'
    BY <1>1 DEF ListenComment, Goto, ErrKept, ErrsKept, NotStarted, FetchOnce,
           ThreadsInOrder
  <2>3. Reports'
    BY <1>1 DEF ListenComment, Goto, ErrKept, NotStarted, AllReported,
           GroupErrReported, ResultFinal, CanceledLate, FinishedHonest
  <2>4. OpenFile'
    BY <1>1 DEF ListenComment, Goto, OpenFile, NoWriteAfterClose, FileOpen,
           ThreadsInOrder, FetchOnce, NotStarted
  <2> QED
    BY <2>1, <2>2, <2>3, <2>4
<1>2. CASE ListenPush
  <2>1. TypeOK'
    BY <1>2 DEF ListenPush, Goto
  <2>2. Control'
    BY <1>2 DEF ListenPush, Goto, ErrKept, ErrsKept, NotStarted, FetchOnce,
           ThreadsInOrder
  <2>3. Reports'
    BY <1>2 DEF ListenPush, Goto, ErrKept, NotStarted, AllReported,
           GroupErrReported, ResultFinal, CanceledLate, FinishedHonest
  <2>4. OpenFile'
    BY <1>2 DEF ListenPush, Goto, OpenFile, NoWriteAfterClose, FileOpen,
           ThreadsInOrder, FetchOnce, NotStarted
  <2> QED
    BY <2>1, <2>2, <2>3, <2>4
<1>3. CASE ListenClose
  <2>1. TypeOK'
    BY <1>3 DEF ListenClose, Goto
  <2>2. Control'
    BY <1>3 DEF ListenClose, Goto, ErrKept, ErrsKept, NotStarted, FetchOnce,
           ThreadsInOrder
  <2>3. Reports'
    BY <1>3 DEF ListenClose, Goto, ErrKept, NotStarted, AllReported,
           GroupErrReported, ResultFinal, CanceledLate, FinishedHonest
  <2>4. OpenFile'
    BY <1>3 DEF ListenClose, Goto, OpenFile, NoWriteAfterClose, FileOpen,
           ThreadsInOrder, FetchOnce, NotStarted
  <2> QED
    BY <2>1, <2>2, <2>3, <2>4
<1>4. ASSUME NEW e \in Kinds, ListenErr(e) PROVE IInv'
  <2>1. TypeOK'
    BY <1>4 DEF ListenErr, Goto
  <2>2. Control'
    <3>1. ErrKept' /\ ErrsKept'
      BY <1>4 DEF ListenErr, Goto, ErrKept, ErrsKept
    <3>2. NotStarted'
      BY <1>4 DEF ListenErr, Goto, NotStarted
    <3>3. FetchOnce' /\ ThreadsInOrder'
      BY <1>4 DEF ListenErr, Goto, FetchOnce, ThreadsInOrder
    <3> QED
      BY <3>1, <3>2, <3>3
  <2>3. Reports'
    <3>1. AllReported' /\ GroupErrReported'
      BY <1>4 DEF ListenErr, Goto, AllReported, GroupErrReported
    <3>2. ResultFinal'
      BY <1>4 DEF ListenErr, Goto, ResultFinal, NotStarted
    <3>3. CanceledLate' /\ FinishedHonest'
      BY <1>4 DEF ListenErr, Goto, CanceledLate, FinishedHonest
    <3> QED
      BY <3>1, <3>2, <3>3
  <2>4. OpenFile'
    BY <1>4 DEF ListenErr, Goto, OpenFile, NoWriteAfterClose, FileOpen,
           ThreadsInOrder, FetchOnce, NotStarted
  <2> QED
    BY <2>1, <2>2, <2>3, <2>4
<1> QED
  BY <1>1, <1>2, <1>3, <1>4 DEF Listen

\* HeartbeatLoop.
LEMMA HbStep == IInv /\ Hb => IInv'
<1> SUFFICES ASSUME IInv, Hb PROVE IInv'
  OBVIOUS
<1>1. CASE HbTick
  <2>1. TypeOK'
    BY <1>1 DEF HbTick, Goto
  <2>2. Control'
    BY <1>1 DEF HbTick, Goto, ErrKept, ErrsKept, NotStarted, FetchOnce,
           ThreadsInOrder
  <2>3. Reports'
    BY <1>1 DEF HbTick, Goto, ErrKept, NotStarted, AllReported,
           GroupErrReported, ResultFinal, CanceledLate, FinishedHonest
  <2>4. OpenFile'
    BY <1>1 DEF HbTick, Goto, OpenFile, NoWriteAfterClose, FileOpen,
           ThreadsInOrder, FetchOnce, NotStarted
  <2> QED
    BY <2>1, <2>2, <2>3, <2>4
<1>2. CASE HbAnswer
  <2>1. TypeOK'
    BY <1>2 DEF HbAnswer, Goto
  <2>2. Control'
    BY <1>2 DEF HbAnswer, Goto, ErrKept, ErrsKept, NotStarted, FetchOnce,
           ThreadsInOrder
  <2>3. Reports'
    BY <1>2 DEF HbAnswer, Goto, ErrKept, NotStarted, AllReported,
           GroupErrReported, ResultFinal, CanceledLate, FinishedHonest
  <2>4. OpenFile'
    BY <1>2 DEF HbAnswer, Goto, OpenFile, NoWriteAfterClose, FileOpen,
           ThreadsInOrder, FetchOnce, NotStarted
  <2> QED
    BY <2>1, <2>2, <2>3, <2>4
<1>3. CASE HbCancel
  <2>1. TypeOK'
    BY <1>3 DEF HbCancel, Leave
  <2>2. Control'
    BY <1>3 DEF HbCancel, Leave, ErrKept, ErrsKept, NotStarted, FetchOnce,
           ThreadsInOrder
  <2>3. Reports'
    BY <1>3 DEF HbCancel, Leave, ErrKept, NotStarted, AllReported,
           GroupErrReported, ResultFinal, CanceledLate, FinishedHonest
  <2>4. OpenFile'
    BY <1>3 DEF HbCancel, Leave, OpenFile, NoWriteAfterClose, FileOpen,
           ThreadsInOrder, FetchOnce, NotStarted
  <2> QED
    BY <2>1, <2>2, <2>3, <2>4
<1>4. ASSUME NEW e \in Kinds, HbFail(e) PROVE IInv'
  <2>1. TypeOK'
    BY <1>4 DEF HbFail, Leave
  <2>2. Control'
    BY <1>4 DEF HbFail, Leave, ErrKept, ErrsKept, NotStarted, FetchOnce,
           ThreadsInOrder
  <2>3. Reports'
    BY <1>4 DEF HbFail, Leave, ErrKept, NotStarted, AllReported,
           GroupErrReported, ResultFinal, CanceledLate, FinishedHonest
  <2>4. OpenFile'
    BY <1>4 DEF HbFail, Leave, OpenFile, NoWriteAfterClose, FileOpen,
           ThreadsInOrder, FetchOnce, NotStarted
  <2> QED
    BY <2>1, <2>2, <2>3, <2>4
<1> QED
  BY <1>1, <1>2, <1>3, <1>4 DEF Hb

\* The playlist fetching loop.
LEMMA FetchStep == IInv /\ Fetch => IInv'
<1> SUFFICES ASSUME IInv, Fetch PROVE IInv'
  OBVIOUS
<1>1. CASE FetchExpected
  <2>1. TypeOK'
    BY <1>1 DEF FetchExpected, Goto
  <2>2. Control'
    BY <1>1 DEF FetchExpected, Goto, ErrKept, ErrsKept, NotStarted, FetchOnce,
           ThreadsInOrder
  <2>3. Reports'
    BY <1>1 DEF FetchExpected, Goto, ErrKept, NotStarted, AllReported,
           GroupErrReported, ResultFinal, CanceledLate, FinishedHonest
  <2>4. OpenFile'
    BY <1>1 DEF FetchExpected, Goto, OpenFile, NoWriteAfterClose, FileOpen,
           ThreadsInOrder, FetchOnce, NotStarted
  <2> QED
    BY <2>1, <2>2, <2>3, <2>4
<1>2. CASE FetchUnexpected
  <2>1. TypeOK'
    BY <1>2 DEF FetchUnexpected, Goto, AfterAttempt
  <2>2. Control'
    BY <1>2 DEF FetchUnexpected, Goto, AfterAttempt, ErrKept, ErrsKept,
           NotStarted, FetchOnce, ThreadsInOrder
  <2>3. Reports'
    BY <1>2 DEF FetchUnexpected, Goto, AfterAttempt, ErrKept, NotStarted,
           AllReported, GroupErrReported, ResultFinal, CanceledLate,
           FinishedHonest
  <2>4. OpenFile'
    BY <1>2 DEF FetchUnexpected, Goto, AfterAttempt, OpenFile,
           NoWriteAfterClose, FileOpen, ThreadsInOrder, FetchOnce, NotStarted
  <2> QED
    BY <2>1, <2>2, <2>3, <2>4
<1>3. CASE FetchError
  <2>1. TypeOK'
    BY <1>3 DEF FetchError, Goto, AfterAttempt
  <2>2. Control'
    BY <1>3 DEF FetchError, Goto, AfterAttempt, ErrKept, ErrsKept, NotStarted,
           FetchOnce, ThreadsInOrder
  <2>3. Reports'
    BY <1>3 DEF FetchError, Goto, AfterAttempt, ErrKept, NotStarted,
           AllReported, GroupErrReported, ResultFinal, CanceledLate,
           FinishedHonest
  <2>4. OpenFile'
    BY <1>3 DEF FetchError, Goto, AfterAttempt, OpenFile, NoWriteAfterClose,
           FileOpen, ThreadsInOrder, FetchOnce, NotStarted
  <2> QED
    BY <2>1, <2>2, <2>3, <2>4
<1>4. CASE FetchAgain
  <2>1. TypeOK'
    BY <1>4 DEF FetchAgain, Goto
  <2>2. Control'
    BY <1>4 DEF FetchAgain, Goto, ErrKept, ErrsKept, NotStarted, FetchOnce,
           ThreadsInOrder
  <2>3. Reports'
    BY <1>4 DEF FetchAgain, Goto, ErrKept, NotStarted, AllReported,
           GroupErrReported, ResultFinal, CanceledLate, FinishedHonest
  <2>4. OpenFile'
    BY <1>4 DEF FetchAgain, Goto, OpenFile, NoWriteAfterClose, FileOpen,
           ThreadsInOrder, FetchOnce, NotStarted
  <2> QED
    BY <2>1, <2>2, <2>3, <2>4
<1>5. CASE FetchStop
  <2>1. TypeOK'
    BY <1>5 DEF FetchStop, Goto
  <2>2. Control'
    BY <1>5 DEF FetchStop, Goto, ErrKept, ErrsKept, NotStarted, FetchOnce,
           ThreadsInOrder
  <2>3. Reports'
    BY <1>5 DEF FetchStop, Goto, ErrKept, NotStarted, AllReported,
           GroupErrReported, ResultFinal, CanceledLate, FinishedHonest
  <2>4. OpenFile'
    BY <1>5 DEF FetchStop, Goto, OpenFile, NoWriteAfterClose, FileOpen,
           ThreadsInOrder, FetchOnce, NotStarted
  <2> QED
    BY <2>1, <2>2, <2>3, <2>4
<1>6. CASE SendOnClosed
  <2>1. TypeOK'
    BY <1>6 DEF SendOnClosed, Crash
  <2>2. Control'
    BY <1>6 DEF SendOnClosed, Crash, ErrKept, ErrsKept, NotStarted, FetchOnce,
           ThreadsInOrder
  <2>3. Reports'
    BY <1>6 DEF SendOnClosed, Crash, ErrKept, NotStarted, AllReported,
           GroupErrReported, ResultFinal, CanceledLate, FinishedHonest
  <2>4. OpenFile'
    <3>1. \A n \in 1 .. Len(errChan) : errChan[n].from \in Threads
      BY ReportFromThread
    <3> QED
      BY <1>6, <3>1 DEF SendOnClosed, Crash, OpenFile, NoWriteAfterClose,
             FetchOnce
  <2> QED
    BY <2>1, <2>2, <2>3, <2>4
<1> QED
  BY <1>1, <1>2, <1>3, <1>4, <1>5, <1>6 DEF Fetch

\* downloadStream.
LEMMA DlStep == IInv /\ Dl => IInv'
<1> SUFFICES ASSUME IInv, Dl PROVE IInv'
  OBVIOUS
<1>1. CASE DlCreate
  <2>1. TypeOK'
    BY <1>1 DEF DlCreate, Goto
  <2>2. Control'
    BY <1>1 DEF DlCreate, Goto, ErrKept, ErrsKept, NotStarted, FetchOnce,
           ThreadsInOrder
  <2>3. Reports'
    BY <1>1 DEF DlCreate, Goto, ErrKept, NotStarted, AllReported,
           GroupErrReported, ResultFinal, CanceledLate, FinishedHonest
  <2>4. OpenFile'
    BY <1>1 DEF DlCreate, Goto, OpenFile, NoWriteAfterClose, FileOpen,
           ThreadsInOrder, FetchOnce, NotStarted
  <2> QED
    BY <2>1, <2>2, <2>3, <2>4
<1>2. CASE DlCreateFail
  <2>1. TypeOK'
    BY <1>2 DEF DlCreateFail, Leave
  <2>2. Control'
    BY <1>2 DEF DlCreateFail, Leave, ErrKept, ErrsKept, NotStarted, FetchOnce,
           ThreadsInOrder
  <2>3. Reports'
    BY <1>2 DEF DlCreateFail, Leave, ErrKept, NotStarted, AllReported,
           GroupErrReported, ResultFinal, CanceledLate, FinishedHonest
  <2>4. OpenFile'
    BY <1>2 DEF DlCreateFail, Leave, OpenFile, NoWriteAfterClose, FileOpen,
           ThreadsInOrder, FetchOnce, NotStarted
  <2> QED
    BY <2>1, <2>2, <2>3, <2>4
<1>3. CASE DlReceive
  <2>1. TypeOK'
    BY <1>3 DEF DlReceive, Launch, AfterAttempt, Sending
  <2>2. Control'
    <3>1. ErrKept' /\ ErrsKept'
      BY <1>3 DEF DlReceive, Launch, AfterAttempt, Sending, ErrKept, ErrsKept
    <3>2. NotStarted'
      BY <1>3 DEF DlReceive, Launch, AfterAttempt, Sending, NotStarted
    <3>3. FetchOnce' /\ ThreadsInOrder'
      BY <1>3 DEF DlReceive, Launch, AfterAttempt, Sending, FetchOnce,
             ThreadsInOrder
    <3> QED
      BY <3>1, <3>2, <3>3
  <2>3. Reports'
    <3>1. AllReported' /\ GroupErrReported'
      BY <1>3 DEF DlReceive, Launch, AfterAttempt, Sending, AllReported,
             GroupErrReported
    <3>2. ResultFinal'
      BY <1>3 DEF DlReceive, Launch, AfterAttempt, Sending, ResultFinal,
             NotStarted
    <3>3. CanceledLate' /\ FinishedHonest'
      BY <1>3 DEF DlReceive, Launch, AfterAttempt, Sending, CanceledLate,
             FinishedHonest
    <3> QED
      BY <3>1, <3>2, <3>3
  <2>4. OpenFile'
    BY <1>3 DEF DlReceive, Launch, AfterAttempt, Sending, OpenFile,
           NoWriteAfterClose, FileOpen, ThreadsInOrder, FetchOnce, NotStarted
  <2> QED
    BY <2>1, <2>2, <2>3, <2>4
<1>4. CASE DlProbeErr
  <2>1. TypeOK'
    BY <1>4 DEF DlProbeErr, Goto
  <2>2. Control'
    BY <1>4 DEF DlProbeErr, Goto, ErrKept, ErrsKept, NotStarted, FetchOnce,
           ThreadsInOrder
  <2>3. Reports'
    BY <1>4 DEF DlProbeErr, Goto, ErrKept, NotStarted, AllReported,
           GroupErrReported, ResultFinal, CanceledLate, FinishedHonest
  <2>4. OpenFile'
    BY <1>4 DEF DlProbeErr, Goto, OpenFile, NoWriteAfterClose, FileOpen,
           ThreadsInOrder, FetchOnce, NotStarted
  <2> QED
    BY <2>1, <2>2, <2>3, <2>4
<1>5. CASE DlProbeNotReady
  <2>1. TypeOK'
    BY <1>5 DEF DlProbeNotReady, Goto
  <2>2. Control'
    BY <1>5 DEF DlProbeNotReady, Goto, ErrKept, ErrsKept, NotStarted,
           FetchOnce, ThreadsInOrder
  <2>3. Reports'
    BY <1>5 DEF DlProbeNotReady, Goto, ErrKept, NotStarted, AllReported,
           GroupErrReported, ResultFinal, CanceledLate, FinishedHonest
  <2>4. OpenFile'
    BY <1>5 DEF DlProbeNotReady, Goto, OpenFile, NoWriteAfterClose, FileOpen,
           ThreadsInOrder, FetchOnce, NotStarted
  <2> QED
    BY <2>1, <2>2, <2>3, <2>4
<1>6. CASE DlProbeOk
  <2>1. TypeOK'
    BY <1>6 DEF DlProbeOk, Goto, Cancel
  <2>2. Control'
    BY <1>6 DEF DlProbeOk, Goto, Cancel, ErrKept, ErrsKept, NotStarted,
           FetchOnce, ThreadsInOrder
  <2>3. Reports'
    BY <1>6 DEF DlProbeOk, Goto, Cancel, ErrKept, NotStarted, AllReported,
           GroupErrReported, ResultFinal, CanceledLate, FinishedHonest
  <2>4. OpenFile'
    BY <1>6 DEF DlProbeOk, Goto, Cancel, OpenFile, NoWriteAfterClose, FileOpen,
           ThreadsInOrder, FetchOnce, NotStarted
  <2> QED
    BY <2>1, <2>2, <2>3, <2>4
<1>7. CASE DlProbeAgain
  <2>1. TypeOK'
    BY <1>7 DEF DlProbeAgain, Goto
  <2>2. Control'
    BY <1>7 DEF DlProbeAgain, Goto, ErrKept, ErrsKept, NotStarted, FetchOnce,
           ThreadsInOrder
  <2>3. Reports'
    BY <1>7 DEF DlProbeAgain, Goto, ErrKept, NotStarted, AllReported,
           GroupErrReported, ResultFinal, CanceledLate, FinishedHonest
  <2>4. OpenFile'
    BY <1>7 DEF DlProbeAgain, Goto, OpenFile, NoWriteAfterClose, FileOpen,
           ThreadsInOrder, FetchOnce, NotStarted
  <2> QED
    BY <2>1, <2>2, <2>3, <2>4
<1>8. CASE DlProbeCanceled
  <2>1. TypeOK'
    BY <1>8 DEF DlProbeCanceled, Leave
  <2>2. Control'
    BY <1>8 DEF DlProbeCanceled, Leave, ErrKept, ErrsKept, NotStarted,
           FetchOnce, ThreadsInOrder
  <2>3. Reports'
    BY <1>8 DEF DlProbeCanceled, Leave, ErrKept, NotStarted, AllReported,
           GroupErrReported, ResultFinal, CanceledLate, FinishedHonest
  <2>4. OpenFile'
    BY <1>8 DEF DlProbeCanceled, Leave, OpenFile, NoWriteAfterClose, FileOpen,
           ThreadsInOrder, FetchOnce, NotStarted
  <2> QED
    BY <2>1, <2>2, <2>3, <2>4
<1>9. CASE DlSwap
  <2>1. cur = 1 /\ AllowQualityUpgrade
    BY <1>9 DEF DlSwap, FetchOnce, OpenFile
  <2>2. TypeOK'
    BY <1>9, <2>1 DEF DlSwap, Goto, Launch
  <2>3. Control'
    BY <1>9 DEF DlSwap, Goto, Launch, ErrKept, ErrsKept, NotStarted, FetchOnce,
           ThreadsInOrder
  <2>4. Reports'
    BY <1>9 DEF DlSwap, Goto, Launch, ErrKept, NotStarted, AllReported,
           GroupErrReported, ResultFinal, CanceledLate, FinishedHonest
  <2>5. OpenFile'
    BY <1>9, <2>1 DEF DlSwap, Goto, Launch, OpenFile, ThreadsInOrder
  <2> QED
    BY <2>2, <2>3, <2>4, <2>5
<1>10. CASE DlClosed
  <2>1. TypeOK'
    <3>1. /\ pc' \in [Procs -> Locations]
          /\ err' \in [Procs -> Kinds \cup {"none"}]
      BY <1>10 DEF DlClosed, Goto, Leave
    <3>2. cancelled' \in [Threads -> BOOLEAN]
      <4>1. CASE cur = 0
        BY <1>10, <4>1 DEF DlClosed
      <4>2. CASE cur # 0
        <5>1. cancelled' = [cancelled EXCEPT ![cur] = TRUE]
          BY <1>10, <4>2 DEF DlClosed, Cancel
        <5> QED
          BY <5>1
      <4> QED
        BY <4>1, <4>2
    <3> QED
      BY <1>10, <3>1, <3>2 DEF DlClosed
  <2>2. Control'
    BY <1>10 DEF DlClosed, Goto, Leave, Cancel, ErrKept, ErrsKept, NotStarted,
           FetchOnce, ThreadsInOrder
  <2>3. Reports'
    <3>1. AllReported' /\ GroupErrReported'
      BY <1>10 DEF DlClosed, Goto, Leave, Cancel, AllReported, GroupErrReported
    <3>2. ResultFinal'
      BY <1>10 DEF DlClosed, Goto, Leave, Cancel, ResultFinal, NotStarted
    <3>3. CanceledLate' /\ FinishedHonest'
      BY <1>10 DEF DlClosed, Goto, Leave, Cancel, CanceledLate, FinishedHonest
    <3> QED
      BY <3>1, <3>2, <3>3
  <2>4. OpenFile'
    BY <1>10 DEF DlClosed, Goto, Leave, Cancel, OpenFile, NoWriteAfterClose,
           FileOpen, ThreadsInOrder, FetchOnce, NotStarted
  <2> QED
    BY <2>1, <2>2, <2>3, <2>4
<1>11. CASE DlDrained
  <2>1. TypeOK'
    BY <1>11 DEF DlDrained, Leave
  <2>2. Control'
    BY <1>11 DEF DlDrained, Leave, ErrKept, ErrsKept, NotStarted, FetchOnce,
           ThreadsInOrder
  <2>3. Reports'
    BY <1>11 DEF DlDrained, Leave, ErrKept, NotStarted, AllReported,
           GroupErrReported, ResultFinal, CanceledLate, FinishedHonest
  <2>4. OpenFile'
    BY <1>11 DEF DlDrained, Leave, OpenFile, NoWriteAfterClose, FileOpen,
           ThreadsInOrder, FetchOnce, NotStarted
  <2> QED
    BY <2>1, <2>2, <2>3, <2>4
<1>12. CASE DlDoneTimeout
  <2>1. TypeOK'
    BY <1>12 DEF DlDoneTimeout, Crash
  <2>2. Control'
    BY <1>12 DEF DlDoneTimeout, Crash, ErrKept, ErrsKept, NotStarted,
           FetchOnce, ThreadsInOrder
  <2>3. Reports'
    BY <1>12 DEF DlDoneTimeout, Crash, ErrKept, NotStarted, AllReported,
           GroupErrReported, ResultFinal, CanceledLate, FinishedHonest
  <2>4. OpenFile'
    <3>1. \A n \in 1 .. Len(errChan) : errChan[n].from \in Threads
      BY ReportFromThread
    <3> QED
      BY <1>12, <3>1 DEF DlDoneTimeout, Crash, OpenFile, NoWriteAfterClose,
             FetchOnce
  <2> QED
    BY <2>1, <2>2, <2>3, <2>4
<1>13. CASE DlIgnoreCanceled
  <2>1. TypeOK'
    BY <1>13 DEF DlIgnoreCanceled
  <2>2. Control'
    BY <1>13 DEF DlIgnoreCanceled, ErrKept, ErrsKept, NotStarted, FetchOnce,
           ThreadsInOrder
  <2>3. Reports'
    BY <1>13 DEF DlIgnoreCanceled, ErrKept, NotStarted, AllReported,
           GroupErrReported, ResultFinal, CanceledLate, FinishedHonest
  <2>4. OpenFile'
    BY <1>13 DEF DlIgnoreCanceled, OpenFile, NoWriteAfterClose, FileOpen,
           ThreadsInOrder, FetchOnce, NotStarted
  <2> QED
    BY <2>1, <2>2, <2>3, <2>4
<1>14. CASE DlError
  <2> DEFINE h == Head(errChan)
  <2>1. /\ pc["dl"] = "select" /\ pc' = [pc EXCEPT !["dl"] = "append"]
        /\ err' = [err EXCEPT !["dl"] = h.kind]
        /\ errChan # << >> /\ errChan' = Tail(errChan)
        /\ h.kind = "Canceled" => CtxDone
        /\ cancelled' = [cancelled EXCEPT ![cur] = TRUE]
        /\ UNCHANGED <<parentDone, gErr, errs, playlistVars, cur, thread,
                       chatVars, endVars>>
    BY <1>14 DEF DlError, Leave, Cancel
  <2>2. /\ h \in [from : Threads, kind : Kinds] /\ h = errChan[1]
        /\ 1 \in 1 .. Len(errChan)
    <3>1. Len(errChan) \in Nat \ {0}
      BY <2>1, EmptySeq
    <3>2. errChan[1] \in [from : Threads, kind : Kinds]
      BY <3>1, ReportFromThread
    <3> QED
      BY <2>1, <3>1, <3>2
  <2>3. /\ Tail(errChan) \in Seq([from : Threads, kind : Kinds])
        /\ \A n \in 1 .. Len(Tail(errChan)) :
              n + 1 \in 1 .. Len(errChan) /\ Tail(errChan)[n] = errChan[n + 1]
    BY <2>1, HeadTailProperties, LenProperties
  <2> HIDE DEF h
  <2>4. TypeOK'
    <3>1. cancelled' \in [Threads -> BOOLEAN]
      BY <2>1
    <3> QED
      BY <2>1, <2>2, <2>3, <3>1
  <2>5. Control'
    BY <2>1, <2>2
    DEF ErrKept, ErrsKept, NotStarted, FetchOnce, ThreadsInOrder
  <2>6. Reports'
    BY <2>1, <2>2 DEF NotStarted, AllReported, GroupErrReported, ResultFinal,
           CanceledLate, FinishedHonest
  <2>7. OpenFile'
    <3>1. \A n \in 1 .. Len(errChan') :
            thread'[errChan'[n].from] \in {"report", "done", "dead"}
      BY <2>1, <2>3 DEF OpenFile
    <3>2. ~AllowQualityUpgrade =>
            \A i \in Threads : thread[i] \notin {"start", "run"}
      <4> SUFFICES ASSUME ~AllowQualityUpgrade, NEW i \in Threads
                   PROVE  thread[i] \notin {"start", "run"}
        OBVIOUS
      <4>1. /\ cur = 1 /\ h.from \in Threads
            /\ thread[h.from] \in {"report", "done", "dead"}
        BY <2>1, <2>2 DEF OpenFile, FetchOnce
      <4> QED
        BY <2>1, <4>1 DEF ThreadsInOrder
    <3> QED
      BY <2>1, <3>1, <3>2 DEF OpenFile, NoWriteAfterClose
  <2> QED
    BY <2>4, <2>5, <2>6, <2>7
<1> QED
  BY <1>1, <1>2, <1>3, <1>4, <1>5, <1>6, <1>7, <1>8, <1>9, <1>10, <1>11, <1>12,
         <1>13, <1>14 DEF Dl

\* A download thread.
LEMMA ThreadStep == IInv /\ (\E i \in Threads : Thread(i)) => IInv'
<1> SUFFICES ASSUME IInv, \E i \in Threads : Thread(i) PROVE IInv'
  OBVIOUS
<1>1. ASSUME NEW i \in Threads, ThreadLock(i) PROVE IInv'
  <2>1. TypeOK'
    BY <1>1 DEF ThreadLock
  <2>2. Control'
    BY <1>1 DEF ThreadLock, ErrKept, ErrsKept, NotStarted, FetchOnce,
           ThreadsInOrder
  <2>3. Reports'
    BY <1>1 DEF ThreadLock, ErrKept, NotStarted, AllReported, GroupErrReported,
           ResultFinal, CanceledLate, FinishedHonest
  <2>4. OpenFile'
    BY <1>1 DEF ThreadLock, OpenFile, NoWriteAfterClose, FileOpen,
           ThreadsInOrder, FetchOnce, NotStarted
  <2> QED
    BY <2>1, <2>2, <2>3, <2>4
<1>2. ASSUME NEW i \in Threads, ThreadClose(i) PROVE IInv'
  <2>1. TypeOK'
    BY <1>2 DEF ThreadClose
  <2>2. Control'
    BY <1>2 DEF ThreadClose, ErrKept, ErrsKept, NotStarted, FetchOnce,
           ThreadsInOrder
  <2>3. Reports'
    BY <1>2 DEF ThreadClose, ErrKept, NotStarted, AllReported,
           GroupErrReported, ResultFinal, CanceledLate, FinishedHonest
  <2>4. OpenFile'
    BY <1>2 DEF ThreadClose, OpenFile, NoWriteAfterClose, FileOpen,
           ThreadsInOrder, FetchOnce, NotStarted
  <2> QED
    BY <2>1, <2>2, <2>3, <2>4
<1>3. ASSUME NEW i \in Threads, ThreadHang(i) PROVE IInv'
  <2>1. TypeOK'
    BY <1>3 DEF ThreadHang
  <2>2. Control'
    BY <1>3 DEF ThreadHang, ErrKept, ErrsKept, NotStarted, FetchOnce,
           ThreadsInOrder
  <2>3. Reports'
    BY <1>3 DEF ThreadHang, ErrKept, NotStarted, AllReported, GroupErrReported,
           ResultFinal, CanceledLate, FinishedHonest
  <2>4. OpenFile'
    BY <1>3 DEF ThreadHang, OpenFile, NoWriteAfterClose, FileOpen,
           ThreadsInOrder, FetchOnce, NotStarted
  <2> QED
    BY <2>1, <2>2, <2>3, <2>4
<1>4. ASSUME NEW i \in Threads, NEW e \in Kinds, ThreadEnd(i, e) PROVE IInv'
  <2>1. TypeOK'
    BY <1>4 DEF ThreadEnd, ThreadCtxDone
  <2>2. Control'
    BY <1>4 DEF ThreadEnd, ThreadCtxDone, ErrKept, ErrsKept, NotStarted,
           FetchOnce, ThreadsInOrder
  <2>3. Reports'
    BY <1>4 DEF ThreadEnd, ThreadCtxDone, ErrKept, NotStarted, AllReported,
           GroupErrReported, ResultFinal, CanceledLate, FinishedHonest
  <2>4. OpenFile'
    BY <1>4 DEF ThreadEnd, ThreadCtxDone, OpenFile, NoWriteAfterClose,
           FileOpen, ThreadsInOrder, FetchOnce, NotStarted
  <2> QED
    BY <2>1, <2>2, <2>3, <2>4
<1> QED
  BY <1>1, <1>2, <1>3, <1>4 DEF Thread

\* DownloadChat and removeDuplicatesComment.
LEMMA ChatStep == IInv /\ Chat => IInv'
<1> SUFFICES ASSUME IInv, Chat PROVE IInv'
  OBVIOUS
<1>1. CASE ChatCreate
  <2>1. TypeOK'
    BY <1>1 DEF ChatCreate
  <2>2. Control'
    <3>1. ErrKept' /\ ErrsKept'
      BY <1>1 DEF ChatCreate, ErrKept, ErrsKept
    <3>2. NotStarted'
      BY <1>1 DEF ChatCreate, NotStarted
    <3>3. FetchOnce' /\ ThreadsInOrder'
      BY <1>1 DEF ChatCreate, FetchOnce, ThreadsInOrder
    <3> QED
      BY <3>1, <3>2, <3>3
  <2>3. Reports'
    <3>1. AllReported' /\ GroupErrReported'
      BY <1>1 DEF ChatCreate, AllReported, GroupErrReported
    <3>2. ResultFinal'
      BY <1>1 DEF ChatCreate, ResultFinal, NotStarted
    <3>3. CanceledLate' /\ FinishedHonest'
      BY <1>1 DEF ChatCreate, CanceledLate, FinishedHonest
    <3> QED
      BY <3>1, <3>2, <3>3
  <2>4. OpenFile'
    BY <1>1 DEF ChatCreate, OpenFile, NoWriteAfterClose, FileOpen,
           ThreadsInOrder, FetchOnce, NotStarted
  <2> QED
    BY <2>1, <2>2, <2>3, <2>4
<1>2. CASE ChatCreateFail
  <2>1. TypeOK'
    BY <1>2 DEF ChatCreateFail, Leave
  <2>2. Control'
    BY <1>2 DEF ChatCreateFail, Leave, ErrKept, ErrsKept, NotStarted,
           FetchOnce, ThreadsInOrder
  <2>3. Reports'
    BY <1>2 DEF ChatCreateFail, Leave, ErrKept, NotStarted, AllReported,
           GroupErrReported, ResultFinal, CanceledLate, FinishedHonest
  <2>4. OpenFile'
    BY <1>2 DEF ChatCreateFail, Leave, OpenFile, NoWriteAfterClose, FileOpen,
           ThreadsInOrder, FetchOnce, NotStarted
  <2> QED
    BY <2>1, <2>2, <2>3, <2>4
<1>3. CASE DedupReceive
  <2>1. TypeOK'
    BY <1>3 DEF DedupReceive, Goto
  <2>2. Control'
    BY <1>3 DEF DedupReceive, Goto, ErrKept, ErrsKept, NotStarted, FetchOnce,
           ThreadsInOrder
  <2>3. Reports'
    BY <1>3 DEF DedupReceive, Goto, ErrKept, NotStarted, AllReported,
           GroupErrReported, ResultFinal, CanceledLate, FinishedHonest
  <2>4. OpenFile'
    BY <1>3 DEF DedupReceive, Goto, OpenFile, NoWriteAfterClose, FileOpen,
           ThreadsInOrder, FetchOnce, NotStarted
  <2> QED
    BY <2>1, <2>2, <2>3, <2>4
<1>4. CASE DedupEnd
  <2>1. TypeOK'
    BY <1>4 DEF DedupEnd, Goto
  <2>2. Control'
    BY <1>4 DEF DedupEnd, Goto, ErrKept, ErrsKept, NotStarted, FetchOnce,
           ThreadsInOrder
  <2>3. Reports'
    BY <1>4 DEF DedupEnd, Goto, ErrKept, NotStarted, AllReported,
           GroupErrReported, ResultFinal, CanceledLate, FinishedHonest
  <2>4. OpenFile'
    BY <1>4 DEF DedupEnd, Goto, OpenFile, NoWriteAfterClose, FileOpen,
           ThreadsInOrder, FetchOnce, NotStarted
  <2> QED
    BY <2>1, <2>2, <2>3, <2>4
<1>5. CASE ChatWrite
  <2>1. TypeOK'
    BY <1>5 DEF ChatWrite, Goto
  <2>2. Control'
    BY <1>5 DEF ChatWrite, Goto, ErrKept, ErrsKept, NotStarted, FetchOnce,
           ThreadsInOrder
  <2>3. Reports'
    BY <1>5 DEF ChatWrite, Goto, ErrKept, NotStarted, AllReported,
           GroupErrReported, ResultFinal, CanceledLate, FinishedHonest
  <2>4. OpenFile'
    BY <1>5 DEF ChatWrite, Goto, OpenFile, NoWriteAfterClose, FileOpen,
           ThreadsInOrder, FetchOnce, NotStarted
  <2> QED
    BY <2>1, <2>2, <2>3, <2>4
<1>6. CASE ChatWriteFail
  <2>1. TypeOK'
    BY <1>6 DEF ChatWriteFail
  <2>2. Control'
    <3>1. ErrKept' /\ ErrsKept'
      BY <1>6 DEF ChatWriteFail, ErrKept, ErrsKept
    <3>2. NotStarted'
      BY <1>6 DEF ChatWriteFail, NotStarted
    <3>3. FetchOnce' /\ ThreadsInOrder'
      BY <1>6 DEF ChatWriteFail, FetchOnce, ThreadsInOrder
    <3> QED
      BY <3>1, <3>2, <3>3
  <2>3. Reports'
    <3>1. AllReported' /\ GroupErrReported'
      BY <1>6 DEF ChatWriteFail, AllReported, GroupErrReported
    <3>2. ResultFinal'
      BY <1>6 DEF ChatWriteFail, ResultFinal, NotStarted
    <3>3. CanceledLate' /\ FinishedHonest'
      BY <1>6 DEF ChatWriteFail, CanceledLate, FinishedHonest
    <3> QED
      BY <3>1, <3>2, <3>3
  <2>4. OpenFile'
    BY <1>6 DEF ChatWriteFail, OpenFile, NoWriteAfterClose, FileOpen,
           ThreadsInOrder, FetchOnce, NotStarted
  <2> QED
    BY <2>1, <2>2, <2>3, <2>4
<1>7. CASE ChatClosed
  <2>1. TypeOK'
    BY <1>7 DEF ChatClosed, Leave
  <2>2. Control'
    BY <1>7 DEF ChatClosed, Leave, ErrKept, ErrsKept, NotStarted, FetchOnce,
           ThreadsInOrder
  <2>3. Reports'
    BY <1>7 DEF ChatClosed, Leave, ErrKept, NotStarted, AllReported,
           GroupErrReported, ResultFinal, CanceledLate, FinishedHonest
  <2>4. OpenFile'
    BY <1>7 DEF ChatClosed, Leave, OpenFile, NoWriteAfterClose, FileOpen,
           ThreadsInOrder, FetchOnce, NotStarted
  <2> QED
    BY <2>1, <2>2, <2>3, <2>4
<1>8. CASE ChatCancel
  <2>1. TypeOK'
    BY <1>8 DEF ChatCancel, Leave
  <2>2. Control'
    BY <1>8 DEF ChatCancel, Leave, ErrKept, ErrsKept, NotStarted, FetchOnce,
           ThreadsInOrder
  <2>3. Reports'
    BY <1>8 DEF ChatCancel, Leave, ErrKept, NotStarted, AllReported,
           GroupErrReported, ResultFinal, CanceledLate, FinishedHonest
  <2>4. OpenFile'
    BY <1>8 DEF ChatCancel, Leave, OpenFile, NoWriteAfterClose, FileOpen,
           ThreadsInOrder, FetchOnce, NotStarted
  <2> QED
    BY <2>1, <2>2, <2>3, <2>4
<1> QED
  BY <1>1, <1>2, <1>3, <1>4, <1>5, <1>6, <1>7, <1>8 DEF Chat

\* The caller, the goroutine that closes playlistChan, and no step.
LEMMA OtherStep ==
    IInv /\ (\/ ParentCancel \/ CloserClose
             \/ Terminated \/ UNCHANGED vars) => IInv'
<1> SUFFICES ASSUME IInv,
                    ParentCancel \/ CloserClose \/ Terminated \/ UNCHANGED vars
             PROVE  IInv'
  OBVIOUS
<1>1. CASE ParentCancel
  <2>1. TypeOK'
    BY <1>1 DEF ParentCancel
  <2>2. Control'
    BY <1>1 DEF ParentCancel, ErrKept, ErrsKept, NotStarted, FetchOnce,
           ThreadsInOrder
  <2>3. Reports'
    BY <1>1 DEF ParentCancel, ErrKept, NotStarted, AllReported,
           GroupErrReported, ResultFinal, CanceledLate, FinishedHonest
  <2>4. OpenFile'
    BY <1>1 DEF ParentCancel, OpenFile, NoWriteAfterClose, FileOpen,
           ThreadsInOrder, FetchOnce, NotStarted
  <2> QED
    BY <2>1, <2>2, <2>3, <2>4
<1>2. CASE CloserClose
  <2>1. TypeOK'
    BY <1>2 DEF CloserClose, Goto
  <2>2. Control'
    BY <1>2 DEF CloserClose, Goto, ErrKept, ErrsKept, NotStarted, FetchOnce,
           ThreadsInOrder
  <2>3. Reports'
    BY <1>2 DEF CloserClose, Goto, ErrKept, NotStarted, AllReported,
           GroupErrReported, ResultFinal, CanceledLate, FinishedHonest
  <2>4. OpenFile'
    BY <1>2 DEF CloserClose, Goto, OpenFile, NoWriteAfterClose, FileOpen,
           ThreadsInOrder, FetchOnce, NotStarted
  <2> QED
    BY <2>1, <2>2, <2>3, <2>4
<1>3. CASE Terminated \/ UNCHANGED vars
  <2>1. TypeOK'
    BY <1>3 DEF Terminated, vars
  <2>2. Control'
    BY <1>3 DEF Terminated, vars, ErrKept, ErrsKept, NotStarted, FetchOnce,
           ThreadsInOrder
  <2>3. Reports'
    BY <1>3 DEF Terminated, vars, ErrKept, NotStarted, AllReported,
           GroupErrReported, ResultFinal, CanceledLate, FinishedHonest
  <2>4. OpenFile'
    BY <1>3 DEF Terminated, vars, OpenFile, NoWriteAfterClose, FileOpen,
           ThreadsInOrder, FetchOnce, NotStarted
  <2> QED
    BY <2>1, <2>2, <2>3, <2>4
<1> QED
  BY <1>1, <1>2, <1>3

LEMMA NextIInv == IInv /\ [Next]_vars => IInv'
  BY SupStep, WorkerStep, ListenStep, HbStep, FetchStep, DlStep, ThreadStep,
     ChatStep, OtherStep DEF Next

LEMMA SpecIInv == Spec => []IInv
  BY InitIInv, NextIInv, PTL DEF Spec

-----------------------------------------------------------------------------
(* Theorems.                                                               *)

\* Every state is of the type TypeOK: no third download thread is started, the
\* comment channel keeps to its capacity, and a session that returns returns nil
\* or an error that a worker reported.
THEOREM TypeCorrect == Spec => []TypeOK
<1>1. IInv => TypeOK
  OBVIOUS
<1> QED
  BY <1>1, SpecIInv, PTL

\* Two download threads never write together, whatever the interleaving of the
\* fetching loop, of downloadStream, of the probes and of the threads.
THEOREM OneDownloaderAtATime == Spec => []OneDownloader
<1>1. IInv => OneDownloader
  BY DEF ThreadsInOrder, OneDownloader
<1> QED
  BY <1>1, SpecIInv, PTL

\* A failure of a worker is never reported as the end of the stream or as a
\* cancellation, in whatever order the workers end.
THEOREM FailuresReported == Spec => []FailureNotSwallowed
<1>1. IInv => FailureNotSwallowed
  BY DEF ResultFinal, FailureNotSwallowed
<1> QED
  BY <1>1, SpecIInv, PTL

\* A session is reported as finished only if the stream ended, or if the caller
\* canceled.
THEOREM FinishedIsHonest == Spec => []FinishedHonest
<1>1. IInv => FinishedHonest
  OBVIOUS
<1> QED
  BY <1>1, SpecIInv, PTL

\* Without quality upgrades no download thread writes to the file of the
\* recording after downloadStream closed it.
THEOREM FileOpenWhileWriting ==
    ASSUME ~AllowQualityUpgrade PROVE Spec => []NoWriteAfterClose
<1>1. IInv => NoWriteAfterClose
  BY DEF OpenFile
<1> QED
  BY <1>1, SpecIInv, PTL
=============================================================================
