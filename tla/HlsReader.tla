----------------------------- MODULE HlsReader -----------------------------
(***************************************************************************)
(* Downloader.Read of hls/hls_downloader.go: the goroutine of fillQueue,   *)
(* which polls the manifest and queues the new fragments, and the loop of  *)
(* Read, which downloads and writes them.  They share urlsChan, errChan    *)
(* and checkpointChan.  When the caller cancels a Read to switch to        *)
(* another playlist, it hands the checkpoint it got over to the next Read, *)
(* as downloadStream of fc2/fc2_livestream.go does.                        *)
(*                                                                         *)
(* Fragments are numbered in the order in which the server publishes them; *)
(* the number of a fragment is also its time, in every playlist of the     *)
(* stream.  names gives the rank of its file name in the order of strings, *)
(* which need not be that order, nor the same in another playlist.         *)
(***************************************************************************)
EXTENDS Integers, Sequences

CONSTANTS
    MaxFragment,    \* bound on the fragments
    WindowMax,      \* the fragments a manifest lists at most
    Servers,        \* what a playlist may be like, see below
    UrlsMax,        \* the capacity of urlsChan, 10 in the code
    PacketLossMax,  \* packetLossMax
    Rounds,         \* bound on the Reads that follow each other
    OlderMax,       \* bound on the manifests of another cache or cut off
    MayStall        \* may a goroutine be stopped for over a second?

Fragments == 1 .. MaxFragment

\* names: the rank of the name of each fragment; untimed: the fragments whose
\* URL has no valid time; caches: a manifest may be older than the one before
\* it; last: the last fragment of the stream.
ASSUME ConstantsAssumption ==
    /\ MaxFragment \in Nat /\ WindowMax \in Nat \ {0}
    /\ Servers \subseteq [names : [Fragments -> Nat \ {0}], untimed : SUBSET Fragments,
                           caches : BOOLEAN, last : Fragments]
    /\ MayStall \in BOOLEAN
    /\ UrlsMax \in Nat \ {0} /\ PacketLossMax \in Nat /\ Rounds \in Nat \ {0}
    /\ OlderMax \in Nat

VARIABLES
    server,       \* the server, as the playlist shows it
    live,         \* the last fragment the server published
    round,        \* the number of the current Read
    ctxDone,      \* the context given to Read is cancelled
    ownCancel,    \* Read called cancel()
    fq,           \* where fillQueue and its goroutine are
    fqErr,        \* the error fillQueue returned
    fqErrors,     \* errorCount of fillQueue
    window,       \* the fragments of the manifest, until the next poll
    todo,         \* the fragments of it still to be queued
    last,         \* lastFragmentName (the fragment, and the rank its name
                  \* had), lastFragmentTime, useTimeBasedSorting
    late,         \* 30 seconds went by since lastFragmentReceivedTimestamp
    urls,         \* urlsChan
    cpChan,       \* checkpointChan
    read,         \* where Read is
    url,          \* the fragment Read downloads, 0 if none
    lost,         \* errorCount of Read
    ret,          \* what Read returned: the checkpoint and the error
    written,      \* the fragments written, over all the Reads
    queued,       \* history: the fragments sent on urlsChan
    stalled,      \* history: a Read returned without its checkpoint
    restart,      \* history: how many fragments were written when the recording
                  \* last started over, without a checkpoint or with other names
    older,        \* history: the manifests with fragments, but not up to the last
    behind,       \* a goroutine of an earlier Read has not sent its checkpoint
    panicked      \* a goroutine sent on a closed channel: the process is dead

serverVars == <<server, live>>
callVars   == <<round, ctxDone, ownCancel>>
fqVars     == <<fq, fqErr, fqErrors, window, todo, last, late>>
chanVars   == <<urls, cpChan>>
readVars   == <<read, url, lost, ret, written>>
history    == <<queued, stalled, restart, older>>
vars == <<serverVars, callVars, fqVars, chanVars, readVars, history, behind, panicked>>

\* A fragment 0 is no fragment: the empty name, or the zero time.
DefaultCheckpoint == [name |-> 0, rank |-> 0, time |-> 0, useTime |-> TRUE]

\* The context fillQueue and download run under.
ReadCtxDone == ctxDone \/ ownCancel

Init ==
    /\ server \in Servers
    /\ live = 0
    /\ round = 1
    /\ ctxDone = FALSE
    /\ ownCancel = FALSE
    /\ fq = "fetch"
    /\ fqErr = "none"
    /\ fqErrors = 0
    /\ window = << >>
    /\ todo = << >>
    /\ last = DefaultCheckpoint
    /\ late = FALSE
    /\ urls = << >>
    /\ cpChan = << >>
    /\ read = "select"
    /\ url = 0
    /\ lost = 0
    /\ ret = [cp |-> DefaultCheckpoint, err |-> "none"]
    /\ written = << >>
    /\ queued = {}
    /\ stalled = FALSE
    /\ restart = 0
    /\ older = 0
    /\ behind = FALSE
    /\ panicked = FALSE

-----------------------------------------------------------------------------
(* The server, the clock and the caller.                                   *)

Publish ==
    /\ live < server.last
    /\ live' = live + 1
    /\ UNCHANGED <<server, callVars, fqVars, chanVars, readVars, history, behind, panicked>>

\* A poll, a pause or a send that waits for room takes the time; a send that
\* finds room takes none.
ThirtySeconds ==
    /\ ~late
    /\ fq \in {"fetch", "sleep"} \/ (fq = "push" /\ Len(urls) = UrlsMax)
    /\ late' = TRUE
    /\ UNCHANGED <<serverVars, callVars, fq, fqErr, fqErrors, window, todo, last,
                   chanVars, readVars, history, behind, panicked>>

CallerCancel ==
    /\ ~ctxDone
    /\ ctxDone' = TRUE
    /\ UNCHANGED <<serverVars, round, ownCancel, fqVars, chanVars, readVars,
                   history, behind, panicked>>

\* The next Read, on another playlist of the same stream, with what the one
\* before returned.  The goroutine of that one may still be before its send.
Resume ==
    /\ read = "done"
    /\ ctxDone
    /\ round < Rounds
    /\ \E s \in Servers :
         /\ s.caches = server.caches /\ s.last = server.last
         /\ server' = s
         /\ restart' = IF ret.cp.name = 0 \/ s.names # server.names
                       THEN Len(written) ELSE restart
    /\ behind' = (behind \/ fq # "done")
    /\ round' = round + 1
    /\ ctxDone' = FALSE
    /\ ownCancel' = FALSE
    /\ fq' = "fetch"
    /\ fqErr' = "none"
    /\ fqErrors' = 0
    /\ window' = << >>
    /\ todo' = << >>
    /\ last' = ret.cp
    /\ late' = FALSE
    /\ urls' = << >>
    /\ cpChan' = << >>
    /\ read' = "select"
    /\ url' = 0
    /\ lost' = 0
    /\ ret' = [cp |-> DefaultCheckpoint, err |-> "none"]
    /\ UNCHANGED <<live, written, queued, stalled, older, panicked>>

-----------------------------------------------------------------------------
(* fillQueue.                                                              *)

\* Its variables are gone, but for the checkpoint.
FillQueueReturns(e) == /\ fq' = "exit"
                       /\ fqErr' = e
                       /\ fqErrors' = 0
                       /\ late' = FALSE
                       /\ window' = << >>
                       /\ todo' = << >>

\* Slip: the count of the tolerated errors is not compared.
ToleratedForEver ==
    /\ fq = "fetch"
    /\ ~ReadCtxDone
    /\ fqErrors <= PacketLossMax
    /\ fqErrors' = fqErrors + 1
    /\ UNCHANGED <<serverVars, callVars, fq, fqErr, window, todo, last, late,
                   chanVars, readVars, history, behind, panicked>>

\* GetFragmentURLs failed with an error that is tolerated a few times: a
\* deadline, or a connection that was reset.
FetchTolerated ==
    /\ fq = "fetch"
    /\ ~ReadCtxDone
    /\ \/ /\ fqErrors < PacketLossMax
          /\ fqErrors' = fqErrors + 1
          /\ UNCHANGED <<fq, fqErr, window, todo, late>>
       \/ /\ fqErrors = PacketLossMax
          /\ FillQueueReturns("Failure")
    /\ UNCHANGED <<serverVars, callVars, last, chanVars, readVars, history, behind,
                   panicked>>

\* Any other error: ErrHLSForbidden, an http error, a connection closed by
\* the server, which is an io.EOF, the end of the context.
FetchFailed ==
    /\ fq = "fetch"
    /\ \E e \in IF ReadCtxDone THEN {"Canceled"} ELSE {"Failure", "EOF"} :
          FillQueueReturns(e)
    /\ UNCHANGED <<serverVars, callVars, last, chanVars, readVars, history, behind,
                   panicked>>

\* The manifests GetFragmentURLs may return: the last WindowMax fragments, or
\* the first of them if the body is cut off, since the error of the scanner is
\* not looked at; none with a 404; and with several caches an older window.
Span(lo, hi) == [i \in 1 .. hi - lo + 1 |-> lo + i - 1]

Oldest == IF live > WindowMax THEN live - WindowMax + 1 ELSE 1

LastFragments == Span(Oldest, live)

StaleManifests == {Span(lo, hi) : lo \in Fragments, hi \in 1 .. live}

Manifests == {Span(Oldest, hi) : hi \in 0 .. live} \cup
             {m \in StaleManifests : server.caches /\ Len(m) <= WindowMax}

\* The state of the sorting mode when fragment i of the manifest is compared:
\* an invalid time met so far switches to the order of names.
TimeUsedAt(m, i, l) == l.useTime /\ \A j \in 1 .. i : m[j] \notin server.untimed

\* Slip: the names alone are compared.
QueuedByName(m, i, l) == l.rank >= server.names[m[i]]

AlreadyQueued(m, i, l) ==
    /\ l.rank >= server.names[m[i]]
    /\ TimeUsedAt(m, i, l) => l.time >= m[i]

\* Slip: the fragment of the checkpoint itself is taken for a new one.
NewFragmentsInclusive(m, l) ==
    IF l.name = 0 \/ (l.useTime /\ l.time = 0) THEN m
    ELSE LET old == {i \in DOMAIN m : AlreadyQueued(m, i, l)}
         IN  IF old = {} THEN m
             ELSE SubSeq(m, CHOOSE i \in old : \A j \in old : j <= i, Len(m))

\* urls[newIdx:]
NewFragments(m, l) ==
    IF l.name = 0 \/ (l.useTime /\ l.time = 0) THEN m
    ELSE LET old == {i \in DOMAIN m : AlreadyQueued(m, i, l)}
         IN  IF old = {} THEN m
             ELSE SubSeq(m, 1 + CHOOSE i \in old : \A j \in old : j <= i, Len(m))

\* The search is made with a checkpoint only, and may leave the time order.
SearchUsesTime(m, l) ==
    IF l.name = 0 \/ (l.useTime /\ l.time = 0) THEN l.useTime
    ELSE TimeUsedAt(m, Len(m), l)

FetchManifest ==
    /\ fq = "fetch"
    /\ ~ReadCtxDone
    /\ \E m \in Manifests :
         /\ window' = m
         /\ todo' = NewFragments(m, last)
         /\ last' = [last EXCEPT !.useTime = SearchUsesTime(m, last)]
         /\ late' = (late /\ NewFragments(m, last) = << >>)
         /\ older' = older + (IF m \in {<< >>, LastFragments} THEN 0 ELSE 1)
         /\ older' <= OlderMax
    /\ fq' = "push"
    /\ UNCHANGED <<serverVars, callVars, fqErr, fqErrors, chanVars, readVars,
                   queued, stalled, restart, behind, panicked>>

\* The checkpoint moves to a fragment before the fragment is queued; here it
\* does when the send succeeds, and nothing reads it in between.
Advance(l, f) ==
    IF l.useTime /\ f \notin server.untimed
    THEN [l EXCEPT !.name = f, !.rank = server.names[f], !.time = f]
    ELSE [l EXCEPT !.name = f, !.rank = server.names[f], !.useTime = FALSE]

\* urlChan <- u: it waits for room, and for nothing else.
QueueFragment ==
    /\ fq = "push"
    /\ todo # << >>
    /\ Len(urls) < UrlsMax
    /\ urls' = Append(urls, Head(todo))
    /\ queued' = queued \cup {Head(todo)}
    /\ last' = Advance(last, Head(todo))
    /\ todo' = Tail(todo)
    /\ UNCHANGED <<serverVars, callVars, fq, fqErr, fqErrors, window, late,
                   cpChan, readVars, stalled, restart, older, behind,
                   panicked>>

\* No fragment for 30 seconds is the end of the stream.
EndOfStream ==
    /\ fq = "push"
    /\ todo = << >>
    /\ late
    /\ FillQueueReturns("EOF")
    /\ UNCHANGED <<serverVars, callVars, last, chanVars, readVars, history, behind,
                   panicked>>

Pause ==
    /\ fq = "push"
    /\ todo = << >>
    /\ ~late
    /\ fq' = "sleep"
    /\ UNCHANGED <<serverVars, callVars, fqErr, fqErrors, window, todo, last,
                   late, chanVars, readVars, history, behind, panicked>>

PauseEnds ==
    /\ fq = "sleep"
    /\ fq' = "fetch"
    /\ window' = << >>
    /\ UNCHANGED <<serverVars, callVars, fqErr, fqErrors, todo, last,
                   late, chanVars, readVars, history, behind, panicked>>

\* The goroutine sends the checkpoint, which Read may not wait for any more.
SendCheckpoint ==
    /\ fq = "checkpoint"
    /\ fq' = "done"
    /\ IF read = "done"
       THEN panicked' = TRUE /\ UNCHANGED cpChan
       ELSE cpChan' = <<last>> /\ UNCHANGED panicked
    /\ UNCHANGED <<serverVars, callVars, fqErr, fqErrors, window, todo, last,
                   late, urls, readVars, history, behind>>

\* The goroutine of an earlier Read gets to its send: that Read has closed the
\* channel when it returned.
LateCheckpoint ==
    /\ behind
    /\ panicked' = TRUE
    /\ UNCHANGED <<serverVars, callVars, fqVars, chanVars, readVars, history, behind>>

-----------------------------------------------------------------------------
(* Read.                                                                   *)

TakeUrl ==
    /\ read = "select"
    /\ urls # << >>
    /\ url' = Head(urls)
    /\ urls' = Tail(urls)
    /\ read' = "download"
    /\ UNCHANGED <<serverVars, callVars, fqVars, cpChan, lost, ret, written,
                   queued, stalled, restart, older, behind, panicked>>

Downloaded ==
    /\ read = "download"
    /\ ~ReadCtxDone
    /\ written' = Append(written, url)
    /\ read' = "select"
    /\ url' = 0
    /\ UNCHANGED <<serverVars, callVars, fqVars, chanVars, lost, ret,
                   history, behind, panicked>>

DownloadCanceled ==
    /\ read = "download"
    /\ ReadCtxDone
    /\ read' = "select"
    /\ url' = 0
    /\ UNCHANGED <<serverVars, callVars, fqVars, chanVars, lost, ret,
                   written, history, behind, panicked>>

\* 403 on a fragment: cancel, and go on until fillQueue returns.
DownloadForbidden ==
    /\ read = "download"
    /\ ~ReadCtxDone
    /\ ownCancel' = TRUE
    /\ read' = "select"
    /\ url' = 0
    /\ UNCHANGED <<serverVars, round, ctxDone, fqVars, chanVars, lost, ret,
                   written, history, behind, panicked>>

\* Slip: a download that is given up leaves the loop at once, and fillQueue
\* behind.
LostLeavesLoop ==
    /\ read = "download"
    /\ ~ReadCtxDone
    /\ lost' = lost + 1
    /\ ownCancel' = (lost + 1 > PacketLossMax)
    /\ read' = IF lost + 1 > PacketLossMax THEN "done" ELSE "select"
    /\ url' = 0
    /\ UNCHANGED <<serverVars, round, ctxDone, fqVars, chanVars, ret,
                   written, history, behind, panicked>>

\* Another failure: a few are tolerated, one more cancels.
DownloadLost ==
    /\ read = "download"
    /\ ~ReadCtxDone
    /\ lost' = lost + 1
    /\ ownCancel' = (lost + 1 > PacketLossMax)
    /\ read' = "select"
    /\ url' = 0
    /\ UNCHANGED <<serverVars, round, ctxDone, fqVars, chanVars, ret,
                   written, history, behind, panicked>>

\* Slip: Read returns with the error, without waiting for the checkpoint.
ErrorWithoutCheckpoint ==
    /\ read = "select"
    /\ fq = "exit"
    /\ fq' = "checkpoint"
    /\ read' = "done"
    /\ UNCHANGED <<serverVars, callVars, fqErr, fqErrors, window, todo, last,
                   late, chanVars, url, lost, ret, written, history, behind, panicked>>

\* errChan is unbuffered: the goroutine and Read meet.
TakeError ==
    /\ read = "select"
    /\ fq = "exit"
    /\ fq' = "checkpoint"
    /\ read' = "checkpoint"
    /\ UNCHANGED <<serverVars, callVars, fqErr, fqErrors, window, todo, last,
                   late, chanVars, url, lost, ret, written, history, behind, panicked>>

\* Read returns; the deferred calls close its channels and cancel.
Returns(cp) == /\ ret' = [cp |-> cp, err |-> fqErr]
               /\ read' = "done"
               /\ ownCancel' = TRUE
               /\ cpChan' = << >>
               /\ lost' = 0
               /\ UNCHANGED <<serverVars, round, ctxDone, fqVars, urls, url, written,
                              queued, restart, older, behind, panicked>>

TakeCheckpoint ==
    /\ read = "checkpoint"
    /\ cpChan # << >>
    /\ Returns(Head(cpChan))
    /\ UNCHANGED stalled

\* One second went by.  The select takes the timer also when the checkpoint has
\* come as well: it is then lost.
NoCheckpoint ==
    /\ MayStall
    /\ read = "checkpoint"
    /\ Returns(DefaultCheckpoint)
    /\ stalled' = TRUE

-----------------------------------------------------------------------------
Terminated ==
    /\ panicked \/ (read = "done" /\ fq = "done")
    /\ UNCHANGED vars

\* A panic in a goroutine ends the process.
Around == /\ ~panicked
          /\ Publish \/ ThirtySeconds \/ CallerCancel \/ Resume

FillQueue == /\ ~panicked
             /\ \/ FetchTolerated \/ FetchFailed \/ FetchManifest \/ QueueFragment
                \/ EndOfStream \/ Pause \/ PauseEnds \/ SendCheckpoint

Earlier == ~panicked /\ LateCheckpoint

Read == /\ ~panicked
        /\ \/ TakeUrl \/ Downloaded \/ DownloadCanceled \/ DownloadForbidden
           \/ DownloadLost \/ TakeError \/ TakeCheckpoint \/ NoCheckpoint

Next == Around \/ FillQueue \/ Earlier \/ Read \/ Terminated

(***************************************************************************)
(* Fairness: the goroutines go on, requests end, a timer fires.  The       *)
(* server, the clock and the caller are free.                              *)
(***************************************************************************)
Spec     == Init /\ [][Next]_vars
FairSpec == Spec /\ WF_vars(FillQueue) /\ WF_vars(Earlier) /\ WF_vars(Read)

-----------------------------------------------------------------------------
(* Properties.                                                             *)

Checkpoints == [name : 0 .. MaxFragment, rank : Nat, time : 0 .. MaxFragment,
                useTime : BOOLEAN]

\* The type of the state.
TypeOK ==
    /\ server \in Servers
    /\ live \in 0 .. server.last
    /\ round \in 1 .. Rounds
    /\ ctxDone \in BOOLEAN /\ ownCancel \in BOOLEAN
    /\ fq \in {"fetch", "push", "sleep", "exit", "checkpoint", "done"}
    /\ fqErr \in {"none", "EOF", "Canceled", "Failure"}
    /\ fqErrors \in 0 .. PacketLossMax
    /\ window \in Seq(Fragments) /\ todo \in Seq(Fragments)
    /\ last \in Checkpoints
    /\ late \in BOOLEAN
    /\ urls \in Seq(Fragments) /\ Len(urls) <= UrlsMax
    /\ cpChan \in Seq(Checkpoints)
    /\ read \in {"select", "download", "checkpoint", "done"}
    /\ url \in 0 .. MaxFragment
    /\ lost \in Nat
    /\ ret \in [cp : Checkpoints, err : {"none", "EOF", "Canceled", "Failure"}]
    /\ written \in Seq(Fragments)
    /\ queued \subseteq Fragments
    /\ stalled \in BOOLEAN /\ restart \in 0 .. Len(written) /\ older \in 0 .. OlderMax
    /\ behind \in BOOLEAN /\ panicked \in BOOLEAN

OrderedNames(s) == \A f, g \in Fragments : f <= g => s.names[f] <= s.names[g]

\* Nothing is written twice or after a later one, over the polls and over the
\* switches, from where the recording last started over.
NothingTwice ==
    OrderedNames(server) \/ older = 0 =>
        \A i, j \in DOMAIN written : restart < i /\ i < j => written[i] < written[j]

\* What is written again, or late, was in the window of the last fragment.
RepeatsWindow ==
    ~server.caches =>
        \A i, j \in DOMAIN written : i < j => written[i] < written[j] + WindowMax

(***************************************************************************)
(* The recording goes forward.  It starts over only when a Read returned   *)
(* without its checkpoint (the one-second timer), or when a switch goes to *)
(* a playlist with other names, and then repeats at most one window of the *)
(* manifest.  Between those points no fragment is written twice or after a *)
(* later one, if the names have the order of the fragments or if every     *)
(* manifest went up to the last one.                                       *)
(***************************************************************************)
WrittenInOrder == NothingTwice /\ RepeatsWindow

(***************************************************************************)
(* A poll leaves out no fragment of its manifest: those that were not      *)
(* queued before are queued, but for the ones older than the first.  (With *)
(* several caches, or once the times are not used, an older one may be     *)
(* missed.)                                                                *)
(***************************************************************************)
PollComplete ==
    (fq = "sleep" /\ ~server.caches /\ last.useTime) =>
        \A i \in DOMAIN window :
            \/ window[i] \in queued
            \/ \A f \in queued : window[i] < f

(***************************************************************************)
(* A cancelled Read returns, although fillQueue may be blocked on a full   *)
(* urlsChan, and its goroutine ends too; unless a send on a closed channel *)
(* ends the process.                                                       *)
(***************************************************************************)
ReadReturns == ReadCtxDone ~> (panicked \/ (read = "done" /\ fq = "done"))

(***************************************************************************)
(* Read does not close its channels while fillQueue can send a fragment or *)
(* its error, stalled or not.  The checkpoint is the only send that can    *)
(* meet a closed channel or outlive Read, and only after a Read returned   *)
(* without it.                                                             *)
(***************************************************************************)
NoSendOnClosed ==
    /\ fq \in {"fetch", "push", "sleep", "exit"} => read \in {"select", "download"}
    /\ panicked \/ behind \/ (read = "done" /\ fq # "done") => stalled

-----------------------------------------------------------------------------
(* What the repository says and the code does not do.                      *)

(***************************************************************************)
(* The checkpoint handed over to the next Read is a fragment the previous  *)
(* one took out of urlsChan: the recording resumes where it stopped.       *)
(***************************************************************************)
CheckpointReached ==
    (read = "done" /\ ret.cp.name # 0) =>
        \A i \in DOMAIN urls : urls[i] # ret.cp.name
=============================================================================
