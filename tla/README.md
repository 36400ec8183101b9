# fc2-live-dl-go: a TLA+ model of the live stream downloader

This directory is a verification project for `fc2-live-dl-go`, a program that
waits for FC2 live streams, records them with their chat, and concatenates and
remuxes the recordings.  It holds TLA+ modules translated from the Go sources
under `src/`, TLC configurations that check them on small instances, and proofs
that TLAPS checks for every value of the constants.  Paths such as
`fc2/fc2_livestream.go:345` are relative to `src/`.  `PROJECT.json` maps every
definition to the lines it models.

## 1. The system

One process watches a list of channels.  Every arrow is a goroutine start, a
channel or a call.

    Command (cmd/watch)                               Command (cmd/download)
      |- ObserveConfig -> Debounce                        |
      |       | configChan                                |
      |- ConfigReloader                                   |
      |       | one handleConfig at a time, doneChan      |
      |       |- LoginLoop (cookies)                      |
      |       |- CleanPeriodically                        |
      |       '- per channel: FC2.Watch <-----------------'
      |                 |- IsOnline / WaitForOnline (GetMetaWithRetry)
      |                 |- LiveStream.DownloadLiveStream      the session
      |                 |     |- WebSocket.Listen -> msgChan, commentChan
      |                 |     |- HeartbeatLoop      (msgChan)
      |                 |     |- downloadStream <- playlistChan <- fetchPlaylist
      |                 |     |     '- hls.Downloader.Read, one per playlist
      |                 |     '- DownloadChat <- commentChan
      |                 '- remux, concat, extract audio, cleanup
      '- HTTP: state.DefaultState, /metrics

### Inventory

| Component | State | Operations | What is hard | What makes it correct |
|---|---|---|---|---|
| Session, `fc2/fc2_livestream.go`, `utils/errors.go` | errgroup context, `errs`, `playlistChan`, `downloading`, current download thread with its `doneChan`, `checkpoint` under a mutex, `errChan` | `DownloadLiveStream`, `downloadStream`, `fetchPlaylist` | four workers and seven goroutines end in any order; a channel closed by a third party; a wait with a limit of 30 s; errors with a meaning that depends on their order | the session ends; the outcome tells the truth; one thread writes; no write after the close |
| Chat, `fc2/fc2_chat_downloader.go` | `commentChan`, file of the chat | `DownloadChat`, `removeDuplicatesComment` | channel closed while full; filter goroutine left behind | no comment is lost at an orderly end |
| Websocket protocol, `fc2/api/api_websocket.go` | `msgID`, `msgChan`, one filter per pending call | `Dial`, `Listen`, `HeartbeatLoop`, `sendMessageAndWaitResponse`, `GetHLSInformation` | concurrent calls share an id; filters steal messages; late, lost or reordered replies; time limits | no late reply answers a later request; calls and filters end |
| HLS reader, `hls/hls_downloader.go` | checkpoint, `urlsChan` (10), `errChan`, `checkpointChan`, two error counts | `Read`, `fillQueue`, `GetFragmentURLs`, `download` | manifests that overlap or are older; names compared as strings; a blocked producer after a cancellation; a checkpoint handed to the next Read, or lost on the way | the recording goes forward, and repeats at most a window where it starts over; no poll leaves one out; Read returns |
| Reloader, `cmd/watch/watch_config.go` | `configContext`, `configCancel`, `doneChan`; `lastModTime`, the file watcher | `ConfigReloader`, `ObserveConfig`, `loadConfig` | variable captured by a goroutine and set to nil; 30 s limit that kills the process; changes while a send is blocked; a file replaced by a rename | one handler at a time, under its own context; graceful shutdown; the last version is handled |
| Debounce, `utils/channel/debounce.go` | timer, last value | `Debounce` | timer against new events; no event read while it sends | no change is lost |
| Watch, `fc2/fc2.go`, `cmd/watch/watch_command.go`, `state/state.go` | stage, tries and backoff of each channel, `DefaultState` | `Watch`, `WaitForOnline`, `IsOnline`, `Process`, `handleConfig`, `SetChannelState` | sleeps that ignore the context; a panic when a Watch returns; errors between the stages | states and announcements follow the life of a recording; a cancelled channel stops; one channel does not end the others |
| Files of a recording, `fc2/fc2.go`, `fc2/fc2_file_preparer.go`, `video/` | `name.ts`, `name.n.ts`, `name.mp4`, `name.combined.mp4` | `PrepareFileAutoRename`, `PrepareFile`, probe, remux, `concat.WithPrefix`, `concat.Do`, deletions | errors that are swallowed, by Process and by concat.c; kills; names used again; the order of numbered parts | what was recorded is not lost; concatenations are in order and complete |
| Cleaner, `fc2/cleaner` | the two queues of a scan | `Scan`, `Clean`, `CleanPeriodically` | deletions before a conflict is found; age of one file for all | no part is deleted that no other file has; it ends its work |
| Cookies, `cookie/`, `crypto/`, `cmd/watch/watch_command.go` | the jar, one encrypted file | `load`, `Exists`, `Save`, `Delete`, `ParseFromFile`, `LoginLoop`, `CheckLogin` | truncation before the write; kills and failed writes; loops that nobody waits for | the file can be loaded again, and holds the cookies of the last login |
| Retry, `utils/try/try.go` | tries left, delay | `DoWithResult`, `DoExponentialBackoffWithResult`, `GenerateDelays` | sleeps after the last try too | bounded counts |
| Download, `cmd/download` | loop and tries | `Command` | as Watch, for one channel | not modelled |
| FIFOs, `video/concat/remux_intermediate_unix.go` | one FIFO and one goroutine per input | `remuxMixedTS` | a writer that fails leaves the reader blocked | not modelled |
| Playlist choice, `fc2/api` (quality, latency, playlist) | none | sort and search | ties, missing modes | not modelled |
| API client, `fc2/api/api_client.go` | cookies of the HTTP client | `GetMeta`, `GetWebSocketURL`, `CheckLogin` | which errors are retried | its answers, in `Watch` and `CookieJar` |
| Notifications, telemetry, parameters | none that the others read | formatting, HTTP | none | the notifications of a channel, in `Watch` |

### How the parts interact

* The caller's context is the root of every context below it.  A worker of the
  session that returns cancels the context of the group (errgroup), and
  downloadStream cancels the context of one download thread at a time.
* `playlistChan` is unbuffered: the fetching loop and downloadStream meet.  It
  is closed by a third goroutine when the context is done.
* `doneChan` (unbuffered close or send) is the only thing that orders a download
  thread, or a `handleConfig`, before its successor.
* `errChan` of downloadStream is shared by successive threads, and a report
  carries no identity in the code.  The model adds the thread's number.
* `msgChan` and `commentChan` are fed by Listen and closed by it.  `msgChan` is
  read by all the filters, and both are flushed by a ticker of the session.
* hls.Read gives its checkpoint back; downloadStream hands it to the next Read.
  If the goroutine of fillQueue does not send it within a second, or the timer is
  picked, that is the default one, and the next Read starts with the whole manifest.
* `configChan` is unbuffered: ObserveConfig and ConfigReloader meet.  Debounce is
  a goroutine between the file watcher and ObserveConfig, and does not read
  events while ObserveConfig is not at its select.
* Sessions with the same name, and the cleaner, meet in the files of one
  directory only; nothing else orders them.
* A `LoginLoop` shares nothing with its successor but the file of the cookies.

## 2. Modules and code

| Module | Models | Depends on |
|---|---|---|
| `Session` | the abstract promise of a session: recorders one after the other, an outcome among the reports | - |
| `LiveStream` | DownloadLiveStream, downloadStream, the fetching loop, the chat; instance of `Session` at its end | `Session` |
| `WsRpc` | sendMessageAndWaitResponse, filterMessageByID, HeartbeatLoop, GetHLSInformation, Listen, the flush of msgChan | - |
| `HlsReader`, `MCHlsReader` | fillQueue, Read and the checkpoint between Reads | - |
| `ConfigReloader` | ConfigReloader with its handlers | - |
| `ConfigObserver` | the file, its watcher, Debounce and ObserveConfig, composed with ConfigReloader | `ConfigReloader` |
| `ChannelLife` | the abstract promise about what is shown and announced of a channel | - |
| `Watch`, `MCWatch` | handleConfig, Watch, IsOnline, WaitForOnline and the stages of Process | `ChannelLife` |
| `Recordings`, `MCRecordings` | the files of Process, concat and the cleaner, with kills | - |
| `CookieJar` | the file of the cookies, handleConfig and LoginLoop, with kills | - |
| `LiveStreamProofs`, `SessionProofs` | theorems about a session, alone and as an instance of `Session` | `LiveStream`, `Session` |
| `ConfigReloaderProofs` | theorems about the reloader, alone and with its observer | `ConfigReloader`, `ConfigObserver` |
| `WsRpcProofs`, `HlsReaderProofs`, `WatchProofs`, `RecordingsProofs`, `CookieJarProofs` | theorems | the modules they prove about |

Definitions marked "Slip" in a comment are not part of a specification: they
are plausible mistakes in the code, used to see that a property notices them
(`mutants` in `PROJECT.json`).

### LiveStream

* `pc` has one location per goroutine (see the comment at the top of the module);
  `"append"` and `"return"` are the two points every worker passes through: the
  call of `appendErr`, and the return to the errgroup.  They are two steps
  because another worker may come in between, and Listen appends only what is
  not the end of the stream.
* `gErr` is the first error the errgroup got; `CtxDone` is "the context of the
  group is done".  `errs` is the list, in the order of the calls.
* `thread[i]` is the i-th download thread: `"start"` before the mutex, `"run"`
  in hls.Read, `"report"` between the send on `errChan` and `close(doneChan)`,
  `"hung"` in a write or request that does not return.  The fetching loop sends
  at most a best and a final playlist, so `Threads` is `{1, 2}`.
* `DlReceive` is the meeting on `playlistChan`.  `DlProbe*` is the loop that waits
  for the new playlist to be alive; `DlSwap` and `DlDrained` are the two waits
  on `doneChan`, `DlDoneTimeout` the `log.Fatal` of both after 30 seconds.
* `SendOnClosed` is the Go rule: a send on a closed channel panics, also when
  the sender was already blocked.
* The errors are the classes the code compares: `"EOF"` (also
  ErrWebSocketStreamEnded), `"Canceled"`, `"NoResponse"`, `"Login"`, `"Failure"`.
* `comments` is the length of `commentChan`.  Comments are not told apart;
  whether a received comment is a repeated one is a free choice.

### WsRpc

A call is numbered when it reads `msgID`.  A message in `msgChan` is the number
of the call that the server answers, its id is `id[that call]`: so two calls with
one id are possible, which is the point.  `HbOver` and `HlsOver` contain the
deferred calls of sendMessageAndWaitResponse, so that the bump of `msgID` and
what the caller does with the result are one step.  `HlsOver` tries again as
DoWithResult does: a missing response or a failed write while tries are left, but
not a deadline nor a cancellation.  The server answers in any order, late, or never.

### HlsReader

Fragments are numbered in the order of publication, and the number is also the
time, in every playlist of the stream.  A `server` is the stream as one playlist
shows it: `names` gives the rank of each file name as a string, which may be another
order; `untimed` holds the fragments whose URL has no valid time: meeting one
switches the comparison to names for good, as `useTimeBasedSorting` does; with
`caches`, a manifest may be older than the one before.  `Manifests` has those, and
also every manifest that is cut off after some of its fragments, since
GetFragmentURLs does not look at the error of its scanner.  The search for
the first new fragment (`NewFragments`) is the loop of the code: the last
fragment that compares as old wins, and what follows it is new.

`Resume` is the hand-over that downloadStream makes.  The next Read starts as soon
as the one before has returned, on any playlist of the same stream, with its
names, and from the checkpoint that was returned.  `NoCheckpoint` returns the
default one; it is possible whether or not the checkpoint has come, since a
`select` with two ready cases picks either.  The goroutine that has not sent its
checkpoint is then left behind (`behind`), and its send is on a closed channel
(`LateCheckpoint`).  `queued`, `stalled` and `restart` are history variables that no
action reads; `older` bounds the manifests that are older or cut off.

### ConfigReloader

The goroutine of a handler is spawned and reads the variable `configContext` in
a later step (`HandlerStart`), because the Go closure captures the variable.  A
handler that reads it after a shutdown has a nil context: it goes on as long as it
calls no method of it, or panics (`HandlerPanics`), which ends the process.  Which
of the two depends on the configuration, so that both are possible.
`Offer` is ObserveConfig blocked on the unbuffered `configChan`, `Withdraw` its
end with the context.

### ConfigObserver

A version of the file stands for its content and its modification time, so that
the comparison of times is that of versions; two writes within the resolution
of the clock are not told apart by the code either.  `Load` reads the file as it is
then, which may be later than the stat before it.  `reported` is the last version
that was there when the watcher was added or reported something: what the code
can be expected to handle.  `Receive` joins the send of the observer and the
receive of the reloader, and records in `configOf` what the handler is given.

### Watch and ChannelLife

`pc[c]` is where the goroutine of channel `c` is.  `"online"` and `"wait"` are the
calls of IsOnline by Watch and by WaitForOnline; `"onlineSleep"`, `"waitSleep"`,
`"pollSleep"` and `"backoff"` are the four sleeps.  An answer of the server is an
action: `Publishes`, `Offline` (also most of the errors of GetMeta, which count as
offline), `CheckFails` (a rate limit, or an error of GetWebSocketURL, which are
tried again).  The state and the notification that come with each stage are part
of its action.  `Notified` holds the notifications that are enabled and can be
formatted; whether the service delivers them is not modelled.  A
stage of Process is one action, from the notification that opens it to the next
one.  `Restart` is ConfigReloader with the next configuration: `state` survives,
since DefaultState is a global variable.

`ChannelLife` is the promise: a recording goes through its stages in order and
ends with exactly one announcement; a life has no retry, sleep or cancellation.
`Watch` implements it under `recording <- pc[c] \in Recording`.

### Recordings

All the recordings that share a name, with the parameters of the channel chosen
at the start.  `ts[n]` is `name.n.ts`; a file is the sequence of the parts it holds,
and whether it can be read.  The name of a session is chosen in one step and the
file is created in another.  `ConcatEnds` has every outcome of concat.c: all the
inputs, any of them left out with an error that is forgotten, or an output
without trailer, which cannot be read.  A remux runs the same C code on one input:
`RemuxEnds` fails, or succeeds with a file that can be read or not.  `Kill` may come
between any two steps.  `Source`, `Before` and `Sorted` are `filterFiles`: which file
stands for a number (an empty one for none), and the order.  `Scan` deletes a
concatenation that cannot be read, or leaves it alone, which depends on the error
of the probe.  `short` and `deleted` are histories: which parts `name.mp4` or the
concatenation lost without anybody being told, and which lost their `.ts` because
it was not needed any more.  `StringRank` is the order of the numbers as strings.  Extraction of audio
is the same code on other names and is left out.

One assumption is made of the environment: the names have the date, as the
default format does, so that no session starts, or is under way, once the
concatenation of its name is older than `eligibleForCleaningAge` (48 hours by
default).  The cleaner looks only at the age of the concatenation
(`fc2/cleaner/cleaner.go:152`), so that without the assumption it deletes what is
being recorded.

### CookieJar

A handler is one `handleConfig`, from NewJar to its LoginLoop.  `file` is absent,
empty (truncated), whole, or garbage (two writes of different lengths at the
start of one file).  `opened` holds the handlers that have the file of that name
open: a removal takes the name from them.  A Save may fail when it opens the file
(`SaveOpenFails`), and the file stays as it was, or when it writes (`SaveWriteFails`),
after it has truncated it; both are logged, and the handler goes on.  `Start` is a reload, or the start of a
process; `Exit`, `Kill` and `LoadFails` (`log.Fatal`) end every goroutine.  The
model is for a configuration with a cookies file, an import file and a refresh
duration.

## 3. The runs

`pass` runs finish without error; `violation` runs check one statement that a
comment or the README of the repository makes and the code does not keep (section 6).

| Run | Question | Properties |
|---|---|---|
| `LiveStream_upgrade` | A session with quality upgrade and no chat | `TypeOK`, `OneDownloader`, `FailureNotSwallowed`, `FinishedHonest`, `DrainedAtEnd`, `SessionEnds`, `PlaylistHandedOver`, `NoLeak`, `SessionPromise` (refinement of `Session`) |
| `LiveStream_chat` | A session with chat and no upgrade | `NoWriteAfterClose`, `ChatComplete` |
| `WsRpc_calls` | Concurrent requests, late replies, timeouts, a full channel | `TypeOK`, `NoStaleReply`, `CallsEnd` |
| `HlsReader_reads` | Stale and short manifests, names out of order, losses, cancellation, stalls, hand-over to another playlist | `TypeOK`, `WrittenInOrder`, `PollComplete`, `NoSendOnClosed`, `ReadReturns` |
| `ConfigReloader_reload` | From a write of the file to the handler: reloads, shutdowns, handlers that hang | `TypeOK`, `OneHandler`, `NoForeignContext`, `GracefulReturn`, `FatalExplained`, `ReloadEnds`, `LastConfigHandled` |
| `Watch_channels` | Two channels, two configurations, every answer and outcome | `TypeOK`, `PanicExplained`, `OneLateSleep`, `LifeCycle` (refinement of `ChannelLife`), `WatchStops` |
| `Recordings_kept` | Sessions, failures, kills and the cleaner on one name | `TypeOK`, `NotLost`, `CombinedInOrder`, `CombinedComplete`, `CleanEnds` |
| `CookieJar_file` | Configurations, their loops, exits, a kill and a failed write on one file | `TypeOK`, `FatalExplained`, `CookiesKept`, `FileCatchesUp` |

| Run (violation) | What is said | Property |
|---|---|---|
| `LiveStream_canceled` | a session is Canceled only by its caller | `CanceledByCaller` |
| `LiveStream_panic` | the cancellation of the fetching loop is orderly | `NoPanic` |
| `LiveStream_stall` | the session stops at the first error | `StopAtFirstError` |
| `HlsReader_checkpoint` | the checkpoint resumes from the last fragment | `CheckpointReached` |

### Bounds, and why they are enough

* `LiveStream_upgrade`: no data bound at all; the only counters are the two
  playlists, which are a fact of the code.  The error sets are reduced to the
  classes that take different branches: `EOF` and `Canceled` from Read,
  `NoResponse` from the heartbeat (a valuable error), `EOF` from Listen.  The
  proofs make no such reduction.  `MayHang` is on.
* `LiveStream_chat`: `CommentBufMax = 2` (100 in the code) is the smallest
  capacity for which "one less than full" (flushed), "full" (never flushed)
  and "empty" are different lengths.  Deadlock is not checked: Listen may be
  blocked for ever on a full `commentChan` after DownloadChat has left (section
  7), so the session really may stop.
* `WsRpc_calls`: two calls is the smallest number for which an id is shared or
  a message is taken by the wrong filter; with three calls (a million states)
  TLC confirms the two safety properties too.  `MsgBufMax = 2`, as above;
  `HlsTries = 2` (5) has a first and a last try.
* `HlsReader_reads`: three fragments, windows of two, one loss, two Reads, one
  manifest that is older or cut off.  A duplicate, a swap or a gap needs two
  fragments and a boundary between polls or Reads; a fragment that leaves the
  window needs a third.  `UrlsMax = 2` (10) lets `urlsChan` fill up.  Three playlists:
  one with several caches and a fragment without a time, and two of another stream,
  with the names "8", "9", "10" and "08", "09", "10", so that a switch between them
  changes the names, and one of the names rolls over.  `MayStall` is on.
  `HlsReader_checkpoint` needs one Read, of up to four fragments.
* `ConfigReloader_reload`: four versions of the file and as many configurations:
  one before the start, one at the initial load, one while the observer is
  blocked and one after.  Version 2 does not decode.  The proofs about
  ConfigReloader cover any number.
* `Watch_channels`: two channels are needed for a panic of one during a recording
  of the other; two tries (5 in the code) and two delays (5) have a first and a last;
  two configurations have a restart.  The states and the preparing and
  post-processing notifications are all there; four notifications are enabled,
  the ones that tell of an end and one that does not.
* `Recordings_kept`: three sessions (the third follows a part that was left behind
  and one that was not), two kills, all 32 choices of the parameters.  The slots
  stand for numbers like 0, 3, 20, 100, whose order as strings is another.
  Deadlock is not checked: the sessions and the kills run out.
* `CookieJar_file`: three configurations, so that the loop of the first may meet
  the third, two cookies (an old and a new one), a kill and a Save that fails.  Deadlock is not
  checked: configurations run out, and the process may end.

## 4. Fairness

Weak fairness stands for "a goroutine that can go on does", the promise of the
Go scheduler, with time limits and tickers treated as steps of the goroutine
that waits for them.  There is none on what the environment decides: messages,
the end of the stream, the cancellation by the caller, publishing of
fragments, or hls.Read ending before its context is done.  After its context is
done, hls.Read returns (`HlsReader!ReadReturns` is why), unless it hangs.

Two actions have strong fairness, each for the same reason: a Go `select` with
several ready cases picks one at random, so a case that is ready again and again
is picked.  `FetchStop`: the ticker and the context of the fetching loop.
`FilterStop`: a filter between messages and its done channel.

In `ConfigObserver`, a handler returns once its context or the root is
cancelled, unless it hangs; `Watch!WatchStops` is why, and `MayHang`
is there because Watch has sleeps that ignore the context.  The goroutines of
the observer and of Debounce are fair, and the timer of Debounce fires; the file
is written at will.

In `Watch`, the goroutines go on, sleeps end and requests are answered (they have
time limits); a session ends on its own or not, but ends once its context is
done, which is `LiveStream!SessionEnds`.  In `Recordings`, only the cleaner is fair:
CleanPeriodically runs it every hour, after a restart of the process too; its
fairness is for a concatenation that can be read (what becomes of another is
left open).  In `HlsReader` a goroutine that was left behind goes on too.  In
`CookieJar`, `LoopEnds` has strong fairness, for the same reason as `FetchStop`, and
the Saves that fail are bounded: the file catches up once they no longer do.

## 5. Proofs

Every theorem holds for all values of the constants; the assumptions used are
`ConstantsAssumption` of each module and `ObserverAssumption` of `ConfigObserver`, which
only give the constants' types and bounds (TLC evaluates them on each run).

**LiveStreamProofs.**  None of the properties is inductive.  The inductive
invariant is `IInv == TypeOK /\ Control /\ Reports /\ OpenFile`.

* `Control` says where goroutines can be relative to one another: `ErrKept`, a
  worker past its body has an error; `ErrsKept`, the list is not empty once
  downloadStream has appended its error; `NotStarted`, nothing runs before the dial;
  `FetchOnce`, the fetching loop holds a playlist only while there is a thread
  number left for it, which keeps `cur` at most 2; `ThreadsInOrder`, all the
  threads but the current one are at their end.  The last one gives
  `OneDownloader`, and shows that the wait on `doneChan`, not the mutex, keeps
  the threads apart.
* `Reports` follows an error from the worker to the outcome: every error but
  the end of the stream is in the list once its worker has returned, the error
  of the group came from a worker, and a result fixes the list.  With the lemma
  `FirstValuable` on `FirstValuableErrorOrFirst` it gives
  `FailureNotSwallowed` and `FinishedHonest`.
* `OpenFile` says that, without upgrades, a report on `errChan` means that the
  thread is past its last write.  That is the whole argument for
  `NoWriteAfterClose`, since downloadStream does not wait in `DlError`.

`FileOpenWhileWriting` has the hypothesis `~AllowQualityUpgrade`.  It is needed:
`return ctx.Err()` at `fc2/fc2_livestream.go:345` leaves the old thread running.

**SessionProofs.**  Starts from `IInv` of LiveStreamProofs and adds what it does not
say of the ends (`EndsInv`): a process that died stopped whole (`DeadWhole`), a
session that returned has left its workers (`Ended`), and what the chat found
empty and closed stays so, because Listen is past its last push once it closed
`commentChan` (`ChatOver`, which is the argument for `ChatComplete`).
`DrainedAtEnd` follows from `ThreadsInOrder`: the thread that is drained is the
last one.  `SessionKeepsPromise` is `Spec => S!Safety`, the refinement of `Session`
without its fairness: Init maps to `S!Init`, and each step to a step of `Session` or
to a stutter, by goroutine.  What makes it more than a case analysis is the
step that returns: the outcome must be among the reports of the workers, which is
what `Reports` is about.

**ConfigReloaderProofs.**  A process ends in `log.Fatal` or by a panic (`Dead`).
`IInv` adds to the properties: handlers end in order and only the current one
may be alive (`InOrder`), `configContext` is the context of the current
configuration, or nil once there was a shutdown (`ContextOfCurrent`), and a
configuration on offer has a number (`RoomForOffer`, about the bound only).
`LastIsAlive` is the strengthening for `FatalExplained`: as long as the process is
there, the last handler launched has not been waited for, so that a wait whose
handlers are all "none", "done" or "hung" is for one that hangs, or for none.

The module also proves that `ConfigObserver` adds to the reloader and takes
nothing from it: every step of the composition is a step of ConfigReloader or
leaves it alone (`SystemStep`), so `System => Spec` (`ObserverKeepsReloader`), and each
theorem above is one about the system that `ConfigReloader_reload` checks;
`OneHandlerInSystem` is written out.  For the versions of the file, `SystemInv` adds one
condition per hand-over: what the watcher saw and ObserveConfig did not look at
has an event or a timer (`Woken`); what it looked at is loaded, unless a version in
between does not decode (`Loaded`); what is loaded is on offer, or with the last or
the next handler (`Given`).  At rest they chain to `NoVersionLost`, the safety part
of `LastConfigHandled` (`VersionIsHandled`).  The exception of both is about all the versions from the
last one seen to the one that is there (`Skipped`): if the second of two unseen
versions does not decode, the load that was meant for the first skips both.

**WatchProofs.**  `IInv` says, channel by channel, what the stage a goroutine is in
implies: a try is left while IsOnline asks (`TriesLeft`, which bounds `tries`); no
sleep is late without a cancellation, at most one is with it, and none is
behind a recording (`LateSleeps`, which is `OneLateSleep` made inductive: after the
cancellation every stage leads to `"stopped"` without passing a sleep twice); a
stopped channel was cancelled, was not to be waited for, or its session took
itself for canceled (`StoppedExplained`); and the state that is shown is the one of
the stage (`StateOfStage`).  The last one, with `ReturnedDone` for the restarts, gives
the step simulation of `Refinement`: Init maps to `Life!Init` (`InitLife`), a step of a
channel to a step of its life or to nothing (`StepLife`), one of handleConfig to
nothing (`HandlerLife`).

**WsRpcProofs.**  Two calls may have one id, since `msgID` is bumped when a call is
over: a heartbeat and a playlist request that overlap read the same number, and
each may take the reply to the other.  `NoStaleReply` is about calls of one caller,
and holds because they do not overlap (`OnePerCaller`), so that their ids grow
(`IdsBelow`, `IdsGrow`), and because what a filter keeps, and what its call then
gets, has its id (`SameId`).  `NotMade` and `OnlyMade` say that nothing is known of a
call before it is made; `Progress` is what the types of a retry need.

**HlsReaderProofs.**  `Handover` says which of the two goroutines waits for which, and
contains `NoSendOnClosed`: for a stall it does not say that nothing is sent on a
closed channel, but that the checkpoint is the only such send.  The rest of `IInv` is
about the fragments:

* `Position`, `Todo` and `Queue` say that fillQueue moves forward only, as long as the
  playlist is `Regular` (its names have the order of the fragments, or no manifest
  was older or cut off): what is still to be queued is past the checkpoint, without
  a gap, and what is written, under way and queued since `restart` increases up to
  it.  What the checkpoint is worth after a switch is `Floor`: its fragment if
  the name has the same rank in the new playlist, and nothing otherwise.
* `Recent` is the bound by a window, without caches: what was ever queued is less than
  a window ahead of what is still to be queued, written or downloaded.  A
  recording that starts over therefore repeats at most a window.
* `Listed` is about what the manifest lists and what was queued of it, for
  `PollComplete`, which needs no hypothesis on the names.

The lemmas about `NewFragments` (the last fragment that compares as old wins) are
where names and times come in.  `RecordingInOrder` is `Spec => []WrittenInOrder` without a
hypothesis on the servers: its exceptions are in the property.  They are needed: a
manifest that is older than the one before, compared by name across a
roll-over, lists as new what was written.
`OnlyLostIsMissing` bounds what is missing after the polls: until the first Read is
cancelled, a queued fragment that is neither written nor still to be is one of at
most `PacketLossMax` failed downloads, so that a cancellation (finding 4) is the only
other way to lose one.

**RecordingsProofs.**  The largest invariant, since `NotLost` gives no reason why the file
that is deleted or written over is not the last one that has a part.  `Place` is
what is known of the files at each step of Process (`Numbers`, `Step`), and that
Process and Clean do not work together (`Apart`: once `combined` is old, Process is
idle).  `Held` says in which file a part is: its `.ts`, or, once that was deleted,
another one, unless that one lost it too (`Elsewhere`).  `Covers` is what Clean relies
on, that a concatenation which can be read misses only the part of the session
under way, and those that are in `short`; `Chosen` and `Whole` carry it through a concatenation, for which
`CombinedComplete` is the last step.  `InOrder` has the names: a session takes the
first name that is free and nothing is deleted below it, so numbers are given
without a gap and in the order of the sessions (`NoGap`, `LastName`); the sort then
gives them increasing (`InputsInOrder`), and `FlattenIs` that their concatenation is.
TLC checked `IInv` on three sessions and two kills before it was proved.
Induction is out of reach, but a set of numbers has a least element
(`Least`), and a least counterexample takes its place for what `FlattenSeq`
computes (`FlatExists`, `FlatIs`, `FlatIncreases`).

**CookieJarProofs.**  Two arguments that do not meet.  As long as no configuration started before
an earlier loop had ended, only the last handler does anything (`OnlyCurrent`), so
nobody deletes or writes under a Save (`SaveHasName`), and the file is whole or
absent but for the time of a Save (`FileWhole`), or after one that failed to write
(`unwritten`): that is `FatalExplained`.  As long as
no login failed, nobody deletes the file, whatever the number of handlers, and
what a Save writes are cookies (`NoDelete`): that is `CookiesKept`.

**Only model-checked.**  Liveness under fairness and `ENABLED` are out of reach of
the prover: `SessionEnds`, `PlaylistHandedOver`, `NoLeak`, `CallsEnd`, `ReadReturns`,
`ReloadEnds`, `LastConfigHandled`, `WatchStops`, `CleanEnds` and `FileCatchesUp` stay with
TLC, and so does the part of `SessionPromise` that is the fairness of `Session`.
Every invariant and every action property that a passing run checks is proved.  No
module uses a RECURSIVE operator.

## 6. Where the code and its comments disagree

1. `LiveStream_canceled`.  The stream ends, the other workers end with
   Canceled because of it, and Canceled can be first in the list: the session
   returns `context.Canceled` though the caller canceled nothing.
2. `LiveStream_panic`.  The context ends while the fetching loop sends, or is
   about to send, a playlist: `playlistChan` is closed under it and the send
   panics, in a goroutine that recovers nothing.
3. `LiveStream_stall`.  hls.Read cancels itself after a 403 or too many losses
   and returns Canceled, which downloadStream takes for a switch of playlist:
   the session goes on and records nothing.
4. `HlsReader_checkpoint`.  The checkpoint is the last fragment queued, not the
   last one worked on: after a switch of playlist, what was left in `urlsChan`
   is skipped.  README.md:589 of the repository says that a switch will "simply
   repeat a section (1 second of video/audio) and not miss anything": what is
   repeated is nothing, or a window at most (`WrittenInOrder`).

Others were met while modelling.  The models contain them, and the properties are
stated with the exceptions they call for:

5. A shutdown that comes between the start of a handler's goroutine and its reading
   of `configContext` gives it a nil context, of which it calls methods
   (`cmd/watch/watch_command.go:356`): the process may panic where
   `cmd/watch/watch_config.go:174` says that handleConfig "ends gracefully".
   (`HandlerPanics`; the second part of `NoForeignContext` of `ConfigReloader` says
   that a reload does not lead there.)
6. concat.c does not look at what `av_write_trailer` returns (`video/concat/concat.c:347`),
   so that a remux may succeed with a file that cannot be read, and the `.ts` is
   deleted (`fc2/fc2.go:507`).  README.md:167 of the repository has "keep the raw .ts
   recordings after it has been remuxed" as an option, so that without it they
   are kept until then.  (`deleted` and `short` in `NotLost` of `Recordings`.)
7. An error of an input that is not the last one is forgotten by concat.c, and
   Process only logs the others; a session killed before its concatenation leaves
   a part that an older concatenation does not have.  The cleaner deletes the `.ts`
   of those parts all the same (README.md:144 of the repository, "deleted after
   concatenation").  (Likewise.)
8. "Failing to receive a heartbeat response is not fatal"
   (`fc2/api/api_websocket.go:235`), but line 318 turns the deadline into
   `ErrNoResponse` before the comparison with `context.DeadlineExceeded`, and the
   session ends.  (`NoResponse` among the errors of `LiveStream`.)
9. A shutdown before any configuration was received waits 30 seconds for a
   handler that does not exist, and ends in `log.Fatal`
   (`cmd/watch/watch_config.go:174`, "ends gracefully").  (`FatalExplained` of
   `ConfigReloader` has `current = 0`.)
10. A Read that returns before its goroutine got to the send of the checkpoint
    closes the channel under it, and the send panics; the select takes the timer
    at random when the checkpoint has come as well, and the recording then starts
    over (`hls/hls_downloader.go:419-424`).  Both need a goroutine that does not run for
    a second.  (`stalled` in `NoSendOnClosed`, `restart` in `WrittenInOrder`.)
11. With remux, without concat and without keepIntermediates, `name.ts` is deleted
    after the remux, the next session under the same name takes it again, and
    writes over `name.mp4`, which is not given a free name (`fc2/fc2.go:286`;
    README.md:527 of the repository, "two files are created").  (`NamesReused` of
    `Recordings`.)
12. The order of the parts is that of their names as strings when the format has
    a directory, because the prefix that is taken off has none
    (`video/concat/concat.go:351`; README.md:304 of the repository, "n is only
    used to determine the order").  (`inDirectory` in `CombinedInOrder`.)  A part that was
    remuxed to `name.mp4` after a first `.ts` was kept may come in another place.
13. Save truncates first, so that a kill in a Save, or a write that fails, leaves a
    file that is fatal at every start from then on (README.md:652 of the repository
    tells of persistence after a crash).  The same may happen when a configuration
    is loaded while the LoginLoop of the one before is still saving.  (`cut`,
    `unwritten` and `met` in `FatalExplained` of `CookieJar`.)
14. A CheckLogin that fails, also because its context was cancelled by a reload,
    deletes the cookies; at a start, the Save that follows creates the file again,
    and the import file is not read any more though the log asks for new cookies
    (`cmd/watch/watch_command.go:254-261`).  (`refused` in `CookiesKept`.)
15. In the watch command, a channel with `waitForLive: false` that is not online
    ends the whole process.  (`PanicExplained` of `Watch`.)

## 7. What the models leave out

* Time: a limit is a step that is possible while what it limits has not
  happened.  The limits of 30 seconds on `doneChan` are taken to fire only when
  the thread or handler hangs, or when there is none; so a slow but live thread
  counts as hung.
* In `HlsReader`, a manifest that is cut in the middle of a URL, which is then a
  fragment that no server has, and playlists whose times differ: the time of
  a fragment is taken to be the same in all of them, as a switch assumes.
* Writes of part of a fragment, the contents of files, HTTP, ffmpeg, the
  playlist's URL, logging, metrics, tracing.
* In `LiveStream`, the websocket calls are their outcomes; that `msgChan` itself
  can be full is in `WsRpc` only.
* In `LiveStream`, all of the time between 5-second ticks of the flush is free.
  The flush fires only on `capacity - 1`; if `commentChan` is full while
  DownloadChat has left, Listen stays in its send, does not see the context and
  `g.Wait` does not return.  `SessionEnds` is therefore a statement about
  sessions without the chat.
* A first `fetchPlaylist` that fails without upgrades ends the fetching loop
  and leaves a session with nothing to download; the model has it, and the
  code's comment says that this is meant.
* An error of the thread that was replaced may end its successor, since
  `errChan` is shared; the model has it, and no statement contradicts it.
* In `Watch`, lengths of delays: a sleep is a step.  That one late sleep may be an
  hour, and a reload waits 30 seconds, is for the reader to compare.
* In `Recordings`, other recordings whose name begins with this one's (the
  prefix would select them), inputs of mixed formats, removals that fail (they are
  logged, and the file stays).
* In `CookieJar`, read errors of a file that is there and the contents of the jar: its
  logic is a port of net/http/cookiejar.
* `remuxMixedTS`: FIFOs and one goroutine per input.  A remux that fails before it
  opens its FIFO leaves the concatenation blocked in its open.
* The time stamps of concat.c, which the packets decide.
* The choice of a playlist, the jar in memory, templates and parameters: functions
  without state of which a unit test reaches every branch.
* The download command, whose loop is `Watch` for one channel; the commands that
  call one function; telemetry; test helpers.

## 8. Plan

Done: the models, in the order of importance (what loses a recording or hangs the
process came first), and the proofs of section 5: every invariant of the passing
runs, the action property `DrainedAtEnd`, the refinements of `ChannelLife` and (its
safety part) `Session`, and that the observer keeps the reloader.

Left for proofs, in the order of what they are worth:

1. The lemmas of which the liveness arguments are made, as far as they are about
   single steps: that no step takes a ready action away from a goroutine that
   has no other (`ReloadEnds`, `CallsEnd`).
2. In `HlsReader`, `OnlyLostMissing` over the Reads after the first, which needs a history
   of what each left behind.

Left for models: `RemuxFifo` (writers, reader, and the failure of one of them) and
the loop of the download command.  Left for both: times that differ between the
playlists of a stream, in `HlsReader`.
