--------------------------- MODULE HlsReaderProofs ---------------------------
(***************************************************************************)
(* Proofs about HlsReader, for any playlists, manifest window, capacity of *)
(* urlsChan, number of tolerated losses and number of Reads.               *)
(*                                                                         *)
(* Handover says which of the two goroutines waits for which, and that the *)
(* next Read starts from the checkpoint where fillQueue stopped or from    *)
(* none.  Position, Todo and Queue say that fillQueue only moves forward   *)
(* from Floor, below which it queues nothing: its checkpoint, as long as   *)
(* that one means the same fragment in the playlist.  Recent bounds what   *)
(* is repeated when it does not, and Listed what is left out.              *)
(*                                                                         *)
(* fillQueue moves backward if a manifest does not go up to the last       *)
(* fragment and the names do not have the order of the fragments: the      *)
(* order is stated, and proved, while one or the other is not true.        *)
(*                                                                         *)
(* OnlyLostMissing needs none of that: it follows a fragment through the   *)
(* channel, whatever its number.                                           *)
(***************************************************************************)
EXTENDS HlsReader, TLAPS, WellFoundedInduction, FiniteSetTheorems

\* Nothing makes fillQueue go back.
Regular == OrderedNames(server) \/ older = 0

\* The rank of the name of a fragment in the playlist, 0 for none.
Rank(f) == IF f = 0 THEN 0 ELSE server.names[f]

\* The fragment that the checkpoint names in the playlist: no fragment if its
\* name, of another playlist, stands elsewhere in the order of this one.
Floor == IF last.rank = Rank(last.name) THEN last.name ELSE 0

\* There is something to download.
Typed == TypeOK /\ (read = "download" => url \in Fragments)

\* Who waits for whom, and what the checkpoint is meanwhile.
Handover ==
    /\ fq \in {"checkpoint", "done"} => read \in {"checkpoint", "done"}
    /\ fq # "done" => cpChan = << >>
    /\ cpChan # << >> => cpChan = <<last>>
    /\ read = "done" => ret.cp = last \/ ret.cp = DefaultCheckpoint
    /\ NoSendOnClosed

\* The checkpoint is one fragment, which was published.
Position ==
    /\ last.useTime => last.name = last.time
    /\ last.name <= live

\* What is still to be queued is past the checkpoint, without a gap.
Todo ==
    fq = "push" =>
        \A i \in 1 .. Len(todo) :
            /\ Regular => Floor < todo[i]
            /\ todo[i] <= live
            /\ \A j \in 1 .. Len(todo) : todo[j] - todo[i] = j - i

\* What was queued since the recording started over is in the order of the
\* fragments, up to the checkpoint.
Queue ==
    Regular =>
        /\ \A i, j \in 1 .. Len(written) :
             restart < i /\ i < j => written[i] < written[j]
        /\ \A i, j \in 1 .. Len(urls) : i < j => urls[i] < urls[j]
        /\ \A i \in 1 .. Len(written) : restart < i =>
             /\ written[i] <= Floor
             /\ \A j \in 1 .. Len(urls) : written[i] < urls[j]
             /\ read = "download" => written[i] < url
        /\ \A j \in 1 .. Len(urls) :
             /\ urls[j] <= Floor
             /\ read = "download" => url < urls[j]
        /\ read = "download" => url <= Floor

\* What was queued was published; with one cache, what is queued or written
\* after it is at most a window older.
Recent ==
    /\ \A f \in queued : f <= live
    /\ \A i \in 1 .. Len(written) : written[i] \in queued
    /\ \A i \in 1 .. Len(urls) : urls[i] \in queued
    /\ read = "download" => url \in queued
    /\ ~server.caches =>
        /\ fq = "push" =>
             \A f \in queued : \A i \in 1 .. Len(todo) : f < todo[i] + WindowMax
        /\ \A i, j \in 1 .. Len(written) : i < j => written[i] < written[j] + WindowMax
        /\ \A i, j \in 1 .. Len(urls) : i < j => urls[i] < urls[j] + WindowMax
        /\ \A i \in 1 .. Len(written) :
             /\ \A j \in 1 .. Len(urls) : written[i] < urls[j] + WindowMax
             /\ read = "download" => written[i] < url + WindowMax
        /\ read = "download" =>
             \A j \in 1 .. Len(urls) : url < urls[j] + WindowMax

\* A fragment was queued, or is older than all that were.
Settled(f, q) == f \in q \/ \A g \in q : f < g

\* With one cache and the times, nothing that is still listed was left out.
Listed ==
    last.useTime /\ ~server.caches =>
        /\ \A f \in Fragments : Oldest <= f /\ f <= last.name => Settled(f, queued)
        /\ fq = "push" /\ todo # << >> => todo[1] <= last.name + 1 \/ todo[1] <= Oldest
        /\ fq = "sleep" => todo = << >>
        /\ fq \in {"push", "sleep"} =>
             \A i \in 1 .. Len(window) :
                \/ Settled(window[i], queued) /\ (todo # << >> => window[i] < todo[1])
                \/ \E j \in 1 .. Len(todo) : window[i] = todo[j]

\* The inductive invariant.
IInv == Typed /\ Handover /\ Position /\ Todo /\ Queue /\ Recent /\ Listed

-----------------------------------------------------------------------------
(* The operators of HlsReader.                                             *)

\* The bounds are numbers.
LEMMA Bounds ==
    /\ MaxFragment \in Nat /\ WindowMax \in Nat \ {0} /\ UrlsMax \in Nat \ {0}
    /\ PacketLossMax \in Nat /\ Rounds \in Nat \ {0} /\ OlderMax \in Nat
  BY ConstantsAssumption DEF ConstantsAssumption

USE Bounds DEF Fragments, ReadCtxDone

\* Every server the constants allow.
LEMMA ServerType ==
    ASSUME NEW s \in Servers
    PROVE  /\ \A f \in Fragments : s.names[f] \in Nat \ {0}
           /\ s.untimed \subseteq Fragments /\ s.caches \in BOOLEAN
           /\ s.last \in Fragments
  BY ConstantsAssumption DEF ConstantsAssumption

\* A set of positions has a last one.
LEMMA LastOf ==
    ASSUME NEW n \in Nat, NEW S \in SUBSET (1 .. n), S # {}
    PROVE  \E i \in S : \A j \in S : j <= i
<1> DEFINE T == {n - i : i \in S}
<1>1. T \subseteq Nat /\ T # {}
  <2>1. \A i \in S : n - i \in Nat
    OBVIOUS
  <2> QED
    BY <2>1
<1>2. IsWellFoundedOn(OpToRel(<, Nat), Nat)
  BY NatLessThanWellFounded
<1>3. \E x \in T : \A y \in T : ~ (<<y, x>> \in OpToRel(<, Nat))
  BY <1>1, <1>2, WFMin
<1>4. PICK x \in T : \A y \in T : ~ (y < x)
  BY <1>1, <1>3 DEF OpToRel
<1>5. PICK i \in S : x = n - i
  BY <1>4
<1>6. ASSUME NEW j \in S PROVE j <= i
  <2>1. ~ (n - j < n - i)
    BY <1>4, <1>5
  <2>2. i \in 1 .. n /\ j \in 1 .. n
    OBVIOUS
  <2> QED
    BY <2>1, <2>2
<1> QED
  BY <1>6

\* What Span is: the fragments from lo to hi, if any.
LEMMA SpanIs ==
    ASSUME NEW lo \in Nat \ {0}, NEW hi \in 0 .. MaxFragment
    PROVE  /\ Span(lo, hi) \in Seq(Fragments)
           /\ Len(Span(lo, hi)) = IF lo <= hi THEN hi - lo + 1 ELSE 0
           /\ \A i \in 1 .. Len(Span(lo, hi)) : Span(lo, hi)[i] = lo + i - 1
<1> DEFINE n == IF lo <= hi THEN hi - lo + 1 ELSE 0
<1>1. n \in Nat /\ 1 .. hi - lo + 1 = 1 .. n
  OBVIOUS
<1>2. Span(lo, hi) = [i \in 1 .. n |-> lo + i - 1]
  BY <1>1 DEF Span
<1>3. \A i \in 1 .. n : lo + i - 1 \in Fragments
  OBVIOUS
<1> HIDE DEF n
<1>4. Span(lo, hi) \in Seq(Fragments) /\ Len(Span(lo, hi)) = n
  BY <1>1, <1>2, <1>3
<1> QED
  BY <1>2, <1>4 DEF n

\* What is left of a sequence whose head was taken, what it becomes when one
\* is appended, and what follows a position.
LEMMA Taken ==
    ASSUME NEW S, NEW s \in Seq(S), s # << >>
    PROVE  /\ Len(s) \in Nat /\ 1 \in 1 .. Len(s) /\ Head(s) = s[1] /\ Head(s) \in S
           /\ Tail(s) \in Seq(S) /\ Len(Tail(s)) = Len(s) - 1
           /\ \A i \in 1 .. Len(Tail(s)) : i + 1 \in 1 .. Len(s) /\ Tail(s)[i] = s[i + 1]
  OBVIOUS

LEMMA Pushed ==
    ASSUME NEW S, NEW s \in Seq(S), NEW e \in S
    PROVE  /\ Append(s, e) \in Seq(S) /\ Len(Append(s, e)) = Len(s) + 1 /\ Len(s) \in Nat
           /\ \A i \in 1 .. Len(s) : Append(s, e)[i] = s[i]
           /\ Append(s, e)[Len(s) + 1] = e
  OBVIOUS

LEMMA Suffix ==
    ASSUME NEW S, NEW s \in Seq(S), NEW k \in 0 .. Len(s)
    PROVE  /\ SubSeq(s, 1 + k, Len(s)) \in Seq(S)
           /\ Len(SubSeq(s, 1 + k, Len(s))) = Len(s) - k
           /\ \A i \in 1 .. Len(s) - k :
                k + i \in 1 .. Len(s) /\ SubSeq(s, 1 + k, Len(s))[i] = s[k + i]
  OBVIOUS

\* A manifest lists fragments that follow each other, up to the last one
\* published at most; with one cache, from the oldest of the server on.
LEMMA ManifestIs ==
    ASSUME TypeOK, NEW m \in Manifests
    PROVE  /\ m \in Seq(Fragments)
           /\ \A i \in 1 .. Len(m) : m[i] <= live
           /\ \A i, j \in 1 .. Len(m) : m[j] - m[i] = j - i
           /\ ~server.caches => \A i \in 1 .. Len(m) : m[i] = Oldest + i - 1
           /\ m = LastFragments /\ m # << >> =>
                Len(m) = live - Oldest + 1 /\ \A i \in 1 .. Len(m) : m[i] = Oldest + i - 1
<1>1. live \in 0 .. MaxFragment
  BY ServerType DEF TypeOK
<1>2. Oldest \in Nat \ {0} /\ (live = 0 => Oldest = 1) /\ (live # 0 => Oldest <= live)
  BY <1>1 DEF Oldest
<1> HIDE DEF Oldest
<1>3. ASSUME NEW lo \in Nat \ {0}, NEW hi \in 0 .. live, m = Span(lo, hi)
      PROVE  /\ m \in Seq(Fragments)
             /\ Len(m) = IF lo <= hi THEN hi - lo + 1 ELSE 0
             /\ \A i \in 1 .. Len(m) : m[i] = lo + i - 1
             /\ \A i \in 1 .. Len(m) : m[i] <= live
             /\ \A i, j \in 1 .. Len(m) : m[j] - m[i] = j - i
  <2>1. hi \in 0 .. MaxFragment
    BY <1>1
  <2>2. /\ m \in Seq(Fragments)
        /\ Len(m) = IF lo <= hi THEN hi - lo + 1 ELSE 0
        /\ \A i \in 1 .. Len(m) : m[i] = lo + i - 1
    BY <1>3, <2>1, SpanIs
  <2>3. \A i \in 1 .. Len(m) : i \in Nat /\ i <= hi - lo + 1
    BY <1>1, <1>3, <2>1, <2>2
  <2>4. \A i, j \in 1 .. Len(m) : m[j] - m[i] = j - i
    BY <1>1, <2>1, <2>2, <2>3
  <2>5. \A i \in 1 .. Len(m) : m[i] <= live
    BY <1>1, <2>1, <2>2, <2>3
  <2> QED
    BY <2>2, <2>4, <2>5
<1>4. CASE \E hi \in 0 .. live : m = Span(Oldest, hi)
  <2>1. PICK hi \in 0 .. live : m = Span(Oldest, hi)
    BY <1>4
  <2>2. /\ m \in Seq(Fragments)
        /\ \A i \in 1 .. Len(m) : m[i] = Oldest + i - 1
        /\ \A i \in 1 .. Len(m) : m[i] <= live
        /\ \A i, j \in 1 .. Len(m) : m[j] - m[i] = j - i
    BY <1>2, <1>3, <2>1
  <2>3. m = LastFragments /\ m # << >> => Len(m) = live - Oldest + 1
    <3> SUFFICES ASSUME m = LastFragments, m # << >> PROVE Len(m) = live - Oldest + 1
      OBVIOUS
    <3>1. Len(m) = IF Oldest <= live THEN live - Oldest + 1 ELSE 0
      BY <1>1, <1>2, <1>3 DEF LastFragments
    <3>2. Len(m) # 0
      BY <2>2
    <3> QED
      BY <3>1, <3>2
  <2> QED
    BY <2>2, <2>3
<1>5. CASE server.caches /\ \E lo \in Fragments, hi \in 1 .. live : m = Span(lo, hi)
  <2>1. PICK lo \in Fragments, hi \in 1 .. live : m = Span(lo, hi)
    BY <1>5
  <2>2. /\ m \in Seq(Fragments)
        /\ \A i \in 1 .. Len(m) : m[i] <= live
        /\ \A i, j \in 1 .. Len(m) : m[j] - m[i] = j - i
    BY <1>1, <1>3, <2>1
  <2>3. ASSUME m = LastFragments, m # << >>
        PROVE  Len(m) = live - Oldest + 1 /\ \A i \in 1 .. Len(m) : m[i] = Oldest + i - 1
    <3>1. live \in 0 .. live /\ m = Span(Oldest, live)
      BY <1>1, <2>3 DEF LastFragments
    <3>2. /\ Len(m) = IF Oldest <= live THEN live - Oldest + 1 ELSE 0
          /\ \A i \in 1 .. Len(m) : m[i] = Oldest + i - 1
      BY <1>2, <1>3, <3>1
    <3>3. Len(m) # 0
      BY <2>2, <2>3
    <3> QED
      BY <3>2, <3>3
  <2> QED
    BY <1>5, <2>2, <2>3
<1> QED
  BY <1>4, <1>5 DEF Manifests, StaleManifests

\* NewFragments is what follows the last position that was already queued.
NoCheckpointYet(l) == l.name = 0 \/ (l.useTime /\ l.time = 0)

Follows(n, m, l, k) ==
    /\ n \in Seq(Fragments)
    /\ Len(n) = Len(m) - k
    /\ \A i \in 1 .. Len(m) - k : n[i] = m[k + i]
    /\ k # 0 => ~NoCheckpointYet(l) /\ AlreadyQueued(m, k, l)
    /\ \A i \in 1 .. Len(m) : i > k => NoCheckpointYet(l) \/ ~AlreadyQueued(m, i, l)

LEMMA NewFragmentsAre ==
    ASSUME NEW m \in Seq(Fragments), NEW l
    PROVE  \E k \in 0 .. Len(m) : Follows(NewFragments(m, l), m, l, k)
<1> DEFINE old == {i \in DOMAIN m : AlreadyQueued(m, i, l)}
<1>0. Len(m) \in Nat /\ DOMAIN m = 1 .. Len(m)
  OBVIOUS
<1>1. CASE NoCheckpointYet(l)
  <2>1. NewFragments(m, l) = m
    BY <1>1 DEF NewFragments, NoCheckpointYet
  <2>2. Follows(m, m, l, 0)
    BY <1>0, <1>1 DEF Follows
  <2> QED
    BY <1>0, <2>1, <2>2
<1>2. CASE ~NoCheckpointYet(l) /\ old = {}
  <2>1. NewFragments(m, l) = m
    BY <1>2 DEF NewFragments, NoCheckpointYet
  <2>2. \A i \in 1 .. Len(m) : ~AlreadyQueued(m, i, l)
    BY <1>0, <1>2
  <2>3. Follows(m, m, l, 0)
    BY <1>0, <2>2 DEF Follows
  <2> QED
    BY <1>0, <2>1, <2>3
<1>3. CASE ~NoCheckpointYet(l) /\ old # {}
  <2> DEFINE k == CHOOSE i \in old : \A j \in old : j <= i
  <2>1. NewFragments(m, l) = SubSeq(m, 1 + k, Len(m))
    BY <1>3 DEF NewFragments, NoCheckpointYet
  <2>2. k \in old /\ \A j \in old : j <= k
    <3>1. old \in SUBSET (1 .. Len(m))
      BY <1>0
    <3> HIDE DEF old
    <3>2. \E i \in old : \A j \in old : j <= i
      BY <1>0, <1>3, <3>1, LastOf
    <3> QED
      BY <3>2
  <2> HIDE DEF k
  <2>3. k \in 1 .. Len(m) /\ AlreadyQueued(m, k, l)
    BY <1>0, <2>2
  <2>4. \A i \in 1 .. Len(m) : i > k => ~AlreadyQueued(m, i, l)
    <3> SUFFICES ASSUME NEW i \in 1 .. Len(m), i > k, AlreadyQueued(m, i, l) PROVE FALSE
      OBVIOUS
    <3>1. i \in old
      BY <1>0
    <3> HIDE DEF old
    <3> QED
      BY <2>2, <2>3, <3>1
  <2>5. Follows(NewFragments(m, l), m, l, k)
    <3>1. k \in 0 .. Len(m)
      BY <1>0, <2>3
    <3>2. /\ NewFragments(m, l) \in Seq(Fragments)
          /\ Len(NewFragments(m, l)) = Len(m) - k
          /\ \A i \in 1 .. Len(m) - k : NewFragments(m, l)[i] = m[k + i]
      BY SMTT(30), <2>1, <3>1, Suffix
    <3> QED
      BY <1>3, <2>3, <2>4, <3>2 DEF Follows
  <2> QED
    BY <2>3, <2>5
<1> QED
  BY <1>1, <1>2, <1>3

LEMMA Single ==
    ASSUME NEW S, NEW e \in S
    PROVE  <<e>> \in Seq(S)
  OBVIOUS

\* The checkpoint after a fragment was queued.
LEMMA AdvanceIs ==
    ASSUME TypeOK, NEW l \in Checkpoints, NEW f \in Fragments
    PROVE  /\ Advance(l, f) \in Checkpoints
           /\ Advance(l, f).name = f /\ Advance(l, f).rank = server.names[f]
           /\ Advance(l, f).useTime => l.useTime /\ Advance(l, f).time = f
<1>1. l.useTime \in BOOLEAN /\ server.names[f] \in Nat
  BY ServerType DEF Checkpoints, TypeOK
<1>2. CASE l.useTime /\ f \notin server.untimed
  <2>1. Advance(l, f) = [l EXCEPT !.name = f, !.rank = server.names[f], !.time = f]
    BY <1>2 DEF Advance
  <2>2. Advance(l, f) =
          [name |-> f, rank |-> server.names[f], time |-> f, useTime |-> l.useTime]
    BY <2>1 DEF Checkpoints
  <2> QED
    BY <1>1, <1>2, <2>2 DEF Checkpoints
<1>3. CASE ~(l.useTime /\ f \notin server.untimed)
  <2>1. Advance(l, f) = [l EXCEPT !.name = f, !.rank = server.names[f], !.useTime = FALSE]
    BY <1>3 DEF Advance
  <2>2. Advance(l, f) =
          [name |-> f, rank |-> server.names[f], time |-> l.time, useTime |-> FALSE]
    BY <2>1 DEF Checkpoints
  <2>3. l.time \in 0 .. MaxFragment
    BY DEF Checkpoints
  <2> QED
    BY <1>1, <1>3, <2>2, <2>3 DEF Checkpoints
<1> QED
  BY <1>2, <1>3

-----------------------------------------------------------------------------
(* The types, and the two goroutines.                                      *)

USE DEF serverVars, callVars, fqVars, chanVars, readVars, history

LEMMA NextHandover == Handover /\ [Next]_vars => Handover'
<1> SUFFICES ASSUME Handover, [Next]_vars PROVE Handover'
  OBVIOUS
<1> USE DEF Handover, NoSendOnClosed
<1>1. CASE Publish
  BY <1>1 DEF Publish
<1>2. CASE ThirtySeconds
  BY <1>2 DEF ThirtySeconds
<1>3. CASE CallerCancel
  BY <1>3 DEF CallerCancel
<1>4. CASE Resume
  BY <1>4 DEF Resume
<1>5. CASE FetchTolerated
  BY <1>5 DEF FetchTolerated, FillQueueReturns
<1>6. CASE FetchFailed
  BY <1>6 DEF FetchFailed, FillQueueReturns
<1>7. CASE FetchManifest
  BY <1>7 DEF FetchManifest
<1>8. CASE QueueFragment
  BY <1>8 DEF QueueFragment
<1>9. CASE EndOfStream
  BY <1>9 DEF EndOfStream, FillQueueReturns
<1>10. CASE Pause
  BY <1>10 DEF Pause
<1>11. CASE PauseEnds
  BY <1>11 DEF PauseEnds
<1>12. CASE SendCheckpoint
  BY <1>12 DEF SendCheckpoint
<1>13. CASE TakeUrl
  BY <1>13 DEF TakeUrl
<1>14. CASE Downloaded
  BY <1>14 DEF Downloaded
<1>15. CASE DownloadCanceled
  BY <1>15 DEF DownloadCanceled
<1>16. CASE DownloadForbidden
  BY <1>16 DEF DownloadForbidden
<1>17. CASE DownloadLost
  BY <1>17 DEF DownloadLost
<1>18. CASE TakeError
  BY <1>18 DEF TakeError
<1>19. CASE TakeCheckpoint
  BY <1>19 DEF TakeCheckpoint, Returns
<1>20. CASE NoCheckpoint
  BY <1>20 DEF NoCheckpoint, Returns
<1>21. CASE UNCHANGED vars
  BY <1>21 DEF vars
<1>22. CASE LateCheckpoint
  BY <1>22 DEF LateCheckpoint
<1> QED
  BY <1>1, <1>2, <1>3, <1>4, <1>5, <1>6, <1>7, <1>8, <1>9, <1>10,
     <1>11, <1>12, <1>13, <1>14, <1>15, <1>16, <1>17, <1>18, <1>19, <1>20, <1>21,
     <1>22
  DEF Next, Around, FillQueue, Earlier, Read, Terminated

\* The types once fillQueue has returned.
LEMMA Returned ==
    ASSUME Typed, fq' = "exit", fqErr' \in {"EOF", "Canceled", "Failure"},
           fqErrors' = 0, late' = FALSE, window' = << >>, todo' = << >>,
           UNCHANGED <<serverVars, callVars, last, chanVars, readVars, history, behind,
                       panicked>>
    PROVE  Typed'
<1>1. window' \in Seq(Fragments) /\ todo' \in Seq(Fragments)
  OBVIOUS
<1>2. fqErrors' \in 0 .. PacketLossMax
  <2>1. 0 \in 0 .. PacketLossMax
    OBVIOUS
  <2> QED
    BY <2>1
<1>5. late' \in BOOLEAN
  OBVIOUS
<1>3. /\ fq' \in {"fetch", "push", "sleep", "exit", "checkpoint", "done"}
      /\ fqErr' \in {"none", "EOF", "Canceled", "Failure"}
  OBVIOUS
<1>4. UNCHANGED <<server, live, round, ctxDone, ownCancel, last, urls, cpChan, read, url,
                  lost, ret, written, queued, stalled, restart, older, behind, panicked>>
  OBVIOUS
<1> QED
  BY <1>1, <1>2, <1>3, <1>4, <1>5 DEF Typed, TypeOK

LEMMA NextTyped == Typed /\ [Next]_vars => Typed'
<1> SUFFICES ASSUME Typed, [Next]_vars PROVE Typed'
  OBVIOUS
<1> USE DEF Typed, TypeOK
<1>1. CASE Publish
  BY SMTT(30), <1>1, ServerType DEF Publish
<1>2. CASE ThirtySeconds
  BY <1>2 DEF ThirtySeconds
<1>3. CASE CallerCancel
  <2>1. ctxDone' \in BOOLEAN
    BY <1>3 DEF CallerCancel
  <2>2. UNCHANGED <<serverVars, round, ownCancel, fqVars, chanVars, readVars, history,
                    behind, panicked>>
    BY <1>3 DEF CallerCancel
  <2> QED
    BY <2>1, <2>2
<1>4. CASE Resume
  <2>0. PICK s \in Servers :
          /\ s.caches = server.caches /\ s.last = server.last
          /\ server' = s
          /\ restart' = IF ret.cp.name = 0 \/ s.names # server.names
                        THEN Len(written) ELSE restart
    BY <1>4 DEF Resume
  <2>1. /\ todo' = << >> /\ window' = << >> /\ urls' = << >> /\ cpChan' = << >>
        /\ last' = ret.cp /\ ret' = [cp |-> DefaultCheckpoint, err |-> "none"]
        /\ ctxDone' = FALSE /\ ownCancel' = FALSE /\ late' = FALSE /\ fq' = "fetch"
        /\ fqErr' = "none" /\ fqErrors' = 0 /\ round' = round + 1 /\ round < Rounds
        /\ read' = "select" /\ url' = 0 /\ lost' = 0
        /\ behind' \in BOOLEAN
        /\ UNCHANGED <<live, written, queued, stalled, older, panicked>>
    BY <1>4 DEF Resume
  <2>2. /\ todo' \in Seq(Fragments) /\ window' \in Seq(Fragments)
        /\ urls' \in Seq(Fragments) /\ cpChan' \in Seq(Checkpoints)
        /\ Len(urls') <= UrlsMax
    BY <2>1
  <2>3. /\ last' \in Checkpoints
        /\ ret' \in [cp : Checkpoints, err : {"none", "EOF", "Canceled", "Failure"}]
    BY <2>1 DEF DefaultCheckpoint, Checkpoints
  <2>4. server' \in Servers /\ live' \in 0 .. server'.last /\ round' \in 1 .. Rounds
    BY <2>0, <2>1
  <2>5. restart' \in 0 .. Len(written')
    BY <2>0, <2>1
  <2>6. /\ fqErrors' \in 0 .. PacketLossMax /\ url' \in 0 .. MaxFragment /\ lost' \in Nat
        /\ read' # "download"
    BY <2>1
  <2>7. /\ written' \in Seq(Fragments) /\ queued' \subseteq Fragments
        /\ stalled' \in BOOLEAN /\ panicked' \in BOOLEAN /\ older' \in 0 .. OlderMax
    BY <2>1
  <2> HIDE DEF Typed, TypeOK
  <2>9. TypeOK'
    BY <2>1, <2>2, <2>3, <2>4, <2>5, <2>6, <2>7 DEF TypeOK
  <2> QED
    BY <2>6, <2>9 DEF Typed
<1>5. CASE FetchTolerated
  <2>1. CASE fqErrors' = fqErrors + 1 /\ fqErrors < PacketLossMax
             /\ UNCHANGED <<fq, fqErr, window, todo, late>>
    <3>1. fqErrors' \in 0 .. PacketLossMax
      BY <2>1
    <3>2. UNCHANGED <<serverVars, callVars, last, chanVars, readVars, history, behind,
                      panicked>>
      BY <1>5 DEF FetchTolerated
    <3> QED
      BY <2>1, <3>1, <3>2
  <2>2. CASE FillQueueReturns("Failure")
    <3>1. /\ fq' = "exit" /\ fqErr' = "Failure"
          /\ fqErrors' = 0 /\ late' = FALSE /\ window' = << >> /\ todo' = << >>
      BY <2>2 DEF FillQueueReturns
    <3>2. UNCHANGED <<serverVars, callVars, last, chanVars, readVars, history, behind,
                      panicked>>
      BY <1>5 DEF FetchTolerated
    <3> QED
      BY <3>1, <3>2, Returned
  <2> QED
    BY <1>5, <2>1, <2>2 DEF FetchTolerated
<1>6. CASE FetchFailed
  <2>1. /\ fq' = "exit" /\ fqErr' \in {"Canceled", "Failure", "EOF"}
        /\ fqErrors' = 0 /\ late' = FALSE /\ window' = << >> /\ todo' = << >>
    BY <1>6 DEF FetchFailed, FillQueueReturns
  <2>2. UNCHANGED <<serverVars, callVars, last, chanVars, readVars, history, behind,
                    panicked>>
    BY <1>6 DEF FetchFailed
  <2> QED
    BY <2>1, <2>2, Returned
<1>7. CASE FetchManifest
  <2>1. PICK m \in Manifests :
          /\ window' = m
          /\ todo' = NewFragments(m, last)
          /\ last' = [last EXCEPT !.useTime = SearchUsesTime(m, last)]
    BY <1>7 DEF FetchManifest
  <2>2. window' \in Seq(Fragments) /\ todo' \in Seq(Fragments)
    BY <2>1, ManifestIs, NewFragmentsAre DEF Follows
  <2>3. last' \in Checkpoints
    <3>1. SearchUsesTime(m, last) \in BOOLEAN
      BY Zenon DEF SearchUsesTime, TimeUsedAt, Checkpoints
    <3> QED
      BY <2>1, <3>1 DEF Checkpoints
  <2>4. late' \in BOOLEAN
    BY <1>7 DEF FetchManifest
  <2>5. /\ fq' = "push" /\ fq = "fetch"
        /\ UNCHANGED <<serverVars, callVars, fqErr, fqErrors, chanVars, readVars,
                       queued, stalled, restart, behind, panicked>>
    BY <1>7 DEF FetchManifest
  <2>6. older' \in 0 .. OlderMax
    <3>1. PICK n \in {0, 1} : older' = older + n /\ older' <= OlderMax
      BY <1>7 DEF FetchManifest
    <3>2. older \in 0 .. OlderMax
      OBVIOUS
    <3> HIDE DEF TypeOK
    <3> QED
      BY <3>1, <3>2
  <2> QED
    BY <2>2, <2>3, <2>4, <2>5, <2>6
<1>8. CASE QueueFragment
  <2>0. /\ todo \in Seq(Fragments) /\ urls \in Seq(Fragments) /\ last \in Checkpoints
        /\ queued \subseteq Fragments
    OBVIOUS
  <2>3. /\ fq' = "push" /\ fq = "push"
        /\ UNCHANGED <<serverVars, callVars, fqErr, fqErrors, window, late,
                       cpChan, readVars, stalled, restart, older, behind,
                       panicked>>
    BY <1>8 DEF QueueFragment
  <2>1. /\ todo' \in Seq(Fragments) /\ Head(todo) \in Fragments
        /\ urls' \in Seq(Fragments) /\ Len(urls') <= UrlsMax
    <3> HIDE DEF TypeOK
    <3> QED
      BY <1>8, <2>0, Taken, Pushed DEF QueueFragment
  <2>2. last' \in Checkpoints
    <3>1. last' = Advance(last, Head(todo))
      BY <1>8 DEF QueueFragment
    <3> QED
      BY <2>0, <2>1, <3>1, AdvanceIs
  <2>4. queued' \subseteq Fragments
    BY <1>8, <2>0, <2>1 DEF QueueFragment
  <2> QED
    BY <2>1, <2>2, <2>3, <2>4
<1>9. CASE EndOfStream
  <2>1. /\ fq' = "exit" /\ fqErr' = "EOF"
        /\ fqErrors' = 0 /\ late' = FALSE /\ window' = << >> /\ todo' = << >>
    BY <1>9 DEF EndOfStream, FillQueueReturns
  <2>2. UNCHANGED <<serverVars, callVars, last, chanVars, readVars, history, behind,
                    panicked>>
    BY <1>9 DEF EndOfStream
  <2> QED
    BY <2>1, <2>2, Returned
<1>10. CASE Pause
  BY <1>10 DEF Pause
<1>11. CASE PauseEnds
  <2>1. fq' = "fetch" /\ fq = "sleep" /\ window' = << >>
    BY <1>11 DEF PauseEnds
  <2>2. UNCHANGED <<serverVars, callVars, fqErr, fqErrors, todo, last, late,
                    chanVars, readVars, history, behind, panicked>>
    BY <1>11 DEF PauseEnds
  <2> QED
    BY <2>1, <2>2
<1>12. CASE SendCheckpoint
  <2>1. fq' = "done" /\ panicked' \in BOOLEAN
    BY <1>12 DEF SendCheckpoint
  <2>2. cpChan' \in Seq(Checkpoints)
    <3>1. last \in Checkpoints /\ cpChan \in Seq(Checkpoints)
      OBVIOUS
    <3> HIDE DEF TypeOK
    <3> QED
      BY <1>12, <3>1, Single DEF SendCheckpoint
  <2>3. UNCHANGED <<serverVars, callVars, fqErr, fqErrors, window, todo, last, late,
                    urls, readVars, history, behind>>
    BY <1>12 DEF SendCheckpoint
  <2> QED
    BY <2>1, <2>2, <2>3
<1>13. CASE TakeUrl
  <2>1. /\ urls' \in Seq(Fragments) /\ Len(urls') <= UrlsMax /\ url' \in Fragments
        /\ read' = "download"
    <3>1. /\ urls \in Seq(Fragments) /\ urls # << >> /\ Len(urls) <= UrlsMax
      BY <1>13 DEF TakeUrl
    <3>2. /\ urls' = Tail(urls) /\ url' = Head(urls) /\ read' = "download"
      BY <1>13 DEF TakeUrl
    <3> HIDE DEF TypeOK
    <3>3. /\ Tail(urls) \in Seq(Fragments) /\ Len(Tail(urls)) = Len(urls) - 1
          /\ Len(urls) \in Nat
          /\ Head(urls) \in Fragments
      BY <3>1, Taken
    <3>4. url' \in Fragments
      BY <3>1, <3>2, <3>3
    <3>5. urls' \in Seq(Fragments)
      BY <3>2, <3>3
    <3>6. Len(urls') <= UrlsMax
      BY <3>1, <3>2, <3>3
    <3> QED
      BY <3>2, <3>4, <3>5, <3>6
  <2>2. UNCHANGED <<serverVars, callVars, fqVars, cpChan, lost, ret, written, queued,
                    stalled, restart, older, behind, panicked>>
    BY <1>13 DEF TakeUrl
  <2> QED
    BY <2>1, <2>2
<1>14. CASE Downloaded
  <2>1. written' \in Seq(Fragments) /\ Len(written') = Len(written) + 1
        /\ Len(written) \in Nat
    BY <1>14, Pushed DEF Downloaded
  <2>2. /\ read' = "select" /\ url' = 0
        /\ UNCHANGED <<serverVars, callVars, fqVars, chanVars, lost, ret,
                       history, behind, panicked>>
    BY <1>14 DEF Downloaded
  <2> QED
    BY <2>1, <2>2
<1>15. CASE DownloadCanceled
  BY <1>15 DEF DownloadCanceled
<1>16. CASE DownloadForbidden
  BY <1>16 DEF DownloadForbidden
<1>17. CASE DownloadLost
  BY <1>17 DEF DownloadLost
<1>18. CASE TakeError
  BY <1>18 DEF TakeError
<1>19. CASE TakeCheckpoint
  <2>1. Head(cpChan) \in Checkpoints
    BY <1>19, Taken DEF TakeCheckpoint
  <2>2. ret' \in [cp : Checkpoints, err : {"none", "EOF", "Canceled", "Failure"}]
    BY <1>19, <2>1 DEF TakeCheckpoint, Returns
  <2>3. cpChan' \in Seq(Checkpoints) /\ stalled' \in BOOLEAN
    BY <1>19 DEF TakeCheckpoint, Returns
  <2>4. /\ read' = "done" /\ ownCancel' \in BOOLEAN /\ lost' = 0
        /\ UNCHANGED <<serverVars, round, ctxDone, fqVars, urls, url, written,
                       queued, restart, older, behind, panicked>>
    BY <1>19 DEF TakeCheckpoint, Returns
  <2> QED
    BY <2>2, <2>3, <2>4
<1>20. CASE NoCheckpoint
  <2>1. DefaultCheckpoint \in Checkpoints
    BY <1>20 DEF DefaultCheckpoint, Checkpoints
  <2>2. ret' \in [cp : Checkpoints, err : {"none", "EOF", "Canceled", "Failure"}]
    BY <1>20, <2>1 DEF NoCheckpoint, Returns
  <2>3. cpChan' \in Seq(Checkpoints) /\ stalled' \in BOOLEAN
    BY <1>20 DEF NoCheckpoint, Returns
  <2>4. /\ read' = "done" /\ ownCancel' \in BOOLEAN /\ lost' = 0
        /\ UNCHANGED <<serverVars, round, ctxDone, fqVars, urls, url, written,
                       queued, restart, older, behind, panicked>>
    BY <1>20 DEF NoCheckpoint, Returns
  <2> QED
    BY <2>2, <2>3, <2>4
<1>21. CASE UNCHANGED vars
  BY <1>21 DEF vars
<1>22. CASE LateCheckpoint
  BY <1>22 DEF LateCheckpoint
<1> QED
  BY <1>1, <1>2, <1>3, <1>4, <1>5, <1>6, <1>7, <1>8, <1>9, <1>10,
     <1>11, <1>12, <1>13, <1>14, <1>15, <1>16, <1>17, <1>18, <1>19, <1>20, <1>21,
     <1>22
  DEF Next, Around, FillQueue, Earlier, Read, Terminated

-----------------------------------------------------------------------------
(* A poll, and a send of fillQueue.                                        *)

\* What a poll queues.
LEMMA PollQueues ==
    ASSUME Typed, Position, NEW m \in Manifests
    PROVE  /\ \A i \in 1 .. Len(NewFragments(m, last)) :
                /\ OrderedNames(server) \/ m \in {<< >>, LastFragments} =>
                     Floor < NewFragments(m, last)[i]
                /\ NewFragments(m, last)[i] <= live
                /\ \A j \in 1 .. Len(NewFragments(m, last)) :
                     NewFragments(m, last)[j] - NewFragments(m, last)[i] = j - i
                /\ ~server.caches => live < NewFragments(m, last)[i] + WindowMax
           /\ SearchUsesTime(m, last) /\ ~server.caches =>
                /\ NewFragments(m, last) # << >> =>
                     \/ NewFragments(m, last)[1] <= last.name + 1
                     \/ NewFragments(m, last)[1] <= Oldest
                /\ \A i \in 1 .. Len(m) :
                     \/ /\ m[i] <= last.name /\ Oldest <= m[i]
                        /\ NewFragments(m, last) # << >> => m[i] < NewFragments(m, last)[1]
                     \/ \E j \in 1 .. Len(NewFragments(m, last)) :
                          m[i] = NewFragments(m, last)[j]
<1> DEFINE n == NewFragments(m, last)
<1>1. /\ m \in Seq(Fragments) /\ Len(m) \in Nat
      /\ \A i \in 1 .. Len(m) : m[i] \in Nat /\ m[i] <= live /\ m[i] \in Fragments
      /\ \A i, j \in 1 .. Len(m) : m[j] - m[i] = j - i
      /\ ~server.caches => \A i \in 1 .. Len(m) : m[i] = Oldest + i - 1
      /\ m = LastFragments /\ m # << >> =>
           Len(m) = live - Oldest + 1 /\ \A i \in 1 .. Len(m) : m[i] = Oldest + i - 1
  BY ManifestIs DEF Typed
<1>2. PICK k \in 0 .. Len(m) : Follows(n, m, last, k)
  BY <1>1, NewFragmentsAre
<1>3. /\ last.name \in 0 .. MaxFragment /\ last.time \in 0 .. MaxFragment /\ live \in Nat
      /\ last.rank \in Nat
  BY ServerType DEF Typed, TypeOK, Checkpoints
<1>0. \A f \in Fragments : server.names[f] \in Nat /\ Rank(f) = server.names[f]
  BY SMTT(30), ServerType DEF Typed, TypeOK, Rank
<1>11. Oldest \in Nat /\ live < Oldest + WindowMax
  BY <1>3 DEF Oldest
<1> HIDE DEF n
<1>4. ASSUME NEW i \in 1 .. Len(m), i > k, m[i] <= Floor,
             OrderedNames(server) \/ m \in {<< >>, LastFragments}
      PROVE  FALSE
  <2>1. /\ last.name \in Fragments /\ last.rank = server.names[last.name]
        /\ m[i] <= last.name /\ ~NoCheckpointYet(last)
    <3>1. last.rank = Rank(last.name) /\ m[i] <= last.name
      BY <1>1, <1>4 DEF Floor
    <3>2. last.name \in Fragments
      BY <1>1, <1>3, <3>1
    <3> QED
      BY <1>0, <3>1, <3>2 DEF Position, NoCheckpointYet
  <2>2. \A j \in 1 .. Len(m) : j > k => ~AlreadyQueued(m, j, last)
    BY <1>2, <2>1 DEF Follows
  <2>3. CASE OrderedNames(server)
    <3>1. last.rank >= server.names[m[i]]
      <4>1. m[i] \in Fragments
        BY <1>1
      <4>2. server.names[m[i]] <= server.names[last.name]
        BY <2>1, <2>3, <4>1 DEF OrderedNames
      <4> QED
        BY <1>0, <2>1, <4>1, <4>2
    <3>2. TimeUsedAt(m, i, last) => last.time >= m[i]
      BY <1>1, <1>3, <2>1 DEF TimeUsedAt, Position
    <3> QED
      BY <1>4, <2>2, <3>1, <3>2 DEF AlreadyQueued
  <2>4. CASE m = LastFragments
    <3> DEFINE j == i + last.name - m[i]
    <3>1. j \in 1 .. Len(m) /\ j > k /\ m[j] = last.name
      <4>1. m # << >> /\ i \in Nat /\ k \in Nat /\ m[i] \in Nat
        BY <1>1
      <4>2. m[i] = Oldest + i - 1 /\ Len(m) = live - Oldest + 1
        BY <1>1, <2>4, <4>1
      <4>3. last.name <= live
        BY DEF Position
      <4>4. j \in Nat /\ i <= j /\ j <= Len(m)
        <5>1. Oldest \in Nat /\ last.name \in Nat /\ live \in Nat /\ m[i] <= last.name
          BY <1>3, <1>11, <2>1
        <5> HIDE DEF Fragments
        <5> QED
          BY <4>1, <4>2, <4>3, <5>1
      <4>5. j \in 1 .. Len(m) /\ j > k
        BY SMTT(30), <1>1, <1>4, <4>1, <4>4
      <4>0. j = i + last.name - m[i]
        OBVIOUS
      <4> HIDE DEF j
      <4>6. m[j] - m[i] = j - i /\ m[j] \in Nat
        BY <1>1, <4>5
      <4>7. m[j] = last.name
        BY SMTT(30), <1>3, <4>0, <4>1, <4>4, <4>6
      <4> QED
        BY <4>5, <4>7
    <3> HIDE DEF j
    <3>2. last.rank >= server.names[m[j]]
      BY <1>0, <2>1, <3>1
    <3>3. TimeUsedAt(m, j, last) => last.time >= m[j]
      BY <1>3, <3>1 DEF TimeUsedAt, Position
    <3> QED
      BY <2>2, <3>1, <3>2, <3>3 DEF AlreadyQueued
  <2>5. CASE m = << >>
    BY <2>5
  <2> QED
    BY <1>4, <2>3, <2>4, <2>5
<1>5. /\ Len(n) = Len(m) - k /\ n \in Seq(Fragments)
      /\ \A i \in 1 .. Len(n) : k + i \in 1 .. Len(m) /\ n[i] = m[k + i]
  BY <1>1, <1>2 DEF Follows
<1>6. ASSUME NEW i \in 1 .. Len(n)
      PROVE  /\ OrderedNames(server) \/ m \in {<< >>, LastFragments} => Floor < n[i]
             /\ n[i] <= live
             /\ ~server.caches => live < n[i] + WindowMax
  <2>1. /\ k + i \in 1 .. Len(m) /\ k + i > k /\ n[i] = m[k + i]
        /\ m[k + i] \in Nat /\ m[k + i] <= live
    BY SMTT(30), <1>1, <1>5
  <2>2. OrderedNames(server) \/ m \in {<< >>, LastFragments} => ~ (m[k + i] <= Floor)
    BY <1>4, <2>1
  <2>3. Floor \in Nat
    BY <1>3 DEF Floor
  <2>4. ~server.caches => m[k + i] = Oldest + (k + i) - 1
    BY <1>1, <2>1
  <2> QED
    BY <1>3, <1>11, <2>1, <2>2, <2>3, <2>4
<1>7. \A i, j \in 1 .. Len(n) : n[j] - n[i] = j - i
  <2> SUFFICES ASSUME NEW i \in 1 .. Len(n), NEW j \in 1 .. Len(n)
               PROVE  n[j] - n[i] = j - i
    OBVIOUS
  <2>1. m[k + j] - m[k + i] = (k + j) - (k + i)
    BY <1>1, <1>5
  <2> QED
    BY <1>1, <1>5, <2>1
<1>8. ASSUME SearchUsesTime(m, last), k # 0 PROVE m[k] <= last.name
  <2>1. AlreadyQueued(m, k, last) /\ ~NoCheckpointYet(last)
    BY <1>2, <1>8 DEF Follows
  <2>2. last.useTime /\ TimeUsedAt(m, k, last)
    <3>1. TimeUsedAt(m, Len(m), last)
      BY <1>8, <2>1 DEF SearchUsesTime, NoCheckpointYet
    <3>2. \A j \in 1 .. k : j \in 1 .. Len(m)
      BY <1>1
    <3> QED
      BY <3>1, <3>2 DEF TimeUsedAt
  <2> QED
    BY <1>1, <1>3, <1>8, <2>1, <2>2 DEF AlreadyQueued, Position
<1>9. ASSUME SearchUsesTime(m, last), ~server.caches, n # << >>
      PROVE  n[1] <= last.name + 1 \/ n[1] <= Oldest
  <2>1. 1 \in 1 .. Len(n) /\ k + 1 \in 1 .. Len(m) /\ n[1] = m[k + 1] /\ m # << >>
    BY <1>1, <1>5, <1>9
  <2>2. CASE k = 0
    <3>1. m[1] = Oldest + 1 - 1 /\ m[k + 1] = m[1]
      BY <1>1, <1>9, <2>1, <2>2
    <3> QED
      BY <1>11, <2>1, <3>1
  <2>3. CASE k # 0
    <3>1. m[k + 1] - m[k] = 1 /\ m[k] \in Nat /\ m[k + 1] \in Nat
      <4>1. k \in 1 .. Len(m) /\ (k + 1) - k = 1
        BY <1>1, <2>3
      <4> QED
        BY <1>1, <2>1, <4>1
    <3>2. m[k] <= last.name
      BY <1>8, <1>9, <2>3
    <3> QED
      BY SMTT(30), <1>3, <2>1, <3>1, <3>2
  <2> QED
    BY <2>2, <2>3
<1>10. ASSUME SearchUsesTime(m, last), ~server.caches, NEW i \in 1 .. Len(m)
       PROVE  \/ /\ m[i] <= last.name /\ Oldest <= m[i]
                 /\ n # << >> => m[i] < n[1]
              \/ \E j \in 1 .. Len(n) : m[i] = n[j]
  <2>1. Oldest <= m[i]
    BY <1>1, <1>10, <1>11
  <2>2. CASE i <= k
    <3>1. k \in 1 .. Len(m) /\ k # 0 /\ m[k] - m[i] = k - i
      BY <1>1, <2>2
    <3>2. m[k] <= last.name
      BY <1>8, <1>10, <3>1
    <3>3. m[i] \in Nat /\ m[k] \in Nat
      BY <1>1, <3>1
    <3>4. i \in Nat /\ k \in Nat
      OBVIOUS
    <3>5. ASSUME n # << >> PROVE m[i] < n[1]
      <4>1. 1 \in 1 .. Len(n)
        BY <1>1, <1>5, <3>5
      <4>2. k + 1 \in 1 .. Len(m) /\ n[1] = m[k + 1]
        BY <1>5, <4>1
      <4>3. m[k + 1] - m[i] = (k + 1) - i /\ m[k + 1] \in Nat
        BY <1>1, <4>2
      <4> QED
        BY <2>2, <3>3, <3>4, <4>2, <4>3
    <3> QED
      BY <1>3, <2>1, <2>2, <3>1, <3>2, <3>3, <3>4, <3>5
  <2>3. CASE i > k
    <3>1. i - k \in 1 .. Len(n) /\ n[i - k] = m[k + (i - k)] /\ k + (i - k) = i
      BY <1>1, <1>5, <2>3
    <3> QED
      BY <3>1
  <2> QED
    BY <2>2, <2>3
<1> QED
  BY <1>6, <1>7, <1>9, <1>10 DEF n

\* The mode of the search, and the checkpoint after it.
LEMMA SearchIs ==
    ASSUME Typed, NEW m \in Manifests,
           last' = [last EXCEPT !.useTime = SearchUsesTime(m, last)]
    PROVE  /\ last'.name = last.name /\ last'.rank = last.rank /\ last'.time = last.time
           /\ last'.useTime = SearchUsesTime(m, last)
           /\ last'.useTime => last.useTime
<1>1. /\ last'.name = last.name /\ last'.rank = last.rank /\ last'.time = last.time
      /\ last'.useTime = SearchUsesTime(m, last)
  BY DEF Typed, TypeOK, Checkpoints
<1>2. SearchUsesTime(m, last) => last.useTime
  BY DEF SearchUsesTime, TimeUsedAt
<1> QED
  BY <1>1, <1>2

\* What a step that queues a fragment does, in a regular server or not.
LEMMA QueueFragmentIs ==
    ASSUME Typed, QueueFragment
    PROVE  /\ todo \in Seq(Fragments) /\ Len(todo) \in Nat /\ 1 \in 1 .. Len(todo)
           /\ todo[1] \in Fragments
           /\ last' = Advance(last, todo[1]) /\ last' \in Checkpoints
           /\ last'.name = todo[1] /\ last'.rank = server.names[todo[1]]
           /\ last'.useTime => last.useTime /\ last'.time = todo[1]
           /\ queued' = queued \cup {todo[1]}
           /\ todo' \in Seq(Fragments) /\ Len(todo') = Len(todo) - 1
           /\ \A i \in 1 .. Len(todo') : i + 1 \in 1 .. Len(todo) /\ todo'[i] = todo[i + 1]
           /\ Len(urls) \in Nat /\ Len(urls') = Len(urls) + 1
           /\ (\A i \in 1 .. Len(urls) : urls'[i] = urls[i])
           /\ urls'[Len(urls) + 1] = todo[1]
           /\ fq = "push" /\ fq' = "push"
           /\ UNCHANGED <<server, live, window, written, read, url, restart, older>>
<1>1. /\ todo \in Seq(Fragments) /\ todo # << >> /\ urls \in Seq(Fragments)
      /\ last \in Checkpoints
      /\ last' = Advance(last, Head(todo)) /\ todo' = Tail(todo)
      /\ queued' = queued \cup {Head(todo)} /\ urls' = Append(urls, Head(todo))
      /\ fq = "push" /\ fq' = "push"
      /\ UNCHANGED <<server, live, window, written, read, url, restart, older>>
  BY DEF QueueFragment, Typed, TypeOK
<1>2. /\ Len(todo) \in Nat /\ 1 \in 1 .. Len(todo) /\ Head(todo) = todo[1]
      /\ todo[1] \in Fragments
      /\ todo' \in Seq(Fragments) /\ Len(todo') = Len(todo) - 1
      /\ \A i \in 1 .. Len(todo') : i + 1 \in 1 .. Len(todo) /\ todo'[i] = todo[i + 1]
  BY <1>1, Taken
<1>3. /\ Len(urls) \in Nat /\ Len(urls') = Len(urls) + 1
      /\ (\A i \in 1 .. Len(urls) : urls'[i] = urls[i]) /\ urls'[Len(urls) + 1] = todo[1]
  BY <1>1, <1>2, Pushed
<1>4. /\ last' \in Checkpoints
      /\ last'.name = todo[1] /\ last'.rank = server.names[todo[1]]
      /\ last'.useTime => last.useTime /\ last'.time = todo[1]
  <2>1. /\ Advance(last, todo[1]) \in Checkpoints
        /\ Advance(last, todo[1]).name = todo[1]
        /\ Advance(last, todo[1]).rank = server.names[todo[1]]
        /\ Advance(last, todo[1]).useTime =>
             last.useTime /\ Advance(last, todo[1]).time = todo[1]
    BY <1>1, <1>2, AdvanceIs DEF Typed
  <2>2. last' = Advance(last, todo[1])
    BY <1>1, <1>2
  <2> QED
    BY <2>1, <2>2
<1> QED
  BY <1>1, <1>2, <1>3, <1>4

\* What the variables that the proofs compare are.
LEMMA Numbers ==
    ASSUME Typed
    PROVE  /\ last.name \in Nat /\ live \in Nat /\ \A f \in queued : f \in Nat
           /\ Len(todo) \in Nat /\ \A i \in 1 .. Len(todo) : todo[i] \in Nat
           /\ Len(urls) \in Nat /\ \A i \in 1 .. Len(urls) : urls[i] \in Nat
           /\ Len(written) \in Nat /\ \A i \in 1 .. Len(written) : written[i] \in Nat
           /\ url \in Nat /\ Floor \in Nat /\ Oldest \in Nat /\ restart \in Nat
<1>1. /\ last.name \in Nat /\ live \in Nat /\ (\A f \in queued : f \in Nat) /\ url \in Nat
      /\ restart \in Nat
  BY ServerType DEF Typed, TypeOK, Checkpoints
<1>2. todo \in Seq(Fragments) /\ urls \in Seq(Fragments) /\ written \in Seq(Fragments)
  BY DEF Typed, TypeOK
<1>3. \A i \in 1 .. Len(todo) : todo[i] \in Nat
  BY <1>2
<1>4. \A i \in 1 .. Len(urls) : urls[i] \in Nat
  BY <1>2
<1>5. \A i \in 1 .. Len(written) : written[i] \in Nat
  BY <1>2
<1>6. Len(todo) \in Nat /\ Len(urls) \in Nat /\ Len(written) \in Nat
  BY <1>2
<1>7. Floor \in Nat /\ Oldest \in Nat
  BY <1>1 DEF Floor, Oldest
<1> QED
  BY <1>1, <1>3, <1>4, <1>5, <1>6, <1>7

\* What the next Read starts with.
LEMMA ResumeIs ==
    ASSUME Handover, Resume
    PROVE  /\ last' = last \/ last' = DefaultCheckpoint
           /\ fq' = "fetch" /\ read' = "select" /\ urls' = << >>
           /\ server'.caches = server.caches
           /\ UNCHANGED <<live, written, queued, older>>
           /\ \/ restart' = Len(written)
              \/ /\ restart' = restart /\ last' = last
                 /\ server'.names = server.names
<1>1. PICK s \in Servers :
        /\ s.caches = server.caches /\ server' = s
        /\ restart' = IF ret.cp.name = 0 \/ s.names # server.names
                      THEN Len(written) ELSE restart
  BY DEF Resume
<1>2. /\ read = "done" /\ last' = ret.cp /\ fq' = "fetch" /\ read' = "select"
      /\ urls' = << >> /\ UNCHANGED <<live, written, queued, older>>
  BY DEF Resume
<1>3. ret.cp = last \/ ret.cp = DefaultCheckpoint
  BY <1>2 DEF Handover
<1>4. ret.cp = DefaultCheckpoint => ret.cp.name = 0
  BY DEF DefaultCheckpoint
<1> QED
  BY <1>1, <1>2, <1>3, <1>4

-----------------------------------------------------------------------------
(* fillQueue moves forward.                                                *)

LEMMA NextPosition == Typed /\ Handover /\ Position /\ Todo /\ [Next]_vars => Position'
<1> SUFFICES ASSUME Typed, Handover, Position, Todo, [Next]_vars PROVE Position'
  OBVIOUS
<1> USE DEF Position
<1>1. CASE Publish
  <2>1. live' = live + 1 /\ last' = last
    BY <1>1 DEF Publish
  <2> QED
    BY <2>1, Numbers
<1>2. CASE ThirtySeconds
  BY <1>2 DEF ThirtySeconds
<1>3. CASE CallerCancel
  BY <1>3 DEF CallerCancel
<1>4. CASE Resume
  <2>1. live' = live /\ (last' = last \/ last' = DefaultCheckpoint)
    BY <1>4, ResumeIs
  <2> QED
    BY <2>1, Numbers DEF DefaultCheckpoint
<1>5. CASE FetchTolerated
  BY <1>5 DEF FetchTolerated, FillQueueReturns
<1>6. CASE FetchFailed
  BY <1>6 DEF FetchFailed, FillQueueReturns
<1>7. CASE FetchManifest
  <2>1. PICK m \in Manifests : last' = [last EXCEPT !.useTime = SearchUsesTime(m, last)]
    BY <1>7 DEF FetchManifest
  <2>2. live' = live
    BY <1>7 DEF FetchManifest
  <2> QED
    BY <2>1, <2>2, SearchIs
<1>8. CASE QueueFragment
  BY <1>8, QueueFragmentIs DEF Todo
<1>9. CASE EndOfStream
  BY <1>9 DEF EndOfStream, FillQueueReturns
<1>10. CASE Pause
  BY <1>10 DEF Pause
<1>11. CASE PauseEnds
  BY <1>11 DEF PauseEnds
<1>12. CASE SendCheckpoint
  BY <1>12 DEF SendCheckpoint
<1>13. CASE TakeUrl
  BY <1>13 DEF TakeUrl
<1>14. CASE Downloaded
  BY <1>14 DEF Downloaded
<1>15. CASE DownloadCanceled
  BY <1>15 DEF DownloadCanceled
<1>16. CASE DownloadForbidden
  BY <1>16 DEF DownloadForbidden
<1>17. CASE DownloadLost
  BY <1>17 DEF DownloadLost
<1>18. CASE TakeError
  BY <1>18 DEF TakeError
<1>19. CASE TakeCheckpoint
  BY <1>19 DEF TakeCheckpoint, Returns
<1>20. CASE NoCheckpoint
  BY <1>20 DEF NoCheckpoint, Returns
<1>21. CASE UNCHANGED vars
  BY <1>21 DEF vars
<1>22. CASE LateCheckpoint
  BY <1>22 DEF LateCheckpoint
<1> QED
  BY <1>1, <1>2, <1>3, <1>4, <1>5, <1>6, <1>7, <1>8, <1>9, <1>10,
     <1>11, <1>12, <1>13, <1>14, <1>15, <1>16, <1>17, <1>18, <1>19, <1>20, <1>21,
     <1>22
  DEF Next, Around, FillQueue, Earlier, Read, Terminated

\* The steps that leave the checkpoint and the playlist alone.
LEMMA SameFloor ==
    ASSUME UNCHANGED <<server, last, older>>
    PROVE  (Regular' <=> Regular) /\ Floor' = Floor
  BY DEF Regular, OrderedNames, Floor, Rank

LEMMA NextTodo == Typed /\ Position /\ Todo /\ [Next]_vars => Todo'
<1> SUFFICES ASSUME Typed, Position, Todo, [Next]_vars PROVE Todo'
  OBVIOUS
<1> USE DEF Todo
<1>1. CASE Publish
  <2>1. live' = live + 1 /\ UNCHANGED <<server, older, last, todo, fq>>
    BY <1>1 DEF Publish
  <2>2. (Regular' <=> Regular) /\ Floor' = Floor
    BY <2>1 DEF Regular, OrderedNames, Floor, Rank
  <2>3. ASSUME fq = "push", NEW i \in 1 .. Len(todo) PROVE todo[i] <= live'
    BY <2>1, <2>3, Numbers
  <2> QED
    BY <2>1, <2>2, <2>3
<1>2. CASE ThirtySeconds
  BY <1>2, SameFloor DEF ThirtySeconds
<1>3. CASE CallerCancel
  BY <1>3, SameFloor DEF CallerCancel
<1>4. CASE Resume
  BY <1>4, SameFloor DEF Resume
<1>5. CASE FetchTolerated
  BY <1>5, SameFloor DEF FetchTolerated, FillQueueReturns
<1>6. CASE FetchFailed
  BY <1>6, SameFloor DEF FetchFailed, FillQueueReturns
<1>7. CASE FetchManifest
  <2>1. PICK m \in Manifests :
          /\ todo' = NewFragments(m, last)
          /\ last' = [last EXCEPT !.useTime = SearchUsesTime(m, last)]
          /\ older' = older + (IF m \in {<< >>, LastFragments} THEN 0 ELSE 1)
    BY <1>7 DEF FetchManifest
  <2>2. UNCHANGED <<server, live>> /\ last'.name = last.name /\ last'.rank = last.rank
    BY <1>7, <2>1, SearchIs DEF FetchManifest
  <2>3. Floor' = Floor
    BY <2>2 DEF Floor, Rank
  <2>4. Regular' => OrderedNames(server) \/ m \in {<< >>, LastFragments}
    <3>1. older \in Nat
      BY DEF Typed, TypeOK
    <3>2. older' = 0 => m \in {<< >>, LastFragments}
      BY <2>1, <3>1
    <3> QED
      BY <2>2, <3>2 DEF Regular, OrderedNames
  <2> QED
    BY SMTT(30), <2>1, <2>2, <2>3, <2>4, PollQueues
<1>8. CASE QueueFragment
  <2>1. Regular' <=> Regular
    BY <1>8, QueueFragmentIs DEF Regular, OrderedNames
  <2>2. Floor' = todo[1]
    BY <1>8, QueueFragmentIs DEF Floor, Rank
  <2> SUFFICES ASSUME NEW i \in 1 .. Len(todo')
               PROVE  /\ todo[1] < todo'[i] /\ todo'[i] <= live
                      /\ \A j \in 1 .. Len(todo') : todo'[j] - todo'[i] = j - i
    BY <1>8, <2>1, <2>2, QueueFragmentIs
  <2>3. /\ 1 \in 1 .. Len(todo) /\ i + 1 \in 1 .. Len(todo) /\ todo'[i] = todo[i + 1]
        /\ todo[1] \in Nat /\ todo[i + 1] \in Nat /\ fq = "push"
    BY <1>8, QueueFragmentIs, Numbers
  <2>4. todo[i + 1] - todo[1] = (i + 1) - 1 /\ todo[i + 1] <= live
    BY <2>3
  <2>5. ASSUME NEW j \in 1 .. Len(todo') PROVE todo'[j] - todo'[i] = j - i
    <3>1. j + 1 \in 1 .. Len(todo) /\ todo'[j] = todo[j + 1]
      BY <1>8, QueueFragmentIs
    <3>2. todo[j + 1] - todo[i + 1] = (j + 1) - (i + 1)
      BY <2>3, <3>1
    <3> QED
      BY <2>3, <3>1, <3>2
  <2> QED
    BY <2>3, <2>4, <2>5
<1>9. CASE EndOfStream
  BY <1>9, SameFloor DEF EndOfStream, FillQueueReturns
<1>10. CASE Pause
  BY <1>10, SameFloor DEF Pause
<1>11. CASE PauseEnds
  BY <1>11, SameFloor DEF PauseEnds
<1>12. CASE SendCheckpoint
  BY <1>12, SameFloor DEF SendCheckpoint
<1>13. CASE TakeUrl
  BY <1>13, SameFloor DEF TakeUrl
<1>14. CASE Downloaded
  BY <1>14, SameFloor DEF Downloaded
<1>15. CASE DownloadCanceled
  BY <1>15, SameFloor DEF DownloadCanceled
<1>16. CASE DownloadForbidden
  BY <1>16, SameFloor DEF DownloadForbidden
<1>17. CASE DownloadLost
  BY <1>17, SameFloor DEF DownloadLost
<1>18. CASE TakeError
  BY <1>18, SameFloor DEF TakeError
<1>19. CASE TakeCheckpoint
  BY <1>19, SameFloor DEF TakeCheckpoint, Returns
<1>20. CASE NoCheckpoint
  BY <1>20, SameFloor DEF NoCheckpoint, Returns
<1>21. CASE UNCHANGED vars
  BY <1>21, SameFloor DEF vars
<1>22. CASE LateCheckpoint
  BY <1>22, SameFloor DEF LateCheckpoint
<1> QED
  BY <1>1, <1>2, <1>3, <1>4, <1>5, <1>6, <1>7, <1>8, <1>9, <1>10,
     <1>11, <1>12, <1>13, <1>14, <1>15, <1>16, <1>17, <1>18, <1>19, <1>20, <1>21,
     <1>22
  DEF Next, Around, FillQueue, Earlier, Read, Terminated

LEMMA NextQueue == Typed /\ Handover /\ Todo /\ Queue /\ [Next]_vars => Queue'
<1> SUFFICES ASSUME Typed, Handover, Todo, Queue, [Next]_vars PROVE Queue'
  OBVIOUS
<1> USE DEF Queue
<1>1. CASE Publish
  BY <1>1, SameFloor DEF Publish
<1>2. CASE ThirtySeconds
  BY <1>2, SameFloor DEF ThirtySeconds
<1>3. CASE CallerCancel
  BY <1>3, SameFloor DEF CallerCancel
<1>4. CASE Resume
  <2>1. CASE restart' = Len(written)
    <3>1. /\ urls' = << >> /\ read' = "select" /\ written' = written /\ Len(written) \in Nat
      BY <1>4, ResumeIs, Numbers
    <3>2. \A i \in 1 .. Len(written) : ~ (restart' < i)
      BY <2>1, <3>1
    <3> QED
      BY <3>1, <3>2
  <2>2. CASE restart' = restart /\ last' = last /\ server'.names = server.names
    <3>1. /\ urls' = << >> /\ read' = "select" /\ UNCHANGED <<written, older>>
      BY <1>4, ResumeIs
    <3>2. (Regular' <=> Regular) /\ Floor' = Floor
      BY <2>2, <3>1 DEF Regular, OrderedNames, Floor, Rank
    <3> QED
      BY <2>2, <3>1, <3>2
  <2> QED
    BY <1>4, <2>1, <2>2, ResumeIs
<1>5. CASE FetchTolerated
  BY <1>5, SameFloor DEF FetchTolerated, FillQueueReturns
<1>6. CASE FetchFailed
  BY <1>6, SameFloor DEF FetchFailed, FillQueueReturns
<1>7. CASE FetchManifest
  <2>1. PICK m \in Manifests :
          /\ last' = [last EXCEPT !.useTime = SearchUsesTime(m, last)]
          /\ older' = older + (IF m \in {<< >>, LastFragments} THEN 0 ELSE 1)
    BY <1>7 DEF FetchManifest
  <2>2. /\ last'.name = last.name /\ last'.rank = last.rank
        /\ UNCHANGED <<server, urls, read, url, written, restart>>
    BY <1>7, <2>1, SearchIs DEF FetchManifest
  <2>3. Floor' = Floor
    BY <2>2 DEF Floor, Rank
  <2>4. Regular' => Regular
    <3>1. older \in Nat
      BY DEF Typed, TypeOK
    <3>2. older' = 0 => older = 0
      BY <2>1, <3>1
    <3> QED
      BY <2>2, <3>2 DEF Regular, OrderedNames
  <2> QED
    BY <2>2, <2>3, <2>4
<1>8. CASE QueueFragment
  <2>1. Regular' <=> Regular
    BY <1>8, QueueFragmentIs DEF Regular, OrderedNames
  <2>2. /\ Floor' = todo[1] /\ UNCHANGED <<written, read, url, restart>>
        /\ Len(urls') = Len(urls) + 1 /\ urls'[Len(urls) + 1] = todo[1]
        /\ \A i \in 1 .. Len(urls) : urls'[i] = urls[i]
    BY <1>8, QueueFragmentIs DEF Floor, Rank
  <2>3. (Regular => Floor < todo[1]) /\ todo[1] \in Nat
    BY <1>8, QueueFragmentIs, Numbers DEF Todo
  <2>4. ASSUME Regular, NEW j \in 1 .. Len(urls')
        PROVE  \/ j \in 1 .. Len(urls) /\ urls'[j] = urls[j] /\ urls[j] < todo[1]
               \/ j = Len(urls) + 1 /\ urls'[j] = todo[1]
    BY SMTT(30), <2>2, <2>3, <2>4, Numbers
  <2>5. Regular => \A i, j \in 1 .. Len(urls') : i < j => urls'[i] < urls'[j]
    <3> SUFFICES ASSUME Regular, NEW i \in 1 .. Len(urls'), NEW j \in 1 .. Len(urls'), i < j
                 PROVE  urls'[i] < urls'[j]
      OBVIOUS
    <3>1. i \in 1 .. Len(urls) /\ urls'[i] = urls[i] /\ urls[i] < todo[1]
      BY <2>2, <2>4, Numbers
    <3> QED
      BY <2>4, <3>1
  <2>6. ASSUME Regular, NEW i \in 1 .. Len(written), restart < i
        PROVE  /\ written[i] <= todo[1]
               /\ \A j \in 1 .. Len(urls') : written[i] < urls'[j]
    <3>1. written[i] < todo[1]
      BY <2>3, <2>6, Numbers
    <3>2. written[i] <= todo[1]
      BY <2>3, <2>6, <3>1, Numbers
    <3>3. \A j \in 1 .. Len(urls) : written[i] < urls[j]
      BY <2>6
    <3> QED
      BY <2>4, <2>6, <3>1, <3>2, <3>3
  <2>7. ASSUME Regular, read = "download"
        PROVE  url <= todo[1] /\ \A j \in 1 .. Len(urls') : url < urls'[j]
    <3>1. url < todo[1]
      BY <2>3, <2>7, Numbers
    <3>2. \A j \in 1 .. Len(urls) : url < urls[j]
      BY <2>7
    <3>3. url <= todo[1]
      BY <2>3, <3>1, Numbers
    <3> QED
      BY <2>4, <2>7, <3>1, <3>2, <3>3
  <2>8. ASSUME Regular, NEW j \in 1 .. Len(urls') PROVE urls'[j] <= todo[1]
    <3>1. j \in 1 .. Len(urls) => urls[j] \in Nat
      BY Numbers
    <3> QED
      BY <2>3, <2>4, <2>8, <3>1
  <2> QED
    BY <2>1, <2>2, <2>5, <2>6, <2>7, <2>8
<1>9. CASE EndOfStream
  BY <1>9, SameFloor DEF EndOfStream, FillQueueReturns
<1>10. CASE Pause
  BY <1>10, SameFloor DEF Pause
<1>11. CASE PauseEnds
  BY <1>11, SameFloor DEF PauseEnds
<1>12. CASE SendCheckpoint
  BY <1>12, SameFloor DEF SendCheckpoint
<1>13. CASE TakeUrl
  <2>1. /\ UNCHANGED <<server, last, older, written, restart>> /\ read' = "download"
        /\ read = "select" /\ urls # << >> /\ urls' = Tail(urls) /\ url' = Head(urls)
    BY <1>13 DEF TakeUrl
  <2>2. /\ Len(urls) \in Nat /\ 1 \in 1 .. Len(urls) /\ url' = urls[1]
        /\ \A i \in 1 .. Len(urls') : i + 1 \in 1 .. Len(urls) /\ urls'[i] = urls[i + 1]
        /\ Len(urls') = Len(urls) - 1
    BY <2>1, Taken DEF Typed, TypeOK
  <2> QED
    BY <2>1, <2>2, SameFloor
<1>14. CASE Downloaded
  <2>1. /\ UNCHANGED <<server, last, older, urls, restart>> /\ read' = "select"
        /\ read = "download" /\ written' = Append(written, url)
        /\ url \in Fragments /\ written \in Seq(Fragments)
    BY <1>14 DEF Downloaded, Typed, TypeOK
  <2>2. /\ Len(written) \in Nat /\ Len(written') = Len(written) + 1
        /\ (\A i \in 1 .. Len(written) : written'[i] = written[i])
        /\ written'[Len(written) + 1] = url
    BY <2>1, Pushed
  <2>3. ASSUME NEW i \in 1 .. Len(written')
        PROVE  i \in 1 .. Len(written) \/ i = Len(written) + 1
    BY <2>2
  <2> QED
    BY <2>1, <2>2, <2>3, SameFloor
<1>15. CASE DownloadCanceled
  BY <1>15, SameFloor DEF DownloadCanceled
<1>16. CASE DownloadForbidden
  BY <1>16, SameFloor DEF DownloadForbidden
<1>17. CASE DownloadLost
  BY <1>17, SameFloor DEF DownloadLost
<1>18. CASE TakeError
  BY <1>18, SameFloor DEF TakeError
<1>19. CASE TakeCheckpoint
  BY <1>19, SameFloor DEF TakeCheckpoint, Returns
<1>20. CASE NoCheckpoint
  BY <1>20, SameFloor DEF NoCheckpoint, Returns
<1>21. CASE UNCHANGED vars
  BY <1>21, SameFloor DEF vars
<1>22. CASE LateCheckpoint
  BY <1>22, SameFloor DEF LateCheckpoint
<1> QED
  BY <1>1, <1>2, <1>3, <1>4, <1>5, <1>6, <1>7, <1>8, <1>9, <1>10,
     <1>11, <1>12, <1>13, <1>14, <1>15, <1>16, <1>17, <1>18, <1>19, <1>20, <1>21,
     <1>22
  DEF Next, Around, FillQueue, Earlier, Read, Terminated

LEMMA NextRecent == Typed /\ Handover /\ Position /\ Todo /\ Recent /\ [Next]_vars => Recent'
<1> SUFFICES ASSUME Typed, Handover, Position, Todo, Recent, [Next]_vars PROVE Recent'
  OBVIOUS
<1> USE DEF Recent
<1>1. CASE Publish
  <2>1. live' = live + 1 /\ UNCHANGED <<server, todo, fq, urls, read, url, written, queued>>
    BY <1>1 DEF Publish
  <2>2. \A f \in queued : f <= live'
    BY <2>1, Numbers
  <2> QED
    BY <2>1, <2>2
<1>2. CASE ThirtySeconds
  BY <1>2 DEF ThirtySeconds
<1>3. CASE CallerCancel
  BY <1>3 DEF CallerCancel
<1>4. CASE Resume
  <2>1. /\ fq' = "fetch" /\ read' = "select" /\ urls' = << >>
        /\ server'.caches = server.caches /\ UNCHANGED <<live, written, queued>>
    BY <1>4, ResumeIs
  <2> QED
    BY <2>1
<1>5. CASE FetchTolerated
  BY <1>5 DEF FetchTolerated, FillQueueReturns
<1>6. CASE FetchFailed
  BY <1>6 DEF FetchFailed, FillQueueReturns
<1>7. CASE FetchManifest
  <2>1. PICK m \in Manifests : todo' = NewFragments(m, last)
    BY <1>7 DEF FetchManifest
  <2>2. UNCHANGED <<server, live, urls, read, url, written, queued>>
    BY <1>7 DEF FetchManifest
  <2>3. ASSUME ~server.caches, NEW f \in queued, NEW i \in 1 .. Len(todo')
        PROVE  f < todo'[i] + WindowMax
    <3>1. live < todo'[i] + WindowMax
      BY <2>1, <2>3, PollQueues
    <3>2. f <= live /\ f \in Nat /\ live \in Nat
      BY <2>3, Numbers
    <3>3. todo'[i] \in Nat
      <4>1. todo' \in Seq(Fragments)
        BY <2>1, ManifestIs, NewFragmentsAre DEF Follows, Typed
      <4> QED
        BY <2>3, <4>1
    <3> QED
      BY <3>1, <3>2, <3>3
  <2> QED
    BY <2>2, <2>3
<1>8. CASE QueueFragment
  <2>1. /\ UNCHANGED <<server, live, written, read, url>> /\ fq = "push" /\ fq' = "push"
        /\ queued' = queued \cup {todo[1]} /\ todo[1] \in Nat /\ 1 \in 1 .. Len(todo)
        /\ Len(todo') = Len(todo) - 1 /\ Len(todo) \in Nat
        /\ \A i \in 1 .. Len(todo') : i + 1 \in 1 .. Len(todo) /\ todo'[i] = todo[i + 1]
        /\ Len(urls) \in Nat /\ Len(urls') = Len(urls) + 1
        /\ \A i \in 1 .. Len(urls) : urls'[i] = urls[i]
        /\ urls'[Len(urls) + 1] = todo[1]
    BY <1>8, QueueFragmentIs
  <2>2. ASSUME NEW j \in 1 .. Len(urls')
        PROVE  (j \in 1 .. Len(urls) /\ urls'[j] = urls[j]) \/ j = Len(urls) + 1
    BY <2>1
  <2>3. \A f \in queued' : f <= live
    <3>1. todo[1] <= live
      BY <2>1 DEF Todo
    <3> QED
      BY <2>1, <3>1
  <2>4. \A i \in 1 .. Len(urls') : urls'[i] \in queued'
    BY <2>1, <2>2
  <2>5. ASSUME ~server.caches PROVE \A f \in queued : f < todo[1] + WindowMax
    BY <2>1, <2>5
  <2>6. ASSUME ~server.caches, NEW f \in queued', NEW i \in 1 .. Len(todo')
        PROVE  f < todo'[i] + WindowMax
    <3>1. i + 1 \in 1 .. Len(todo) /\ todo'[i] = todo[i + 1] /\ todo[i + 1] \in Nat
      BY <2>1, Numbers
    <3>2. CASE f \in queued
      BY <2>1, <2>6, <3>1, <3>2
    <3>3. CASE f = todo[1]
      <4>1. todo[i + 1] - todo[1] = (i + 1) - 1 /\ i \in Nat
        BY <2>1, <3>1 DEF Todo
      <4> QED
        BY <2>1, <3>1, <3>3, <4>1
    <3> QED
      BY <2>1, <3>2, <3>3
  <2>7. ASSUME ~server.caches, NEW i \in 1 .. Len(urls'), NEW j \in 1 .. Len(urls'), i < j
        PROVE  urls'[i] < urls'[j] + WindowMax
    <3>1. i \in 1 .. Len(urls) /\ urls'[i] = urls[i] /\ urls[i] \in queued
      BY <2>1, <2>2, <2>7
    <3> QED
      BY <2>1, <2>2, <2>5, <2>7, <3>1
  <2>8. ASSUME ~server.caches, NEW i \in 1 .. Len(written), NEW j \in 1 .. Len(urls')
        PROVE  written[i] < urls'[j] + WindowMax
    <3>1. written[i] < todo[1] + WindowMax
      BY <2>5, <2>8
    <3>2. j \in 1 .. Len(urls) => written[i] < urls[j] + WindowMax
      BY <2>8
    <3> QED
      BY <2>1, <2>2, <3>1, <3>2
  <2>9. ASSUME ~server.caches, read = "download", NEW j \in 1 .. Len(urls')
        PROVE  url < urls'[j] + WindowMax
    <3>1. url < todo[1] + WindowMax
      BY <2>5, <2>9
    <3>2. j \in 1 .. Len(urls) => url < urls[j] + WindowMax
      BY <2>9
    <3> QED
      BY <2>1, <2>2, <3>1, <3>2
  <2>10. /\ \A i \in 1 .. Len(written) : written[i] \in queued'
         /\ read = "download" => url \in queued'
    BY <2>1
  <2> QED
    BY <2>1, <2>3, <2>4, <2>6, <2>7, <2>8, <2>9, <2>10
<1>9. CASE EndOfStream
  BY <1>9 DEF EndOfStream, FillQueueReturns
<1>10. CASE Pause
  BY <1>10 DEF Pause
<1>11. CASE PauseEnds
  BY <1>11 DEF PauseEnds
<1>12. CASE SendCheckpoint
  BY <1>12 DEF SendCheckpoint
<1>13. CASE TakeUrl
  <2>1. /\ UNCHANGED <<server, live, fq, todo, written, queued>> /\ read' = "download"
        /\ read = "select" /\ urls # << >> /\ urls' = Tail(urls) /\ url' = Head(urls)
    BY <1>13 DEF TakeUrl
  <2>2. /\ Len(urls) \in Nat /\ 1 \in 1 .. Len(urls) /\ url' = urls[1]
        /\ \A i \in 1 .. Len(urls') : i + 1 \in 1 .. Len(urls) /\ urls'[i] = urls[i + 1]
        /\ Len(urls') = Len(urls) - 1
    BY <2>1, Taken DEF Typed, TypeOK
  <2> QED
    BY <2>1, <2>2
<1>14. CASE Downloaded
  <2>1. /\ UNCHANGED <<server, live, fq, todo, urls, queued>> /\ read' = "select"
        /\ read = "download" /\ written' = Append(written, url)
        /\ url \in Fragments /\ written \in Seq(Fragments)
    BY <1>14 DEF Downloaded, Typed, TypeOK
  <2>2. /\ Len(written) \in Nat /\ Len(written') = Len(written) + 1
        /\ (\A i \in 1 .. Len(written) : written'[i] = written[i])
        /\ written'[Len(written) + 1] = url
    BY <2>1, Pushed
  <2>3. ASSUME NEW i \in 1 .. Len(written')
        PROVE  i \in 1 .. Len(written) \/ i = Len(written) + 1
    BY <2>2
  <2>4. \A i \in 1 .. Len(written') : written'[i] \in queued
    BY <2>1, <2>2, <2>3
  <2>5. ASSUME ~server.caches, NEW i \in 1 .. Len(written'), NEW j \in 1 .. Len(written'),
               i < j
        PROVE  written'[i] < written'[j] + WindowMax
    <3>1. i \in 1 .. Len(written) /\ written'[i] = written[i]
      BY <2>2, <2>3, <2>5
    <3> QED
      BY <2>1, <2>2, <2>3, <2>5, <3>1
  <2>6. ASSUME ~server.caches, NEW i \in 1 .. Len(written'), NEW j \in 1 .. Len(urls)
        PROVE  written'[i] < urls[j] + WindowMax
    BY <2>1, <2>2, <2>3, <2>6
  <2> QED
    BY <2>1, <2>4, <2>5, <2>6
<1>15. CASE DownloadCanceled
  BY <1>15 DEF DownloadCanceled
<1>16. CASE DownloadForbidden
  BY <1>16 DEF DownloadForbidden
<1>17. CASE DownloadLost
  BY <1>17 DEF DownloadLost
<1>18. CASE TakeError
  BY <1>18 DEF TakeError
<1>19. CASE TakeCheckpoint
  BY <1>19 DEF TakeCheckpoint, Returns
<1>20. CASE NoCheckpoint
  BY <1>20 DEF NoCheckpoint, Returns
<1>21. CASE UNCHANGED vars
  BY <1>21 DEF vars
<1>22. CASE LateCheckpoint
  BY <1>22 DEF LateCheckpoint
<1> QED
  BY <1>1, <1>2, <1>3, <1>4, <1>5, <1>6, <1>7, <1>8, <1>9, <1>10,
     <1>11, <1>12, <1>13, <1>14, <1>15, <1>16, <1>17, <1>18, <1>19, <1>20, <1>21,
     <1>22
  DEF Next, Around, FillQueue, Earlier, Read, Terminated

-----------------------------------------------------------------------------
(* What is still listed was not left out.                                  *)

LEMMA NextListed == Typed /\ Handover /\ Position /\ Todo /\ Listed /\ [Next]_vars => Listed'
<1> SUFFICES ASSUME Typed, Handover, Position, Todo, Listed, [Next]_vars PROVE Listed'
  OBVIOUS
<1> USE DEF Listed, Settled, Oldest
<1>1. CASE Publish
  <2> HIDE DEF Oldest
  <2>1. live' = live + 1 /\ UNCHANGED <<server, last, todo, fq, window, queued>>
    BY <1>1 DEF Publish
  <2>2. Oldest \in Nat /\ Oldest' \in Nat /\ Oldest <= Oldest'
    BY SMTT(30), <2>1, Numbers DEF Oldest
  <2>4. ASSUME last.useTime /\ ~server.caches, NEW f \in Fragments,
               Oldest' <= f, f <= last.name
        PROVE  Settled(f, queued)
    BY <2>2, <2>4
  <2>5. ASSUME todo[1] <= last.name + 1 \/ todo[1] <= Oldest, fq = "push", todo # << >>
        PROVE  todo[1] <= last.name + 1 \/ todo[1] <= Oldest'
    <3>1. todo[1] \in Nat
      BY <2>5 DEF Typed, TypeOK
    <3> QED
      BY <2>2, <2>5, <3>1
  <2> QED
    BY <2>1, <2>4, <2>5
<1>2. CASE ThirtySeconds
  BY <1>2 DEF ThirtySeconds
<1>3. CASE CallerCancel
  BY <1>3 DEF CallerCancel
<1>4. CASE Resume
  <2> HIDE DEF Oldest
  <2>1. /\ fq' = "fetch" /\ server'.caches = server.caches /\ UNCHANGED <<live, queued>>
        /\ last' = last \/ last' = DefaultCheckpoint
    BY <1>4, ResumeIs
  <2>2. Oldest' = Oldest
    BY <2>1 DEF Oldest
  <2>3. last' = DefaultCheckpoint => \A f \in Fragments : ~ (f <= last'.name)
    BY DEF DefaultCheckpoint
  <2> QED
    BY <2>1, <2>2, <2>3
<1>5. CASE FetchTolerated
  BY <1>5 DEF FetchTolerated, FillQueueReturns
<1>6. CASE FetchFailed
  BY <1>6 DEF FetchFailed, FillQueueReturns
<1>7. CASE FetchManifest
  <2> HIDE DEF Oldest
  <2>1. PICK m \in Manifests :
          /\ window' = m
          /\ todo' = NewFragments(m, last)
          /\ last' = [last EXCEPT !.useTime = SearchUsesTime(m, last)]
    BY <1>7 DEF FetchManifest
  <2>2. /\ UNCHANGED <<server, live, queued>> /\ fq' = "push" /\ last'.name = last.name
        /\ last'.useTime = SearchUsesTime(m, last) /\ (last'.useTime => last.useTime)
    BY <1>7, <2>1, SearchIs DEF FetchManifest
  <2>3. Oldest' = Oldest
    BY <2>2 DEF Oldest
  <2> SUFFICES ASSUME last'.useTime, ~server.caches PROVE Listed'
    BY <2>2
  <2>4. /\ todo' # << >> => todo'[1] <= last.name + 1 \/ todo'[1] <= Oldest
        /\ \A i \in 1 .. Len(m) :
             \/ m[i] <= last.name /\ Oldest <= m[i] /\ (todo' # << >> => m[i] < todo'[1])
             \/ \E j \in 1 .. Len(todo') : m[i] = todo'[j]
    <3> DEFINE n == NewFragments(m, last)
    <3>1. SearchUsesTime(m, last) /\ todo' = n
      BY <2>1, <2>2
    <3>2. /\ n # << >> => n[1] <= last.name + 1 \/ n[1] <= Oldest
          /\ \A i \in 1 .. Len(m) :
               \/ m[i] <= last.name /\ Oldest <= m[i] /\ (n # << >> => m[i] < n[1])
               \/ \E j \in 1 .. Len(n) : m[i] = n[j]
      BY <3>1, PollQueues, Zenon
    <3> HIDE DEF n
    <3> QED
      BY <3>1, <3>2
  <2>5. \A i \in 1 .. Len(m) : m[i] \in Fragments
    BY ManifestIs DEF Typed
  <2> QED
    BY <2>1, <2>2, <2>3, <2>4, <2>5
<1>8. CASE QueueFragment
  <2> HIDE DEF Oldest
  <2>1. Oldest' = Oldest /\ Oldest \in Nat /\ server' = server
    BY <1>8, QueueFragmentIs, Numbers DEF Oldest
  <2> SUFFICES ASSUME last'.useTime, ~server.caches PROVE Listed'
    BY <2>1
  <2>2. /\ last.useTime /\ todo[1] \in Nat /\ last.name \in Nat
        /\ \A f \in queued : f \in Nat
    BY <1>8, QueueFragmentIs, Numbers
  <2>3. /\ last'.name = todo[1] /\ queued' = queued \cup {todo[1]}
        /\ fq = "push" /\ fq' = "push" /\ window' = window
        /\ Len(todo') = Len(todo) - 1 /\ Len(todo) \in Nat /\ todo # << >>
        /\ \A i \in 1 .. Len(todo') : i + 1 \in 1 .. Len(todo) /\ todo'[i] = todo[i + 1]
        /\ \A j \in 1 .. Len(todo) : todo[j] - todo[1] = j - 1 /\ todo[j] \in Nat
    <3>1. fq = "push" /\ todo \in Seq(Fragments) /\ 1 \in 1 .. Len(todo)
      BY <1>8, QueueFragmentIs
    <3>2. \A j \in 1 .. Len(todo) : todo[j] - todo[1] = j - 1
      BY <3>1 DEF Todo
    <3>3. \A j \in 1 .. Len(todo) : todo[j] \in Nat
      BY <3>1
    <3>4. /\ last'.name = todo[1] /\ queued' = queued \cup {todo[1]}
          /\ fq' = "push" /\ window' = window
          /\ Len(todo') = Len(todo) - 1 /\ Len(todo) \in Nat
          /\ \A i \in 1 .. Len(todo') : i + 1 \in 1 .. Len(todo) /\ todo'[i] = todo[i + 1]
      BY <1>8, QueueFragmentIs
    <3>5. todo # << >>
      BY <3>1
    <3> QED
      BY <3>1, <3>2, <3>3, <3>4, <3>5
  <2>4. ASSUME NEW f \in Nat, f < todo[1], Settled(f, queued) PROVE Settled(f, queued')
    BY <2>2, <2>3, <2>4
  <2>5. Settled(todo[1], queued')
    BY <2>3
  <2>6. ASSUME NEW f \in Fragments, Oldest <= f, f <= todo[1] PROVE Settled(f, queued')
    <3>1. CASE f = todo[1]
      BY <2>5, <3>1
    <3>2. CASE f < todo[1]
      <4>1. todo[1] <= last.name + 1 \/ todo[1] <= Oldest
        BY <2>2, <2>3
      <4>2. f <= last.name
        BY <2>1, <2>2, <2>6, <3>2, <4>1
      <4>3. Settled(f, queued)
        BY <2>2, <2>6, <4>2
      <4> HIDE DEF Settled
      <4> QED
        BY <2>4, <3>2, <4>3
    <3> QED
      BY <2>2, <2>6, <3>1, <3>2
  <2>7. todo' # << >> => todo'[1] = todo[1] + 1
    <3> SUFFICES ASSUME todo' # << >> PROVE todo'[1] = todo[1] + 1
      OBVIOUS
    <3>1. 1 \in 1 .. Len(todo') /\ 1 + 1 = 2
      BY <1>8, QueueFragmentIs
    <3>2. todo'[1] = todo[2] /\ 2 \in 1 .. Len(todo)
      BY <2>3, <3>1
    <3>3. todo[2] - todo[1] = 2 - 1 /\ todo[2] \in Nat
      BY <2>3, <3>2
    <3> QED
      BY <2>2, <3>2, <3>3
  <2>8. ASSUME NEW i \in 1 .. Len(window)
        PROVE  \/ Settled(window[i], queued') /\ (todo' # << >> => window[i] < todo'[1])
               \/ \E j \in 1 .. Len(todo') : window[i] = todo'[j]
    <3>0. window[i] \in Nat
      BY SMTT(30) DEF Typed, TypeOK
    <3>1. CASE Settled(window[i], queued) /\ window[i] < todo[1]
      <4> HIDE DEF Settled
      <4> QED
        BY <2>2, <2>4, <2>7, <3>0, <3>1
    <3>2. ASSUME NEW j \in 1 .. Len(todo), window[i] = todo[j]
          PROVE  \/ Settled(window[i], queued') /\ (todo' # << >> => window[i] < todo'[1])
                 \/ \E l \in 1 .. Len(todo') : window[i] = todo'[l]
      <4>1. CASE j = 1
        <5> HIDE DEF Settled
        <5> QED
          BY <2>2, <2>5, <2>7, <3>2, <4>1
      <4>2. CASE j # 1
        <5>1. j - 1 \in 1 .. Len(todo') /\ (j - 1) + 1 = j
          BY <2>3, <4>2
        <5> QED
          BY <2>3, <3>2, <5>1
      <4> QED
        BY <4>1, <4>2
    <3> QED
      BY <2>2, <2>3, <3>1, <3>2
  <2> QED
    BY <2>1, <2>3, <2>6, <2>7, <2>8
<1>9. CASE EndOfStream
  BY <1>9 DEF EndOfStream, FillQueueReturns
<1>10. CASE Pause
  BY <1>10 DEF Pause
<1>11. CASE PauseEnds
  BY <1>11 DEF PauseEnds
<1>12. CASE SendCheckpoint
  BY <1>12 DEF SendCheckpoint
<1>13. CASE TakeUrl
  BY <1>13 DEF TakeUrl
<1>14. CASE Downloaded
  BY <1>14 DEF Downloaded
<1>15. CASE DownloadCanceled
  BY <1>15 DEF DownloadCanceled
<1>16. CASE DownloadForbidden
  BY <1>16 DEF DownloadForbidden
<1>17. CASE DownloadLost
  BY <1>17 DEF DownloadLost
<1>18. CASE TakeError
  BY <1>18 DEF TakeError
<1>19. CASE TakeCheckpoint
  BY <1>19 DEF TakeCheckpoint, Returns
<1>20. CASE NoCheckpoint
  BY <1>20 DEF NoCheckpoint, Returns
<1>21. CASE UNCHANGED vars
  BY <1>21 DEF vars
<1>22. CASE LateCheckpoint
  BY <1>22 DEF LateCheckpoint
<1> QED
  BY <1>1, <1>2, <1>3, <1>4, <1>5, <1>6, <1>7, <1>8, <1>9, <1>10,
     <1>11, <1>12, <1>13, <1>14, <1>15, <1>16, <1>17, <1>18, <1>19, <1>20, <1>21,
     <1>22
  DEF Next, Around, FillQueue, Earlier, Read, Terminated

-----------------------------------------------------------------------------
(* The theorems.                                                           *)

LEMMA InitIInv == Init => IInv
<1> SUFFICES ASSUME Init PROVE IInv
  OBVIOUS
<1> USE DEF Init
<1>1. DefaultCheckpoint \in Checkpoints
  BY DEF DefaultCheckpoint, Checkpoints
<1>2. Typed
  <2>1. /\ window \in Seq(Fragments) /\ todo \in Seq(Fragments)
        /\ urls \in Seq(Fragments) /\ written \in Seq(Fragments)
        /\ cpChan \in Seq(Checkpoints) /\ Len(urls) <= UrlsMax
    OBVIOUS
  <2>2. live \in 0 .. server.last
    BY ServerType
  <2>3. last \in Checkpoints
        /\ ret \in [cp : Checkpoints, err : {"none", "EOF", "Canceled", "Failure"}]
    BY <1>1
  <2>4. /\ fqErrors = 0 /\ url = 0 /\ lost = 0 /\ round = 1 /\ queued = {}
        /\ fq = "fetch" /\ fqErr = "none" /\ read = "select" /\ server \in Servers
    OBVIOUS
  <2>5. /\ ctxDone \in BOOLEAN /\ ownCancel \in BOOLEAN /\ late \in BOOLEAN
        /\ stalled \in BOOLEAN /\ panicked \in BOOLEAN /\ behind \in BOOLEAN
    OBVIOUS
  <2>7. restart = 0 /\ older = 0 /\ written = << >>
    OBVIOUS
  <2> HIDE DEF Init
  <2>8. restart \in 0 .. Len(written)
    <3>1. Len(written) = 0
      BY <2>7
    <3> QED
      BY <2>7, <3>1
  <2>9. older \in 0 .. OlderMax
    BY <2>7, Bounds
  <2>6. TypeOK
    BY <2>1, <2>2, <2>3, <2>4, <2>5, <2>8, <2>9 DEF TypeOK
  <2> QED
    BY <2>4, <2>6 DEF Typed
<1>3. Handover
  BY DEF Handover, NoSendOnClosed
<1>4. Position /\ Todo /\ Queue /\ Recent /\ Listed
  BY DEF Position, Todo, Queue, Recent, Listed, DefaultCheckpoint, Oldest
<1> QED
  BY <1>2, <1>3, <1>4 DEF IInv

\* The inductive invariant holds in every reachable state.
THEOREM Invariance == Spec => []IInv
<1>1. IInv /\ [Next]_vars => IInv'
  BY NextTyped, NextHandover, NextPosition, NextTodo, NextQueue, NextRecent, NextListed
  DEF IInv
<1> QED
  BY <1>1, InitIInv, PTL DEF Spec

(***************************************************************************)
(* Every variable keeps its type: urlsChan never holds more than its       *)
(* capacity, and fillQueue gives up after one tolerated error too many.    *)
(***************************************************************************)
THEOREM TypeCorrect == Spec => []TypeOK
<1>1. IInv => TypeOK
  BY DEF IInv, Typed
<1> QED
  BY <1>1, Invariance, PTL

(***************************************************************************)
(* Read never closes urlsChan or errChan while fillQueue can send on them, *)
(* in any order of errors, cancellations, losses and stalls.  Only the     *)
(* send of the checkpoint can meet a closed channel, and only after a Read *)
(* returned without that checkpoint, when its one-second timer fired.      *)
(***************************************************************************)
THEOREM ChannelsOutliveSends == Spec => []NoSendOnClosed
<1>1. IInv => NoSendOnClosed
  BY DEF IInv, Handover
<1> QED
  BY <1>1, Invariance, PTL

(***************************************************************************)
(* When fillQueue pauses after a poll, it has queued all that the manifest *)
(* lists, but for what is older than the first it ever queued, as long as  *)
(* it goes by the times and the manifests come from one cache: whatever    *)
(* the names, over bodies that are cut off, lost checkpoints and switches. *)
(***************************************************************************)
THEOREM PollsLeaveOutNothing == Spec => []PollComplete
<1>1. IInv => PollComplete
  <2> SUFFICES ASSUME IInv, fq = "sleep", ~server.caches, last.useTime,
                      NEW i \in 1 .. Len(window)
               PROVE  Settled(window[i], queued)
    <3>1. ASSUME IInv PROVE DOMAIN window = 1 .. Len(window)
      BY <3>1 DEF IInv, Typed, TypeOK
    <3> QED
      BY <3>1 DEF PollComplete, Settled
  <2>1. todo = << >>
    BY DEF IInv, Listed
  <2> QED
    BY <2>1 DEF IInv, Listed
<1> QED
  BY <1>1, Invariance, PTL

(***************************************************************************)
(* The recording goes forward: it starts over only where a Read returned   *)
(* without its checkpoint or a switch changed the names, and repeats at    *)
(* most one window there; between those points no fragment is written      *)
(* twice or after a later one.  For all playlists, with or without several *)
(* caches, times, cancellations and stalls.                                *)
(***************************************************************************)
THEOREM RecordingInOrder == Spec => []WrittenInOrder
<1>1. IInv => WrittenInOrder
  <2> SUFFICES ASSUME IInv PROVE NothingTwice /\ RepeatsWindow
    BY DEF WrittenInOrder
  <2>1. DOMAIN written = 1 .. Len(written)
    BY DEF IInv, Typed, TypeOK
  <2>2. NothingTwice
    BY <2>1 DEF IInv, Queue, Regular, NothingTwice
  <2>3. RepeatsWindow
    BY <2>1 DEF IInv, Recent, RepeatsWindow
  <2> QED
    BY <2>2, <2>3
<1> QED
  BY <1>1, Invariance, PTL

-----------------------------------------------------------------------------
(* What is missing from a recording.                                       *)

InSeq(s) == {s[i] : i \in 1 .. Len(s)}

\* The fragment that is being downloaded.
UnderWay == IF read = "download" THEN {url} ELSE {}

\* Queued, and neither written nor still to be written.
Missing == queued \ (InSeq(written) \cup InSeq(urls) \cup UnderWay)

\* As long as a Read is not cancelled, by the caller or by itself, a queued
\* fragment is missing only because its download failed.  (What is missing
\* from an earlier Read stays missing, hence the first one.)
OnlyLostMissing ==
    round = 1 /\ ~ReadCtxDone =>
        Cardinality(Missing) <= lost /\ lost <= PacketLossMax

Tolerated == lost > PacketLossMax => ownCancel

LostInv == TypeOK /\ Tolerated /\ OnlyLostMissing

\* What a queue holds once a fragment is appended, or taken.
LEMMA InSeqAppend ==
    ASSUME NEW s \in Seq(Fragments), NEW f \in Fragments
    PROVE  InSeq(Append(s, f)) = InSeq(s) \cup {f}
<1>1. /\ Len(Append(s, f)) = Len(s) + 1 /\ Append(s, f)[Len(s) + 1] = f
      /\ \A i \in 1 .. Len(s) : Append(s, f)[i] = s[i]
      /\ Len(s) \in Nat
  OBVIOUS
<1> DEFINE t == Append(s, f)
<1> HIDE DEF t
<1>2. 1 .. Len(s) + 1 = 1 .. Len(s) \cup {Len(s) + 1}
  BY <1>1
<1>3. InSeq(t) = {t[i] : i \in 1 .. Len(s) \cup {Len(s) + 1}}
  BY <1>1, <1>2 DEF InSeq, t
<1>4. ASSUME NEW i \in 1 .. Len(s) PROVE t[i] = s[i]
  BY <1>1 DEF t
<1>5. t[Len(s) + 1] = f
  BY <1>1 DEF t
<1> QED
  BY <1>3, <1>4, <1>5 DEF InSeq, t

LEMMA InSeqTaken ==
    ASSUME NEW s \in Seq(Fragments), s # << >>
    PROVE  InSeq(s) \subseteq {Head(s)} \cup InSeq(Tail(s))
<1>1. Head(s) = s[1] /\ Len(Tail(s)) = Len(s) - 1 /\ Len(s) \in Nat
      /\ \A i \in 1 .. Len(Tail(s)) : Tail(s)[i] = s[i + 1]
  BY Taken
<1> SUFFICES ASSUME NEW i \in 1 .. Len(s), i # 1 PROVE s[i] \in InSeq(Tail(s))
  BY <1>1 DEF InSeq
<1>2. i - 1 \in 1 .. Len(Tail(s)) /\ (i - 1) + 1 = i
  BY <1>1
<1> QED
  BY <1>1, <1>2 DEF InSeq

\* A set that has no more, or one more, does not grow by more than that.
LEMMA MissingCount ==
    ASSUME NEW S \in SUBSET Fragments, NEW T \in SUBSET Fragments
    PROVE  /\ Cardinality(S) \in Nat /\ Cardinality(T) \in Nat
           /\ T \subseteq S => Cardinality(T) <= Cardinality(S)
           /\ \A f : T \subseteq S \cup {f} => Cardinality(T) <= Cardinality(S) + 1
<1>1. IsFiniteSet(Fragments)
  BY FS_Interval
<1>2. IsFiniteSet(S) /\ IsFiniteSet(T)
  BY <1>1, FS_Subset
<1>3. Cardinality(S) \in Nat /\ Cardinality(T) \in Nat
  BY <1>2, FS_CardinalityType
<1>4. T \subseteq S => Cardinality(T) <= Cardinality(S)
  BY <1>2, FS_Subset
<1>5. ASSUME NEW f, T \subseteq S \cup {f} PROVE Cardinality(T) <= Cardinality(S) + 1
  <2>1. IsFiniteSet(S \cup {f}) /\ Cardinality(S \cup {f}) <= Cardinality(S) + 1
        /\ Cardinality(S \cup {f}) \in Nat
    <3>1. IsFiniteSet(S \cup {f})
          /\ Cardinality(S \cup {f}) =
               IF f \in S THEN Cardinality(S) ELSE Cardinality(S) + 1
      BY <1>2, FS_AddElement
    <3> QED
      BY <1>3, <3>1
  <2>2. Cardinality(T) <= Cardinality(S \cup {f})
    BY <1>5, <2>1, FS_Subset
  <2> QED
    BY <1>3, <2>1, <2>2
<1> QED
  BY <1>3, <1>4, <1>5

LEMMA NextLost == TypeOK /\ TypeOK' /\ LostInv /\ [Next]_vars => LostInv'
<1> SUFFICES ASSUME TypeOK, TypeOK', LostInv, [Next]_vars PROVE LostInv'
  OBVIOUS
<1>0. /\ Missing \in SUBSET Fragments /\ Missing' \in SUBSET Fragments
      /\ lost \in Nat /\ lost' \in Nat
  BY DEF TypeOK, Missing
<1>1. /\ Cardinality(Missing) \in Nat /\ Cardinality(Missing') \in Nat
      /\ Missing' \subseteq Missing => Cardinality(Missing') <= Cardinality(Missing)
      /\ \A f : Missing' \subseteq Missing \cup {f} =>
                  Cardinality(Missing') <= Cardinality(Missing) + 1
  BY <1>0, MissingCount
<1>2. ASSUME Missing' \subseteq Missing, lost' = lost, round' = round,
             ctxDone => ctxDone', ownCancel => ownCancel'
      PROVE  LostInv'
  BY <1>0, <1>1, <1>2 DEF LostInv, Tolerated, OnlyLostMissing
<1>3. CASE DownloadLost
  <2>1. /\ lost' = lost + 1 /\ ownCancel' = (lost + 1 > PacketLossMax)
        /\ round' = round /\ ~ReadCtxDone /\ ctxDone' = ctxDone
    BY <1>3 DEF DownloadLost
  <2>2. Missing' \subseteq Missing \cup {url}
    BY <1>3 DEF DownloadLost, Missing, UnderWay, chanVars
  <2>3. Cardinality(Missing') <= Cardinality(Missing) + 1
    BY <1>1, <2>2
  <2>4. round = 1 => Cardinality(Missing) <= lost
    BY <2>1 DEF LostInv, OnlyLostMissing
  <2>5. round' = 1 => Cardinality(Missing') <= lost'
    BY <1>0, <1>1, <2>1, <2>3, <2>4
  <2>6. Tolerated' /\ (~ReadCtxDone' => lost' <= PacketLossMax)
    <3>1. CASE lost' > PacketLossMax
      <4>1. ownCancel'
        BY <2>1, <3>1
      <4> QED
        BY <4>1 DEF Tolerated
    <3>2. CASE lost' <= PacketLossMax
      BY <1>0, <3>2 DEF Tolerated
    <3> QED
      BY <1>0, <3>1, <3>2
  <2> QED
    BY <2>5, <2>6 DEF LostInv, OnlyLostMissing
<1>4. CASE DownloadForbidden \/ DownloadCanceled \/ TakeCheckpoint \/ NoCheckpoint
  <2>1. ownCancel' \/ ctxDone'
    BY <1>4 DEF DownloadForbidden, DownloadCanceled, TakeCheckpoint, NoCheckpoint,
                Returns, callVars, TypeOK
  <2>2. Tolerated'
    BY <1>4 DEF DownloadForbidden, DownloadCanceled, TakeCheckpoint, NoCheckpoint,
                Returns, callVars, LostInv, Tolerated
  <2> QED
    BY <2>1, <2>2 DEF LostInv, OnlyLostMissing
<1>5. CASE Resume
  <2>1. round \in Nat /\ 1 <= round
    BY Bounds DEF TypeOK
  <2>2. round' = round + 1 /\ lost' = 0
    BY <1>5 DEF Resume
  <2>3. round' # 1
    BY <2>1, <2>2
  <2> QED
    BY <2>2, <2>3 DEF LostInv, Tolerated, OnlyLostMissing
<1>6. CASE Downloaded
  <2>1. InSeq(written') = InSeq(written) \cup {url}
    <3>1. url \in Fragments
      BY <1>6 DEF Downloaded, TypeOK
    <3> QED
      BY <1>6, <3>1, InSeqAppend DEF Downloaded, TypeOK
  <2> QED
    BY <1>2, <1>6, <2>1 DEF Downloaded, Missing, UnderWay, chanVars, callVars, history
<1>7. CASE TakeUrl
  <2>1. InSeq(urls) \subseteq {url'} \cup InSeq(urls')
    BY <1>7, InSeqTaken DEF TakeUrl, TypeOK
  <2> QED
    BY <1>2, <1>7, <2>1 DEF TakeUrl, Missing, UnderWay, callVars
<1>8. CASE QueueFragment
  <2>1. Head(todo) \in Fragments
    BY <1>8 DEF QueueFragment, TypeOK
  <2>2. InSeq(urls') = InSeq(urls) \cup {Head(todo)}
    BY <1>8, <2>1, InSeqAppend DEF QueueFragment, TypeOK
  <2> QED
    BY <1>2, <1>8, <2>2 DEF QueueFragment, Missing, UnderWay, callVars, readVars
<1>9. CASE Publish \/ ThirtySeconds \/ CallerCancel
  BY <1>2, <1>9
  DEF Publish, ThirtySeconds, CallerCancel, Missing, UnderWay, callVars, chanVars,
      readVars, history
<1>10. CASE FetchTolerated \/ FetchFailed \/ FetchManifest
  BY <1>2, <1>10
  DEF FetchTolerated, FetchFailed, FetchManifest, Missing, UnderWay, callVars,
      chanVars, readVars, history
<1>11. CASE EndOfStream \/ Pause \/ PauseEnds \/ SendCheckpoint \/ LateCheckpoint
  BY <1>2, <1>11
  DEF EndOfStream, Pause, PauseEnds, SendCheckpoint, LateCheckpoint, Missing, UnderWay, callVars,
      chanVars, readVars, history
<1>12. CASE TakeError
  BY <1>2, <1>12 DEF TakeError, Missing, UnderWay, callVars, chanVars, history
<1>13. CASE Terminated \/ UNCHANGED vars
  BY <1>2, <1>13
  DEF Terminated, vars, Missing, UnderWay, callVars, chanVars, readVars, history
<1> QED
  BY <1>3, <1>4, <1>5, <1>6, <1>7, <1>8, <1>9, <1>10, <1>11, <1>12, <1>13
  DEF Next, Around, FillQueue, Earlier, Read

(***************************************************************************)
(* As long as the first Read is not cancelled, at most PacketLossMax of    *)
(* the fragments that fillQueue took from the manifests are missing from   *)
(* what is written or still to be: nothing is dropped between fillQueue    *)
(* and the file but the downloads that failed, whatever the server.        *)
(***************************************************************************)
THEOREM OnlyLostIsMissing == Spec => []OnlyLostMissing
<1>1. Init => LostInv
  <2> SUFFICES ASSUME Init PROVE LostInv
    OBVIOUS
  <2>1. Missing = {} /\ lost = 0
    BY DEF Init, Missing
  <2>2. TypeOK
    BY InitIInv DEF IInv, Typed
  <2> QED
    BY <2>1, <2>2, FS_EmptySet DEF LostInv, Tolerated, OnlyLostMissing
<1>2. LostInv => OnlyLostMissing
  BY DEF LostInv
<1> QED
  BY <1>1, <1>2, NextLost, TypeCorrect, PTL DEF Spec
==============================================================================
