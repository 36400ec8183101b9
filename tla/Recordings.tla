----------------------------- MODULE Recordings -----------------------------
(***************************************************************************)
(* The files of the recordings that share a name, which the channel, the   *)
(* title and the date make: Process (fc2.go) that chooses the names, probes*)
(* and remuxes what was recorded and concatenates it with the parts before,*)
(* Clean (cleaner.go) that deletes the parts once the concatenation is old,*)
(* and a process that may be killed at any time.                           *)
(*                                                                         *)
(*   ts[0] is name.ts, ts[n] is name.n.ts, and likewise in the order; the  *)
(*   other files are name.mp4 and name.combined.mp4.                       *)
(*                                                                         *)
(* A part is what one session recorded, numbered in the order of time.     *)
(***************************************************************************)
EXTENDS Naturals, SequencesExt, FiniteSetsExt

CONSTANTS
    MaxParts,            \* bound on the sessions
    MaxKills,            \* bound on the kills of the process
    StringRank           \* the rank of each number among the numbers as strings

Slots == 0 .. MaxParts
Parts == 1 .. MaxParts

ASSUME ConstantsAssumption ==
    /\ {MaxParts, MaxKills} \subseteq Nat
    /\ StringRank \in [Slots -> Nat]

VARIABLES
    params,         \* the parameters of the channel
    ts,             \* the parts
    mp4,            \* name.mp4
    combined,       \* name.combined.mp4
    old,            \* combined was last written more than eligibleAge ago
    pc,             \* where Process is, "idle" outside of it
    part,           \* the number of the last session
    slot,           \* the name it was given
    failed,         \* one of its probe, remux and audio failed
    inputs,         \* the files its concat selected
    cleaner,        \* where Clean is
    queue,          \* queueForDeletion
    kills,          \* the number of kills
    kept,           \* history: the parts that could be read after their session
    short,          \* history: the parts that an error nobody was told of, or a kill,
                    \* left out of name.mp4 or of combined
    deleted,        \* history: the parts whose .ts was deleted as not needed any more
    complete        \* history: the last concat had no error

vars == <<params, ts, mp4, combined, old, pc, part, slot, failed, inputs, cleaner,
          queue, kills, kept, short, deleted, complete>>

\* inDirectory: the format of the names has a directory.
Params == [inDirectory : BOOLEAN, remux : BOOLEAN, concat : BOOLEAN,
           keepIntermediates : BOOLEAN, deleteCorrupted : BOOLEAN]

NoFile == [exists |-> FALSE, parts |-> <<>>, readable |-> FALSE]
File(parts, readable) == [exists |-> TRUE, parts |-> parts, readable |-> readable]

Init ==
    /\ params \in Params
    /\ ts = [n \in Slots |-> NoFile]
    /\ mp4 = NoFile
    /\ combined = NoFile
    /\ old = FALSE
    /\ pc = "idle"
    /\ part = 0
    /\ slot = 0
    /\ failed = FALSE
    /\ inputs = <<>>
    /\ cleaner = "idle"
    /\ queue = {}
    /\ kills = 0
    /\ kept = {}
    /\ short = {}
    /\ deleted = {}
    /\ complete = FALSE

cleanerVars == <<cleaner, queue>>
history == <<kept, short, deleted, complete>>

-----------------------------------------------------------------------------
(* Process.                                                                *)

\* Slip: the number follows the number of files.
PrepareNext ==
    /\ pc = "idle"
    /\ part < MaxParts
    /\ ~old
    /\ part' = part + 1
    /\ slot' = Cardinality({n \in Slots : ts[n].exists /\ ts[n].readable})
    /\ failed' = FALSE
    /\ pc' = "record"
    /\ UNCHANGED <<params, ts, mp4, combined, old, inputs, cleanerVars, kills, history>>

\* PrepareFileAutoRename: the first name that does not exist, which is not
\* created yet.  The name has the date: it is not used once combined is old.
PrepareFiles ==
    /\ pc = "idle"
    /\ part < MaxParts
    /\ ~old
    /\ part' = part + 1
    /\ slot' = Min({n \in Slots : ~ts[n].exists})
    /\ failed' = FALSE
    /\ pc' = "record"
    /\ UNCHANGED <<params, ts, mp4, combined, old, inputs, cleanerVars, kills, history>>

\* What the file may be once fragments were written to it, or none.
Recorded == {File(<<>>, FALSE), File(<<part>>, FALSE), File(<<part>>, TRUE)}

\* downloadStream creates the file, and truncates it if it exists.
CreateStream ==
    /\ pc = "record"
    /\ ts' = [ts EXCEPT ![slot] = File(<<>>, FALSE)]
    /\ pc' = "recording"
    /\ UNCHANGED <<params, mp4, combined, old, part, slot, failed, inputs, cleanerVars,
                   kills, history>>

\* The session failed before it had a file.
NoStream ==
    /\ pc = "record"
    /\ pc' = "probe"
    /\ UNCHANGED <<params, ts, mp4, combined, old, part, slot, failed, inputs,
                   cleanerVars, kills, history>>

EndStream ==
    /\ pc = "recording"
    /\ \E f \in Recorded : ts' = [ts EXCEPT ![slot] = f]
    /\ pc' = "probe"
    /\ UNCHANGED <<params, mp4, combined, old, part, slot, failed, inputs, cleanerVars,
                   kills, history>>

\* Where Process goes on.
AfterRemux == IF params.concat THEN "select" ELSE "delete"
AfterProbe(ok) == IF params.remux /\ ok THEN "remux" ELSE AfterRemux

Probe ==
    /\ pc = "probe"
    /\ LET ok == ts[slot].readable
       IN  /\ failed' = ~ok
           /\ kept' = IF ok THEN kept \cup {part} ELSE kept
           /\ ts' = IF ~ok /\ params.deleteCorrupted THEN [ts EXCEPT ![slot] = NoFile] ELSE ts
           /\ pc' = AfterProbe(ok)
    /\ UNCHANGED <<params, mp4, combined, old, part, slot, inputs, cleanerVars, kills,
                   short, deleted, complete>>

\* PrepareFile does not look for a free name: an output that exists is written
\* over.
RemuxStarts ==
    /\ pc = "remux"
    /\ mp4' = File(<<>>, FALSE)
    /\ pc' = "remuxing"
    /\ UNCHANGED <<params, ts, combined, old, part, slot, failed, inputs, cleanerVars,
                   kills, history>>

\* concat.c does not look at the error of av_write_trailer: a remux may succeed
\* with a file that cannot be read.
RemuxEnds ==
    /\ pc = "remuxing"
    /\ \/ \E readable \in BOOLEAN :
            /\ mp4' = File(ts[slot].parts, readable)
            /\ short' = IF readable THEN short ELSE short \cup {part}
            /\ UNCHANGED failed
       \/ failed' = TRUE /\ UNCHANGED <<mp4, short>>
    /\ pc' = AfterRemux
    /\ UNCHANGED <<params, ts, combined, old, part, slot, inputs, cleanerVars, kills,
                   kept, deleted, complete>>

\* Slip: the numbers are compared as strings.
BeforeAsStrings(a, b) == StringRank[a] < StringRank[b]

\* extractOrderPart: the prefix is only taken off a name without a directory;
\* otherwise the names are compared as strings.
Before(a, b) ==
    IF params.inDirectory THEN StringRank[a] < StringRank[b] ELSE a < b

\* The file of each number: .ts goes before .mp4; an empty file and .combined.
\* are ignored.
Source(n) == IF n # 0 \/ ts[n].parts # <<>> THEN ts[n] ELSE mp4

\* sort.Slice, which is not stable.
Sorted(S) == {s \in SetToSeqs(S) : \A i, j \in DOMAIN s : i < j => ~Before(s[j], s[i])}

\* Slip: names need a number.
SelectNumbered ==
    /\ pc = "select"
    /\ inputs' \in Sorted({n \in Slots \ {0} : Source(n).readable})
    /\ pc' = "concat"
    /\ UNCHANGED <<params, ts, mp4, combined, old, part, slot, failed, cleanerVars,
                   kills, history>>

\* WithPrefix: the files that can be read, in order.
SelectInputs ==
    /\ pc = "select"
    /\ inputs' \in Sorted({n \in Slots : Source(n).readable})
    /\ pc' = "concat"
    /\ UNCHANGED <<params, ts, mp4, combined, old, part, slot, failed, cleanerVars,
                   kills, history>>

\* The output is truncated before anything is copied.
ConcatStarts ==
    /\ pc = "concat"
    /\ IF inputs = <<>>
       THEN pc' = "delete" /\ UNCHANGED <<params, combined, old>>
       ELSE /\ pc' = "concatenating"
            /\ combined' = File(<<>>, FALSE)
            /\ old' = FALSE
    /\ complete' = FALSE
    /\ UNCHANGED <<params, ts, mp4, part, slot, failed, inputs, cleanerVars, kills,
                   kept, short, deleted>>

\* concat.c: an error while an input is copied ends that input only, and is
\* forgotten unless it is the last one; an input that cannot be opened ends
\* all, without the trailer, and the error of the trailer is not looked at.
\* Process does not look at the error that is left.
ConcatEnds ==
    /\ pc = "concatenating"
    /\ \/ \E copied \in SUBSET ToSet(inputs) :
            LET taken == [i \in DOMAIN inputs |->
                             IF inputs[i] \in copied THEN Source(inputs[i]).parts ELSE <<>>]
                missed == UNION {ToSet(Source(n).parts) : n \in ToSet(inputs) \ copied}
            IN  /\ \A n \in ToSet(inputs) : Source(n).exists
                /\ \/ /\ combined' = File(FlattenSeq(taken), TRUE)
                      /\ short' = (short \ ToSet(combined'.parts)) \cup missed
                      /\ complete' = (missed = {})
                   \/ /\ combined' = File(FlattenSeq(taken), FALSE)
                      /\ UNCHANGED <<short, complete>>
       \/ UNCHANGED <<params, combined, short, complete>>
    /\ pc' = "delete"
    /\ UNCHANGED <<params, ts, mp4, old, part, slot, failed, inputs, cleanerVars, kills,
                   kept, deleted>>

DeleteIntermediates ==
    /\ pc = "delete"
    /\ IF ~params.keepIntermediates /\ params.remux /\ ~failed
       THEN ts' = [ts EXCEPT ![slot] = NoFile] /\ deleted' = deleted \cup {part}
       ELSE UNCHANGED <<ts, deleted>>
    /\ pc' = "idle"
    /\ UNCHANGED <<params, mp4, combined, old, part, slot, failed, inputs, cleanerVars,
                   kills, kept, short, complete>>

-----------------------------------------------------------------------------
(* Clean, under cleanerMutex.                                              *)

\* More than eligibleAge pass: more than a session lasts.
Age ==
    /\ combined.exists
    /\ ~old
    /\ pc = "idle"
    /\ old' = TRUE
    /\ UNCHANGED <<params, ts, mp4, combined, pc, part, slot, failed, inputs,
                   cleanerVars, kills, history>>

Scanned ==
    /\ queue' = {n \in Slots : ts[n].exists}
    /\ cleaner' = "delete"
    /\ UNCHANGED combined

\* Slip: the concatenation is not probed.
ScanWithoutProbe ==
    /\ cleaner = "idle"
    /\ params.concat /\ ~params.keepIntermediates
    /\ combined.exists /\ old
    /\ Scanned
    /\ UNCHANGED <<params, ts, mp4, old, pc, part, slot, failed, inputs, kills, history>>

\* Scan: a concatenation that cannot be read is deleted; or left alone, if it has
\* no video, or the probe failed otherwise.
Scan ==
    /\ cleaner = "idle"
    /\ params.concat /\ ~params.keepIntermediates
    /\ combined.exists /\ old
    /\ IF combined.readable
       THEN Scanned
       ELSE combined' \in {combined, NoFile} /\ UNCHANGED cleanerVars
    /\ UNCHANGED <<params, ts, mp4, old, pc, part, slot, failed, inputs, kills, history>>

CleanDelete ==
    /\ cleaner = "delete"
    /\ \E n \in queue :
         /\ ts' = [ts EXCEPT ![n] = NoFile]
         /\ deleted' = deleted \cup ToSet(ts[n].parts)
         /\ queue' = queue \ {n}
    /\ UNCHANGED <<params, mp4, combined, old, pc, part, slot, failed, inputs, cleaner,
                   kills, kept, short, complete>>

\* Slip: the scan is over when the first file is deleted.
RenameEarly ==
    /\ cleaner = "delete"
    /\ cleaner' = "idle"
    /\ queue' = {}
    /\ mp4' = combined
    /\ combined' = NoFile
    /\ UNCHANGED <<params, ts, old, pc, part, slot, failed, inputs, kills, history>>

CleanRename ==
    /\ cleaner = "delete"
    /\ queue = {}
    /\ cleaner' = "idle"
    /\ IF mp4.exists
       THEN UNCHANGED <<params, mp4, combined>>
       ELSE mp4' = combined /\ combined' = NoFile
    /\ UNCHANGED <<params, ts, old, pc, part, slot, failed, inputs, queue, kills, history>>

-----------------------------------------------------------------------------
\* The process is killed, and started again.
Kill ==
    /\ kills < MaxKills
    /\ kills' = kills + 1
    /\ pc' = "idle"
    /\ cleaner' = "idle"
    /\ queue' = {}
    /\ ts' \in IF pc = "recording" THEN {[ts EXCEPT ![slot] = f] : f \in Recorded} ELSE {ts}
    /\ kept' = IF pc \in {"recording", "probe"} /\ ts'[slot].readable
               THEN kept \cup {part} ELSE kept
    /\ short' = IF pc \in {"recording", "probe", "remux", "remuxing", "select", "concat"}
                THEN short \cup {part} ELSE short
    /\ complete' = FALSE
    /\ UNCHANGED <<params, mp4, combined, old, part, slot, failed, inputs, deleted>>

Process ==
    PrepareFiles \/ CreateStream \/ NoStream \/ EndStream \/ Probe \/ RemuxStarts
    \/ RemuxEnds \/ SelectInputs \/ ConcatStarts \/ ConcatEnds \/ DeleteIntermediates

Clean == Scan \/ CleanDelete \/ CleanRename

Next == Process \/ Clean \/ Age \/ Kill

Spec == Init /\ [][Next]_vars

\* CleanPeriodically goes on, every hour.  What becomes of a concatenation that
\* cannot be read is left open.
FairSpec == Spec /\ WF_vars(combined.readable /\ Clean)

-----------------------------------------------------------------------------
(* Properties.                                                             *)

Files == {NoFile} \cup [exists : {TRUE}, parts : Seq(Parts), readable : BOOLEAN]

\* The type of the state; a session starts with a name that is free.
TypeOK ==
    /\ params \in Params
    /\ {old, failed, complete} \subseteq BOOLEAN
    /\ ts \in [Slots -> Files]
    /\ {mp4, combined} \subseteq Files
    /\ pc \in {"idle", "record", "recording", "probe", "remux", "remuxing", "select",
               "concat", "concatenating", "delete"}
    /\ part \in 0 .. MaxParts
    /\ slot \in Slots
    /\ pc = "record" => ~ts[slot].exists
    /\ inputs \in Seq(Slots)
    /\ cleaner \in {"idle", "delete"}
    /\ queue \subseteq Slots
    /\ kills \in 0 .. MaxKills
    /\ kept \cup short \cup deleted \subseteq Parts

Readable == {f \in {ts[n] : n \in Slots} \cup {mp4, combined} : f.readable}
OnDisk == UNION {ToSet(f.parts) : f \in Readable}

\* When the .ts are deleted after the remux, the next session takes the same
\* names and writes over name.mp4: only the last part is safe.
NamesReused == params.remux /\ ~params.keepIntermediates
SafeParts == kept \cap (IF NamesReused THEN {part} ELSE Parts)

(***************************************************************************)
(* What was recorded and could be read is in a file that can be read,      *)
(* whatever fails or is killed, and after any cleaning.  The one exception *)
(* is a part whose .ts was deleted after name.mp4 or the concatenation had *)
(* lost it, by an error nobody was told of or by a kill: until its .ts is  *)
(* deleted such a part is there too.                                       *)
(***************************************************************************)
NotLost == SafeParts \ (deleted \cap short) \subseteq OnDisk

(***************************************************************************)
(* A concatenation has each part once, in the order of the sessions, when  *)
(* the names have no directory and the parts are not remuxed before.       *)
(***************************************************************************)
CombinedInOrder ==
    ~params.inDirectory /\ ~params.remux =>
        \A i, j \in DOMAIN combined.parts : i < j => combined.parts[i] < combined.parts[j]

(***************************************************************************)
(* After a concatenation without any error, every part is in it: also the  *)
(* parts of sessions that were killed, or were recorded after failures.    *)
(***************************************************************************)
CombinedComplete ==
    complete /\ pc = "idle" =>
        \A p \in SafeParts : \E f \in {combined, mp4} : f.readable /\ p \in ToSet(f.parts)

(***************************************************************************)
(* A concatenation that is old and can be read comes to replace its parts: *)
(* it is renamed, and no .ts is left.                                      *)
(***************************************************************************)
CleanEnds ==
    /\ old /\ combined.readable
    /\ ~mp4.exists /\ ~params.keepIntermediates
    ~> ~combined.exists /\ mp4.readable /\ \A n \in Slots : ~ts[n].exists
=============================================================================
