------------------------------ MODULE Session ------------------------------
(***************************************************************************)
(* What a recording session promises to Watch, whatever its goroutines do: *)
(* at most one recorder writes at a time, each one started after the end   *)
(* of the one before; the session stops once and ends after it stopped;    *)
(* its outcome is one of the real errors that were reported if there is    *)
(* any, and never a made up one.  The promise of DownloadLiveStream in     *)
(* fc2/fc2_livestream.go, which LiveStream implements.                     *)
(***************************************************************************)
EXTENDS Naturals

CONSTANTS Errors, Ends   \* the real errors; the errors that are ends

VARIABLES
    phase,      \* "running", "stopping", "ended" or "crashed"
    reports,    \* the errors the workers reported
    recorder,   \* the recorder that writes, 0 if none
    count,      \* the number of recorders started
    outcome     \* what the session returned

vars == <<phase, reports, recorder, count, outcome>>

Init ==
    /\ phase = "running"
    /\ reports = {}
    /\ recorder = 0
    /\ count = 0
    /\ outcome = "none"

\* The context of the session is done.
Stop ==
    /\ phase = "running"
    /\ phase' = "stopping"
    /\ UNCHANGED <<reports, recorder, count, outcome>>

\* A worker reports the error it ends with.
Report ==
    /\ phase \in {"running", "stopping"}
    /\ \E e \in Errors \cup Ends : reports' = reports \cup {e}
    /\ UNCHANGED <<phase, recorder, count, outcome>>

\* The next recorder starts; there is none running.
Begin ==
    /\ phase \in {"running", "stopping"}
    /\ recorder = 0
    /\ count' = count + 1
    /\ recorder' = count + 1
    /\ UNCHANGED <<phase, reports, outcome>>

\* The recorder ends, after the session at times.
Finish ==
    /\ recorder # 0
    /\ recorder' = 0
    /\ UNCHANGED <<phase, reports, count, outcome>>

Outcomes ==
    IF reports \cap Errors # {} THEN reports \cap Errors
    ELSE IF "EOF" \in reports THEN {"nil"} ELSE reports

\* A session that could not connect ends before it ran.
End ==
    /\ \/ phase = "stopping" /\ reports # {} /\ outcome' \in Outcomes
       \/ phase \in {"running", "stopping"} /\ reports = {} /\ count = 0
          /\ outcome' \in {"Failure", "Canceled"}
    /\ phase' = "ended"
    /\ UNCHANGED <<reports, recorder, count>>

Crash ==
    /\ phase # "crashed"
    /\ phase' = "crashed"
    /\ recorder' = 0
    /\ UNCHANGED <<reports, count, outcome>>

Next == Stop \/ Report \/ Begin \/ Finish \/ End \/ Crash

Safety == Init /\ [][Next]_vars

Spec == Safety /\ WF_vars((End \/ Crash) /\ phase = "stopping")
============================================================================
