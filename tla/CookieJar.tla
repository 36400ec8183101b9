------------------------------ MODULE CookieJar ------------------------------
(***************************************************************************)
(* The file of the cookies (cookie_jar_persist.go): the handlers that load *)
(* it, import cookies, check the login with FC2 and save it (handleConfig, *)
(* watch_command.go), and the LoginLoop that each leaves behind, for which *)
(* nobody waits.  A handler is a configuration in use; the process may be  *)
(* killed between any two steps, and started again.                        *)
(*                                                                         *)
(* The cookies of a login are a number: 0 for none, 1 for those of the     *)
(* import file, and one more each time FC2 refreshes them.                 *)
(***************************************************************************)
EXTENDS Naturals

CONSTANTS
    MaxConfigs,     \* bound on the configurations, over all the processes
    MaxLogins,      \* bound on the cookies
    MaxKills,       \* bound on the kills
    MaxFailures     \* bound on the Saves that fail

ASSUME ConstantsAssumption ==
    /\ {MaxConfigs, MaxKills, MaxFailures} \subseteq Nat
    /\ MaxLogins \in Nat \ {0}

Handlers == 1 .. MaxConfigs
Imported == 1

VARIABLES
    process,        \* "up", "down" or, after a log.Fatal, "fatal"
    current,        \* the last handler
    ctxDone,        \* the handlers whose context is done
    inLoop,         \* the handlers that are in LoginLoop
    pc,             \* where each handler is
    jar,            \* the cookies in memory of each handler
    opened,         \* the handlers whose open file is the one that has the name
    file,           \* the file of the cookies
    logins,         \* the last cookies FC2 gave
    kills,          \* the number of kills
    failures,       \* the number of Saves that failed
    cut,            \* history: a process ended in a Save
    saved,          \* history: the cookies of a login were saved
    refused,        \* history: a CheckLogin failed
    unwritten,      \* history: a Save failed once it had emptied the file
    met             \* history: a handler started before an earlier loop had ended

vars == <<process, current, ctxDone, inLoop, pc, jar, opened, file, logins, kills,
          failures, cut, saved, refused, unwritten, met>>
counts == <<kills, failures>>
history == <<cut, saved, refused, unwritten, met>>

Absent == [state |-> "absent", cookies |-> 0]
Empty == [state |-> "empty", cookies |-> 0]
Garbage == [state |-> "garbage", cookies |-> 0]
Whole(cookies) == [state |-> "whole", cookies |-> cookies]

Init ==
    /\ process = "down"
    /\ current = 0
    /\ ctxDone = {}
    /\ inLoop = {}
    /\ pc = [h \in Handlers |-> "off"]
    /\ jar = [h \in Handlers |-> 0]
    /\ opened = {}
    /\ file = Absent
    /\ logins = Imported
    /\ kills = 0
    /\ failures = 0
    /\ cut = FALSE
    /\ saved = FALSE
    /\ refused = FALSE
    /\ unwritten = FALSE
    /\ met = FALSE

GoTo(h, label) == pc' = [pc EXCEPT ![h] = label]

-----------------------------------------------------------------------------
(* ConfigReloader and the process.                                         *)

\* The next handler starts once the last one is canceled and has returned.
Start(h) ==
    /\ h = current + 1
    /\ \/ process = "down"
       \/ process = "up" /\ current \in ctxDone \cap inLoop
    /\ process' = "up"
    /\ current' = h
    /\ GoTo(h, "stat")
    /\ met' = (met \/ \E g \in Handlers : pc[g] \notin {"off", "ended"})
    /\ UNCHANGED <<ctxDone, inLoop, jar, opened, file, logins, counts, cut, saved,
                   refused, unwritten>>

Cancel ==
    /\ process = "up"
    /\ current \notin ctxDone
    /\ ctxDone' = ctxDone \cup {current}
    /\ UNCHANGED <<process, current, inLoop, pc, jar, opened, file, logins, counts,
                   history>>

\* Everything in memory is gone.
Ends(as) ==
    /\ process' = as
    /\ pc' = [h \in Handlers |-> "off"]
    /\ opened' = {}
    /\ cut' = (cut \/ opened # {})
    /\ UNCHANGED <<current, ctxDone, inLoop, jar, file, logins, saved, refused, unwritten,
                   met>>

\* The program waits for the handler, and not for the LoginLoops.
Exit ==
    /\ process = "up"
    /\ current \in ctxDone \cap inLoop
    /\ Ends("down")
    /\ UNCHANGED counts

Kill ==
    /\ process = "up"
    /\ kills < MaxKills
    /\ kills' = kills + 1
    /\ Ends("down")
    /\ UNCHANGED failures

-----------------------------------------------------------------------------
(* NewJar.                                                                 *)

Stat(h) ==
    /\ pc[h] = "stat"
    /\ GoTo(h, IF file = Absent THEN "exists" ELSE "open")
    /\ UNCHANGED <<process, current, ctxDone, inLoop, jar, opened, file, logins, counts,
                   history>>

\* The file is there, and can be decrypted.
Load(h) ==
    /\ pc[h] = "open"
    /\ file.state = "whole"
    /\ jar' = [jar EXCEPT ![h] = file.cookies]
    /\ GoTo(h, "exists")
    /\ UNCHANGED <<process, current, ctxDone, inLoop, opened, file, logins, counts,
                   history>>

LoadFails(h) ==
    /\ pc[h] = "open"
    /\ file.state # "whole"
    /\ Ends("fatal")
    /\ UNCHANGED counts

\* The import file is only read if there is no file.
Import(h) ==
    /\ pc[h] = "exists"
    /\ jar' = IF file = Absent THEN [jar EXCEPT ![h] = Imported] ELSE jar
    /\ GoTo(h, "check")
    /\ UNCHANGED <<process, current, ctxDone, inLoop, opened, file, logins, counts,
                   history>>

-----------------------------------------------------------------------------
(* CheckLogin, with the context of the handler.                            *)

\* Slip: the loop only saves cookies that FC2 changed.
LoggedInSavesChanges(h) ==
    /\ pc[h] = "check"
    /\ h \notin ctxDone
    /\ jar[h] # 0
    /\ \/ /\ GoTo(h, IF h \in inLoop THEN "wait" ELSE "save")
          /\ UNCHANGED <<jar, logins>>
       \/ /\ logins < MaxLogins
          /\ GoTo(h, "save")
          /\ logins' = logins + 1
          /\ jar' = [jar EXCEPT ![h] = logins + 1]
    /\ UNCHANGED <<process, current, ctxDone, inLoop, opened, file, counts, history>>

LoggedIn(h) ==
    /\ pc[h] = "check"
    /\ h \notin ctxDone
    /\ jar[h] # 0
    /\ GoTo(h, "save")
    /\ \/ UNCHANGED <<jar, logins>>
       \/ /\ logins < MaxLogins
          /\ logins' = logins + 1
          /\ jar' = [jar EXCEPT ![h] = logins + 1]
    /\ UNCHANGED <<process, current, ctxDone, inLoop, opened, file, counts, history>>

\* FC2 refuses the cookies, is not reached, or the context is done.
LoginFails(h) ==
    /\ pc[h] = "check"
    /\ refused' = TRUE
    /\ GoTo(h, "delete")
    /\ UNCHANGED <<process, current, ctxDone, inLoop, jar, opened, file, logins, counts,
                   cut, saved, unwritten, met>>

-----------------------------------------------------------------------------
(* Delete and Save.                                                        *)

\* Slip: the file is emptied.
DeleteContent(h) ==
    /\ pc[h] = "delete"
    /\ file' = IF file = Absent THEN Absent ELSE Empty
    /\ GoTo(h, IF h \in inLoop THEN "wait" ELSE "save")
    /\ UNCHANGED <<process, current, ctxDone, inLoop, jar, opened, logins, counts, history>>

\* Those who have the file open keep it, without its name.  handleConfig goes
\* on to Save, LoginLoop does not.
Delete(h) ==
    /\ pc[h] = "delete"
    /\ file' = Absent
    /\ opened' = {}
    /\ GoTo(h, IF h \in inLoop THEN "wait" ELSE "save")
    /\ UNCHANGED <<process, current, ctxDone, inLoop, jar, logins, counts, history>>

\* os.O_CREATE|os.O_TRUNC
SaveOpens(h) ==
    /\ pc[h] = "save"
    /\ file' = Empty
    /\ opened' = opened \cup {h}
    /\ GoTo(h, "write")
    /\ UNCHANGED <<process, current, ctxDone, inLoop, jar, logins, counts, history>>

\* One write at the start of the file.  What another one wrote meanwhile is
\* written over, and stays behind the end if it was longer.
Written(h) ==
    IF h \notin opened THEN {file}
    ELSE {Whole(jar[h])} \cup (IF file = Empty THEN {} ELSE {Garbage})

\* Slip: the file is not closed.
SaveLeavesOpen(h) ==
    /\ pc[h] = "write"
    /\ file' \in Written(h)
    /\ saved' = (saved \/ (h \in opened /\ jar[h] # 0))
    /\ inLoop' = inLoop \cup {h}
    /\ GoTo(h, "wait")
    /\ UNCHANGED <<process, current, ctxDone, jar, opened, logins, counts, cut, refused,
                   unwritten, met>>

\* handleConfig then starts LoginLoop, and goes on to its channels.
SaveWrites(h) ==
    /\ pc[h] = "write"
    /\ file' \in Written(h)
    /\ opened' = opened \ {h}
    /\ saved' = (saved \/ (h \in opened /\ jar[h] # 0))
    /\ inLoop' = inLoop \cup {h}
    /\ GoTo(h, "wait")
    /\ UNCHANGED <<process, current, ctxDone, jar, logins, counts, cut, refused,
                   unwritten, met>>

\* The error of a Save is only logged.
SaveFails(h) ==
    /\ failures < MaxFailures
    /\ failures' = failures + 1
    /\ inLoop' = inLoop \cup {h}
    /\ GoTo(h, "wait")
    /\ UNCHANGED <<process, current, ctxDone, jar, logins, kills, cut, saved, refused, met>>

\* The file is left as it was.
SaveOpenFails(h) ==
    /\ pc[h] = "save"
    /\ SaveFails(h)
    /\ UNCHANGED <<opened, file, unwritten>>

\* Nothing is written, or not all.
SaveWriteFails(h) ==
    /\ pc[h] = "write"
    /\ SaveFails(h)
    /\ file' \in {file} \cup (IF h \in opened THEN {Garbage} ELSE {})
    /\ opened' = opened \ {h}
    /\ unwritten' = (unwritten \/ h \in opened)

-----------------------------------------------------------------------------
(* LoginLoop: a tick that is there may be taken although the context is    *)
(* done.                                                                   *)

Tick(h) ==
    /\ pc[h] = "wait"
    /\ GoTo(h, "check")
    /\ UNCHANGED <<process, current, ctxDone, inLoop, jar, opened, file, logins, counts,
                   history>>

\* Slip: the loop cleans up when it ends.
LoopEndsAndDeletes(h) ==
    /\ pc[h] = "wait"
    /\ h \in ctxDone
    /\ file' = Absent
    /\ opened' = {}
    /\ GoTo(h, "ended")
    /\ UNCHANGED <<process, current, ctxDone, inLoop, jar, logins, counts, history>>

LoopEnds(h) ==
    /\ pc[h] = "wait"
    /\ h \in ctxDone
    /\ GoTo(h, "ended")
    /\ UNCHANGED <<process, current, ctxDone, inLoop, jar, opened, file, logins, counts,
                   history>>

-----------------------------------------------------------------------------
LoginLoop(h) == Tick(h) \/ LoopEnds(h)

Step(h) ==
    \/ Stat(h) \/ Load(h) \/ LoadFails(h) \/ Import(h)
    \/ LoggedIn(h) \/ LoginFails(h) \/ Delete(h) \/ SaveOpens(h) \/ SaveWrites(h)
    \/ SaveOpenFails(h) \/ SaveWriteFails(h) \/ LoginLoop(h)

Next ==
    \/ \E h \in Handlers : Start(h) \/ Step(h)
    \/ Cancel \/ Exit \/ Kill

Spec == Init /\ [][Next]_vars

\* The goroutines go on, requests end, the ticker fires, and a loop whose
\* context is done does not take ticks for ever.
FairSpec ==
    /\ Spec
    /\ \A h \in Handlers : WF_vars(Step(h)) /\ SF_vars(LoopEnds(h))

-----------------------------------------------------------------------------
(* Properties.                                                             *)

\* The type of the state; the file that has the name is open only in a Save.
TypeOK ==
    /\ process \in {"up", "down", "fatal"}
    /\ current \in 0 .. MaxConfigs
    /\ ctxDone \cup inLoop \cup opened \subseteq Handlers
    /\ pc \in [Handlers -> {"off", "stat", "open", "exists", "check", "delete", "save",
                           "write", "wait", "ended"}]
    /\ \A h \in opened : pc[h] = "write"
    /\ jar \in [Handlers -> 0 .. MaxLogins]
    /\ file \in {Absent, Empty, Garbage} \cup {Whole(c) : c \in 0 .. MaxLogins}
    /\ logins \in 0 .. MaxLogins
    /\ kills \in 0 .. MaxKills
    /\ failures \in 0 .. MaxFailures
    /\ {cut, saved, refused, unwritten, met} \subseteq BOOLEAN

(***************************************************************************)
(* A start or a reload ends the program because of the file of the cookies *)
(* only if a process ended in the middle of a Save, a Save failed once it  *)
(* had emptied the file, or a configuration was loaded before the          *)
(* LoginLoop of an earlier one had ended.                                  *)
(***************************************************************************)
FatalExplained == process = "fatal" => cut \/ unwritten \/ met

(***************************************************************************)
(* Once saved, the cookies of a login are in the file over reloads, exits, *)
(* kills and Saves that cannot open it, but for the time of a Save; unless *)
(* a CheckLogin failed, be it for its context, two Saves met, a process    *)
(* ended in one, or one failed once it had emptied the file.               *)
(***************************************************************************)
CookiesKept ==
    saved /\ ~refused /\ ~cut /\ ~unwritten =>
        \/ file.state = "whole" /\ file.cookies # 0
        \/ file = Garbage
        \/ opened # {}

(***************************************************************************)
(* Whatever the loops left behind wrote or deleted, the file comes to hold *)
(* the cookies of the configuration in use again, as long as it is in use  *)
(* and its logins do not fail; Saves fail at times, but not for ever.      *)
(***************************************************************************)
FileCatchesUp ==
    \A h \in Handlers :
        (process = "up" /\ current = h) ~>
            \/ process # "up" \/ h \in ctxDone
            \/ file = Whole(jar[h])
            \/ pc[h] = "delete"
=============================================================================
