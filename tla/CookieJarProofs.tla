--------------------------- MODULE CookieJarProofs ---------------------------
(***************************************************************************)
(* Proofs about CookieJar, for any number of configurations, of logins and *)
(* of kills.                                                               *)
(*                                                                         *)
(* Two arguments that do not meet.  FatalExplained: as long as no          *)
(* configuration started before an earlier loop had ended, only the last   *)
(* handler does anything (OnlyCurrent), so that nobody deletes or writes   *)
(* under a Save (SaveHasName), and the file is whole or absent but for the *)
(* time of a Save (FileWhole).  CookiesKept: as long as no login failed    *)
(* nobody deletes the file (NoDelete), whatever the number of handlers,    *)
(* and what a Save writes are cookies.                                     *)
(***************************************************************************)
EXTENDS CookieJar, TLAPS

\* A process that is up has a configuration, and the next ones are not started.
Typed ==
    /\ TypeOK
    /\ process = "up" => current # 0
    /\ \A h \in Handlers : pc[h] # "off" => h <= current

\* Only the handler of the last configuration does anything.
OnlyCurrent == \A h \in Handlers : pc[h] \notin {"off", "ended"} => h = current

\* A handler that writes has the file open that has the name.
SaveHasName == \A h \in Handlers : pc[h] = "write" => h \in opened

\* The file is whole or absent, but for the time of a Save.
FileWhole ==
    /\ opened = {} => file = Absent \/ file.state = "whole"
    /\ opened # {} => file = Empty
    /\ \A h \in Handlers : pc[h] = "open" => file.state = "whole"

\* As long as the handlers follow each other.
Alone ==
    /\ ~met => OnlyCurrent /\ SaveHasName
    /\ ~met /\ ~cut /\ ~unwritten => FileWhole

\* No login failed: nobody deletes the file, and what is saved are cookies.
NoDelete ==
    \A h \in Handlers :
        /\ pc[h] # "delete"
        /\ pc[h] \in {"save", "write"} => jar[h] # 0

\* As long as no login fails.
Accepted ==
    /\ ~refused => NoDelete /\ SaveHasName
    /\ CookiesKept

-----------------------------------------------------------------------------
USE ConstantsAssumption DEF ConstantsAssumption, Handlers, Imported, history, counts

LEMMA InitTyped == Init => Typed
<1> SUFFICES ASSUME Init PROVE Typed
  OBVIOUS
<1> USE DEF Init
<1>1. jar \in [Handlers -> 0 .. MaxLogins] /\ logins \in 0 .. MaxLogins
  OBVIOUS
<1>2. pc \in [Handlers -> {"off", "stat", "open", "exists", "check", "delete", "save",
                           "write", "wait", "ended"}]
  OBVIOUS
<1>3. /\ process \in {"up", "down", "fatal"} /\ current \in 0 .. MaxConfigs
      /\ kills \in 0 .. MaxKills /\ failures \in 0 .. MaxFailures
      /\ file \in {Absent, Empty, Garbage} \cup {Whole(c) : c \in 0 .. MaxLogins}
  OBVIOUS
<1>5. {cut, saved, refused, unwritten, met} \subseteq BOOLEAN
  OBVIOUS
<1>4. \A h \in Handlers : pc[h] = "off"
  OBVIOUS
<1> QED
  BY <1>1, <1>2, <1>3, <1>4, <1>5 DEF Typed, TypeOK

LEMMA NextTyped == Typed /\ [Next]_vars => Typed'
<1> SUFFICES ASSUME Typed, [Next]_vars PROVE Typed'
  OBVIOUS
<1> USE DEF Typed, TypeOK, GoTo
<1>1. ASSUME NEW h \in Handlers, Start(h) PROVE Typed'
  <2>1. current' \in 1 .. MaxConfigs
    BY <1>1 DEF Start
  <2>2. pc' \in [Handlers -> {"off", "stat", "open", "exists", "check", "delete", "save",
                              "write", "wait", "ended"}]
    BY <1>1 DEF Start
  <2>3. \A g \in opened : pc'[g] = "write"
    BY <1>1 DEF Start
  <2> QED
    BY <1>1, <2>1, <2>2, <2>3 DEF Start
<1>2. ASSUME NEW h \in Handlers, Stat(h) PROVE Typed'
  BY <1>2 DEF Stat
<1>3. ASSUME NEW h \in Handlers, Load(h) PROVE Typed'
  BY SMTT(30), <1>3 DEF Load, Whole, Absent, Empty, Garbage
<1>4. ASSUME NEW h \in Handlers, LoadFails(h) PROVE Typed'
  BY <1>4 DEF LoadFails, Ends
<1>5. ASSUME NEW h \in Handlers, Import(h) PROVE Typed'
  BY <1>5 DEF Import
<1>6. ASSUME NEW h \in Handlers, LoggedIn(h) PROVE Typed'
  <2>1. jar' \in [Handlers -> 0 .. MaxLogins] /\ logins' \in 0 .. MaxLogins
    BY SMTT(30), <1>6 DEF LoggedIn
  <2>2. pc' \in [Handlers -> {"off", "stat", "open", "exists", "check", "delete", "save",
                              "write", "wait", "ended"}]
    BY <1>6 DEF LoggedIn
  <2>3. \A g \in Handlers : pc'[g] = pc[g] \/ (g = h /\ pc[g] = "check")
    BY <1>6 DEF LoggedIn
  <2>4. UNCHANGED <<process, current, ctxDone, inLoop, opened, file, counts, history>>
    BY <1>6 DEF LoggedIn
  <2> QED
    BY <2>1, <2>2, <2>3, <2>4
<1>7. ASSUME NEW h \in Handlers, LoginFails(h) PROVE Typed'
  BY <1>7 DEF LoginFails
<1>8. ASSUME NEW h \in Handlers, Delete(h) PROVE Typed'
  BY <1>8 DEF Delete
<1>9. ASSUME NEW h \in Handlers, SaveOpens(h) PROVE Typed'
  BY <1>9 DEF SaveOpens
<1>10. ASSUME NEW h \in Handlers, SaveWrites(h) PROVE Typed'
  BY <1>10 DEF SaveWrites, Written
<1>11. ASSUME NEW h \in Handlers, LoginLoop(h) PROVE Typed'
  BY <1>11 DEF LoginLoop, Tick, LoopEnds
<1>12. CASE Cancel
  BY <1>12 DEF Cancel
<1>13. CASE Exit
  BY <1>13 DEF Exit, Ends
<1>14. CASE Kill
  BY <1>14 DEF Kill, Ends
<1>15. CASE UNCHANGED vars
  BY <1>15 DEF vars
<1>16. ASSUME NEW h \in Handlers, SaveOpenFails(h) PROVE Typed'
  BY <1>16 DEF SaveOpenFails, SaveFails
<1>17. ASSUME NEW h \in Handlers, SaveWriteFails(h) PROVE Typed'
  BY <1>17 DEF SaveWriteFails, SaveFails
<1> QED
  BY <1>1, <1>2, <1>3, <1>4, <1>5, <1>6, <1>7, <1>8, <1>9, <1>10, <1>11, <1>12, <1>13,
     <1>14, <1>15, <1>16, <1>17 DEF Next, Step

LEMMA NextAlone == Typed /\ Alone /\ [Next]_vars => Alone'
<1> SUFFICES ASSUME Typed, Alone, [Next]_vars PROVE Alone'
  OBVIOUS
<1> USE DEF Typed, TypeOK, GoTo, Alone, OnlyCurrent, SaveHasName, FileWhole,
           Absent, Empty, Whole
<1>1. ASSUME NEW h \in Handlers, Start(h) PROVE Alone'
  BY <1>1 DEF Start
<1>2. ASSUME NEW h \in Handlers, Stat(h) PROVE Alone'
  BY <1>2 DEF Stat
<1>3. ASSUME NEW h \in Handlers, Load(h) PROVE Alone'
  BY <1>3 DEF Load
<1>4. ASSUME NEW h \in Handlers, LoadFails(h) PROVE Alone'
  BY <1>4 DEF LoadFails, Ends
<1>5. ASSUME NEW h \in Handlers, Import(h) PROVE Alone'
  BY <1>5 DEF Import
<1>6. ASSUME NEW h \in Handlers, LoggedIn(h) PROVE Alone'
  BY <1>6 DEF LoggedIn
<1>7. ASSUME NEW h \in Handlers, LoginFails(h) PROVE Alone'
  BY <1>7 DEF LoginFails
<1>8. ASSUME NEW h \in Handlers, Delete(h) PROVE Alone'
  BY <1>8 DEF Delete
<1>9. ASSUME NEW h \in Handlers, SaveOpens(h) PROVE Alone'
  BY <1>9 DEF SaveOpens
<1>10. ASSUME NEW h \in Handlers, SaveWrites(h) PROVE Alone'
  BY SMTT(30), <1>10 DEF SaveWrites, Written
<1>11. ASSUME NEW h \in Handlers, LoginLoop(h) PROVE Alone'
  BY <1>11 DEF LoginLoop, Tick, LoopEnds
<1>12. CASE Cancel
  BY <1>12 DEF Cancel
<1>13. CASE Exit
  BY <1>13 DEF Exit, Ends
<1>14. CASE Kill
  BY <1>14 DEF Kill, Ends
<1>15. CASE UNCHANGED vars
  BY <1>15 DEF vars
<1>16. ASSUME NEW h \in Handlers, SaveOpenFails(h) PROVE Alone'
  BY <1>16 DEF SaveOpenFails, SaveFails
<1>17. ASSUME NEW h \in Handlers, SaveWriteFails(h) PROVE Alone'
  BY <1>17 DEF SaveWriteFails, SaveFails
<1> QED
  BY <1>1, <1>2, <1>3, <1>4, <1>5, <1>6, <1>7, <1>8, <1>9,
     <1>10, <1>11, <1>12, <1>13, <1>14, <1>15, <1>16, <1>17 DEF Next, Step

LEMMA NextAccepted == Typed /\ Accepted /\ [Next]_vars => Accepted'
<1> SUFFICES ASSUME Typed, Accepted, [Next]_vars PROVE Accepted'
  OBVIOUS
<1> USE DEF Typed, TypeOK, GoTo, Accepted, NoDelete, SaveHasName, CookiesKept,
           Absent, Empty, Whole, Garbage
<1>1. ASSUME NEW h \in Handlers, Start(h) PROVE Accepted'
  BY <1>1 DEF Start
<1>2. ASSUME NEW h \in Handlers, Stat(h) PROVE Accepted'
  BY <1>2 DEF Stat
<1>3. ASSUME NEW h \in Handlers, Load(h) PROVE Accepted'
  BY <1>3 DEF Load
<1>4. ASSUME NEW h \in Handlers, LoadFails(h) PROVE Accepted'
  BY <1>4 DEF LoadFails, Ends
<1>5. ASSUME NEW h \in Handlers, Import(h) PROVE Accepted'
  BY <1>5 DEF Import
<1>6. ASSUME NEW h \in Handlers, LoggedIn(h) PROVE Accepted'
  BY <1>6 DEF LoggedIn
<1>7. ASSUME NEW h \in Handlers, LoginFails(h) PROVE Accepted'
  BY <1>7 DEF LoginFails
<1>8. ASSUME NEW h \in Handlers, Delete(h) PROVE Accepted'
  BY <1>8 DEF Delete
<1>9. ASSUME NEW h \in Handlers, SaveOpens(h) PROVE Accepted'
  BY <1>9 DEF SaveOpens
<1>10. ASSUME NEW h \in Handlers, SaveWrites(h) PROVE Accepted'
  BY <1>10 DEF SaveWrites, Written
<1>11. ASSUME NEW h \in Handlers, LoginLoop(h) PROVE Accepted'
  BY <1>11 DEF LoginLoop, Tick, LoopEnds
<1>12. CASE Cancel
  BY <1>12 DEF Cancel
<1>13. CASE Exit
  BY <1>13 DEF Exit, Ends
<1>14. CASE Kill
  BY <1>14 DEF Kill, Ends
<1>15. CASE UNCHANGED vars
  BY <1>15 DEF vars
<1>16. ASSUME NEW h \in Handlers, SaveOpenFails(h) PROVE Accepted'
  BY <1>16 DEF SaveOpenFails, SaveFails
<1>17. ASSUME NEW h \in Handlers, SaveWriteFails(h) PROVE Accepted'
  BY <1>17 DEF SaveWriteFails, SaveFails
<1> QED
  BY <1>1, <1>2, <1>3, <1>4, <1>5, <1>6, <1>7, <1>8, <1>9,
     <1>10, <1>11, <1>12, <1>13, <1>14, <1>15, <1>16, <1>17 DEF Next, Step

\* The inductive invariant holds in every reachable state.
THEOREM Invariance == Spec => [](Typed /\ Alone /\ Accepted)
<1>1. Init => Alone /\ Accepted
  BY DEF Init, Alone, OnlyCurrent, SaveHasName, FileWhole, Accepted, NoDelete,
     CookiesKept, Absent
<1> QED
  BY <1>1, InitTyped, NextTyped, NextAlone, NextAccepted, PTL DEF Spec

(***************************************************************************)
(* Every variable keeps its type, and the file that has the name is open   *)
(* only in a Save.                                                         *)
(***************************************************************************)
THEOREM TypeCorrect == Spec => []TypeOK
<1>1. Typed => TypeOK
  BY DEF Typed
<1> QED
  BY <1>1, Invariance, PTL

(***************************************************************************)
(* The file of the cookies ends the program only if a process ended in a   *)
(* Save, or a configuration was loaded before the LoginLoop of an earlier  *)
(* one had ended.                                                          *)
(***************************************************************************)
THEOREM FatalOnlyThen == Spec => []FatalExplained
<1>1. Init => FatalExplained
  BY DEF Init, FatalExplained
<1>2. ASSUME Typed, Alone, FatalExplained, [Next]_vars PROVE FatalExplained'
  <2> USE <1>2 DEF FatalExplained
  <2>1. ASSUME NEW h \in Handlers, LoadFails(h) PROVE cut \/ unwritten \/ met
    BY <2>1 DEF LoadFails, Alone, FileWhole
  <2>2. cut => cut'
    BY DEF Next, vars, history, Start, Step, Stat, Load, LoadFails, Import, LoggedIn, LoginFails,
       Delete, SaveOpens, SaveWrites, SaveOpenFails, SaveWriteFails, SaveFails, LoginLoop,
       Tick, LoopEnds, Cancel, Exit, Kill, Ends
  <2>3. met => met'
    BY DEF Next, vars, history, Start, Step, Stat, Load, LoadFails, Import, LoggedIn, LoginFails,
       Delete, SaveOpens, SaveWrites, SaveOpenFails, SaveWriteFails, SaveFails, LoginLoop,
       Tick, LoopEnds, Cancel, Exit, Kill, Ends
  <2>4. unwritten => unwritten'
    BY DEF Next, vars, history, Start, Step, Stat, Load, LoadFails, Import, LoggedIn, LoginFails,
       Delete, SaveOpens, SaveWrites, SaveOpenFails, SaveWriteFails, SaveFails, LoginLoop,
       Tick, LoopEnds, Cancel, Exit, Kill, Ends
  <2>5. process' = "fatal" => process = "fatal" \/ \E h \in Handlers : LoadFails(h)
    BY DEF Next, vars, history, Start, Step, Stat, Load, Import, LoggedIn, LoginFails,
       Delete, SaveOpens, SaveWrites, SaveOpenFails, SaveWriteFails, SaveFails, LoginLoop,
       Tick, LoopEnds, Cancel, Exit, Kill, Ends
  <2> QED
    BY <2>1, <2>2, <2>3, <2>4, <2>5
<1> QED
  BY <1>1, <1>2, Invariance, PTL DEF Spec

(***************************************************************************)
(* Once saved, the cookies of a login stay in the file over reloads, exits *)
(* and kills, as long as no CheckLogin fails and no process ends in a      *)
(* Save; during a Save, and after two that met, they may not be readable.  *)
(***************************************************************************)
THEOREM SavedAreKept == Spec => []CookiesKept
<1>1. Accepted => CookiesKept
  BY DEF Accepted
<1> QED
  BY <1>1, Invariance, PTL
==============================================================================
