----------------------------- MODULE WsRpcProofs -----------------------------
(***************************************************************************)
(* Proofs about WsRpc, for any number of calls, capacity of msgChan and    *)
(* number of tries.                                                        *)
(*                                                                         *)
(* Two calls may carry the same id: msgID is bumped when a call is over,   *)
(* so that a heartbeat and a playlist request that overlap read the same   *)
(* number.  NoStaleReply holds because the calls of one caller do not      *)
(* overlap (OnePerCaller), so that their ids grow (IdsGrow), and because   *)
(* whatever is in the out channel of a call has its id (SameId).           *)
(***************************************************************************)
EXTENDS WsRpc, TLAPS, SequenceTheorems

Made == 1 .. calls

\* Nothing is known of a call that was not made.
NotMade ==
    \A k \in Calls \ Made :
        /\ stat[k] = "none" /\ filter[k] = "off" /\ out[k] = << >> /\ got[k] = 0

\* Messages are about calls that were made.
OnlyMade ==
    /\ asked \subseteq Made
    /\ listen = "push" => held \in Made
    /\ \A i \in 1 .. Len(msgChan) : msgChan[i] \in Made

\* msgID has moved past the ids of the calls that are over.
IdsBelow ==
    \A k \in Made : /\ id[k] <= msgID
                    /\ stat[k] = "over" => id[k] < msgID

\* A caller has one call at a time, and knows of it.
OnePerCaller ==
    \A k \in Made :
        /\ caller[k] \in Callers
        /\ stat[k] # "none"
        /\ caller[k] = "heartbeat" /\ stat[k] # "over" => hb = "call"
        /\ caller[k] = "hls" /\ stat[k] # "over" => hls = "call"
        /\ \A j \in Made : j < k /\ caller[j] = caller[k] => stat[j] = "over"

IdsGrow == \A j, k \in Made : j < k /\ caller[j] = caller[k] => id[j] < id[k]

\* What a filter keeps, and what the call then gets, has its id.
SameId ==
    \A k \in Made :
        /\ \A i \in 1 .. Len(out[k]) : out[k][i] \in Made /\ id[out[k][i]] = id[k]
        /\ got[k] # 0 => got[k] \in Made /\ id[got[k]] = id[k]

\* A call that leaves has an outcome, and a retry has a try left.
Progress ==
    /\ \A k \in Calls : stat[k] \in {"leave", "over"} => outcome[k] \in Outcomes
    /\ \A k \in Calls : stat[k] \in {"leave", "over"} /\ outcome[k] = "reply" => got[k] # 0
    /\ hls = "retry" => tries > 0

Ids == IdsBelow /\ OnePerCaller /\ IdsGrow

\* The inductive invariant.
IInv ==
    /\ TypeOK
    /\ NotMade /\ OnlyMade
    /\ Ids /\ SameId
    /\ Progress

-----------------------------------------------------------------------------
USE ConstantsAssumption
    DEF ConstantsAssumption, Calls, Callers, Outcomes, Made, callVars, filterVars,
        wireVars, loopVars

LEMMA InitIInv == Init => IInv
<1> SUFFICES ASSUME Init PROVE IInv
  OBVIOUS
<1> USE DEF Init
<1>1. TypeOK
  <2>1. msgID \in Nat \ {0} /\ calls \in 0 .. MaxCalls /\ held \in 0 .. MaxCalls
        /\ tries \in 0 .. HlsTries
    OBVIOUS
  <2>2. got \in [Calls -> 0 .. MaxCalls] /\ id \in [Calls -> Nat]
    OBVIOUS
  <2>3. /\ caller \in [Calls -> Callers \cup {"none"}]
        /\ stat \in [Calls -> {"none", "send", "wait", "leave", "over"}]
        /\ outcome \in [Calls -> Outcomes \cup {"none"}]
        /\ filter \in [Calls -> {"off", "on", "gone"}]
        /\ stop \in [Calls -> BOOLEAN]
    OBVIOUS
  <2>4. /\ out \in [Calls -> Seq(Calls)]
        /\ msgChan \in Seq(Calls) /\ Len(msgChan) <= MsgBufMax
    OBVIOUS
  <2> QED
    BY <2>1, <2>2, <2>3, <2>4 DEF TypeOK
<1>2. NotMade /\ OnlyMade /\ Ids /\ SameId /\ Progress
  BY DEF NotMade, OnlyMade, Ids, IdsBelow, OnePerCaller, IdsGrow, SameId, Progress
<1> QED
  BY <1>1, <1>2 DEF IInv

-----------------------------------------------------------------------------
(* What the steps have in common.                                          *)

\* Nothing happens to the calls.
LEMMA IdsKept ==
    ASSUME Ids, UNCHANGED <<msgID, calls, caller, id, stat, hb, hls>>
    PROVE  Ids'
  BY DEF Ids, IdsBelow, OnePerCaller, IdsGrow

\* A call goes on, without being over.
LEMMA IdsOn ==
    ASSUME TypeOK, Ids, NEW k \in Calls, NEW s, s \notin {"none", "over"},
           stat[k] # "none", stat[k] # "over", stat' = [stat EXCEPT ![k] = s],
           UNCHANGED <<msgID, calls, caller, id, hb, hls>>
    PROVE  Ids'
<1>1. \A j \in Calls : stat'[j] = IF j = k THEN s ELSE stat[j]
  BY DEF TypeOK
<1>2. IdsBelow'
  BY <1>1 DEF Ids, IdsBelow, TypeOK
<1>3. OnePerCaller'
  BY SMTT(30), <1>1 DEF Ids, OnePerCaller, TypeOK
<1>4. IdsGrow'
  BY DEF Ids, IdsGrow
<1> QED
  BY <1>2, <1>3, <1>4 DEF Ids

\* A call is over.
LEMMA IdsOver ==
    ASSUME TypeOK, NotMade, Ids, NEW k \in Calls, Over(k),
           \/ caller[k] = "heartbeat" /\ UNCHANGED hls
           \/ caller[k] = "hls" /\ UNCHANGED hb
    PROVE  Ids'
<1>1. \A j \in Calls : stat'[j] = IF j = k THEN "over" ELSE stat[j]
  BY DEF TypeOK, Over
<1>2. IdsBelow'
  BY <1>1 DEF Ids, IdsBelow, TypeOK, Over
<1>3. k \in Made /\ \A j \in Made : caller[j] = caller[k] => stat'[j] = "over"
  <2>1. k \in Made
    BY DEF NotMade, Over
  <2>2. ASSUME NEW j \in Made, caller[j] = caller[k], j # k PROVE stat[j] = "over"
    <3>1. j < k \/ k < j
      BY <2>1, <2>2 DEF TypeOK
    <3> QED
      BY <2>1, <2>2, <3>1 DEF Ids, OnePerCaller, Over
  <2> QED
    BY SMTT(30), <1>1, <2>1, <2>2 DEF TypeOK
<1>4. OnePerCaller'
  <2>1. UNCHANGED <<calls, caller>>
    BY DEF Over
  <2>2. ASSUME NEW j \in Made PROVE caller[j] \in Callers /\ stat'[j] # "none"
    BY <1>1, <2>2 DEF Ids, OnePerCaller, TypeOK
  <2>3. ASSUME NEW j \in Made, caller[j] \in Callers, stat'[j] # "over"
        PROVE  /\ caller[j] = "heartbeat" => hb' = "call"
               /\ caller[j] = "hls" => hls' = "call"
    BY <1>1, <1>3, <2>3 DEF Ids, OnePerCaller, TypeOK
  <2>4. ASSUME NEW i \in Made, NEW j \in Made, i < j, caller[i] = caller[j]
        PROVE  stat'[i] = "over"
    BY <1>1, <2>4 DEF Ids, OnePerCaller, TypeOK
  <2> QED
    BY <2>1, <2>2, <2>3, <2>4 DEF OnePerCaller
<1>5. IdsGrow'
  BY DEF Ids, IdsGrow, Over
<1> QED
  BY <1>2, <1>4, <1>5 DEF Ids

\* What a caller finds when it begins a call, its number being calls + 1.
LEMMA BeginNew ==
    ASSUME TypeOK, NotMade, NEW c \in Callers, Begin(c)
    PROVE  /\ calls' \in Calls /\ calls' = calls + 1 /\ Made' = Made \cup {calls'}
           /\ calls' \notin Made /\ \A j \in Made : j < calls'
           /\ caller'[calls'] = c /\ id'[calls'] = msgID /\ stat'[calls'] = "send"
           /\ filter'[calls'] = "on" /\ out[calls'] = << >> /\ got[calls'] = 0
           /\ \A j \in Calls \ {calls'} :
                /\ caller'[j] = caller[j] /\ id'[j] = id[j] /\ stat'[j] = stat[j]
                /\ filter'[j] = filter[j]
           /\ UNCHANGED <<msgID, outcome, got, stop, out>>
<1>1. calls' = calls + 1 /\ calls' \in Calls
  BY DEF Begin, TypeOK
<1>2. calls' \notin Made /\ (\A j \in Made : j < calls') /\ Made' = Made \cup {calls'}
  <2>1. calls \in Nat
    BY DEF TypeOK
  <2>2. 1 .. calls + 1 = 1 .. calls \cup {calls + 1}
    BY <2>1
  <2> QED
    BY <1>1, <2>1, <2>2
<1>3. out[calls'] = << >> /\ got[calls'] = 0
  BY <1>1, <1>2 DEF NotMade
<1>4. /\ caller' = [caller EXCEPT ![calls'] = c]
      /\ id' = [id EXCEPT ![calls'] = msgID]
      /\ stat' = [stat EXCEPT ![calls'] = "send"]
      /\ filter' = [filter EXCEPT ![calls'] = "on"]
      /\ UNCHANGED <<msgID, outcome, got, stop, out>>
  BY <1>1 DEF Begin
<1> QED
  BY <1>1, <1>2, <1>3, <1>4 DEF TypeOK

\* A caller that has no call begins one.
LEMMA IdsBegin ==
    ASSUME TypeOK, NotMade, Ids, NEW c \in Callers, Begin(c),
           \/ c = "heartbeat" /\ hb # "call" /\ hb' = "call" /\ UNCHANGED hls
           \/ c = "hls" /\ hls # "call" /\ hls' = "call" /\ UNCHANGED hb
    PROVE  Ids'
<1> DEFINE k == calls'
<1>1. /\ k \in Calls /\ k \notin Made /\ Made' = Made \cup {k} /\ \A j \in Made : j < k
      /\ caller'[k] = c /\ id'[k] = msgID /\ stat'[k] = "send" /\ msgID' = msgID
      /\ \A j \in Calls \ {k} :
           caller'[j] = caller[j] /\ id'[j] = id[j] /\ stat'[j] = stat[j]
  BY BeginNew
<1>2. \A j \in Made : /\ j \in Calls \ {k} /\ id'[j] = id[j]
                      /\ caller'[j] = caller[j] /\ stat'[j] = stat[j]
  BY <1>1 DEF TypeOK
<1>3. ASSUME NEW j \in Made, caller[j] = c PROVE stat[j] = "over"
  BY <1>3 DEF Ids, OnePerCaller
<1> HIDE DEF k, Made
<1>4. IdsBelow'
  <2>1. id'[k] <= msgID' /\ stat'[k] # "over"
    <3>1. msgID \in Nat
      BY DEF TypeOK
    <3> QED
      BY <1>1, <3>1
  <2>2. ASSUME NEW j \in Made
        PROVE  id'[j] <= msgID' /\ (stat'[j] = "over" => id'[j] < msgID')
    BY <1>1, <1>2 DEF Ids, IdsBelow
  <2> QED
    BY <1>1, <2>1, <2>2 DEF IdsBelow
<1>5. OnePerCaller'
  <2>1. ASSUME NEW j \in Made' PROVE caller'[j] \in Callers /\ stat'[j] # "none"
    BY <1>1, <1>2, <2>1 DEF Ids, OnePerCaller
  <2>2. ASSUME NEW j \in Made', stat'[j] # "over"
        PROVE  /\ caller'[j] = "heartbeat" => hb' = "call"
               /\ caller'[j] = "hls" => hls' = "call"
    BY <1>1, <1>2, <2>2 DEF Ids, OnePerCaller
  <2>3. ASSUME NEW i \in Made', NEW j \in Made', i < j, caller'[i] = caller'[j]
        PROVE  stat'[i] = "over"
    <3>1. i \in Made
      BY <1>1, <1>2, <2>3
    <3> QED
      BY <1>1, <1>2, <1>3, <2>3, <3>1 DEF Ids, OnePerCaller
  <2> QED
    BY <2>1, <2>2, <2>3 DEF OnePerCaller
<1>6. IdsGrow'
  <2> SUFFICES ASSUME NEW i \in Made', NEW j \in Made', i < j, caller'[i] = caller'[j]
               PROVE  id'[i] < id'[j]
    BY DEF IdsGrow
  <2>1. i \in Made
    BY <1>1, <1>2
  <2>2. CASE j = k
    BY <1>1, <1>2, <1>3, <2>1, <2>2 DEF Ids, IdsBelow
  <2>3. CASE j \in Made
    BY <1>2, <2>1, <2>3 DEF Ids, IdsGrow
  <2> QED
    BY <1>1, <2>2, <2>3
<1> QED
  BY <1>4, <1>5, <1>6 DEF Ids

\* What is left of a channel that is read, and of one that is written.
LEMMA Taken ==
    ASSUME NEW S, NEW s \in Seq(S), s # << >>
    PROVE  /\ Len(s) \in Nat /\ 1 \in 1 .. Len(s) /\ Head(s) = s[1] /\ Head(s) \in S
           /\ Tail(s) \in Seq(S) /\ Len(Tail(s)) = Len(s) - 1
           /\ \A i \in 1 .. Len(Tail(s)) : i + 1 \in 1 .. Len(s) /\ Tail(s)[i] = s[i + 1]
  OBVIOUS

\* The types of the channels and of what is received from them.
LEMMA Channels ==
    ASSUME TypeOK
    PROVE  /\ msgChan \in Seq(Calls)
           /\ out \in [Calls -> Seq(Calls)] /\ \A k \in Calls : out[k] \in Seq(Calls)
           /\ got \in [Calls -> 0 .. MaxCalls]
  BY DEF TypeOK

-----------------------------------------------------------------------------
(* The steps.                                                              *)

\* A call sends its request and waits for the reply.
LEMMA CallStep ==
    ASSUME IInv, NEW k \in Calls, Call(k)
    PROVE  IInv'
<1> USE DEF IInv
<1>1. CASE Send(k)
  <2> USE <1>1 DEF Send
  <2>1. TypeOK'
    BY DEF TypeOK, Progress, OnlyMade
  <2>2. Ids'
    BY IdsOn
  <2>3. NotMade' /\ OnlyMade'
    BY DEF TypeOK, NotMade, OnlyMade
  <2>4. SameId'
    BY DEF TypeOK, NotMade, OnlyMade, SameId
  <2>5. Progress'
    BY DEF TypeOK, NotMade, SameId, Progress
  <2> QED
    BY <2>1, <2>2, <2>3, <2>4, <2>5
<1>2. CASE SendFail(k)
  <2> USE <1>2 DEF SendFail, Leave
  <2>1. TypeOK'
    <3>1. PICK o \in {"writeError", "deadline"} : outcome' = [outcome EXCEPT ![k] = o]
      OBVIOUS
    <3>2. outcome' \in [Calls -> Outcomes \cup {"none"}]
      BY <3>1 DEF TypeOK
    <3> QED
      BY SMTT(30), <3>2 DEF TypeOK
  <2>2. Ids'
    BY IdsOn
  <2>3. NotMade' /\ OnlyMade'
    BY DEF TypeOK, NotMade, OnlyMade
  <2>4. SameId'
    BY DEF TypeOK, NotMade, OnlyMade, SameId
  <2>5. Progress'
    BY SMTT(30) DEF TypeOK, NotMade, SameId, Progress
  <2> QED
    BY <2>1, <2>2, <2>3, <2>4, <2>5
<1>3. CASE Receive(k)
  <2> USE <1>3 DEF Receive, Leave
  <2>0. /\ Head(out[k]) \in Made /\ id[Head(out[k])] = id[k] /\ k \in Made
        /\ got' = [got EXCEPT ![k] = Head(out[k])]
        /\ out' = [out EXCEPT ![k] = Tail(out[k])]
        /\ Tail(out[k]) \in Seq(Calls) /\ Head(out[k]) \in 1 .. MaxCalls
        /\ \A i \in 1 .. Len(Tail(out[k])) :
             i + 1 \in 1 .. Len(out[k]) /\ Tail(out[k])[i] = out[k][i + 1]
    <3>1. k \in Made
      BY DEF NotMade
    <3>2. out[k] \in Seq(Calls) /\ out[k] # << >>
      BY Channels
    <3>3. /\ Head(out[k]) = out[k][1] /\ 1 \in 1 .. Len(out[k]) /\ Head(out[k]) \in Calls
          /\ Tail(out[k]) \in Seq(Calls)
          /\ \A i \in 1 .. Len(Tail(out[k])) :
               i + 1 \in 1 .. Len(out[k]) /\ Tail(out[k])[i] = out[k][i + 1]
      BY <3>2, Taken
    <3>4. Head(out[k]) \in Made /\ id[Head(out[k])] = id[k]
      BY <3>1, <3>3 DEF SameId
    <3> QED
      BY <3>1, <3>3, <3>4
  <2>1. TypeOK'
    <3>1. got' \in [Calls -> 0 .. MaxCalls] /\ out' \in [Calls -> Seq(Calls)]
      <4>1. got \in [Calls -> 0 .. MaxCalls] /\ out \in [Calls -> Seq(Calls)]
        BY Channels
      <4> HIDE <1>3 DEF Receive
      <4>2. got' \in [Calls -> 0 .. MaxCalls]
        BY SMTT(30), <2>0, <4>1
      <4>3. out' \in [Calls -> Seq(Calls)]
        BY <2>0, <4>1
      <4> QED
        BY <4>2, <4>3
    <3>2. /\ stat' \in [Calls -> {"none", "send", "wait", "leave", "over"}]
          /\ outcome' \in [Calls -> Outcomes \cup {"none"}]
      BY DEF TypeOK
    <3>3. UNCHANGED <<msgID, calls, caller, id, filter, stop, wireVars, ctxDone, loopVars>>
      OBVIOUS
    <3> HIDE <1>3 DEF Receive
    <3> QED
      BY SMTT(30), <3>1, <3>2, <3>3 DEF TypeOK
  <2>2. Ids'
    BY IdsOn
  <2>3. NotMade' /\ OnlyMade'
    BY DEF TypeOK, NotMade, OnlyMade
  <2>4. SameId'
    <3>1. ASSUME NEW j \in Made, j # k PROVE out'[j] = out[j] /\ got'[j] = got[j]
      BY <2>0, <3>1 DEF TypeOK
    <3>2. out'[k] = Tail(out[k]) /\ got'[k] = Head(out[k])
      BY <2>0 DEF TypeOK
    <3>3. ASSUME NEW j \in Made
          PROVE  /\ \A i \in 1 .. Len(out'[j]) :
                      out'[j][i] \in Made /\ id[out'[j][i]] = id[j]
                 /\ got'[j] # 0 => got'[j] \in Made /\ id[got'[j]] = id[j]
      <4>1. CASE j = k
        BY <2>0, <3>2, <4>1 DEF SameId
      <4>2. CASE j # k
        BY <3>1, <4>2 DEF SameId
      <4> QED
        BY <4>1, <4>2
    <3> QED
      BY <3>3 DEF SameId
  <2>5. Progress'
    <3>1. got'[k] # 0 /\ \A j \in Calls \ {k} : got'[j] = got[j]
      BY SMTT(30), <2>0, Channels DEF OnlyMade
    <3>2. \A j \in Calls \ {k} : outcome'[j] = outcome[j] /\ stat'[j] = stat[j]
      BY DEF TypeOK
    <3>3. stat'[k] = "leave" /\ outcome'[k] = "reply"
      BY DEF TypeOK
    <3> QED
      BY <3>1, <3>2, <3>3 DEF Progress
  <2> QED
    BY <2>1, <2>2, <2>3, <2>4, <2>5
<1>4. CASE ReceiveClosed(k)
  <2> USE <1>4 DEF ReceiveClosed, Leave
  <2>1. TypeOK'
    BY ZenonT(30) DEF TypeOK, Progress, OnlyMade
  <2>2. Ids'
    BY IdsOn
  <2>3. NotMade' /\ OnlyMade'
    BY DEF TypeOK, NotMade, OnlyMade
  <2>4. SameId'
    BY ZenonT(30) DEF TypeOK, NotMade, OnlyMade, SameId
  <2>5. Progress'
    BY ZenonT(30) DEF TypeOK, NotMade, SameId, Progress
  <2> QED
    BY <2>1, <2>2, <2>3, <2>4, <2>5
<1>5. CASE Timeout(k)
  <2> USE <1>5 DEF Timeout, Leave
  <2>1. TypeOK'
    BY DEF TypeOK, Progress, OnlyMade
  <2>2. Ids'
    BY IdsOn
  <2>3. NotMade' /\ OnlyMade'
    BY DEF TypeOK, NotMade, OnlyMade
  <2>4. SameId'
    BY DEF TypeOK, NotMade, OnlyMade, SameId
  <2>5. Progress'
    BY DEF TypeOK, NotMade, SameId, Progress
  <2> QED
    BY <2>1, <2>2, <2>3, <2>4, <2>5
<1> QED
  BY <1>1, <1>2, <1>3, <1>4, <1>5 DEF Call

\* A filter takes a message, or ends.
LEMMA FilterStep ==
    ASSUME IInv, NEW k \in Calls, Filter(k)
    PROVE  IInv'
<1> USE DEF IInv
<1>1. CASE FilterTake(k)
  <2> USE <1>1 DEF FilterTake
  <2> DEFINE m == Head(msgChan)
  <2>0. /\ k \in Made /\ m \in Made /\ msgChan' \in Seq(Calls)
        /\ Len(msgChan') = Len(msgChan) - 1
        /\ \A i \in 1 .. Len(msgChan') : msgChan'[i] \in Made
    <3>1. k \in Made
      BY DEF NotMade
    <3>2. msgChan \in Seq(Calls) /\ msgChan # << >>
      BY Channels
    <3>3. /\ m = msgChan[1] /\ 1 \in 1 .. Len(msgChan)
          /\ msgChan' \in Seq(Calls) /\ Len(msgChan') = Len(msgChan) - 1
          /\ \A i \in 1 .. Len(msgChan') :
               i + 1 \in 1 .. Len(msgChan) /\ msgChan'[i] = msgChan[i + 1]
      BY <3>2, Taken
    <3> QED
      BY <3>1, <3>3 DEF OnlyMade
  <2>6. \A j \in Calls :
           out'[j] = IF j = k /\ id[m] = id[k] THEN Append(out[j], m) ELSE out[j]
    BY Channels
  <2>7. m \in Calls
    BY <2>0 DEF TypeOK
  <2>8. UNCHANGED <<callVars, filter, stop, asked, closed, listen, held, ctxDone, loopVars>>
    OBVIOUS
  <2>9. out' \in [Calls -> Seq(Calls)]
    BY SMTT(30), <2>7, Channels
  <2> HIDE DEF m
  <2>1. TypeOK'
    <3>1. Len(msgChan') <= MsgBufMax
      BY <2>0 DEF TypeOK
    <3> HIDE <1>1 DEF FilterTake
    <3> QED
      BY ZenonT(30), <2>0, <2>8, <2>9, <3>1 DEF TypeOK
  <2>2. Ids'
    BY IdsKept
  <2>3. NotMade' /\ OnlyMade'
    BY <2>0, <2>6 DEF TypeOK, NotMade, OnlyMade
  <2>4. SameId'
    <3> SUFFICES ASSUME NEW j \in Made, NEW i \in 1 .. Len(out'[j])
                 PROVE  out'[j][i] \in Made /\ id[out'[j][i]] = id[j]
      BY DEF SameId
    <3>1. j \in Calls /\ out[j] \in Seq(Calls)
      <4>1. calls \in 0 .. MaxCalls
        BY DEF TypeOK
      <4>2. j \in Calls
        BY <4>1
      <4> QED
        BY <4>2, Channels
    <3>2. CASE j = k /\ id[m] = id[k]
      <4>1. out'[j] = Append(out[j], m)
        BY <2>6, <3>1, <3>2
      <4>2. (i \in 1 .. Len(out[j]) /\ out'[j][i] = out[j][i]) \/ out'[j][i] = m
        BY <3>1, <4>1
      <4> QED
        BY SMTT(30), <2>0, <3>2, <4>2 DEF SameId
    <3>3. CASE ~(j = k /\ id[m] = id[k])
      <4>1. out'[j] = out[j]
        BY <2>6, <3>1, <3>3
      <4> QED
        BY ZenonT(30), <4>1 DEF SameId
    <3> QED
      BY <3>2, <3>3
  <2>5. Progress'
    BY DEF TypeOK, NotMade, SameId, Progress
  <2> QED
    BY <2>1, <2>2, <2>3, <2>4, <2>5
<1>2. CASE FilterClosed(k)
  <2> USE <1>2 DEF FilterClosed
  <2>1. TypeOK'
    BY DEF TypeOK, Progress, OnlyMade
  <2>2. Ids'
    BY IdsKept
  <2>3. NotMade' /\ OnlyMade'
    BY DEF TypeOK, NotMade, OnlyMade
  <2>4. SameId'
    BY DEF TypeOK, NotMade, OnlyMade, SameId
  <2>5. Progress'
    BY DEF TypeOK, NotMade, SameId, Progress
  <2> QED
    BY <2>1, <2>2, <2>3, <2>4, <2>5
<1>3. CASE FilterStop(k)
  <2> USE <1>3 DEF FilterStop
  <2>1. TypeOK'
    BY DEF TypeOK, Progress, OnlyMade
  <2>2. Ids'
    BY IdsKept
  <2>3. NotMade' /\ OnlyMade'
    BY DEF TypeOK, NotMade, OnlyMade
  <2>4. SameId'
    BY DEF TypeOK, NotMade, OnlyMade, SameId
  <2>5. Progress'
    BY DEF TypeOK, NotMade, SameId, Progress
  <2> QED
    BY <2>1, <2>2, <2>3, <2>4, <2>5
<1> QED
  BY <1>1, <1>2, <1>3 DEF Filter

\* Listen gets a reply.
LEMMA ReplyStep ==
    ASSUME IInv, NEW k \in Calls, ListenReply(k)
    PROVE  IInv'
<1> USE DEF IInv
<1>1. CASE ListenReply(k)
  <2> USE <1>1 DEF ListenReply
  <2>1. TypeOK'
    <3>1. held' \in 0 .. MaxCalls /\ asked' \subseteq Calls
      BY DEF TypeOK
    <3> QED
      BY <3>1 DEF TypeOK
  <2>2. Ids'
    BY IdsKept
  <2>3. NotMade' /\ OnlyMade'
    BY DEF TypeOK, NotMade, OnlyMade
  <2>4. SameId'
    BY DEF TypeOK, NotMade, OnlyMade, SameId
  <2>5. Progress'
    BY DEF TypeOK, NotMade, SameId, Progress
  <2> QED
    BY <2>1, <2>2, <2>3, <2>4, <2>5
<1> QED
  BY <1>1

\* Listen pushes it or ends, msgChan is flushed, the session is cancelled.
LEMMA WireStep ==
    ASSUME IInv, ListenPush \/ ListenEnd \/ Flush \/ Cancel
    PROVE  IInv'
<1> USE DEF IInv
<1>1. CASE ListenPush
  <2> USE <1>1 DEF ListenPush
  <2>0. held \in Calls /\ msgChan \in Seq(Calls)
    BY DEF TypeOK, OnlyMade
  <2>1. TypeOK'
    <3>1. msgChan' \in Seq(Calls) /\ Len(msgChan') <= MsgBufMax
      BY <2>0
    <3>2. held' \in 0 .. MaxCalls /\ listen' = "read"
      OBVIOUS
    <3>3. UNCHANGED <<callVars, filterVars, asked, closed, ctxDone, loopVars>>
      OBVIOUS
    <3> HIDE <1>1 DEF ListenPush
    <3> QED
      BY <3>1, <3>2, <3>3 DEF TypeOK
  <2>2. Ids'
    BY IdsKept
  <2>3. NotMade' /\ OnlyMade'
    <3>1. \A i \in 1 .. Len(msgChan') :
             (i \in 1 .. Len(msgChan) /\ msgChan'[i] = msgChan[i]) \/ msgChan'[i] = held
      BY <2>0
    <3> QED
      BY <3>1 DEF NotMade, OnlyMade
  <2>4. SameId'
    BY DEF TypeOK, NotMade, OnlyMade, SameId
  <2>5. Progress'
    BY DEF TypeOK, NotMade, SameId, Progress
  <2> QED
    BY <2>1, <2>2, <2>3, <2>4, <2>5
<1>2. CASE ListenEnd
  <2> USE <1>2 DEF ListenEnd
  <2>1. TypeOK'
    BY DEF TypeOK, Progress, OnlyMade
  <2>2. Ids'
    BY IdsKept
  <2>3. NotMade' /\ OnlyMade'
    BY DEF TypeOK, NotMade, OnlyMade
  <2>4. SameId'
    BY DEF TypeOK, NotMade, OnlyMade, SameId
  <2>5. Progress'
    BY DEF TypeOK, NotMade, SameId, Progress
  <2> QED
    BY <2>1, <2>2, <2>3, <2>4, <2>5
<1>3. CASE Flush
  <2> USE <1>3 DEF Flush
  <2>1. TypeOK'
    BY SMTT(30) DEF TypeOK, Progress, OnlyMade
  <2>2. Ids'
    BY IdsKept
  <2>3. NotMade' /\ OnlyMade'
    BY DEF TypeOK, NotMade, OnlyMade
  <2>4. SameId'
    BY DEF TypeOK, NotMade, OnlyMade, SameId
  <2>5. Progress'
    BY DEF TypeOK, NotMade, SameId, Progress
  <2> QED
    BY <2>1, <2>2, <2>3, <2>4, <2>5
<1>4. CASE Cancel
  <2> USE <1>4 DEF Cancel
  <2>1. TypeOK'
    BY DEF TypeOK, Progress, OnlyMade
  <2>2. Ids'
    BY IdsKept
  <2>3. NotMade' /\ OnlyMade'
    BY DEF TypeOK, NotMade, OnlyMade
  <2>4. SameId'
    BY DEF TypeOK, NotMade, OnlyMade, SameId
  <2>5. Progress'
    BY DEF TypeOK, NotMade, SameId, Progress
  <2> QED
    BY <2>1, <2>2, <2>3, <2>4, <2>5
<1> QED
  BY <1>1, <1>2, <1>3, <1>4

\* HeartbeatLoop and GetHLSInformation take what the call returned.
LEMMA OverStep ==
    ASSUME IInv, NEW k \in Calls, HbOver(k) \/ HlsOver(k)
    PROVE  IInv'
<1> USE DEF IInv
<1>1. CASE HbOver(k)
  <2> USE <1>1 DEF HbOver, Over
  <2>1. TypeOK'
    <3>1. outcome[k] \in Outcomes
      BY DEF Progress
    <3>2. hb' \in {"tick", "noResponse", "failed"}
      BY <3>1
    <3>3. /\ stat' = [stat EXCEPT ![k] = "over"] /\ stop' = [stop EXCEPT ![k] = TRUE]
          /\ msgID' = msgID + 1
          /\ UNCHANGED <<calls, caller, id, outcome, got, filter, out,
                          wireVars, ctxDone, hls, tries, info>>
      OBVIOUS
    <3> HIDE <1>1 DEF HbOver, Over
    <3>4. stat' \in [Calls -> {"none", "send", "wait", "leave", "over"}]
      BY <3>3 DEF TypeOK
    <3>5. stop' \in [Calls -> BOOLEAN] /\ msgID' \in Nat \ {0}
      BY <3>3 DEF TypeOK
    <3> QED
      BY <3>2, <3>3, <3>4, <3>5 DEF TypeOK
  <2>2. Ids'
    BY IdsOver
  <2>3. NotMade' /\ OnlyMade'
    BY DEF TypeOK, NotMade, OnlyMade
  <2>4. SameId'
    BY DEF TypeOK, NotMade, OnlyMade, SameId
  <2>5. Progress'
    BY DEF TypeOK, NotMade, SameId, Progress
  <2> QED
    BY <2>1, <2>2, <2>3, <2>4, <2>5
<1>2. CASE HlsOver(k)
  <2> USE <1>2 DEF HlsOver, Over, HlsAnswer
  <2>1. TypeOK'
    <3>1. /\ hls' \in {"idle", "retry"}
          /\ info' \in {"none", "playlist", "empty", "noMessage", "failed"}
      BY DEF TypeOK
    <3>2. /\ stat' = [stat EXCEPT ![k] = "over"] /\ stop' = [stop EXCEPT ![k] = TRUE]
          /\ msgID' = msgID + 1
          /\ UNCHANGED <<calls, caller, id, outcome, got, filter, out,
                          wireVars, ctxDone, hb, tries>>
      OBVIOUS
    <3> HIDE <1>2 DEF HlsOver, Over, HlsAnswer
    <3>3. stat' \in [Calls -> {"none", "send", "wait", "leave", "over"}]
      BY <3>2 DEF TypeOK
    <3>4. stop' \in [Calls -> BOOLEAN] /\ msgID' \in Nat \ {0}
      BY <3>2 DEF TypeOK
    <3> QED
      BY <3>1, <3>2, <3>3, <3>4 DEF TypeOK
  <2>2. Ids'
    BY IdsOver
  <2>3. NotMade' /\ OnlyMade'
    BY DEF TypeOK, NotMade, OnlyMade
  <2>4. SameId'
    BY DEF TypeOK, NotMade, OnlyMade, SameId
  <2>5. Progress'
    BY DEF TypeOK, NotMade, SameId, Progress
  <2> QED
    BY <2>1, <2>2, <2>3, <2>4, <2>5
<1> QED
  BY <1>1, <1>2

\* They begin a call.
LEMMA BeginStep ==
    ASSUME IInv, HbTick \/ HlsAsk \/ HlsRetry
    PROVE  IInv'
<1> USE DEF IInv
<1>1. CASE HbTick
  <2> USE <1>1 DEF HbTick
  <2> DEFINE k == calls'
  <2>0. /\ k \in Calls /\ k \notin Made /\ Made' = Made \cup {k}
        /\ stat'[k] = "send" /\ out[k] = << >> /\ got[k] = 0
        /\ \A j \in Calls \ {k} :
             /\ caller'[j] = caller[j] /\ id'[j] = id[j]
             /\ stat'[j] = stat[j] /\ filter'[j] = filter[j]
        /\ UNCHANGED <<msgID, outcome, got, stop, out>>
    BY BeginNew
  <2>6. \A j \in Made : j \in Calls \ {k}
    <3>1. calls \in 0 .. MaxCalls
      BY DEF TypeOK
    <3> QED
      BY <2>0, <3>1
  <2> HIDE DEF k, Made
  <2>1. TypeOK'
    <3>1. /\ calls' \in 0 .. MaxCalls
          /\ caller' \in [Calls -> Callers \cup {"none"}]
          /\ id' \in [Calls -> Nat]
          /\ stat' \in [Calls -> {"none", "send", "wait", "leave", "over"}]
          /\ filter' \in [Calls -> {"off", "on", "gone"}]
          /\ UNCHANGED <<msgID, outcome, got, stop, out>>
      BY DEF TypeOK, Begin
    <3>2. tries' \in 0 .. HlsTries
      BY DEF TypeOK, Progress
    <3> QED
      BY <3>1, <3>2 DEF TypeOK
  <2>2. Ids'
    BY IdsBegin
  <2>3. NotMade' /\ OnlyMade'
    BY <2>0 DEF NotMade, OnlyMade
  <2>4. SameId'
    <3>1. \A j \in Made : j \in Calls \ {k} /\ id'[j] = id[j]
      BY <2>0, <2>6
    <3>2. ASSUME NEW j \in Made'
          PROVE  /\ \A i \in 1 .. Len(out[j]) :
                      out[j][i] \in Made' /\ id'[out[j][i]] = id'[j]
                 /\ got[j] # 0 => got[j] \in Made' /\ id'[got[j]] = id'[j]
      <4>1. CASE j = k
        BY <2>0, <4>1
      <4>2. CASE j \in Made
        BY SMTT(30), <2>0, <3>1, <4>2 DEF SameId
      <4> QED
        BY <2>0, <4>1, <4>2
    <3> QED
      BY <2>0, <3>2 DEF SameId
  <2>5. Progress'
    BY <2>0 DEF Progress
  <2> QED
    BY <2>1, <2>2, <2>3, <2>4, <2>5
<1>2. CASE HlsAsk
  <2> USE <1>2 DEF HlsAsk
  <2> DEFINE k == calls'
  <2>0. /\ k \in Calls /\ k \notin Made /\ Made' = Made \cup {k}
        /\ stat'[k] = "send" /\ out[k] = << >> /\ got[k] = 0
        /\ \A j \in Calls \ {k} :
             /\ caller'[j] = caller[j] /\ id'[j] = id[j]
             /\ stat'[j] = stat[j] /\ filter'[j] = filter[j]
        /\ UNCHANGED <<msgID, outcome, got, stop, out>>
    BY BeginNew
  <2>6. \A j \in Made : j \in Calls \ {k}
    <3>1. calls \in 0 .. MaxCalls
      BY DEF TypeOK
    <3> QED
      BY <2>0, <3>1
  <2> HIDE DEF k, Made
  <2>1. TypeOK'
    <3>1. /\ calls' \in 0 .. MaxCalls
          /\ caller' \in [Calls -> Callers \cup {"none"}]
          /\ id' \in [Calls -> Nat]
          /\ stat' \in [Calls -> {"none", "send", "wait", "leave", "over"}]
          /\ filter' \in [Calls -> {"off", "on", "gone"}]
          /\ UNCHANGED <<msgID, outcome, got, stop, out>>
      BY DEF TypeOK, Begin
    <3>2. tries' \in 0 .. HlsTries
      BY DEF TypeOK, Progress
    <3> QED
      BY <3>1, <3>2 DEF TypeOK
  <2>2. Ids'
    BY IdsBegin
  <2>3. NotMade' /\ OnlyMade'
    BY <2>0 DEF NotMade, OnlyMade
  <2>4. SameId'
    <3>1. \A j \in Made : j \in Calls \ {k} /\ id'[j] = id[j]
      BY <2>0, <2>6
    <3>2. ASSUME NEW j \in Made'
          PROVE  /\ \A i \in 1 .. Len(out[j]) :
                      out[j][i] \in Made' /\ id'[out[j][i]] = id'[j]
                 /\ got[j] # 0 => got[j] \in Made' /\ id'[got[j]] = id'[j]
      <4>1. CASE j = k
        BY <2>0, <4>1
      <4>2. CASE j \in Made
        BY SMTT(30), <2>0, <3>1, <4>2 DEF SameId
      <4> QED
        BY <2>0, <4>1, <4>2
    <3> QED
      BY <2>0, <3>2 DEF SameId
  <2>5. Progress'
    BY <2>0 DEF Progress
  <2> QED
    BY <2>1, <2>2, <2>3, <2>4, <2>5
<1>3. CASE HlsRetry
  <2> USE <1>3 DEF HlsRetry
  <2> DEFINE k == calls'
  <2>0. /\ k \in Calls /\ k \notin Made /\ Made' = Made \cup {k}
        /\ stat'[k] = "send" /\ out[k] = << >> /\ got[k] = 0
        /\ \A j \in Calls \ {k} :
             /\ caller'[j] = caller[j] /\ id'[j] = id[j]
             /\ stat'[j] = stat[j] /\ filter'[j] = filter[j]
        /\ UNCHANGED <<msgID, outcome, got, stop, out>>
    BY BeginNew
  <2>6. \A j \in Made : j \in Calls \ {k}
    <3>1. calls \in 0 .. MaxCalls
      BY DEF TypeOK
    <3> QED
      BY <2>0, <3>1
  <2> HIDE DEF k, Made
  <2>1. TypeOK'
    <3>1. /\ calls' \in 0 .. MaxCalls
          /\ caller' \in [Calls -> Callers \cup {"none"}]
          /\ id' \in [Calls -> Nat]
          /\ stat' \in [Calls -> {"none", "send", "wait", "leave", "over"}]
          /\ filter' \in [Calls -> {"off", "on", "gone"}]
          /\ UNCHANGED <<msgID, outcome, got, stop, out>>
      BY DEF TypeOK, Begin
    <3>2. tries' \in 0 .. HlsTries
      BY DEF TypeOK, Progress
    <3> QED
      BY <3>1, <3>2 DEF TypeOK
  <2>2. Ids'
    BY IdsBegin
  <2>3. NotMade' /\ OnlyMade'
    BY <2>0 DEF NotMade, OnlyMade
  <2>4. SameId'
    <3>1. \A j \in Made : j \in Calls \ {k} /\ id'[j] = id[j]
      BY <2>0, <2>6
    <3>2. ASSUME NEW j \in Made'
          PROVE  /\ \A i \in 1 .. Len(out[j]) :
                      out[j][i] \in Made' /\ id'[out[j][i]] = id'[j]
                 /\ got[j] # 0 => got[j] \in Made' /\ id'[got[j]] = id'[j]
      <4>1. CASE j = k
        BY <2>0, <4>1
      <4>2. CASE j \in Made
        BY SMTT(30), <2>0, <3>1, <4>2 DEF SameId
      <4> QED
        BY <2>0, <4>1, <4>2
    <3> QED
      BY <2>0, <3>2 DEF SameId
  <2>5. Progress'
    BY <2>0 DEF Progress
  <2> QED
    BY <2>1, <2>2, <2>3, <2>4, <2>5
<1> QED
  BY <1>1, <1>2, <1>3

\* Nothing happens, or HeartbeatLoop ends.
LEMMA IdleStep ==
    ASSUME IInv, HbCancel \/ UNCHANGED vars
    PROVE  IInv'
<1> USE DEF IInv
<1>1. CASE HbCancel
  <2> USE <1>1 DEF HbCancel
  <2>1. TypeOK'
    BY DEF TypeOK, Progress, OnlyMade
  <2>2. Ids'
    BY DEF Ids, IdsBelow, OnePerCaller, IdsGrow
  <2>3. NotMade' /\ OnlyMade'
    BY DEF TypeOK, NotMade, OnlyMade
  <2>4. SameId'
    BY DEF TypeOK, NotMade, OnlyMade, SameId
  <2>5. Progress'
    BY DEF TypeOK, NotMade, SameId, Progress
  <2> QED
    BY <2>1, <2>2, <2>3, <2>4, <2>5
<1>2. CASE UNCHANGED vars
  <2> USE <1>2 DEF vars
  <2>1. TypeOK'
    BY DEF TypeOK, Progress, OnlyMade
  <2>2. Ids'
    BY IdsKept
  <2>3. NotMade' /\ OnlyMade'
    BY DEF TypeOK, NotMade, OnlyMade
  <2>4. SameId'
    BY DEF TypeOK, NotMade, OnlyMade, SameId
  <2>5. Progress'
    BY DEF TypeOK, NotMade, SameId, Progress
  <2> QED
    BY <2>1, <2>2, <2>3, <2>4, <2>5
<1> QED
  BY <1>1, <1>2

LEMMA NextIInv == IInv /\ [Next]_vars => IInv'
<1> SUFFICES ASSUME IInv, [Next]_vars PROVE IInv'
  OBVIOUS
<1>1. ASSUME NEW k \in Calls,
             Call(k) \/ Filter(k) \/ ListenReply(k) \/ HbOver(k) \/ HlsOver(k)
      PROVE  IInv'
  BY <1>1, CallStep, FilterStep, ReplyStep, OverStep
<1>2. CASE ListenPush \/ ListenEnd \/ Flush \/ Cancel
  BY <1>2, WireStep
<1>3. CASE HbTick \/ HlsAsk \/ HlsRetry
  BY <1>3, BeginStep
<1>4. CASE HbCancel \/ Terminated \/ UNCHANGED vars
  BY <1>4, IdleStep DEF Terminated
<1> QED
  BY <1>1, <1>2, <1>3, <1>4 DEF Next

\* The inductive invariant holds in every reachable state.
THEOREM Invariance == Spec => []IInv
<1> QED
  BY InitIInv, NextIInv, PTL DEF Spec

(***************************************************************************)
(* Every variable keeps its type: in particular a retry never counts below *)
(* zero, and msgChan never holds more than its capacity.                   *)
(***************************************************************************)
THEOREM TypeCorrect == Spec => []TypeOK
<1>1. IInv => TypeOK
  BY DEF IInv
<1> QED
  BY <1>1, Invariance, PTL

(***************************************************************************)
(* However late and in whatever order the server answers, a request never  *)
(* gets the reply to an earlier request of the same caller.                *)
(***************************************************************************)
THEOREM RepliesNotStale == Spec => []NoStaleReply
<1>1. IInv => NoStaleReply
  <2> SUFFICES ASSUME IInv, NEW k \in Calls, got[k] # 0,
                      got[k] < k, caller[got[k]] = caller[k]
               PROVE  FALSE
    BY DEF NoStaleReply
  <2>1. k \in Made
    BY DEF IInv, NotMade
  <2>2. got[k] \in Made /\ id[got[k]] = id[k]
    BY <2>1 DEF IInv, SameId
  <2>3. id[got[k]] < id[k]
    BY <2>1, <2>2 DEF IInv, Ids, IdsGrow
  <2>4. id[k] \in Nat
    BY DEF IInv, TypeOK
  <2> QED
    BY <2>2, <2>3, <2>4
<1> QED
  BY <1>1, Invariance, PTL
==============================================================================
