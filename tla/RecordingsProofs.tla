--------------------------- MODULE RecordingsProofs ---------------------------
(***************************************************************************)
(* Proofs about Recordings, for any number of sessions, of kills and any   *)
(* order of the numbers as strings.                                        *)
(*                                                                         *)
(* NotLost is not inductive: a part is safe because there is always a      *)
(* reason why the file that is about to be deleted or written over is not  *)
(* the last one, or why nobody knows that it is.  The invariants name the  *)
(* reason at each place:                                                   *)
(*   - Place: what the files are when Process is at each of its steps, and *)
(*     that Process and Clean never work on the same name together;        *)
(*   - Held: a part is in its .ts as long as Process is at work, and       *)
(*     elsewhere only when it was deleted;                                 *)
(*   - Covers: what Clean relies on, namely that a concatenation that can  *)
(*     be read misses no part but those that are known to be left out;     *)
(*   - Chosen: the inputs that concat selected have every part that it     *)
(*     will cover, and Whole, which is about an error-free concatenation;  *)
(*   - InOrder: without a remux, the numbers of the files are given in the *)
(*     order of the sessions, without a gap.                               *)
(***************************************************************************)
EXTENDS Recordings, TLAPS, FiniteSetTheorems, SequenceTheorems, WellFoundedInduction

-----------------------------------------------------------------------------
(* The invariants.                                                         *)

\* A part can be read in the file of a session, in name.mp4, in the
\* concatenation.
InTs(p) == \E n \in Slots : ts[n].readable /\ ts[n].parts = <<p>>
InMp4(p) == mp4.readable /\ p \in ToSet(mp4.parts)
InCombined(p) == combined.readable /\ p \in ToSet(combined.parts)

\* The steps of Process before its concatenation is complete.
NotYetCopied == {"recording", "probe", "remux", "remuxing", "select", "concat"}

OnePart(s, last) == s = << >> \/ \E p \in 1 .. last : s = <<p>>

\* A file of a session has one part, or is empty; its number is below that of the
\* last part.
Numbers ==
    /\ \A n \in Slots :
          /\ ts[n].exists => n < part /\ OnePart(ts[n].parts, part)
          /\ ts[n].readable => ts[n].parts # << >>
    /\ part = 0 => slot = 0 /\ pc = "idle"
    /\ part > 0 => slot < part
    /\ kept \subseteq 1 .. part

\* What Process knows of the file of its session.
Step ==
    /\ pc \in {"record", "recording"} => part \notin kept
    /\ pc = "recording" => ts[slot] = File(<< >>, FALSE)
    /\ pc = "probe" /\ ts[slot].readable => ts[slot].parts = <<part>>
    /\ pc \in {"remux", "remuxing"} =>
          /\ ts[slot].readable /\ ts[slot].parts = <<part>>
          /\ params.remux
    /\ pc \in {"select", "concat", "concatenating"} => params.concat
    /\ /\ pc \in {"select", "concat", "concatenating", "delete"}
       /\ params.remux /\ ~failed
       => part \in short \/ InMp4(part) \/ (pc = "delete" /\ InCombined(part))
    /\ pc = "concatenating" => ~combined.readable /\ ~complete

\* Clean and Process keep apart.
Apart ==
    /\ old => pc = "idle"
    /\ cleaner = "delete" => /\ old /\ combined.readable
                             /\ params.concat /\ ~params.keepIntermediates
    /\ ~old /\ ~params.remux => mp4 = NoFile

Place == Numbers /\ Step /\ Apart

\* What is left when the .ts of a part was deleted.
Elsewhere(p) == InMp4(p) \/ InCombined(p) \/ p \in deleted \cap short

Held ==
    \A p \in SafeParts :
        InTs(p) \/ ((old \/ (NamesReused /\ pc = "idle")) /\ Elsewhere(p))

Covers ==
    combined.readable /\ params.concat /\ ~params.keepIntermediates =>
        \A p \in SafeParts : \/ p \in short \/ InCombined(p) \/ InMp4(p)
                             \/ p = part /\ pc \in NotYetCopied

Chosen ==
    pc \in {"concat", "concatenating"} =>
        \A p \in SafeParts : \E n \in ToSet(inputs) : p \in ToSet(Source(n).parts)

Whole ==
    complete =>
        /\ params.concat
        /\ pc \in {"idle", "delete"} =>
              /\ combined.exists => combined.readable
              /\ \A p \in SafeParts : InCombined(p) \/ InMp4(p)

InOrder ==
    ~params.inDirectory /\ ~params.remux =>
        /\ ~old => \A m, n \in Slots : m < n /\ ts[n].exists =>
              /\ ts[m].exists
              /\ ts[m].readable /\ ts[n].readable => ts[m].parts[1] < ts[n].parts[1]
        /\ pc = "record" => \A n \in Slots : ts[n].exists <=> n < slot
        /\ pc \in {"record", "recording"} =>
              \A n \in Slots : ts[n].readable => ts[n].parts[1] < part
        /\ pc \in {"recording", "probe"} => \A n \in Slots : ts[n].exists => n <= slot
        /\ pc \in {"concat", "concatenating"} =>
              /\ \A i, j \in DOMAIN inputs : i < j => inputs[i] < inputs[j]
              /\ \A n \in ToSet(inputs) : ts[n].readable
        /\ CombinedInOrder

IInv == TypeOK /\ Place /\ Held /\ Covers /\ Chosen /\ Whole /\ InOrder

-----------------------------------------------------------------------------
(* Numbers, and the operators of the library that the model uses.          *)

LEMMA Least ==
    ASSUME NEW T \in SUBSET Nat, T # {}
    PROVE  \E m \in T : \A k \in T : m <= k
<1> DEFINE R == OpToRel(<, Nat)
<1>1. PICK m \in T : \A k \in T : ~ (<<k, m>> \in R)
  BY NatLessThanWellFounded, WFMin
<1>2. \A k \in T : k < m => <<k, m>> \in R
  BY DEF OpToRel
<1>3. m \in Nat /\ \A k \in T : k \in Nat /\ (k < m \/ m <= k)
  OBVIOUS
<1> QED
  BY <1>1, <1>2, <1>3

LEMMA MinIs ==
    ASSUME NEW T \in SUBSET Nat, T # {}
    PROVE  Min(T) \in T /\ \A k \in T : Min(T) <= k
  BY Least DEF Min

\* The sequence of the elements of a set, in some order.
LEMMA SetToSeqsIs ==
    ASSUME NEW S, IsFiniteSet(S), NEW s \in SetToSeqs(S)
    PROVE  /\ s \in Seq(S) /\ ToSet(s) = S
           /\ \A i, j \in DOMAIN s : i # j => s[i] # s[j]
<1> DEFINE n == Cardinality(S)
<1>1. n \in Nat
  BY FS_CardinalityType
<1>2. s \in [1 .. n -> S] /\ \A i, j \in 1 .. n : i # j => s[i] # s[j]
  BY DEF SetToSeqs
<1>3. s \in Seq(S) /\ DOMAIN s = 1 .. n
  <2> HIDE DEF n
  <2> QED
    BY <1>1, <1>2
<1>4. s \in Injection(1 .. n, S)
  <2> HIDE DEF n
  <2> QED
    BY <1>2 DEF Injection, IsInjective
<1>5. \A y \in S : \E i \in 1 .. n : s[i] = y
  <2>1. \A k \in Nat : Cardinality(1 .. k) = k
    BY FS_Interval
  <2>2. Cardinality(1 .. n) = Cardinality(S)
    BY <1>1, <2>1
  <2>3. s \in Surjection(1 .. n, S)
    <3> HIDE DEF n
    <3> QED
      BY <1>4, <2>2, FS_Injection
  <2> QED
    BY <2>3 DEF Surjection
<1> QED
  BY <1>2, <1>3, <1>5 DEF ToSet

\* What LET flatten[i] == ... of FlattenSeq defines, up to k.
Flat(seqs, k, f) ==
    f = [i \in 1 .. k |-> IF i = 1 THEN seqs[i] ELSE f[i - 1] \o seqs[i]]

LEMMA FlatExists ==
    ASSUME NEW seqs, NEW n \in Nat
    PROVE  \E f : Flat(seqs, n, f)
<1> DEFINE T == {k \in Nat : ~ \E f : Flat(seqs, k, f)}
<1>1. SUFFICES ASSUME T # {} PROVE FALSE
  OBVIOUS
<1>2. PICK m \in T : \A k \in T : m <= k
  <2>1. T \in SUBSET Nat
    OBVIOUS
  <2> HIDE DEF T
  <2> QED
    BY <1>1, <2>1, Least
<1>3. CASE m = 0
  <2>1. Flat(seqs, 0, [i \in 1 .. 0 |-> {}])
    BY DEF Flat
  <2> QED
    BY <1>2, <1>3, <2>1
<1>4. CASE m # 0
  <2>1. m \in Nat /\ m - 1 \in Nat /\ m - 1 \notin T
    BY <1>2, <1>4
  <2>2. PICK f : Flat(seqs, m - 1, f)
    BY <2>1
  <2> DEFINE g == [i \in 1 .. m |-> IF i < m THEN f[i]
                                   ELSE IF i = 1 THEN seqs[i] ELSE f[i - 1] \o seqs[i]]
  <2>3. \A i \in 1 .. m : g[i] = IF i = 1 THEN seqs[i] ELSE g[i - 1] \o seqs[i]
    <3> SUFFICES ASSUME NEW i \in 1 .. m
                 PROVE  g[i] = IF i = 1 THEN seqs[i] ELSE g[i - 1] \o seqs[i]
      OBVIOUS
    <3>1. i # 1 => i - 1 \in 1 .. m /\ i - 1 < m
      BY <2>1
    <3>2. i < m => i \in 1 .. m - 1
      BY <2>1
    <3>3. i < m => f[i] = IF i = 1 THEN seqs[i] ELSE f[i - 1] \o seqs[i]
      BY <3>2, <2>2 DEF Flat
    <3>4. i # 1 => g[i - 1] = f[i - 1]
      BY <3>1
    <3> QED
      BY <3>3, <3>4
  <2>4. Flat(seqs, m, g)
    <3>1. g = [i \in 1 .. m |-> g[i]]
      OBVIOUS
    <3> HIDE DEF g
    <3> QED
      BY <2>3, <3>1 DEF Flat
  <2> QED
    BY <1>2, <2>4
<1> QED
  BY <1>3, <1>4

\* The set of the elements of the first k sequences.
Elements(seqs, k) == UNION {ToSet(seqs[i]) : i \in 1 .. k}

\* In the order of the sequences and, within a sequence, in its order.
Increasing(s) == \A i, j \in DOMAIN s : i < j => s[i] < s[j]

Ordered(seqs) ==
    /\ \A i \in DOMAIN seqs : Increasing(seqs[i])
    /\ \A i, j \in DOMAIN seqs :
          i < j => \A x \in ToSet(seqs[i]), y \in ToSet(seqs[j]) : x < y

LEMMA ConcatIs ==
    ASSUME NEW D, NEW s \in Seq(D), NEW t \in Seq(D)
    PROVE  s \o t \in Seq(D) /\ ToSet(s \o t) = ToSet(s) \cup ToSet(t)
<1>1. /\ s \o t \in Seq(D) /\ Len(s \o t) = Len(s) + Len(t)
      /\ Len(s) \in Nat /\ Len(t) \in Nat
      /\ DOMAIN s = 1 .. Len(s) /\ DOMAIN t = 1 .. Len(t)
      /\ DOMAIN (s \o t) = 1 .. Len(s) + Len(t)
      /\ \A i \in 1 .. Len(s) + Len(t) :
            (s \o t)[i] = IF i <= Len(s) THEN s[i] ELSE t[i - Len(s)]
  OBVIOUS
<1>2. \A i \in 1 .. Len(s) + Len(t) :
         i <= Len(s) => i \in 1 .. Len(s)
  BY <1>1
<1>3. \A i \in 1 .. Len(s) + Len(t) :
         ~(i <= Len(s)) => i - Len(s) \in 1 .. Len(t)
  BY <1>1
<1>4. \A i \in 1 .. Len(s) : i \in 1 .. Len(s) + Len(t) /\ i <= Len(s)
  BY <1>1
<1>5. \A i \in 1 .. Len(t) : /\ Len(s) + i \in 1 .. Len(s) + Len(t)
                            /\ ~(Len(s) + i <= Len(s)) /\ Len(s) + i - Len(s) = i
  BY <1>1
<1> DEFINE u == s \o t
           S == 1 .. Len(s)
           T == 1 .. Len(t)
           U == 1 .. Len(s) + Len(t)
<1>6. \A x \in ToSet(u) : x \in ToSet(s) \/ x \in ToSet(t)
  BY <1>1, <1>2, <1>3 DEF ToSet
<1>7. \A x \in ToSet(s) : x \in ToSet(u)
  BY <1>1, <1>4 DEF ToSet
<1>8. \A x \in ToSet(t) : x \in ToSet(u)
  <2> SUFFICES ASSUME NEW i \in 1 .. Len(t) PROVE t[i] \in ToSet(u)
    BY <1>1 DEF ToSet
  <2>1. u[Len(s) + i] = t[i] /\ Len(s) + i \in DOMAIN u
    BY <1>1, <1>5
  <2> QED
    BY <2>1 DEF ToSet
<1> QED
  BY <1>1, <1>6, <1>7, <1>8

LEMMA FlatIs ==
    ASSUME NEW D, NEW n \in Nat, NEW seqs \in [1 .. n -> Seq(D)],
           NEW f, Flat(seqs, n, f), NEW k \in 1 .. n
    PROVE  f[k] \in Seq(D) /\ ToSet(f[k]) = Elements(seqs, k)
<1> DEFINE Good(j) == f[j] \in Seq(D) /\ ToSet(f[j]) = Elements(seqs, j)
           T == {j \in 1 .. n : ~Good(j)}
<1>1. SUFFICES ASSUME T # {} PROVE FALSE
  OBVIOUS
<1>2. PICK m \in T : \A j \in T : m <= j
  <2>1. T \in SUBSET Nat
    OBVIOUS
  <2> HIDE DEF T
  <2> QED
    BY <1>1, <2>1, Least
<1>3. m \in 1 .. n /\ f[m] = IF m = 1 THEN seqs[m] ELSE f[m - 1] \o seqs[m]
  BY DEF Flat
<1>4. CASE m = 1
  <2>1. Elements(seqs, 1) = ToSet(seqs[1])
    <3>1. 1 .. 1 = {1}
      OBVIOUS
    <3> QED
      BY <3>1 DEF Elements
  <2> QED
    BY <1>2, <1>3, <1>4, <2>1
<1>5. CASE m # 1
  <2>1. m - 1 \in 1 .. n /\ m - 1 < m
    BY <1>3, <1>5
  <2>2. Good(m - 1)
    BY <1>2, <2>1
  <2>3. /\ f[m] \in Seq(D)
        /\ ToSet(f[m]) = Elements(seqs, m - 1) \cup ToSet(seqs[m])
    BY <1>3, <1>5, <2>2, ConcatIs
  <2>4. Elements(seqs, m) = Elements(seqs, m - 1) \cup ToSet(seqs[m])
    <3>1. 1 .. m = (1 .. m - 1) \cup {m}
      BY <1>3, <1>5
    <3> QED
      BY <3>1 DEF Elements
  <2> QED
    BY <1>2, <2>3, <2>4
<1> QED
  BY <1>4, <1>5

LEMMA FlatIncreases ==
    ASSUME NEW n \in Nat, NEW seqs \in [1 .. n -> Seq(Nat)], Ordered(seqs),
           NEW f, Flat(seqs, n, f), NEW k \in 1 .. n
    PROVE  Increasing(f[k])
<1> DEFINE T == {j \in 1 .. n : ~Increasing(f[j])}
<1>1. SUFFICES ASSUME T # {} PROVE FALSE
  OBVIOUS
<1>2. PICK m \in T : \A j \in T : m <= j
  <2>1. T \in SUBSET Nat
    OBVIOUS
  <2> HIDE DEF T
  <2> QED
    BY <1>1, <2>1, Least
<1>3. m \in 1 .. n /\ f[m] = IF m = 1 THEN seqs[m] ELSE f[m - 1] \o seqs[m]
  BY DEF Flat
<1>4. CASE m = 1
  BY <1>2, <1>3, <1>4 DEF Ordered
<1>5. CASE m # 1
  <2> DEFINE s == f[m - 1]
             t == seqs[m]
             u == s \o t
  <2>1. m - 1 \in 1 .. n /\ m - 1 < m
    BY <1>3, <1>5
  <2>2. Increasing(s) /\ Increasing(t) /\ f[m] = u
    <3>1. m - 1 \notin T
      BY <1>2, <1>3, <2>1
    <3>2. m \in DOMAIN seqs
      BY <1>3
    <3> QED
      BY <1>3, <1>5, <2>1, <3>1, <3>2 DEF Ordered
  <2>3. /\ s \in Seq(Nat) /\ t \in Seq(Nat)
        /\ ToSet(s) = Elements(seqs, m - 1)
    <3>1. \A j \in 1 .. n :
            f[j] \in Seq(Nat) /\ ToSet(f[j]) = Elements(seqs, j)
      BY FlatIs
    <3> QED
      BY <1>3, <2>1, <3>1
  <2>4. \A x \in ToSet(s), y \in ToSet(t) : x < y
    <3> SUFFICES ASSUME NEW x \in ToSet(s), NEW y \in ToSet(t) PROVE x < y
      OBVIOUS
    <3>1. PICK i \in 1 .. m - 1 : x \in ToSet(seqs[i])
      BY <2>3 DEF Elements
    <3>2. i \in DOMAIN seqs /\ m \in DOMAIN seqs /\ i < m
      BY <1>3
    <3> QED
      BY <3>1, <3>2 DEF Ordered
  <2> HIDE DEF s, t
  <2>5. Increasing(u)
    <3> SUFFICES ASSUME NEW i \in DOMAIN u, NEW j \in DOMAIN u, i < j
                 PROVE  u[i] < u[j]
      BY DEF Increasing
    <3>1. /\ Len(s) \in Nat /\ Len(t) \in Nat
          /\ i \in 1 .. Len(s) + Len(t) /\ j \in 1 .. Len(s) + Len(t)
          /\ u[i] = IF i <= Len(s) THEN s[i] ELSE t[i - Len(s)]
          /\ u[j] = IF j <= Len(s) THEN s[j] ELSE t[j - Len(s)]
          /\ DOMAIN s = 1 .. Len(s) /\ DOMAIN t = 1 .. Len(t)
      BY <2>3
    <3>2. CASE j <= Len(s)
      <4>1. i \in DOMAIN s /\ j \in DOMAIN s /\ i <= Len(s)
        BY <3>1, <3>2
      <4> QED
        BY <3>1, <3>2, <4>1, <2>2 DEF Increasing
    <3>3. CASE i <= Len(s) /\ ~(j <= Len(s))
      <4>1. i \in DOMAIN s /\ j - Len(s) \in DOMAIN t
        BY <3>1, <3>3
      <4>2. s[i] \in ToSet(s) /\ t[j - Len(s)] \in ToSet(t)
        BY <4>1 DEF ToSet
      <4> QED
        BY <3>1, <3>3, <4>2, <2>4
    <3>4. CASE ~(i <= Len(s))
      <4>1. /\ i - Len(s) \in DOMAIN t /\ j - Len(s) \in DOMAIN t
            /\ i - Len(s) < j - Len(s) /\ ~(j <= Len(s))
        BY <3>1, <3>4
      <4> QED
        BY <3>1, <3>4, <4>1, <2>2 DEF Increasing
    <3> QED
      BY <3>1, <3>2, <3>3, <3>4
  <2> QED
    BY <1>2, <2>2, <2>5
<1> QED
  BY <1>4, <1>5

\* FlattenSeq has the elements of all the sequences, one sequence after another.
LEMMA FlattenIs ==
    ASSUME NEW D, NEW n \in Nat, NEW seqs \in [1 .. n -> Seq(D)]
    PROVE  /\ FlattenSeq(seqs) \in Seq(D)
           /\ ToSet(FlattenSeq(seqs)) = UNION {ToSet(seqs[i]) : i \in 1 .. n}
           /\ D \subseteq Nat /\ Ordered(seqs) => Increasing(FlattenSeq(seqs))
<1>1. seqs \in Seq(Seq(D)) /\ Len(seqs) = n
  OBVIOUS
<1>2. CASE n = 0
  <2>1. FlattenSeq(seqs) = << >>
    BY <1>1, <1>2 DEF FlattenSeq
  <2> QED
    BY <1>2, <2>1 DEF ToSet, Increasing
<1>3. CASE n # 0
  <2> DEFINE F == CHOOSE f : Flat(seqs, n, f)
  <2>1. Flat(seqs, n, F)
    BY FlatExists
  <2>2. FlattenSeq(seqs) = F[n]
    BY <1>1, <1>3 DEF FlattenSeq, Flat
  <2>3. n \in 1 .. n
    BY <1>3
  <2> HIDE DEF F
  <2>4. F[n] \in Seq(D) /\ ToSet(F[n]) = Elements(seqs, n)
    BY <2>1, <2>3, FlatIs
  <2>5. ASSUME D \subseteq Nat, Ordered(seqs) PROVE Increasing(F[n])
    <3>1. ASSUME NEW x \in Seq(D) PROVE x \in Seq(Nat)
      <4>1. \A i \in 1 .. Len(x) : x[i] \in D
        BY ElementOfSeq
      <4>2. x = [i \in 1 .. Len(x) |-> x[i]] /\ Len(x) \in Nat
        OBVIOUS
      <4>3. \A i \in 1 .. Len(x) : x[i] \in Nat
        BY <4>1, <2>5
      <4> QED
        BY <4>2, <4>3
    <3>2. seqs \in [1 .. n -> Seq(Nat)]
      BY <3>1
    <3> QED
      BY <2>1, <2>3, <2>5, <3>2, FlatIncreases
  <2> QED
    BY <2>2, <2>4, <2>5 DEF Elements
<1> QED
  BY <1>2, <1>3

-----------------------------------------------------------------------------
(* Files.                                                                  *)

LEMMA FileIs ==
    ASSUME NEW s \in Seq(Parts), NEW r \in BOOLEAN
    PROVE  /\ File(s, r) \in Files /\ File(s, r).exists
           /\ File(s, r).parts = s /\ File(s, r).readable = r
  BY DEF File, Files

LEMMA NoFileIs ==
    /\ NoFile \in Files /\ ~NoFile.exists /\ ~NoFile.readable
    /\ NoFile.parts = << >>
  BY DEF NoFile, Files

LEMMA FilesAre ==
    ASSUME NEW f \in Files
    PROVE  /\ f.exists \in BOOLEAN /\ f.readable \in BOOLEAN
           /\ f.parts \in Seq(Parts)
           /\ f.readable => f.exists
           /\ ~f.exists => f = NoFile
<1>1. CASE f = NoFile
  BY <1>1 DEF NoFile
<1>2. CASE f \in [exists : {TRUE}, parts : Seq(Parts), readable : BOOLEAN]
  BY <1>2
<1> QED
  BY <1>1, <1>2 DEF Files

LEMMA Single ==
    ASSUME NEW p \in Parts
    PROVE  <<p>> \in Seq(Parts) /\ ToSet(<<p>>) = {p} /\ <<p>>[1] = p
  BY DEF ToSet

LEMMA NoElements == ToSet(<< >>) = {}
  BY DEF ToSet

LEMMA Bounds == MaxParts \in Nat /\ MaxKills \in Nat
  BY ConstantsAssumption DEF ConstantsAssumption

LEMMA SlotsAre ==
    /\ Slots \subseteq Nat /\ Parts \subseteq Nat /\ IsFiniteSet(Slots)
    /\ 0 \in Slots
    /\ \A n : n \in Slots <=> n \in Nat /\ n <= MaxParts
    /\ \A p : p \in Parts <=> p \in Nat /\ 1 <= p /\ p <= MaxParts
<1>1. IsFiniteSet(0 .. MaxParts)
  BY Bounds, FS_Interval
<1> QED
  BY Bounds, <1>1 DEF Slots, Parts

\* Every readable file of a session can be an input; inputs are chosen once.
LEMMA SourceIs ==
    ASSUME TypeOK, NEW n \in Slots
    PROVE  /\ Source(n) \in Files
           /\ ts[n].parts # << >> => Source(n) = ts[n]
  BY DEF TypeOK, Source

LEMMA SelectedAre ==
    ASSUME TypeOK, SelectInputs
    PROVE  /\ inputs' \in Seq(Slots)
           /\ ToSet(inputs') = {n \in Slots : Source(n).readable}
           /\ \A i, j \in DOMAIN inputs' :
                 i # j => inputs'[i] \in Slots /\ inputs'[i] # inputs'[j]
           /\ \A i, j \in DOMAIN inputs' : i < j => ~Before(inputs'[j], inputs'[i])
<1> DEFINE S == {n \in Slots : Source(n).readable}
<1>1. /\ inputs' \in SetToSeqs(S)
      /\ \A i, j \in DOMAIN inputs' : i < j => ~Before(inputs'[j], inputs'[i])
  BY DEF SelectInputs, Sorted
<1>2. IsFiniteSet(S)
  BY SlotsAre, FS_Subset
<1>3. S \subseteq Slots
  OBVIOUS
<1> HIDE DEF S
<1>4. /\ inputs' \in Seq(S) /\ ToSet(inputs') = S
      /\ \A i, j \in DOMAIN inputs' : i # j => inputs'[i] # inputs'[j]
  BY <1>1, <1>2, SetToSeqsIs
<1>5. inputs' \in Seq(Slots) /\ \A i \in DOMAIN inputs' : inputs'[i] \in Slots
  <2>1. \A i \in 1 .. Len(inputs') : inputs'[i] \in S
    BY <1>4, ElementOfSeq
  <2>2. /\ inputs' = [i \in 1 .. Len(inputs') |-> inputs'[i]]
        /\ Len(inputs') \in Nat /\ DOMAIN inputs' = 1 .. Len(inputs')
    BY <1>4
  <2>3. \A i \in 1 .. Len(inputs') : inputs'[i] \in Slots
    BY <1>3, <2>1
  <2> QED
    BY <2>2, <2>3
<1> QED
  BY <1>1, <1>4, <1>5 DEF S

\* A concatenation comes to its end, where each input is copied or missed; or it
\* stops before.
LEMMA CopiedIs ==
    ASSUME TypeOK, ConcatEnds
    PROVE  \/ UNCHANGED <<combined, short, complete>>
           \/ /\ combined' \in Files /\ combined'.exists
              /\ (/\ \A i, j \in DOMAIN inputs : i < j =>
                        \A x \in ToSet(Source(inputs[i]).parts),
                           y \in ToSet(Source(inputs[j]).parts) : x < y
                  /\ \A i \in DOMAIN inputs : Increasing(Source(inputs[i]).parts))
                 => Increasing(combined'.parts)
              /\ \/ ~combined'.readable /\ UNCHANGED <<short, complete>>
                 \/ /\ combined'.readable
                    /\ short' \subseteq short \cup Parts /\ complete' \in BOOLEAN
                    /\ short \subseteq short' \cup ToSet(combined'.parts)
                    /\ \A n \in ToSet(inputs) : \A p \in ToSet(Source(n).parts) :
                          p \in ToSet(combined'.parts) \/ (p \in short' /\ ~complete')
<1> SUFFICES ASSUME ~UNCHANGED <<combined, short, complete>>
             PROVE  /\ combined' \in Files /\ combined'.exists
                    /\ (/\ \A i, j \in DOMAIN inputs : i < j =>
                              \A x \in ToSet(Source(inputs[i]).parts),
                                 y \in ToSet(Source(inputs[j]).parts) : x < y
                        /\ \A i \in DOMAIN inputs : Increasing(Source(inputs[i]).parts))
                       => Increasing(combined'.parts)
                    /\ \/ ~combined'.readable /\ UNCHANGED <<short, complete>>
                       \/ /\ combined'.readable
                          /\ short' \subseteq short \cup Parts /\ complete' \in BOOLEAN
                          /\ short \subseteq short' \cup ToSet(combined'.parts)
                          /\ \A n \in ToSet(inputs) : \A p \in ToSet(Source(n).parts) :
                                p \in ToSet(combined'.parts) \/ (p \in short' /\ ~complete')
  OBVIOUS
<1> DEFINE Taken(copied) ==
             [i \in DOMAIN inputs |->
                IF inputs[i] \in copied THEN Source(inputs[i]).parts ELSE <<>>]
           Missed(copied) ==
             UNION {ToSet(Source(n).parts) : n \in ToSet(inputs) \ copied}
<1>1. PICK copied \in SUBSET ToSet(inputs), r \in BOOLEAN :
         /\ combined' = File(FlattenSeq(Taken(copied)), r)
         /\ ~r => UNCHANGED <<short, complete>>
         /\ r => /\ short' = (short \ ToSet(combined'.parts)) \cup Missed(copied)
                 /\ complete' = (Missed(copied) = {})
  BY DEF ConcatEnds
<1> DEFINE seqs == Taken(copied)
           missed == Missed(copied)
           P(n) == Source(n).parts
<1>0. combined' = File(FlattenSeq(seqs), r)
  BY <1>1
<1>2. /\ Len(inputs) \in Nat /\ DOMAIN inputs = 1 .. Len(inputs)
      /\ \A i \in DOMAIN inputs : inputs[i] \in Slots
  BY ElementOfSeq DEF TypeOK
<1>3. \A n \in Slots : P(n) \in Seq(Parts)
  BY SourceIs, FilesAre
<1>4. << >> \in Seq(Parts)
  OBVIOUS
<1>5. seqs \in [1 .. Len(inputs) -> Seq(Parts)]
  BY <1>2, <1>3, <1>4
<1>6. /\ FlattenSeq(seqs) \in Seq(Parts)
      /\ ToSet(FlattenSeq(seqs)) = UNION {ToSet(seqs[i]) : i \in 1 .. Len(inputs)}
      /\ Ordered(seqs) => Increasing(FlattenSeq(seqs))
  <2> HIDE DEF seqs
  <2> QED
    BY <1>2, <1>5, FlattenIs, SlotsAre
<1>7. /\ combined' \in Files /\ combined'.exists /\ combined'.readable = r
      /\ combined'.parts = FlattenSeq(seqs)
  <2> HIDE DEF seqs
  <2> QED
    BY <1>0, <1>6, FileIs
<1>8. ASSUME NEW n \in ToSet(inputs), NEW p \in ToSet(P(n))
      PROVE  p \in ToSet(combined'.parts) \/ p \in missed
  <2>1. CASE n \in copied
    <3>1. PICK i \in 1 .. Len(inputs) : inputs[i] = n
      BY <1>2 DEF ToSet
    <3>2. seqs[i] = P(n)
      BY <1>2, <2>1, <3>1
    <3> HIDE DEF seqs, P
    <3> QED
      BY <1>6, <1>7, <1>8, <3>2
  <2>2. CASE n \notin copied
    BY <1>8, <2>2
  <2> QED
    BY <2>1, <2>2
<1>9. missed \subseteq Parts
  <2>1. \A n \in ToSet(inputs) : n \in Slots
    BY <1>2 DEF ToSet
  <2>2. \A n \in Slots : ToSet(P(n)) \subseteq Parts
    BY <1>3, ElementOfSeq DEF ToSet
  <2> HIDE DEF P
  <2> QED
    BY <2>1, <2>2 DEF P
<1>10. ASSUME \A i, j \in DOMAIN inputs : i < j =>
                 \A x \in ToSet(P(inputs[i])), y \in ToSet(P(inputs[j])) : x < y,
              \A i \in DOMAIN inputs : Increasing(P(inputs[i]))
       PROVE  Increasing(combined'.parts)
  <2>1. \A i \in DOMAIN inputs :
          seqs[i] = IF inputs[i] \in copied THEN P(inputs[i]) ELSE << >>
    OBVIOUS
  <2>2. Increasing(<< >>) /\ DOMAIN seqs = DOMAIN inputs
    BY DEF Increasing
  <2> HIDE DEF seqs, P
  <2>3. \A i \in DOMAIN seqs : Increasing(seqs[i])
    BY <1>10, <2>1, <2>2
  <2>4. \A i \in DOMAIN seqs : \A x \in ToSet(seqs[i]) : x \in ToSet(P(inputs[i]))
    BY <2>1, <2>2, NoElements
  <2>5. Ordered(seqs)
    BY <1>10, <2>2, <2>3, <2>4 DEF Ordered
  <2> QED
    BY <1>6, <1>7, <2>5
<1>11. ASSUME r
       PROVE  /\ short' = (short \ ToSet(combined'.parts)) \cup missed
              /\ complete' \in BOOLEAN
              /\ complete' => missed = {}
  <2>1. complete' = (missed = {})
    BY <1>1, <1>11
  <2>2. short' = (short \ ToSet(combined'.parts)) \cup missed
    BY <1>1, <1>11
  <2> HIDE DEF missed
  <2>3. complete' \in BOOLEAN
    BY <2>1
  <2>4. complete' => missed = {}
    BY <2>1
  <2> QED
    BY <2>2, <2>3, <2>4
<1>12. ASSUME r
       PROVE  \A n \in ToSet(inputs) : \A p \in ToSet(P(n)) :
                 p \in ToSet(combined'.parts) \/ (p \in short' /\ ~complete')
  <2> TAKE n \in ToSet(inputs)
  <2> TAKE p \in ToSet(P(n))
  <2>1. p \in ToSet(combined'.parts) \/ p \in missed
    BY <1>8
  <2> HIDE DEF missed
  <2>2. p \in missed => p \in short' /\ ~complete'
    BY <1>11, <1>12
  <2> QED
    BY <2>1, <2>2
<1>13. ASSUME r
       PROVE  /\ short' \subseteq short \cup Parts
              /\ short \subseteq short' \cup ToSet(combined'.parts)
  <2> HIDE DEF missed
  <2> QED
    BY <1>9, <1>11, <1>13
<1>14. ~r => UNCHANGED <<short, complete>>
  BY <1>1
<1> QED
  BY <1>7, <1>10, <1>11, <1>12, <1>13, <1>14

LEMMA OnePartIs ==
    ASSUME NEW k \in Nat
    PROVE  /\ k > 0 => OnePart(<<k>>, k)
           /\ OnePart(<< >>, k)
           /\ \A s : OnePart(s, k) => OnePart(s, k + 1)
  BY DEF OnePart

LEMMA SameFiles ==
    /\ UNCHANGED ts => \A p : InTs(p)' = InTs(p)
    /\ UNCHANGED mp4 => \A p : InMp4(p)' = InMp4(p)
    /\ UNCHANGED combined => \A p : InCombined(p)' = InCombined(p)
  BY DEF InTs, InMp4, InCombined

-----------------------------------------------------------------------------
(* Types and places.                                                       *)

Typed == TypeOK /\ Place

USE DEF Typed, Place, TypeOK, Numbers, Step, Apart, cleanerVars, history

LEMMA EmptyFile ==
    /\ File(<< >>, FALSE) \in Files /\ File(<< >>, FALSE).exists
    /\ ~File(<< >>, FALSE).readable /\ File(<< >>, FALSE).parts = << >>
<1>1. << >> \in Seq(Parts)
  OBVIOUS
<1> QED
  BY <1>1, FileIs

\* The file of the session under way.
LEMMA InSession ==
    ASSUME Typed, pc # "idle"
    PROVE  /\ part \in Parts /\ part \in Nat /\ slot \in Slots /\ slot < part
           /\ <<part>> \in Seq(Parts) /\ ToSet(<<part>>) = {part}
           /\ OnePart(<<part>>, part) /\ <<part>>[1] = part
           /\ OnePart(<< >>, part)
           /\ ts[slot] \in Files /\ ~old
           /\ \A r \in BOOLEAN :
                 /\ File(<<part>>, r) \in Files /\ File(<<part>>, r).exists
                 /\ File(<<part>>, r).parts = <<part>>
                 /\ File(<<part>>, r).readable = r
<1>1. part \in Parts /\ part \in Nat /\ part > 0
  BY SlotsAre, Bounds
<1>2. <<part>> \in Seq(Parts) /\ ToSet(<<part>>) = {part} /\ <<part>>[1] = part
  BY <1>1, Single
<1>3. OnePart(<<part>>, part) /\ OnePart(<< >>, part)
  BY <1>1, OnePartIs
<1>4. slot \in Slots /\ slot < part /\ ts[slot] \in Files /\ ~old
  BY <1>1
<1> QED
  BY <1>1, <1>2, <1>3, <1>4, FileIs

\* The first free name.
LEMMA FreeSlot ==
    ASSUME Typed, PrepareFiles
    PROVE  /\ slot' \in Slots /\ ~ts[slot'].exists /\ slot' <= part
           /\ \A n \in Slots : n < slot' => ts[n].exists
<1> DEFINE T == {n \in Slots : ~ts[n].exists}
<1>1. part \in T
  BY SlotsAre, Bounds DEF PrepareFiles
<1>2. T \in SUBSET Nat /\ T # {}
  BY <1>1, SlotsAre
<1>3. slot' = Min(T)
  BY DEF PrepareFiles
<1>4. Min(T) \in T /\ \A k \in T : Min(T) <= k
  <2> HIDE DEF T
  <2> QED
    BY <1>2, MinIs
<1>5. \A n \in Slots : n < slot' => n \notin T
  BY <1>3, <1>4, SlotsAre
<1> QED
  BY <1>1, <1>3, <1>4, <1>5

\* A file that is deleted, or written by its session, keeps the numbers right.
LEMMA Deleted ==
    ASSUME Typed, NEW n \in Slots, ts' = [ts EXCEPT ![n] = NoFile] \/ ts' = ts
    PROVE  /\ ts' \in [Slots -> Files]
           /\ \A m \in Slots : ts'[m].exists => ts[m].exists /\ ts'[m] = ts[m]
           /\ \A m \in Slots : ts'[m].readable => ts[m].readable /\ ts'[m] = ts[m]
           /\ \A m \in Slots : m # n => ts'[m] = ts[m]
  BY NoFileIs

LEMMA RecordedIs ==
    ASSUME Typed, pc # "idle", NEW f \in Recorded
    PROVE  /\ f \in Files /\ f.exists
           /\ OnePart(f.parts, part)
           /\ f.readable => f.parts = <<part>>
           /\ f.parts = <<part>> \/ f.parts = << >>
  BY InSession, EmptyFile DEF Recorded

LEMMA Written ==
    ASSUME Typed, pc # "idle", NEW f \in Recorded, ts' = [ts EXCEPT ![slot] = f]
    PROVE  /\ ts' \in [Slots -> Files]
           /\ \A m \in Slots : m # slot => ts'[m] = ts[m]
           /\ ts'[slot] = f /\ f.exists
           /\ OnePart(f.parts, part)
           /\ f.readable => f.parts = <<part>>
  BY InSession, RecordedIs

LEMMA RemuxIs ==
    ASSUME Typed, RemuxEnds
    PROVE  \/ /\ mp4' \in Files /\ mp4'.exists /\ mp4'.parts = <<part>>
              /\ short' = IF mp4'.readable THEN short ELSE short \cup {part}
              /\ UNCHANGED failed
           \/ failed' = TRUE /\ UNCHANGED <<mp4, short>>
<1>1. /\ pc = "remuxing" /\ ts[slot].parts = <<part>> /\ <<part>> \in Seq(Parts)
  BY InSession DEF RemuxEnds
<1>2. ASSUME NEW readable \in BOOLEAN, mp4' = File(ts[slot].parts, readable)
      PROVE  /\ mp4' \in Files /\ mp4'.exists /\ mp4'.parts = <<part>>
             /\ mp4'.readable = readable
  BY <1>1, <1>2, FileIs
<1> QED
  BY <1>2 DEF RemuxEnds

\* The part of the session after its remux.
LEMMA RemuxHas ==
    ASSUME Typed, RemuxEnds, ~failed'
    PROVE  part \in short' \/ InMp4(part)'
<1>1. pc = "remuxing" /\ UNCHANGED part
  BY DEF RemuxEnds
<1>2. /\ mp4'.parts = <<part>>
      /\ short' = IF mp4'.readable THEN short ELSE short \cup {part}
  BY RemuxIs
<1>3. part \in ToSet(<<part>>)
  BY DEF ToSet
<1> QED
  BY <1>1, <1>2, <1>3 DEF InMp4

\* The part of the session after the concatenation.
LEMMA ConcatHas ==
    ASSUME Typed, ConcatEnds, params.remux, ~failed
    PROVE  part \in short' \/ InMp4(part)' \/ InCombined(part)'
<1>1. pc = "concatenating" /\ UNCHANGED <<mp4, part>>
  BY DEF ConcatEnds
<1>2. part \in short \/ InMp4(part)
  BY <1>1
<1>3. part \in short => part \in short' \/ InCombined(part)'
  BY <1>1, CopiedIs DEF InCombined
<1> QED
  BY <1>1, <1>2, <1>3, SameFiles

\* What is found of the file of a session after a kill.
LEMMA KillIs ==
    ASSUME Typed, Kill
    PROVE  /\ pc # "recording" =>
                /\ ts' = ts
                /\ \/ kept' = kept
                   \/ pc = "probe" /\ ts[slot].readable /\ kept' = kept \cup {part}
           /\ pc = "recording" =>
                \E f \in Recorded :
                    /\ ts' = [ts EXCEPT ![slot] = f]
                    /\ kept' = kept \/ (f.readable /\ kept' = kept \cup {part})
<1>1. CASE pc = "recording"
  <2>1. PICK f \in Recorded : ts' = [ts EXCEPT ![slot] = f]
    BY <1>1 DEF Kill
  <2>2. ts'[slot] = f
    BY <1>1, <2>1, Written
  <2> QED
    BY <1>1, <2>1, <2>2 DEF Kill
<1>2. CASE pc # "recording"
  BY <1>2 DEF Kill
<1> QED
  BY <1>1, <1>2

LEMMA TypedPrepareFiles == Typed /\ PrepareFiles => Typed'
<1> SUFFICES ASSUME Typed, PrepareFiles PROVE Typed'
  OBVIOUS
<1>1. TypeOK'
  <2>1. /\ params' \in Params /\ part' \in 0 .. MaxParts
        /\ slot' \in Slots /\ kills' \in 0 .. MaxKills
    <3>1. slot' \in Slots
      BY FreeSlot
    <3>2. part' \in 0 .. MaxParts
      BY Bounds DEF PrepareFiles
    <3> QED
      BY <3>1, <3>2 DEF PrepareFiles
  <2>2. pc' = "record" => ~ts'[slot'].exists
    BY FreeSlot DEF PrepareFiles
  <2>3. /\ {old', failed', complete'} \subseteq BOOLEAN
        /\ ts' \in [Slots -> Files]
        /\ mp4' \in Files /\ combined' \in Files
        /\ pc' \in {"idle", "record", "recording", "probe", "remux", "remuxing",
                   "select", "concat", "concatenating", "delete"}
        /\ inputs' \in Seq(Slots) /\ queue' \subseteq Slots
        /\ cleaner' \in {"idle", "delete"}
        /\ kept' \cup short' \cup deleted' \subseteq Parts
    BY FileIs, NoFileIs, EmptyFile DEF PrepareFiles
  <2> QED
    BY <2>1, <2>2, <2>3
<1>2. Numbers'
  <2>1. /\ part \in Nat /\ part' = part + 1 /\ UNCHANGED <<ts, kept>>
        /\ slot' \in Nat /\ slot' <= part
    <3>1. slot' \in Nat /\ slot' <= part
      BY FreeSlot, SlotsAre
    <3> QED
      BY <3>1, Bounds DEF PrepareFiles
  <2>2. ASSUME NEW n \in Slots, ts'[n].exists
        PROVE  n < part' /\ OnePart(ts'[n].parts, part')
    <3>1. ts[n].exists
      BY <2>1, <2>2
    <3>2. n < part /\ OnePart(ts[n].parts, part)
      BY <3>1
    <3>3. n \in Nat
      BY SlotsAre
    <3>4. OnePart(ts[n].parts, part + 1)
      BY <2>1, <3>2, OnePartIs
    <3> QED
      BY <2>1, <3>2, <3>3, <3>4
  <2>3. kept' \subseteq 1 .. part'
    BY <2>1
  <2> QED
    BY <2>1, <2>2, <2>3
<1>3. Step'
  BY FileIs, NoFileIs, EmptyFile, FilesAre DEF PrepareFiles
<1>4. Apart'
  BY FileIs, NoFileIs, EmptyFile DEF PrepareFiles
<1> QED
  BY <1>1, <1>2, <1>3, <1>4

\* A step that only writes the file of the session.
LEMMA TypedWritten ==
    ASSUME Typed, pc # "idle", NEW f \in Recorded, ts' = [ts EXCEPT ![slot] = f],
           UNCHANGED <<part, slot>>, kept' \subseteq kept \cup {part}
    PROVE  ts' \in [Slots -> Files] /\ Numbers'
<1>1. \A n \in Slots : n # slot => ts'[n] = ts[n]
  BY Written
<1>2. /\ ts' \in [Slots -> Files] /\ ts'[slot] = f
      /\ OnePart(f.parts, part) /\ (f.readable => f.parts = <<part>>)
      /\ <<part>> # << >>
  BY Written
<1>3. slot < part /\ part \in Nat /\ part > 0
  BY InSession, SlotsAre
<1>4. kept' \subseteq 1 .. part
  BY <1>3
<1> QED
  BY <1>1, <1>2, <1>3, <1>4

LEMMA TypedCreateStream == Typed /\ CreateStream => Typed'
<1> SUFFICES ASSUME Typed, CreateStream PROVE Typed'
  OBVIOUS
<1>0. /\ pc = "record" /\ File(<< >>, FALSE) \in Recorded
      /\ ts' = [ts EXCEPT ![slot] = File(<< >>, FALSE)]
      /\ UNCHANGED <<part, slot, kept>>
  BY DEF CreateStream, Recorded
<1>1. ts' \in [Slots -> Files] /\ Numbers' /\ ts'[slot] = File(<< >>, FALSE)
  BY <1>0, TypedWritten, Written
<1>2. TypeOK'
  BY <1>1 DEF CreateStream
<1>3. Step'
  BY <1>0, <1>1 DEF CreateStream
<1>4. Apart'
  BY DEF CreateStream
<1> QED
  BY <1>1, <1>2, <1>3, <1>4

LEMMA TypedNoStream == Typed /\ NoStream => Typed'
<1> SUFFICES ASSUME Typed, NoStream PROVE Typed'
  OBVIOUS
<1>1. TypeOK'
  BY FileIs, NoFileIs, EmptyFile DEF NoStream
<1>2. Place'
  BY SlotsAre, FileIs, NoFileIs, EmptyFile, FilesAre DEF NoStream
<1> QED
  BY <1>1, <1>2

LEMMA TypedEndStream == Typed /\ EndStream => Typed'
<1> SUFFICES ASSUME Typed, EndStream PROVE Typed'
  OBVIOUS
<1>0. /\ pc = "recording" /\ UNCHANGED <<part, slot, kept>>
  BY DEF EndStream
<1>1. PICK f \in Recorded : ts' = [ts EXCEPT ![slot] = f]
  BY DEF EndStream
<1>2. /\ ts' \in [Slots -> Files] /\ Numbers'
      /\ ts'[slot].readable => ts'[slot].parts = <<part>>
  BY <1>0, <1>1, TypedWritten, Written
<1>3. TypeOK'
  BY <1>2 DEF EndStream
<1>4. Step'
  BY <1>0, <1>2 DEF EndStream
<1>5. Apart'
  BY DEF EndStream
<1> QED
  BY <1>2, <1>3, <1>4, <1>5

LEMMA TypedProbe == Typed /\ Probe => Typed'
<1> SUFFICES ASSUME Typed, Probe PROVE Typed'
  OBVIOUS
<1>1. TypeOK'
  BY InSession, FileIs, NoFileIs, EmptyFile DEF Probe, AfterProbe, AfterRemux
<1>2. Numbers'
  <2>1. pc = "probe" /\ UNCHANGED <<slot, part>>
    BY DEF Probe
  <2>2. kept' \subseteq 1 .. part'
    <3>1. part \in 1 .. part
      BY <2>1, InSession, SlotsAre
    <3>2. kept \subseteq 1 .. part /\ (kept' = kept \cup {part} \/ kept' = kept)
      BY DEF Probe
    <3> QED
      BY <2>1, <3>1, <3>2
  <2>3. ts' = [ts EXCEPT ![slot] = NoFile] \/ ts' = ts
    BY DEF Probe
  <2>4. \A n \in Slots : /\ ts'[n].exists => ts[n].exists /\ ts'[n] = ts[n]
                         /\ ts'[n].readable => ts[n].readable /\ ts'[n] = ts[n]
    BY <2>1, <2>3, Deleted, InSession
  <2> QED
    BY <2>1, <2>2, <2>4, InSession
<1>3. Step'
  <2>1. CASE ts[slot].readable
    <3>1. ts' = ts /\ ts[slot].parts = <<part>> /\ ~failed'
      BY <2>1, NoFileIs DEF Probe
    <3>2. pc' = IF params.remux THEN "remux" ELSE AfterRemux
      BY <2>1 DEF Probe, AfterProbe
    <3>3. UNCHANGED <<params, part, slot>>
      BY DEF Probe
    <3> QED
      BY <2>1, <3>1, <3>2, <3>3 DEF AfterRemux
  <2>2. CASE ~ts[slot].readable
    <3>1. pc' = AfterRemux /\ failed' /\ UNCHANGED params
      BY <2>2 DEF Probe, AfterProbe
    <3> QED
      BY <3>1 DEF AfterRemux
  <2> QED
    BY <2>1, <2>2
<1>4. Apart'
  BY FileIs, NoFileIs, EmptyFile DEF Probe, AfterProbe, AfterRemux
<1> QED
  BY <1>1, <1>2, <1>3, <1>4

LEMMA TypedRemuxStarts == Typed /\ RemuxStarts => Typed'
<1> SUFFICES ASSUME Typed, RemuxStarts PROVE Typed'
  OBVIOUS
<1>1. TypeOK'
  BY EmptyFile, FileIs, NoFileIs DEF RemuxStarts
<1>2. Place'
  BY SlotsAre, FileIs, NoFileIs, EmptyFile, FilesAre DEF RemuxStarts
<1> QED
  BY <1>1, <1>2

LEMMA TypedRemuxEnds == Typed /\ RemuxEnds => Typed'
<1> SUFFICES ASSUME Typed, RemuxEnds PROVE Typed'
  OBVIOUS
<1>1. TypeOK'
  <2>1. mp4' \in Files /\ combined' \in Files
    BY RemuxIs DEF RemuxEnds, AfterRemux
  <2>3. kept' \cup short' \cup deleted' \subseteq Parts
    BY RemuxIs, InSession DEF RemuxEnds
  <2>2. /\ params' \in Params /\ part' \in 0 .. MaxParts
        /\ slot' \in Slots /\ kills' \in 0 .. MaxKills
        /\ {old', failed', complete'} \subseteq BOOLEAN
        /\ ts' \in [Slots -> Files]
        /\ pc' \in {"idle", "record", "recording", "probe", "remux", "remuxing",
                   "select", "concat", "concatenating", "delete"}
        /\ (pc' = "record" => ~ts'[slot'].exists)
        /\ inputs' \in Seq(Slots) /\ queue' \subseteq Slots
        /\ cleaner' \in {"idle", "delete"}
    BY FileIs, NoFileIs, EmptyFile DEF RemuxEnds, AfterRemux
  <2> QED
    BY <2>1, <2>2, <2>3
<1>2. Numbers'
  BY SlotsAre DEF RemuxEnds, AfterRemux
<1>3. Step'
  BY RemuxHas DEF RemuxEnds, AfterRemux
<1>4. Apart'
  BY FileIs, NoFileIs, EmptyFile DEF RemuxEnds, AfterRemux
<1> QED
  BY <1>1, <1>2, <1>3, <1>4

LEMMA TypedSelectInputs == Typed /\ SelectInputs => Typed'
<1> SUFFICES ASSUME Typed, SelectInputs PROVE Typed'
  OBVIOUS
<1>1. TypeOK'
  BY SelectedAre, FileIs, NoFileIs, EmptyFile DEF SelectInputs
<1>2. Numbers' /\ Apart'
  BY DEF SelectInputs
<1>3. Step'
  BY SameFiles DEF SelectInputs
<1> QED
  BY <1>1, <1>2, <1>3

LEMMA TypedConcatStarts == Typed /\ ConcatStarts => Typed'
<1> SUFFICES ASSUME Typed, ConcatStarts PROVE Typed'
  OBVIOUS
<1>1. TypeOK'
  <2>1. mp4' \in Files /\ combined' \in Files
    BY EmptyFile DEF ConcatStarts
  <2>2. /\ params' \in Params /\ part' \in 0 .. MaxParts
        /\ slot' \in Slots /\ kills' \in 0 .. MaxKills
        /\ {old', failed', complete'} \subseteq BOOLEAN
        /\ ts' \in [Slots -> Files]
        /\ pc' \in {"idle", "record", "recording", "probe", "remux", "remuxing",
                   "select", "concat", "concatenating", "delete"}
        /\ (pc' = "record" => ~ts'[slot'].exists)
        /\ inputs' \in Seq(Slots) /\ queue' \subseteq Slots
        /\ cleaner' \in {"idle", "delete"}
        /\ kept' \cup short' \cup deleted' \subseteq Parts
    BY FileIs, NoFileIs, EmptyFile DEF ConcatStarts
  <2> QED
    BY <2>1, <2>2
<1>2. Numbers' /\ Apart'
  BY DEF ConcatStarts
<1>3. Step'
  <2>1. pc = "concat" /\ UNCHANGED <<params, mp4, short, part, failed, slot>>
    BY DEF ConcatStarts
  <2>2. pc' \in {"concatenating", "delete"} /\ ~complete'
    BY DEF ConcatStarts
  <2>3. pc' = "concatenating" => ~combined'.readable
    BY EmptyFile DEF ConcatStarts
  <2>4. params.remux /\ ~failed => part \in short \/ InMp4(part)
    BY <2>1
  <2> QED
    BY <2>1, <2>2, <2>3, <2>4, SameFiles
<1> QED
  BY <1>1, <1>2, <1>3

LEMMA TypedConcatEnds == Typed /\ ConcatEnds => Typed'
<1> SUFFICES ASSUME Typed, ConcatEnds PROVE Typed'
  OBVIOUS
<1>1. TypeOK'
  <2>1. {old', failed', complete'} \subseteq BOOLEAN
    BY CopiedIs DEF ConcatEnds
  <2>2. mp4' \in Files /\ combined' \in Files
    BY CopiedIs DEF ConcatEnds
  <2>3. kept' \cup short' \cup deleted' \subseteq Parts
    BY CopiedIs DEF ConcatEnds
  <2>4. /\ params' \in Params /\ part' \in 0 .. MaxParts
        /\ slot' \in Slots /\ kills' \in 0 .. MaxKills
        /\ ts' \in [Slots -> Files]
        /\ pc' \in {"idle", "record", "recording", "probe", "remux", "remuxing",
                   "select", "concat", "concatenating", "delete"}
        /\ (pc' = "record" => ~ts'[slot'].exists)
        /\ inputs' \in Seq(Slots) /\ queue' \subseteq Slots
        /\ cleaner' \in {"idle", "delete"}
    BY FileIs, NoFileIs, EmptyFile DEF ConcatEnds
  <2> QED
    BY <2>1, <2>2, <2>3, <2>4
<1>2. Numbers' /\ Apart'
  BY DEF ConcatEnds
<1>3. Step'
  BY ConcatHas DEF ConcatEnds
<1> QED
  BY <1>1, <1>2, <1>3

LEMMA TypedDeleteIntermediates == Typed /\ DeleteIntermediates => Typed'
<1> SUFFICES ASSUME Typed, DeleteIntermediates PROVE Typed'
  OBVIOUS
<1>1. TypeOK'
  <2>1. ts' \in [Slots -> Files] /\ deleted' \subseteq Parts
    BY Deleted, InSession DEF DeleteIntermediates
  <2> QED
    BY <2>1 DEF DeleteIntermediates
<1>2. Numbers'
  BY Deleted, InSession, SlotsAre DEF DeleteIntermediates
<1>3. Step'
  BY FileIs, NoFileIs, EmptyFile, FilesAre DEF DeleteIntermediates
<1>4. Apart'
  BY FileIs, NoFileIs, EmptyFile DEF DeleteIntermediates
<1> QED
  BY <1>1, <1>2, <1>3, <1>4

LEMMA TypedScan == Typed /\ Scan => Typed'
<1> SUFFICES ASSUME Typed, Scan PROVE Typed'
  OBVIOUS
<1>1. TypeOK'
  BY FileIs, NoFileIs, EmptyFile DEF Scan, Scanned
<1>2. Place'
  BY SlotsAre, FileIs, NoFileIs, EmptyFile, FilesAre DEF Scan, Scanned
<1> QED
  BY <1>1, <1>2

LEMMA TypedCleanDelete == Typed /\ CleanDelete => Typed'
<1> SUFFICES ASSUME Typed, CleanDelete PROVE Typed'
  OBVIOUS
<1>1. TypeOK'
  <2>1. PICK n \in queue : /\ ts' = [ts EXCEPT ![n] = NoFile]
                           /\ deleted' = deleted \cup ToSet(ts[n].parts)
    BY DEF CleanDelete
  <2>2. ts' \in [Slots -> Files]
    BY <2>1, Deleted
  <2>3. ToSet(ts[n].parts) \subseteq Parts
    <3>1. ts[n].parts \in Seq(Parts)
      BY FilesAre
    <3> QED
      BY <3>1, ElementOfSeq DEF ToSet
  <2> QED
    BY <2>1, <2>2, <2>3 DEF CleanDelete
<1>2. Numbers'
  <2>1. PICK n \in queue : ts' = [ts EXCEPT ![n] = NoFile]
    BY DEF CleanDelete
  <2>2. n \in Slots /\ UNCHANGED <<part, slot, pc, kept>>
    BY DEF CleanDelete
  <2> QED
    BY <2>1, <2>2, Deleted
<1>3. Step'
  BY FileIs, NoFileIs, EmptyFile, FilesAre DEF CleanDelete
<1>4. Apart'
  BY FileIs, NoFileIs, EmptyFile DEF CleanDelete
<1> QED
  BY <1>1, <1>2, <1>3, <1>4

LEMMA TypedCleanRename == Typed /\ CleanRename => Typed'
<1> SUFFICES ASSUME Typed, CleanRename PROVE Typed'
  OBVIOUS
<1>1. TypeOK'
  BY FileIs, NoFileIs, EmptyFile DEF CleanRename
<1>2. Place'
  BY SlotsAre, FileIs, NoFileIs, EmptyFile, FilesAre DEF CleanRename
<1> QED
  BY <1>1, <1>2

LEMMA TypedAge == Typed /\ Age => Typed'
<1> SUFFICES ASSUME Typed, Age PROVE Typed'
  OBVIOUS
<1>1. TypeOK'
  BY FileIs, NoFileIs, EmptyFile DEF Age
<1>2. Place'
  BY SlotsAre, FileIs, NoFileIs, EmptyFile, FilesAre DEF Age
<1> QED
  BY <1>1, <1>2

LEMMA TypedKill == Typed /\ Kill => Typed'
<1> SUFFICES ASSUME Typed, Kill PROVE Typed'
  OBVIOUS
<1>1. TypeOK'
  <2>1. /\ params' \in Params /\ part' \in 0 .. MaxParts
        /\ slot' \in Slots /\ kills' \in 0 .. MaxKills
    BY Bounds DEF Kill
  <2>2. ts' \in [Slots -> Files]
    BY KillIs, Written
  <2>3. kept' \cup short' \cup deleted' \subseteq Parts
    BY KillIs, InSession DEF Kill
  <2>4. /\ {old', failed', complete'} \subseteq BOOLEAN
        /\ mp4' \in Files /\ combined' \in Files
        /\ pc' \in {"idle", "record", "recording", "probe", "remux", "remuxing",
                   "select", "concat", "concatenating", "delete"}
        /\ (pc' = "record" => ~ts'[slot'].exists)
        /\ inputs' \in Seq(Slots) /\ queue' \subseteq Slots
        /\ cleaner' \in {"idle", "delete"}
    BY FileIs, NoFileIs, EmptyFile DEF Kill
  <2> QED
    BY <2>1, <2>2, <2>3, <2>4
<1>2. Numbers'
  <2>1. UNCHANGED <<slot, part>> /\ pc' = "idle"
    BY DEF Kill
  <2>2. CASE UNCHANGED <<ts, kept>>
    BY <2>1, <2>2
  <2>3. CASE pc = "probe" /\ ts' = ts /\ kept' = kept \cup {part}
    <3>1. part \in 1 .. part
      BY <2>3, InSession, SlotsAre
    <3> QED
      BY <2>1, <2>3, <3>1
  <2>4. CASE pc = "recording"
    <3>1. PICK f \in Recorded : /\ ts' = [ts EXCEPT ![slot] = f]
                                /\ kept' \subseteq kept \cup {part}
      BY <2>4, KillIs
    <3> QED
      BY <2>1, <2>4, <3>1, TypedWritten
  <2> QED
    BY <2>2, <2>3, <2>4, KillIs
<1>3. Step'
  BY FileIs, NoFileIs, EmptyFile, FilesAre DEF Kill
<1>4. Apart'
  BY FileIs, NoFileIs, EmptyFile DEF Kill
<1> QED
  BY <1>1, <1>2, <1>3, <1>4

LEMMA TypedNext == Typed /\ [Next]_vars => Typed'
<1> SUFFICES ASSUME Typed, [Next]_vars PROVE Typed'
  OBVIOUS
<1>1. CASE UNCHANGED vars
  <2>1. TypeOK'
    BY <1>1 DEF vars
  <2>2. Numbers'
    BY <1>1 DEF vars
  <2>3. Step' /\ Apart'
    BY <1>1, SameFiles DEF vars
  <2> QED
    BY <2>1, <2>2, <2>3
<1>2. CASE Process
  BY <1>2, TypedPrepareFiles, TypedCreateStream, TypedNoStream, TypedEndStream,
     TypedProbe, TypedRemuxStarts, TypedRemuxEnds, TypedSelectInputs,
     TypedConcatStarts, TypedConcatEnds, TypedDeleteIntermediates DEF Process
<1>3. CASE Clean
  BY <1>3, TypedScan, TypedCleanDelete, TypedCleanRename DEF Clean
<1>4. CASE Age \/ Kill
  BY <1>4, TypedAge, TypedKill
<1> HIDE DEF Typed
<1> QED
  BY <1>1, <1>2, <1>3, <1>4 DEF Next

HIDE DEF Typed, Place, TypeOK, Numbers, Step, Apart, cleanerVars, history

-----------------------------------------------------------------------------
(* What is kept.                                                           *)

LEMMA SafeIs ==
    ASSUME Typed
    PROVE  /\ \A p \in SafeParts : /\ p \in kept /\ p \in Parts
                                   /\ NamesReused => p = part
           /\ \A p \in kept : (NamesReused => p = part) => p \in SafeParts
  BY DEF Typed, TypeOK, SafeParts

\* The parts that are safe after a step.
LEMMA SafeNext ==
    ASSUME Typed, Next
    PROVE  /\ UNCHANGED params /\ NamesReused' = NamesReused
           /\ UNCHANGED <<part, kept>> => SafeParts' = SafeParts
           /\ PrepareFiles => SafeParts' \subseteq SafeParts
           /\ PrepareFiles /\ NamesReused => SafeParts' = {}
           /\ UNCHANGED part /\ kept' = kept \cup {part} =>
                 SafeParts' \subseteq SafeParts \cup {part}
<1>1. UNCHANGED params /\ NamesReused' = NamesReused
  BY DEF Next, Process, Clean, PrepareFiles, CreateStream, NoStream, EndStream, Probe,
         RemuxStarts, RemuxEnds, SelectInputs, ConcatStarts, ConcatEnds,
         DeleteIntermediates, Scan, CleanDelete, CleanRename, Age, Kill, NamesReused
<1>2. UNCHANGED <<part, kept>> => SafeParts' = SafeParts
  BY <1>1 DEF SafeParts
<1>3. UNCHANGED part /\ kept' = kept \cup {part} =>
        SafeParts' \subseteq SafeParts \cup {part}
  BY <1>1 DEF SafeParts
<1>4. ASSUME PrepareFiles
      PROVE  /\ SafeParts' \subseteq SafeParts
             /\ NamesReused => SafeParts' = {}
  <2>1. UNCHANGED kept /\ part' = part + 1 /\ part \in Nat /\ kept \subseteq 1 .. part
    BY <1>4, Bounds DEF PrepareFiles, history, Typed, TypeOK, Place, Numbers
  <2>2. ASSUME NEW p \in SafeParts' PROVE p \in SafeParts /\ ~NamesReused
    <3>1. p \in kept /\ p \in IF NamesReused THEN {part'} ELSE Parts
      BY <1>1, <2>1, <2>2 DEF SafeParts
    <3>2. p # part'
      BY <2>1, <3>1
    <3> QED
      BY <3>1, <3>2 DEF SafeParts
  <2> QED
    BY <2>2
<1> QED
  BY <1>1, <1>2, <1>3, <1>4

\* A part stays in its file when only a file that cannot be read changes.
LEMMA StaysInTs ==
    ASSUME NEW n \in Slots, ~ts[n].readable, \A m \in Slots : m # n => ts'[m] = ts[m]
    PROVE  \A p : InTs(p) => InTs(p)'
  BY DEF InTs

\* The part of the session, while its file is there.
LEMMA SessionInTs ==
    ASSUME Typed, pc # "idle", ts[slot].readable, ts[slot].parts = <<part>>
    PROVE  InTs(part)
  BY InSession DEF InTs

\* Process works before combined is old.
LEMMA NotOld ==
    ASSUME Typed
    PROVE  /\ pc # "idle" => ~old
           /\ old \in BOOLEAN
  BY DEF Typed, TypeOK, Place, Apart

\* As long as Process is at work, a part is in its .ts.
LEMMA AtWork ==
    ASSUME Typed, Held, pc # "idle", NEW p \in SafeParts
    PROVE  InTs(p)
  BY NotOld DEF Held

LEMMA HeldNext == Typed /\ Held /\ Covers /\ Next => Held'
<1> SUFFICES ASSUME Typed, Held, Covers, Next PROVE Held'
  OBVIOUS
<1>0. UNCHANGED params /\ NamesReused' = NamesReused
  BY SafeNext
<1>1. CASE PrepareFiles
  <2>1. /\ SafeParts' \subseteq SafeParts /\ (NamesReused => SafeParts' = {})
        /\ UNCHANGED ts /\ ~old
    BY <1>1, SafeNext DEF PrepareFiles
  <2>2. \A p \in SafeParts' : InTs(p)
    BY <2>1 DEF Held
  <2> QED
    BY <2>1, <2>2, SameFiles DEF Held
<1>2. CASE CreateStream \/ EndStream
  <2>1. SafeParts' = SafeParts
    BY <1>2, SafeNext DEF CreateStream, EndStream, history
  <2>2. /\ ~ts[slot].readable /\ slot \in Slots
        /\ pc \in {"record", "recording"}
    <3>1. pc \in {"record", "recording"}
      BY <1>2 DEF CreateStream, EndStream
    <3>2. pc = "record" => ~ts[slot].exists
      BY DEF Typed, TypeOK
    <3>3. pc = "recording" => ts[slot] = File(<< >>, FALSE)
      BY DEF Typed, Place, Step
    <3> QED
      BY <3>1, <3>2, <3>3, InSession, FilesAre, EmptyFile
  <2>3. \E f \in Recorded : ts' = [ts EXCEPT ![slot] = f]
    BY <1>2 DEF CreateStream, EndStream, Recorded
  <2>4. \A m \in Slots : m # slot => ts'[m] = ts[m]
    BY <2>2, <2>3, Written
  <2>5. \A p : InTs(p) => InTs(p)'
    BY <2>2, <2>4, StaysInTs
  <2> QED
    BY <2>1, <2>2, <2>5, AtWork DEF Held
<1>3. CASE Probe
  <2>1. pc = "probe" /\ UNCHANGED part
    BY <1>3 DEF Probe
  <2>2. CASE ts[slot].readable
    <3>1. ts' = ts /\ kept' = kept \cup {part} /\ ts[slot].parts = <<part>>
      BY <1>3, <2>2 DEF Probe, Typed, Place, Step
    <3>2. SafeParts' \subseteq SafeParts \cup {part}
      BY <2>1, <3>1, SafeNext
    <3>3. InTs(part)
      BY <2>1, <2>2, <3>1, SessionInTs
    <3> QED
      BY <2>1, <3>1, <3>2, <3>3, SameFiles, AtWork DEF Held
  <2>3. CASE ~ts[slot].readable
    <3>1. kept' = kept /\ (ts' = [ts EXCEPT ![slot] = NoFile] \/ ts' = ts)
      BY <1>3, <2>3 DEF Probe
    <3>2. SafeParts' = SafeParts
      BY <2>1, <3>1, SafeNext
    <3>3. \A m \in Slots : m # slot => ts'[m] = ts[m]
      BY <2>1, <3>1, Deleted, InSession
    <3>4. \A p : InTs(p) => InTs(p)'
      BY <2>1, <2>3, <3>3, InSession, StaysInTs
    <3> QED
      BY <2>1, <3>2, <3>4, AtWork DEF Held
  <2> QED
    BY <2>2, <2>3
<1>4. CASE NoStream \/ RemuxStarts \/ RemuxEnds \/ SelectInputs \/ ConcatStarts \/ ConcatEnds
  <2>1. UNCHANGED <<part, kept>>
    BY <1>4 DEF NoStream, RemuxStarts, RemuxEnds, SelectInputs, ConcatStarts, ConcatEnds,
                history
  <2>2. UNCHANGED ts /\ pc # "idle"
    BY <1>4 DEF NoStream, RemuxStarts, RemuxEnds, SelectInputs, ConcatStarts, ConcatEnds
  <2>3. SafeParts' = SafeParts
    BY <2>1, SafeNext
  <2> QED
    BY <2>2, <2>3, SameFiles, AtWork DEF Held
<1>5. CASE DeleteIntermediates
  <2>1. SafeParts' = SafeParts
    BY <1>5, SafeNext DEF DeleteIntermediates
  <2>2. UNCHANGED <<mp4, combined, short, part>> /\ pc = "delete" /\ pc' = "idle"
    BY <1>5 DEF DeleteIntermediates
  <2>3. CASE ~params.keepIntermediates /\ params.remux /\ ~failed
    <3>1. /\ NamesReused /\ part \in deleted'
          /\ part \in short \/ InMp4(part) \/ InCombined(part)
      BY <1>5, <2>2, <2>3 DEF DeleteIntermediates, NamesReused, Typed, Place, Step
    <3>2. \A p \in SafeParts : p = part
      BY <3>1, SafeIs
    <3>3. Elsewhere(part)'
      BY <2>2, <3>1, SameFiles DEF Elsewhere
    <3> QED
      BY <1>0, <2>1, <2>2, <3>1, <3>2, <3>3 DEF Held
  <2>4. CASE ~(~params.keepIntermediates /\ params.remux /\ ~failed)
    <3>1. UNCHANGED ts
      BY <1>5, <2>4 DEF DeleteIntermediates
    <3> QED
      BY <2>1, <2>2, <3>1, SameFiles, AtWork DEF Held
  <2> QED
    BY <2>3, <2>4
<1>6. CASE Age \/ Scan \/ CleanRename
  <2>1. SafeParts' = SafeParts
    BY <1>6, SafeNext DEF Age, Scan, CleanRename, history
  <2>2. UNCHANGED <<ts, short, deleted, pc>> /\ (old => old')
    BY <1>6 DEF Age, Scan, CleanRename, history
  <2>3. \A p : InMp4(p) \/ InCombined(p) => InMp4(p)' \/ InCombined(p)'
    <3>1. mp4.readable => mp4.exists
      BY FilesAre DEF Typed, TypeOK
    <3>2. \/ UNCHANGED <<mp4, combined>>
          \/ UNCHANGED mp4 /\ ~combined.readable
          \/ ~mp4.exists /\ mp4' = combined
      BY <1>6 DEF Age, Scan, Scanned, CleanRename
    <3> QED
      BY <3>1, <3>2 DEF InMp4, InCombined
  <2>4. \A p : Elsewhere(p) => Elsewhere(p)'
    BY <2>2, <2>3 DEF Elsewhere
  <2> QED
    BY <1>0, <2>1, <2>2, <2>4, SameFiles DEF Held
<1>7. CASE CleanDelete
  <2>1. SafeParts' = SafeParts
    BY <1>7, SafeNext DEF CleanDelete
  <2>2. UNCHANGED <<mp4, combined, old, short>> /\ cleaner = "delete"
    BY <1>7 DEF CleanDelete
  <2>3. /\ old /\ pc = "idle" /\ combined.readable
        /\ params.concat /\ ~params.keepIntermediates
    BY <2>2 DEF Typed, Place, Apart
  <2>4. \A p \in SafeParts : p \in short \/ InCombined(p) \/ InMp4(p)
    BY <2>3 DEF Covers, NotYetCopied
  <2>5. PICK n \in queue : /\ ts' = [ts EXCEPT ![n] = NoFile]
                           /\ deleted' = deleted \cup ToSet(ts[n].parts)
    BY <1>7 DEF CleanDelete
  <2>6. n \in Slots /\ \A m \in Slots : m # n => ts'[m] = ts[m]
    BY <2>5, Deleted DEF Typed, TypeOK
  <2>7. ASSUME NEW p, InTs(p) PROVE InTs(p)' \/ p \in deleted'
    <3>1. PICK m \in Slots : ts[m].readable /\ ts[m].parts = <<p>>
      BY <2>7 DEF InTs
    <3>2. p \in ToSet(<<p>>)
      BY DEF ToSet
    <3>3. m = n => p \in deleted'
      BY <2>5, <3>1, <3>2
    <3>4. m # n => InTs(p)'
      BY <2>6, <3>1 DEF InTs
    <3> QED
      BY <3>3, <3>4
  <2>8. \A p : p \in deleted => p \in deleted'
    BY <2>5
  <2>9. ASSUME NEW p \in SafeParts PROVE InTs(p)' \/ Elsewhere(p)'
    <3>1. CASE InTs(p)
      BY <2>2, <2>4, <2>7, <3>1, SameFiles DEF Elsewhere
    <3>2. CASE Elsewhere(p)
      BY <2>2, <2>8, <3>2, SameFiles DEF Elsewhere
    <3> QED
      BY <3>1, <3>2 DEF Held
  <2> QED
    BY <2>1, <2>2, <2>3, <2>9 DEF Held
<1>8. CASE Kill
  <2>1. /\ UNCHANGED <<mp4, combined, old, part, deleted>> /\ short \subseteq short'
        /\ pc' = "idle"
    BY <1>8 DEF Kill
  <2>2. \A p : Elsewhere(p) => Elsewhere(p)'
    BY <2>1, SameFiles DEF Elsewhere
  <2>3. CASE UNCHANGED <<ts, kept>>
    <3>1. SafeParts' = SafeParts
      BY <2>1, <2>3, SafeNext
    <3> QED
      BY <1>0, <2>1, <2>2, <2>3, <3>1, SameFiles DEF Held
  <2>4. CASE pc = "probe" /\ ts[slot].readable /\ ts' = ts /\ kept' = kept \cup {part}
    <3>1. SafeParts' \subseteq SafeParts \cup {part}
      BY <2>1, <2>4, SafeNext
    <3>2. InTs(part)
      BY <2>4, SessionInTs DEF Typed, Place, Step
    <3> QED
      BY <2>4, <3>1, <3>2, SameFiles, AtWork DEF Held
  <2>5. CASE pc = "recording"
    <3>1. PICK f \in Recorded :
             /\ ts' = [ts EXCEPT ![slot] = f]
             /\ kept' = kept \/ (f.readable /\ kept' = kept \cup {part})
      BY <1>8, <2>5, KillIs
    <3>2. /\ \A m \in Slots : m # slot => ts'[m] = ts[m]
          /\ ts'[slot] = f /\ (f.readable => f.parts = <<part>>)
      BY <2>5, <3>1, Written
    <3>3. ~ts[slot].readable /\ slot \in Slots
      BY <2>5, InSession, EmptyFile DEF Typed, Place, Step
    <3>4. \A p : InTs(p) => InTs(p)'
      BY <3>2, <3>3, StaysInTs
    <3>5. f.readable => InTs(part)'
      BY <2>1, <3>2, <3>3 DEF InTs
    <3>6. SafeParts' = SafeParts \/ (f.readable /\ SafeParts' \subseteq SafeParts \cup {part})
      BY <2>1, <3>1, SafeNext
    <3> QED
      BY <2>1, <2>5, <3>4, <3>5, <3>6, AtWork DEF Held
  <2> QED
    BY <1>8, <2>3, <2>4, <2>5, KillIs
<1> QED
  BY <1>1, <1>2, <1>3, <1>4, <1>5, <1>6, <1>7, <1>8 DEF Next, Process, Clean

-----------------------------------------------------------------------------
(* What the concatenation has.                                             *)

\* Process does nothing to what the last concatenation relies on.
LEMMA CoversNext == Typed /\ Covers /\ Chosen /\ Next => Covers'
<1> SUFFICES ASSUME Typed, Covers, Chosen, Next,
                    combined'.readable, params.concat, ~params.keepIntermediates
             PROVE  \A p \in SafeParts' :
                       \/ p \in short' \/ InCombined(p)' \/ InMp4(p)'
                       \/ p = part' /\ pc' \in NotYetCopied
  BY SafeNext DEF Covers
<1> DEFINE Covered(p) == p \in short \/ InCombined(p) \/ InMp4(p)
<1>0. combined.readable =>
        \A p \in SafeParts : Covered(p) \/ (p = part /\ pc \in NotYetCopied)
  BY DEF Covers
<1>1. CASE PrepareFiles \/ CreateStream \/ NoStream \/ EndStream
  <2>1. SafeParts' \subseteq SafeParts
    BY <1>1, SafeNext DEF CreateStream, NoStream, EndStream, history
  <2>2. /\ UNCHANGED <<mp4, combined, short>>
        /\ pc \in {"idle", "record"} \/ (UNCHANGED part /\ pc' \in NotYetCopied)
    BY <1>1 DEF PrepareFiles, CreateStream, NoStream, EndStream, history, NotYetCopied
  <2> QED
    BY <1>0, <2>1, <2>2, SameFiles DEF NotYetCopied
<1>2. CASE Probe
  <2>1. pc = "probe" /\ UNCHANGED <<mp4, combined, short, part>>
    BY <1>2 DEF Probe
  <2>2. pc' \in {"remux", "select"}
    BY <1>2 DEF Probe, AfterProbe, AfterRemux
  <2>3. kept' = kept \/ kept' = kept \cup {part}
    BY <1>2 DEF Probe
  <2>4. SafeParts' \subseteq SafeParts \cup {part}
    BY <2>1, <2>3, SafeNext
  <2> QED
    BY <1>0, <2>1, <2>2, <2>4, SameFiles DEF NotYetCopied
<1>3. CASE RemuxStarts \/ RemuxEnds
  <2>1. SafeParts' = SafeParts /\ UNCHANGED part
    BY <1>3, SafeNext DEF RemuxStarts, RemuxEnds, history
  <2>2. pc' \in NotYetCopied
    BY <1>3 DEF RemuxStarts, RemuxEnds, AfterRemux, NotYetCopied
  <2>3. NamesReused
    BY <1>3 DEF RemuxStarts, RemuxEnds, Typed, Place, Step, NamesReused
  <2> QED
    BY <2>1, <2>2, <2>3, SafeIs
<1>4. CASE SelectInputs
  <2>1. SafeParts' = SafeParts /\ UNCHANGED <<part, mp4, combined, short>>
    BY <1>4, SafeNext DEF SelectInputs, history
  <2>2. pc' \in NotYetCopied
    BY <1>4 DEF SelectInputs, NotYetCopied
  <2> QED
    BY <1>0, <2>1, <2>2, SameFiles
<1>5. CASE ConcatStarts
  <2>1. SafeParts' = SafeParts /\ UNCHANGED <<part, mp4, short>> /\ pc = "concat"
    BY <1>5, SafeNext DEF ConcatStarts
  <2>2. inputs = << >>
    BY <1>5, EmptyFile DEF ConcatStarts
  <2>3. SafeParts = {}
    BY <2>1, <2>2, NoElements DEF Chosen
  <2> QED
    BY <2>1, <2>3
<1>6. CASE ConcatEnds
  <2>1. SafeParts' = SafeParts /\ pc = "concatenating"
    BY <1>6, SafeNext DEF ConcatEnds
  <2>2. combined' # combined
    BY <2>1 DEF Typed, Place, Step
  <2>3. \A n \in ToSet(inputs) : \A p \in ToSet(Source(n).parts) :
           p \in ToSet(combined'.parts) \/ p \in short'
    BY <1>6, <2>2, CopiedIs DEF Typed
  <2>4. \A p \in SafeParts : p \in ToSet(combined'.parts) \/ p \in short'
    BY <2>1, <2>3 DEF Chosen
  <2> QED
    BY <2>1, <2>4 DEF InCombined
<1>7. CASE DeleteIntermediates \/ Age \/ CleanDelete
  <2>1. SafeParts' = SafeParts /\ UNCHANGED <<part, mp4, combined, short>>
    BY <1>7, SafeNext DEF DeleteIntermediates, Age, CleanDelete, history
  <2>2. pc \notin NotYetCopied
    BY <1>7 DEF DeleteIntermediates, Age, CleanDelete, Typed, Place, Apart, NotYetCopied
  <2> QED
    BY <1>0, <2>1, <2>2, SameFiles
<1>8. CASE Scan \/ CleanRename
  <2>1. SafeParts' = SafeParts /\ UNCHANGED <<part, short, pc>>
    BY <1>8, SafeNext DEF Scan, CleanRename, history
  <2>2. UNCHANGED <<mp4, combined>>
    BY <1>8, NoFileIs DEF Scan, Scanned, CleanRename
  <2> QED
    BY <1>0, <2>1, <2>2, SameFiles
<1>9. CASE Kill
  <2>1. /\ UNCHANGED <<part, mp4, combined>> /\ short \subseteq short'
        /\ pc \in NotYetCopied => part \in short'
    BY <1>9 DEF Kill, NotYetCopied
  <2>2. \/ kept' = kept
        \/ kept' = kept \cup {part} /\ pc \in NotYetCopied
    BY <1>9, KillIs DEF NotYetCopied
  <2>3. \/ SafeParts' = SafeParts
        \/ SafeParts' \subseteq SafeParts \cup {part} /\ pc \in NotYetCopied
    BY <2>1, <2>2, SafeNext
  <2> QED
    BY <1>0, <2>1, <2>3, SameFiles
<1> QED
  BY <1>1, <1>2, <1>3, <1>4, <1>5, <1>6, <1>7, <1>8, <1>9 DEF Next, Process, Clean

LEMMA ChosenNext == Typed /\ Held /\ Chosen /\ Next => Chosen'
<1> SUFFICES ASSUME Typed, Held, Chosen, Next, pc' \in {"concat", "concatenating"}
             PROVE  \A p \in SafeParts' :
                       \E n \in ToSet(inputs') : p \in ToSet(Source(n)'.parts)
  BY DEF Chosen
<1>1. CASE SelectInputs
  <2>1. /\ SafeParts' = SafeParts /\ UNCHANGED <<ts, mp4>> /\ pc = "select"
        /\ \A n : Source(n)' = Source(n)
    BY <1>1, SafeNext DEF SelectInputs, history, Source
  <2>2. ToSet(inputs') = {n \in Slots : Source(n).readable}
    BY <1>1, SelectedAre DEF Typed
  <2>3. ASSUME NEW p, InTs(p)
        PROVE  \E n \in ToSet(inputs') : p \in ToSet(Source(n)'.parts)
    <3>1. PICK n \in Slots : ts[n].readable /\ ts[n].parts = <<p>>
      BY <2>3 DEF InTs
    <3>2. Source(n) = ts[n]
      BY <3>1, SourceIs DEF Typed
    <3>3. p \in ToSet(<<p>>)
      BY DEF ToSet
    <3> QED
      BY <2>1, <2>2, <3>1, <3>2, <3>3
  <2> QED
    BY <2>1, <2>3, AtWork
<1>2. CASE ConcatStarts
  <2>1. SafeParts' = SafeParts /\ UNCHANGED <<ts, mp4, inputs>> /\ pc = "concat"
    BY <1>2, SafeNext DEF ConcatStarts
  <2>2. \A n : Source(n)' = Source(n)
    BY <2>1 DEF Source
  <2> QED
    BY <2>1, <2>2, SameFiles DEF Chosen
<1>3. CASE Clean \/ Age
  <2>1. pc' = "idle"
    BY <1>3 DEF Clean, Scan, CleanDelete, CleanRename, Age, Typed, Place, Apart
  <2> QED
    BY <2>1
<1>4. CASE Kill \/ (Process /\ ~SelectInputs /\ ~ConcatStarts)
  <2>1. pc' \notin {"concat", "concatenating"}
    BY <1>4 DEF Kill, Process, PrepareFiles, CreateStream, NoStream, EndStream, Probe,
                RemuxStarts, RemuxEnds, ConcatEnds, DeleteIntermediates,
                AfterProbe, AfterRemux
  <2> QED
    BY <2>1
<1> QED
  BY <1>1, <1>2, <1>3, <1>4 DEF Next

LEMMA WholeNext == Typed /\ Chosen /\ Whole /\ Next => Whole'
<1> SUFFICES ASSUME Typed, Chosen, Whole, Next, complete'
             PROVE  /\ params'.concat
                    /\ pc' \in {"idle", "delete"} =>
                          /\ combined'.exists => combined'.readable
                          /\ \A p \in SafeParts' : InCombined(p)' \/ InMp4(p)'
  BY DEF Whole
<1>0. params' = params
  BY SafeNext
<1>1. CASE ConcatEnds
  <2>1. SafeParts' = SafeParts /\ pc = "concatenating"
    BY <1>1, SafeNext DEF ConcatEnds
  <2>2. params.concat /\ ~complete
    BY <2>1 DEF Typed, Place, Step
  <2>3. /\ combined'.readable
        /\ \A n \in ToSet(inputs) : \A p \in ToSet(Source(n).parts) :
              p \in ToSet(combined'.parts)
    BY <1>1, <2>2, CopiedIs DEF Typed
  <2>4. \A p \in SafeParts : InCombined(p)'
    BY <2>1, <2>3 DEF Chosen, InCombined
  <2> QED
    BY <1>0, <2>1, <2>2, <2>3, <2>4
<1>2. CASE ~ConcatEnds
  <2>1. complete
    BY <1>2 DEF Next, Process, Clean, Kill, PrepareFiles, CreateStream, NoStream,
                EndStream, Probe, RemuxStarts, RemuxEnds, SelectInputs, ConcatStarts,
                DeleteIntermediates, Scan, CleanDelete, CleanRename, Age, history
  <2>2. /\ params.concat
        /\ pc \in {"idle", "delete"} =>
              /\ combined.exists => combined.readable
              /\ \A p \in SafeParts : InCombined(p) \/ InMp4(p)
    BY <2>1 DEF Whole
  <2>3. CASE Process
    <3>1. pc' \in {"idle", "delete"} => DeleteIntermediates
      BY <1>2, <2>2, <2>3
         DEF Process, PrepareFiles, CreateStream, NoStream, EndStream, Probe, 
             RemuxStarts, RemuxEnds, SelectInputs, ConcatStarts, AfterProbe, AfterRemux
    <3>2. DeleteIntermediates =>
            SafeParts' = SafeParts /\ UNCHANGED <<mp4, combined>> /\ pc = "delete"
      BY SafeNext DEF DeleteIntermediates, history
    <3> QED
      BY <1>0, <2>2, <3>1, <3>2, SameFiles
  <2>4. CASE Age \/ Clean
    <3>1. pc = "idle" /\ SafeParts' = SafeParts
      BY <2>4, SafeNext DEF Age, Clean, Scan, CleanDelete, CleanRename, history,
                            Typed, Place, Apart
    <3>2. \/ UNCHANGED <<mp4, combined>>
          \/ ~mp4.exists /\ mp4' = combined /\ combined' = NoFile
          \/ combined' = combined /\ mp4' = mp4
      BY <2>2, <2>4, <3>1 DEF Age, Clean, Scan, Scanned, CleanDelete, CleanRename
    <3>3. ~mp4.exists => \A p : ~InMp4(p)
      BY FilesAre DEF Typed, TypeOK, InMp4
    <3>4. \A p : InCombined(p) \/ InMp4(p) => InCombined(p)' \/ InMp4(p)'
      BY <3>2, <3>3, SameFiles DEF InMp4, InCombined
    <3> QED
      BY <1>0, <2>2, <3>1, <3>2, <3>4, NoFileIs
  <2>5. CASE Kill
    BY <2>5 DEF Kill
  <2> QED
    BY <2>3, <2>4, <2>5 DEF Next
<1> QED
  BY <1>1, <1>2

-----------------------------------------------------------------------------
(* The order of the parts.                                                 *)

\* The parts of InOrder: the names are not ordered as numbers, or the files are
\* not the parts.
Reordered == params.inDirectory \/ params.remux

NoGap ==
    ~old => \A m, n \in Slots : m < n /\ ts[n].exists =>
        /\ ts[m].exists
        /\ ts[m].readable /\ ts[n].readable => ts[m].parts[1] < ts[n].parts[1]

LastName ==
    /\ pc = "record" => \A n \in Slots : ts[n].exists <=> n < slot
    /\ pc \in {"record", "recording"} =>
          \A n \in Slots : ts[n].readable => ts[n].parts[1] < part
    /\ pc \in {"recording", "probe"} => \A n \in Slots : ts[n].exists => n <= slot

InputsInOrder ==
    pc \in {"concat", "concatenating"} =>
        /\ \A i, j \in DOMAIN inputs : i < j => inputs[i] < inputs[j]
        /\ \A n \in ToSet(inputs) : ts[n].readable

LEMMA InOrderIs ==
    InOrder <=> (~Reordered => /\ NoGap /\ LastName /\ InputsInOrder
                           /\ Increasing(combined.parts))
  BY DEF InOrder, Reordered, NoGap, LastName, InputsInOrder, CombinedInOrder, Increasing

LEMMA ReorderedNext == Typed /\ Next => Reordered' = Reordered
  BY SafeNext DEF Reordered

LEMMA NoGapNext == Typed /\ ~Reordered /\ NoGap /\ LastName /\ Next => NoGap'
<1> DEFINE Less(m, n) == /\ ts[m].exists
                         /\ ts[m].readable /\ ts[n].readable =>
                               ts[m].parts[1] < ts[n].parts[1]
<1> SUFFICES ASSUME Typed, ~Reordered, NoGap, LastName, Next, ~old',
                    NEW m \in Slots, NEW n \in Slots, m < n, ts'[n].exists
             PROVE  Less(m, n)'
  BY DEF NoGap
<1>0. m \in Nat /\ n \in Nat /\ m # n
  BY SlotsAre
<1>1. ~old
  BY NotOld DEF Next, Process, Clean, Kill, PrepareFiles, CreateStream, NoStream,
         EndStream, Probe, RemuxStarts, RemuxEnds, SelectInputs, ConcatStarts, ConcatEnds,
         DeleteIntermediates, Scan, CleanDelete, CleanRename, Age
<1>2. ts[n].exists => Less(m, n)
  BY <1>1 DEF NoGap
<1>3. CASE UNCHANGED ts
  BY <1>2, <1>3
<1>4. CASE CreateStream
  <2>1. /\ pc = "record" /\ ts' = [ts EXCEPT ![slot] = File(<< >>, FALSE)]
        /\ slot \in Nat /\ File(<< >>, FALSE) \in Recorded
    BY <1>4, InSession, SlotsAre DEF CreateStream, Recorded
  <2>2. /\ \A k \in Slots : k # slot => ts'[k] = ts[k]
        /\ ~ts'[slot].readable
    BY <2>1, Written, EmptyFile
  <2>3. \A k \in Slots : ts[k].exists <=> k < slot
    BY <2>1 DEF LastName
  <2>4. n = slot \/ n < slot
    BY <2>2, <2>3
  <2>5. m < slot /\ m # slot
    BY <1>0, <2>1, <2>4
  <2>6. ts'[m] = ts[m] /\ ts[m].exists
    BY <2>2, <2>3, <2>5
  <2>7. CASE n = slot
    BY <2>2, <2>6, <2>7
  <2>8. CASE n # slot
    BY <1>2, <2>2, <2>4, <2>6, <2>3, <2>8
  <2> QED
    BY <2>7, <2>8
<1>5. CASE Probe
  <2>1. pc = "probe" /\ (ts' = [ts EXCEPT ![slot] = NoFile] \/ ts' = ts) /\ slot \in Nat
    BY <1>5, InSession, SlotsAre DEF Probe
  <2>2. /\ ts[n].exists /\ ts'[n] = ts[n]
        /\ \A k \in Slots : k # slot => ts'[k] = ts[k]
    BY <2>1, Deleted, InSession
  <2>3. n <= slot
    BY <2>1, <2>2 DEF LastName
  <2>4. m # slot
    BY <1>0, <2>1, <2>3
  <2> QED
    BY <1>2, <2>2, <2>4
<1>6. CASE ts' # ts /\ (EndStream \/ Kill)
  <2>1. pc = "recording" /\ \E f \in Recorded : ts' = [ts EXCEPT ![slot] = f]
    <3>1. CASE EndStream
      BY <3>1 DEF EndStream
    <3>2. CASE Kill
      BY <1>6, <3>2, KillIs
    <3> QED
      BY <1>6, <3>1, <3>2
  <2>2. /\ \A k \in Slots : k # slot => ts'[k] = ts[k]
        /\ ts'[slot].readable => ts'[slot].parts[1] = part
        /\ ts[slot].exists
    BY <2>1, Written, InSession, EmptyFile DEF Typed, Place, Step
  <2>3. ts[n].exists
    BY <2>2
  <2>4. n <= slot /\ slot \in Nat
    BY <2>1, <2>3, InSession, SlotsAre DEF LastName
  <2>5. ts'[m] = ts[m] /\ ts[m].exists
    BY <1>0, <1>2, <2>2, <2>3, <2>4
  <2>6. ts[m].readable => ts[m].parts[1] < part
    BY <2>1 DEF LastName
  <2>7. CASE n = slot
    BY <2>2, <2>5, <2>6, <2>7
  <2>8. CASE n # slot
    BY <1>2, <2>2, <2>3, <2>5, <2>8
  <2> QED
    BY <2>7, <2>8
<1>7. CASE DeleteIntermediates
  BY <1>3, <1>7 DEF DeleteIntermediates, Reordered
<1>8. CASE CleanDelete
  BY <1>1, <1>8 DEF CleanDelete, Typed, Place, Apart
<1> QED
  BY <1>3, <1>4, <1>5, <1>6, <1>7, <1>8
     DEF Next, Process, Clean, PrepareFiles, NoStream, RemuxStarts, RemuxEnds, SelectInputs,
         ConcatStarts, ConcatEnds, Scan, CleanRename, Age

LEMMA LastNameNext == Typed /\ NoGap /\ LastName /\ Next => LastName'
<1> SUFFICES ASSUME Typed, NoGap, LastName, Next PROVE LastName'
  OBVIOUS
<1>1. CASE PrepareFiles
  <2>1. /\ slot' \in Slots /\ ~ts[slot'].exists
        /\ \A n \in Slots : n < slot' => ts[n].exists
    BY <1>1, FreeSlot
  <2>2. \A n \in Slots : ts[n].exists => n < slot'
    <3>1. ~old
      BY <1>1 DEF PrepareFiles
    <3>2. \A n \in Slots : slot' < n => ~ts[n].exists
      BY <2>1, <3>1 DEF NoGap
    <3> QED
      BY <2>1, <3>2, SlotsAre
  <2>3. \A n \in Slots : ts[n].readable => ts[n].parts[1] < part + 1
    <3> SUFFICES ASSUME NEW n \in Slots, ts[n].readable PROVE ts[n].parts[1] < part + 1
      OBVIOUS
    <3>1. part \in Nat
      BY Bounds DEF Typed, TypeOK
    <3>2. PICK p \in 1 .. part : ts[n].parts = <<p>>
      BY FilesAre DEF Typed, TypeOK, Place, Numbers, OnePart
    <3> QED
      BY <3>1, <3>2
  <2>4. UNCHANGED ts /\ part' = part + 1 /\ pc' = "record"
    BY <1>1 DEF PrepareFiles
  <2> QED
    BY <2>1, <2>2, <2>3, <2>4 DEF LastName
<1>2. CASE CreateStream \/ EndStream
  <2>1. /\ pc \in {"record", "recording"}
        /\ UNCHANGED <<slot, part>>
        /\ \E f \in Recorded : ts' = [ts EXCEPT ![slot] = f]
    BY <1>2 DEF CreateStream, EndStream, Recorded
  <2>2. \A k \in Slots : k # slot => ts'[k] = ts[k]
    BY <2>1, Written
  <2>3. \A n \in Slots : ts[n].exists => n < slot \/ n <= slot
    BY <2>1 DEF LastName
  <2>4. \A n \in Slots : ts'[n].exists => n <= slot
    BY <2>1, <2>2, <2>3, InSession, SlotsAre
  <2>5. CreateStream => ~ts'[slot].readable /\ pc' = "recording"
    <3>1. CreateStream => /\ ts' = [ts EXCEPT ![slot] = File(<< >>, FALSE)]
                          /\ pc' = "recording" /\ File(<< >>, FALSE) \in Recorded
      BY DEF CreateStream, Recorded
    <3> QED
      BY <2>1, <3>1, Written, EmptyFile
  <2>6. EndStream => pc' = "probe"
    BY DEF EndStream
  <2>7. CreateStream => \A n \in Slots : ts'[n].readable => ts'[n].parts[1] < part
    BY <2>1, <2>2, <2>5 DEF LastName
  <2> QED
    BY <1>2, <2>1, <2>4, <2>5, <2>6, <2>7 DEF LastName
<1>3. CASE NoStream
  <2>1. pc = "record" /\ pc' = "probe" /\ UNCHANGED <<slot, ts>>
    BY <1>3 DEF NoStream
  <2> QED
    BY <2>1, InSession, SlotsAre DEF LastName
<1>4. CASE ~(PrepareFiles \/ CreateStream \/ EndStream \/ NoStream)
  <2>1. pc' \notin {"record", "recording", "probe"}
    BY <1>4 DEF Next, Process, Clean, Probe, RemuxStarts, RemuxEnds, SelectInputs,
           ConcatStarts, ConcatEnds, DeleteIntermediates, Scan, CleanDelete, CleanRename,
           Age, Kill, AfterProbe, AfterRemux, Typed, Place, Apart
  <2> QED
    BY <2>1 DEF LastName
<1> QED
  BY <1>1, <1>2, <1>3, <1>4

LEMMA InputsInOrderNext == Typed /\ ~Reordered /\ InputsInOrder /\ Next => InputsInOrder'
<1> SUFFICES ASSUME Typed, ~Reordered, InputsInOrder, Next PROVE InputsInOrder'
  OBVIOUS
<1>1. CASE SelectInputs
  <2>1. ASSUME NEW i \in DOMAIN inputs', NEW j \in DOMAIN inputs', i < j
        PROVE  inputs'[i] < inputs'[j]
    <3>1. i # j
      BY <2>1, SelectedAre, <1>1 DEF Typed
    <3>2. /\ inputs'[i] \in Slots /\ inputs'[j] \in Slots /\ inputs'[i] # inputs'[j]
          /\ ~(inputs'[j] < inputs'[i])
      BY <1>1, <2>1, <3>1, SelectedAre DEF Typed, Before, Reordered
    <3> QED
      BY <3>2, SlotsAre
  <2>2. \A n \in ToSet(inputs') : ts[n].readable
    <3>1. ~old /\ mp4 = NoFile
      BY <1>1, NotOld DEF SelectInputs, Reordered, Typed, Place, Apart
    <3>2. \A n \in Slots : Source(n).readable => ts[n].readable
      BY <3>1, NoFileIs DEF Source
    <3> QED
      BY <1>1, <3>2, SelectedAre DEF Typed
  <2>3. UNCHANGED ts
    BY <1>1 DEF SelectInputs
  <2> QED
    BY <2>1, <2>2, <2>3 DEF InputsInOrder
<1>2. CASE ConcatStarts
  BY <1>2 DEF ConcatStarts, InputsInOrder
<1>3. CASE ~SelectInputs /\ ~ConcatStarts
  <2>1. pc' \notin {"concat", "concatenating"}
    BY <1>3 DEF Next, Process, Clean, PrepareFiles, CreateStream, NoStream, EndStream,
           Probe, RemuxStarts, RemuxEnds, ConcatEnds, DeleteIntermediates, Scan,
           CleanDelete, CleanRename, Age, Kill, AfterProbe, AfterRemux,
           Typed, Place, Apart
  <2> QED
    BY <2>1 DEF InputsInOrder
<1> QED
  BY <1>1, <1>2, <1>3

LEMMA CombinedNext ==
    Typed /\ ~Reordered /\ NoGap /\ InputsInOrder /\ Increasing(combined.parts) /\ Next =>
        Increasing(combined'.parts)
<1> SUFFICES ASSUME Typed, ~Reordered, NoGap, InputsInOrder, Increasing(combined.parts),
                    Next, combined' # combined
             PROVE  Increasing(combined'.parts)
  OBVIOUS
<1>0. Increasing(<< >>)
  BY DEF Increasing
<1>1. CASE ConcatEnds
  <2>1. pc = "concatenating" /\ ~old
    BY <1>1, NotOld DEF ConcatEnds
  <2>2. \A i \in DOMAIN inputs : inputs[i] \in Slots /\ inputs[i] \in ToSet(inputs)
    BY ElementOfSeq DEF Typed, TypeOK, ToSet
  <2>3. \A i \in DOMAIN inputs :
           /\ ts[inputs[i]].readable
           /\ Source(inputs[i]) = ts[inputs[i]]
    BY <2>1, <2>2, SourceIs DEF InputsInOrder, Typed, Place, Numbers
  <2>4. \A i \in DOMAIN inputs : \E p \in Nat : ts[inputs[i]].parts = <<p>>
    <3> SUFFICES ASSUME NEW i \in DOMAIN inputs
                 PROVE  \E p \in Nat : ts[inputs[i]].parts = <<p>>
      OBVIOUS
    <3>1. PICK p \in 1 .. part : ts[inputs[i]].parts = <<p>>
      BY <2>2, <2>3, FilesAre DEF Typed, TypeOK, Place, Numbers, OnePart
    <3> QED
      BY <3>1
  <2>5. ASSUME NEW i \in DOMAIN inputs, NEW j \in DOMAIN inputs, i < j,
               NEW x \in ToSet(Source(inputs[i]).parts),
               NEW y \in ToSet(Source(inputs[j]).parts)
        PROVE  x < y
    <3>1. PICK p \in Nat : ts[inputs[i]].parts = <<p>>
      BY <2>4
    <3>2. PICK q \in Nat : ts[inputs[j]].parts = <<q>>
      BY <2>4
    <3>3. x = p /\ y = q
      BY <2>3, <2>5, <3>1, <3>2 DEF ToSet
    <3>4. inputs[i] < inputs[j]
      BY <2>1, <2>5 DEF InputsInOrder
    <3>5. ts[inputs[i]].parts[1] < ts[inputs[j]].parts[1]
      BY <2>1, <2>2, <2>3, <3>4, FilesAre DEF NoGap, Typed, TypeOK
    <3> QED
      BY <3>1, <3>2, <3>3, <3>5
  <2>6. ASSUME NEW i \in DOMAIN inputs PROVE Increasing(Source(inputs[i]).parts)
    <3>1. PICK p \in Nat : ts[inputs[i]].parts = <<p>>
      BY <2>4
    <3> QED
      BY <2>3, <3>1 DEF Increasing
  <2> QED
    BY <1>1, <2>5, <2>6, CopiedIs DEF Typed
<1>2. CASE ~ConcatEnds
  <2>1. combined' = File(<< >>, FALSE) \/ combined' = NoFile
    BY <1>2 DEF Next, Process, Clean, PrepareFiles, CreateStream, NoStream, EndStream,
           Probe, RemuxStarts, RemuxEnds, SelectInputs, ConcatStarts, DeleteIntermediates,
           Scan, Scanned, CleanDelete, CleanRename, Age, Kill
  <2> QED
    BY <1>0, <2>1, NoFileIs, EmptyFile
<1> QED
  BY <1>1, <1>2

LEMMA InOrderNext == Typed /\ InOrder /\ Next => InOrder'
<1>1. InOrder' <=> (~Reordered' => /\ NoGap' /\ LastName' /\ InputsInOrder'
                               /\ Increasing(combined'.parts))
  BY InOrderIs DEF InOrder, Reordered, NoGap, LastName, InputsInOrder, CombinedInOrder,
                   Increasing
<1> QED
  BY <1>1, InOrderIs, ReorderedNext, NoGapNext, LastNameNext, InputsInOrderNext,
     CombinedNext

-----------------------------------------------------------------------------
(* The theorems.                                                           *)

LEMMA Initial == Init => IInv
<1> SUFFICES ASSUME Init PROVE IInv
  OBVIOUS
<1>1. TypeOK
  <2>1. /\ inputs \in Seq(Slots)
        /\ kept \cup short \cup deleted \subseteq Parts /\ queue \subseteq Slots
    BY DEF Init
  <2>2. /\ part \in 0 .. MaxParts /\ slot \in Slots /\ kills \in 0 .. MaxKills
        /\ ts \in [Slots -> Files] /\ {mp4, combined} \subseteq Files
    BY NoFileIs, Bounds, SlotsAre DEF Init
  <2> QED
    BY <2>1, <2>2 DEF Init, TypeOK
<1>2. \A n \in Slots : ts[n] = NoFile
  BY DEF Init
<1>3. Place
  BY <1>2, NoFileIs DEF Init, Place, Numbers, Step, Apart
<1>4. SafeParts = {}
  BY DEF Init, SafeParts
<1>5. Held /\ Covers /\ Chosen /\ Whole
  BY <1>4, NoFileIs DEF Init, Held, Covers, Chosen, Whole
<1>6. NoGap /\ LastName /\ InputsInOrder
  BY <1>2, NoFileIs DEF Init, NoGap, LastName, InputsInOrder
<1>7. Increasing(combined.parts)
  BY NoFileIs DEF Init, Increasing
<1> QED
  BY <1>1, <1>3, <1>5, <1>6, <1>7, InOrderIs DEF IInv

LEMMA Preserved == IInv /\ [Next]_vars => IInv'
<1> SUFFICES ASSUME IInv, [Next]_vars PROVE IInv'
  OBVIOUS
<1>1. TypeOK' /\ Place'
  BY TypedNext DEF IInv, Typed
<1>2. CASE Next
  <2>1. Typed /\ Held /\ Covers /\ Chosen /\ Whole /\ InOrder
    BY DEF IInv, Typed
  <2> QED
    BY <1>1, <1>2, <2>1, HeldNext, CoversNext, ChosenNext, WholeNext, InOrderNext
       DEF IInv
<1>3. CASE UNCHANGED vars
  <2>1. SafeParts' = SafeParts /\ NamesReused' = NamesReused
    BY <1>3 DEF vars, SafeParts, NamesReused
  <2>2. \A n : Source(n)' = Source(n)
    BY <1>3 DEF vars, Source
  <2>3. Held'
    BY <1>3, <2>1, SameFiles DEF IInv, vars, Held, Elsewhere
  <2>6. Covers' /\ Whole'
    BY <1>3, <2>1, SameFiles DEF IInv, vars, Covers, Whole
  <2>4. Chosen'
    BY <1>3, <2>1, <2>2, SameFiles DEF IInv, vars, Chosen
  <2>5. InOrder'
    BY <1>3 DEF IInv, vars, InOrder, CombinedInOrder
  <2> QED
    BY <1>1, <2>3, <2>4, <2>5, <2>6 DEF IInv
<1> QED
  BY <1>2, <1>3

(***************************************************************************)
(* The invariant of the files, for any number of sessions and of kills,    *)
(* wherever the process is killed.                                         *)
(***************************************************************************)
THEOREM Invariance == Spec => []IInv
  BY Initial, Preserved, PTL DEF Spec

\* The type of the state of Process and Clean; a session takes a free name.
THEOREM TypeCorrect == Spec => []TypeOK
<1>1. IInv => TypeOK
  BY DEF IInv
<1> QED
  BY <1>1, Invariance, PTL

(***************************************************************************)
(* What was recorded is on the disk, in a file that can be read: neither a *)
(* failure of Process, nor a kill, nor Clean removes the last file that    *)
(* has it, except for a part that name.mp4 or the concatenation had lost   *)
(* without anybody being told, or by a kill, and only when its .ts is      *)
(* deleted.                                                                *)
(***************************************************************************)
THEOREM NothingLost == Spec => []NotLost
<1>1. IInv => NotLost
  <2> SUFFICES ASSUME Held, NEW p \in SafeParts, p \notin deleted \cap short
               PROVE  p \in OnDisk
    BY DEF IInv, NotLost
  <2>1. InTs(p) \/ InMp4(p) \/ InCombined(p)
    BY DEF Held, Elsewhere
  <2>2. PICK f \in {ts[n] : n \in Slots} \cup {mp4, combined} :
           f.readable /\ p \in ToSet(f.parts)
    <3>1. p \in ToSet(<<p>>)
      BY DEF ToSet
    <3> QED
      BY <2>1, <3>1 DEF InTs, InMp4, InCombined
  <2> QED
    BY <2>2 DEF OnDisk, Readable
<1> QED
  BY <1>1, Invariance, PTL

(***************************************************************************)
(* A concatenation that had no error has every part that is safe: those of *)
(* the sessions before it also, killed or not.                             *)
(***************************************************************************)
THEOREM CombinedHasAll == Spec => []CombinedComplete
<1>1. IInv => CombinedComplete
  BY DEF IInv, Whole, CombinedComplete, InCombined, InMp4
<1> QED
  BY <1>1, Invariance, PTL

(***************************************************************************)
(* A concatenation has each part once and in the order of the sessions,    *)
(* for names without a directory and without a remux: with more than ten   *)
(* sessions too, where the order of the numbers as strings is another.     *)
(***************************************************************************)
THEOREM CombinedIsOrdered == Spec => []CombinedInOrder
<1>1. IInv => CombinedInOrder
  BY DEF IInv, InOrder, CombinedInOrder
<1> QED
  BY <1>1, Invariance, PTL
=====
