---------------------------- MODULE Lines_proofs ----------------------------
(***************************************************************************)
(* Proofs about module Lines: no line is in two places, lost, or in use    *)
(* without an address (OnePlace), and none is used again while an error    *)
(* record or a window refers to it, but for the two cases NoStaleLine      *)
(* names.                                                                  *)
(***************************************************************************)
EXTENDS Lines, Loops, SequenceTheorems, FiniteSetTheorems

USE LinesAssumption

-----------------------------------------------------------------------------
(* The inductive invariant                                                 *)

\* What a routine works on.
Kills == 0 .. NUMKILLS - 1
Marks == 0 .. NMARKS - 1
ErrRec == [mess : Int, text : Int, buf : Int, stale : BOOLEAN, fooled : BOOLEAN]
Wind == [buf : Buffers \cup {NULL}, line : Line \cup {NULL}, gone : BOOLEAN, stale : BOOLEAN, cleared : BOOLEAN]
Rec == [dline : [Line -> {"null", "used", "dirty"}], avail : Seq(Line), free : Seq(Line),
        chunks : Seq(SUBSET Line), world : SUBSET Buffers, text : [Buffers -> Seq(Line)],
        dot : [Buffers -> Int], cur : Buffers, kill : [Kills -> Seq(Line)], kptr : Kills,
        ring : [Buffers -> [Marks -> Line \cup {NULL}]], tm : [Buffers -> Marks],
        errs : Seq(ErrRec), err : Int, perr : Buffers \cup {NULL}, other : Wind,
        leaked : SUBSET Line, got : Line \cup {NULL, Done}, kept : Seq(Line), copy : Seq(Line)]

\* Where lines are in the middle of a routine.
Avail == <<"available", 0>>
Free == <<"free", 0>>
Text(b) == <<"text", b>>
Killed(k) == <<"kill", k>>
Kept == <<"kept", 0>>
Copied == <<"copy", 0>>
Place == Holder \cup {Kept, Copied}
Pool == {Avail, Free}
Contents(s) ==
  [h \in Place |-> CASE h[1] = "available" -> s.avail [] h[1] = "free" -> s.free
                     [] h[1] = "text" -> s.text[h[2]] [] h[1] = "kill" -> s.kill[h[2]]
                     [] h[1] = "kept" -> s.kept [] OTHER -> s.copy]
Lying(C, D) == UNION {ToSet(C[h]) : h \in D}
Once(q) == \A i, j \in DOMAIN q : q[i] = q[j] => i = j

\* C: place -> its lines; dl: their addresses; ck: the chunks; lk: leaked lines;
\* X: lines a routine has in hand.
Apart(C, D) ==
  /\ \A h \in D : Once(C[h])
  /\ \A g, h \in D : g # h => ToSet(C[g]) \cap ToSet(C[h]) = {}
Disjoint(A, B, D) == A \cap B = {} /\ A \cap D = {} /\ B \cap D = {}
Addressed(C, dl, lk, X, D) ==
  /\ \A h \in D \cap Pool : \A l \in ToSet(C[h]) : dl[l] # "used"
  /\ \A h \in D \ Pool : \A l \in ToSet(C[h]) : dl[l] = "used"
  /\ \A l \in lk \cup X : dl[l] = "used"
Whole(C, dl, ck, lk, X) ==
  /\ C \in [Place -> Seq(Line)]
  /\ Apart(C, Place)
  /\ Lying(C, Place) \cup lk \cup X = UNION ck
  /\ Disjoint(Lying(C, Place), lk, X)
  /\ ck \subseteq SUBSET Line
  /\ \A c, d \in ck : c # d => c \cap d = {}
  /\ Addressed(C, dl, lk, X, Place)

\* The point of a buffer and its marks are on its lines; a buffer that was not
\* given a line (complain) keeps its marks until it is given one.
Refs(s) ==
  /\ \A b \in Buffers : (s.text[b] # <<>>) => s.dot[b] \in 1 .. Len(s.text[b])
  /\ \A b \in Buffers : (s.text[b] # <<>> \/ b \notin s.world) =>
       \A i \in Marks : s.ring[b][i] \in ToSet(s.text[b]) \cup {NULL}
  /\ \A b \in Buffers \ s.world : s.text[b] = <<>>

\* The line of the window is one of its buffer, or it will be looked for.
Shows(o, text_) == o.line = NULL \/ (o.buf \in Buffers /\ o.line \in ToSet(text_[o.buf]))
Looks(s) ==
  /\ Shows(s.other, s.text) \/ s.other.gone \/ s.other.cleared
  /\ (s.other.gone => s.other.buf \in Buffers)
  /\ (s.other.stale => s.other.gone \/ s.other.cleared)
  /\ \A i \in DOMAIN s.errs : s.errs[i].stale => s.errs[i].fooled

Sound(s, X) ==
  /\ s \in Rec
  /\ Whole(Contents(s), s.dline, ToSet(s.chunks), s.leaked, X)
  /\ Refs(s)
  /\ Looks(s)

\* What a routine leaves.
Left(s) == Sound(s, {}) /\ s.kept = <<>> /\ s.copy = <<>>

\* The kill that more may be added to, or that was yanked, is there.
IInv == Sound(State, {}) /\ (last_cmd \in {"yank", "kill"} => killbuf[killptr] # <<>>)
-----------------------------------------------------------------------------
(* Places                                                                  *)

Distinct(g, h) == g # h
\* Each place is one of these, and they differ.
PlacesAre ==
  /\ Avail \in Place /\ Free \in Place /\ Kept \in Place /\ Copied \in Place
  /\ \A b \in Buffers : Text(b) \in Place
  /\ \A k \in Kills : Killed(k) \in Place
  /\ \A h \in Place : \/ h \in {Avail, Free, Kept, Copied}
                      \/ \E b \in Buffers : h = Text(b)
                      \/ \E k \in Kills : h = Killed(k)
PlacesDiffer ==
  /\ Distinct(Avail, Free) /\ Distinct(Avail, Kept) /\ Distinct(Avail, Copied)
  /\ Distinct(Free, Kept) /\ Distinct(Free, Copied) /\ Distinct(Kept, Copied)
  /\ \A b \in Buffers : \A h \in {Avail, Free, Kept, Copied} : Distinct(Text(b), h)
  /\ \A k \in Kills : \A h \in {Avail, Free, Kept, Copied} : Distinct(Killed(k), h)
  /\ \A b \in Buffers, k \in Kills : Distinct(Text(b), Killed(k))
  /\ \A b, c \in Buffers : Text(b) = Text(c) => b = c
  /\ \A j, k \in Kills : Killed(j) = Killed(k) => j = k

(* The places of lines.                                                    *)
LEMMA PlaceFacts == PlacesAre /\ PlacesDiffer
<1>1. PlacesAre
  <2>1. Avail \in Place /\ Free \in Place /\ Kept \in Place /\ Copied \in Place
    BY DEF Place, Holder, Avail, Free, Kept, Copied
  <2>2. \A b \in Buffers : Text(b) \in Place
    BY DEF Place, Holder, Text
  <2>3. \A k \in Kills : Killed(k) \in Place
    BY DEF Place, Holder, Killed, Kills
  <2>4. ASSUME NEW h \in Place
        PROVE  \/ h \in {Avail, Free, Kept, Copied}
               \/ \E b \in Buffers : h = Text(b)
               \/ \E k \in Kills : h = Killed(k)
    <3>1. CASE h \in {"available", "free"} \X {0}
      BY <3>1 DEF Avail, Free
    <3>2. CASE h \in {"text"} \X Buffers
      <4>1. h = Text(h[2]) /\ h[2] \in Buffers
        BY <3>2 DEF Text
      <4> QED BY <4>1
    <3>3. CASE h \in {"kill"} \X Kills
      <4>1. h = Killed(h[2]) /\ h[2] \in Kills
        BY <3>3 DEF Killed
      <4> QED BY <4>1
    <3> QED BY <3>1, <3>2, <3>3 DEF Place, Holder, Kills
  <2> QED BY <2>1, <2>2, <2>3, <2>4 DEF PlacesAre
<1>2. PlacesDiffer
  BY DEF PlacesDiffer, Distinct, Avail, Free, Kept, Copied, Text, Killed, Kills
<1> QED BY <1>1, <1>2

\* What the places hold.
Reads(s, C) ==
  /\ C \in [Place -> Seq(Line)]
  /\ C[Avail] = s.avail /\ C[Free] = s.free /\ C[Kept] = s.kept /\ C[Copied] = s.copy
  /\ \A b \in Buffers : C[Text(b)] = s.text[b]
  /\ \A k \in Kills : C[Killed(k)] = s.kill[k]

(* What the places of a record hold.                                       *)
LEMMA ContentsReads ==
  ASSUME NEW s \in Rec
  PROVE  Reads(s, Contents(s))
<1>1. s.avail \in Seq(Line) /\ s.free \in Seq(Line) /\ s.kept \in Seq(Line) /\ s.copy \in Seq(Line)
      /\ s.text \in [Buffers -> Seq(Line)] /\ s.kill \in [Kills -> Seq(Line)]
  BY DEF Rec
<1>2. Contents(s)[Avail] = s.avail /\ Contents(s)[Free] = s.free /\ Contents(s)[Kept] = s.kept
      /\ Contents(s)[Copied] = s.copy
  BY PlaceFacts DEF PlacesAre, Contents, Avail, Free, Kept, Copied
<1>3. ASSUME NEW b \in Buffers PROVE Contents(s)[Text(b)] = s.text[b]
  BY PlaceFacts DEF PlacesAre, Contents, Text
<1>4. ASSUME NEW k \in Kills PROVE Contents(s)[Killed(k)] = s.kill[k]
  BY PlaceFacts DEF PlacesAre, Contents, Killed
<1>5. ASSUME NEW h \in Place PROVE Contents(s)[h] \in Seq(Line)
  <2>1. CASE h \in {Avail, Free, Kept, Copied}
    BY <2>1, <1>1, <1>2
  <2>2. CASE \E b \in Buffers : h = Text(b)
    BY <2>2, <1>1, <1>3
  <2>3. CASE \E k \in Kills : h = Killed(k)
    BY <2>3, <1>1, <1>4
  <2> QED BY <2>1, <2>2, <2>3, PlaceFacts DEF PlacesAre
<1>6. Contents(s) \in [Place -> Seq(Line)]
  BY <1>5 DEF Contents
<1> QED BY <1>2, <1>3, <1>4, <1>6 DEF Reads

-----------------------------------------------------------------------------
(* Lists                                                                   *)

(* A list of lines, whose places are numbered.                             *)
LEMMA ListFacts ==
  ASSUME NEW S, NEW q \in Seq(S)
  PROVE  /\ Len(q) \in Nat /\ DOMAIN q = 1 .. Len(q) /\ ToSet(q) \subseteq S
         /\ ToSet(q) = {q[i] : i \in 1 .. Len(q)}
         /\ (q = <<>> <=> ToSet(q) = {}) /\ (q = <<>> <=> Len(q) = 0)
<1>1. Len(q) \in Nat /\ DOMAIN q = 1 .. Len(q)
  OBVIOUS
<1>2. ToSet(q) = {q[i] : i \in 1 .. Len(q)}
  BY <1>1 DEF ToSet
<1>3. \A i \in 1 .. Len(q) : q[i] \in S
  OBVIOUS
<1>4. q = <<>> <=> Len(q) = 0
  BY <1>1, EmptySeq
<1>5. ToSet(q) = {} <=> Len(q) = 0
  <2>1. ASSUME Len(q) # 0 PROVE q[1] \in ToSet(q)
    <3>1. 1 \in 1 .. Len(q)
      BY <1>1, <2>1
    <3> QED BY <3>1, <1>2
  <2>2. ASSUME Len(q) = 0 PROVE ToSet(q) = {}
    <3>1. 1 .. Len(q) = {}
      BY <2>2
    <3> QED BY <3>1, <1>2
  <2> QED BY <2>1, <2>2
<1> QED BY <1>1, <1>2, <1>3, <1>4, <1>5

(* Lists of none and of one.                                               *)
LEMMA ShortLists ==
  /\ <<>> \in Seq(Line) /\ ToSet(<<>>) = {} /\ Once(<<>>) /\ Len(<<>>) = 0
  /\ \A l \in Line : <<l>> \in Seq(Line) /\ ToSet(<<l>>) = {l} /\ Once(<<l>>) /\ Len(<<l>>) = 1 /\ <<l>>[1] = l
BY DEF ToSet, Once

\* r is a and then c.
Joins(a, c, r) ==
  /\ Len(r) = Len(a) + Len(c) /\ ToSet(r) = ToSet(a) \cup ToSet(c)
  /\ Once(a) /\ Once(c) /\ ToSet(a) \cap ToSet(c) = {} => Once(r)

(* One list behind another.                                                *)
LEMMA JoinFacts ==
  ASSUME NEW S, NEW a \in Seq(S), NEW c \in Seq(S), NEW r, r = a \o c
  PROVE  r \in Seq(S) /\ Joins(a, c, r)
<1>1. /\ r \in Seq(S) /\ Len(r) = Len(a) + Len(c)
      /\ \A i \in 1 .. Len(a) + Len(c) : r[i] = IF i <= Len(a) THEN a[i] ELSE c[i - Len(a)]
  BY ConcatProperties
<1>2. PICK m, n : m = Len(a) /\ n = Len(c)
  OBVIOUS
<1>3. /\ m \in Nat /\ n \in Nat /\ DOMAIN a = 1 .. m /\ DOMAIN c = 1 .. n /\ DOMAIN r = 1 .. m + n
      /\ ToSet(a) = {a[i] : i \in 1 .. m} /\ ToSet(c) = {c[i] : i \in 1 .. n}
      /\ ToSet(r) = {r[i] : i \in 1 .. m + n}
  <2>1. m \in Nat /\ DOMAIN a = 1 .. m /\ ToSet(a) = {a[i] : i \in 1 .. m}
    BY <1>2, ListFacts
  <2>2. n \in Nat /\ DOMAIN c = 1 .. n /\ ToSet(c) = {c[i] : i \in 1 .. n}
    BY <1>2, ListFacts
  <2>3. DOMAIN r = 1 .. Len(r) /\ ToSet(r) = {r[i] : i \in 1 .. Len(r)}
    <3>1. r \in Seq(S)
      BY <1>1
    <3> QED BY ONLY <3>1, ListFacts
  <2> QED BY <2>1, <2>2, <2>3, <1>1, <1>2
<1>4. \A i \in 1 .. m : i \in 1 .. m + n /\ r[i] = a[i]
  BY ONLY <1>1, <1>2, <1>3
<1>5. \A i \in 1 .. n : m + i \in 1 .. m + n /\ r[m + i] = c[i]
  <2> TAKE i \in 1 .. n
  <2>1. m + i \in 1 .. m + n /\ ~ (m + i <= m) /\ (m + i) - m = i
    BY ONLY <1>3, i \in 1 .. n
  <2> QED BY <2>1, <1>1, <1>2
<1>6. \A i \in 1 .. m + n : \/ i \in 1 .. m
                            \/ i - m \in 1 .. n /\ r[i] = c[i - m] /\ ~ (i \in 1 .. m)
  <2> TAKE i \in 1 .. m + n
  <2>1. i \in 1 .. m \/ (i - m \in 1 .. n /\ ~ (i <= m) /\ ~ (i \in 1 .. m))
    BY ONLY <1>3, i \in 1 .. m + n
  <2> QED BY <2>1, <1>1, <1>2
<1>7. ToSet(r) = ToSet(a) \cup ToSet(c)
  <2>1. ToSet(a) \subseteq ToSet(r)
    BY <1>3, <1>4
  <2>2. ToSet(c) \subseteq ToSet(r)
    BY <1>3, <1>5
  <2>3. ASSUME NEW x \in ToSet(r) PROVE x \in ToSet(a) \cup ToSet(c)
    <3>1. PICK i \in 1 .. m + n : x = r[i]
      BY <1>3
    <3> QED BY <3>1, <1>3, <1>4, <1>6
  <2> QED BY <2>1, <2>2, <2>3
<1>8. ASSUME Once(a), Once(c), ToSet(a) \cap ToSet(c) = {} PROVE Once(r)
  <2>1. \A i \in 1 .. m, j \in 1 .. n : a[i] # c[j]
    BY <1>3, <1>8
  <2>2. ASSUME NEW i \in 1 .. m + n, NEW j \in 1 .. m + n, r[i] = r[j] PROVE i = j
    <3>1. CASE i \in 1 .. m /\ j \in 1 .. m
      BY <3>1, <2>2, <1>3, <1>4, <1>8 DEF Once
    <3>2. CASE ~ (i \in 1 .. m) /\ ~ (j \in 1 .. m)
      <4>1. i - m \in 1 .. n /\ j - m \in 1 .. n /\ c[i - m] = c[j - m]
        BY <3>2, <2>2, <1>6
      <4>2. i - m = j - m
        BY <4>1, <1>3, <1>8 DEF Once
      <4> QED BY ONLY <4>2, <1>3, i \in 1 .. m + n, j \in 1 .. m + n
    <3>3. CASE i \in 1 .. m /\ ~ (j \in 1 .. m)
      BY <3>3, <2>1, <2>2, <1>4, <1>6
    <3>4. CASE ~ (i \in 1 .. m) /\ j \in 1 .. m
      BY <3>4, <2>1, <2>2, <1>4, <1>6
    <3> QED BY <3>1, <3>2, <3>3, <3>4
  <2> QED BY <2>2, <1>3 DEF Once
<1> QED BY <1>1, <1>7, <1>8 DEF Joins

\* r is what q has from m to n.
Slices(q, m, n, r) ==
  /\ Len(r) = n - m + 1 /\ ToSet(r) = {q[i] : i \in m .. n} /\ (Once(q) => Once(r))
  /\ \A i \in 1 .. n - m + 1 : r[i] = q[m + i - 1]

IsSlice(S, q, m, n, r) ==
  q \in Seq(S) /\ m \in Int /\ n \in Int /\ 1 <= m /\ m <= n + 1 /\ n <= Len(q) /\ r = SubSeq(q, m, n)

(* A part of a list.                                                       *)
LEMMA SliceFacts ==
  ASSUME NEW S, NEW q, NEW m, NEW n, NEW r, IsSlice(S, q, m, n, r)
  PROVE  r \in Seq(S) /\ Slices(q, m, n, r)
<1> USE DEF IsSlice
<1>0. Len(q) \in Nat /\ DOMAIN q = 1 .. Len(q)
  BY ListFacts
<1>1. \A i \in m .. n : i \in 1 .. Len(q) /\ q[i] \in S
  BY <1>0
<1>2. r \in Seq(S) /\ Len(r) = n - m + 1 /\ \A i \in 1 .. n - m + 1 : r[i] = q[m + i - 1]
  <2>1. /\ r \in Seq(S) /\ Len(r) = IF m <= n THEN n - m + 1 ELSE 0
        /\ \A i \in 1 .. n - m + 1 : r[i] = q[m + i - 1]
    BY <1>1, SubSeqProperties
  <2>2. ~ (m <= n) => n - m + 1 = 0
    OBVIOUS
  <2> QED BY <2>1, <2>2
<1>3. ToSet(r) = {r[i] : i \in 1 .. n - m + 1} /\ DOMAIN r = 1 .. n - m + 1
  <2>1. DOMAIN r = 1 .. Len(r) /\ ToSet(r) = {r[i] : i \in 1 .. Len(r)}
    <3>1. r \in Seq(S)
      BY <1>2
    <3> QED BY ONLY <3>1, ListFacts
  <2> QED BY <2>1, <1>2
<1>4. \A i \in 1 .. n - m + 1 : m + i - 1 \in m .. n
  OBVIOUS
<1>5. \A i \in m .. n : i - m + 1 \in 1 .. n - m + 1 /\ r[i - m + 1] = q[i]
  <2> TAKE i \in m .. n
  <2>1. i - m + 1 \in 1 .. n - m + 1 /\ m + (i - m + 1) - 1 = i
    OBVIOUS
  <2> QED BY <2>1, <1>2
<1>6. ToSet(r) = {q[i] : i \in m .. n}
  <2>1. ASSUME NEW x \in ToSet(r) PROVE x \in {q[i] : i \in m .. n}
    <3>1. PICK i \in 1 .. n - m + 1 : x = r[i]
      BY <1>3
    <3>2. x = q[m + i - 1] /\ m + i - 1 \in m .. n
      BY <3>1, <1>2, <1>4
    <3> QED BY <3>2
  <2>2. ASSUME NEW x \in {q[i] : i \in m .. n} PROVE x \in ToSet(r)
    <3>1. PICK i \in m .. n : x = q[i]
      BY <2>2
    <3> QED BY <3>1, <1>3, <1>5
  <2> QED BY <2>1, <2>2
<1>7. ASSUME Once(q) PROVE Once(r)
  <2>1. ASSUME NEW i \in 1 .. n - m + 1, NEW j \in 1 .. n - m + 1, r[i] = r[j] PROVE i = j
    <3>1. m + i - 1 \in 1 .. Len(q) /\ m + j - 1 \in 1 .. Len(q)
      BY <1>1, <1>4
    <3>2. q[m + i - 1] = q[m + j - 1]
      BY <2>1, <1>2
    <3>3. m + i - 1 = m + j - 1
      BY <3>1, <3>2, <1>0, <1>7 DEF Once
    <3> QED BY <3>3
  <2> QED BY <2>1, <1>3 DEF Once
<1> QED BY <1>2, <1>6, <1>7 DEF Slices

\* q is a, then m, then z.
Parts(q, a, m, z) ==
  /\ ToSet(q) = ToSet(a) \cup ToSet(m) \cup ToSet(z)
  /\ Once(q) => /\ Once(a) /\ Once(m) /\ Once(z)
                /\ Disjoint(ToSet(a), ToSet(m), ToSet(z))

ArePartsOf(S, q, i, j, a, m, z) ==
  /\ q \in Seq(S) /\ i \in Int /\ j \in Int /\ 0 <= i /\ i <= j /\ j <= Len(q)
  /\ a = SubSeq(q, 1, i) /\ m = SubSeq(q, i + 1, j) /\ z = SubSeq(q, j + 1, Len(q))

(* A list cut in three.                                                    *)
LEMMA PartFacts ==
  ASSUME NEW S, NEW q, NEW i, NEW j, NEW a, NEW m, NEW z, ArePartsOf(S, q, i, j, a, m, z)
  PROVE  /\ a \in Seq(S) /\ m \in Seq(S) /\ z \in Seq(S) /\ Parts(q, a, m, z)
         /\ Len(a) = i /\ Len(m) = j - i /\ Len(z) = Len(q) - j
         /\ \A k \in 1 .. i : q[k] \in ToSet(a)
<1> USE DEF ArePartsOf
<1>0. Len(q) \in Nat /\ DOMAIN q = 1 .. Len(q) /\ ToSet(q) = {q[k] : k \in 1 .. Len(q)}
  BY ListFacts
<1>1. a \in Seq(S) /\ Slices(q, 1, i, a)
  <2>1. IsSlice(S, q, 1, i, a)
    BY <1>0 DEF IsSlice
  <2> QED BY <2>1, SliceFacts
<1>2. m \in Seq(S) /\ Slices(q, i + 1, j, m)
  <2>1. IsSlice(S, q, i + 1, j, m)
    BY <1>0 DEF IsSlice
  <2> QED BY <2>1, SliceFacts
<1>3. z \in Seq(S) /\ Slices(q, j + 1, Len(q), z)
  <2>1. IsSlice(S, q, j + 1, Len(q), z)
    BY <1>0 DEF IsSlice
  <2> QED BY <2>1, SliceFacts
<1>4. Len(a) = i /\ Len(m) = j - i /\ Len(z) = Len(q) - j
  <2>1. Len(a) = i - 1 + 1 /\ Len(m) = j - (i + 1) + 1 /\ Len(z) = Len(q) - (j + 1) + 1
    BY <1>1, <1>2, <1>3 DEF Slices
  <2>2. PICK n : n = Len(q)
    OBVIOUS
  <2>3. i - 1 + 1 = i /\ j - (i + 1) + 1 = j - i /\ n - (j + 1) + 1 = n - j
    BY ONLY <2>2, <1>0, i \in Int, j \in Int
  <2> QED BY <2>1, <2>2, <2>3
<1>5. /\ ToSet(a) = {q[k] : k \in 1 .. i}
      /\ ToSet(m) = {q[k] : k \in i + 1 .. j}
      /\ ToSet(z) = {q[k] : k \in j + 1 .. Len(q)}
  BY <1>1, <1>2, <1>3 DEF Slices
<1>6. PICK n : n = Len(q)
  OBVIOUS
<1>7. \A k \in 1 .. n : k \in 1 .. i \/ k \in i + 1 .. j \/ k \in j + 1 .. n
  BY <1>0, <1>6
<1>8. \A k : k \in 1 .. i \/ k \in i + 1 .. j \/ k \in j + 1 .. n => k \in 1 .. n
  BY <1>0, <1>6
<1>9. ToSet(q) = ToSet(a) \cup ToSet(m) \cup ToSet(z)
  <2>1. ASSUME NEW x \in ToSet(q) PROVE x \in ToSet(a) \cup ToSet(m) \cup ToSet(z)
    <3>1. PICK k \in 1 .. n : x = q[k]
      BY <1>0, <1>6
    <3> QED BY <3>1, <1>5, <1>6, <1>7
  <2>2. ASSUME NEW x \in ToSet(a) \cup ToSet(m) \cup ToSet(z) PROVE x \in ToSet(q)
    <3>1. PICK k : x = q[k] /\ (k \in 1 .. i \/ k \in i + 1 .. j \/ k \in j + 1 .. n)
      BY <2>2, <1>5, <1>6
    <3> QED BY <3>1, <1>0, <1>6, <1>8
  <2> QED BY <2>1, <2>2
<1>10. ASSUME Once(q) PROVE Disjoint(ToSet(a), ToSet(m), ToSet(z))
  <2>1. \A k, l \in 1 .. n : q[k] = q[l] => k = l
    BY <1>0, <1>6, <1>10 DEF Once
  <2>2. /\ \A k \in 1 .. i, l \in i + 1 .. j : k # l
        /\ \A k \in 1 .. i, l \in j + 1 .. n : k # l
        /\ \A k \in i + 1 .. j, l \in j + 1 .. n : k # l
    BY <1>0, <1>6
  <2>3. ToSet(a) \cap ToSet(m) = {}
    <3>1. \A k \in 1 .. i, l \in i + 1 .. j : q[k] # q[l]
      BY ONLY <2>1, <2>2, <1>8
    <3> QED BY ONLY <3>1, <1>5
  <2>4. ToSet(a) \cap ToSet(z) = {}
    BY <2>1, <2>2, <1>5, <1>6, <1>8
  <2>5. ToSet(m) \cap ToSet(z) = {}
    <3>1. \A k \in i + 1 .. j, l \in j + 1 .. n : q[k] # q[l]
      BY <2>1, <2>2, <1>8
    <3> QED BY <3>1, <1>5, <1>6
  <2> QED BY <2>3, <2>4, <2>5 DEF Disjoint
<1>11. Once(q) => Once(a) /\ Once(m) /\ Once(z)
  BY <1>1, <1>2, <1>3 DEF Slices
<1>12. \A k \in 1 .. i : q[k] \in ToSet(a)
  BY <1>5
<1> QED BY <1>1, <1>2, <1>3, <1>4, <1>9, <1>10, <1>11, <1>12 DEF Parts

\* r is what stays of q when m, lines i + 1 to j, is cut out.
IsCut(S, q, i, j, m, r) ==
  /\ q \in Seq(S) /\ Once(q) /\ i \in Int /\ j \in Int /\ 1 <= i /\ i <= j /\ j <= Len(q)
  /\ m = SubSeq(q, i + 1, j) /\ r = SubSeq(q, 1, i) \o SubSeq(q, j + 1, Len(q))
Cuts(q, i, j, m, r) ==
  /\ Once(r) /\ Once(m) /\ ToSet(r) \cap ToSet(m) = {}
  /\ ToSet(q) = ToSet(r) \cup ToSet(m) /\ q[i] \in ToSet(r)
  /\ Len(r) \in Nat /\ i <= Len(r) /\ Len(m) = j - i

(* Lines cut out of a list.                                                *)
LEMMA CutFacts ==
  ASSUME NEW S, NEW q, NEW i, NEW j, NEW m, NEW r, IsCut(S, q, i, j, m, r)
  PROVE  r \in Seq(S) /\ m \in Seq(S) /\ Cuts(q, i, j, m, r)
<1> USE DEF IsCut
<1>0. Len(q) \in Nat
  BY ListFacts
<1>1. PICK a, z : a = SubSeq(q, 1, i) /\ z = SubSeq(q, j + 1, Len(q))
  OBVIOUS
<1>2. /\ a \in Seq(S) /\ m \in Seq(S) /\ z \in Seq(S) /\ Parts(q, a, m, z)
      /\ Len(a) = i /\ Len(m) = j - i /\ Len(z) = Len(q) - j
      /\ \A k \in 1 .. i : q[k] \in ToSet(a)
  <2>1. ArePartsOf(S, q, i, j, a, m, z)
    BY <1>0, <1>1 DEF ArePartsOf
  <2> QED BY ONLY <2>1, PartFacts
<1>3. r = a \o z
  BY <1>1
<1>4. r \in Seq(S) /\ Joins(a, z, r)
  <2>1. a \in Seq(S) /\ z \in Seq(S)
    BY <1>2
  <2> QED BY ONLY <2>1, <1>3, JoinFacts
<1>5. Once(r) /\ ToSet(r) = ToSet(a) \cup ToSet(z)
  BY <1>2, <1>4 DEF Joins, Parts, Disjoint
<1>6. Len(r) = i + (Len(q) - j)
  BY <1>2, <1>4 DEF Joins
<1>7. Len(r) \in Nat /\ i <= Len(r)
  BY <1>0, <1>6
<1>8. q[i] \in ToSet(r)
  BY <1>2, <1>5
<1>9. Once(m) /\ ToSet(r) \cap ToSet(m) = {} /\ ToSet(q) = ToSet(r) \cup ToSet(m)
  BY <1>2, <1>5 DEF Parts, Disjoint
<1> QED BY <1>2, <1>4, <1>5, <1>7, <1>8, <1>9 DEF Cuts

\* r is q with the list w put into it behind i.
IsPut(S, q, i, w, r) ==
  /\ q \in Seq(S) /\ Once(q) /\ i \in Int /\ 0 <= i /\ i <= Len(q)
  /\ w \in Seq(S) /\ Once(w) /\ ToSet(q) \cap ToSet(w) = {}
  /\ r = SubSeq(q, 1, i) \o w \o SubSeq(q, i + 1, Len(q))
Puts(q, w, r) == Once(r) /\ ToSet(r) = ToSet(q) \cup ToSet(w) /\ Len(r) = Len(q) + Len(w)

(* A list put into another.                                                *)
LEMMA PutFacts ==
  ASSUME NEW S, NEW q, NEW i, NEW w, NEW r, IsPut(S, q, i, w, r)
  PROVE  r \in Seq(S) /\ Puts(q, w, r)
<1> USE DEF IsPut
<1>0. Len(q) \in Nat /\ Len(w) \in Nat
  BY ListFacts
<1>1. PICK a, m, z : a = SubSeq(q, 1, i) /\ m = SubSeq(q, i + 1, i) /\ z = SubSeq(q, i + 1, Len(q))
  OBVIOUS
<1>2. /\ a \in Seq(S) /\ m \in Seq(S) /\ z \in Seq(S) /\ Parts(q, a, m, z)
      /\ Len(a) = i /\ Len(m) = i - i /\ Len(z) = Len(q) - i
  <2>1. ArePartsOf(S, q, i, i, a, m, z)
    BY <1>0, <1>1 DEF ArePartsOf
  <2> QED BY <2>1, PartFacts
<1>3. ToSet(m) = {}
  <2>1. Len(m) = 0
    BY <1>2
  <2> QED BY <2>1, <1>2, ListFacts
<1>4. /\ ToSet(q) = ToSet(a) \cup ToSet(z) /\ Once(a) /\ Once(z) /\ ToSet(a) \cap ToSet(z) = {}
  BY <1>2, <1>3 DEF Parts, Disjoint
<1>5. PICK u : u = a \o w
  OBVIOUS
<1>6. u \in Seq(S) /\ Joins(a, w, u)
  <2>1. a \in Seq(S) /\ w \in Seq(S)
    BY <1>2
  <2> QED BY ONLY <2>1, <1>5, JoinFacts
<1>7. r = u \o z
  BY <1>1, <1>5
<1>8. r \in Seq(S) /\ Joins(u, z, r)
  <2>1. u \in Seq(S) /\ z \in Seq(S)
    BY <1>2, <1>6
  <2> QED BY ONLY <2>1, <1>7, JoinFacts
<1>9. Once(u) /\ ToSet(u) = ToSet(a) \cup ToSet(w)
  BY <1>4, <1>6 DEF Joins
<1>10. Once(r) /\ ToSet(r) = ToSet(q) \cup ToSet(w)
  BY <1>4, <1>8, <1>9 DEF Joins
<1>11. Len(r) = i + Len(w) + (Len(q) - i)
  BY <1>2, <1>6, <1>8 DEF Joins
<1>12. Len(r) = Len(q) + Len(w)
  <2>1. PICK n, k : n = Len(q) /\ k = Len(w)
    OBVIOUS
  <2>2. n \in Nat /\ k \in Nat /\ i \in Int /\ Len(r) = i + k + (n - i)
    BY <2>1, <1>0, <1>11
  <2>3. i + k + (n - i) = n + k
    BY ONLY <2>2
  <2> QED BY <2>1, <2>2, <2>3
<1> QED BY <1>8, <1>10, <1>12 DEF Puts

(* What is left when the first is taken.                                   *)
LEMMA TailFacts ==
  ASSUME NEW S, NEW q \in Seq(S), Once(q), q # <<>>
  PROVE  /\ Head(q) \in S /\ Tail(q) \in Seq(S) /\ Once(Tail(q)) /\ Head(q) \notin ToSet(Tail(q))
         /\ ToSet(q) = {Head(q)} \cup ToSet(Tail(q))
<1>0. Len(q) \in Nat /\ Len(q) >= 1
  BY ListFacts
<1>1. PICK a, m, z : a = SubSeq(q, 1, 0) /\ m = SubSeq(q, 1, 1) /\ z = SubSeq(q, 2, Len(q))
  OBVIOUS
<1>2. /\ a \in Seq(S) /\ m \in Seq(S) /\ z \in Seq(S) /\ Parts(q, a, m, z)
      /\ Len(a) = 0 /\ Len(m) = 1
  <2>1. 0 + 1 = 1 /\ 1 + 1 = 2 /\ 1 - 0 = 1
    OBVIOUS
  <2>2. ArePartsOf(S, q, 0, 1, a, m, z)
    <3>1. m = SubSeq(q, 0 + 1, 1) /\ z = SubSeq(q, 1 + 1, Len(q))
      BY <2>1, <1>1
    <3> QED BY <3>1, <1>0, <1>1 DEF ArePartsOf
  <2>3. PICK i, j : i = 0 /\ j = 1 /\ ArePartsOf(S, q, i, j, a, m, z)
    BY <2>2
  <2>4. /\ a \in Seq(S) /\ m \in Seq(S) /\ z \in Seq(S) /\ Parts(q, a, m, z)
        /\ Len(a) = i /\ Len(m) = j - i
    <3>1. ArePartsOf(S, q, i, j, a, m, z)
      BY <2>3
    <3> QED BY ONLY <3>1, PartFacts
  <2> QED BY <2>1, <2>3, <2>4
<1>3. Slices(q, 1, 1, m)
  <2>1. IsSlice(S, q, 1, 1, m)
    BY <1>0, <1>1 DEF IsSlice
  <2> QED BY <2>1, SliceFacts
<1>4. ToSet(m) = {q[1]}
  <2>1. \A k \in 1 .. 1 : k = 1
    OBVIOUS
  <2>2. 1 \in 1 .. 1
    OBVIOUS
  <2> QED BY <2>1, <2>2, <1>3 DEF Slices
<1>5. ToSet(a) = {}
  BY <1>2, ListFacts
<1>6. z = Tail(q) /\ q[1] = Head(q) /\ Head(q) \in S
  BY <1>0, <1>1, TailIsSubSeq, HeadTailProperties
<1> QED BY <1>2, <1>4, <1>5, <1>6 DEF Parts, Disjoint

(* A list the other way round.                                             *)
LEMMA ReverseFacts ==
  ASSUME NEW S, NEW q \in Seq(S), NEW r, r = Reverse(q)
  PROVE  r \in Seq(S) /\ ToSet(r) = ToSet(q) /\ (Once(q) => Once(r))
<1>0. Len(q) \in Nat /\ DOMAIN q = 1 .. Len(q) /\ ToSet(q) = {q[k] : k \in 1 .. Len(q)}
  BY ListFacts
<1>1. PICK n : n = Len(q)
  OBVIOUS
<1>2. \A i \in 1 .. n : n - i + 1 \in 1 .. n /\ n - (n - i + 1) + 1 = i
  BY <1>0, <1>1
<1>3. r = [i \in 1 .. n |-> q[(n - i) + 1]]
  BY <1>1 DEF Reverse
<1>4. \A i \in 1 .. n : q[i] \in S
  BY <1>1
<1>5. r \in Seq(S) /\ Len(r) = n /\ \A i \in 1 .. n : r[i] = q[n - i + 1]
  <2>1. r \in [1 .. n -> S] /\ \A i \in 1 .. n : r[i] = q[n - i + 1]
    BY <1>2, <1>3, <1>4
  <2>2. r \in Seq(S)
    BY <2>1, <1>0, <1>1
  <2> QED BY <2>1, <2>2, <1>0, <1>1
<1>6. DOMAIN r = 1 .. n
  BY <1>3
<1>7. \A i \in 1 .. n : q[i] = r[n - i + 1]
  BY <1>2, <1>5
<1>8. ToSet(r) = {r[i] : i \in 1 .. n}
  BY <1>6 DEF ToSet
<1>9. ToSet(r) = ToSet(q)
  <2>1. ASSUME NEW x \in ToSet(r) PROVE x \in ToSet(q)
    BY <1>0, <1>1, <1>2, <1>5, <1>8
  <2>2. ASSUME NEW x \in ToSet(q) PROVE x \in ToSet(r)
    BY <1>0, <1>1, <1>2, <1>7, <1>8
  <2> QED BY <2>1, <2>2
<1>10. ASSUME Once(q) PROVE Once(r)
  <2>1. ASSUME NEW i \in 1 .. n, NEW j \in 1 .. n, r[i] = r[j] PROVE i = j
    <3>0. /\ n - i + 1 \in DOMAIN q /\ n - j + 1 \in DOMAIN q
          /\ q[n - i + 1] = q[n - j + 1]
      BY <2>1, <1>0, <1>1, <1>2, <1>5
    <3>1. n - i + 1 = n - j + 1
      BY <3>0, <1>10 DEF Once
    <3> QED BY ONLY <3>1, <1>0, <1>1, i \in 1 .. n, j \in 1 .. n
  <2> QED BY <2>1, <1>6 DEF Once
<1> QED BY <1>5, <1>9, <1>10

\* r is q with x at its end.
Appends(q, x, r) ==
  /\ ToSet(r) = ToSet(q) \cup {x} /\ r # <<>> /\ Len(r) = Len(q) + 1
  /\ Once(q) /\ x \notin ToSet(q) => Once(r)

(* One more at the end of a list.                                          *)
LEMMA AppendFacts ==
  ASSUME NEW S, NEW q, q \in Seq(S), NEW x, x \in S, NEW r, r = Append(q, x)
  PROVE  r \in Seq(S) /\ Appends(q, x, r)
<1>1. <<x>> \in Seq(S) /\ ToSet(<<x>>) = {x} /\ Once(<<x>>) /\ Len(<<x>>) = 1
  BY DEF ToSet, Once
<1>2. r = q \o <<x>>
  BY AppendIsConcat
<1>3. PICK w : w = <<x>>
  OBVIOUS
<1>4. r \in Seq(S) /\ Joins(q, w, r)
  <2>1. q \in Seq(S) /\ w \in Seq(S) /\ r = q \o w
    BY <1>1, <1>2, <1>3
  <2> QED BY ONLY <2>1, JoinFacts
<1>5. ToSet(r) = ToSet(q) \cup {x} /\ (Once(q) /\ x \notin ToSet(q) => Once(r))
  BY <1>1, <1>3, <1>4 DEF Joins
<1>6. r # <<>>
  BY <1>4, <1>5, ListFacts
<1>7. Len(r) = Len(q) + 1
  BY <1>1, <1>3, <1>4 DEF Joins
<1> QED BY <1>4, <1>5, <1>6, <1>7 DEF Appends

(* What is chosen of a list.                                               *)
LEMMA ChosenFacts ==
  ASSUME NEW S, NEW q \in Seq(S), NEW T, NEW r, r = Chosen(q, T)
  PROVE  r \in Seq(S) /\ ToSet(r) = ToSet(q) \cap T /\ (Once(q) => Once(r))
<1> DEFINE Turn(i, x) == IF q[i] \in T THEN Append(x, q[i]) ELSE x
           Def(g) == [i \in 0 .. Len(q) |-> IF i = 0 THEN <<>> ELSE Turn(i, g[i - 1])]
           E == CHOOSE g : g = Def(g)
<1>1. r = E[Len(q)]
  BY DEF Chosen
<1>2. PICK N : N = Len(q)
  OBVIOUS
<1>3. N \in Nat /\ DOMAIN q = 1 .. N /\ ToSet(q) = {q[k] : k \in 1 .. N} /\ \A k \in 1 .. N : q[k] \in S
  BY <1>2, ListFacts
<1>4. \A i \in 1 .. N, x \in Seq(S) : Turn(i, x) \in Seq(S)
  BY <1>3
<1>5. \E f : f = Def(f)
  <2> DEFINE G == [p \in (1 .. N) \X Seq(S) |-> Turn(p[1], p[2])]
  <2>1. \A i \in 1 .. N, u \in Seq(S) : G[<<i, u>>] = Turn(i, u)
    OBVIOUS
  <2>2. G \in [(1 .. N) \X Seq(S) -> Seq(S)]
    BY <1>4
  <2>9. <<>> \in Seq(S)
    OBVIOUS
  <2> HIDE DEF G
  <2>3. PICK f : IsLoop(f, N, Seq(S), <<>>, G)
    BY <1>3, <2>9, <2>2, LoopExists
  <2> HIDE DEF Turn
  <2>4. ASSUME NEW i \in 0 .. N
        PROVE  f[i] = IF i = 0 THEN <<>> ELSE Turn(i, f[i - 1])
    <3>1. CASE i = 0
      BY <3>1, <2>3 DEF IsLoop
    <3>2. CASE i # 0
      <4>1. i \in 1 .. N /\ i - 1 \in 0 .. N
        BY <3>2, <1>3
      <4>2. f[i] = G[<<i, f[i - 1]>>] /\ f[i - 1] \in Seq(S)
        BY <4>1, <2>3 DEF IsLoop
      <4> QED BY <4>1, <4>2, <3>2, <2>1
    <3> QED BY <3>1, <3>2
  <2>5. f = [i \in 0 .. N |-> IF i = 0 THEN <<>> ELSE Turn(i, f[i - 1])]
    <3>1. f = [i \in 0 .. N |-> f[i]]
      BY <2>3 DEF IsLoop
    <3> QED BY <3>1, <2>4
  <2>6. f = Def(f)
    BY <2>5, <1>2
  <2> QED BY <2>6
<1>6. E = Def(E)
  <2> HIDE DEF Def
  <2> QED BY <1>5
<1>7. \A i \in 0 .. N : E[i] = IF i = 0 THEN <<>> ELSE Turn(i, E[i - 1])
  <2> HIDE DEF E, Turn
  <2> QED BY <1>2, <1>6
<1> HIDE DEF E, Def
<1> DEFINE Up(i) == {q[k] : k \in 1 .. i}
           W == {i \in 0 .. N : /\ E[i] \in Seq(S) /\ ToSet(E[i]) = Up(i) \cap T
                                /\ Once(q) => Once(E[i])}
<1>8. 0 \in W
  <2>1. E[0] = <<>>
    BY <1>3, <1>7
  <2>2. Up(0) = {}
    OBVIOUS
  <2>3. <<>> \in Seq(S) /\ ToSet(<<>>) = {} /\ Once(<<>>)
    BY DEF ToSet, Once
  <2>4. 0 \in 0 .. N
    BY <1>3
  <2>5. E[0] \in Seq(S) /\ ToSet(E[0]) = Up(0) \cap T /\ (Once(q) => Once(E[0]))
    <3> HIDE DEF Up
    <3> QED BY <2>1, <2>2, <2>3
  <2> HIDE DEF Up
  <2> QED BY <2>4, <2>5
<1>9. ASSUME NEW i \in 1 .. N, i - 1 \in W PROVE i \in W
  <2>1. PICK x, y : x = E[i - 1] /\ y = E[i]
    OBVIOUS
  <2>2. x \in Seq(S) /\ ToSet(x) = Up(i - 1) \cap T /\ (Once(q) => Once(x))
    BY <1>9, <2>1
  <2>3. y = Turn(i, x)
    <3>1. i \in 0 .. N /\ i # 0
      BY <1>3
    <3> QED BY <3>1, <1>7, <2>1
  <2>4. Up(i) = Up(i - 1) \cup {q[i]}
    <3>1. \A k : k \in 1 .. i <=> k \in 1 .. i - 1 \/ k = i
      BY <1>3
    <3> QED BY <3>1
  <2>5. CASE q[i] \in T
    <3>1. y = Append(x, q[i]) /\ q[i] \in S
      BY <2>3, <2>5, <1>3
    <3>2. /\ y \in Seq(S) /\ ToSet(y) = ToSet(x) \cup {q[i]}
          /\ Once(x) /\ q[i] \notin ToSet(x) => Once(y)
      <4>1. PICK l : l = q[i]
        OBVIOUS
      <4>2. x \in Seq(S) /\ l \in S /\ y = Append(x, l)
        BY <4>1, <3>1, <2>2
      <4>3. y \in Seq(S) /\ Appends(x, l, y)
        BY ONLY <4>2, AppendFacts
      <4> QED BY <4>1, <4>3 DEF Appends
    <3>3. ASSUME Once(q) PROVE q[i] \notin Up(i - 1)
      <4>1. \A k \in 1 .. i - 1 : k \in 1 .. N /\ k # i
        BY <1>3
      <4> QED BY <4>1, <3>3, <1>3 DEF Once
    <3>4. ToSet(y) = Up(i) \cap T
      BY <3>2, <2>2, <2>4, <2>5
    <3> QED BY <2>1, <2>2, <3>2, <3>3, <3>4, <1>3
  <2>6. CASE q[i] \notin T
    <3>1. y = x
      BY <2>3, <2>6
    <3>2. ToSet(y) = Up(i) \cap T
      BY <3>1, <2>2, <2>4, <2>6
    <3> QED BY <3>1, <3>2, <2>1, <2>2, <1>3
  <2> QED BY <2>5, <2>6
<1>10. N \in W
  <2> HIDE DEF W
  <2>1. \A i \in 0 .. N : i \in W
    BY <1>3, <1>8, <1>9, EachTurn
  <2> QED BY <2>1, <1>3
<1>11. Up(N) = ToSet(q)
  BY <1>3
<1> HIDE DEF Up
<1> QED BY <1>1, <1>2, <1>10, <1>11

-----------------------------------------------------------------------------
(* Lines that go from place to place                                       *)

\* From C, with the lines X in hand, to C2, with X2, at the places D only.
Moves(C, dl, lk, X, C2, dl2, lk2, X2, D) ==
  /\ D \subseteq Place
  /\ C2 \in [Place -> Seq(Line)]
  /\ \A h \in Place \ D : C2[h] = C[h]
  /\ Apart(C2, D)
  /\ Lying(C2, D) \cup lk2 \cup X2 = Lying(C, D) \cup lk \cup X
  /\ Disjoint(Lying(C2, D), lk2, X2)
  /\ Addressed(C2, dl2, lk2, X2, D)
  /\ \A l \in Line \ (Lying(C, D) \cup lk \cup X) : (dl2[l] = "used") <=> (dl[l] = "used")

(* Lines may go from place to place as long as none is lost.               *)
LEMMA Rearranged ==
  ASSUME NEW C, NEW dl, NEW ck, NEW lk, NEW X, Whole(C, dl, ck, lk, X),
         NEW C2, NEW dl2, NEW lk2, NEW X2, NEW D, Moves(C, dl, lk, X, C2, dl2, lk2, X2, D)
  PROVE  Whole(C2, dl2, ck, lk2, X2)
<1> DEFINE E == Place \ D
           M == Lying(C, D) \cup lk \cup X
<1>1. Lying(C, Place) = Lying(C, D) \cup Lying(C, E) /\ Lying(C2, Place) = Lying(C2, D) \cup Lying(C2, E)
  BY DEF Moves, Lying
<1>2. Lying(C2, E) = Lying(C, E)
  BY DEF Moves, Lying
<1>3. Lying(C, E) \cap Lying(C, D) = {}
  <2>1. \A g \in D, h \in E : ToSet(C[g]) \cap ToSet(C[h]) = {}
    BY DEF Moves, Whole, Apart
  <2> QED BY <2>1 DEF Lying
<1>4. Lying(C, E) \cap M = {}
  BY <1>1, <1>3 DEF Whole, Disjoint
<1>5. Lying(C2, E) \cap Lying(C2, D) = {}
  BY <1>2, <1>4 DEF Moves
<1>6. \A h \in Place : ToSet(C[h]) \subseteq Line
  BY ListFacts DEF Whole
<1>7. Apart(C2, Place)
  <2>1. ASSUME NEW h \in Place PROVE Once(C2[h])
    BY DEF Moves, Whole, Apart
  <2>2. ASSUME NEW g \in Place, NEW h \in Place, g # h PROVE ToSet(C2[g]) \cap ToSet(C2[h]) = {}
    <3>1. CASE g \in D /\ h \in D
      BY <3>1, <2>2 DEF Moves, Apart
    <3>2. CASE g \in E /\ h \in E
      BY <3>2, <2>2 DEF Moves, Whole, Apart
    <3>3. CASE g \in D /\ h \in E
      BY <3>3, <1>5 DEF Lying
    <3>4. CASE g \in E /\ h \in D
      BY <3>4, <1>5 DEF Lying
    <3> QED BY <3>1, <3>2, <3>3, <3>4 DEF Moves
  <2> QED BY <2>1, <2>2 DEF Apart
<1>8. Lying(C2, Place) \cup lk2 \cup X2 = UNION ck
  BY <1>1, <1>2 DEF Moves, Whole
<1>9. Disjoint(Lying(C2, Place), lk2, X2)
  BY <1>1, <1>2, <1>4 DEF Moves, Disjoint
<1>10. \A h \in E : \A l \in ToSet(C2[h]) : l \in ToSet(C[h]) /\ l \in Line /\ l \notin M
  <2>1. ASSUME NEW h \in E, NEW l \in ToSet(C2[h]) PROVE l \in ToSet(C[h]) /\ l \in Line /\ l \notin M
    <3>1. l \in ToSet(C[h]) /\ h \in Place
      BY <2>1 DEF Moves
    <3>2. l \in Lying(C, E)
      BY <3>1, <2>1 DEF Lying
    <3> HIDE DEF M, E
    <3> QED BY <3>1, <3>2, <1>4, <1>6
  <2> QED BY <2>1
<1>11. \A h \in E : \A l \in ToSet(C2[h]) : (dl2[l] = "used") <=> (dl[l] = "used")
  BY <1>10 DEF Moves
<1>12. Addressed(C2, dl2, lk2, X2, Place)
  <2>1. ASSUME NEW h \in Place \cap Pool, NEW l \in ToSet(C2[h]) PROVE dl2[l] # "used"
    <3>1. CASE h \in D
      BY <3>1, <2>1 DEF Moves, Addressed
    <3>2. CASE h \in E
      BY <3>2, <2>1, <1>10, <1>11 DEF Whole, Addressed
    <3> QED BY <3>1, <3>2
  <2>2. ASSUME NEW h \in Place \ Pool, NEW l \in ToSet(C2[h]) PROVE dl2[l] = "used"
    <3>1. CASE h \in D
      BY <3>1, <2>2 DEF Moves, Addressed
    <3>2. CASE h \in E
      BY <3>2, <2>2, <1>10, <1>11 DEF Whole, Addressed
    <3> QED BY <3>1, <3>2
  <2>3. \A l \in lk2 \cup X2 : dl2[l] = "used"
    BY DEF Moves, Addressed
  <2> QED BY <2>1, <2>2, <2>3 DEF Addressed
<1> QED BY <1>7, <1>8, <1>9, <1>12 DEF Whole, Moves

(* Chunks of which no line is in use go, and with them the lines.          *)
LEMMA Shrunk ==
  ASSUME NEW C, NEW dl, NEW ck, NEW lk, NEW X, Whole(C, dl, ck, lk, X), C[Free] = <<>>,
         NEW gone \in SUBSET ck, \A c \in gone : \A l \in c : dl[l] # "used",
         NEW C2 \in [Place -> Seq(Line)], \A h \in Place \ {Avail} : C2[h] = C[h],
         Once(C2[Avail]), ToSet(C2[Avail]) = ToSet(C[Avail]) \ UNION gone
  PROVE  Whole(C2, dl, ck \ gone, lk, X)
<1>0. Avail \in Place /\ Free \in Place
  BY PlaceFacts DEF PlacesAre
<1> DEFINE G == UNION gone
<1>1. \A h \in Place : ToSet(C[h]) \subseteq Line
  BY ListFacts DEF Whole
<1>2. \A l \in G : dl[l] # "used"
  OBVIOUS
<1>3. \A h \in Place \ {Avail} : ToSet(C[h]) \cap G = {}
  <2>1. ASSUME NEW h \in Place \ {Avail} PROVE ToSet(C[h]) \cap G = {}
    <3>1. CASE h = Free
      BY <3>1 DEF ToSet
    <3>2. CASE h # Free
      <4>1. h \in Place \ Pool
        BY <3>2 DEF Pool
      <4>2. \A g \in Place \ Pool : \A l \in ToSet(C[g]) : dl[l] = "used"
        BY DEF Whole, Addressed
      <4> QED BY ONLY <4>1, <4>2, <1>2
    <3> QED BY <3>1, <3>2
  <2> QED BY <2>1
<1>4. (lk \cup X) \cap G = {}
  BY <1>2 DEF Whole, Addressed
<1>5. \A h \in Place : ToSet(C2[h]) = ToSet(C[h]) \ G
  BY <1>3
<1>6. Lying(C2, Place) = Lying(C, Place) \ G
  BY <1>5 DEF Lying
<1>7. UNION (ck \ gone) = (UNION ck) \ G
  <2>1. \A c \in ck \ gone, d \in gone : c \cap d = {}
    BY DEF Whole
  <2> QED BY <2>1
<1>8. Apart(C2, Place)
  <2>1. \A h \in Place : Once(C2[h])
    BY DEF Whole, Apart
  <2> QED BY <2>1, <1>5 DEF Whole, Apart
<1>9. Lying(C2, Place) \cup lk \cup X = UNION (ck \ gone)
  BY <1>4, <1>6, <1>7 DEF Whole
<1>10. Disjoint(Lying(C2, Place), lk, X)
  BY <1>6 DEF Whole, Disjoint
<1>11. Addressed(C2, dl, lk, X, Place)
  BY <1>5 DEF Whole, Addressed
<1> QED BY <1>8, <1>9, <1>10, <1>11 DEF Whole

\* Lines new, of none of the chunks ck, become available.
Grows(C, dl, ck, new, C2, dl2) ==
  /\ new \in SUBSET Line /\ new \cap UNION ck = {}
  /\ C2 \in [Place -> Seq(Line)] /\ \A h \in Place \ {Avail} : C2[h] = C[h]
  /\ Once(C2[Avail]) /\ ToSet(C2[Avail]) = ToSet(C[Avail]) \cup new
  /\ \A l \in new : dl2[l] # "used"
  /\ \A l \in Line \ new : dl2[l] = dl[l]

(* A chunk of new lines, all of them available.                            *)
LEMMA Grown ==
  ASSUME NEW C, NEW dl, NEW ck, NEW lk, NEW X, Whole(C, dl, ck, lk, X),
         NEW new, NEW C2, NEW dl2, Grows(C, dl, ck, new, C2, dl2)
  PROVE  Whole(C2, dl2, {new} \cup ck, lk, X)
<1> USE DEF Grows
<1>0. Avail \in Place /\ Avail \in Pool
  BY PlaceFacts DEF PlacesAre, Pool
<1>1. \A h \in Place : ToSet(C[h]) \subseteq Line \ new
  <2>1. \A h \in Place : ToSet(C[h]) \subseteq Line
    BY ListFacts DEF Whole
  <2>2. \A h \in Place : ToSet(C[h]) \subseteq Lying(C, Place)
    BY DEF Lying
  <2>3. Lying(C, Place) \subseteq UNION ck
    BY DEF Whole
  <2> QED BY <2>1, <2>2, <2>3
<1>2. lk \cup X \subseteq Line \ new
  BY DEF Whole
<1>3. Lying(C2, Place) = Lying(C, Place) \cup new
  <2>1. \A h \in Place : ToSet(C2[h]) \subseteq ToSet(C[h]) \cup new
    OBVIOUS
  <2>2. \A h \in Place : ToSet(C[h]) \subseteq ToSet(C2[h])
    OBVIOUS
  <2>3. new \subseteq ToSet(C2[Avail])
    OBVIOUS
  <2> QED BY <1>0, <2>1, <2>2, <2>3 DEF Lying
<1>4. Apart(C2, Place)
  <2>1. \A h \in Place : Once(C2[h])
    BY DEF Whole, Apart
  <2>2. ASSUME NEW g \in Place, NEW h \in Place, g # h PROVE ToSet(C2[g]) \cap ToSet(C2[h]) = {}
    <3>1. ToSet(C[g]) \cap ToSet(C[h]) = {}
      BY <2>2 DEF Whole, Apart
    <3>2. ToSet(C[g]) \cap new = {} /\ ToSet(C[h]) \cap new = {}
      BY <1>1
    <3>3. /\ ToSet(C2[g]) = ToSet(C[g]) \/ (g = Avail /\ ToSet(C2[g]) = ToSet(C[g]) \cup new)
          /\ ToSet(C2[h]) = ToSet(C[h]) \/ (h = Avail /\ ToSet(C2[h]) = ToSet(C[h]) \cup new)
      OBVIOUS
    <3> QED BY ONLY <3>1, <3>2, <3>3, <2>2
  <2> QED BY <2>1, <2>2 DEF Apart
<1>5. Lying(C2, Place) \cup lk \cup X = UNION ({new} \cup ck)
  BY <1>3 DEF Whole
<1>6. Disjoint(Lying(C2, Place), lk, X)
  BY <1>2, <1>3 DEF Whole, Disjoint
<1>7. Addressed(C2, dl2, lk, X, Place)
  <2>1. ASSUME NEW h \in Place \cap Pool, NEW l \in ToSet(C2[h]) PROVE dl2[l] # "used"
    <3>1. l \in new \/ (l \in ToSet(C[h]) /\ l \in Line \ new)
      BY <2>1, <1>1
    <3> QED BY <3>1, <2>1 DEF Whole, Addressed
  <2>2. ASSUME NEW h \in Place \ Pool, NEW l \in ToSet(C2[h]) PROVE dl2[l] = "used"
    <3>1. l \in ToSet(C[h]) /\ l \in Line \ new
      BY <2>2, <1>0, <1>1
    <3> QED BY <3>1, <2>2 DEF Whole, Addressed
  <2>3. \A l \in lk \cup X : dl2[l] = "used"
    BY <1>2 DEF Whole, Addressed
  <2> QED BY <2>1, <2>2, <2>3 DEF Addressed
<1>8. \A c, d \in {new} \cup ck : c # d => c \cap d = {}
  BY DEF Whole
<1> QED BY <1>4, <1>5, <1>6, <1>7, <1>8 DEF Whole

-----------------------------------------------------------------------------
(* The pool                                                                *)

\* What routines of the pool leave alone.
SameUse(s, t) ==
  /\ t.world = s.world /\ t.text = s.text /\ t.dot = s.dot /\ t.cur = s.cur
  /\ t.kill = s.kill /\ t.kptr = s.kptr /\ t.ring = s.ring /\ t.tm = s.tm /\ t.perr = s.perr
  /\ t.leaked = s.leaked /\ t.kept = s.kept /\ t.copy = s.copy
  /\ t.other.buf = s.other.buf /\ t.other.line = s.other.line
  /\ t.other.gone = s.other.gone /\ t.other.cleared = s.other.cleared
SameLists(s, t) ==
  t.dline = s.dline /\ t.avail = s.avail /\ t.free = s.free /\ t.chunks = s.chunks

(* Whoever is left alone refers to the same.                               *)
LEMMA SameRefs ==
  ASSUME NEW s, NEW t, SameUse(s, t), Refs(s)
  PROVE  Refs(t)
BY DEF SameUse, Refs

\* No line of record f has a null address; one that is dirty fooled it.
Vetted(s, f) ==
  \A l \in Referents(f) : s.dline[l] # "null" /\ (s.dline[l] = "dirty" => f.fooled)

(* A set of natural numbers: its least and, if bounded, its greatest.      *)
LEMMA MinIs ==
  ASSUME NEW T, T \subseteq Nat, T # {}
  PROVE  Min(T) \in T /\ \A y \in T : Min(T) <= y
BY Least DEF Min

(* The error records are looked through.                                   *)
LEMMA ChkErrorLinesDoes ==
  ASSUME NEW s \in Rec, NEW t, t = ChkErrorLines(s)
  PROVE  /\ t \in Rec /\ SameUse(s, t) /\ SameLists(s, t) /\ t.other = s.other
         /\ \A i \in DOMAIN t.errs :
              /\ Vetted(s, t.errs[i])
              /\ \E e \in ToSet(s.errs) : t.errs[i].stale = e.stale /\ (e.fooled => t.errs[i].fooled)
<1> DEFINE dangling(e) == \E l \in Referents(e) : s.dline[l] = "null"
           kept == Chosen(s.errs, {e \in ToSet(s.errs) : ~dangling(e)})
           dirty(e) == \E l \in Referents(e) : s.dline[l] = "dirty"
           here == {i \in DOMAIN s.errs : i >= s.err /\ ~dangling(s.errs[i])}
           errs == [i \in DOMAIN kept |-> [kept[i] EXCEPT !.fooled = @ \/ dirty(kept[i])]]
           err == IF s.err = NULL \/ here = {} THEN NULL
                  ELSE Cardinality({i \in 1 .. Min(here) : ~dangling(s.errs[i])})
<1>1. t = [s EXCEPT !.errs = errs, !.err = err]
  BY DEF ChkErrorLines
<1>2. s.errs \in Seq(ErrRec) /\ s.err \in Int
  BY DEF Rec
<1>3. kept \in Seq(ErrRec) /\ ToSet(kept) = ToSet(s.errs) \cap {e \in ToSet(s.errs) : ~dangling(e)}
  BY <1>2, ChosenFacts
<1>4. err \in Int
  <2>1. CASE s.err = NULL \/ here = {}
    BY <2>1 DEF NULL
  <2>2. CASE ~ (s.err = NULL \/ here = {})
    <3>1. here \subseteq Nat /\ here # {}
      BY <2>2, <1>2
    <3>2. Min(here) \in Nat
      BY <3>1, MinIs
    <3>3. IsFiniteSet(1 .. Min(here))
      BY <3>2, FS_Interval
    <3>4. Cardinality({i \in 1 .. Min(here) : ~dangling(s.errs[i])}) \in Nat
      BY <3>3, FS_Subset, FS_CardinalityType
    <3> QED BY <3>4, <2>2
  <2> QED BY <2>1, <2>2
<1>5. \A i \in DOMAIN kept :
        /\ kept[i] \in ErrRec /\ kept[i] \in ToSet(s.errs) /\ ~dangling(kept[i])
        /\ errs[i] = [kept[i] EXCEPT !.fooled = kept[i].fooled \/ dirty(kept[i])]
  <2> TAKE i \in DOMAIN kept
  <2>1. kept[i] \in ToSet(kept) /\ kept[i] \in ErrRec
    <3>1. PICK q : q = kept
      OBVIOUS
    <3>2. q \in Seq(ErrRec) /\ i \in DOMAIN q
      BY <3>1, <1>3
    <3>3. q[i] \in ToSet(q) /\ q[i] \in ErrRec
      BY ONLY <3>2 DEF ToSet
    <3> QED BY ONLY <3>1, <3>3
  <2>2. kept[i] \in ToSet(s.errs) /\ ~dangling(kept[i])
    BY <2>1, <1>3
  <2> QED BY <2>1, <2>2
<1>6. errs \in Seq(ErrRec) /\ DOMAIN errs = DOMAIN kept
  <2>1. Len(kept) \in Nat /\ DOMAIN kept = 1 .. Len(kept)
    BY <1>3, ListFacts
  <2>2. \A i \in 1 .. Len(kept) : errs[i] \in ErrRec
    BY <2>1, <1>5 DEF ErrRec
  <2>3. errs \in [1 .. Len(kept) -> ErrRec]
    BY <2>1, <2>2
  <2>4. PICK q, n : q = errs /\ n = Len(kept)
    OBVIOUS
  <2>5. q \in [1 .. n -> ErrRec] /\ n \in Nat
    BY ONLY <2>1, <2>3, <2>4
  <2>6. q \in Seq(ErrRec) /\ DOMAIN q = 1 .. n
    BY ONLY <2>5
  <2> QED BY ONLY <2>1, <2>4, <2>6
<1>7. \A i \in DOMAIN kept :
        /\ Referents(errs[i]) = Referents(kept[i]) /\ errs[i].stale = kept[i].stale
        /\ errs[i].fooled = (kept[i].fooled \/ dirty(kept[i]))
  BY <1>5 DEF ErrRec, Referents
<1>8. \A i \in DOMAIN errs :
        /\ Vetted(s, errs[i])
        /\ \E e \in ToSet(s.errs) : errs[i].stale = e.stale /\ (e.fooled => errs[i].fooled)
  <2> HIDE DEF errs, kept, dirty, dangling
  <2> TAKE i \in DOMAIN errs
  <2>1. PICK f, e : f = errs[i] /\ e = kept[i]
    OBVIOUS
  <2>2. /\ e \in ToSet(s.errs) /\ ~dangling(e) /\ Referents(f) = Referents(e)
        /\ f.stale = e.stale /\ f.fooled = (e.fooled \/ dirty(e))
    <3>1. i \in DOMAIN kept
      BY <1>6
    <3>2. e \in ToSet(s.errs) /\ ~dangling(e)
      BY <3>1, <2>1, <1>5
    <3>3. /\ Referents(f) = Referents(e) /\ f.stale = e.stale
          /\ f.fooled = (e.fooled \/ dirty(e))
      BY <3>1, <2>1, <1>7
    <3> QED BY ONLY <3>2, <3>3
  <2>3. Vetted(s, f)
    BY ONLY <2>2 DEF Vetted, dirty, dangling
  <2> QED BY ONLY <2>1, <2>2, <2>3
<1> HIDE DEF errs, err
<1>9. t \in Rec
  BY ONLY <1>1, <1>4, <1>6, s \in Rec, ZenonT(60) DEF Rec
<1>10. SameUse(s, t) /\ SameLists(s, t) /\ t.other = s.other /\ t.errs = errs
  BY <1>1 DEF Rec, SameUse, SameLists
<1> QED BY <1>8, <1>9, <1>10

\* Places that are apart.
ApartFew(C) ==
  /\ \A g : Once(C[g]) => Apart(C, {g})
  /\ \A g, h : Once(C[g]) /\ Once(C[h]) /\ ToSet(C[g]) \cap ToSet(C[h]) = {} => Apart(C, {g, h})
  /\ \A g, h, k : /\ Once(C[g]) /\ Once(C[h]) /\ Once(C[k])
                  /\ Disjoint(ToSet(C[g]), ToSet(C[h]), ToSet(C[k]))
                  => Apart(C, {g, h, k})

(* A few places.                                                           *)
LEMMA FewPlaces ==
  ASSUME NEW C
  PROVE  ApartFew(C)
<1>2. ApartFew(C)
  <2>1. \A g : Once(C[g]) => Apart(C, {g})
    BY DEF Apart
  <2>2. \A g, h : Once(C[g]) /\ Once(C[h]) /\ ToSet(C[g]) \cap ToSet(C[h]) = {} => Apart(C, {g, h})
    BY DEF Apart
  <2>3. ASSUME NEW g, NEW h, NEW k, Once(C[g]), Once(C[h]), Once(C[k]),
               Disjoint(ToSet(C[g]), ToSet(C[h]), ToSet(C[k]))
        PROVE  Apart(C, {g, h, k})
    BY <2>3 DEF Apart, Disjoint
  <2> QED BY <2>1, <2>2, <2>3 DEF ApartFew
<1> QED BY <1>2

\* t has the same lines as s but at the places D.
Elsewhere(s, t, D) ==
  /\ Avail \in D \/ t.avail = s.avail
  /\ Free \in D \/ t.free = s.free
  /\ Kept \in D \/ t.kept = s.kept
  /\ Copied \in D \/ t.copy = s.copy
  /\ \A b \in Buffers : Text(b) \in D \/ t.text[b] = s.text[b]
  /\ \A k \in Kills : Killed(k) \in D \/ t.kill[k] = s.kill[k]

(* The same, of what the places hold.                                      *)
LEMMA SamePlaces ==
  ASSUME NEW s, NEW t, NEW C, NEW C2, NEW D, Elsewhere(s, t, D), Reads(s, C), Reads(t, C2)
  PROVE  \A h \in Place \ D : C2[h] = C[h]
<1> TAKE h \in Place \ D
<1>1. CASE h \in {Avail, Free, Kept, Copied}
  BY <1>1 DEF Elsewhere, Reads
<1>2. CASE \E b \in Buffers : h = Text(b)
  BY <1>2 DEF Elsewhere, Reads
<1>3. CASE \E k \in Kills : h = Killed(k)
  BY <1>3 DEF Elsewhere, Reads
<1> QED BY <1>1, <1>2, <1>3, PlaceFacts DEF PlacesAre

(* The free lines are used again.                                          *)
LEMMA GoodRecycled ==
  ASSUME NEW s, NEW X, Sound(s, X), NEW t, t = RecycleLines(s)
  PROVE  Sound(t, X) /\ SameUse(s, t) /\ t.free = <<>> /\ t.chunks = s.chunks /\ t.dline = s.dline
<1>1. CASE s.free = <<>>
  <2>1. t = s
    BY <1>1 DEF RecycleLines
  <2> QED BY <2>1, <1>1 DEF SameUse
<1>2. CASE s.free # <<>>
  <2>1. s \in Rec
    BY DEF Sound
  <2>2. PICK c : c = ChkErrorLines(s)
    OBVIOUS
  <2>3. /\ c \in Rec /\ SameUse(s, c) /\ SameLists(s, c) /\ c.other = s.other
        /\ \A i \in DOMAIN c.errs :
             /\ Vetted(s, c.errs[i])
             /\ \E e \in ToSet(s.errs) : c.errs[i].stale = e.stale /\ (e.fooled => c.errs[i].fooled)
    BY <2>1, <2>2, ChkErrorLinesDoes
  <2>4. PICK ls, errs, stale, q :
          /\ ls = ToSet(s.free)
          /\ errs = [i \in DOMAIN c.errs |->
                       [c.errs[i] EXCEPT !.stale = c.errs[i].stale \/ Referents(c.errs[i]) \cap ls # {}]]
          /\ stale = (c.other.stale \/ c.other.line \in ls)
          /\ q = c.avail \o s.free
    OBVIOUS
  <2>5. t = [c EXCEPT !.errs = errs, !.other.stale = stale, !.avail = q, !.free = <<>>]
    <3>1. t = [Recycled(c, ls) EXCEPT !.avail = @ \o s.free, !.free = <<>>]
      BY <1>2, <2>2, <2>4 DEF RecycleLines
    <3>2. PICK r : r = Recycled(c, ls)
      OBVIOUS
    <3>3. r = [c EXCEPT !.errs = errs, !.other.stale = stale]
      BY <3>2, <2>4 DEF Recycled
    <3>4. r.avail = c.avail
      BY <3>3, <2>3 DEF Rec
    <3>5. t = [r EXCEPT !.avail = q, !.free = <<>>]
      BY <3>1, <3>2, <3>4, <2>4
    <3> QED BY ONLY <3>3, <3>5
  <2>6. c.errs \in Seq(ErrRec) /\ c.other \in Wind /\ s.avail \in Seq(Line) /\ s.free \in Seq(Line)
        /\ c.avail = s.avail /\ c.free = s.free
    BY <2>1, <2>3 DEF Rec, SameLists
  <2>7. q \in Seq(Line) /\ Joins(s.avail, s.free, q)
    BY <2>4, <2>6, JoinFacts
  <2>8. errs \in Seq(ErrRec) /\ DOMAIN errs = DOMAIN c.errs
        /\ \A i \in DOMAIN errs : /\ errs[i].fooled = c.errs[i].fooled
                                  /\ errs[i].stale = (c.errs[i].stale \/ Referents(c.errs[i]) \cap ls # {})
    <3>1. PICK p, n : p = c.errs /\ n = Len(c.errs)
      OBVIOUS
    <3>2. n \in Nat /\ DOMAIN p = 1 .. n /\ \A i \in 1 .. n : p[i] \in ErrRec
      BY <3>1, <2>6
    <3>3. errs = [i \in 1 .. n |-> [p[i] EXCEPT !.stale = p[i].stale \/ Referents(p[i]) \cap ls # {}]]
      BY <3>1, <3>2, <2>4
    <3>4. \A i \in 1 .. n : /\ errs[i] \in ErrRec /\ errs[i].fooled = p[i].fooled
                            /\ errs[i].stale = (p[i].stale \/ Referents(p[i]) \cap ls # {})
      BY ONLY <3>2, <3>3 DEF ErrRec
    <3>5. errs \in [1 .. n -> ErrRec]
      BY ONLY <3>3, <3>4
    <3>6. errs \in Seq(ErrRec) /\ DOMAIN errs = 1 .. n
      BY ONLY <3>2, <3>5
    <3> QED BY ONLY <3>1, <3>2, <3>4, <3>6
  <2>9. stale \in BOOLEAN
    BY <2>4
  <2>10. t \in Rec
    <3>1. <<>> \in Seq(Line)
      OBVIOUS
    <3>2. PICK o : o = [c.other EXCEPT !.stale = stale]
      OBVIOUS
    <3>3. o \in Wind
      BY ONLY <3>2, <2>6, <2>9 DEF Wind
    <3>4. t = [c EXCEPT !.errs = errs, !.other = o, !.avail = q, !.free = <<>>]
      BY ONLY <3>2, <2>3, <2>5 DEF Rec
    <3> QED BY ONLY <3>1, <3>3, <3>4, <2>3, <2>7, <2>8 DEF Rec
  <2>11. /\ SameUse(c, t) /\ t.free = <<>> /\ t.chunks = c.chunks /\ t.dline = c.dline /\ t.avail = q
         /\ t.errs = errs /\ t.other.stale = stale
    BY ONLY <2>3, <2>5, <2>6 DEF Rec, Wind, SameUse
  <2>12. SameUse(s, t) /\ t.chunks = s.chunks /\ t.dline = s.dline
    BY <2>3, <2>11 DEF SameUse, SameLists
  <2>13. PICK C, C2 : C = Contents(s) /\ C2 = Contents(t)
    OBVIOUS
  <2>14. Reads(s, C) /\ Reads(t, C2)
    BY <2>1, <2>10, <2>13, ContentsReads
  <2>15. Whole(C, s.dline, ToSet(s.chunks), s.leaked, X)
    BY <2>13 DEF Sound
  <2>16. Whole(C2, s.dline, ToSet(s.chunks), s.leaked, X)
    <3>0. Avail \in Place /\ Free \in Place /\ Avail # Free
      BY PlaceFacts DEF PlacesAre, PlacesDiffer, Distinct
    <3>1. \A h \in Place \ {Avail, Free} : C2[h] = C[h]
      <4>1. Elsewhere(s, t, {Avail, Free})
        BY <2>12 DEF Elsewhere, SameUse
      <4> QED BY <4>1, <2>14, SamePlaces
    <3>2. C[Avail] = s.avail /\ C[Free] = s.free /\ C2[Avail] = q /\ C2[Free] = <<>>
      BY <2>14, <2>11 DEF Reads
    <3>3. /\ Once(s.avail) /\ Once(s.free) /\ ToSet(s.avail) \cap ToSet(s.free) = {}
      BY <2>15, <3>0, <3>2 DEF Whole, Apart
    <3>4. Once(q) /\ ToSet(q) = ToSet(s.avail) \cup ToSet(s.free)
      BY <2>7, <3>3 DEF Joins
    <3>5. Lying(C, {Avail, Free}) = ToSet(q) /\ Lying(C2, {Avail, Free}) = ToSet(q)
      <4>1. /\ Lying(C, {Avail, Free}) = ToSet(C[Avail]) \cup ToSet(C[Free])
            /\ Lying(C2, {Avail, Free}) = ToSet(C2[Avail]) \cup ToSet(C2[Free])
        BY DEF Lying
      <4> QED BY <4>1, <3>2, <3>4, ShortLists
    <3>6. Apart(C2, {Avail, Free})
      BY <3>2, <3>4, FewPlaces, ShortLists DEF ApartFew
    <3>7. Lying(C, {Avail, Free}) \subseteq Lying(C, Place)
      BY <3>0 DEF Lying
    <3>8. Disjoint(ToSet(q), s.leaked, X)
      <4>1. Disjoint(Lying(C, Place), s.leaked, X)
        BY <2>15 DEF Whole
      <4> QED BY <4>1, <3>5, <3>7 DEF Disjoint
    <3>9. Addressed(C2, s.dline, s.leaked, X, {Avail, Free})
      <4>1. \A h \in {Avail, Free} : \A l \in ToSet(C2[h]) : l \in ToSet(C[Avail]) \/ l \in ToSet(C[Free])
        BY <3>2, <3>4, ShortLists
      <4>2. \A h \in {Avail, Free} : h \in Pool
        BY DEF Pool
      <4> QED BY <4>1, <4>2, <3>0, <2>15 DEF Whole, Addressed
    <3>10. Moves(C, s.dline, s.leaked, X, C2, s.dline, s.leaked, X, {Avail, Free})
      BY <2>14, <3>0, <3>1, <3>5, <3>6, <3>8, <3>9 DEF Moves, Reads
    <3> QED BY <3>10, <2>15, Rearranged
  <2>17. Refs(t)
    BY <2>12, SameRefs DEF Sound
  <2>18. Looks(t)
    <3>1. Shows(t.other, t.text) \/ t.other.gone \/ t.other.cleared
      BY <2>12 DEF Sound, Looks, SameUse, Shows
    <3>2. t.other.gone => t.other.buf \in Buffers
      BY <2>12 DEF Sound, Looks, SameUse
    <3>3. ASSUME t.other.stale PROVE t.other.gone \/ t.other.cleared
      <4>1. CASE s.other.stale
        BY <4>1, <2>12 DEF Sound, Looks, SameUse
      <4>2. CASE s.other.line \in ls
        <5>1. s.other.line # NULL
          <6>1. ls \subseteq Line
            BY <2>4, <2>6, ListFacts
          <6> QED BY <6>1, <4>2 DEF Line, NULL
        <5>2. ASSUME s.other.buf \in Buffers PROVE s.other.line \notin ToSet(s.text[s.other.buf])
          <6>1. PICK h : h = Text(s.other.buf)
            OBVIOUS
          <6>2. h \in Place /\ Free \in Place /\ h # Free
            BY <6>1, <5>2, PlaceFacts DEF PlacesAre, PlacesDiffer, Distinct
          <6>3. C[h] = s.text[s.other.buf] /\ C[Free] = s.free
            BY <6>1, <5>2, <2>14 DEF Reads
          <6>4. ToSet(C[h]) \cap ToSet(C[Free]) = {}
            BY <6>2, <2>15 DEF Whole, Apart
          <6> QED BY <6>3, <6>4, <4>2, <2>4
        <5> QED BY <5>1, <5>2, <2>12 DEF Sound, Looks, Shows, SameUse
      <4>3. s.other.stale \/ s.other.line \in ls
        BY <3>3, <2>3, <2>4, <2>11
      <4> QED BY <4>1, <4>2, <4>3
    <3>4. ASSUME NEW i \in DOMAIN t.errs, t.errs[i].stale PROVE t.errs[i].fooled
      <4>0. i \in DOMAIN c.errs /\ t.errs[i].fooled = c.errs[i].fooled
            /\ (c.errs[i].stale \/ Referents(c.errs[i]) \cap ls # {})
        BY <3>4, <2>8, <2>11
      <4>1. CASE c.errs[i].stale
        <5>1. PICK e \in ToSet(s.errs) : c.errs[i].stale = e.stale /\ (e.fooled => c.errs[i].fooled)
          BY <4>0, <2>3
        <5>2. PICK j \in DOMAIN s.errs : e = s.errs[j]
          BY <5>1 DEF ToSet
        <5> QED BY <5>1, <5>2, <4>0, <4>1 DEF Sound, Looks
      <4>2. CASE Referents(c.errs[i]) \cap ls # {}
        <5>1. PICK l \in Referents(c.errs[i]) : l \in ls
          BY <4>2
        <5>2. s.dline[l] # "null" /\ (s.dline[l] = "dirty" => c.errs[i].fooled)
          BY <5>1, <4>0, <2>3 DEF Vetted
        <5>3. l \in Line /\ s.dline \in [Line -> {"null", "used", "dirty"}]
          BY <5>1, <2>1, <2>4, <2>6, ListFacts DEF Rec
        <5>4. s.dline[l] # "used"
          <6>1. Free \in Place \cap Pool /\ l \in ToSet(C[Free])
            BY <5>1, <2>4, <2>14, PlaceFacts DEF PlacesAre, Pool, Reads
          <6> QED BY <6>1, <2>15 DEF Whole, Addressed
        <5> QED BY <5>2, <5>3, <5>4, <4>0
      <4> QED BY <4>0, <4>1, <4>2
    <3> QED BY <3>1, <3>2, <3>3, <3>4 DEF Looks
  <2> QED BY <2>10, <2>11, <2>12, <2>13, <2>16, <2>17, <2>18 DEF Sound, SameUse
<1> QED BY <1>1, <1>2

(* A routine of the pool that looks at no error record.                    *)
LEMMA PoolSound ==
  ASSUME NEW s, NEW X, Sound(s, X), NEW t, t \in Rec, SameUse(s, t), t.errs = s.errs, t.other = s.other,
         Whole(Contents(t), t.dline, ToSet(t.chunks), t.leaked, X)
  PROVE  Sound(t, X)
<1>1. Refs(t)
  BY SameRefs DEF Sound
<1>2. Looks(t)
  BY DEF Sound, Looks, SameUse
<1> QED BY <1>1, <1>2 DEF Sound

(* Chunks that are not in use go back to malloc.                           *)
LEMMA GoodCollected ==
  ASSUME NEW s, NEW X, Sound(s, X), s.free = <<>>, NEW t, t = Collected(s)
  PROVE  Sound(t, X) /\ SameUse(s, t)
<1>1. s \in Rec /\ s.avail \in Seq(Line) /\ s.chunks \in Seq(SUBSET Line)
  BY DEF Sound, Rec
<1>2. PICK gone, ck, q : /\ gone = Unused(s)
                         /\ ck = Chosen(s.chunks, ToSet(s.chunks) \ gone)
                         /\ q = Chosen(s.avail, Line \ UNION gone)
  OBVIOUS
<1>3. t = [s EXCEPT !.chunks = ck, !.avail = q]
  BY <1>2 DEF Collected
<1>4. ck \in Seq(SUBSET Line) /\ ToSet(ck) = ToSet(s.chunks) \cap (ToSet(s.chunks) \ gone)
  BY <1>1, <1>2, ChosenFacts
<1>5. q \in Seq(Line) /\ ToSet(q) = ToSet(s.avail) \cap (Line \ UNION gone) /\ (Once(s.avail) => Once(q))
  BY <1>1, <1>2, ChosenFacts
<1>6. gone \subseteq ToSet(s.chunks) /\ \A c \in gone : \A l \in c : s.dline[l] = "null"
  BY <1>2 DEF Unused
<1>7. t \in Rec
  BY ONLY <1>1, <1>3, <1>4, <1>5 DEF Rec
<1>8. /\ SameUse(s, t) /\ t.errs = s.errs /\ t.other = s.other /\ t.dline = s.dline /\ t.free = s.free
      /\ t.chunks = ck /\ t.avail = q /\ t.leaked = s.leaked
  BY ONLY <1>1, <1>3 DEF Rec, SameUse
<1>9. PICK C, C2 : C = Contents(s) /\ C2 = Contents(t)
  OBVIOUS
<1>10. Reads(s, C) /\ Reads(t, C2)
  BY <1>1, <1>7, <1>9, ContentsReads
<1>11. Whole(C, s.dline, ToSet(s.chunks), s.leaked, X)
  BY <1>9 DEF Sound
<1>12. \A h \in Place \ {Avail} : C2[h] = C[h]
  <2>1. Elsewhere(s, t, {Avail})
    BY <1>8 DEF Elsewhere, SameUse
  <2> QED BY <2>1, <1>10, SamePlaces
<1>13. C[Avail] = s.avail /\ C[Free] = <<>> /\ C2[Avail] = q
  BY <1>8, <1>10 DEF Reads
<1>14. Once(C2[Avail]) /\ ToSet(C2[Avail]) = ToSet(C[Avail]) \ UNION gone
  <2>1. Once(s.avail)
    BY <1>11, <1>13, PlaceFacts DEF Whole, Apart, PlacesAre
  <2>2. ToSet(s.avail) \subseteq Line
    BY <1>1, ListFacts
  <2> QED BY <2>1, <2>2, <1>5, <1>13
<1>15. Whole(C2, s.dline, ToSet(s.chunks) \ gone, s.leaked, X)
  <2>1. \A c \in gone : \A l \in c : s.dline[l] # "used"
    BY <1>6
  <2>2. C2 \in [Place -> Seq(Line)]
    BY <1>10 DEF Reads
  <2> QED BY <2>1, <2>2, <1>6, <1>11, <1>12, <1>13, <1>14, Shrunk
<1>16. ToSet(ck) = ToSet(s.chunks) \ gone
  BY <1>4
<1>17. Whole(Contents(t), t.dline, ToSet(t.chunks), t.leaked, X)
  BY <1>8, <1>9, <1>15, <1>16
<1> QED BY <1>7, <1>8, <1>17, PoolSound

(* SameUse of one routine after another.                                   *)
LEMMA SameUseTwice ==
  ASSUME NEW s, NEW t, NEW u, SameUse(s, t), SameUse(t, u)
  PROVE  SameUse(s, u)
BY DEF SameUse

(* The garbage collection.                                                 *)
LEMMA GoodGCchunks ==
  ASSUME NEW s, NEW X, Sound(s, X), NEW t, t = GCchunks(s)
  PROVE  Sound(t, X) /\ SameUse(s, t)
<1>1. PICK r : r = RecycleLines(s)
  OBVIOUS
<1>2. Sound(r, X) /\ SameUse(s, r) /\ r.free = <<>>
  BY <1>1, GoodRecycled
<1>3. t = Collected(r)
  BY <1>1 DEF GCchunks
<1>4. Sound(t, X) /\ SameUse(r, t)
  BY <1>2, <1>3, GoodCollected
<1> QED BY <1>2, <1>4, SameUseTwice

(* A new chunk.                                                            *)
LEMMA GoodChunk ==
  ASSUME NEW s, NEW X, Sound(s, X), NEW n, NEW t, t = Chunk(s, n)
  PROVE  Sound(t, X) /\ SameUse(s, t)
<1>1. s \in Rec /\ s.avail \in Seq(Line) /\ s.chunks \in Seq(SUBSET Line)
      /\ s.dline \in [Line -> {"null", "used", "dirty"}]
  BY DEF Sound, Rec
<1>2. PICK new, all, fresh, ck, dl, q :
        /\ new = {l \in Unallocated(s) : Cardinality({k \in Unallocated(s) : k <= l}) <= n}
        /\ all = [i \in Line |-> MaxLines + 1 - i]
        /\ fresh = Chosen(all, new)
        /\ ck = <<new>> \o s.chunks
        /\ dl = [l \in Line |-> IF l \in new THEN "null" ELSE s.dline[l]]
        /\ q = fresh \o s.avail
  OBVIOUS
<1>3. t = [s EXCEPT !.chunks = ck, !.dline = dl, !.avail = q]
  BY <1>2 DEF Chunk
<1>4. new \subseteq Line /\ new \cap UNION ToSet(s.chunks) = {}
  BY <1>2 DEF Unallocated
<1>5. all \in Seq(Line) /\ Once(all) /\ ToSet(all) = Line
  <2>1. MaxLines \in Nat
    OBVIOUS
  <2>2. \A i \in 1 .. MaxLines : MaxLines + 1 - i \in 1 .. MaxLines /\ MaxLines + 1 - (MaxLines + 1 - i) = i
    BY ONLY <2>1
  <2>3. all = [i \in 1 .. MaxLines |-> MaxLines + 1 - i]
    BY <1>2 DEF Line
  <2>4. all \in [1 .. MaxLines -> 1 .. MaxLines] /\ \A i \in 1 .. MaxLines : all[i] = MaxLines + 1 - i
    BY ONLY <2>2, <2>3
  <2>5. all \in Seq(1 .. MaxLines) /\ DOMAIN all = 1 .. MaxLines
    BY ONLY <2>1, <2>4
  <2>6. Once(all)
    BY <2>2, <2>4, <2>5 DEF Once
  <2>7. ToSet(all) = 1 .. MaxLines
    <3>1. \A i \in 1 .. MaxLines : all[i] \in 1 .. MaxLines
      BY ONLY <2>2, <2>4
    <3>2. \A i \in 1 .. MaxLines : \E j \in 1 .. MaxLines : all[j] = i
      BY ONLY <2>2, <2>4
    <3> QED BY ONLY <3>1, <3>2, <2>5 DEF ToSet
  <2> QED BY <2>5, <2>6, <2>7 DEF Line
<1>6. fresh \in Seq(Line) /\ ToSet(fresh) = new /\ Once(fresh)
  <2>1. fresh \in Seq(Line) /\ ToSet(fresh) = ToSet(all) \cap new /\ (Once(all) => Once(fresh))
    <3>1. all \in Seq(Line) /\ fresh = Chosen(all, new)
      BY <1>2, <1>5
    <3> QED BY ONLY <3>1, ChosenFacts
  <2> QED BY <2>1, <1>4, <1>5
<1>7. q \in Seq(Line) /\ Joins(fresh, s.avail, q)
  BY <1>1, <1>2, <1>6, JoinFacts
<1>8. ck \in Seq(SUBSET Line) /\ ToSet(ck) = {new} \cup ToSet(s.chunks)
  <2>1. PICK w : w = <<new>>
    OBVIOUS
  <2>2. w \in Seq(SUBSET Line) /\ ToSet(w) = {new}
    BY <2>1, <1>4 DEF ToSet
  <2>3. ck \in Seq(SUBSET Line) /\ Joins(w, s.chunks, ck)
    BY <2>1, <2>2, <1>1, <1>2, JoinFacts
  <2> QED BY <2>2, <2>3 DEF Joins
<1>9. dl \in [Line -> {"null", "used", "dirty"}]
  BY <1>1, <1>2
<1>10. t \in Rec
  BY ONLY <1>1, <1>3, <1>7, <1>8, <1>9 DEF Rec
<1>11. /\ SameUse(s, t) /\ t.errs = s.errs /\ t.other = s.other /\ t.dline = dl /\ t.free = s.free
       /\ t.chunks = ck /\ t.avail = q /\ t.leaked = s.leaked
  BY ONLY <1>1, <1>3 DEF Rec, SameUse
<1>12. PICK C, C2 : C = Contents(s) /\ C2 = Contents(t)
  OBVIOUS
<1>13. Reads(s, C) /\ Reads(t, C2)
  BY <1>1, <1>10, <1>12, ContentsReads
<1>14. Whole(C, s.dline, ToSet(s.chunks), s.leaked, X)
  BY <1>12 DEF Sound
<1>15. \A h \in Place \ {Avail} : C2[h] = C[h]
  <2>1. Elsewhere(s, t, {Avail})
    BY <1>11 DEF Elsewhere, SameUse
  <2> QED BY <2>1, <1>13, SamePlaces
<1>16. C[Avail] = s.avail /\ C2[Avail] = q
  BY <1>11, <1>13 DEF Reads
<1>17. Once(q) /\ ToSet(q) = ToSet(s.avail) \cup new
  <2>0. Avail \in Place
    BY PlaceFacts DEF PlacesAre
  <2>1. Once(s.avail)
    BY <2>0, <1>14, <1>16 DEF Whole, Apart
  <2>2. ToSet(s.avail) \subseteq UNION ToSet(s.chunks)
    <3>1. ToSet(C[Avail]) \subseteq Lying(C, Place)
      BY <2>0 DEF Lying
    <3>2. Lying(C, Place) \subseteq UNION ToSet(s.chunks)
      BY <1>14 DEF Whole
    <3> QED BY <3>1, <3>2, <1>16
  <2> QED BY <2>1, <2>2, <1>4, <1>6, <1>7 DEF Joins
<1>18. Whole(C2, dl, {new} \cup ToSet(s.chunks), s.leaked, X)
  <2>1. \A l \in new : dl[l] # "used"
    BY <1>2, <1>4
  <2>2. \A l \in Line \ new : dl[l] = s.dline[l]
    BY <1>2
  <2>3. C2 \in [Place -> Seq(Line)]
    BY <1>13 DEF Reads
  <2>4. Once(C2[Avail]) /\ ToSet(C2[Avail]) = ToSet(C[Avail]) \cup new
    BY <1>16, <1>17
  <2>5. new \in SUBSET Line /\ new \cap UNION ToSet(s.chunks) = {}
    BY <1>4
  <2>6. PICK ck0, dl0, lk0 : ck0 = ToSet(s.chunks) /\ dl0 = s.dline /\ lk0 = s.leaked
    OBVIOUS
  <2>7. new \cap UNION ck0 = {} /\ Whole(C, dl0, ck0, lk0, X) /\ \A l \in Line \ new : dl[l] = dl0[l]
    BY ONLY <2>2, <2>5, <2>6, <1>14
  <2>8. Whole(C2, dl, {new} \cup ck0, lk0, X)
    <3>1. Grows(C, dl0, ck0, new, C2, dl)
      BY ONLY <2>1, <2>3, <2>4, <2>5, <2>7, <1>15 DEF Grows
    <3>2. Whole(C, dl0, ck0, lk0, X)
      BY ONLY <2>7
    <3> QED BY ONLY <3>1, <3>2, Grown
  <2> QED BY ONLY <2>6, <2>8
<1>19. Whole(Contents(t), t.dline, ToSet(t.chunks), t.leaked, X)
  BY <1>8, <1>11, <1>12, <1>18
<1> QED BY <1>10, <1>11, <1>19, PoolSound

(* More lines, if there is memory.                                         *)
LEMMA GoodNewchunk ==
  ASSUME NEW s, NEW X, Sound(s, X), NEW t, t = newchunk(s)
  PROVE  Sound(t, X) /\ SameUse(s, t)
<1>1. PICK g : g = IF CHUNKSIZE \in Sizes(s) THEN s ELSE GCchunks(s)
  OBVIOUS
<1>2. Sound(g, X) /\ SameUse(s, g)
  <2>1. SameUse(s, s)
    BY DEF SameUse
  <2> QED BY <1>1, <2>1, GoodGCchunks
<1>3. t = IF Sizes(g) = {} THEN g ELSE Chunk(g, Max(Sizes(g)))
  BY <1>1 DEF newchunk, Enlarged
<1>4. CASE Sizes(g) = {}
  BY <1>2, <1>3, <1>4
<1>5. CASE Sizes(g) # {}
  <2>1. Sound(t, X) /\ SameUse(g, t)
    BY <1>2, <1>3, <1>5, GoodChunk
  <2> QED BY <2>1, <1>2, SameUseTwice
<1> QED BY <1>4, <1>5

(* Lines are made available.                                               *)
LEMMA GoodSupplied ==
  ASSUME NEW s, NEW X, Sound(s, X), NEW t, t = Supplied(s)
  PROVE  Sound(t, X) /\ SameUse(s, t)
<1>1. PICK r : r = IF s.avail = <<>> THEN RecycleLines(s) ELSE s
  OBVIOUS
<1>2. Sound(r, X) /\ SameUse(s, r)
  <2>1. SameUse(s, s)
    BY DEF SameUse
  <2> QED BY <1>1, <2>1, GoodRecycled
<1>3. t = IF r.avail = <<>> THEN newchunk(r) ELSE r
  BY <1>1 DEF Supplied, Renewed
<1>4. CASE r.avail = <<>>
  <2>1. Sound(t, X) /\ SameUse(r, t)
    BY <1>2, <1>3, <1>4, GoodNewchunk
  <2> QED BY <2>1, <1>2, SameUseTwice
<1>5. CASE r.avail # <<>>
  BY <1>2, <1>3, <1>5
<1> QED BY <1>4, <1>5

\* What is true of the lines of s is true of those of t.
SameWhere(s, t) ==
  /\ Elsewhere(s, t, {}) /\ t.chunks = s.chunks /\ t.leaked = s.leaked
  /\ \A l \in Line : (t.dline[l] = "used") <=> (s.dline[l] = "used")

(* A routine that leaves all lines where they are.                         *)
LEMMA SameWhole ==
  ASSUME NEW s, NEW X, Sound(s, X), NEW t, t \in Rec, SameWhere(s, t)
  PROVE  Whole(Contents(t), t.dline, ToSet(t.chunks), t.leaked, X)
<1>1. PICK C, C2 : C = Contents(s) /\ C2 = Contents(t)
  OBVIOUS
<1>2. Reads(s, C) /\ Reads(t, C2)
  BY <1>1, ContentsReads DEF Sound
<1>3. Whole(C, s.dline, ToSet(s.chunks), s.leaked, X)
  BY <1>1 DEF Sound
<1>4. \A h \in Place \ {} : C2[h] = C[h]
  BY <1>2, SamePlaces DEF SameWhere
<1>5. Lying(C, {}) = {} /\ Lying(C2, {}) = {} /\ Apart(C2, {})
  BY DEF Lying, Apart
<1>6. Disjoint({}, s.leaked, X)
  BY <1>3 DEF Whole, Disjoint
<1>7. Addressed(C2, t.dline, s.leaked, X, {})
  <2>1. \A l \in s.leaked \cup X : l \in Line /\ s.dline[l] = "used"
    BY <1>3 DEF Whole, Addressed
  <2> QED BY <2>1 DEF Addressed, SameWhere
<1>8. Moves(C, s.dline, s.leaked, X, C2, t.dline, s.leaked, X, {})
  BY <1>2, <1>4, <1>5, <1>6, <1>7 DEF Moves, Reads, SameWhere
<1>9. Whole(C2, t.dline, ToSet(s.chunks), s.leaked, X)
  BY <1>3, <1>8, Rearranged
<1> QED BY <1>1, <1>9 DEF SameWhere

\* What nbufline gives: no line, or l, which SavLine makes a used one (u).
Supplies(s, t, u, X) ==
  \/ t.got = NULL /\ Sound(t, X) /\ SameUse(s, t)
  \/ /\ t.got \in Line /\ t.got # NULL /\ t.got \notin X /\ SameUse(s, t)
     /\ Sound(u, X \cup {t.got}) /\ SameUse(s, u) /\ u.got = t.got

(* A line is taken.                                                        *)
LEMMA GoodNbufline ==
  ASSUME NEW s, NEW X, Sound(s, X), NEW t, t = nbufline(s), NEW u, u = SavLine(t, t.got)
  PROVE  Supplies(s, t, u, X)
<1>1. PICK c : c = Supplied(s)
  OBVIOUS
<1>2. Sound(c, X) /\ SameUse(s, c)
  BY <1>1, GoodSupplied
<1>3. c \in Rec /\ c.avail \in Seq(Line) /\ c.dline \in [Line -> {"null", "used", "dirty"}]
  BY <1>2 DEF Sound, Rec
<1>4. t = IF c.avail = <<>> THEN [c EXCEPT !.got = NULL] ELSE [c EXCEPT !.got = Head(c.avail), !.avail = Tail(@)]
  BY <1>1 DEF nbufline, Taken
<1>5. CASE c.avail = <<>>
  <2>1. t = [c EXCEPT !.got = NULL]
    BY <1>4, <1>5
  <2>2. t \in Rec
    BY ONLY <2>1, <1>3 DEF Rec
  <2>3. /\ SameUse(c, t) /\ t.errs = c.errs /\ t.other = c.other /\ t.got = NULL
        /\ t.dline = c.dline /\ t.avail = c.avail /\ t.free = c.free /\ t.chunks = c.chunks
    BY ONLY <2>1, <1>3 DEF Rec, SameUse
  <2>4. SameWhere(c, t)
    BY <2>3 DEF SameWhere, Elsewhere, SameUse
  <2>5. Whole(Contents(t), t.dline, ToSet(t.chunks), t.leaked, X)
    BY <2>2, <2>4, <1>2, SameWhole
  <2>6. Sound(t, X)
    BY <2>2, <2>3, <2>5, <1>2, PoolSound
  <2> QED BY <2>3, <2>6, <1>2, SameUseTwice DEF Supplies
<1>6. CASE c.avail # <<>>
  <2>1. PICK l, q, dl : /\ l = Head(c.avail) /\ q = Tail(c.avail)
                        /\ dl = [c.dline EXCEPT ![l] = "used"]
    OBVIOUS
  <2>2. PICK C : C = Contents(c)
    OBVIOUS
  <2>3. Reads(c, C) /\ Whole(C, c.dline, ToSet(c.chunks), c.leaked, X)
    BY <2>2, <1>2, <1>3, ContentsReads DEF Sound
  <2>0. Avail \in Place /\ Avail \in Pool
    BY PlaceFacts DEF PlacesAre, Pool
  <2>4. Once(c.avail) /\ C[Avail] = c.avail
    BY <2>0, <2>3 DEF Whole, Apart, Reads
  <2>5. l \in Line /\ q \in Seq(Line) /\ Once(q) /\ l \notin ToSet(q) /\ ToSet(c.avail) = {l} \cup ToSet(q)
    BY <2>1, <2>4, <1>3, <1>6, TailFacts
  <2>6. t = [c EXCEPT !.got = l, !.avail = q]
    BY <2>1, <1>4, <1>6
  <2>7. u = [c EXCEPT !.got = l, !.avail = q, !.dline = dl] /\ t.got = l
    <3>1. t.got = l /\ t.dline = c.dline
      BY <2>6, <1>3 DEF Rec
    <3>2. u = [t EXCEPT !.dline = dl]
      BY <3>1, <2>1 DEF SavLine
    <3> QED BY ONLY <3>1, <3>2, <2>6
  <2>8. dl \in [Line -> {"null", "used", "dirty"}] /\ dl[l] = "used" /\ \A k \in Line \ {l} : dl[k] = c.dline[k]
    BY ONLY <2>1, <2>5, <1>3
  <2>9. u \in Rec
    BY ONLY <2>5, <2>7, <2>8, <1>3 DEF Rec
  <2>10. /\ SameUse(c, u) /\ u.errs = c.errs /\ u.other = c.other /\ u.got = l /\ u.leaked = c.leaked
         /\ u.dline = dl /\ u.avail = q /\ u.free = c.free /\ u.chunks = c.chunks
    BY ONLY <2>7, <1>3 DEF Rec, SameUse
  <2>11. PICK C2 : C2 = Contents(u)
    OBVIOUS
  <2>12. Reads(u, C2)
    BY <2>9, <2>11, ContentsReads
  <2>13. \A h \in Place \ {Avail} : C2[h] = C[h]
    <3>1. Elsewhere(c, u, {Avail})
      BY <2>10 DEF Elsewhere, SameUse
    <3> QED BY <3>1, <2>3, <2>12, SamePlaces
  <2>14. C2[Avail] = q
    BY <2>10, <2>12 DEF Reads
  <2>15. Lying(C, {Avail}) = {l} \cup ToSet(q) /\ Lying(C2, {Avail}) = ToSet(q)
    <3>1. Lying(C, {Avail}) = ToSet(C[Avail]) /\ Lying(C2, {Avail}) = ToSet(C2[Avail])
      BY DEF Lying
    <3> QED BY <3>1, <2>4, <2>5, <2>14
  <2>16. Lying(C, {Avail}) \subseteq Lying(C, Place)
    BY <2>0 DEF Lying
  <2>17. Disjoint(Lying(C, Place), c.leaked, X)
    BY <2>3 DEF Whole
  <2>18. l \notin X /\ l \notin c.leaked
    BY <2>15, <2>16, <2>17 DEF Disjoint
  <2>19. Disjoint(ToSet(q), c.leaked, X \cup {l})
    BY <2>5, <2>15, <2>16, <2>17, <2>18 DEF Disjoint
  <2>20. Addressed(C2, dl, c.leaked, X \cup {l}, {Avail})
    <3>1. \A k \in ToSet(q) : k \in Line \ {l} /\ c.dline[k] # "used"
      <4>1. \A k \in ToSet(C[Avail]) : c.dline[k] # "used"
        BY <2>0, <2>3 DEF Whole, Addressed
      <4> QED BY <4>1, <2>4, <2>5, ListFacts
    <3>2. \A k \in c.leaked \cup X : k \in Line /\ c.dline[k] = "used"
      BY <2>3 DEF Whole, Addressed
    <3>3. \A k \in ToSet(q) : dl[k] # "used"
      BY <3>1, <2>8
    <3>4. \A k \in c.leaked \cup (X \cup {l}) : dl[k] = "used"
      BY <3>2, <2>8
    <3> QED BY <3>3, <3>4, <2>0, <2>14 DEF Addressed
  <2>21. Moves(C, c.dline, c.leaked, X, C2, dl, c.leaked, X \cup {l}, {Avail})
    <3>1. Apart(C2, {Avail})
      BY <2>5, <2>14 DEF Apart
    <3>2. \A k \in Line \ (Lying(C, {Avail}) \cup c.leaked \cup X) : (dl[k] = "used") <=> (c.dline[k] = "used")
      BY <2>8, <2>15
    <3>3. Lying(C2, {Avail}) \cup c.leaked \cup (X \cup {l}) = Lying(C, {Avail}) \cup c.leaked \cup X
      BY <2>15
    <3>4. C2 \in [Place -> Seq(Line)]
      BY <2>12 DEF Reads
    <3> QED BY <3>1, <3>2, <3>3, <3>4, <2>0, <2>13, <2>15, <2>19, <2>20 DEF Moves
  <2>22. Whole(C2, dl, ToSet(c.chunks), c.leaked, X \cup {l})
    BY <2>3, <2>21, Rearranged
  <2>23. Refs(u)
    BY <2>10, <1>2, SameRefs DEF Sound
  <2>24. Looks(u)
    BY <2>10, <1>2 DEF Sound, Looks, SameUse
  <2>25. Sound(u, X \cup {l})
    BY <2>9, <2>10, <2>11, <2>22, <2>23, <2>24 DEF Sound
  <2>26. l # NULL
    BY <2>5 DEF Line, NULL
  <2>27. SameUse(c, t)
    BY ONLY <2>6, <1>3 DEF Rec, SameUse
  <2>28. SameUse(s, u) /\ SameUse(s, t)
    BY <2>10, <2>27, <1>2, SameUseTwice
  <2> QED BY <2>5, <2>7, <2>10, <2>18, <2>25, <2>26, <2>28 DEF Supplies
<1> QED BY <1>5, <1>6

-----------------------------------------------------------------------------
(* Lines that are taken in hand and put down                               *)

\* Lines go from a place that is not of the pool to the hand, or back.
Hands(s, t, h, X, X2) ==
  /\ Elsewhere(s, t, {h}) /\ t.chunks = s.chunks /\ t.leaked = s.leaked /\ t.dline = s.dline
  /\ Once(Contents(t)[h]) /\ ToSet(Contents(t)[h]) \cap X2 = {}
  /\ ToSet(Contents(t)[h]) \cup X2 = ToSet(Contents(s)[h]) \cup X

(* Lines are taken from a place, or put there.                             *)
LEMMA Handed ==
  ASSUME NEW s, NEW X, Sound(s, X), NEW t, t \in Rec, NEW h, h \in Place, h \notin Pool,
         NEW X2, Hands(s, t, h, X, X2)
  PROVE  Whole(Contents(t), t.dline, ToSet(t.chunks), t.leaked, X2)
<1>1. PICK C, C2, lk, dl, ck : C = Contents(s) /\ C2 = Contents(t) /\ lk = s.leaked /\ dl = s.dline /\ ck = ToSet(s.chunks)
  OBVIOUS
<1>2. Reads(s, C) /\ Reads(t, C2)
  BY <1>1, ContentsReads DEF Sound
<1>3. Whole(C, dl, ck, lk, X)
  BY <1>1 DEF Sound
<1>4. /\ Once(C2[h]) /\ ToSet(C2[h]) \cap X2 = {} /\ ToSet(C2[h]) \cup X2 = ToSet(C[h]) \cup X
      /\ Elsewhere(s, t, {h}) /\ t.leaked = lk /\ t.dline = dl /\ ToSet(t.chunks) = ck
  BY <1>1 DEF Hands
<1>5. \A g \in Place \ {h} : C2[g] = C[g]
  BY <1>2, <1>4, SamePlaces
<1>6. Lying(C, {h}) = ToSet(C[h]) /\ Lying(C2, {h}) = ToSet(C2[h]) /\ Lying(C, {h}) \subseteq Lying(C, Place)
  BY DEF Lying
<1>7. Disjoint(Lying(C, Place), lk, X)
  BY <1>3 DEF Whole
<1>8. Disjoint(ToSet(C2[h]), lk, X2)
  BY <1>4, <1>6, <1>7 DEF Disjoint
<1>9. Addressed(C2, dl, lk, X2, {h})
  <2>1. \A l \in ToSet(C[h]) \cup X \cup lk : dl[l] = "used"
    BY <1>3 DEF Whole, Addressed
  <2> QED BY <2>1, <1>4 DEF Addressed
<1>10. Moves(C, dl, lk, X, C2, dl, lk, X2, {h})
  <2>1. Apart(C2, {h})
    BY <1>4 DEF Apart
  <2>2. Lying(C2, {h}) \cup lk \cup X2 = Lying(C, {h}) \cup lk \cup X
    BY <1>4, <1>6
  <2>3. C2 \in [Place -> Seq(Line)]
    BY <1>2 DEF Reads
  <2> QED BY <2>1, <2>2, <2>3, <1>5, <1>6, <1>8, <1>9 DEF Moves
<1>11. Whole(C2, dl, ck, lk, X2)
  BY <1>3, <1>10, Rearranged
<1> QED BY <1>1, <1>4, <1>11

\* X is in hand: where else its lines are not, and that they are used ones.
InHand(s, X) ==
  /\ \A h \in Place : ToSet(Contents(s)[h]) \cap X = {}
  /\ X \cap s.leaked = {} /\ X \subseteq Line

(* Lines that are in hand are nowhere else.                                *)
LEMMA HandFacts ==
  ASSUME NEW s, NEW X, Sound(s, X)
  PROVE  /\ InHand(s, X)
         /\ \A b \in Buffers : Once(s.text[b]) /\ ToSet(s.text[b]) \cap X = {}
         /\ \A k \in Kills : Once(s.kill[k]) /\ ToSet(s.kill[k]) \cap X = {}
         /\ Once(s.kept) /\ ToSet(s.kept) \cap X = {} /\ Once(s.copy) /\ ToSet(s.copy) \cap X = {}
<1>1. PICK C : C = Contents(s)
  OBVIOUS
<1>2. Reads(s, C)
  BY <1>1, ContentsReads DEF Sound
<1>3. Whole(C, s.dline, ToSet(s.chunks), s.leaked, X)
  BY <1>1 DEF Sound
<1>4. \A h \in Place : ToSet(C[h]) \cap X = {} /\ Once(C[h])
  <2>1. \A h \in Place : ToSet(C[h]) \subseteq Lying(C, Place)
    BY DEF Lying
  <2> QED BY <2>1, <1>3 DEF Whole, Disjoint, Apart
<1>5. X \cap s.leaked = {} /\ X \subseteq Line
  BY <1>3 DEF Whole, Disjoint
<1> QED BY <1>1, <1>2, <1>4, <1>5, PlaceFacts DEF InHand, Reads, PlacesAre

(* Lines in hand are freed.                                                *)
LEMMA GoodFreed ==
  ASSUME NEW s, NEW X, NEW list, list \in Seq(Line), Once(list), X \cap ToSet(list) = {},
         Sound(s, X \cup ToSet(list)), NEW t, t = lfreelist(s, list)
  PROVE  /\ Sound(t, X) /\ SameUse(s, t) /\ t.errs = s.errs /\ t.other = s.other /\ t.got = s.got
         /\ t.err = s.err /\ t.avail = s.avail /\ t.chunks = s.chunks
<1>1. s \in Rec /\ s.free \in Seq(Line) /\ s.dline \in [Line -> {"null", "used", "dirty"}]
  BY DEF Sound, Rec
<1>2. PICK Y, q, r, dl : /\ Y = ToSet(list) /\ r = Reverse(list) /\ q = r \o s.free
                         /\ dl = [l \in Line |-> IF l \in Y THEN "null" ELSE s.dline[l]]
  OBVIOUS
<1>3. t = [s EXCEPT !.dline = dl, !.free = q]
  BY <1>2 DEF lfreelist
<1>4. r \in Seq(Line) /\ ToSet(r) = Y /\ Once(r)
  BY <1>2, ReverseFacts
<1>5. q \in Seq(Line) /\ Joins(r, s.free, q)
  <2>1. r \in Seq(Line) /\ s.free \in Seq(Line) /\ q = r \o s.free
    BY <1>1, <1>2, <1>4
  <2> QED BY ONLY <2>1, JoinFacts
<1>6. dl \in [Line -> {"null", "used", "dirty"}]
  BY <1>1, <1>2
<1>7. t \in Rec
  BY ONLY <1>1, <1>3, <1>5, <1>6 DEF Rec
<1>8. /\ SameUse(s, t) /\ t.errs = s.errs /\ t.other = s.other /\ t.got = s.got /\ t.err = s.err
      /\ t.avail = s.avail /\ t.chunks = s.chunks /\ t.leaked = s.leaked /\ t.free = q /\ t.dline = dl
  BY ONLY <1>1, <1>3 DEF Rec, SameUse
<1>9. PICK C, C2, lk, ck : C = Contents(s) /\ C2 = Contents(t) /\ lk = s.leaked /\ ck = ToSet(s.chunks)
  OBVIOUS
<1>10. Reads(s, C) /\ Reads(t, C2)
  BY <1>1, <1>7, <1>9, ContentsReads
<1>11. Whole(C, s.dline, ck, lk, X \cup Y)
  BY <1>2, <1>9 DEF Sound
<1>12. \A h \in Place \ {Free} : C2[h] = C[h]
  <2>1. Elsewhere(s, t, {Free})
    BY <1>8 DEF Elsewhere, SameUse
  <2> QED BY <2>1, <1>10, SamePlaces
<1>0. Free \in Place /\ Free \in Pool
  BY PlaceFacts DEF PlacesAre, Pool
<1>13. C[Free] = s.free /\ C2[Free] = q
  BY <1>8, <1>10 DEF Reads
<1>14. Disjoint(Lying(C, Place), lk, X \cup Y)
  BY <1>11 DEF Whole
<1>15. Lying(C, {Free}) = ToSet(s.free) /\ Lying(C2, {Free}) = ToSet(q) /\ ToSet(s.free) \subseteq Lying(C, Place)
  BY <1>0, <1>13 DEF Lying
<1>16. Once(s.free)
  BY <1>0, <1>11, <1>13 DEF Whole, Apart
<1>17. ToSet(q) = Y \cup ToSet(s.free) /\ Once(q)
  BY <1>4, <1>5, <1>14, <1>15, <1>16 DEF Joins, Disjoint
<1>18. Disjoint(ToSet(q), lk, X)
  BY <1>2, <1>14, <1>15, <1>17 DEF Disjoint
<1>19. Addressed(C2, dl, lk, X, {Free})
  <2>1. \A l \in ToSet(s.free) : l \in Line /\ s.dline[l] # "used"
    BY <1>0, <1>1, <1>11, <1>13, ListFacts DEF Whole, Addressed
  <2>2. \A l \in lk \cup X : l \in Line /\ s.dline[l] = "used" /\ l \notin Y
    BY <1>2, <1>11, <1>14 DEF Whole, Addressed, Disjoint
  <2>3. \A l \in ToSet(q) : dl[l] # "used"
    <3>1. Y \subseteq Line
      BY <1>2, ListFacts
    <3> QED BY <3>1, <2>1, <1>2, <1>17
  <2>4. \A l \in lk \cup X : dl[l] = "used"
    BY <2>2, <1>2
  <2> QED BY <2>3, <2>4, <1>0, <1>13 DEF Addressed
<1>20. Moves(C, s.dline, lk, X \cup Y, C2, dl, lk, X, {Free})
  <2>1. Apart(C2, {Free})
    BY <1>13, <1>17 DEF Apart
  <2>2. Lying(C2, {Free}) \cup lk \cup X = Lying(C, {Free}) \cup lk \cup (X \cup Y)
    BY <1>15, <1>17
  <2>3. C2 \in [Place -> Seq(Line)]
    BY <1>10 DEF Reads
  <2>4. \A l \in Line \ (Lying(C, {Free}) \cup lk \cup (X \cup Y)) : (dl[l] = "used") <=> (s.dline[l] = "used")
    BY <1>2
  <2> QED BY <2>1, <2>2, <2>3, <2>4, <1>0, <1>12, <1>15, <1>18, <1>19 DEF Moves
<1>21. Whole(C2, dl, ck, lk, X)
  BY <1>11, <1>20, Rearranged
<1>22. Refs(t)
  BY <1>8, SameRefs DEF Sound
<1>23. Looks(t)
  BY <1>8 DEF Sound, Looks, SameUse
<1> QED BY <1>7, <1>8, <1>9, <1>21, <1>22, <1>23 DEF Sound

-----------------------------------------------------------------------------
(* Marks                                                                   *)

\* What routines of marks leave alone.
Frame(s, t) ==
  /\ t.avail = s.avail /\ t.free = s.free /\ t.chunks = s.chunks /\ t.world = s.world
  /\ t.text = s.text /\ t.dot = s.dot /\ t.cur = s.cur /\ t.kill = s.kill /\ t.kptr = s.kptr
  /\ t.errs = s.errs /\ t.perr = s.perr /\ t.other = s.other /\ t.leaked = s.leaked
  /\ t.got = s.got /\ t.kept = s.kept /\ t.copy = s.copy
\* The same lines are used.
SameUsed(s, t) == \A l \in Line : (t.dline[l] = "used") <=> (s.dline[l] = "used")
MarkedAt(s, b) == \A i \in Marks : s.ring[b][i] \in ToSet(s.text[b]) \cup {NULL}
Marked(s) == \A b \in Buffers : (s.text[b] # <<>> \/ b \notin s.world) => MarkedAt(s, b)

(* A routine that leaves all but marks alone.                              *)
LEMMA FrameSound ==
  ASSUME NEW s, NEW X, Sound(s, X), NEW t, t \in Rec, Frame(s, t), SameUsed(s, t), Marked(t)
  PROVE  Sound(t, X)
<1>1. SameWhere(s, t)
  BY DEF SameWhere, Elsewhere, Frame, SameUsed
<1>2. Whole(Contents(t), t.dline, ToSet(t.chunks), t.leaked, X)
  BY <1>1, SameWhole
<1>3. Refs(t)
  <2>1. /\ \A b \in Buffers : (s.text[b] # <<>>) => s.dot[b] \in 1 .. Len(s.text[b])
        /\ \A b \in Buffers \ s.world : s.text[b] = <<>>
    BY DEF Sound, Refs
  <2>2. \A b \in Buffers : (t.text[b] # <<>> \/ b \notin t.world) =>
          \A i \in Marks : t.ring[b][i] \in ToSet(t.text[b]) \cup {NULL}
    BY DEF Marked, MarkedAt
  <2>3. t.text = s.text /\ t.dot = s.dot /\ t.world = s.world
    BY DEF Frame
  <2> QED BY ONLY <2>1, <2>2, <2>3 DEF Refs
<1>4. Looks(t)
  <2>1. t.text = s.text /\ t.other = s.other /\ t.errs = s.errs /\ Looks(s)
    BY DEF Frame, Sound
  <2> QED BY ONLY <2>1 DEF Looks
<1> QED BY <1>2, <1>3, <1>4 DEF Sound

(* makedirty.                                                              *)
LEMMA GoodMakedirty ==
  ASSUME NEW s, NEW X, Sound(s, X), NEW l, NEW t, t = makedirty(s, l)
  PROVE  Sound(t, X) /\ Frame(s, t) /\ t.ring = s.ring /\ t.tm = s.tm
<1>1. s \in Rec /\ s.dline \in [Line -> {"null", "used", "dirty"}]
  BY DEF Sound, Rec
<1>2. PICK dl : dl = [s.dline EXCEPT ![l] = IF s.dline[l] = "null" THEN "dirty" ELSE s.dline[l]]
  OBVIOUS
<1>3. t = [s EXCEPT !.dline = dl]
  BY <1>2 DEF makedirty
<1>4. dl \in [Line -> {"null", "used", "dirty"}] /\ \A k \in Line : (dl[k] = "used") <=> (s.dline[k] = "used")
  <2>1. ASSUME NEW k \in Line
        PROVE  dl[k] = IF k = l THEN (IF s.dline[l] = "null" THEN "dirty" ELSE s.dline[l]) ELSE s.dline[k]
    BY <1>1, <1>2
  <2>2. \A k \in Line : dl[k] \in {"null", "used", "dirty"} /\ ((dl[k] = "used") <=> (s.dline[k] = "used"))
    BY <2>1, <1>1
  <2>3. DOMAIN dl = Line /\ dl = [k \in Line |-> dl[k]]
    BY <1>1, <1>2
  <2> QED BY <2>2, <2>3
<1>5. t \in Rec
  BY ONLY <1>1, <1>3, <1>4 DEF Rec
<1>6. Frame(s, t) /\ t.ring = s.ring /\ t.tm = s.tm /\ t.dline = dl
  BY ONLY <1>1, <1>3 DEF Rec, Frame
<1>7. SameUsed(s, t)
  BY <1>4, <1>6 DEF SameUsed
<1>8. Marked(t)
  <2>1. t.text = s.text /\ t.world = s.world /\ t.ring = s.ring
    BY <1>6 DEF Frame
  <2>2. Refs(s)
    BY DEF Sound
  <2> QED BY ONLY <2>1, <2>2 DEF Refs, Marked, MarkedAt
<1> QED BY <1>5, <1>6, <1>7, <1>8, FrameSound

\* Marks of the current buffer on lines ls are now on l.
MarksMoved(s, ls, l, t) ==
  /\ Frame(s, t) /\ t.tm = s.tm /\ t.dline = s.dline
  /\ \A b \in Buffers \ {s.cur} : t.ring[b] = s.ring[b]
  /\ \A i \in Marks : t.ring[s.cur][i] = IF s.ring[s.cur][i] \in ls THEN l ELSE s.ring[s.cur][i]

(* Marks move to a line of the buffer.                                     *)
LEMMA GoodMoveMarks ==
  ASSUME NEW s, NEW X, Sound(s, X), NEW ls, NEW l, ls = {} \/ l \in ToSet(s.text[s.cur]),
         NEW t, t = MoveMarks(s, ls, l)
  PROVE  Sound(t, X) /\ MarksMoved(s, ls, l, t)
<1>1. s \in Rec /\ s.ring \in [Buffers -> [Marks -> Line \cup {NULL}]] /\ s.cur \in Buffers
      /\ s.text[s.cur] \in Seq(Line)
  BY DEF Sound, Rec
<1>2. PICK b, m, ring : /\ b = s.cur
                        /\ m = [i \in Marks |-> IF s.ring[b][i] \in ls THEN l ELSE s.ring[b][i]]
                        /\ ring = [s.ring EXCEPT ![b] = m]
  OBVIOUS
<1>3. t = [s EXCEPT !.ring = ring]
  <2>1. DOMAIN s.ring[b] = Marks
    BY <1>1, <1>2
  <2>2. t = [s EXCEPT !.ring = [s.ring EXCEPT ![b] = [i \in DOMAIN s.ring[b] |-> IF s.ring[b][i] \in ls THEN l ELSE s.ring[b][i]]]]
    BY <1>2 DEF MoveMarks
  <2> QED BY <2>1, <2>2, <1>2
<1>4. ls = {} \/ l \in Line
  BY <1>1, ListFacts
<1>5. m \in [Marks -> Line \cup {NULL}]
  BY <1>1, <1>2, <1>4
<1>6. ring \in [Buffers -> [Marks -> Line \cup {NULL}]] /\ ring[b] = m /\ \A c \in Buffers \ {b} : ring[c] = s.ring[c]
  BY <1>1, <1>2, <1>5
<1>7. t \in Rec
  BY ONLY <1>1, <1>3, <1>6 DEF Rec
<1>8. Frame(s, t) /\ t.tm = s.tm /\ t.dline = s.dline /\ t.ring = ring
  BY ONLY <1>1, <1>3 DEF Rec, Frame
<1>9. MarksMoved(s, ls, l, t)
  <2>1. \A i \in Marks : ring[b][i] = IF s.ring[b][i] \in ls THEN l ELSE s.ring[b][i]
    BY <1>2, <1>6
  <2> QED BY <2>1, <1>2, <1>6, <1>8 DEF MarksMoved
<1>10. Marked(t)
  <2>1. ASSUME NEW c \in Buffers, s.text[c] # <<>> \/ c \notin s.world PROVE MarkedAt(t, c)
    <3>1. MarkedAt(s, c)
      BY <2>1 DEF Sound, Refs, MarkedAt
    <3>2. CASE c # b
      BY <3>1, <3>2, <1>6, <1>8 DEF MarkedAt, Frame
    <3>3. CASE c = b
      <4>1. \A i \in Marks : (t.ring[c][i] = l /\ ls # {}) \/ t.ring[c][i] = s.ring[c][i]
        BY <3>3, <1>2, <1>6, <1>8
      <4> QED BY <4>1, <3>1, <3>3, <1>2, <1>8 DEF MarkedAt, Frame
    <3> QED BY <3>2, <3>3
  <2> QED BY <2>1, <1>8 DEF Marked, Frame
<1>11. SameUsed(s, t)
  BY <1>8 DEF SameUsed
<1> QED BY <1>7, <1>8, <1>9, <1>10, <1>11, FrameSound

-----------------------------------------------------------------------------
(* Lines of the current buffer                                             *)

\* What changes of the lines of the current buffer leave alone.
SameHold(s, t) ==
  /\ t.world = s.world /\ t.cur = s.cur /\ t.kill = s.kill /\ t.kptr = s.kptr /\ t.perr = s.perr
  /\ t.leaked = s.leaked /\ t.got = s.got /\ t.kept = s.kept /\ t.copy = s.copy /\ t.tm = s.tm
  /\ \A b \in Buffers \ {s.cur} : t.text[b] = s.text[b]

\* Places i to j are of the current buffer.
Within(s, i, j) == i \in Int /\ j \in Int /\ 1 <= i /\ i <= j /\ j <= Len(s.text[s.cur])

\* What patchup leaves when lines ls are about to go.
PatchedUp(s, i, ls, t) ==
  /\ SameHold(s, t) /\ t.text = s.text
  /\ t.dot[s.cur] = i
  /\ \A k \in Marks : t.ring[s.cur][k] \notin ls
  /\ t.other.buf = s.cur /\ t.other.line \in ls => t.other.gone

DotAt(s, b, i, t) == b \in Buffers /\ i \in 1 .. Len(s.text[b]) /\ t = [s EXCEPT !.dot[b] = i]

(* The point goes to a line of the buffer.                                 *)
LEMMA GoodDot ==
  ASSUME NEW s, NEW X, Sound(s, X), NEW b, NEW i, NEW t, DotAt(s, b, i, t)
  PROVE  Sound(t, X) /\ SameHold(s, t) /\ t.text = s.text /\ t.dot[b] = i /\ t.ring = s.ring
         /\ t.other = s.other /\ t.errs = s.errs
<1>0. b \in Buffers /\ i \in 1 .. Len(s.text[b]) /\ t = [s EXCEPT !.dot[b] = i]
  BY DEF DotAt
<1> USE <1>0
<1>1. s \in Rec /\ s.dot \in [Buffers -> Int] /\ s.text[b] \in Seq(Line)
  BY DEF Sound, Rec
<1>2. PICK dot_ : dot_ = [s.dot EXCEPT ![b] = i]
  OBVIOUS
<1>3. t = [s EXCEPT !.dot = dot_]
  BY <1>2
<1>4. dot_ \in [Buffers -> Int] /\ dot_[b] = i /\ \A c \in Buffers \ {b} : dot_[c] = s.dot[c]
  BY <1>1, <1>2
<1>5. t \in Rec
  BY ONLY <1>1, <1>3, <1>4 DEF Rec
<1>6. /\ SameHold(s, t) /\ t.text = s.text /\ t.dot = dot_ /\ t.ring = s.ring /\ t.other = s.other /\ t.world = s.world
      /\ t.errs = s.errs /\ t.dline = s.dline /\ t.avail = s.avail /\ t.free = s.free /\ t.chunks = s.chunks
  BY ONLY <1>1, <1>3 DEF Rec, SameHold
<1>7. Whole(Contents(t), t.dline, ToSet(t.chunks), t.leaked, X)
  <2>1. SameWhere(s, t)
    BY <1>6 DEF SameWhere, Elsewhere, SameHold
  <2> QED BY <2>1, <1>5, SameWhole
<1>8. Refs(t)
  <2>1. Refs(s) /\ t.world = s.world
    BY <1>6 DEF Sound, SameHold
  <2> QED BY ONLY <2>1, <1>0, <1>4, <1>6 DEF Refs
<1>9. Looks(t)
  BY <1>6 DEF Sound, Looks
<1> QED BY <1>4, <1>5, <1>6, <1>7, <1>8, <1>9 DEF Sound

(* The window whose line goes is told.                                     *)
LEMMA GoodChkWindows ==
  ASSUME NEW s, NEW X, Sound(s, X), NEW ls, NEW t, t = ChkWindows(s, ls)
  PROVE  Sound(t, X) /\ SameHold(s, t) /\ t.text = s.text /\ t.dot = s.dot /\ t.ring = s.ring
         /\ (t.other.buf = s.cur /\ t.other.line \in ls => t.other.gone)
<1>1. s \in Rec /\ s.other \in Wind /\ s.cur \in Buffers
  BY DEF Sound, Rec
<1>2. PICK gone, o : /\ gone = (s.other.gone \/ (s.other.buf = s.cur /\ s.other.line \in ls))
                     /\ o = [s.other EXCEPT !.gone = gone]
  OBVIOUS
<1>3. t = [s EXCEPT !.other = o]
  BY <1>2 DEF ChkWindows
<1>4. gone \in BOOLEAN
  <2>1. s.other.gone \in BOOLEAN
    BY <1>1 DEF Wind
  <2> QED BY <2>1, <1>2
<1>5. /\ o \in Wind /\ o.gone = gone /\ o.buf = s.other.buf /\ o.line = s.other.line
      /\ o.stale = s.other.stale /\ o.cleared = s.other.cleared
  BY ONLY <1>1, <1>2, <1>4 DEF Wind
<1>6. t \in Rec
  BY ONLY <1>1, <1>3, <1>5 DEF Rec
<1>7. /\ SameHold(s, t) /\ t.text = s.text /\ t.dot = s.dot /\ t.ring = s.ring /\ t.other = o
      /\ t.errs = s.errs /\ t.dline = s.dline /\ t.avail = s.avail /\ t.free = s.free /\ t.chunks = s.chunks
  BY ONLY <1>1, <1>3 DEF Rec, SameHold
<1>8. Whole(Contents(t), t.dline, ToSet(t.chunks), t.leaked, X)
  <2>1. SameWhere(s, t)
    BY <1>7 DEF SameWhere, Elsewhere, SameHold
  <2> QED BY <2>1, <1>6, SameWhole
<1>9. Refs(t)
  <2>1. Refs(s) /\ t.world = s.world
    BY <1>7 DEF Sound, SameHold
  <2> QED BY ONLY <2>1, <1>7 DEF Refs
<1>10. s.other.gone => gone
  BY <1>2
<1>11. Looks(t)
  <2>1. Looks(s)
    BY DEF Sound
  <2>2. Shows(o, t.text) \/ o.gone \/ o.cleared
    BY <2>1, <1>5, <1>7, <1>10 DEF Looks, Shows
  <2>3. o.gone => o.buf \in Buffers
    BY <2>1, <1>1, <1>2, <1>5 DEF Looks
  <2>4. o.stale => o.gone \/ o.cleared
    BY <2>1, <1>5, <1>10 DEF Looks
  <2>5. \A i \in DOMAIN t.errs : t.errs[i].stale => t.errs[i].fooled
    BY <2>1, <1>7 DEF Looks
  <2> QED BY <2>2, <2>3, <2>4, <2>5, <1>7 DEF Looks
<1>12. o.buf = s.cur /\ o.line \in ls => o.gone
  BY <1>2, <1>5
<1> QED BY <1>6, <1>7, <1>8, <1>9, <1>11, <1>12 DEF Sound

(* Whatever else refers to lines i + 1 to j is told that they go.          *)
LEMMA GoodPatchup ==
  ASSUME NEW s, NEW X, Sound(s, X), NEW i, NEW j, Within(s, i, j),
         NEW ls, ls = ToSet(SubSeq(s.text[s.cur], i + 1, j)), NEW t, t = patchup(s, i, j)
  PROVE  Sound(t, X) /\ PatchedUp(s, i, ls, t)
<1>1. s \in Rec /\ s.cur \in Buffers /\ s.text[s.cur] \in Seq(Line) /\ Once(s.text[s.cur])
  <2>1. s \in Rec /\ s.cur \in Buffers /\ s.text[s.cur] \in Seq(Line)
    BY DEF Sound, Rec
  <2> QED BY <2>1, HandFacts
<1>2. PICK b, tx, q, l, d, w, m :
        /\ b = s.cur /\ tx = s.text[b] /\ q = SubSeq(tx, i + 1, j) /\ l = tx[i]
        /\ d = [s EXCEPT !.dot[b] = i] /\ w = ChkWindows(d, ls) /\ m = MoveMarks(w, ls, l)
  OBVIOUS
<1>3. t = makedirty(m, l)
  BY <1>2 DEF patchup
<1>4. i \in 1 .. Len(tx) /\ tx \in Seq(Line) /\ Once(tx) /\ Len(tx) \in Nat
  <2>1. tx \in Seq(Line) /\ Once(tx)
    BY <1>1, <1>2
  <2>2. Len(tx) \in Nat
    BY ONLY <2>1, ListFacts
  <2>3. i \in Int /\ 1 <= i /\ i <= Len(tx)
    BY <1>2, <2>2 DEF Within
  <2> QED BY ONLY <2>1, <2>2, <2>3
<1>5. l \in ToSet(tx) /\ l \notin ls
  <2>1. l \in ToSet(tx)
    BY <1>2, <1>4, ListFacts
  <2>2. PICK r : r = SubSeq(tx, 1, i) \o SubSeq(tx, j + 1, Len(tx))
    OBVIOUS
  <2>3. IsCut(Line, tx, i, j, q, r)
    BY <2>2, <1>2, <1>4 DEF Within, IsCut
  <2>4. ToSet(r) \cap ToSet(q) = {} /\ tx[i] \in ToSet(r)
    BY <2>3, CutFacts DEF Cuts
  <2> QED BY <2>1, <2>4, <1>2
<1>6. /\ Sound(d, X) /\ SameHold(s, d) /\ d.text = s.text /\ d.dot[b] = i /\ d.ring = s.ring
  <2>1. Sound(s, X) /\ DotAt(s, b, i, d)
    BY <1>1, <1>2, <1>4 DEF DotAt
  <2> QED BY ONLY <2>1, GoodDot
<1>7. /\ Sound(w, X) /\ SameHold(d, w) /\ w.text = d.text /\ w.dot = d.dot /\ w.ring = d.ring
      /\ (w.other.buf = d.cur /\ w.other.line \in ls => w.other.gone)
  <2>1. Sound(d, X) /\ w = ChkWindows(d, ls)
    BY <1>2, <1>6
  <2> QED BY ONLY <2>1, GoodChkWindows
<1>8. w.cur = b /\ w.text = s.text /\ w.dot[b] = i
  BY <1>2, <1>6, <1>7 DEF SameHold
<1>9. Sound(m, X) /\ MarksMoved(w, ls, l, m)
  <2>1. l \in ToSet(w.text[w.cur])
    BY <1>2, <1>5, <1>8
  <2>2. m = MoveMarks(w, ls, l)
    BY <1>2
  <2> QED BY ONLY <2>1, <2>2, <1>7, GoodMoveMarks
<1>10. Sound(t, X) /\ Frame(m, t) /\ t.ring = m.ring /\ t.tm = m.tm
  BY <1>3, <1>9, GoodMakedirty
<1>11. SameHold(s, w)
  <2>1. SameHold(s, d) /\ SameHold(d, w)
    BY <1>6, <1>7
  <2> QED BY ONLY <2>1 DEF SameHold
<1>12. SameHold(s, t) /\ t.text = s.text /\ t.dot = w.dot /\ t.other = w.other
  BY <1>8, <1>9, <1>10, <1>11 DEF SameHold, MarksMoved, Frame
<1>13. \A k \in Marks : t.ring[b][k] \notin ls
  BY <1>5, <1>8, <1>9, <1>10 DEF MarksMoved
<1>14. t.other.buf = b /\ t.other.line \in ls => t.other.gone
  BY <1>2, <1>6, <1>7, <1>12 DEF SameHold
<1> QED BY <1>2, <1>8, <1>10, <1>12, <1>13, <1>14 DEF PatchedUp

\* Nothing else refers to the lines ls behind i.
Unreferred(s, i, ls) ==
  /\ s.dot[s.cur] = i
  /\ \A k \in Marks : s.ring[s.cur][k] \notin ls
  /\ s.other.buf = s.cur /\ s.other.line \in ls => s.other.gone
\* t has lines ls, those after l, no longer; they are in hand (with X).
CutOut(s, l, ls, X, t) ==
  /\ SameHold(s, t) /\ l \in ToSet(t.text[s.cur])
  /\ ls \in Seq(Line) /\ Once(ls) /\ X \cap ToSet(ls) = {}
  /\ ToSet(t.text[s.cur]) \subseteq ToSet(s.text[s.cur])

(* Lines are cut out of the current buffer.                                *)
LEMMA GoodCut ==
  ASSUME NEW s, NEW X, Sound(s, X), NEW i, NEW j, Within(s, i, j),
         NEW ls, ls = SubSeq(s.text[s.cur], i + 1, j), Unreferred(s, i, ToSet(ls)), NEW t, t = Cut(s, i, j)
  PROVE  Sound(t, X \cup ToSet(ls)) /\ CutOut(s, s.text[s.cur][i], ls, X, t)
<1>1. s \in Rec /\ s.cur \in Buffers /\ s.text \in [Buffers -> Seq(Line)]
  BY DEF Sound, Rec
<1>2. PICK b, tx, r, text_, l :
        /\ b = s.cur /\ tx = s.text[b] /\ r = SubSeq(tx, 1, i) \o SubSeq(tx, j + 1, Len(tx))
        /\ text_ = [s.text EXCEPT ![b] = r] /\ l = tx[i]
  OBVIOUS
<1>3. t = [s EXCEPT !.text = text_]
  BY <1>2 DEF Cut
<1>4. tx \in Seq(Line) /\ Once(tx) /\ ToSet(tx) \cap X = {} /\ b \in Buffers
  BY <1>1, <1>2, HandFacts
<1>5. IsCut(Line, tx, i, j, ls, r)
  BY <1>2, <1>4 DEF IsCut, Within
<1>6. r \in Seq(Line) /\ ls \in Seq(Line) /\ Cuts(tx, i, j, ls, r)
  BY <1>5, CutFacts
<1>7. text_ \in [Buffers -> Seq(Line)] /\ text_[b] = r /\ \A c \in Buffers \ {b} : text_[c] = s.text[c]
  BY <1>1, <1>2, <1>6
<1>8. t \in Rec
  BY ONLY <1>1, <1>3, <1>7 DEF Rec
<1>9. /\ t.text = text_ /\ t.dot = s.dot /\ t.ring = s.ring /\ t.other = s.other /\ t.world = s.world
      /\ t.errs = s.errs /\ t.dline = s.dline /\ t.avail = s.avail /\ t.free = s.free /\ t.chunks = s.chunks
      /\ t.cur = s.cur /\ t.kill = s.kill /\ t.kptr = s.kptr /\ t.perr = s.perr
      /\ t.leaked = s.leaked /\ t.got = s.got /\ t.kept = s.kept /\ t.copy = s.copy /\ t.tm = s.tm
  BY ONLY <1>1, <1>3 DEF Rec
<1>10. SameHold(s, t)
  <2>1. t.text = text_ /\ b = s.cur
    BY <1>2, <1>9
  <2>2. \A c \in Buffers \ {s.cur} : t.text[c] = s.text[c]
    BY ONLY <2>1, <1>7
  <2> QED BY ONLY <2>2, <1>9 DEF SameHold
<1>11. CutOut(s, l, ls, X, t)
  <2>1. t.text[s.cur] = r /\ s.text[s.cur] = tx
    BY ONLY <1>2, <1>7, <1>9
  <2>2. Once(ls) /\ ToSet(r) \subseteq ToSet(tx) /\ l \in ToSet(r)
    BY <1>2, <1>6 DEF Cuts
  <2>3. X \cap ToSet(ls) = {}
    <3>1. ToSet(ls) \subseteq ToSet(tx)
      BY ONLY <1>6 DEF Cuts
    <3> QED BY ONLY <3>1, <1>4
  <2> QED BY ONLY <2>1, <2>2, <2>3, <1>6, <1>10 DEF CutOut
<1>12. Whole(Contents(t), t.dline, ToSet(t.chunks), t.leaked, X \cup ToSet(ls))
  <2>1. PICK h : h = Text(b)
    OBVIOUS
  <2>2. h \in Place /\ h \notin Pool
    BY <2>1, <1>4, PlaceFacts DEF PlacesAre, PlacesDiffer, Distinct, Pool
  <2>3. Contents(s)[h] = tx /\ Contents(t)[h] = r
    <3>1. Reads(s, Contents(s)) /\ Reads(t, Contents(t))
      BY ONLY <1>1, <1>8, ContentsReads
    <3>2. b \in Buffers /\ s.text[b] = tx /\ t.text[b] = r
      BY <1>2, <1>4, <1>7, <1>9
    <3> QED BY ONLY <3>1, <3>2, <2>1 DEF Reads
  <2>4. Elsewhere(s, t, {h})
    BY <2>1, <1>7, <1>9 DEF Elsewhere
  <2>5. Hands(s, t, h, X, X \cup ToSet(ls))
    BY <2>3, <2>4, <1>4, <1>6, <1>9 DEF Hands, Cuts
  <2> QED BY <2>2, <2>5, <1>8, Handed
<1>13. Refs(t)
  <2>0. Refs(s)
    BY DEF Sound
  <2>1. r # <<>> /\ tx # <<>> /\ t.dot[b] \in 1 .. Len(r)
    <3>1. s.dot[b] = i /\ i \in Int /\ 1 <= i /\ i <= Len(r) /\ Len(r) \in Nat
      BY <1>2, <1>6 DEF Unreferred, Within, Cuts
    <3>2. i \in 1 .. Len(r) /\ r # <<>>
      BY ONLY <3>1, <1>6, EmptySeq
    <3>3. l \in ToSet(tx)
      BY <1>2, <1>6 DEF Cuts
    <3> QED BY <3>1, <3>2, <3>3, <1>9, ShortLists
  <2>2. \A k \in Marks : t.ring[b][k] \in ToSet(r) \cup {NULL}
    <3>1. \A k \in Marks : s.ring[b][k] \in ToSet(tx) \cup {NULL} /\ s.ring[b][k] \notin ToSet(ls)
      BY <2>0, <2>1, <1>2, <1>4 DEF Refs, Unreferred
    <3> QED BY <3>1, <1>6, <1>9 DEF Cuts
  <2>3. b \in s.world
    BY <2>0, <2>1, <1>2, <1>4 DEF Refs
  <2>4. \A c \in Buffers : (t.text[c] # <<>>) => t.dot[c] \in 1 .. Len(t.text[c])
    BY <2>0, <2>1, <1>7, <1>9 DEF Refs
  <2>5. \A c \in Buffers : (t.text[c] # <<>> \/ c \notin t.world) =>
          \A k \in Marks : t.ring[c][k] \in ToSet(t.text[c]) \cup {NULL}
    BY <2>0, <2>2, <1>7, <1>9 DEF Refs
  <2>6. \A c \in Buffers \ t.world : t.text[c] = <<>>
    BY <2>0, <2>3, <1>7, <1>9 DEF Refs
  <2> QED BY <2>4, <2>5, <2>6 DEF Refs
<1>14. Looks(t)
  <2>0. Looks(s)
    BY DEF Sound
  <2>1. Shows(t.other, t.text) \/ t.other.gone \/ t.other.cleared
    <3>1. CASE Shows(s.other, s.text)
      <4>1. CASE s.other.line = NULL \/ s.other.buf # b
        BY <4>1, <3>1, <1>7, <1>9 DEF Shows
      <4>2. CASE s.other.buf = b
        <5>1. s.other.line \in ToSet(ls) => s.other.gone
          BY <4>2, <1>2 DEF Unreferred
        <5>2. s.other.line \in ToSet(tx) \/ s.other.line = NULL
          BY <4>2, <3>1, <1>2 DEF Shows
        <5> QED BY <5>1, <5>2, <4>2, <1>4, <1>6, <1>7, <1>9 DEF Shows, Cuts
      <4> QED BY <4>1, <4>2
    <3>2. CASE s.other.gone \/ s.other.cleared
      BY <3>2, <1>9
    <3> QED BY <2>0, <3>1, <3>2 DEF Looks
  <2> QED BY <2>0, <2>1, <1>9 DEF Looks
<1> QED BY <1>2, <1>8, <1>11, <1>12, <1>13, <1>14 DEF Sound

(* patchup and then the lines are cut out.                                 *)
LEMMA GoodCutUp ==
  ASSUME NEW s, NEW X, Sound(s, X), NEW i, NEW j, Within(s, i, j),
         NEW ls, ls = SubSeq(s.text[s.cur], i + 1, j), NEW t, t = Cut(patchup(s, i, j), i, j)
  PROVE  Sound(t, X \cup ToSet(ls)) /\ CutOut(s, s.text[s.cur][i], ls, X, t)
<1>1. PICK p, Y : p = patchup(s, i, j) /\ Y = ToSet(ls)
  OBVIOUS
<1>2. Sound(p, X) /\ PatchedUp(s, i, Y, p)
  BY <1>1, GoodPatchup
<1>3. p.text = s.text /\ p.cur = s.cur /\ SameHold(s, p)
  BY <1>2 DEF PatchedUp, SameHold
<1>4. Within(p, i, j)
  BY <1>3 DEF Within
<1>5. Unreferred(p, i, Y)
  BY <1>2, <1>3 DEF PatchedUp, Unreferred
<1>6. ls = SubSeq(p.text[p.cur], i + 1, j) /\ t = Cut(p, i, j) /\ Unreferred(p, i, ToSet(ls))
  BY <1>1, <1>3, <1>5
<1>7. Sound(t, X \cup ToSet(ls)) /\ CutOut(p, p.text[p.cur][i], ls, X, t)
  BY ONLY <1>2, <1>4, <1>6, GoodCut
<1> QED BY <1>3, <1>7 DEF CutOut, SameHold



(* Lines are deleted and freed.                                            *)
LEMMA GoodRemoved ==
  ASSUME NEW s, NEW X, Sound(s, X),
         NEW i, NEW j, Within(s, i, j), NEW t, t = Removed(s, i, j)
  PROVE  Sound(t, X) /\ t.kept = s.kept /\ t.copy = s.copy
<1>1. PICK c, ls : c = Cut(patchup(s, i, j), i, j) /\ ls = SubSeq(s.text[s.cur], i + 1, j)
  OBVIOUS
<1>2. Sound(c, X \cup ToSet(ls)) /\ CutOut(s, s.text[s.cur][i], ls, X, c)
  BY <1>1, GoodCutUp
<1>3. t = lfreelist(c, ls)
  BY <1>1 DEF Removed
<1>4. Sound(t, X) /\ SameUse(c, t)
  BY <1>2, <1>3, GoodFreed DEF CutOut
<1> QED BY <1>2, <1>4 DEF CutOut, SameHold, SameUse

\* The lines of list old, with those in hand (X), are those of list new and in hand then (X2).
Trade(old, X, new, X2) ==
  new \in Seq(Line) /\ Once(new) /\ ToSet(new) \cap X2 = {} /\ ToSet(new) \cup X2 = ToSet(old) \cup X

\* All of t is that of s but for the lists routines build.
SameButLists(s, t) ==
  /\ SameLists(s, t) /\ t.world = s.world /\ t.text = s.text /\ t.dot = s.dot /\ t.cur = s.cur
  /\ t.kill = s.kill /\ t.kptr = s.kptr /\ t.ring = s.ring /\ t.tm = s.tm /\ t.errs = s.errs
  /\ t.perr = s.perr /\ t.other = s.other /\ t.leaked = s.leaked /\ t.got = s.got

KeptIs(s, w, t) == t = [s EXCEPT !.kept = w]
CopyIs(s, w, t) == t = [s EXCEPT !.copy = w]

(* The list of deleted lines.                                              *)
LEMMA KeptChanged ==
  ASSUME NEW s, NEW X, Sound(s, X), NEW w, NEW X2, Trade(s.kept, X, w, X2),
         NEW t, KeptIs(s, w, t)
  PROVE  Sound(t, X2) /\ SameButLists(s, t) /\ t.copy = s.copy /\ t.kept = w
<1>0. t = [s EXCEPT !.kept = w]
  BY DEF KeptIs
<1>1. s \in Rec /\ w \in Seq(Line)
  BY DEF Sound, Trade
<1>2. t \in Rec
  BY ONLY <1>0, <1>1 DEF Rec
<1>3. SameButLists(s, t) /\ t.copy = s.copy /\ t.kept = w
  BY ONLY <1>0, <1>1 DEF Rec, SameButLists, SameLists
<1>4. Whole(Contents(t), t.dline, ToSet(t.chunks), t.leaked, X2)
  <2>1. Kept \in Place /\ Kept \notin Pool
    BY PlaceFacts DEF PlacesAre, PlacesDiffer, Distinct, Pool
  <2>2. Contents(s)[Kept] = s.kept /\ Contents(t)[Kept] = w
    <3>1. Reads(s, Contents(s)) /\ Reads(t, Contents(t))
      BY ONLY <1>1, <1>2, ContentsReads
    <3> QED BY ONLY <3>1, <1>3 DEF Reads
  <2>3. Elsewhere(s, t, {Kept})
    BY <1>3 DEF Elsewhere, SameButLists, SameLists
  <2>4. Hands(s, t, Kept, X, X2)
    BY <2>2, <2>3, <1>3 DEF Hands, SameButLists, SameLists, Trade
  <2> QED BY <2>1, <2>4, <1>2, Handed
<1>5. Refs(t) /\ Looks(t)
  BY <1>3 DEF Sound, Refs, Looks, SameButLists
<1> QED BY <1>2, <1>3, <1>4, <1>5 DEF Sound

(* The list of copied lines.                                               *)
LEMMA CopyChanged ==
  ASSUME NEW s, NEW X, Sound(s, X), NEW w, NEW X2, Trade(s.copy, X, w, X2),
         NEW t, CopyIs(s, w, t)
  PROVE  Sound(t, X2) /\ SameButLists(s, t) /\ t.kept = s.kept /\ t.copy = w
<1>0. t = [s EXCEPT !.copy = w]
  BY DEF CopyIs
<1>1. s \in Rec /\ w \in Seq(Line)
  BY DEF Sound, Trade
<1>2. t \in Rec
  BY ONLY <1>0, <1>1 DEF Rec
<1>3. SameButLists(s, t) /\ t.kept = s.kept /\ t.copy = w
  BY ONLY <1>0, <1>1 DEF Rec, SameButLists, SameLists
<1>4. Whole(Contents(t), t.dline, ToSet(t.chunks), t.leaked, X2)
  <2>1. Copied \in Place /\ Copied \notin Pool
    BY PlaceFacts DEF PlacesAre, PlacesDiffer, Distinct, Pool
  <2>2. Contents(s)[Copied] = s.copy /\ Contents(t)[Copied] = w
    <3>1. Reads(s, Contents(s)) /\ Reads(t, Contents(t))
      BY ONLY <1>1, <1>2, ContentsReads
    <3> QED BY ONLY <3>1, <1>3 DEF Reads
  <2>3. Elsewhere(s, t, {Copied})
    BY <1>3 DEF Elsewhere, SameButLists, SameLists
  <2>4. Hands(s, t, Copied, X, X2)
    BY <2>2, <2>3, <1>3 DEF Hands, SameButLists, SameLists, Trade
  <2> QED BY <2>1, <2>4, <1>2, Handed
<1>5. Refs(t) /\ Looks(t)
  BY <1>3 DEF Sound, Refs, Looks, SameButLists
<1> QED BY <1>2, <1>3, <1>4, <1>5 DEF Sound

\* What a deletion from line i leaves alone, and that line i is still there.
SameElse(s, i, t) ==
  /\ t.world = s.world /\ t.cur = s.cur /\ t.kill = s.kill /\ t.kptr = s.kptr /\ t.tm = s.tm
  /\ t.copy = s.copy /\ s.text[s.cur][i] \in ToSet(t.text[s.cur])
\* What reg_delete leaves: the deleted lines, or nothing has changed.
RegDeleted(s, i, t) ==
  \/ t.got = NULL /\ t.kept = <<>> /\ t.copy = s.copy
  \/ t.got # NULL /\ t.kept # <<>> /\ SameElse(s, i, t)

(* Lines are deleted and kept.                                             *)
LEMMA GoodRegDelete ==
  ASSUME NEW s, Sound(s, {}), s.kept = <<>>, NEW i, NEW j, Within(s, i, j), NEW t, t = reg_delete(s, i, j)
  PROVE  Sound(t, {}) /\ RegDeleted(s, i, t)
<1>1. PICK r, u : r = nbufline(s) /\ u = SavLine(r, r.got)
  OBVIOUS
<1>2. Supplies(s, r, u, {})
  BY <1>1, GoodNbufline
<1>3. CASE r.got = NULL
  <2>1. t = r
    BY <1>1, <1>3 DEF reg_delete, Deleted
  <2>2. Sound(r, {}) /\ SameUse(s, r)
    BY <1>2, <1>3 DEF Supplies
  <2> QED BY <2>1, <2>2, <1>3 DEF RegDeleted, SameUse
<1>4. CASE r.got # NULL
  <2>1. PICK l, X : l = r.got /\ X = {l}
    OBVIOUS
  <2>2. l \in Line /\ l # NULL /\ Sound(u, X) /\ SameUse(s, u) /\ u.got = l
    <3>1. {} \cup {r.got} = X
      BY <2>1
    <3> QED BY <3>1, <2>1, <1>2, <1>4 DEF Supplies
  <2>3. PICK ls, c, w : /\ ls = SubSeq(u.text[u.cur], i + 1, j)
                        /\ c = Cut(patchup(u, i, j), i, j)
                        /\ w = <<l>> \o ls
    OBVIOUS
  <2>4. u.text = s.text /\ u.cur = s.cur
    BY <2>2 DEF SameUse
  <2>5. Within(u, i, j)
    BY <2>4 DEF Within
  <2>6. Sound(c, X \cup ToSet(ls)) /\ CutOut(u, u.text[u.cur][i], ls, X, c)
    BY <2>2, <2>3, <2>5, GoodCutUp
  <2>7. t = [c EXCEPT !.kept = w]
    BY <2>1, <2>3, <2>4, <1>1, <1>4 DEF reg_delete, Deleted
  <2>8. PICK o : o = <<l>>
    OBVIOUS
  <2>9. o \in Seq(Line) /\ ToSet(o) = X /\ Once(o) /\ Len(o) = 1
    BY <2>1, <2>2, <2>8, ShortLists
  <2>10. w \in Seq(Line) /\ Joins(o, ls, w)
    <3>1. o \in Seq(Line) /\ ls \in Seq(Line) /\ w = o \o ls
      BY <2>3, <2>6, <2>8, <2>9 DEF CutOut
    <3> QED BY ONLY <3>1, JoinFacts
  <2>11. c.kept = <<>> /\ SameHold(u, c)
    BY <2>2, <2>6 DEF CutOut, SameHold, SameUse
  <2>12. Trade(c.kept, X \cup ToSet(ls), w, {})
    BY <2>6, <2>9, <2>10, <2>11, ShortLists DEF Trade, Joins, CutOut
  <2>13. Sound(t, {}) /\ SameButLists(c, t) /\ t.copy = c.copy /\ t.kept = w
    <3>1. PICK Z : Z = X \cup ToSet(ls)
      OBVIOUS
    <3>2. Sound(c, Z) /\ Trade(c.kept, Z, w, {}) /\ KeptIs(c, w, t)
      BY <3>1, <2>6, <2>7, <2>12 DEF KeptIs
    <3> QED BY ONLY <3>2, KeptChanged
  <2>14. w # <<>>
    <3>1. ToSet(w) # {}
      BY <2>1, <2>9, <2>10 DEF Joins
    <3> QED BY <3>1, ShortLists
  <2>15. t.got # NULL
    BY <2>2, <2>11, <2>13 DEF SameHold, SameButLists
  <2>16. SameElse(s, i, t)
    BY <2>2, <2>4, <2>6, <2>11, <2>13 DEF SameElse, SameUse, SameHold, SameButLists, CutOut
  <2> QED BY <2>13, <2>14, <2>15, <2>16 DEF RegDeleted
<1> QED BY <1>3, <1>4

-----------------------------------------------------------------------------
(* One list or one part of the record changes                              *)

\* The text of b is now r, with the point at line d of it; X2 is in hand.
TextAt(s, X, b, r, d, X2, t) ==
  /\ b \in Buffers /\ Trade(s.text[b], X, r, X2) /\ d \in Int
  /\ (r # <<>> => d \in 1 .. Len(r) /\ b \in s.world)
  /\ (r # <<>> \/ b \notin s.world => \A i \in Marks : s.ring[b][i] \in ToSet(r) \cup {NULL})
  /\ (s.other.buf = b => s.other.line \in ToSet(r) \cup {NULL} \/ s.other.gone \/ s.other.cleared)
  /\ t = [s EXCEPT !.text[b] = r, !.dot[b] = d]
\* All of t is that of s but for texts and points.
SameButTexts(s, t) ==
  /\ SameLists(s, t) /\ t.world = s.world /\ t.cur = s.cur /\ t.kill = s.kill /\ t.kptr = s.kptr
  /\ t.ring = s.ring /\ t.tm = s.tm /\ t.errs = s.errs /\ t.perr = s.perr /\ t.other = s.other
  /\ t.leaked = s.leaked /\ t.got = s.got /\ t.kept = s.kept /\ t.copy = s.copy
TextIs(s, b, r, d, t) ==
  /\ SameButTexts(s, t) /\ t.text[b] = r /\ t.dot[b] = d
  /\ \A c \in Buffers \ {b} : t.text[c] = s.text[c] /\ t.dot[c] = s.dot[c]

(* The lines of a buffer.                                                  *)
LEMMA TextChanged ==
  ASSUME NEW s, NEW X, Sound(s, X), NEW b, NEW r, NEW d, NEW X2, NEW t, TextAt(s, X, b, r, d, X2, t)
  PROVE  Sound(t, X2) /\ TextIs(s, b, r, d, t)
<1>0. /\ b \in Buffers /\ Trade(s.text[b], X, r, X2) /\ d \in Int
      /\ (r # <<>> => d \in 1 .. Len(r) /\ b \in s.world)
      /\ (r # <<>> \/ b \notin s.world => \A i \in Marks : s.ring[b][i] \in ToSet(r) \cup {NULL})
      /\ (s.other.buf = b => s.other.line \in ToSet(r) \cup {NULL} \/ s.other.gone \/ s.other.cleared)
      /\ t = [s EXCEPT !.text[b] = r, !.dot[b] = d]
  BY DEF TextAt
<1>1. s \in Rec /\ s.text \in [Buffers -> Seq(Line)] /\ s.dot \in [Buffers -> Int] /\ r \in Seq(Line)
  BY <1>0 DEF Sound, Rec, Trade
<1>2. PICK text_, dot_ : text_ = [s.text EXCEPT ![b] = r] /\ dot_ = [s.dot EXCEPT ![b] = d]
  OBVIOUS
<1>3. t = [s EXCEPT !.text = text_, !.dot = dot_]
  BY <1>0, <1>2
<1>4. /\ text_ \in [Buffers -> Seq(Line)] /\ text_[b] = r /\ \A c \in Buffers \ {b} : text_[c] = s.text[c]
      /\ dot_ \in [Buffers -> Int] /\ dot_[b] = d /\ \A c \in Buffers \ {b} : dot_[c] = s.dot[c]
  BY ONLY <1>0, <1>1, <1>2
<1>5. t \in Rec
  BY ONLY <1>1, <1>3, <1>4 DEF Rec
<1>6. SameButTexts(s, t) /\ t.text = text_ /\ t.dot = dot_
  BY ONLY <1>1, <1>3 DEF Rec, SameButTexts, SameLists
<1>7. TextIs(s, b, r, d, t)
  BY ONLY <1>4, <1>6 DEF TextIs
<1>8. Whole(Contents(t), t.dline, ToSet(t.chunks), t.leaked, X2)
  <2>1. PICK h : h = Text(b)
    OBVIOUS
  <2>2. h \in Place /\ h \notin Pool
    BY <2>1, <1>0, PlaceFacts DEF PlacesAre, PlacesDiffer, Distinct, Pool
  <2>3. Contents(s)[h] = s.text[b] /\ Contents(t)[h] = r
    <3>1. Reads(s, Contents(s)) /\ Reads(t, Contents(t))
      BY ONLY <1>1, <1>5, ContentsReads
    <3>2. b \in Buffers /\ t.text[b] = r
      BY <1>0, <1>4, <1>6
    <3> QED BY ONLY <3>1, <3>2, <2>1 DEF Reads
  <2>4. Elsewhere(s, t, {h})
    BY <2>1, <1>4, <1>6 DEF Elsewhere, SameButTexts, SameLists
  <2>5. Hands(s, t, h, X, X2)
    BY <2>3, <2>4, <1>0, <1>6 DEF Hands, SameButTexts, SameLists, Trade
  <2> QED BY <2>2, <2>5, <1>5, Handed
<1>9. Refs(t)
  <2>1. Refs(s) /\ t.world = s.world /\ t.ring = s.ring /\ t.text = text_ /\ t.dot = dot_
    BY <1>6 DEF Sound, SameButTexts
  <2>2. \A c \in Buffers : (t.text[c] # <<>>) => t.dot[c] \in 1 .. Len(t.text[c])
    <3> SUFFICES ASSUME NEW c \in Buffers, t.text[c] # <<>>
                 PROVE  t.dot[c] \in 1 .. Len(t.text[c])
      OBVIOUS
    <3>1. CASE c = b
      BY <3>1, <2>1, <1>0, <1>4
    <3>2. CASE c # b
      <4>1. t.text[c] = s.text[c] /\ t.dot[c] = s.dot[c]
        BY <3>2, <2>1, <1>4
      <4> QED BY <4>1, <2>1 DEF Refs
    <3> QED BY <3>1, <3>2
  <2>3. \A c \in Buffers : (t.text[c] # <<>> \/ c \notin t.world) =>
          \A k \in Marks : t.ring[c][k] \in ToSet(t.text[c]) \cup {NULL}
    <3> SUFFICES ASSUME NEW c \in Buffers, t.text[c] # <<>> \/ c \notin t.world
                 PROVE  \A k \in Marks : t.ring[c][k] \in ToSet(t.text[c]) \cup {NULL}
      OBVIOUS
    <3>1. CASE c = b
      BY <3>1, <2>1, <1>0, <1>4
    <3>2. CASE c # b
      <4>1. t.text[c] = s.text[c] /\ (s.text[c] # <<>> \/ c \notin s.world)
        BY <3>2, <2>1, <1>4
      <4> QED BY <4>1, <2>1 DEF Refs
    <3> QED BY <3>1, <3>2
  <2>4. \A c \in Buffers \ t.world : t.text[c] = <<>>
    BY ONLY <2>1, <1>0, <1>4 DEF Refs
  <2> QED BY ONLY <2>2, <2>3, <2>4 DEF Refs
<1>10. Looks(t)
  <2>1. Looks(s) /\ t.other = s.other /\ t.errs = s.errs /\ t.text = text_
    BY <1>6 DEF Sound, SameButTexts
  <2>2. Shows(t.other, t.text) \/ t.other.gone \/ t.other.cleared
    <3>1. CASE s.other.buf = b
      BY <3>1, <2>1, <1>0, <1>4 DEF Shows
    <3>2. CASE s.other.buf # b
      BY <3>2, <2>1, <1>4 DEF Shows, Looks
    <3> QED BY <3>1, <3>2
  <2> QED BY <2>1, <2>2 DEF Looks
<1> QED BY <1>5, <1>7, <1>8, <1>9, <1>10 DEF Sound

\* All of t is that of s but for the kill ring.
SameButKills(s, t) ==
  /\ SameLists(s, t) /\ t.world = s.world /\ t.text = s.text /\ t.dot = s.dot /\ t.cur = s.cur
  /\ t.ring = s.ring /\ t.tm = s.tm /\ t.errs = s.errs /\ t.perr = s.perr /\ t.other = s.other
  /\ t.leaked = s.leaked /\ t.got = s.got /\ t.kept = s.kept /\ t.copy = s.copy
\* Kill k is now the list w, and p the kill of yank; X2 is in hand.
KillAt(s, X, k, w, p, X2, t) ==
  /\ k \in Kills /\ p \in Kills /\ Trade(s.kill[k], X, w, X2)
  /\ t = [s EXCEPT !.kill[k] = w, !.kptr = p]
KillIs(s, k, w, p, t) ==
  /\ SameButKills(s, t) /\ t.kptr = p /\ t.kill[k] = w
  /\ \A j \in Kills \ {k} : t.kill[j] = s.kill[j]

(* What refers to lines is left alone when kills change.                   *)
LEMMA SameButKillsSound ==
  ASSUME NEW s, NEW X, Sound(s, X), NEW t, t \in Rec, SameButKills(s, t),
         NEW X2, Whole(Contents(t), t.dline, ToSet(t.chunks), t.leaked, X2)
  PROVE  Sound(t, X2)
<1>1. t.world = s.world /\ t.text = s.text /\ t.dot = s.dot /\ t.ring = s.ring /\ t.errs = s.errs
      /\ t.other = s.other /\ Refs(s) /\ Looks(s)
  BY DEF SameButKills, Sound
<1>2. Refs(t) /\ Looks(t)
  BY ONLY <1>1 DEF Refs, Looks
<1> QED BY <1>2 DEF Sound

(* One kill.                                                               *)
LEMMA KillChanged ==
  ASSUME NEW s, NEW X, Sound(s, X), NEW k, NEW w, NEW p, NEW X2, NEW t, KillAt(s, X, k, w, p, X2, t)
  PROVE  Sound(t, X2) /\ KillIs(s, k, w, p, t)
<1>0. /\ k \in Kills /\ p \in Kills /\ Trade(s.kill[k], X, w, X2)
      /\ t = [s EXCEPT !.kill[k] = w, !.kptr = p]
  BY DEF KillAt
<1>1. s \in Rec /\ s.kill \in [Kills -> Seq(Line)] /\ w \in Seq(Line)
  BY <1>0 DEF Sound, Rec, Trade
<1>2. PICK kl : kl = [s.kill EXCEPT ![k] = w]
  OBVIOUS
<1>3. t = [s EXCEPT !.kill = kl, !.kptr = p]
  BY <1>0, <1>2
<1>4. kl \in [Kills -> Seq(Line)] /\ kl[k] = w /\ \A j \in Kills \ {k} : kl[j] = s.kill[j]
  BY ONLY <1>0, <1>1, <1>2
<1>5. t \in Rec
  BY ONLY <1>0, <1>1, <1>3, <1>4, ZenonT(60) DEF Rec
<1>6. SameButKills(s, t) /\ t.kill = kl /\ t.kptr = p
  BY ONLY <1>1, <1>3 DEF Rec, SameButKills, SameLists
<1>7. KillIs(s, k, w, p, t)
  BY ONLY <1>4, <1>6 DEF KillIs
<1>8. Whole(Contents(t), t.dline, ToSet(t.chunks), t.leaked, X2)
  <2>1. PICK h : h = Killed(k)
    OBVIOUS
  <2>2. h \in Place /\ h \notin Pool
    BY <2>1, <1>0, PlaceFacts DEF PlacesAre, PlacesDiffer, Distinct, Pool
  <2>3. Contents(s)[h] = s.kill[k] /\ Contents(t)[h] = w
    <3>1. Reads(s, Contents(s)) /\ Reads(t, Contents(t))
      BY ONLY <1>1, <1>5, ContentsReads
    <3>2. k \in Kills /\ t.kill[k] = w
      BY <1>0, <1>4, <1>6
    <3> QED BY ONLY <3>1, <3>2, <2>1 DEF Reads
  <2>4. Elsewhere(s, t, {h})
    BY <2>1, <1>4, <1>6 DEF Elsewhere, SameButKills, SameLists
  <2>5. Hands(s, t, h, X, X2)
    BY <2>3, <2>4, <1>0, <1>6 DEF Hands, SameButKills, SameLists, Trade
  <2> QED BY <2>2, <2>5, <1>5, Handed
<1> QED BY <1>5, <1>6, <1>7, <1>8, SameButKillsSound

\* The kills are those of s, each at another place; p the kill of yank.
Permutes(f) ==
  /\ f \in [Kills -> Kills] /\ \A i, j \in Kills : f[i] = f[j] => i = j
  /\ \A j \in Kills : \E i \in Kills : f[i] = j
KillsAt(s, f, kl, p, t) ==
  /\ Permutes(f) /\ kl \in [Kills -> Seq(Line)] /\ \A i \in Kills : kl[i] = s.kill[f[i]]
  /\ p \in Kills /\ t = [s EXCEPT !.kill = kl, !.kptr = p]

(* Kills change their places.                                              *)
LEMMA KillsMoved ==
  ASSUME NEW s, NEW X, Sound(s, X), NEW f, NEW kl, NEW p, NEW t, KillsAt(s, f, kl, p, t)
  PROVE  Sound(t, X) /\ SameButKills(s, t) /\ t.kill = kl /\ t.kptr = p
<1>0. /\ Permutes(f) /\ kl \in [Kills -> Seq(Line)] /\ \A i \in Kills : kl[i] = s.kill[f[i]]
      /\ p \in Kills /\ t = [s EXCEPT !.kill = kl, !.kptr = p]
  BY DEF KillsAt
<1>1. s \in Rec
  BY DEF Sound
<1>2. t \in Rec
  BY ONLY <1>0, <1>1 DEF Rec
<1>3. SameButKills(s, t) /\ t.kill = kl /\ t.kptr = p
  BY ONLY <1>0, <1>1 DEF Rec, SameButKills, SameLists
<1>4. PICK C, C2, lk, dl, ck : C = Contents(s) /\ C2 = Contents(t) /\ lk = s.leaked /\ dl = s.dline /\ ck = ToSet(s.chunks)
  OBVIOUS
<1>5. Reads(s, C) /\ Reads(t, C2)
  BY <1>1, <1>2, <1>4, ContentsReads
<1>6. Whole(C, dl, ck, lk, X)
  BY <1>4 DEF Sound
<1>7. PICK D : D = {Killed(k) : k \in Kills}
  OBVIOUS
<1>8. D \subseteq Place /\ \A h \in D : h \notin Pool
  BY <1>7, PlaceFacts DEF PlacesAre, PlacesDiffer, Distinct, Pool
<1>9. \A h \in Place \ D : C2[h] = C[h]
  <2>1. Elsewhere(s, t, D)
    BY <1>3, <1>7 DEF Elsewhere, SameButKills, SameLists
  <2> QED BY <2>1, <1>5, SamePlaces
<1>10. \A i \in Kills : f[i] \in Kills /\ C2[Killed(i)] = C[Killed(f[i])] /\ Killed(i) \in D
  <2> TAKE i \in Kills
  <2>1. f[i] \in Kills
    BY <1>0 DEF Permutes
  <2>2. C2[Killed(i)] = t.kill[i] /\ C[Killed(f[i])] = s.kill[f[i]]
    BY <2>1, <1>5 DEF Reads
  <2> QED BY <2>1, <2>2, <1>0, <1>3, <1>7
<1>11. Apart(C, D)
  BY <1>6, <1>8 DEF Whole, Apart
<1>12. Apart(C2, D)
  <2>1. ASSUME NEW h \in D PROVE Once(C2[h])
    BY <1>7, <1>10, <1>11 DEF Apart
  <2>2. ASSUME NEW g \in D, NEW h \in D, g # h PROVE ToSet(C2[g]) \cap ToSet(C2[h]) = {}
    <3>1. PICK i \in Kills, j \in Kills : g = Killed(i) /\ h = Killed(j)
      BY <1>7
    <3>2. PICK m, n : m = f[i] /\ n = f[j]
      OBVIOUS
    <3>3. m \in Kills /\ n \in Kills /\ m # n
      BY <3>1, <3>2, <2>2, <1>0 DEF Permutes
    <3>4. Killed(m) # Killed(n) /\ Killed(m) \in D /\ Killed(n) \in D
      BY <3>3, <1>7, PlaceFacts DEF PlacesDiffer
    <3>5. C2[g] = C[Killed(m)] /\ C2[h] = C[Killed(n)]
      BY <3>1, <3>2, <1>10
    <3> QED BY <3>4, <3>5, <1>11 DEF Apart
  <2> QED BY <2>1, <2>2 DEF Apart
<1>13. Lying(C2, D) = Lying(C, D)
  <2>1. ASSUME NEW h \in D PROVE \E g \in D : C2[h] = C[g]
    BY <1>7, <1>10
  <2>2. ASSUME NEW g \in D PROVE \E h \in D : C2[h] = C[g]
    <3>1. PICK j \in Kills : g = Killed(j)
      BY <1>7
    <3>2. PICK i \in Kills : f[i] = j
      BY <1>0 DEF Permutes
    <3> QED BY <3>1, <3>2, <1>10
  <2> QED BY <2>1, <2>2 DEF Lying
<1>14. Lying(C, D) \subseteq Lying(C, Place)
  BY <1>8 DEF Lying
<1>15. Disjoint(Lying(C2, D), lk, X)
  BY <1>6, <1>13, <1>14 DEF Whole, Disjoint
<1>16. Addressed(C2, dl, lk, X, D)
  <2>1. \A h \in D : \A l \in ToSet(C[h]) : dl[l] = "used"
    BY <1>6, <1>8 DEF Whole, Addressed
  <2>2. \A h \in D : \A l \in ToSet(C2[h]) : dl[l] = "used"
    BY <2>1, <1>7, <1>10
  <2>3. \A l \in lk \cup X : dl[l] = "used"
    BY <1>6 DEF Whole, Addressed
  <2> QED BY <2>2, <2>3, <1>8 DEF Addressed
<1>17. Moves(C, dl, lk, X, C2, dl, lk, X, D)
  <2>1. C2 \in [Place -> Seq(Line)]
    BY <1>5 DEF Reads
  <2> QED BY <2>1, <1>8, <1>9, <1>12, <1>13, <1>15, <1>16 DEF Moves
<1>18. Whole(C2, dl, ck, lk, X)
  BY <1>6, <1>17, Rearranged
<1>19. Whole(Contents(t), t.dline, ToSet(t.chunks), t.leaked, X)
  BY <1>3, <1>4, <1>18 DEF SameButKills, SameLists
<1> QED BY <1>2, <1>3, <1>19, SameButKillsSound

(* nbufline and the others are told how a list of theirs went (got).       *)
LEMMA GotChanged ==
  ASSUME NEW s, NEW X, Sound(s, X), NEW g, g \in Line \cup {NULL, Done}, NEW t, t = [s EXCEPT !.got = g]
  PROVE  Sound(t, X) /\ SameUse(s, t) /\ t.got = g
<1>1. s \in Rec
  BY DEF Sound
<1>2. t \in Rec
  BY ONLY <1>1, g \in Line \cup {NULL, Done}, t = [s EXCEPT !.got = g] DEF Rec
<1>3. SameUse(s, t) /\ SameLists(s, t) /\ t.errs = s.errs /\ t.other = s.other /\ t.got = g
  BY ONLY <1>1, t = [s EXCEPT !.got = g] DEF Rec, SameUse, SameLists
<1>4. SameWhere(s, t)
  BY <1>3 DEF SameWhere, Elsewhere, SameUse, SameLists
<1>5. Whole(Contents(t), t.dline, ToSet(t.chunks), t.leaked, X)
  BY <1>2, <1>4, SameWhole
<1> QED BY <1>2, <1>3, <1>5, PoolSound

\* Deleted lines of which only a copy is used.
IsLeaked(s, lk, t) == t = [s EXCEPT !.leaked = lk, !.kept = <<>>]

(* The deleted lines are lost.                                             *)
LEMMA KeptLost ==
  ASSUME NEW s, NEW X, Sound(s, X), NEW lk, lk = s.leaked \cup ToSet(s.kept), NEW t, IsLeaked(s, lk, t)
  PROVE  Sound(t, X) /\ t.kept = <<>> /\ t.copy = s.copy /\ t.kill = s.kill /\ t.kptr = s.kptr
         /\ t.text = s.text /\ t.cur = s.cur /\ t.dot = s.dot /\ t.got = s.got
<1>1. s \in Rec /\ s.kept \in Seq(Line) /\ s.leaked \subseteq Line
  BY DEF Sound, Rec
<1>2. t = [s EXCEPT !.leaked = lk, !.kept = <<>>]
  BY DEF IsLeaked
<1>3. lk \subseteq Line
  BY <1>1, ListFacts
<1>4. t \in Rec
  <2>1. <<>> \in Seq(Line)
    OBVIOUS
  <2> QED BY ONLY <2>1, <1>1, <1>2, <1>3 DEF Rec
<1>5. /\ t.leaked = lk /\ t.kept = <<>> /\ t.dline = s.dline /\ t.avail = s.avail /\ t.free = s.free
      /\ t.chunks = s.chunks /\ t.world = s.world /\ t.text = s.text /\ t.dot = s.dot /\ t.cur = s.cur
      /\ t.kill = s.kill /\ t.kptr = s.kptr /\ t.ring = s.ring /\ t.errs = s.errs /\ t.other = s.other
      /\ t.copy = s.copy /\ t.got = s.got
  BY ONLY <1>1, <1>2 DEF Rec
<1>6. PICK C, C2, dl, ck, K : C = Contents(s) /\ C2 = Contents(t) /\ dl = s.dline /\ ck = ToSet(s.chunks)
                              /\ K = ToSet(s.kept)
  OBVIOUS
<1>7. Reads(s, C) /\ Reads(t, C2)
  BY <1>1, <1>4, <1>6, ContentsReads
<1>8. Whole(C, dl, ck, s.leaked, X)
  BY <1>6 DEF Sound
<1>9. Kept \in Place /\ Kept \notin Pool
  BY PlaceFacts DEF PlacesAre, PlacesDiffer, Distinct, Pool
<1>10. \A h \in Place \ {Kept} : C2[h] = C[h]
  <2>1. Elsewhere(s, t, {Kept})
    BY <1>5 DEF Elsewhere
  <2> QED BY <2>1, <1>7, SamePlaces
<1>11. C[Kept] = s.kept /\ C2[Kept] = <<>>
  BY <1>5, <1>7 DEF Reads
<1>12. Lying(C, {Kept}) = K /\ Lying(C2, {Kept}) = {} /\ K \subseteq Lying(C, Place)
  BY <1>6, <1>9, <1>11, ShortLists DEF Lying
<1>13. Disjoint(Lying(C, Place), s.leaked, X)
  BY <1>8 DEF Whole
<1>14. Moves(C, dl, s.leaked, X, C2, dl, lk, X, {Kept})
  <2>1. Apart(C2, {Kept})
    BY <1>11, ShortLists DEF Apart
  <2>2. Disjoint({}, lk, X)
    BY <1>6, <1>12, <1>13 DEF Disjoint
  <2>3. Addressed(C2, dl, lk, X, {Kept})
    <3>1. \A l \in K \cup s.leaked \cup X : dl[l] = "used"
      BY <1>6, <1>8, <1>9, <1>11 DEF Whole, Addressed
    <3> QED BY <3>1, <1>6, <1>11, ShortLists DEF Addressed
  <2>4. C2 \in [Place -> Seq(Line)]
    BY <1>7 DEF Reads
  <2> QED BY <2>1, <2>2, <2>3, <2>4, <1>6, <1>9, <1>10, <1>12 DEF Moves
<1>15. Whole(C2, dl, ck, lk, X)
  BY <1>8, <1>14, Rearranged
<1>16. Whole(Contents(t), t.dline, ToSet(t.chunks), t.leaked, X)
  BY <1>5, <1>6, <1>15
<1>17. Refs(t) /\ Looks(t)
  <2>1. Refs(s) /\ Looks(s)
    BY DEF Sound
  <2> QED BY ONLY <2>1, <1>5 DEF Refs, Looks
<1> QED BY <1>4, <1>5, <1>16, <1>17 DEF Sound

-----------------------------------------------------------------------------
(* New lines in the current buffer                                         *)

\* A record of a command that puts in lines.
Inserts(s) == Sound(s, {}) /\ s.kept = <<>> /\ s.copy = <<>> /\ s.text[s.cur] # <<>>

\* The list w is put behind the point of b, which goes to the end of it.
PutIn(s, w, b, at, r, t) ==
  /\ b = s.cur /\ at = s.dot[b]
  /\ r = SubSeq(s.text[b], 1, at) \o w \o SubSeq(s.text[b], at + 1, Len(s.text[b]))
  /\ t = [s EXCEPT !.text[b] = r, !.dot[b] = at + Len(w)]

(* Lines in hand are put behind the point, which goes to the last of them. *)
LEMMA TextPut ==
  ASSUME NEW s, NEW w, NEW X, Sound(s, X), s.text[s.cur] # <<>>, w \in Seq(Line), Once(w), X = ToSet(w),
         NEW b, NEW at, NEW r, NEW t, PutIn(s, w, b, at, r, t)
  PROVE  /\ Sound(t, {}) /\ SameButTexts(s, t) /\ t.text[b] # <<>>
         /\ ToSet(t.text[b]) = ToSet(s.text[b]) \cup X
<1>0. /\ b = s.cur /\ at = s.dot[b]
      /\ r = SubSeq(s.text[b], 1, at) \o w \o SubSeq(s.text[b], at + 1, Len(s.text[b]))
      /\ t = [s EXCEPT !.text[b] = r, !.dot[b] = at + Len(w)]
  BY DEF PutIn
<1> USE <1>0
<1>1. s \in Rec /\ b \in Buffers /\ s.text[b] \in Seq(Line)
  BY DEF Sound, Rec
<1>2. Refs(s) /\ Looks(s)
  BY DEF Sound
<1>3. at \in 1 .. Len(s.text[b]) /\ b \in s.world
  BY <1>1, <1>2 DEF Refs
<1>4. \A i \in Marks : s.ring[b][i] \in ToSet(s.text[b]) \cup {NULL}
  BY <1>1, <1>2 DEF Refs
<1>5. Once(s.text[b]) /\ ToSet(s.text[b]) \cap X = {}
  BY <1>1, HandFacts
<1>6. PICK q : q = s.text[b]
  OBVIOUS
<1>7. q \in Seq(Line) /\ Len(q) \in Nat /\ Len(w) \in Nat
  BY <1>1, <1>6, ListFacts
<1>8. r \in Seq(Line) /\ Puts(q, w, r)
  <2>1. IsPut(Line, q, at, w, r)
    <3>1. r = SubSeq(q, 1, at) \o w \o SubSeq(q, at + 1, Len(q))
      BY <1>6
    <3>2. at \in 1 .. Len(q) /\ Once(q) /\ ToSet(q) \cap ToSet(w) = {}
      BY <1>3, <1>5, <1>6
    <3>3. at \in Int /\ 0 <= at /\ at <= Len(q)
      BY ONLY <3>2, <1>7
    <3> QED BY ONLY <3>1, <3>2, <3>3, <1>7, w \in Seq(Line), Once(w) DEF IsPut
  <2> QED BY <2>1, PutFacts
<1>9. ToSet(r) = ToSet(q) \cup X /\ Once(r) /\ Len(r) = Len(q) + Len(w)
  BY <1>8 DEF Puts
<1>10. PICK d : d = at + Len(w)
  OBVIOUS
<1>11. d \in Int /\ d \in 1 .. Len(r)
  <2>1. PICK m, n : m = Len(q) /\ n = Len(w)
    OBVIOUS
  <2>2. m \in Nat /\ n \in Nat /\ at \in 1 .. m /\ d = at + n /\ Len(r) = m + n
    BY <2>1, <1>3, <1>6, <1>7, <1>9, <1>10
  <2> QED BY ONLY <2>2
<1>12. r # <<>>
  <2>1. q # <<>>
    BY <1>6
  <2>2. ToSet(q) # {}
    BY ONLY <2>1, <1>7, ListFacts
  <2> QED BY <2>2, <1>9, ShortLists
<1>13. TextAt(s, X, b, r, d, {}, t)
  <2>1. Trade(q, X, r, {})
    BY <1>8, <1>9 DEF Trade
  <2>2. \A i \in Marks : s.ring[b][i] \in ToSet(r) \cup {NULL}
    BY <1>4, <1>6, <1>9
  <2>3. s.other.buf = b => s.other.line \in ToSet(r) \cup {NULL} \/ s.other.gone \/ s.other.cleared
    BY <1>2, <1>6, <1>9 DEF Looks, Shows
  <2> QED BY <2>1, <2>2, <2>3, <1>1, <1>3, <1>6, <1>10, <1>11 DEF TextAt
<1>14. Sound(t, {}) /\ TextIs(s, b, r, d, t)
  BY <1>13, TextChanged
<1> QED BY <1>6, <1>9, <1>12, <1>14 DEF TextIs

(* A new line behind the point.                                            *)
LEMMA GoodInsert1 ==
  ASSUME NEW s, Inserts(s), NEW r, NEW u, Supplies(s, r, u, {}), r.got # NULL, u = SavLine(r, r.got),
         NEW with \in BOOLEAN, NEW t, t = Insert1(r, with)
  PROVE  Inserts(t)
<1>1. PICK l, X, w : l = r.got /\ X = {l} /\ w = <<l>>
  OBVIOUS
<1>2. l \in Line /\ l # NULL /\ SameUse(s, r) /\ SameUse(s, u) /\ Sound(u, X)
  <2>1. {} \cup {r.got} = X
    BY <1>1
  <2> QED BY <2>1, <1>1 DEF Supplies
<1>3. w \in Seq(Line) /\ ToSet(w) = X /\ Once(w) /\ Len(w) = 1
  BY <1>1, <1>2, ShortLists
<1>4. PICK b, at, q, p : /\ b = u.cur /\ at = u.dot[b]
                         /\ q = SubSeq(u.text[b], 1, at) \o w \o SubSeq(u.text[b], at + 1, Len(u.text[b]))
                         /\ p = [u EXCEPT !.text[b] = q, !.dot[b] = at + Len(w)]
  OBVIOUS
<1>5. r.cur = b /\ r.dot[b] = at /\ r.text[b] = u.text[b] /\ u.text[b] = s.text[b] /\ u.text[b] # <<>>
  BY <1>2, <1>4 DEF SameUse, Inserts
<1>6. Sound(p, {}) /\ SameButTexts(u, p) /\ p.text[b] # <<>> /\ ToSet(p.text[b]) = ToSet(u.text[b]) \cup X
  <2>1. u.text[u.cur] # <<>> /\ X = ToSet(w)
    BY <1>3, <1>4, <1>5
  <2>2. PutIn(u, w, b, at, q, p)
    BY <1>4 DEF PutIn
  <2> QED BY ONLY <2>1, <2>2, <1>2, <1>3, TextPut
<1>7. PICK ls, k : ls = (IF with THEN {r.text[b][at]} ELSE {}) /\ k = r.text[b][at]
  OBVIOUS
<1>8. t = makedirty(MoveMarks(p, ls, l), k)
  BY <1>1, <1>3, <1>4, <1>5, <1>7 DEF Insert1
<1>9. PICK m : m = MoveMarks(p, ls, l)
  OBVIOUS
<1>10. p.cur = b /\ l \in ToSet(p.text[p.cur])
  BY <1>1, <1>4, <1>6 DEF SameButTexts
<1>11. Sound(m, {}) /\ MarksMoved(p, ls, l, m)
  BY <1>6, <1>9, <1>10, GoodMoveMarks
<1>12. Sound(t, {}) /\ Frame(m, t)
  BY <1>8, <1>9, <1>11, GoodMakedirty
<1> QED BY <1>2, <1>6, <1>10, <1>11, <1>12 DEF Inserts, MarksMoved, Frame, SameButTexts, SameUse

(* As long as there are lines.                                             *)
LEMMA GoodInsertNext ==
  ASSUME NEW s, Inserts(s), NEW with \in BOOLEAN, NEW t, t = InsertNext(s, with)
  PROVE  Inserts(t)
<1>1. PICK r, u : r = nbufline(s) /\ u = SavLine(r, r.got)
  OBVIOUS
<1>2. Supplies(s, r, u, {})
  BY <1>1, GoodNbufline DEF Inserts
<1>3. CASE s.got = NULL
  BY <1>3 DEF InsertNext, Insertable
<1>4. CASE s.got # NULL /\ r.got = NULL
  <2>1. t = r
    BY <1>1, <1>4 DEF InsertNext, Insertable
  <2> QED BY <2>1, <1>2, <1>4 DEF Supplies, SameUse, Inserts
<1>5. CASE s.got # NULL /\ r.got # NULL
  <2>1. t = Insert1(r, with)
    BY <1>1, <1>5 DEF InsertNext, Insertable
  <2> QED BY <2>1, <1>1, <1>2, <1>5, GoodInsert1
<1> QED BY <1>3, <1>4, <1>5

(* Lines are put in, one after the other.                                  *)
LEMMA GoodLineInsert ==
  ASSUME NEW s, Inserts(s), NEW n \in Nat, NEW with \in BOOLEAN, NEW t, t = LineInsert(s, n, with)
  PROVE  Inserts(t)
<1> DEFINE S == {p \in Rec : Inserts(p)}
           init == [s EXCEPT !.got = Done]
           Def(g) == [k \in 0 .. n |-> IF k = 0 THEN init ELSE InsertNext(g[k - 1], with)]
           E == CHOOSE g : g = Def(g)
<1>1. t = E[n]
  BY DEF LineInsert
<1>2. init \in S
  <2>1. PICK u : u = init
    OBVIOUS
  <2>2. Sound(u, {}) /\ SameUse(s, u)
    <3>1. Done \in Line \cup {NULL, Done}
      OBVIOUS
    <3> QED BY <2>1, <3>1, GotChanged DEF Inserts
  <2>3. Inserts(u)
    BY <2>2 DEF Inserts, SameUse
  <2> QED BY <2>1, <2>2, <2>3 DEF Sound
<1>3. \A p \in S : InsertNext(p, with) \in S
  <2> TAKE p \in S
  <2>1. Inserts(InsertNext(p, with))
    BY GoodInsertNext
  <2> QED BY <2>1 DEF Inserts, Sound
<1> HIDE DEF S, init
<1>4. \E f : f = Def(f)
  <2> DEFINE G == [p \in (1 .. n) \X S |-> InsertNext(p[2], with)]
  <2>1. \A i \in 1 .. n, u \in S : G[<<i, u>>] = InsertNext(u, with)
    OBVIOUS
  <2>2. G \in [(1 .. n) \X S -> S]
    BY <1>3
  <2> HIDE DEF G
  <2>3. PICK f : IsLoop(f, n, S, init, G)
    BY <1>2, <2>2, LoopExists
  <2>4. ASSUME NEW i \in 0 .. n
        PROVE  f[i] = IF i = 0 THEN init ELSE InsertNext(f[i - 1], with)
    <3>1. CASE i = 0
      BY <3>1, <2>3 DEF IsLoop
    <3>2. CASE i # 0
      <4>1. i \in 1 .. n /\ i - 1 \in 0 .. n
        BY <3>2
      <4>2. f[i] = G[<<i, f[i - 1]>>] /\ f[i - 1] \in S
        BY <4>1, <2>3 DEF IsLoop
      <4> QED BY <4>1, <4>2, <3>2, <2>1
    <3> QED BY <3>1, <3>2
  <2>5. f = [i \in 0 .. n |-> f[i]]
    BY <2>3 DEF IsLoop
  <2>6. f = Def(f)
    BY <2>4, <2>5
  <2> QED BY <2>6
<1>5. E = Def(E)
  <2> HIDE DEF Def
  <2> QED BY <1>4
<1>6. \A i \in 0 .. n : E[i] = IF i = 0 THEN init ELSE InsertNext(E[i - 1], with)
  <2> HIDE DEF E
  <2> QED BY <1>5
<1> HIDE DEF E, Def
<1> DEFINE W == {i \in 0 .. n : E[i] \in S}
<1>7. 0 \in W
  BY <1>2, <1>6
<1>8. ASSUME NEW i \in 1 .. n, i - 1 \in W PROVE i \in W
  <2>1. i \in 0 .. n /\ i # 0
    OBVIOUS
  <2> QED BY <2>1, <1>3, <1>6, <1>8
<1>9. n \in W
  <2> HIDE DEF W
  <2>1. \A i \in 0 .. n : i \in W
    BY <1>7, <1>8, EachTurn
  <2> QED BY <2>1
<1> QED BY <1>1, <1>9 DEF S

\* All of t is that of s but for the copied lines.
Copies(s, t) ==
  /\ Sound(t, {}) /\ t.world = s.world /\ t.text = s.text /\ t.dot = s.dot /\ t.cur = s.cur
  /\ t.kill = s.kill /\ t.kptr = s.kptr /\ t.ring = s.ring /\ t.tm = s.tm /\ t.kept = s.kept

(* One more line of a copy.                                                *)
LEMMA GoodCopyNext ==
  ASSUME NEW s, NEW p, Copies(s, p), NEW t, t = CopyNext(p)
  PROVE  Copies(s, t)
<1>1. PICK r, u : r = nbufline(p) /\ u = SavLine(r, r.got)
  OBVIOUS
<1>2. Supplies(p, r, u, {})
  BY <1>1, GoodNbufline DEF Copies
<1>3. CASE p.got = NULL
  BY <1>3 DEF CopyNext, Copyable
<1>4. CASE p.got # NULL /\ r.got = NULL
  <2>1. t = r
    BY <1>1, <1>4 DEF CopyNext, Copyable
  <2> QED BY <2>1, <1>2, <1>4 DEF Supplies, SameUse, Copies
<1>5. CASE p.got # NULL /\ r.got # NULL
  <2>1. PICK l, X, w : l = r.got /\ X = {l} /\ w = Append(u.copy, l)
    OBVIOUS
  <2>2. l \in Line /\ SameUse(p, u) /\ Sound(u, X)
    <3>1. {} \cup {r.got} = X
      BY <2>1
    <3> QED BY <3>1, <2>1, <1>2, <1>5 DEF Supplies
  <2>3. CopyIs(u, w, t)
    BY <2>1, <1>1, <1>5 DEF CopyNext, Copyable, CopyIs
  <2>4. u.copy \in Seq(Line) /\ Once(u.copy) /\ ToSet(u.copy) \cap X = {}
    BY <2>2, HandFacts DEF Sound, Rec
  <2>5. w \in Seq(Line) /\ Appends(u.copy, l, w)
    <3>1. u.copy \in Seq(Line) /\ l \in Line /\ w = Append(u.copy, l)
      BY <2>1, <2>2, <2>4
    <3> QED BY ONLY <3>1, AppendFacts
  <2>6. Trade(u.copy, X, w, {})
    BY <2>1, <2>4, <2>5 DEF Trade, Appends
  <2>7. Sound(t, {}) /\ SameButLists(u, t) /\ t.kept = u.kept
    BY ONLY <2>2, <2>3, <2>6, CopyChanged
  <2> QED BY <2>2, <2>7 DEF Copies, SameUse, SameButLists
<1> QED BY <1>3, <1>4, <1>5

(* Lines are copied.                                                       *)
LEMMA GoodCopy ==
  ASSUME NEW s, Sound(s, {}), NEW n, n \in Nat, n >= 1, NEW t, t = Copy(s, n)
  PROVE  Copies(s, t)
<1> DEFINE S == {p \in Rec : Copies(s, p)}
           init == [s EXCEPT !.got = Done]
           Def(g) == [k \in 0 .. n - 1 |-> IF k = 0 THEN init ELSE CopyNext(g[k - 1])]
           E == CHOOSE g : g = Def(g)
<1>1. t = E[n - 1]
  BY DEF Copy
<1>0. PICK m : m = n - 1
  OBVIOUS
<1>10. m \in Nat
  BY <1>0
<1>2. init \in S
  <2>1. PICK u : u = init
    OBVIOUS
  <2>2. Sound(u, {}) /\ SameUse(s, u)
    <3>1. Done \in Line \cup {NULL, Done}
      OBVIOUS
    <3> QED BY <2>1, <3>1, GotChanged
  <2>3. Copies(s, u)
    BY <2>2 DEF Copies, SameUse
  <2> QED BY <2>1, <2>2, <2>3 DEF Sound
<1>3. \A p \in S : CopyNext(p) \in S
  <2> TAKE p \in S
  <2>1. Copies(s, CopyNext(p))
    BY GoodCopyNext
  <2> QED BY <2>1 DEF Copies, Sound
<1> HIDE DEF S, init
<1>4. \E f : f = Def(f)
  <2> DEFINE G == [p \in (1 .. m) \X S |-> CopyNext(p[2])]
  <2>1. \A i \in 1 .. m, u \in S : G[<<i, u>>] = CopyNext(u)
    OBVIOUS
  <2>2. G \in [(1 .. m) \X S -> S]
    BY <1>3
  <2> HIDE DEF G
  <2>3. PICK f : IsLoop(f, m, S, init, G)
    BY <1>2, <1>10, <2>2, LoopExists
  <2>4. ASSUME NEW i \in 0 .. m
        PROVE  f[i] = IF i = 0 THEN init ELSE CopyNext(f[i - 1])
    <3>1. CASE i = 0
      BY <3>1, <2>3 DEF IsLoop
    <3>2. CASE i # 0
      <4>1. i \in 1 .. m /\ i - 1 \in 0 .. m
        BY <3>2, <1>10
      <4>2. f[i] = G[<<i, f[i - 1]>>] /\ f[i - 1] \in S
        BY <4>1, <2>3 DEF IsLoop
      <4> QED BY <4>1, <4>2, <3>2, <2>1
    <3> QED BY <3>1, <3>2
  <2>5. f = [i \in 0 .. m |-> f[i]]
    BY <2>3 DEF IsLoop
  <2>6. f = Def(f)
    BY <2>4, <2>5, <1>0
  <2> QED BY <2>6
<1>5. E = Def(E)
  <2> HIDE DEF Def
  <2> QED BY <1>4
<1>6. \A i \in 0 .. m : E[i] = IF i = 0 THEN init ELSE CopyNext(E[i - 1])
  <2> HIDE DEF E
  <2> QED BY <1>0, <1>5
<1> HIDE DEF E, Def
<1> DEFINE W == {i \in 0 .. m : E[i] \in S}
<1>7. 0 \in W
  BY <1>2, <1>6, <1>10
<1>8. ASSUME NEW i \in 1 .. m, i - 1 \in W PROVE i \in W
  <2>1. i \in 0 .. m /\ i # 0
    BY <1>10
  <2> QED BY <2>1, <1>3, <1>6, <1>8
<1>9. m \in W
  <2> HIDE DEF W
  <2>1. \A i \in 0 .. m : i \in W
    BY <1>7, <1>8, <1>10, EachTurn
  <2> QED BY <2>1, <1>10
<1> QED BY <1>0, <1>1, <1>9 DEF S

\* What a yank from c leaves alone, and that no line of the buffer goes.
Yields(c, t) ==
  /\ t.copy = <<>> /\ t.kept = c.kept /\ t.cur = c.cur /\ t.world = c.world /\ t.got = c.got
  /\ t.kill = c.kill /\ t.kptr = c.kptr /\ t.tm = c.tm /\ t.text[c.cur] # <<>>
  /\ ToSet(c.text[c.cur]) \subseteq ToSet(t.text[c.cur])

(* The copied lines are put in.                                            *)
LEMMA GoodYanked ==
  ASSUME NEW c, Sound(c, {}), c.text[c.cur] # <<>>, NEW with \in BOOLEAN, NEW t, t = Yanked(c, with)
  PROVE  Sound(t, {}) /\ Yields(c, t)
<1>1. c \in Rec /\ c.copy \in Seq(Line) /\ Once(c.copy)
  BY HandFacts DEF Sound, Rec
<1>2. PICK w, X, u : w = c.copy /\ X = ToSet(w) /\ CopyIs(c, <<>>, u)
  BY DEF CopyIs
<1>3. Sound(u, X) /\ SameButLists(c, u) /\ u.kept = c.kept /\ u.copy = <<>>
  <2>1. Trade(c.copy, {}, <<>>, X)
    BY <1>2, ShortLists DEF Trade
  <2> QED BY ONLY <2>1, <1>2, Sound(c, {}), CopyChanged
<1>4. PICK b, at, r, p, text_, dot_ :
        /\ PutIn(u, w, b, at, r, p)
        /\ text_ = [u.text EXCEPT ![b] = r] /\ dot_ = [u.dot EXCEPT ![b] = at + Len(w)]
  <2>1. PICK b, at : b = u.cur /\ at = u.dot[b]
    OBVIOUS
  <2>2. PICK r : r = SubSeq(u.text[b], 1, at) \o w \o SubSeq(u.text[b], at + 1, Len(u.text[b]))
    OBVIOUS
  <2>3. PutIn(u, w, b, at, r, [u EXCEPT !.text[b] = r, !.dot[b] = at + Len(w)])
    BY <2>1, <2>2 DEF PutIn
  <2> QED BY <2>3
<1>5. /\ b = u.cur /\ at = u.dot[b] /\ p = [u EXCEPT !.text = text_, !.dot = dot_]
      /\ r = SubSeq(u.text[b], 1, at) \o w \o SubSeq(u.text[b], at + 1, Len(u.text[b]))
  BY <1>4 DEF PutIn
<1>6. u.text = c.text /\ u.dot = c.dot /\ b = c.cur /\ at = c.dot[b]
  BY <1>3, <1>5 DEF SameButLists
<1>7. w \in Seq(Line) /\ Once(w)
  BY <1>1, <1>2
<1>8. /\ Sound(p, {}) /\ SameButTexts(u, p) /\ p.text[b] # <<>>
      /\ ToSet(p.text[b]) = ToSet(u.text[b]) \cup X
  <2>1. u.text[u.cur] # <<>> /\ X = ToSet(w)
    BY <1>2, <1>5, <1>6
  <2> QED BY ONLY <2>1, <1>3, <1>4, <1>7, TextPut
<1>9. PICK ls, l : /\ ls = IF with /\ c.got # NULL /\ c.copy # <<>> THEN {c.text[b][at]} ELSE {}
                   /\ l = Last(<<NULL>> \o c.copy)
  OBVIOUS
<1>10. p = [c EXCEPT !.text = text_, !.dot = dot_, !.copy = <<>>]
  <2>1. u = [c EXCEPT !.copy = <<>>]
    BY <1>2 DEF CopyIs
  <2> QED BY ONLY <2>1, <1>1, <1>5 DEF Rec
<1>11. t = MoveMarks(p, ls, l)
  <2>1. text_ = [c.text EXCEPT ![b] = SubSeq(@, 1, at) \o c.copy \o SubSeq(@, at + 1, Len(@))]
        /\ dot_ = [c.dot EXCEPT ![b] = at + Len(c.copy)]
    BY <1>2, <1>4, <1>5, <1>6
  <2>2. PICK v : v = [c EXCEPT !.text[b] = SubSeq(@, 1, at) \o c.copy \o SubSeq(@, at + 1, Len(@)),
                              !.dot[b] = at + Len(c.copy), !.copy = <<>>]
    OBVIOUS
  <2>3. v = p
    BY <2>1, <2>2, <1>10
  <2> QED BY <2>2, <2>3, <1>6, <1>9 DEF Yanked
<1>12. ls = {} \/ l \in ToSet(p.text[p.cur])
  <2>1. p.cur = b
    BY <1>5, <1>8 DEF SameButTexts
  <2>2. ASSUME ls # {} PROVE l \in X
    <3>1. w # <<>>
      BY <2>2, <1>2, <1>9
    <3>2. PICK o, v, n : o = <<NULL>> /\ v = o \o w /\ n = Len(w)
      OBVIOUS
    <3>3. n \in Nat /\ n # 0 /\ ToSet(w) = {w[i] : i \in 1 .. n}
      BY <3>1, <3>2, <1>7, ListFacts
    <3>4. o \in Seq(Int) /\ Len(o) = 1 /\ w \in Seq(Int)
      BY <3>2, <1>7 DEF NULL, Line
    <3>5. Len(v) = 1 + n /\ v[1 + n] = w[n]
      <4>1. /\ Len(v) = Len(o) + Len(w)
            /\ \A i \in 1 .. Len(o) + Len(w) : v[i] = IF i <= Len(o) THEN o[i] ELSE w[i - Len(o)]
        BY ONLY <3>2, <3>4, ConcatProperties
      <4>2. 1 + n \in 1 .. 1 + n /\ ~ (1 + n <= 1) /\ (1 + n) - 1 = n
        BY ONLY <3>3
      <4> QED BY <4>1, <4>2, <3>2, <3>4
    <3>6. l = v[Len(v)]
      BY <3>2, <1>2, <1>9 DEF Last
    <3>7. n \in 1 .. n
      BY ONLY <3>3
    <3> QED BY <3>3, <3>5, <3>6, <3>7, <1>2
  <2> QED BY <2>1, <2>2, <1>8
<1>13. Sound(t, {}) /\ MarksMoved(p, ls, l, t)
  BY <1>8, <1>11, <1>12, GoodMoveMarks
<1>14. Frame(p, t) /\ t.tm = p.tm
  BY <1>13 DEF MarksMoved
<1>15. Yields(c, t)
  <2>1. t.cur = c.cur /\ t.text[c.cur] = p.text[b]
    <3>1. t.cur = p.cur /\ t.text = p.text
      BY ONLY <1>14 DEF Frame
    <3> QED BY <3>1, <1>5, <1>6, <1>8 DEF SameButTexts
  <2>2. t.copy = <<>> /\ t.kept = c.kept /\ t.world = c.world /\ t.got = c.got
        /\ t.kill = c.kill /\ t.kptr = c.kptr /\ t.tm = c.tm
    BY <1>3, <1>8, <1>14 DEF Frame, SameButTexts, SameButLists
  <2> QED BY <2>1, <2>2, <1>6, <1>8 DEF Yields
<1> QED BY <1>13, <1>15

\* What DoYank changes and what it leaves alone.
DidYank(s, t) ==
  /\ t.copy = <<>> /\ t.kept = s.kept /\ t.cur = s.cur /\ t.world = s.world
  /\ t.kill = s.kill /\ t.kptr = s.kptr /\ t.tm = s.tm /\ t.text[s.cur] # <<>>
  /\ ToSet(s.text[s.cur]) \subseteq ToSet(t.text[s.cur])

(* A kill is yanked.                                                       *)
LEMMA GoodDoYank ==
  ASSUME NEW s, Sound(s, {}), s.text[s.cur] # <<>>, NEW n, n \in Nat, n >= 1,
         NEW with \in BOOLEAN, NEW t, t = DoYank(s, n, with)
  PROVE  Sound(t, {}) /\ DidYank(s, t)
<1>1. PICK c : c = Copy(s, n)
  OBVIOUS
<1>2. Copies(s, c)
  BY <1>1, GoodCopy
<1>3. Sound(c, {}) /\ c.text[c.cur] # <<>> /\ c.text = s.text /\ c.cur = s.cur
  BY <1>2 DEF Copies
<1>4. t = Yanked(c, with)
  BY <1>1 DEF DoYank
<1>5. Sound(t, {}) /\ Yields(c, t)
  BY ONLY <1>3, <1>4, with \in BOOLEAN, GoodYanked
<1> QED BY <1>2, <1>3, <1>5 DEF Yields, Copies, DidYank

-----------------------------------------------------------------------------
(* The kill ring                                                           *)

(* The greatest of a set of numbers that has a bound.                      *)
LEMMA MaxIs ==
  ASSUME NEW n \in Nat, NEW T, T \subseteq 0 .. n, T # {}
  PROVE  Max(T) \in T
<1> DEFINE U == {n - x : x \in T}
<1>1. U \subseteq Nat /\ U # {}
  <2>1. \A x \in T : n - x \in Nat
    OBVIOUS
  <2>2. PICK x : x \in T
    OBVIOUS
  <2>3. n - x \in U
    BY <2>2
  <2> QED BY <2>1, <2>3
<1> HIDE DEF U
<1>2. PICK y \in U : \A z \in U : y <= z
  BY <1>1, Least
<1>3. PICK x \in T : y = n - x
  BY DEF U
<1>4. \A z \in T : x >= z
  <2> TAKE z \in T
  <2>1. n - x <= n - z
    BY <1>2, <1>3 DEF U
  <2> QED BY <2>1
<1>5. \E x_ \in T : \A z \in T : x_ >= z
  BY <1>4
<1> QED BY <1>5 DEF Max

(* Indices of the kill ring.                                               *)
LEMMA RingIndex ==
  ASSUME NEW n \in Nat, n >= 2, NEW k, k \in 0 .. n - 1
  PROVE  /\ (k + 1) % n \in 0 .. n - 1 /\ (k + n - 1) % n \in 0 .. n - 1
         /\ (k # n - 1 => (k + 1) % n = k + 1)
<1>1. \A x \in Nat : x % n \in 0 .. n - 1
  OBVIOUS
<1>2. k + 1 \in Nat /\ k + n - 1 \in Nat
  OBVIOUS
<1>3. ASSUME k # n - 1 PROVE (k + 1) % n = k + 1
  <2>1. k + 1 \in Nat /\ k + 1 < n
    BY <1>3
  <2> QED BY <2>1
<1> QED BY <1>1, <1>2, <1>3

\* What a change of the kills leaves alone.
KillsOnly(s, t) ==
  /\ t.world = s.world /\ t.text = s.text /\ t.dot = s.dot /\ t.cur = s.cur /\ t.ring = s.ring
  /\ t.tm = s.tm /\ t.got = s.got /\ t.kept = s.kept /\ t.copy = s.copy

(* A kill is overwritten, and the old one freed.                           *)
LEMMA KillFreed ==
  ASSUME NEW s, NEW q, NEW u, Sound(u, ToSet(q)), q \in Seq(Line), Once(q), SameLists(s, u), KillsOnly(s, u),
         NEW t, t = lfreelist(u, q)
  PROVE  Sound(t, {}) /\ KillsOnly(s, t) /\ t.kill = u.kill /\ t.kptr = u.kptr
<1>1. Sound(u, {} \cup ToSet(q)) /\ {} \cap ToSet(q) = {}
  OBVIOUS
<1>2. PICK X : X = {}
  OBVIOUS
<1>3. Sound(u, X \cup ToSet(q)) /\ X \cap ToSet(q) = {}
  BY <1>1, <1>2
<1>4. Sound(t, X) /\ SameUse(u, t) /\ t.got = u.got
  BY <1>3, GoodFreed
<1> QED BY <1>2, <1>4 DEF SameUse, KillsOnly

(* A kill is added to the ring.                                            *)
LEMMA GoodAddKillRing ==
  ASSUME NEW s, NEW X, Sound(s, X), NEW list, list \in Seq(Line), Once(list), X = ToSet(list),
         NEW t, t = AddKillRing(s, list)
  PROVE  Sound(t, {}) /\ KillsOnly(s, t) /\ t.kptr \in Kills /\ t.kill[t.kptr] = list
<1>1. s \in Rec /\ s.kill \in [Kills -> Seq(Line)] /\ s.kptr \in Kills
  BY DEF Sound, Rec
<1>2. PICK N, j, k : N = NUMKILLS /\ j = s.kptr /\ k = Next_(j)
  OBVIOUS
<1>3. N \in Nat /\ N >= 2 /\ Kills = 0 .. N - 1 /\ j \in 0 .. N - 1
  BY <1>1, <1>2 DEF Kills
<1>4. k \in Kills /\ (j # N - 1 => k = j + 1)
  <2>1. k = (j + 1) % N
    BY <1>2 DEF Next_
  <2> QED BY ONLY <2>1, <1>3, RingIndex
<1>5. N - 1 \in Kills
  BY ONLY <1>3
<1>6. CASE s.kill[j] = <<>>
  <2>1. KillAt(s, X, j, list, j, {}, t)
    <3>1. Trade(s.kill[j], X, list, {})
      BY <1>6, ShortLists DEF Trade
    <3>2. PICK kl : kl = [s.kill EXCEPT ![j] = list]
      OBVIOUS
    <3>3. t = [s EXCEPT !.kill = kl]
      BY <3>2, <1>2, <1>6 DEF AddKillRing
    <3>4. t = [s EXCEPT !.kill = kl, !.kptr = j]
      BY ONLY <3>3, <1>1, <1>2 DEF Rec
    <3> QED BY <3>1, <3>2, <3>4, <1>1, <1>2 DEF KillAt
  <2>2. Sound(t, {}) /\ KillIs(s, j, list, j, t)
    BY ONLY <2>1, Sound(s, X), KillChanged
  <2> QED BY <2>2, <1>1, <1>2 DEF KillIs, SameButKills, KillsOnly
<1>7. CASE s.kill[j] # <<>> /\ s.kill[N - 1] = <<>>
  <2>1. j # N - 1 /\ k = j + 1
    BY <1>4, <1>7
  <2>2. PICK f : f = [i \in Kills |-> IF i < k THEN i ELSE IF i = k THEN N - 1 ELSE i - 1]
    OBVIOUS
  <2>3. \A i \in Kills : /\ i < k => f[i] = i
                         /\ i = k => f[i] = N - 1
                         /\ i > k => f[i] = i - 1
                         /\ f[i] \in Kills
    BY ONLY <2>1, <2>2, <1>3, <1>4
  <2>4. Permutes(f)
    <3>1. f \in [Kills -> Kills]
      BY <2>2, <2>3
    <3>2. \A i, m \in Kills : f[i] = f[m] => i = m
      BY ONLY <2>1, <2>3, <1>3, <1>4
    <3>3. ASSUME NEW m \in Kills PROVE \E i \in Kills : f[i] = m
      <4>1. CASE m < k
        BY <4>1, <2>3
      <4>2. CASE m = N - 1
        BY <4>2, <2>3, <1>4
      <4>3. CASE ~ (m < k) /\ m # N - 1
        <5>1. m + 1 \in Kills /\ m + 1 > k /\ (m + 1) - 1 = m
          BY ONLY <4>3, <1>3, <1>4, m \in Kills
        <5> QED BY <5>1, <2>3
      <4> QED BY <4>1, <4>2, <4>3
    <3> QED BY <3>1, <3>2, <3>3 DEF Permutes
  <2>5. PICK kl, u, w : /\ kl = [i \in Kills |-> s.kill[f[i]]]
                        /\ u = [s EXCEPT !.kill = kl, !.kptr = k]
                        /\ w = [kl EXCEPT ![k] = list]
    OBVIOUS
  <2>6. kl \in [Kills -> Seq(Line)] /\ \A i \in Kills : kl[i] = s.kill[f[i]]
    BY <2>3, <2>5, <1>1
  <2>7. KillsAt(s, f, kl, k, u)
    BY <2>4, <2>5, <2>6, <1>4 DEF KillsAt
  <2>8. Sound(u, X) /\ SameButKills(s, u) /\ u.kill = kl /\ u.kptr = k
    BY <2>7, KillsMoved
  <2>9. kl[k] = <<>>
    BY <2>3, <2>6, <1>4, <1>7
  <2>10. t = [s EXCEPT !.kill = w, !.kptr = k]
    <3>1. PICK moved : moved = [i \in DOMAIN s.kill |-> IF i <= k THEN s.kill[i] ELSE s.kill[i - 1]]
      OBVIOUS
    <3>2. t = [s EXCEPT !.kill = [moved EXCEPT ![k] = list], !.kptr = k]
      BY <3>1, <1>2, <1>7 DEF AddKillRing
    <3>3. moved = [i \in Kills |-> IF i <= k THEN s.kill[i] ELSE s.kill[i - 1]]
      BY <3>1, <1>1
    <3>4. \A i \in Kills : i # k => moved[i] = kl[i]
      <4> TAKE i \in Kills
      <4>1. CASE i < k
        <5>1. i <= k
          BY ONLY <4>1, <1>3, <1>4, i \in Kills
        <5> QED BY <5>1, <4>1, <3>3, <2>3, <2>6
      <4>2. CASE i > k
        <5>1. ~ (i <= k) /\ i - 1 \in Kills
          BY ONLY <4>2, <1>3, <1>4, i \in Kills
        <5> QED BY <5>1, <4>2, <3>3, <2>3, <2>6
      <4>3. i \in Int /\ k \in Int
        BY ONLY <1>3, <1>4, i \in Kills
      <4> QED BY <4>1, <4>2, <4>3
    <3>5. [moved EXCEPT ![k] = list] = w
      <4>1. DOMAIN moved = Kills /\ DOMAIN kl = Kills
        BY <3>3, <2>5
      <4>2. [moved EXCEPT ![k] = list] = [i \in Kills |-> IF i = k THEN list ELSE moved[i]]
        BY <4>1
      <4>3. w = [i \in Kills |-> IF i = k THEN list ELSE kl[i]]
        BY <4>1, <2>5
      <4> QED BY ONLY <4>2, <4>3, <3>4
    <3> QED BY <3>2, <3>5
  <2>11. KillAt(u, X, k, list, k, {}, t)
    <3>1. Trade(u.kill[k], X, list, {})
      BY <2>8, <2>9, ShortLists DEF Trade
    <3>2. t = [u EXCEPT !.kill = w, !.kptr = k]
      BY ONLY <2>5, <2>10, <1>1 DEF Rec
    <3>3. w = [u.kill EXCEPT ![k] = list]
      BY <2>5, <2>8
    <3> QED BY <3>1, <3>2, <3>3, <1>4 DEF KillAt
  <2>12. Sound(t, {}) /\ KillIs(u, k, list, k, t)
    BY ONLY <2>8, <2>11, KillChanged
  <2> QED BY <2>8, <2>12, <1>4 DEF KillIs, SameButKills, KillsOnly
<1>8. CASE s.kill[j] # <<>> /\ s.kill[N - 1] # <<>>
  <2>1. PICK q, kl, u, Y : /\ q = s.kill[k] /\ kl = [s.kill EXCEPT ![k] = list]
                           /\ u = [s EXCEPT !.kill = kl, !.kptr = k] /\ Y = ToSet(q)
    OBVIOUS
  <2>2. q \in Seq(Line) /\ Once(q) /\ ToSet(q) \cap X = {}
    BY <2>1, <1>1, <1>4, HandFacts
  <2>3. KillAt(s, X, k, list, k, Y, u)
    <3>1. Trade(q, X, list, Y)
      BY <2>1, <2>2 DEF Trade
    <3> QED BY <3>1, <2>1, <1>4 DEF KillAt
  <2>4. Sound(u, Y) /\ KillIs(s, k, list, k, u)
    BY ONLY <2>3, Sound(s, X), KillChanged
  <2>5. SameLists(s, u) /\ KillsOnly(s, u)
    BY <2>4 DEF KillIs, SameButKills, KillsOnly
  <2>6. t = lfreelist(u, q)
    <3>1. t = [lfreelist(s, q) EXCEPT !.kill = [@ EXCEPT ![k] = list], !.kptr = k]
      BY <2>1, <1>2, <1>8 DEF AddKillRing
    <3>2. PICK dl, fr : dl = [l \in Line |-> IF l \in ToSet(q) THEN "null" ELSE s.dline[l]] /\ fr = Reverse(q) \o s.free
      OBVIOUS
    <3>3. PICK v : v = lfreelist(s, q)
      OBVIOUS
    <3>4. v = [s EXCEPT !.dline = dl, !.free = fr]
      BY <3>2, <3>3 DEF lfreelist
    <3>5. v.kill = s.kill
      BY ONLY <3>4, <1>1 DEF Rec
    <3>6. t = [v EXCEPT !.kill = kl, !.kptr = k]
      BY <3>1, <3>3, <3>5, <2>1
    <3>7. lfreelist(u, q) = [u EXCEPT !.dline = dl, !.free = fr]
      <4>1. u.dline = s.dline /\ u.free = s.free
        BY <2>5 DEF SameLists
      <4> QED BY <4>1, <3>2 DEF lfreelist
    <3> QED BY ONLY <3>4, <3>6, <3>7, <2>1, <1>1 DEF Rec
  <2>7. Sound(t, {}) /\ KillsOnly(s, t) /\ t.kill = u.kill /\ t.kptr = u.kptr
    <3>1. Sound(u, ToSet(q)) /\ q \in Seq(Line) /\ Once(q)
      BY <2>1, <2>2, <2>4
    <3> QED BY ONLY <3>1, <2>5, <2>6, KillFreed
  <2> QED BY <2>4, <2>7, <1>4 DEF KillIs
<1> QED BY <1>6, <1>7, <1>8

(* A kill is taken off the ring.                                           *)
LEMMA GoodDelKillRing ==
  ASSUME NEW s, Sound(s, {}), NEW t, t = DelKillRing(s)
  PROVE  Sound(t, {}) /\ KillsOnly(s, t)
<1>1. s \in Rec /\ s.kill \in [Kills -> Seq(Line)] /\ s.kptr \in Kills
  BY DEF Sound, Rec
<1>2. PICK N, k, q : N = NUMKILLS /\ k = s.kptr /\ q = s.kill[k]
  OBVIOUS
<1>3. N \in Nat /\ N >= 2 /\ Kills = 0 .. N - 1 /\ k \in 0 .. N - 1
  BY <1>1, <1>2 DEF Kills
<1>4. q \in Seq(Line) /\ Once(q)
  BY <1>1, <1>2, HandFacts
<1>5. PICK shifted, full, p :
        /\ shifted = [i \in Kills |-> IF i < k THEN s.kill[i] ELSE IF i = N - 1 THEN <<>> ELSE s.kill[i + 1]]
        /\ full = {i \in 0 .. (k + N - 1) % N : shifted[i] # <<>>}
        /\ p = IF full = {} THEN 0 ELSE Max(full)
  OBVIOUS
<1>6. t = [lfreelist(s, q) EXCEPT !.kill = shifted, !.kptr = p]
  <2>1. DOMAIN s.kill = Kills
    BY <1>1
  <2> QED BY <2>1, <1>2, <1>5 DEF DelKillRing
<1>7. p \in Kills
  <2>1. PICK n : n = (k + N - 1) % N
    OBVIOUS
  <2>2. n \in 0 .. N - 1
    BY ONLY <2>1, <1>3, RingIndex
  <2>3. CASE full = {}
    <3>1. 0 \in 0 .. N - 1
      BY ONLY <1>3
    <3> QED BY <3>1, <2>3, <1>3, <1>5
  <2>4. CASE full # {}
    <3>1. n \in Nat /\ full \subseteq 0 .. n
      BY <2>1, <2>2, <1>5
    <3>2. Max(full) \in full
      BY ONLY <2>4, <3>1, MaxIs
    <3>3. Max(full) \in 0 .. N - 1
      <4>1. PICK x : x = Max(full)
        OBVIOUS
      <4>2. x \in 0 .. n
        BY <4>1, <3>1, <3>2
      <4>3. x \in 0 .. N - 1
        BY ONLY <4>2, <2>2, <1>3
      <4> QED BY <4>1, <4>3
    <3> QED BY <3>3, <2>4, <1>3, <1>5
  <2> QED BY <2>3, <2>4
<1>8. PICK X, kl, u, v :
        /\ X = ToSet(q) /\ kl = [s.kill EXCEPT ![k] = <<>>]
        /\ u = [s EXCEPT !.kill = kl, !.kptr = k]
        /\ v = [u EXCEPT !.kill = shifted, !.kptr = p]
  OBVIOUS
<1>9. Sound(u, X) /\ KillIs(s, k, <<>>, k, u)
  <2>1. Trade(s.kill[k], {}, <<>>, X)
    BY <1>2, <1>8, ShortLists DEF Trade
  <2>2. KillAt(s, {}, k, <<>>, k, X, u)
    BY <2>1, <1>1, <1>2, <1>8 DEF KillAt
  <2> QED BY ONLY <2>2, Sound(s, {}), KillChanged
<1>10. u.kill = kl /\ kl \in [Kills -> Seq(Line)] /\ kl[k] = <<>> /\ \A i \in Kills \ {k} : kl[i] = s.kill[i]
  <2>1. u.kill = kl
    BY ONLY <1>1, <1>8 DEF Rec
  <2>2. <<>> \in Seq(Line) /\ k \in Kills
    BY <1>3
  <2> QED BY <2>1, <2>2, <1>1, <1>8
<1>11. PICK f : f = [i \in Kills |-> IF i < k THEN i ELSE IF i = N - 1 THEN k ELSE i + 1]
  OBVIOUS
<1>12. \A i \in Kills : /\ i < k => f[i] = i
                        /\ ~ (i < k) /\ i = N - 1 => f[i] = k
                        /\ ~ (i < k) /\ i # N - 1 => f[i] = i + 1
                        /\ f[i] \in Kills
  BY ONLY <1>3, <1>11
<1>13. Permutes(f)
  <2>1. f \in [Kills -> Kills]
    BY <1>11, <1>12
  <2>2. \A i, j \in Kills : f[i] = f[j] => i = j
    BY ONLY <1>3, <1>12
  <2>3. ASSUME NEW m \in Kills PROVE \E i \in Kills : f[i] = m
    <3>1. CASE m < k
      BY <3>1, <1>12
    <3>2. CASE m = k
      <4>1. N - 1 \in Kills /\ ~ (N - 1 < k)
        BY ONLY <1>3
      <4> QED BY <4>1, <3>2, <1>12
    <3>3. CASE m > k
      <4>1. m - 1 \in Kills /\ ~ (m - 1 < k) /\ m - 1 # N - 1 /\ (m - 1) + 1 = m
        BY ONLY <3>3, <1>3, m \in Kills
      <4> QED BY <4>1, <1>12
    <3>4. m \in Int /\ k \in Int
      BY ONLY <1>3, m \in Kills
    <3> QED BY <3>1, <3>2, <3>3, <3>4
  <2> QED BY <2>1, <2>2, <2>3 DEF Permutes
<1>14. \A i \in Kills : shifted[i] = kl[f[i]]
  <2> TAKE i \in Kills
  <2>1. CASE i < k
    <3>1. i # k
      BY ONLY <2>1, <1>3, i \in Kills
    <3> QED BY <3>1, <2>1, <1>5, <1>10, <1>12
  <2>2. CASE ~ (i < k) /\ i = N - 1
    BY <2>2, <1>5, <1>10, <1>12
  <2>3. CASE ~ (i < k) /\ i # N - 1
    <3>1. i + 1 \in Kills /\ i + 1 # k
      BY ONLY <2>3, <1>3, i \in Kills
    <3> QED BY <3>1, <2>3, <1>5, <1>10, <1>12
  <2> QED BY <2>1, <2>2, <2>3
<1>15. shifted \in [Kills -> Seq(Line)]
  BY <1>5, <1>10, <1>12, <1>14
<1>16. KillsAt(u, f, shifted, p, v)
  BY <1>7, <1>8, <1>10, <1>13, <1>14, <1>15 DEF KillsAt
<1>17. Sound(v, X) /\ SameButKills(u, v)
  BY ONLY <1>9, <1>16, KillsMoved
<1>18. SameLists(s, v) /\ KillsOnly(s, v)
  BY <1>9, <1>17 DEF KillIs, SameButKills, KillsOnly, SameLists
<1>19. t = lfreelist(v, q)
  <2>1. PICK dl, fr, w : /\ dl = [l \in Line |-> IF l \in ToSet(q) THEN "null" ELSE s.dline[l]]
                         /\ fr = Reverse(q) \o s.free /\ w = lfreelist(s, q)
    OBVIOUS
  <2>2. w = [s EXCEPT !.dline = dl, !.free = fr]
    BY <2>1 DEF lfreelist
  <2>3. t = [w EXCEPT !.kill = shifted, !.kptr = p]
    BY <2>1, <1>6
  <2>4. lfreelist(v, q) = [v EXCEPT !.dline = dl, !.free = fr]
    <3>1. v.dline = s.dline /\ v.free = s.free
      BY <1>18 DEF SameLists
    <3> QED BY <3>1, <2>1 DEF lfreelist
  <2> QED BY ONLY <2>2, <2>3, <2>4, <1>1, <1>8, ZenonT(60) DEF Rec
<1>20. Sound(t, {}) /\ KillsOnly(s, t)
  <2>1. Sound(v, ToSet(q)) /\ q \in Seq(Line) /\ Once(q)
    BY <1>4, <1>8, <1>17
  <2> QED BY ONLY <2>1, <1>18, <1>19, KillFreed
<1> QED BY <1>20

(* A kill is made longer.                                                  *)
LEMMA GoodAppended ==
  ASSUME NEW c, Sound(c, {}), c.kill[c.kptr] # <<>>, NEW backwards \in BOOLEAN, NEW t, t = Appended(c, backwards)
  PROVE  Sound(t, {}) /\ t.kept = <<>> /\ t.copy = <<>> /\ t.kill[t.kptr] # <<>>
<1>1. c \in Rec /\ c.kill \in [Kills -> Seq(Line)] /\ c.kptr \in Kills /\ c.copy \in Seq(Line) /\ Once(c.copy)
  BY HandFacts DEF Sound, Rec
<1>2. PICK w, X, u, k, q : /\ w = c.copy /\ X = ToSet(w) /\ CopyIs(c, <<>>, u)
                           /\ k = c.kptr /\ q = c.kill[k]
  BY DEF CopyIs
<1>3. Sound(u, X) /\ SameButLists(c, u) /\ u.kept = c.kept /\ u.copy = <<>>
  <2>1. Trade(c.copy, {}, <<>>, X)
    BY <1>2, ShortLists DEF Trade
  <2> QED BY ONLY <2>1, <1>2, Sound(c, {}), CopyChanged
<1>4. w \in Seq(Line) /\ Once(w) /\ k \in Kills /\ u.kill = c.kill /\ u.leaked = c.leaked
  BY <1>1, <1>2, <1>3 DEF SameButLists
<1>5. q \in Seq(Line) /\ Once(q) /\ ToSet(q) \cap X = {} /\ q # <<>>
  BY <1>1, <1>2, <1>3, <1>4, HandFacts
<1>6. PICK o, a, z, r : /\ o = <<Head(q)>> /\ a = o \o w /\ z = Tail(q)
                        /\ r = IF backwards THEN a \o z ELSE q \o w
  OBVIOUS
<1>7. r \in Seq(Line) /\ Once(r) /\ ToSet(r) = ToSet(q) \cup X
  <2>1. CASE backwards
    <3>1. /\ Head(q) \in Line /\ z \in Seq(Line) /\ Once(z) /\ Head(q) \notin ToSet(z)
          /\ ToSet(q) = {Head(q)} \cup ToSet(z)
      BY ONLY <1>5, <1>6, TailFacts
    <3>2. o \in Seq(Line) /\ ToSet(o) = {Head(q)} /\ Once(o)
      BY <3>1, <1>6, ShortLists
    <3>3. a \in Seq(Line) /\ Joins(o, w, a)
      BY ONLY <3>2, <1>4, <1>6, JoinFacts
    <3>4. ToSet(a) = {Head(q)} \cup X /\ Once(a)
      BY <3>1, <3>2, <3>3, <1>2, <1>4, <1>5 DEF Joins
    <3>5. r = a \o z
      BY <2>1, <1>6
    <3>6. r \in Seq(Line) /\ Joins(a, z, r)
      BY ONLY <3>1, <3>3, <3>5, JoinFacts
    <3>7. ToSet(a) \cap ToSet(z) = {}
      BY <3>1, <3>4, <1>5
    <3> QED BY <3>1, <3>4, <3>6, <3>7 DEF Joins
  <2>2. CASE ~ backwards
    <3>1. r = q \o w
      BY <2>2, <1>6
    <3>2. r \in Seq(Line) /\ Joins(q, w, r)
      BY ONLY <3>1, <1>4, <1>5, JoinFacts
    <3> QED BY <3>2, <1>2, <1>4, <1>5 DEF Joins
  <2> QED BY <2>1, <2>2
<1>8. r # <<>>
  <2>1. ToSet(q) # {}
    BY ONLY <1>5, ListFacts
  <2> QED BY <2>1, <1>7, ShortLists
<1>9. PICK kl, v, lk : /\ kl = [c.kill EXCEPT ![k] = r] /\ v = [u EXCEPT !.kill = kl, !.kptr = k]
                       /\ lk = c.leaked \cup ToSet(c.kept)
  OBVIOUS
<1>10. Sound(v, {}) /\ KillIs(u, k, r, k, v)
  <2>1. Trade(u.kill[k], X, r, {})
    BY <1>2, <1>4, <1>7 DEF Trade
  <2>2. KillAt(u, X, k, r, k, {}, v)
    BY <2>1, <1>4, <1>9 DEF KillAt
  <2> QED BY ONLY <2>2, <1>3, KillChanged
<1>11. v.kept = c.kept /\ v.copy = <<>> /\ v.leaked = c.leaked /\ v.kill[k] = r /\ v.kptr = k
  BY <1>3, <1>4, <1>10 DEF KillIs, SameButKills
<1>12. IsLeaked(v, lk, t)
  <2>1. t = [c EXCEPT !.kill = kl, !.leaked = lk, !.copy = <<>>, !.kept = <<>>]
    <3>1. kl = [c.kill EXCEPT ![k] = IF backwards THEN <<Head(@)>> \o c.copy \o Tail(@) ELSE @ \o c.copy]
      BY <1>2, <1>6, <1>9
    <3> QED BY <3>1, <1>2, <1>9 DEF Appended
  <2>2. u = [c EXCEPT !.copy = <<>>]
    BY <1>2 DEF CopyIs
  <2>3. t = [v EXCEPT !.leaked = lk, !.kept = <<>>]
    BY ONLY <2>1, <2>2, <1>1, <1>2, <1>9 DEF Rec
  <2> QED BY <2>3 DEF IsLeaked
<1>13. Sound(t, {}) /\ t.kept = <<>> /\ t.copy = v.copy /\ t.kill = v.kill /\ t.kptr = v.kptr
  <2>1. lk = v.leaked \cup ToSet(v.kept)
    BY <1>9, <1>11
  <2> QED BY ONLY <2>1, <1>10, <1>12, KeptLost
<1> QED BY <1>8, <1>11, <1>13

(* AddKillRing looks at no list of deleted lines.                          *)
LEMMA AddedWithout ==
  ASSUME NEW s, s \in Rec, NEW list, NEW u, KeptIs(s, <<>>, u),
         NEW t, t = [AddKillRing(s, list) EXCEPT !.kept = <<>>]
  PROVE  t = AddKillRing(u, list)
<1>1. u = [s EXCEPT !.kept = <<>>]
  BY DEF KeptIs
<1>2. u.kill = s.kill /\ u.kptr = s.kptr /\ u.dline = s.dline /\ u.free = s.free
  BY ONLY <1>1, s \in Rec DEF Rec
<1>3. PICK j, k, v : j = s.kptr /\ k = Next_(j) /\ v = AddKillRing(s, list)
  OBVIOUS
<1>4. t = [v EXCEPT !.kept = <<>>]
  BY <1>3
<1>5. CASE s.kill[j] = <<>>
  <2>1. PICK kl : kl = [s.kill EXCEPT ![j] = list]
    OBVIOUS
  <2>2. v = [s EXCEPT !.kill = kl] /\ AddKillRing(u, list) = [u EXCEPT !.kill = kl]
    BY <2>1, <1>2, <1>3, <1>5 DEF AddKillRing
  <2> QED BY ONLY <2>2, <1>1, <1>4, s \in Rec DEF Rec
<1>6. CASE s.kill[j] # <<>> /\ s.kill[NUMKILLS - 1] = <<>>
  <2>1. PICK kl : kl = [[i \in DOMAIN s.kill |-> IF i <= k THEN s.kill[i] ELSE s.kill[i - 1]] EXCEPT ![k] = list]
    OBVIOUS
  <2>2. v = [s EXCEPT !.kill = kl, !.kptr = k] /\ AddKillRing(u, list) = [u EXCEPT !.kill = kl, !.kptr = k]
    BY <2>1, <1>2, <1>3, <1>6 DEF AddKillRing
  <2> QED BY ONLY <2>2, <1>1, <1>4, s \in Rec DEF Rec
<1>7. CASE s.kill[j] # <<>> /\ s.kill[NUMKILLS - 1] # <<>>
  <2>1. PICK q, kl, dl, fr, w, x :
          /\ q = s.kill[k] /\ kl = [s.kill EXCEPT ![k] = list]
          /\ dl = [l \in Line |-> IF l \in ToSet(q) THEN "null" ELSE s.dline[l]] /\ fr = Reverse(q) \o s.free
          /\ w = lfreelist(s, q) /\ x = lfreelist(u, q)
    OBVIOUS
  <2>2. w = [s EXCEPT !.dline = dl, !.free = fr] /\ x = [u EXCEPT !.dline = dl, !.free = fr]
    BY <2>1, <1>2 DEF lfreelist
  <2>3. w.kill = s.kill /\ x.kill = s.kill
    BY ONLY <2>2, <1>1, s \in Rec DEF Rec
  <2>4. v = [w EXCEPT !.kill = kl, !.kptr = k] /\ AddKillRing(u, list) = [x EXCEPT !.kill = kl, !.kptr = k]
    BY <2>1, <2>3, <1>2, <1>3, <1>7 DEF AddKillRing
  <2> QED BY ONLY <2>2, <2>4, <1>1, <1>4, s \in Rec DEF Rec
<1> QED BY <1>5, <1>6, <1>7

(* The line and those behind it are killed.                                *)
LEMMA GoodRegKill ==
  ASSUME NEW s, Sound(s, {}), s.kept = <<>>, s.copy = <<>>, NEW i, NEW j, Within(s, i, j),
         NEW again \in BOOLEAN, again => s.kill[s.kptr] # <<>>, NEW backwards \in BOOLEAN,
         NEW t, t = reg_kill(s, i, j, again, backwards)
  PROVE  Sound(t, {}) /\ t.kept = <<>> /\ t.copy = <<>> /\ (t.got # NULL => t.kill[t.kptr] # <<>>)
<1>1. PICK d : d = reg_delete(s, i, j)
  OBVIOUS
<1>2. Sound(d, {}) /\ RegDeleted(s, i, d)
  BY <1>1, GoodRegDelete
<1>3. CASE d.got = NULL
  <2>1. t = d
    BY <1>1, <1>3 DEF reg_kill
  <2> QED BY <2>1, <1>2, <1>3 DEF RegDeleted
<1>4. CASE d.got # NULL /\ again
  <2>1. PICK n, c : n = Len(d.kept) /\ c = Copy(d, n)
    OBVIOUS
  <2>2. n \in Nat /\ n >= 1
    <3>1. d.kept \in Seq(Line) /\ d.kept # <<>>
      BY <1>2, <1>4 DEF Sound, Rec, RegDeleted
    <3> QED BY <3>1, <2>1, ListFacts
  <2>3. Copies(d, c)
    BY ONLY <2>1, <2>2, <1>2, GoodCopy
  <2>4. Sound(c, {}) /\ c.kill[c.kptr] # <<>>
    BY <2>3, <1>2, <1>4 DEF Copies, RegDeleted, SameElse
  <2>5. t = Appended(c, backwards)
    BY <2>1, <1>1, <1>4 DEF reg_kill
  <2> QED BY ONLY <2>4, <2>5, backwards \in BOOLEAN, GoodAppended
<1>5. CASE d.got # NULL /\ ~ again
  <2>1. PICK list, X, u : list = d.kept /\ X = ToSet(list) /\ KeptIs(d, <<>>, u)
    BY DEF KeptIs
  <2>2. d \in Rec /\ list \in Seq(Line) /\ Once(list) /\ list # <<>>
    BY <2>1, <1>2, <1>5, HandFacts DEF Sound, Rec, RegDeleted
  <2>3. Sound(u, X) /\ SameButLists(d, u) /\ u.copy = d.copy /\ u.kept = <<>>
    <3>1. Trade(d.kept, {}, <<>>, X)
      BY <2>1, ShortLists DEF Trade
    <3> QED BY ONLY <3>1, <2>1, <1>2, KeptChanged
  <2>4. t = AddKillRing(u, list)
    <3>1. t = [AddKillRing(d, list) EXCEPT !.kept = <<>>]
      BY <2>1, <1>1, <1>5 DEF reg_kill
    <3> QED BY ONLY <3>1, <2>1, <2>2, AddedWithout
  <2>5. Sound(t, {}) /\ KillsOnly(u, t) /\ t.kill[t.kptr] = list
    BY ONLY <2>1, <2>2, <2>3, <2>4, GoodAddKillRing
  <2> QED BY <2>2, <2>3, <2>5, <1>2, <1>5 DEF KillsOnly, RegDeleted, SameElse
<1> QED BY <1>3, <1>4, <1>5

-----------------------------------------------------------------------------
(* Commands of marks                                                       *)

\* The marks of b are now m, the current one k.
RingAt(s, b, m, k, t) ==
  /\ b \in Buffers /\ m \in [Marks -> Line \cup {NULL}] /\ k \in Marks
  /\ (s.text[b] # <<>> \/ b \notin s.world => \A i \in Marks : m[i] \in ToSet(s.text[b]) \cup {NULL})
  /\ t = [s EXCEPT !.ring[b] = m, !.tm[b] = k]
RingIs(s, b, m, k, t) ==
  /\ Frame(s, t) /\ t.dline = s.dline /\ t.ring[b] = m /\ t.tm[b] = k
  /\ \A c \in Buffers \ {b} : t.ring[c] = s.ring[c] /\ t.tm[c] = s.tm[c]

(* The marks of a buffer.                                                  *)
LEMMA RingChanged ==
  ASSUME NEW s, NEW X, Sound(s, X), NEW b, NEW m, NEW k, NEW t, RingAt(s, b, m, k, t)
  PROVE  Sound(t, X) /\ RingIs(s, b, m, k, t)
<1>0. /\ b \in Buffers /\ m \in [Marks -> Line \cup {NULL}] /\ k \in Marks
      /\ (s.text[b] # <<>> \/ b \notin s.world => \A i \in Marks : m[i] \in ToSet(s.text[b]) \cup {NULL})
      /\ t = [s EXCEPT !.ring[b] = m, !.tm[b] = k]
  BY DEF RingAt
<1>1. s \in Rec /\ s.ring \in [Buffers -> [Marks -> Line \cup {NULL}]] /\ s.tm \in [Buffers -> Marks]
  BY DEF Sound, Rec
<1>2. PICK ring, tm : ring = [s.ring EXCEPT ![b] = m] /\ tm = [s.tm EXCEPT ![b] = k]
  OBVIOUS
<1>3. t = [s EXCEPT !.ring = ring, !.tm = tm]
  BY <1>0, <1>2
<1>4. /\ ring \in [Buffers -> [Marks -> Line \cup {NULL}]] /\ ring[b] = m /\ \A c \in Buffers \ {b} : ring[c] = s.ring[c]
      /\ tm \in [Buffers -> Marks] /\ tm[b] = k /\ \A c \in Buffers \ {b} : tm[c] = s.tm[c]
  BY <1>0, <1>1, <1>2
<1>5. t \in Rec
  BY ONLY <1>1, <1>3, <1>4 DEF Rec
<1>6. Frame(s, t) /\ t.dline = s.dline /\ t.ring = ring /\ t.tm = tm
  BY ONLY <1>1, <1>3 DEF Rec, Frame
<1>7. RingIs(s, b, m, k, t)
  BY ONLY <1>4, <1>6 DEF RingIs
<1>8. Marked(t)
  <2>1. t.text = s.text /\ t.world = s.world /\ t.ring = ring /\ Refs(s)
    BY <1>6 DEF Frame, Sound
  <2>2. ASSUME NEW c \in Buffers, t.text[c] # <<>> \/ c \notin t.world PROVE MarkedAt(t, c)
    <3>1. CASE c = b
      BY <3>1, <2>1, <2>2, <1>0, <1>4 DEF MarkedAt
    <3>2. CASE c # b
      BY <3>2, <2>1, <2>2, <1>4 DEF MarkedAt, Refs
    <3> QED BY <3>1, <3>2
  <2> QED BY <2>2 DEF Marked
<1>9. SameUsed(s, t)
  BY <1>6 DEF SameUsed
<1> QED BY <1>5, <1>6, <1>7, <1>8, <1>9, FrameSound

(* A line of a buffer is found in it.                                      *)
LEMMA IndexIs ==
  ASSUME NEW s, NEW b, s.text[b] \in Seq(Line), NEW l, l \in ToSet(s.text[b])
  PROVE  Index(s, b, l) \in 1 .. Len(s.text[b]) /\ s.text[b][Index(s, b, l)] = l
<1>1. DOMAIN s.text[b] = 1 .. Len(s.text[b])
  OBVIOUS
<1>2. \E i \in DOMAIN s.text[b] : s.text[b][i] = l
  BY DEF ToSet
<1> QED BY <1>1, <1>2 DEF Index

(* The line of the point.                                                  *)
LEMMA DotLine ==
  ASSUME NEW s, NEW X, Sound(s, X), s.text[s.cur] # <<>>
  PROVE  /\ dotline(s) \in ToSet(s.text[s.cur]) /\ dotline(s) \in Line /\ s.cur \in s.world
         /\ s.dot[s.cur] \in 1 .. Len(s.text[s.cur])
         /\ \A i \in Marks : s.ring[s.cur][i] \in ToSet(s.text[s.cur]) \cup {NULL}
<1>1. s.cur \in Buffers /\ s.text[s.cur] \in Seq(Line) /\ Refs(s)
  BY DEF Sound, Rec
<1>2. s.dot[s.cur] \in 1 .. Len(s.text[s.cur]) /\ s.cur \in s.world
      /\ \A i \in Marks : s.ring[s.cur][i] \in ToSet(s.text[s.cur]) \cup {NULL}
  BY <1>1 DEF Refs
<1>3. PICK q, i : q = s.text[s.cur] /\ i = s.dot[s.cur]
  OBVIOUS
<1>4. q \in Seq(Line) /\ i \in 1 .. Len(q) /\ dotline(s) = q[i]
  BY <1>1, <1>2, <1>3 DEF dotline
<1>5. q[i] \in ToSet(q) /\ q[i] \in Line
  BY ONLY <1>4, ListFacts
<1> QED BY <1>2, <1>3, <1>4, <1>5

(* A mark is set.                                                          *)
LEMMA GoodSetMark ==
  ASSUME NEW s, Sound(s, {}), NEW l, l \in ToSet(s.text[s.cur]), NEW t, t = do_set_mark(s, l)
  PROVE  Sound(t, {}) /\ Frame(s, t)
<1>1. s \in Rec /\ s.cur \in Buffers /\ s.text[s.cur] \in Seq(Line)
      /\ s.ring[s.cur] \in [Marks -> Line \cup {NULL}] /\ s.tm[s.cur] \in Marks
  BY DEF Sound, Rec
<1>2. PICK b, tm, N, next, r, moved, at, old, q, m :
        /\ b = s.cur /\ tm = s.tm[b] /\ N = NMARKS /\ next = (tm + 1) % N /\ r = s.ring[b]
        /\ moved = [i \in DOMAIN r |-> IF i < next THEN r[i] ELSE IF i = next THEN NULL ELSE r[i - 1]]
        /\ at = IF r[tm] = NULL THEN tm ELSE next
        /\ old = IF r[tm] = NULL THEN s ELSE makedirty(s, r[tm])
        /\ q = IF r[tm] # NULL /\ r[N - 1] = NULL THEN moved ELSE r
        /\ m = [q EXCEPT ![at] = l]
  OBVIOUS
<1>3. N \in Nat /\ N >= 2 /\ Marks = 0 .. N - 1 /\ tm \in 0 .. N - 1 /\ r \in [Marks -> Line \cup {NULL}]
  <2>1. N \in Nat /\ N >= 2 /\ Marks = 0 .. N - 1
    BY <1>2 DEF Marks
  <2>2. tm \in Marks /\ r \in [Marks -> Line \cup {NULL}]
    <3>1. tm = s.tm[s.cur] /\ r = s.ring[s.cur]
      BY <1>2
    <3> QED BY ONLY <3>1, <1>1
  <2> QED BY ONLY <2>1, <2>2
<1>4. next \in Marks /\ at \in Marks
  <2>1. next \in 0 .. N - 1
    BY ONLY <1>2, <1>3, RingIndex
  <2> QED BY <2>1, <1>2, <1>3
<1>5. Sound(old, {}) /\ Frame(s, old) /\ old.ring = s.ring /\ old.tm = s.tm
  <2>1. Frame(s, s)
    BY DEF Frame
  <2>2. CASE old = s
    BY <2>1, <2>2
  <2>3. CASE old = makedirty(s, r[tm])
    BY ONLY <2>3, Sound(s, {}), GoodMakedirty
  <2> QED BY ONLY <2>2, <2>3, <1>2
<1>6. \A i \in Marks : r[i] \in ToSet(s.text[b]) \cup {NULL}
  <2>1. s.text[b] # <<>>
    BY <1>2, ShortLists
  <2> QED BY <2>1, <1>1, <1>2 DEF Sound, Refs
<1>7. l \in Line
  BY <1>1, ListFacts
<1>8. \A i \in Marks : q[i] \in ToSet(s.text[b]) \cup {NULL} /\ q[i] \in Line \cup {NULL}
  <2> TAKE i \in Marks
  <2>1. r[i] \in ToSet(s.text[b]) \cup {NULL} /\ r[i] \in Line \cup {NULL}
    BY <1>3, <1>6
  <2>2. i < next \/ i = next \/ i - 1 \in Marks
    BY ONLY <1>3, <1>4, i \in Marks
  <2>3. DOMAIN r = Marks
    BY <1>3
  <2>4. moved[i] \in ToSet(s.text[b]) \cup {NULL} /\ moved[i] \in Line \cup {NULL}
    BY <2>1, <2>2, <2>3, <1>2, <1>3, <1>6
  <2> QED BY <2>1, <2>4, <1>2
<1>9. DOMAIN q = Marks
  BY <1>2, <1>3
<1>10. m \in [Marks -> Line \cup {NULL}] /\ \A i \in Marks : m[i] \in ToSet(s.text[b]) \cup {NULL}
  <2>1. m = [i \in Marks |-> IF i = at THEN l ELSE q[i]]
    BY <1>2, <1>9
  <2>2. l \in ToSet(s.text[b])
    BY <1>2
  <2> QED BY ONLY <2>1, <2>2, <1>7, <1>8
<1>11. PICK u : u = [old EXCEPT !.ring[b] = m, !.tm[b] = at]
  OBVIOUS
<1>12. Sound(u, {}) /\ RingIs(old, b, m, at, u)
  <2>1. old.text = s.text
    BY <1>5 DEF Frame
  <2>2. RingAt(old, b, m, at, u)
    BY <2>1, <1>1, <1>2, <1>4, <1>10, <1>11 DEF RingAt
  <2> QED BY ONLY <2>2, <1>5, RingChanged
<1>13. t = makedirty(u, l)
  <2>1. PICK ring, tm_ : ring = [old.ring EXCEPT ![b] = m] /\ tm_ = [old.tm EXCEPT ![b] = at]
    OBVIOUS
  <2>2. u = [old EXCEPT !.ring = ring, !.tm = tm_]
    BY <2>1, <1>11
  <2>3. PICK v : v = [old EXCEPT !.tm[b] = at, !.ring[b] = m]
    OBVIOUS
  <2>4. v = [old EXCEPT !.tm = tm_, !.ring = ring]
    BY <2>1, <2>3
  <2>5. old \in Rec
    BY <1>5 DEF Sound
  <2>6. u = v
    BY ONLY <2>2, <2>4, <2>5 DEF Rec
  <2>7. t = makedirty(v, l)
    BY <2>3, <1>2 DEF do_set_mark
  <2> QED BY <2>6, <2>7
<1>14. Sound(t, {}) /\ Frame(u, t)
  BY <1>12, <1>13, GoodMakedirty
<1> QED BY <1>5, <1>12, <1>14 DEF RingIs, Frame

\* What commands of marks leave alone.
MarksOnly(s, t) ==
  /\ t.text = s.text /\ t.cur = s.cur /\ t.world = s.world /\ t.kill = s.kill /\ t.kptr = s.kptr
  /\ t.kept = s.kept /\ t.copy = s.copy

(* The point and the mark change places.                                   *)
LEMMA GoodExchPtMark ==
  ASSUME NEW s, Sound(s, {}), s.text[s.cur] # <<>>, curmark(s) # NULL, NEW t, t = ExchPtMark(s)
  PROVE  Sound(t, {}) /\ MarksOnly(s, t) /\ t.tm = s.tm /\ t.ring[s.cur][s.tm[s.cur]] # NULL
<1>1. s \in Rec /\ s.cur \in Buffers /\ s.text[s.cur] \in Seq(Line)
      /\ s.ring[s.cur] \in [Marks -> Line \cup {NULL}] /\ s.tm \in [Buffers -> Marks]
  BY DEF Sound, Rec
<1>2. PICK b, k, l, m, i, u, q, v :
        /\ b = s.cur /\ k = s.tm[b] /\ l = dotline(s) /\ m = curmark(s) /\ i = Index(s, b, m)
        /\ u = [s EXCEPT !.dot[b] = i] /\ q = [s.ring[b] EXCEPT ![k] = l]
        /\ v = [u EXCEPT !.ring[b] = q, !.tm[b] = k]
  OBVIOUS
<1>3. /\ l \in ToSet(s.text[b]) /\ l \in Line /\ k \in Marks
      /\ \A j \in Marks : s.ring[b][j] \in ToSet(s.text[b]) \cup {NULL}
  BY <1>1, <1>2, DotLine
<1>4. m \in ToSet(s.text[b])
  BY <1>2, <1>3 DEF curmark
<1>5. i \in 1 .. Len(s.text[b])
  <2>1. s.text[b] \in Seq(Line)
    BY <1>1, <1>2
  <2> QED BY ONLY <2>1, <1>2, <1>4, IndexIs
<1>6. /\ Sound(u, {}) /\ SameHold(s, u) /\ u.text = s.text /\ u.ring = s.ring
  <2>1. DotAt(s, b, i, u)
    BY <1>1, <1>2, <1>5 DEF DotAt
  <2> QED BY ONLY <2>1, Sound(s, {}), GoodDot
<1>7. q \in [Marks -> Line \cup {NULL}] /\ q[k] = l /\ \A j \in Marks : q[j] \in ToSet(s.text[b]) \cup {NULL}
  BY <1>1, <1>2, <1>3
<1>8. Sound(v, {}) /\ RingIs(u, b, q, k, v)
  <2>1. RingAt(u, b, q, k, v)
    BY <1>1, <1>2, <1>3, <1>6, <1>7 DEF RingAt
  <2> QED BY ONLY <2>1, <1>6, RingChanged
<1>9. v.tm = s.tm
  <2>1. u.tm = s.tm
    BY <1>6 DEF SameHold
  <2>2. v \in Rec /\ v.tm \in [Buffers -> Marks]
    BY <1>8 DEF Sound, Rec
  <2>3. \A c \in Buffers : v.tm[c] = s.tm[c]
    BY <2>1, <1>2, <1>8 DEF RingIs
  <2> QED BY ONLY <2>2, <2>3, <1>1
<1>10. PICK w : w = [s EXCEPT !.dot[s.cur] = Index(s, s.cur, m), !.ring[s.cur][s.tm[s.cur]] = dotline(s)]
  OBVIOUS
<1>11. w = v
  <2>1. PICK dot_, ring, tm : /\ dot_ = [s.dot EXCEPT ![b] = i] /\ ring = [s.ring EXCEPT ![b] = q]
                              /\ tm = [s.tm EXCEPT ![b] = k]
    OBVIOUS
  <2>2. w = [s EXCEPT !.dot = dot_, !.ring = ring]
    BY <2>1, <1>2, <1>10
  <2>3. u = [s EXCEPT !.dot = dot_]
    BY <2>1, <1>2
  <2>4. tm = s.tm
    BY ONLY <2>1, <1>1, <1>2
  <2>5. v = [u EXCEPT !.ring = ring, !.tm = tm]
    <3>1. u.ring = s.ring /\ u.tm = s.tm
      BY <1>6 DEF SameHold
    <3> QED BY <3>1, <2>1, <1>2
  <2> QED BY ONLY <2>2, <2>3, <2>4, <2>5, <1>1 DEF Rec
<1>12. PICK x : x = makedirty(v, m)
  OBVIOUS
<1>13. Sound(x, {}) /\ Frame(v, x) /\ x.ring = v.ring /\ x.tm = v.tm
  BY <1>8, <1>12, GoodMakedirty
<1>14. t = makedirty(x, l)
  BY <1>2, <1>10, <1>11, <1>12 DEF ExchPtMark
<1>15. Sound(t, {}) /\ Frame(x, t) /\ t.ring = x.ring /\ t.tm = x.tm
  BY <1>13, <1>14, GoodMakedirty
<1>16. t.ring[b][k] # NULL
  BY <1>3, <1>7, <1>8, <1>13, <1>15 DEF RingIs, Line, NULL
<1>17. MarksOnly(s, t)
  BY <1>6, <1>8, <1>13, <1>15 DEF MarksOnly, SameHold, RingIs, Frame
<1> QED BY <1>2, <1>9, <1>13, <1>15, <1>16, <1>17

(* The mark before, or the last.                                           *)
LEMMA GoodPopMark ==
  ASSUME NEW s, Sound(s, {}), s.text[s.cur] # <<>>, NEW t, t = PopMark(s)
  PROVE  Sound(t, {}) /\ MarksOnly(s, t)
<1>1. CASE curmark(s) = NULL
  <2>1. t = s
    BY <1>1 DEF PopMark
  <2> QED BY <2>1 DEF MarksOnly
<1>2. CASE curmark(s) # NULL
  <2>1. PICK e, b, tm : e = ExchPtMark(s) /\ b = s.cur /\ tm = s.tm[b]
    OBVIOUS
  <2>2. Sound(e, {}) /\ MarksOnly(s, e) /\ e.tm = s.tm /\ e.ring[b][tm] # NULL
    BY <2>1, <1>2, GoodExchPtMark
  <2>3. b \in Buffers /\ tm \in Marks /\ e.ring[b] \in [Marks -> Line \cup {NULL}]
    BY <2>1, <2>2 DEF Sound, Rec
  <2>4. PICK A, B, k : /\ A = {i \in DOMAIN e.ring[b] : i < tm /\ e.ring[b][i] # NULL}
                       /\ B = {i \in DOMAIN e.ring[b] : i < NMARKS /\ e.ring[b][i] # NULL}
                       /\ k = IF A # {} THEN Max(A) ELSE Max(B)
    OBVIOUS
  <2>5. A \subseteq Marks /\ B \subseteq Marks /\ tm \in B
    <3>1. \A i \in Marks : i < NMARKS
      BY DEF Marks
    <3> QED BY <3>1, <2>2, <2>3, <2>4
  <2>6. PICK n : n = NMARKS - 1
    OBVIOUS
  <2>7. n \in Nat /\ Marks = 0 .. n
    BY <2>6 DEF Marks
  <2>8. k \in Marks
    <3>1. CASE A # {}
      <4>1. A \subseteq 0 .. n
        BY <2>5, <2>7
      <4>2. Max(A) \in A
        BY ONLY <3>1, <4>1, <2>7, MaxIs
      <4> QED BY <3>1, <4>2, <2>4, <2>5
    <3>2. CASE A = {}
      <4>1. B \subseteq 0 .. n /\ B # {}
        BY <2>5, <2>7
      <4>2. Max(B) \in B
        BY ONLY <4>1, <2>7, MaxIs
      <4> QED BY <3>2, <4>2, <2>4, <2>5
    <3> QED BY <3>1, <3>2
  <2>9. PICK u, m : m = e.ring[b] /\ u = [e EXCEPT !.tm[b] = k]
    OBVIOUS
  <2>10. Sound(u, {}) /\ RingIs(e, b, m, k, u)
    <3>1. PICK v : v = [e EXCEPT !.ring[b] = m, !.tm[b] = k]
      OBVIOUS
    <3>2. u = v
      <4>1. e \in Rec /\ e.ring \in [Buffers -> [Marks -> Line \cup {NULL}]]
        BY <2>2 DEF Sound, Rec
      <4>2. PICK ring, tm_ : ring = [e.ring EXCEPT ![b] = m] /\ tm_ = [e.tm EXCEPT ![b] = k]
        OBVIOUS
      <4>3. ring = e.ring
        BY ONLY <4>1, <4>2, <2>3, <2>9
      <4>4. v = [e EXCEPT !.ring = ring, !.tm = tm_] /\ u = [e EXCEPT !.tm = tm_]
        BY <4>2, <3>1, <2>9
      <4> QED BY ONLY <4>1, <4>3, <4>4 DEF Rec
    <3>3. RingAt(e, b, m, k, v)
      <4>1. e.text[b] # <<>> /\ e.text = s.text /\ e.cur = b
        BY <2>1, <2>2 DEF MarksOnly
      <4>2. \A i \in Marks : m[i] \in ToSet(e.text[b]) \cup {NULL}
        BY <4>1, <2>2, <2>9, DotLine
      <4> QED BY <4>2, <3>1, <2>3, <2>8, <2>9 DEF RingAt
    <3> QED BY <3>2, <3>3, <2>2, RingChanged
  <2>11. t = makedirty(u, e.ring[b][k])
    BY <2>1, <2>4, <2>9, <1>2 DEF PopMark
  <2>12. Sound(t, {}) /\ Frame(u, t)
    BY <2>10, <2>11, GoodMakedirty
  <2> QED BY <2>2, <2>10, <2>12 DEF MarksOnly, RingIs, Frame
<1> QED BY <1>1, <1>2

-----------------------------------------------------------------------------
(* What is current, and what is shown                                      *)

\* The current buffer is c, the other window o, the errors e of buffer p, the current one n.
SceneAt(s, c, o, p, e, n, t) ==
  /\ c \in Buffers /\ o \in Wind /\ p \in Buffers \cup {NULL} /\ e \in Seq(ErrRec) /\ n \in Int
  /\ Shows(o, s.text) \/ o.gone \/ o.cleared
  /\ (o.gone => o.buf \in Buffers) /\ (o.stale => o.gone \/ o.cleared)
  /\ \A i \in DOMAIN e : e[i].stale => e[i].fooled
  /\ t = [s EXCEPT !.cur = c, !.other = o, !.perr = p, !.errs = e, !.err = n]
\* All of t is that of s but for these.
SceneIs(s, c, o, p, e, n, t) ==
  /\ SameLists(s, t) /\ t.world = s.world /\ t.text = s.text /\ t.dot = s.dot
  /\ t.kill = s.kill /\ t.kptr = s.kptr /\ t.ring = s.ring /\ t.tm = s.tm
  /\ t.leaked = s.leaked /\ t.got = s.got /\ t.kept = s.kept /\ t.copy = s.copy
  /\ t.cur = c /\ t.other = o /\ t.perr = p /\ t.errs = e /\ t.err = n

(* Another buffer is current, the other window shows another place, or     *)
(* there are other errors.                                                 *)
LEMMA SceneChanged ==
  ASSUME NEW s, NEW X, Sound(s, X), NEW c, NEW o, NEW p, NEW e, NEW n, NEW t, SceneAt(s, c, o, p, e, n, t)
  PROVE  Sound(t, X) /\ SceneIs(s, c, o, p, e, n, t)
<1>0. /\ c \in Buffers /\ o \in Wind /\ p \in Buffers \cup {NULL} /\ e \in Seq(ErrRec) /\ n \in Int
      /\ Shows(o, s.text) \/ o.gone \/ o.cleared
      /\ (o.gone => o.buf \in Buffers) /\ (o.stale => o.gone \/ o.cleared)
      /\ \A i \in DOMAIN e : e[i].stale => e[i].fooled
      /\ t = [s EXCEPT !.cur = c, !.other = o, !.perr = p, !.errs = e, !.err = n]
  BY DEF SceneAt
<1>1. s \in Rec
  BY DEF Sound
<1>2. t \in Rec
  BY ONLY <1>0, <1>1 DEF Rec
<1>3. SceneIs(s, c, o, p, e, n, t)
  BY ONLY <1>0, <1>1 DEF Rec, SceneIs, SameLists
<1>4. SameWhere(s, t)
  BY ONLY <1>3 DEF SceneIs, SameWhere, Elsewhere, SameLists
<1>5. Whole(Contents(t), t.dline, ToSet(t.chunks), t.leaked, X)
  BY <1>2, <1>4, SameWhole
<1>6. Refs(t)
  <2>1. Refs(s)
    BY DEF Sound
  <2> QED BY ONLY <2>1, <1>3 DEF Refs, SceneIs
<1>7. Looks(t)
  BY ONLY <1>0, <1>3 DEF Looks, SceneIs
<1> QED BY <1>2, <1>3, <1>5, <1>6, <1>7 DEF Sound

\* The buffers that exist are w.
WorldAt(s, w, t) ==
  /\ w \subseteq Buffers /\ \A b \in Buffers \ w : s.text[b] = <<>> /\ \A i \in Marks : s.ring[b][i] = NULL
  /\ t = [s EXCEPT !.world = w]

(* A buffer that has no line and no mark comes to exist, or ceases to.     *)
LEMMA WorldChanged ==
  ASSUME NEW s, NEW X, Sound(s, X), NEW w, NEW t, WorldAt(s, w, t)
  PROVE  Sound(t, X) /\ t.world = w /\ t.text = s.text /\ t.ring = s.ring /\ t.cur = s.cur /\ t.got = s.got
         /\ t.kept = s.kept /\ t.copy = s.copy /\ t.tm = s.tm /\ t.kill = s.kill /\ t.kptr = s.kptr
<1>0. /\ w \subseteq Buffers /\ \A b \in Buffers \ w : s.text[b] = <<>> /\ \A i \in Marks : s.ring[b][i] = NULL
      /\ t = [s EXCEPT !.world = w]
  BY DEF WorldAt
<1>1. s \in Rec
  BY DEF Sound
<1>2. t \in Rec
  BY ONLY <1>0, <1>1 DEF Rec
<1>3. /\ t.world = w /\ SameLists(s, t) /\ t.text = s.text /\ t.dot = s.dot /\ t.cur = s.cur
      /\ t.kill = s.kill /\ t.kptr = s.kptr /\ t.ring = s.ring /\ t.tm = s.tm /\ t.errs = s.errs
      /\ t.perr = s.perr /\ t.other = s.other /\ t.leaked = s.leaked /\ t.got = s.got
      /\ t.kept = s.kept /\ t.copy = s.copy
  BY ONLY <1>0, <1>1 DEF Rec, SameLists
<1>4. SameWhere(s, t)
  BY ONLY <1>3 DEF SameWhere, Elsewhere, SameLists
<1>5. Whole(Contents(t), t.dline, ToSet(t.chunks), t.leaked, X)
  BY <1>2, <1>4, SameWhole
<1>6. Refs(t)
  <2>1. Refs(s)
    BY DEF Sound
  <2>2. ASSUME NEW b \in Buffers, t.text[b] # <<>> \/ b \notin t.world, NEW i \in Marks
        PROVE  t.ring[b][i] \in ToSet(t.text[b]) \cup {NULL}
    <3>1. CASE s.text[b] # <<>>
      BY <3>1, <2>1, <1>3 DEF Refs
    <3>2. CASE s.text[b] = <<>>
      BY <3>2, <2>2, <1>0, <1>3
    <3> QED BY <3>1, <3>2
  <2> QED BY ONLY <2>1, <2>2, <1>0, <1>3 DEF Refs
<1>7. Looks(t)
  <2>1. Looks(s)
    BY DEF Sound
  <2> QED BY ONLY <2>1, <1>3 DEF Looks
<1> QED BY <1>2, <1>3, <1>5, <1>6, <1>7 DEF Sound

(* The errors go.                                                          *)
LEMMA GoodErrFree ==
  ASSUME NEW s, NEW X, Sound(s, X), NEW p \in {s.perr, NULL}, NEW t, t = [ErrFree(s) EXCEPT !.perr = p]
  PROVE  Sound(t, X) /\ SceneIs(s, s.cur, s.other, p, <<>>, NULL, t)
<1>1. s \in Rec /\ s.cur \in Buffers /\ s.other \in Wind /\ s.perr \in Buffers \cup {NULL} /\ Looks(s)
  BY DEF Sound, Rec
<1>2. PICK c, o, e, n : c = s.cur /\ o = s.other /\ e = <<>> /\ n = NULL
  OBVIOUS
<1>3. t = [s EXCEPT !.cur = c, !.other = o, !.perr = p, !.errs = e, !.err = n]
  <2>1. t = [[s EXCEPT !.errs = e, !.err = n] EXCEPT !.perr = p]
    BY <1>2 DEF ErrFree
  <2> QED BY ONLY <2>1, <1>1, <1>2 DEF Rec
<1>4. SceneAt(s, c, o, p, e, n, t)
  <2>1. e \in Seq(ErrRec) /\ DOMAIN e = {} /\ n \in Int
    BY <1>2 DEF NULL
  <2> QED BY ONLY <2>1, <1>1, <1>2, <1>3, p \in {s.perr, NULL} DEF SceneAt, Looks
<1>5. Sound(t, X) /\ SceneIs(s, c, o, p, e, n, t)
  BY ONLY <1>4, Sound(s, X), SceneChanged
<1> QED BY <1>2, <1>5

-----------------------------------------------------------------------------
(* Buffers                                                                 *)

NoMarks == [i \in Marks |-> NULL]
\* All the marks of b go; k is the current one.
Unmarks(s, b, k, t) == t = [s EXCEPT !.ring[b] = NoMarks, !.tm[b] = k]

(* The marks of a buffer go, and the lines they were on become dirty.      *)
LEMMA GoodAllMarkReset ==
  ASSUME NEW s, s \in Rec, NEW b, b \in Buffers, NEW X, NEW u, Unmarks(s, b, 0, u), Sound(u, X),
         NEW t, t = AllMarkReset(s, b)
  PROVE  Sound(t, X) /\ Frame(u, t)
<1>1. /\ s.ring \in [Buffers -> [Marks -> Line \cup {NULL}]] /\ s.dline \in [Line -> {"null", "used", "dirty"}]
      /\ s.tm \in [Buffers -> Marks]
  BY DEF Rec
<1>2. PICK ring, tm, lines, dl :
        /\ ring = [s.ring EXCEPT ![b] = NoMarks] /\ tm = [s.tm EXCEPT ![b] = 0]
        /\ lines = {s.ring[b][i] : i \in DOMAIN s.ring[b]} \ {NULL}
        /\ dl = [l \in Line |-> IF l \in lines /\ s.dline[l] = "null" THEN "dirty" ELSE s.dline[l]]
  OBVIOUS
<1>3. u = [s EXCEPT !.ring = ring, !.tm = tm]
  BY <1>2 DEF Unmarks
<1>4. t = [s EXCEPT !.dline = dl, !.ring = ring, !.tm = tm]
  <2>1. [i \in DOMAIN s.ring[b] |-> NULL] = NoMarks
    BY <1>1 DEF NoMarks
  <2>2. t = [s EXCEPT !.dline = dl, !.ring = [s.ring EXCEPT ![b] = [i \in DOMAIN s.ring[b] |-> NULL]], !.tm = tm]
    BY <1>2 DEF AllMarkReset
  <2> QED BY ONLY <2>1, <2>2, <1>2
<1>5. dl \in [Line -> {"null", "used", "dirty"}] /\ \A l \in Line : (dl[l] = "used") <=> (s.dline[l] = "used")
  BY <1>1, <1>2
<1>6. t = [u EXCEPT !.dline = dl] /\ u.dline = s.dline
  BY ONLY <1>3, <1>4, s \in Rec DEF Rec
<1>7. u \in Rec
  BY DEF Sound
<1>8. t \in Rec
  BY ONLY <1>5, <1>6, <1>7 DEF Rec
<1>9. Frame(u, t) /\ t.dline = dl /\ t.ring = u.ring
  BY ONLY <1>6, <1>7 DEF Rec, Frame
<1>10. SameUsed(u, t)
  BY <1>5, <1>6, <1>9 DEF SameUsed
<1>11. Marked(t)
  <2>1. Refs(u)
    BY DEF Sound
  <2> QED BY ONLY <2>1, <1>9 DEF Marked, MarkedAt, Refs, Frame
<1> QED BY <1>8, <1>9, <1>10, <1>11, FrameSound

\* What FirstLine leaves: no line, or one, and no stale mark but those u has not.
Begun(s, t, u) ==
  \/ t.got = NULL /\ Sound(t, {}) /\ SameUse(s, t)
  \/ t.got # NULL /\ t \in Rec /\ Sound(u, {}) /\ t.ring = s.ring /\ t.tm = s.tm /\ t.kept = s.kept /\ t.copy = s.copy
     /\ u.kept = s.kept /\ u.copy = s.copy

(* A buffer that has no line gets one.                                     *)
LEMMA GoodFirstLine ==
  ASSUME NEW s, Sound(s, {}), NEW b, b \in s.world, s.text[b] = <<>>,
         NEW t, t = FirstLine(s, b), NEW k \in Marks, NEW u, Unmarks(t, b, k, u)
  PROVE  Begun(s, t, u)
<1>1. PICK r, v : r = nbufline(s) /\ v = SavLine(r, r.got)
  OBVIOUS
<1>2. Supplies(s, r, v, {})
  BY <1>1, GoodNbufline
<1>3. CASE r.got = NULL
  <2>1. t = r
    BY <1>1, <1>3 DEF FirstLine
  <2> QED BY <2>1, <1>2, <1>3 DEF Supplies, Begun
<1>4. CASE r.got # NULL
  <2>1. PICK l, X, w : l = r.got /\ X = {l} /\ w = <<l>>
    OBVIOUS
  <2>2. l \in Line /\ Sound(v, X) /\ SameUse(s, v) /\ v.got = l
    <3>1. {} \cup {r.got} = X
      BY <2>1
    <3> QED BY <3>1, <2>1, <1>2, <1>4 DEF Supplies
  <2>3. b \in Buffers /\ v \in Rec
    BY <2>2 DEF Sound, Rec
  <2>4. t = [v EXCEPT !.text[b] = w, !.dot[b] = 1]
    BY <2>1, <1>1, <1>4 DEF FirstLine
  <2>5. PICK x : x = [v EXCEPT !.ring[b] = NoMarks, !.tm[b] = k]
    OBVIOUS
  <2>6. Sound(x, X) /\ RingIs(v, b, NoMarks, k, x)
    <3>1. RingAt(v, b, NoMarks, k, x)
      BY <2>3, <2>5 DEF RingAt, NoMarks
    <3> QED BY ONLY <3>1, <2>2, RingChanged
  <2>7. x.text = s.text /\ x.world = s.world /\ x.other.buf = s.other.buf /\ x.other.line = s.other.line
        /\ x.other.gone = s.other.gone /\ x.other.cleared = s.other.cleared /\ x.ring[b] = NoMarks
    BY <2>2, <2>6 DEF RingIs, Frame, SameUse
  <2>8. PICK y : y = [x EXCEPT !.text[b] = w, !.dot[b] = 1]
    OBVIOUS
  <2>9. Sound(y, {}) /\ TextIs(x, b, w, 1, y)
    <3>1. w \in Seq(Line) /\ Once(w) /\ ToSet(w) = X /\ Len(w) = 1
      BY <2>1, <2>2, ShortLists
    <3>2. Trade(x.text[b], X, w, {})
      BY <3>1, <2>7, ShortLists DEF Trade
    <3>3. x.other.buf = b => x.other.line = NULL \/ x.other.gone \/ x.other.cleared
      <4>1. Shows(s.other, s.text) \/ s.other.gone \/ s.other.cleared
        BY DEF Sound, Looks
      <4> QED BY <4>1, <2>7, ShortLists DEF Shows
    <3>4. TextAt(x, X, b, w, 1, {}, y)
      BY <3>1, <3>2, <3>3, <2>3, <2>7, <2>8 DEF TextAt, NoMarks
    <3> QED BY ONLY <3>4, <2>6, TextChanged
  <2>10. PICK text_, dot_, ring, tm :
           /\ text_ = [v.text EXCEPT ![b] = w] /\ dot_ = [v.dot EXCEPT ![b] = 1]
           /\ ring = [v.ring EXCEPT ![b] = NoMarks] /\ tm = [v.tm EXCEPT ![b] = k]
    OBVIOUS
  <2>11. t = [v EXCEPT !.text = text_, !.dot = dot_] /\ x = [v EXCEPT !.ring = ring, !.tm = tm]
    BY <2>4, <2>5, <2>10
  <2>12. t.ring = v.ring /\ t.tm = v.tm /\ t.kept = v.kept /\ t.copy = v.copy /\ t.got = v.got
         /\ x.text = v.text /\ x.dot = v.dot
    BY ONLY <2>11, <2>3 DEF Rec
  <2>13. u = [t EXCEPT !.ring = ring, !.tm = tm] /\ y = [x EXCEPT !.text = text_, !.dot = dot_]
    BY <2>8, <2>10, <2>12 DEF Unmarks
  <2>14. u = y
    BY ONLY <2>3, <2>11, <2>13 DEF Rec
  <2>15. t \in Rec
    <3>1. text_ \in [Buffers -> Seq(Line)] /\ dot_ \in [Buffers -> Int]
      <4>1. w \in Seq(Line)
        BY <2>1, <2>2, ShortLists
      <4>2. v.text \in [Buffers -> Seq(Line)] /\ v.dot \in [Buffers -> Int]
        BY <2>3 DEF Rec
      <4> QED BY ONLY <4>1, <4>2, <2>3, <2>10
    <3> QED BY ONLY <3>1, <2>3, <2>11 DEF Rec
  <2>16. t.got # NULL /\ t.ring = s.ring /\ t.tm = s.tm /\ t.kept = s.kept /\ t.copy = s.copy
    BY <2>1, <2>2, <2>12, <1>4 DEF SameUse
  <2>17. y.kept = s.kept /\ y.copy = s.copy
    BY <2>2, <2>6, <2>9 DEF SameUse, RingIs, Frame, TextIs, SameButTexts
  <2> QED BY <2>9, <2>14, <2>15, <2>16, <2>17 DEF Begun
<1> QED BY <1>3, <1>4

\* The lines of b, q, are freed; the window o is what it was, or told.
Emptied(s, b, q, o, d, t) ==
  /\ b \in s.world /\ q = s.text[b] /\ d \in Int
  /\ o \in {[s.other EXCEPT !.cleared = x] : x \in {s.other.cleared, TRUE}}
  /\ (s.other.buf = b => o.cleared)
  /\ t = [lfreelist(s, q) EXCEPT !.text[b] = <<>>, !.dot[b] = d, !.other = o]

(* The lines of a buffer are freed, and the window told that shows it.     *)
LEMMA GoodEmptied ==
  ASSUME NEW s, Sound(s, {}), NEW b, NEW q, NEW o, NEW d, NEW t, Emptied(s, b, q, o, d, t)
  PROVE  /\ Sound(t, {}) /\ t.world = s.world /\ t.text[b] = <<>> /\ t.kept = s.kept /\ t.copy = s.copy
<1>1. /\ b \in s.world /\ q = s.text[b] /\ d \in Int /\ (s.other.buf = b => o.cleared)
      /\ o \in {[s.other EXCEPT !.cleared = x] : x \in {s.other.cleared, TRUE}}
      /\ t = [lfreelist(s, q) EXCEPT !.text[b] = <<>>, !.dot[b] = d, !.other = o]
  BY DEF Emptied
<1>2. /\ s \in Rec /\ b \in Buffers /\ s.cur \in Buffers /\ s.other \in Wind /\ s.perr \in Buffers \cup {NULL}
      /\ s.errs \in Seq(ErrRec) /\ s.err \in Int /\ Looks(s)
      /\ s.text \in [Buffers -> Seq(Line)] /\ s.dot \in [Buffers -> Int]
  BY <1>1 DEF Sound, Rec
<1>3. /\ o \in Wind /\ o.buf = s.other.buf /\ o.line = s.other.line /\ o.gone = s.other.gone
      /\ o.stale = s.other.stale /\ (s.other.cleared => o.cleared)
  <2>1. PICK x \in {s.other.cleared, TRUE} : o = [s.other EXCEPT !.cleared = x]
    BY <1>1
  <2>2. x \in BOOLEAN /\ (s.other.cleared => x)
    BY <2>1, <1>2 DEF Wind
  <2> QED BY ONLY <2>1, <2>2, <1>2 DEF Wind
<1>4. PICK c, p, e, n, u : /\ c = s.cur /\ p = s.perr /\ e = s.errs /\ n = s.err
                           /\ u = [s EXCEPT !.cur = c, !.other = o, !.perr = p, !.errs = e, !.err = n]
  OBVIOUS
<1>5. Sound(u, {}) /\ SceneIs(s, c, o, p, e, n, u)
  <2>1. /\ Shows(o, s.text) \/ o.gone \/ o.cleared
        /\ (o.gone => o.buf \in Buffers) /\ (o.stale => o.gone \/ o.cleared)
        /\ \A i \in DOMAIN e : e[i].stale => e[i].fooled
    BY ONLY <1>2, <1>3, <1>4 DEF Looks, Shows
  <2>2. SceneAt(s, c, o, p, e, n, u)
    BY ONLY <2>1, <1>2, <1>3, <1>4 DEF SceneAt
  <2> QED BY ONLY <2>2, Sound(s, {}), SceneChanged
<1>6. PICK X, v : X = ToSet(q) /\ v = [u EXCEPT !.text[b] = <<>>, !.dot[b] = d]
  OBVIOUS
<1>7. q \in Seq(Line) /\ Once(q)
  BY <1>1, <1>2, HandFacts
<1>8. Sound(v, X) /\ TextIs(u, b, <<>>, d, v)
  <2>1. u.text = s.text /\ u.other = o /\ u.world = s.world
    BY <1>5 DEF SceneIs
  <2>2. Trade(u.text[b], {}, <<>>, X)
    BY <2>1, <1>1, <1>6, ShortLists DEF Trade
  <2>3. TextAt(u, {}, b, <<>>, d, X, v)
    BY <2>1, <2>2, <1>1, <1>2, <1>3, <1>6 DEF TextAt
  <2> QED BY ONLY <2>3, <1>5, TextChanged
<1>9. PICK w : w = lfreelist(v, q)
  OBVIOUS
<1>10. Sound(w, {}) /\ SameUse(v, w)
  <2>1. PICK Y : Y = {}
    OBVIOUS
  <2>2. Y \cap ToSet(q) = {} /\ Sound(v, Y \cup ToSet(q))
    <3>1. Y \cup ToSet(q) = X
      BY <2>1, <1>6
    <3> QED BY <3>1, <2>1, <1>8
  <2>3. Sound(w, Y) /\ SameUse(v, w)
    BY ONLY <2>2, <1>7, <1>9, GoodFreed
  <2> QED BY <2>1, <2>3
<1>11. PICK text_, dot_, dl, fr : /\ text_ = [s.text EXCEPT ![b] = <<>>] /\ dot_ = [s.dot EXCEPT ![b] = d]
                                  /\ dl = [l \in Line |-> IF l \in ToSet(q) THEN "null" ELSE s.dline[l]]
                                  /\ fr = Reverse(q) \o s.free
  OBVIOUS
<1>12. u.text = s.text /\ u.dot = s.dot /\ u.dline = s.dline /\ u.free = s.free
  BY <1>5 DEF SceneIs, SameLists
<1>13. v = [u EXCEPT !.text = text_, !.dot = dot_]
  BY <1>6, <1>11, <1>12
<1>14. v.dline = s.dline /\ v.free = s.free
  BY <1>8, <1>12 DEF TextIs, SameButTexts, SameLists
<1>15. w = [v EXCEPT !.dline = dl, !.free = fr]
  BY <1>9, <1>11, <1>14 DEF lfreelist
<1>16. PICK f : f = lfreelist(s, q)
  OBVIOUS
<1>17. f = [s EXCEPT !.dline = dl, !.free = fr]
  BY <1>11, <1>16 DEF lfreelist
<1>18. f.text = s.text /\ f.dot = s.dot
  BY ONLY <1>2, <1>17 DEF Rec
<1>19. t = [f EXCEPT !.text = text_, !.dot = dot_, !.other = o]
  BY <1>1, <1>11, <1>16, <1>18
<1>20. t = w
  BY ONLY <1>2, <1>4, <1>13, <1>15, <1>17, <1>19 DEF Rec
<1> QED BY <1>5, <1>8, <1>10, <1>20 DEF SceneIs, TextIs, SameButTexts, SameUse

(* A buffer is cleared.                                                    *)
LEMMA GoodBufClear ==
  ASSUME NEW s, Left(s), NEW b, b \in s.world, NEW t, t = buf_clear(s, b)
  PROVE  Left(t)
<1>1. Sound(s, {}) /\ s \in Rec /\ b \in Buffers /\ s.other \in Wind /\ s.dot \in [Buffers -> Int]
      /\ s.kept = <<>> /\ s.copy = <<>>
  BY DEF Left, Sound, Rec
<1>2. PICK q, x, o, d : /\ q = s.text[b] /\ x = (s.other.cleared \/ s.other.buf = b)
                        /\ o = [s.other EXCEPT !.cleared = x] /\ d = s.dot[b]
  OBVIOUS
<1>3. PICK f, g : f = lfreelist(s, q) /\ g = [f EXCEPT !.text[b] = <<>>, !.dot[b] = d, !.other = o]
  OBVIOUS
<1>4. x \in {s.other.cleared, TRUE} /\ (s.other.buf = b => x) /\ o.cleared = x
  BY <1>1, <1>2 DEF Wind
<1>5. Emptied(s, b, q, o, d, g)
  <2>1. d \in Int
    BY <1>1, <1>2
  <2>2. o \in {[s.other EXCEPT !.cleared = y] : y \in {s.other.cleared, TRUE}}
    BY <1>2, <1>4
  <2> QED BY <2>1, <2>2, <1>2, <1>3, <1>4 DEF Emptied
<1>6. Sound(g, {}) /\ g.world = s.world /\ g.text[b] = <<>> /\ g.kept = s.kept /\ g.copy = s.copy
  BY ONLY <1>5, <1>1, GoodEmptied
<1>7. PICK h : h = [f EXCEPT !.text[b] = <<>>, !.other.cleared = @ \/ s.other.buf = b]
  OBVIOUS
<1>8. h = g
  <2>1. PICK dl, fr : /\ dl = [l \in Line |-> IF l \in ToSet(q) THEN "null" ELSE s.dline[l]]
                      /\ fr = Reverse(q) \o s.free
    OBVIOUS
  <2>2. f = [s EXCEPT !.dline = dl, !.free = fr]
    BY <2>1, <1>3 DEF lfreelist
  <2>3. f.text = s.text /\ f.dot = s.dot /\ f.other = s.other
    BY ONLY <2>2, <1>1 DEF Rec
  <2>4. PICK text_, dot_ : text_ = [s.text EXCEPT ![b] = <<>>] /\ dot_ = [s.dot EXCEPT ![b] = d]
    OBVIOUS
  <2>5. dot_ = s.dot
    BY ONLY <2>4, <1>1, <1>2
  <2>6. h = [f EXCEPT !.text = text_, !.other = o]
    <3>1. h = [f EXCEPT !.text = [f.text EXCEPT ![b] = <<>>],
                        !.other = [f.other EXCEPT !.cleared = (f.other.cleared \/ s.other.buf = b)]]
      BY <1>7
    <3>2. [f.text EXCEPT ![b] = <<>>] = text_
          /\ [f.other EXCEPT !.cleared = (f.other.cleared \/ s.other.buf = b)] = o
      BY <2>3, <2>4, <1>2
    <3> QED BY ONLY <3>1, <3>2
  <2>7. g = [f EXCEPT !.text = text_, !.dot = dot_, !.other = o]
    BY <2>3, <2>4, <1>3
  <2> QED BY ONLY <2>2, <2>5, <2>6, <2>7, <1>1 DEF Rec
<1>9. PICK l : l = FirstLine(g, b)
  OBVIOUS
<1>10. t = IF l.got = NULL THEN l ELSE AllMarkReset(l, b)
  BY <1>2, <1>3, <1>7, <1>8, <1>9 DEF buf_clear
<1>11. PICK u : Unmarks(l, b, 0, u)
  BY DEF Unmarks
<1>12. Begun(g, l, u)
  <2>1. 0 \in Marks
    BY DEF Marks
  <2>2. b \in g.world
    BY <1>6
  <2> QED BY ONLY <2>1, <2>2, <1>6, <1>9, <1>11, GoodFirstLine
<1>13. CASE l.got = NULL
  BY <1>1, <1>6, <1>10, <1>12, <1>13 DEF Begun, Left, SameUse
<1>14. CASE l.got # NULL
  <2>1. l \in Rec /\ Sound(u, {}) /\ u.kept = <<>> /\ u.copy = <<>>
    BY <1>1, <1>6, <1>12, <1>14 DEF Begun
  <2>2. t = AllMarkReset(l, b)
    BY <1>10, <1>14
  <2>3. Sound(t, {}) /\ Frame(u, t)
    BY ONLY <2>1, <2>2, <1>1, <1>11, GoodAllMarkReset
  <2> QED BY <2>1, <2>3 DEF Left, Frame
<1> QED BY <1>13, <1>14

(* A buffer is made.                                                       *)
LEMMA GoodMakBuf ==
  ASSUME NEW s, Left(s), NEW b, b \in Buffers \ s.world,
         NEW t, t = FirstLine([s EXCEPT !.world = @ \cup {b}], b)
  PROVE  Left(t)
<1>1. /\ Sound(s, {}) /\ s \in Rec /\ b \in Buffers /\ s.kept = <<>> /\ s.copy = <<>> /\ Refs(s)
      /\ s.ring \in [Buffers -> [Marks -> Line \cup {NULL}]]
  BY DEF Left, Sound, Rec
<1>2. PICK w, u : w = s.world \cup {b} /\ u = [s EXCEPT !.world = w]
  OBVIOUS
<1>3. /\ \A c \in Buffers \ s.world : s.text[c] = <<>> /\ \A i \in Marks : s.ring[c][i] = NULL
  BY <1>1, ShortLists DEF Refs
<1>4. Sound(u, {}) /\ u.world = w /\ u.text = s.text /\ u.ring = s.ring /\ u.kept = <<>> /\ u.copy = <<>>
  <2>1. w \subseteq Buffers
    BY <1>1, <1>2 DEF Rec
  <2>2. WorldAt(s, w, u)
    BY <2>1, <1>2, <1>3 DEF WorldAt
  <2> QED BY ONLY <2>2, <1>1, WorldChanged
<1>5. t = FirstLine(u, b)
  BY <1>2
<1>6. PICK k, v : k = t.tm[b] /\ v = [t EXCEPT !.ring[b] = NoMarks, !.tm[b] = k]
  OBVIOUS
<1>7. ASSUME NEW j \in Marks, NEW x, Unmarks(t, b, j, x) PROVE Begun(u, t, x)
  <2>1. b \in u.world /\ u.text[b] = <<>>
    BY <1>2, <1>3, <1>4
  <2> QED BY ONLY <2>1, <1>4, <1>5, <1>7, GoodFirstLine
<1>8. CASE t.got = NULL
  <2>1. PICK x : Unmarks(t, b, 0, x)
    BY DEF Unmarks
  <2>2. Begun(u, t, x)
    <3>1. 0 \in Marks
      BY DEF Marks
    <3> QED BY ONLY <3>1, <2>1, <1>7
  <2> QED BY <2>2, <1>4, <1>8 DEF Begun, Left, SameUse
<1>9. CASE t.got # NULL
  <2>1. t \in Rec /\ t.ring = s.ring /\ t.kept = <<>> /\ t.copy = <<>>
    <3>1. PICK x : Unmarks(t, b, 0, x)
      BY DEF Unmarks
    <3>2. Begun(u, t, x)
      <4>1. 0 \in Marks
        BY DEF Marks
      <4> QED BY ONLY <4>1, <3>1, <1>7
    <3> QED BY <3>2, <1>4, <1>9 DEF Begun
  <2>2. t.tm \in [Buffers -> Marks] /\ k \in Marks
    <3>1. t.tm \in [Buffers -> Marks]
      BY <2>1 DEF Rec
    <3> QED BY <3>1, <1>1, <1>6
  <2>3. Begun(u, t, v)
    <3>1. Unmarks(t, b, k, v)
      BY <1>6 DEF Unmarks
    <3> QED BY <3>1, <2>2, <1>7
  <2>4. v = t
    <3>1. PICK ring, tm : ring = [t.ring EXCEPT ![b] = NoMarks] /\ tm = [t.tm EXCEPT ![b] = k]
      OBVIOUS
    <3>2. tm = t.tm
      BY ONLY <3>1, <2>2, <1>6
    <3>3. s.ring[b] = NoMarks
      <4>1. s.ring[b] \in [Marks -> Line \cup {NULL}] /\ \A i \in Marks : s.ring[b][i] = NULL
        BY <1>1, <1>3
      <4> QED BY ONLY <4>1 DEF NoMarks
    <3>4. ring = t.ring
      BY ONLY <3>1, <3>3, <2>1, <1>1
    <3>5. v = [t EXCEPT !.ring = ring, !.tm = tm]
      BY <3>1, <1>6
    <3> QED BY ONLY <3>2, <3>4, <3>5, <2>1 DEF Rec
  <2> QED BY <2>1, <2>3, <2>4, <1>9 DEF Begun, Left
<1> QED BY <1>8, <1>9

(* A buffer is killed.                                                     *)
LEMMA GoodKillBuf ==
  ASSUME NEW s, Left(s), NEW b, b \in s.world, s.world # {b}, NEW t, t = kill_buf(s, b)
  PROVE  Left(t)
<1>1. /\ Sound(s, {}) /\ s \in Rec /\ b \in Buffers /\ s.cur \in Buffers /\ s.other \in Wind
      /\ s.kept = <<>> /\ s.copy = <<>> /\ s.perr \in Buffers \cup {NULL} /\ s.errs \in Seq(ErrRec)
      /\ s.err \in Int /\ s.world \subseteq Buffers /\ Looks(s)
      /\ s.text \in [Buffers -> Seq(Line)] /\ s.dot \in [Buffers -> Int]
      /\ s.ring \in [Buffers -> [Marks -> Line \cup {NULL}]] /\ s.tm \in [Buffers -> Marks]
  BY DEF Left, Sound, Rec
<1>2. PICK q, c, o, e0 : /\ q = s.text[b]
                         /\ c = IF s.cur = b THEN CHOOSE x \in s.world \ {b} : TRUE ELSE s.cur
                         /\ o = IF s.other.buf = b THEN Nowhere ELSE s.other
                         /\ e0 = IF s.perr = b THEN [ErrFree(s) EXCEPT !.perr = NULL] ELSE s
  OBVIOUS
<1>3. c \in Buffers /\ o \in Wind /\ o.buf # b
  <2>1. \E x : x \in s.world \ {b}
    OBVIOUS
  <2>2. Nowhere \in Wind /\ Nowhere.buf = NULL
    BY DEF Nowhere, Wind
  <2>3. b # NULL
    BY <1>1 DEF NULL
  <2>4. (CHOOSE x \in s.world \ {b} : TRUE) \in Buffers
    BY <2>1, <1>1
  <2> QED BY <2>2, <2>3, <2>4, <1>1, <1>2
<1>4. PICK p, e, n, u : /\ p = (IF s.perr = b THEN NULL ELSE s.perr) /\ e = (IF s.perr = b THEN <<>> ELSE s.errs)
                        /\ n = (IF s.perr = b THEN NULL ELSE s.err)
                        /\ u = [s EXCEPT !.cur = c, !.other = o, !.perr = p, !.errs = e, !.err = n]
  OBVIOUS
<1>5. Sound(u, {}) /\ SceneIs(s, c, o, p, e, n, u)
  <2>1. /\ Shows(o, s.text) \/ o.gone \/ o.cleared
        /\ (o.gone => o.buf \in Buffers) /\ (o.stale => o.gone \/ o.cleared)
    BY <1>1, <1>2 DEF Looks, Shows, Nowhere
  <2>2. p \in Buffers \cup {NULL} /\ e \in Seq(ErrRec) /\ n \in Int
    BY <1>1, <1>4 DEF NULL
  <2>3. \A i \in DOMAIN e : e[i].stale => e[i].fooled
    BY <1>1, <1>4 DEF Looks
  <2>4. SceneAt(s, c, o, p, e, n, u)
    BY ONLY <2>1, <2>2, <2>3, <1>3, <1>4 DEF SceneAt
  <2> QED BY ONLY <2>4, <1>1, SceneChanged
<1>6. PICK v : v = [u EXCEPT !.ring[b] = NoMarks, !.tm[b] = 0]
  OBVIOUS
<1>7. Sound(v, {}) /\ RingIs(u, b, NoMarks, 0, v)
  <2>1. RingAt(u, b, NoMarks, 0, v)
    BY <1>1, <1>6 DEF RingAt, NoMarks, Marks
  <2> QED BY ONLY <2>1, <1>5, RingChanged
<1>8. PICK X, x : X = ToSet(q) /\ x = [v EXCEPT !.text[b] = <<>>, !.dot[b] = 1]
  OBVIOUS
<1>9. q \in Seq(Line) /\ Once(q)
  BY <1>1, <1>2, HandFacts
<1>10. Sound(x, X) /\ TextIs(v, b, <<>>, 1, x)
  <2>1. v.text = s.text /\ v.other = o /\ v.world = s.world
    BY <1>5, <1>7 DEF SceneIs, RingIs, Frame
  <2>2. Trade(v.text[b], {}, <<>>, X)
    BY <2>1, <1>2, <1>8, ShortLists DEF Trade
  <2>3. v.other.buf # b /\ b \in v.world /\ b \in Buffers /\ 1 \in Int
    BY <2>1, <1>1, <1>3
  <2>4. TextAt(v, {}, b, <<>>, 1, X, x)
    BY ONLY <2>2, <2>3, <1>8 DEF TextAt
  <2> QED BY ONLY <2>4, <1>7, TextChanged
<1>11. PICK w, y : w = s.world \ {b} /\ y = [x EXCEPT !.world = w]
  OBVIOUS
<1>12. Sound(y, X) /\ y.kept = x.kept /\ y.copy = x.copy
  <2>1. x.ring[b] = NoMarks /\ x.text[b] = <<>> /\ x.world = s.world /\ Refs(x)
    BY <1>5, <1>7, <1>10 DEF SceneIs, RingIs, Frame, TextIs, SameButTexts, Sound
  <2>2. ASSUME NEW a \in Buffers \ w PROVE x.text[a] = <<>> /\ \A i \in Marks : x.ring[a][i] = NULL
    <3>1. CASE a = b
      BY <3>1, <2>1 DEF NoMarks
    <3>2. CASE a # b
      BY <3>2, <2>1, <1>11, ShortLists DEF Refs
    <3> QED BY <3>1, <3>2
  <2>3. WorldAt(x, w, y)
    BY <2>2, <1>1, <1>11 DEF WorldAt
  <2> QED BY ONLY <2>3, <1>10, WorldChanged
<1>13. PICK z : z = lfreelist(y, q)
  OBVIOUS
<1>14. Sound(z, {}) /\ SameUse(y, z)
  <2>1. PICK Y : Y = {}
    OBVIOUS
  <2>2. Y \cap ToSet(q) = {} /\ Sound(y, Y \cup ToSet(q))
    <3>1. Y \cup ToSet(q) = X
      BY <2>1, <1>8
    <3> QED BY <3>1, <2>1, <1>12
  <2>3. Sound(z, Y) /\ SameUse(y, z)
    BY ONLY <2>2, <1>9, <1>13, GoodFreed
  <2> QED BY <2>1, <2>3
<1>15. Left(z)
  <2>1. x.kept = <<>> /\ x.copy = <<>>
    BY <1>1, <1>5, <1>7, <1>10 DEF SceneIs, RingIs, Frame, TextIs, SameButTexts
  <2> QED BY <2>1, <1>12, <1>14 DEF Left, SameUse
<1>16. t = z
  <2>1. PICK text_, dot_, ring, tm, dl, fr :
          /\ text_ = [s.text EXCEPT ![b] = <<>>] /\ dot_ = [s.dot EXCEPT ![b] = 1]
          /\ ring = [s.ring EXCEPT ![b] = NoMarks] /\ tm = [s.tm EXCEPT ![b] = 0]
          /\ dl = [l \in Line |-> IF l \in ToSet(q) THEN "null" ELSE s.dline[l]]
          /\ fr = Reverse(q) \o s.free
    OBVIOUS
  <2>2. u.text = s.text /\ u.dot = s.dot /\ u.ring = s.ring /\ u.tm = s.tm /\ u.dline = s.dline /\ u.free = s.free
    BY <1>5 DEF SceneIs, SameLists
  <2>3. v = [u EXCEPT !.ring = ring, !.tm = tm]
    BY <2>1, <2>2, <1>6
  <2>4. v.text = s.text /\ v.dot = s.dot /\ v.dline = s.dline /\ v.free = s.free
    BY <2>2, <1>7 DEF RingIs, Frame
  <2>5. x = [v EXCEPT !.text = text_, !.dot = dot_]
    BY <2>1, <2>4, <1>8
  <2>6. y.dline = s.dline /\ y.free = s.free
    <3>1. x \in Rec /\ x.dline = s.dline /\ x.free = s.free
      BY <2>4, <1>10 DEF TextIs, SameButTexts, SameLists, Sound
    <3> QED BY ONLY <3>1, <1>11 DEF Rec
  <2>7. z = [y EXCEPT !.dline = dl, !.free = fr]
    BY <2>1, <2>6, <1>13 DEF lfreelist
  <2>8. PICK f : f = lfreelist(e0, q)
    OBVIOUS
  <2>9. e0 = [s EXCEPT !.perr = p, !.errs = e, !.err = n]
    <3>1. CASE s.perr = b
      <4>1. e0 = [[s EXCEPT !.errs = e, !.err = n] EXCEPT !.perr = p]
        BY <3>1, <1>2, <1>4 DEF ErrFree
      <4> QED BY ONLY <4>1, <1>1 DEF Rec
    <3>2. CASE s.perr # b
      <4>1. e0 = s /\ p = s.perr /\ e = s.errs /\ n = s.err
        BY <3>2, <1>2, <1>4
      <4> QED BY ONLY <4>1, <1>1 DEF Rec
    <3> QED BY <3>1, <3>2
  <2>10. e0.dline = s.dline /\ e0.free = s.free
    BY ONLY <2>9, <1>1 DEF Rec
  <2>11. f = [e0 EXCEPT !.dline = dl, !.free = fr]
    BY <2>1, <2>8, <2>10 DEF lfreelist
  <2>12. f.text = s.text /\ f.dot = s.dot /\ f.ring = s.ring /\ f.tm = s.tm /\ f.cur = s.cur
         /\ f.other = s.other /\ f.world = s.world
    BY ONLY <2>9, <2>11, <1>1 DEF Rec
  <2>13. t = [f EXCEPT !.world = w, !.text = text_, !.dot = dot_, !.ring = ring, !.tm = tm, !.cur = c, !.other = o]
    <3>1. t = [f EXCEPT
                 !.world = f.world \ {b}, !.text = [f.text EXCEPT ![b] = <<>>], !.dot = [f.dot EXCEPT ![b] = 1],
                 !.ring = [f.ring EXCEPT ![b] = [i \in DOMAIN f.ring[b] |-> NULL]], !.tm = [f.tm EXCEPT ![b] = 0],
                 !.cur = IF f.cur = b THEN CHOOSE x_ \in s.world \ {b} : TRUE ELSE f.cur,
                 !.other = IF f.other.buf = b THEN Nowhere ELSE f.other]
      BY <1>2, <2>8 DEF kill_buf
    <3>2. [i \in DOMAIN f.ring[b] |-> NULL] = NoMarks
      BY <2>12, <1>1 DEF NoMarks
    <3>3. c = IF f.cur = b THEN CHOOSE x_ \in s.world \ {b} : TRUE ELSE f.cur
      BY <2>12, <1>2
    <3>4. o = IF f.other.buf = b THEN Nowhere ELSE f.other
      BY <2>12, <1>2
    <3>5. w = f.world \ {b} /\ text_ = [f.text EXCEPT ![b] = <<>>] /\ dot_ = [f.dot EXCEPT ![b] = 1]
          /\ tm = [f.tm EXCEPT ![b] = 0]
      BY <2>1, <2>12, <1>11
    <3>6. ring = [f.ring EXCEPT ![b] = [i \in DOMAIN f.ring[b] |-> NULL]]
      BY <2>1, <2>12, <3>2
    <3> QED BY ONLY <3>1, <3>3, <3>4, <3>5, <3>6
  <2>14. s \in Rec /\ y = [x EXCEPT !.world = w]
    BY <1>1, <1>11
  <2>15. PICK r : r = [s EXCEPT !.dline = dl, !.free = fr, !.world = w, !.text = text_, !.dot = dot_, !.ring = ring,
                                !.tm = tm, !.cur = c, !.other = o, !.perr = p, !.errs = e, !.err = n]
    OBVIOUS
  <2>16. u = [s EXCEPT !.cur = c, !.other = o, !.perr = p, !.errs = e, !.err = n]
    BY <1>4
  <2>17. z = r
    BY ONLY <2>3, <2>5, <2>7, <2>14, <2>15, <2>16 DEF Rec
  <2>18. t = r
    BY ONLY <2>9, <2>11, <2>13, <2>14, <2>15 DEF Rec
  <2> QED BY <2>17, <2>18
<1> QED BY <1>15, <1>16

-----------------------------------------------------------------------------
(* The kills of yank                                                       *)

(* A number is a multiple of n and a rest.                                 *)
LEMMA Divided ==
  ASSUME NEW x \in Nat, NEW n \in Nat, n > 0
  PROVE  x % n \in 0 .. n - 1 /\ x \div n \in Int /\ x = n * (x \div n) + (x % n)
OBVIOUS

(* Full turns of a ring of n lead to where they began.                     *)
LEMMA FullTurns ==
  ASSUME NEW a \in Nat, NEW n \in Nat, n > 0, a < n, NEW d \in Nat
  PROVE  (a + n * d) % n = a
<1>1. PICK x : x = a + n * d
  OBVIOUS
<1>2. x \in Nat
  BY <1>1
<1>3. PICK q, r : q = x \div n /\ r = x % n
  OBVIOUS
<1>4. q \in Int /\ r \in 0 .. n - 1 /\ x = n * q + r
  BY <1>2, <1>3, Divided
<1>5. PICK e : e = d - q
  OBVIOUS
<1>6. e \in Int /\ n * e = n * d - n * q
  BY <1>4, <1>5
<1>7. n * e = r - a
  BY <1>1, <1>4, <1>6
<1>8. e >= 1 => n * e >= n
  BY <1>6
<1>9. e <= -1 => n * e <= -n
  BY <1>6
<1>10. e = 0
  BY <1>4, <1>6, <1>7, <1>8, <1>9
<1> QED BY <1>1, <1>3, <1>4, <1>7, <1>10

(* The next kill that is there; if there is no other, the same again.      *)
LEMMA RotatedIs ==
  ASSUME killptr \in Kills, killbuf[killptr] # <<>>, NEW dir \in {1, NUMKILLS - 1}
  PROVE  Rotated(dir) \in Kills /\ killbuf[Rotated(dir)] # <<>>
<1>1. PICK N, k : N = NUMKILLS /\ k = killptr
  OBVIOUS
<1>2. N \in Nat /\ N >= 2 /\ k \in 0 .. N - 1 /\ dir \in Nat /\ Kills = 0 .. N - 1
  BY <1>1 DEF Kills
<1> DEFINE step(n) == (k + n * dir) % N
           T == {n \in 1 .. N : killbuf[step(n)] # <<>>}
<1>3. Rotated(dir) = step(Min(T))
  BY <1>1 DEF Rotated
<1>4. step(N) = k
  BY ONLY <1>2, FullTurns
<1>5. T \subseteq Nat /\ N \in T
  BY <1>1, <1>2, <1>4
<1>6. \A n \in 1 .. N : step(n) \in 0 .. N - 1
  <2> TAKE n \in 1 .. N
  <2>1. PICK x : x = k + n * dir
    OBVIOUS
  <2>2. n * dir \in Nat
    BY <1>2
  <2>3. x \in Nat
    BY <2>1, <2>2, <1>2
  <2>4. x % N \in 0 .. N - 1
    BY ONLY <2>3, <1>2, Divided
  <2> QED BY <2>1, <2>4
<1> HIDE DEF step
<1>7. Min(T) \in T
  <2>1. T # {}
    BY <1>5
  <2> QED BY ONLY <2>1, <1>5, MinIs
<1> QED BY <1>2, <1>3, <1>6, <1>7

(* The lesser and the greater of two places in a list.                     *)
LEMMA Between ==
  ASSUME NEW n \in Nat, NEW m \in 1 .. n, NEW d \in 1 .. n
  PROVE  /\ Min({m, d}) \in 1 .. n /\ Max({m, d}) \in 1 .. n /\ Min({m, d}) <= Max({m, d})
<1>1. PICK T : T = {m, d}
  OBVIOUS
<1>2. T \subseteq Nat /\ T \subseteq 0 .. n /\ T # {}
  BY <1>1
<1>3. Min(T) \in T /\ \A y \in T : Min(T) <= y
  BY ONLY <1>2, MinIs
<1>4. Max(T) \in T
  BY ONLY <1>2, n \in Nat, MaxIs
<1> QED BY <1>1, <1>3, <1>4

Drops(d, q, t) == q = d.kept /\ t = [lfreelist(d, q) EXCEPT !.kept = <<>>]
Dropped(d, t) ==
  /\ t.kept = <<>> /\ t.copy = d.copy /\ t.text = d.text /\ t.cur = d.cur
  /\ t.kill = d.kill /\ t.kptr = d.kptr /\ t.tm = d.tm /\ t.world = d.world

(* Deleted lines are freed.                                                *)
LEMMA KeptFreed ==
  ASSUME NEW d, Sound(d, {}), NEW q, NEW t, Drops(d, q, t)
  PROVE  Sound(t, {}) /\ Dropped(d, t)
<1>0. q = d.kept /\ t = [lfreelist(d, q) EXCEPT !.kept = <<>>]
  BY DEF Drops
<1>1. d \in Rec /\ q \in Seq(Line) /\ Once(q)
  BY <1>0, HandFacts DEF Sound, Rec
<1>2. PICK X, u : X = ToSet(q) /\ KeptIs(d, <<>>, u)
  BY DEF KeptIs
<1>3. Sound(u, X) /\ SameButLists(d, u) /\ u.copy = d.copy /\ u.kept = <<>>
  <2>1. Trade(d.kept, {}, <<>>, X)
    BY <1>0, <1>2, ShortLists DEF Trade
  <2> QED BY ONLY <2>1, <1>2, Sound(d, {}), KeptChanged
<1>4. PICK w : w = lfreelist(u, q)
  OBVIOUS
<1>5. Sound(w, {}) /\ SameUse(u, w)
  <2>1. PICK Y : Y = {}
    OBVIOUS
  <2>2. Y \cap ToSet(q) = {} /\ Sound(u, Y \cup ToSet(q))
    <3>1. Y \cup ToSet(q) = X
      BY <2>1, <1>2
    <3> QED BY <3>1, <2>1, <1>3
  <2>3. Sound(w, Y) /\ SameUse(u, w)
    BY ONLY <2>2, <1>1, <1>4, GoodFreed
  <2> QED BY <2>1, <2>3
<1>6. w = t
  <2>1. PICK dl, fr : /\ dl = [l \in Line |-> IF l \in ToSet(q) THEN "null" ELSE d.dline[l]]
                      /\ fr = Reverse(q) \o d.free
    OBVIOUS
  <2>2. PICK f : f = lfreelist(d, q)
    OBVIOUS
  <2>3. f = [d EXCEPT !.dline = dl, !.free = fr]
    BY <2>1, <2>2 DEF lfreelist
  <2>4. t = [f EXCEPT !.kept = <<>>]
    BY <1>0, <2>2
  <2>5. u.dline = d.dline /\ u.free = d.free
    BY <1>3 DEF SameButLists, SameLists
  <2>6. w = [u EXCEPT !.dline = dl, !.free = fr]
    BY <2>1, <2>5, <1>4 DEF lfreelist
  <2>7. u = [d EXCEPT !.kept = <<>>]
    BY <1>2 DEF KeptIs
  <2> QED BY ONLY <2>3, <2>4, <2>6, <2>7, <1>1 DEF Rec
<1> QED BY <1>3, <1>5, <1>6 DEF SameButLists, SameUse, Dropped

(* What was yanked is deleted, and another kill yanked.                    *)
LEMMA GoodPopped ==
  ASSUME NEW s, s = State, Left(s), text[curbuf] # <<>>, killbuf[killptr] # <<>>,
         NEW dir \in {1, NUMKILLS - 1}, NEW i, NEW j, Within(s, i, j), NEW t, t = Popped(dir, i, j)
  PROVE  Left(t) /\ (t.got # NULL => t.kill[t.kptr] # <<>>)
<1>1. /\ s.text = text /\ s.cur = curbuf /\ s.kill = killbuf /\ s.kptr = killptr
      /\ Sound(s, {}) /\ s.kept = <<>> /\ s.copy = <<>>
  BY DEF State, Left
<1>2. s \in Rec /\ s.kill \in [Kills -> Seq(Line)] /\ s.kptr \in Kills /\ s.cur \in Buffers
  BY <1>1 DEF Sound, Rec
<1>3. PICK p, q, u : p = Rotated(dir) /\ q = killbuf[p] /\ u = [s EXCEPT !.kptr = p]
  OBVIOUS
<1>4. p \in Kills /\ q # <<>>
  BY <1>1, <1>2, <1>3, RotatedIs
<1>5. Sound(u, {}) /\ KillIs(s, p, q, p, u)
  <2>1. PICK v : v = [s EXCEPT !.kill[p] = q, !.kptr = p]
    OBVIOUS
  <2>2. u = v
    <3>1. PICK kl : kl = [s.kill EXCEPT ![p] = q]
      OBVIOUS
    <3>2. v = [s EXCEPT !.kill = kl, !.kptr = p]
      BY <2>1, <3>1
    <3>3. kl = s.kill
      BY ONLY <3>1, <1>1, <1>2, <1>3, <1>4
    <3> QED BY ONLY <3>2, <3>3, <1>2, <1>3 DEF Rec
  <2>3. q = s.kill[p] /\ q \in Seq(Line) /\ Once(q)
    BY <1>1, <1>2, <1>3, <1>4, HandFacts
  <2>4. KillAt(s, {}, p, q, p, {}, v)
    BY <2>1, <2>3, <1>4 DEF KillAt, Trade
  <2> QED BY ONLY <2>2, <2>4, <1>1, KillChanged
<1>6. u.text = s.text /\ u.cur = s.cur /\ u.kept = <<>> /\ u.copy = <<>> /\ u.kptr = p /\ u.kill[p] = q
  BY <1>1, <1>5 DEF KillIs, SameButKills
<1>7. PICK d : d = reg_delete(u, i, j)
  OBVIOUS
<1>8. Sound(d, {}) /\ RegDeleted(u, i, d)
  <2>1. Within(u, i, j)
    BY <1>6 DEF Within
  <2> QED BY ONLY <2>1, <1>5, <1>6, <1>7, GoodRegDelete
<1>9. PICK w, n, y, l : /\ w = [lfreelist(d, d.kept) EXCEPT !.kept = <<>>] /\ n = Len(d.kill[d.kptr])
                        /\ y = DoYank(w, n, FALSE) /\ l = text[curbuf][i]
  OBVIOUS
<1>10. t = IF d.got = NULL THEN d ELSE IF y.got = NULL THEN y
           ELSE makedirty([y EXCEPT !.ring[curbuf][y.tm[curbuf]] = l], l)
  BY <1>3, <1>7, <1>9 DEF Popped
<1>11. CASE d.got = NULL
  BY <1>6, <1>8, <1>10, <1>11 DEF RegDeleted, Left
<1>12. CASE d.got # NULL
  <2>1. /\ d.copy = <<>> /\ d.cur = s.cur /\ d.kptr = p /\ d.kill[p] = q /\ l \in ToSet(d.text[d.cur])
    BY <1>1, <1>6, <1>8, <1>9, <1>12 DEF RegDeleted, SameElse
  <2>2. Sound(w, {}) /\ w.kept = <<>> /\ w.copy = <<>> /\ w.text = d.text /\ w.cur = d.cur
        /\ w.kill = d.kill /\ w.kptr = d.kptr
    <3>1. PICK k : k = d.kept
      OBVIOUS
    <3>2. Drops(d, k, w)
      BY <3>1, <1>9 DEF Drops
    <3>3. Sound(w, {}) /\ Dropped(d, w)
      BY ONLY <3>2, <1>8, KeptFreed
    <3> QED BY <3>3, <2>1 DEF Dropped
  <2>3. n \in Nat /\ n >= 1
    <3>1. q \in Seq(Line)
      BY <1>1, <1>2, <1>3, <1>4
    <3> QED BY <3>1, <2>1, <1>4, <1>9, ListFacts
  <2>4. w.text[w.cur] # <<>>
    BY <2>1, <2>2, ShortLists
  <2>5. /\ Sound(y, {}) /\ y.copy = <<>> /\ y.kept = w.kept /\ y.cur = w.cur
        /\ y.kill = w.kill /\ y.kptr = w.kptr /\ y.text[w.cur] # <<>>
        /\ ToSet(w.text[w.cur]) \subseteq ToSet(y.text[w.cur])
    <3>1. PICK with : with = FALSE
      OBVIOUS
    <3>2. with \in BOOLEAN /\ y = DoYank(w, n, with)
      BY <3>1, <1>9
    <3>3. Sound(w, {}) /\ w.text[w.cur] # <<>>
      BY <2>2, <2>4
    <3>4. Sound(y, {}) /\ DidYank(w, y)
      BY ONLY <3>2, <3>3, <2>3, GoodDoYank
    <3> QED BY <3>4 DEF DidYank
  <2>6. CASE y.got = NULL
    BY <2>2, <2>5, <2>6, <1>10, <1>12 DEF Left
  <2>7. CASE y.got # NULL
    <3>1. PICK b, k, m, v : /\ b = curbuf /\ k = y.tm[b] /\ m = [y.ring[b] EXCEPT ![k] = l]
                            /\ v = [y EXCEPT !.ring[b] = m, !.tm[b] = k]
      OBVIOUS
    <3>2. /\ y \in Rec /\ b \in Buffers /\ y.ring \in [Buffers -> [Marks -> Line \cup {NULL}]]
          /\ y.tm \in [Buffers -> Marks] /\ y.cur = b /\ k \in Marks
      BY <3>1, <2>1, <2>2, <2>5, <1>1, <1>2 DEF Sound, Rec
    <3>3. l \in ToSet(y.text[b]) /\ l \in Line
      <4>1. l \in ToSet(y.text[b]) /\ y.text[b] \in Seq(Line)
        BY <3>1, <3>2, <2>1, <2>2, <2>5 DEF Rec
      <4> QED BY ONLY <4>1, ListFacts
    <3>4. \A h \in Marks : y.ring[b][h] \in ToSet(y.text[b]) \cup {NULL}
      <4>1. y.text[y.cur] # <<>>
        BY <2>5
      <4> QED BY <4>1, <3>2, <2>5, DotLine
    <3>5. m \in [Marks -> Line \cup {NULL}] /\ \A h \in Marks : m[h] \in ToSet(y.text[b]) \cup {NULL}
      BY ONLY <3>1, <3>2, <3>3, <3>4
    <3>6. Sound(v, {}) /\ RingIs(y, b, m, k, v)
      <4>1. RingAt(y, b, m, k, v)
        BY <3>1, <3>2, <3>5 DEF RingAt
      <4> QED BY ONLY <4>1, <2>5, RingChanged
    <3>7. v = [y EXCEPT !.ring[curbuf][y.tm[curbuf]] = l]
      <4>1. PICK ring, tm : ring = [y.ring EXCEPT ![b] = m] /\ tm = [y.tm EXCEPT ![b] = k]
        OBVIOUS
      <4>2. tm = y.tm
        BY ONLY <4>1, <3>1, <3>2
      <4>3. v = [y EXCEPT !.ring = ring, !.tm = tm]
        BY <4>1, <3>1
      <4>4. PICK x : x = [y EXCEPT !.ring[curbuf][y.tm[curbuf]] = l]
        OBVIOUS
      <4>5. x = [y EXCEPT !.ring = ring]
        BY <4>1, <4>4, <3>1
      <4> QED BY ONLY <4>2, <4>3, <4>4, <4>5, <3>2 DEF Rec
    <3>8. t = makedirty(v, l)
      BY <3>7, <2>7, <1>10, <1>12
    <3>9. Sound(t, {}) /\ Frame(v, t)
      BY <3>6, <3>8, GoodMakedirty
    <3> QED BY <3>6, <3>9, <2>1, <2>2, <2>5, <1>4 DEF Frame, RingIs, Left
  <2> QED BY <2>6, <2>7
<1> QED BY <1>11, <1>12

(* A kill of one line, to which a copy is added.                           *)
LEMMA GoodNewKill ==
  ASSUME NEW s, Left(s), s.text[s.cur] # <<>>, NEW n \in Nat, n >= 1,
         NEW r, r = nbufline(s), r.got # NULL,
         NEW t, t = Appended(Copy(AddKillRing(SavLine(r, r.got), <<r.got>>), n), FALSE)
  PROVE  Left(t)
<1>1. PICK u, l, X, w, a, c : /\ u = SavLine(r, r.got) /\ l = r.got /\ X = {l} /\ w = <<l>>
                              /\ a = AddKillRing(u, w) /\ c = Copy(a, n)
  OBVIOUS
<1>2. Sound(s, {})
  BY DEF Left
<1>3. Supplies(s, r, u, {})
  BY ONLY <1>1, <1>2, r = nbufline(s), GoodNbufline
<1>4. l \in Line /\ Sound(u, X)
  <2>1. {} \cup {r.got} = X
    BY <1>1
  <2> QED BY <2>1, <1>1, <1>3 DEF Supplies
<1>5. w \in Seq(Line) /\ Once(w) /\ X = ToSet(w) /\ w # <<>>
  <2>1. w \in Seq(Line) /\ Once(w) /\ X = ToSet(w)
    BY <1>1, <1>4, ShortLists
  <2> QED BY <2>1, <1>1
<1>6. Sound(a, {}) /\ a.kill[a.kptr] = w
  BY ONLY <1>1, <1>4, <1>5, GoodAddKillRing
<1>7. Copies(a, c)
  BY ONLY <1>1, <1>6, n \in Nat, n >= 1, GoodCopy
<1>8. Sound(c, {}) /\ c.kill[c.kptr] # <<>>
  BY <1>5, <1>6, <1>7 DEF Copies
<1>9. t = Appended(c, FALSE) /\ FALSE \in BOOLEAN
  BY <1>1
<1>10. Sound(t, {}) /\ t.kept = <<>> /\ t.copy = <<>>
  BY ONLY <1>8, <1>9, GoodAppended
<1> QED BY <1>10 DEF Left

-----------------------------------------------------------------------------
(* Errors and windows                                                      *)

(* The places of an error become the points of their buffers.              *)
LEMMA GoodShowErr ==
  ASSUME NEW s, Left(s), NEW t, t = ShowErr(s)
  PROVE  Left(t)
<1>1. PICK f : f = s.errs[s.err]
  OBVIOUS
<1>2. CASE ~ ErrorHasReferents(s, f)
  <2>1. t = s
    BY <1>1, <1>2 DEF ShowErr
  <2> QED BY <2>1
<1>3. CASE ErrorHasReferents(s, f)
  <2>1. Sound(s, {}) /\ s \in Rec /\ s.kept = <<>> /\ s.copy = <<>>
    BY DEF Left, Sound
  <2>2. PICK c, p, i, j, u, v : /\ c = f.buf /\ p = s.perr /\ i = Index(s, p, f.mess) /\ j = Index(s, c, f.text)
                                /\ u = [s EXCEPT !.dot[p] = i] /\ v = [u EXCEPT !.dot[c] = j]
    OBVIOUS
  <2>3. c \in s.world /\ p \in s.world /\ f.text \in ToSet(s.text[c]) /\ f.mess \in ToSet(s.text[p])
    BY <2>2, <1>3 DEF ErrorHasReferents, inlist
  <2>4. /\ c \in Buffers /\ p \in Buffers /\ s.text[c] \in Seq(Line) /\ s.text[p] \in Seq(Line)
        /\ s.dot \in [Buffers -> Int]
    BY <2>1, <2>3 DEF Rec
  <2>5. i \in 1 .. Len(s.text[p]) /\ j \in 1 .. Len(s.text[c])
    <3>1. PICK a, b : a = f.mess /\ b = f.text
      OBVIOUS
    <3>2. i = Index(s, p, a) /\ a \in ToSet(s.text[p])
      BY <3>1, <2>2, <2>3
    <3>3. j = Index(s, c, b) /\ b \in ToSet(s.text[c])
      BY <3>1, <2>2, <2>3
    <3>4. i \in 1 .. Len(s.text[p])
      BY ONLY <3>2, <2>4, IndexIs
    <3>5. j \in 1 .. Len(s.text[c])
      BY ONLY <3>3, <2>4, IndexIs
    <3> QED BY <3>4, <3>5
  <2>6. Sound(u, {}) /\ SameHold(s, u) /\ u.text = s.text /\ u.other = s.other /\ u.errs = s.errs
    <3>1. DotAt(s, p, i, u)
      BY <2>2, <2>4, <2>5 DEF DotAt
    <3> QED BY ONLY <3>1, <2>1, GoodDot
  <2>7. Sound(v, {}) /\ SameHold(u, v) /\ v.text = s.text /\ v.other = s.other /\ v.errs = s.errs
    <3>1. DotAt(u, c, j, v)
      BY <2>2, <2>4, <2>5, <2>6 DEF DotAt
    <3>2. Sound(v, {}) /\ SameHold(u, v) /\ v.text = u.text /\ v.other = u.other /\ v.errs = u.errs
      BY ONLY <3>1, <2>6, GoodDot
    <3> QED BY <3>2, <2>6
  <2>8. PICK o, q, e, n, w : /\ o = v.other /\ q = v.perr /\ e = v.errs /\ n = v.err
                             /\ w = [v EXCEPT !.cur = c, !.other = o, !.perr = q, !.errs = e, !.err = n]
    OBVIOUS
  <2>9. Sound(w, {}) /\ SceneIs(v, c, o, q, e, n, w)
    <3>1. /\ o \in Wind /\ q \in Buffers \cup {NULL} /\ e \in Seq(ErrRec) /\ n \in Int /\ Looks(v)
      BY <2>7, <2>8 DEF Sound, Rec
    <3>2. SceneAt(v, c, o, q, e, n, w)
      BY <3>1, <2>4, <2>8 DEF SceneAt, Looks
    <3> QED BY ONLY <3>2, <2>7, SceneChanged
  <2>10. t = w
    <3>1. PICK dot_, dot2 : dot_ = [s.dot EXCEPT ![p] = i] /\ dot2 = [dot_ EXCEPT ![c] = j]
      OBVIOUS
    <3>2. u = [s EXCEPT !.dot = dot_]
      BY <3>1, <2>2
    <3>3. u.dot = dot_ /\ u \in Rec
      <4>1. u \in Rec
        BY <2>6 DEF Sound
      <4> QED BY ONLY <4>1, <3>2, <2>1 DEF Rec
    <3>4. v = [u EXCEPT !.dot = dot2]
      BY <3>1, <3>3, <2>2
    <3>5. t = [s EXCEPT !.cur = c, !.dot = dot2]
      BY <3>1, <2>2, <1>1, <1>3 DEF ShowErr
    <3>6. v \in Rec
      BY <2>7 DEF Sound
    <3> QED BY ONLY <3>2, <3>3, <3>4, <3>5, <3>6, <2>1, <2>8 DEF Rec
  <2> QED BY <2>1, <2>6, <2>7, <2>9, <2>10 DEF Left, SameHold, SceneIs
<1> QED BY <1>2, <1>3

\* There are other errors, or another one is current.
ErrorsAt(s, p, e, n, t) ==
  /\ p \in Buffers \cup {NULL} /\ e \in Seq(ErrRec) /\ n \in Int
  /\ \A i \in DOMAIN e : e[i].stale => e[i].fooled
  /\ t = [s EXCEPT !.perr = p, !.err = n, !.errs = e]

(* The errors change.                                                      *)
LEMMA GoodErrors ==
  ASSUME NEW s, Left(s), NEW p, NEW e, NEW n, NEW t, ErrorsAt(s, p, e, n, t)
  PROVE  Left(t)
<1>1. /\ Sound(s, {}) /\ s \in Rec /\ s.kept = <<>> /\ s.copy = <<>> /\ s.cur \in Buffers /\ s.other \in Wind
      /\ Looks(s)
  BY DEF Left, Sound, Rec
<1>2. PICK c, o, w : c = s.cur /\ o = s.other /\ w = [s EXCEPT !.cur = c, !.other = o, !.perr = p, !.errs = e, !.err = n]
  OBVIOUS
<1>3. Sound(w, {}) /\ SceneIs(s, c, o, p, e, n, w)
  <2>1. SceneAt(s, c, o, p, e, n, w)
    BY <1>1, <1>2 DEF SceneAt, ErrorsAt, Looks
  <2> QED BY ONLY <2>1, <1>1, SceneChanged
<1>4. t = w
  <2>1. t = [s EXCEPT !.perr = p, !.err = n, !.errs = e]
    BY DEF ErrorsAt
  <2> QED BY ONLY <2>1, <1>1, <1>2 DEF Rec
<1> QED BY <1>1, <1>3, <1>4 DEF Left, SceneIs

\* The current buffer is c, with the point at d, and the window o.
EntersAt(s, c, o, d, t) ==
  /\ c \in Buffers /\ d \in 1 .. Len(s.text[c]) /\ o \in Wind /\ Shows(o, s.text)
  /\ ~ o.gone /\ ~ o.stale
  /\ t = [s EXCEPT !.cur = c, !.other = o, !.dot[c] = d]

(* Another window, or another buffer, is entered.                          *)
LEMMA GoodEntered ==
  ASSUME NEW s, Left(s), NEW c, NEW o, NEW d, NEW t, EntersAt(s, c, o, d, t)
  PROVE  Left(t)
<1>1. Sound(s, {}) /\ s \in Rec /\ s.kept = <<>> /\ s.copy = <<>>
  BY DEF Left, Sound
<1>2. /\ c \in Buffers /\ d \in 1 .. Len(s.text[c]) /\ o \in Wind /\ Shows(o, s.text) /\ ~ o.gone /\ ~ o.stale
      /\ t = [s EXCEPT !.cur = c, !.other = o, !.dot[c] = d]
  BY DEF EntersAt
<1>3. PICK u : u = [s EXCEPT !.dot[c] = d]
  OBVIOUS
<1>4. Sound(u, {}) /\ SameHold(s, u) /\ u.text = s.text
  <2>1. DotAt(s, c, d, u)
    BY <1>2, <1>3 DEF DotAt
  <2> QED BY ONLY <2>1, <1>1, GoodDot
<1>5. PICK q, e, n, w : /\ q = u.perr /\ e = u.errs /\ n = u.err
                        /\ w = [u EXCEPT !.cur = c, !.other = o, !.perr = q, !.errs = e, !.err = n]
  OBVIOUS
<1>6. Sound(w, {}) /\ SceneIs(u, c, o, q, e, n, w)
  <2>1. q \in Buffers \cup {NULL} /\ e \in Seq(ErrRec) /\ n \in Int /\ Looks(u)
    BY <1>4, <1>5 DEF Sound, Rec
  <2>2. SceneAt(u, c, o, q, e, n, w)
    BY <2>1, <1>2, <1>4, <1>5 DEF SceneAt, Looks
  <2> QED BY ONLY <2>2, <1>4, SceneChanged
<1>7. t = w
  <2>1. PICK dot_ : dot_ = [s.dot EXCEPT ![c] = d]
    OBVIOUS
  <2>2. u = [s EXCEPT !.dot = dot_]
    BY <2>1, <1>3
  <2>3. t = [s EXCEPT !.cur = c, !.other = o, !.dot = dot_]
    BY <2>1, <1>2
  <2>4. u \in Rec
    BY <1>4 DEF Sound
  <2> QED BY ONLY <2>2, <2>3, <2>4, <1>1, <1>5 DEF Rec
<1> QED BY <1>1, <1>4, <1>6, <1>7 DEF Left, SameHold, SceneIs

\* The current buffer is c, and the window o, one that was not or not yet to be told.
SeenAt(s, c, o, t) ==
  /\ c \in Buffers /\ o \in Wind /\ (o = s.other \/ (Shows(o, s.text) /\ ~ o.gone /\ ~ o.stale))
  /\ t = [s EXCEPT !.cur = c, !.other = o]

(* A window is drawn, or a buffer selected.                                *)
LEMMA GoodSeen ==
  ASSUME NEW s, Left(s), NEW c, NEW o, NEW t, SeenAt(s, c, o, t)
  PROVE  Left(t) /\ t.kill = s.kill /\ t.kptr = s.kptr
<1>1. Sound(s, {}) /\ s \in Rec /\ s.kept = <<>> /\ s.copy = <<>> /\ Looks(s)
  BY DEF Left, Sound
<1>2. PICK q, e, n, w : /\ q = s.perr /\ e = s.errs /\ n = s.err
                        /\ w = [s EXCEPT !.cur = c, !.other = o, !.perr = q, !.errs = e, !.err = n]
  OBVIOUS
<1>3. Sound(w, {}) /\ SceneIs(s, c, o, q, e, n, w)
  <2>1. q \in Buffers \cup {NULL} /\ e \in Seq(ErrRec) /\ n \in Int
    BY <1>1, <1>2 DEF Rec
  <2>2. SceneAt(s, c, o, q, e, n, w)
    BY <2>1, <1>1, <1>2 DEF SceneAt, SeenAt, Looks
  <2> QED BY ONLY <2>2, <1>1, SceneChanged
<1>4. t = w
  <2>1. t = [s EXCEPT !.cur = c, !.other = o]
    BY DEF SeenAt
  <2> QED BY ONLY <2>1, <1>1, <1>2 DEF Rec
<1> QED BY <1>1, <1>3, <1>4 DEF Left, SceneIs

-----------------------------------------------------------------------------
(* Commands                                                                *)

\* What a command cmd may leave.
Leaves(t, cmd) == Left(t) /\ (cmd \in {"yank", "kill"} => t.kill[t.kptr] # <<>>)

(* What a command leaves is the next state.                                *)
LEMMA BecomesInv ==
  ASSUME NEW t, NEW cmd, Leaves(t, cmd), Becomes(t, cmd)
  PROVE  IInv'
<1>1. Sound(t, {}) /\ t \in Rec /\ t.kept = <<>> /\ t.copy = <<>>
  BY DEF Leaves, Left, Sound
<1>2. PICK u : u = [t EXCEPT !.got = NULL]
  OBVIOUS
<1>3. Sound(u, {})
  <2>1. NULL \in Line \cup {NULL, Done}
    OBVIOUS
  <2> QED BY ONLY <2>1, <1>1, <1>2, GotChanged
<1>4. State' = u
  BY ONLY <1>1, <1>2, Becomes(t, cmd), ZenonT(60) DEF Rec, State, Becomes
<1>5. Sound(State', {})
  BY <1>3, <1>4
<1>6. last_cmd' = cmd /\ killbuf' = t.kill /\ killptr' = t.kptr
  BY DEF Becomes
<1>7. last_cmd' \in {"yank", "kill"} => killbuf'[killptr'] # <<>>
  BY <1>6 DEF Leaves
<1> HIDE DEF State, Sound
<1> QED BY ONLY <1>5, <1>7 DEF IInv

\* The record a command begins with.
Begins(s) ==
  /\ s = State /\ Left(s) /\ (last_cmd \in {"yank", "kill"} => killbuf[killptr] # <<>>)
\* What it is of variables.
IsState(s) ==
  /\ s.text = text /\ s.dot = dot /\ s.cur = curbuf /\ s.kill = killbuf /\ s.kptr = killptr
  /\ s.world = world /\ s.other = other /\ s.errs = errorlist /\ s.err = cur_error /\ s.perr = perr_buf
  /\ s.got = NULL /\ s.kept = <<>> /\ s.copy = <<>>
  /\ s \in Rec /\ Sound(s, {})

(* The record of the state.                                                *)
LEMMA BeginsWith ==
  ASSUME NEW s, Begins(s)
  PROVE  IsState(s)
<1>1. s = State /\ Sound(s, {}) /\ s \in Rec
  BY DEF Begins, Left, Sound
<1> QED BY <1>1 DEF State, IsState

(* Lines are put in, or deleted.                                           *)
LEMMA EditStep ==
  ASSUME NEW s, Begins(s), text[curbuf] # <<>>,
         \/ \E n \in 1 .. 2, with \in BOOLEAN : Newline(n, with)
         \/ \E i, j \in Lines_ : Delete(i, j)
  PROVE  IInv'
<1>1. IsState(s) /\ s = State
  BY BeginsWith DEF Begins
<1>2. ASSUME NEW n \in 1 .. 2, NEW with \in BOOLEAN, Newline(n, with) PROVE IInv'
  <2>1. PICK t : t = LineInsert(s, n, with)
    OBVIOUS
  <2>2. Becomes(t, "other")
    BY <1>1, <1>2, <2>1 DEF Newline
  <2>3. Inserts(s) /\ n \in Nat
    BY <1>1 DEF Inserts, IsState
  <2>4. Inserts(t)
    BY ONLY <2>1, <2>3, with \in BOOLEAN, GoodLineInsert
  <2>5. Leaves(t, "other")
    BY <2>4 DEF Leaves, Left, Inserts
  <2> QED BY ONLY <2>2, <2>5, BecomesInv
<1>3. ASSUME NEW i \in Lines_, NEW j \in Lines_, Delete(i, j) PROVE IInv'
  <2>1. PICK t : t = Removed(s, i, j)
    OBVIOUS
  <2>2. Becomes(t, "other") /\ i < j
    BY <1>1, <1>3, <2>1 DEF Delete
  <2>3. Within(s, i, j)
    <3>1. s.text[s.cur] \in Seq(Line) /\ s.text = text /\ s.cur = curbuf
      BY <1>1 DEF IsState, Rec
    <3>2. Lines_ = 1 .. Len(s.text[s.cur]) /\ Len(s.text[s.cur]) \in Nat
      BY <3>1 DEF Lines_
    <3> QED BY <2>2, <3>2 DEF Within
  <2>4. Sound(t, {}) /\ t.kept = s.kept /\ t.copy = s.copy
    <3>1. Sound(s, {})
      BY <1>1 DEF IsState
    <3> QED BY <3>1, <2>1, <2>3, GoodRemoved
  <2>5. Leaves(t, "other")
    BY <1>1, <2>4 DEF Leaves, Left, IsState
  <2> QED BY ONLY <2>2, <2>5, BecomesInv
<1> QED BY <1>2, <1>3

(* Lines of the current buffer.                                            *)
LEMMA CurrentLines ==
  ASSUME NEW s, IsState(s), text[curbuf] # <<>>
  PROVE  /\ s.text[s.cur] # <<>> /\ s.text[s.cur] \in Seq(Line) /\ Len(s.text[s.cur]) \in Nat
         /\ Lines_ = 1 .. Len(s.text[s.cur]) /\ dot[curbuf] \in 1 .. Len(s.text[s.cur])
         /\ curbuf \in Buffers
         /\ (curmark(s) # NULL => Index(s, curbuf, curmark(s)) \in 1 .. Len(s.text[s.cur]))
<1>1. /\ s.text = text /\ s.cur = curbuf /\ s.dot = dot /\ s \in Rec /\ Sound(s, {})
  BY DEF IsState
<1>2. s.text[s.cur] # <<>> /\ s.text[s.cur] \in Seq(Line) /\ s.cur \in Buffers /\ s.tm[s.cur] \in Marks
  BY <1>1 DEF Rec
<1>3. Lines_ = 1 .. Len(s.text[s.cur]) /\ Len(s.text[s.cur]) \in Nat
  BY <1>1, <1>2 DEF Lines_
<1>4. /\ s.dot[s.cur] \in 1 .. Len(s.text[s.cur])
      /\ \A i \in Marks : s.ring[s.cur][i] \in ToSet(s.text[s.cur]) \cup {NULL}
  BY <1>1, <1>2, DotLine
<1>5. ASSUME curmark(s) # NULL PROVE Index(s, curbuf, curmark(s)) \in 1 .. Len(s.text[s.cur])
  <2>1. PICK m, b : m = curmark(s) /\ b = s.cur
    OBVIOUS
  <2>2. m \in ToSet(s.text[b]) /\ s.text[b] \in Seq(Line)
    BY <2>1, <1>2, <1>4, <1>5 DEF curmark
  <2>3. Index(s, b, m) \in 1 .. Len(s.text[b])
    BY ONLY <2>2, IndexIs
  <2> QED BY <2>1, <2>3, <1>1
<1> QED BY <1>1, <1>2, <1>3, <1>4, <1>5

(* Lines are deleted and kept as a kill.                                   *)
LEMMA KillStep ==
  ASSUME NEW s, Begins(s), text[curbuf] # <<>>, NEW i \in Lines_, Kill(i)
  PROVE  IInv'
<1>1. IsState(s) /\ s = State
  BY BeginsWith DEF Begins
<1>2. PICK d, again : d = dot[curbuf] /\ again = (last_cmd = "kill")
  OBVIOUS
<1>3. again \in BOOLEAN /\ (again => s.kill[s.kptr] # <<>>)
  BY <1>1, <1>2 DEF Begins, IsState
<1>4. PICK back, t :
        /\ back \in BOOLEAN
        /\ t = reg_kill(s, Min({i, d}), Max({i, d}), again, back)
        /\ Becomes(t, IF t.got = NULL THEN "other" ELSE "kill")
  BY <1>1, <1>2 DEF Kill
<1>5. PICK m, n : m = Min({i, d}) /\ n = Max({i, d})
  OBVIOUS
<1>6. Within(s, m, n)
  <2>1. PICK k : k = Len(s.text[s.cur])
    OBVIOUS
  <2>2. k \in Nat /\ i \in 1 .. k /\ d \in 1 .. k
    BY <2>1, <1>1, <1>2, CurrentLines
  <2>3. Min({i, d}) \in 1 .. k /\ Max({i, d}) \in 1 .. k /\ Min({i, d}) <= Max({i, d})
    BY ONLY <2>2, Between
  <2> QED BY <2>1, <2>2, <2>3, <1>5 DEF Within
<1>7. Sound(t, {}) /\ t.kept = <<>> /\ t.copy = <<>> /\ (t.got # NULL => t.kill[t.kptr] # <<>>)
  <2>1. t = reg_kill(s, m, n, again, back)
    BY <1>4, <1>5
  <2>2. Sound(s, {}) /\ s.kept = <<>> /\ s.copy = <<>>
    BY <1>1 DEF IsState
  <2>3. back \in BOOLEAN
    BY <1>4
  <2> QED BY ONLY <2>1, <2>2, <2>3, <1>3, <1>6, GoodRegKill
<1>8. Leaves(t, IF t.got = NULL THEN "other" ELSE "kill")
  BY <1>7 DEF Leaves, Left
<1> QED BY ONLY <1>4, <1>8, BecomesInv

(* A kill is yanked.                                                       *)
LEMMA YankStep ==
  ASSUME NEW s, Begins(s), text[curbuf] # <<>>, NEW with \in BOOLEAN, Yank(with)
  PROVE  IInv'
<1>1. IsState(s) /\ s = State
  BY BeginsWith DEF Begins
<1>2. PICK q, n, y, l, t : /\ q = killbuf[killptr] /\ n = Len(q) /\ y = DoYank(s, n, with) /\ l = dotline(s)
                           /\ t = do_set_mark(y, l)
  OBVIOUS
<1>3. n > 0 /\ IF y.got = NULL THEN Becomes(y, "other") ELSE Becomes(t, "yank")
  BY <1>1, <1>2 DEF Yank
<1>4. /\ Sound(s, {}) /\ s.text[s.cur] # <<>> /\ s.kill[s.kptr] = q /\ q \in Seq(Line)
      /\ s.kept = <<>>
  BY <1>1, <1>2, CurrentLines DEF IsState, Rec
<1>5. n \in Nat /\ n >= 1 /\ q # <<>>
  BY <1>2, <1>3, <1>4, ListFacts
<1>6. Sound(y, {}) /\ DidYank(s, y)
  BY ONLY <1>2, <1>4, <1>5, with \in BOOLEAN, GoodDoYank
<1>7. Leaves(y, "other")
  BY <1>4, <1>6 DEF Leaves, Left, DidYank
<1>8. CASE y.got = NULL
  <2>1. Becomes(y, "other")
    BY <1>3, <1>8
  <2> QED BY ONLY <2>1, <1>7, BecomesInv
<1>9. CASE y.got # NULL
  <2>1. l \in ToSet(y.text[y.cur])
    <3>1. l \in ToSet(s.text[s.cur])
      BY <1>2, <1>4, DotLine
    <3> QED BY <3>1, <1>6 DEF DidYank
  <2>2. Sound(t, {}) /\ Frame(y, t)
    BY ONLY <2>1, <1>2, <1>6, GoodSetMark
  <2>3. Leaves(t, "yank")
    BY <2>2, <1>4, <1>5, <1>6 DEF Leaves, Left, Frame, DidYank
  <2>4. Becomes(t, "yank")
    BY <1>3, <1>9
  <2> QED BY ONLY <2>3, <2>4, BecomesInv
<1> QED BY <1>8, <1>9

(* Another kill is yanked instead.                                         *)
LEMMA YankPopStep ==
  ASSUME NEW s, Begins(s), text[curbuf] # <<>>, NEW dir \in {1, NUMKILLS - 1}, YankPop(dir)
  PROVE  IInv'
<1>1. IsState(s) /\ s = State /\ Left(s)
  BY BeginsWith DEF Begins
<1>2. PICK m, d, i, j, t : /\ m = Index(s, curbuf, curmark(s)) /\ d = dot[curbuf] /\ i = Min({m, d}) /\ j = Max({m, d})
                           /\ t = Popped(dir, i, j)
  OBVIOUS
<1>3. /\ last_cmd = "yank" /\ curmark(s) # NULL
      /\ Becomes(t, IF t.got = NULL THEN "other" ELSE "yank")
  BY <1>1, <1>2 DEF YankPop
<1>4. killbuf[killptr] # <<>>
  BY <1>3 DEF Begins
<1>5. Within(s, i, j)
  <2>1. PICK k : k = Len(s.text[s.cur])
    OBVIOUS
  <2>2. k \in Nat /\ m \in 1 .. k /\ d \in 1 .. k
    BY <2>1, <1>1, <1>2, <1>3, CurrentLines
  <2>3. Min({m, d}) \in 1 .. k /\ Max({m, d}) \in 1 .. k /\ Min({m, d}) <= Max({m, d})
    BY ONLY <2>2, Between
  <2> QED BY <2>1, <2>2, <2>3, <1>2 DEF Within
<1>6. Left(t) /\ (t.got # NULL => t.kill[t.kptr] # <<>>)
  BY ONLY <1>1, <1>2, <1>4, <1>5, text[curbuf] # <<>>, dir \in {1, NUMKILLS - 1}, GoodPopped
<1>7. Leaves(t, IF t.got = NULL THEN "other" ELSE "yank")
  BY <1>6 DEF Leaves
<1> QED BY ONLY <1>3, <1>7, BecomesInv

(* The region is copied.                                                   *)
LEMMA CopyRegionStep ==
  ASSUME NEW s, Begins(s), text[curbuf] # <<>>, CopyRegion
  PROVE  IInv'
<1>1. IsState(s) /\ s = State /\ Left(s)
  BY BeginsWith DEF Begins
<1>2. PICK m, d, n, r, a : /\ m = Index(s, curbuf, curmark(s)) /\ d = dot[curbuf]
                           /\ n = 1 + Max({m, d}) - Min({m, d}) /\ r = nbufline(s)
                           /\ a = Appended(Copy(AddKillRing(SavLine(r, r.got), <<r.got>>), n), FALSE)
  OBVIOUS
<1>3. curmark(s) # NULL /\ Becomes(IF r.got = NULL THEN r ELSE a, "other")
  BY <1>1, <1>2 DEF CopyRegion
<1>4. n \in Nat /\ n >= 1
  <2>1. PICK k : k = Len(s.text[s.cur])
    OBVIOUS
  <2>2. k \in Nat /\ m \in 1 .. k /\ d \in 1 .. k
    BY <2>1, <1>1, <1>2, <1>3, CurrentLines
  <2>3. PICK i, j : i = Min({m, d}) /\ j = Max({m, d})
    OBVIOUS
  <2>4. i \in 1 .. k /\ j \in 1 .. k /\ i <= j
    BY ONLY <2>2, <2>3, Between
  <2> QED BY ONLY <2>2, <2>3, <2>4, <1>2
<1>5. CASE r.got = NULL
  <2>1. PICK u : u = SavLine(r, r.got)
    OBVIOUS
  <2>2. Sound(s, {})
    BY <1>1 DEF IsState
  <2>3. Supplies(s, r, u, {})
    BY ONLY <2>1, <2>2, <1>2, GoodNbufline
  <2>4. Leaves(r, "other")
    BY <2>3, <1>1, <1>5 DEF Supplies, Leaves, Left, SameUse
  <2>5. Becomes(r, "other")
    BY <1>3, <1>5
  <2> QED BY ONLY <2>4, <2>5, BecomesInv
<1>6. CASE r.got # NULL
  <2>1. Left(a)
    <3>1. s.text[s.cur] # <<>>
      BY <1>1, CurrentLines
    <3> QED BY ONLY <3>1, <1>1, <1>2, <1>4, <1>6, GoodNewKill
  <2>2. Leaves(a, "other")
    BY <2>1 DEF Leaves
  <2>3. Becomes(a, "other")
    BY <1>3, <1>6
  <2> QED BY ONLY <2>2, <2>3, BecomesInv
<1> QED BY <1>5, <1>6

(* Marks, the point, and undoing a kill.                                   *)
LEMMA MarkStep ==
  ASSUME NEW s, Begins(s), MouseUndo \/ (text[curbuf] # <<>> /\ (SetMark \/ Pop \/ \E i \in Lines_ : Move(i)))
  PROVE  IInv'
<1>1. IsState(s) /\ s = State /\ Left(s) /\ Sound(s, {}) /\ s.kept = <<>> /\ s.copy = <<>>
  BY BeginsWith DEF Begins, IsState
<1>2. CASE MouseUndo
  <2>1. PICK t : t = DelKillRing(s)
    OBVIOUS
  <2>2. Becomes(t, "other")
    BY <2>1, <1>1, <1>2 DEF MouseUndo
  <2>3. Sound(t, {}) /\ KillsOnly(s, t)
    BY ONLY <2>1, <1>1, GoodDelKillRing
  <2>4. Leaves(t, "other")
    BY <2>3, <1>1 DEF Leaves, Left, KillsOnly
  <2> QED BY ONLY <2>2, <2>4, BecomesInv
<1>3. CASE text[curbuf] # <<>> /\ SetMark
  <2>1. PICK l, t : l = dotline(s) /\ t = do_set_mark(s, l)
    OBVIOUS
  <2>2. Becomes(t, "other")
    BY <2>1, <1>1, <1>3 DEF SetMark
  <2>3. l \in ToSet(s.text[s.cur])
    <3>1. s.text[s.cur] # <<>>
      BY <1>1, <1>3 DEF IsState
    <3> QED BY <3>1, <2>1, <1>1, DotLine
  <2>4. Sound(t, {}) /\ Frame(s, t)
    BY ONLY <2>1, <2>3, <1>1, GoodSetMark
  <2>5. Leaves(t, "other")
    BY <2>4, <1>1 DEF Leaves, Left, Frame
  <2> QED BY ONLY <2>2, <2>5, BecomesInv
<1>4. CASE text[curbuf] # <<>> /\ Pop
  <2>1. PICK t : t = PopMark(s)
    OBVIOUS
  <2>2. Becomes(t, "other")
    BY <2>1, <1>1, <1>4 DEF Pop
  <2>3. Sound(t, {}) /\ MarksOnly(s, t)
    <3>1. s.text[s.cur] # <<>>
      BY <1>1, <1>4 DEF IsState
    <3> QED BY ONLY <3>1, <2>1, <1>1, GoodPopMark
  <2>4. Leaves(t, "other")
    BY <2>3, <1>1 DEF Leaves, Left, MarksOnly
  <2> QED BY ONLY <2>2, <2>4, BecomesInv
<1>5. ASSUME text[curbuf] # <<>>, NEW i \in Lines_, Move(i) PROVE IInv'
  <2>1. PICK b, t : b = curbuf /\ t = [s EXCEPT !.dot[b] = i]
    OBVIOUS
  <2>2. Becomes(t, "other")
    BY <2>1, <1>1, <1>5 DEF Move
  <2>3. DotAt(s, b, i, t)
    <3>1. Lines_ = 1 .. Len(s.text[s.cur]) /\ curbuf \in Buffers /\ s.cur = curbuf
      BY <1>1, <1>5, CurrentLines DEF IsState
    <3> QED BY <3>1, <2>1 DEF DotAt
  <2>4. Sound(t, {}) /\ SameHold(s, t)
    BY ONLY <2>3, <1>1, GoodDot
  <2>5. Leaves(t, "other")
    BY <2>4, <1>1 DEF Leaves, Left, SameHold
  <2> QED BY ONLY <2>2, <2>5, BecomesInv
<1> QED BY <1>2, <1>3, <1>4, <1>5

(* Buffers are cleared, killed and made.                                   *)
LEMMA BufferStep ==
  ASSUME NEW s, Begins(s),
         \/ \E b \in world : BufErase(b) \/ KillBuf(b)
         \/ \E b \in Buffers : MakBuf(b)
  PROVE  IInv'
<1>1. IsState(s) /\ s = State /\ Left(s) /\ s.world = world
  BY BeginsWith DEF Begins, IsState
<1>2. ASSUME NEW b \in world, BufErase(b) PROVE IInv'
  <2>1. PICK t : t = buf_clear(s, b)
    OBVIOUS
  <2>2. Becomes(t, "other") /\ b \in s.world
    BY <2>1, <1>1, <1>2 DEF BufErase
  <2>3. Left(t)
    BY ONLY <2>1, <2>2, <1>1, GoodBufClear
  <2>4. Leaves(t, "other")
    BY <2>3 DEF Leaves
  <2> QED BY ONLY <2>2, <2>4, BecomesInv
<1>3. ASSUME NEW b \in world, KillBuf(b) PROVE IInv'
  <2>1. PICK t : t = kill_buf(s, b)
    OBVIOUS
  <2>2. Becomes(t, "other") /\ b \in s.world /\ s.world # {b}
    BY <2>1, <1>1, <1>3 DEF KillBuf
  <2>3. Left(t)
    BY ONLY <2>1, <2>2, <1>1, GoodKillBuf
  <2>4. Leaves(t, "other")
    BY <2>3 DEF Leaves
  <2> QED BY ONLY <2>2, <2>4, BecomesInv
<1>4. ASSUME NEW b \in Buffers, MakBuf(b) PROVE IInv'
  <2>1. PICK t : t = FirstLine([s EXCEPT !.world = @ \cup {b}], b)
    OBVIOUS
  <2>2. Becomes(t, "other") /\ b \in Buffers \ s.world
    BY <2>1, <1>1, <1>4 DEF MakBuf
  <2>3. Left(t)
    BY <2>1, <2>2, <1>1, GoodMakBuf
  <2>4. Leaves(t, "other")
    BY <2>3 DEF Leaves
  <2> QED BY ONLY <2>2, <2>4, BecomesInv
<1> QED BY <1>2, <1>3, <1>4

(* A place in the window.                                                  *)
LEMMA AtIs ==
  ASSUME NEW s, s \in Rec, NEW b \in Buffers, NEW l, l \in ToSet(s.text[b]) \cup {NULL}, NEW o, o = At(b, l)
  PROVE  o \in Wind /\ Shows(o, s.text) /\ ~ o.gone /\ ~ o.stale
<1>1. s.text[b] \in Seq(Line)
  BY DEF Rec
<1>2. l \in Line \cup {NULL}
  BY <1>1, ListFacts
<1>3. o = [buf |-> b, line |-> l, gone |-> FALSE, stale |-> FALSE, cleared |-> FALSE]
  BY DEF At, Nowhere
<1> QED BY <1>2, <1>3 DEF Wind, Shows

(* The other window is entered, or drawn; another buffer is selected.      *)
LEMMA WindowStep ==
  ASSUME NEW s, Begins(s),
         \/ text[curbuf] # <<>> /\ SwitchWindow
         \/ Redisplay
         \/ \E b \in world : SelectBuf(b)
  PROVE  IInv'
<1>1. IsState(s) /\ s = State /\ Left(s) /\ s \in Rec /\ Sound(s, {})
  BY BeginsWith DEF Begins, IsState
<1>2. s.text = text /\ s.dot = dot /\ s.cur = curbuf /\ s.other = other /\ s.world = world
  BY <1>1 DEF IsState
<1>3. s.other \in Wind /\ s.cur \in Buffers /\ s.text \in [Buffers -> Seq(Line)] /\ s.dot \in [Buffers -> Int]
  BY <1>1 DEF Rec
<1>4. CASE text[curbuf] # <<>> /\ SwitchWindow
  <2>1. PICK b, l, m, d, o, t : /\ b = other.buf /\ m = other.line /\ l = dotline(s)
                                /\ d = (IF inlist(s, b, m) THEN Index(s, b, m) ELSE s.dot[b])
                                /\ o = At(s.cur, l)
                                /\ t = [s EXCEPT !.cur = b, !.other = o, !.dot[b] = d]
    OBVIOUS
  <2>2. other.buf # NULL /\ text[other.buf] # <<>>
    BY <1>4 DEF SwitchWindow
  <2>3. b \in Buffers /\ s.text[b] # <<>>
    BY <2>1, <2>2, <1>2, <1>3 DEF Wind
  <2>4. d \in 1 .. Len(s.text[b])
    <3>1. CASE inlist(s, b, m)
      <4>1. m \in ToSet(s.text[b]) /\ s.text[b] \in Seq(Line)
        BY <3>1, <2>3, <1>3 DEF inlist
      <4>2. Index(s, b, m) \in 1 .. Len(s.text[b])
        BY ONLY <4>1, IndexIs
      <4> QED BY <3>1, <4>2, <2>1
    <3>2. CASE ~ inlist(s, b, m)
      <4>1. s.dot[b] \in 1 .. Len(s.text[b])
        BY <2>3, <1>1 DEF Sound, Refs
      <4> QED BY <3>2, <4>1, <2>1
    <3> QED BY <3>1, <3>2
  <2>5. o \in Wind /\ Shows(o, s.text) /\ ~ o.gone /\ ~ o.stale
    <3>1. l \in ToSet(s.text[s.cur]) \cup {NULL}
      BY <2>1, <1>1, <1>2, <1>4, DotLine
    <3>2. s.cur \in Buffers
      BY <1>3
    <3> QED BY ONLY <3>1, <3>2, <2>1, <1>1, AtIs
  <2>6. EntersAt(s, b, o, d, t)
    BY <2>1, <2>3, <2>4, <2>5 DEF EntersAt
  <2>7. Left(t)
    BY ONLY <2>6, <1>1, GoodEntered
  <2>8. Becomes(t, "other")
    <3>1. PICK x : x = [s EXCEPT !.cur = b, !.other = o, !.dot[b] = IF inlist(s, b, m) THEN Index(s, b, m) ELSE @]
      OBVIOUS
    <3>2. Becomes(x, "other")
      BY <3>1, <2>1, <1>1, <1>2, <1>4 DEF SwitchWindow
    <3>3. x = t
      BY <3>1, <2>1
    <3> QED BY <3>2, <3>3
  <2>9. Leaves(t, "other")
    BY <2>7 DEF Leaves
  <2> QED BY ONLY <2>8, <2>9, BecomesInv
<1>5. CASE Redisplay
  <2>1. PICK b, l, o, c, t : /\ b = other.buf /\ l = (IF text[b] = <<>> THEN NULL ELSE text[b][dot[b]])
                             /\ o = At(b, l) /\ c = s.cur /\ t = [s EXCEPT !.cur = c, !.other = o]
    OBVIOUS
  <2>2. b \in Buffers
    BY <2>1, <1>1, <1>2, <1>5 DEF Redisplay, Sound, Looks
  <2>3. l \in ToSet(s.text[b]) \cup {NULL}
    <3>1. CASE s.text[b] # <<>>
      <4>1. PICK q, i : q = s.text[b] /\ i = s.dot[b]
        OBVIOUS
      <4>2. q \in Seq(Line) /\ i \in 1 .. Len(q)
        BY <3>1, <4>1, <2>2, <1>1, <1>3 DEF Sound, Refs
      <4>3. q[i] \in ToSet(q)
        BY ONLY <4>2, ListFacts
      <4> QED BY <3>1, <4>1, <4>3, <2>1, <1>2
    <3>2. CASE s.text[b] = <<>>
      BY <3>2, <2>1, <1>2
    <3> QED BY <3>1, <3>2
  <2>4. o \in Wind /\ Shows(o, s.text) /\ ~ o.gone /\ ~ o.stale
    BY ONLY <2>1, <2>2, <2>3, <1>1, AtIs
  <2>5. SeenAt(s, c, o, t)
    BY <2>1, <2>4, <1>3 DEF SeenAt
  <2>6. Left(t) /\ t.kill = s.kill /\ t.kptr = s.kptr
    BY ONLY <2>5, <1>1, GoodSeen
  <2>7. Becomes(t, last_cmd)
    <3>1. PICK x : x = [s EXCEPT !.other = o]
      OBVIOUS
    <3>2. Becomes(x, last_cmd)
      BY <3>1, <2>1, <1>1, <1>5 DEF Redisplay
    <3>3. x = t
      BY ONLY <3>1, <2>1, <1>1 DEF Rec
    <3> QED BY <3>2, <3>3
  <2>8. Leaves(t, last_cmd)
    BY <2>6, <1>1 DEF Leaves, Begins, IsState
  <2> QED BY ONLY <2>7, <2>8, BecomesInv
<1>6. ASSUME NEW b \in world, SelectBuf(b) PROVE IInv'
  <2>1. PICK o, t : o = s.other /\ t = [s EXCEPT !.cur = b, !.other = o]
    OBVIOUS
  <2>2. b \in Buffers
    BY <1>1, <1>2 DEF Rec
  <2>3. Left(t)
    <3>1. SeenAt(s, b, o, t)
      BY <2>1, <2>2, <1>3 DEF SeenAt
    <3> QED BY ONLY <3>1, <1>1, GoodSeen
  <2>4. Becomes(t, "other")
    <3>1. PICK x : x = [s EXCEPT !.cur = b]
      OBVIOUS
    <3>2. Becomes(x, "other")
      BY <3>1, <1>1, <1>6 DEF SelectBuf
    <3>3. x = t
      BY ONLY <3>1, <2>1, <1>1 DEF Rec
    <3> QED BY <3>2, <3>3
  <2>5. Leaves(t, "other")
    BY <2>3 DEF Leaves
  <2> QED BY ONLY <2>4, <2>5, BecomesInv
<1> QED BY <1>4, <1>5, <1>6

(* Errors are parsed.                                                      *)
LEMMA ErrParseStep ==
  ASSUME NEW s, Begins(s), text[curbuf] # <<>>, ErrParse
  PROVE  IInv'
<1>1. IsState(s) /\ s = State /\ Left(s) /\ s \in Rec
  BY BeginsWith DEF Begins, IsState
<1>2. s.text = text /\ s.cur = curbuf /\ s.world = world
  BY <1>1 DEF IsState
<1>a. PICK b \in world : \E ms \in {<<i>> : i \in Lines_} \cup {<<i, i + 1>> : i \in Lines_ \ {Len(text[curbuf])}} :
           \E l \in ToSet(text[b]) :
        Becomes(ShowErr([State EXCEPT !.perr = curbuf, !.err = 1,
                  !.errs = [i \in DOMAIN ms |-> [mess |-> text[curbuf][ms[i]], text |-> l, buf |-> b,
                                                 stale |-> FALSE, fooled |-> FALSE]]]), "other")
  BY Zenon DEF ErrParse
<1>b. PICK ms \in {<<i>> : i \in Lines_} \cup {<<i, i + 1>> : i \in Lines_ \ {Len(text[curbuf])}} :
           \E l \in ToSet(text[b]) :
        Becomes(ShowErr([State EXCEPT !.perr = curbuf, !.err = 1,
                  !.errs = [i \in DOMAIN ms |-> [mess |-> text[curbuf][ms[i]], text |-> l, buf |-> b,
                                                 stale |-> FALSE, fooled |-> FALSE]]]), "other")
  BY ONLY <1>a, Zenon
<1>3. PICK l \in ToSet(text[b]) :
        Becomes(ShowErr([State EXCEPT !.perr = curbuf, !.err = 1,
                  !.errs = [i \in DOMAIN ms |-> [mess |-> text[curbuf][ms[i]], text |-> l, buf |-> b,
                                                 stale |-> FALSE, fooled |-> FALSE]]]), "other")
  BY ONLY <1>b, Zenon
<1>4. PICK e, t, p, u : /\ e = [i \in DOMAIN ms |-> [mess |-> text[curbuf][ms[i]], text |-> l, buf |-> b,
                                                     stale |-> FALSE, fooled |-> FALSE]]
                        /\ p = curbuf /\ u = [s EXCEPT !.perr = p, !.err = 1, !.errs = e] /\ t = ShowErr(u)
  OBVIOUS
<1>5. Becomes(t, "other")
  BY <1>1, <1>3, <1>4
<1>6. b \in Int /\ l \in Int /\ p \in Buffers
  <2>1. s.world \subseteq Buffers /\ s.cur \in Buffers /\ s.text \in [Buffers -> Seq(Line)]
    BY <1>1 DEF Rec
  <2>2. b \in Buffers /\ text[b] \in Seq(Line)
    BY <2>1, <1>2
  <2>3. l \in Line
    BY <2>2, ListFacts
  <2> QED BY <2>1, <2>2, <2>3, <1>2, <1>4 DEF Line
<1>7. \A i \in DOMAIN ms : text[curbuf][ms[i]] \in Int
  <2>1. PICK q, n : q = text[curbuf] /\ n = Len(q)
    OBVIOUS
  <2>2. q \in Seq(Line) /\ n \in Nat /\ Lines_ = 1 .. n
    BY <2>1, <1>1, <1>2, CurrentLines
  <2>3. \A i \in 1 .. n : q[i] \in Int
    <3>1. \A i \in 1 .. n : q[i] \in Line
      BY <2>1, <2>2
    <3> QED BY <3>1 DEF Line
  <2>4. CASE ms \in {<<i>> : i \in Lines_}
    <3>1. PICK i \in 1 .. n : ms = <<i>>
      BY <2>2, <2>4
    <3> QED BY <3>1, <2>1, <2>3
  <2>5. CASE ms \in {<<i, i + 1>> : i \in Lines_ \ {Len(text[curbuf])}}
    <3>1. PICK i \in 1 .. n \ {n} : ms = <<i, i + 1>>
      BY <2>1, <2>2, <2>5
    <3>2. i \in 1 .. n /\ i + 1 \in 1 .. n
      BY ONLY <3>1, <2>2
    <3>3. \A k \in DOMAIN ms : ms[k] \in {i, i + 1}
      BY ONLY <3>1
    <3> QED BY <3>2, <3>3, <2>1, <2>3
  <2> QED BY <2>4, <2>5
<1>8. e \in Seq(ErrRec) /\ \A i \in DOMAIN e : ~ e[i].stale
  <2>1. \E k \in Nat : DOMAIN ms = 1 .. k
    <3>1. CASE ms \in {<<i>> : i \in Lines_}
      <4>1. DOMAIN ms = 1 .. 1
        BY <3>1
      <4> QED BY <4>1
    <3>2. CASE ms \in {<<i, i + 1>> : i \in Lines_ \ {Len(text[curbuf])}}
      <4>1. DOMAIN ms = 1 .. 2
        BY <3>2
      <4> QED BY <4>1
    <3> QED BY <3>1, <3>2
  <2>2. PICK k \in Nat : DOMAIN ms = 1 .. k
    BY <2>1
  <2>3. ASSUME NEW i \in 1 .. k
        PROVE  [mess |-> text[curbuf][ms[i]], text |-> l, buf |-> b, stale |-> FALSE, fooled |-> FALSE] \in ErrRec
    BY <2>2, <1>6, <1>7 DEF ErrRec
  <2>4. e = [i \in 1 .. k |-> [mess |-> text[curbuf][ms[i]], text |-> l, buf |-> b, stale |-> FALSE, fooled |-> FALSE]]
    BY <2>2, <1>4
  <2>5. e \in [1 .. k -> ErrRec]
    BY <2>3, <2>4
  <2>6. e \in Seq(ErrRec)
    BY <2>5
  <2> QED BY <2>4, <2>6
<1>9. Left(u)
  <2>1. ErrorsAt(s, p, e, 1, u)
    BY <1>4, <1>6, <1>8 DEF ErrorsAt
  <2> QED BY ONLY <2>1, <1>1, GoodErrors
<1>10. Left(t)
  BY <1>4, <1>9, GoodShowErr
<1>11. Leaves(t, "other")
  BY <1>10 DEF Leaves
<1> QED BY ONLY <1>5, <1>11, BecomesInv

(* Another error is shown.                                                 *)
LEMMA ToErrorStep ==
  ASSUME NEW s, Begins(s), NEW to, ToError(to)
  PROVE  IInv'
<1>1. IsState(s) /\ s = State /\ Left(s) /\ s \in Rec /\ Sound(s, {})
  BY BeginsWith DEF Begins, IsState
<1>2. PICK q, n : q = errorlist /\ n = Len(q)
  OBVIOUS
<1>3. q = s.errs /\ q \in Seq(ErrRec) /\ n \in Nat /\ DOMAIN q = 1 .. n /\ to \in 1 .. n /\ s.err = cur_error
      /\ s.perr \in Buffers \cup {NULL}
  <2>1. q = s.errs /\ q \in Seq(ErrRec) /\ s.perr \in Buffers \cup {NULL} /\ s.err = cur_error
    BY <1>1, <1>2 DEF IsState, Rec
  <2>2. to \in DOMAIN q
    BY <1>2 DEF ToError
  <2> QED BY <2>1, <2>2, <1>2
<1> DEFINE beyond == IF to > cur_error THEN {i \in DOMAIN errorlist : i >= to}
                                       ELSE {i \in DOMAIN errorlist : i <= to}
           there == {i \in beyond : ErrorHasReferents(s, errorlist[i])}
           e == IF there = {} THEN (IF to > cur_error THEN Max(beyond) ELSE Min(beyond))
                ELSE IF to > cur_error THEN Min(there) ELSE Max(there)
<1>4. PICK k, t, u : k = e /\ u = [s EXCEPT !.err = k] /\ t = ShowErr(u)
  OBVIOUS
<1>5. Becomes(t, "other")
  BY <1>1, <1>4 DEF ToError
<1>6. beyond \subseteq 1 .. n /\ there \subseteq 1 .. n /\ to \in beyond
  <2>1. to >= to /\ to <= to
    BY <1>3
  <2> QED BY <2>1, <1>2, <1>3
<1>7. \A A : A \subseteq 1 .. n /\ A # {} => Min(A) \in Int /\ Max(A) \in Int
  <2> TAKE A
  <2> SUFFICES ASSUME A \subseteq 1 .. n, A # {} PROVE Min(A) \in Int /\ Max(A) \in Int
    OBVIOUS
  <2>1. A \subseteq Nat /\ A \subseteq 0 .. n
    BY <1>3
  <2>2. Min(A) \in A
    BY ONLY <2>1, A # {}, MinIs
  <2>3. Max(A) \in A
    BY ONLY <2>1, <1>3, A # {}, MaxIs
  <2>4. PICK x, y : x = Min(A) /\ y = Max(A)
    OBVIOUS
  <2>5. x \in Nat /\ y \in Nat
    BY ONLY <2>1, <2>2, <2>3, <2>4
  <2> QED BY ONLY <2>4, <2>5
<1>8. k \in Int
  <2>1. beyond # {} /\ Min(beyond) \in Int /\ Max(beyond) \in Int
    BY <1>6, <1>7
  <2>2. there # {} => Min(there) \in Int /\ Max(there) \in Int
    BY <1>6, <1>7
  <2> HIDE DEF beyond, there
  <2> QED BY <2>1, <2>2, <1>4
<1>9. Left(u)
  <2>1. PICK p, x : p = s.perr /\ x = [s EXCEPT !.perr = p, !.err = k, !.errs = q]
    OBVIOUS
  <2>2. x = u
    BY ONLY <2>1, <1>1, <1>3, <1>4 DEF Rec
  <2>3. ErrorsAt(s, p, q, k, x)
    BY <2>1, <1>1, <1>3, <1>8 DEF ErrorsAt, Sound, Looks
  <2>4. Left(x)
    BY ONLY <2>3, <1>1, GoodErrors
  <2> QED BY <2>2, <2>4
<1>10. Left(t)
  BY <1>4, <1>9, GoodShowErr
<1>11. Leaves(t, "other")
  BY <1>10 DEF Leaves
<1> QED BY ONLY <1>5, <1>11, BecomesInv

(* Chunks that are not used go back to malloc.                             *)
LEMMA EmallocStep ==
  ASSUME NEW s, Begins(s), Emalloc
  PROVE  IInv'
<1>1. IsState(s) /\ s = State /\ Left(s) /\ Sound(s, {})
  BY BeginsWith DEF Begins, IsState
<1>2. PICK t : t = GCchunks(s)
  OBVIOUS
<1>3. Becomes(t, last_cmd)
  BY <1>1, <1>2 DEF Emalloc
<1>4. Sound(t, {}) /\ SameUse(s, t)
  BY ONLY <1>1, <1>2, GoodGCchunks
<1>5. Leaves(t, last_cmd)
  BY <1>1, <1>4 DEF Leaves, Left, SameUse, Begins, IsState
<1> QED BY ONLY <1>3, <1>5, BecomesInv

(* Every step keeps the invariant.                                         *)
LEMMA LinesStep == IInv /\ [Next]_vars => IInv'
<1> SUFFICES ASSUME IInv, [Next]_vars PROVE IInv'
  OBVIOUS
<1>1. PICK s : s = State
  OBVIOUS
<1>2. Begins(s)
  <2>1. s.kept = <<>> /\ s.copy = <<>>
    BY <1>1 DEF State
  <2> QED BY <2>1, <1>1 DEF IInv, Begins, Left
<1>3. CASE UNCHANGED vars
  <2>1. State' = State /\ last_cmd' = last_cmd /\ killbuf' = killbuf /\ killptr' = killptr
    BY <1>3 DEF vars, State
  <2>2. Sound(State', {})
    BY <2>1 DEF IInv
  <2>3. last_cmd' \in {"yank", "kill"} => killbuf'[killptr'] # <<>>
    BY <2>1 DEF IInv
  <2> HIDE DEF State, Sound
  <2> QED BY ONLY <2>2, <2>3 DEF IInv
<1> DEFINE Edit == (\E n \in 1 .. 2, with \in BOOLEAN : Newline(n, with)) \/ (\E i, j \in Lines_ : Delete(i, j))
           KillOrMove == \E i \in Lines_ : Kill(i) \/ Move(i)
           SomeYank == \E with \in BOOLEAN : Yank(with)
           SomePop == \E dir \in {1, NUMKILLS - 1} : YankPop(dir)
           SomeBuf == \E b \in world : BufErase(b) \/ KillBuf(b) \/ SelectBuf(b)
           SomeMade == \E b \in Buffers : MakBuf(b)
           SomeError == \E to \in {cur_error - 1, cur_error + 1} : ToError(to)
           HasText == text[curbuf] # <<>>
<1>4. CASE Next
  <2>1. CASE HasText /\ Edit
    BY ONLY <2>1, <1>2, EditStep
  <2>2. ASSUME HasText, NEW i \in Lines_, Kill(i) PROVE IInv'
    BY ONLY <2>2, i \in Lines_, <1>2, KillStep
  <2>3. CASE HasText /\ SomeYank
    <3>1. PICK with \in BOOLEAN : Yank(with)
      BY <2>3
    <3> QED BY ONLY <2>3, <3>1, with \in BOOLEAN, <1>2, YankStep
  <2>4. CASE HasText /\ SomePop
    <3>1. PICK dir \in {1, NUMKILLS - 1} : YankPop(dir)
      BY <2>4
    <3> QED BY ONLY <2>4, <3>1, dir \in {1, NUMKILLS - 1}, <1>2, YankPopStep
  <2>5. CASE HasText /\ CopyRegion
    BY ONLY <2>5, <1>2, CopyRegionStep
  <2>6. CASE MouseUndo \/ (HasText /\ (SetMark \/ Pop \/ \E i \in Lines_ : Move(i)))
    BY ONLY <2>6, <1>2, MarkStep
  <2>7. CASE HasText /\ ErrParse
    BY ONLY <2>7, <1>2, ErrParseStep
  <2>8. CASE (\E b \in world : BufErase(b) \/ KillBuf(b)) \/ SomeMade
    BY ONLY <2>8, <1>2, BufferStep
  <2>9. CASE (HasText /\ SwitchWindow) \/ Redisplay \/ (\E b \in world : SelectBuf(b))
    BY ONLY <2>9, <1>2, WindowStep
  <2>10. CASE SomeError
    <3>1. PICK to : ToError(to)
      BY <2>10
    <3> QED BY ONLY <3>1, <1>2, ToErrorStep
  <2>11. CASE Emalloc
    BY ONLY <2>11, <1>2, EmallocStep
  <2>12. CASE HasText /\ KillOrMove
    BY ONLY <2>2, <2>6, <2>12
  <2>13. CASE SomeBuf
    BY ONLY <2>8, <2>9, <2>13
  <2>14. \/ HasText /\ (Edit \/ KillOrMove \/ SomeYank \/ SomePop \/ CopyRegion \/ SetMark \/ Pop \/ ErrParse \/ SwitchWindow)
         \/ MouseUndo \/ SomeBuf \/ SomeMade \/ SomeError \/ Redisplay \/ Emalloc
    BY ONLY <1>4 DEF Next
  <2> HIDE DEF Edit, KillOrMove, SomeYank, SomePop, SomeBuf, SomeMade, SomeError, HasText
  <2> QED BY ONLY <2>1, <2>3, <2>4, <2>5, <2>6, <2>7, <2>8, <2>9, <2>10, <2>11, <2>12, <2>13, <2>14
<1> QED BY <1>3, <1>4

-----------------------------------------------------------------------------
(* The initial state                                                       *)

(* The lines of the first chunk: one for each buffer, the others available. *)
LEMMA FirstLines ==
  ASSUME NEW q, q = [i \in 1 .. CHUNKSIZE |-> i], NEW t, t = Chosen(q, Line \ Buffers)
  PROVE  t \in Seq(Line) /\ Once(t) /\ ToSet(t) = (1 .. CHUNKSIZE) \ Buffers
<1>1. PICK n : n = CHUNKSIZE
  OBVIOUS
<1>2. n \in Nat /\ 1 .. n \subseteq Line
  BY <1>1 DEF Line
<1>3. q = [i \in 1 .. n |-> i] /\ \A i \in 1 .. n : i \in Line
  BY <1>1, <1>2
<1>4. q \in [1 .. n -> Line]
  BY ONLY <1>3
<1>5. q \in Seq(Line) /\ DOMAIN q = 1 .. n /\ \A i \in 1 .. n : q[i] = i
  BY ONLY <1>2, <1>3, <1>4
<1>6. ToSet(q) = 1 .. n /\ Once(q)
  BY ONLY <1>5 DEF ToSet, Once
<1>7. PICK X : X = Line \ Buffers
  OBVIOUS
<1>8. t = Chosen(q, X)
  BY <1>7
<1>9. t \in Seq(Line) /\ ToSet(t) = ToSet(q) \cap X /\ (Once(q) => Once(t))
  BY ONLY <1>5, <1>8, ChosenFacts
<1> QED BY <1>1, <1>2, <1>6, <1>7, <1>9

(* Lines at the start.                                                     *)
LEMMA InitWhole ==
  ASSUME NEW s, s \in Rec, NEW t, t \in Seq(Line), Once(t), ToSet(t) = (1 .. CHUNKSIZE) \ Buffers,
         s.avail = t, s.free = <<>>, s.kept = <<>>, s.copy = <<>>, s.leaked = {},
         \A b \in Buffers : s.text[b] = <<b>>, \A k \in Kills : s.kill[k] = <<>>,
         s.dline = [l \in Line |-> IF l \in Buffers THEN "used" ELSE "null"], s.chunks = <<1 .. CHUNKSIZE>>
  PROVE  Whole(Contents(s), s.dline, ToSet(s.chunks), s.leaked, {})
<1>1. PICK C, dl, c : C = Contents(s) /\ dl = s.dline /\ c = 1 .. CHUNKSIZE
  OBVIOUS
<1>2. Reads(s, C)
  BY <1>1, ContentsReads
<1>3. c \subseteq Line /\ Buffers \subseteq c /\ ToSet(s.chunks) = {c}
  <2>1. c \subseteq Line /\ Buffers \subseteq c
    BY <1>1 DEF Line
  <2>2. s.chunks = <<c>>
    BY <1>1
  <2> QED BY <2>1, <2>2 DEF ToSet
<1>4. ASSUME NEW b \in Buffers
      PROVE  C[Text(b)] = <<b>> /\ ToSet(C[Text(b)]) = {b} /\ Once(C[Text(b)]) /\ Text(b) \in Place
  <2>1. b \in Line /\ Text(b) \in Place
    BY <1>3, PlaceFacts DEF PlacesAre
  <2>2. C[Text(b)] = s.text[b]
    BY ONLY <1>2, b \in Buffers DEF Reads
  <2>3. s.text[b] = <<b>>
    OBVIOUS
  <2>4. PICK w : w = <<b>>
    OBVIOUS
  <2>5. ToSet(w) = {b} /\ Once(w)
    BY ONLY <2>1, <2>4, ShortLists
  <2>6. C[Text(b)] = w
    BY ONLY <2>2, <2>3, <2>4
  <2> QED BY ONLY <2>1, <2>4, <2>5, <2>6
<1>5. ASSUME NEW h \in Place
      PROVE  \/ h = Avail /\ ToSet(C[h]) = c \ Buffers /\ Once(C[h])
             \/ \E b \in Buffers : h = Text(b) /\ ToSet(C[h]) = {b} /\ Once(C[h])
             \/ ToSet(C[h]) = {} /\ Once(C[h])
  <2>1. CASE h = Avail
    BY <2>1, <1>1, <1>2 DEF Reads
  <2>2. CASE \E b \in Buffers : h = Text(b)
    BY <2>2, <1>4
  <2>3. CASE h \in {Free, Kept, Copied} \/ \E k \in Kills : h = Killed(k)
    <3>1. C[Free] = <<>> /\ C[Kept] = <<>> /\ C[Copied] = <<>>
      BY <1>2 DEF Reads
    <3>2. ASSUME NEW k \in Kills PROVE C[Killed(k)] = <<>>
      <4>1. C[Killed(k)] = s.kill[k]
        BY ONLY <1>2, k \in Kills DEF Reads
      <4>2. s.kill[k] = <<>>
        OBVIOUS
      <4> QED BY ONLY <4>1, <4>2
    <3>3. C[h] = <<>>
      BY ONLY <2>3, <3>1, <3>2
    <3> QED BY ONLY <3>3, ShortLists
  <2> QED BY <2>1, <2>2, <2>3, PlaceFacts DEF PlacesAre
<1>6. Apart(C, Place)
  <2>1. ASSUME NEW g \in Place, NEW h \in Place, g # h PROVE ToSet(C[g]) \cap ToSet(C[h]) = {}
    <3>1. \/ g = Avail /\ ToSet(C[g]) = c \ Buffers
          \/ \E b \in Buffers : g = Text(b) /\ ToSet(C[g]) = {b}
          \/ ToSet(C[g]) = {}
      BY <1>5
    <3>2. \/ h = Avail /\ ToSet(C[h]) = c \ Buffers
          \/ \E b \in Buffers : h = Text(b) /\ ToSet(C[h]) = {b}
          \/ ToSet(C[h]) = {}
      BY <1>5
    <3> QED BY ONLY <2>1, <3>1, <3>2
  <2>2. \A h \in Place : Once(C[h])
    BY <1>5
  <2> QED BY <2>1, <2>2 DEF Apart
<1>7. Lying(C, Place) = c
  <2>1. ASSUME NEW h \in Place PROVE ToSet(C[h]) \subseteq c
    <3>1. \/ ToSet(C[h]) = c \ Buffers
          \/ \E b \in Buffers : ToSet(C[h]) = {b}
          \/ ToSet(C[h]) = {}
      BY <1>5
    <3> QED BY ONLY <3>1, <1>3
  <2>2. \A l \in c : \E h \in Place : l \in ToSet(C[h])
    <3> TAKE l \in c
    <3>1. CASE l \in Buffers
      BY <3>1, <1>4
    <3>2. CASE l \notin Buffers
      <4>1. Avail \in Place /\ ToSet(C[Avail]) = c \ Buffers
        BY <1>1, <1>2, PlaceFacts DEF Reads, PlacesAre
      <4> QED BY <3>2, <4>1
    <3> QED BY <3>1, <3>2
  <2> QED BY <2>1, <2>2 DEF Lying
<1>8. Addressed(C, dl, {}, {}, Place)
  <2>1. \A l \in Line : (l \in Buffers => dl[l] = "used") /\ (l \notin Buffers => dl[l] = "null")
    BY <1>1
  <2>2. ASSUME NEW h \in Place \cap Pool, NEW l \in ToSet(C[h]) PROVE dl[l] # "used"
    <3>1. h = Avail \/ h = Free
      BY DEF Pool
    <3>2. l \in c \ Buffers
      BY <3>1, <1>1, <1>2, ShortLists DEF Reads
    <3> QED BY <3>2, <2>1, <1>3
  <2>3. ASSUME NEW h \in Place \ Pool, NEW l \in ToSet(C[h]) PROVE dl[l] = "used"
    <3>1. h # Avail
      BY DEF Pool
    <3>2. \E b \in Buffers : ToSet(C[h]) = {b}
      BY <2>3, <3>1, <1>5
    <3> QED BY <2>3, <3>2, <2>1, <1>3
  <2> QED BY <2>2, <2>3 DEF Addressed
<1>9. Lying(C, Place) \cup {} \cup {} = UNION {c} /\ Disjoint(Lying(C, Place), {}, {})
  BY <1>7 DEF Disjoint
<1>10. {c} \subseteq SUBSET Line /\ \A x, y \in {c} : x # y => x \cap y = {}
  BY <1>3
<1>11. Whole(C, dl, {c}, {}, {})
  BY <1>2, <1>6, <1>8, <1>9, <1>10 DEF Whole, Reads
<1> QED BY <1>1, <1>3, <1>11

(* The invariant holds at the start.                                       *)
LEMMA InitInv == Init => IInv
<1> SUFFICES ASSUME Init PROVE IInv
  OBVIOUS
<1>1. PICK s, t, q : s = State /\ q = [i \in 1 .. CHUNKSIZE |-> i] /\ t = Chosen(q, Line \ Buffers)
  OBVIOUS
<1>2. t \in Seq(Line) /\ Once(t) /\ ToSet(t) = (1 .. CHUNKSIZE) \ Buffers
  BY ONLY <1>1, FirstLines
<1>3. /\ s.dline = [l \in Line |-> IF l \in Buffers THEN "used" ELSE "null"] /\ s.chunks = <<1 .. CHUNKSIZE>>
      /\ s.avail = t /\ s.free = <<>> /\ s.kept = <<>> /\ s.copy = <<>> /\ s.leaked = {} /\ s.got = NULL
      /\ s.world = Buffers /\ s.text = [b \in Buffers |-> <<b>>] /\ s.dot = [b \in Buffers |-> 1]
      /\ s.cur = 1 /\ s.kill = [k \in Kills |-> <<>>] /\ s.kptr = 0
      /\ s.ring = [b \in Buffers |-> [i \in Marks |-> NULL]] /\ s.tm = [b \in Buffers |-> 0]
      /\ s.errs = <<>> /\ s.err = NULL /\ s.perr = NULL
      /\ s.other \in {Nowhere} \cup {At(b, b) : b \in Buffers}
  BY <1>1 DEF Init, State, Kills, Marks
<1>4. Buffers \subseteq Line /\ 1 .. CHUNKSIZE \subseteq Line
  BY DEF Line
<1>5. \A b \in Buffers : <<b>> \in Seq(Line) /\ ToSet(<<b>>) = {b} /\ Len(<<b>>) = 1 /\ <<b>> # <<>>
  BY <1>4, ShortLists
<1>6. \/ s.other = Nowhere
      \/ \E b \in Buffers : s.other = [buf |-> b, line |-> b, gone |-> FALSE, stale |-> FALSE, cleared |-> FALSE]
  <2>1. ASSUME NEW b \in Buffers, NEW o, o = At(b, b)
        PROVE  o = [buf |-> b, line |-> b, gone |-> FALSE, stale |-> FALSE, cleared |-> FALSE]
    BY ONLY <2>1 DEF At, Nowhere
  <2>2. s.other \in {Nowhere} \cup {At(b, b) : b \in Buffers}
    BY <1>3
  <2>3. s.other = Nowhere \/ \E b \in Buffers : s.other = At(b, b)
    BY ONLY <2>2
  <2> QED BY ONLY <2>1, <2>3
<1>7. /\ s.other \in Wind /\ ~ s.other.gone /\ ~ s.other.stale
      /\ (s.other.line = NULL \/ (s.other.buf \in Buffers /\ s.other.line = s.other.buf))
  <2>1. CASE s.other = Nowhere
    BY <2>1 DEF Nowhere, Wind
  <2>2. CASE \E b \in Buffers : s.other = [buf |-> b, line |-> b, gone |-> FALSE, stale |-> FALSE, cleared |-> FALSE]
    BY <2>2, <1>4 DEF Wind
  <2> QED BY <2>1, <2>2, <1>6
<1>8. s \in Rec
  <2>1. s.dline \in [Line -> {"null", "used", "dirty"}] /\ s.chunks \in Seq(SUBSET Line)
    BY <1>3, <1>4
  <2>2. s.text \in [Buffers -> Seq(Line)] /\ s.dot \in [Buffers -> Int] /\ s.kill \in [Kills -> Seq(Line)]
        /\ s.kptr \in Kills
    BY <1>3, <1>5 DEF Kills
  <2>3. s.ring \in [Buffers -> [Marks -> Line \cup {NULL}]] /\ s.tm \in [Buffers -> Marks]
    BY <1>3 DEF Marks
  <2>4. s.avail \in Seq(Line) /\ s.free \in Seq(Line) /\ s.kept \in Seq(Line) /\ s.copy \in Seq(Line)
        /\ s.errs \in Seq(ErrRec)
    BY <1>2, <1>3
  <2>5. s.world \subseteq Buffers /\ s.cur \in Buffers /\ s.leaked \subseteq Line /\ s.got \in Line \cup {NULL, Done}
        /\ s.err \in Int /\ s.perr \in Buffers \cup {NULL}
    BY <1>3 DEF NULL
  <2>6. s = [dline |-> s.dline, avail |-> s.avail, free |-> s.free, chunks |-> s.chunks,
             world |-> s.world, text |-> s.text, dot |-> s.dot, cur |-> s.cur,
             kill |-> s.kill, kptr |-> s.kptr, ring |-> s.ring, tm |-> s.tm,
             errs |-> s.errs, err |-> s.err, perr |-> s.perr,
             other |-> s.other, leaked |-> s.leaked, got |-> s.got, kept |-> s.kept, copy |-> s.copy]
    BY ONLY <1>1 DEF State
  <2> QED BY ONLY <2>1, <2>2, <2>3, <2>4, <2>5, <2>6, <1>7 DEF Rec
<1>9. Whole(Contents(s), s.dline, ToSet(s.chunks), s.leaked, {})
  <2>1. \A b \in Buffers : s.text[b] = <<b>>
    BY <1>3
  <2>2. \A k \in Kills : s.kill[k] = <<>>
    BY <1>3
  <2> QED BY ONLY <2>1, <2>2, <1>2, <1>3, <1>8, InitWhole
<1>10. Refs(s)
  <2>1. \A b \in Buffers : s.dot[b] \in 1 .. Len(s.text[b])
    BY <1>3, <1>5
  <2>2. \A b \in Buffers : \A i \in Marks : s.ring[b][i] = NULL
    BY <1>3
  <2> QED BY <2>1, <2>2, <1>3 DEF Refs
<1>11. Looks(s)
  <2>1. PICK o, txt, es : o = s.other /\ txt = s.text /\ es = s.errs
    OBVIOUS
  <2>2. \A b \in Buffers : txt[b] = <<b>>
    BY ONLY <1>3, <2>1
  <2>3. \A b \in Buffers : ToSet(txt[b]) = {b}
    BY ONLY <2>2, <1>5
  <2>4. ~ o.gone /\ ~ o.stale /\ (o.line = NULL \/ (o.buf \in Buffers /\ o.line = o.buf))
    BY ONLY <1>7, <2>1
  <2>5. Shows(o, txt)
    BY ONLY <2>3, <2>4 DEF Shows
  <2>6. es = <<>> /\ DOMAIN es = {}
    BY ONLY <1>3, <2>1
  <2>7. \A i \in DOMAIN es : es[i].stale => es[i].fooled
    BY ONLY <2>6
  <2> QED BY ONLY <2>1, <2>4, <2>5, <2>7 DEF Looks
<1>12. Sound(s, {})
  BY <1>8, <1>9, <1>10, <1>11 DEF Sound
<1>13. last_cmd = "other"
  BY DEF Init
<1> QED BY <1>1, <1>12, <1>13 DEF IInv

-----------------------------------------------------------------------------
(* What the invariant says of the properties                               *)

(* What a place of Holder has is what the place of that name has.          *)
LEMMA HeldIs ==
  ASSUME NEW s, s = State, NEW h \in Holder
  PROVE  /\ h \in Place /\ Held[h] = Contents(s)[h]
         /\ (h[1] \in {"available", "free"} <=> h \in Pool)
         /\ h[1] \in {"available", "free", "text", "kill"}
<1>1. h \in Place
  BY DEF Place
<1>2. s.avail = faline /\ s.free = ffline /\ s.text = text /\ s.kill = killbuf
  BY DEF State
<1>3. h[1] \in {"available", "free", "text", "kill"}
  BY DEF Holder
<1>4. Held[h] = CASE h[1] = "available" -> faline [] h[1] = "free" -> ffline
                  [] h[1] = "text" -> text[h[2]] [] OTHER -> killbuf[h[2]]
  BY DEF Held
<1>5. Contents(s)[h] = CASE h[1] = "available" -> s.avail [] h[1] = "free" -> s.free
                         [] h[1] = "text" -> s.text[h[2]] [] h[1] = "kill" -> s.kill[h[2]]
                         [] h[1] = "kept" -> s.kept [] OTHER -> s.copy
  BY <1>1 DEF Contents
<1>6. Held[h] = Contents(s)[h]
  BY ONLY <1>2, <1>3, <1>4, <1>5
<1>7. h[1] \in {"available", "free"} <=> h \in Pool
  BY DEF Holder, Pool, Avail, Free
<1> QED BY <1>1, <1>3, <1>6, <1>7

(* Every line that lies anywhere lies in a place of Holder.                *)
LEMMA HeldByAll ==
  ASSUME NEW s, s = State, s \in Rec, NEW C, C = Contents(s)
  PROVE  HeldBy({"available", "free", "text", "kill"}) = Lying(C, Place)
<1>1. \A h \in Holder : h \in Place /\ Held[h] = C[h] /\ h[1] \in {"available", "free", "text", "kill"}
  BY HeldIs
<1>2. ToSet(C[Kept]) = {} /\ ToSet(C[Copied]) = {}
  <2>1. Reads(s, C)
    BY ContentsReads
  <2>2. s.kept = <<>> /\ s.copy = <<>>
    BY DEF State
  <2>3. C[Kept] = <<>> /\ C[Copied] = <<>>
    BY ONLY <2>1, <2>2 DEF Reads
  <2> QED BY ONLY <2>3, ShortLists
<1>3. \A h \in Place : h \in Holder \/ h = Kept \/ h = Copied
  BY DEF Place
<1>4. HeldBy({"available", "free", "text", "kill"}) \subseteq Lying(C, Place)
  BY <1>1 DEF HeldBy, Lying
<1>5. ASSUME NEW l \in Lying(C, Place) PROVE l \in HeldBy({"available", "free", "text", "kill"})
  <2>1. PICK h \in Place : l \in ToSet(C[h])
    BY DEF Lying
  <2>2. h \in Holder
    BY <2>1, <1>2, <1>3
  <2> QED BY <2>1, <2>2, <1>1 DEF HeldBy
<1> QED BY <1>4, <1>5

(* The invariant implies OnePlace.                                         *)
LEMMA OnePlaceShown == IInv => OnePlace
<1> SUFFICES ASSUME IInv PROVE OnePlace
  OBVIOUS
<1>1. PICK s : s = State
  OBVIOUS
<1>2. PICK C : C = Contents(s)
  OBVIOUS
<1>3. s \in Rec /\ Whole(C, s.dline, ToSet(s.chunks), s.leaked, {})
  BY <1>1, <1>2 DEF IInv, Sound
<1>4. s.dline = dline /\ s.chunks = chunks /\ s.leaked = leaked
  BY <1>1 DEF State
<1>5. \A h \in Holder : h \in Place /\ Held[h] = C[h] /\ (h[1] \in {"available", "free"} <=> h \in Pool)
  BY <1>1, <1>2, HeldIs
<1>6. Apart(C, Place) /\ Addressed(C, dline, leaked, {}, Place) /\ Lying(C, Place) \cup leaked = UNION ToSet(chunks)
      /\ Lying(C, Place) \cap leaked = {} /\ C \in [Place -> Seq(Line)]
  BY <1>3, <1>4 DEF Whole, Disjoint
<1>7. ASSUME NEW g \in Holder, NEW h \in Holder, NEW i \in DOMAIN Held[g], NEW j \in DOMAIN Held[h],
             Held[g][i] = Held[h][j]
      PROVE  g = h /\ i = j
  <2>1. g \in Place /\ h \in Place /\ Held[g] = C[g] /\ Held[h] = C[h]
    BY <1>5
  <2>2. Held[g][i] \in ToSet(C[g]) /\ Held[g][i] \in ToSet(C[h])
    BY <2>1, <1>7 DEF ToSet
  <2>3. g = h
    BY <2>1, <2>2, <1>6 DEF Apart
  <2>4. Once(C[g])
    BY <2>1, <1>6 DEF Apart
  <2> QED BY <2>1, <2>3, <2>4, <1>7 DEF Once
<1>8. \A h \in Holder : ToSet(Held[h]) \cap leaked = {}
  BY <1>5, <1>6 DEF Lying
<1>9. HeldBy({"available", "free", "text", "kill"}) \cup leaked = UNION ToSet(chunks)
  BY <1>1, <1>2, <1>3, <1>6, HeldByAll
<1>10. ASSUME NEW l \in HeldBy({"text", "kill"}) PROVE dline[l] = "used"
  <2>1. PICK h \in Holder : h[1] \in {"text", "kill"} /\ l \in ToSet(Held[h])
    BY DEF HeldBy
  <2>2. h \in Place \ Pool /\ l \in ToSet(C[h])
    BY <2>1, <1>5
  <2> QED BY ONLY <2>2, <1>6 DEF Addressed
<1>11. ASSUME NEW l \in HeldBy({"available", "free"}) PROVE dline[l] # "used"
  <2>1. PICK h \in Holder : h[1] \in {"available", "free"} /\ l \in ToSet(Held[h])
    BY DEF HeldBy
  <2>2. h \in Place \cap Pool /\ l \in ToSet(C[h])
    BY <2>1, <1>5
  <2> QED BY ONLY <2>2, <1>6 DEF Addressed
<1> QED BY ONLY <1>7, <1>8, <1>9, <1>10, <1>11 DEF OnePlace

(* The invariant implies NoStaleLine.                                      *)
LEMMA NoStaleShown == IInv => NoStaleLine
<1> SUFFICES ASSUME IInv PROVE NoStaleLine
  OBVIOUS
<1>1. PICK s : s = State
  OBVIOUS
<1>2. Looks(s)
  BY <1>1 DEF IInv, Sound
<1>3. s.errs = errorlist /\ s.other = other
  BY <1>1 DEF State
<1> QED BY ONLY <1>2, <1>3 DEF Looks, NoStaleLine

-----------------------------------------------------------------------------
(* Theorems                                                                *)

(* Through every command, and every lack of memory in the middle of one,   *)
(* the lines are each in one place, with an address when in use; point and *)
(* marks are on lines of their buffer, the other window shows a line of    *)
(* its buffer or will look for it, and the kill that may be added to is    *)
(* there (IInv).                                                           *)
THEOREM LinesInvAlways == Spec => []IInv
<1>1. Init => IInv
  BY InitInv
<1>2. IInv /\ [Next]_vars => IInv'
  BY LinesStep
<1> QED BY <1>1, <1>2, PTL DEF Spec

(* A line is available, free, in one buffer or in one kill, and only       *)
(* there; it has an address exactly when it is in use; no line of a chunk  *)
(* is lost but those reg_kill has copied, and no chunk of a line in use is *)
(* given back (lfreereg, nbufline, GCchunks).                              *)
THEOREM OnePlaceAlways == Spec => []OnePlace
<1>1. IInv => OnePlace
  BY OnePlaceShown
<1> QED BY <1>1, LinesInvAlways, PTL

(* When lines that were freed are used again, no error record refers to    *)
(* them, except one that AllMarkReset fooled ChkErrorLines about, and no   *)
(* window shows them, except one that redisplay will look at or whose      *)
(* buffer was cleared (RecycleLines, ChkErrorLines, ChkWindows).           *)
THEOREM NoStaleLineAlways == Spec => []NoStaleLine
<1>1. IInv => NoStaleLine
  BY NoStaleShown
<1> QED BY <1>1, LinesInvAlways, PTL
=============================================================================
