--------------------------- MODULE Recovery_proofs ----------------------------
(***************************************************************************)
(* Proofs of the three invariants of Recovery.  The first part is about    *)
(* the layout of the recovery file: what SyncRec's loops write and where   *)
(* the recover program looks for it.  The second is about the steps of the *)
(* editor.                                                                 *)
(***************************************************************************)
EXTENDS Recovery, Loops, SequenceTheorems, FiniteSetTheorems

USE RecoveryAssumption

-----------------------------------------------------------------------------
(* What is written.                                                        *)

Cell == ({"header"} \X Nat) \cup ({"entry"} \X Buffer \X Nat) \cup ({"line"} \X Nat)
Texts == [Buffer -> Seq(Nat)]

EntryOf(t, b) == IF b \in modified THEN <<<<"entry", b, Len(t[b])>>>> ELSE <<>>
PointersOf(t, b) == IF b \in modified THEN [j \in 1..Len(t[b]) |-> <<"line", t[b][j]>>] ELSE <<>>

(* Each turn writes cells.                                                 *)
LEMMA TurnCells ==
  ASSUME NEW t \in Texts, NEW b \in Buffer
  PROVE  EntryOf(t, b) \in Seq(Cell) /\ PointersOf(t, b) \in Seq(Cell)
<1>0. t[b] \in Seq(Nat) /\ Len(t[b]) \in Nat
  BY DEF Texts
<1>1. EntryOf(t, b) \in Seq(Cell)
  <2>1. <<"entry", b, Len(t[b])>> \in Cell
    BY <1>0 DEF Cell
  <2> HIDE DEF Cell
  <2> QED BY <2>1 DEF EntryOf
<1>2. PointersOf(t, b) \in Seq(Cell)
  <2>1. \A j \in 1..Len(t[b]) : <<"line", t[b][j]>> \in Cell
    BY <1>0 DEF Cell
  <2> HIDE DEF Cell
  <2>2. [j \in 1..Len(t[b]) |-> <<"line", t[b][j]>>] \in Seq(Cell)
    BY <2>1, <1>0, IsASeq
  <2> QED BY <2>2 DEF PointersOf
<1> QED BY <1>1, <1>2

(* A loop whose turn for b writes W[b], and that it writes what its turns  *)
(* write, one after the other.                                             *)
Turns(W, f) == [b \in 0..NBuffers |-> IF b = 0 THEN <<>> ELSE f[b - 1] \o W[b]]

WritesEach(f, W) ==
  f \in [0..NBuffers -> Seq(Cell)] /\ f[0] = <<>> /\ \A b \in Buffer : f[b] = f[b - 1] \o W[b]

(* There is such a loop.                                                   *)
LEMMA LoopThere ==
  ASSUME NEW W \in [Buffer -> Seq(Cell)]
  PROVE  \E f : f = Turns(W, f)
<1> DEFINE G == [p \in Buffer \X Seq(Cell) |-> p[2] \o W[p[1]]]
<1>1. \A b \in 1..NBuffers, x \in Seq(Cell) : G[<<b, x>>] = x \o W[b]
  BY DEF Buffer
<1>2. G \in [(1..NBuffers) \X Seq(Cell) -> Seq(Cell)]
  BY ConcatProperties DEF Buffer
<1> HIDE DEF G
<1>3. PICK f \in [0..NBuffers -> Seq(Cell)] : f[0] = <<>> /\ \A b \in 1..NBuffers : f[b] = G[<<b, f[b - 1]>>]
  <2>1. PICK g, S, d : g = G /\ S = Seq(Cell) /\ d = <<>>
    OBVIOUS
  <2>2. NBuffers \in Nat /\ d \in S /\ g \in [(1..NBuffers) \X S -> S]
    BY <1>2, <2>1
  <2>3. \E f : IsLoop(f, NBuffers, S, d, g)
    BY ONLY <2>2, LoopExists
  <2> QED BY <2>1, <2>3 DEF IsLoop
<1>4. ASSUME NEW b \in 0..NBuffers PROVE f[b] = Turns(W, f)[b]
  <2>1. CASE b = 0
    BY <2>1, <1>3 DEF Turns
  <2>2. CASE b # 0
    <3>1. b \in 1..NBuffers /\ f[b - 1] \in Seq(Cell)
      BY <2>2
    <3>2. f[b] = f[b - 1] \o W[b]
      BY <3>1, <1>1, <1>3
    <3> QED BY <3>2, <2>2 DEF Turns
  <2> QED BY <2>1, <2>2
<1>5. f = Turns(W, f)
  BY <1>4 DEF Turns
<1> QED BY <1>5

(* It writes what its turns write.                                         *)
LEMMA LoopWrites ==
  ASSUME NEW W \in [Buffer -> Seq(Cell)], NEW E, E = Turns(W, E)
  PROVE  WritesEach(E, W)
<1>1. E[0] = <<>> /\ \A b \in Buffer : E[b] = E[b - 1] \o W[b]
  <2>1. DOMAIN Turns(W, E) = 0..NBuffers /\ \A b \in 0..NBuffers : Turns(W, E)[b] = IF b = 0 THEN <<>> ELSE E[b - 1] \o W[b]
    BY DEF Turns
  <2>2. \A b \in 0..NBuffers : E[b] = IF b = 0 THEN <<>> ELSE E[b - 1] \o W[b]
    BY <2>1
  <2>3. 0 \in 0..NBuffers /\ \A b \in Buffer : b \in 0..NBuffers /\ b # 0
    BY DEF Buffer
  <2> QED BY <2>2, <2>3
<1> DEFINE T == {b \in 0..NBuffers : E[b] \in Seq(Cell)}
<1>2. 0 \in T
  <2>1. 0 \in 0..NBuffers /\ <<>> \in Seq(Cell)
    OBVIOUS
  <2> QED BY ONLY <1>1, <2>1
<1>3. ASSUME NEW b \in 1..NBuffers, b - 1 \in T PROVE b \in T
  <2>1. b \in Buffer /\ E[b - 1] \in Seq(Cell) /\ W[b] \in Seq(Cell) /\ E[b] = E[b - 1] \o W[b]
    BY <1>3, <1>1 DEF Buffer
  <2>2. E[b] \in Seq(Cell)
    BY <2>1, ConcatProperties
  <2> QED BY <2>2
<1>4. \A b \in 0..NBuffers : E[b] \in Seq(Cell)
  <2> HIDE DEF T
  <2>1. \A b \in 0..NBuffers : b \in T
    BY <1>2, <1>3, EachTurn
  <2> QED BY <2>1 DEF T
<1>5. E = [b \in 0..NBuffers |-> E[b]]
  BY DEF Turns
<1> QED BY <1>1, <1>4, <1>5 DEF WritesEach

(* So does the loop over the buffers.                                      *)
LEMMA EntriesLoop ==
  ASSUME NEW t \in Texts
  PROVE  \E E : WritesEach(E, [b \in Buffer |-> EntryOf(t, b)]) /\ Entries(t) = E[NBuffers]
<1> DEFINE W == [b \in Buffer |-> EntryOf(t, b)]
           Def(h) == [b \in 0..NBuffers |-> IF b = 0 THEN <<>> ELSE h[b - 1] \o EntryOf(t, b)]
           E == CHOOSE h : h = Def(h)
<1>1. \A h : Def(h) = Turns(W, h)
  <2>1. \A b \in 0..NBuffers : b # 0 => W[b] = EntryOf(t, b)
    BY DEF Buffer
  <2> HIDE DEF W
  <2> QED BY <2>1 DEF Turns
<1>2. W \in [Buffer -> Seq(Cell)]
  BY TurnCells
<1>3. Entries(t) = E[NBuffers]
  BY DEF Entries, EntryOf
<1>4. E = Def(E)
  <2>1. PICK f : f = Turns(W, f)
    BY <1>2, LoopThere
  <2>2. \E h : h = Def(h)
    BY <2>1, <1>1
  <2> HIDE DEF Def, W
  <2> QED BY <2>2
<1> HIDE DEF E, W, Def
<1>5. WritesEach(E, W)
  BY <1>1, <1>2, <1>4, LoopWrites
<1> QED BY <1>3, <1>5 DEF W

(* And the loop over their lines.                                          *)
LEMMA PointersLoop ==
  ASSUME NEW t \in Texts
  PROVE  \E P : WritesEach(P, [b \in Buffer |-> PointersOf(t, b)]) /\ Pointers(t) = P[NBuffers]
<1> DEFINE W == [b \in Buffer |-> PointersOf(t, b)]
           Def(h) == [b \in 0..NBuffers |-> IF b = 0 THEN <<>> ELSE h[b - 1] \o PointersOf(t, b)]
           E == CHOOSE h : h = Def(h)
<1>1. \A h : Def(h) = Turns(W, h)
  <2>1. \A b \in 0..NBuffers : b # 0 => W[b] = PointersOf(t, b)
    BY DEF Buffer
  <2> HIDE DEF W
  <2> QED BY <2>1 DEF Turns
<1>2. W \in [Buffer -> Seq(Cell)]
  BY TurnCells
<1>3. Pointers(t) = E[NBuffers]
  BY DEF Pointers, PointersOf
<1>4. E = Def(E)
  <2>1. PICK f : f = Turns(W, f)
    BY <1>2, LoopThere
  <2>2. \E h : h = Def(h)
    BY <2>1, <1>1
  <2> HIDE DEF Def, W
  <2> QED BY <2>2
<1> HIDE DEF E, W, Def
<1>5. WritesEach(E, W)
  BY <1>1, <1>2, <1>4, LoopWrites
<1> QED BY <1>3, <1>5 DEF W

-----------------------------------------------------------------------------
(* Where it is.                                                            *)

(* The entries es are those of the buffers of m up to n, each once, and    *)
(* the addresses of the lines t of the i-th are in ps after the F[i]-th.   *)
Located(t, b, es, ps, F, i) ==
  /\ es[i] = <<"entry", b, Len(t[b])>>
  /\ F[i + 1] = F[i] + Len(t[b])
  /\ F[i + 1] <= Len(ps)
  /\ \A k \in 1..Len(t[b]) : ps[F[i] + k] = <<"line", t[b][k]>>

Laid(m, t, n, es, ps, F) ==
  /\ F \in [1..Len(es) + 1 -> Nat] /\ F[1] = 0 /\ F[Len(es) + 1] = Len(ps)
  /\ \A i \in 1..Len(es) : \E b \in m : b <= n /\ Located(t, b, es, ps, F, i)
  /\ \A j \in 1..Len(ps) : \E b \in m : \E k \in 1..Len(t[b]) : ps[j] = <<"line", t[b][k]>>
  /\ \A b \in m : b <= n => \E i \in 1..Len(es) : es[i][2] = b
  /\ \A i, j \in 1..Len(es) : es[i][2] = es[j][2] => i = j

(* What is written for one buffer more comes behind.                       *)
LEMMA LaidLonger ==
  ASSUME NEW m, NEW t, NEW n \in m, NEW es, NEW ps, NEW es2, NEW ps2,
         Len(es) \in Nat, Len(ps) \in Nat, \A b \in m : b \in Nat /\ Len(t[b]) \in Nat,
         Len(es2) = Len(es) + 1, es2[Len(es) + 1] = <<"entry", n, Len(t[n])>>,
         \A i \in 1..Len(es) : es2[i] = es[i],
         Len(ps2) = Len(ps) + Len(t[n]), \A j \in 1..Len(ps) : ps2[j] = ps[j],
         \A k \in 1..Len(t[n]) : ps2[Len(ps) + k] = <<"line", t[n][k]>>,
         NEW F, Laid(m, t, n - 1, es, ps, F)
  PROVE  \E F2 : Laid(m, t, n, es2, ps2, F2)
<1>0. n \in Nat /\ Len(t[n]) \in Nat
  OBVIOUS
<1>3. /\ F \in [1..Len(es) + 1 -> Nat] /\ F[1] = 0 /\ F[Len(es) + 1] = Len(ps)
      /\ \A i \in 1..Len(es) : \E b \in m : b <= n - 1 /\ Located(t, b, es, ps, F, i)
      /\ \A j \in 1..Len(ps) : \E b \in m : \E k \in 1..Len(t[b]) : ps[j] = <<"line", t[b][k]>>
      /\ \A b \in m : b <= n - 1 => \E i \in 1..Len(es) : es[i][2] = b
      /\ \A i, j \in 1..Len(es) : es[i][2] = es[j][2] => i = j
  BY DEF Laid
<1> DEFINE F2 == [i \in 1..Len(es2) + 1 |-> IF i = Len(es2) + 1 THEN Len(ps2) ELSE F[i]]
<1>4. /\ F2 \in [1..Len(es2) + 1 -> Nat] /\ F2[Len(es2) + 1] = Len(ps2)
      /\ \A i \in 1..Len(es) + 1 : F2[i] = F[i]
  BY <1>0, <1>3
<1> HIDE DEF F2
<1>5. ASSUME NEW i \in 1..Len(es2) PROVE \E b \in m : b <= n /\ Located(t, b, es2, ps2, F2, i)
  <2>1. CASE i = Len(es) + 1
    <3>1. F2[i] = Len(ps) /\ F2[i + 1] = Len(ps) + Len(t[n]) /\ es2[i] = <<"entry", n, Len(t[n])>>
      BY <2>1, <1>0, <1>3, <1>4
    <3>2. \A k \in 1..Len(t[n]) : ps2[F2[i] + k] = <<"line", t[n][k]>>
      BY <3>1
    <3>3. Located(t, n, es2, ps2, F2, i)
      BY <3>1, <3>2, <1>0, SMTT(30) DEF Located
    <3> QED BY <3>3, <1>0
  <2>2. CASE i # Len(es) + 1
    <3>1. i \in 1..Len(es) /\ i \in 1..Len(es) + 1 /\ i + 1 \in 1..Len(es) + 1
      BY <2>2, <1>0
    <3>2. PICK b \in m : b <= n - 1 /\ Located(t, b, es, ps, F, i)
      BY <3>1, <1>3
    <3>3. F2[i] = F[i] /\ F2[i + 1] = F[i + 1] /\ es2[i] = es[i] /\ F[i] \in Nat
      BY <3>1, <1>3, <1>4
    <3>4. F[i + 1] = F[i] + Len(t[b]) /\ F[i + 1] <= Len(ps) /\ Len(t[b]) \in Nat
      BY <3>2, <1>0 DEF Located
    <3>5. \A k \in 1..Len(t[b]) : F[i] + k \in 1..Len(ps)
      <4>1. Len(ps) \in Nat
        OBVIOUS
      <4> QED BY ONLY <3>3, <3>4, <4>1
    <3>6. \A k \in 1..Len(t[b]) : ps2[F2[i] + k] = <<"line", t[b][k]>>
      BY <3>2, <3>3, <3>5 DEF Located
    <3>7. es2[i] = <<"entry", b, Len(t[b])>>
      BY <3>2, <3>3 DEF Located
    <3>8. F2[i + 1] = F2[i] + Len(t[b]) /\ F2[i + 1] <= Len(ps2)
      <4>1. Len(ps) \in Nat /\ Len(ps2) = Len(ps) + Len(t[n])
        OBVIOUS
      <4> QED BY ONLY <3>3, <3>4, <4>1, <1>0
    <3>9. Located(t, b, es2, ps2, F2, i)
      BY <3>6, <3>7, <3>8 DEF Located
    <3>10. b <= n
      <4>1. b \in Nat /\ b <= n - 1
        BY <3>2
      <4> QED BY ONLY <4>1, <1>0
    <3> QED BY <3>9, <3>10
  <2> QED BY <2>1, <2>2
<1>6. ASSUME NEW j \in 1..Len(ps2) PROVE \E b \in m : \E k \in 1..Len(t[b]) : ps2[j] = <<"line", t[b][k]>>
  <2>1. CASE j \in 1..Len(ps)
    <3>1. ps2[j] = ps[j]
      BY <2>1
    <3>2. PICK b \in m : \E k \in 1..Len(t[b]) : ps[j] = <<"line", t[b][k]>>
      BY <2>1, <1>3
    <3> QED BY <3>1, <3>2
  <2>2. CASE j \notin 1..Len(ps)
    <3>1. j - Len(ps) \in 1..Len(t[n]) /\ Len(ps) + (j - Len(ps)) = j
      BY <2>2, <1>0
    <3>2. ps2[j] = <<"line", t[n][j - Len(ps)]>>
      BY <3>1
    <3> QED BY <3>1, <3>2
  <2> QED BY <2>1, <2>2
<1>7. ASSUME NEW b \in m, b <= n PROVE \E i \in 1..Len(es2) : es2[i][2] = b
  <2>1. CASE b = n
    <3>1. Len(es) + 1 \in 1..Len(es2) /\ es2[Len(es) + 1][2] = n
      BY <1>0
    <3> QED BY <3>1, <2>1
  <2>2. CASE b # n
    <3>0. b <= n - 1
      BY <2>2, <1>7, <1>0
    <3>1. PICK i \in 1..Len(es) : es[i][2] = b
      BY <3>0, <1>3
    <3>2. i \in 1..Len(es2) /\ es2[i] = es[i]
      BY <1>0
    <3> QED BY <3>1, <3>2
  <2> QED BY <2>1, <2>2
<1>8. \A i \in 1..Len(es) : es[i][2] \in m /\ es[i][2] <= n - 1
  <2> SUFFICES ASSUME NEW i \in 1..Len(es) PROVE es[i][2] \in m /\ es[i][2] <= n - 1
    OBVIOUS
  <2>1. PICK b \in m : b <= n - 1 /\ Located(t, b, es, ps, F, i)
    BY <1>3
  <2>2. es[i][2] = b
    BY <2>1 DEF Located
  <2> QED BY <2>1, <2>2
<1>9. ASSUME NEW i \in 1..Len(es2), NEW j \in 1..Len(es2), es2[i][2] = es2[j][2] PROVE i = j
  <2>1. \A h \in 1..Len(es2) : \/ h = Len(es) + 1 /\ es2[h][2] = n
                               \/ h \in 1..Len(es) /\ es2[h] = es[h] /\ es2[h][2] # n
    <3> SUFFICES ASSUME NEW h \in 1..Len(es2)
                 PROVE  \/ h = Len(es) + 1 /\ es2[h][2] = n
                        \/ h \in 1..Len(es) /\ es2[h] = es[h] /\ es2[h][2] # n
      OBVIOUS
    <3>1. CASE h = Len(es) + 1
      BY <3>1
    <3>2. CASE h # Len(es) + 1
      <4>1. h \in 1..Len(es)
        BY <3>2, <1>0, SMTT(30)
      <4>2. es2[h] = es[h] /\ es[h][2] \in Nat /\ es[h][2] <= n - 1
        BY <4>1, <1>0, <1>8
      <4> QED BY <4>1, <4>2, <1>0
    <3> QED BY <3>1, <3>2
  <2> QED BY <2>1, <1>3, <1>9
<1>10. F2[1] = 0
  BY <1>0, <1>3, <1>4
<1>11. Laid(m, t, n, es2, ps2, F2)
  BY <1>4, <1>5, <1>6, <1>7, <1>9, <1>10 DEF Laid
<1> QED BY <1>11

(* That is what the turns write.                                           *)
LEMMA LaidBehind ==
  ASSUME NEW m, m \subseteq Buffer, NEW t \in Texts, NEW n \in m,
         NEW es \in Seq(Cell), NEW ps \in Seq(Cell), NEW F, Laid(m, t, n - 1, es, ps, F),
         NEW es2, es2 = es \o <<<<"entry", n, Len(t[n])>>>>,
         NEW ps2, ps2 = ps \o [j \in 1..Len(t[n]) |-> <<"line", t[n][j]>>]
  PROVE  \E F2 : Laid(m, t, n, es2, ps2, F2)
<1>0. /\ n \in Nat /\ t[n] \in Seq(Nat) /\ Len(t[n]) \in Nat /\ Len(es) \in Nat /\ Len(ps) \in Nat
      /\ \A b \in m : b \in Nat /\ t[b] \in Seq(Nat) /\ Len(t[b]) \in Nat
  BY DEF Texts, Buffer
<1>1. /\ Len(es2) = Len(es) + 1 /\ es2[Len(es) + 1] = <<"entry", n, Len(t[n])>>
      /\ \A i \in 1..Len(es) : es2[i] = es[i]
  <2>1. <<"entry", n, Len(t[n])>> \in Cell
    BY <1>0 DEF Cell
  <2> HIDE DEF Cell
  <2> QED BY <2>1, ConcatProperties
<1>2. /\ Len(ps2) = Len(ps) + Len(t[n])
      /\ \A j \in 1..Len(ps) : ps2[j] = ps[j]
      /\ \A k \in 1..Len(t[n]) : ps2[Len(ps) + k] = <<"line", t[n][k]>>
  <2> DEFINE new == [j \in 1..Len(t[n]) |-> <<"line", t[n][j]>>]
  <2>1. \A j \in 1..Len(t[n]) : <<"line", t[n][j]>> \in Cell
    BY <1>0, SMTT(30) DEF Cell
  <2> HIDE DEF Cell
  <2>2. new \in Seq(Cell)
    BY <2>1, <1>0, IsASeq
  <2>3. Len(new) = Len(t[n]) /\ \A k \in 1..Len(t[n]) : new[k] = <<"line", t[n][k]>>
    BY <1>0, SMTT(30)
  <2> HIDE DEF new
  <2>4. ps2 = ps \o new
    BY DEF new
  <2> QED BY <2>2, <2>3, <2>4, ConcatProperties, SMTT(30)
<1> QED BY ONLY <1>0, <1>1, <1>2, n \in m, Laid(m, t, n - 1, es, ps, F), LaidLonger

(* For one that is not modified nothing is written.                        *)
LEMMA LaidAlready ==
  ASSUME NEW m, m \subseteq Buffer, NEW t, NEW n \in Buffer, n \notin m,
         NEW es, NEW ps, NEW F, Laid(m, t, n - 1, es, ps, F)
  PROVE  Laid(m, t, n, es, ps, F)
<1>1. \A b \in m : b \in Int /\ (b <= n <=> b <= n - 1)
  BY DEF Buffer
<1> QED BY <1>1 DEF Laid

(* So the loops lay out what they write.                                   *)
LEMMA LoopsLay ==
  ASSUME NEW t \in Texts, modified \subseteq Buffer
  PROVE  /\ Entries(t) \in Seq(Cell) /\ Pointers(t) \in Seq(Cell)
         /\ \E F : Laid(modified, t, NBuffers, Entries(t), Pointers(t), F)
<1>1. PICK E \in [0..NBuffers -> Seq(Cell)] :
        E[0] = <<>> /\ (\A b \in Buffer : E[b] = E[b - 1] \o EntryOf(t, b)) /\ Entries(t) = E[NBuffers]
  BY EntriesLoop DEF WritesEach
<1>2. PICK P \in [0..NBuffers -> Seq(Cell)] :
        P[0] = <<>> /\ (\A b \in Buffer : P[b] = P[b - 1] \o PointersOf(t, b)) /\ Pointers(t) = P[NBuffers]
  BY PointersLoop DEF WritesEach
<1>3. PICK m : m = modified
  OBVIOUS
<1> DEFINE T == {b \in 0..NBuffers : \E F : Laid(m, t, b, E[b], P[b], F)}
<1>4. 0 \in T
  <2>1. Len(E[0]) = 0 /\ Len(P[0]) = 0 /\ \A b \in m : ~ (b <= 0)
    BY <1>1, <1>2, <1>3 DEF Buffer
  <2> DEFINE F == [i \in 1..1 |-> 0]
  <2>2. F \in [1..0 + 1 -> Nat] /\ F[1] = 0 /\ F[0 + 1] = 0
    OBVIOUS
  <2> HIDE DEF F
  <2>3. Laid(m, t, 0, E[0], P[0], F)
    BY <2>1, <2>2 DEF Laid
  <2> QED BY <2>3
<1>5. ASSUME NEW b \in 1..NBuffers, b - 1 \in T PROVE b \in T
  <2>0. b \in Buffer /\ E[b - 1] \in Seq(Cell) /\ P[b - 1] \in Seq(Cell) /\ m \subseteq Buffer
    BY <1>3 DEF Buffer
  <2>1. PICK F : Laid(m, t, b - 1, E[b - 1], P[b - 1], F)
    BY <1>5
  <2>2. CASE b \in m
    <3>1. /\ E[b] = E[b - 1] \o <<<<"entry", b, Len(t[b])>>>>
          /\ P[b] = P[b - 1] \o [j \in 1..Len(t[b]) |-> <<"line", t[b][j]>>]
      BY <2>0, <2>2, <1>1, <1>2, <1>3 DEF EntryOf, PointersOf
    <3>2. \E F2 : Laid(m, t, b, E[b], P[b], F2)
      BY <2>0, <2>1, <2>2, <3>1, LaidBehind
    <3> QED BY <3>2
  <2>3. CASE b \notin m
    <3>1. E[b] = E[b - 1] /\ P[b] = P[b - 1]
      BY <2>0, <2>3, <1>1, <1>2, <1>3, ConcatEmptySeq DEF EntryOf, PointersOf
    <3>2. Laid(m, t, b, E[b], P[b], F)
      BY <2>0, <2>1, <2>3, <3>1, LaidAlready
    <3> QED BY <3>2
  <2> QED BY <2>2, <2>3
<1>6. NBuffers \in T
  <2> HIDE DEF T
  <2>1. \A b \in 0..NBuffers : b \in T
    BY <1>4, <1>5, EachTurn
  <2> QED BY <2>1
<1> QED BY <1>1, <1>2, <1>3, <1>6

-----------------------------------------------------------------------------
(* What is read.                                                           *)

(* The cells r begin with a header, the entries es and the addresses ps.   *)
Holds(r, es, ps) ==
  /\ Len(r) \in Nat /\ 1 + Len(es) + Len(ps) <= Len(r)
  /\ r[1] = <<"header", Len(es)>>
  /\ \A i \in 1..Len(es) : r[i + 1] = es[i]
  /\ \A j \in 1..Len(ps) : r[1 + Len(es) + j] = ps[j]

(* Then seekto finds the addresses of each buffer.                         *)
LEMMA SeekFinds ==
  ASSUME NEW es, NEW ps, Len(es) \in Nat, Len(ps) \in Nat, Holds(rec, es, ps),
         NEW m, NEW t, \A b \in m : Len(t[b]) \in Nat,
         NEW F, Laid(m, t, NBuffers, es, ps, F)
  PROVE  /\ Count = Len(es) /\ \A i \in 1..Len(es) : Entry(i) = es[i]
         /\ \A i \in 1..Len(es) + 1 : First[i] = 1 + Len(es) + F[i]
<1>1. Count = Len(es)
  BY DEF Holds, Count
<1>2. \A i \in 1..Len(es) : Entry(i) = es[i]
  BY DEF Holds, Entry
<1>3. /\ F \in [1..Len(es) + 1 -> Nat] /\ F[1] = 0
      /\ \A i \in 1..Len(es) : F[i + 1] = F[i] + es[i][3]
  <2>1. F \in [1..Len(es) + 1 -> Nat] /\ F[1] = 0
    BY DEF Laid
  <2>2. ASSUME NEW i \in 1..Len(es) PROVE F[i + 1] = F[i] + es[i][3]
    <3>1. PICK b \in m : Located(t, b, es, ps, F, i)
      BY DEF Laid
    <3> QED BY <3>1 DEF Located
  <2> QED BY <2>1, <2>2
<1> DEFINE Def(h) == [i \in 1..Count + 1 |-> IF i = 1 THEN 1 + Count ELSE h[i - 1] + Entry(i - 1)[3]]
           f == [i \in 1..Len(es) + 1 |-> 1 + Len(es) + F[i]]
<1>4. f = Def(f)
  <2>1. ASSUME NEW i \in 1..Len(es) + 1 PROVE f[i] = Def(f)[i]
    <3>1. CASE i = 1
      BY <3>1, <1>1, <1>3
    <3>2. CASE i # 1
      <4>1. i - 1 \in 1..Len(es) /\ (i - 1) + 1 = i /\ i - 1 \in 1..Len(es) + 1
        BY <3>2
      <4>2. F[i] = F[i - 1] + es[i - 1][3] /\ F[i - 1] \in Nat /\ F[i] \in Nat
        BY <4>1, <1>3
      <4>3. 1 + Len(es) + F[i] = (1 + Len(es) + F[i - 1]) + es[i - 1][3]
        <5>1. Len(es) \in Nat /\ es[i - 1][3] = F[i] - F[i - 1]
          <6>1. PICK b \in m : Located(t, b, es, ps, F, i - 1)
            BY <4>1 DEF Laid
          <6>2. es[i - 1][3] \in Nat
            BY <6>1 DEF Located
          <6> QED BY <4>2, <6>2
        <5> QED BY ONLY <5>1, <4>2
      <4>4. Def(f)[i] = f[i - 1] + Entry(i - 1)[3]
        BY <3>2, <1>1
      <4> QED BY <4>1, <4>3, <4>4, <1>2
    <3> QED BY <3>1, <3>2
  <2> QED BY <2>1, <1>1
<1>5. First = Def(First)
  <2>1. \E h : h = Def(h)
    BY <1>4
  <2>2. First = CHOOSE h : h = Def(h)
    BY DEF First
  <2> HIDE DEF Def
  <2> QED BY <2>1, <2>2
<1>6. First[1] = 1 + Len(es) /\ \A i \in 1..Len(es) : First[i + 1] = First[i] + es[i][3]
  <2>1. \A i \in 1..Len(es) + 1 : Def(First)[i] = IF i = 1 THEN 1 + Len(es) ELSE First[i - 1] + Entry(i - 1)[3]
    BY <1>1
  <2> HIDE DEF Def
  <2>2. \A i \in 1..Len(es) + 1 : First[i] = IF i = 1 THEN 1 + Len(es) ELSE First[i - 1] + Entry(i - 1)[3]
    BY <2>1, <1>5
  <2>3. 1 \in 1..Len(es) + 1 /\ \A i \in 1..Len(es) : i + 1 \in 1..Len(es) + 1 /\ i + 1 # 1 /\ (i + 1) - 1 = i
    OBVIOUS
  <2> QED BY <2>2, <2>3, <1>2
<1> DEFINE T == {i \in 0..Len(es) : First[i + 1] = 1 + Len(es) + F[i + 1]}
<1>7. 0 \in T
  BY <1>3, <1>6
<1>8. ASSUME NEW i \in 1..Len(es), i - 1 \in T PROVE i \in T
  <2>1. First[i] = 1 + Len(es) + F[i]
    BY <1>8
  <2>2. First[i + 1] = First[i] + es[i][3] /\ F[i + 1] = F[i] + es[i][3] /\ F[i] \in Nat /\ F[i + 1] \in Nat
    BY <1>3, <1>6
  <2>3. es[i][3] \in Nat
    <3>1. PICK b \in m : Located(t, b, es, ps, F, i)
      BY DEF Laid
    <3> QED BY <3>1 DEF Located
  <2>4. First[i + 1] = 1 + Len(es) + F[i + 1]
    <3>1. Len(es) \in Nat
      OBVIOUS
    <3> QED BY ONLY <2>1, <2>2, <2>3, <3>1
  <2> QED BY <2>4
<1>9. ASSUME NEW i \in 1..Len(es) + 1 PROVE First[i] = 1 + Len(es) + F[i]
  <2> HIDE DEF T
  <2>1. \A j \in 0..Len(es) : j \in T
    BY <1>7, <1>8, EachTurn
  <2>2. i - 1 \in 0..Len(es) /\ (i - 1) + 1 = i
    OBVIOUS
  <2> QED BY <2>1, <2>2 DEF T
<1> QED BY <1>1, <1>2, <1>9

TextsOf(m, t) == [b \in m |-> [k \in 1..Len(t[b]) |-> saved[t[b][k]]]]

(* And the recover program gets the lines of every buffer there is.        *)
LEMMA ReadsAll ==
  ASSUME NEW es, NEW ps, Len(es) \in Nat, Len(ps) \in Nat, Holds(rec, es, ps),
         NEW m, m \subseteq Buffer, NEW t, \A b \in m : Len(t[b]) \in Nat,
         NEW F, Laid(m, t, NBuffers, es, ps, F),
         \A b \in m : \A k \in 1..Len(t[b]) : t[b][k] \in durable
  PROVE  /\ Whole /\ rec # <<>>
         /\ files => RecoverAll = TextsOf(m, t)
<1>1. /\ Count = Len(es) /\ \A i \in 1..Len(es) : Entry(i) = es[i]
      /\ \A i \in 1..Len(es) + 1 : First[i] = 1 + Len(es) + F[i]
  BY SeekFinds, ZenonT(60)
<1>2. /\ F \in [1..Len(es) + 1 -> Nat] /\ F[Len(es) + 1] = Len(ps)
      /\ \A i \in 1..Len(es) : \E b \in m : b <= NBuffers /\ Located(t, b, es, ps, F, i)
      /\ \A j \in 1..Len(ps) : \E b \in m : \E k \in 1..Len(t[b]) : ps[j] = <<"line", t[b][k]>>
      /\ \A b \in m : b <= NBuffers => \E i \in 1..Len(es) : es[i][2] = b
      /\ \A i, j \in 1..Len(es) : es[i][2] = es[j][2] => i = j
  BY DEF Laid
<1>3. /\ Len(rec) \in Nat /\ 1 + Len(es) + Len(ps) <= Len(rec)
      /\ \A j \in 1..Len(ps) : rec[1 + Len(es) + j] = ps[j]
  BY DEF Holds
<1>4. First[Count + 1] = 1 + Len(es) + Len(ps)
  <2>1. Len(es) + 1 \in 1..Len(es) + 1
    OBVIOUS
  <2> QED BY <2>1, <1>1, <1>2
<1>5. Whole
  <2>1. Len(rec) > Count
    BY <1>1, <1>3
  <2>2. \A i \in 1..Count : Entry(i)[1] = "entry"
    <3> SUFFICES ASSUME NEW i \in 1..Len(es) PROVE es[i][1] = "entry"
      BY <1>1
    <3>1. PICK b \in m : Located(t, b, es, ps, F, i)
      BY <1>2
    <3> QED BY <3>1 DEF Located
  <2>3. First[Count + 1] <= Len(rec)
    BY <1>3, <1>4
  <2>4. ASSUME NEW k \in (Count + 2)..First[Count + 1] PROVE rec[k][1] = "line" /\ rec[k][2] \in durable
    <3>1. k - 1 - Len(es) \in 1..Len(ps) /\ 1 + Len(es) + (k - 1 - Len(es)) = k
      BY <1>1, <1>4
    <3>2. rec[k] = ps[k - 1 - Len(es)]
      BY <3>1, <1>3
    <3>3. PICK b \in m : \E h \in 1..Len(t[b]) : ps[k - 1 - Len(es)] = <<"line", t[b][h]>>
      BY <3>1, <1>2
    <3> QED BY <3>2, <3>3
  <2> QED BY <2>1, <2>2, <2>3, <2>4 DEF Whole
<1>6. rec # <<>>
  <2>1. Len(rec) > 0
    BY <1>3
  <2> QED BY <2>1
<1>7. Listed = m
  <2>1. ASSUME NEW b \in m PROVE b \in Listed
    <3>1. b \in Buffer /\ b <= NBuffers
      BY DEF Buffer
    <3>2. PICK i \in 1..Len(es) : es[i][2] = b
      BY <3>1, <1>2
    <3> QED BY <3>1, <3>2, <1>1 DEF Listed
  <2>2. ASSUME NEW b \in Listed PROVE b \in m
    <3>1. PICK i \in 1..Len(es) : es[i][2] = b
      BY <1>1 DEF Listed
    <3>2. PICK c \in m : Located(t, c, es, ps, F, i)
      BY <1>2
    <3> QED BY <3>1, <3>2 DEF Located
  <2> QED BY <2>1, <2>2
<1>8. ASSUME NEW b \in m PROVE Recover(b) = [k \in 1..Len(t[b]) |-> saved[t[b][k]]]
  <2>1. b <= NBuffers
    BY DEF Buffer
  <2>2. PICK i \in 1..Len(es) : es[i][2] = b
    BY <2>1, <1>2
  <2>3. i = CHOOSE j \in 1..Count : Entry(j)[2] = b
    <3>1. i \in 1..Count /\ Entry(i)[2] = b /\ \A j \in 1..Count : Entry(j)[2] = b => j = i
      BY <2>2, <1>1, <1>2
    <3> QED BY <3>1
  <2>4. PICK c \in m : Located(t, c, es, ps, F, i)
    BY <1>2
  <2>5. Located(t, b, es, ps, F, i)
    <3>1. c = b
      BY <2>2, <2>4 DEF Located
    <3> QED BY <3>1, <2>4
  <2>6. Entry(i)[3] = Len(t[b]) /\ First[i] = 1 + Len(es) + F[i]
    BY <2>5, <1>1 DEF Located
  <2>7. ASSUME NEW k \in 1..Len(t[b]) PROVE rec[First[i] + k][2] = t[b][k]
    <3>1. F[i] \in Nat /\ F[i] + Len(t[b]) <= Len(ps) /\ Len(t[b]) \in Nat /\ ps[F[i] + k] = <<"line", t[b][k]>>
      <4>1. i \in 1..Len(es) + 1 /\ Len(t[b]) \in Nat
        OBVIOUS
      <4>2. F[i] \in Nat
        BY <4>1, <1>2, ZenonT(60)
      <4>3. F[i + 1] = F[i] + Len(t[b]) /\ F[i + 1] <= Len(ps) /\ ps[F[i] + k] = <<"line", t[b][k]>>
        BY <2>5 DEF Located
      <4> QED BY <4>1, <4>2, <4>3
    <3>2. F[i] + k \in 1..Len(ps) /\ First[i] + k = 1 + Len(es) + (F[i] + k)
      <4>1. Len(ps) \in Nat /\ Len(es) \in Nat
        OBVIOUS
      <4> QED BY ONLY <3>1, <4>1, <2>6, k \in 1..Len(t[b]), SMTT(30)
    <3>3. rec[First[i] + k] = ps[F[i] + k]
      BY <3>2, <1>3
    <3> QED BY <3>1, <3>3
  <2>8. Recover(b) = [k \in 1..Entry(i)[3] |-> saved[rec[First[i] + k][2]]]
    BY <2>3 DEF Recover
  <2> QED BY <2>6, <2>7, <2>8
<1>9. files => RecoverAll = TextsOf(m, t)
  <2> HIDE DEF Recover
  <2>1. files => RecoverAll = [b \in m |-> Recover(b)]
    BY <1>6, <1>7 DEF RecoverAll
  <2> QED BY <2>1, <1>8 DEF TextsOf
<1> QED BY <1>5, <1>6, <1>9

-----------------------------------------------------------------------------
(* The invariant.                                                          *)

(* The store only grows, and every line of a buffer is in it.              *)
Basic ==
  /\ \E n \in Nat \ {0} : DOMAIN saved = 1..n
  /\ durable \subseteq DOMAIN saved
  /\ text \in [Buffer -> Seq(DOMAIN saved)]
  /\ dot \in [Buffer -> Nat] /\ \A b \in Buffer : dot[b] \in 1..Len(text[b])
  /\ modified \subseteq Buffer /\ curbuf \in Buffer /\ DOLsave \in BOOLEAN
  /\ ModCount \in Nat /\ edits \in [Buffer -> Nat]
  /\ rec \in Seq(Cell) /\ image \in Seq(Cell) /\ at \in Nat
  /\ pc \in {"edit", "sync", "fsync", "bye", "dead"}

(* A linebuf that need not be saved is what the store has.                 *)
Current == ~DOLsave => saved[text[curbuf][dot[curbuf]]] = linebuf

(* What is being written is laid out for the buffers as they are, all of   *)
(* whose lines are durable, and the file begins with what has been written.*)
ImageLaid ==
  \E es \in Seq(Cell), ps \in Seq(Cell) : \E F :
    /\ Laid(modified, text, NBuffers, es, ps, F)
    /\ Holds(image, es, ps) /\ Len(image) = 1 + Len(es) + Len(ps)

Syncing ==
  pc \in {"sync", "fsync"} =>
    /\ ~rec_err /\ ~DOLsave /\ durable = DOMAIN saved /\ modified # {}
    /\ at < Len(image) /\ at <= Len(rec) /\ \A i \in 1..at : rec[i] = image[i]
    /\ ImageLaid

(* What has been written is laid out for texts whose lines are durable,    *)
(* and they are what the file is to give.                                  *)
Snapped ==
  \E m \in SUBSET Buffer : \E t : \E es \in Seq(Cell), ps \in Seq(Cell) : \E F :
    /\ \A b \in m : t[b] \in Seq(durable)
    /\ Laid(m, t, NBuffers, es, ps, F) /\ Holds(rec, es, ps)
    /\ snap = TextsOf(m, t)

Snapshot == ~rec_err /\ at = Len(image) /\ rec # <<>> => Snapped

(* Unless a sync is due, no buffer is further ahead of the last one than   *)
(* the counter says.                                                       *)
Counted == ModCount >= SyncFreq \/ \A b \in Buffer : edits[b] <= ModCount

(* A buffer that is not modified is not ahead at all.                      *)
Counts ==
  /\ ~failed => ~rec_err
  /\ \A b \in Buffer \ modified : edits[b] = 0
  /\ pc = "edit" /\ ~failed => Counted
  /\ pc # "dead" => files

(* One that is modified and not ahead is in the recovery file as it is.    *)
Fresh ==
  pc = "edit" /\ ~failed =>
    /\ at = Len(image)
    /\ \A b \in modified : edits[b] = 0 => rec # <<>> /\ b \in DOMAIN snap /\ snap[b] = Contents(b)

(* And all are when finish has synced.                                     *)
Farewell ==
  pc \in {"bye", "dead"} /\ modified # {} /\ ~failed /\ ~twice =>
    files /\ at = Len(image) /\ rec # <<>> /\ snap = [b \in modified |-> Contents(b)]

IInv == Basic /\ Current /\ Syncing /\ Snapshot /\ Counts /\ Fresh /\ Farewell

(* A key is awaited only when no sync is due.                              *)
Awaited == key => pc = "edit" /\ ModCount < SyncFreq

(* It says what the three properties say.                                  *)
LEMMA SnapshotRead ==
  ASSUME Basic, Snapped, files
  PROVE  Whole /\ RecoverAll = snap /\ rec # <<>>
<1>1. PICK m \in SUBSET Buffer : \E t : \E es \in Seq(Cell), ps \in Seq(Cell) : \E F :
        /\ \A b \in m : t[b] \in Seq(durable)
        /\ Laid(m, t, NBuffers, es, ps, F) /\ Holds(rec, es, ps)
        /\ snap = TextsOf(m, t)
  BY DEF Snapped
<1>2. PICK t : \E es \in Seq(Cell), ps \in Seq(Cell) : \E F :
        /\ \A b \in m : t[b] \in Seq(durable)
        /\ Laid(m, t, NBuffers, es, ps, F) /\ Holds(rec, es, ps)
        /\ snap = TextsOf(m, t)
  BY <1>1
<1>3. PICK es \in Seq(Cell), ps \in Seq(Cell) : \E F :
        /\ \A b \in m : t[b] \in Seq(durable)
        /\ Laid(m, t, NBuffers, es, ps, F) /\ Holds(rec, es, ps)
        /\ snap = TextsOf(m, t)
  BY <1>2
<1>4. PICK F :
        /\ \A b \in m : t[b] \in Seq(durable)
        /\ Laid(m, t, NBuffers, es, ps, F) /\ Holds(rec, es, ps)
        /\ snap = TextsOf(m, t)
  BY <1>3
<1>5. /\ m \subseteq Buffer /\ Len(es) \in Nat /\ Len(ps) \in Nat
      /\ \A b \in m : Len(t[b]) \in Nat
      /\ \A b \in m : \A k \in 1..Len(t[b]) : t[b][k] \in durable
  BY <1>4
<1>6. /\ Whole /\ rec # <<>>
      /\ files => RecoverAll = TextsOf(m, t)
  <2>1. Laid(m, t, NBuffers, es, ps, F) /\ Holds(rec, es, ps)
    BY <1>4
  <2> HIDE DEF Whole, RecoverAll
  <2> QED BY ONLY <2>1, <1>5, ReadsAll
<1> QED BY <1>4, <1>6

(* The invariant implies the properties.                                   *)
LEMMA IInvImplies ==
  ASSUME IInv, Awaited
  PROVE  RecoversSnapshot /\ FewLost /\ SignalLosesNothing
<1>1. ~rec_err /\ at = Len(image) /\ files /\ rec # <<>> => Whole /\ RecoverAll = snap
  BY SnapshotRead DEF IInv, Snapshot
<1>2. RecoversSnapshot
  BY <1>1 DEF RecoversSnapshot
<1>3. FewLost
  <2> SUFFICES ASSUME key, ~failed, NEW b \in modified
               PROVE  edits[b] < SyncFreq /\ (edits[b] = 0 => b \in DOMAIN RecoverAll /\ RecoverAll[b] = Contents(b))
    BY DEF FewLost
  <2>0. pc = "edit" /\ ModCount < SyncFreq
    BY DEF Awaited
  <2>1. b \in Buffer /\ ModCount \in Nat /\ edits[b] \in Nat /\ edits[b] <= ModCount
    BY <2>0 DEF IInv, Basic, Counts, Counted
  <2>2. edits[b] < SyncFreq
    BY <2>0, <2>1
  <2>3. ~rec_err /\ files /\ at = Len(image) /\ (edits[b] = 0 => rec # <<>> /\ b \in DOMAIN snap /\ snap[b] = Contents(b))
    BY <2>0 DEF IInv, Counts, Fresh
  <2> QED BY <2>2, <2>3, <1>1
<1>4. SignalLosesNothing
  <2> SUFFICES ASSUME pc = "dead", modified # {}, ~failed, ~twice
               PROVE  Whole /\ RecoverAll = [b \in modified |-> Contents(b)]
    BY DEF SignalLosesNothing
  <2>1. ~rec_err /\ files /\ at = Len(image) /\ rec # <<>> /\ snap = [b \in modified |-> Contents(b)]
    BY DEF IInv, Counts, Farewell
  <2> QED BY <2>1, <1>1
<1> QED BY <1>2, <1>3, <1>4

(* It holds at first.                                                      *)
LEMMA InitIInv == Init => IInv /\ Awaited
<1> SUFFICES ASSUME Init PROVE IInv /\ Awaited
  OBVIOUS
<1>1. Basic
  <2>1. DOMAIN saved = 1..1 /\ 1 \in Nat \ {0}
    BY DEF Init
  <2>2. <<1>> \in Seq(DOMAIN saved) /\ 1 \in 1..Len(<<1>>)
    BY <2>1
  <2>3. text \in [Buffer -> Seq(DOMAIN saved)] /\ \A b \in Buffer : text[b] = <<1>> /\ dot[b] = 1
    BY <2>2 DEF Init
  <2>4. dot \in [Buffer -> Nat] /\ \A b \in Buffer : dot[b] \in 1..Len(text[b])
    BY <2>2, <2>3 DEF Init
  <2>5. modified \subseteq Buffer /\ curbuf \in Buffer /\ DOLsave \in BOOLEAN /\ ModCount \in Nat
    <3>1. 1 \in 1..NBuffers
      OBVIOUS
    <3> QED BY <3>1 DEF Init, Buffer
  <2>6. rec \in Seq(Cell) /\ image \in Seq(Cell) /\ at \in Nat
    BY DEF Init
  <2>7. edits \in [Buffer -> Nat] /\ durable \subseteq DOMAIN saved /\ pc \in {"edit", "sync", "fsync", "bye", "dead"}
    BY DEF Init
  <2> QED BY <2>1, <2>3, <2>4, <2>5, <2>6, <2>7 DEF Basic
<1>2. Current
  <2>1. curbuf \in Buffer
    BY DEF Init, Buffer
  <2> QED BY <2>1 DEF Init, Current
<1>3. Syncing /\ Snapshot /\ Farewell
  BY DEF Init, Syncing, Snapshot, Farewell
<1>4. Counts
  BY DEF Init, Counts, Counted
<1>5. Fresh /\ Awaited
  BY DEF Init, Fresh, Awaited
<1> QED BY <1>1, <1>2, <1>3, <1>4, <1>5 DEF IInv

-----------------------------------------------------------------------------
(* Putting lines into the store.                                           *)

(* A line is put behind those there are, which stay what they are.         *)
LEMMA PutLast ==
  ASSUME NEW st, NEW n \in Nat, DOMAIN st = 1..n, NEW l
  PROVE  /\ Cardinality(DOMAIN st) = n
         /\ DOMAIN Put(st, l) = 1..n + 1 /\ Put(st, l)[n + 1] = l
         /\ \A a \in 1..n : Put(st, l)[a] = st[a]
<1>1. Cardinality(1..n) = n
  <2>1. Cardinality(1..n) = IF 1 > n THEN 0 ELSE n - 1 + 1
    BY FS_Interval
  <2> QED BY <2>1
<1>2. (1..n) \cup {n + 1} = 1..n + 1
  OBVIOUS
<1> QED BY <1>1, <1>2 DEF Put

Extended ==
  /\ \E n \in Nat \ {0} : DOMAIN saved' = 1..n
  /\ \A a \in DOMAIN saved : a \in DOMAIN saved' /\ saved'[a] = saved[a]

TextAt(b, k) == IF b = curbuf /\ k = dot[b] THEN linebuf ELSE saved[text[b][k]]

Stored ==
  /\ text' \in [Buffer -> Seq(DOMAIN saved')]
  /\ \A b \in Buffer : /\ Len(text'[b]) = Len(text[b])
                       /\ \A k \in 1..Len(text[b]) : saved'[text'[b][k]] = TextAt(b, k)

(* lsave puts the line that is being edited into the store, and changes    *)
(* no text.                                                                *)
LEMMA LsaveStores ==
  ASSUME Basic, Current, Lsave
  PROVE  Extended /\ Stored /\ DOLsave' = FALSE
<1>0. /\ saved' = AfterLsave.saved /\ text' = AfterLsave.text /\ DOLsave' = FALSE
      /\ text \in [Buffer -> Seq(DOMAIN saved)] /\ curbuf \in Buffer /\ dot[curbuf] \in 1..Len(text[curbuf])
  BY DEF Lsave, Basic
<1>1. PICK n \in Nat \ {0} : DOMAIN saved = 1..n
  BY DEF Basic
<1>2. CASE Unsaved
  <2>1. saved' = Put(saved, linebuf) /\ text' = [text EXCEPT ![curbuf][dot[curbuf]] = NextAddr]
    BY <1>0, <1>2 DEF AfterLsave
  <2>2. /\ NextAddr = n + 1
        /\ DOMAIN saved' = 1..n + 1 /\ saved'[n + 1] = linebuf /\ \A a \in 1..n : saved'[a] = saved[a]
    BY <2>1, <1>1, PutLast DEF NextAddr
  <2>3. Extended
    <3>1. n + 1 \in Nat \ {0} /\ \A a \in 1..n : a \in 1..n + 1
      OBVIOUS
    <3> QED BY <2>2, <3>1, <1>1 DEF Extended
  <2>4. text'[curbuf] = [text[curbuf] EXCEPT ![dot[curbuf]] = n + 1] /\ \A b \in Buffer : b # curbuf => text'[b] = text[b]
    BY <2>1, <2>2, <1>0
  <2>5. ASSUME NEW b \in Buffer
        PROVE  /\ text'[b] \in Seq(DOMAIN saved') /\ Len(text'[b]) = Len(text[b])
               /\ \A k \in 1..Len(text[b]) : saved'[text'[b][k]] = TextAt(b, k)
    <3>1. text[b] \in Seq(1..n) /\ Len(text[b]) \in Nat /\ \A k \in 1..Len(text[b]) : text[b][k] \in 1..n /\ text[b][k] \in 1..n + 1
      BY <1>0, <1>1
    <3>2. CASE b = curbuf
      <4>1. DOMAIN text'[b] = 1..Len(text[b]) /\ text'[b] = [k \in 1..Len(text[b]) |-> IF k = dot[b] THEN n + 1 ELSE text[b][k]]
        BY <2>4, <3>1, <3>2
      <4>2. \A k \in 1..Len(text[b]) : text'[b][k] = IF k = dot[b] THEN n + 1 ELSE text[b][k]
        BY <4>1
      <4>3. \A k \in 1..Len(text[b]) : text'[b][k] \in 1..n + 1
        BY <4>2, <3>1
      <4>4. text'[b] \in Seq(1..n + 1)
        BY <4>1, <4>3, <3>1, IsASeq
      <4>5. Len(text'[b]) = Len(text[b])
        BY <4>1, <4>4, <3>1
      <4> QED BY <4>2, <4>4, <4>5, <3>1, <3>2, <2>2, SMTT(30) DEF TextAt
    <3>3. CASE b # curbuf
      <4>1. text'[b] = text[b]
        BY <2>4, <3>3
      <4>2. text[b] \in Seq(1..n + 1)
        BY <3>1, IsASeq, text[b] = [k \in 1..Len(text[b]) |-> text[b][k]]
      <4> QED BY <4>1, <4>2, <3>1, <3>3, <2>2 DEF TextAt
    <3> QED BY <3>2, <3>3
  <2>6. Stored
    <3>1. text' = [b \in Buffer |-> text'[b]]
      BY <2>1, <1>0
    <3> QED BY <2>5, <3>1 DEF Stored
  <2> QED BY <2>3, <2>6, <1>0
<1>3. CASE ~Unsaved
  <2>1. saved' = saved /\ text' = text
    BY <1>0, <1>3 DEF AfterLsave
  <2>2. saved[text[curbuf][dot[curbuf]]] = linebuf
    BY <1>3 DEF Unsaved, Current, Basic
  <2>3. Extended
    BY <2>1, <1>1 DEF Extended
  <2>4. Stored
    BY <2>1, <2>2, <1>0 DEF Stored, TextAt
  <2> QED BY <2>3, <2>4, <1>0
<1> QED BY <1>2, <1>3

(* What the file gives stays what it gives.                                *)
LEMMA SnappedKept ==
  ASSUME Basic, Snapped, \A a \in durable : a \in durable' /\ saved'[a] = saved[a], rec' = rec, snap' = snap
  PROVE  Snapped'
<1>1. PICK m \in SUBSET Buffer : \E t : \E es \in Seq(Cell), ps \in Seq(Cell) : \E F :
        /\ \A b \in m : t[b] \in Seq(durable)
        /\ Laid(m, t, NBuffers, es, ps, F) /\ Holds(rec, es, ps)
        /\ snap = TextsOf(m, t)
  BY DEF Snapped
<1>2. PICK t : \E es \in Seq(Cell), ps \in Seq(Cell) : \E F :
        /\ \A b \in m : t[b] \in Seq(durable)
        /\ Laid(m, t, NBuffers, es, ps, F) /\ Holds(rec, es, ps)
        /\ snap = TextsOf(m, t)
  BY <1>1
<1>3. PICK es \in Seq(Cell), ps \in Seq(Cell) : \E F :
        /\ \A b \in m : t[b] \in Seq(durable)
        /\ Laid(m, t, NBuffers, es, ps, F) /\ Holds(rec, es, ps)
        /\ snap = TextsOf(m, t)
  BY <1>2
<1>4. PICK F :
        /\ \A b \in m : t[b] \in Seq(durable)
        /\ Laid(m, t, NBuffers, es, ps, F) /\ Holds(rec, es, ps)
        /\ snap = TextsOf(m, t)
  BY <1>3
<1>5. ASSUME NEW b \in m
      PROVE  t[b] \in Seq(durable') /\ \A k \in 1..Len(t[b]) : saved'[t[b][k]] = saved[t[b][k]]
  <2>1. t[b] \in Seq(durable)
    BY <1>4
  <2>2. Len(t[b]) \in Nat /\ t[b] = [k \in 1..Len(t[b]) |-> t[b][k]] /\ \A k \in 1..Len(t[b]) : t[b][k] \in durable
    BY <2>1
  <2>3. \A k \in 1..Len(t[b]) : t[b][k] \in durable' /\ saved'[t[b][k]] = saved[t[b][k]]
    BY <2>2
  <2>4. t[b] \in Seq(durable')
    BY <2>2, <2>3, IsASeq
  <2> QED BY <2>3, <2>4
<1>6. TextsOf(m, t)' = TextsOf(m, t)
  BY <1>5 DEF TextsOf
<1>7. Holds(rec, es, ps)' = Holds(rec, es, ps)
  BY DEF Holds
<1> QED BY <1>4, <1>5, <1>6, <1>7 DEF Snapped

(* SyncRec is about to write what is laid out for the lines there are.     *)
LEMMA SyncLays ==
  ASSUME Basic, Stored, Extended, text' = AfterLsave.text, image' = Image, modified' = modified
  PROVE  ImageLaid' /\ image' \in Seq(Cell) /\ Len(image') > 0
<1>1. PICK t : t = AfterLsave.text
  OBVIOUS
<1>2. t \in Texts
  <2>1. t = [b \in Buffer |-> t[b]] /\ \A b \in Buffer : t[b] \in Seq(DOMAIN saved')
    BY <1>1 DEF Stored
  <2>2. PICK n \in Nat \ {0} : DOMAIN saved' = 1..n
    BY DEF Extended
  <2>3. ASSUME NEW b \in Buffer PROVE t[b] \in Seq(Nat)
    <3>1. PICK x \in Seq(1..n) : x = t[b]
      BY <2>1, <2>2
    <3>2. Len(x) \in Nat /\ x = [k \in 1..Len(x) |-> x[k]] /\ \A k \in 1..Len(x) : x[k] \in Nat
      OBVIOUS
    <3>3. [k \in 1..Len(x) |-> x[k]] \in Seq(Nat)
      BY <3>2, IsASeq
    <3> QED BY <3>1, <3>2, <3>3
  <2> QED BY <2>1, <2>3 DEF Texts
<1>3. /\ Entries(t) \in Seq(Cell) /\ Pointers(t) \in Seq(Cell)
      /\ \E F : Laid(modified, t, NBuffers, Entries(t), Pointers(t), F)
  BY <1>2, LoopsLay DEF Basic
<1>4. PICK es \in Seq(Cell), ps \in Seq(Cell) : es = Entries(t) /\ ps = Pointers(t)
  BY <1>3
<1>5. PICK F : Laid(modified, t, NBuffers, es, ps, F)
  BY <1>3, <1>4
<1>6. image' = <<<<"header", Len(es)>>>> \o es \o ps
  BY <1>1, <1>4 DEF Image, ImageOf
<1>7. image' \in Seq(Cell) /\ Len(image') = 1 + Len(es) + Len(ps) /\ Holds(image, es, ps)'
  <2>1. <<"header", Len(es)>> \in Cell
    BY DEF Cell
  <2> HIDE DEF Cell
  <2> DEFINE h == <<<<"header", Len(es)>>>>
  <2>2. h \in Seq(Cell) /\ Len(h) = 1 /\ h[1] = <<"header", Len(es)>>
    BY <2>1
  <2> HIDE DEF h
  <2>3. h \o es \in Seq(Cell) /\ Len(h \o es) = 1 + Len(es) /\ (h \o es)[1] = <<"header", Len(es)>> /\ \A i \in 1..Len(es) : (h \o es)[i + 1] = es[i]
    <3>1. PICK r \in Seq(Cell) : r = h \o es /\ Len(r) = Len(h) + Len(es)
      BY <2>2, ConcatProperties
    <3>2. (\A i \in 1..Len(h) : r[i] = h[i]) /\ \A i \in 1..Len(es) : r[Len(h) + i] = es[i]
      BY <2>2, <3>1, ConcatProperties
    <3>3. Len(r) = 1 + Len(es) /\ r[1] = <<"header", Len(es)>> /\ \A i \in 1..Len(es) : r[1 + i] = es[i]
      BY ONLY <2>2, <3>1, <3>2
    <3>4. \A i \in 1..Len(es) : i + 1 = 1 + i
      OBVIOUS
    <3> QED BY <3>1, <3>3, <3>4
  <2>4. PICK g \in Seq(Cell) : g = h \o es
    BY <2>3
  <2>5. image' = g \o ps
    BY <2>4, <1>6 DEF h
  <2>6. /\ image' \in Seq(Cell) /\ Len(image') = Len(g) + Len(ps)
        /\ \A i \in 1..Len(g) : image'[i] = g[i]
        /\ \A j \in 1..Len(ps) : image'[Len(g) + j] = ps[j]
    BY <2>5, ConcatProperties
  <2>7. Len(g) = 1 + Len(es) /\ g[1] = <<"header", Len(es)>> /\ \A i \in 1..Len(es) : g[i + 1] = es[i]
    BY <2>3, <2>4
  <2>8. 1 \in 1..Len(g) /\ \A i \in 1..Len(es) : i + 1 \in 1..Len(g)
    BY <2>7
  <2>9. image'[1] = <<"header", Len(es)>> /\ \A i \in 1..Len(es) : image'[i + 1] = es[i]
    BY <2>6, <2>7, <2>8
  <2>10. Len(image') = 1 + Len(es) + Len(ps)
    BY <2>6, <2>7
  <2> QED BY <2>6, <2>7, <2>9, <2>10 DEF Holds
<1>8. ImageLaid'
  <2>1. Laid(modified', text', NBuffers, es, ps, F)
    BY <1>1, <1>5
  <2> QED BY <2>1, <1>7 DEF ImageLaid
<1>9. Len(image') > 0
  BY <1>7
<1> QED BY <1>7, <1>8, <1>9

-----------------------------------------------------------------------------
(* The steps, by where they lead.                                          *)

(* Storing a line does not disturb what the variables are.                 *)
LEMMA LsaveBasic ==
  ASSUME Basic, Extended, Stored, durable' \subseteq DOMAIN saved', DOLsave' = FALSE,
         dot' \in [Buffer -> Nat], \A b \in Buffer : dot'[b] \in 1..Len(text[b]),
         modified' \subseteq Buffer, curbuf' \in Buffer, ModCount' \in Nat, edits' \in [Buffer -> Nat],
         rec' \in Seq(Cell), image' \in Seq(Cell), at' \in Nat, pc' \in {"edit", "sync", "fsync", "bye", "dead"}
  PROVE  Basic'
<1>1. text' \in [Buffer -> Seq(DOMAIN saved')] /\ \A b \in Buffer : Len(text'[b]) = Len(text[b])
  BY DEF Stored
<1>2. \A b \in Buffer : dot'[b] \in 1..Len(text'[b])
  BY <1>1
<1>3. \E n \in Nat \ {0} : DOMAIN saved' = 1..n
  BY DEF Extended
<1>4. DOLsave' \in BOOLEAN
  OBVIOUS
<1> HIDE DEF Cell
<1> QED BY <1>1, <1>2, <1>3, <1>4 DEF Basic

(* Nor what the buffers contain, whichever line becomes the current one.   *)
LEMMA LsaveContents ==
  ASSUME Stored, linebuf' = saved'[text'[curbuf'][dot'[curbuf']]]
  PROVE  Current' /\ \A b \in Buffer : Contents(b)' = Contents(b)
<1>1. Current'
  BY DEF Current
<1>2. ASSUME NEW b \in Buffer PROVE Contents(b)' = Contents(b)
  <2>1. Contents(b) = [k \in 1..Len(text[b]) |-> TextAt(b, k)]
    BY DEF Contents, TextAt
  <2>2. Contents(b)' = [k \in 1..Len(text'[b]) |-> IF b = curbuf' /\ k = dot'[b] THEN linebuf' ELSE saved'[text'[b][k]]]
    BY DEF Contents
  <2>3. Len(text'[b]) = Len(text[b]) /\ \A k \in 1..Len(text[b]) : saved'[text'[b][k]] = TextAt(b, k)
    BY DEF Stored
  <2>4. \A k \in 1..Len(text[b]) : (IF b = curbuf' /\ k = dot'[b] THEN linebuf' ELSE saved'[text'[b][k]]) = TextAt(b, k)
    BY <2>3
  <2> HIDE DEF TextAt
  <2> QED BY <2>1, <2>2, <2>3, <2>4
<1> QED BY <1>1, <1>2

(* The current line stays it.                                              *)
LEMMA LsaveHere ==
  ASSUME Basic, Stored, UNCHANGED <<dot, curbuf, linebuf>>
  PROVE  linebuf' = saved'[text'[curbuf'][dot'[curbuf']]]
<1>1. curbuf \in Buffer /\ dot[curbuf] \in 1..Len(text[curbuf])
  BY DEF Basic
<1>2. saved'[text'[curbuf][dot[curbuf]]] = TextAt(curbuf, dot[curbuf])
  BY <1>1 DEF Stored
<1> QED BY <1>2 DEF TextAt

(* What the recovery file gives stays the same until it is written again.  *)
LEMMA SnapshotKept ==
  ASSUME Basic, Snapshot, \A a \in durable : a \in durable' /\ saved'[a] = saved[a], rec' = rec, snap' = snap,
         \/ rec_err'
         \/ rec_err' = rec_err /\ at' = at /\ image' = image
         \/ at' # Len(image')
  PROVE  Snapshot'
<1> SUFFICES ASSUME ~rec_err', at' = Len(image'), rec' # <<>> PROVE Snapped'
  BY DEF Snapshot
<1>1. Snapped
  BY DEF Snapshot
<1> QED BY <1>1, SnappedKept

(* The editor goes on, whether after a command, after a sync that was not  *)
(* needed, or after one that has failed.                                   *)
LEMMA GoesOn ==
  ASSUME IInv, Basic', Current', pc # "dead", pc' = "edit",
         \A a \in durable : a \in durable' /\ saved'[a] = saved[a],
         rec' = rec, at' = at, image' = image, snap' = snap, files' = files,
         rec_err' = rec_err \/ (rec_err' /\ failed'), failed => failed',
         \A b \in Buffer \ modified' : edits'[b] = 0,
         ~failed' => /\ pc = "edit" /\ Counted'
                     /\ \A b \in modified' : edits'[b] = 0 => b \in modified /\ edits[b] = 0 /\ Contents(b)' = Contents(b)
  PROVE  IInv'
<1>1. Syncing' /\ Farewell'
  BY DEF Syncing, Farewell
<1>2. Snapshot'
  BY SnapshotKept DEF IInv
<1>3. Counts'
  BY DEF Counts, IInv
<1>4. Fresh'
  <2> SUFFICES ASSUME ~failed'
               PROVE  /\ at' = Len(image')
                      /\ \A b \in modified' : edits'[b] = 0 => rec' # <<>> /\ b \in DOMAIN snap' /\ snap'[b] = Contents(b)'
    BY DEF Fresh
  <2>1. at = Len(image) /\ \A b \in modified : edits[b] = 0 => rec # <<>> /\ b \in DOMAIN snap /\ snap[b] = Contents(b)
    BY DEF IInv, Fresh
  <2> HIDE DEF Contents
  <2> QED BY <2>1
<1> QED BY <1>1, <1>2, <1>3, <1>4 DEF IInv

(* The recovery file is about to be written.                               *)
LEMMA StartsSync ==
  ASSUME IInv, Basic', Current', pc # "dead", pc' \in {"sync", "fsync"},
         ~rec_err, rec_err' = rec_err, modified # {}, modified' = modified, DOLsave' = FALSE,
         durable' = DOMAIN saved', ImageLaid', Len(image') > 0, at' = 0, Extended,
         rec' = rec, snap' = snap, files' = files, edits' = edits, failed' = failed
  PROVE  IInv'
<1>1. Syncing'
  <2>1. Len(rec') \in Nat
    BY DEF IInv, Basic
  <2>2. at' < Len(image') /\ at' <= Len(rec') /\ \A i \in 1..at' : rec'[i] = image'[i]
    BY <2>1
  <2> QED BY <2>2 DEF Syncing
<1>2. Snapshot'
  <2>1. \A a \in durable : a \in durable' /\ saved'[a] = saved[a]
    BY DEF Extended, IInv, Basic
  <2>2. at' # Len(image')
    OBVIOUS
  <2> QED BY <2>1, <2>2, SnapshotKept DEF IInv
<1>3. Counts'
  BY DEF Counts, IInv
<1>4. Fresh' /\ Farewell'
  BY DEF Fresh, Farewell
<1> QED BY <1>1, <1>2, <1>3, <1>4 DEF IInv

(* finish ends.                                                            *)
LEMMA Ends ==
  ASSUME IInv, Basic', Current', Farewell', pc' \in {"bye", "dead"}, pc' = "bye" => files',
         \A a \in durable : a \in durable' /\ saved'[a] = saved[a],
         rec' = rec, at' = at, image' = image, snap' = snap, rec_err' = rec_err,
         edits' = edits, modified' = modified, failed' = failed
  PROVE  IInv'
<1>1. Syncing' /\ Fresh'
  BY DEF Syncing, Fresh
<1>2. Snapshot'
  BY SnapshotKept DEF IInv
<1>3. Counts'
  BY DEF Counts, IInv
<1> QED BY <1>1, <1>2, <1>3 DEF IInv

-----------------------------------------------------------------------------
(* The steps.                                                              *)

(* A modification is counted.                                              *)
LEMMA ModifyCounts ==
  ASSUME Basic, Counts, pc = "edit", modify
  PROVE  /\ ModCount' \in Nat /\ modified' = modified \cup {curbuf} /\ modified' \subseteq Buffer
         /\ edits' \in [Buffer -> Nat] /\ edits'[curbuf] > 0
         /\ \A b \in Buffer : b # curbuf => edits'[b] = edits[b]
         /\ ~failed => Counted'
<1>1. /\ ModCount' = ModCount + 1 /\ modified' = modified \cup {curbuf}
      /\ edits' = [edits EXCEPT ![curbuf] = IF edits[curbuf] >= SyncFreq THEN edits[curbuf] ELSE edits[curbuf] + 1]
      /\ edits \in [Buffer -> Nat] /\ curbuf \in Buffer /\ modified \subseteq Buffer /\ ModCount \in Nat
  BY DEF modify, Basic
<1>2. /\ \A b \in Buffer : b # curbuf => edits'[b] = edits[b]
      /\ edits'[curbuf] = IF edits[curbuf] >= SyncFreq THEN edits[curbuf] ELSE edits[curbuf] + 1
  BY <1>1
<1>3. edits'[curbuf] \in Nat /\ edits'[curbuf] > 0 /\ edits'[curbuf] <= edits[curbuf] + 1
  BY <1>1, <1>2
<1>4. edits' \in [Buffer -> Nat]
  BY <1>1, <1>2, <1>3
<1>6. ModCount' \in Nat
  BY <1>1
<1>5. ASSUME ~failed PROVE Counted'
  <2> SUFFICES ASSUME NEW b \in Buffer, ModCount' < SyncFreq PROVE edits'[b] <= ModCount'
    BY <1>6 DEF Counted
  <2>1. edits[b] <= ModCount /\ edits[b] \in Nat /\ ModCount \in Nat
    BY <1>1, <1>5 DEF Counts, Counted
  <2> QED BY <2>1, <1>1, <1>2, <1>3
<1> QED BY <1>1, <1>2, <1>3, <1>4, <1>5, <1>6

(* A change to the current line.                                           *)
LEMMA ChangeIInv ==
  ASSUME IInv, NEW l, Change(l)
  PROVE  IInv'
<1>1. /\ pc = "edit" /\ modify /\ DOLsave' = TRUE
      /\ UNCHANGED <<saved, durable, text, dot, curbuf, rec, image, at, rec_err, pc, files, snap, failed>>
  BY DEF Change, Command, store, recfile
<1>2. /\ ModCount' \in Nat /\ modified' = modified \cup {curbuf} /\ modified' \subseteq Buffer
      /\ edits' \in [Buffer -> Nat] /\ edits'[curbuf] > 0
      /\ \A b \in Buffer : b # curbuf => edits'[b] = edits[b]
      /\ ~failed => Counted'
  BY <1>1, ModifyCounts DEF IInv
<1>3. Basic'
  BY <1>1, <1>2 DEF IInv, Basic
<1>4. Current'
  BY <1>1 DEF Current
<1>5. \A b \in Buffer : b # curbuf => Contents(b)' = Contents(b)
  BY <1>1 DEF Contents
<1>6. \A b \in Buffer \ modified' : edits'[b] = 0
  BY <1>2 DEF IInv, Counts
<1>7. \A b \in modified' : edits'[b] = 0 => b \in modified /\ edits[b] = 0 /\ Contents(b)' = Contents(b)
  BY <1>2, <1>5
<1>8. \A a \in durable : a \in durable' /\ saved'[a] = saved[a]
  BY <1>1
<1> HIDE DEF Contents
<1> QED BY <1>1, <1>2, <1>3, <1>4, <1>6, <1>7, <1>8, GoesOn

(* A sequence with one more element in it.                                 *)
LEMMA InsertOne ==
  ASSUME NEW S, NEW s \in Seq(S), NEW i \in 1..Len(s) + 1, NEW e \in S
  PROVE  InsertAt(s, i, e) \in Seq(S) /\ Len(InsertAt(s, i, e)) = Len(s) + 1
<1>1. PICK f \in Seq(S) : f = SubSeq(s, 1, i - 1) /\ Len(f) = i - 1
  <2>1. Len(s) \in Nat
    OBVIOUS
  <2>2. \A j \in 1..i - 1 : j \in 1..Len(s)
    BY <2>1
  <2>3. SubSeq(s, 1, i - 1) \in Seq(S) /\ Len(SubSeq(s, 1, i - 1)) = i - 1
    BY <2>1, <2>2, SubSeqProperties
  <2> QED BY <2>3
<1>2. PICK g \in Seq(S) : g = SubSeq(s, i, Len(s)) /\ Len(g) = Len(s) - i + 1
  <2>1. Len(s) \in Nat
    OBVIOUS
  <2>2. \A j \in i..Len(s) : j \in 1..Len(s)
    BY <2>1
  <2>3. SubSeq(s, i, Len(s)) \in Seq(S) /\ Len(SubSeq(s, i, Len(s))) = Len(s) - i + 1
    BY <2>1, <2>2, SubSeqProperties
  <2> QED BY <2>3
<1>3. PICK h \in Seq(S) : h = <<e>> /\ Len(h) = 1
  <2>1. <<e>> \in Seq(S) /\ Len(<<e>>) = 1
    OBVIOUS
  <2> QED BY <2>1
<1>4. PICK k \in Seq(S) : k = f \o h /\ Len(k) = i
  <2>1. f \o h \in Seq(S) /\ Len(f \o h) = Len(f) + Len(h)
    BY ConcatProperties
  <2>2. Len(f \o h) = i
    BY <2>1, <1>1, <1>3
  <2> QED BY <2>1, <2>2
<1>5. k \o g \in Seq(S) /\ Len(k \o g) = Len(s) + 1
  <2>1. k \o g \in Seq(S) /\ Len(k \o g) = Len(k) + Len(g)
    BY ConcatProperties
  <2>2. Len(s) \in Nat
    OBVIOUS
  <2> QED BY <2>1, <2>2, <1>2, <1>4
<1>6. InsertAt(s, i, e) = k \o g
  BY <1>1, <1>2, <1>3, <1>4 DEF InsertAt
<1> QED BY <1>5, <1>6

(* A line split at its end.                                                *)
LEMMA NewLineIInv ==
  ASSUME IInv, NewLine
  PROVE  IInv'
<1>1. /\ pc = "edit" /\ modify /\ DOLsave' = TRUE
      /\ saved' = Put(Put(saved, linebuf), Empty)
      /\ text' = [text EXCEPT ![curbuf] = InsertAt([text[curbuf] EXCEPT ![dot[curbuf]] = NextAddr], dot[curbuf] + 1, NextAddr + 1)]
      /\ dot' = [dot EXCEPT ![curbuf] = dot[curbuf] + 1]
      /\ UNCHANGED <<durable, curbuf, rec, image, at, rec_err, pc, files, snap, failed>>
  BY DEF NewLine, Command, recfile
<1>2. /\ ModCount' \in Nat /\ modified' = modified \cup {curbuf} /\ modified' \subseteq Buffer
      /\ edits' \in [Buffer -> Nat] /\ edits'[curbuf] > 0
      /\ \A b \in Buffer : b # curbuf => edits'[b] = edits[b]
      /\ ~failed => Counted'
  BY <1>1, ModifyCounts DEF IInv
<1>3. /\ text \in [Buffer -> Seq(DOMAIN saved)] /\ dot \in [Buffer -> Nat] /\ curbuf \in Buffer
      /\ \A b \in Buffer : dot[b] \in 1..Len(text[b])
      /\ durable \subseteq DOMAIN saved
  BY DEF IInv, Basic
<1>4. PICK n \in Nat \ {0} : DOMAIN saved = 1..n
  BY DEF IInv, Basic
<1>5. /\ NextAddr = n + 1 /\ n + 2 \in Nat \ {0} /\ DOMAIN saved' = 1..n + 2
      /\ \A a \in 1..n : a \in 1..n + 2 /\ saved'[a] = saved[a]
  <2>1. PICK s : s = Put(saved, linebuf)
    OBVIOUS
  <2>2. Cardinality(DOMAIN saved) = n /\ DOMAIN s = 1..n + 1 /\ \A a \in 1..n : s[a] = saved[a]
    BY <2>1, <1>4, PutLast
  <2>3. DOMAIN saved' = 1..(n + 1) + 1 /\ \A a \in 1..n + 1 : saved'[a] = s[a]
    BY <2>1, <2>2, <1>1, PutLast
  <2>4. (n + 1) + 1 = n + 2 /\ \A a \in 1..n : a \in 1..n + 1 /\ a \in 1..n + 2
    OBVIOUS
  <2> QED BY <2>2, <2>3, <2>4 DEF NextAddr
<1>6. ASSUME NEW b \in Buffer PROVE text'[b] \in Seq(DOMAIN saved') /\ dot'[b] \in Nat /\ dot'[b] \in 1..Len(text'[b])
  <2>1. PICK x \in Seq(1..n + 2) : x = text[b]
    <3>1. PICK x \in Seq(1..n) : x = text[b]
      BY <1>3, <1>4
    <3>2. Len(x) \in Nat /\ x = [k \in 1..Len(x) |-> x[k]] /\ \A k \in 1..Len(x) : x[k] \in 1..n + 2
      BY <1>5, SMTT(30)
    <3>3. [k \in 1..Len(x) |-> x[k]] \in Seq(1..n + 2)
      BY <3>2, IsASeq
    <3> QED BY <3>1, <3>2, <3>3
  <2>2. CASE b # curbuf
    <3>1. text'[b] = text[b] /\ dot'[b] = dot[b]
      BY <2>2, <1>1, <1>3
    <3> QED BY <3>1, <2>1, <1>3, <1>5
  <2>3. CASE b = curbuf
    <3>1. PICK d \in 1..Len(x) : d = dot[b]
      BY <2>1, <1>3
    <3>2. PICK y \in Seq(1..n + 2) : y = [x EXCEPT ![d] = n + 1] /\ Len(y) = Len(x)
      <4> DEFINE y == [x EXCEPT ![d] = n + 1]
      <4>1. n + 1 \in 1..n + 2 /\ Len(x) \in Nat /\ DOMAIN x = 1..Len(x) /\ \A k \in 1..Len(x) : x[k] \in 1..n + 2
        OBVIOUS
      <4>2. y = [k \in 1..Len(x) |-> IF k = d THEN n + 1 ELSE x[k]]
        BY <4>1
      <4>3. \A k \in 1..Len(x) : (IF k = d THEN n + 1 ELSE x[k]) \in 1..n + 2
        BY <4>1
      <4>4. y \in Seq(1..n + 2)
        BY <4>1, <4>2, <4>3, IsASeq
      <4>5. Len(y) = Len(x)
        <5>1. DOMAIN y = 1..Len(x)
          BY <4>2
        <5> QED BY <5>1, <4>1, <4>4
      <4> QED BY <4>4, <4>5
    <3>3. text'[b] = InsertAt(y, d + 1, n + 2)
      <4>1. (n + 1) + 1 = n + 2
        OBVIOUS
      <4>2. text'[b] = InsertAt([text[b] EXCEPT ![dot[b]] = NextAddr], dot[b] + 1, NextAddr + 1)
        BY <2>3, <1>1, <1>3
      <4> QED BY <4>1, <4>2, <3>1, <3>2, <2>1, <1>5
    <3>4. d + 1 \in 1..Len(y) + 1 /\ n + 2 \in 1..n + 2
      BY <3>2
    <3>5. text'[b] \in Seq(1..n + 2) /\ Len(text'[b]) = Len(y) + 1
      <4>1. PICK S, i, e : S = 1..n + 2 /\ i = d + 1 /\ e = n + 2
        OBVIOUS
      <4>2. y \in Seq(S) /\ i \in 1..Len(y) + 1 /\ e \in S
        BY <3>4, <4>1
      <4>3. InsertAt(y, i, e) \in Seq(S) /\ Len(InsertAt(y, i, e)) = Len(y) + 1
        BY ONLY <4>2, InsertOne
      <4> QED BY <3>3, <4>1, <4>3
    <3>6. dot'[b] = d + 1
      BY <2>3, <3>1, <1>1, <1>3
    <3> QED BY <3>4, <3>5, <3>6, <1>5
  <2> QED BY <2>2, <2>3
<1>7. text' \in [Buffer -> Seq(DOMAIN saved')] /\ dot' \in [Buffer -> Nat]
  <2>1. text' = [b \in Buffer |-> text'[b]] /\ dot' = [b \in Buffer |-> dot'[b]]
    BY <1>1, <1>3
  <2> QED BY <2>1, <1>6
<1>8. durable' \subseteq DOMAIN saved' /\ \A a \in durable : a \in durable' /\ saved'[a] = saved[a]
  BY <1>1, <1>3, <1>4, <1>5
<1>9. Basic'
  <2>1. curbuf' \in Buffer /\ DOLsave' \in BOOLEAN /\ pc' \in {"edit", "sync", "fsync", "bye", "dead"}
    BY <1>1, <1>3
  <2>2. rec' \in Seq(Cell) /\ image' \in Seq(Cell) /\ at' \in Nat
    BY <1>1 DEF IInv, Basic
  <2> QED BY <2>1, <2>2, <1>2, <1>5, <1>6, <1>7, <1>8 DEF Basic
<1>10. Current'
  BY <1>1 DEF Current
<1>11. ASSUME NEW b \in Buffer, b # curbuf PROVE Contents(b)' = Contents(b)
  <2>1. text'[b] = text[b] /\ curbuf' = curbuf
    BY <1>1, <1>3, <1>11
  <2>2. \A k \in 1..Len(text[b]) : saved'[text'[b][k]] = saved[text[b][k]]
    BY <2>1, <1>3, <1>4, <1>5, SMTT(30)
  <2> QED BY <2>1, <2>2, <1>11 DEF Contents
<1>12. \A b \in Buffer \ modified' : edits'[b] = 0
  BY <1>2 DEF IInv, Counts
<1>13. \A b \in modified' : edits'[b] = 0 => b \in modified /\ edits[b] = 0 /\ Contents(b)' = Contents(b)
  BY <1>2, <1>11
<1> HIDE DEF Contents
<1> QED BY <1>1, <1>2, <1>8, <1>9, <1>10, <1>12, <1>13, GoesOn

(* Another line becomes the current one, or the file is saved.             *)
LEMMA StoredGoesOn ==
  ASSUME IInv, pc = "edit", pc' = "edit", Lsave,
         dot' \in [Buffer -> Nat], \A b \in Buffer : dot'[b] \in 1..Len(text[b]), curbuf' \in Buffer,
         linebuf' = saved'[text'[curbuf'][dot'[curbuf']]],
         UNCHANGED <<durable, rec, image, at, rec_err, files, snap, failed>>,
         modified' \subseteq modified, edits' \in [Buffer -> Nat],
         \A b \in modified' : edits'[b] = edits[b], \A b \in Buffer \ modified' : edits'[b] = 0,
         ModCount' \in Nat, ModCount' = ModCount \/ ModCount' = SyncFreq
  PROVE  IInv'
<1>1. Extended /\ Stored /\ DOLsave' = FALSE
  BY LsaveStores DEF IInv
<1>2. Current' /\ \A b \in Buffer : Contents(b)' = Contents(b)
  BY <1>1, LsaveContents
<1>3. durable' \subseteq DOMAIN saved' /\ \A a \in durable : a \in durable' /\ saved'[a] = saved[a]
  BY <1>1 DEF Extended, IInv, Basic
<1>4. Basic'
  <2>1. rec' \in Seq(Cell) /\ image' \in Seq(Cell) /\ at' \in Nat /\ modified' \subseteq Buffer
    BY DEF IInv, Basic
  <2> QED BY <2>1, <1>1, <1>3, LsaveBasic DEF IInv
<1>5. ~failed => Counted'
  <2> SUFFICES ASSUME ~failed, NEW b \in Buffer, ~ (ModCount' >= SyncFreq) PROVE edits'[b] <= ModCount'
    BY DEF Counted
  <2>0. ModCount' = ModCount
    BY RecoveryAssumption
  <2>1. CASE b \in modified'
    <3>1. edits'[b] = edits[b] /\ edits[b] <= ModCount /\ edits[b] \in Nat /\ ModCount \in Nat
      BY <2>0, <2>1 DEF IInv, Counts, Counted, Basic
    <3> QED BY <2>0, <3>1
  <2>2. CASE b \notin modified'
    BY <2>2
  <2> QED BY <2>1, <2>2
<1>6. \A b \in modified' : edits'[b] = 0 => b \in modified /\ edits[b] = 0 /\ Contents(b)' = Contents(b)
  BY <1>2 DEF IInv, Basic
<1> HIDE DEF Contents
<1> QED BY <1>2, <1>3, <1>4, <1>5, <1>6, GoesOn

(* SetDot and SetBuf.                                                      *)
LEMMA GotoIInv ==
  ASSUME IInv, NEW b \in Buffer, NEW d \in 1..Len(text[b]), Goto(b, d)
  PROVE  IInv'
<1>1. /\ pc = "edit" /\ pc' = "edit" /\ Lsave
      /\ curbuf' = b /\ dot' = [dot EXCEPT ![b] = d] /\ linebuf' = AfterLsave.saved[AfterLsave.text[b][d]]
      /\ UNCHANGED <<durable, modified, ModCount, rec, image, at, rec_err, files, snap, edits, failed>>
  BY DEF Goto, Command, recfile, seen
<1>2. saved' = AfterLsave.saved /\ text' = AfterLsave.text
  BY <1>1 DEF Lsave
<1>3. /\ dot \in [Buffer -> Nat] /\ \A c \in Buffer : dot[c] \in 1..Len(text[c])
      /\ text[b] \in Seq(DOMAIN saved) /\ edits \in [Buffer -> Nat] /\ ModCount \in Nat
      /\ \A c \in Buffer \ modified : edits[c] = 0
  BY DEF IInv, Basic, Counts
<1>4. dot' \in [Buffer -> Nat] /\ \A c \in Buffer : dot'[c] \in 1..Len(text[c])
  <2>1. d \in Nat
    BY <1>3
  <2>2. \A c \in Buffer : dot'[c] = IF c = b THEN d ELSE dot[c]
    BY <1>1, <1>3
  <2> QED BY <2>1, <2>2, <1>1, <1>3
<1>5. linebuf' = saved'[text'[curbuf'][dot'[curbuf']]]
  BY <1>1, <1>2, <1>3
<1>6. ModCount' \in Nat /\ ModCount' = ModCount
  BY <1>1, <1>3
<1> QED BY <1>1, <1>3, <1>4, <1>5, <1>6, StoredGoesOn

(* The file is saved.                                                      *)
LEMMA SaveFileIInv ==
  ASSUME IInv, SaveFile
  PROVE  IInv'
<1>1. /\ pc = "edit" /\ pc' = "edit" /\ Lsave /\ modified' = modified \ {curbuf}
      /\ edits' = [edits EXCEPT ![curbuf] = 0] /\ ModCount' = SyncFreq
      /\ UNCHANGED <<dot, curbuf, linebuf>>
      /\ UNCHANGED <<durable, rec, image, at, rec_err, files, snap, failed>>
  BY DEF SaveFile, Command, recfile
<1>2. /\ dot \in [Buffer -> Nat] /\ \A c \in Buffer : dot[c] \in 1..Len(text[c])
      /\ curbuf \in Buffer /\ edits \in [Buffer -> Nat] /\ ModCount \in Nat /\ modified \subseteq Buffer
      /\ \A c \in Buffer \ modified : edits[c] = 0
  BY DEF IInv, Basic, Counts
<1>3. linebuf' = saved'[text'[curbuf'][dot'[curbuf']]]
  <2>1. Stored
    BY <1>1, LsaveStores DEF IInv
  <2> QED BY <2>1, <1>1, LsaveHere DEF IInv
<1>4. /\ edits' \in [Buffer -> Nat] /\ \A c \in modified' : edits'[c] = edits[c]
      /\ \A c \in Buffer \ modified' : edits'[c] = 0
  BY <1>1, <1>2
<1>5. ModCount' \in Nat /\ ModCount' = SyncFreq
  BY <1>1, <1>2, RecoveryAssumption
<1> QED BY <1>1, <1>2, <1>3, <1>4, <1>5, StoredGoesOn

(* SyncRec, up to the write of the recovery file.                          *)
LEMMA SyncRecIInv ==
  ASSUME IInv, NEW then \in {"sync", "fsync"}, NEW done \in {"edit", "bye"}, SyncRec(then, done),
         pc \in {"edit", "sync"}, done = "edit" => pc = "edit", ModCount' \in Nat,
         UNCHANGED <<dot, modified, curbuf, linebuf>>,
         UNCHANGED <<rec, rec_err, files, snap, edits, failed>>
  PROVE  IInv'
<1>0. /\ pc # "dead" /\ files /\ \A b \in Buffer \ modified : edits[b] = 0
      /\ ~failed => ~rec_err
  BY DEF IInv, Counts
<1>1. CASE modified = {} /\ pc' = done /\ UNCHANGED <<store, text, DOLsave, image, at>>
  <2>1. /\ UNCHANGED <<saved, durable, text, DOLsave, image, at>> /\ pc' = done /\ modified = {}
    BY <1>1 DEF store
  <2>2. Basic' /\ Current'
    BY <2>1 DEF IInv, Basic, Current
  <2>3. \A a \in durable : a \in durable' /\ saved'[a] = saved[a]
    BY <2>1
  <2>4. \A b \in Buffer : edits'[b] = 0
    BY <2>1, <1>0
  <2>5. CASE done = "edit"
    <3>1. Counted'
      BY <2>4 DEF Counted
    <3>2. \A b \in modified' : edits'[b] = 0 => b \in modified /\ edits[b] = 0 /\ Contents(b)' = Contents(b)
      BY <2>1
    <3> QED BY <2>1, <2>2, <2>3, <2>4, <2>5, <3>1, <3>2, <1>0, GoesOn
  <2>6. CASE done = "bye"
    <3>1. Farewell'
      BY <2>1 DEF Farewell
    <3> QED BY <2>1, <2>2, <2>3, <2>6, <3>1, <1>0, Ends
  <2> QED BY <2>5, <2>6
<1>2. ASSUME modified # {}, Lsave, durable' = DOMAIN saved',
             IF rec_err THEN pc' = done /\ UNCHANGED <<image, at>> ELSE pc' = then /\ image' = Image /\ at' = 0
      PROVE  IInv'
  <2>1. Extended /\ Stored /\ DOLsave' = FALSE
    BY <1>2, LsaveStores DEF IInv
  <2>2. Current' /\ \A b \in Buffer : Contents(b)' = Contents(b)
    <3>1. linebuf' = saved'[text'[curbuf'][dot'[curbuf']]]
      BY <2>1, LsaveHere DEF IInv
    <3> QED BY <3>1, <2>1, LsaveContents
  <2>3. durable' \subseteq DOMAIN saved' /\ \A a \in durable : a \in durable' /\ saved'[a] = saved[a]
    BY <1>2, <2>1 DEF Extended, IInv, Basic
  <2>4. /\ dot' \in [Buffer -> Nat] /\ (\A b \in Buffer : dot'[b] \in 1..Len(text[b])) /\ modified' \subseteq Buffer
        /\ curbuf' \in Buffer /\ edits' \in [Buffer -> Nat] /\ rec' \in Seq(Cell)
    BY DEF IInv, Basic
  <2>5. CASE rec_err
    <3>1. pc' = done /\ image' = image /\ at' = at /\ failed
      BY <1>2, <2>5, <1>0
    <3>2. Basic'
      <4>1. image' \in Seq(Cell) /\ at' \in Nat /\ pc' \in {"edit", "sync", "fsync", "bye", "dead"}
        BY <3>1 DEF IInv, Basic
      <4> QED BY <4>1, <2>1, <2>3, <2>4, LsaveBasic DEF IInv
    <3>3. CASE done = "edit"
      <4>1. \A b \in Buffer \ modified' : edits'[b] = 0
        BY <1>0
      <4> QED BY <3>1, <3>2, <3>3, <4>1, <2>2, <2>3, <1>0, GoesOn
    <3>4. CASE done = "bye"
      <4>1. Farewell'
        BY <3>1 DEF Farewell
      <4> QED BY <3>1, <3>2, <3>4, <4>1, <2>2, <2>3, <1>0, Ends
    <3> QED BY <3>3, <3>4
  <2>6. CASE ~rec_err
    <3>1. pc' = then /\ image' = Image /\ at' = 0 /\ text' = AfterLsave.text
      BY <1>2, <2>6 DEF Lsave
    <3>2. ImageLaid' /\ image' \in Seq(Cell) /\ Len(image') > 0
      BY <3>1, <2>1, SyncLays DEF IInv
    <3>3. Basic'
      <4>1. at' \in Nat /\ pc' \in {"edit", "sync", "fsync", "bye", "dead"}
        BY <3>1
      <4> QED BY <4>1, <3>2, <2>1, <2>3, <2>4, LsaveBasic DEF IInv
    <3>4. pc' \in {"sync", "fsync"}
      BY <3>1
    <3> QED BY <3>1, <3>2, <3>3, <3>4, <2>1, <2>2, <2>6, <1>0, <1>2, StartsSync
  <2> QED BY <2>5, <2>6
<1> QED BY <1>1, <1>2 DEF SyncRec

(* The sync of the tmp file fails.                                         *)
LEMMA SyncTmpFailsIInv ==
  ASSUME IInv, SyncTmpFails, pc \in {"edit", "sync"}, ModCount' \in Nat,
         UNCHANGED <<dot, modified, curbuf, linebuf>>,
         UNCHANGED <<rec, rec_err, files, snap, edits>>
  PROVE  IInv'
<1>1. Lsave /\ durable' = durable /\ failed' = TRUE /\ pc' = "edit" /\ image' = image /\ at' = at
  BY DEF SyncTmpFails
<1>2. Extended /\ Stored /\ DOLsave' = FALSE
  BY <1>1, LsaveStores DEF IInv
<1>3. Current'
  <2>1. linebuf' = saved'[text'[curbuf'][dot'[curbuf']]]
    BY <1>2, LsaveHere DEF IInv
  <2> QED BY <2>1, <1>2, LsaveContents
<1>4. durable' \subseteq DOMAIN saved' /\ \A a \in durable : a \in durable' /\ saved'[a] = saved[a]
  BY <1>1, <1>2 DEF Extended, IInv, Basic
<1>5. Basic'
  <2>1. /\ dot' \in [Buffer -> Nat] /\ (\A b \in Buffer : dot'[b] \in 1..Len(text[b])) /\ modified' \subseteq Buffer
        /\ curbuf' \in Buffer /\ edits' \in [Buffer -> Nat] /\ rec' \in Seq(Cell)
        /\ image' \in Seq(Cell) /\ at' \in Nat /\ pc' \in {"edit", "sync", "fsync", "bye", "dead"}
    BY <1>1 DEF IInv, Basic
  <2> QED BY <2>1, <1>2, <1>4, LsaveBasic DEF IInv
<1>6. \A b \in Buffer \ modified' : edits'[b] = 0
  BY DEF IInv, Counts
<1> QED BY <1>1, <1>3, <1>4, <1>5, <1>6, GoesOn

(* A cell of the recovery file is written.                                 *)
LEMMA WrittenCell ==
  ASSUME Basic, at < Len(image), at <= Len(rec), \A i \in 1..at : rec[i] = image[i]
  PROVE  /\ Written \in Seq(Cell) /\ at + 1 <= Len(Written)
         /\ \A i \in 1..at + 1 : Written[i] = image[i]
<1>1. rec \in Seq(Cell) /\ image \in Seq(Cell) /\ at \in Nat /\ Len(rec) \in Nat /\ Len(image) \in Nat
  BY DEF Basic
<1>2. at + 1 \in 1..Len(image) /\ image[at + 1] \in Cell
  <2>1. at + 1 \in 1..Len(image)
    BY <1>1
  <2> HIDE DEF Cell
  <2> QED BY <2>1, <1>1
<1> HIDE DEF Cell
<1>3. CASE at < Len(rec)
  <2>1. Written = [rec EXCEPT ![at + 1] = image[at + 1]] /\ at + 1 \in 1..Len(rec)
    BY <1>1, <1>3 DEF Written
  <2>2. Written = [i \in 1..Len(rec) |-> IF i = at + 1 THEN image[at + 1] ELSE rec[i]]
    <3>1. PICK a, e : a = at + 1 /\ e = image[at + 1]
      OBVIOUS
    <3>2. DOMAIN rec = 1..Len(rec)
      BY <1>1
    <3>3. [rec EXCEPT ![a] = e] = [i \in 1..Len(rec) |-> IF i = a THEN e ELSE rec[i]]
      BY ONLY <3>2
    <3> QED BY <2>1, <3>1, <3>3
  <2>3. \A i \in 1..Len(rec) : (IF i = at + 1 THEN image[at + 1] ELSE rec[i]) \in Cell
    BY <1>1, <1>2
  <2>4. Written \in Seq(Cell)
    BY <2>2, <2>3, <1>1, IsASeq
  <2>5. Len(Written) = Len(rec)
    <3>1. DOMAIN Written = 1..Len(rec)
      BY <2>2
    <3> QED BY <3>1, <2>4, <1>1
  <2>6. \A i \in 1..at + 1 : Written[i] = image[i]
    <3>1. \A i \in 1..at + 1 : i \in 1..Len(rec) /\ (i = at + 1 \/ i \in 1..at)
      BY <2>1, <1>1
    <3> QED BY <3>1, <2>2
  <2> QED BY <2>1, <2>4, <2>5, <2>6
<1>4. CASE ~ (at < Len(rec))
  <2>1. Written = Append(rec, image[at + 1]) /\ at = Len(rec)
    BY <1>1, <1>4 DEF Written
  <2>2. /\ Written \in Seq(Cell) /\ Len(Written) = Len(rec) + 1
        /\ \A i \in 1..Len(rec) : Written[i] = rec[i]
        /\ Written[Len(rec) + 1] = image[at + 1]
    BY <2>1, <1>1, <1>2, AppendProperties
  <2>3. \A i \in 1..at + 1 : i \in 1..at \/ i = at + 1
    BY <1>1
  <2>4. at + 1 <= Len(Written) /\ \A i \in 1..at + 1 : Written[i] = image[i]
    BY <2>1, <2>2, <2>3, <1>1
  <2> QED BY <2>2, <2>4
<1> QED BY <1>3, <1>4

(* With the last one the file gives the texts of the modified buffers as   *)
(* they are.                                                               *)
LEMMA LastCellSnaps ==
  ASSUME IInv, pc \in {"sync", "fsync"}, UNCHANGED <<saved, durable>>,
         rec' \in Seq(Cell), Len(image) <= Len(rec'), \A i \in 1..Len(image) : rec'[i] = image[i],
         snap' = [b \in modified |-> Contents(b)]
  PROVE  Snapped' /\ rec' # <<>>
<1>1. /\ ~DOLsave /\ durable = DOMAIN saved /\ ImageLaid
      /\ saved[text[curbuf][dot[curbuf]]] = linebuf
  BY DEF IInv, Syncing, Current
<1>2. text \in [Buffer -> Seq(DOMAIN saved)] /\ modified \subseteq Buffer /\ image \in Seq(Cell)
  BY DEF IInv, Basic
<1>3. PICK m, t : m = modified /\ t = text
  OBVIOUS
<1>4. PICK es \in Seq(Cell), ps \in Seq(Cell) : \E F :
        /\ Laid(m, t, NBuffers, es, ps, F)
        /\ Holds(image, es, ps) /\ Len(image) = 1 + Len(es) + Len(ps)
  BY <1>1, <1>3 DEF ImageLaid
<1>5. PICK F :
        /\ Laid(m, t, NBuffers, es, ps, F)
        /\ Holds(image, es, ps) /\ Len(image) = 1 + Len(es) + Len(ps)
  BY <1>4
<1>6. Holds(rec', es, ps) /\ rec' # <<>>
  <2>1. Len(rec') \in Nat /\ Len(es) \in Nat /\ Len(ps) \in Nat
    OBVIOUS
  <2>2. /\ 1 \in 1..Len(image) /\ \A i \in 1..Len(es) : i + 1 \in 1..Len(image)
        /\ \A j \in 1..Len(ps) : 1 + Len(es) + j \in 1..Len(image)
        /\ 1 + Len(es) + Len(ps) <= Len(rec')
    <3>1. Len(image) = 1 + Len(es) + Len(ps) /\ Len(image) <= Len(rec')
      BY <1>5
    <3> QED BY ONLY <2>1, <3>1
  <2>3. Holds(rec', es, ps)
    BY <1>5, <2>1, <2>2 DEF Holds
  <2>4. Len(rec') > 0
    BY <2>1, <2>2
  <2> QED BY <2>3, <2>4
<1>7. \A b \in m : t[b] \in Seq(durable')
  BY <1>1, <1>2, <1>3
<1>8. snap' = TextsOf(m, t)'
  <2>1. \A b \in m : Contents(b) = [k \in 1..Len(t[b]) |-> saved[t[b][k]]]
    BY <1>1, <1>3 DEF Contents
  <2> HIDE DEF Contents
  <2>2. snap' = [b \in m |-> Contents(b)]
    BY <1>3
  <2>3. \A b \in m : Contents(b) = [k \in 1..Len(t[b]) |-> saved'[t[b][k]]]
    BY <2>1
  <2> QED BY <2>2, <2>3 DEF TextsOf
<1>9. m \in SUBSET Buffer
  BY <1>2, <1>3
<1>10. Snapped'
  BY <1>5, <1>6, <1>7, <1>8, <1>9 DEF Snapped
<1> QED BY <1>6, <1>10

(* SyncRec writes a cell.                                                  *)
LEMMA WriteRecIInv ==
  ASSUME IInv, WriteRec, twice' = twice
  PROVE  IInv'
<1>1. /\ pc \in {"sync", "fsync"} /\ at < Len(image) /\ rec' = Written
      /\ UNCHANGED <<saved, durable, text, dot, modified, curbuf, linebuf, DOLsave, ModCount>>
      /\ UNCHANGED <<rec_err, Crashing, files, failed>>
  BY DEF WriteRec, store, buffers
<1>2. /\ ~rec_err /\ ~DOLsave /\ durable = DOMAIN saved /\ modified # {}
      /\ at <= Len(rec) /\ \A i \in 1..at : rec[i] = image[i]
  BY <1>1 DEF IInv, Syncing
<1>3. rec' \in Seq(Cell) /\ at + 1 <= Len(rec') /\ \A i \in 1..at + 1 : rec'[i] = image[i]
  BY <1>1, <1>2, WrittenCell DEF IInv
<1>4. at \in Nat /\ image \in Seq(Cell) /\ Len(image) \in Nat /\ edits \in [Buffer -> Nat] /\ modified \subseteq Buffer
  BY DEF IInv, Basic
<1>5. Current'
  BY <1>1 DEF IInv, Current
<1>6. ASSUME NEW b \in Buffer PROVE Contents(b)' = Contents(b)
  BY <1>1 DEF Contents
<1>7. CASE at + 1 = Len(image)
  <2>1. /\ snap' = [b \in modified |-> Contents(b)] /\ edits' = [b \in Buffer |-> 0]
        /\ pc' = (IF pc = "sync" THEN "edit" ELSE "bye") /\ image' = <<>> /\ at' = 0
    BY <1>7 DEF WriteRec
  <2>2. Snapped' /\ rec' # <<>>
    BY <2>1, <1>1, <1>3, <1>7, LastCellSnaps
  <2>3. Basic'
    <3>1. /\ edits' \in [Buffer -> Nat] /\ pc' \in {"edit", "sync", "fsync", "bye", "dead"}
          /\ image' \in Seq(Cell) /\ at' \in Nat
      BY <2>1
    <3> QED BY <3>1, <1>1, <1>3 DEF IInv, Basic
  <2>4. Syncing'
    BY <2>1 DEF Syncing
  <2>5. Snapshot'
    BY <2>2 DEF Snapshot
  <2>6. Counts'
    <3>1. files /\ (~failed => ~rec_err)
      BY <1>1 DEF IInv, Counts
    <3>2. \A b \in Buffer : edits'[b] = 0 /\ 0 <= ModCount'
      BY <2>1, <2>3 DEF Basic
    <3> QED BY <3>1, <3>2, <1>1 DEF Counts, Counted
  <2>7. at' = Len(image')
    BY <2>1
  <2>8. \A b \in modified' : b \in DOMAIN snap' /\ snap'[b] = Contents(b)'
    BY <2>1, <1>1, <1>4, <1>6
  <2>9. Fresh'
    BY <2>2, <2>7, <2>8 DEF Fresh
  <2>10. Farewell'
    <3>1. files'
      BY <1>1 DEF IInv, Counts
    <3>2. snap' = [b \in modified' |-> Contents(b)']
      <4> HIDE DEF Contents
      <4> QED BY <2>1, <1>1, <1>4, <1>6
    <3> QED BY <2>2, <2>7, <3>1, <3>2 DEF Farewell
  <2> QED BY <1>5, <2>3, <2>4, <2>5, <2>6, <2>9, <2>10 DEF IInv
<1>8. CASE at + 1 # Len(image)
  <2>1. at' = at + 1 /\ UNCHANGED <<image, snap, edits, pc>>
    BY <1>8 DEF WriteRec
  <2>2. at' \in Nat /\ at' < Len(image')
    BY <2>1, <1>1, <1>4, <1>8
  <2>3. Basic'
    BY <2>1, <2>2, <1>1, <1>3 DEF IInv, Basic
  <2>4. Syncing'
    <3>1. ImageLaid'
      <4>1. ImageLaid
        BY <1>1 DEF IInv, Syncing
      <4> QED BY <4>1, <2>1, <1>1 DEF ImageLaid, Holds
    <3>2. at' <= Len(rec') /\ \A i \in 1..at' : rec'[i] = image'[i]
      BY <2>1, <1>3
    <3> QED BY <3>1, <3>2, <2>2, <1>1, <1>2 DEF Syncing
  <2>5. Snapshot'
    <3>1. at' # Len(image')
      BY <2>2, <2>1, <1>4
    <3> QED BY <3>1 DEF Snapshot
  <2>6. Counts'
    BY <2>1, <1>1 DEF IInv, Counts
  <2>7. Fresh' /\ Farewell'
    BY <2>1, <1>1 DEF Fresh, Farewell
  <2> QED BY <1>5, <2>3, <2>4, <2>5, <2>6, <2>7 DEF IInv
<1> QED BY <1>7, <1>8

(* Or fails to.                                                            *)
LEMMA WriteRecFailsIInv ==
  ASSUME IInv, WriteRecFails
  PROVE  IInv'
<1>1. /\ pc \in {"sync", "fsync"} /\ rec_err' = TRUE /\ failed' = TRUE /\ pc' = "edit"
      /\ UNCHANGED <<saved, durable, text, dot, modified, curbuf, linebuf, DOLsave, ModCount>>
      /\ UNCHANGED <<rec, image, at, files, snap, edits>>
  BY DEF WriteRecFails, store, buffers
<1>2. Basic' /\ Current'
  BY <1>1 DEF IInv, Basic, Current
<1>3. \A b \in Buffer \ modified' : edits'[b] = 0
  BY <1>1 DEF IInv, Counts
<1>4. \A a \in durable : a \in durable' /\ saved'[a] = saved[a]
  BY <1>1
<1> QED BY <1>1, <1>2, <1>3, <1>4, GoesOn

(* finish ends, by itself or because of another signal.                    *)
LEMMA EndIInv ==
  ASSUME IInv, (Exit /\ twice' = twice) \/ SecondSignal
  PROVE  IInv'
<1>1. /\ pc' = "dead"
      /\ UNCHANGED <<saved, durable, text, dot, modified, curbuf, linebuf, DOLsave, ModCount>>
      /\ UNCHANGED <<rec, image, at, rec_err, snap, edits, failed>>
  BY DEF Exit, SecondSignal, store, buffers, recfile, seen
<1>2. Basic' /\ Current'
  BY <1>1 DEF IInv, Basic, Current
<1>3. \A a \in durable : a \in durable' /\ saved'[a] = saved[a]
  BY <1>1
<1>4. Farewell'
  <2>1. CASE Exit /\ twice' = twice
    <3>1. pc = "bye" /\ files' = (modified # {})
      BY <2>1 DEF Exit
    <3>2. [b \in modified |-> Contents(b)]' = [b \in modified |-> Contents(b)]
      BY <1>1 DEF Contents
    <3>3. modified # {} /\ ~failed /\ ~twice => at = Len(image) /\ rec # <<>> /\ snap = [b \in modified |-> Contents(b)]
      BY <3>1 DEF IInv, Farewell
    <3> HIDE DEF Contents
    <3> QED BY <3>1, <3>2, <3>3, <2>1, <1>1 DEF Farewell
  <2>2. CASE SecondSignal
    BY <2>2 DEF SecondSignal, Farewell
  <2> QED BY <2>1, <2>2
<1> QED BY <1>1, <1>2, <1>3, <1>4, Ends

-----------------------------------------------------------------------------
(* The theorems.                                                           *)

(* A step that leaves all but the wait for a key alone.                    *)
LEMMA StutterIInv ==
  ASSUME IInv,
         UNCHANGED <<saved, durable, text, dot, modified, curbuf, linebuf, DOLsave, ModCount>>,
         UNCHANGED <<rec, image, at, rec_err, pc, files, snap, edits, failed, twice>>
  PROVE  IInv'
<1>2. Basic' /\ Current'
  BY DEF IInv, Basic, Current
<1>3. Syncing'
  BY DEF IInv, Syncing, ImageLaid, Holds
<1>4. Snapshot'
  BY SnapshotKept DEF IInv
<1>5. Counts'
  BY DEF IInv, Counts, Counted
<1>6. Fresh' /\ Farewell'
  BY DEF IInv, Fresh, Farewell, Contents
<1> QED BY <1>2, <1>3, <1>4, <1>5, <1>6 DEF IInv

(* Every step keeps the invariant.                                         *)
LEMMA NextIInv == IInv /\ [Next]_vars => IInv'
<1> SUFFICES ASSUME IInv, [Next]_vars PROVE IInv'
  OBVIOUS
<1>1. CASE Edit /\ UNCHANGED twice
  <2>1. ASSUME NEW l \in Line, Change(l) PROVE IInv'
    BY <2>1, ChangeIInv
  <2>2. CASE NewLine
    BY <2>2, NewLineIInv
  <2>3. ASSUME NEW b \in Buffer, NEW d \in 1..Len(text[b]), Goto(b, d) PROVE IInv'
    BY <2>3, GotoIInv
  <2>4. CASE SaveFile
    BY <2>4, SaveFileIInv
  <2> QED BY <1>1, <2>1, <2>2, <2>3, <2>4 DEF Edit
<1>2. CASE Getch
  <2>1. /\ pc = "edit" /\ ModCount' = 0
        /\ UNCHANGED <<dot, modified, curbuf, linebuf>> /\ UNCHANGED <<rec, rec_err, files, snap, edits>>
    BY <1>2 DEF Getch
  <2>2. ModCount' \in Nat
    BY <2>1
  <2>3. CASE SyncRec("sync", "edit") /\ UNCHANGED failed
    BY <2>1, <2>2, <2>3, SyncRecIInv
  <2>4. CASE SyncTmpFails
    BY <2>1, <2>2, <2>4, SyncTmpFailsIInv
  <2> QED BY <1>2, <2>3, <2>4 DEF Getch
<1>3. CASE WriteRec /\ UNCHANGED twice
  BY <1>3, WriteRecIInv
<1>4. CASE WriteRecFails
  BY <1>4, WriteRecFailsIInv
<1>5. CASE Signal
  <2>1. /\ pc \in {"edit", "sync"} /\ ModCount' = ModCount
        /\ UNCHANGED <<dot, modified, curbuf, linebuf>> /\ UNCHANGED <<rec, rec_err, files, snap, edits>>
    BY <1>5 DEF Signal
  <2>2. ModCount' \in Nat
    BY <2>1 DEF IInv, Basic
  <2>3. CASE SyncRec("fsync", "bye") /\ UNCHANGED failed
    BY <2>1, <2>2, <2>3, SyncRecIInv
  <2>4. CASE SyncTmpFails
    BY <2>1, <2>2, <2>4, SyncTmpFailsIInv
  <2> QED BY <1>5, <2>3, <2>4 DEF Signal
<1>6. CASE (Exit /\ UNCHANGED twice) \/ SecondSignal
  BY <1>6, EndIInv
<1>7. CASE AwaitKey \/ UNCHANGED vars
  <2>1. /\ UNCHANGED <<saved, durable, text, dot, modified, curbuf, linebuf, DOLsave, ModCount>>
        /\ UNCHANGED <<rec, image, at, rec_err, pc, files, snap, edits, failed, twice>>
    BY <1>7 DEF AwaitKey, vars, store, buffers, recfile, seen
  <2> QED BY <2>1, StutterIInv
<1> QED BY <1>1, <1>2, <1>3, <1>4, <1>5, <1>6, <1>7 DEF Next

(* And so does the wait for a key.                                         *)
LEMMA NextAwaited == Awaited /\ [Next]_vars => Awaited'
<1> SUFFICES ASSUME Awaited, [Next]_vars PROVE Awaited'
  OBVIOUS
<1>1. CASE AwaitKey
  BY <1>1 DEF AwaitKey, Awaited
<1>2. CASE key' = FALSE
  BY <1>2 DEF Awaited
<1>3. CASE UNCHANGED vars
  BY <1>3 DEF vars, Awaited
<1> QED BY <1>1, <1>2, <1>3 DEF Next

(* So they hold always.                                                    *)
LEMMA IInvAlways == Spec => [](IInv /\ Awaited)
<1>1. IInv /\ Awaited /\ [Next]_vars => (IInv /\ Awaited)'
  BY NextIInv, NextAwaited
<1> QED BY <1>1, InitIInv, PTL DEF Spec

(* From a recovery file that is not half written and has not been given up *)
(* (rec_err), the recover program gets exactly the buffers that were       *)
(* modified at the last sync with the texts they had then: SyncRec and     *)
(* recover.c agree about where everything is, and what is put into the     *)
(* tmp file after a sync does not disturb what the file points to.         *)
THEOREM RecoversSnapshotAlways == Spec => []RecoversSnapshot
<1>1. IInv /\ Awaited => RecoversSnapshot
  BY IInvImplies
<1> QED BY <1>1, IInvAlways, PTL

(* The documented bound: as long as no write fails, whenever a key is      *)
(* awaited fewer than SyncFreq modifications of a buffer cannot be         *)
(* recovered, however many the commands made at a time and however many    *)
(* buffers they are spread over.                                           *)
THEOREM FewLostAlways == Spec => []FewLost
<1>1. IInv /\ Awaited => FewLost
  BY IInvImplies
<1> QED BY <1>1, IInvAlways, PTL

(* After one signal, at any moment, even in the middle of a sync, every    *)
(* modified buffer can be recovered as it was, the line being edited       *)
(* included, as long as no write fails and no second signal comes.         *)
THEOREM SignalLosesNothingAlways == Spec => []SignalLosesNothing
<1>1. IInv /\ Awaited => SignalLosesNothing
  BY IInvImplies
<1> QED BY <1>1, IInvAlways, PTL

=============================================================================
