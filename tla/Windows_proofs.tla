---------------------------- MODULE Windows_proofs ----------------------------
(***************************************************************************)
(* Proofs of the invariants of Windows.  The first part is about heights,  *)
(* the second about buffers and the routines that work on the record of    *)
(* the state, the last about the commands.                                 *)
(***************************************************************************)
EXTENDS Windows, Loops, SequenceTheorems, FiniteSetTheorems

-----------------------------------------------------------------------------
(* Heights.                                                                *)

Window == [buf : Struct, h : Nat]

(* f[k] is the height of the first k windows.                              *)
Partial(w, f) ==
  /\ f \in [0..Len(w) -> Int]
  /\ f[0] = 0
  /\ \A k \in 1..Len(w) : f[k] = f[k - 1] + w[k].h

(* There are such sums.                                                    *)
LEMMA PartialExists ==
  ASSUME NEW w \in Seq(Window)
  PROVE  \E f : Partial(w, f)
<1>1. Len(w) \in Nat /\ \A k \in 1..Len(w) : w[k].h \in Nat
  <2>1. \A k \in 1..Len(w) : w[k] \in Window
    OBVIOUS
  <2> QED BY <2>1 DEF Window
<1> DEFINE G == [p \in (1..Len(w)) \X Int |-> p[2] + w[p[1]].h]
<1>2. \A k \in 1..Len(w), x \in Int : G[<<k, x>>] = x + w[k].h
  OBVIOUS
<1>3. G \in [(1..Len(w)) \X Int -> Int]
  BY <1>1
<1> HIDE DEF G
<1>4. PICK g, S, d, n : g = G /\ S = Int /\ d = 0 /\ n = Len(w)
  OBVIOUS
<1>5. n \in Nat /\ d \in S /\ g \in [(1..n) \X S -> S]
  BY <1>1, <1>3, <1>4
<1>6. PICK f : IsLoop(f, n, S, d, g)
  BY ONLY <1>5, LoopExists
<1>7. f \in [0..Len(w) -> Int] /\ f[0] = 0
  BY <1>4, <1>6 DEF IsLoop
<1>8. ASSUME NEW k \in 1..Len(w) PROVE f[k] = f[k - 1] + w[k].h
  <2>1. f[k] = G[<<k, f[k - 1]>>]
    BY <1>4, <1>6 DEF IsLoop
  <2>2. f[k - 1] \in Int
    BY <1>1, <1>7
  <2> QED BY <2>1, <2>2, <1>2
<1> QED BY <1>7, <1>8 DEF Partial

(* The height is the last of them.                                         *)
LEMMA HeightIs ==
  ASSUME NEW w \in Seq(Window), NEW f, Partial(w, f)
  PROVE  Height(w) = f[Len(w)]
<1> DEFINE Def(g) == [k \in 0..Len(w) |-> IF k = 0 THEN 0 ELSE g[k - 1] + w[k].h]
           E == CHOOSE g : g = Def(g)
<1>1. Height(w) = E[Len(w)]
  BY DEF Height
<1>2. Len(w) \in Nat
  OBVIOUS
<1>3. f = Def(f)
  <2>1. \A k \in 0..Len(w) : f[k] = Def(f)[k]
    <3> TAKE k \in 0..Len(w)
    <3>1. CASE k = 0
      BY <3>1 DEF Partial
    <3>2. CASE k # 0
      <4>1. k \in 1..Len(w)
        BY <3>2, <1>2
      <4> QED BY <4>1, <3>2 DEF Partial
    <3> QED BY <3>1, <3>2
  <2>2. f = [k \in 0..Len(w) |-> f[k]]
    BY DEF Partial
  <2> QED BY <2>1, <2>2
<1>4. E = Def(E)
  <2> HIDE DEF Def
  <2> QED BY <1>3
<1>5. E[0] = 0 /\ \A k \in 1..Len(w) : E[k] = E[k - 1] + w[k].h
  <2> HIDE DEF E
  <2>1. \A k \in 0..Len(w) : E[k] = IF k = 0 THEN 0 ELSE E[k - 1] + w[k].h
    BY <1>4
  <2>2. 0 \in 0..Len(w) /\ \A k \in 1..Len(w) : k \in 0..Len(w) /\ k # 0
    BY <1>2
  <2> QED BY ONLY <2>1, <2>2
<1> HIDE DEF E
<1> DEFINE T == {k \in 0..Len(w) : E[k] = f[k]}
<1>6. 0 \in T
  BY <1>2, <1>5 DEF Partial
<1>7. ASSUME NEW k \in 1..Len(w), k - 1 \in T PROVE k \in T
  <2>1. k \in 0..Len(w) /\ E[k - 1] = f[k - 1]
    BY <1>2, <1>7
  <2>2. f[k] = f[k - 1] + w[k].h /\ E[k] = E[k - 1] + w[k].h
    BY <1>5 DEF Partial
  <2> QED BY <2>1, <2>2
<1>8. Len(w) \in T
  <2> HIDE DEF T
  <2>1. \A k \in 0..Len(w) : k \in T
    BY <1>2, <1>6, <1>7, EachTurn
  <2> QED BY <2>1, <1>2
<1> QED BY <1>1, <1>8

(* The height of windows is a number.                                      *)
LEMMA HeightInt ==
  ASSUME NEW w \in Seq(Window)
  PROVE  \E f : Partial(w, f) /\ Height(w) = f[Len(w)] /\ Height(w) \in Int
<1>1. PICK f : Partial(w, f)
  BY PartialExists
<1>2. Height(w) = f[Len(w)]
  BY <1>1, HeightIs
<1> QED BY <1>1, <1>2 DEF Partial

(* A single window.                                                        *)
LEMMA HeightOne ==
  ASSUME NEW w \in Seq(Window), Len(w) = 1
  PROVE  Height(w) = w[1].h
<1> PICK x : x = w[1].h
  OBVIOUS
<1>1. x \in Nat
  <2>1. 1 \in 1..Len(w)
    OBVIOUS
  <2>2. w[1] \in Window
    BY ONLY <2>1, w \in Seq(Window), ElementOfSeq
  <2> QED BY <2>2 DEF Window
<1> DEFINE f == [k \in 0..1 |-> IF k = 0 THEN 0 ELSE x]
<1>2. f \in [0..Len(w) -> Int] /\ f[0] = 0 /\ f[1] = x
  BY <1>1
<1> HIDE DEF f
<1>3. Partial(w, f)
  <2>1. ASSUME NEW k \in 1..Len(w) PROVE f[k] = f[k - 1] + w[k].h
    <3>1. k = 1
      OBVIOUS
    <3> QED BY <3>1, <1>1, <1>2
  <2> QED BY <2>1, <1>2 DEF Partial
<1> QED BY <1>2, <1>3, HeightIs

(* Windows of the same heights, but for one.                               *)
LEMMA HeightChanged ==
  ASSUME NEW w \in Seq(Window), NEW v \in Seq(Window), Len(v) = Len(w), NEW i \in 1..Len(w),
         \A k \in 1..Len(w) : k # i => v[k].h = w[k].h
  PROVE  Height(v) = Height(w) + v[i].h - w[i].h
<1>1. PICK f : Partial(w, f) /\ Height(w) = f[Len(w)]
  BY HeightInt
<1>2. w[i].h \in Nat /\ v[i].h \in Nat /\ Len(w) \in Nat
  <2>1. w[i] \in Window /\ v[i] \in Window
    OBVIOUS
  <2> QED BY <2>1 DEF Window
<1> PICK x : x = v[i].h - w[i].h
  OBVIOUS
<1>3. x \in Int /\ v[i].h = w[i].h + x
  BY <1>2
<1> DEFINE g == [k \in 0..Len(v) |-> IF k < i THEN f[k] ELSE f[k] + x]
<1>4. \A k \in 0..Len(v) : g[k] = IF k < i THEN f[k] ELSE f[k] + x
  OBVIOUS
<1>5. g \in [0..Len(v) -> Int]
  BY <1>1, <1>3 DEF Partial
<1> HIDE DEF g
<1>6. \A k \in 0..Len(w) : f[k] \in Int
  BY <1>1 DEF Partial
<1>7. Partial(v, g)
  <2>1. g[0] = 0
    BY <1>1, <1>2, <1>4 DEF Partial
  <2>2. ASSUME NEW k \in 1..Len(v) PROVE g[k] = g[k - 1] + v[k].h
    <3>1. f[k] = f[k - 1] + w[k].h
      BY <1>1 DEF Partial
    <3>2. k \in 0..Len(v) /\ k - 1 \in 0..Len(v) /\ f[k] \in Int /\ f[k - 1] \in Int
      BY <1>2, <1>6
    <3>3. CASE k = i
      <4>1. g[k] = f[k] + x /\ g[k - 1] = f[k - 1]
        BY <3>2, <3>3, <1>4
      <4>2. PICK p, q, r, y : p = f[k - 1] /\ q = f[k] /\ r = w[i].h /\ y = v[k].h
        OBVIOUS
      <4>3. p \in Int /\ r \in Nat /\ x \in Int /\ q = p + r /\ y = r + x
        BY <4>2, <3>1, <3>2, <3>3, <1>2, <1>3
      <4>4. g[k] = q + x /\ g[k - 1] = p /\ v[k].h = y
        BY <4>1, <4>2
      <4> QED BY ONLY <4>3, <4>4
    <3>4. CASE k < i
      <4>1. g[k] = f[k] /\ g[k - 1] = f[k - 1]
        BY <3>2, <3>4, <1>4
      <4> QED BY <4>1, <3>1, <3>4
    <3>5. CASE k > i
      <4>1. g[k] = f[k] + x /\ g[k - 1] = f[k - 1] + x
        BY <3>2, <3>5, <1>4
      <4>2. v[k].h = w[k].h /\ w[k].h \in Nat
        <5>1. w[k] \in Window
          OBVIOUS
        <5> QED BY <5>1, <3>5 DEF Window
      <4> QED BY <4>1, <4>2, <3>1, <3>2, <1>3
    <3> QED BY <3>3, <3>4, <3>5
  <2> QED BY <2>1, <2>2, <1>5 DEF Partial
<1>8. Height(v) = g[Len(v)]
  BY <1>7, HeightIs
<1>9. g[Len(v)] = f[Len(w)] + x /\ f[Len(w)] \in Int
  BY <1>2, <1>4, <1>6
<1> QED BY <1>1, <1>2, <1>3, <1>8, <1>9

(* One window less.                                                        *)
LEMMA HeightRemoved ==
  ASSUME NEW w \in Seq(Window), NEW v \in Seq(Window), NEW i \in 1..Len(w),
         Len(v) = Len(w) - 1, \A k \in 1..Len(v) : v[k] = w[IF k < i THEN k ELSE k + 1]
  PROVE  Height(v) = Height(w) - w[i].h
<1>1. PICK f : Partial(w, f) /\ Height(w) = f[Len(w)]
  BY HeightInt
<1> PICK x : x = w[i].h
  OBVIOUS
<1>2. x \in Nat /\ Len(w) \in Nat
  <2>1. w[i] \in Window
    OBVIOUS
  <2> QED BY <2>1 DEF Window
<1> DEFINE g == [k \in 0..Len(v) |-> IF k < i THEN f[k] ELSE f[k + 1] - x]
<1>4. \A k \in 0..Len(v) : g[k] = IF k < i THEN f[k] ELSE f[k + 1] - x
  OBVIOUS
<1>6. \A k \in 0..Len(w) : f[k] \in Int
  BY <1>1 DEF Partial
<1>5. g \in [0..Len(v) -> Int]
  <2>1. ASSUME NEW k \in 0..Len(v) PROVE g[k] \in Int
    <3>1. CASE k < i
      <4>1. k \in 0..Len(w)
        BY <1>2
      <4>2. f[k] \in Int /\ g[k] = f[k]
        BY <4>1, <3>1, <1>4, <1>6
      <4> QED BY ONLY <4>2
    <3>2. CASE ~ (k < i)
      <4>1. k + 1 \in 0..Len(w)
        BY <1>2
      <4>2. PICK y : y = f[k + 1]
        OBVIOUS
      <4>3. y \in Int /\ g[k] = y - x /\ x \in Nat
        BY <4>1, <4>2, <3>2, <1>2, <1>4, <1>6
      <4> QED BY ONLY <4>3
    <3> QED BY <3>1, <3>2
  <2> QED BY <2>1
<1> HIDE DEF g
<1>7. Partial(v, g)
  <2>1. g[0] = 0
    BY <1>1, <1>2, <1>4 DEF Partial
  <2>2. ASSUME NEW k \in 1..Len(v) PROVE g[k] = g[k - 1] + v[k].h
    <3>2. k \in 0..Len(v) /\ k - 1 \in 0..Len(v) /\ k \in 1..Len(w) /\ k + 1 \in 1..Len(w)
          /\ k + 1 - 1 = k
      BY <1>2
    <3>1. f[k] = f[k - 1] + w[k].h /\ f[k + 1] = f[k] + w[k + 1].h
      BY <1>1, <3>2 DEF Partial
    <3>3. f[k] \in Int /\ f[k - 1] \in Int /\ f[k + 1] \in Int
      BY <1>2, <1>6, <3>2
    <3>h. w[k].h \in Nat /\ w[k + 1].h \in Nat
      <4>1. w[k] \in Window /\ w[k + 1] \in Window
        BY <3>2
      <4> QED BY <4>1 DEF Window
    <3>4. CASE k < i
      <4>1. g[k] = f[k] /\ g[k - 1] = f[k - 1]
        BY <3>2, <3>4, <1>4
      <4>2. v[k].h = w[k].h
        BY <3>4
      <4> QED BY <4>1, <4>2, <3>1
    <3>5. CASE k = i
      <4>0. ~ (k < i) /\ k - 1 < i
        BY ONLY <3>5, <1>2, k \in 1..Len(v), Len(v) = Len(w) - 1
      <4>1. g[k] = f[k + 1] - x /\ g[k - 1] = f[k - 1]
        BY ONLY <4>0, <3>2, <1>4
      <4>2. v[k].h = w[k + 1].h /\ x = w[k].h
        BY <4>0, <3>5
      <4>3. PICK p, q, r, y : p = f[k - 1] /\ q = f[k] /\ r = f[k + 1] /\ y = v[k].h
        OBVIOUS
      <4>4. p \in Int /\ x \in Nat /\ y \in Nat /\ q = p + x /\ r = q + y
        BY ONLY <4>2, <4>3, <3>1, <3>3, <3>h
      <4>5. g[k] = r - x /\ g[k - 1] = p /\ v[k].h = y
        BY ONLY <4>1, <4>3
      <4> QED BY ONLY <4>4, <4>5
    <3>6. CASE k > i
      <4>1. g[k] = f[k + 1] - x /\ g[k - 1] = f[k] - x
        BY <3>2, <3>6, <1>4
      <4>2. v[k].h = w[k + 1].h
        BY <3>6
      <4>3. PICK p, q, y : p = f[k] /\ q = f[k + 1] /\ y = w[k + 1].h
        OBVIOUS
      <4>4. p \in Int /\ q = p + y /\ y \in Nat /\ g[k] = q - x /\ g[k - 1] = p - x /\ v[k].h = y
        BY <4>1, <4>2, <4>3, <3>1, <3>3, <3>h
      <4> QED BY ONLY <4>4, <1>2
    <3> QED BY <3>4, <3>5, <3>6
  <2> QED BY <2>1, <2>2, <1>5 DEF Partial
<1>8. Height(v) = g[Len(v)]
  BY <1>7, HeightIs
<1>9. g[Len(v)] = f[Len(w)] - x
  <2>1. CASE Len(v) < i
    <3>1. Len(w) = i /\ Len(v) = i - 1 /\ g[Len(v)] = f[i - 1]
      BY <2>1, <1>2, <1>4
    <3>2. f[i] = f[i - 1] + w[i].h
      BY <1>1 DEF Partial
    <3>3. i - 1 \in 0..Len(w)
      BY <1>2
    <3> QED BY <3>1, <3>2, <3>3, <1>2, <1>6
  <2>2. CASE Len(v) >= i
    BY <2>2, <1>2, <1>4
  <2> QED BY <2>1, <2>2, <1>2
<1> QED BY <1>1, <1>8, <1>9

(* A window divided: n new ones below it, of one height.                   *)
LEMMA HeightDivided ==
  ASSUME NEW w \in Seq(Window), NEW v \in Seq(Window), NEW i \in 1..Len(w), NEW n \in Nat,
         NEW a \in Nat, Len(v) = Len(w) + n,
         \A k \in 1..Len(v) : v[k].h = IF k < i THEN w[k].h
                                       ELSE IF k = i THEN w[i].h - n * a
                                       ELSE IF k <= i + n THEN a ELSE w[k - n].h
  PROVE  Height(v) = Height(w)
<1>1. PICK f : Partial(w, f) /\ Height(w) = f[Len(w)]
  BY HeightInt
<1>2. Len(w) \in Nat /\ Len(v) \in Nat /\ i \in Nat /\ \A k \in 0..Len(w) : f[k] \in Int
  <2>1. Len(w) \in Nat /\ Len(v) \in Nat /\ i \in Nat
    OBVIOUS
  <2> QED BY <2>1, <1>1 DEF Partial
<1> PICK na : na = n * a
  OBVIOUS
<1>3. na \in Int
  OBVIOUS
<1> DEFINE g == [k \in 0..Len(v) |-> IF k < i THEN f[k]
                                     ELSE IF k <= i + n THEN f[i] - na + (k - i) * a ELSE f[k - n]]
<1>4. \A k \in 0..Len(v) : g[k] = IF k < i THEN f[k]
                                  ELSE IF k <= i + n THEN f[i] - na + (k - i) * a ELSE f[k - n]
  OBVIOUS
<1>5. g \in [0..Len(v) -> Int]
  <2>1. ASSUME NEW k \in 0..Len(v) PROVE g[k] \in Int
    <3>1. CASE k < i
      BY <3>1, <1>2, <1>4
    <3>2. CASE k >= i /\ k <= i + n
      <4>1. (k - i) * a \in Int /\ f[i] \in Int
        BY <1>2
      <4> QED BY <4>1, <3>2, <1>3, <1>4
    <3>3. CASE k > i + n
      <4>1. k - n \in 0..Len(w)
        BY <3>3, <1>2
      <4> QED BY <4>1, <3>3, <1>2, <1>4
    <3> QED BY <3>1, <3>2, <3>3
  <2> QED BY <2>1
<1> HIDE DEF g
<1>7. Partial(v, g)
  <2>1. g[0] = 0
    <3>1. 0 \in 0..Len(v) /\ 0 < i /\ f[0] = 0
      BY <1>1, <1>2 DEF Partial
    <3> QED BY ONLY <3>1, <1>4
  <2>2. ASSUME NEW k \in 1..Len(v) PROVE g[k] = g[k - 1] + v[k].h
    <3>1. k \in Nat /\ k \in 0..Len(v) /\ k - 1 \in 0..Len(v)
      BY <1>2
    <3>2. CASE k < i
      <4>1. f[k] = f[k - 1] + w[k].h
        BY <3>2, <1>1 DEF Partial
      <4>0. k - 1 < i
        BY <3>1, <3>2, <1>2
      <4>2. g[k] = f[k] /\ g[k - 1] = f[k - 1]
        BY ONLY <4>0, <3>1, <3>2, <1>4
      <4>3. v[k].h = w[k].h
        BY <3>2
      <4> QED BY <4>1, <4>2, <4>3
    <3>3. CASE k = i
      <4>0. i \in 0..Len(w) /\ i - 1 \in 0..Len(w)
        BY <1>2
      <4>1. f[i] = f[i - 1] + w[i].h /\ f[i - 1] \in Int /\ f[i] \in Int
        BY <4>0, <1>1, <1>2 DEF Partial
      <4>2. g[k] = f[i] - na + 0 * a /\ g[k - 1] = f[i - 1] /\ v[k].h = w[i].h - na
        BY <3>1, <3>3, <1>4
      <4>3. w[i].h \in Nat
        <5>1. w[i] \in Window
          OBVIOUS
        <5> QED BY <5>1 DEF Window
      <4>4. PICK p, q, r : p = f[i - 1] /\ q = f[i] /\ r = w[i].h
        OBVIOUS
      <4>5. p \in Int /\ r \in Nat /\ q = p + r /\ na \in Int
        BY ONLY <4>1, <4>3, <4>4, <1>3
      <4>6. g[k] = q - na + 0 * a /\ g[k - 1] = p /\ v[k].h = r - na
        BY ONLY <4>2, <4>4
      <4>7. 0 * a = 0
        BY ONLY a \in Nat
      <4> QED BY ONLY <4>5, <4>6, <4>7
    <3>4. CASE k > i /\ k <= i + n
      <4>0. ~ (k < i) /\ k <= i + n /\ ~ (k - 1 < i) /\ k - 1 <= i + n
        BY <3>1, <3>4, <1>2
      <4>a. g[k] = f[i] - na + (k - i) * a
        BY ONLY <4>0, <3>1, <1>4
      <4>b. g[k - 1] = f[i] - na + (k - 1 - i) * a
        BY ONLY <4>0, <3>1, <1>4
      <4>c. v[k].h = a
        BY <4>0, <3>4
      <4>1. g[k] = f[i] - na + (k - i) * a /\ g[k - 1] = f[i] - na + (k - 1 - i) * a /\ v[k].h = a
        BY <4>a, <4>b, <4>c
      <4>2. PICK m : m = k - 1 - i
        OBVIOUS
      <4>3. m \in Int /\ k - i = m + 1
        BY ONLY <4>2, i \in Nat, k \in Nat
      <4>4. (m + 1) * a = m * a + a /\ m * a \in Int
        BY ONLY <4>3, a \in Nat
      <4>5. PICK p, z : p = f[i] - na /\ z = m * a
        OBVIOUS
      <4>6. p \in Int
        BY <4>5, <1>2, <1>3
      <4>7. g[k] = p + (z + a) /\ g[k - 1] = p + z
        BY ONLY <4>1, <4>2, <4>3, <4>4, <4>5
      <4>8. z \in Int /\ a \in Nat
        BY <4>4, <4>5
      <4> QED BY ONLY <4>1, <4>6, <4>7, <4>8
    <3>5. CASE k = i + n + 1
      <4>1. g[k - 1] = f[i] - na + n * a /\ g[k] = f[i + 1] /\ v[k].h = w[i + 1].h
        BY <3>1, <3>5, <1>4
      <4>2. i + 1 \in 1..Len(w) /\ i + 1 - 1 = i
        BY <3>5, <1>2
      <4>p. f[i + 1] = f[i + 1 - 1] + w[i + 1].h
        BY ONLY <4>2, <1>1 DEF Partial
      <4>i. i \in 0..Len(w)
        BY ONLY <1>2, i \in 1..Len(w)
      <4>3. f[i + 1] = f[i] + w[i + 1].h /\ f[i] \in Int
        BY ONLY <4>2, <4>p, <4>i, <1>2
      <4>4. PICK p, z : p = f[i] /\ z = w[i + 1].h
        OBVIOUS
      <4>5. p \in Int /\ na \in Int /\ n * a = na /\ g[k - 1] = p - na + n * a /\ g[k] = p + z
        BY <4>1, <4>3, <4>4, <1>3
      <4>6. g[k - 1] = p
        BY ONLY <4>5
      <4> QED BY ONLY <4>1, <4>4, <4>5, <4>6
    <3>6. CASE k > i + n + 1
      <4>0. ~ (k < i) /\ ~ (k = i) /\ ~ (k <= i + n) /\ ~ (k - 1 < i) /\ ~ (k - 1 <= i + n)
        BY <3>1, <3>6, <1>2
      <4>1. g[k - 1] = f[k - 1 - n] /\ g[k] = f[k - n]
        BY ONLY <4>0, <3>1, <1>4
      <4>2. v[k].h = w[k - n].h
        BY <4>0
      <4>3. k - n \in 1..Len(w) /\ k - n - 1 = k - 1 - n
        BY <3>6, <1>2
      <4>4. PICK j : j = k - n
        OBVIOUS
      <4>5. f[j] = f[j - 1] + w[j].h
        BY <4>3, <4>4, <1>1 DEF Partial
      <4>6. j - 1 = k - 1 - n
        BY <4>3, <4>4
      <4> QED BY ONLY <4>1, <4>2, <4>4, <4>5, <4>6
    <3>7. k < i \/ k = i \/ (k > i /\ k <= i + n) \/ k = i + n + 1 \/ k > i + n + 1
      BY ONLY <3>1, <1>2, n \in Nat
    <3> QED BY <3>2, <3>3, <3>4, <3>5, <3>6, <3>7
  <2> QED BY <2>1, <2>2, <1>5 DEF Partial
<1>8. Height(v) = g[Len(v)]
  BY <1>7, HeightIs
<1>9. g[Len(v)] = f[Len(w)]
  <2>1. CASE i = Len(w)
    <3>1. g[Len(v)] = f[i] - na + n * a
      BY <2>1, <1>2, <1>4
    <3> QED BY <3>1, <2>1, <1>2, <1>3
  <2>2. CASE i < Len(w)
    <3>1. Len(v) \in 0..Len(v) /\ ~ (Len(v) < i) /\ ~ (Len(v) <= i + n) /\ Len(v) - n = Len(w)
      BY <2>2, <1>2
    <3> QED BY ONLY <3>1, <1>4
  <2> QED BY <2>1, <2>2, <1>2
<1> QED BY <1>1, <1>8, <1>9

(* Windows scaled to less than their share.                                *)
LEMMA HeightScaled ==
  ASSUME NEW w \in Seq(Window), NEW v \in Seq(Window), Len(v) = Len(w),
         NEW old \in Nat, old > 0, NEW new \in Nat, Height(w) = old,
         \A k \in 1..Len(w) : v[k].h = (new * w[k].h) \div old
  PROVE  Height(v) <= new
<1>1. PICK f : Partial(w, f) /\ Height(w) = f[Len(w)]
  BY HeightInt
<1>2. PICK g : Partial(v, g) /\ Height(v) = g[Len(v)]
  BY HeightInt
<1>3. /\ Len(w) \in Nat
      /\ \A k \in 0..Len(w) : f[k] \in Int /\ g[k] \in Int
      /\ \A k \in 1..Len(w) : w[k].h \in Nat /\ v[k].h \in Nat
  <2>1. Len(w) \in Nat /\ \A k \in 0..Len(w) : f[k] \in Int /\ g[k] \in Int
    <3>1. Len(w) \in Nat
      OBVIOUS
    <3> QED BY <3>1, <1>1, <1>2 DEF Partial
  <2>2. ASSUME NEW k \in 1..Len(w) PROVE w[k].h \in Nat /\ v[k].h \in Nat
    <3>1. w[k] \in Window /\ v[k] \in Window
      OBVIOUS
    <3> QED BY <3>1 DEF Window
  <2> QED BY <2>1, <2>2
<1> DEFINE T == {k \in 0..Len(w) : old * g[k] <= new * f[k]}
<1>4. 0 \in T
  <2>1. f[0] = 0 /\ g[0] = 0 /\ 0 \in 0..Len(w)
    BY <1>1, <1>2, <1>3 DEF Partial
  <2> QED BY <2>1
<1>5. ASSUME NEW k \in 1..Len(w), k - 1 \in T PROVE k \in T
  <2>1. PICK x, y, p, q : x = f[k - 1] /\ y = g[k - 1] /\ p = w[k].h /\ q = v[k].h
    OBVIOUS
  <2>2. x \in Int /\ y \in Int /\ p \in Nat /\ q \in Nat /\ old * y <= new * x
    <3>1. k - 1 \in 0..Len(w)
      BY <1>3
    <3> QED BY <3>1, <1>3, <1>5, <2>1
  <2>3. f[k] = x + p /\ g[k] = y + q /\ q = (new * p) \div old
    BY <1>1, <1>2, <2>1 DEF Partial
  <2>4. old * q <= new * p
    <3>1. PICK z : z = new * p
      OBVIOUS
    <3>2. z \in Nat
      BY ONLY <3>1, <2>2, new \in Nat
    <3>3. old * (z \div old) <= z
      BY ONLY <3>2, old \in Nat, old > 0
    <3> QED BY <3>1, <3>3, <2>3
  <2>5. old * (y + q) = old * y + old * q /\ new * (x + p) = new * x + new * p
    BY ONLY <2>2, old \in Nat, new \in Nat
  <2>6. old * y \in Int /\ old * q \in Int /\ new * x \in Int /\ new * p \in Int
    BY ONLY <2>2, old \in Nat, new \in Nat
  <2>7. old * (y + q) <= new * (x + p)
    BY ONLY <2>2, <2>4, <2>5, <2>6
  <2> QED BY <2>3, <2>7, <1>3
<1>6. old * g[Len(w)] <= new * f[Len(w)]
  <2> HIDE DEF T
  <2>1. \A k \in 0..Len(w) : k \in T
    BY <1>3, <1>4, <1>5, EachTurn
  <2> QED BY <2>1, <1>3 DEF T
<1>7. PICK x : x = g[Len(w)]
  OBVIOUS
<1>8. x \in Int /\ old * x <= new * old
  BY <1>1, <1>3, <1>6, <1>7
<1>9. x <= new
  BY ONLY <1>8, old \in Nat, old > 0, new \in Nat
<1> QED BY <1>2, <1>7, <1>9

-----------------------------------------------------------------------------
(* The record of the state.                                                *)

Maybe == Struct \cup {NULL}
BufName == {<<>>, Mainbuf, Minibuf, BufferList} \cup (UserName \X {0}) \cup (File \X (0..NBufs))
FileName == File \cup {NoFile}
BufType == {"none", "file", "scratch"}

Rec ==
  [world : Seq(Struct), free : Seq(Struct), name : [Struct -> BufName],
   file : [Struct -> FileName], type : [Struct -> BufType], cur : Struct, last : Maybe,
   mini : Maybe, wins : Seq(Window), win : Nat, asking : BOOLEAN, saveb : Maybe,
   hung : BOOLEAN]

Once(q) == \A i, j \in DOMAIN q : q[i] = q[j] => i = j

(* Buffers that exist and those that have been deleted are the first ones, *)
(* each once, and no two that exist have the same name.                    *)
Books(s) ==
  /\ Len(s.world) >= 1
  /\ Once(s.world) /\ Once(s.free)
  /\ ToSet(s.world) \cap ToSet(s.free) = {}
  /\ ToSet(s.world) \cup ToSet(s.free) = 1..(Len(s.world) + Len(s.free))
  /\ Len(s.world) + Len(s.free) <= NBufs + 2
  /\ \A b, c \in ToSet(s.world) : s.name[b] = s.name[c] => b = c

(* What a routine may rely on and leaves: whatever leads to a buffer leads *)
(* to one of X, and the windows are of height H.                           *)
Pointers(s, X) ==
  /\ s.cur \in X /\ s.last \in X \cup {NULL} /\ s.saveb \in X \cup {NULL}
  /\ s.asking => s.mini \in X

Panes(wins, X, H) ==
  /\ \A w \in 1..Len(wins) : wins[w].buf \in X /\ wins[w].h >= 2
  /\ Height(wins) = H

Good(s, X, H) ==
  /\ s \in Rec /\ Books(s)
  /\ ToSet(s.world) \subseteq X /\ X \subseteq Struct
  /\ s.win \in 1..Len(s.wins)
  /\ Panes(s.wins, X, H) /\ Pointers(s, X)

(* The buffers there are, and their names, are the same.                   *)
SameBooks(s, t) ==
  t.world = s.world /\ t.free = s.free /\ t.name = s.name /\ t.file = s.file

(* NULL is no buffer.                                                      *)
LEMMA NullFacts == NULL \notin Struct /\ Struct \subseteq Nat
BY BoundsAssumption DEF NULL, Struct

(* Where the parts of the state are.                                       *)
LEMMA GoodFacts ==
  ASSUME NEW s, NEW X, NEW H, Good(s, X, H)
  PROVE  /\ s \in Rec /\ s.cur \in X /\ s.cur \in Struct /\ s.cur # NULL
         /\ s.wins \in Seq(Window) /\ Len(s.wins) \in Nat /\ Len(s.wins) >= 1
         /\ s.win \in 1..Len(s.wins) /\ s.win \in Nat
         /\ \A w \in 1..Len(s.wins) : s.wins[w] \in Window /\ s.wins[w].buf \in X
                                      /\ s.wins[w].h \in Nat /\ s.wins[w].h >= 2
<1>1. s \in Rec /\ s.cur \in X /\ s.cur \in Struct /\ s.win \in 1..Len(s.wins)
  BY DEF Good, Pointers
<1>2. s.wins \in Seq(Window)
  BY <1>1 DEF Rec
<1>3. \A w \in 1..Len(s.wins) : s.wins[w] \in Window /\ s.wins[w].buf \in X /\ s.wins[w].h >= 2
  BY <1>2 DEF Good, Panes
<1>4. \A w \in 1..Len(s.wins) : s.wins[w].h \in Nat
  BY <1>3 DEF Window
<1>5. Len(s.wins) \in Nat /\ Len(s.wins) >= 1 /\ s.win \in Nat
  BY <1>1, <1>2
<1>6. s.cur # NULL
  BY <1>1, NullFacts
<1> QED BY <1>1, <1>2, <1>3, <1>4, <1>5, <1>6

(* Only what leads to buffers is changed, but not in the windows.          *)
LEMMA GoodPointers ==
  ASSUME NEW s, NEW X, NEW H, Good(s, X, H), NEW t, t \in Rec, SameBooks(s, t),
         t.wins = s.wins, t.win \in 1..Len(s.wins), Pointers(t, X)
  PROVE  Good(t, X, H)
<1>1. Books(t) /\ ToSet(t.world) = ToSet(s.world)
  BY DEF Good, Books, SameBooks
<1> QED BY <1>1 DEF Good

(* Or only in the windows.                                                 *)
LEMMA GoodPanes ==
  ASSUME NEW s, NEW X, NEW H, Good(s, X, H), NEW t, t \in Rec, SameBooks(s, t),
         t.cur = s.cur, t.last = s.last, t.mini = s.mini, t.asking = s.asking, t.saveb = s.saveb,
         NEW K, t.win \in 1..Len(t.wins), Panes(t.wins, X, K)
  PROVE  Good(t, X, K)
<1>1. Books(t) /\ ToSet(t.world) = ToSet(s.world)
  BY DEF Good, Books, SameBooks
<1>2. Pointers(t, X)
  BY DEF Good, Pointers
<1> QED BY <1>1, <1>2 DEF Good

(* The buffer of a window is changed.                                      *)
TiesOnly(s, t) ==
  /\ SameBooks(s, t) /\ t.cur = s.cur /\ t.last = s.last /\ t.mini = s.mini
  /\ t.asking = s.asking /\ t.saveb = s.saveb /\ t.hung = s.hung /\ t.win = s.win
  /\ t.type = s.type

(* tiewind, to a buffer of X.                                              *)
LEMMA TieWind ==
  ASSUME NEW s, NEW X, NEW H, Good(s, X, H), NEW w \in 1..Len(s.wins), NEW b \in X,
         NEW t, t = tiewind(s, w, b)
  PROVE  /\ Good(t, X, H) /\ TiesOnly(s, t) /\ Len(t.wins) = Len(s.wins)
         /\ t.wins[w].buf = b
         /\ \A k \in 1..Len(s.wins) : k # w => t.wins[k] = s.wins[k]
         /\ \A k \in 1..Len(s.wins) : t.wins[k].h = s.wins[k].h
<1>1. s \in Rec /\ s.wins \in Seq(Window) /\ Len(s.wins) \in Nat /\ s.win \in 1..Len(s.wins)
      /\ \A k \in 1..Len(s.wins) : s.wins[k] \in Window /\ s.wins[k].buf \in X /\ s.wins[k].h >= 2
  BY GoodFacts
<1>2. b \in Struct
  BY DEF Good
<1>3. PICK v : v = [s.wins EXCEPT ![w].buf = b]
  OBVIOUS
<1>4. [s.wins[w] EXCEPT !.buf = b] \in Window
      /\ [s.wins[w] EXCEPT !.buf = b].h = s.wins[w].h /\ [s.wins[w] EXCEPT !.buf = b].buf = b
  BY <1>1, <1>2 DEF Window
<1>5. v \in Seq(Window) /\ Len(v) = Len(s.wins)
      /\ v[w] = [s.wins[w] EXCEPT !.buf = b] /\ \A k \in 1..Len(s.wins) : k # w => v[k] = s.wins[k]
  BY <1>1, <1>3, <1>4
<1>6. t = [s EXCEPT !.wins = v]
  BY <1>3 DEF tiewind
<1>7. t \in Rec /\ t.wins = v /\ TiesOnly(s, t)
  BY <1>1, <1>5, <1>6 DEF Rec, TiesOnly, SameBooks
<1>10. \A k \in 1..Len(s.wins) : v[k].h = s.wins[k].h
  BY <1>4, <1>5
<1>8. Panes(v, X, H)
  <2>1. \A k \in 1..Len(s.wins) : v[k].h = s.wins[k].h
    BY <1>10
  <2>2. Height(v) = Height(s.wins) + v[w].h - s.wins[w].h
    BY <1>1, <1>5, <2>1, HeightChanged
  <2>3. Height(s.wins) \in Int /\ Height(s.wins) = H /\ s.wins[w].h \in Nat /\ v[w].h = s.wins[w].h
    BY <1>1, <2>1, HeightInt DEF Good, Panes, Window
  <2>4. Height(v) = H
    BY ONLY <2>2, <2>3
  <2>5. \A k \in 1..Len(v) : v[k].buf \in X /\ v[k].h >= 2
    BY <1>1, <1>4, <1>5
  <2> QED BY <2>4, <2>5 DEF Panes
<1>9. Good(t, X, H)
  <2>1. t.win \in 1..Len(t.wins) /\ Panes(t.wins, X, H)
    BY <1>1, <1>5, <1>7, <1>8 DEF TiesOnly
  <2> QED BY <1>7, <2>1, GoodPanes DEF TiesOnly
<1> QED BY <1>4, <1>5, <1>7, <1>9, <1>10

-----------------------------------------------------------------------------
(* Routines that make another buffer or window the current one.            *)

(* SetBuf, to a buffer of X or NULL.                                       *)
LEMMA GoodSetBuf ==
  ASSUME NEW s, NEW X, NEW H, Good(s, X, H), NEW b \in X \cup {NULL}, NEW t, t = SetBuf(s, b)
  PROVE  /\ Good(t, X, H) /\ SameBooks(s, t) /\ t.wins = s.wins /\ t.win = s.win
         /\ t.cur = (IF b = NULL THEN s.cur ELSE b) /\ t.last = s.last /\ t.mini = s.mini
         /\ t.asking = s.asking /\ t.saveb = s.saveb /\ t.hung = s.hung /\ t.type = s.type
<1>1. s \in Rec /\ s.win \in 1..Len(s.wins) /\ Pointers(s, X)
  BY DEF Good
<1>2. CASE b = NULL
  BY <1>2 DEF SetBuf, SameBooks
<1>3. CASE b # NULL
  <2>1. t = [s EXCEPT !.cur = b] /\ b \in X /\ b \in Struct
    BY <1>3 DEF SetBuf, Good
  <2>2. t \in Rec /\ SameBooks(s, t) /\ t.wins = s.wins /\ t.win = s.win
        /\ t.cur = b /\ t.last = s.last /\ t.mini = s.mini
        /\ t.asking = s.asking /\ t.saveb = s.saveb /\ t.hung = s.hung /\ t.type = s.type
    BY <1>1, <2>1 DEF Rec, SameBooks
  <2>3. Pointers(t, X)
    BY <1>1, <2>1, <2>2 DEF Pointers
  <2>4. Good(t, X, H)
    BY <1>1, <2>2, <2>3, GoodPointers
  <2> QED BY <1>3, <2>2, <2>4
<1> QED BY <1>2, <1>3

(* SetABuf, likewise.                                                      *)
LEMMA GoodSetABuf ==
  ASSUME NEW s, NEW X, NEW H, Good(s, X, H), NEW b \in X \cup {NULL}, NEW t, t = SetABuf(s, b)
  PROVE  /\ Good(t, X, H) /\ SameBooks(s, t) /\ t.wins = s.wins /\ t.win = s.win
         /\ t.cur = s.cur /\ t.last \in X \cup {NULL} /\ t.mini = s.mini
         /\ t.asking = s.asking /\ t.saveb = s.saveb /\ t.hung = s.hung /\ t.type = s.type
<1>1. s \in Rec /\ s.win \in 1..Len(s.wins) /\ Pointers(s, X)
  BY DEF Good
<1>2. CASE b = NULL
  BY <1>1, <1>2 DEF SetABuf, SameBooks, Pointers
<1>3. CASE b # NULL
  <2>1. t = [s EXCEPT !.last = b] /\ b \in X /\ b \in Maybe
    BY <1>3 DEF SetABuf, Good, Maybe
  <2>2. t \in Rec /\ SameBooks(s, t) /\ t.wins = s.wins /\ t.win = s.win
        /\ t.cur = s.cur /\ t.last = b /\ t.mini = s.mini
        /\ t.asking = s.asking /\ t.saveb = s.saveb /\ t.hung = s.hung /\ t.type = s.type
    BY <1>1, <2>1 DEF Rec, SameBooks
  <2>3. Pointers(t, X)
    BY <1>1, <2>1, <2>2 DEF Pointers
  <2>4. Good(t, X, H)
    BY <1>1, <2>2, <2>3, GoodPointers
  <2> QED BY <2>1, <2>2, <2>4
<1> QED BY <1>2, <1>3

(* The current window is left: it keeps the current buffer.                *)
Keeps(s, t) ==
  /\ TiesOnly(s, t) /\ Len(t.wins) = Len(s.wins)
  /\ ~s.asking => t.wins[t.win].buf = t.cur
  /\ \A k \in 1..Len(s.wins) : k # s.win => t.wins[k] = s.wins[k]
  /\ \A k \in 1..Len(s.wins) : t.wins[k].h = s.wins[k].h
  /\ s.asking => t = s

(* What SetWind does first: the window left keeps the current buffer.      *)
LEMMA GoodLeave ==
  ASSUME NEW s, NEW X, NEW H, Good(s, X, H), NEW t, t = Leave(s)
  PROVE  Good(t, X, H) /\ Keeps(s, t)
<1>1. s.cur \in X /\ s.cur # NULL /\ s.win \in 1..Len(s.wins)
  BY GoodFacts
<1>2. CASE s.asking
  <2>1. t = s
    BY <1>2 DEF Leave
  <2>2. Keeps(s, t)
    BY ONLY <1>2, <2>1 DEF Keeps, TiesOnly, SameBooks
  <2> QED BY <2>1, <2>2
<1>3. CASE ~s.asking
  <2>1. t = tiewind(s, s.win, s.cur)
    BY <1>1, <1>3 DEF Leave
  <2>2. /\ Good(t, X, H) /\ TiesOnly(s, t) /\ Len(t.wins) = Len(s.wins)
        /\ t.wins[s.win].buf = s.cur
        /\ \A k \in 1..Len(s.wins) : k # s.win => t.wins[k] = s.wins[k]
        /\ \A k \in 1..Len(s.wins) : t.wins[k].h = s.wins[k].h
    BY <1>1, <2>1, TieWind
  <2>3. Keeps(s, t)
    BY ONLY <1>3, <2>2 DEF Keeps, TiesOnly
  <2> QED BY <2>2, <2>3
<1> QED BY <1>2, <1>3

(* Another window becomes the current one.                                 *)
GoesTo(s, t, w) ==
  /\ SameBooks(s, t) /\ Len(t.wins) = Len(s.wins) /\ t.win = w
  /\ t.last = s.last /\ t.mini = s.mini /\ t.asking = s.asking /\ t.saveb = s.saveb
  /\ t.hung = s.hung /\ t.type = s.type
  /\ ~s.asking => t.wins[w].buf = t.cur
  /\ \A k \in 1..Len(s.wins) : k # s.win => t.wins[k] = s.wins[k]
  /\ \A k \in 1..Len(s.wins) : t.wins[k].h = s.wins[k].h

(* SetWind: the window gone to shows what is then current.                 *)
LEMMA GoodSetWind ==
  ASSUME NEW s, NEW X, NEW H, Good(s, X, H), NEW w \in 1..Len(s.wins), NEW t, t = SetWind(s, w)
  PROVE  Good(t, X, H) /\ GoesTo(s, t, w)
<1>1. PICK u : u = Leave(s)
  OBVIOUS
<1>2. /\ Good(u, X, H) /\ TiesOnly(s, u) /\ Len(u.wins) = Len(s.wins)
      /\ ~s.asking => u.wins[u.win].buf = u.cur
      /\ \A k \in 1..Len(s.wins) : k # s.win => u.wins[k] = s.wins[k]
      /\ \A k \in 1..Len(s.wins) : u.wins[k].h = s.wins[k].h
  <2>1. Good(u, X, H) /\ Keeps(s, u)
    BY <1>1, GoodLeave
  <2> QED BY <2>1 DEF Keeps
<1>3. CASE w = s.win
  <2>1. t = u
    BY <1>1, <1>3 DEF SetWind
  <2> QED BY <1>2, <1>3, <2>1 DEF GoesTo, TiesOnly
<1>4. CASE w # s.win
  <2>1. PICK b : b = u.wins[w].buf
    OBVIOUS
  <2>2. b \in X /\ b # NULL
    <3>1. w \in 1..Len(u.wins)
      BY <1>2
    <3>2. b \in X
      BY <1>2, <2>1, <3>1, GoodFacts
    <3>3. X \subseteq Struct
      BY DEF Good
    <3> QED BY <3>2, <3>3, NullFacts
  <2>3. PICK v : v = SetBuf(u, b)
    OBVIOUS
  <2>4. /\ Good(v, X, H) /\ SameBooks(u, v) /\ v.wins = u.wins /\ v.win = u.win
        /\ v.cur = b /\ v.last = u.last /\ v.mini = u.mini
        /\ v.asking = u.asking /\ v.saveb = u.saveb /\ v.hung = u.hung /\ v.type = u.type
    BY <1>2, <2>2, <2>3, GoodSetBuf
  <2>5. t = [v EXCEPT !.win = w]
    BY <1>1, <1>4, <2>1, <2>3 DEF SetWind
  <2>6. v \in Rec /\ w \in Nat
    BY <2>4 DEF Good
  <2>7. t \in Rec /\ SameBooks(v, t) /\ t.wins = v.wins /\ t.win = w /\ t.cur = v.cur
        /\ t.last = v.last /\ t.mini = v.mini
        /\ t.asking = v.asking /\ t.saveb = v.saveb /\ t.hung = v.hung /\ t.type = v.type
    BY <2>5, <2>6 DEF Rec, SameBooks
  <2>8. Good(t, X, H)
    <3>1. Pointers(t, X)
      BY <2>4, <2>7 DEF Good, Pointers
    <3>2. t.win \in 1..Len(v.wins)
      BY <1>2, <2>4, <2>7
    <3> QED BY <2>4, <2>7, <3>1, <3>2, GoodPointers
  <2>9. GoesTo(s, t, w)
    <3>1. SameBooks(s, t) /\ t.last = s.last /\ t.mini = s.mini /\ t.asking = s.asking
          /\ t.saveb = s.saveb /\ t.hung = s.hung /\ t.type = s.type
      BY <1>2, <2>4, <2>7 DEF TiesOnly, SameBooks
    <3>2. t.wins = u.wins /\ t.win = w /\ t.cur = b
      BY <2>4, <2>7
    <3> QED BY <3>1, <3>2, <1>2, <2>1 DEF GoesTo
  <2> QED BY <2>8, <2>9
<1> QED BY <1>3, <1>4

(* The windows before and after a window are windows.                      *)
LEMMA Around ==
  ASSUME NEW s, NEW X, NEW H, Good(s, X, H), NEW w \in 1..Len(s.wins)
  PROVE  w_next(s, w) \in 1..Len(s.wins) /\ w_prev(s, w) \in 1..Len(s.wins)
<1>1. Len(s.wins) \in Nat /\ Len(s.wins) >= 1
  BY GoodFacts
<1> QED BY <1>1 DEF w_next, w_prev

-----------------------------------------------------------------------------
(* Looking for buffers.                                                    *)

(* The least of a set of numbers is one of them.                           *)
LEMMA MinFacts ==
  ASSUME NEW I, I \subseteq Nat, I # {}
  PROVE  Min(I) \in I /\ \A x \in I : Min(I) <= x
<1>1. \E x \in I : \A y \in I : x <= y
  BY Least
<1> QED BY <1>1 DEF Min

(* A buffer by its place in the list.                                      *)
LEMMA NthFacts ==
  ASSUME NEW s, s \in Rec, NEW k \in 0..Len(s.world)
  PROVE  IF k = 0 THEN NthBuf(s, k) = NULL
         ELSE NthBuf(s, k) = s.world[k] /\ NthBuf(s, k) \in ToSet(s.world)
<1>1. s.world \in Seq(Struct)
  BY DEF Rec
<1> QED BY <1>1 DEF NthBuf, ToSet

(* A buffer of that name, if there is one.                                 *)
LEMMA BufExists ==
  ASSUME NEW s, s \in Rec, NEW n, NEW b, b = buf_exists(s, n)
  PROVE  \/ b = NULL /\ \A c \in ToSet(s.world) : s.name[c] # n
         \/ b # NULL /\ b \in ToSet(s.world) /\ s.name[b] = n
<1>1. s.world \in Seq(Struct)
  BY DEF Rec
<1>2. PICK I : I = {k \in 1..Len(s.world) : s.name[s.world[k]] = n}
  OBVIOUS
<1>3. PICK k : k = IF I # {} THEN Min(I) ELSE 0
  OBVIOUS
<1>4. b = NthBuf(s, k)
  BY <1>2, <1>3 DEF buf_exists, SelectInSeq
<1>5. CASE I = {}
  <2>1. b = NULL
    BY <1>3, <1>4, <1>5 DEF NthBuf
  <2>2. \A c \in ToSet(s.world) : s.name[c] # n
    BY <1>1, <1>2, <1>5 DEF ToSet
  <2> QED BY <2>1, <2>2
<1>6. CASE I # {}
  <2>1. k \in I
    <3>1. I \subseteq Nat /\ k = Min(I)
      BY <1>2, <1>3, <1>6
    <3> QED BY ONLY <3>1, <1>6, MinFacts
  <2>2. k \in 1..Len(s.world) /\ s.name[s.world[k]] = n /\ s.world[k] \in Struct
    BY <1>1, <1>2, <2>1
  <2>3. b = s.world[k]
    BY <1>4, <2>2 DEF NthBuf
  <2>4. b \in ToSet(s.world) /\ b # NULL
    BY <1>1, <2>2, <2>3, NullFacts DEF ToSet
  <2> QED BY <2>2, <2>3, <2>4
<1> QED BY <1>5, <1>6

(* do_stat finds the buffer of a file, or that there is none.              *)
LEMMA Visiting ==
  ASSUME NEW s, s \in Rec, NEW n, NEW b, b = visiting(s, n)
  PROVE  \/ b = NULL /\ \A c \in ToSet(s.world) : s.file[c] # n
         \/ b # NULL /\ b \in ToSet(s.world) /\ s.file[b] = n
<1>1. s.world \in Seq(Struct)
  BY DEF Rec
<1>2. PICK I : I = {k \in 1..Len(s.world) : s.file[s.world[k]] = n}
  OBVIOUS
<1>3. PICK k : k = IF I # {} THEN Min(I) ELSE 0
  OBVIOUS
<1>4. b = NthBuf(s, k)
  BY <1>2, <1>3 DEF visiting, SelectInSeq
<1>5. CASE I = {}
  <2>1. b = NULL
    BY <1>3, <1>4, <1>5 DEF NthBuf
  <2>2. \A c \in ToSet(s.world) : s.file[c] # n
    BY <1>1, <1>2, <1>5 DEF ToSet
  <2> QED BY <2>1, <2>2
<1>6. CASE I # {}
  <2>1. k \in I
    <3>1. I \subseteq Nat /\ k = Min(I)
      BY <1>2, <1>3, <1>6
    <3> QED BY ONLY <3>1, <1>6, MinFacts
  <2>2. k \in 1..Len(s.world) /\ s.file[s.world[k]] = n /\ s.world[k] \in Struct
    BY <1>1, <1>2, <2>1
  <2>3. b = s.world[k]
    BY <1>4, <2>2 DEF NthBuf
  <2>4. b \in ToSet(s.world) /\ b # NULL
    BY <1>1, <2>2, <2>3, NullFacts DEF ToSet
  <2> QED BY <2>2, <2>3, <2>4
<1> QED BY <1>5, <1>6

(* The buffer after that one in the list.                                  *)
LEMMA BNext ==
  ASSUME NEW s, s \in Rec, Once(s.world), NEW b \in ToSet(s.world), NEW c, c = b_next(s, b)
  PROVE  c \in ToSet(s.world) \cup {NULL} /\ c # b
<1>1. s.world \in Seq(Struct)
  BY DEF Rec
<1>2. PICK I : I = {k \in 1..Len(s.world) : s.world[k] = b}
  OBVIOUS
<1>3. I # {}
  BY <1>1, <1>2 DEF ToSet
<1>4. PICK k : k = Min(I)
  OBVIOUS
<1>5. k \in 1..Len(s.world) /\ s.world[k] = b
  <2>1. I \subseteq Nat
    BY <1>2
  <2>2. k \in I
    BY ONLY <1>3, <1>4, <2>1, MinFacts
  <2> QED BY <1>2, <2>2
<1>6. c = IF k = Len(s.world) THEN NULL ELSE s.world[k + 1]
  BY <1>2, <1>3, <1>4 DEF b_next, SelectInSeq
<1>7. CASE k = Len(s.world)
  <2>1. b \in Struct
    BY <1>1, <1>5
  <2> QED BY <1>6, <1>7, <2>1, NullFacts
<1>8. CASE k # Len(s.world)
  <2>1. k + 1 \in 1..Len(s.world) /\ k + 1 # k
    BY <1>1, <1>5, <1>8
  <2> QED BY <1>1, <1>5, <1>6, <1>8, <2>1 DEF Once, ToSet
<1> QED BY <1>7, <1>8

-----------------------------------------------------------------------------
(* Lists in which a buffer is at most once.                                *)

(* Putting one more behind a list that has each of its own once.           *)
LEMMA AppendOnce ==
  ASSUME NEW S, NEW q \in Seq(S), NEW b \in S, NEW r, r = Append(q, b)
  PROVE  /\ r \in Seq(S) /\ Len(r) = Len(q) + 1 /\ ToSet(r) = {b} \cup ToSet(q)
         /\ Once(q) /\ b \notin ToSet(q) => Once(r)
<1>1. r \in Seq(S) /\ Len(r) = Len(q) + 1 /\ Len(q) \in Nat /\ r[Len(q) + 1] = b
      /\ \A i \in 1..Len(q) : r[i] = q[i]
  OBVIOUS
<1>2. DOMAIN q = 1..Len(q) /\ DOMAIN r = 1..Len(q) + 1
  BY <1>1
<1>3. \A i \in 1..Len(q) + 1 : i \in 1..Len(q) \/ i = Len(q) + 1
  BY <1>1
<1>4. Len(q) + 1 \in 1..Len(q) + 1 /\ \A i \in 1..Len(q) : i \in 1..Len(q) + 1
  BY <1>1
<1>5. ToSet(r) = ToSet(q) \cup {b}
  BY ONLY <1>1, <1>2, <1>3, <1>4 DEF ToSet
<1>6. ASSUME Once(q), b \notin ToSet(q) PROVE Once(r)
  <2>1. \A i \in 1..Len(q) : q[i] # b
    BY ONLY <1>2, <1>6 DEF ToSet
  <2> QED BY ONLY <2>1, <1>1, <1>2, <1>3, <1>6 DEF Once
<1> QED BY <1>1, <1>5, <1>6

(* Taking the first off such a list.                                       *)
LEMMA TailOnce ==
  ASSUME NEW S, NEW q \in Seq(S), q # <<>>, Once(q), NEW r, r = Tail(q)
  PROVE  /\ r \in Seq(S) /\ Len(r) = Len(q) - 1 /\ Once(r)
         /\ Head(q) \in ToSet(q) /\ ToSet(r) = ToSet(q) \ {Head(q)}
<1>1. r \in Seq(S) /\ Len(q) \in Nat /\ Len(q) >= 1 /\ Len(r) = Len(q) - 1 /\ Head(q) = q[1]
      /\ \A i \in 1..Len(r) : r[i] = q[i + 1]
  OBVIOUS
<1>2. DOMAIN q = 1..Len(q) /\ DOMAIN r = 1..Len(q) - 1
  BY <1>1
<1>3. \A i \in 1..Len(q) - 1 : i + 1 \in 1..Len(q) /\ i + 1 # 1
  BY <1>1
<1>4. Once(r)
  <2>1. ASSUME NEW i \in 1..Len(q) - 1, NEW j \in 1..Len(q) - 1, r[i] = r[j] PROVE i = j
    <3>1. q[i + 1] = q[j + 1] /\ i + 1 \in 1..Len(q) /\ j + 1 \in 1..Len(q)
      BY <1>1, <1>3, <2>1
    <3>2. i + 1 = j + 1
      BY <3>1, <1>2 DEF Once
    <3> QED BY <3>2
  <2> QED BY <2>1, <1>2 DEF Once
<1>5. 1 \in 1..Len(q) /\ Head(q) \in ToSet(q)
  BY <1>1, <1>2 DEF ToSet
<1>6. \A i \in 1..Len(q) : i # 1 => i - 1 \in 1..Len(q) - 1 /\ r[i - 1] = q[i]
  BY <1>1
<1>7. ASSUME NEW x \in ToSet(r) PROVE x \in ToSet(q) /\ x # Head(q)
  <2>1. PICK i \in 1..Len(q) - 1 : x = r[i]
    BY <1>2 DEF ToSet
  <2>2. x = q[i + 1] /\ i + 1 \in 1..Len(q) /\ i + 1 # 1
    BY <2>1, <1>1, <1>3
  <2> QED BY <2>2, <1>1, <1>2, <1>5 DEF ToSet, Once
<1>8. ASSUME NEW x \in ToSet(q), x # Head(q) PROVE x \in ToSet(r)
  <2>1. PICK i \in 1..Len(q) : x = q[i]
    BY <1>2 DEF ToSet
  <2>2. i - 1 \in 1..Len(q) - 1 /\ r[i - 1] = x
    BY <2>1, <1>1, <1>6, <1>8
  <2> QED BY <2>2, <1>2 DEF ToSet
<1> QED BY <1>1, <1>4, <1>5, <1>7, <1>8

(* r is q with b in front.                                                 *)
Prepended(q, b, r) ==
  /\ Len(r) = Len(q) + 1 /\ ToSet(r) = {b} \cup ToSet(q)
  /\ Once(q) /\ b \notin ToSet(q) => Once(r)

(* Putting one in front of it.                                             *)
LEMMA ConsOnce ==
  ASSUME NEW S, NEW q, q \in Seq(S), NEW b, b \in S, NEW r, r = <<b>> \o q
  PROVE  r \in Seq(S) /\ Prepended(q, b, r)
<1>1. r \in Seq(S) /\ Len(r) = Len(q) + 1 /\ Len(q) \in Nat /\ r[1] = b
      /\ \A i \in 1..Len(q) : r[i + 1] = q[i]
  OBVIOUS
<1>2. DOMAIN q = 1..Len(q) /\ DOMAIN r = 1..Len(q) + 1
  BY <1>1
<1>3. 1 \in 1..Len(q) + 1 /\ \A i \in 1..Len(q) : i + 1 \in 1..Len(q) + 1
  BY <1>1
<1>4. \A i \in 1..Len(q) + 1 : i # 1 => i - 1 \in 1..Len(q) /\ r[i] = q[i - 1]
  <2> TAKE i \in 1..Len(q) + 1
  <2> HAVE i # 1
  <2>1. i - 1 \in 1..Len(q) /\ (i - 1) + 1 = i
    BY <1>1
  <2> QED BY <2>1, <1>1
<1>5. ToSet(r) = ToSet(q) \cup {b}
  <2>1. ASSUME NEW x \in ToSet(r) PROVE x \in ToSet(q) \cup {b}
    <3>1. PICK i \in 1..Len(q) + 1 : x = r[i]
      BY <1>2 DEF ToSet
    <3> QED BY <3>1, <1>1, <1>2, <1>4 DEF ToSet
  <2>2. ASSUME NEW x \in ToSet(q) PROVE x \in ToSet(r)
    <3>1. PICK i \in 1..Len(q) : x = q[i]
      BY <1>2 DEF ToSet
    <3> QED BY <3>1, <1>1, <1>2, <1>3 DEF ToSet
  <2>3. b \in ToSet(r)
    BY <1>1, <1>2, <1>3 DEF ToSet
  <2> QED BY <2>1, <2>2, <2>3
<1>6. ASSUME Once(q), b \notin ToSet(q) PROVE Once(r)
  <2>1. \A i \in 1..Len(q) : q[i] # b
    BY ONLY <1>2, <1>6 DEF ToSet
  <2>2. ASSUME NEW i \in 1..Len(q) + 1, NEW j \in 1..Len(q) + 1, r[i] = r[j] PROVE i = j
    <3>1. CASE i = 1 \/ j = 1
      BY <3>1, <2>1, <2>2, <1>1, <1>4
    <3>2. CASE i # 1 /\ j # 1
      <4>1. i - 1 \in 1..Len(q) /\ j - 1 \in 1..Len(q) /\ q[i - 1] = q[j - 1]
        BY <3>2, <2>2, <1>4
      <4>2. i - 1 = j - 1
        BY <4>1, <1>2, <1>6 DEF Once
      <4> QED BY <4>2
    <3> QED BY <3>1, <3>2
  <2> QED BY <2>2, <1>2 DEF Once
<1> QED BY <1>1, <1>5, <1>6 DEF Prepended

(* Taking one out of a list.                                               *)
LEMMA RemoveAtFacts ==
  ASSUME NEW S, NEW q \in Seq(S), NEW i \in 1..Len(q), NEW r, r = RemoveAt(q, i)
  PROVE  /\ r \in Seq(S) /\ Len(r) = Len(q) - 1
         /\ \A k \in 1..Len(r) : r[k] = q[IF k < i THEN k ELSE k + 1]
<1>0. Len(q) \in Nat /\ i \in Nat
  OBVIOUS
<1>1. PICK a : a = SubSeq(q, 1, i - 1)
  OBVIOUS
<1>2. a \in Seq(S) /\ Len(a) = i - 1 /\ \A k \in 1..i - 1 : a[k] = q[k]
  BY <1>1, <1>0
<1>3. PICK c : c = SubSeq(q, i + 1, Len(q))
  OBVIOUS
<1>4. c \in Seq(S) /\ Len(c) = Len(q) - i /\ \A k \in 1..Len(q) - i : c[k] = q[i + k]
  <2>1. c \in Seq(S) /\ Len(c) = Len(q) - i
    BY <1>0, <1>3
  <2>2. ASSUME NEW k \in 1..Len(q) - i PROVE c[k] = q[i + k]
    BY <1>0, <1>3
  <2> QED BY <2>1, <2>2
<1>5. r = a \o c
  BY <1>1, <1>3 DEF RemoveAt
<1>6. /\ r \in Seq(S) /\ Len(r) = Len(a) + Len(c)
      /\ \A k \in 1..Len(a) : r[k] = a[k]
      /\ \A k \in 1..Len(c) : r[Len(a) + k] = c[k]
  <2>1. a \in Seq(S) /\ c \in Seq(S)
    BY <1>2, <1>4
  <2> QED BY ONLY <2>1, <1>5
<1>7. Len(r) = Len(q) - 1
  BY <1>0, <1>2, <1>4, <1>6
<1>8. ASSUME NEW k \in 1..Len(r) PROVE r[k] = q[IF k < i THEN k ELSE k + 1]
  <2>1. CASE k < i
    BY <2>1, <1>0, <1>2, <1>6
  <2>2. CASE k >= i
    <3>1. k - (i - 1) \in 1..Len(q) - i /\ (i - 1) + (k - (i - 1)) = k /\ i + (k - (i - 1)) = k + 1
      BY <2>2, <1>0, <1>7
    <3>2. r[k] = c[k - (i - 1)]
      <4>1. PICK j : j = k - (i - 1)
        OBVIOUS
      <4>2. j \in 1..Len(c) /\ (i - 1) + j = k /\ Len(a) = i - 1
        BY <3>1, <4>1, <1>2, <1>4
      <4>3. r[Len(a) + j] = c[j]
        BY ONLY <4>2, <1>6
      <4> QED BY ONLY <4>1, <4>2, <4>3
    <3>3. c[k - (i - 1)] = q[k + 1]
      BY <3>1, <1>4
    <3> QED BY <3>2, <3>3, <2>2, <1>0
  <2> QED BY <2>1, <2>2, <1>0
<1> QED BY <1>6, <1>7, <1>8

(* Taking b out of a list that has each of its own once.                   *)
LEMMA RemoveOnce ==
  ASSUME NEW S, NEW q \in Seq(S), Once(q), NEW b \in ToSet(q), NEW r, r = RemoveFirst(q, b)
  PROVE  r \in Seq(S) /\ Len(r) = Len(q) - 1 /\ Once(r) /\ ToSet(r) = ToSet(q) \ {b}
<1>1. PICK I : I = {k \in 1..Len(q) : q[k] = b}
  OBVIOUS
<1>0. Len(q) \in Nat /\ DOMAIN q = 1..Len(q)
  OBVIOUS
<1>2. I # {} /\ I \subseteq Nat
  BY <1>0, <1>1 DEF ToSet
<1>3. PICK i : i = Min(I)
  OBVIOUS
<1>4. i \in 1..Len(q) /\ q[i] = b
  <2>1. i \in I
    BY ONLY <1>2, <1>3, MinFacts
  <2> QED BY <2>1, <1>1
<1>5. r = RemoveAt(q, i)
  BY <1>1, <1>2, <1>3, <1>4 DEF RemoveFirst, SelectInSeq
<1>6. r \in Seq(S) /\ Len(r) = Len(q) - 1 /\ \A k \in 1..Len(r) : r[k] = q[IF k < i THEN k ELSE k + 1]
  BY <1>4, <1>5, RemoveAtFacts
<1>7. DOMAIN r = 1..Len(q) - 1
  BY <1>6
<1> DEFINE At(k) == IF k < i THEN k ELSE k + 1
<1>8. \A k \in 1..Len(q) - 1 : At(k) \in 1..Len(q) /\ At(k) # i /\ r[k] = q[At(k)]
  BY <1>0, <1>4, <1>6
<1>9. \A k, l \in 1..Len(q) - 1 : At(k) = At(l) => k = l
  BY <1>0, <1>4
<1>10. \A l \in 1..Len(q) : l # i => \E k \in 1..Len(q) - 1 : l = At(k)
  <2> TAKE l \in 1..Len(q)
  <2> HAVE l # i
  <2>1. CASE l < i
    <3>1. l \in 1..Len(q) - 1 /\ l = At(l)
      BY <2>1, <1>0, <1>4
    <3> QED BY <3>1
  <2>2. CASE l > i
    <3>1. l - 1 \in 1..Len(q) - 1 /\ l = At(l - 1)
      BY <2>2, <1>0, <1>4
    <3> QED BY <3>1
  <2> QED BY <2>1, <2>2, <1>4
<1> HIDE DEF At
<1>11. \A k \in 1..Len(q) : q[k] = b => k = i
  BY <1>0, <1>4 DEF Once
<1>12. Once(r)
  <2>1. \A k, l \in 1..Len(q) - 1 : r[k] = r[l] => At(k) = At(l)
    BY <1>0, <1>8 DEF Once
  <2> QED BY ONLY <2>1, <1>7, <1>9 DEF Once
<1>13. ASSUME NEW x \in ToSet(r) PROVE x \in ToSet(q) \ {b}
  <2>1. PICK k \in 1..Len(q) - 1 : x = r[k]
    BY <1>7 DEF ToSet
  <2>2. At(k) \in 1..Len(q) /\ At(k) # i /\ x = q[At(k)]
    BY <2>1, <1>8
  <2> QED BY <2>2, <1>0, <1>11 DEF ToSet
<1>14. ASSUME NEW x \in ToSet(q), x # b PROVE x \in ToSet(r)
  <2>1. PICK l \in 1..Len(q) : x = q[l]
    BY <1>0 DEF ToSet
  <2>2. PICK k \in 1..Len(q) - 1 : l = At(k)
    BY <2>1, <1>4, <1>10, <1>14
  <2>3. r[k] = x
    BY <2>1, <2>2, <1>8
  <2> QED BY <2>3, <1>7 DEF ToSet
<1> QED BY <1>6, <1>12, <1>13, <1>14

-----------------------------------------------------------------------------
(* Buffers that are made.                                                  *)

(* More may lead to buffers.                                               *)
LEMMA Widen ==
  ASSUME NEW s, NEW X, NEW H, Good(s, X, H), NEW Y, X \subseteq Y, Y \subseteq Struct
  PROVE  Good(s, Y, H)
<1>1. Pointers(s, Y)
  BY DEF Good, Pointers
<1>2. Panes(s.wins, Y, H)
  BY DEF Good, Panes
<1> QED BY <1>1, <1>2 DEF Good

(* What else is in the record.                                             *)
SameElse(s, t) ==
  /\ t.cur = s.cur /\ t.last = s.last /\ t.mini = s.mini /\ t.wins = s.wins /\ t.win = s.win
  /\ t.asking = s.asking /\ t.saveb = s.saveb /\ t.hung = s.hung

Makes(s, t, b, n, f) ==
  /\ b \in Struct /\ b \notin ToSet(s.world)
  /\ ToSet(t.world) = ToSet(s.world) \cup {b} /\ Len(t.world) = Len(s.world) + 1
  /\ t.name[b] = n /\ t.file[b] = f
  /\ \A c \in Struct \ {b} : t.name[c] = s.name[c]

(* mak_buf makes a buffer that was not in the list, with a name of its     *)
(* own.                                                                    *)
LEMMA GoodMakBuf ==
  ASSUME NEW s, NEW X, NEW H, Good(s, X, H), Len(s.world) <= NBufs + 1,
         NEW n \in BufName, NEW f \in FileName, \A c \in ToSet(s.world) : s.name[c] # n,
         NEW t, t = mak_buf(s, n, f)
  PROVE  /\ Good(t, X \cup ToSet(t.world), H) /\ SameElse(s, t)
         /\ \E b : Makes(s, t, b, n, f)
<1>0. /\ s \in Rec /\ s.world \in Seq(Struct) /\ s.free \in Seq(Struct)
      /\ Len(s.world) \in Nat /\ Len(s.free) \in Nat /\ Len(s.world) >= 1
      /\ Once(s.world) /\ Once(s.free) /\ ToSet(s.world) \cap ToSet(s.free) = {}
      /\ ToSet(s.world) \cup ToSet(s.free) = 1..(Len(s.world) + Len(s.free))
      /\ Len(s.world) + Len(s.free) <= NBufs + 2
      /\ \A c, d \in ToSet(s.world) : s.name[c] = s.name[d] => c = d
      /\ X \subseteq Struct /\ ToSet(s.world) \subseteq X
  <2>1. s \in Rec /\ Books(s) /\ X \subseteq Struct /\ ToSet(s.world) \subseteq X
    BY DEF Good
  <2>2. s.world \in Seq(Struct) /\ s.free \in Seq(Struct)
    BY <2>1 DEF Rec
  <2>3. Len(s.world) \in Nat /\ Len(s.free) \in Nat
    BY <2>2
  <2> QED BY ONLY <2>1, <2>2, <2>3 DEF Books
<1>1. PICK b : b = IF s.free = <<>> THEN Len(s.world) + 1 ELSE Head(s.free)
  OBVIOUS
<1>2. PICK free : free = IF s.free = <<>> THEN s.free ELSE Tail(s.free)
  OBVIOUS
<1>3. PICK list : list = Append(s.world, b)
  OBVIOUS
<1>4. t = [s EXCEPT !.world = list, !.free = free, !.name[b] = n, !.file[b] = f, !.type[b] = "file"]
  BY <1>1, <1>2, <1>3 DEF mak_buf
<1>5. /\ b \in Struct /\ b \notin ToSet(s.world) /\ b \notin ToSet(free)
      /\ free \in Seq(Struct) /\ Once(free) /\ Len(free) \in Nat
      /\ ToSet(free) \cup {b} \cup ToSet(s.world) = 1..(Len(s.world) + 1 + Len(free))
      /\ ToSet(free) \subseteq ToSet(s.free)
      /\ Len(s.world) + 1 + Len(free) <= NBufs + 2
  <2>1. CASE s.free = <<>>
    <3>1. free = <<>> /\ Len(free) = 0 /\ ToSet(free) = {} /\ b = Len(s.world) + 1 /\ s.free = free
      BY <2>1, <1>1, <1>2 DEF ToSet
    <3>0. Len(s.world) + 0 = Len(s.world) /\ ToSet(s.free) = {} /\ Len(s.free) = 0
      BY <3>1, <1>0
    <3>2. ToSet(s.world) = 1..Len(s.world)
      BY ONLY <3>0, <1>0
    <3>3. b \in Struct /\ b \notin 1..Len(s.world) /\ 1..Len(s.world) \cup {b} = 1..Len(s.world) + 1
      BY <3>1, <1>0, BoundsAssumption DEF Struct
    <3>4. free \in Seq(Struct) /\ Once(free)
      BY <3>1, <1>0, <1>2, <2>1
    <3>5. Len(s.world) + 1 + Len(free) = Len(s.world) + 1 /\ Len(s.world) + 1 <= NBufs + 2
      <4>1. Len(s.world) <= NBufs + 1 /\ NBufs \in Nat
        BY BoundsAssumption
      <4> QED BY ONLY <3>1, <1>0, <4>1
    <3> QED BY <3>1, <3>2, <3>3, <3>4, <3>5
  <2>2. CASE s.free # <<>>
    <3>1. free = Tail(s.free) /\ b = Head(s.free)
      BY <2>2, <1>1, <1>2
    <3>2. /\ free \in Seq(Struct) /\ Len(free) = Len(s.free) - 1 /\ Once(free)
          /\ b \in ToSet(s.free) /\ ToSet(free) = ToSet(s.free) \ {b}
      BY <2>2, <3>1, <1>0, TailOnce
    <3>3. b \in Struct
      BY <3>2, <1>0 DEF ToSet
    <3>4. Len(s.world) + 1 + Len(free) = Len(s.world) + Len(s.free)
      <4>1. PICK x, y, z : x = Len(s.world) /\ y = Len(free) /\ z = Len(s.free)
        OBVIOUS
      <4>2. x \in Nat /\ z \in Nat /\ y = z - 1
        BY <4>1, <3>2, <1>0
      <4>3. x + 1 + y = x + z
        BY ONLY <4>2
      <4> QED BY ONLY <4>1, <4>3
    <3>5. ToSet(free) \cup {b} \cup ToSet(s.world) = ToSet(s.world) \cup ToSet(s.free)
      BY <3>2
    <3>6. b \notin ToSet(s.world) /\ b \notin ToSet(free) /\ Len(free) \in Nat
      BY <3>2, <1>0
    <3> QED BY <3>2, <3>3, <3>4, <3>5, <3>6, <1>0
  <2> QED BY <2>1, <2>2
<1>6. /\ list \in Seq(Struct) /\ Len(list) = Len(s.world) + 1
      /\ ToSet(list) = ToSet(s.world) \cup {b} /\ Once(list)
  <2>1. s.world \in Seq(Struct) /\ b \in Struct /\ b \notin ToSet(s.world) /\ Once(s.world)
    BY <1>0, <1>5
  <2>2. PICK q : q = s.world
    OBVIOUS
  <2>3. q \in Seq(Struct) /\ b \in Struct /\ list = Append(q, b)
    BY <2>1, <2>2, <1>3
  <2>4. /\ list \in Seq(Struct) /\ Len(list) = Len(q) + 1 /\ ToSet(list) = {b} \cup ToSet(q)
        /\ Once(q) /\ b \notin ToSet(q) => Once(list)
    BY ONLY <2>3, AppendOnce
  <2> QED BY ONLY <2>1, <2>2, <2>4
<1>7. /\ t \in Rec /\ t.world = list /\ t.free = free /\ SameElse(s, t)
      /\ t.name = [s.name EXCEPT ![b] = n] /\ t.file = [s.file EXCEPT ![b] = f]
  <2>1. PICK na, fi, ty : /\ na = [s.name EXCEPT ![b] = n] /\ fi = [s.file EXCEPT ![b] = f]
                          /\ ty = [s.type EXCEPT ![b] = "file"]
    OBVIOUS
  <2>2. t = [s EXCEPT !.world = list, !.free = free, !.name = na, !.file = fi, !.type = ty]
    BY <2>1, <1>4
  <2>3. s \in Rec /\ list \in Seq(Struct) /\ free \in Seq(Struct)
    BY <1>0, <1>5, <1>6
  <2>4. s.name \in [Struct -> BufName] /\ s.file \in [Struct -> FileName] /\ s.type \in [Struct -> BufType]
    BY <2>3 DEF Rec
  <2>5. na \in [Struct -> BufName] /\ fi \in [Struct -> FileName] /\ ty \in [Struct -> BufType]
    <3>1. na \in [Struct -> BufName]
      BY <2>1, <2>4
    <3>2. fi \in [Struct -> FileName]
      BY <2>1, <2>4
    <3>3. ty \in [Struct -> BufType]
      BY <2>1, <2>4 DEF BufType
    <3> QED BY <3>1, <3>2, <3>3
  <2>6. t \in Rec
    BY ONLY <2>2, <2>3, <2>5 DEF Rec
  <2>7. t.world = list /\ t.free = free /\ SameElse(s, t) /\ t.name = na /\ t.file = fi
    BY ONLY <2>2, <2>3 DEF Rec, SameElse
  <2> QED BY ONLY <2>1, <2>6, <2>7
<1>8. t.name[b] = n /\ t.file[b] = f /\ \A c \in Struct \ {b} : t.name[c] = s.name[c]
  <2>1. s.name \in [Struct -> BufName] /\ s.file \in [Struct -> FileName]
    BY <1>0 DEF Rec
  <2> QED BY <2>1, <1>5, <1>7
<1>9. Makes(s, t, b, n, f)
  BY <1>5, <1>6, <1>7, <1>8 DEF Makes
<1>10. Books(t)
  <2>1. ASSUME NEW c \in ToSet(list), NEW d \in ToSet(list), t.name[c] = t.name[d] PROVE c = d
    <3>1. ToSet(s.world) \subseteq Struct
      BY <1>0
    <3> QED BY <2>1, <3>1, <1>0, <1>5, <1>6, <1>8
  <2>2. ToSet(list) \cap ToSet(free) = {}
    BY <1>0, <1>5, <1>6
  <2>3. ToSet(list) \cup ToSet(free) = 1..(Len(list) + Len(free))
    BY <1>5, <1>6
  <2>4. Len(list) >= 1 /\ Len(list) + Len(free) <= NBufs + 2 /\ Once(list) /\ Once(free)
    BY ONLY <1>0, <1>5, <1>6
  <2> QED BY ONLY <2>1, <2>2, <2>3, <2>4, <1>7 DEF Books
<1>11. PICK Y : Y = X \cup ToSet(t.world)
  OBVIOUS
<1>12. Y \subseteq Struct /\ X \subseteq Y /\ ToSet(t.world) \subseteq Y
  BY <1>0, <1>5, <1>6, <1>7, <1>11
<1>13. Good(s, Y, H)
  BY <1>12, Widen
<1>14. Good(t, Y, H)
  <2>1. Pointers(t, Y)
    BY <1>7, <1>13 DEF Good, Pointers, SameElse
  <2>2. Panes(t.wins, Y, H) /\ t.win \in 1..Len(t.wins)
    BY <1>7, <1>13 DEF Good, SameElse
  <2> QED BY <2>1, <2>2, <1>7, <1>10, <1>12 DEF Good
<1> QED BY <1>7, <1>9, <1>11, <1>14

(* do_select's buffer: it exists then.                                     *)
Grown(s, t) ==
  /\ ToSet(s.world) \subseteq ToSet(t.world)
  /\ \A c \in ToSet(s.world) : t.name[c] = s.name[c]

Names(s, t, X, H, n) ==
  /\ Good(t, X \cup ToSet(t.world), H) /\ SameElse(s, t) /\ Grown(s, t)
  /\ Len(t.world) <= Len(s.world) + 1
  /\ buf_exists(s, n) # NULL => t = s
  /\ buf_exists(t, n) \in ToSet(t.world) /\ buf_exists(t, n) # NULL
  /\ t.name[buf_exists(t, n)] = n

(* After it there is a buffer of that name.                                *)
LEMMA GoodNamed ==
  ASSUME NEW s, NEW X, NEW H, Good(s, X, H), Len(s.world) <= NBufs + 1,
         NEW n \in BufName, NEW t, t = Named(s, n)
  PROVE  Names(s, t, X, H, n)
<1> SUFFICES /\ Good(t, X \cup ToSet(t.world), H) /\ SameElse(s, t) /\ Grown(s, t)
             /\ Len(t.world) <= Len(s.world) + 1
             /\ buf_exists(s, n) # NULL => t = s
             /\ buf_exists(t, n) \in ToSet(t.world) /\ buf_exists(t, n) # NULL
             /\ t.name[buf_exists(t, n)] = n
  BY DEF Names
<1>0. s \in Rec /\ ToSet(s.world) \subseteq X /\ Len(s.world) \in Nat /\ X \subseteq Struct
  BY DEF Good, Rec
<1>1. CASE buf_exists(s, n) # NULL
  <2>1. t = s
    BY <1>1 DEF Named
  <2>2. X \cup ToSet(s.world) = X
    BY <1>0
  <2>3. buf_exists(s, n) \in ToSet(s.world) /\ s.name[buf_exists(s, n)] = n
    BY <1>0, <1>1, BufExists
  <2>4. Good(t, X \cup ToSet(t.world), H)
    BY <2>1, <2>2
  <2>5. SameElse(s, t) /\ Grown(s, t) /\ Len(t.world) <= Len(s.world) + 1
    BY ONLY <2>1, <1>0 DEF SameElse, Grown
  <2> QED BY ONLY <2>1, <2>3, <2>4, <2>5, <1>1
<1>2. CASE buf_exists(s, n) = NULL
  <2>1. t = mak_buf(s, n, NoFile) /\ NoFile \in FileName
    BY <1>2 DEF Named, FileName
  <2>2. \A c \in ToSet(s.world) : s.name[c] # n
    BY <1>0, <1>2, BufExists
  <2>3. Good(t, X \cup ToSet(t.world), H) /\ SameElse(s, t) /\ \E b : Makes(s, t, b, n, NoFile)
    BY <2>1, <2>2, GoodMakBuf
  <2>4. PICK b : Makes(s, t, b, n, NoFile)
    BY <2>3
  <2>5. t \in Rec /\ b \in ToSet(t.world) /\ t.name[b] = n
    BY <2>3, <2>4 DEF Good, Makes
  <2>6. PICK c : c = buf_exists(t, n)
    OBVIOUS
  <2>7. c \in ToSet(t.world) /\ c # NULL /\ t.name[c] = n
    BY <2>5, <2>6, BufExists
  <2>8. Grown(s, t) /\ Len(t.world) <= Len(s.world) + 1
    <3>1. \A d \in ToSet(s.world) : d \in Struct \ {b}
      BY <2>4, <1>0 DEF Makes
    <3> QED BY <3>1, <2>4, <1>0 DEF Makes, Grown
  <2> QED BY <1>2, <2>3, <2>6, <2>7, <2>8
<1> QED BY <1>1, <1>2

(* bufname finds a name that no buffer has.                                *)
LEMMA BufNameFree ==
  ASSUME NEW s, s \in Rec, Len(s.world) <= NBufs, NEW f \in File, NEW n, n = bufname(s, f)
  PROVE  n \in BufName /\ \A c \in ToSet(s.world) : s.name[c] # n
<1>0. s.world \in Seq(Struct) /\ Len(s.world) \in Nat /\ NBufs \in Nat
  BY BoundsAssumption DEF Rec
<1> DEFINE Free(m) == buf_exists(s, <<f, m>>) = NULL
<1>1. \A m : Free(m) <=> \A c \in ToSet(s.world) : s.name[c] # <<f, m>>
  <2> TAKE m
  <2>1. PICK b : b = buf_exists(s, <<f, m>>)
    OBVIOUS
  <2>2. \/ b = NULL /\ \A c \in ToSet(s.world) : s.name[c] # <<f, m>>
        \/ b # NULL /\ b \in ToSet(s.world) /\ s.name[b] = <<f, m>>
    BY <2>1, BufExists
  <2> QED BY <2>1, <2>2
<1> HIDE DEF Free
<1>2. \E m \in 0..NBufs : Free(m)
  <2> SUFFICES ASSUME \A m \in 0..NBufs : ~Free(m) PROVE FALSE
    OBVIOUS
  <2>1. ASSUME NEW m \in 0..NBufs PROVE \E k \in 1..Len(s.world) : s.name[s.world[k]] = <<f, m>>
    <3>1. PICK c \in ToSet(s.world) : s.name[c] = <<f, m>>
      BY <1>1
    <3> QED BY <3>1, <1>0 DEF ToSet
  <2>2. PICK g : g = [m \in 0..NBufs |-> CHOOSE k \in 1..Len(s.world) : s.name[s.world[k]] = <<f, m>>]
    OBVIOUS
  <2>3. ASSUME NEW m \in 0..NBufs PROVE g[m] \in 1..Len(s.world) /\ s.name[s.world[g[m]]] = <<f, m>>
    <3>1. g[m] = CHOOSE k \in 1..Len(s.world) : s.name[s.world[k]] = <<f, m>>
      BY <2>2
    <3> QED BY <3>1, <2>1
  <2>4. g \in [0..NBufs -> 1..Len(s.world)]
    BY <2>2, <2>3
  <2>5. /\ IsFiniteSet(0..NBufs) /\ Cardinality(0..NBufs) = NBufs + 1
        /\ IsFiniteSet(1..Len(s.world)) /\ Cardinality(1..Len(s.world)) = Len(s.world)
    <3>1. 0 \in Int /\ NBufs \in Int /\ 1 \in Int /\ Len(s.world) \in Int
      BY <1>0
    <3>2. PICK k : k = Len(s.world)
      OBVIOUS
    <3>3. k \in Int /\ k \in Nat
      BY <3>1, <3>2, <1>0
    <3>4. IsFiniteSet(0..NBufs) /\ Cardinality(0..NBufs) = IF 0 > NBufs THEN 0 ELSE NBufs - 0 + 1
      BY ONLY <3>1, FS_Interval
    <3>5. IsFiniteSet(1..k) /\ Cardinality(1..k) = IF 1 > k THEN 0 ELSE k - 1 + 1
      BY ONLY <3>1, <3>3, FS_Interval
    <3>6. Cardinality(0..NBufs) = NBufs + 1
      BY ONLY <3>4, <1>0
    <3>7. Cardinality(1..k) = k
      BY ONLY <3>3, <3>5
    <3> QED BY ONLY <3>2, <3>4, <3>5, <3>6, <3>7
  <2>6. Cardinality(1..Len(s.world)) < Cardinality(0..NBufs)
    <3>1. Len(s.world) <= NBufs
      OBVIOUS
    <3> QED BY ONLY <3>1, <1>0, <2>5
  <2>7. PICK x \in 0..NBufs, y \in 0..NBufs : x # y /\ g[x] = g[y]
    BY <2>4, <2>5, <2>6, FS_PigeonHole
  <2>8. <<f, x>> = <<f, y>>
    BY <2>3, <2>7
  <2> QED BY <2>7, <2>8
<1>3. \E m \in 0..NBufs : Free(m) /\ \A k \in 0..(m - 1) : ~Free(k)
  <2> DEFINE M == {m \in 0..NBufs : Free(m)}
  <2>1. M \subseteq Nat /\ M # {}
    BY <1>2
  <2>2. PICK m \in M : \A k \in M : m <= k
    BY <2>1, Least
  <2>3. ASSUME NEW k \in 0..(m - 1) PROVE ~Free(k)
    <3>1. m \in 0..NBufs /\ k \in 0..NBufs /\ ~ (m <= k)
      BY <1>0
    <3> QED BY <3>1, <2>2
  <2> QED BY <2>3
<1>4. PICK m : m = CHOOSE k \in 0..NBufs : Free(k) /\ \A j \in 0..(k - 1) : ~Free(j)
  OBVIOUS
<1>5. m \in 0..NBufs /\ Free(m)
  BY <1>3, <1>4
<1>6. n = <<f, m>>
  BY <1>4 DEF bufname, Free
<1> QED BY <1>1, <1>5, <1>6 DEF BufName

(* do_find's buffer likewise.                                              *)
LEMMA GoodFound ==
  ASSUME NEW s, NEW X, NEW H, Good(s, X, H), Len(s.world) <= NBufs,
         NEW f \in File, NEW t, t = Found(s, f)
  PROVE  /\ Good(t, X \cup ToSet(t.world), H) /\ SameElse(s, t) /\ Grown(s, t)
         /\ visiting(t, f) \in ToSet(t.world) /\ visiting(t, f) # NULL
<1>0. /\ s \in Rec /\ ToSet(s.world) \subseteq X /\ Len(s.world) \in Nat /\ X \subseteq Struct
      /\ NBufs \in Nat
  BY BoundsAssumption DEF Good, Rec
<1>1. CASE visiting(s, f) # NULL
  <2>1. t = s
    BY <1>1 DEF Found
  <2>2. X \cup ToSet(s.world) = X
    BY <1>0
  <2>3. visiting(s, f) \in ToSet(s.world)
    BY <1>0, <1>1, Visiting
  <2>4. Good(t, X \cup ToSet(t.world), H)
    BY <2>1, <2>2
  <2>5. SameElse(s, t) /\ Grown(s, t)
    BY ONLY <2>1 DEF SameElse, Grown
  <2> QED BY ONLY <2>1, <2>3, <2>4, <2>5, <1>1
<1>2. CASE visiting(s, f) = NULL
  <2>0. PICK n : n = bufname(s, f)
    OBVIOUS
  <2>1. t = mak_buf(s, n, f) /\ f \in FileName
    BY <1>2, <2>0 DEF Found, FileName
  <2>2. n \in BufName /\ \A c \in ToSet(s.world) : s.name[c] # n
    BY <1>0, <2>0, BufNameFree
  <2>9. Len(s.world) <= NBufs + 1
    <3>1. Len(s.world) <= NBufs
      OBVIOUS
    <3> QED BY ONLY <3>1, <1>0
  <2>3. Good(t, X \cup ToSet(t.world), H) /\ SameElse(s, t) /\ \E b : Makes(s, t, b, n, f)
    BY <2>1, <2>2, <2>9, GoodMakBuf
  <2>4. PICK b : Makes(s, t, b, n, f)
    BY <2>3
  <2>5. t \in Rec /\ b \in ToSet(t.world) /\ t.file[b] = f
    BY <2>3, <2>4 DEF Good, Makes
  <2>6. PICK c : c = visiting(t, f)
    OBVIOUS
  <2>7. c \in ToSet(t.world) /\ c # NULL
    BY <2>5, <2>6, Visiting
  <2>8. Grown(s, t)
    <3>1. \A d \in ToSet(s.world) : d \in Struct \ {b}
      BY <2>4, <1>0 DEF Makes
    <3> QED BY <3>1, <2>4, <1>0 DEF Makes, Grown
  <2> QED BY <1>2, <2>3, <2>6, <2>7, <2>8
<1> QED BY <1>1, <1>2

(* A window is to show b, which may just have been made.                   *)
Selects(s, t, w, b) ==
  /\ Grown(s, t) /\ b \in ToSet(t.world)
  /\ Len(t.wins) = Len(s.wins) /\ t.win = s.win /\ t.cur = s.cur /\ t.last = s.last
  /\ t.asking = s.asking /\ t.saveb = s.saveb
  /\ t.wins[w].buf = b
  /\ \A k \in 1..Len(s.wins) : k # w => t.wins[k] = s.wins[k]

(* Tying a window to what has been made.                                   *)
LEMMA TieGrown ==
  ASSUME NEW s, NEW X, NEW H, NEW u, Good(u, X \cup ToSet(u.world), H), SameElse(s, u), Grown(s, u),
         NEW w \in 1..Len(s.wins), NEW b \in ToSet(u.world), NEW t, t = tiewind(u, w, b)
  PROVE  Good(t, X \cup ToSet(t.world), H) /\ SameBooks(u, t) /\ Selects(s, t, w, b)
<1>1. w \in 1..Len(u.wins) /\ u.wins = s.wins
  BY DEF SameElse
<1>2. PICK Y : Y = X \cup ToSet(u.world)
  OBVIOUS
<1>3. Good(u, Y, H) /\ b \in Y
  BY <1>2
<1>4. /\ Good(t, Y, H) /\ TiesOnly(u, t) /\ Len(t.wins) = Len(u.wins)
      /\ t.wins[w].buf = b
      /\ \A k \in 1..Len(u.wins) : k # w => t.wins[k] = u.wins[k]
  BY <1>1, <1>3, TieWind
<1>5. SameBooks(u, t)
  BY <1>4 DEF TiesOnly
<1>6. t.world = u.world /\ t.name = u.name
  BY <1>5 DEF SameBooks
<1>7. Good(t, X \cup ToSet(t.world), H)
  BY <1>2, <1>4, <1>6
<1>8. Selects(s, t, w, b)
  BY ONLY <1>1, <1>4, <1>6, SameElse(s, u), Grown(s, u), b \in ToSet(u.world)
     DEF Selects, SameElse, Grown, TiesOnly
<1> QED BY <1>5, <1>7, <1>8

(* do_select: b is the buffer of name n.                                   *)
Chooses(s, t, w, b, n) ==
  /\ Selects(s, t, w, b)
  /\ t.name[b] = n /\ b # NULL /\ buf_exists(t, n) = b
  /\ Len(t.world) <= Len(s.world) + 1
  /\ buf_exists(s, n) # NULL => SameBooks(s, t)

(* do_select ties a window to the buffer of that name.                     *)
LEMMA GoodSelect ==
  ASSUME NEW s, NEW X, NEW H, Good(s, X, H), Len(s.world) <= NBufs + 1,
         NEW n \in BufName, NEW w \in 1..Len(s.wins),
         NEW b, b = buf_exists(Named(s, n), n), NEW t, t = do_select(s, w, n)
  PROVE  Good(t, X \cup ToSet(t.world), H) /\ Chooses(s, t, w, b, n)
<1>1. PICK u : u = Named(s, n)
  OBVIOUS
<1>2. /\ Good(u, X \cup ToSet(u.world), H) /\ SameElse(s, u) /\ Grown(s, u)
      /\ Len(u.world) <= Len(s.world) + 1
      /\ buf_exists(s, n) # NULL => u = s
      /\ buf_exists(u, n) \in ToSet(u.world) /\ buf_exists(u, n) # NULL
      /\ u.name[buf_exists(u, n)] = n
  <2>1. Names(s, u, X, H, n)
    BY ONLY Good(s, X, H), Len(s.world) <= NBufs + 1, n \in BufName, <1>1, GoodNamed
  <2> QED BY <2>1 DEF Names
<1>3. t = tiewind(u, w, b) /\ b = buf_exists(u, n)
  BY <1>1 DEF do_select, TieNamed
<1>4. b \in ToSet(u.world)
  BY <1>2, <1>3
<1>5. Good(t, X \cup ToSet(t.world), H) /\ SameBooks(u, t) /\ Selects(s, t, w, b)
  BY <1>2, <1>3, <1>4, TieGrown
<1>6. t.name = u.name /\ t.world = u.world
  BY <1>5 DEF SameBooks
<1>7. buf_exists(t, n) = buf_exists(u, n)
  BY <1>6 DEF buf_exists, NthBuf
<1>8. Chooses(s, t, w, b, n)
  BY <1>2, <1>3, <1>5, <1>6, <1>7 DEF Chooses
<1> QED BY <1>5, <1>8

(* do_find.                                                                *)
LEMMA GoodFind ==
  ASSUME NEW s, NEW X, NEW H, Good(s, X, H), Len(s.world) <= NBufs,
         NEW f \in File, NEW w \in 1..Len(s.wins),
         NEW b, NEW t, t = do_find(s, w, f), b = visiting(t, f)
  PROVE  /\ Good(t, X \cup ToSet(t.world), H) /\ Selects(s, t, w, b) /\ b # NULL
<1>1. PICK u : u = Found(s, f)
  OBVIOUS
<1>2. /\ Good(u, X \cup ToSet(u.world), H) /\ SameElse(s, u) /\ Grown(s, u)
      /\ visiting(u, f) \in ToSet(u.world) /\ visiting(u, f) # NULL
  BY <1>1, GoodFound
<1>3. PICK c : c = visiting(u, f)
  OBVIOUS
<1>4. t = tiewind(u, w, c) /\ c \in ToSet(u.world)
  BY <1>1, <1>2, <1>3 DEF do_find, TieFound
<1>5. Good(t, X \cup ToSet(t.world), H) /\ SameBooks(u, t) /\ Selects(s, t, w, c)
  BY <1>2, <1>4, TieGrown
<1>6. t.file = u.file /\ t.world = u.world
  BY <1>5 DEF SameBooks
<1>7. b = c
  BY <1>3, <1>6 DEF visiting, NthBuf
<1> QED BY <1>2, <1>3, <1>5, <1>7

-----------------------------------------------------------------------------
(* Windows that are deleted.                                               *)

Shows(s) == s.wins[s.win].buf = s.cur

(* Window w has gone.                                                      *)
Deletes(s, t, w) ==
  /\ SameBooks(s, t) /\ Len(t.wins) = Len(s.wins) - 1
  /\ t.last = s.last /\ t.asking = s.asking /\ t.saveb = s.saveb
  /\ \A k \in 1..Len(t.wins) : t.wins[k].buf = s.wins[IF k < w THEN k ELSE k + 1].buf
  /\ ~s.asking /\ Shows(s) => Shows(t)

(* Taking a window that is not the current one out of the list.            *)
Cut(s, t, w) ==
  /\ SameBooks(s, t) /\ Len(t.wins) = Len(s.wins) - 1
  /\ t.cur = s.cur /\ t.last = s.last /\ t.asking = s.asking /\ t.saveb = s.saveb
  /\ \A k \in 1..Len(t.wins) : t.wins[k] = s.wins[IF k < w THEN k ELSE k + 1]
  /\ t.wins[t.win] = s.wins[s.win]

(* A window whose height another one has got is taken out.                 *)
LEMMA GoodUnlinked ==
  ASSUME NEW s, NEW X, NEW H, NEW K, Good(s, X, K), NEW w \in 1..Len(s.wins), w # s.win,
         K = H + s.wins[w].h, H \in Int, NEW t, t = Unlinked(s, w)
  PROVE  Good(t, X, H) /\ Cut(s, t, w)
<1>1. /\ s \in Rec /\ s.wins \in Seq(Window) /\ Len(s.wins) \in Nat /\ s.win \in 1..Len(s.wins)
      /\ s.win \in Nat /\ w \in Nat
      /\ \A k \in 1..Len(s.wins) : s.wins[k] \in Window /\ s.wins[k].buf \in X
                                   /\ s.wins[k].h \in Nat /\ s.wins[k].h >= 2
  BY GoodFacts
<1>2. PICK v : v = RemoveAt(s.wins, w)
  OBVIOUS
<1>3. PICK x : x = IF s.win > w THEN s.win - 1 ELSE s.win
  OBVIOUS
<1>4. t = [s EXCEPT !.wins = v, !.win = x]
  BY <1>2, <1>3 DEF Unlinked
<1>5. /\ v \in Seq(Window) /\ Len(v) = Len(s.wins) - 1
      /\ \A k \in 1..Len(v) : v[k] = s.wins[IF k < w THEN k ELSE k + 1]
  <2>1. PICK q : q = s.wins
    OBVIOUS
  <2>2. q \in Seq(Window) /\ w \in 1..Len(q) /\ v = RemoveAt(q, w)
    BY <2>1, <1>1, <1>2
  <2>3. /\ v \in Seq(Window) /\ Len(v) = Len(q) - 1
        /\ \A k \in 1..Len(v) : v[k] = q[IF k < w THEN k ELSE k + 1]
    BY ONLY <2>2, RemoveAtFacts
  <2> QED BY <2>1, <2>3
<1>6. x \in 1..Len(v) /\ x \in Nat /\ v[x] = s.wins[s.win]
  <2>1. x \in 1..Len(s.wins) - 1 /\ x \in Nat
    BY <1>1, <1>3
  <2>2. (IF x < w THEN x ELSE x + 1) = s.win
    BY <1>1, <1>3
  <2>3. x \in 1..Len(v)
    BY <2>1, <1>5
  <2>4. v[x] = s.wins[IF x < w THEN x ELSE x + 1]
    BY ONLY <2>3, <1>5
  <2> QED BY ONLY <2>1, <2>2, <2>3, <2>4
<1>7. /\ t \in Rec /\ SameBooks(s, t) /\ t.cur = s.cur /\ t.last = s.last /\ t.mini = s.mini
      /\ t.asking = s.asking /\ t.saveb = s.saveb /\ t.wins = v /\ t.win = x
  BY <1>1, <1>4, <1>5, <1>6 DEF Rec, SameBooks
<1>8. Panes(v, X, H)
  <2>1. Height(v) = Height(s.wins) - s.wins[w].h
    BY <1>1, <1>5, HeightRemoved
  <2>2. Height(s.wins) = K /\ s.wins[w].h \in Nat
    BY <1>1 DEF Good, Panes
  <2>3. Height(v) = H
    BY <2>1, <2>2
  <2>4. ASSUME NEW k \in 1..Len(v) PROVE v[k].buf \in X /\ v[k].h >= 2
    <3>1. PICK j : j = IF k < w THEN k ELSE k + 1
      OBVIOUS
    <3>2. j \in 1..Len(s.wins) /\ v[k] = s.wins[j]
      BY <3>1, <1>1, <1>5
    <3> QED BY <3>2, <1>1
  <2> QED BY <2>3, <2>4 DEF Panes
<1>9. Good(t, X, H)
  <2>1. t.win \in 1..Len(t.wins) /\ Panes(t.wins, X, H)
    BY <1>6, <1>7, <1>8
  <2> QED BY <1>7, <2>1, GoodPanes
<1>10. Cut(s, t, w)
  BY <1>5, <1>6, <1>7 DEF Cut
<1> QED BY <1>9, <1>10

(* A window that gets x lines more.                                        *)
Raises(s, t, w, x) ==
  /\ TiesOnly(s, t) /\ Len(t.wins) = Len(s.wins)
  /\ \A k \in 1..Len(s.wins) : t.wins[k].buf = s.wins[k].buf
  /\ \A k \in 1..Len(s.wins) : k # w => t.wins[k] = s.wins[k]
  /\ t.wins[w].h = s.wins[w].h + x

Higher(s, w, x) == [s EXCEPT !.wins[w].h = @ + x]

(* A window gets x more lines, or loses them.                              *)
LEMMA GoodHigher ==
  ASSUME NEW s, NEW X, NEW H, Good(s, X, H), NEW w \in 1..Len(s.wins), NEW x \in Int,
         s.wins[w].h + x >= 2, NEW t, t = Higher(s, w, x)
  PROVE  Good(t, X, H + x) /\ Raises(s, t, w, x)
<1>0. t = [s EXCEPT !.wins[w].h = @ + x]
  BY DEF Higher
<1>1. /\ s \in Rec /\ s.wins \in Seq(Window) /\ Len(s.wins) \in Nat /\ s.win \in 1..Len(s.wins)
      /\ \A k \in 1..Len(s.wins) : s.wins[k] \in Window /\ s.wins[k].buf \in X
                                   /\ s.wins[k].h \in Nat /\ s.wins[k].h >= 2
  BY GoodFacts
<1>2. PICK y : y = s.wins[w].h + x
  OBVIOUS
<1>3. y \in Nat /\ y >= 2
  BY <1>1, <1>2
<1>4. PICK v : v = [s.wins EXCEPT ![w].h = y]
  OBVIOUS
<1>5. t = [s EXCEPT !.wins = v]
  BY ONLY <1>0, <1>2, <1>4
<1>6. [s.wins[w] EXCEPT !.h = y] \in Window
      /\ [s.wins[w] EXCEPT !.h = y].h = y /\ [s.wins[w] EXCEPT !.h = y].buf = s.wins[w].buf
  BY <1>1, <1>3 DEF Window
<1>7. /\ v \in Seq(Window) /\ Len(v) = Len(s.wins)
      /\ v[w] = [s.wins[w] EXCEPT !.h = y] /\ \A k \in 1..Len(s.wins) : k # w => v[k] = s.wins[k]
  BY <1>1, <1>4, <1>6
<1>8. t \in Rec /\ t.wins = v /\ TiesOnly(s, t)
  BY <1>1, <1>5, <1>7 DEF Rec, TiesOnly, SameBooks
<1>9. Height(v) = H + x
  <2>1. PICK q : q = s.wins
    OBVIOUS
  <2>2. /\ q \in Seq(Window) /\ v \in Seq(Window) /\ Len(v) = Len(q) /\ w \in 1..Len(q)
        /\ \A k \in 1..Len(q) : k # w => v[k].h = q[k].h
    BY <2>1, <1>1, <1>7
  <2>3. Height(v) = Height(q) + v[w].h - q[w].h
    BY ONLY <2>2, HeightChanged
  <2>4. Height(q) \in Int
    BY ONLY <2>2, HeightInt
  <2>5. Height(q) = H
    BY <2>1 DEF Good, Panes
  <2>6. PICK a : a = q[w].h
    OBVIOUS
  <2>7. v[w].h = y /\ a \in Nat /\ y = a + x
    BY <2>1, <2>6, <1>1, <1>2, <1>6, <1>7
  <2>8. Height(v) = H + y - a /\ H \in Int
    BY ONLY <2>3, <2>4, <2>5, <2>6, <2>7
  <2> QED BY ONLY <2>7, <2>8, x \in Int
<1>10. \A k \in 1..Len(s.wins) : v[k].buf = s.wins[k].buf /\ v[k].buf \in X /\ v[k].h >= 2
  BY <1>1, <1>3, <1>6, <1>7
<1>11. Good(t, X, H + x)
  <2>1. t.win \in 1..Len(t.wins) /\ Panes(t.wins, X, H + x)
    BY <1>1, <1>7, <1>8, <1>9, <1>10 DEF TiesOnly, Panes
  <2> QED BY <1>8, <2>1, GoodPanes DEF TiesOnly
<1>12. Raises(s, t, w, x)
  BY <1>2, <1>6, <1>7, <1>8, <1>10 DEF Raises
<1> QED BY <1>11, <1>12

(* del_wind.                                                               *)
LEMMA GoodDelWind ==
  ASSUME NEW s, NEW X, NEW H, Good(s, X, H), Len(s.wins) >= 2, NEW w \in 1..Len(s.wins),
         NEW t, t = del_wind(s, w)
  PROVE  Good(t, X, H) /\ Deletes(s, t, w)
<1>1. /\ Len(s.wins) \in Nat /\ s.win \in 1..Len(s.wins) /\ w \in Nat /\ s.win \in Nat
      /\ \A k \in 1..Len(s.wins) : s.wins[k].h \in Nat /\ s.wins[k].h >= 2
  BY GoodFacts
<1>0. H \in Int
  <2>1. s.wins \in Seq(Window) /\ Height(s.wins) = H
    BY GoodFacts DEF Good, Panes
  <2> QED BY <2>1, HeightInt
<1>2. PICK heir : heir = IF w = 1 THEN 2 ELSE w - 1
  OBVIOUS
<1>3. heir \in 1..Len(s.wins) /\ heir # w
  BY <1>1, <1>2
<1>4. PICK x : x = s.wins[w].h
  OBVIOUS
<1>5. x \in Int /\ s.wins[heir].h + x >= 2
  BY <1>1, <1>3, <1>4
<1>6. PICK u : u = [s EXCEPT !.wins[heir].h = @ + x]
  OBVIOUS
<1>u. u = Higher(s, heir, x)
  BY <1>6 DEF Higher
<1>7. /\ Good(u, X, H + x) /\ TiesOnly(s, u) /\ Len(u.wins) = Len(s.wins)
      /\ \A k \in 1..Len(s.wins) : u.wins[k].buf = s.wins[k].buf
      /\ \A k \in 1..Len(s.wins) : k # heir => u.wins[k] = s.wins[k]
  <2>1. Good(u, X, H + x) /\ Raises(s, u, heir, x)
    BY ONLY Good(s, X, H), <1>3, <1>5, <1>u, GoodHigher
  <2> QED BY <2>1 DEF Raises
<1>8. PICK v : v = IF s.win = w THEN SetWind(u, heir) ELSE u
  OBVIOUS
<1>9. /\ Good(v, X, H + x) /\ SameBooks(s, v) /\ Len(v.wins) = Len(s.wins)
      /\ v.last = s.last /\ v.asking = s.asking /\ v.saveb = s.saveb
      /\ v.win # w /\ v.wins[w].h = x
      /\ \A k \in 1..Len(s.wins) : k # w => v.wins[k].buf = s.wins[k].buf
      /\ ~s.asking /\ Shows(s) => Shows(v)
  <2>1. CASE s.win = w
    <3>1. v = SetWind(u, heir) /\ heir \in 1..Len(u.wins)
      BY <2>1, <1>3, <1>7, <1>8
    <3>2. Good(v, X, H + x) /\ GoesTo(u, v, heir)
      BY <3>1, <1>7, GoodSetWind
    <3>3. /\ SameBooks(s, v) /\ Len(v.wins) = Len(s.wins) /\ v.win = heir
          /\ v.last = s.last /\ v.asking = s.asking /\ v.saveb = s.saveb
          /\ ~s.asking => v.wins[heir].buf = v.cur
          /\ \A k \in 1..Len(s.wins) : k # w => v.wins[k] = u.wins[k]
          /\ \A k \in 1..Len(s.wins) : v.wins[k].h = u.wins[k].h
      BY <2>1, <3>2, <1>7 DEF GoesTo, TiesOnly, SameBooks
    <3> QED BY <3>2, <3>3, <1>3, <1>4, <1>7 DEF Shows
  <2>2. CASE s.win # w
    <3>1. v = u
      BY <2>2, <1>8
    <3> QED BY <2>2, <3>1, <1>1, <1>3, <1>4, <1>7 DEF Shows, TiesOnly
  <2> QED BY <2>1, <2>2
<1>10. t = Unlinked(v, w)
  BY <1>2, <1>4, <1>6, <1>8 DEF del_wind
<1>11. w \in 1..Len(v.wins) /\ H + x = H + v.wins[w].h
  BY <1>9
<1>12. /\ Good(t, X, H) /\ SameBooks(v, t) /\ Len(t.wins) = Len(v.wins) - 1
       /\ t.cur = v.cur /\ t.last = v.last /\ t.asking = v.asking /\ t.saveb = v.saveb
       /\ \A k \in 1..Len(t.wins) : t.wins[k] = v.wins[IF k < w THEN k ELSE k + 1]
       /\ t.wins[t.win] = v.wins[v.win]
  <2>1. PICK K : K = H + x
    OBVIOUS
  <2>2. Good(v, X, K) /\ w \in 1..Len(v.wins) /\ w # v.win /\ K = H + v.wins[w].h /\ H \in Int
    BY <2>1, <1>0, <1>9, <1>11
  <2>3. Good(t, X, H) /\ Cut(v, t, w)
    BY ONLY <2>2, <1>10, GoodUnlinked
  <2> QED BY <2>3 DEF Cut
<1>13. ASSUME NEW k \in 1..Len(t.wins)
       PROVE  t.wins[k].buf = s.wins[IF k < w THEN k ELSE k + 1].buf
  <2>1. PICK j : j = IF k < w THEN k ELSE k + 1
    OBVIOUS
  <2>2. j \in 1..Len(s.wins) /\ j # w
    BY <2>1, <1>1, <1>9, <1>12
  <2> QED BY <2>1, <2>2, <1>9, <1>12
<1>14. SameBooks(s, t)
  BY <1>9, <1>12 DEF SameBooks
<1>15. Deletes(s, t, w)
  BY <1>9, <1>12, <1>13, <1>14 DEF Deletes, Shows
<1> QED BY <1>12, <1>15

-----------------------------------------------------------------------------
(* Windows that are divided and sized.                                     *)

(* A list of windows in which the i-th has been divided.                   *)
Division(q, i, a, r) == SubSeq(q, 1, i - 1) \o <<a>> \o r \o SubSeq(q, i + 1, Len(q))

Rows(q, v, i, n, a, r) ==
  \A k \in 1..Len(v) : v[k] = IF k < i THEN q[k] ELSE IF k = i THEN a
                              ELSE IF k <= i + n THEN r[k - i] ELSE q[k - n]

(* What a list is after one of it has been divided.                        *)
LEMMA DividedRows ==
  ASSUME NEW S, NEW q \in Seq(S), NEW i \in 1..Len(q), NEW a \in S, NEW r \in Seq(S),
         NEW n \in Nat, Len(r) = n,
         NEW v, v = Division(q, i, a, r)
  PROVE  v \in Seq(S) /\ Len(v) = Len(q) + n /\ Rows(q, v, i, n, a, r)
<1>0. Len(q) \in Nat /\ i \in Nat
  OBVIOUS
<1>1. PICK b : b = SubSeq(q, 1, i - 1)
  OBVIOUS
<1>2. b \in Seq(S) /\ Len(b) = i - 1 /\ \A k \in 1..i - 1 : b[k] = q[k]
  BY <1>1, <1>0
<1>3. PICK c : c = SubSeq(q, i + 1, Len(q))
  OBVIOUS
<1>4. c \in Seq(S) /\ Len(c) = Len(q) - i /\ \A k \in 1..Len(q) - i : c[k] = q[i + k]
  <2>1. c \in Seq(S) /\ Len(c) = Len(q) - i
    BY <1>0, <1>3
  <2>2. ASSUME NEW k \in 1..Len(q) - i PROVE c[k] = q[i + k]
    BY <1>0, <1>3
  <2> QED BY <2>1, <2>2
<1>5. PICK d : d = Append(b, a)
  OBVIOUS
<1>6. d \in Seq(S) /\ Len(d) = i /\ d[i] = a /\ \A k \in 1..i - 1 : d[k] = q[k]
  <2>1. d \in Seq(S) /\ Len(d) = Len(b) + 1 /\ d[Len(b) + 1] = a /\ \A k \in 1..Len(b) : d[k] = b[k]
    BY <1>2, <1>5
  <2>2. Len(b) + 1 = i
    BY <1>0, <1>2
  <2> QED BY ONLY <2>1, <2>2, <1>2
<1>7. d = b \o <<a>>
  BY <1>2, <1>5
<1>8. PICK e : e = d \o r
  OBVIOUS
<1>9. /\ e \in Seq(S) /\ Len(e) = i + n /\ \A k \in 1..i : e[k] = d[k]
      /\ \A k \in 1..n : e[i + k] = r[k]
  <2>1. /\ e \in Seq(S) /\ Len(e) = Len(d) + Len(r) /\ \A k \in 1..Len(d) : e[k] = d[k]
        /\ \A k \in 1..Len(r) : e[Len(d) + k] = r[k]
    <3>1. d \in Seq(S) /\ r \in Seq(S)
      BY <1>6
    <3> QED BY ONLY <3>1, <1>8
  <2> QED BY <2>1, <1>6
<1>10. v = e \o c
  BY ONLY <1>1, <1>3, <1>7, <1>8, v = Division(q, i, a, r) DEF Division
<1>11. /\ v \in Seq(S) /\ Len(v) = i + n + (Len(q) - i) /\ \A k \in 1..i + n : v[k] = e[k]
       /\ \A k \in 1..Len(q) - i : v[i + n + k] = c[k]
  <2>1. /\ v \in Seq(S) /\ Len(v) = Len(e) + Len(c) /\ \A k \in 1..Len(e) : v[k] = e[k]
        /\ \A k \in 1..Len(c) : v[Len(e) + k] = c[k]
    <3>1. e \in Seq(S) /\ c \in Seq(S)
      BY <1>4, <1>9
    <3> QED BY ONLY <3>1, <1>10
  <2> QED BY <2>1, <1>4, <1>9
<1>12. Len(v) = Len(q) + n
  BY ONLY <1>0, <1>11, n \in Nat
<1>13. ASSUME NEW k \in 1..Len(v)
       PROVE  v[k] = IF k < i THEN q[k] ELSE IF k = i THEN a
                     ELSE IF k <= i + n THEN r[k - i] ELSE q[k - n]
  <2>0. k \in Nat /\ k >= 1 /\ k <= Len(q) + n
    <3>1. Len(q) + n \in Nat /\ k \in 1..(Len(q) + n)
      <4>1. PICK x, y : x = Len(q) /\ y = Len(v)
        OBVIOUS
      <4>2. x \in Nat /\ y = x + n /\ k \in 1..y
        BY <4>1, <1>0, <1>12
      <4>3. x + n \in Nat
        BY <4>2
      <4> QED BY ONLY <4>1, <4>2, <4>3
    <3> QED BY ONLY <3>1
  <2>1. CASE k < i
    <3>1. k \in 1..i - 1 /\ k \in 1..i /\ k \in 1..i + n
      BY <2>0, <2>1, <1>0
    <3> QED BY <3>1, <2>1, <1>6, <1>9, <1>11
  <2>2. CASE k = i
    <3>1. i \in 1..i /\ i \in 1..i + n /\ ~ (i < i)
      BY <1>0
    <3>2. v[i] = e[i] /\ e[i] = d[i] /\ d[i] = a
      BY ONLY <3>1, <1>6, <1>9, <1>11
    <3> QED BY ONLY <3>1, <3>2, <2>2
  <2>3. CASE k > i /\ k <= i + n
    <3>1. PICK j : j = k - i
      OBVIOUS
    <3>2. j \in 1..n /\ i + j = k /\ k \in 1..i + n /\ ~ (k < i) /\ k # i
      BY <3>1, <2>0, <2>3, <1>0
    <3>3. v[k] = e[k] /\ e[i + j] = r[j]
      BY ONLY <3>2, <1>9, <1>11
    <3> QED BY ONLY <3>1, <3>2, <3>3, <2>3
  <2>4. CASE k > i + n
    <3>1. PICK j : j = k - (i + n)
      OBVIOUS
    <3>2. j \in 1..Len(q) - i /\ i + n + j = k /\ i + j = k - n /\ ~ (k < i) /\ k # i /\ ~ (k <= i + n)
      BY <3>1, <2>0, <2>4, <1>0
    <3>3. v[i + n + j] = c[j] /\ c[j] = q[i + j]
      BY ONLY <3>2, <1>4, <1>11
    <3> QED BY ONLY <3>2, <3>3
  <2>5. k < i \/ k = i \/ (k > i /\ k <= i + n) \/ k > i + n
    BY ONLY <2>0, <1>0, n \in Nat
  <2> QED BY <2>1, <2>2, <2>3, <2>4, <2>5
<1> QED BY <1>11, <1>12, <1>13 DEF Rows

(* div_wind: it does not matter which buffers the new windows show.        *)
Divides(s, t, n) ==
  /\ TiesOnly(s, t) /\ Len(t.wins) = Len(s.wins) + n
  /\ t.wins[t.win].buf = s.wins[s.win].buf

(* div_wind: the height is what it was, and each part has its two lines.   *)
LEMMA GoodDivWind ==
  ASSUME NEW s, NEW X, NEW H, Good(s, X, H), NEW n \in Nat, Splits(s, n),
         NEW t, t = div_wind(s, n)
  PROVE  Good(t, X, H) /\ Divides(s, t, n)
<1>1. /\ s \in Rec /\ s.wins \in Seq(Window) /\ Len(s.wins) \in Nat
      /\ s.win \in 1..Len(s.wins) /\ s.win \in Nat
      /\ \A k \in 1..Len(s.wins) : s.wins[k] \in Window /\ s.wins[k].buf \in X
                                   /\ s.wins[k].h \in Nat /\ s.wins[k].h >= 2
  BY GoodFacts
<1>2. PICK w, q : w = s.win /\ q = s.wins
  OBVIOUS
<1>3. /\ q \in Seq(Window) /\ Len(q) \in Nat /\ w \in 1..Len(q) /\ w \in Nat
      /\ \A k \in 1..Len(q) : q[k] \in Window /\ q[k].buf \in X /\ q[k].h \in Nat /\ q[k].h >= 2
  BY <1>1, <1>2
<1>4. PICK h, amt : h = q[w].h /\ amt = h \div (n + 1)
  OBVIOUS
<1>5. h \in Nat /\ amt \in Nat /\ amt >= 2
  <2>1. h \in Nat
    BY <1>3, <1>4
  <2>2. amt >= 2
    BY <1>2, <1>4 DEF Splits
  <2>3. n + 1 \in Nat /\ n + 1 > 0
    OBVIOUS
  <2> QED BY ONLY <2>1, <2>2, <2>3, <1>4
<1>6. PICK left : left = h - n * amt
  OBVIOUS
<1>7. left \in Nat /\ left >= 2
  <2>1. PICK m, na : m = n + 1 /\ na = n * amt
    OBVIOUS
  <2>2. m \in Nat /\ m > 0 /\ na \in Nat
    BY ONLY <2>1, <1>5, n \in Nat
  <2>3. m * amt <= h
    BY ONLY <2>1, <2>2, <1>4, <1>5
  <2>4. m * amt = na + amt
    BY ONLY <2>1, <1>5, n \in Nat
  <2> QED BY ONLY <2>1, <2>2, <2>3, <2>4, <1>5, <1>6
<1>8. PICK a, c : a = [q[w] EXCEPT !.h = left] /\ c = [q[w] EXCEPT !.h = amt]
  OBVIOUS
<1>9. /\ a \in Window /\ a.h = left /\ a.buf = q[w].buf
      /\ c \in Window /\ c.h = amt /\ c.buf = q[w].buf
  BY <1>3, <1>5, <1>7, <1>8 DEF Window
<1>10. PICK r : r = [k \in 1..n |-> c]
  OBVIOUS
<1>11. r \in Seq(Window) /\ Len(r) = n /\ \A k \in 1..n : r[k] = c
  BY <1>9, <1>10
<1>12. PICK v : v = Division(q, w, a, r)
  OBVIOUS
<1>13. t = [s EXCEPT !.wins = v]
  <2>0. PICK z : z = s.wins[s.win].h \div (n + 1)
    OBVIOUS
  <2>8. t = [s EXCEPT !.wins = SubSeq(s.wins, 1, s.win - 1)
                               \o <<[s.wins[s.win] EXCEPT !.h = s.wins[s.win].h - n * (s.wins[s.win].h \div (n + 1))]>>
                               \o [k \in 1..n |-> [s.wins[s.win] EXCEPT !.h = s.wins[s.win].h \div (n + 1)]]
                               \o SubSeq(s.wins, s.win + 1, Len(s.wins))]
    BY ONLY t = div_wind(s, n) DEF div_wind
  <2>9. t = [s EXCEPT !.wins = SubSeq(s.wins, 1, s.win - 1) \o <<[s.wins[s.win] EXCEPT !.h = s.wins[s.win].h - n * z]>>
                               \o [k \in 1..n |-> [s.wins[s.win] EXCEPT !.h = z]]
                               \o SubSeq(s.wins, s.win + 1, Len(s.wins))]
    BY ONLY <2>0, <2>8
  <2>1. t = [s EXCEPT !.wins = SubSeq(s.wins, 1, w - 1) \o <<[s.wins[w] EXCEPT !.h = s.wins[w].h - n * amt]>>
                               \o [k \in 1..n |-> [s.wins[w] EXCEPT !.h = amt]]
                               \o SubSeq(s.wins, w + 1, Len(s.wins))]
    BY ONLY <2>0, <2>9, <1>2, <1>4
  <2> QED BY ONLY <2>1, <1>2, <1>4, <1>6, <1>8, <1>10, <1>12 DEF Division
<1>14. /\ v \in Seq(Window) /\ Len(v) = Len(q) + n
       /\ \A k \in 1..Len(v) : v[k] = IF k < w THEN q[k] ELSE IF k = w THEN a
                                      ELSE IF k <= w + n THEN r[k - w] ELSE q[k - n]
  <2>1. v \in Seq(Window) /\ Len(v) = Len(q) + n /\ Rows(q, v, w, n, a, r)
    <3>1. /\ q \in Seq(Window) /\ w \in 1..Len(q) /\ a \in Window /\ r \in Seq(Window)
          /\ n \in Nat /\ Len(r) = n
      BY <1>3, <1>9, <1>11
    <3> QED BY ONLY <3>1, <1>12, DividedRows
  <2> QED BY ONLY <2>1 DEF Rows
<1>15. ASSUME NEW k \in 1..Len(v)
       PROVE  /\ v[k].h = IF k < w THEN q[k].h ELSE IF k = w THEN q[w].h - n * amt
                          ELSE IF k <= w + n THEN amt ELSE q[k - n].h
              /\ v[k].buf \in X /\ v[k].h >= 2
  <2>0. k \in Nat /\ k <= Len(q) + n /\ k >= 1
    BY <1>3, <1>14
  <2>1. CASE k < w
    <3>1. v[k] = q[k] /\ k \in 1..Len(q)
      BY <2>0, <2>1, <1>3, <1>14
    <3> QED BY <3>1, <2>1, <1>3
  <2>2. CASE k = w
    <3>1. v[k] = a /\ ~ (k < w)
      BY <2>2, <1>3, <1>14
    <3> QED BY <3>1, <2>2, <1>3, <1>4, <1>6, <1>7, <1>9
  <2>3. CASE k > w /\ k <= w + n
    <3>1. k - w \in 1..n /\ ~ (k < w) /\ k # w
      BY <2>0, <2>3, <1>3
    <3>2. v[k] = c
      BY <3>1, <2>3, <1>11, <1>14
    <3> QED BY <3>1, <3>2, <2>3, <1>3, <1>5, <1>9
  <2>4. CASE k > w + n
    <3>1. k - n \in 1..Len(q) /\ ~ (k < w) /\ k # w /\ ~ (k <= w + n)
      BY <2>0, <2>4, <1>3
    <3>2. v[k] = q[k - n]
      BY <3>1, <1>14
    <3> QED BY <3>1, <3>2, <1>3
  <2> QED BY <2>0, <2>1, <2>2, <2>3, <2>4, <1>3
<1>16. Panes(v, X, H)
  <2>1. \A k \in 1..Len(v) : v[k].h = IF k < w THEN q[k].h ELSE IF k = w THEN q[w].h - n * amt
                                      ELSE IF k <= w + n THEN amt ELSE q[k - n].h
    BY ONLY <1>15
  <2>4. /\ q \in Seq(Window) /\ v \in Seq(Window) /\ w \in 1..Len(q) /\ n \in Nat /\ amt \in Nat
        /\ Len(v) = Len(q) + n
    BY <1>3, <1>5, <1>14
  <2>2. Height(v) = Height(q)
    BY ONLY <2>1, <2>4, HeightDivided
  <2>3. Height(q) = H
    BY <1>2 DEF Good, Panes
  <2> QED BY <2>2, <2>3, <1>15 DEF Panes
<1>17. t \in Rec /\ t.wins = v /\ TiesOnly(s, t)
  BY <1>1, <1>13, <1>14 DEF Rec, TiesOnly, SameBooks
<1>18. w \in 1..Len(v) /\ v[w] = a
  <2>1. w \in 1..Len(v) /\ ~ (w < w)
    BY <1>3, <1>14
  <2> QED BY <2>1, <1>14
<1>19. Good(t, X, H)
  <2>1. t.win \in 1..Len(t.wins) /\ Panes(t.wins, X, H)
    BY <1>2, <1>16, <1>17, <1>18 DEF TiesOnly
  <2> QED BY <1>17, <2>1, GoodPanes DEF TiesOnly
<1>20. Divides(s, t, n)
  BY <1>2, <1>9, <1>14, <1>17, <1>18 DEF Divides, TiesOnly
<1> QED BY <1>19, <1>20

(* What a routine leaves: X and the buffers that it makes are all that it  *)
(* leads to, and the current window goes on showing the current buffer.    *)
Works(s, t, X, H) ==
  /\ Good(t, X \cup ToSet(t.world), H)
  /\ Grown(s, t)
  /\ t.asking = s.asking
  /\ ~s.asking /\ Shows(s) => Shows(t)

(* One that makes no buffers.                                              *)
LEMMA WorksSame ==
  ASSUME NEW s, NEW t, NEW X, NEW H, Good(t, X, H), SameBooks(s, t), t.asking = s.asking,
         ~s.asking /\ Shows(s) => Shows(t)
  PROVE  Works(s, t, X, H) /\ Len(t.world) = Len(s.world)
<1>1. X \cup ToSet(t.world) = X
  BY DEF Good
<1>2. Grown(s, t) /\ Len(t.world) = Len(s.world)
  BY DEF Grown, SameBooks
<1> QED BY <1>1, <1>2 DEF Works

(* Routines one after the other.                                           *)
LEMMA WorksThen ==
  ASSUME NEW s, NEW t, NEW u, NEW X, NEW H, NEW K, Works(s, t, X, K),
         Works(t, u, X \cup ToSet(t.world), H)
  PROVE  Works(s, u, X, H)
<1>1. Grown(s, t) /\ Grown(t, u) /\ Good(u, (X \cup ToSet(t.world)) \cup ToSet(u.world), H)
  BY DEF Works
<1>2. Grown(s, u) /\ ToSet(t.world) \subseteq ToSet(u.world)
  BY ONLY <1>1 DEF Grown
<1>3. (X \cup ToSet(t.world)) \cup ToSet(u.world) = X \cup ToSet(u.world)
  BY <1>2
<1>4. u.asking = s.asking /\ (~s.asking /\ Shows(s) => Shows(u))
  BY DEF Works
<1> QED BY <1>1, <1>2, <1>3, <1>4 DEF Works

(* WindSize.                                                               *)
LEMMA GoodWindSize ==
  ASSUME NEW s, NEW X, NEW H, Good(s, X, H), NEW w \in 1..Len(s.wins), NEW up \in 1..Len(s.wins),
         up # w, NEW inc \in Int, s.wins[w].h + inc >= 2, s.wins[up].h - inc >= 2,
         NEW t, t = [s EXCEPT !.wins[w].h = @ + inc, !.wins[up].h = @ - inc]
  PROVE  Works(s, t, X, H) /\ Len(t.world) = Len(s.world)
<1>0. /\ s.win \in 1..Len(s.wins) /\ s.wins \in Seq(Window) /\ Height(s.wins) = H
      /\ \A k \in 1..Len(s.wins) : s.wins[k].h \in Nat
  BY GoodFacts DEF Good, Panes
<1>9. H \in Int
  BY <1>0, HeightInt
<1>1. PICK u : u = [s EXCEPT !.wins[w].h = @ + inc]
  OBVIOUS
<1>2. /\ Good(u, X, H + inc) /\ TiesOnly(s, u) /\ Len(u.wins) = Len(s.wins)
      /\ \A k \in 1..Len(s.wins) : u.wins[k].buf = s.wins[k].buf
      /\ \A k \in 1..Len(s.wins) : k # w => u.wins[k] = s.wins[k]
  <2>0. u = Higher(s, w, inc)
    BY <1>1 DEF Higher
  <2>1. Good(u, X, H + inc) /\ Raises(s, u, w, inc)
    BY ONLY Good(s, X, H), w \in 1..Len(s.wins), inc \in Int, s.wins[w].h + inc >= 2, <2>0, GoodHigher
  <2> QED BY <2>1 DEF Raises
<1>3. t = [u EXCEPT !.wins[up].h = @ + (-inc)]
  <2>1. t = [u EXCEPT !.wins[up].h = @ - inc]
    BY <1>1
  <2>2. u.wins[up].h \in Nat
    BY <1>2, <1>0
  <2>3. u.wins[up].h - inc = u.wins[up].h + (-inc)
    BY <2>2
  <2> QED BY <2>1, <2>3
<1>4. up \in 1..Len(u.wins) /\ -inc \in Int /\ u.wins[up].h + (-inc) >= 2
  <2>1. u.wins[up].h = s.wins[up].h
    BY <1>2
  <2>2. PICK h : h = s.wins[up].h
    OBVIOUS
  <2>3. h \in Nat /\ h - inc >= 2
    BY <2>2, <1>0
  <2>4. h + (-inc) >= 2 /\ -inc \in Int
    BY ONLY <2>3, inc \in Int
  <2> QED BY <2>1, <2>2, <2>4, <1>2
<1>5. /\ Good(t, X, H + inc + (-inc)) /\ TiesOnly(u, t)
      /\ \A k \in 1..Len(u.wins) : t.wins[k].buf = u.wins[k].buf
  <2>1. PICK K, y : K = H + inc /\ y = -inc
    OBVIOUS
  <2>2. /\ Good(u, X, K) /\ up \in 1..Len(u.wins) /\ y \in Int /\ u.wins[up].h + y >= 2
        /\ t = Higher(u, up, y)
    BY <2>1, <1>2, <1>3, <1>4 DEF Higher
  <2>3. Good(t, X, K + y) /\ Raises(u, t, up, y)
    BY ONLY <2>2, GoodHigher
  <2> QED BY ONLY <2>1, <2>3 DEF Raises
<1>6. H + inc + (-inc) = H
  BY <1>9
<1>7. Good(t, X, H) /\ SameBooks(s, t) /\ t.asking = s.asking
  BY <1>2, <1>5, <1>6 DEF TiesOnly, SameBooks
<1>8. Shows(s) => Shows(t)
  <2>1. t.win = s.win /\ t.cur = s.cur
    BY <1>2, <1>5 DEF TiesOnly
  <2>2. t.wins[s.win].buf = s.wins[s.win].buf
    BY <1>0, <1>2, <1>5
  <2> QED BY ONLY <2>1, <2>2 DEF Shows
<1> QED BY <1>7, <1>8, WorksSame

(* Scaling windows none of which gets too small.                           *)
LEMMA GoodScaled ==
  ASSUME NEW s, NEW X, Good(s, X, ILI), ILI \in Nat, ILI > 0, NEW new \in Nat,
         \A w \in 1..Len(s.wins) : (new * s.wins[w].h) \div ILI >= 2,
         NEW t, t = Scaled(s, new)
  PROVE  Works(s, t, X, new) /\ Len(t.world) = Len(s.world)
<1>1. /\ s \in Rec /\ s.wins \in Seq(Window) /\ Len(s.wins) \in Nat /\ s.win \in 1..Len(s.wins)
      /\ \A k \in 1..Len(s.wins) : s.wins[k] \in Window /\ s.wins[k].buf \in X
                                   /\ s.wins[k].h \in Nat /\ s.wins[k].h >= 2
  BY GoodFacts
<1>2. Height(s.wins) = ILI
  BY DEF Good, Panes
<1>3. PICK v : v = [w \in DOMAIN s.wins |-> [s.wins[w] EXCEPT !.h = (new * s.wins[w].h) \div ILI]]
  OBVIOUS
<1>4. ASSUME NEW k \in 1..Len(s.wins)
      PROVE  (new * s.wins[k].h) \div ILI \in Nat
  <2>1. PICK x : x = new * s.wins[k].h
    OBVIOUS
  <2>2. x \in Nat
    <3>1. PICK h : h = s.wins[k].h
      OBVIOUS
    <3>2. h \in Nat
      BY <3>1, <1>1
    <3> QED BY ONLY <2>1, <3>1, <3>2, new \in Nat
  <2>3. x \div ILI \in Nat
    BY ONLY <2>2, ILI \in Nat, ILI > 0
  <2> QED BY <2>1, <2>3
<1>5. ASSUME NEW k \in 1..Len(s.wins)
      PROVE  /\ v[k] \in Window /\ v[k].h = (new * s.wins[k].h) \div ILI
             /\ v[k].buf = s.wins[k].buf /\ v[k].h >= 2
  <2>1. PICK y : y = (new * s.wins[k].h) \div ILI
    OBVIOUS
  <2>2. y \in Nat /\ y >= 2
    BY <2>1, <1>4
  <2>3. v[k] = [s.wins[k] EXCEPT !.h = y]
    BY <2>1, <1>1, <1>3
  <2>4. s.wins[k] \in Window
    BY <1>1
  <2>5. [s.wins[k] EXCEPT !.h = y] \in Window /\ [s.wins[k] EXCEPT !.h = y].h = y
        /\ [s.wins[k] EXCEPT !.h = y].buf = s.wins[k].buf
    BY ONLY <2>2, <2>4 DEF Window
  <2> QED BY ONLY <2>1, <2>2, <2>3, <2>5
<1>6. v \in Seq(Window) /\ Len(v) = Len(s.wins)
  <2>1. DOMAIN s.wins = 1..Len(s.wins)
    BY <1>1
  <2>2. v \in [1..Len(s.wins) -> Window]
    BY <2>1, <1>3, <1>5
  <2>3. PICK n : n = Len(s.wins)
    OBVIOUS
  <2>4. n \in Nat /\ v \in [1..n -> Window]
    BY <2>2, <2>3, <1>1
  <2>5. v \in Seq(Window) /\ Len(v) = n
    BY ONLY <2>4
  <2> QED BY ONLY <2>3, <2>5
<1>7. Height(v) <= new /\ Height(v) \in Int
  <2>1. \A k \in 1..Len(s.wins) : v[k].h = (new * s.wins[k].h) \div ILI
    BY <1>5
  <2>2. PICK old : old = ILI
    OBVIOUS
  <2>3. Height(v) <= new
    <3>1. /\ old \in Nat /\ old > 0 /\ Height(s.wins) = old
          /\ \A k \in 1..Len(s.wins) : v[k].h = (new * s.wins[k].h) \div old
      BY <2>1, <2>2, <1>2
    <3>2. PICK q : q = s.wins
      OBVIOUS
    <3>3. /\ q \in Seq(Window) /\ v \in Seq(Window) /\ Len(v) = Len(q) /\ Height(q) = old
          /\ \A k \in 1..Len(q) : v[k].h = (new * q[k].h) \div old
      BY ONLY <3>1, <3>2, <1>1, <1>6
    <3> QED BY ONLY <3>1, <3>3, new \in Nat, HeightScaled
  <2> QED BY <2>3, <1>6, HeightInt
<1>8. PICK x : x = new - Height(v)
  OBVIOUS
<1>9. x \in Int /\ x >= 0
  BY <1>7, <1>8
<1>10. PICK u : u = [s EXCEPT !.wins = v]
  OBVIOUS
<1>11. u \in Rec /\ u.wins = v /\ TiesOnly(s, u)
  BY <1>1, <1>6, <1>10 DEF Rec, TiesOnly, SameBooks
<1>12. Good(u, X, Height(v))
  <2>1. u.win \in 1..Len(u.wins) /\ Panes(u.wins, X, Height(v))
    BY <1>1, <1>5, <1>6, <1>11 DEF TiesOnly, Panes
  <2> QED BY <1>11, <2>1, GoodPanes DEF TiesOnly
<1>13. t = [u EXCEPT !.wins[s.win].h = @ + x]
  <2>1. t = [s EXCEPT !.wins = [v EXCEPT ![s.win].h = @ + new - Height(v)]]
    BY <1>3 DEF Scaled
  <2>2. v[s.win].h + new - Height(v) = v[s.win].h + x
    <3>1. v[s.win].h \in Nat
      BY <1>1, <1>5 DEF Window
    <3> QED BY ONLY <3>1, <1>7, <1>8, new \in Nat
  <2> QED BY <2>1, <2>2, <1>1, <1>6, <1>10, <1>11
<1>14. s.win \in 1..Len(u.wins) /\ u.wins[s.win].h + x >= 2
  <2>1. v[s.win].h \in Nat /\ v[s.win].h >= 2
    BY <1>1, <1>5 DEF Window
  <2>2. v[s.win].h + x >= 2
    BY ONLY <2>1, <1>9
  <2> QED BY <2>2, <1>1, <1>6, <1>11
<1>15. /\ Good(t, X, Height(v) + x) /\ TiesOnly(u, t)
       /\ \A k \in 1..Len(u.wins) : t.wins[k].buf = u.wins[k].buf
  <2>1. PICK w, K : w = s.win /\ K = Height(v)
    OBVIOUS
  <2>2. Good(u, X, K) /\ w \in 1..Len(u.wins) /\ u.wins[w].h + x >= 2 /\ t = Higher(u, w, x)
    BY <2>1, <1>12, <1>13, <1>14 DEF Higher
  <2>3. Good(t, X, K + x) /\ Raises(u, t, w, x)
    BY ONLY <2>2, <1>9, GoodHigher
  <2> QED BY ONLY <2>1, <2>3 DEF Raises
<1>16. Height(v) + x = new
  BY ONLY <1>7, <1>8, new \in Nat
<1>17. Good(t, X, new) /\ SameBooks(s, t) /\ t.asking = s.asking
  BY <1>11, <1>15, <1>16 DEF TiesOnly, SameBooks
<1>18. Shows(s) => Shows(t)
  BY <1>1, <1>5, <1>6, <1>11, <1>15 DEF TiesOnly, Shows
<1> QED BY <1>17, <1>18, WorksSame

(* Which window is the first found too small.                              *)
LEMMA TooSmallIs ==
  ASSUME NEW s, NEW X, Good(s, X, ILI), ILI \in Nat, ILI > 0, NEW new \in Nat,
         NEW k, k = TooSmall(s, new)
  PROVE  \/ k = 0 /\ \A w \in 1..Len(s.wins) : (new * s.wins[w].h) \div ILI >= 2
         \/ k \in 1..Len(s.wins) /\ (new * s.wins[k].h) \div ILI < 2
<1>1. Len(s.wins) \in Nat /\ \A w \in 1..Len(s.wins) : s.wins[w].h \in Nat
  BY GoodFacts
<1>2. PICK n : n = Len(s.wins)
  OBVIOUS
<1>3. n \in Nat
  BY <1>1, <1>2
<1>4. PICK p : p = [i \in 1..n |-> IF i = 1 THEN 1 ELSE n + 2 - i]
  OBVIOUS
<1>5. Len(p) = n /\ \A i \in 1..n : p[i] = (IF i = 1 THEN 1 ELSE n + 2 - i) /\ p[i] \in 1..n
  BY ONLY <1>3, <1>4
<1>6. ASSUME NEW w \in 1..n PROVE (new * s.wins[w].h) \div ILI \in Int
  <2>1. PICK h, x : h = s.wins[w].h /\ x = new * h
    OBVIOUS
  <2>2. h \in Nat
    BY <2>1, <1>1, <1>2
  <2>3. x \in Nat
    BY ONLY <2>1, <2>2, new \in Nat
  <2>4. x \div ILI \in Int
    BY ONLY <2>3, ILI \in Nat, ILI > 0
  <2> QED BY <2>1, <2>4
<1>7. PICK I : I = {i \in 1..n : (new * s.wins[p[i]].h) \div ILI < 2}
  OBVIOUS
<1>8. PICK at : at = IF I # {} THEN Min(I) ELSE 0
  OBVIOUS
<1>9. k = IF at <= 1 THEN at ELSE n + 2 - at
  <2>1. I = {i \in 1..Len(p) : (new * s.wins[p[i]].h) \div ILI < 2}
    BY <1>5, <1>7
  <2>2. at = SelectInSeq(p, LAMBDA w : (new * s.wins[w].h) \div ILI < 2)
    BY ONLY <2>1, <1>8 DEF SelectInSeq
  <2> QED BY <2>2, <1>2, <1>4 DEF TooSmall
<1>10. CASE I = {}
  <2>1. k = 0
    BY <1>8, <1>9, <1>10
  <2>2. ASSUME NEW w \in 1..n PROVE (new * s.wins[w].h) \div ILI >= 2
    <3>1. PICK i : i = IF w = 1 THEN 1 ELSE n + 2 - w
      OBVIOUS
    <3>2. i \in 1..n /\ (IF i = 1 THEN 1 ELSE n + 2 - i) = w
      BY ONLY <3>1, <1>3, w \in 1..n
    <3>3. p[i] = w
      BY <3>2, <1>5
    <3>4. ~ ((new * s.wins[w].h) \div ILI < 2)
      BY <3>2, <3>3, <1>7, <1>10
    <3>5. PICK y : y = (new * s.wins[w].h) \div ILI
      OBVIOUS
    <3>6. y \in Int /\ ~ (y < 2)
      BY <3>4, <3>5, <1>6
    <3>7. y >= 2
      BY ONLY <3>6
    <3> QED BY <3>5, <3>7
  <2> QED BY <2>1, <2>2, <1>2
<1>11. CASE I # {}
  <2>1. at \in I
    <3>1. I \subseteq Nat
      BY <1>7
    <3>2. at = Min(I)
      BY <1>8, <1>11
    <3> QED BY ONLY <3>1, <3>2, <1>11, MinFacts
  <2>2. at \in 1..n /\ (new * s.wins[p[at]].h) \div ILI < 2
    BY <2>1, <1>7
  <2>3. k = p[at]
    <3>1. p[at] = IF at = 1 THEN 1 ELSE n + 2 - at
      BY <2>2, <1>5
    <3>2. at \in Nat /\ at >= 1
      BY <2>2, <1>3
    <3> QED BY ONLY <3>1, <3>2, <1>9
  <2> QED BY <2>2, <2>3, <1>2, <1>5
<1> QED BY <1>10, <1>11

(* A single window is not.                                                 *)
LEMMA SingleNotSmall ==
  ASSUME NEW s, NEW X, Good(s, X, ILI), ILI \in Nat, ILI > 0, NEW new \in Nat, new >= 2,
         Len(s.wins) = 1
  PROVE  TooSmall(s, new) = 0
<1>1. s.wins \in Seq(Window) /\ Height(s.wins) = ILI
  BY GoodFacts DEF Good, Panes
<1>2. s.wins[1].h = ILI
  <2>1. PICK w : w = s.wins
    OBVIOUS
  <2>2. w \in Seq(Window) /\ Len(w) = 1
    BY <2>1, <1>1
  <2>3. Height(w) = w[1].h
    BY ONLY <2>2, HeightOne
  <2> QED BY <2>1, <2>3, <1>1
<1>3. PICK k : k = TooSmall(s, new)
  OBVIOUS
<1>4. \/ k = 0
      \/ k \in 1..Len(s.wins) /\ (new * s.wins[k].h) \div ILI < 2
  BY <1>3, TooSmallIs
<1>5. CASE k \in 1..Len(s.wins) /\ (new * s.wins[k].h) \div ILI < 2
  <2>1. k = 1
    BY <1>5
  <2>2. PICK x : x = new * ILI
    OBVIOUS
  <2>3. x \div ILI < 2
    BY <1>2, <1>5, <2>1, <2>2
  <2>4. x \div ILI = new
    BY ONLY <2>2, ILI \in Nat, ILI > 0, new \in Nat
  <2> QED BY ONLY <2>3, <2>4, new \in Nat, new >= 2
<1> QED BY <1>3, <1>4, <1>5

(* Windows are deleted, and that is all.                                   *)
Thins(s, t, X, H) ==
  /\ Good(t, X, H) /\ SameBooks(s, t)
  /\ t.asking = s.asking
  /\ ~s.asking /\ Shows(s) => Shows(t)

(* del_wind, among others.                                                 *)
LEMMA ThinsOne ==
  ASSUME NEW s, NEW t, NEW X, NEW H, Thins(s, t, X, H), Len(t.wins) >= 2,
         NEW w \in 1..Len(t.wins), NEW u, u = del_wind(t, w)
  PROVE  Thins(s, u, X, H) /\ Len(u.wins) = Len(t.wins) - 1
<1>1. Good(t, X, H)
  BY DEF Thins
<1>2. Good(u, X, H) /\ Deletes(t, u, w)
  BY <1>1, GoodDelWind
<1> QED BY <1>2 DEF Thins, Deletes, SameBooks

(* One turn of resize's loop.                                              *)
LEMMA Weeds ==
  ASSUME NEW s, NEW t, NEW X, Thins(s, t, X, ILI), ILI \in Nat, ILI > 0,
         NEW new \in Nat, new >= 2, NEW u, u = Weeded(t, TooSmall(t, new))
  PROVE  /\ Thins(s, u, X, ILI)
         /\ TooSmall(t, new) = 0 => u = t
         /\ TooSmall(t, new) # 0 => Len(u.wins) = Len(t.wins) - 1
<1>1. PICK k : k = TooSmall(t, new)
  OBVIOUS
<1>2. Good(t, X, ILI)
  BY DEF Thins
<1>3. CASE k = 0
  BY <1>1, <1>3 DEF Weeded
<1>4. CASE k # 0
  <2>1. k \in 1..Len(t.wins)
    BY <1>1, <1>2, <1>4, TooSmallIs
  <2>2. Len(t.wins) # 1
    BY <1>1, <1>2, <1>4, SingleNotSmall
  <2>3. Len(t.wins) \in Nat /\ Len(t.wins) >= 1
    BY <1>2, GoodFacts
  <2>4. Len(t.wins) >= 2
    <3>1. PICK x : x = Len(t.wins)
      OBVIOUS
    <3>2. x # 1 /\ x \in Nat /\ x >= 1
      BY <2>2, <2>3, <3>1
    <3>3. x >= 2
      BY ONLY <3>2
    <3> QED BY <3>1, <3>3
  <2>5. u = del_wind(t, k)
    BY <1>1, <1>4 DEF Weeded
  <2>6. Thins(s, u, X, ILI) /\ Len(u.wins) = Len(t.wins) - 1
    BY <2>1, <2>4, <2>5, ThinsOne
  <2> QED BY <2>6, <1>1, <1>4
<1> QED BY <1>3, <1>4

(* resize's loop leaves no window too small.                               *)
LEMMA WeedLoop ==
  ASSUME NEW s, NEW X, Good(s, X, ILI), ILI \in Nat, ILI > 0, NEW new \in Nat, new >= 2,
         NEW t, t = resize(s, new)
  PROVE  \E u : Thins(s, u, X, ILI) /\ TooSmall(u, new) = 0 /\ t = Scaled(u, new)
<1> DEFINE Def(g) == [n \in 0..Len(s.wins) - 1 |-> IF n = 0 THEN s ELSE Weeded(g[n - 1], TooSmall(g[n - 1], new))]
           E == CHOOSE g : g = Def(g)
<1>1. t = Scaled(E[Len(s.wins) - 1], new)
  BY DEF resize
<1>2. PICK N : N = Len(s.wins) - 1
  OBVIOUS
<1>3. N \in Nat /\ Len(s.wins) = N + 1
  BY <1>2, GoodFacts
<1>4. s \in Rec /\ Thins(s, s, X, ILI)
  BY GoodFacts DEF Thins, SameBooks
<1> DEFINE S == {u \in Rec : Thins(s, u, X, ILI)}
<1>5. \A u \in S : Weeded(u, TooSmall(u, new)) \in S
  <2> TAKE u \in S
  <2>1. PICK v : v = Weeded(u, TooSmall(u, new))
    OBVIOUS
  <2>2. Thins(s, v, X, ILI)
    BY <2>1, Weeds
  <2> QED BY <2>1, <2>2 DEF Thins, Good
<1>6. s \in S
  BY <1>4
<1>7. \A u \in S : u \in Rec /\ Thins(s, u, X, ILI)
  OBVIOUS
<1> HIDE DEF S
<1>8. \E f : f = Def(f)
  <2> DEFINE G == [p \in (1..N) \X S |-> Weeded(p[2], TooSmall(p[2], new))]
  <2>1. \A i \in 1..N, u \in S : G[<<i, u>>] = Weeded(u, TooSmall(u, new))
    OBVIOUS
  <2>2. G \in [(1..N) \X S -> S]
    BY <1>5
  <2> HIDE DEF G
  <2>3. PICK f : IsLoop(f, N, S, s, G)
    BY <1>3, <1>6, <2>2, LoopExists
  <2>4. ASSUME NEW i \in 0..N
        PROVE  f[i] = IF i = 0 THEN s ELSE Weeded(f[i - 1], TooSmall(f[i - 1], new))
    <3>1. CASE i = 0
      BY <3>1, <2>3 DEF IsLoop
    <3>2. CASE i # 0
      <4>1. i \in 1..N /\ i - 1 \in 0..N
        BY <3>2, <1>3
      <4>2. f[i] = G[<<i, f[i - 1]>>] /\ f[i - 1] \in S
        BY <4>1, <2>3 DEF IsLoop
      <4> QED BY <4>1, <4>2, <3>2, <2>1
    <3> QED BY <3>1, <3>2
  <2>5. f = [i \in 0..N |-> IF i = 0 THEN s ELSE Weeded(f[i - 1], TooSmall(f[i - 1], new))]
    <3>1. f = [i \in 0..N |-> f[i]]
      BY <2>3 DEF IsLoop
    <3> QED BY <3>1, <2>4
  <2>6. f = Def(f)
    BY <2>5, <1>2
  <2> QED BY <2>6
<1>9. E = Def(E)
  <2> HIDE DEF Def
  <2> QED BY <1>8
<1>10. \A n \in 0..N : E[n] = IF n = 0 THEN s ELSE Weeded(E[n - 1], TooSmall(E[n - 1], new))
  <2> HIDE DEF E
  <2> QED BY <1>2, <1>9
<1> HIDE DEF E, Def
<1> DEFINE T == {n \in 0..N : E[n] \in S /\ (TooSmall(E[n], new) = 0 \/ Len(E[n].wins) = N + 1 - n)}
<1>11. 0 \in T
  BY <1>3, <1>6, <1>10
<1>12. ASSUME NEW n \in 1..N, n - 1 \in T PROVE n \in T
  <2>1. PICK u, v : u = E[n - 1] /\ v = E[n]
    OBVIOUS
  <2>2. u \in S /\ (TooSmall(u, new) = 0 \/ Len(u.wins) = N + 1 - (n - 1))
    BY <1>12, <2>1
  <2>3. v = Weeded(u, TooSmall(u, new))
    <3>1. n \in 0..N /\ n # 0
      BY <1>3
    <3> QED BY <3>1, <1>10, <2>1
  <2>4. v \in S
    BY <2>2, <2>3, <1>5
  <2>5. /\ TooSmall(u, new) = 0 => v = u
        /\ TooSmall(u, new) # 0 => Len(v.wins) = Len(u.wins) - 1
    BY <2>2, <2>3, <1>7, Weeds
  <2>6. TooSmall(v, new) = 0 \/ Len(v.wins) = N + 1 - n
    <3>1. CASE TooSmall(u, new) = 0
      BY <3>1, <2>5
    <3>2. CASE TooSmall(u, new) # 0
      <4>0. Len(u.wins) = N + 1 - (n - 1) /\ Len(v.wins) = Len(u.wins) - 1
        BY <3>2, <2>2, <2>5
      <4>2. n \in Nat
        BY <1>3
      <4>1. Len(v.wins) = N + 1 - (n - 1) - 1
        BY ONLY <4>0, <4>2, <1>3
      <4>3. N + 1 - (n - 1) - 1 = N + 1 - n
        BY ONLY <4>2, <1>3
      <4> QED BY <4>1, <4>3
    <3> QED BY <3>1, <3>2
  <2> QED BY <2>1, <2>4, <2>6, <1>3
<1>13. N \in T
  <2> HIDE DEF T
  <2>1. \A n \in 0..N : n \in T
    BY <1>3, <1>11, <1>12, EachTurn
  <2> QED BY <2>1, <1>3
<1>14. PICK u : u = E[N]
  OBVIOUS
<1>15. u \in S /\ (TooSmall(u, new) = 0 \/ Len(u.wins) = N + 1 - N)
  BY <1>13, <1>14
<1>16. Thins(s, u, X, ILI)
  BY <1>15, <1>7
<1>17. TooSmall(u, new) = 0
  <2>1. CASE Len(u.wins) = N + 1 - N
    <3>1. Len(u.wins) = 1
      BY ONLY <2>1, <1>3
    <3>2. Good(u, X, ILI)
      BY <1>16 DEF Thins
    <3> QED BY <3>1, <3>2, SingleNotSmall
  <2> QED BY <2>1, <1>15
<1>18. t = Scaled(u, new)
  BY <1>1, <1>2, <1>14
<1> QED BY <1>16, <1>17, <1>18

(* resize.                                                                 *)
LEMMA GoodResize ==
  ASSUME NEW s, NEW X, Good(s, X, ILI), ILI \in Nat, ILI > 0, NEW new \in Nat, new >= 2,
         NEW t, t = resize(s, new)
  PROVE  Works(s, t, X, new) /\ Len(t.world) = Len(s.world)
<1>1. PICK u : Thins(s, u, X, ILI) /\ TooSmall(u, new) = 0 /\ t = Scaled(u, new)
  BY WeedLoop
<1>2. Good(u, X, ILI)
  BY <1>1 DEF Thins
<1>3. PICK k : k = TooSmall(u, new)
  OBVIOUS
<1>4. \A w \in 1..Len(u.wins) : (new * u.wins[w].h) \div ILI >= 2
  <2>1. \/ k = 0 /\ \A w \in 1..Len(u.wins) : (new * u.wins[w].h) \div ILI >= 2
        \/ k \in 1..Len(u.wins) /\ (new * u.wins[k].h) \div ILI < 2
    BY <1>2, <1>3, TooSmallIs
  <2>2. k = 0 /\ ~ (k \in 1..Len(u.wins))
    BY <1>1, <1>3
  <2> QED BY <2>1, <2>2
<1>5. Works(u, t, X, new) /\ Len(t.world) = Len(u.world)
  BY <1>1, <1>2, <1>4, GoodScaled
<1>6. Works(s, u, X, ILI) /\ Len(u.world) = Len(s.world) /\ X \cup ToSet(u.world) = X
  <2>1. Works(s, u, X, ILI) /\ Len(u.world) = Len(s.world)
    BY <1>1, WorksSame DEF Thins
  <2> QED BY <2>1, <1>2 DEF Good
<1>7. Works(s, t, X, new)
  BY <1>5, <1>6, WorksThen
<1> QED BY <1>5, <1>6, <1>7

(* OneWindow's loop: each turn deletes one.                                *)
LEMMA OnlyLoop ==
  ASSUME NEW s, NEW X, NEW H, Good(s, X, H), NEW E,
         E = [n \in 0..Len(s.wins) - 1 |-> IF n = 0 THEN s
                                           ELSE del_wind(E[n - 1], w_next(E[n - 1], E[n - 1].win))]
  PROVE  Thins(s, E[Len(s.wins) - 1], X, H)
<1>1. PICK N : N = Len(s.wins) - 1
  OBVIOUS
<1>2. N \in Nat /\ Len(s.wins) = N + 1
  BY <1>1, GoodFacts
<1>3. \A n \in 0..N : E[n] = IF n = 0 THEN s ELSE del_wind(E[n - 1], w_next(E[n - 1], E[n - 1].win))
  BY <1>1
<1> DEFINE T == {n \in 0..N : Thins(s, E[n], X, H) /\ Len(E[n].wins) = N + 1 - n}
<1>4. 0 \in T
  <2>1. E[0] = s /\ 0 \in 0..N
    BY <1>2, <1>3
  <2>2. Thins(s, s, X, H)
    BY DEF Thins, SameBooks
  <2> QED BY <2>1, <2>2, <1>2
<1>5. ASSUME NEW n \in 1..N, n - 1 \in T PROVE n \in T
  <2>1. PICK u, v : u = E[n - 1] /\ v = E[n]
    OBVIOUS
  <2>2. Thins(s, u, X, H) /\ Len(u.wins) = N + 1 - (n - 1)
    BY <1>5, <2>1
  <2>3. v = del_wind(u, w_next(u, u.win))
    <3>1. n \in 0..N /\ n # 0
      BY <1>2
    <3> QED BY <3>1, <1>3, <2>1
  <2>4. Len(u.wins) >= 2 /\ Len(u.wins) - 1 = N + 1 - n
    <3>1. n \in Nat /\ n <= N
      BY <1>2
    <3> QED BY ONLY <3>1, <2>2, <1>2
  <2>5. w_next(u, u.win) \in 1..Len(u.wins)
    <3>1. Good(u, X, H) /\ u.win \in 1..Len(u.wins)
      BY <2>2 DEF Thins, Good
    <3> QED BY <3>1, Around
  <2>6. Thins(s, v, X, H) /\ Len(v.wins) = Len(u.wins) - 1
    BY <2>2, <2>3, <2>4, <2>5, ThinsOne
  <2>7. Len(v.wins) = N + 1 - n
    BY <2>4, <2>6
  <2> QED BY <2>1, <2>6, <2>7, <1>2
<1>6. N \in T
  <2> HIDE DEF T
  <2>1. \A n \in 0..N : n \in T
    BY <1>2, <1>4, <1>5, EachTurn
  <2> QED BY <2>1, <1>2
<1> QED BY <1>1, <1>6

(* There is such a loop.                                                   *)
LEMMA OnlyThere ==
  ASSUME NEW s, NEW X, NEW H, Good(s, X, H)
  PROVE  \E E : E = [n \in 0..Len(s.wins) - 1 |-> IF n = 0 THEN s
                       ELSE del_wind(E[n - 1], w_next(E[n - 1], E[n - 1].win))]
<1>1. PICK N : N = Len(s.wins) - 1
  OBVIOUS
<1>2. N \in Nat /\ Len(s.wins) = N + 1
  BY <1>1, GoodFacts
<1>3. s \in Rec /\ Thins(s, s, X, H)
  BY GoodFacts DEF Thins, SameBooks
<1> DEFINE Next1(u) == del_wind(u, w_next(u, u.win))
           S == {u \in Rec : Thins(s, u, X, H)}
           G == [p \in (1..N) \X S |-> IF Len(p[2].wins) >= 2 THEN Next1(p[2]) ELSE p[2]]
<1>4. ASSUME NEW u \in S, Len(u.wins) >= 2
      PROVE  Next1(u) \in S /\ Len(Next1(u).wins) = Len(u.wins) - 1
  <2>1. PICK v : v = Next1(u)
    OBVIOUS
  <2>2. Good(u, X, H) /\ u.win \in 1..Len(u.wins)
    BY DEF Thins, Good
  <2>3. w_next(u, u.win) \in 1..Len(u.wins)
    BY <2>2, Around
  <2>4. Thins(s, v, X, H) /\ Len(v.wins) = Len(u.wins) - 1
    BY <1>4, <2>1, <2>3, ThinsOne
  <2> QED BY <2>1, <2>4 DEF Thins, Good
<1>5. s \in S
  BY <1>3
<1> HIDE DEF S, Next1
<1>6. G \in [(1..N) \X S -> S] /\ \A i \in 1..N, u \in S : Len(u.wins) >= 2 => G[<<i, u>>] = Next1(u)
  BY <1>4
<1> HIDE DEF G
<1>7. PICK f : IsLoop(f, N, S, s, G)
  BY <1>2, <1>5, <1>6, LoopExists
<1> DEFINE T == {n \in 0..N : Len(f[n].wins) = N + 1 - n}
<1>8. f \in [0..N -> S] /\ f[0] = s /\ \A n \in 1..N : f[n] = G[<<n, f[n - 1]>>]
  BY <1>7 DEF IsLoop
<1>9. ASSUME NEW n \in 1..N, n - 1 \in T PROVE f[n] = Next1(f[n - 1]) /\ n \in T
  <2>1. PICK u : u = f[n - 1]
    OBVIOUS
  <2>2. u \in S /\ Len(u.wins) = N + 1 - (n - 1) /\ n \in Nat /\ n <= N /\ n \in 0..N
    <3>1. n - 1 \in 0..N /\ n \in Nat /\ n <= N /\ n \in 0..N
      BY <1>2
    <3> QED BY <3>1, <1>8, <1>9, <2>1
  <2>3. Len(u.wins) >= 2 /\ Len(u.wins) - 1 = N + 1 - n
    BY ONLY <2>2, <1>2
  <2>4. f[n] = Next1(u)
    BY <2>1, <2>2, <2>3, <1>6, <1>8
  <2>5. Len(Next1(u).wins) = N + 1 - n
    BY <2>2, <2>3, <1>4
  <2> QED BY <2>1, <2>2, <2>4, <2>5
<1>10. 0 \in T
  BY <1>2, <1>8
<1>11. \A n \in 0..N : n \in T
  <2> HIDE DEF T
  <2> QED BY <1>2, <1>9, <1>10, EachTurn
<1>12. \A n \in 0..N : f[n] = IF n = 0 THEN s ELSE Next1(f[n - 1])
  <2> TAKE n \in 0..N
  <2>1. CASE n = 0
    BY <2>1, <1>8
  <2>2. CASE n # 0
    <3>1. n \in 1..N /\ n - 1 \in 0..N
      BY <2>2, <1>2
    <3> QED BY <3>1, <2>2, <1>9, <1>11
  <2> QED BY <2>1, <2>2
<1>13. f = [n \in 0..N |-> IF n = 0 THEN s ELSE Next1(f[n - 1])]
  <2>1. f = [n \in 0..N |-> f[n]]
    BY <1>8
  <2> QED BY <2>1, <1>12
<1> QED BY <1>1, <1>13 DEF Next1

-----------------------------------------------------------------------------
(* Buffers that are deleted.                                               *)

(* The name of the buffer to be shown instead is not that of b.            *)
LEMMA AltIs ==
  ASSUME NEW s, NEW H, Good(s, ToSet(s.world), H), NEW b \in ToSet(s.world), NEW a, a = Alt(s, b)
  PROVE  a.name \in BufName /\ a.own \in BOOLEAN /\ (~a.own => a.name # s.name[b])
<1>1. /\ s \in Rec /\ Once(s.world) /\ s.last \in ToSet(s.world) \cup {NULL}
      /\ s.name \in [Struct -> BufName] /\ ToSet(s.world) \subseteq Struct
      /\ \A c, d \in ToSet(s.world) : s.name[c] = s.name[d] => c = d
  <2>1. s \in Rec /\ Books(s) /\ Pointers(s, ToSet(s.world)) /\ ToSet(s.world) \subseteq Struct
    BY DEF Good
  <2> QED BY <2>1 DEF Books, Pointers, Rec
<1>2. ASSUME NEW c \in ToSet(s.world), c # b, a = [name |-> s.name[c], own |-> FALSE]
      PROVE  a.name \in BufName /\ a.own \in BOOLEAN /\ (~a.own => a.name # s.name[b])
  <2>1. a.name = s.name[c] /\ a.own = FALSE
    BY <1>2
  <2> QED BY <2>1, <1>1, <1>2
<1>3. CASE s.last \notin {NULL, b}
  BY <1>1, <1>2, <1>3 DEF Alt
<1>4. CASE s.last \in {NULL, b} /\ b_next(s, b) # NULL
  <2>1. PICK c : c = b_next(s, b)
    OBVIOUS
  <2>2. c \in ToSet(s.world) /\ c # b
    BY <1>1, <1>4, <2>1, BNext
  <2>3. a = [name |-> s.name[c], own |-> FALSE]
    BY <1>4, <2>1 DEF Alt
  <2> QED BY <2>2, <2>3, <1>2
<1>5. CASE s.last \in {NULL, b} /\ b_next(s, b) = NULL
  <2>1. a = [name |-> Mainbuf, own |-> TRUE]
    BY <1>5 DEF Alt
  <2>2. Mainbuf \in BufName
    BY DEF BufName
  <2>3. a.name = Mainbuf /\ a.own = TRUE
    BY <2>1
  <2> QED BY <2>2, <2>3
<1> QED BY <1>3, <1>4, <1>5

(* During delb_wind, of buffer b of s, with a to be shown instead: nothing *)
(* that s has is lost.                                                     *)
Leaving(s, t, a, H) ==
  /\ Good(t, ToSet(t.world), H) /\ Grown(s, t)
  /\ t.asking = s.asking /\ t.saveb = s.saveb /\ t.last = s.last
  /\ \/ Len(t.world) <= NBufs
     \/ Len(t.world) <= NBufs + 1 /\ buf_exists(t, a.name) # NULL

Without(t, b, n) == \A k \in 1..Len(t.wins) : k < n => t.wins[k].buf # b

(* Those that show b come first.                                           *)
Leading(t, b) ==
  \A i, j \in 1..Len(t.wins) : i < j /\ t.wins[i].buf # b => t.wins[j].buf # b

(* When windows are deleted, it is either not the first one, or delb_wind  *)
(* is at the first and the others to be deleted come next.                 *)
InOrder(t, at, a, b) ==
  a.own => t.wins[1].buf # b \/ (at = 1 /\ Leading(t, b))

(* Before a turn no window that has been looked at shows b, and after the  *)
(* last one none does, unless delb_wind has missed some.                   *)
Lap(s, p, a, b, H) ==
  /\ p = [st |-> p.st, at |-> p.at, more |-> p.more]
  /\ Leaving(s, p.st, a, H) /\ p.at \in 1..Len(p.st.wins) /\ p.more \in BOOLEAN
  /\ ~p.more => p.st.wins[1].buf # b
  /\ ~(a.own /\ Missed(s.wins, b)) =>
       /\ InOrder(p.st, p.at, a, b)
       /\ Without(p.st, b, IF p.more THEN p.at ELSE Len(p.st.wins) + 1)

(* How a turn ends.                                                        *)
LEMMA LapEnds ==
  ASSUME NEW s, NEW a, NEW b, NEW H, NEW t, Leaving(s, t, a, H), NEW at \in 1..Len(t.wins),
         ~(a.own /\ Missed(s.wins, b)) =>
           /\ InOrder(t, at, a, b)
           /\ at # 1 => Without(t, b, at)
           /\ t.wins[1].buf # b => (at = 1 => Without(t, b, Len(t.wins) + 1)),
         NEW p, p = Turned(t, at, b)
  PROVE  Lap(s, p, a, b, H)
<1>1. p = [st |-> t, at |-> at, more |-> at # 1 \/ t.wins[at].buf = b]
  BY DEF Turned
<1>2. p.st = t /\ p.at = at /\ p.more = (at # 1 \/ t.wins[at].buf = b)
  BY <1>1
<1>3. p = [st |-> p.st, at |-> p.at, more |-> p.more] /\ p.more \in BOOLEAN
  BY ONLY <1>1, <1>2
<1>4. ~p.more => at = 1 /\ t.wins[1].buf # b
  BY <1>2
<1>5. ASSUME ~(a.own /\ Missed(s.wins, b))
      PROVE  Without(t, b, IF p.more THEN at ELSE Len(t.wins) + 1)
  <2>1. CASE ~p.more
    BY <2>1, <1>4, <1>5
  <2>2. CASE p.more /\ at = 1
    <3>1. \A k \in 1..Len(t.wins) : ~ (k < 1)
      <4>1. Len(t.wins) \in Nat
        BY GoodFacts DEF Leaving
      <4> QED BY ONLY <4>1
    <3> QED BY <2>2, <3>1 DEF Without
  <2>3. CASE p.more /\ at # 1
    BY <2>3, <1>5
  <2> QED BY <2>1, <2>2, <2>3
<1> QED BY <1>2, <1>3, <1>4, <1>5 DEF Lap

(* A turn at a window that does not show b.                                *)
LEMMA LapPasses ==
  ASSUME NEW s, NEW a, NEW b, NEW H, NEW t, Leaving(s, t, a, H), NEW w \in 1..Len(t.wins),
         ~(a.own /\ Missed(s.wins, b)) =>
           /\ a.own => t.wins[1].buf # b
           /\ Without(t, b, w) /\ t.wins[w].buf # b,
         NEW p, p = Turned(t, w_next(t, w), b)
  PROVE  Lap(s, p, a, b, H)
<1>1. Len(t.wins) \in Nat /\ w \in Nat
  BY GoodFacts DEF Leaving
<1>2. PICK at : at = w_next(t, w)
  OBVIOUS
<1>3. at \in 1..Len(t.wins) /\ (at # 1 => at = w + 1) /\ (at = 1 => w = Len(t.wins))
  BY <1>1, <1>2 DEF w_next
<1>4. ASSUME ~(a.own /\ Missed(s.wins, b))
      PROVE  /\ InOrder(t, at, a, b)
             /\ at # 1 => Without(t, b, at)
             /\ t.wins[1].buf # b => (at = 1 => Without(t, b, Len(t.wins) + 1))
  <2>1. Without(t, b, w + 1)
    <3>1. \A k \in 1..Len(t.wins) : k < w + 1 => k < w \/ k = w
      BY <1>1
    <3> QED BY <3>1, <1>4 DEF Without
  <2> QED BY <2>1, <1>3, <1>4 DEF InOrder
<1> QED BY <1>2, <1>3, <1>4, LapEnds

(* A turn that gives a window the other buffer.                            *)
LEMMA LapSelects ==
  ASSUME NEW s, NEW a, NEW b \in ToSet(s.world), NEW H, NEW t, Leaving(s, t, a, H),
         a.name \in BufName, ~a.own => a.name # s.name[b], NEW w \in 1..Len(t.wins),
         t.wins[w].buf = b, Len(t.wins) = 1 \/ ~a.own,
         ~(a.own /\ Missed(s.wins, b)) => Without(t, b, w),
         NEW r, r = do_select(t, w, a.name), NEW p, p = Turned(r, w_next(t, w), b)
  PROVE  Lap(s, p, a, b, H)
<1>0. /\ Good(t, ToSet(t.world), H) /\ Grown(s, t)
      /\ t.asking = s.asking /\ t.saveb = s.saveb /\ t.last = s.last
      /\ \/ Len(t.world) <= NBufs
         \/ Len(t.world) <= NBufs + 1 /\ buf_exists(t, a.name) # NULL
  BY DEF Leaving
<1>1. NBufs \in Nat /\ Len(t.world) \in Nat /\ Len(t.world) <= NBufs + 1
  <2>1. NBufs \in Nat
    BY BoundsAssumption
  <2>2. Len(t.world) \in Nat
    BY <1>0, GoodFacts DEF Rec
  <2> QED BY ONLY <1>0, <2>1, <2>2
<1>2. PICK c, n : c = buf_exists(Named(t, a.name), a.name) /\ n = a.name
  OBVIOUS
<1>3. /\ Good(r, ToSet(t.world) \cup ToSet(r.world), H) /\ Selects(t, r, w, c)
      /\ r.name[c] = n /\ c # NULL /\ buf_exists(r, n) = c
      /\ Len(r.world) <= Len(t.world) + 1
      /\ buf_exists(t, n) # NULL => SameBooks(t, r)
  <2>1. n \in BufName /\ c = buf_exists(Named(t, n), n) /\ r = do_select(t, w, n)
    BY <1>2
  <2>2. Good(r, ToSet(t.world) \cup ToSet(r.world), H) /\ Chooses(t, r, w, c, n)
    BY ONLY <2>1, <1>0, <1>1, w \in 1..Len(t.wins), GoodSelect
  <2> QED BY ONLY <2>2 DEF Chooses
<1>4. /\ Grown(t, r) /\ Len(r.wins) = Len(t.wins) /\ r.last = t.last
      /\ r.asking = t.asking /\ r.saveb = t.saveb /\ r.wins[w].buf = c
      /\ \A k \in 1..Len(t.wins) : k # w => r.wins[k] = t.wins[k]
  BY <1>3 DEF Selects
<1>5. Grown(s, r)
  BY <1>0, <1>4 DEF Grown
<1>6. Good(r, ToSet(r.world), H)
  <2>1. ToSet(t.world) \cup ToSet(r.world) = ToSet(r.world)
    BY <1>4 DEF Grown
  <2> QED BY <1>3, <2>1
<1>7. Len(r.world) <= NBufs + 1
  <2>1. CASE Len(t.world) <= NBufs
    <3>1. Len(r.world) \in Nat
      BY <1>6, GoodFacts DEF Rec
    <3> QED BY ONLY <2>1, <3>1, <1>1, <1>3
  <2>2. CASE buf_exists(t, a.name) # NULL
    <3>1. r.world = t.world
      BY <2>2, <1>2, <1>3 DEF SameBooks
    <3> QED BY <3>1, <1>1
  <2> QED BY <2>1, <2>2, <1>0
<1>8. Leaving(s, r, a, H)
  BY <1>0, <1>2, <1>3, <1>4, <1>5, <1>6, <1>7 DEF Leaving
<1>9. c # b \/ a.own
  <2>1. r.name[b] = s.name[b]
    BY <1>5 DEF Grown
  <2> QED BY <2>1, <1>2, <1>3
<1>10. ASSUME ~a.own
       PROVE  Without(r, b, w) /\ r.wins[w].buf # b
  <2>1. Without(t, b, w)
    BY <1>10
  <2>2. \A k \in 1..Len(r.wins) : k < w => k # w
    <3>1. w \in Nat
      BY <1>0, GoodFacts
    <3> QED BY <3>1
  <2>3. Without(r, b, w)
    BY <2>1, <2>2, <1>4 DEF Without
  <2> QED BY <2>3, <1>4, <1>9, <1>10
<1>11. p = Turned(r, w_next(r, w), b) /\ w \in 1..Len(r.wins)
  BY <1>4 DEF w_next
<1>12. CASE ~a.own
  <2>1. /\ a.own => r.wins[1].buf # b
        /\ Without(r, b, w) /\ r.wins[w].buf # b
    BY <1>10, <1>12
  <2> QED BY <2>1, <1>8, <1>11, LapPasses
<1>13. CASE a.own
  <2>1. Len(r.wins) = 1 /\ w = 1 /\ w_next(r, w) = 1
    BY <1>4, <1>11, <1>13 DEF w_next
  <2>2. Leading(r, b)
    BY <2>1 DEF Leading
  <2>3. r.wins[1].buf # b => Without(r, b, Len(r.wins) + 1)
    BY <2>1 DEF Without
  <2>4. 1 \in 1..Len(r.wins) /\ p = Turned(r, 1, b)
    BY <2>1, <1>11
  <2>5. InOrder(r, 1, a, b)
    BY <2>2 DEF InOrder
  <2> QED BY <2>3, <2>4, <2>5, <1>8, LapEnds
<1> QED BY <1>12, <1>13

(* A turn that deletes a window.                                           *)
LEMMA LapDeletes ==
  ASSUME NEW s, NEW a, NEW b, NEW H, NEW t, Leaving(s, t, a, H), Len(t.wins) >= 2, a.own,
         NEW w \in 1..Len(t.wins), t.wins[w].buf = b,
         ~(a.own /\ Missed(s.wins, b)) => InOrder(t, w, a, b) /\ Without(t, b, w),
         NEW r, r = del_wind(t, w),
         NEW p, p = Turned(r, IF w = Len(t.wins) THEN 1 ELSE w, b)
  PROVE  Lap(s, p, a, b, H)
<1>0. /\ Good(t, ToSet(t.world), H) /\ Grown(s, t)
      /\ t.asking = s.asking /\ t.saveb = s.saveb /\ t.last = s.last
      /\ \/ Len(t.world) <= NBufs
         \/ Len(t.world) <= NBufs + 1 /\ buf_exists(t, a.name) # NULL
  BY DEF Leaving
<1>1. Len(t.wins) \in Nat /\ w \in Nat
  BY <1>0, GoodFacts
<1>2. PICK W : W = ToSet(t.world)
  OBVIOUS
<1>3. Good(r, W, H) /\ Deletes(t, r, w)
  BY <1>0, <1>2, GoodDelWind
<1>4. /\ SameBooks(t, r) /\ Len(r.wins) = Len(t.wins) - 1
      /\ r.last = t.last /\ r.asking = t.asking /\ r.saveb = t.saveb
      /\ \A k \in 1..Len(r.wins) : r.wins[k].buf = t.wins[IF k < w THEN k ELSE k + 1].buf
  BY <1>3 DEF Deletes
<1>5. r.world = t.world /\ r.name = t.name
  BY <1>4 DEF SameBooks
<1>6. Leaving(s, r, a, H)
  <2>1. buf_exists(r, a.name) = buf_exists(t, a.name)
    BY <1>5 DEF buf_exists, NthBuf
  <2>2. Good(r, ToSet(r.world), H) /\ Grown(s, r)
    BY <1>0, <1>2, <1>3, <1>5 DEF Grown
  <2> QED BY <2>1, <2>2, <1>0, <1>4, <1>5 DEF Leaving
<1>7. PICK at : at = IF w = Len(t.wins) THEN 1 ELSE w
  OBVIOUS
<1>8. at \in 1..Len(r.wins)
  BY <1>1, <1>4, <1>7
<1>9. ASSUME t.wins[1].buf # b, Without(t, b, w)
      PROVE  /\ InOrder(r, at, a, b)
             /\ at # 1 => Without(r, b, at)
             /\ r.wins[1].buf # b => (at = 1 => Without(r, b, Len(r.wins) + 1))
  <2>1. t.wins[1].buf # b /\ Without(t, b, w) /\ w # 1
    BY <1>9
  <2>2. r.wins[1].buf # b
    <3>1. 1 \in 1..Len(r.wins) /\ 1 < w
      BY <2>1, <1>1, <1>4
    <3>2. r.wins[1].buf = t.wins[1].buf
      BY <3>1, <1>4
    <3> QED BY <2>1, <3>2
  <2>3. Without(r, b, w)
    <3>1. ASSUME NEW k \in 1..Len(r.wins), k < w PROVE r.wins[k].buf # b
      <4>1. r.wins[k].buf = t.wins[k].buf /\ k \in 1..Len(t.wins)
        BY <3>1, <1>1, <1>4
      <4> QED BY <4>1, <3>1, <2>1 DEF Without
    <3> QED BY <3>1 DEF Without
  <2>4. at = 1 => Len(r.wins) + 1 = w
    BY <2>1, <1>1, <1>4, <1>7
  <2>5. at # 1 => at = w
    BY <1>7
  <2> QED BY <2>2, <2>3, <2>4, <2>5 DEF InOrder
<1>10. ASSUME w = 1, Leading(t, b)
       PROVE  /\ InOrder(r, at, a, b)
              /\ at # 1 => Without(r, b, at)
              /\ r.wins[1].buf # b => (at = 1 => Without(r, b, Len(r.wins) + 1))
  <2>1. at = 1 /\ Len(r.wins) \in Nat
    BY <1>1, <1>4, <1>7, <1>10
  <2>2. \A k \in 1..Len(r.wins) : k + 1 \in 1..Len(t.wins) /\ r.wins[k].buf = t.wins[k + 1].buf
    BY <2>1, <1>1, <1>4, <1>10
  <2>3. ASSUME NEW i \in 1..Len(r.wins), NEW j \in 1..Len(r.wins), i < j, r.wins[i].buf # b
        PROVE  r.wins[j].buf # b
    <3>1. /\ i + 1 \in 1..Len(t.wins) /\ r.wins[i].buf = t.wins[i + 1].buf
          /\ j + 1 \in 1..Len(t.wins) /\ r.wins[j].buf = t.wins[j + 1].buf
      BY <2>2
    <3>2. i + 1 < j + 1
      BY ONLY <2>3, <2>1
    <3> QED BY <3>1, <3>2, <2>3, <1>10 DEF Leading
  <2>4. Leading(r, b)
    BY <2>3 DEF Leading
  <2>5. ASSUME r.wins[1].buf # b, NEW k \in 1..Len(r.wins) PROVE r.wins[k].buf # b
    <3>1. CASE k = 1
      BY <3>1, <2>5
    <3>2. CASE k # 1
      <4>1. 1 \in 1..Len(r.wins) /\ 1 < k
        BY ONLY <3>2, <2>1, k \in 1..Len(r.wins)
      <4> QED BY <4>1, <2>3, <2>5
    <3> QED BY <3>1, <3>2
  <2> QED BY <2>1, <2>4, <2>5 DEF InOrder, Without
<1>11. ~(a.own /\ Missed(s.wins, b)) =>
          /\ InOrder(r, at, a, b)
          /\ at # 1 => Without(r, b, at)
          /\ r.wins[1].buf # b => (at = 1 => Without(r, b, Len(r.wins) + 1))
  BY <1>9, <1>10 DEF InOrder
<1> QED BY <1>6, <1>7, <1>8, <1>11, LapEnds

(* Any turn.                                                               *)
LEMMA LapNext ==
  ASSUME NEW s, NEW a, NEW b \in ToSet(s.world), NEW H, a.name \in BufName, a.own \in BOOLEAN,
         ~a.own => a.name # s.name[b], NEW p, Lap(s, p, a, b, H), NEW q, q = NextTurn(p, b, a)
  PROVE  Lap(s, q, a, b, H)
<1>1. CASE ~p.more
  BY <1>1 DEF NextTurn
<1>2. CASE p.more
  <2>1. PICK t, w : t = p.st /\ w = p.at
    OBVIOUS
  <2>2. /\ Leaving(s, t, a, H) /\ w \in 1..Len(t.wins)
        /\ ~(a.own /\ Missed(s.wins, b)) => InOrder(t, w, a, b) /\ Without(t, b, w)
    BY <1>2, <2>1 DEF Lap
  <2>3. Len(t.wins) \in Nat /\ Len(t.wins) >= 1
    BY <2>2, GoodFacts DEF Leaving
  <2>4. q = IF t.wins[w].buf # b THEN Turned(t, w_next(t, w), b)
            ELSE IF one_windp(t) \/ ~a.own
                 THEN Turned(do_select(t, w, a.name), w_next(t, w), b)
                 ELSE Turned(del_wind(t, w), IF w = Len(t.wins) THEN 1 ELSE w, b)
    BY <1>2, <2>1 DEF NextTurn, Turn
  <2>5. CASE t.wins[w].buf # b
    <3>1. ~(a.own /\ Missed(s.wins, b)) =>
            /\ a.own => t.wins[1].buf # b
            /\ Without(t, b, w) /\ t.wins[w].buf # b
      BY <2>2, <2>5 DEF InOrder
    <3> QED BY <3>1, <2>2, <2>4, <2>5, LapPasses
  <2>6. CASE t.wins[w].buf = b /\ (one_windp(t) \/ ~a.own)
    <3>1. q = Turned(do_select(t, w, a.name), w_next(t, w), b) /\ (Len(t.wins) = 1 \/ ~a.own)
      BY <2>4, <2>6 DEF one_windp
    <3> QED BY <3>1, <2>2, <2>6, LapSelects
  <2>7. CASE t.wins[w].buf = b /\ ~ (one_windp(t) \/ ~a.own)
    <3>1. q = Turned(del_wind(t, w), IF w = Len(t.wins) THEN 1 ELSE w, b) /\ a.own
      BY <2>4, <2>7
    <3>2. Len(t.wins) # 1
      BY <2>7 DEF one_windp
    <3>3. Len(t.wins) >= 2
      <4>1. PICK x : x = Len(t.wins)
        OBVIOUS
      <4>2. x \in Nat /\ x >= 1 /\ x # 1
        BY <4>1, <2>3, <3>2
      <4>3. x >= 2
        BY ONLY <4>2
      <4> QED BY <4>1, <4>3
    <3> QED BY <3>1, <3>3, <2>2, <2>7, LapDeletes
  <2> QED BY <2>5, <2>6, <2>7
<1> QED BY <1>1, <1>2

(* delb_wind.                                                              *)
LEMMA GoodDelbWind ==
  ASSUME NEW s, NEW H, Good(s, ToSet(s.world), H), Len(s.world) <= NBufs,
         NEW b \in ToSet(s.world), NEW p, p = delb_wind(s, b)
  PROVE  Lap(s, p, Alt(s, b), b, H)
<1> DEFINE start == [st |-> s, at |-> 1, more |-> TRUE]
           Def(g) == [k \in 0..(2 * Len(s.wins)) |-> IF k = 0 THEN start ELSE NextTurn(g[k - 1], b, Alt(s, b))]
           E == CHOOSE g : g = Def(g)
<1>1. p = E[2 * Len(s.wins)]
  BY DEF delb_wind
<1>2. PICK a, N : a = Alt(s, b) /\ N = 2 * Len(s.wins)
  OBVIOUS
<1>3. N \in Nat /\ Len(s.wins) \in Nat /\ Len(s.wins) >= 1
  <2>1. Len(s.wins) \in Nat /\ Len(s.wins) >= 1
    BY GoodFacts
  <2> QED BY ONLY <2>1, <1>2
<1>4. a.name \in BufName /\ a.own \in BOOLEAN /\ (~a.own => a.name # s.name[b])
  BY <1>2, AltIs
<1> DEFINE S == {q \in [st : Rec, at : Nat, more : BOOLEAN] : Lap(s, q, a, b, H)}
<1>5. ASSUME NEW q, Lap(s, q, a, b, H) PROVE q \in S
  <2>1. /\ q = [st |-> q.st, at |-> q.at, more |-> q.more]
        /\ Leaving(s, q.st, a, H) /\ q.at \in 1..Len(q.st.wins) /\ q.more \in BOOLEAN
    BY <1>5 DEF Lap
  <2>2. q.st \in Rec /\ q.at \in Nat
    BY <2>1 DEF Leaving, Good
  <2>3. q \in [st : Rec, at : Nat, more : BOOLEAN]
    BY ONLY <2>1, <2>2
  <2> QED BY <2>3, <1>5
<1>6. Lap(s, start, a, b, H)
  <2>1. start.st = s /\ start.at = 1 /\ start.more = TRUE
    OBVIOUS
  <2> HIDE DEF start
  <2>2. Leaving(s, s, a, H)
    BY DEF Leaving, Grown
  <2>3. 1 \in 1..Len(s.wins)
    BY ONLY <1>3
  <2>4. Without(s, b, 1)
    <3>1. \A k \in 1..Len(s.wins) : ~ (k < 1)
      BY ONLY <1>3
    <3> QED BY <3>1 DEF Without
  <2>5. start = [st |-> start.st, at |-> start.at, more |-> start.more]
    BY DEF start
  <2>6. ~(a.own /\ Missed(s.wins, b)) => InOrder(s, 1, a, b)
    <3>1. DOMAIN s.wins = 1..Len(s.wins)
      BY GoodFacts DEF Rec
    <3> QED BY <3>1 DEF Missed, InOrder, Leading
  <2> QED BY <2>1, <2>2, <2>3, <2>4, <2>5, <2>6 DEF Lap
<1>7. \A q \in S : Lap(s, q, a, b, H)
  OBVIOUS
<1> HIDE DEF S
<1>8. ASSUME NEW q \in S PROVE NextTurn(q, b, a) \in S
  <2>1. PICK r : r = NextTurn(q, b, a)
    OBVIOUS
  <2>2. Lap(s, r, a, b, H)
    BY <2>1, <1>4, <1>7, LapNext
  <2> QED BY <2>1, <2>2, <1>5
<1>9. start \in S
  BY <1>5, <1>6
<1> HIDE DEF start
<1>10. \E f : f = Def(f)
  <2> DEFINE G == [x \in (1..N) \X S |-> NextTurn(x[2], b, a)]
  <2>1. \A i \in 1..N, u \in S : G[<<i, u>>] = NextTurn(u, b, a)
    OBVIOUS
  <2>2. G \in [(1..N) \X S -> S]
    BY <1>8
  <2> HIDE DEF G
  <2>3. PICK f : IsLoop(f, N, S, start, G)
    BY <1>3, <1>9, <2>2, LoopExists
  <2>4. ASSUME NEW i \in 0..N
        PROVE  f[i] = IF i = 0 THEN start ELSE NextTurn(f[i - 1], b, a)
    <3>1. CASE i = 0
      BY <3>1, <2>3 DEF IsLoop
    <3>2. CASE i # 0
      <4>1. i \in 1..N /\ i - 1 \in 0..N
        BY <3>2, <1>3
      <4>2. f[i] = G[<<i, f[i - 1]>>] /\ f[i - 1] \in S
        BY <4>1, <2>3 DEF IsLoop
      <4> QED BY <4>1, <4>2, <3>2, <2>1
    <3> QED BY <3>1, <3>2
  <2>5. f = [i \in 0..N |-> IF i = 0 THEN start ELSE NextTurn(f[i - 1], b, a)]
    <3>1. f = [i \in 0..N |-> f[i]]
      BY <2>3 DEF IsLoop
    <3> QED BY <3>1, <2>4
  <2>6. f = Def(f)
    BY <2>5, <1>2
  <2> QED BY <2>6
<1>11. E = Def(E)
  <2> HIDE DEF Def
  <2> QED BY <1>10
<1>12. \A k \in 0..N : E[k] = IF k = 0 THEN start ELSE NextTurn(E[k - 1], b, a)
  <2> HIDE DEF E
  <2> QED BY <1>2, <1>11
<1> HIDE DEF E, Def
<1> DEFINE T == {k \in 0..N : E[k] \in S}
<1>13. 0 \in T
  BY <1>3, <1>9, <1>12
<1>14. ASSUME NEW k \in 1..N, k - 1 \in T PROVE k \in T
  <2>1. k \in 0..N /\ k # 0 /\ E[k - 1] \in S
    BY <1>3, <1>14
  <2>2. E[k] = NextTurn(E[k - 1], b, a)
    BY <2>1, <1>12
  <2> QED BY <2>1, <2>2, <1>8
<1>15. N \in T
  <2> HIDE DEF T
  <2>1. \A k \in 0..N : k \in T
    BY <1>3, <1>13, <1>14, EachTurn
  <2> QED BY <2>1, <1>3
<1> QED BY <1>1, <1>2, <1>7, <1>15

(* What is left when delb_wind has ended: nothing that is kept but the     *)
(* windows leads to b.                                                     *)
Forgets(s, t, b) ==
  /\ SameBooks(s, t) /\ t.wins = s.wins /\ t.win = s.win
  /\ t.asking = s.asking /\ t.saveb = s.saveb /\ t.last # b
  /\ (\A w \in 1..Len(s.wins) : s.wins[w].buf # b) => t.cur # b

(* Once no first window shows b, nothing but windows leads to it.          *)
LEMMA GoodForget ==
  ASSUME NEW s, NEW H, Good(s, ToSet(s.world), H), ~s.asking, s.saveb = NULL,
         NEW b \in ToSet(s.world), s.wins[1].buf # b, NEW t, t = Forget(s, b)
  PROVE  Good(t, ToSet(t.world), H) /\ Forgets(s, t, b)
<1>1. /\ s \in Rec /\ s.cur \in ToSet(s.world) /\ s.cur # NULL /\ s.win \in 1..Len(s.wins)
      /\ s.wins[s.win].buf \in ToSet(s.world) /\ s.wins[s.win].buf # NULL /\ b # NULL
      /\ s.last \in ToSet(s.world) \cup {NULL} /\ ToSet(s.world) \subseteq Struct
  <2>1. s \in Rec /\ s.cur \in ToSet(s.world) /\ s.cur # NULL /\ s.win \in 1..Len(s.wins)
        /\ s.wins[s.win].buf \in ToSet(s.world)
    BY GoodFacts
  <2>2. s.last \in ToSet(s.world) \cup {NULL} /\ ToSet(s.world) \subseteq Struct
    BY DEF Good, Pointers
  <2> QED BY <2>1, <2>2, NullFacts
<1>2. PICK cur : cur = IF s.cur = b THEN NULL ELSE s.cur
  OBVIOUS
<1>3. PICK c, l : /\ c = IF cur = NULL THEN s.wins[s.win].buf ELSE cur
                  /\ l = IF s.last = b THEN cur ELSE s.last
  OBVIOUS
<1>4. t = [s EXCEPT !.last = l, !.cur = c]
  BY <1>2, <1>3 DEF Forget
<1>5. /\ c \in ToSet(s.world) /\ c \in Struct
      /\ l \in ToSet(s.world) \cup {NULL} /\ l \in Maybe /\ l # b
      /\ (\A w \in 1..Len(s.wins) : s.wins[w].buf # b) => c # b
  <2>1. c \in ToSet(s.world)
    BY <1>1, <1>2, <1>3
  <2>2. l \in ToSet(s.world) \cup {NULL} /\ l # b
    BY <1>1, <1>2, <1>3
  <2>3. (\A w \in 1..Len(s.wins) : s.wins[w].buf # b) => c # b
    BY <1>1, <1>2, <1>3
  <2> QED BY <2>1, <2>2, <2>3, <1>1 DEF Maybe
<1>6. /\ t \in Rec /\ SameBooks(s, t) /\ t.wins = s.wins /\ t.win = s.win
      /\ t.asking = s.asking /\ t.saveb = s.saveb /\ t.last = l /\ t.cur = c /\ t.mini = s.mini
  BY <1>1, <1>4, <1>5 DEF Rec, SameBooks
<1>7. t.world = s.world
  BY <1>6 DEF SameBooks
<1>8. Pointers(t, ToSet(s.world))
  BY <1>5, <1>6 DEF Pointers
<1>9. Good(t, ToSet(s.world), H)
  <2>1. PICK X : X = ToSet(s.world)
    OBVIOUS
  <2>2. Good(s, X, H) /\ Pointers(t, X) /\ t.win \in 1..Len(s.wins)
    BY <2>1, <1>1, <1>6, <1>8
  <2>3. Good(t, X, H)
    BY <2>2, <1>6, GoodPointers
  <2> QED BY <2>1, <2>3
<1> QED BY <1>5, <1>6, <1>7, <1>9 DEF Forgets

(* The buffer itself is given back.                                        *)
Frees(s, t, b) ==
  /\ ToSet(t.world) = ToSet(s.world) \ {b} /\ Len(t.world) = Len(s.world) - 1
  /\ t.wins = s.wins /\ t.win = s.win /\ t.cur = s.cur /\ t.last = s.last
  /\ t.asking = s.asking /\ t.saveb = s.saveb /\ t.hung = s.hung

(* b is out of the list, and if nothing leads to it nothing leads out of   *)
(* the list.                                                               *)
LEMMA GoodFreed ==
  ASSUME NEW s, NEW H, Good(s, ToSet(s.world), H), ~s.asking, s.saveb = NULL,
         NEW b \in ToSet(s.world), s.last # b, s.wins[1].buf # b, NEW t, t = Freed(s, b)
  PROVE  /\ Good(t, ToSet(t.world) \cup {b}, H) /\ Frees(s, t, b)
         /\ (\A w \in 1..Len(s.wins) : s.wins[w].buf # b) /\ s.cur # b
              => Good(t, ToSet(t.world), H)
<1>0. /\ s \in Rec /\ s.world \in Seq(Struct) /\ s.free \in Seq(Struct)
      /\ Len(s.world) \in Nat /\ Len(s.free) \in Nat
      /\ Once(s.world) /\ Once(s.free) /\ ToSet(s.world) \cap ToSet(s.free) = {}
      /\ ToSet(s.world) \cup ToSet(s.free) = 1..(Len(s.world) + Len(s.free))
      /\ Len(s.world) + Len(s.free) <= NBufs + 2
      /\ \A c, d \in ToSet(s.world) : s.name[c] = s.name[d] => c = d
      /\ ToSet(s.world) \subseteq Struct
      /\ Pointers(s, ToSet(s.world)) /\ Panes(s.wins, ToSet(s.world), H)
  <2>1. s \in Rec /\ Books(s) /\ ToSet(s.world) \subseteq Struct
        /\ Pointers(s, ToSet(s.world)) /\ Panes(s.wins, ToSet(s.world), H)
    BY DEF Good
  <2>2. s.world \in Seq(Struct) /\ s.free \in Seq(Struct)
    BY <2>1 DEF Rec
  <2>3. Len(s.world) \in Nat /\ Len(s.free) \in Nat
    BY <2>2
  <2> QED BY ONLY <2>1, <2>2, <2>3 DEF Books
<1>1. PICK q, f : q = s.world /\ f = s.free
  OBVIOUS
<1>2. PICK r, g : r = RemoveFirst(q, b) /\ g = <<b>> \o f
  OBVIOUS
<1>3. /\ r \in Seq(Struct) /\ Len(r) = Len(q) - 1 /\ Once(r) /\ ToSet(r) = ToSet(q) \ {b}
  <2>1. q \in Seq(Struct) /\ Once(q) /\ b \in ToSet(q)
    BY <1>0, <1>1
  <2> QED BY ONLY <2>1, <1>2, RemoveOnce
<1>4. /\ g \in Seq(Struct) /\ Len(g) = Len(f) + 1 /\ ToSet(g) = {b} \cup ToSet(f) /\ Once(g)
  <2>1. f \in Seq(Struct) /\ b \in Struct /\ Once(f) /\ b \notin ToSet(f) /\ g = <<b>> \o f
    BY <1>0, <1>1, <1>2
  <2>2. PICK S : S = Struct
    OBVIOUS
  <2>3. f \in Seq(S) /\ b \in S
    BY <2>1, <2>2
  <2>4. g \in Seq(S) /\ Prepended(f, b, g)
    BY ONLY <2>1, <2>3, ConsOnce
  <2> QED BY ONLY <2>1, <2>2, <2>4 DEF Prepended
<1>5. PICK na, fi, ty : /\ na = [s.name EXCEPT ![b] = <<>>] /\ fi = [s.file EXCEPT ![b] = NoFile]
                        /\ ty = [s.type EXCEPT ![b] = "none"]
  OBVIOUS
<1>6. t = [s EXCEPT !.world = r, !.free = g, !.name = na, !.file = fi, !.type = ty]
  BY <1>1, <1>2, <1>5 DEF Freed
<1>7. s.name \in [Struct -> BufName] /\ s.file \in [Struct -> FileName] /\ s.type \in [Struct -> BufType]
  BY <1>0 DEF Rec
<1>8. na \in [Struct -> BufName] /\ fi \in [Struct -> FileName] /\ ty \in [Struct -> BufType]
  <2>1. na \in [Struct -> BufName]
    BY <1>5, <1>7 DEF BufName
  <2>2. fi \in [Struct -> FileName]
    BY <1>5, <1>7 DEF FileName
  <2>3. ty \in [Struct -> BufType]
    BY <1>5, <1>7 DEF BufType
  <2> QED BY <2>1, <2>2, <2>3
<1>9. t \in Rec
  BY ONLY <1>0, <1>3, <1>4, <1>6, <1>8 DEF Rec
<1>10. /\ t.world = r /\ t.free = g /\ t.name = na /\ t.wins = s.wins /\ t.win = s.win
       /\ t.cur = s.cur /\ t.last = s.last /\ t.mini = s.mini
       /\ t.asking = s.asking /\ t.saveb = s.saveb /\ t.hung = s.hung
  BY ONLY <1>0, <1>6 DEF Rec
<1>11. Frees(s, t, b)
  BY <1>1, <1>3, <1>10 DEF Frees
<1>12. Books(t)
  <2>1. \A c, d \in ToSet(r) : na[c] = na[d] => c = d
    <3>1. \A c \in ToSet(r) : c \in ToSet(s.world) /\ c # b /\ c \in Struct
      BY <1>0, <1>1, <1>3
    <3>2. \A c \in ToSet(r) : na[c] = s.name[c]
      BY <3>1, <1>5, <1>7
    <3> QED BY <3>1, <3>2, <1>0
  <2>2. ToSet(r) \cap ToSet(g) = {} /\ ToSet(r) \cup ToSet(g) = ToSet(q) \cup ToSet(f)
    BY <1>0, <1>1, <1>3, <1>4
  <2>3. PICK x, y, u, v : x = Len(r) /\ y = Len(g) /\ u = Len(q) /\ v = Len(f)
    OBVIOUS
  <2>4. u \in Nat /\ v \in Nat /\ x = u - 1 /\ y = v + 1 /\ u + v <= NBufs + 2
    BY <1>0, <1>1, <1>3, <1>4, <2>3
  <2>5. x + y = u + v
    BY ONLY <2>4
  <2>6. ToSet(r) \cup ToSet(g) = 1..(Len(r) + Len(g)) /\ Len(r) + Len(g) <= NBufs + 2
    BY <1>0, <1>1, <2>2, <2>3, <2>4, <2>5
  <2>7. Len(r) >= 1
    <3>1. 1 \in 1..Len(s.wins)
      BY GoodFacts
    <3>2. s.wins[1].buf \in ToSet(r)
      BY <3>1, <1>0, <1>1, <1>3 DEF Panes
    <3>3. Len(r) \in Nat /\ Len(r) # 0
      <4>1. Len(r) \in Nat /\ DOMAIN r = 1..Len(r)
        BY <1>3
      <4>2. PICK k \in DOMAIN r : r[k] = s.wins[1].buf
        BY <3>2 DEF ToSet
      <4>3. k \in 1..Len(r)
        BY <4>1, <4>2
      <4> QED BY ONLY <4>1, <4>3
    <3>4. PICK z : z = Len(r)
      OBVIOUS
    <3>5. z \in Nat /\ z # 0
      BY <3>3, <3>4
    <3>6. z >= 1
      BY ONLY <3>5
    <3> QED BY <3>4, <3>6
  <2> QED BY ONLY <2>1, <2>2, <2>6, <2>7, <1>3, <1>4, <1>10 DEF Books
<1>13. ToSet(t.world) \cup {b} = ToSet(s.world)
  BY <1>1, <1>3, <1>10
<1>14. Good(t, ToSet(t.world) \cup {b}, H)
  <2>1. Pointers(t, ToSet(s.world)) /\ Panes(t.wins, ToSet(s.world), H)
    BY <1>0, <1>10 DEF Pointers
  <2>2. t.win \in 1..Len(t.wins) /\ ToSet(t.world) \subseteq ToSet(s.world)
    BY <1>10, <1>13 DEF Good
  <2> QED BY <2>1, <2>2, <1>0, <1>9, <1>12, <1>13 DEF Good
<1>15. ASSUME \A w \in 1..Len(s.wins) : s.wins[w].buf # b, s.cur # b
       PROVE  Good(t, ToSet(t.world), H)
  <2>1. ToSet(t.world) = ToSet(s.world) \ {b}
    BY <1>1, <1>3, <1>10
  <2>2. s.cur \in ToSet(s.world) /\ s.last \in ToSet(s.world) \cup {NULL}
    BY <1>0 DEF Pointers
  <2>3. Pointers(t, ToSet(t.world))
    BY <2>1, <2>2, <1>10, <1>15 DEF Pointers
  <2>4. Panes(t.wins, ToSet(t.world), H)
    BY <2>1, <1>0, <1>10, <1>15 DEF Panes
  <2>5. t.win \in 1..Len(t.wins) /\ ToSet(t.world) \subseteq Struct
    BY <2>1, <1>0, <1>10 DEF Good
  <2> QED BY <2>3, <2>4, <2>5, <1>9, <1>12 DEF Good
<1> QED BY <1>11, <1>14, <1>15

(* kill_buf.                                                               *)
Kills(s, t, b) ==
  /\ ToSet(s.world) \subseteq ToSet(t.world) \cup {b}
  /\ b \notin ToSet(t.world) /\ Len(t.world) <= NBufs
  /\ ~t.asking /\ t.saveb = NULL

(* kill_buf of b: all but b is as before, and unless delb_wind has missed  *)
(* windows, nothing leads to it.                                           *)
LEMMA GoodKill ==
  ASSUME NEW s, NEW H, Good(s, ToSet(s.world), H), Len(s.world) <= NBufs, ~s.asking,
         s.saveb = NULL, NEW b \in ToSet(s.world), NEW t, t = kill_buf(s, b), ~t.hung
  PROVE  /\ Good(t, ToSet(t.world) \cup {b}, H) /\ Kills(s, t, b)
         /\ ~(Alt(s, b).own /\ Missed(s.wins, b)) => Good(t, ToSet(t.world), H)
<1>1. PICK p, a : p = delb_wind(s, b) /\ a = Alt(s, b)
  OBVIOUS
<1>2. Lap(s, p, a, b, H)
  BY <1>1, GoodDelbWind
<1>3. PICK u : u = p.st
  OBVIOUS
<1>4. /\ Good(u, ToSet(u.world), H) /\ Grown(s, u)
      /\ ~u.asking /\ u.saveb = NULL /\ Len(u.world) <= NBufs + 1
      /\ ~p.more => u.wins[1].buf # b
      /\ ~(a.own /\ Missed(s.wins, b)) => (~p.more => Without(u, b, Len(u.wins) + 1))
  <2>1. /\ Leaving(s, u, a, H) /\ p.more \in BOOLEAN
        /\ ~p.more => u.wins[1].buf # b
        /\ ~(a.own /\ Missed(s.wins, b)) => (~p.more => Without(u, b, Len(u.wins) + 1))
    BY <1>2, <1>3 DEF Lap
  <2>2. Len(u.world) <= NBufs + 1
    <3>1. PICK z : z = Len(u.world)
      OBVIOUS
    <3>2. z \in Nat
      BY <2>1, <3>1, GoodFacts DEF Leaving, Rec
    <3>3. NBufs \in Nat
      BY BoundsAssumption
    <3>4. z <= NBufs \/ z <= NBufs + 1
      BY <2>1, <3>1 DEF Leaving
    <3>5. z <= NBufs + 1
      BY ONLY <3>2, <3>3, <3>4
    <3> QED BY <3>1, <3>5
  <2> QED BY <2>1, <2>2 DEF Leaving
<1>5. ~p.more
  <2> SUFFICES ASSUME p.more PROVE FALSE
    OBVIOUS
  <2>1. t = [u EXCEPT !.hung = TRUE]
    BY <1>1, <1>3 DEF kill_buf, Killed
  <2>2. u \in Rec
    BY <1>4 DEF Good
  <2>3. t.hung
    BY <2>1, <2>2 DEF Rec
  <2> QED BY <2>3
<1>6. PICK v : v = Forget(u, b)
  OBVIOUS
<1>7. b \in ToSet(u.world)
  BY <1>4 DEF Grown
<1>8. /\ Good(v, ToSet(v.world), H) /\ SameBooks(u, v) /\ v.wins = u.wins /\ v.win = u.win
      /\ v.asking = u.asking /\ v.saveb = u.saveb /\ v.last # b
      /\ (\A w \in 1..Len(u.wins) : u.wins[w].buf # b) => v.cur # b
  <2>1. /\ Good(u, ToSet(u.world), H) /\ ~u.asking /\ u.saveb = NULL
        /\ b \in ToSet(u.world) /\ u.wins[1].buf # b
    BY <1>4, <1>5, <1>7
  <2>2. Good(v, ToSet(v.world), H) /\ Forgets(u, v, b)
    BY ONLY <2>1, <1>6, GoodForget
  <2> QED BY <2>2 DEF Forgets
<1>9. t = Freed(v, b)
  BY <1>1, <1>3, <1>5, <1>6 DEF kill_buf, Killed
<1>10. v.world = u.world /\ b \in ToSet(v.world) /\ v.wins[1].buf # b
  BY <1>4, <1>5, <1>7, <1>8 DEF SameBooks
<1>11. /\ Good(t, ToSet(t.world) \cup {b}, H) /\ Frees(v, t, b)
       /\ (\A w \in 1..Len(v.wins) : v.wins[w].buf # b) /\ v.cur # b
            => Good(t, ToSet(t.world), H)
  <2>1. /\ Good(v, ToSet(v.world), H) /\ ~v.asking /\ v.saveb = NULL
        /\ b \in ToSet(v.world) /\ v.last # b /\ v.wins[1].buf # b
    BY ONLY <1>4, <1>8, <1>10
  <2> QED BY ONLY <2>1, <1>9, GoodFreed
<1>12. ASSUME ~(a.own /\ Missed(s.wins, b)) PROVE Good(t, ToSet(t.world), H)
  <2>1. Without(u, b, Len(u.wins) + 1)
    BY <1>4, <1>5, <1>12
  <2>2. Len(u.wins) \in Nat
    BY <1>4, GoodFacts
  <2>3. \A w \in 1..Len(u.wins) : w < Len(u.wins) + 1
    BY ONLY <2>2
  <2>4. \A w \in 1..Len(u.wins) : u.wins[w].buf # b
    BY <2>1, <2>3 DEF Without
  <2> QED BY <2>4, <1>8, <1>11
<1>13. Kills(s, t, b)
  <2>1. ToSet(t.world) = ToSet(u.world) \ {b} /\ Len(t.world) = Len(u.world) - 1
        /\ t.asking = u.asking /\ t.saveb = u.saveb
    BY <1>8, <1>10, <1>11 DEF Frees
  <2>2. Len(t.world) <= NBufs
    <3>1. PICK z : z = Len(u.world)
      OBVIOUS
    <3>2. z \in Nat /\ z <= NBufs + 1 /\ NBufs \in Nat /\ Len(t.world) = z - 1
      BY <2>1, <3>1, <1>4, GoodFacts, BoundsAssumption DEF Rec
    <3> QED BY ONLY <3>2
  <2> QED BY <2>1, <2>2, <1>4 DEF Kills, Grown
<1> QED BY <1>1, <1>11, <1>12, <1>13

-----------------------------------------------------------------------------
(* Commands that ask nothing.                                              *)

(* The buffer that is made current is the one that the window shows, or    *)
(* the window is made to show it: an operation that changes nothing else.  *)
Settles(s, t) ==
  /\ SameBooks(s, t) /\ t.win = s.win /\ t.asking = s.asking /\ t.hung = s.hung
  /\ t.type = s.type

(* SetABuf, and after it the same windows are there.                       *)
LEMMA AltNoted ==
  ASSUME NEW s, NEW X, NEW H, Good(s, X, H), NEW b \in X \cup {NULL}, NEW t, t = SetABuf(s, b)
  PROVE  /\ Works(s, t, X, H) /\ Good(t, X, H) /\ Settles(s, t)
         /\ t.wins = s.wins /\ t.cur = s.cur /\ t.mini = s.mini /\ t.saveb = s.saveb
<1>1. /\ Good(t, X, H) /\ SameBooks(s, t) /\ t.wins = s.wins /\ t.win = s.win
      /\ t.cur = s.cur /\ t.mini = s.mini
      /\ t.asking = s.asking /\ t.saveb = s.saveb /\ t.hung = s.hung /\ t.type = s.type
  BY GoodSetABuf
<1>2. ~s.asking /\ Shows(s) => Shows(t)
  BY <1>1 DEF Shows
<1> QED BY <1>1, <1>2, WorksSame DEF Settles

(* A complaint: the current window goes back to the current buffer.        *)
LEMMA GoodComplained ==
  ASSUME NEW s, NEW X, NEW H, Good(s, X, H), NEW t, t = Complained(s)
  PROVE  Works(s, t, X, H) /\ Settles(s, t) /\ Good(t, X, H) /\ Shows(t)
<1>1. s.cur \in X /\ s.win \in 1..Len(s.wins)
  BY GoodFacts
<1>2. PICK w, b : w = s.win /\ b = s.cur
  OBVIOUS
<1>3. t = tiewind(s, w, b) /\ w \in 1..Len(s.wins) /\ b \in X
  BY <1>1, <1>2 DEF Complained
<1>4. Good(t, X, H) /\ TiesOnly(s, t) /\ t.wins[w].buf = b
  BY <1>3, TieWind
<1>5. Shows(t) /\ Settles(s, t)
  BY <1>2, <1>4 DEF Shows, TiesOnly, Settles
<1>6. Works(s, t, X, H)
  BY <1>4, <1>5, WorksSame DEF Settles
<1> QED BY <1>4, <1>5, <1>6

(* The buffer b is shown in the current window and made current.           *)
LEMMA GoodShown ==
  ASSUME NEW s, NEW X, NEW H, Good(s, X, H), NEW b \in X,
         NEW t, t = SetBuf(tiewind(s, s.win, b), b)
  PROVE  Works(s, t, X, H)
<1>1. s.win \in 1..Len(s.wins) /\ b # NULL
  BY GoodFacts, NullFacts DEF Good
<1>2. PICK w, u : w = s.win /\ u = tiewind(s, w, b)
  OBVIOUS
<1>3. Good(u, X, H) /\ TiesOnly(s, u) /\ u.wins[w].buf = b
  BY <1>1, <1>2, TieWind
<1>4. t = SetBuf(u, b) /\ b \in X \cup {NULL}
  BY <1>2
<1>5. /\ Good(t, X, H) /\ SameBooks(u, t) /\ t.wins = u.wins /\ t.win = u.win
      /\ t.cur = (IF b = NULL THEN u.cur ELSE b) /\ t.asking = u.asking
  BY <1>3, <1>4, GoodSetBuf
<1>6. SameBooks(s, t) /\ t.asking = s.asking /\ Shows(t)
  BY <1>1, <1>2, <1>3, <1>5 DEF SameBooks, TiesOnly, Shows
<1> QED BY <1>5, <1>6, WorksSame

(* SetWind, as a command.                                                  *)
LEMMA WindSet ==
  ASSUME NEW s, NEW X, NEW H, Good(s, X, H), NEW w \in 1..Len(s.wins), NEW t, t = SetWind(s, w)
  PROVE  Works(s, t, X, H) /\ Good(t, X, H) /\ GoesTo(s, t, w)
<1>1. Good(t, X, H) /\ GoesTo(s, t, w)
  BY GoodSetWind
<1>2. SameBooks(s, t) /\ t.asking = s.asking /\ (~s.asking => Shows(t))
  BY <1>1 DEF GoesTo, Shows
<1> QED BY <1>1, <1>2, WorksSame

(* After a command real_ask makes the minibuffer current again.            *)
LEMMA GoodDispatch ==
  ASSUME NEW s, NEW X, NEW H, Good(s, X, H), NEW t, t = dispatch(s)
  PROVE  Works(s, t, X, H)
<1>1. CASE ~s.asking
  <2>1. t = s
    BY <1>1 DEF dispatch
  <2> QED BY <2>1, WorksSame DEF SameBooks
<1>2. CASE s.asking
  <2>1. s.mini \in X
    BY <1>2 DEF Good, Pointers
  <2>2. PICK b : b = s.mini
    OBVIOUS
  <2>3. t = SetBuf(s, b) /\ b \in X \cup {NULL}
    BY <2>1, <2>2, <1>2 DEF dispatch
  <2>4. Good(t, X, H) /\ SameBooks(s, t) /\ t.asking = s.asking
    BY <2>3, GoodSetBuf
  <2> QED BY <1>2, <2>4, WorksSame
<1>3. s.asking \in BOOLEAN
  BY DEF Good, Rec
<1> QED BY <1>1, <1>2, <1>3

(* find_tag.                                                               *)
LEMMA GoodFindTag ==
  ASSUME NEW s, NEW X, NEW H, Good(s, X, H), Len(s.world) <= NBufs, NEW f \in File,
         NEW t, t = find_tag(s, f)
  PROVE  Works(s, t, X, H)
<1>1. PICK w : w = s.win /\ w \in 1..Len(s.wins)
  BY GoodFacts
<1>2. PICK u : u = do_find(s, w, f)
  OBVIOUS
<1>3. PICK b : b = visiting(u, f)
  OBVIOUS
<1>4. Good(u, X \cup ToSet(u.world), H) /\ Selects(s, u, w, b) /\ b # NULL
  BY <1>1, <1>2, <1>3, GoodFind
<1>5. PICK Y : Y = X \cup ToSet(u.world)
  OBVIOUS
<1>6. Good(u, Y, H) /\ b \in Y /\ u.cur \in Y
  BY <1>4, <1>5, GoodFacts DEF Selects
<1>7. PICK v : v = IF u.cur = b THEN u ELSE SetABuf(u, u.cur)
  OBVIOUS
<1>8. t = SetBuf(v, b)
  BY <1>1, <1>2, <1>3, <1>7 DEF find_tag, Tagged
<1>9. Good(v, Y, H) /\ SameBooks(u, v) /\ v.wins = u.wins /\ v.win = u.win /\ v.asking = u.asking
  <2>1. CASE u.cur = b
    BY <2>1, <1>6, <1>7 DEF SameBooks
  <2>2. CASE u.cur # b
    <3>1. PICK c : c = u.cur
      OBVIOUS
    <3>2. v = SetABuf(u, c) /\ c \in Y \cup {NULL}
      BY <2>2, <3>1, <1>6, <1>7
    <3> QED BY <3>2, <1>6, AltNoted DEF Settles
  <2> QED BY <2>1, <2>2
<1>10. /\ Good(t, Y, H) /\ SameBooks(v, t) /\ t.wins = v.wins /\ t.win = v.win
       /\ t.cur = (IF b = NULL THEN v.cur ELSE b) /\ t.asking = v.asking
  BY <1>6, <1>8, <1>9, GoodSetBuf
<1>11. t.world = u.world /\ t.name = u.name /\ t.wins = u.wins /\ t.win = u.win
       /\ t.asking = u.asking /\ t.cur = b
  BY <1>4, <1>9, <1>10 DEF SameBooks
<1>12. Shows(t) /\ Grown(s, t) /\ t.asking = s.asking
  BY <1>1, <1>4, <1>11 DEF Shows, Selects, Grown
<1> QED BY <1>5, <1>10, <1>11, <1>12 DEF Works

(* Dividing the current window, and going to one of those made.            *)
LEMMA GoodDivided ==
  ASSUME NEW s, NEW X, NEW H, Good(s, X, H), NEW n \in Nat, Splits(s, n),
         NEW t, t = SetWind(div_wind(s, n), s.win + n)
  PROVE  Works(s, t, X, H) /\ Good(t, X, H) /\ Len(t.wins) = Len(s.wins) + n
         /\ SameBooks(s, t) /\ (~s.asking => Shows(t))
<1>1. PICK u : u = div_wind(s, n)
  OBVIOUS
<1>2. Good(u, X, H) /\ Divides(s, u, n)
  BY <1>1, GoodDivWind
<1>3. PICK w : w = s.win + n
  OBVIOUS
<1>4. w \in 1..Len(u.wins)
  <2>1. PICK k, l : k = s.win /\ l = Len(s.wins)
    OBVIOUS
  <2>2. l \in Nat /\ k \in 1..l /\ Len(u.wins) = l + n
    BY <2>1, <1>2, GoodFacts DEF Divides
  <2>3. k + n \in 1..l + n
    BY ONLY <2>2
  <2> QED BY <2>1, <2>2, <2>3, <1>3
<1>5. t = SetWind(u, w)
  BY <1>1, <1>3
<1>6. Good(t, X, H) /\ GoesTo(u, t, w)
  BY <1>2, <1>4, <1>5, WindSet
<1>7. Len(t.wins) = Len(s.wins) + n /\ SameBooks(s, t) /\ t.asking = s.asking
      /\ (~s.asking => Shows(t))
  BY <1>2, <1>6 DEF Divides, GoesTo, TiesOnly, SameBooks, Shows
<1> QED BY <1>6, <1>7, WorksSame

(* w_nam_typ gives a window, or none.                                      *)
LEMMA NamTypIs ==
  ASSUME NEW s, NEW X, NEW H, Good(s, X, H), NEW n, NEW y, NEW k, k = w_nam_typ(s, n, y)
  PROVE  k \in 0..Len(s.wins)
<1>1. Len(s.wins) \in Nat /\ DOMAIN s.wins = 1..Len(s.wins)
  BY GoodFacts
<1>2. \A I : I \subseteq 1..Len(s.wins) => (IF I = {} THEN 0 ELSE Min(I)) \in 0..Len(s.wins)
  <2> TAKE I
  <2> HAVE I \subseteq 1..Len(s.wins)
  <2>1. CASE I # {}
    <3>1. I \subseteq Nat
      BY <1>1
    <3>2. Min(I) \in I
      BY <2>1, <3>1, MinFacts
    <3>3. PICK m : m = Min(I)
      OBVIOUS
    <3>4. m \in 1..Len(s.wins)
      BY <3>2, <3>3
    <3>5. m \in 0..Len(s.wins)
      BY ONLY <3>4, <1>1
    <3> QED BY ONLY <2>1, <3>3, <3>5
  <2>2. CASE I = {}
    BY <2>2, <1>1
  <2> QED BY <2>1, <2>2
<1>3. PICK I, J : /\ I = {w \in 1..Len(s.wins) : s.wins[w].buf = buf_exists(s, n)}
                  /\ J = {w \in 1..Len(s.wins) : s.type[s.wins[w].buf] = y}
  OBVIOUS
<1>4. k = (IF I = {} THEN 0 ELSE Min(I)) \/ k = (IF J = {} THEN 0 ELSE Min(J))
  BY <1>1, <1>3 DEF w_nam_typ, SelectInSeq
<1> QED BY <1>2, <1>3, <1>4

(* Where pop_wind goes.                                                    *)
Pop(s, t, X, H) ==
  /\ Works(s, t, X, H) /\ Good(t, X, H) /\ SameBooks(s, t) /\ Len(t.wins) >= Len(s.wins)
  /\ ~s.asking => Shows(t)

(* Going to the window k that w_nam_typ has found, or to one that is made. *)
LEMMA GoodPopTo ==
  ASSUME NEW s, NEW X, NEW H, Good(s, X, H), NEW k \in 0..Len(s.wins),
         k = 0 /\ one_windp(s) => Splits(s, 1), NEW t, t = PopTo(s, k)
  PROVE  Pop(s, t, X, H)
<1>1. Len(s.wins) \in Nat /\ s.win \in 1..Len(s.wins)
  BY GoodFacts
<1>2. ASSUME NEW w \in 1..Len(s.wins), t = SetWind(s, w) PROVE Pop(s, t, X, H)
  <2>1. Works(s, t, X, H) /\ Good(t, X, H) /\ GoesTo(s, t, w)
    BY <1>2, WindSet
  <2>2. Len(t.wins) >= Len(s.wins)
    BY <2>1, <1>1 DEF GoesTo
  <2> QED BY <2>1, <2>2 DEF Pop, GoesTo, Shows
<1>3. CASE k # 0
  <2>1. k \in 1..Len(s.wins) /\ t = SetWind(s, k)
    BY <1>1, <1>3 DEF PopTo
  <2> QED BY <2>1, <1>2
<1>4. CASE k = 0 /\ one_windp(s)
  <2>1. PICK n : n = 1
    OBVIOUS
  <2>2. n \in Nat /\ Splits(s, n) /\ t = SetWind(div_wind(s, n), s.win + n)
    BY <2>1, <1>4 DEF PopTo
  <2>3. Works(s, t, X, H) /\ Good(t, X, H) /\ Len(t.wins) = Len(s.wins) + n
        /\ SameBooks(s, t) /\ (~s.asking => Shows(t))
    BY <2>2, GoodDivided
  <2>4. Len(t.wins) >= Len(s.wins)
    BY <2>2, <2>3, <1>1
  <2> QED BY <2>3, <2>4 DEF Pop
<1>5. CASE k = 0 /\ ~one_windp(s)
  <2>1. PICK w : w = s.win
    OBVIOUS
  <2>2. w_prev(s, w) \in 1..Len(s.wins) /\ t = SetWind(s, w_prev(s, w))
    BY <2>1, <1>1, <1>5, Around DEF PopTo
  <2> QED BY <2>2, <1>2
<1> QED BY <1>3, <1>4, <1>5

(* The buffer of name n is shown in the current window, and made current.  *)
LEMMA GoodPopNamed ==
  ASSUME NEW s, NEW X, NEW H, Good(s, X, H), Len(s.world) <= NBufs + 1, NEW n \in BufName,
         NEW t, t = PopNamed(Named(s, n), n)
  PROVE  Works(s, t, X, H) /\ t.wins # <<>> /\ Len(t.wins) = Len(s.wins)
         /\ buf_exists(t, n) \in ToSet(t.world)
<1>1. PICK w : w = s.win /\ w \in 1..Len(s.wins)
  BY GoodFacts
<1>2. PICK b, u : b = buf_exists(Named(s, n), n) /\ u = do_select(s, w, n)
  OBVIOUS
<1>3. Good(u, X \cup ToSet(u.world), H) /\ Chooses(s, u, w, b, n)
  BY <1>1, <1>2, GoodSelect
<1>4. Named(s, n).win = s.win
  <2>1. PICK v : v = Named(s, n)
    OBVIOUS
  <2>2. SameElse(s, v)
    BY <2>1, GoodNamed DEF Names
  <2> QED BY <2>1, <2>2 DEF SameElse
<1>5. t = SetBuf(u, b)
  BY <1>1, <1>2, <1>4 DEF PopNamed, do_select
<1>6. PICK Y : Y = X \cup ToSet(u.world)
  OBVIOUS
<1>7. Good(u, Y, H) /\ b \in Y /\ b # NULL /\ b \in ToSet(u.world) /\ Selects(s, u, w, b)
  BY <1>3, <1>6 DEF Chooses, Selects
<1>8. /\ Good(t, Y, H) /\ SameBooks(u, t) /\ t.wins = u.wins /\ t.win = u.win
      /\ t.cur = (IF b = NULL THEN u.cur ELSE b) /\ t.asking = u.asking
  BY <1>5, <1>7, GoodSetBuf
<1>9. t.world = u.world /\ t.name = u.name /\ t.cur = b
  BY <1>7, <1>8 DEF SameBooks
<1>10. Shows(t) /\ Grown(s, t) /\ t.asking = s.asking /\ Len(t.wins) = Len(s.wins)
  BY <1>1, <1>7, <1>8, <1>9 DEF Shows, Selects, Grown
<1>11. buf_exists(t, n) = b
  BY <1>3, <1>9 DEF Chooses, buf_exists, NthBuf
<1>12. t.wins # <<>>
  BY <1>1, <1>8, <1>10
<1> QED BY <1>6, <1>7, <1>8, <1>9, <1>10, <1>11, <1>12 DEF Works

(* The type of a buffer changes.                                           *)
LEMMA GoodTyped ==
  ASSUME NEW s, NEW X, NEW H, Good(s, X, H), NEW b \in Struct, NEW y \in BufType,
         NEW t, t = [s EXCEPT !.type[b] = y]
  PROVE  /\ Good(t, X, H) /\ SameElse(s, t) /\ SameBooks(s, t)
<1>1. PICK ty : ty = [s.type EXCEPT ![b] = y]
  OBVIOUS
<1>2. t = [s EXCEPT !.type = ty]
  BY <1>1
<1>3. s \in Rec /\ s.type \in [Struct -> BufType]
  BY DEF Good, Rec
<1>4. ty \in [Struct -> BufType]
  BY <1>1, <1>3
<1>5. t \in Rec /\ SameElse(s, t) /\ SameBooks(s, t)
  BY ONLY <1>2, <1>3, <1>4 DEF Rec, SameElse, SameBooks
<1>6. Pointers(t, X) /\ t.win \in 1..Len(s.wins) /\ t.wins = s.wins
  BY <1>5 DEF Good, Pointers, SameElse
<1> QED BY <1>5, <1>6, GoodPointers

(* pop_wind, when it does not complain.                                    *)
LEMMA GoodPopWind ==
  ASSUME NEW s, NEW X, NEW H, Good(s, X, H), Len(s.world) <= NBufs + 1, NEW n \in BufName,
         NEW y \in BufType, Pops(s, n, y), NEW t, t = pop_wind(s, n, y)
  PROVE  Works(s, t, X, H) /\ Len(t.wins) >= Len(s.wins)
<1>1. PICK k : k = w_nam_typ(s, n, y)
  OBVIOUS
<1>2. k \in 0..Len(s.wins) /\ (k = 0 /\ one_windp(s) => Splits(s, 1))
  BY <1>1, NamTypIs DEF Pops
<1>3. PICK u : u = PopTo(s, k)
  OBVIOUS
<1>4. Pop(s, u, X, H)
  BY <1>2, <1>3, GoodPopTo
<1>5. PICK v : v = PopNamed(Named(u, n), n)
  OBVIOUS
<1>6. Good(u, X, H) /\ Len(u.world) <= NBufs + 1 /\ Works(s, u, X, H) /\ u.world = s.world
  BY <1>4 DEF Pop, SameBooks
<1>7. Works(u, v, X, H) /\ Len(v.wins) = Len(u.wins) /\ buf_exists(v, n) \in ToSet(v.world)
  BY <1>5, <1>6, GoodPopNamed
<1>8. X \cup ToSet(u.world) = X
  BY <1>6 DEF Good
<1>9. Works(s, v, X, H)
  BY <1>6, <1>7, <1>8, WorksThen
<1>10. Len(v.wins) >= Len(s.wins)
  BY <1>4, <1>7 DEF Pop
<1>11. CASE t = v
  BY <1>9, <1>10, <1>11
<1>12. CASE t = Typed(v, n, y)
  <2>1. PICK b : b = buf_exists(v, n)
    OBVIOUS
  <2>2. PICK Y : Y = X \cup ToSet(v.world)
    OBVIOUS
  <2>3. Good(v, Y, H) /\ b \in Struct /\ t = [v EXCEPT !.type[b] = y]
    BY <2>1, <2>2, <1>7, <1>9, <1>12 DEF Typed, Works, Good
  <2>4. Good(t, Y, H) /\ SameElse(v, t) /\ SameBooks(v, t)
    BY <2>3, GoodTyped
  <2>5. Grown(s, t) /\ t.asking = s.asking /\ t.world = v.world /\ t.wins = v.wins
        /\ (~s.asking /\ Shows(s) => Shows(t))
    BY <2>4, <1>9 DEF Works, Grown, SameElse, SameBooks, Shows
  <2> QED BY <2>2, <2>4, <2>5, <1>10 DEF Works
<1>13. t = v \/ t = Typed(v, n, y)
  BY <1>1, <1>3, <1>5 DEF pop_wind
<1> QED BY <1>11, <1>12, <1>13

(* WindFind shows in the next window what has been selected.               *)
LEMMA GoodShowNext ==
  ASSUME NEW s, NEW X, NEW H, Good(s, X, H), NEW b \in X, NEW t, t = ShowNext(s, b)
  PROVE  Works(s, t, X, H) /\ (~s.asking => Shows(t))
<1>1. PICK w : w = w_next(s, s.win)
  OBVIOUS
<1>2. w \in 1..Len(s.wins)
  <2>1. PICK k : k = s.win /\ k \in 1..Len(s.wins)
    BY GoodFacts
  <2> QED BY <2>1, <1>1, Around
<1>3. PICK u : u = tiewind(s, w, b)
  OBVIOUS
<1>4. Good(u, X, H) /\ TiesOnly(s, u) /\ Len(u.wins) = Len(s.wins)
  BY <1>2, <1>3, TieWind
<1>5. t = SetWind(u, w)
  BY <1>1, <1>3 DEF ShowNext
<1>6. Good(t, X, H) /\ GoesTo(u, t, w)
  BY <1>2, <1>4, <1>5, WindSet
<1>7. SameBooks(s, t) /\ t.asking = s.asking /\ (~s.asking => Shows(t))
  BY <1>4, <1>6 DEF SameBooks, TiesOnly, GoesTo, Shows
<1> QED BY <1>6, <1>7, WorksSame

(* The end of WindFind, which goes back to the buffer obuf.                *)
LEMMA GoodMovedOver ==
  ASSUME NEW s, NEW X, NEW H, Good(s, X, H), NEW obuf \in X \cup {NULL},
         NEW t, t = MovedOver(s, obuf)
  PROVE  Works(s, t, X, H)
<1>1. PICK u : u = SetBuf(s, obuf)
  OBVIOUS
<1>2. Good(u, X, H) /\ SameBooks(s, u) /\ u.wins = s.wins /\ u.win = s.win
      /\ u.asking = s.asking
  BY <1>1, GoodSetBuf
<1>3. PICK b : b = s.cur /\ b \in X
  BY GoodFacts
<1>4. PICK one : one = 1
  OBVIOUS
<1>5. ASSUME Works(u, t, X, H), ~s.asking => Shows(t) PROVE Works(s, t, X, H)
  BY <1>2, <1>5 DEF Works, Grown, SameBooks
<1>6. ASSUME NEW v, Good(v, X, H), SameBooks(u, v), v.asking = u.asking, t = ShowNext(v, b)
      PROVE  Works(s, t, X, H)
  <2>1. Works(v, t, X, H) /\ (~v.asking => Shows(t))
    BY <1>3, <1>6, GoodShowNext
  <2> QED BY <2>1, <1>2, <1>6 DEF Works, Grown, SameBooks
<1>7. CASE ~one_windp(s)
  <2>1. t = ShowNext(u, b)
    BY <1>1, <1>3, <1>7 DEF MovedOver
  <2> QED BY <2>1, <1>2, <1>6 DEF SameBooks
<1>8. CASE one_windp(s) /\ HasNext(s)
  <2>1. Splits(u, one) /\ t = ShowNext(div_wind(u, one), b)
    BY <1>1, <1>2, <1>3, <1>4, <1>8 DEF MovedOver, HasNext, Splits
  <2>2. PICK v : v = div_wind(u, one)
    OBVIOUS
  <2>3. one \in Nat
    BY <1>4
  <2>4. Good(v, X, H) /\ Divides(u, v, one)
    BY <2>1, <2>2, <2>3, <1>2, GoodDivWind
  <2> QED BY <2>1, <2>2, <2>4, <1>6 DEF Divides, TiesOnly
<1>9. CASE one_windp(s) /\ ~HasNext(s) /\ s.asking
  <2>1. t = u
    BY <1>1, <1>9 DEF MovedOver
  <2> QED BY <2>1, <1>2, <1>9, WorksSame
<1>10. CASE one_windp(s) /\ ~HasNext(s) /\ ~s.asking
  <2>1. t = Complained(u)
    BY <1>1, <1>10 DEF MovedOver
  <2>2. Works(u, t, X, H) /\ Shows(t)
    BY <2>1, <1>2, GoodComplained
  <2> QED BY <2>2, <1>5
<1>11. s.asking \in BOOLEAN
  BY DEF Good, Rec
<1> QED BY <1>7, <1>8, <1>9, <1>10, <1>11

-----------------------------------------------------------------------------
(* Questions.                                                              *)

(* What real_ask's cleanup leaves.                                         *)
Replied(s, t) ==
  /\ SameBooks(s, t) /\ t.wins = s.wins /\ t.win = s.win /\ t.last = s.last /\ t.mini = s.mini
  /\ t.hung = s.hung /\ t.type = s.type /\ ~t.asking /\ t.saveb = NULL

(* The cleanup goes back to saveb.                                         *)
LEMMA GoodAnswered ==
  ASSUME NEW s, NEW X, NEW H, Good(s, X, H), NEW t, t = Answered(s)
  PROVE  Good(t, X, H) /\ Replied(s, t)
<1>1. s \in Rec /\ s.saveb \in X \cup {NULL} /\ s.win \in 1..Len(s.wins)
  BY DEF Good, Pointers
<1>2. PICK b, u : b = s.saveb /\ u = SetBuf(s, b)
  OBVIOUS
<1>3. /\ Good(u, X, H) /\ SameBooks(s, u) /\ u.wins = s.wins /\ u.win = s.win
      /\ u.last = s.last /\ u.mini = s.mini /\ u.hung = s.hung /\ u.type = s.type
  BY <1>1, <1>2, GoodSetBuf
<1>4. t = [u EXCEPT !.asking = FALSE, !.saveb = NULL]
  BY <1>2 DEF Answered
<1>5. u \in Rec /\ NULL \in Maybe
  BY <1>3 DEF Good, Maybe
<1>6. /\ t \in Rec /\ SameBooks(u, t) /\ t.wins = u.wins /\ t.win = u.win /\ t.last = u.last
      /\ t.mini = u.mini /\ t.hung = u.hung /\ t.type = u.type /\ t.cur = u.cur
      /\ ~t.asking /\ t.saveb = NULL
  BY ONLY <1>4, <1>5 DEF Rec, SameBooks
<1>7. Pointers(t, X) /\ t.win \in 1..Len(u.wins)
  BY <1>1, <1>3, <1>6 DEF Good, Pointers
<1>8. Good(t, X, H)
  BY <1>3, <1>6, <1>7, GoodPointers
<1>9. Replied(s, t)
  BY <1>3, <1>6 DEF Replied, SameBooks
<1> QED BY <1>8, <1>9

(* The minibuffer is a buffer that exists.                                 *)
LEMMA GoodMini ==
  ASSUME NEW s, NEW X, NEW H, Good(s, X, H), Len(s.world) <= NBufs + 1,
         NEW t, t = get_minibuf(s)
  PROVE  Good(t, X \cup ToSet(t.world), H) /\ Grown(s, t) /\ t.mini \in ToSet(t.world)
<1>1. CASE s.mini \in ToSet(s.world)
  <2>1. t = s
    BY <1>1 DEF get_minibuf, valid_bp
  <2>2. X \cup ToSet(t.world) = X
    BY <2>1 DEF Good
  <2>3. Good(t, X \cup ToSet(t.world), H)
    BY <2>1, <2>2
  <2>4. Grown(s, t)
    BY <2>1 DEF Grown
  <2> QED BY <2>1, <2>3, <2>4, <1>1
<1>2. CASE s.mini \notin ToSet(s.world)
  <2>1. PICK n, y : n = Minibuf /\ y = "scratch"
    OBVIOUS
  <2>2. n \in BufName /\ y \in BufType
    BY <2>1 DEF BufName, BufType
  <2>3. PICK u : u = Named(s, n)
    OBVIOUS
  <2>4. PICK b : b = buf_exists(u, n)
    OBVIOUS
  <2>5. t = [u EXCEPT !.mini = b, !.type[b] = y]
    BY <1>2, <2>1, <2>3, <2>4 DEF get_minibuf, valid_bp, MiniOf, NewMini
  <2>6. Good(u, X \cup ToSet(u.world), H) /\ Grown(s, u) /\ b \in ToSet(u.world)
    BY <2>2, <2>3, <2>4, GoodNamed DEF Names
  <2>7. PICK v : v = [u EXCEPT !.type[b] = y]
    OBVIOUS
  <2>8. PICK Y : Y = X \cup ToSet(u.world)
    OBVIOUS
  <2>9. Good(u, Y, H) /\ b \in Y /\ b \in Struct /\ b \in Maybe
    BY <2>6, <2>8 DEF Good, Maybe
  <2>10. Good(v, Y, H) /\ SameElse(u, v) /\ SameBooks(u, v)
    BY <2>2, <2>7, <2>9, GoodTyped
  <2>11. t = [v EXCEPT !.mini = b] /\ u \in Rec /\ v \in Rec
    <3>1. u \in Rec /\ v \in Rec
      BY <2>9, <2>10 DEF Good
    <3>2. PICK ty : ty = [u.type EXCEPT ![b] = y]
      OBVIOUS
    <3>3. t = [u EXCEPT !.mini = b, !.type = ty] /\ v = [u EXCEPT !.type = ty]
      BY <3>2, <2>5, <2>7
    <3> QED BY ONLY <3>1, <3>3 DEF Rec
  <2>12. /\ t \in Rec /\ SameBooks(v, t) /\ t.wins = v.wins /\ t.win = v.win /\ t.mini = b
         /\ t.cur = v.cur /\ t.last = v.last /\ t.asking = v.asking /\ t.saveb = v.saveb
    BY ONLY <2>9, <2>11 DEF Rec, SameBooks
  <2>13. Pointers(t, Y) /\ t.win \in 1..Len(v.wins)
    BY <2>9, <2>10, <2>12 DEF Good, Pointers
  <2>14. Good(t, Y, H)
    BY <2>10, <2>12, <2>13, GoodPointers
  <2>15. t.world = u.world /\ t.name = u.name
    BY <2>10, <2>12 DEF SameBooks
  <2> QED BY <2>6, <2>8, <2>12, <2>14, <2>15 DEF Grown
<1> QED BY <1>1, <1>2

(* real_ask, up to where it awaits a key.                                  *)
LEMMA GoodAsk ==
  ASSUME NEW s, NEW X, NEW H, Good(s, X, H), Len(s.world) <= NBufs + 1, NEW t, t = real_ask(s)
  PROVE  Good(t, X \cup ToSet(t.world), H) /\ Grown(s, t) /\ t.asking
<1>1. PICK u : u = get_minibuf(s)
  OBVIOUS
<1>2. Good(u, X \cup ToSet(u.world), H) /\ Grown(s, u) /\ u.mini \in ToSet(u.world)
  BY <1>1, GoodMini
<1>3. PICK Y : Y = X \cup ToSet(u.world)
  OBVIOUS
<1>4. PICK m, c : m = u.mini /\ c = s.cur
  OBVIOUS
<1>5. Good(u, Y, H) /\ m \in Y /\ c \in Y /\ c \in Maybe
  BY <1>2, <1>3, <1>4, GoodFacts DEF Maybe
<1>6. PICK v : v = SetBuf(u, m)
  OBVIOUS
<1>7. /\ Good(v, Y, H) /\ SameBooks(u, v) /\ v.wins = u.wins /\ v.win = u.win
      /\ v.last = u.last /\ v.mini = u.mini
  BY <1>5, <1>6, GoodSetBuf
<1>8. t = [v EXCEPT !.asking = TRUE, !.saveb = c]
  BY <1>1, <1>4, <1>6 DEF real_ask, InMini
<1>9. v \in Rec
  BY <1>7 DEF Good
<1>10. /\ t \in Rec /\ SameBooks(v, t) /\ t.wins = v.wins /\ t.win = v.win /\ t.mini = v.mini
       /\ t.cur = v.cur /\ t.last = v.last /\ t.asking /\ t.saveb = c
  BY ONLY <1>5, <1>8, <1>9 DEF Rec, SameBooks
<1>11. Pointers(t, Y) /\ t.win \in 1..Len(v.wins)
  BY <1>4, <1>5, <1>7, <1>10 DEF Good, Pointers
<1>12. Good(t, Y, H)
  BY <1>7, <1>10, <1>11, GoodPointers
<1>13. t.world = u.world /\ t.name = u.name
  BY <1>7, <1>10 DEF SameBooks
<1> QED BY <1>2, <1>3, <1>10, <1>12, <1>13 DEF Grown

-----------------------------------------------------------------------------
(* What is done with an answer.                                            *)

(* The buffer b of a routine that has selected it is made current.         *)
LEMMA MadeCurrent ==
  ASSUME NEW s, NEW X, NEW H, NEW u, Good(u, X \cup ToSet(u.world), H), Grown(s, u),
         u.asking = s.asking, NEW b \in ToSet(u.world), u.wins[u.win].buf = b,
         NEW t, t = SetBuf(u, b)
  PROVE  Works(s, t, X, H)
<1>1. PICK Y : Y = X \cup ToSet(u.world)
  OBVIOUS
<1>2. Good(u, Y, H) /\ b \in Y /\ b # NULL
  <2>1. Good(u, Y, H) /\ b \in Y
    BY <1>1
  <2>2. Y \subseteq Struct
    BY <2>1 DEF Good
  <2> QED BY <2>1, <2>2, NullFacts
<1>3. /\ Good(t, Y, H) /\ SameBooks(u, t) /\ t.wins = u.wins /\ t.win = u.win
      /\ t.cur = (IF b = NULL THEN u.cur ELSE b) /\ t.asking = u.asking
  BY <1>2, GoodSetBuf
<1>4. t.world = u.world /\ t.name = u.name /\ t.cur = b
  BY <1>2, <1>3 DEF SameBooks
<1>5. Shows(t) /\ Grown(s, t) /\ t.asking = s.asking
  BY <1>3, <1>4 DEF Shows, Grown
<1> QED BY <1>1, <1>3, <1>4, <1>5 DEF Works

(* BufSelect.                                                              *)
LEMMA GoodSelected ==
  ASSUME NEW s, NEW X, NEW H, Good(s, X, H), Len(s.world) <= NBufs, NEW n \in BufName,
         NEW t, t = Selected(s, n)
  PROVE  Works(s, t, X, H)
<1>1. PICK w, c : w = s.win /\ c = s.cur /\ w \in 1..Len(s.wins) /\ c \in X
  BY GoodFacts
<1>2. PICK r : r = SetABuf(s, c)
  OBVIOUS
<1>3. Good(r, X, H) /\ SameBooks(s, r) /\ r.wins = s.wins /\ r.win = s.win /\ r.asking = s.asking
  BY <1>1, <1>2, AltNoted DEF Settles
<1>4. Len(r.world) <= NBufs + 1
  <2>1. PICK z : z = Len(s.world)
    OBVIOUS
  <2>2. z \in Nat /\ NBufs \in Nat /\ z <= NBufs
    BY <2>1, GoodFacts, BoundsAssumption DEF Rec
  <2>3. z <= NBufs + 1
    BY ONLY <2>2
  <2> QED BY <2>1, <2>3, <1>3 DEF SameBooks
<1>5. PICK u, b : u = do_select(r, w, n) /\ b = buf_exists(Named(r, n), n)
  OBVIOUS
<1>6. w \in 1..Len(r.wins)
  BY <1>1, <1>3
<1>7. Good(u, X \cup ToSet(u.world), H) /\ Chooses(r, u, w, b, n)
  BY <1>3, <1>4, <1>5, <1>6, GoodSelect
<1>8. buf_exists(u, n) = b
  BY <1>7 DEF Chooses
<1>9. t = SetBuf(u, b)
  BY <1>1, <1>2, <1>5, <1>8 DEF Selected
<1>10. Grown(s, u) /\ u.asking = s.asking /\ b \in ToSet(u.world) /\ u.wins[u.win].buf = b
  BY <1>1, <1>3, <1>7 DEF Chooses, Selects, Grown, SameBooks
<1> QED BY <1>7, <1>9, <1>10, MadeCurrent

(* find-file.                                                              *)
LEMMA GoodFindFile ==
  ASSUME NEW s, NEW X, NEW H, Good(s, X, H), Len(s.world) <= NBufs, NEW f \in File,
         NEW t, t = FindFile(s, f)
  PROVE  Works(s, t, X, H)
<1>1. PICK w, c : w = s.win /\ c = s.cur /\ w \in 1..Len(s.wins) /\ c \in X
  BY GoodFacts
<1>2. PICK r : r = SetABuf(s, c)
  OBVIOUS
<1>3. Good(r, X, H) /\ SameBooks(s, r) /\ r.wins = s.wins /\ r.win = s.win /\ r.asking = s.asking
  BY <1>1, <1>2, AltNoted DEF Settles
<1>4. Len(r.world) <= NBufs /\ w \in 1..Len(r.wins)
  BY <1>1, <1>3 DEF SameBooks
<1>5. PICK u : u = do_find(r, w, f)
  OBVIOUS
<1>6. PICK b : b = visiting(u, f)
  OBVIOUS
<1>7. Good(u, X \cup ToSet(u.world), H) /\ Selects(r, u, w, b)
  BY <1>3, <1>4, <1>5, <1>6, GoodFind
<1>8. t = SetBuf(u, b)
  BY <1>1, <1>2, <1>5, <1>6 DEF FindFile, Visited
<1>9. Grown(s, u) /\ u.asking = s.asking /\ b \in ToSet(u.world) /\ u.wins[u.win].buf = b
  BY <1>1, <1>3, <1>7 DEF Selects, Grown, SameBooks
<1> QED BY <1>7, <1>8, <1>9, MadeCurrent

(* ReNamBuf, to a name that no buffer has.                                 *)
LEMMA GoodReNamed ==
  ASSUME NEW s, NEW X, NEW H, Good(s, X, H), NEW n \in BufName, buf_exists(s, n) = NULL,
         NEW b \in Struct, NEW t, t = [s EXCEPT !.name[b] = n]
  PROVE  Good(t, X, H) /\ t.world = s.world /\ t.asking = s.asking
<1>1. s \in Rec /\ s.name \in [Struct -> BufName] /\ s.world \in Seq(Struct) /\ Books(s)
      /\ ToSet(s.world) \subseteq Struct
  BY DEF Good, Rec
<1>2. \A c \in ToSet(s.world) : s.name[c] # n
  BY <1>1, BufExists
<1>3. PICK na : na = [s.name EXCEPT ![b] = n]
  OBVIOUS
<1>4. na \in [Struct -> BufName]
  BY <1>1, <1>3
<1>5. t = [s EXCEPT !.name = na]
  BY <1>3
<1>6. /\ t \in Rec /\ SameElse(s, t) /\ t.world = s.world /\ t.free = s.free /\ t.name = na
  BY ONLY <1>1, <1>4, <1>5 DEF Rec, SameElse
<1>7. \A c, d \in ToSet(s.world) : na[c] = na[d] => c = d
  <2>1. \A c \in ToSet(s.world) : na[c] = IF c = b THEN n ELSE s.name[c]
    BY <1>1, <1>3
  <2>2. \A c, d \in ToSet(s.world) : s.name[c] = s.name[d] => c = d
    BY <1>1 DEF Books
  <2> QED BY ONLY <2>1, <2>2, <1>2
<1>8. Books(t)
  BY ONLY <1>1, <1>6, <1>7 DEF Books
<1> QED BY <1>6, <1>8 DEF Good, Pointers, SameElse

(* GotoWind.                                                               *)
LEMMA GoodGoing ==
  ASSUME NEW s, NEW X, NEW H, Good(s, X, H), Len(s.world) <= NBufs, NEW n \in BufName,
         NEW t, t = Going(s, n)
  PROVE  Works(s, t, X, H)
<1>1. PICK c : c = s.cur /\ c \in X
  BY GoodFacts
<1>2. PICK r : r = SetABuf(s, c)
  OBVIOUS
<1>3. /\ Works(s, r, X, H) /\ Good(r, X, H) /\ SameBooks(s, r) /\ r.wins = s.wins /\ r.win = s.win
      /\ r.asking = s.asking /\ r.type = s.type
  BY <1>1, <1>2, AltNoted DEF Settles
<1>4. X \cup ToSet(r.world) = X
  BY <1>3 DEF Good
<1>5. ASSUME Works(r, t, X, H) PROVE Works(s, t, X, H)
  BY <1>3, <1>4, <1>5, WorksThen
<1>6. PICK I : I = {w \in {w \in 1..Len(s.wins) : one_windp(s) \/ w # s.win} :
                      s.wins[w].buf = buf_exists(s, n)}
  OBVIOUS
<1>7. PICK J : J = {w \in I : w > s.win}
  OBVIOUS
<1>8. CASE I # {}
  <2>1. PICK S : S = IF J = {} THEN I ELSE J
    OBVIOUS
  <2>2. PICK w : w = CHOOSE x \in S : \A y \in S : x <= y
    OBVIOUS
  <2>3. S \subseteq Nat /\ S # {} /\ S \subseteq 1..Len(s.wins)
    <3>1. Len(s.wins) \in Nat
      BY GoodFacts
    <3>2. I \subseteq 1..Len(s.wins) /\ J \subseteq I
      BY <1>6, <1>7
    <3>3. 1..Len(s.wins) \subseteq Nat
      BY <3>1
    <3> QED BY <2>1, <3>2, <3>3, <1>8
  <2>4. w \in S
    BY <2>2, <2>3, MinFacts
  <2>5. w \in 1..Len(r.wins)
    BY <2>3, <2>4, <1>3
  <2>6. t = SetWind(r, w)
    BY <1>1, <1>2, <1>6, <1>7, <1>8, <2>1, <2>2 DEF Going
  <2> QED BY <2>5, <2>6, <1>3, <1>5, WindSet
<1>9. PICK y : y = "none"
  OBVIOUS
<1>10. CASE I = {} /\ Pops(s, n, y)
  <2>1. t = pop_wind(r, n, y)
    BY <1>1, <1>2, <1>6, <1>9, <1>10 DEF Going
  <2>2. w_nam_typ(r, n, y) = w_nam_typ(s, n, y)
    BY <1>3 DEF w_nam_typ, SameBooks, buf_exists, NthBuf
  <2>3. Pops(r, n, y)
    BY <1>3, <1>10, <2>2 DEF Pops, one_windp, Splits
  <2>4. y \in BufType /\ Len(r.world) <= NBufs + 1
    <3>1. PICK z : z = Len(s.world)
      OBVIOUS
    <3>2. z \in Nat /\ NBufs \in Nat /\ z <= NBufs
      BY <3>1, GoodFacts, BoundsAssumption DEF Rec
    <3>3. z <= NBufs + 1
      BY ONLY <3>2
    <3> QED BY <3>1, <3>3, <1>3, <1>9 DEF SameBooks, BufType
  <2>5. Works(r, t, X, H)
    BY <2>1, <2>3, <2>4, <1>3, GoodPopWind
  <2> QED BY <2>5, <1>5
<1>11. CASE I = {} /\ ~Pops(s, n, y)
  <2>1. t = Complained(r)
    BY <1>1, <1>2, <1>6, <1>9, <1>11 DEF Going
  <2> QED BY <2>1, <1>3, <1>5, GoodComplained
<1> QED BY <1>8, <1>10, <1>11

-----------------------------------------------------------------------------
(* The invariant, and what keeps it.                                       *)

(* What a command that asks keeps while it does.                           *)
Remembers(by, X) ==
  /\ by = [cmd |-> by.cmd, buf |-> by.buf, next |-> by.next]
  /\ by.buf \in X \cup {NULL} /\ by.next \in X \cup {NULL}
  /\ by.cmd \in {"some", "save", "confirm"} => by.buf # NULL /\ by.next # by.buf

IInv ==
  /\ Good(State, ToSet(world), ILI) /\ Len(world) <= NBufs
  /\ bounds \in Bounds /\ ILI \in Nat \ {0, 1}
  /\ Remembers(asker, ToSet(world))

(* What StaysShown says of a step.                                         *)
StillShown == ~Asking /\ ~Asking' /\ Shown => Shown'

(* The parts of State.                                                     *)
LEMMA StateIs ==
  /\ State.world = world /\ State.name = b_name /\ State.wins = windows /\ State.win = curwind
  /\ State.cur = curbuf /\ State.last = lastbuf /\ State.asking = Asking /\ State.saveb = saveb
  /\ State.hung = hung
BY DEF State

(* The state becomes what a routine has returned.                          *)
LEMMA Becoming ==
  ASSUME NEW s, s \in Rec, Becomes(s)
  PROVE  /\ State' = s /\ world' = s.world /\ bounds' = bounds /\ Len(s.world) <= bounds.bufs
         /\ Asking' = s.asking /\ hung' = s.hung
         /\ Shown' = (s.wins[s.win].buf = s.cur)
<1>1. s = [world |-> s.world, free |-> s.free, name |-> s.name, file |-> s.file,
           type |-> s.type, cur |-> s.cur, last |-> s.last, mini |-> s.mini,
           wins |-> s.wins, win |-> s.win, asking |-> s.asking, saveb |-> s.saveb,
           hung |-> s.hung]
  BY DEF Rec
<1>2. State' = s
  BY <1>1 DEF State, Becomes
<1> QED BY <1>2 DEF Becomes, Shown

(* The invariant holds after a step to a good state.                       *)
LEMMA InvAfter ==
  ASSUME IInv, NEW s, NEW H, Good(s, ToSet(s.world), H), Becomes(s), ILI' = H,
         H \in Nat \ {0, 1}, Remembers(asker', ToSet(s.world))
  PROVE  IInv'
<1>1. s \in Rec
  BY DEF Good
<1>2. State' = s /\ world' = s.world /\ bounds' = bounds /\ Len(s.world) <= bounds.bufs
  BY <1>1, Becoming
<1>3. Len(s.world) <= NBufs
  <2>1. PICK x, y : x = Len(s.world) /\ y = bounds.bufs
    OBVIOUS
  <2>2. x \in Nat /\ y \in Nat /\ y <= NBufs /\ NBufs \in Nat
    BY <2>1, <1>1, BoundsAssumption, WindowsAssumption DEF IInv, Rec
  <2>3. x <= NBufs
    BY ONLY <2>1, <2>2, <1>2
  <2> QED BY <2>1, <2>3
<1>4. bounds' \in Bounds
  BY <1>2 DEF IInv
<1>5. Good(State', ToSet(world'), ILI')
  BY <1>2
<1>6. Len(world') <= NBufs
  BY <1>2, <1>3
<1>7. Remembers(asker', ToSet(world'))
  BY <1>2
<1> QED BY <1>4, <1>5, <1>6, <1>7 DEF IInv

(* A command, when it asks nothing.                                        *)
LEMMA WorksKeeps ==
  ASSUME IInv, NEW s, NEW H, Works(State, s, ToSet(world), H), Becomes(s), asker' = asker,
         ILI' = H, H \in Nat \ {0, 1}
  PROVE  IInv' /\ StillShown
<1>1. ToSet(world) \subseteq ToSet(s.world)
  BY StateIs DEF Works, Grown
<1>2. ToSet(world) \cup ToSet(s.world) = ToSet(s.world)
  BY <1>1
<1>3. Good(s, ToSet(s.world), H)
  BY <1>2 DEF Works
<1>4. Remembers(asker', ToSet(s.world))
  BY <1>1 DEF IInv, Remembers
<1>5. s \in Rec
  BY <1>3 DEF Good
<1>6. StillShown
  <2>1. Shown' = (s.wins[s.win].buf = s.cur)
    BY <1>5, Becoming
  <2> QED BY <2>1, StateIs DEF Works, Shows, Shown, StillShown
<1> QED BY <1>3, <1>4, <1>6, InvAfter

(* The same, for a command that may have been typed for an answer.         *)
LEMMA CommandKeeps ==
  ASSUME IInv, NEW s, Works(State, s, ToSet(world), ILI), Command(s)
  PROVE  IInv' /\ StillShown
<1>1. PICK t : t = dispatch(s)
  OBVIOUS
<1>2. PICK X, r : X = ToSet(world) /\ r = State
  OBVIOUS
<1>3. Works(r, s, X, ILI) /\ Good(s, X \cup ToSet(s.world), ILI)
  BY <1>2 DEF Works
<1>4. Works(s, t, X \cup ToSet(s.world), ILI)
  BY <1>1, <1>3, GoodDispatch
<1>5. Works(r, t, X, ILI)
  BY ONLY <1>3, <1>4, WorksThen
<1>6. Becomes(t) /\ asker' = asker /\ ILI' = ILI
  BY <1>1 DEF Command
<1>7. ILI \in Nat \ {0, 1}
  BY DEF IInv
<1> QED BY <1>2, <1>5, <1>6, <1>7, WorksKeeps

(* What has been answered is as it was before.                             *)
LEMMA AnsweredIs ==
  ASSUME IInv, NEW r, r = Answered(State)
  PROVE  /\ Good(r, ToSet(world), ILI) /\ Good(r, ToSet(r.world), ILI) /\ Len(r.world) <= NBufs
         /\ r.world = world /\ r.name = b_name /\ r.wins = windows /\ r.last = lastbuf
         /\ ~r.asking /\ r.saveb = NULL /\ r.hung = hung
<1>1. PICK s, X : s = State /\ X = ToSet(world)
  OBVIOUS
<1>2. Good(s, X, ILI) /\ r = Answered(s)
  BY <1>1 DEF IInv
<1>3. Good(r, X, ILI) /\ Replied(s, r)
  BY <1>2, GoodAnswered
<1>4. /\ r.world = world /\ r.name = b_name /\ r.wins = windows /\ r.last = lastbuf
      /\ ~r.asking /\ r.saveb = NULL /\ r.hung = hung
  BY <1>1, <1>3, StateIs DEF Replied, SameBooks
<1>5. Len(r.world) <= NBufs
  BY <1>4 DEF IInv
<1> QED BY <1>1, <1>3, <1>4, <1>5

(* The end of a command that has asked.                                    *)
LEMMA EndsKeeps ==
  ASSUME IInv, Asking, NEW r, r = Answered(State), NEW s, Works(r, s, ToSet(world), ILI), Ends(s)
  PROVE  IInv' /\ StillShown
<1>1. r.world = world
  BY AnsweredIs
<1>2. ToSet(world) \cup ToSet(s.world) = ToSet(s.world)
  BY <1>1 DEF Works, Grown
<1>3. Good(s, ToSet(s.world), ILI)
  BY <1>2 DEF Works
<1>4. Becomes(s) /\ asker' = Nobody /\ ILI' = ILI /\ ILI \in Nat \ {0, 1}
  BY DEF Ends, IInv
<1>5. Remembers(asker', ToSet(s.world))
  BY <1>4 DEF Nobody, Remembers
<1>6. IInv'
  BY <1>3, <1>4, <1>5, InvAfter
<1> QED BY <1>6 DEF StillShown

(* A question.                                                             *)
LEMMA QuestionKeeps ==
  ASSUME IInv, NEW s, NEW X, Good(s, X, ILI), Len(s.world) <= NBufs, NEW by, Question(s, by),
         X \subseteq ToSet(s.world) \cup ToSet(world'), Remembers(by, ToSet(s.world))
  PROVE  IInv' /\ StillShown
<1>1. PICK t : t = real_ask(s)
  OBVIOUS
<1>2. Len(s.world) <= NBufs + 1
  <2>1. PICK x : x = Len(s.world)
    OBVIOUS
  <2>2. x \in Nat /\ NBufs \in Nat /\ x <= NBufs
    BY <2>1, BoundsAssumption DEF Good, Rec
  <2>3. x <= NBufs + 1
    BY ONLY <2>2
  <2> QED BY <2>1, <2>3
<1>3. Good(t, X \cup ToSet(t.world), ILI) /\ Grown(s, t) /\ t.asking
  BY <1>1, <1>2, GoodAsk
<1>4. t \in Rec
  BY <1>3 DEF Good
<1>5. Becomes(t) /\ asker' = by /\ ILI' = ILI /\ ILI \in Nat \ {0, 1}
  BY <1>1 DEF Question, IInv
<1>6. world' = t.world /\ Asking' = t.asking
  BY <1>4, <1>5, Becoming
<1>7. ToSet(s.world) \subseteq ToSet(t.world)
  BY <1>3 DEF Grown
<1>8. X \cup ToSet(t.world) = ToSet(t.world)
  BY <1>6, <1>7
<1>9. Good(t, ToSet(t.world), ILI)
  BY <1>3, <1>8
<1>10. Remembers(asker', ToSet(t.world))
  BY <1>5, <1>7 DEF Remembers
<1>11. IInv'
  BY <1>5, <1>9, <1>10, InvAfter
<1> QED BY <1>3, <1>6, <1>11 DEF StillShown

-----------------------------------------------------------------------------
(* Steps.                                                                  *)

(* Names of buffers there are, and those a user gives.                     *)
LEMMA NamesAre ==
  ASSUME IInv, NEW n \in Name
  PROVE  n \in BufName
<1>1. State \in Rec /\ ToSet(world) \subseteq Struct
  BY DEF IInv, Good
<1>2. b_name \in [Struct -> BufName]
  BY <1>1, StateIs DEF Rec
<1>3. bounds.names \subseteq UserName
  BY WindowsAssumption DEF IInv
<1> QED BY <1>1, <1>2, <1>3 DEF Name, BufName

(* What a command finds.                                                   *)
LEMMA StateFacts ==
  ASSUME IInv
  PROVE  /\ Good(State, ToSet(world), ILI) /\ Len(State.world) <= NBufs
         /\ Len(windows) \in Nat /\ Len(windows) >= 1 /\ curwind \in 1..Len(windows)
         /\ curbuf \in ToSet(world) /\ ILI \in Nat \ {0, 1}
         /\ \A w \in 1..Len(windows) : windows[w].buf \in ToSet(world)
                                       /\ windows[w].h \in Nat /\ windows[w].h >= 2
<1>1. Good(State, ToSet(world), ILI) /\ Len(world) <= NBufs /\ ILI \in Nat \ {0, 1}
  BY DEF IInv
<1>2. PICK s, X : s = State /\ X = ToSet(world)
  OBVIOUS
<1>3. /\ s.cur \in X /\ Len(s.wins) \in Nat /\ Len(s.wins) >= 1 /\ s.win \in 1..Len(s.wins)
      /\ \A w \in 1..Len(s.wins) : s.wins[w].buf \in X /\ s.wins[w].h \in Nat /\ s.wins[w].h >= 2
  BY <1>1, <1>2, GoodFacts
<1> QED BY <1>1, <1>2, <1>3, StateIs

(* BufNSelect keeps the invariant.                                         *)
LEMMA SelectStep ==
  ASSUME IInv, NEW n \in Nat \ {0}, BufNSelect(n)
  PROVE  IInv' /\ StillShown
<1>1. PICK s, X : s = State /\ X = ToSet(world)
  OBVIOUS
<1>2. Good(s, X, ILI) /\ curbuf \in X
  BY <1>1, StateFacts
<1>3. PICK b : b = world[n]
  OBVIOUS
<1>4. b \in X
  <2>1. world \in Seq(Struct)
    BY <1>1, <1>2, StateIs DEF Good, Rec
  <2>2. n \in 1..Len(world)
    BY <2>1 DEF BufNSelect
  <2> QED BY <2>1, <2>2, <1>1, <1>3 DEF ToSet
<1>5. PICK c, u : c = curbuf /\ u = SetABuf(s, c)
  OBVIOUS
<1>6. Works(s, u, X, ILI) /\ Good(u, X, ILI) /\ u.win = s.win
  BY <1>2, <1>5, AltNoted DEF Settles
<1>7. PICK t : t = SetBuf(tiewind(u, u.win, b), b)
  OBVIOUS
<1>8. Works(u, t, X, ILI)
  BY <1>4, <1>6, <1>7, GoodShown
<1>9. X \cup ToSet(u.world) = X
  BY <1>2, <1>6 DEF Good
<1>10. Works(s, t, X, ILI)
  BY <1>6, <1>8, <1>9, WorksThen
<1>11. Command(t)
  BY <1>1, <1>3, <1>5, <1>6, <1>7, StateIs DEF BufNSelect
<1> QED BY <1>1, <1>10, <1>11, CommandKeeps

(* FDotTag keeps it.                                                       *)
LEMMA FindTagStep ==
  ASSUME IInv, NEW f \in File, FDotTag(f)
  PROVE  IInv' /\ StillShown
<1>1. PICK s, X, t : s = State /\ X = ToSet(world) /\ t = find_tag(s, f)
  OBVIOUS
<1>2. Works(s, t, X, ILI)
  BY <1>1, StateFacts, GoodFindTag
<1>3. Command(t)
  BY <1>1 DEF FDotTag
<1> QED BY <1>1, <1>2, <1>3, CommandKeeps

(* BufList keeps it.                                                       *)
LEMMA BufListStep ==
  ASSUME IInv, BufList
  PROVE  IInv' /\ StillShown
<1>1. PICK s, X, n, y : s = State /\ X = ToSet(world) /\ n = BufferList /\ y = "scratch"
  OBVIOUS
<1>2. /\ Good(s, X, ILI) /\ Len(s.world) <= NBufs + 1 /\ n \in BufName /\ y \in BufType
      /\ Pops(s, n, y)
  <2>1. Good(s, X, ILI) /\ Len(s.world) <= NBufs
    BY <1>1, StateFacts
  <2>2. PICK x : x = Len(s.world)
    OBVIOUS
  <2>3. x \in Nat /\ NBufs \in Nat /\ x <= NBufs
    BY <2>1, <2>2, BoundsAssumption DEF Good, Rec
  <2>4. x <= NBufs + 1
    BY ONLY <2>3
  <2> QED BY <2>1, <2>2, <2>4, <1>1 DEF BufName, BufType, BufList
<1>3. PICK u : u = pop_wind(s, n, y)
  OBVIOUS
<1>4. Works(s, u, X, ILI) /\ Len(u.wins) >= Len(s.wins)
  BY <1>2, <1>3, GoodPopWind
<1>5. PICK t, w : t = SetWind(u, w) /\ w = curwind
  OBVIOUS
<1>6. PICK Y : Y = X \cup ToSet(u.world)
  OBVIOUS
<1>7. Good(u, Y, ILI)
  BY <1>4, <1>6 DEF Works
<1>8. w \in 1..Len(u.wins)
  <2>1. PICK k, l : k = Len(s.wins) /\ l = Len(u.wins)
    OBVIOUS
  <2>2. k \in Nat /\ l \in Nat /\ w \in 1..k /\ l >= k
    BY <2>1, <1>1, <1>2, <1>4, <1>5, <1>7, GoodFacts, StateIs, StateFacts
  <2>3. w \in 1..l
    BY ONLY <2>2
  <2> QED BY <2>1, <2>3
<1>9. Works(u, t, Y, ILI)
  BY <1>5, <1>7, <1>8, WindSet
<1>10. Works(s, t, X, ILI)
  BY <1>4, <1>6, <1>9, WorksThen
<1>11. Command(t)
  BY <1>1, <1>3, <1>5 DEF BufList
<1> QED BY <1>1, <1>10, <1>11, CommandKeeps

(* SplitWind keeps it.                                                     *)
LEMMA SplitStep ==
  ASSUME IInv, NEW n \in Nat, SplitWind(n)
  PROVE  IInv' /\ StillShown
<1>1. PICK s, X : s = State /\ X = ToSet(world)
  OBVIOUS
<1>2. PICK t : t = SetWind(div_wind(s, n), s.win + n)
  OBVIOUS
<1>3. Works(s, t, X, ILI)
  BY <1>1, <1>2, StateFacts, GoodDivided DEF SplitWind
<1>4. Command(t)
  BY <1>1, <1>2, StateIs DEF SplitWind
<1> QED BY <1>1, <1>3, <1>4, CommandKeeps

(* DelCurWindow keeps it.                                                  *)
LEMMA DelCurStep ==
  ASSUME IInv, DelCurWindow
  PROVE  IInv' /\ StillShown
<1>1. PICK s, X, b, w : s = State /\ X = ToSet(world) /\ b = windows[curwind].buf /\ w = curwind
  OBVIOUS
<1>2. Good(s, X, ILI) /\ b \in X \cup {NULL} /\ w \in 1..Len(s.wins) /\ Len(s.wins) >= 2
  <2>1. /\ Good(s, X, ILI) /\ b \in X /\ w \in 1..Len(s.wins) /\ s.wins = windows
        /\ Len(windows) \in Nat /\ Len(windows) >= 1
    BY <1>1, StateFacts, StateIs
  <2>2. Len(windows) # 1
    BY StateIs DEF DelCurWindow, one_windp
  <2>3. PICK z : z = Len(windows)
    OBVIOUS
  <2>4. z \in Nat /\ z >= 1 /\ z # 1
    BY <2>1, <2>2, <2>3
  <2>5. z >= 2
    BY ONLY <2>4
  <2> QED BY <2>1, <2>3, <2>5
<1>3. PICK u : u = SetABuf(s, b)
  OBVIOUS
<1>4. Works(s, u, X, ILI) /\ Good(u, X, ILI) /\ u.wins = s.wins
  BY <1>2, <1>3, AltNoted
<1>5. PICK t : t = del_wind(u, w)
  OBVIOUS
<1>6. Good(t, X, ILI) /\ Deletes(u, t, w)
  BY <1>2, <1>4, <1>5, GoodDelWind
<1>7. Works(u, t, X, ILI)
  BY <1>6, WorksSame DEF Deletes
<1>8. X \cup ToSet(u.world) = X
  BY <1>4 DEF Good
<1>9. Works(s, t, X, ILI)
  BY <1>4, <1>7, <1>8, WorksThen
<1>10. Command(t)
  BY <1>1, <1>3, <1>5 DEF DelCurWindow
<1> QED BY <1>1, <1>9, <1>10, CommandKeeps

(* OneWindow keeps it.                                                     *)
LEMMA OneStep ==
  ASSUME IInv, OneWindow
  PROVE  IInv' /\ StillShown
<1> DEFINE Def(g) == [n \in 0..Len(windows) - 1 |-> IF n = 0 THEN State
                          ELSE del_wind(g[n - 1], w_next(g[n - 1], g[n - 1].win))]
           E == CHOOSE g : g = Def(g)
<1>1. Command(E[Len(windows) - 1])
  BY DEF OneWindow
<1>2. PICK s, X : s = State /\ X = ToSet(world)
  OBVIOUS
<1>3. Good(s, X, ILI) /\ s.wins = windows
  BY <1>2, StateFacts, StateIs
<1>4. E = Def(E)
  <2>1. \E g : g = Def(g)
    <3>1. PICK g : g = [n \in 0..Len(s.wins) - 1 |-> IF n = 0 THEN s
                          ELSE del_wind(g[n - 1], w_next(g[n - 1], g[n - 1].win))]
      BY <1>3, OnlyThere
    <3>2. g = Def(g)
      BY <1>2, <1>3, <3>1
    <3> QED BY <3>2
  <2> HIDE DEF Def
  <2> QED BY <2>1
<1>5. PICK e : e = E
  OBVIOUS
<1> HIDE DEF E
<1>6. e = [n \in 0..Len(s.wins) - 1 |-> IF n = 0 THEN s
                          ELSE del_wind(e[n - 1], w_next(e[n - 1], e[n - 1].win))]
  BY <1>2, <1>3, <1>4, <1>5
<1>7. PICK t : t = e[Len(s.wins) - 1]
  OBVIOUS
<1>8. Thins(s, t, X, ILI)
  BY ONLY <1>3, <1>6, <1>7, OnlyLoop
<1>9. Works(s, t, X, ILI)
  BY <1>8, WorksSame DEF Thins
<1> QED BY <1>1, <1>2, <1>3, <1>5, <1>7, <1>9, CommandKeeps

(* NextWindow and PrevWindow keep it.                                      *)
LEMMA GoStep ==
  ASSUME IInv, NextWindow \/ PrevWindow
  PROVE  IInv' /\ StillShown
<1>1. PICK s, X, k : s = State /\ X = ToSet(world) /\ k = curwind
  OBVIOUS
<1>2. Good(s, X, ILI) /\ k \in 1..Len(s.wins)
  BY <1>1, StateFacts, StateIs
<1>3. PICK w : w \in {w_next(s, k), w_prev(s, k)} /\ Command(SetWind(s, w))
  BY <1>1 DEF NextWindow, PrevWindow
<1>4. w \in 1..Len(s.wins)
  BY <1>2, <1>3, Around
<1>5. PICK t : t = SetWind(s, w)
  OBVIOUS
<1>6. Works(s, t, X, ILI)
  BY <1>2, <1>4, <1>5, WindSet
<1> QED BY <1>1, <1>3, <1>5, <1>6, CommandKeeps

(* WindSize keeps it: the window that loses a line keeps two.              *)
LEMMA WindSizeStep ==
  ASSUME IInv, NEW inc \in {-1, 1}, WindSize(inc)
  PROVE  IInv' /\ StillShown
<1>1. PICK s, X, w : s = State /\ X = ToSet(world) /\ w = curwind
  OBVIOUS
<1>2. PICK up : up = w_prev(s, w)
  OBVIOUS
<1>3. Good(s, X, ILI) /\ w \in 1..Len(s.wins) /\ s.wins = windows /\ Len(s.wins) \in Nat
  BY <1>1, StateFacts, StateIs
<1>4. up \in 1..Len(s.wins)
  BY <1>2, <1>3, Around
<1>5. up # w
  <2>1. PICK z : z = Len(s.wins)
    OBVIOUS
  <2>2. z \in Nat /\ z # 1 /\ w \in 1..z
    BY <2>1, <1>1, <1>3 DEF WindSize, one_windp
  <2>3. up = IF w = 1 THEN z ELSE w - 1
    BY <2>1, <1>2 DEF w_prev
  <2> QED BY ONLY <2>2, <2>3
<1>6. PICK a, b : a = s.wins[w].h /\ b = s.wins[up].h
  OBVIOUS
<1>7. a \in Nat /\ b \in Nat /\ a >= 2 /\ b >= 2
  BY <1>3, <1>4, <1>6, StateFacts
<1>8. (IF inc < 0 THEN a ELSE b) - (IF inc < 0 THEN -inc ELSE inc) >= 2
  BY <1>1, <1>2, <1>3, <1>6 DEF WindSize
<1>9. a + inc >= 2 /\ b - inc >= 2 /\ inc \in Int
  BY ONLY <1>7, <1>8, inc \in {-1, 1}
<1>10. PICK t : t = [s EXCEPT !.wins[w].h = @ + inc, !.wins[up].h = @ - inc]
  OBVIOUS
<1>11. Works(s, t, X, ILI)
  BY <1>3, <1>4, <1>5, <1>6, <1>9, <1>10, GoodWindSize
<1>12. Command(t)
  BY <1>1, <1>2, <1>10 DEF WindSize
<1> QED BY <1>1, <1>11, <1>12, CommandKeeps

(* WindFindTag keeps it.                                                   *)
LEMMA WindFindTagStep ==
  ASSUME IInv, NEW f \in File, WindFindTag(f)
  PROVE  IInv' /\ StillShown
<1>1. PICK s, X, b, u : s = State /\ X = ToSet(world) /\ b = curbuf /\ u = find_tag(s, f)
  OBVIOUS
<1>2. Works(s, u, X, ILI) /\ b \in X
  BY <1>1, StateFacts, GoodFindTag
<1>3. PICK Y : Y = X \cup ToSet(u.world)
  OBVIOUS
<1>4. Good(u, Y, ILI) /\ b \in Y \cup {NULL}
  BY <1>2, <1>3 DEF Works
<1>5. PICK v : v = MovedOver(u, b)
  OBVIOUS
<1>6. Works(u, v, Y, ILI)
  BY <1>4, <1>5, GoodMovedOver
<1>7. Works(s, v, X, ILI)
  BY <1>2, <1>3, <1>6, WorksThen
<1>8. CASE HasNext(s)
  <2>1. Command(v)
    BY <1>1, <1>5, <1>8 DEF WindFindTag, Command
  <2> QED BY <1>1, <1>7, <2>1, CommandKeeps
<1>9. CASE ~HasNext(s)
  <2>1. Becomes(v) /\ asker' = asker /\ ILI' = ILI /\ ILI \in Nat \ {0, 1}
    BY <1>1, <1>5, <1>9 DEF WindFindTag, IInv
  <2> QED BY <1>1, <1>7, <2>1, WorksKeeps
<1> QED BY <1>8, <1>9

(* A complaint keeps it.                                                   *)
LEMMA ComplainStep ==
  ASSUME IInv, Complain
  PROVE  IInv' /\ StillShown
<1>1. PICK s, X, t : s = State /\ X = ToSet(world) /\ t = Complained(s)
  OBVIOUS
<1>2. Works(s, t, X, ILI)
  BY <1>1, StateFacts, GoodComplained
<1> QED BY <1>1, <1>2, CommandKeeps DEF Complain

(* A change of the screen's size keeps it.                                 *)
LEMMA ResizeStep ==
  ASSUME IInv, NEW new \in bounds.sizes, Resize(new)
  PROVE  IInv' /\ StillShown
<1>1. PICK s, X, t : s = State /\ X = ToSet(world) /\ t = resize(s, new)
  OBVIOUS
<1>2. Good(s, X, ILI) /\ ILI \in Nat /\ ILI > 0
  BY <1>1, StateFacts
<1>3. new \in Nat \ {0, 1}
  BY WindowsAssumption DEF IInv
<1>4. new \in Nat /\ new >= 2
  BY ONLY <1>3
<1>5. Works(s, t, X, new)
  BY <1>1, <1>2, <1>4, GoodResize
<1>6. Becomes(t) /\ ILI' = new /\ asker' = asker
  BY <1>1 DEF Resize
<1> QED BY <1>1, <1>3, <1>5, <1>6, WorksKeeps

(* A recursive edit keeps it: its buffer may have been deleted meanwhile.  *)
LEMMA RecurStep ==
  ASSUME IInv, RecurBegin \/ RecurEnd
  PROVE  IInv' /\ StillShown
<1>1. PICK s, X : s = State /\ X = ToSet(world)
  OBVIOUS
<1>2. Good(s, X, ILI) /\ ILI \in Nat \ {0, 1}
  BY <1>1, StateFacts
<1>3. asker' = asker /\ ILI' = ILI
  BY DEF RecurBegin, RecurEnd
<1>4. ASSUME NEW t, Works(s, t, X, ILI), Becomes(t) PROVE IInv' /\ StillShown
  BY <1>1, <1>2, <1>3, <1>4, WorksKeeps
<1>5. CASE RecurBegin
  <2>1. Works(s, s, X, ILI)
    BY <1>2, WorksSame DEF SameBooks
  <2> QED BY <2>1, <1>1, <1>4, <1>5 DEF RecurBegin
<1>6. CASE RecurEnd /\ recur \in X
  <2>1. PICK b, t : b = recur /\ t = SetBuf(tiewind(s, s.win, b), b)
    OBVIOUS
  <2>2. Works(s, t, X, ILI)
    BY <2>1, <1>2, <1>6, GoodShown
  <2>3. Becomes(t)
    BY <2>1, <1>1, <1>6, StateIs DEF RecurEnd, valid_bp
  <2> QED BY <2>2, <2>3, <1>4
<1>7. CASE RecurEnd /\ recur \notin X
  <2>1. PICK t : t = Complained(s)
    OBVIOUS
  <2>2. Works(s, t, X, ILI) /\ Becomes(t)
    BY <2>1, <1>1, <1>2, <1>7, GoodComplained, StateIs DEF RecurEnd, valid_bp
  <2> QED BY <2>2, <1>4
<1> QED BY <1>5, <1>6, <1>7

(* Asking keeps it.                                                        *)
LEMMA PromptStep ==
  ASSUME IInv, Prompt
  PROVE  IInv' /\ StillShown
<1>1. PICK s, X : s = State /\ X = ToSet(world)
  OBVIOUS
<1>2. Good(s, X, ILI) /\ Len(s.world) <= NBufs /\ curbuf \in X /\ s.world = world
  BY <1>1, StateFacts, StateIs
<1>3. ASSUME NEW by, Question(s, by), Remembers(by, X) PROVE IInv' /\ StillShown
  BY <1>1, <1>2, <1>3, QuestionKeeps
<1>4. CASE Question(s, Asks("any", NULL, NULL))
  BY <1>3, <1>4 DEF Asks, Remembers
<1>5. CASE Question(s, Asks("window", curbuf, NULL))
  BY <1>2, <1>3, <1>5 DEF Asks, Remembers
<1>6. CASE Question(s, Asks("some", world[1], b_next(s, world[1])))
  <2>1. PICK b : b = s.world[1]
    OBVIOUS
  <2>2. PICK c : c = b_next(s, b)
    OBVIOUS
  <2>3. s \in Rec /\ Once(s.world) /\ b \in ToSet(s.world) /\ b # NULL
    <3>1. s \in Rec /\ Books(s) /\ ToSet(s.world) \subseteq Struct
      BY <1>2 DEF Good
    <3>2. s.world \in Seq(Struct) /\ Len(s.world) \in Nat /\ Len(s.world) >= 1
      BY <3>1 DEF Rec, Books
    <3>3. 1 \in 1..Len(s.world)
      BY ONLY <3>2
    <3>4. b \in ToSet(s.world)
      BY <2>1, <3>2, <3>3 DEF ToSet
    <3> QED BY <3>1, <3>4, NullFacts DEF Books
  <2>4. c \in ToSet(s.world) \cup {NULL} /\ c # b
    BY <2>2, <2>3, BNext
  <2>5. PICK by : by = Asks("some", b, c)
    OBVIOUS
  <2>6. Remembers(by, X)
    BY <2>3, <2>4, <2>5, <1>1, <1>2 DEF Asks, Remembers
  <2>7. Question(s, by)
    BY <2>1, <2>2, <2>5, <1>2, <1>6
  <2> QED BY <2>6, <2>7, <1>3
<1> QED BY <1>1, <1>4, <1>5, <1>6 DEF Prompt

(* An answer, and what the command that asked does then.                   *)
LEMMA AnswerStep ==
  ASSUME IInv, Abort \/ AnyAnswer \/ (\E n \in Name : BufSelect(n) \/ GotoWind(n))
                 \/ (\E f \in File : FindFileReply(f))
  PROVE  IInv' /\ StillShown
<1>1. PICK r, X : r = Answered(State) /\ X = ToSet(world)
  OBVIOUS
<1>2. Good(r, X, ILI) /\ Len(r.world) <= NBufs
  BY <1>1, AnsweredIs
<1>3. Asking
  BY DEF Abort, AnyAnswer, BufSelect, GotoWind, FindFileReply, InReplyTo
<1>4. ASSUME NEW t, Works(r, t, X, ILI), Ends(t) PROVE IInv' /\ StillShown
  BY <1>1, <1>3, <1>4, EndsKeeps
<1>5. CASE Abort
  <2>1. PICK t : t = Complained(r)
    OBVIOUS
  <2> QED BY <2>1, <1>1, <1>2, <1>4, <1>5, GoodComplained DEF Abort
<1>6. CASE AnyAnswer
  <2>1. Works(r, r, X, ILI)
    BY <1>2, WorksSame DEF SameBooks
  <2> QED BY <2>1, <1>1, <1>4, <1>6 DEF AnyAnswer
<1>7. ASSUME NEW n \in Name, BufSelect(n) PROVE IInv' /\ StillShown
  <2>1. PICK t : t = Selected(r, n)
    OBVIOUS
  <2>2. n \in BufName
    BY NamesAre
  <2>3. Works(r, t, X, ILI)
    BY <2>1, <2>2, <1>2, GoodSelected
  <2> QED BY <2>1, <2>3, <1>1, <1>4, <1>7 DEF BufSelect
<1>8. ASSUME NEW n \in Name, GotoWind(n) PROVE IInv' /\ StillShown
  <2>1. PICK t : t = Going(r, n)
    OBVIOUS
  <2>2. n \in BufName
    BY NamesAre
  <2>3. Works(r, t, X, ILI)
    BY <2>1, <2>2, <1>2, GoodGoing
  <2> QED BY <2>1, <2>3, <1>1, <1>4, <1>8 DEF GotoWind
<1>9. ASSUME NEW f \in File, FindFileReply(f) PROVE IInv' /\ StillShown
  <2>1. PICK t : t = FindFile(r, f)
    OBVIOUS
  <2>2. Works(r, t, X, ILI)
    BY <2>1, <1>2, GoodFindFile
  <2> QED BY <2>1, <2>2, <1>1, <1>4, <1>9 DEF FindFileReply
<1> QED BY <1>5, <1>6, <1>7, <1>8, <1>9

(* WindFind keeps it, with the buffer it has kept while it asked.          *)
LEMMA WindFindStep ==
  ASSUME IInv, WindFind
  PROVE  IInv' /\ StillShown
<1>1. PICK r, X, o : r = Answered(State) /\ X = ToSet(world) /\ o = asker.buf
  OBVIOUS
<1>2. Good(r, X, ILI) /\ Len(r.world) <= NBufs /\ o \in X \cup {NULL} /\ Asking
  BY <1>1, AnsweredIs DEF IInv, Remembers, WindFind, InReplyTo
<1>3. ASSUME NEW u, Works(r, u, X, ILI), Ends(MovedOver(u, o)) PROVE IInv' /\ StillShown
  <2>1. PICK Y, t : Y = X \cup ToSet(u.world) /\ t = MovedOver(u, o)
    OBVIOUS
  <2>2. Good(u, Y, ILI) /\ o \in Y \cup {NULL}
    BY <2>1, <1>2, <1>3 DEF Works
  <2>3. Works(u, t, Y, ILI)
    BY <2>1, <2>2, GoodMovedOver
  <2>4. Works(r, t, X, ILI)
    BY <2>1, <2>3, <1>3, WorksThen
  <2> QED BY <2>1, <2>4, <1>1, <1>2, <1>3, EndsKeeps
<1>4. CASE \E n \in Name : Ends(MovedOver(Selected(r, n), o))
  <2>1. PICK n \in Name : Ends(MovedOver(Selected(r, n), o))
    BY <1>4
  <2>2. PICK u : u = Selected(r, n)
    OBVIOUS
  <2>3. n \in BufName
    BY NamesAre
  <2>4. Works(r, u, X, ILI)
    BY <2>2, <2>3, <1>2, GoodSelected
  <2> QED BY <2>1, <2>2, <2>4, <1>3
<1>5. CASE \E f \in File : Ends(MovedOver(FindFile(r, f), o))
  <2>1. PICK f \in File : Ends(MovedOver(FindFile(r, f), o))
    BY <1>5
  <2>2. PICK u : u = FindFile(r, f)
    OBVIOUS
  <2>3. Works(r, u, X, ILI)
    BY <2>2, <1>2, GoodFindFile
  <2> QED BY <2>1, <2>2, <2>3, <1>3
<1> QED BY <1>1, <1>4, <1>5 DEF WindFind

(* ReNamBuf keeps names apart.                                             *)
LEMMA ReNamStep ==
  ASSUME IInv, NEW n \in UserName \X {0}, ReNamBuf(n)
  PROVE  IInv' /\ StillShown
<1>1. PICK r, X, b : r = Answered(State) /\ X = ToSet(world) /\ b = saveb
  OBVIOUS
<1>2. /\ Good(r, X, ILI) /\ r.world = world /\ r.name = b_name /\ r \in Rec
      /\ b \in X \cup {NULL} /\ X \subseteq Struct /\ Asking /\ n \in BufName
  <2>1. Good(r, X, ILI) /\ r.world = world /\ r.name = b_name
    BY <1>1, AnsweredIs
  <2>2. State.saveb \in X \cup {NULL}
    BY <1>1 DEF IInv, Good, Pointers
  <2> QED BY <2>1, <2>2, <1>1, StateIs DEF Good, ReNamBuf, InReplyTo, BufName
<1>3. PICK t : t = [r EXCEPT !.name[b] = n]
  OBVIOUS
<1>4. Ends(t)
  BY <1>1, <1>3 DEF ReNamBuf
<1>5. buf_exists(r, n) = NULL
  BY <1>2, StateIs DEF ReNamBuf, buf_exists, NthBuf
<1>6. Good(t, X, ILI) /\ t.world = r.world
  <2>1. CASE b \in Struct
    BY <2>1, <1>2, <1>3, <1>5, GoodReNamed
  <2>2. CASE b \notin Struct
    <3>1. r.name \in [Struct -> BufName]
      BY <1>2 DEF Rec
    <3>2. [r.name EXCEPT ![b] = n] = r.name
      BY <2>2, <3>1
    <3>3. t = [r EXCEPT !.name = r.name]
      BY <1>3, <3>2
    <3>4. t = r
      BY <3>3, <1>2 DEF Rec
    <3> QED BY <3>4, <1>2
  <2> QED BY <2>1, <2>2
<1>7. Good(t, ToSet(t.world), ILI)
  BY <1>1, <1>2, <1>6
<1>8. Becomes(t) /\ asker' = Nobody /\ ILI' = ILI /\ ILI \in Nat \ {0, 1}
  BY <1>4 DEF Ends, IInv
<1>9. Remembers(asker', ToSet(t.world))
  BY <1>8 DEF Nobody, Remembers
<1>10. IInv'
  BY <1>7, <1>8, <1>9, InvAfter
<1> QED BY <1>2, <1>10 DEF StillShown

(* KillSome that leaves the buffer alone, or asks of it once more.         *)
LEMMA LeftAloneStep ==
  ASSUME IInv, KillSomeNo \/ KillSomeModified \/ (\E b \in ToSet(world) : Confirm(b)), ~hung'
  PROVE  IInv' /\ StillShown
<1>1. PICK r, X : r = Answered(State) /\ X = ToSet(world)
  OBVIOUS
<1>2. /\ Good(r, X, ILI) /\ Len(r.world) <= NBufs /\ ToSet(r.world) = X /\ Asking
      /\ Remembers(asker, X)
  BY <1>1, AnsweredIs DEF IInv, KillSomeNo, KillSomeModified, Confirm, InReplyTo
<1>3. ASSUME NEW by, Question(r, by), Remembers(by, X) PROVE IInv' /\ StillShown
  BY <1>2, <1>3, QuestionKeeps
<1>4. CASE KillSomeNo
  <2>1. PICK b : b = asker.next /\ SomeNext(r, b)
    BY <1>1, <1>4 DEF KillSomeNo
  <2>2. CASE Ends(r)
    <3>1. Works(r, r, X, ILI)
      BY <1>2, WorksSame DEF SameBooks
    <3> QED BY <3>1, <2>2, <1>1, <1>2, EndsKeeps
  <2>3. CASE b # NULL /\ Question(r, Asks("some", b, b_next(r, b)))
    <3>1. PICK c : c = b_next(r, b)
      OBVIOUS
    <3>2. b \in ToSet(r.world) /\ r \in Rec /\ Once(r.world)
      BY <2>1, <2>3, <1>2 DEF Remembers, Good, Books
    <3>3. c \in ToSet(r.world) \cup {NULL} /\ c # b
      BY <3>1, <3>2, BNext
    <3>4. PICK by : by = Asks("some", b, c)
      OBVIOUS
    <3>5. Remembers(by, X)
      BY <3>2, <3>3, <3>4, <2>3, <1>2 DEF Asks, Remembers
    <3> QED BY <3>1, <3>4, <3>5, <2>3, <1>3
  <2> QED BY <2>1, <2>2, <2>3 DEF SomeNext
<1>5. CASE KillSomeModified
  <2>1. PICK by : by = [asker EXCEPT !.cmd = "save"]
    OBVIOUS
  <2>2. Question(r, by) /\ asker.cmd = "some"
    BY <2>1, <1>1, <1>5 DEF KillSomeModified, InReplyTo
  <2>3. by = [cmd |-> "save", buf |-> asker.buf, next |-> asker.next]
    BY <2>1, <1>2 DEF Remembers
  <2>4. Remembers(by, X)
    BY <2>2, <2>3, <1>2 DEF Remembers
  <2> QED BY <2>2, <2>4, <1>3
<1>6. ASSUME NEW b \in X, Confirm(b) PROVE IInv' /\ StillShown
  <2>1. PICK by : by = Asks("confirm", b, NULL)
    OBVIOUS
  <2>2. b # NULL
    BY <1>2, <1>6, NullFacts DEF Good
  <2>3. Remembers(by, X)
    BY <2>1, <2>2, <1>6 DEF Asks, Remembers
  <2> QED BY <2>1, <2>3, <1>1, <1>3, <1>6 DEF Confirm
<1> QED BY <1>1, <1>4, <1>5, <1>6

(* A buffer that is deleted: by a step that is not one of those at which   *)
(* the program goes wrong.                                                 *)
LEMMA KillLeaves ==
  ASSUME IInv, Tame, NEW r, r = Answered(State), NEW b \in ToSet(world),
         NEW k, k = kill_buf(r, b), ~k.hung
  PROVE  /\ Good(k, ToSet(k.world) \cup {b}, ILI) /\ Kills(r, k, b)
         /\ b \notin ToSet(world') => Good(k, ToSet(k.world), ILI)
<1>1. /\ Good(r, ToSet(r.world), ILI) /\ Len(r.world) <= NBufs /\ ~r.asking /\ r.saveb = NULL
      /\ b \in ToSet(r.world)
      /\ r.world = world /\ r.name = b_name /\ r.last = lastbuf /\ r.wins = windows
  BY AnsweredIs
<1>2. /\ Good(k, ToSet(k.world) \cup {b}, ILI) /\ Kills(r, k, b)
      /\ ~(Alt(r, b).own /\ Missed(r.wins, b)) => Good(k, ToSet(k.world), ILI)
  BY ONLY <1>1, k = kill_buf(r, b), ~k.hung, GoodKill
<1>3. Alt(r, b) = Alt(State, b)
  BY <1>1, StateIs DEF Alt, b_next
<1>4. b \notin ToSet(world') => ~(Alt(r, b).own /\ Missed(r.wins, b))
  BY <1>1, <1>3 DEF Tame
<1> QED BY <1>2, <1>4

(* Deleting a buffer keeps it, if the step is a tame one.                  *)
LEMMA KillStep ==
  ASSUME IInv, Tame, BufKillModified \/ (\E b \in ToSet(world) : BufKill(b))
  PROVE  IInv' /\ StillShown
<1>1. PICK r : r = Answered(State)
  OBVIOUS
<1>2. PICK b \in ToSet(world) : Ends(kill_buf(r, b))
  BY <1>1 DEF BufKillModified, BufKill, InReplyTo, IInv, Remembers
<1>3. PICK k : k = kill_buf(r, b)
  OBVIOUS
<1>4. Becomes(k) /\ asker' = Nobody /\ ILI' = ILI /\ ILI \in Nat \ {0, 1}
  BY <1>2, <1>3 DEF Ends, IInv
<1>5. ~k.hung /\ world' = k.world /\ Asking
  BY <1>4 DEF Becomes, Tame, BufKillModified, BufKill, InReplyTo
<1>6. Kills(r, k, b) /\ (b \notin ToSet(world') => Good(k, ToSet(k.world), ILI))
  BY <1>1, <1>3, <1>5, KillLeaves
<1>7. Good(k, ToSet(k.world), ILI)
  BY <1>5, <1>6 DEF Kills
<1>8. Remembers(asker', ToSet(k.world))
  BY <1>4 DEF Nobody, Remembers
<1>9. IInv'
  BY <1>4, <1>7, <1>8, InvAfter
<1> QED BY <1>5, <1>9 DEF StillShown

(* So does KillSome, which goes on with the buffer it has kept.            *)
LEMMA KillSomeStep ==
  ASSUME IInv, Tame, KillSomeYes
  PROVE  IInv' /\ StillShown
<1>1. PICK r, b, c : r = Answered(State) /\ b = asker.buf /\ c = asker.next
  OBVIOUS
<1>2. SomeNext(kill_buf(r, b), c) /\ asker.cmd \in {"some", "save"} /\ Asking
  BY <1>1 DEF KillSomeYes, InReplyTo
<1>3. b \in ToSet(world) /\ c \in ToSet(world) \cup {NULL} /\ c # b
  BY <1>1, <1>2 DEF IInv, Remembers
<1>4. PICK k : k = kill_buf(r, b)
  OBVIOUS
<1>5. ~k.hung
  BY <1>2, <1>4 DEF SomeNext, Ends, Becomes, Tame
<1>6. /\ Good(k, ToSet(k.world) \cup {b}, ILI) /\ Kills(r, k, b)
      /\ b \notin ToSet(world') => Good(k, ToSet(k.world), ILI)
  BY <1>1, <1>3, <1>4, <1>5, KillLeaves
<1>7. CASE Ends(k)
  <2>1. Becomes(k) /\ asker' = Nobody /\ ILI' = ILI /\ ILI \in Nat \ {0, 1}
    BY <1>7 DEF Ends, IInv
  <2>2. Good(k, ToSet(k.world), ILI)
    BY <2>1, <1>6 DEF Kills, Becomes
  <2>3. Remembers(asker', ToSet(k.world))
    BY <2>1 DEF Nobody, Remembers
  <2>4. IInv'
    BY <2>1, <2>2, <2>3, InvAfter
  <2> QED BY <2>4, <1>2 DEF StillShown
<1>8. CASE c # NULL /\ Question(k, Asks("some", c, b_next(k, c)))
  <2>1. PICK d : d = b_next(k, c)
    OBVIOUS
  <2>2. r.world = world
    BY <1>1, AnsweredIs
  <2>3. c \in ToSet(k.world) /\ k \in Rec /\ Once(k.world) /\ Len(k.world) <= NBufs
    BY <2>2, <1>3, <1>6, <1>8 DEF Kills, Good, Books
  <2>4. d \in ToSet(k.world) \cup {NULL} /\ d # c
    BY <2>1, <2>3, BNext
  <2>5. PICK by : by = Asks("some", c, d)
    OBVIOUS
  <2>6. Remembers(by, ToSet(k.world))
    BY <2>3, <2>4, <2>5, <1>8 DEF Asks, Remembers
  <2>7. PICK X : X = IF b \in ToSet(world') THEN ToSet(k.world) \cup {b} ELSE ToSet(k.world)
    OBVIOUS
  <2>8. Good(k, X, ILI) /\ X \subseteq ToSet(k.world) \cup ToSet(world')
    BY <2>7, <1>6
  <2>9. Question(k, by)
    BY <2>1, <2>5, <1>8
  <2> QED BY <2>3, <2>6, <2>8, <2>9, QuestionKeeps
<1> QED BY <1>2, <1>4, <1>5, <1>7, <1>8 DEF SomeNext

-----------------------------------------------------------------------------
(* The theorems.                                                           *)

(* The first window fills the screen and shows Main.                       *)
LEMMA InitInv ==
  ASSUME Init
  PROVE  IInv
<1>1. PICK s, q, w : s = State /\ q = <<1>> /\ w = <<[buf |-> 1, h |-> ILI]>>
  OBVIOUS
<1>2. /\ world = q /\ free_bufs = <<>> /\ windows = w
      /\ curbuf = 1 /\ lastbuf = NULL /\ AskBuffer = NULL /\ curwind = 1
      /\ Asking = FALSE /\ saveb = NULL /\ hung = FALSE /\ asker = Nobody
  BY <1>1 DEF Init
<1>3. bounds \in Bounds /\ ILI \in Nat \ {0, 1} /\ NBufs \in Nat /\ bounds.bufs \in Nat \ {0}
      /\ bounds.bufs <= NBufs
  BY BoundsAssumption, WindowsAssumption DEF Init
<1>4. PICK x : x = bounds.bufs
  OBVIOUS
<1>5. x \in Nat \ {0} /\ x <= NBufs
  BY <1>3, <1>4
<1>6. NBufs >= 1 /\ NBufs \in Nat
  BY ONLY <1>3, <1>5
<1>7. 1 \in Struct /\ 1 <= NBufs /\ 1 <= NBufs + 2
  BY ONLY <1>6 DEF Struct
<1>8. q \in Seq(Struct) /\ Len(q) = 1 /\ DOMAIN q = {1} /\ q[1] = 1 /\ ToSet(q) = {1}
  BY <1>1, <1>7 DEF ToSet
<1>9. PICK e : e = <<>>
  OBVIOUS
<1>10. e \in Seq(Struct) /\ Len(e) = 0 /\ DOMAIN e = {} /\ ToSet(e) = {}
  BY <1>9 DEF ToSet
<1>11. w \in Seq(Window) /\ Len(w) = 1 /\ w[1] = [buf |-> 1, h |-> ILI] /\ w[1].h = ILI
  BY <1>1, <1>3, <1>7 DEF Window
<1>12. Height(w) = ILI
  BY <1>11, HeightOne
<1>13. /\ s.world = q /\ s.free = e /\ s.name = b_name /\ s.file = b_fname /\ s.type = b_type
       /\ s.cur = 1 /\ s.last = NULL /\ s.mini = NULL /\ s.wins = w /\ s.win = 1
       /\ s.saveb = NULL
       /\ s.asking \in BOOLEAN /\ ~s.asking /\ s.hung \in BOOLEAN
  BY <1>1, <1>2, <1>9 DEF State
<1>14. /\ b_name \in [Struct -> BufName] /\ b_fname \in [Struct -> FileName]
       /\ b_type \in [Struct -> BufType]
  BY DEF Init, BufName, FileName, BufType
<1>15. s \in Rec
  <2>1. s = [world |-> s.world, free |-> s.free, name |-> s.name, file |-> s.file,
             type |-> s.type, cur |-> s.cur, last |-> s.last, mini |-> s.mini,
             wins |-> s.wins, win |-> s.win, asking |-> s.asking, saveb |-> s.saveb,
             hung |-> s.hung]
    BY <1>1 DEF State
  <2>2. NULL \in Maybe
    BY DEF Maybe
  <2>3. /\ s.world \in Seq(Struct) /\ s.free \in Seq(Struct) /\ s.name \in [Struct -> BufName]
        /\ s.file \in [Struct -> FileName] /\ s.type \in [Struct -> BufType]
    BY <1>8, <1>10, <1>13, <1>14
  <2>4. /\ s.cur \in Struct /\ s.last \in Maybe /\ s.mini \in Maybe /\ s.wins \in Seq(Window)
        /\ s.win \in Nat /\ s.asking \in BOOLEAN /\ s.saveb \in Maybe /\ s.hung \in BOOLEAN
    BY ONLY <2>2, <1>7, <1>11, <1>13
  <2> QED BY ONLY <2>1, <2>3, <2>4 DEF Rec
<1>16. Books(s)
  <2>1. Once(q) /\ Once(e)
    BY <1>8, <1>10 DEF Once
  <2>2. ToSet(q) \cup ToSet(e) = 1..(Len(q) + Len(e)) /\ Len(q) + Len(e) = 1
    BY <1>8, <1>10
  <2>3. ToSet(q) \cap ToSet(e) = {} /\ Len(q) >= 1 /\ Len(q) + Len(e) <= NBufs + 2
    BY <2>2, <1>7, <1>8, <1>10
  <2>4. \A b, c \in ToSet(q) : b_name[b] = b_name[c] => b = c
    BY <1>8
  <2> QED BY ONLY <2>1, <2>2, <2>3, <2>4, <1>13 DEF Books
<1>17. Panes(w, {1}, ILI)
  BY <1>3, <1>11, <1>12 DEF Panes
<1>18. Good(s, {1}, ILI)
  <2>1. Pointers(s, {1})
    BY <1>13 DEF Pointers
  <2>2. ToSet(s.world) \subseteq {1} /\ {1} \subseteq Struct /\ s.win \in 1..Len(s.wins)
    <3>1. ToSet(s.world) \subseteq {1} /\ {1} \subseteq Struct
      BY <1>7, <1>8, <1>13
    <3>2. Len(s.wins) = 1 /\ s.win = 1
      BY <1>11, <1>13
    <3> QED BY ONLY <3>1, <3>2
  <2>3. Panes(s.wins, {1}, ILI)
    BY <1>13, <1>17
  <2> QED BY ONLY <2>1, <2>2, <2>3, <1>15, <1>16 DEF Good
<1>19. Remembers(asker, {1})
  BY <1>2 DEF Nobody, Remembers
<1> QED BY <1>1, <1>2, <1>3, <1>7, <1>8, <1>18, <1>19 DEF IInv

(* Every step keeps the invariant and what the current window shows.       *)
LEMMA NextInv ==
  ASSUME IInv, [Next /\ Tame]_vars
  PROVE  IInv' /\ StillShown
<1>1. CASE UNCHANGED vars
  <2>1. State' = State
    BY <1>1 DEF vars, State
  <2> QED BY <2>1, <1>1 DEF vars, IInv, StillShown, Shown
<1>2. CASE Next /\ Tame
  <2>1. ASSUME NEW n \in 1..bounds.bufs, BufNSelect(n) PROVE IInv' /\ StillShown
    <3>1. PICK m : m = bounds.bufs
      OBVIOUS
    <3>2. m \in Nat /\ n \in 1..m
      BY <3>1, WindowsAssumption DEF IInv
    <3>3. n \in Nat \ {0}
      BY ONLY <3>2
    <3> QED BY <2>1, <3>3, SelectStep
  <2>2. ASSUME NEW f \in File, FDotTag(f) \/ WindFindTag(f) PROVE IInv' /\ StillShown
    BY <2>2, FindTagStep, WindFindTagStep
  <2>3. ASSUME NEW n \in 1..(bounds.winds - 1), SplitWind(n) PROVE IInv' /\ StillShown
    <3>1. PICK m : m = bounds.winds
      OBVIOUS
    <3>2. m \in Nat /\ n \in 1..(m - 1)
      BY <3>1, WindowsAssumption DEF IInv
    <3>3. n \in Nat
      BY ONLY <3>2
    <3> QED BY <2>3, <3>3, SplitStep
  <2>4. CASE BufList \/ DelCurWindow \/ OneWindow
    BY <2>4, BufListStep, DelCurStep, OneStep
  <2>5. CASE NextWindow \/ PrevWindow \/ Complain
    BY <2>5, GoStep, ComplainStep
  <2>6. ASSUME NEW inc \in {-1, 1}, WindSize(inc) PROVE IInv' /\ StillShown
    BY <2>6, WindSizeStep
  <2>7. CASE Prompt
    BY <2>7, PromptStep
  <2>8. CASE \/ Abort \/ AnyAnswer \/ \E n \in Name : BufSelect(n) \/ GotoWind(n)
             \/ \E f \in File : FindFileReply(f)
    BY <2>8, AnswerStep
  <2>9. CASE WindFind
    BY <2>9, WindFindStep
  <2>10. ASSUME NEW n \in bounds.names \X {0}, ReNamBuf(n) PROVE IInv' /\ StillShown
    <3>1. bounds.names \subseteq UserName
      BY WindowsAssumption DEF IInv
    <3>2. n \in UserName \X {0}
      BY <3>1
    <3> QED BY <3>2, <2>10, ReNamStep
  <2>11. CASE BufKillModified \/ \E b \in ToSet(world) : BufKill(b)
    BY <2>11, <1>2, KillStep
  <2>12. CASE KillSomeNo \/ KillSomeModified \/ \E b \in ToSet(world) : Confirm(b)
    BY <2>12, <1>2, LeftAloneStep DEF Tame
  <2>13. CASE KillSomeYes
    BY <2>13, <1>2, KillSomeStep
  <2>14. ASSUME NEW new \in bounds.sizes, Resize(new) PROVE IInv' /\ StillShown
    BY <2>14, ResizeStep
  <2>15. CASE RecurBegin \/ RecurEnd
    BY <2>15, RecurStep
  <2> QED BY <1>2, <2>1, <2>2, <2>3, <2>4, <2>5, <2>6, <2>7, <2>8, <2>9, <2>10, <2>11, <2>12,
             <2>13, <2>14, <2>15 DEF Next
<1> QED BY <1>1, <1>2

(* What the invariant is for.                                              *)
LEMMA InvShows ==
  ASSUME IInv
  PROVE  ScreenFilled /\ NoStaleBuffer
<1>1. PICK s, X : s = State /\ X = ToSet(world)
  OBVIOUS
<1>2. Good(s, X, ILI) /\ s.wins = windows /\ s.last = lastbuf /\ s.saveb = saveb
  BY <1>1, StateIs DEF IInv
<1>3. DOMAIN windows = 1..Len(windows) /\ curbuf \in X
      /\ \A w \in 1..Len(windows) : windows[w].buf \in X /\ windows[w].h >= 2
  BY <1>1, <1>2, StateFacts, GoodFacts
<1>4. Height(windows) = ILI /\ lastbuf \in X \cup {NULL} /\ saveb \in X \cup {NULL}
  BY <1>2 DEF Good, Panes, Pointers
<1>5. asker.buf \in X \cup {NULL} /\ asker.next \in X \cup {NULL}
  BY <1>1 DEF IInv, Remembers
<1> QED BY <1>1, <1>3, <1>4, <1>5 DEF ScreenFilled, NoStaleBuffer

(* The invariant holds as long as the program does not do what Tame leaves *)
(* out.                                                                    *)
THEOREM InvAlways == SpecTame => []IInv
<1>1. Init => IInv
  BY InitInv
<1>2. IInv /\ [Next /\ Tame]_vars => IInv'
  BY NextInv
<1> QED BY <1>1, <1>2, PTL DEF SpecTame

(* The windows fill the screen whatever commands split, delete, size and   *)
(* scale them (del_wind, div_wind, WindSize and resize), and however an    *)
(* answer that is typed comes in between.                                  *)
THEOREM ScreenFilledAlways == SpecTame => []ScreenFilled
<1>1. IInv => ScreenFilled
  BY InvShows
<1> QED BY <1>1, InvAlways, PTL

(* Nothing that kill_buf has deleted is still shown, current, alternate or *)
(* kept by a command that asks, and nothing leads to memory that is to be  *)
(* the next buffer: it may already be another one.                         *)
THEOREM NoStaleBufferAlways == SpecTame => []NoStaleBuffer
<1>1. IInv => NoStaleBuffer
  BY InvShows
<1> QED BY <1>1, InvAlways, PTL

(* The current window goes on showing the current buffer, through all      *)
(* commands that ask nothing.                                              *)
THEOREM StaysShownAlways == SpecTame => StaysShown
<1>1. IInv /\ [Next /\ Tame]_vars => [~Asking /\ ~Asking' /\ Shown => Shown']_vars
  BY NextInv DEF StillShown
<1> QED BY <1>1, InvAlways, PTL DEF SpecTame, StaysShown

=============================================================================
