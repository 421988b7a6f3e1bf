--------------------------- MODULE TmpFile_proofs ---------------------------
EXTENDS TmpFile, TLAPS

USE DEF Slot

CacheType == [blk : [Slot -> [bno : Bno, dirty : BOOLEAN, buf : Buf]],
              lru : [1..NBUF -> Slot],
              tmp : [Bno -> Buf \cup {NoBlock}],
              next : 0..MAX_BLOCKS,
              last : Slot \cup {NoBlock}]

Once(order) ==
  /\ \A j, k \in 1..NBUF : order[j] = order[k] => j = k
  /\ \A i \in Slot : \E k \in 1..NBUF : order[k] = i

OneEntry(s)  == \A i, j \in Slot : s.blk[i].bno = s.blk[j].bno => i = j
CleanSame(s) == \A i \in Slot : s.blk[i].bno < s.next /\ ~s.blk[i].dirty
                                  => s.tmp[s.blk[i].bno] = s.blk[i].buf
NoneLost(s)  == \A b \in Bno : b < s.next => Resident(s, b) \/ s.tmp[b] # NoBlock
UsedDirty(s) == \A i \in Slot : s.blk[i].dirty => s.blk[i].bno < s.next
LastUsed(s)  == s.last # NoBlock => s.blk[s.last].bno < s.next

CacheOK(s) ==
  /\ s \in CacheType
  /\ OneEntry(s)
  /\ Once(s.lru)
  /\ CleanSame(s)
  /\ NoneLost(s)
  /\ UsedDirty(s)
  /\ LastUsed(s)

(* From s to t no used block changed.                                      *)
SameImages(s, t) ==
  /\ s.next <= t.next
  /\ \A b \in Bno : b < s.next => Image(t, b) = Image(s, b)

(* The file changes only by a block being replaced by its cached image.    *)
TmpGrows(s, t) ==
  \A b \in Bno : t.tmp[b] = s.tmp[b] \/ (Resident(s, b) /\ t.tmp[b] = Image(s, b))

LEMMA LookupResident ==
  ASSUME NEW s, NEW b, Resident(s, b)
  PROVE  lookup_block(s, b) \in Slot /\ s.blk[lookup_block(s, b)].bno = b
BY DEF Resident, lookup_block

LEMMA LookupUnique ==
  ASSUME NEW s, OneEntry(s), NEW i \in Slot
  PROVE  Resident(s, s.blk[i].bno) /\ lookup_block(s, s.blk[i].bno) = i
BY DEF Resident, lookup_block, OneEntry

(* Moving an entry to the tail keeps every entry once on the list.         *)
LEMMA ToTailOnce ==
  ASSUME NEW order \in [1..NBUF -> Slot], Once(order), NEW i \in Slot
  PROVE  ToTail(order, i) \in [1..NBUF -> Slot] /\ Once(ToTail(order, i))
<1>p. PICK p : p = CHOOSE k \in 1..NBUF : order[k] = i
  OBVIOUS
<1>1. p \in 1..NBUF /\ order[p] = i
  BY <1>p DEF Once
<1>2. NBUF \in Nat \ {0}
  BY TmpAssumption
<1>3. PICK new : new = ToTail(order, i)
  OBVIOUS
<1>a. new = [k \in 1..NBUF |-> IF k < p THEN order[k]
                         ELSE IF k < NBUF THEN order[k + 1] ELSE i]
  BY <1>p, <1>3 DEF ToTail
<1>4. \A k \in 1..NBUF : k < p => new[k] = order[k]
  BY <1>a
<1>5. \A k \in 1..NBUF : k >= p /\ k < NBUF => new[k] = order[k + 1]
  BY <1>a, <1>1, <1>2
<1>6. new[NBUF] = i
  BY <1>a, <1>1, <1>2
<1>7. \A k \in 1..NBUF : k < p \/ (k >= p /\ k < NBUF /\ k + 1 \in 1..NBUF) \/ k = NBUF
  BY <1>1, <1>2
<1>8. new \in [1..NBUF -> Slot]
  <2>1. ASSUME NEW k \in 1..NBUF PROVE new[k] \in Slot
    <3>1. CASE k < p
      BY <3>1, <1>4
    <3>2. CASE k >= p /\ k < NBUF /\ k + 1 \in 1..NBUF
      BY <3>2, <1>5
    <3>3. CASE k = NBUF
      BY <3>3, <1>6
    <3> QED BY <3>1, <3>2, <3>3, <1>7
  <2> QED BY <1>a, <2>1
<1>9. ASSUME NEW j \in 1..NBUF, NEW k \in 1..NBUF, new[j] = new[k], j < k
      PROVE  FALSE
  <2>1. \A m, n \in 1..NBUF : order[m] = order[n] => m = n
    BY DEF Once
  <2>2. j < NBUF
    BY <1>9, <1>2
  <2>3. CASE k < p
    <3>0. j < p
      BY <2>3, <1>9, <1>1, <1>2
    <3>1. new[j] = order[j] /\ new[k] = order[k]
      BY <3>0, <2>3, <1>4
    <3>2. j = k
      BY <3>1, <2>1, <1>9, Zenon
    <3> QED BY <3>2, <1>9, <1>2
  <2>4. CASE k >= p /\ k < NBUF /\ k + 1 \in 1..NBUF
    <3>1. new[k] = order[k + 1]
      BY <2>4, <1>5
    <3>2. CASE j < p
      <4>1. new[j] = order[j]
        BY <3>2, <1>4
      <4>2. j = k + 1
        BY <3>1, <4>1, <2>1, <2>4, <1>9, Zenon
      <4> QED BY <4>2, <1>9, <1>2
    <3>3. CASE j >= p
      <4>1. new[j] = order[j + 1] /\ j + 1 \in 1..NBUF
        BY <3>3, <2>2, <1>5, <1>1, <1>2
      <4>2. j + 1 = k + 1
        BY <3>1, <4>1, <2>1, <2>4, <1>9, Zenon
      <4> QED BY <4>2, <1>9, <1>2
    <3> QED BY <3>2, <3>3, <1>1, <1>2
  <2>5. CASE k = NBUF
    <3>1. new[k] = order[p]
      BY <2>5, <1>6, <1>1
    <3>2. CASE j < p
      <4>1. new[j] = order[j]
        BY <3>2, <1>4
      <4>2. j = p
        BY <3>1, <4>1, <2>1, <1>1, <1>9, Zenon
      <4> QED BY <4>2, <3>2, <1>1, <1>2
    <3>3. CASE j >= p
      <4>1. new[j] = order[j + 1] /\ j + 1 \in 1..NBUF /\ j + 1 # p
        BY <3>3, <2>2, <1>5, <1>1, <1>2
      <4>2. j + 1 = p
        BY <3>1, <4>1, <2>1, <1>1, <1>9, Zenon
      <4> QED BY <4>1, <4>2
    <3> QED BY <3>2, <3>3, <1>1, <1>2
  <2> QED BY <2>3, <2>4, <2>5, <1>7
<1>10. \A j, k \in 1..NBUF : new[j] = new[k] => j = k
  <2>1. SUFFICES ASSUME NEW j \in 1..NBUF, NEW k \in 1..NBUF, new[j] = new[k], j # k
                 PROVE  FALSE
    OBVIOUS
  <2>2. j < k \/ k < j
    BY <2>1, <1>2
  <2> QED BY <2>1, <2>2, <1>9
<1>11. ASSUME NEW j \in Slot PROVE \E k \in 1..NBUF : new[k] = j
  <2>1. CASE j = i
    BY <2>1, <1>2, <1>6
  <2>2. CASE j # i
    <3>1. PICK k \in 1..NBUF : order[k] = j
      BY DEF Once
    <3>2. CASE k < p
      BY <3>1, <3>2, <1>4
    <3>3. CASE ~(k < p)
      <4>1. k # p
        BY <3>1, <2>2, <1>1
      <4>2. k - 1 \in 1..NBUF /\ k - 1 >= p /\ k - 1 < NBUF /\ (k - 1) + 1 = k
        BY <4>1, <3>3, <1>1, <1>2
      <4>3. new[k - 1] = order[k]
        BY <4>2, <1>5
      <4> QED BY <3>1, <4>2, <4>3
    <3> QED BY <3>2, <3>3
  <2> QED BY <2>1, <2>2
<1> QED BY <1>3, <1>8, <1>10, <1>11 DEF Once

(* Entries with the same numbers and bytes give the same images.           *)
LEMMA SameBlocks ==
  ASSUME NEW s, NEW t, OneEntry(s), NEW b,
         \A i \in Slot : t.blk[i].bno = s.blk[i].bno /\ t.blk[i].buf = s.blk[i].buf,
         Resident(s, b) \/ t.tmp[b] = s.tmp[b]
  PROVE  Image(t, b) = Image(s, b)
<1>1. Resident(t, b) <=> Resident(s, b)
  BY DEF Resident
<1>2. CASE Resident(s, b)
  <2>1. lookup_block(s, b) \in Slot /\ s.blk[lookup_block(s, b)].bno = b
    BY <1>2, LookupResident
  <2>2. lookup_block(t, b) \in Slot /\ t.blk[lookup_block(t, b)].bno = b
    BY <1>1, <1>2, LookupResident
  <2>3. lookup_block(t, b) = lookup_block(s, b)
    BY <2>1, <2>2 DEF OneEntry
  <2> QED BY <1>1, <1>2, <2>1, <2>3 DEF Image
<1>3. CASE ~Resident(s, b)
  BY <1>1, <1>3 DEF Image
<1> QED BY <1>2, <1>3

LEMMA WrittenOK ==
  ASSUME NEW s, CacheOK(s), NEW W \in SUBSET Dirty(s)
  PROVE  /\ CacheOK(Written(s, W))
         /\ SameImages(s, Written(s, W))
         /\ Written(s, W).last = s.last
         /\ Written(s, W).next = s.next
         /\ Written(s, W).lru = s.lru
         /\ \A i \in Slot : /\ Written(s, W).blk[i].bno = s.blk[i].bno
                            /\ Written(s, W).blk[i].buf = s.blk[i].buf
                            /\ Written(s, W).blk[i].dirty = (s.blk[i].dirty /\ i \notin W)
         /\ \A i \in W : Written(s, W).tmp[s.blk[i].bno] = s.blk[i].buf
         /\ TmpGrows(s, Written(s, W))
<1> DEFINE t == Written(s, W)
<1>0. s \in CacheType /\ W \subseteq Slot /\ \A i \in W : s.blk[i].dirty
  BY DEF CacheOK, Dirty
<1>1. t.last = s.last /\ t.next = s.next /\ t.lru = s.lru
  BY <1>0 DEF Written, CacheType
<1>2. t.blk = [i \in Slot |-> IF i \in W THEN [s.blk[i] EXCEPT !.dirty = FALSE]
                             ELSE s.blk[i]]
  BY <1>0 DEF Written, CacheType
<1>3. t.tmp = [b \in Bno |-> IF \E i \in W : s.blk[i].bno = b
                            THEN s.blk[CHOOSE i \in W : s.blk[i].bno = b].buf
                            ELSE s.tmp[b]]
  BY <1>0 DEF Written, CacheType
<1>4. \A i \in Slot : /\ t.blk[i].bno = s.blk[i].bno
                      /\ t.blk[i].buf = s.blk[i].buf
                      /\ t.blk[i].dirty = (s.blk[i].dirty /\ i \notin W)
                      /\ t.blk[i] \in [bno : Bno, dirty : BOOLEAN, buf : Buf]
  <2> SUFFICES ASSUME NEW i \in Slot
               PROVE  /\ t.blk[i].bno = s.blk[i].bno
                      /\ t.blk[i].buf = s.blk[i].buf
                      /\ t.blk[i].dirty = (s.blk[i].dirty /\ i \notin W)
                      /\ t.blk[i] \in [bno : Bno, dirty : BOOLEAN, buf : Buf]
    OBVIOUS
  <2>1. s.blk[i] \in [bno : Bno, dirty : BOOLEAN, buf : Buf]
    BY <1>0 DEF CacheType
  <2>2. CASE i \in W
    <3>1. t.blk[i] = [s.blk[i] EXCEPT !.dirty = FALSE]
      BY <2>2, <1>2
    <3> QED BY <3>1, <2>1, <2>2
  <2>3. CASE i \notin W
    <3>1. t.blk[i] = s.blk[i]
      BY <2>3, <1>2
    <3> QED BY <3>1, <2>1, <2>3
  <2> QED BY <2>2, <2>3
<1>5. \A i \in W : t.tmp[s.blk[i].bno] = s.blk[i].buf
  <2> SUFFICES ASSUME NEW i \in W PROVE t.tmp[s.blk[i].bno] = s.blk[i].buf
    OBVIOUS
  <2>1. i \in Slot /\ s.blk[i].bno \in Bno
    BY <1>0 DEF CacheType
  <2>2. PICK j \in W : j = CHOOSE k \in W : s.blk[k].bno = s.blk[i].bno
    OBVIOUS
  <2>3. s.blk[j].bno = s.blk[i].bno
    BY <2>2
  <2>4. j = i
    BY <2>3, <2>1, <1>0 DEF CacheOK, OneEntry
  <2>5. PICK b \in Bno : b = s.blk[i].bno
    BY <2>1
  <2> DEFINE At(x) == s.blk[CHOOSE k \in W : s.blk[k].bno = x].buf
  <2>6. t.tmp[b] = At(b)
    <3>1. t.tmp = [x \in Bno |-> IF \E k \in W : s.blk[k].bno = x THEN At(x) ELSE s.tmp[x]]
      BY ONLY <1>3
    <3>2. \E k \in W : s.blk[k].bno = b
      BY ONLY <2>5
    <3> HIDE DEF At
    <3> QED BY ONLY <3>1, <3>2, b \in Bno
  <2> QED BY ONLY <2>2, <2>4, <2>5, <2>6
<1>6. \A b \in Bno : \/ t.tmp[b] = s.tmp[b] /\ \A i \in W : s.blk[i].bno # b
                     \/ \E i \in W : s.blk[i].bno = b
  BY <1>3
<1>7. t \in CacheType
  <2>1. t.tmp \in [Bno -> Buf \cup {NoBlock}]
    <3>1. ASSUME NEW b \in Bno PROVE t.tmp[b] \in Buf \cup {NoBlock}
      BY <1>0, <1>5, <1>6, ZenonT(60) DEF CacheType
    <3> QED BY <1>3, <3>1
  <2>2. t.blk \in [Slot -> [bno : Bno, dirty : BOOLEAN, buf : Buf]]
    <3>1. t.blk = [i \in Slot |-> t.blk[i]]
      BY <1>2
    <3> QED BY <3>1, <1>4, Zenon
  <2>3. t = [blk |-> t.blk, lru |-> t.lru, tmp |-> t.tmp, next |-> t.next, last |-> t.last]
    BY DEF Written
  <2>4. /\ t.lru \in [1..NBUF -> Slot] /\ t.next \in 0..MAX_BLOCKS
        /\ t.last \in Slot \cup {NoBlock}
    BY <1>0, <1>1 DEF CacheType
  <2> HIDE DEF t
  <2> QED BY <2>1, <2>2, <2>3, <2>4, Zenon DEF CacheType
<1>8. OneEntry(t) /\ UsedDirty(t) /\ LastUsed(t)
  <2>1. OneEntry(t)
    BY <1>4 DEF CacheOK, OneEntry
  <2>2. UsedDirty(t)
    BY <1>1, <1>4 DEF CacheOK, UsedDirty
  <2>3. LastUsed(t)
    BY <1>0, <1>1, <1>4 DEF CacheOK, LastUsed, CacheType
  <2> QED BY <2>1, <2>2, <2>3
<1>9. CleanSame(t)
  <2> SUFFICES ASSUME NEW i \in Slot, t.blk[i].bno < t.next, ~t.blk[i].dirty
               PROVE  t.tmp[t.blk[i].bno] = t.blk[i].buf
    BY DEF CleanSame
  <2>1. s.blk[i].bno \in Bno
    BY <1>0 DEF CacheType
  <2>2. CASE \E j \in W : s.blk[j].bno = s.blk[i].bno
    <3>1. i \in W
      BY <2>2, <1>0 DEF CacheOK, OneEntry
    <3> QED BY <3>1, <1>4, <1>5
  <2>3. CASE ~\E j \in W : s.blk[j].bno = s.blk[i].bno
    <3>1. t.tmp[s.blk[i].bno] = s.tmp[s.blk[i].bno] /\ i \notin W
      BY <2>1, <2>3, <1>6
    <3>2. s.blk[i].bno < s.next /\ ~s.blk[i].dirty
      BY <3>1, <1>1, <1>4
    <3> QED BY <3>1, <3>2, <1>4 DEF CacheOK, CleanSame
  <2> QED BY <2>2, <2>3
<1>10. \A b \in Bno : Resident(t, b) <=> Resident(s, b)
  BY <1>4 DEF Resident
<1>11. NoneLost(t)
  <2> SUFFICES ASSUME NEW b \in Bno, b < t.next PROVE Resident(t, b) \/ t.tmp[b] # NoBlock
    BY DEF NoneLost
  <2>1. CASE Resident(s, b)
    BY <2>1, <1>10
  <2>2. CASE ~Resident(s, b)
    <3>1. t.tmp[b] = s.tmp[b]
      BY <2>2, <1>0, <1>6 DEF Resident
    <3> QED BY <2>2, <3>1, <1>1 DEF CacheOK, NoneLost
  <2> QED BY <2>1, <2>2
<1>12. \A b \in Bno : t.tmp[b] = s.tmp[b] \/ (Resident(s, b) /\ t.tmp[b] = Image(s, b))
  <2> SUFFICES ASSUME NEW b \in Bno, NEW i \in W, s.blk[i].bno = b
               PROVE  Resident(s, b) /\ t.tmp[b] = Image(s, b)
    BY <1>6
  <2>1. i \in Slot /\ t.tmp[b] = s.blk[i].buf
    BY <1>0, <1>5
  <2>2. Resident(s, b) /\ lookup_block(s, b) = i
    BY <2>1, LookupUnique DEF CacheOK
  <2> QED BY <2>1, <2>2 DEF Image
<1>13. \A b \in Bno : Image(t, b) = Image(s, b)
  <2> SUFFICES ASSUME NEW b \in Bno PROVE Image(t, b) = Image(s, b)
    OBVIOUS
  <2>1. Resident(s, b) \/ t.tmp[b] = s.tmp[b]
    BY <1>12
  <2>2. \A i \in Slot : t.blk[i].bno = s.blk[i].bno /\ t.blk[i].buf = s.blk[i].buf
    BY <1>4
  <2>3. OneEntry(s)
    BY DEF CacheOK
  <2> HIDE DEF t
  <2> QED BY <2>1, <2>2, <2>3, SameBlocks
<1>14. SameImages(s, t)
  BY <1>1, <1>13, <1>0 DEF SameImages, CacheType
<1>15. CacheOK(t)
  BY <1>1, <1>7, <1>8, <1>9, <1>11 DEF CacheOK
<1>16. TmpGrows(s, t)
  BY <1>12 DEF TmpGrows
<1> QED BY <1>1, <1>4, <1>5, <1>14, <1>15, <1>16

LEMMA SyncTmpOK ==
  ASSUME NEW s, CacheOK(s)
  PROVE  /\ CacheOK(SyncTmp(s))
         /\ SameImages(s, SyncTmp(s))
         /\ TmpGrows(s, SyncTmp(s))
         /\ SyncTmp(s).last = s.last /\ SyncTmp(s).next = s.next
         /\ SyncTmp(s).lru = s.lru
         /\ \A i \in Slot : /\ SyncTmp(s).blk[i].bno = s.blk[i].bno
                            /\ SyncTmp(s).blk[i].buf = s.blk[i].buf
                            /\ ~SyncTmp(s).blk[i].dirty
<1>1. Dirty(s) \in SUBSET Dirty(s)
  OBVIOUS
<1>2. \A i \in Slot : SyncTmp(s).blk[i].dirty = (s.blk[i].dirty /\ i \notin Dirty(s))
  BY <1>1, WrittenOK DEF SyncTmp
<1>3. \A i \in Slot : ~SyncTmp(s).blk[i].dirty
  BY <1>2 DEF Dirty
<1> QED BY <1>1, <1>3, WrittenOK DEF SyncTmp

(* What a getblock that returns entry i with block b leaves.               *)
Got(s, t, i, b, w) ==
  /\ CacheOK(t)
  /\ SameImages(s, t)
  /\ TmpGrows(s, t)
  /\ t.last = i
  /\ t.blk[i].bno = b
  /\ b < t.next
  /\ t.next = s.next \/ t.next = b + 1
  /\ w => t.blk[i].dirty
  /\ s.next <= b => \A j \in Slot : t.blk[j].buf = s.blk[j].buf

LEMMA TouchOK ==
  ASSUME NEW s, s \in CacheType, OneEntry(s), Once(s.lru), NoneLost(s), UsedDirty(s),
         NEW i \in Slot, s.blk[i].bno < s.next, NEW w \in BOOLEAN,
         \A j \in Slot : (j # i \/ ~w) /\ s.blk[j].bno < s.next /\ ~s.blk[j].dirty
                           => s.tmp[s.blk[j].bno] = s.blk[j].buf
  PROVE  /\ CacheOK(Touch(s, i, w))
         /\ Touch(s, i, w).last = i
         /\ Touch(s, i, w).next = s.next
         /\ Touch(s, i, w).tmp = s.tmp
         /\ Touch(s, i, w).blk[i].bno = s.blk[i].bno
         /\ w => Touch(s, i, w).blk[i].dirty
         /\ \A b \in Bno : Image(Touch(s, i, w), b) = Image(s, b)
         /\ \A j \in Slot : Touch(s, i, w).blk[j].buf = s.blk[j].buf
<1>1. PICK t : t = Touch(s, i, w)
  OBVIOUS
<1>2. s \in CacheType /\ s.blk \in [Slot -> [bno : Bno, dirty : BOOLEAN, buf : Buf]]
  BY DEF CacheType
<1>3. /\ t.last = i /\ t.next = s.next /\ t.lru = s.lru /\ t.tmp = s.tmp
      /\ t.blk = [s.blk EXCEPT ![i] = [@ EXCEPT !.dirty = s.blk[i].dirty \/ w]]
      /\ t = [blk |-> t.blk, lru |-> t.lru, tmp |-> t.tmp, next |-> t.next, last |-> t.last]
  BY <1>1, <1>2 DEF Touch, CacheType
<1>4. \A j \in Slot : /\ t.blk[j] \in [bno : Bno, dirty : BOOLEAN, buf : Buf]
                      /\ t.blk[j].bno = s.blk[j].bno
                      /\ t.blk[j].buf = s.blk[j].buf
                      /\ j # i => t.blk[j].dirty = s.blk[j].dirty
                      /\ j = i => t.blk[j].dirty = (s.blk[j].dirty \/ w)
  <2> SUFFICES ASSUME NEW j \in Slot
               PROVE  /\ t.blk[j] \in [bno : Bno, dirty : BOOLEAN, buf : Buf]
                      /\ t.blk[j].bno = s.blk[j].bno
                      /\ t.blk[j].buf = s.blk[j].buf
                      /\ j # i => t.blk[j].dirty = s.blk[j].dirty
                      /\ j = i => t.blk[j].dirty = (s.blk[j].dirty \/ w)
    OBVIOUS
  <2>1. s.blk[j] \in [bno : Bno, dirty : BOOLEAN, buf : Buf]
    BY <1>2
  <2>2. CASE j = i
    <3>1. t.blk[j] = [s.blk[j] EXCEPT !.dirty = s.blk[j].dirty \/ w]
      BY <1>2, <1>3, <2>2
    <3> QED BY <3>1, <2>1, <2>2
  <2>3. CASE j # i
    <3>1. t.blk[j] = s.blk[j]
      BY <1>2, <1>3, <2>3
    <3> QED BY <3>1, <2>1, <2>3
  <2> QED BY <2>2, <2>3
<1>5. t \in CacheType
  <2>1. t.blk = [j \in Slot |-> t.blk[j]]
    BY <1>2, <1>3
  <2>2. t.blk \in [Slot -> [bno : Bno, dirty : BOOLEAN, buf : Buf]]
    BY <2>1, <1>4, Zenon
  <2>3. t.lru \in [1..NBUF -> Slot] /\ t.next \in 0..MAX_BLOCKS
        /\ t.tmp \in [Bno -> Buf \cup {NoBlock}] /\ t.last \in Slot \cup {NoBlock}
    BY <1>2, <1>3 DEF CacheType
  <2> QED BY <2>2, <2>3, <1>3, Zenon DEF CacheType
<1>6. OneEntry(t) /\ UsedDirty(t) /\ LastUsed(t) /\ CleanSame(t)
  <2>1. OneEntry(t)
    BY <1>4 DEF OneEntry
  <2>2. UsedDirty(t)
    BY <1>3, <1>4 DEF UsedDirty
  <2>3. LastUsed(t)
    BY <1>3, <1>4 DEF LastUsed
  <2>4. CleanSame(t)
    BY <1>3, <1>4 DEF CleanSame
  <2> QED BY <2>1, <2>2, <2>3, <2>4
<1>7. \A b : Resident(t, b) <=> Resident(s, b)
  BY <1>4 DEF Resident
<1>8. CacheOK(t)
  <2>1. NoneLost(t)
    BY <1>3, <1>7 DEF NoneLost
  <2> QED BY <2>1, <1>3, <1>5, <1>6 DEF CacheOK
<1>9. \A b \in Bno : Image(t, b) = Image(s, b)
  <2> SUFFICES ASSUME NEW b \in Bno PROVE Image(t, b) = Image(s, b)
    OBVIOUS
  <2>1. \A j \in Slot : t.blk[j].bno = s.blk[j].bno /\ t.blk[j].buf = s.blk[j].buf
    BY <1>4
  <2>2. t.tmp[b] = s.tmp[b]
    BY <1>3
  <2> QED BY <2>1, <2>2, SameBlocks
<1>10. t.blk[i].bno = s.blk[i].bno /\ (w => t.blk[i].dirty)
       /\ \A j \in Slot : t.blk[j].buf = s.blk[j].buf
  BY <1>4
<1> QED BY <1>1, <1>3, <1>8, <1>9, <1>10

(* Block b may be asked for when it was used before, or to be written when *)
(* it is the first one that was not.                                       *)
MayGet(s, b, w) == b < s.next \/ (b = s.next /\ w)

LEMMA HitOK ==
  ASSUME NEW s, CacheOK(s), NEW b \in Bno, Resident(s, b), NEW w \in BOOLEAN, MayGet(s, b, w)
  PROVE  \E i \in Slot : Got(s, Hit(s, b, w), i, b, w)
<1>1. PICK i : i = lookup_block(s, b)
  OBVIOUS
<1>2. i \in Slot /\ s.blk[i].bno = b
  BY <1>1, LookupResident
<1>3. PICK u : u = [s EXCEPT !.lru = ToTail(s.lru, i),
                             !.next = IF b >= s.next THEN b + 1 ELSE s.next]
  OBVIOUS
<1>4. PICK t : t = Touch(u, i, w)
  OBVIOUS
<1>5. Hit(s, b, w) = t
  BY <1>1, <1>3, <1>4 DEF Hit
<1>6. s \in CacheType /\ s.next \in 0..MAX_BLOCKS /\ s.lru \in [1..NBUF -> Slot]
      /\ s.blk \in [Slot -> [bno : Bno, dirty : BOOLEAN, buf : Buf]]
  BY DEF CacheOK, CacheType
<1>7. /\ u.last = s.last /\ u.tmp = s.tmp /\ u.blk = s.blk
      /\ u.lru = ToTail(s.lru, i)
      /\ u.next = IF b >= s.next THEN b + 1 ELSE s.next
      /\ u = [blk |-> u.blk, lru |-> u.lru, tmp |-> u.tmp, next |-> u.next, last |-> u.last]
  BY <1>3, <1>6 DEF CacheType
<1>8. /\ u.next \in 0..MAX_BLOCKS /\ s.next <= u.next /\ b < u.next
      /\ \A c \in Bno : c < u.next => c < s.next \/ c = b
      /\ b < s.next \/ w
  BY <1>6, <1>7, TmpAssumption DEF Bno, MayGet
<1>9. u.lru \in [1..NBUF -> Slot] /\ Once(u.lru)
  BY <1>2, <1>6, <1>7, ToTailOnce DEF CacheOK
<1>10. u \in CacheType
  BY <1>6, <1>7, <1>8, <1>9, Zenon DEF CacheType
<1>11. OneEntry(u)
  BY <1>7 DEF CacheOK, OneEntry
<1>12. NoneLost(u)
  <2> SUFFICES ASSUME NEW c \in Bno, c < u.next PROVE Resident(u, c) \/ u.tmp[c] # NoBlock
    BY DEF NoneLost
  <2>1. CASE c < s.next
    BY <2>1, <1>7 DEF CacheOK, NoneLost, Resident
  <2>2. CASE c = b
    BY <2>2, <1>7 DEF Resident
  <2> QED BY <2>1, <2>2, <1>8
<1>13. UsedDirty(u)
  <2> SUFFICES ASSUME NEW j \in Slot, u.blk[j].dirty PROVE u.blk[j].bno < u.next
    BY DEF UsedDirty
  <2>1. s.blk[j].bno < s.next /\ s.blk[j].bno \in Bno
    BY <1>6, <1>7 DEF CacheOK, UsedDirty
  <2> QED BY <2>1, <1>6, <1>7, <1>8 DEF Bno
<1>14. ASSUME NEW j \in Slot, j # i \/ ~w, u.blk[j].bno < u.next, ~u.blk[j].dirty
       PROVE  u.tmp[u.blk[j].bno] = u.blk[j].buf
  <2>1. s.blk[j].bno \in Bno /\ s.blk[j].bno < u.next
    BY <1>6, <1>7, <1>14
  <2>2. j # i => s.blk[j].bno # b
    BY <1>2 DEF CacheOK, OneEntry
  <2>3. s.blk[j].bno < s.next
    BY <2>1, <2>2, <1>2, <1>8, <1>14
  <2> QED BY <2>3, <1>7, <1>14 DEF CacheOK, CleanSame
<1>15. u.blk[i].bno < u.next
  BY <1>2, <1>7, <1>8
<1>16. /\ CacheOK(t) /\ t.last = i /\ t.next = u.next /\ t.tmp = u.tmp
       /\ t.blk[i].bno = u.blk[i].bno /\ (w => t.blk[i].dirty)
       /\ \A c \in Bno : Image(t, c) = Image(u, c)
       /\ \A j \in Slot : t.blk[j].buf = u.blk[j].buf
  BY <1>2, <1>4, <1>9, <1>10, <1>11, <1>12, <1>13, <1>14, <1>15, TouchOK
<1>17. \A c \in Bno : Image(u, c) = Image(s, c)
  BY <1>7, SameBlocks DEF CacheOK
<1>18. SameImages(s, t) /\ TmpGrows(s, t)
  BY <1>7, <1>8, <1>16, <1>17 DEF SameImages, TmpGrows
<1> QED BY <1>2, <1>5, <1>7, <1>8, <1>16, <1>18 DEF Got

(* The least recently used entry, clean by now, gets another number.       *)
LEMMA ReassignOK ==
  ASSUME NEW s, CacheOK(s), NEW b \in Bno, ~Resident(s, b),
         NEW i, i = s.lru[1], NEW t, t = Reassign(s, b)
  PROVE  /\ i \in Slot
         /\ t \in CacheType
         /\ OneEntry(t) /\ Once(t.lru) /\ UsedDirty(t)
         /\ t.next = s.next /\ t.last = s.last
         /\ t.blk[i].bno = b /\ ~t.blk[i].dirty
         /\ TmpGrows(s, t)
         /\ t.tmp[b] = s.tmp[b]
         /\ \A j \in Slot : t.blk[j].buf = s.blk[j].buf
         /\ \A j \in Slot \ {i} : t.blk[j].bno < t.next /\ ~t.blk[j].dirty
                                   => t.tmp[t.blk[j].bno] = t.blk[j].buf
         /\ \A c \in Bno \ {b} : c < s.next =>
               /\ Image(t, c) = Image(s, c)
               /\ Resident(t, c) \/ t.tmp[c] # NoBlock
<1>1. PICK u : u = IF s.blk[i].dirty THEN SyncTmp(s) ELSE s
  OBVIOUS
<1>2. 1 \in 1..NBUF /\ i \in Slot
  BY TmpAssumption DEF CacheOK, CacheType
<1>3. /\ CacheOK(u) /\ SameImages(s, u) /\ TmpGrows(s, u)
      /\ u.last = s.last /\ u.next = s.next /\ u.lru = s.lru
      /\ \A j \in Slot : u.blk[j].bno = s.blk[j].bno /\ u.blk[j].buf = s.blk[j].buf
      /\ ~u.blk[i].dirty
  <2>1. CASE s.blk[i].dirty
    BY <2>1, <1>1, <1>2, SyncTmpOK
  <2>2. CASE ~s.blk[i].dirty
    BY <2>2, <1>1, <1>2 DEF SameImages, TmpGrows, CacheOK, CacheType
  <2> QED BY <2>1, <2>2
<1>4. u \in CacheType /\ u.next \in 0..MAX_BLOCKS /\ u.lru \in [1..NBUF -> Slot]
      /\ u.blk \in [Slot -> [bno : Bno, dirty : BOOLEAN, buf : Buf]]
  BY <1>3 DEF CacheOK, CacheType
<1>5. t = [u EXCEPT !.lru = ToTail(u.lru, i),
                    !.blk[i] = [bno |-> b, dirty |-> FALSE, buf |-> u.blk[i].buf]]
  BY <1>1 DEF Reassign
<1>6. /\ t.last = u.last /\ t.tmp = u.tmp /\ t.next = u.next
      /\ t.lru = ToTail(u.lru, i)
      /\ t.blk = [u.blk EXCEPT ![i] = [bno |-> b, dirty |-> FALSE, buf |-> u.blk[i].buf]]
      /\ t = [blk |-> t.blk, lru |-> t.lru, tmp |-> t.tmp, next |-> t.next, last |-> t.last]
  BY <1>2, <1>4, <1>5 DEF CacheType
<1>7. \A j \in Slot : /\ t.blk[j] \in [bno : Bno, dirty : BOOLEAN, buf : Buf]
                      /\ j # i => t.blk[j] = u.blk[j]
                      /\ j = i => t.blk[j].bno = b /\ ~t.blk[j].dirty /\ t.blk[j].buf = u.blk[j].buf
  <2> SUFFICES ASSUME NEW j \in Slot
               PROVE  /\ t.blk[j] \in [bno : Bno, dirty : BOOLEAN, buf : Buf]
                      /\ j # i => t.blk[j] = u.blk[j]
                      /\ j = i => t.blk[j].bno = b /\ ~t.blk[j].dirty /\ t.blk[j].buf = u.blk[j].buf
    OBVIOUS
  <2>1. u.blk[j] \in [bno : Bno, dirty : BOOLEAN, buf : Buf]
    BY <1>4
  <2>2. CASE j = i
    <3>1. t.blk[j] = [bno |-> b, dirty |-> FALSE, buf |-> u.blk[j].buf]
      BY <1>4, <1>6, <2>2
    <3> QED BY <3>1, <2>1, <2>2
  <2>3. CASE j # i
    <3>1. t.blk[j] = u.blk[j]
      BY <1>4, <1>6, <2>3
    <3> QED BY <3>1, <2>1, <2>3
  <2> QED BY <2>2, <2>3
<1>8. t.lru \in [1..NBUF -> Slot] /\ Once(t.lru)
  BY <1>2, <1>3, <1>4, <1>6, ToTailOnce DEF CacheOK
<1>9. t \in CacheType
  <2>1. t.blk = [j \in Slot |-> t.blk[j]]
    BY <1>4, <1>6
  <2>2. t.blk \in [Slot -> [bno : Bno, dirty : BOOLEAN, buf : Buf]]
    BY <2>1, <1>7, Zenon
  <2>3. t.next \in 0..MAX_BLOCKS
        /\ t.tmp \in [Bno -> Buf \cup {NoBlock}] /\ t.last \in Slot \cup {NoBlock}
    BY <1>4, <1>6 DEF CacheType
  <2> QED BY <2>2, <2>3, <1>6, <1>8, Zenon DEF CacheType
<1>10. ~Resident(u, b)
  BY <1>3 DEF Resident
<1>11. OneEntry(t)
  <2> SUFFICES ASSUME NEW j \in Slot, NEW k \in Slot, t.blk[j].bno = t.blk[k].bno
               PROVE  j = k
    BY DEF OneEntry
  <2>1. \A n \in Slot : u.blk[n].bno # b
    BY <1>10 DEF Resident
  <2>2. (j = i /\ k # i => FALSE) /\ (j # i /\ k = i => FALSE)
    BY <2>1, <1>7
  <2>3. j # i /\ k # i => j = k
    BY <1>3, <1>7 DEF CacheOK, OneEntry
  <2> QED BY <2>2, <2>3
<1>12. UsedDirty(t)
  BY <1>3, <1>6, <1>7 DEF CacheOK, UsedDirty
<1>13. TmpGrows(s, t) /\ t.tmp[b] = s.tmp[b]
  BY <1>3, <1>6 DEF TmpGrows
<1>14. ASSUME NEW j \in Slot \ {i}, t.blk[j].bno < t.next, ~t.blk[j].dirty
       PROVE  t.tmp[t.blk[j].bno] = t.blk[j].buf
  BY <1>3, <1>6, <1>7, <1>14, ZenonT(60) DEF CacheOK, CleanSame
<1>15. ASSUME NEW c \in Bno \ {b}, c < s.next
       PROVE  Image(t, c) = Image(u, c) /\ (Resident(t, c) \/ t.tmp[c] # NoBlock)
  <2>1. CASE u.blk[i].bno = c
    <3>1. Image(u, c) = u.blk[i].buf
      BY <2>1, <1>2, <1>3, LookupUnique DEF CacheOK, Image
    <3>2. u.tmp[c] = u.blk[i].buf
      BY <2>1, <1>2, <1>3, <1>15 DEF CacheOK, CleanSame
    <3>3. ~Resident(t, c)
      <4> SUFFICES ASSUME NEW j \in Slot, t.blk[j].bno = c PROVE FALSE
        BY DEF Resident
      <4>1. j # i
        BY <1>7, <1>15
      <4>2. u.blk[j].bno = u.blk[i].bno
        BY <4>1, <2>1, <1>7
      <4> QED BY <4>1, <4>2, <1>2, <1>3 DEF CacheOK, OneEntry
    <3>4. u.blk[i].buf # NoBlock
      <4>1. u.blk[i].buf \in Buf
        BY <1>2, <1>4
      <4> QED BY <4>1, NoBlockAssumption
    <3> QED BY <3>1, <3>2, <3>3, <3>4, <1>6 DEF Image
  <2>2. CASE u.blk[i].bno # c /\ Resident(u, c)
    <3>1. PICK j \in Slot : u.blk[j].bno = c
      BY <2>2 DEF Resident
    <3>2. j # i /\ t.blk[j] = u.blk[j]
      BY <3>1, <2>2, <1>7
    <3>3. Image(u, c) = u.blk[j].buf
      BY <3>1, <1>3, LookupUnique DEF CacheOK, Image
    <3>4. Image(t, c) = t.blk[j].buf /\ Resident(t, c)
      BY <3>1, <3>2, <1>11, LookupUnique DEF Image
    <3> QED BY <3>2, <3>3, <3>4
  <2>3. CASE u.blk[i].bno # c /\ ~Resident(u, c)
    <3>1. ~Resident(t, c)
      <4> SUFFICES ASSUME NEW j \in Slot, t.blk[j].bno = c PROVE FALSE
        BY DEF Resident
      <4>1. j # i
        BY <1>7, <1>15
      <4> QED BY <4>1, <2>3, <1>7 DEF Resident
    <3>2. u.tmp[c] # NoBlock
      BY <2>3, <1>3, <1>15 DEF CacheOK, NoneLost
    <3> QED BY <3>1, <3>2, <2>3, <1>6 DEF Image
  <2> QED BY <2>1, <2>2, <2>3
<1>16. ASSUME NEW c \in Bno \ {b}, c < s.next
       PROVE  Image(t, c) = Image(s, c) /\ (Resident(t, c) \/ t.tmp[c] # NoBlock)
  BY <1>3, <1>15, <1>16 DEF SameImages
<1>17. \A j \in Slot : t.blk[j].buf = s.blk[j].buf
  BY <1>3, <1>7
<1> QED BY <1>2, <1>3, <1>6, <1>7, <1>8, <1>9, <1>11, <1>12, <1>13, <1>14, <1>16, <1>17

LEMMA MissOK ==
  ASSUME NEW s, CacheOK(s), NEW b \in Bno, ~Resident(s, b), NEW w \in BOOLEAN, MayGet(s, b, w)
  PROVE  \E i \in Slot : Got(s, Miss(s, b, w), i, b, w)
<1>1. PICK i : i = s.lru[1]
  OBVIOUS
<1>2. PICK r : r = Reassign(s, b)
  OBVIOUS
<1>3. /\ i \in Slot
      /\ r \in CacheType
      /\ OneEntry(r) /\ Once(r.lru) /\ UsedDirty(r)
      /\ r.next = s.next /\ r.last = s.last
      /\ r.blk[i].bno = b /\ ~r.blk[i].dirty
      /\ TmpGrows(s, r)
      /\ r.tmp[b] = s.tmp[b]
      /\ \A j \in Slot : r.blk[j].buf = s.blk[j].buf
      /\ \A j \in Slot \ {i} : r.blk[j].bno < r.next /\ ~r.blk[j].dirty
                                => r.tmp[r.blk[j].bno] = r.blk[j].buf
      /\ \A c \in Bno \ {b} : c < s.next =>
            /\ Image(r, c) = Image(s, c)
            /\ Resident(r, c) \/ r.tmp[c] # NoBlock
  BY <1>1, <1>2, ReassignOK
<1>4. PICK u : u = IF b < s.next THEN [r EXCEPT !.blk[i].buf = r.tmp[b]]
                   ELSE [r EXCEPT !.next = b + 1]
  OBVIOUS
<1>5. PICK t : t = Touch(u, i, w)
  OBVIOUS
<1>6. Miss(s, b, w) = t
  BY <1>1, <1>2, <1>4, <1>5 DEF Miss
<1>7. /\ r.blk \in [Slot -> [bno : Bno, dirty : BOOLEAN, buf : Buf]]
      /\ r.next \in 0..MAX_BLOCKS /\ r.lru \in [1..NBUF -> Slot]
      /\ r.tmp \in [Bno -> Buf \cup {NoBlock}] /\ r.last \in Slot \cup {NoBlock}
  BY <1>3 DEF CacheType
<1>8. b < s.next => r.tmp[b] \in Buf
  <2>1. b < s.next => s.tmp[b] # NoBlock
    BY DEF CacheOK, NoneLost
  <2> QED BY <2>1, <1>3, <1>7
<1>9. /\ u.last = r.last /\ u.tmp = r.tmp /\ u.lru = r.lru
      /\ u.next = IF b < s.next THEN s.next ELSE b + 1
      /\ u.blk = IF b < s.next THEN [r.blk EXCEPT ![i] = [r.blk[i] EXCEPT !.buf = r.tmp[b]]]
                 ELSE r.blk
      /\ u = [blk |-> u.blk, lru |-> u.lru, tmp |-> u.tmp, next |-> u.next, last |-> u.last]
  <2>1. CASE b < s.next
    BY <2>1, <1>3, <1>4 DEF CacheType
  <2>2. CASE ~(b < s.next)
    BY <2>2, <1>3, <1>4 DEF CacheType
  <2> QED BY <2>1, <2>2
<1>10. \A j \in Slot : /\ u.blk[j] \in [bno : Bno, dirty : BOOLEAN, buf : Buf]
                       /\ u.blk[j].bno = r.blk[j].bno
                       /\ u.blk[j].dirty = r.blk[j].dirty
                       /\ j # i => u.blk[j].buf = r.blk[j].buf
                       /\ j = i /\ b < s.next => u.blk[j].buf = r.tmp[b]
  <2> SUFFICES ASSUME NEW j \in Slot
               PROVE  /\ u.blk[j] \in [bno : Bno, dirty : BOOLEAN, buf : Buf]
                      /\ u.blk[j].bno = r.blk[j].bno
                      /\ u.blk[j].dirty = r.blk[j].dirty
                      /\ j # i => u.blk[j].buf = r.blk[j].buf
                      /\ j = i /\ b < s.next => u.blk[j].buf = r.tmp[b]
    OBVIOUS
  <2>1. r.blk[j] \in [bno : Bno, dirty : BOOLEAN, buf : Buf]
    BY <1>7
  <2>2. CASE j = i /\ b < s.next
    <3>1. u.blk[j] = [r.blk[j] EXCEPT !.buf = r.tmp[b]]
      BY <2>2, <1>7, <1>9
    <3> QED BY <3>1, <2>1, <2>2, <1>8
  <2>3. CASE ~(j = i /\ b < s.next)
    <3>1. u.blk[j] = r.blk[j]
      BY <2>3, <1>7, <1>9
    <3> QED BY <3>1, <2>1, <2>3
  <2> QED BY <2>2, <2>3
<1>11. /\ u.next \in 0..MAX_BLOCKS /\ s.next <= u.next /\ b < u.next
       /\ \A c \in Bno : c < u.next => c < s.next \/ c = b
       /\ b < s.next \/ w
  BY <1>3, <1>7, <1>9, TmpAssumption, SMTT(30) DEF Bno, MayGet
<1>12. u \in CacheType
  <2>1. u.blk = [j \in Slot |-> u.blk[j]]
    BY <1>7, <1>9
  <2>2. u.blk \in [Slot -> [bno : Bno, dirty : BOOLEAN, buf : Buf]]
    BY <2>1, <1>10, Zenon
  <2>3. u.lru \in [1..NBUF -> Slot] /\ u.tmp \in [Bno -> Buf \cup {NoBlock}]
        /\ u.last \in Slot \cup {NoBlock}
    BY <1>7, <1>9
  <2> QED BY <2>2, <2>3, <1>9, <1>11, Zenon DEF CacheType
<1>13. OneEntry(u)
  BY <1>3, <1>10 DEF OneEntry
<1>14. \A c : Resident(u, c) <=> Resident(r, c)
  BY <1>10 DEF Resident
<1>15. NoneLost(u)
  <2> SUFFICES ASSUME NEW c \in Bno, c < u.next PROVE Resident(u, c) \/ u.tmp[c] # NoBlock
    BY DEF NoneLost
  <2>1. CASE c = b
    BY <2>1, <1>3, <1>14 DEF Resident
  <2>2. CASE c # b
    BY <2>2, <1>3, <1>9, <1>11, <1>14
  <2> QED BY <2>1, <2>2
<1>16. UsedDirty(u)
  <2> SUFFICES ASSUME NEW j \in Slot, u.blk[j].dirty PROVE u.blk[j].bno < u.next
    BY DEF UsedDirty
  <2>1. r.blk[j].bno < s.next /\ r.blk[j].bno \in Bno /\ u.blk[j].bno = r.blk[j].bno
    BY <1>3, <1>7, <1>10 DEF UsedDirty
  <2> QED BY <2>1, <1>7, <1>3, <1>11 DEF Bno
<1>17. ASSUME NEW j \in Slot, j # i \/ ~w, u.blk[j].bno < u.next, ~u.blk[j].dirty
       PROVE  u.tmp[u.blk[j].bno] = u.blk[j].buf
  <2>1. CASE j = i
    <3>1. b < s.next
      BY <2>1, <1>11, <1>17
    <3> QED BY <2>1, <3>1, <1>3, <1>9, <1>10
  <2>2. CASE j # i
    <3>1. u.blk[j].bno # b
      BY <2>2, <1>3, <1>10 DEF OneEntry
    <3>2. r.blk[j].bno < r.next /\ ~r.blk[j].dirty
      BY <3>1, <1>3, <1>7, <1>10, <1>11, <1>17
    <3> QED BY <3>2, <2>2, <1>3, <1>9, <1>10
  <2> QED BY <2>1, <2>2
<1>18. u.blk[i].bno < u.next
  BY <1>3, <1>10, <1>11
<1>19. /\ CacheOK(t) /\ t.last = i /\ t.next = u.next /\ t.tmp = u.tmp
       /\ t.blk[i].bno = u.blk[i].bno /\ (w => t.blk[i].dirty)
       /\ \A c \in Bno : Image(t, c) = Image(u, c)
       /\ \A j \in Slot : t.blk[j].buf = u.blk[j].buf
  <2>1. Once(u.lru)
    BY <1>3, <1>9
  <2>2. i \in Slot
    BY <1>3
  <2>3. \A j \in Slot : (j # i \/ ~w) /\ u.blk[j].bno < u.next /\ ~u.blk[j].dirty
                          => u.tmp[u.blk[j].bno] = u.blk[j].buf
    BY <1>17
  <2> QED BY <2>1, <2>2, <2>3, <1>5, <1>12, <1>13, <1>15, <1>16, <1>18, TouchOK
<1>20. ASSUME NEW c \in Bno, c < s.next PROVE Image(u, c) = Image(s, c)
  <2>1. CASE c = b
    <3>1. Image(u, b) = u.blk[i].buf
      BY <1>3, <1>10, <1>13, LookupUnique DEF Image
    <3>2. Image(s, b) = s.tmp[b]
      BY DEF Image
    <3> QED BY <2>1, <3>1, <3>2, <1>3, <1>10, <1>20
  <2>2. CASE c # b
    <3>1. Image(r, c) = Image(s, c)
      BY <2>2, <1>3, <1>20
    <3>2. CASE Resident(u, c)
      <4>1. PICK j \in Slot : u.blk[j].bno = c
        BY <3>2 DEF Resident
      <4>2. j # i /\ r.blk[j].bno = c /\ u.blk[j].buf = r.blk[j].buf
        BY <4>1, <2>2, <1>3, <1>10
      <4>3. Image(u, c) = u.blk[j].buf
        BY <4>1, <1>13, LookupUnique DEF Image
      <4>4. Image(r, c) = r.blk[j].buf
        BY <4>2, <1>3, LookupUnique DEF Image
      <4> QED BY <3>1, <4>2, <4>3, <4>4
    <3>3. CASE ~Resident(u, c)
      BY <3>1, <3>3, <1>9, <1>14 DEF Image
    <3> QED BY <3>2, <3>3
  <2> QED BY <2>1, <2>2
<1>21. SameImages(s, t) /\ TmpGrows(s, t)
  BY <1>3, <1>9, <1>11, <1>19, <1>20 DEF SameImages, TmpGrows
<1>22. t.blk[i].bno = b /\ b < t.next
  BY <1>3, <1>10, <1>11, <1>19
<1>23. ASSUME s.next <= b, NEW j \in Slot PROVE t.blk[j].buf = s.blk[j].buf
  <2>1. ~(b < s.next)
    BY <1>3, <1>7, <1>23, TmpAssumption DEF Bno
  <2>2. u.blk[j].buf = r.blk[j].buf
    BY <2>1, <1>9
  <2>3. r.blk[j].buf = s.blk[j].buf
    BY <1>3
  <2>4. t.blk[j].buf = u.blk[j].buf
    BY <1>19
  <2> QED BY <2>2, <2>3, <2>4, Zenon
<1>24. t.next = s.next \/ t.next = b + 1
  BY <1>9, <1>19
<1>25. Got(s, t, i, b, w)
  BY <1>19, <1>21, <1>22, <1>23, <1>24 DEF Got
<1> QED BY <1>3, <1>6, <1>25

(* getblock returns an entry that holds the block asked for; it changes no *)
(* used block, whatever it had to evict.                                   *)
THEOREM GetblockOK ==
  ASSUME NEW s, CacheOK(s), NEW a \in Addr, NEW w \in BOOLEAN, MayGet(s, a[1], w)
  PROVE  \E i \in Slot : Got(s, getblock(s, a, w), i, a[1], w)
<1>1. a[1] \in Bno /\ da_to_bno(a) = a[1]
  BY TmpAssumption DEF Addr, Bno, da_to_bno
<1>2. CASE Same(s, a[1])
  <2>1. s.last \in Slot /\ s.blk[s.last].bno = a[1] /\ a[1] < s.next
    BY <1>2 DEF Same, CacheOK, CacheType, LastUsed
  <2>2. PICK t : t = Touch(s, s.last, w)
    OBVIOUS
  <2>3. /\ s \in CacheType /\ OneEntry(s) /\ Once(s.lru) /\ NoneLost(s) /\ UsedDirty(s)
        /\ \A j \in Slot : s.blk[j].bno < s.next /\ ~s.blk[j].dirty
                           => s.tmp[s.blk[j].bno] = s.blk[j].buf
    BY DEF CacheOK, CleanSame
  <2>4. /\ CacheOK(t) /\ t.last = s.last /\ t.next = s.next /\ t.tmp = s.tmp
        /\ t.blk[s.last].bno = s.blk[s.last].bno /\ (w => t.blk[s.last].dirty)
        /\ \A c \in Bno : Image(t, c) = Image(s, c)
        /\ \A j \in Slot : t.blk[j].buf = s.blk[j].buf
    BY <2>1, <2>2, <2>3, TouchOK
  <2>5. SameImages(s, t) /\ TmpGrows(s, t)
    BY <2>3, <2>4 DEF SameImages, TmpGrows, CacheType
  <2>6. Got(s, t, s.last, a[1], w)
    BY <2>1, <2>4, <2>5 DEF Got
  <2> QED BY <1>1, <1>2, <2>1, <2>2, <2>6 DEF getblock
<1>3. CASE ~Same(s, a[1]) /\ Resident(s, a[1])
  BY <1>1, <1>3, HitOK DEF getblock
<1>4. CASE ~Same(s, a[1]) /\ ~Resident(s, a[1])
  BY <1>1, <1>4, MissOK DEF getblock
<1> QED BY <1>2, <1>3, <1>4

-----------------------------------------------------------------------------
(* The lines put so far, sv, and the end of the file, d, against cache s.  *)

Ends(s, d) == d \in Addr /\ d[1] <= s.next /\ s.next <= d[1] + 1

SavedOK(s, sv, d) ==
  \A a \in DOMAIN sv :
    /\ a \in Addr /\ sv[a] \in Line
    /\ Allowed(a[1]) /\ a[1] < s.next
    /\ a[1] < d[1] \/ (a[1] = d[1] /\ a[2] + LineLen[sv[a]] <= d[2])
    /\ Holds(Image(s, a[1]), a[2], sv[a])

Good(s, sv, d) == CacheOK(s) /\ Ends(s, d) /\ SavedOK(s, sv, d)

(* The lines of sv that can be read from the file of s.                    *)
InFile(s, sv) == {a \in DOMAIN sv : Holds(s.tmp[a[1]], a[2], sv[a])}

(* The entry returned last holds the block of d and will be written.       *)
AtEnd(s, d) == s.last \in Slot /\ s.blk[s.last].bno = d[1] /\ s.blk[s.last].dirty

LEMMA AddrParts ==
  ASSUME NEW a \in Addr
  PROVE  a = <<a[1], a[2]>> /\ a[1] \in Bno /\ a[2] \in Chunk
BY DEF Addr

LEMMA GrowsKeeps ==
  ASSUME NEW s, NEW sv, NEW d, Good(s, sv, d), NEW t, TmpGrows(s, t)
  PROVE  InFile(s, sv) \subseteq InFile(t, sv)
<1> SUFFICES ASSUME NEW a \in DOMAIN sv, Holds(s.tmp[a[1]], a[2], sv[a])
             PROVE  Holds(t.tmp[a[1]], a[2], sv[a])
  BY DEF InFile
<1>1. a[1] \in Bno /\ Holds(Image(s, a[1]), a[2], sv[a])
  BY AddrParts DEF Good, SavedOK
<1>2. t.tmp[a[1]] = s.tmp[a[1]] \/ t.tmp[a[1]] = Image(s, a[1])
  BY <1>1 DEF TmpGrows
<1> QED BY <1>1, <1>2

LEMMA SameImagesGood ==
  ASSUME NEW s, NEW sv, NEW d, Good(s, sv, d), NEW t, CacheOK(t), SameImages(s, t),
         t.next <= d[1] + 1
  PROVE  Good(t, sv, d)
<1>1. s.next \in Nat /\ t.next \in Nat /\ d[1] \in Nat /\ s.next <= t.next
  BY AddrParts DEF Good, Ends, CacheOK, CacheType, SameImages, Bno
<1>2. Ends(t, d)
  BY <1>1 DEF Good, Ends
<1>3. SavedOK(t, sv, d)
  <2> SUFFICES ASSUME NEW a \in DOMAIN sv
               PROVE  a[1] < t.next /\ Image(t, a[1]) = Image(s, a[1])
    BY DEF Good, SavedOK
  <2>1. a[1] \in Bno /\ a[1] \in Nat /\ a[1] < s.next
    BY AddrParts DEF Good, SavedOK, Bno
  <2> QED BY <2>1, <1>1 DEF SameImages
<1> QED BY <1>2, <1>3 DEF Good

LEMMA NextBound ==
  ASSUME NEW m \in Nat, NEW k \in Nat, NEW n, n = m \/ n = k + 1, m <= k + 1
  PROVE  n <= k + 1
OBVIOUS

(* getblock(DFree, YES)                                                    *)
LEMMA GetEnd ==
  ASSUME NEW s, NEW sv, NEW d, Good(s, sv, d), NEW t, t = getblock(s, d, YES)
  PROVE  /\ d \in Addr /\ d[1] \in Nat /\ s.next \in Nat
         /\ \E i \in Slot : Got(s, t, i, d[1], YES)
<1>1. d \in Addr /\ d[1] \in Nat /\ s.next \in Nat
  BY AddrParts DEF Good, Ends, CacheOK, CacheType, Bno
<1>2. CacheOK(s) /\ MayGet(s, d[1], YES) /\ YES \in BOOLEAN
  BY <1>1 DEF Good, Ends, MayGet, YES
<1> QED BY <1>1, <1>2, GetblockOK

LEMMA GetAtEnd ==
  ASSUME NEW s, NEW sv, NEW d, Good(s, sv, d), NEW t, t = getblock(s, d, YES)
  PROVE  /\ Good(t, sv, d) /\ AtEnd(t, d) /\ d[1] < t.next
         /\ InFile(s, sv) \subseteq InFile(t, sv)
<1>1. d \in Addr /\ d[1] \in Nat /\ s.next \in Nat
  BY GetEnd
<1>3. PICK i \in Slot : Got(s, t, i, d[1], YES)
  BY GetEnd
<1>4. t.next <= d[1] + 1
  <2>1. t.next = s.next \/ t.next = d[1] + 1
    BY <1>3 DEF Got
  <2>2. s.next <= d[1] + 1
    BY DEF Good, Ends
  <2> QED BY <2>1, <2>2, <1>1, NextBound, Zenon
<1>5. Good(t, sv, d)
  BY <1>3, <1>4, SameImagesGood DEF Got
<1>6. AtEnd(t, d) /\ d[1] < t.next
  BY <1>3 DEF Got, AtEnd, YES
<1>7. InFile(s, sv) \subseteq InFile(t, sv)
  BY <1>3, GrowsKeeps DEF Got
<1> QED BY <1>5, <1>6, <1>7

(* A block past the end is not read: the bytes in memory stay.             *)
LEMMA SameBufs ==
  ASSUME NEW s, NEW sv, NEW d, Good(s, sv, d), s.next <= d[1],
         NEW t, t = getblock(s, d, YES)
  PROVE  \A j \in Slot : t.blk[j].buf = s.blk[j].buf
<1>1. PICK i \in Slot : Got(s, t, i, d[1], YES)
  BY GetEnd
<1> QED BY <1>1 DEF Got

(* Bytes written at or after the end of the file hurt no line.             *)
LEMMA FillAtEnd ==
  ASSUME NEW s, NEW sv, NEW d, Good(s, sv, d), AtEnd(s, d),
         NEW buf \in Buf,
         \A c \in Chunk : c < d[2] => buf[c] = s.blk[s.last].buf[c],
         NEW t, t = Fill(s, buf)
  PROVE  /\ Good(t, sv, d) /\ AtEnd(t, d)
         /\ t.next = s.next /\ t.last = s.last /\ t.tmp = s.tmp
         /\ \A j \in Slot : j # s.last => t.blk[j].buf = s.blk[j].buf
         /\ t.blk[t.last].buf = buf
         /\ Image(t, d[1]) = buf
<1>1. PICK i \in Slot : i = s.last
  BY DEF AtEnd
<1>2. /\ s \in CacheType
      /\ s.blk \in [Slot -> [bno : Bno, dirty : BOOLEAN, buf : Buf]]
  BY DEF Good, CacheOK, CacheType
<1>3. s.blk[i].bno = d[1] /\ s.blk[i].dirty
  BY <1>1 DEF AtEnd
<1>4. /\ t.last = s.last /\ t.next = s.next /\ t.lru = s.lru /\ t.tmp = s.tmp
      /\ t.blk = [s.blk EXCEPT ![i] = [s.blk[i] EXCEPT !.buf = buf]]
      /\ t = [blk |-> t.blk, lru |-> t.lru, tmp |-> t.tmp, next |-> t.next, last |-> t.last]
  BY <1>1, <1>2 DEF Fill, CacheType
<1>5. \A j \in Slot : /\ t.blk[j] \in [bno : Bno, dirty : BOOLEAN, buf : Buf]
                      /\ t.blk[j].bno = s.blk[j].bno
                      /\ t.blk[j].dirty = s.blk[j].dirty
                      /\ j # i => t.blk[j].buf = s.blk[j].buf
                      /\ j = i => t.blk[j].buf = buf
  <2> SUFFICES ASSUME NEW j \in Slot
               PROVE  /\ t.blk[j] \in [bno : Bno, dirty : BOOLEAN, buf : Buf]
                      /\ t.blk[j].bno = s.blk[j].bno
                      /\ t.blk[j].dirty = s.blk[j].dirty
                      /\ j # i => t.blk[j].buf = s.blk[j].buf
                      /\ j = i => t.blk[j].buf = buf
    OBVIOUS
  <2>1. s.blk[j] \in [bno : Bno, dirty : BOOLEAN, buf : Buf]
    BY <1>2
  <2>2. CASE j = i
    <3>1. t.blk[j] = [s.blk[j] EXCEPT !.buf = buf]
      BY <1>2, <1>4, <2>2
    <3> QED BY <3>1, <2>1, <2>2
  <2>3. CASE j # i
    <3>1. t.blk[j] = s.blk[j]
      BY <1>2, <1>4, <2>3
    <3> QED BY <3>1, <2>1, <2>3
  <2> QED BY <2>2, <2>3
<1>6. t \in CacheType
  <2>1. t.blk = [j \in Slot |-> t.blk[j]]
    BY <1>2, <1>4
  <2>2. t.blk \in [Slot -> [bno : Bno, dirty : BOOLEAN, buf : Buf]]
    BY <2>1, <1>5, Zenon
  <2>3. t.lru \in [1..NBUF -> Slot] /\ t.next \in 0..MAX_BLOCKS
        /\ t.tmp \in [Bno -> Buf \cup {NoBlock}] /\ t.last \in Slot \cup {NoBlock}
    BY <1>2, <1>4 DEF CacheType
  <2> QED BY <2>2, <2>3, <1>4, Zenon DEF CacheType
<1>7. \A c : Resident(t, c) <=> Resident(s, c)
  BY <1>5 DEF Resident
<1>8. CacheOK(t)
  <2>1. OneEntry(t) /\ Once(t.lru)
    BY <1>4, <1>5 DEF Good, CacheOK, OneEntry
  <2>2. UsedDirty(t) /\ LastUsed(t)
    BY <1>1, <1>4, <1>5 DEF Good, CacheOK, UsedDirty, LastUsed
  <2>3. CleanSame(t)
    <3> SUFFICES ASSUME NEW j \in Slot, t.blk[j].bno < t.next, ~t.blk[j].dirty
                 PROVE  t.tmp[t.blk[j].bno] = t.blk[j].buf
      BY DEF CleanSame
    <3>1. j # i
      BY <1>3, <1>5
    <3> QED BY <3>1, <1>4, <1>5 DEF Good, CacheOK, CleanSame
  <2>4. NoneLost(t)
    BY <1>4, <1>7 DEF Good, CacheOK, NoneLost
  <2> QED BY <2>1, <2>2, <2>3, <2>4, <1>6 DEF CacheOK
<1>9. Image(s, d[1]) = s.blk[i].buf
  BY <1>3, LookupUnique DEF Good, CacheOK, Image
<1>10. Image(t, d[1]) = buf
  BY <1>3, <1>5, <1>8, LookupUnique DEF CacheOK, Image
<1>11. ASSUME NEW b \in Bno, b # d[1] PROVE Image(t, b) = Image(s, b)
  <2>1. CASE Resident(s, b)
    <3>1. PICK j \in Slot : s.blk[j].bno = b
      BY <2>1 DEF Resident
    <3>2. j # i
      BY <3>1, <1>3, <1>11
    <3>3. Image(s, b) = s.blk[j].buf
      BY <3>1, LookupUnique DEF Good, CacheOK, Image
    <3>4. Image(t, b) = t.blk[j].buf
      BY <3>1, <1>5, <1>8, LookupUnique DEF CacheOK, Image
    <3> QED BY <3>2, <3>3, <3>4, <1>5
  <2>2. CASE ~Resident(s, b)
    BY <2>2, <1>4, <1>7 DEF Image
  <2> QED BY <2>1, <2>2
<1>12. ASSUME NEW a \in DOMAIN sv PROVE Holds(Image(t, a[1]), a[2], sv[a])
  <2>1. /\ a[1] \in Bno /\ a[2] \in Chunk /\ sv[a] \in Line
        /\ a[1] < d[1] \/ (a[1] = d[1] /\ a[2] + LineLen[sv[a]] <= d[2])
        /\ Holds(Image(s, a[1]), a[2], sv[a])
    BY AddrParts DEF Good, SavedOK
  <2>2. CASE a[1] # d[1]
    BY <2>1, <2>2, <1>11
  <2>3. CASE a[1] = d[1]
    <3>1. /\ LineLen[sv[a]] \in 1..BLK_CHNKS /\ BLK_CHNKS \in Nat
          /\ a[2] \in Nat /\ d[2] \in Chunk
      BY <2>1, TmpAssumption, AddrParts DEF Chunk, Good, Ends
    <3>2. a[1] \in Int /\ d[1] \in Int
      BY <2>1, AddrParts DEF Bno, Good, Ends
    <3>3. a[2] + LineLen[sv[a]] <= d[2] /\ a[2] + LineLen[sv[a]] <= BLK_CHNKS
      BY <2>1, <2>3, <3>1, <3>2 DEF Chunk
    <3>4. \A c \in a[2]..(a[2] + LineLen[sv[a]] - 1) : c \in Chunk /\ c < d[2]
      BY <3>1, <3>3 DEF Chunk
    <3>5. \A c \in a[2]..(a[2] + LineLen[sv[a]] - 1) : buf[c] = <<sv[a], c - a[2]>>
      BY <2>1, <2>3, <3>4, <1>1, <1>9 DEF Holds
    <3>6. buf # NoBlock
      BY NoBlockAssumption
    <3> QED BY <2>3, <3>3, <3>5, <3>6, <1>10 DEF Holds
  <2> QED BY <2>2, <2>3
<1>13. SavedOK(t, sv, d)
  BY <1>4, <1>12 DEF Good, SavedOK
<1>14. Good(t, sv, d)
  BY <1>4, <1>8, <1>13 DEF Good, Ends
<1>15. AtEnd(t, d)
  BY <1>1, <1>3, <1>4, <1>5 DEF AtEnd
<1> QED BY <1>1, <1>4, <1>5, <1>10, <1>14, <1>15

(* The end of the file moves to the next block.                            *)
LEMMA MoveOn ==
  ASSUME NEW s, NEW sv, NEW d, Good(s, sv, d), d[1] < s.next, Allowed(d[1])
  PROVE  /\ Good(s, sv, NextBlock(d)) /\ s.next = d[1] + 1
         /\ NextBlock(d) \in Addr
         /\ NextBlock(d)[1] = d[1] + 1 /\ NextBlock(d)[2] = 0
         /\ s.next <= NextBlock(d)[1]
<1>1. d[1] \in Bno /\ s.next \in Nat /\ s.next <= d[1] + 1
  BY AddrParts DEF Good, Ends, CacheOK, CacheType
<1>2. d[1] \in Nat /\ d[1] + 1 \in Bno /\ s.next = d[1] + 1 /\ 0 \in Chunk
  BY <1>1, TmpAssumption DEF Bno, Chunk, Allowed
<1>3. NextBlock(d) \in Addr /\ NextBlock(d)[1] = d[1] + 1 /\ NextBlock(d)[2] = 0
  BY <1>2 DEF NextBlock, Addr
<1>4. Ends(s, NextBlock(d))
  BY <1>2, <1>3 DEF Ends
<1>5. SavedOK(s, sv, NextBlock(d))
  <2> SUFFICES ASSUME NEW a \in DOMAIN sv PROVE a[1] < NextBlock(d)[1]
    BY DEF Good, SavedOK
  <2>1. a[1] < s.next
    BY DEF Good, SavedOK
  <2> QED BY <2>1, <1>2, <1>3
<1> QED BY <1>2, <1>3, <1>4, <1>5 DEF Good

LEMMA PlusOK ==
  ASSUME NEW d \in Addr, Allowed(d[1]), NEW n \in 1..BLK_CHNKS, n <= BLK_CHNKS - d[2]
  PROVE  /\ Plus(d, n) \in Addr
         /\ \/ Plus(d, n)[1] = d[1] /\ Plus(d, n)[2] = d[2] + n
            \/ Plus(d, n)[1] = d[1] + 1 /\ Plus(d, n)[2] = 0
<1>1. /\ d[1] \in Bno /\ d[2] \in Nat /\ d[2] < BLK_CHNKS
      /\ BLK_CHNKS \in Nat
  BY AddrParts, TmpAssumption DEF Chunk
<1>2. d[1] + 1 \in Bno /\ 0 \in Chunk
  BY <1>1, TmpAssumption DEF Bno, Chunk, Allowed
<1>3. CASE d[2] + n = BLK_CHNKS
  BY <1>2, <1>3 DEF Plus, NextBlock, Addr
<1>4. CASE d[2] + n # BLK_CHNKS
  <2>1. d[2] + n \in Chunk
    BY <1>1, <1>4 DEF Chunk
  <2> QED BY <2>1, <1>1, <1>4 DEF Plus, Addr
<1> QED BY <1>3, <1>4

(* A line that is in place at the end of the file is handed out.           *)
LEMMA HandOK ==
  ASSUME NEW s, NEW sv, NEW d, Good(s, sv, d), d[1] < s.next, Allowed(d[1]),
         NEW l \in Line, Fits(l, d), Holds(Image(s, d[1]), d[2], l),
         NEW tv, tv = [x \in DOMAIN sv \cup {d} |-> IF x = d THEN l ELSE sv[x]]
  PROVE  /\ Good(s, tv, Plus(d, LineLen[l]))
         /\ d \notin DOMAIN sv
         /\ InFile(s, sv) \subseteq InFile(s, tv)
<1> DEFINE e == Plus(d, LineLen[l])
<1>1. /\ d \in Addr /\ d[1] \in Nat /\ d[2] \in Nat /\ s.next \in Nat /\ s.next <= d[1] + 1
      /\ LineLen[l] \in 1..BLK_CHNKS /\ BLK_CHNKS \in Nat
      /\ LineLen[l] <= BLK_CHNKS - d[2]
  BY AddrParts, TmpAssumption DEF Good, Ends, CacheOK, CacheType, Bno, Chunk, Fits
<1>2. /\ e \in Addr
      /\ \/ e[1] = d[1] /\ e[2] = d[2] + LineLen[l]
         \/ e[1] = d[1] + 1 /\ e[2] = 0
  BY <1>1, PlusOK
<1> HIDE DEF e
<1>3. Ends(s, e)
  BY <1>1, <1>2 DEF Ends
<1>4. ASSUME NEW a \in DOMAIN sv
      PROVE  /\ a \in Addr /\ sv[a] \in Line /\ a # d
             /\ Allowed(a[1]) /\ a[1] < s.next
             /\ a[1] < e[1] \/ (a[1] = e[1] /\ a[2] + LineLen[sv[a]] <= e[2])
             /\ Holds(Image(s, a[1]), a[2], sv[a])
  <2>1. /\ a \in Addr /\ sv[a] \in Line /\ Allowed(a[1]) /\ a[1] < s.next
        /\ a[1] < d[1] \/ (a[1] = d[1] /\ a[2] + LineLen[sv[a]] <= d[2])
        /\ Holds(Image(s, a[1]), a[2], sv[a])
    BY DEF Good, SavedOK
  <2>2. a[1] \in Nat /\ a[2] \in Nat /\ LineLen[sv[a]] \in 1..BLK_CHNKS
    BY <2>1, AddrParts, TmpAssumption DEF Bno, Chunk
  <2>3. a # d
    BY <2>1, <2>2, <1>1
  <2>4. a[1] < e[1] \/ (a[1] = e[1] /\ a[2] + LineLen[sv[a]] <= e[2])
    BY <2>1, <2>2, <1>1, <1>2
  <2> QED BY <2>1, <2>3, <2>4
<1>5. d \notin DOMAIN sv
  BY <1>4
<1>6. /\ DOMAIN tv = DOMAIN sv \cup {d} /\ tv[d] = l
      /\ \A a \in DOMAIN sv : tv[a] = sv[a]
  BY <1>5
<1>7. d[1] < e[1] \/ (d[1] = e[1] /\ d[2] + LineLen[l] <= e[2])
  BY <1>1, <1>2
<1>8. SavedOK(s, tv, e)
  <2> SUFFICES ASSUME NEW a \in DOMAIN tv
               PROVE  /\ a \in Addr /\ tv[a] \in Line
                      /\ Allowed(a[1]) /\ a[1] < s.next
                      /\ a[1] < e[1] \/ (a[1] = e[1] /\ a[2] + LineLen[tv[a]] <= e[2])
                      /\ Holds(Image(s, a[1]), a[2], tv[a])
    BY DEF SavedOK
  <2>1. CASE a = d
    BY <2>1, <1>1, <1>6, <1>7
  <2>2. CASE a \in DOMAIN sv
    BY <2>2, <1>4, <1>6
  <2> QED BY <2>1, <2>2, <1>6
<1>9. InFile(s, sv) \subseteq InFile(s, tv)
  BY <1>6 DEF InFile
<1> QED BY <1>3, <1>5, <1>8, <1>9 DEF Good, e

(* Copying pieces of a line to the end of the file.                        *)
LEMMA CopyOK ==
  ASSUME NEW buf \in Buf, NEW o \in Chunk, NEW l \in Line, NEW n \in 0..LineLen[l]
  PROVE  /\ Copy(buf, o, l, n) \in Buf
         /\ \A c \in Chunk : c < o => Copy(buf, o, l, n)[c] = buf[c]
         /\ \A c \in Chunk : o <= c /\ c < o + n => Copy(buf, o, l, n)[c] = <<l, c - o>>
         /\ n = LineLen[l] /\ LineLen[l] <= BLK_CHNKS - o => Holds(Copy(buf, o, l, n), o, l)
<1> DEFINE new == Copy(buf, o, l, n)
<1>1. o \in Nat /\ n \in Nat /\ BLK_CHNKS \in Nat /\ LineLen[l] \in 1..BLK_CHNKS
  BY TmpAssumption DEF Chunk
<1>2. new = [c \in Chunk |-> IF o <= c /\ c < o + n THEN <<l, c - o>> ELSE buf[c]]
  BY DEF Copy
<1>3. ASSUME NEW c \in Chunk
      PROVE  /\ c < o => new[c] = buf[c]
             /\ o <= c /\ c < o + n => new[c] = <<l, c - o>>
             /\ new[c] \in Cell
  <2>1. c \in Nat
    BY <1>1 DEF Chunk
  <2>2. CASE o <= c /\ c < o + n
    <3>1. new[c] = <<l, c - o>>
      BY <1>2, <2>2
    <3>2. c - o \in 0..BLK_CHNKS
      BY <2>1, <2>2, <1>1
    <3>3. ~(c < o)
      BY <2>1, <2>2, <1>1
    <3> QED BY <3>1, <3>2, <3>3 DEF Cell
  <2>3. CASE ~(o <= c /\ c < o + n)
    <3>1. new[c] = buf[c]
      BY <1>2, <2>3
    <3>2. buf[c] \in Cell
      BY DEF Buf
    <3> QED BY <3>1, <3>2, <2>3
  <2> QED BY <2>2, <2>3
<1>4. new \in Buf
  <2>1. new = [c \in Chunk |-> new[c]]
    BY <1>2
  <2> HIDE DEF new
  <2> QED BY <2>1, <1>3, Zenon DEF Buf
<1>5. ASSUME n = LineLen[l], LineLen[l] <= BLK_CHNKS - o
      PROVE  Holds(new, o, l)
  <2>1. \A c \in o..(o + LineLen[l] - 1) : c \in Chunk /\ o <= c /\ c < o + n
    BY <1>1, <1>5 DEF Chunk
  <2>2. \A c \in o..(o + LineLen[l] - 1) : new[c] = <<l, c - o>>
    BY <2>1, <1>3
  <2>3. o + LineLen[l] <= BLK_CHNKS
    BY <1>1, <1>5
  <2> QED BY <2>2, <2>3, <1>4, NoBlockAssumption DEF Holds
<1> QED BY <1>3, <1>4, <1>5

(* What a put leaves: line l at a, nothing else changed.                   *)
PutDone(t, a, l) ==
  /\ Good(t, saved, a)
  /\ a[1] < t.next
  /\ Holds(Image(t, a[1]), a[2], l)
  /\ InFile(State, saved) \subseteq InFile(t, saved)

LEMMA BufOfLast ==
  ASSUME NEW s, NEW sv, NEW d, Good(s, sv, d), AtEnd(s, d)
  PROVE  s.blk[s.last].buf \in Buf /\ d[2] \in Chunk /\ d[1] \in Bno
<1>1. s.blk \in [Slot -> [bno : Bno, dirty : BOOLEAN, buf : Buf]] /\ d \in Addr
  BY DEF Good, CacheOK, CacheType, Ends
<1>2. s.blk[s.last] \in [bno : Bno, dirty : BOOLEAN, buf : Buf]
  BY <1>1 DEF AtEnd
<1> QED BY <1>1, <1>2, AddrParts

Stored(s, t, d, l, n) ==
  /\ Good(t, saved, d) /\ AtEnd(t, d) /\ t.next = s.next /\ t.last = s.last
  /\ InFile(State, saved) \subseteq InFile(t, saved)
  /\ \A c \in Chunk : d[2] <= c /\ c < d[2] + n
                       => t.blk[t.last].buf[c] = <<l, c - d[2]>>
  /\ n = LineLen[l] /\ LineLen[l] <= BLK_CHNKS - d[2] => Holds(Image(t, d[1]), d[2], l)

(* The first n pieces of a line are stored at the end of the file d.       *)
LEMMA StoreAtEnd ==
  ASSUME NEW s, InFile(State, saved) \subseteq InFile(s, saved),
         NEW l \in Line, NEW n \in 0..LineLen[l],
         NEW d, Good(s, saved, d), AtEnd(s, d),
         NEW t, t = Store(s, d[2], l, n)
  PROVE  Stored(s, t, d, l, n)
<1>1. s.blk[s.last].buf \in Buf /\ d[2] \in Chunk
  BY BufOfLast
<1>2. PICK buf : buf = Copy(s.blk[s.last].buf, d[2], l, n)
  OBVIOUS
<1>3. /\ buf \in Buf
      /\ \A c \in Chunk : c < d[2] => buf[c] = s.blk[s.last].buf[c]
      /\ \A c \in Chunk : d[2] <= c /\ c < d[2] + n => buf[c] = <<l, c - d[2]>>
      /\ n = LineLen[l] /\ LineLen[l] <= BLK_CHNKS - d[2] => Holds(buf, d[2], l)
  BY <1>1, <1>2, CopyOK
<1>4. t = Fill(s, buf)
  BY <1>2 DEF Store
<1>5. /\ Good(t, saved, d) /\ AtEnd(t, d)
      /\ t.next = s.next /\ t.last = s.last /\ t.tmp = s.tmp
      /\ t.blk[t.last].buf = buf
      /\ Image(t, d[1]) = buf
  BY <1>3, <1>4, FillAtEnd
<1>6. InFile(t, saved) = InFile(s, saved)
  BY <1>5 DEF InFile
<1> QED BY <1>3, <1>5, <1>6 DEF Stored

(* jputline or f_getputl when the line fits in the block of DFree.         *)
LEMMA PutHere ==
  ASSUME Good(State, saved, DFree), Allowed(DFree[1]), NEW l \in Line, Fits(l, DFree),
         NEW t, t = Store(getblock(State, DFree, YES), DFree[2], l, LineLen[l])
  PROVE  PutDone(t, DFree, l)
<1>1. PICK s : s = getblock(State, DFree, YES)
  OBVIOUS
<1>2. /\ Good(s, saved, DFree) /\ AtEnd(s, DFree) /\ DFree[1] < s.next
      /\ InFile(State, saved) \subseteq InFile(s, saved)
  BY <1>1, GetAtEnd
<1>3. LineLen[l] \in 0..LineLen[l] /\ LineLen[l] <= BLK_CHNKS - DFree[2]
  BY TmpAssumption DEF Fits
<1>4. Stored(s, t, DFree, l, LineLen[l])
  BY <1>1, <1>2, <1>3, StoreAtEnd
<1> QED BY <1>2, <1>3, <1>4 DEF PutDone, Stored

(* The wasted pieces of a line that does not fit.                          *)
LEMMA WastedOK ==
  ASSUME Good(State, saved, DFree), Allowed(DFree[1]), NEW l \in Line, ~Fits(l, DFree),
         NEW n, n \in {BLK_CHNKS - DFree[2], BLK_CHNKS - DFree[2] - 1},
         NEW t, t = Store(getblock(State, DFree, YES), DFree[2], l, n)
  PROVE  /\ Good(t, saved, DFree) /\ AtEnd(t, DFree)
         /\ Good(t, saved, NextBlock(DFree))
         /\ NextBlock(DFree) \in Addr
         /\ NextBlock(DFree)[1] = DFree[1] + 1 /\ NextBlock(DFree)[2] = 0
         /\ t.next <= NextBlock(DFree)[1]
         /\ InFile(State, saved) \subseteq InFile(t, saved)
         /\ n \in 0..LineLen[l]
         /\ \A c \in Chunk : DFree[2] <= c /\ c < DFree[2] + n
                              => t.blk[t.last].buf[c] = <<l, c - DFree[2]>>
<1>1. PICK s : s = getblock(State, DFree, YES)
  OBVIOUS
<1>2. /\ Good(s, saved, DFree) /\ AtEnd(s, DFree) /\ DFree[1] < s.next
      /\ InFile(State, saved) \subseteq InFile(s, saved)
  BY <1>1, GetAtEnd
<1>3. n \in 0..LineLen[l]
  <2>1. DFree[2] \in Chunk /\ BLK_CHNKS \in Nat /\ LineLen[l] \in 1..BLK_CHNKS
    BY TmpAssumption, AddrParts DEF Good, Ends
  <2> QED BY <2>1 DEF Chunk, Fits
<1>4. /\ Good(t, saved, DFree) /\ AtEnd(t, DFree) /\ t.next = s.next /\ t.last = s.last
      /\ InFile(State, saved) \subseteq InFile(t, saved)
      /\ \A c \in Chunk : DFree[2] <= c /\ c < DFree[2] + n
                           => t.blk[t.last].buf[c] = <<l, c - DFree[2]>>
  <2>1. t = Store(s, DFree[2], l, n)
    BY <1>1
  <2>2. Stored(s, t, DFree, l, n)
    BY <2>1, <1>2, <1>3, StoreAtEnd, Zenon
  <2> QED BY <2>2 DEF Stored
<1>5. Good(t, saved, DFree) /\ DFree[1] < t.next /\ Allowed(DFree[1])
  BY <1>2, <1>4
<1>6. /\ Good(t, saved, NextBlock(DFree)) /\ NextBlock(DFree) \in Addr
      /\ NextBlock(DFree)[1] = DFree[1] + 1 /\ NextBlock(DFree)[2] = 0
      /\ t.next <= NextBlock(DFree)[1]
  BY ONLY <1>5, MoveOn
<1>7. AtEnd(t, DFree) /\ InFile(State, saved) \subseteq InFile(t, saved)
  BY ONLY <1>2, <1>4
<1> QED BY ONLY <1>3, <1>4, <1>5, <1>6, <1>7

(* jputline when it does not.                                              *)
LEMMA PutNext ==
  ASSUME Good(State, saved, DFree), Allowed(DFree[1]), NEW l \in Line, ~Fits(l, DFree),
         Allowed(NextBlock(DFree)[1]),
         NEW t, t = Store(getblock(Wasted(l), NextBlock(DFree), YES), 0, l, LineLen[l])
  PROVE  PutDone(t, NextBlock(DFree), l)
<1> DEFINE e == NextBlock(DFree)
<1>1. PICK s : s = Wasted(l)
  OBVIOUS
<1>2. /\ Good(s, saved, DFree) /\ Good(s, saved, e) /\ e \in Addr
      /\ e[2] = 0
      /\ InFile(State, saved) \subseteq InFile(s, saved)
  BY <1>1, WastedOK DEF Wasted
<1>3. PICK u : u = getblock(s, e, YES)
  OBVIOUS
<1>4. /\ Good(u, saved, e) /\ AtEnd(u, e) /\ e[1] < u.next
      /\ InFile(s, saved) \subseteq InFile(u, saved)
  BY <1>2, <1>3, GetAtEnd
<1>5. LineLen[l] \in 0..LineLen[l] /\ LineLen[l] <= BLK_CHNKS - e[2]
  BY <1>2, TmpAssumption
<1>6. t = Store(u, e[2], l, LineLen[l])
  BY <1>1, <1>2, <1>3
<1>7. InFile(State, saved) \subseteq InFile(u, saved)
  BY <1>2, <1>4
<1> HIDE DEF e
<1>8. Stored(u, t, e, l, LineLen[l])
  BY <1>4, <1>5, <1>6, <1>7, StoreAtEnd
<1>9. PutDone(t, e, l)
  BY <1>4, <1>5, <1>8 DEF PutDone, Stored
<1> QED BY <1>9 DEF e

(* f_getputl when it does not: the pieces copied down are those of l, so   *)
(* with the rest the line is whole.                                        *)
LEMMA PutDown ==
  ASSUME Good(State, saved, DFree), Allowed(DFree[1]), NEW l \in Line, ~Fits(l, DFree),
         Allowed(NextBlock(DFree)[1]),
         NEW n, n = BLK_CHNKS - DFree[2] - 1,
         NEW s, s = Store(getblock(State, DFree, YES), DFree[2], l, n),
         NEW t, t = CopyDown(getblock(s, NextBlock(DFree), YES), s.last, DFree[2], n),
         NEW r, r = Rest(t, l, n)
  PROVE  PutDone(r, NextBlock(DFree), l)
<1>1. PICK e : e = NextBlock(DFree)
  OBVIOUS
<1>2. /\ Good(s, saved, DFree) /\ AtEnd(s, DFree) /\ Good(s, saved, e)
      /\ e[2] = 0 /\ s.next <= e[1]
      /\ InFile(State, saved) \subseteq InFile(s, saved)
      /\ n \in 0..LineLen[l]
      /\ \A c \in Chunk : DFree[2] <= c /\ c < DFree[2] + n
                           => s.blk[s.last].buf[c] = <<l, c - DFree[2]>>
  BY <1>1, WastedOK
<1>3. PICK u : u = getblock(s, e, YES)
  OBVIOUS
<1>4. /\ Good(u, saved, e) /\ AtEnd(u, e) /\ e[1] < u.next
      /\ InFile(s, saved) \subseteq InFile(u, saved)
      /\ \A j \in Slot : u.blk[j].buf = s.blk[j].buf
  <2>0. Good(s, saved, e)
    BY <1>2
  <2>1. /\ Good(u, saved, e) /\ AtEnd(u, e) /\ e[1] < u.next
        /\ InFile(s, saved) \subseteq InFile(u, saved)
    BY <2>0, <1>3, GetAtEnd
  <2>2. s.next <= e[1]
    BY <1>2
  <2>3. \A j \in Slot : u.blk[j].buf = s.blk[j].buf
    BY <2>0, <2>2, <1>3, SameBufs
  <2> QED BY <2>1, <2>3
<1>5. PICK b \in Slot : b = s.last
  BY <1>2 DEF AtEnd
<1>6. /\ DFree[2] \in Nat /\ DFree[2] < BLK_CHNKS /\ n \in Nat /\ BLK_CHNKS \in Nat
      /\ n < BLK_CHNKS /\ n < LineLen[l]
      /\ LineLen[l] \in 1..BLK_CHNKS
  <2>0. DFree \in Addr
    BY Zenon DEF Good, Ends
  <2>1. DFree[2] \in Chunk /\ BLK_CHNKS \in Nat /\ LineLen[l] \in 1..BLK_CHNKS
    BY <2>0, TmpAssumption, AddrParts
  <2> QED BY <2>1 DEF Chunk, Fits
<1>7. ASSUME NEW c \in Chunk, c < n
      PROVE  u.blk[b].buf[DFree[2] + c] = <<l, c>>
  <2>1. /\ DFree[2] + c \in Chunk /\ DFree[2] <= DFree[2] + c
        /\ DFree[2] + c < DFree[2] + n /\ (DFree[2] + c) - DFree[2] = c
    BY <1>6, <1>7 DEF Chunk
  <2>2. s.blk[b].buf[DFree[2] + c] = <<l, (DFree[2] + c) - DFree[2]>>
    BY <2>1, <1>2, <1>5
  <2> QED BY <2>1, <2>2, <1>4
<1>8. PICK down : down = [c \in Chunk |-> IF c < n THEN u.blk[b].buf[DFree[2] + c]
                                          ELSE u.blk[u.last].buf[c]]
  OBVIOUS
<1>9. u.blk[u.last].buf \in Buf
  BY <1>4, BufOfLast
<1>10. ASSUME NEW c \in Chunk PROVE down[c] \in Cell /\ (c < n => down[c] = <<l, c>>)
  <2>1. CASE c < n
    <3>1. down[c] = <<l, c>>
      BY <2>1, <1>7, <1>8
    <3>2. c \in 0..BLK_CHNKS
      BY <1>6 DEF Chunk
    <3> QED BY <3>1, <3>2 DEF Cell
  <2>2. CASE ~(c < n)
    <3>1. down[c] = u.blk[u.last].buf[c]
      BY <2>2, <1>8
    <3> QED BY <3>1, <2>2, <1>9 DEF Buf
  <2> QED BY <2>1, <2>2
<1>11. down \in Buf
  <2>1. down = [c \in Chunk |-> down[c]]
    BY <1>8
  <2> QED BY <2>1, <1>10, Zenon DEF Buf
<1>12. \A c \in Chunk : ~(c < e[2])
  <2>1. e[2] = 0
    BY <1>2
  <2> QED BY <2>1, <1>6 DEF Chunk
<1>13. t = Fill(u, down)
  BY <1>1, <1>3, <1>5, <1>8 DEF CopyDown
<1>14. /\ Good(t, saved, e) /\ AtEnd(t, e) /\ t.next = u.next /\ t.tmp = u.tmp
       /\ t.blk[t.last].buf = down
  <2>1. /\ Good(u, saved, e) /\ AtEnd(u, e) /\ down \in Buf
        /\ \A c \in Chunk : c < e[2] => down[c] = u.blk[u.last].buf[c]
    BY <1>4, <1>11, <1>12
  <2> QED BY ONLY <2>1, <1>13, FillAtEnd
<1>15. PICK whole : whole = [c \in Chunk |-> IF n <= c /\ c < LineLen[l] THEN <<l, c>>
                                             ELSE down[c]]
  OBVIOUS
<1>16. ASSUME NEW c \in Chunk
       PROVE  whole[c] \in Cell /\ (c < LineLen[l] => whole[c] = <<l, c>>)
  <2>1. c \in 0..BLK_CHNKS
    BY <1>6 DEF Chunk
  <2>2. CASE n <= c /\ c < LineLen[l]
    <3>1. whole[c] = <<l, c>>
      BY <2>2, <1>15
    <3> QED BY <2>1, <3>1 DEF Cell
  <2>3. CASE ~(n <= c /\ c < LineLen[l])
    <3>1. whole[c] = down[c]
      BY <2>3, <1>15
    <3>2. c < LineLen[l] => c < n
      BY <2>1, <2>3, <1>6
    <3> QED BY <3>1, <3>2, <1>10
  <2> QED BY <2>2, <2>3
<1>17. whole \in Buf
  <2>1. whole = [c \in Chunk |-> whole[c]]
    BY <1>15
  <2> QED BY <2>1, <1>16, Zenon DEF Buf
<1>18. r = Fill(t, whole)
  BY <1>14, <1>15 DEF Rest
<1>19. /\ Good(r, saved, e) /\ AtEnd(r, e) /\ r.next = t.next /\ r.tmp = t.tmp
       /\ Image(r, e[1]) = whole
  <2>1. /\ Good(t, saved, e) /\ AtEnd(t, e) /\ whole \in Buf
        /\ \A c \in Chunk : c < e[2] => whole[c] = t.blk[t.last].buf[c]
    BY <1>12, <1>14, <1>17
  <2> QED BY ONLY <2>1, <1>18, FillAtEnd
<1>20. Holds(whole, e[2], l)
  <2>1. \A c \in 0..(0 + LineLen[l] - 1) : c \in Chunk /\ c < LineLen[l] /\ c - 0 = c
    BY <1>6 DEF Chunk
  <2>2. \A c \in 0..(0 + LineLen[l] - 1) : whole[c] = <<l, c - 0>>
    BY <2>1, <1>16
  <2>3. whole # NoBlock /\ 0 + LineLen[l] <= BLK_CHNKS
    BY <1>6, <1>17, NoBlockAssumption
  <2> QED BY <2>2, <2>3, <1>2 DEF Holds
<1>21. InFile(State, saved) \subseteq InFile(r, saved)
  <2>1. InFile(r, saved) = InFile(u, saved)
    BY <1>14, <1>19 DEF InFile
  <2> QED BY <2>1, <1>2, <1>4
<1>22. PutDone(r, e, l)
  BY <1>4, <1>14, <1>19, <1>20, <1>21 DEF PutDone
<1> QED BY <1>1, <1>22

-----------------------------------------------------------------------------
(* Failed writes.                                                          *)

LEMMA PartSyncOK ==
  ASSUME NEW s, NEW sv, NEW d, Good(s, sv, d), NEW k \in 1..NBUF, FailsAt(s, k), NEW n \in Chunk,
         NEW t, t = PartSync(s, k, n)
  PROVE  Good(t, sv, d) /\ InFile(s, sv) \subseteq InFile(t, sv)
<1>1. PICK i \in Slot : i = s.lru[k]
  BY DEF Good, CacheOK, CacheType
<1>2. PICK b : b = s.blk[i].bno
  OBVIOUS
<1>3. PICK W : W = {j \in Dirty(s) : \E m \in 1..(k - 1) : s.lru[m] = j}
  OBVIOUS
<1>4. PICK u : u = Written(s, W)
  OBVIOUS
<1>5. /\ W \in SUBSET Dirty(s) /\ i \notin W /\ s.blk[i].dirty
  <2>1. s.blk[i].dirty
    BY <1>1 DEF FailsAt
  <2>2. ASSUME NEW m \in 1..(k - 1) PROVE s.lru[m] # i
    <3>1. m \in 1..NBUF /\ m # k
      BY TmpAssumption
    <3> QED BY <3>1, <1>1 DEF Good, CacheOK, Once
  <2> QED BY <2>1, <2>2, <1>3
<1>6. /\ CacheOK(u) /\ SameImages(s, u) /\ TmpGrows(s, u)
      /\ u.last = s.last /\ u.next = s.next /\ u.lru = s.lru
      /\ \A j \in Slot : /\ u.blk[j].bno = s.blk[j].bno
                         /\ u.blk[j].buf = s.blk[j].buf
                         /\ u.blk[j].dirty = (s.blk[j].dirty /\ j \notin W)
  BY <1>4, <1>5, WrittenOK DEF Good
<1>7. PICK torn : torn = [c \in Chunk |-> IF c < n THEN s.blk[i].buf[c]
                               ELSE IF s.tmp[b] = NoBlock THEN <<>> ELSE s.tmp[b][c]]
  OBVIOUS
<1>8. t = [u EXCEPT !.tmp[b] = IF n = 0 THEN @ ELSE torn]
  BY <1>1, <1>2, <1>3, <1>4, <1>7 DEF PartSync
<1>9. /\ s \in CacheType /\ u \in CacheType
      /\ u.tmp \in [Bno -> Buf \cup {NoBlock}] /\ s.tmp \in [Bno -> Buf \cup {NoBlock}]
      /\ u.blk \in [Slot -> [bno : Bno, dirty : BOOLEAN, buf : Buf]]
      /\ b \in Bno /\ s.blk[i].buf \in Buf
  <2>1. s \in CacheType /\ u \in CacheType
    BY <1>6 DEF Good, CacheOK
  <2>2. s.blk \in [Slot -> [bno : Bno, dirty : BOOLEAN, buf : Buf]]
    BY <2>1 DEF CacheType
  <2>3. s.blk[i] \in [bno : Bno, dirty : BOOLEAN, buf : Buf]
    BY <2>2
  <2> QED BY <2>1, <2>3, <1>2 DEF CacheType
<1>10. torn \in Buf
  <2>1. ASSUME NEW c \in Chunk PROVE torn[c] \in Cell
    <3>1. s.blk[i].buf[c] \in Cell
      BY <1>9 DEF Buf
    <3>2. <<>> \in Cell
      BY DEF Cell
    <3>3. s.tmp[b] # NoBlock => s.tmp[b][c] \in Cell
      BY <1>9 DEF Buf
    <3> QED BY <3>1, <3>2, <3>3, <1>7
  <2>2. torn = [c \in Chunk |-> torn[c]]
    BY <1>7
  <2> QED BY <2>1, <2>2, Zenon DEF Buf
<1>11. PICK image : image = IF n = 0 THEN u.tmp[b] ELSE torn
  OBVIOUS
<1>12. image \in Buf \cup {NoBlock} /\ (u.tmp[b] # NoBlock => image # NoBlock)
  BY <1>9, <1>10, <1>11, NoBlockAssumption
<1>13. /\ t.last = u.last /\ t.next = u.next /\ t.lru = u.lru /\ t.blk = u.blk
       /\ t.tmp = [u.tmp EXCEPT ![b] = image]
       /\ t = [blk |-> t.blk, lru |-> t.lru, tmp |-> t.tmp, next |-> t.next, last |-> t.last]
  BY <1>8, <1>9, <1>11 DEF CacheType
<1>14. \A c \in Bno : t.tmp[c] = IF c = b THEN image ELSE u.tmp[c]
  BY <1>9, <1>13
<1>15. t \in CacheType
  <2>1. t.tmp \in [Bno -> Buf \cup {NoBlock}]
    BY <1>9, <1>12, <1>13
  <2>2. /\ t.blk \in [Slot -> [bno : Bno, dirty : BOOLEAN, buf : Buf]]
        /\ t.lru \in [1..NBUF -> Slot] /\ t.next \in 0..MAX_BLOCKS
        /\ t.last \in Slot \cup {NoBlock}
    BY <1>9, <1>13 DEF CacheType
  <2> QED BY <2>1, <2>2, <1>13, Zenon DEF CacheType
<1>16. u.blk[i].bno = b /\ u.blk[i].dirty
  BY <1>2, <1>5, <1>6
<1>17. CacheOK(t)
  <2>1. OneEntry(t) /\ Once(t.lru)
    BY <1>6, <1>13 DEF CacheOK, OneEntry
  <2>2. UsedDirty(t) /\ LastUsed(t)
    BY <1>6, <1>13 DEF CacheOK, UsedDirty, LastUsed
  <2>3. CleanSame(t)
    <3> SUFFICES ASSUME NEW j \in Slot, t.blk[j].bno < t.next, ~t.blk[j].dirty
                 PROVE  t.tmp[t.blk[j].bno] = t.blk[j].buf
      BY DEF CleanSame
    <3>1. u.blk[j].bno < u.next /\ ~u.blk[j].dirty /\ t.blk[j] = u.blk[j]
      BY <1>13
    <3>2. u.blk[j].bno # b
      BY <3>1, <1>6, <1>16 DEF CacheOK, OneEntry
    <3>3. u.blk[j].bno \in Bno
      BY <1>9
    <3>4. u.tmp[u.blk[j].bno] = u.blk[j].buf
      BY <3>1, <1>6 DEF CacheOK, CleanSame
    <3> QED BY <3>1, <3>2, <3>3, <3>4, <1>14
  <2>4. NoneLost(t)
    <3> SUFFICES ASSUME NEW c \in Bno, c < t.next PROVE Resident(t, c) \/ t.tmp[c] # NoBlock
      BY DEF NoneLost
    <3>1. Resident(u, c) \/ u.tmp[c] # NoBlock
      BY <1>6, <1>13 DEF CacheOK, NoneLost
    <3>2. Resident(u, c) => Resident(t, c)
      BY <1>13 DEF Resident
    <3> QED BY <3>1, <3>2, <1>12, <1>14
  <2> QED BY <2>1, <2>2, <2>3, <2>4, <1>15 DEF CacheOK
<1>18. Resident(u, b) /\ Resident(s, b)
  BY <1>2, <1>16 DEF Resident
<1>19. ASSUME NEW c \in Bno PROVE Image(t, c) = Image(u, c)
  <2>1. \A j \in Slot : t.blk[j].bno = u.blk[j].bno /\ t.blk[j].buf = u.blk[j].buf
    BY <1>13
  <2>2. Resident(u, c) \/ t.tmp[c] = u.tmp[c]
    BY <1>14, <1>18
  <2> QED BY <2>1, <2>2, <1>6, SameBlocks DEF CacheOK
<1>20. SameImages(s, t)
  BY <1>6, <1>13, <1>19 DEF SameImages
<1>21. Good(t, sv, d)
  <2>1. t.next <= d[1] + 1
    BY <1>6, <1>13 DEF Good, Ends
  <2> QED BY <2>1, <1>17, <1>20, SameImagesGood
<1>22. ASSUME NEW a \in DOMAIN sv, Holds(s.tmp[a[1]], a[2], sv[a])
       PROVE  Holds(t.tmp[a[1]], a[2], sv[a])
  <2>1. a[1] \in Bno /\ a[2] \in Chunk /\ sv[a] \in Line /\ Holds(Image(s, a[1]), a[2], sv[a])
    BY AddrParts DEF Good, SavedOK
  <2>2. Holds(u.tmp[a[1]], a[2], sv[a])
    BY <2>1, <1>6, <1>22 DEF TmpGrows
  <2>3. CASE a[1] # b \/ n = 0
    <3>1. t.tmp[a[1]] = u.tmp[a[1]]
      BY <2>1, <2>3, <1>11, <1>14
    <3> QED BY <3>1, <2>2
  <2>4. CASE a[1] = b /\ n # 0
    <3>1. t.tmp[b] = torn
      BY <2>4, <1>9, <1>11, <1>14
    <3>2. Image(s, b) = s.blk[i].buf
      BY <1>1, <1>2, LookupUnique, <1>18 DEF Good, CacheOK, Image
    <3>3. s.tmp[b] # NoBlock
      BY <2>4, <1>22 DEF Holds
    <3>4. a[2] + LineLen[sv[a]] <= BLK_CHNKS /\ a[2] \in Nat /\ BLK_CHNKS \in Nat
          /\ LineLen[sv[a]] \in 1..BLK_CHNKS
      BY <2>1, TmpAssumption DEF Holds, Chunk
    <3>5. ASSUME NEW c \in a[2]..(a[2] + LineLen[sv[a]] - 1)
          PROVE  torn[c] = <<sv[a], c - a[2]>>
      <4>1. c \in Chunk
        BY <3>4 DEF Chunk
      <4>2. s.blk[i].buf[c] = <<sv[a], c - a[2]>>
        BY <2>1, <2>4, <3>2 DEF Holds
      <4>3. s.tmp[b][c] = <<sv[a], c - a[2]>>
        BY <2>4, <1>22 DEF Holds
      <4> QED BY <4>1, <4>2, <4>3, <3>3, <1>7
    <3>6. torn # NoBlock
      BY <1>10, NoBlockAssumption
    <3> QED BY <2>4, <3>1, <3>4, <3>5, <3>6 DEF Holds
  <2> QED BY <2>3, <2>4
<1> QED BY <1>21, <1>22 DEF InFile

-----------------------------------------------------------------------------
(* The inductive invariant.  After a failed read nothing but the types is  *)
(* claimed, and nothing but a stutter follows.                             *)

IInv == TypeOK /\ (~danger => Good(State, saved, DFree))

LEMMA StateType ==
  ASSUME NEW t, t \in CacheType, Becomes(t)
  PROVE  State' = t
<1>1. t = [blk |-> t.blk, lru |-> t.lru, tmp |-> t.tmp, next |-> t.next, last |-> t.last]
  BY DEF CacheType
<1> QED BY <1>1, Zenon DEF State, Becomes

LEMMA GoodType == Good(State, saved, DFree) /\ danger \in BOOLEAN => TypeOK
<1> SUFFICES ASSUME Good(State, saved, DFree), danger \in BOOLEAN PROVE TypeOK
  OBVIOUS
<1>1. /\ State \in CacheType /\ DFree \in Addr
      /\ \A a \in DOMAIN saved : a \in Addr /\ saved[a] \in Line
  BY DEF Good, CacheOK, Ends, SavedOK
<1>2. /\ State.blk = blk /\ State.lru = lru /\ State.tmp = tmp
      /\ State.next = next_bno /\ State.last = lastb
  BY DEF State
<1>3. /\ blk \in [Slot -> [bno : Bno, dirty : BOOLEAN, buf : Buf]]
      /\ lru \in [1..NBUF -> Slot]
      /\ tmp \in [Bno -> Buf \cup {NoBlock}]
      /\ next_bno \in 0..MAX_BLOCKS
      /\ lastb \in Slot \cup {NoBlock}
  BY <1>1, <1>2 DEF CacheType
<1> QED BY <1>1, <1>3 DEF TypeOK

(* A step to the cache t that leaves lines and end of file good.           *)
Moves(t) ==
  /\ Becomes(t)
  /\ Good(t, saved', DFree')
  /\ InFile(State, saved) \subseteq InFile(t, saved')

LEMMA MovesOK ==
  ASSUME NEW t, Moves(t), IInv, ~danger, UNCHANGED danger
  PROVE  IInv' /\ Durable \subseteq Durable'
<1>1. State' = t
  BY StateType DEF Moves, Good, CacheOK
<1>2. Good(State, saved, DFree)'
  <2>1. Good(State', saved', DFree')
    BY <1>1 DEF Moves
  <2> QED BY <2>1 DEF Good, CacheOK, CacheType, OneEntry, Once, CleanSame, NoneLost,
                      UsedDirty, LastUsed, Ends, SavedOK, Resident, Image, lookup_block,
                      Holds, Allowed
<1>3. (danger \in BOOLEAN)'
  BY DEF IInv, TypeOK
<1>4. TypeOK'
  BY <1>2, <1>3, GoodType, PTL
<1>5. Durable = InFile(State, saved) /\ Durable' = InFile(State', saved')
  BY DEF Durable, InFile, State, Holds
<1> QED BY <1>1, <1>2, <1>4, <1>5 DEF IInv, Moves

(* The step puts l at a.                                                   *)
Puts(a, l) ==
  /\ a \in Addr /\ a \notin DOMAIN saved /\ l \in Line
  /\ saved' = [x \in DOMAIN saved \cup {a} |-> IF x = a THEN l ELSE saved[x]]

LEMMA PutMoves ==
  ASSUME IInv, ~danger, UNCHANGED danger, NEW l \in Line, NEW a, Fits(l, a), Allowed(a[1]),
         NEW t, Becomes(t), PutDone(t, a, l), Hand(a, l)
  PROVE  IInv' /\ Durable \subseteq Durable' /\ Puts(a, l)
<1>1. /\ Good(t, saved, a) /\ a[1] < t.next /\ Holds(Image(t, a[1]), a[2], l)
      /\ InFile(State, saved) \subseteq InFile(t, saved)
  BY DEF PutDone
<1>2. /\ saved' = [x \in DOMAIN saved \cup {a} |-> IF x = a THEN l ELSE saved[x]]
      /\ DFree' = Plus(a, LineLen[l])
  BY DEF Hand
<1>3. /\ Good(t, saved', DFree') /\ a \notin DOMAIN saved
      /\ InFile(t, saved) \subseteq InFile(t, saved')
  BY <1>1, <1>2, HandOK
<1>4. Moves(t)
  BY <1>1, <1>3 DEF Moves
<1>5. a \in Addr
  BY <1>1 DEF Good, Ends
<1> QED BY <1>2, <1>3, <1>4, <1>5, MovesOK DEF Puts

(* While the end of the file is in range its block number is its own.      *)
LEMMA BnoOfDFree ==
  ASSUME IInv
  PROVE  da_to_bno(DFree) = DFree[1] /\ DFree \in Addr
<1>1. DFree \in Addr
  BY DEF IInv, TypeOK
<1> QED BY <1>1, AddrParts, TmpAssumption DEF Bno, da_to_bno

LEMMA BnoOfNext ==
  ASSUME IInv, Allowed(DFree[1])
  PROVE  /\ da_to_bno(NextBlock(DFree)) = NextBlock(DFree)[1]
         /\ NextBlock(DFree)[1] = DFree[1] + 1 /\ NextBlock(DFree)[2] = 0
<1>1. DFree[1] \in Bno
  BY BnoOfDFree, AddrParts
<1> QED BY <1>1, TmpAssumption DEF Bno, Allowed, NextBlock, da_to_bno

LEMMA FitsNext ==
  ASSUME NEW l \in Line, NEW a, a[2] = 0
  PROVE  Fits(l, a)
BY TmpAssumption DEF Fits

LEMMA JputlineStep ==
  ASSUME IInv, NEW l \in Line, jputline(l)
  PROVE  IInv' /\ Durable \subseteq Durable' /\ \E a \in Addr : Puts(a, l)
<1>1. ~danger /\ UNCHANGED danger /\ Allowed(DFree[1]) /\ Good(State, saved, DFree)
  BY BnoOfDFree DEF jputline, IInv
<1>2. CASE Fits(l, DFree)
  <2>1. PICK t : t = Store(getblock(State, DFree, YES), DFree[2], l, LineLen[l])
    OBVIOUS
  <2>2. Becomes(t) /\ Hand(DFree, l)
    BY <1>2, <2>1 DEF jputline
  <2>3. PutDone(t, DFree, l)
    BY <1>1, <1>2, <2>1, PutHere
  <2> QED BY <1>1, <1>2, <2>2, <2>3, PutMoves DEF Puts
<1>3. CASE ~Fits(l, DFree)
  <2>1. PICK t : t = Store(getblock(Wasted(l), NextBlock(DFree), YES), 0, l, LineLen[l])
    OBVIOUS
  <2>2. Becomes(t) /\ Hand(NextBlock(DFree), l) /\ Allowed(NextBlock(DFree)[1])
    BY <1>1, <1>3, <2>1, BnoOfNext DEF jputline
  <2>3. PutDone(t, NextBlock(DFree), l)
    BY <1>1, <1>3, <2>1, <2>2, PutNext
  <2>4. Fits(l, NextBlock(DFree))
    BY <1>1, BnoOfNext, FitsNext
  <2> QED BY <1>1, <2>2, <2>3, <2>4, PutMoves DEF Puts
<1> QED BY <1>2, <1>3

LEMMA FGetputlStep ==
  ASSUME IInv, NEW l \in Line, f_getputl(l)
  PROVE  IInv' /\ Durable \subseteq Durable' /\ \E a \in Addr : Puts(a, l)
<1>1. ~danger /\ UNCHANGED danger /\ Allowed(DFree[1]) /\ Good(State, saved, DFree)
  BY BnoOfDFree DEF f_getputl, IInv
<1>2. CASE Fits(l, DFree)
  <2>1. PICK t : t = Store(getblock(State, DFree, YES), DFree[2], l, LineLen[l])
    OBVIOUS
  <2>2. Becomes(t) /\ Hand(DFree, l)
    BY <1>2, <2>1 DEF f_getputl
  <2>3. PutDone(t, DFree, l)
    BY <1>1, <1>2, <2>1, PutHere
  <2> QED BY <1>1, <1>2, <2>2, <2>3, PutMoves DEF Puts
<1>3. CASE ~Fits(l, DFree)
  <2>1. PICK n : n = BLK_CHNKS - DFree[2] - 1
    OBVIOUS
  <2>2. PICK s : s = Store(getblock(State, DFree, YES), DFree[2], l, n)
    OBVIOUS
  <2>3. PICK t : t = CopyDown(getblock(s, NextBlock(DFree), YES), s.last, DFree[2], n)
    OBVIOUS
  <2>4. PICK r : r = Rest(t, l, n)
    OBVIOUS
  <2>5. Becomes(r) /\ Hand(NextBlock(DFree), l) /\ Allowed(NextBlock(DFree)[1])
    BY <1>1, <1>3, <2>1, <2>2, <2>3, <2>4, BnoOfNext DEF f_getputl
  <2>6. PutDone(r, NextBlock(DFree), l)
    BY <1>1, <1>3, <2>1, <2>2, <2>3, <2>4, <2>5, PutDown
  <2>7. Fits(l, NextBlock(DFree))
    BY <1>1, BnoOfNext, FitsNext
  <2> QED BY <1>1, <2>5, <2>6, <2>7, PutMoves DEF Puts
<1> QED BY <1>2, <1>3

(* The other steps hand out nothing.                                       *)
Kept == IInv' /\ Durable \subseteq Durable' /\ UNCHANGED saved

LEMMA TooLargeStep ==
  ASSUME IInv, NEW l \in Line, TooLarge(l)
  PROVE  Kept
<1>1. ~danger /\ UNCHANGED danger /\ UNCHANGED saved /\ Good(State, saved, DFree)
  BY DEF TooLarge, IInv
<1>2. CASE UNCHANGED <<cvars, DFree>>
  <2>1. Becomes(State)
    BY <1>2 DEF Becomes, State, cvars
  <2>2. Moves(State)
    BY <1>1, <1>2, <2>1 DEF Moves
  <2> QED BY <1>1, <2>2, MovesOK DEF Kept
<1>3. CASE /\ Allowed(da_to_bno(DFree)) /\ ~Fits(l, DFree)
           /\ Becomes(Wasted(l)) /\ DFree' = NextBlock(DFree)
  <2>1. PICK n : n = BLK_CHNKS - DFree[2]
    OBVIOUS
  <2>2. PICK t : t = Store(getblock(State, DFree, YES), DFree[2], l, n)
    OBVIOUS
  <2>3. Allowed(DFree[1]) /\ t = Wasted(l)
    BY <1>3, <2>1, <2>2, BnoOfDFree DEF Wasted
  <2>4. Good(t, saved, NextBlock(DFree)) /\ InFile(State, saved) \subseteq InFile(t, saved)
    BY <1>1, <1>3, <2>1, <2>2, <2>3, WastedOK
  <2>5. Moves(t)
    BY <1>1, <1>3, <2>3, <2>4 DEF Moves
  <2> QED BY <1>1, <2>5, MovesOK DEF Kept
<1> QED BY <1>2, <1>3 DEF TooLarge

LEMMA PutErrorStep ==
  ASSUME IInv, NEW l \in Line, PutError(l)
  PROVE  Kept
<1>1. /\ ~danger /\ UNCHANGED danger /\ UNCHANGED saved /\ Good(State, saved, DFree)
      /\ Allowed(DFree[1]) /\ ~Fits(l, DFree) /\ DFree' = NextBlock(DFree)
  BY BnoOfDFree DEF PutError, IInv
<1>2. PICK m : m = BLK_CHNKS - DFree[2]
  OBVIOUS
<1>3. PICK s : s = Store(getblock(State, DFree, YES), DFree[2], l, m)
  OBVIOUS
<1>4. s = Wasted(l)
  BY <1>2, <1>3 DEF Wasted
<1>5. Good(s, saved, NextBlock(DFree)) /\ InFile(State, saved) \subseteq InFile(s, saved)
  BY <1>1, <1>2, <1>3, WastedOK
<1>6. PICK k \in 1..NBUF, n \in Chunk : FailsAt(s, k) /\ Becomes(PartSync(s, k, n))
  BY <1>4 DEF PutError
<1>7. PICK t : t = PartSync(s, k, n)
  OBVIOUS
<1>8. Good(t, saved, NextBlock(DFree)) /\ InFile(s, saved) \subseteq InFile(t, saved)
  BY <1>5, <1>6, <1>7, PartSyncOK
<1>9. Moves(t)
  BY <1>1, <1>5, <1>6, <1>7, <1>8 DEF Moves
<1> QED BY <1>1, <1>9, MovesOK DEF Kept

LEMMA SyncErrorStep ==
  ASSUME IInv, SyncError
  PROVE  Kept
<1>1. /\ ~danger /\ UNCHANGED danger /\ UNCHANGED saved /\ Good(State, saved, DFree)
      /\ UNCHANGED DFree
  BY DEF SyncError, IInv
<1>2. PICK k \in 1..NBUF, n \in Chunk : FailsAt(State, k) /\ Becomes(PartSync(State, k, n))
  BY DEF SyncError
<1>3. PICK t : t = PartSync(State, k, n)
  OBVIOUS
<1>4. Good(t, saved, DFree) /\ InFile(State, saved) \subseteq InFile(t, saved)
  BY <1>1, <1>2, <1>3, PartSyncOK
<1>5. Moves(t)
  BY <1>1, <1>2, <1>3, <1>4 DEF Moves
<1> QED BY <1>1, <1>5, MovesOK DEF Kept

LEMMA JgetlineStep ==
  ASSUME IInv, NEW a \in DOMAIN saved, jgetline(a)
  PROVE  Kept
<1>1. /\ ~danger /\ UNCHANGED danger /\ UNCHANGED saved /\ Good(State, saved, DFree)
      /\ UNCHANGED DFree
  BY DEF jgetline, IInv
<1>2. /\ a \in Addr /\ a[1] < next_bno /\ CacheOK(State) /\ State.next = next_bno
      /\ State.next <= DFree[1] + 1
  BY <1>1 DEF Good, SavedOK, State, Ends
<1>3. PICK t : t = getblock(State, a, NO)
  OBVIOUS
<1>4. PICK i \in Slot : Got(State, t, i, a[1], NO)
  BY <1>2, <1>3, GetblockOK DEF MayGet, NO
<1>5. t.next <= DFree[1] + 1
  <2>1. t.next = State.next \/ t.next = a[1] + 1
    BY <1>4 DEF Got
  <2>2. a[1] \in Nat /\ State.next \in Nat /\ DFree[1] \in Nat
    BY <1>1, <1>2, AddrParts DEF Bno, CacheOK, CacheType, Good, Ends
  <2> QED BY <2>1, <2>2, <1>2
<1>6. Good(t, saved, DFree)
  BY <1>1, <1>4, <1>5, SameImagesGood DEF Got
<1>7. InFile(State, saved) \subseteq InFile(t, saved)
  BY <1>1, <1>4, GrowsKeeps DEF Got
<1>8. Moves(t)
  BY <1>1, <1>3, <1>6, <1>7 DEF Moves, jgetline
<1> QED BY <1>1, <1>8, MovesOK DEF Kept

(* What SyncTmp leaves is all in the file.                                 *)
LEMMA SyncStep ==
  ASSUME IInv, Sync
  PROVE  Kept /\ Durable' = DOMAIN saved'
<1>1. /\ ~danger /\ UNCHANGED danger /\ UNCHANGED saved /\ Good(State, saved, DFree)
      /\ UNCHANGED DFree
  BY DEF Sync, IInv
<1>2. PICK t : t = SyncTmp(State)
  OBVIOUS
<1>3. /\ CacheOK(t) /\ SameImages(State, t) /\ TmpGrows(State, t) /\ t.next = State.next
      /\ \A i \in Slot : ~t.blk[i].dirty
  BY <1>1, <1>2, SyncTmpOK DEF Good
<1>4. t.next <= DFree[1] + 1
  BY <1>1, <1>3 DEF Good, Ends
<1>5. Good(t, saved, DFree)
  BY <1>1, <1>3, <1>4, SameImagesGood
<1>6. InFile(State, saved) \subseteq InFile(t, saved)
  BY <1>1, <1>3, GrowsKeeps
<1>7. Becomes(t)
  BY <1>2 DEF Sync
<1>8. Moves(t)
  BY <1>1, <1>5, <1>6, <1>7 DEF Moves
<1>9. InFile(t, saved) = DOMAIN saved
  <2>1. ASSUME NEW a \in DOMAIN saved PROVE Holds(t.tmp[a[1]], a[2], saved[a])
    <3>1. a[1] < t.next /\ Holds(Image(t, a[1]), a[2], saved[a])
      BY <1>5 DEF Good, SavedOK
    <3>2. Image(t, a[1]) = t.tmp[a[1]]
      <4>1. CASE Resident(t, a[1])
        <5>1. PICK i \in Slot : i = lookup_block(t, a[1]) /\ t.blk[i].bno = a[1]
          BY <4>1, LookupResident
        <5>2. t.tmp[a[1]] = t.blk[i].buf
          BY <5>1, <3>1, <1>3 DEF CacheOK, CleanSame
        <5> QED BY <4>1, <5>1, <5>2 DEF Image
      <4>2. CASE ~Resident(t, a[1])
        BY <4>2 DEF Image
      <4> QED BY <4>1, <4>2
    <3> QED BY <3>1, <3>2
  <2> QED BY <2>1 DEF InFile
<1>10. State' = t
  BY <1>5, <1>7, StateType DEF Good, CacheOK
<1>11. Durable' = InFile(t, saved)
  <2>1. Durable' = InFile(State', saved')
    BY DEF Durable, InFile, State, Holds
  <2> QED BY <1>1, <1>10, <2>1
<1> QED BY <1>1, <1>8, <1>9, <1>11, MovesOK DEF Kept

LEMMA ReadErrorStep ==
  ASSUME IInv, NEW a \in Addr, ReadError(a)
  PROVE  Kept
<1>1. /\ ~danger /\ danger' = TRUE /\ UNCHANGED saved /\ Good(State, saved, DFree)
      /\ UNCHANGED DFree
  BY DEF ReadError, IInv
<1>2. a[1] \in Bno /\ da_to_bno(a) = a[1]
  BY AddrParts, TmpAssumption DEF da_to_bno, Bno
<1>3. PICK t : t = Reassign(State, a[1])
  OBVIOUS
<1>4. PICK i : i = State.lru[1]
  OBVIOUS
<1>5. Becomes(t) /\ ~Resident(State, a[1])
  BY <1>2, <1>3 DEF ReadError
<1>6. t \in CacheType /\ TmpGrows(State, t)
  BY <1>1, <1>2, <1>3, <1>4, <1>5, ReassignOK DEF Good
<1>7. State' = t
  BY <1>5, <1>6, StateType
<1>8. /\ blk' = t.blk /\ lru' = t.lru /\ tmp' = t.tmp /\ next_bno' = t.next /\ lastb' = t.last
  BY <1>5 DEF Becomes
<1>9. TypeOK'
  <2>1. /\ t.blk \in [Slot -> [bno : Bno, dirty : BOOLEAN, buf : Buf]]
        /\ t.lru \in [1..NBUF -> Slot]
        /\ t.tmp \in [Bno -> Buf \cup {NoBlock}]
        /\ t.next \in 0..MAX_BLOCKS
        /\ t.last \in Slot \cup {NoBlock}
    BY <1>6 DEF CacheType
  <2> QED BY <1>1, <1>8, <2>1 DEF IInv, TypeOK
<1>10. InFile(State, saved) \subseteq InFile(t, saved)
  BY <1>1, <1>6, GrowsKeeps
<1>11. Durable = InFile(State, saved) /\ Durable' = InFile(t, saved)
  <2>1. Durable = InFile(State, saved) /\ Durable' = InFile(State', saved')
    BY DEF Durable, InFile, State, Holds
  <2> QED BY <2>1, <1>1, <1>7
<1> QED BY <1>1, <1>9, <1>10, <1>11 DEF Kept, IInv

LEMMA InitOK == Init => IInv
<1> SUFFICES ASSUME Init PROVE IInv
  OBVIOUS
<1> USE DEF Init
<1>1. /\ NBUF \in Nat \ {0} /\ MAX_BLOCKS \in Nat /\ MAX_BLOCKS > NBUF
      /\ BLK_CHNKS \in Nat /\ BLK_CHNKS > 1
  BY TmpAssumption
<1>2. PICK empty : empty = [c \in Chunk |-> <<>>]
  OBVIOUS
<1>3. empty \in Buf
  BY <1>2 DEF Buf, Cell
<1>4. /\ blk \in [Slot -> [bno : Bno, dirty : BOOLEAN, buf : Buf]]
      /\ \A i \in Slot : blk[i].bno = i - 1 /\ ~blk[i].dirty
  <2>1. ASSUME NEW i \in Slot PROVE i - 1 \in Bno
    BY <1>1 DEF Bno
  <2> QED BY <2>1, <1>2, <1>3
<1>5. lru \in [1..NBUF -> Slot] /\ Once(lru)
  BY DEF Once
<1>6. tmp \in [Bno -> Buf \cup {NoBlock}] /\ next_bno = 0 /\ 0 \in 0..MAX_BLOCKS
  BY <1>1
<1>7. DFree \in Addr /\ DFree[1] = 0
  BY <1>1 DEF Addr, Bno, Chunk
<1>8. State \in CacheType
  BY <1>4, <1>5, <1>6 DEF State, CacheType
<1>9. /\ State.blk = blk /\ State.lru = lru /\ State.tmp = tmp
      /\ State.next = 0 /\ State.last = NoBlock
  BY DEF State
<1>10. OneEntry(State)
  BY <1>4, <1>9 DEF OneEntry
<1>11. /\ CleanSame(State) /\ UsedDirty(State) /\ NoneLost(State) /\ LastUsed(State)
  <2>1. \A i \in Slot : ~(blk[i].bno < 0)
    BY <1>4
  <2>2. \A b \in Bno : ~(b < 0)
    BY DEF Bno
  <2> QED BY <2>1, <2>2, <1>4, <1>9 DEF CleanSame, UsedDirty, NoneLost, LastUsed
<1>12. CacheOK(State)
  BY <1>5, <1>8, <1>9, <1>10, <1>11 DEF CacheOK
<1>13. Ends(State, DFree)
  BY <1>7, <1>9 DEF Ends
<1>14. DOMAIN saved = {}
  OBVIOUS
<1>15. Good(State, saved, DFree)
  BY <1>12, <1>13, <1>14 DEF Good, SavedOK
<1> QED BY <1>15, GoodType DEF IInv

(* Every step keeps the invariant and every durable line durable, and is a *)
(* step of the abstract store.                                             *)
LEMMA NextOK ==
  ASSUME IInv, Next
  PROVE  \/ Kept
         \/ IInv' /\ Durable \subseteq Durable' /\ \E a \in Addr, l \in Line : Puts(a, l)
<1>1. ASSUME NEW l \in Line, jputline(l)
      PROVE  IInv' /\ Durable \subseteq Durable' /\ \E a \in Addr : Puts(a, l)
  BY <1>1, JputlineStep
<1>2. ASSUME NEW l \in Line, f_getputl(l)
      PROVE  IInv' /\ Durable \subseteq Durable' /\ \E a \in Addr : Puts(a, l)
  BY <1>2, FGetputlStep
<1>3. ASSUME NEW l \in Line, TooLarge(l) PROVE Kept
  BY <1>3, TooLargeStep
<1>4. ASSUME NEW l \in Line, PutError(l) PROVE Kept
  BY <1>4, PutErrorStep
<1>5. ASSUME NEW a \in DOMAIN saved, jgetline(a) PROVE Kept
  BY <1>5, JgetlineStep
<1>6. ASSUME NEW a \in DOMAIN saved \cup {DFree}, ReadError(a) PROVE Kept
  <2>1. a \in Addr
    BY DEF IInv, TypeOK
  <2> QED BY <1>6, <2>1, ReadErrorStep
<1>7. CASE Sync
  BY <1>7, SyncStep
<1>8. CASE SyncError
  BY <1>8, SyncErrorStep
<1> QED BY <1>1, <1>2, <1>3, <1>4, <1>5, <1>6, <1>7, <1>8 DEF Next

LEMMA StutterOK ==
  ASSUME IInv, UNCHANGED vars
  PROVE  Kept
<1>1. /\ UNCHANGED <<blk, lru, tmp, next_bno, lastb>> /\ UNCHANGED <<DFree, saved, danger>>
  BY DEF vars
<1>2. Durable' = Durable
  BY <1>1 DEF Durable, Holds
<1>3. IInv'
  <2>1. TypeOK'
    BY <1>1 DEF IInv, TypeOK
  <2>2. State' = State
    BY <1>1 DEF State
  <2>3. CASE danger
    BY <2>1, <2>3, <1>1 DEF IInv
  <2>4. CASE ~danger
    <3>1. Becomes(State) /\ Good(State, saved, DFree)
      BY <1>1, <2>4 DEF Becomes, State, IInv
    <3>2. Moves(State)
      BY <3>1, <1>1 DEF Moves
    <3> QED BY <3>2, <2>4, <1>1, MovesOK
  <2> QED BY <2>3, <2>4
<1> QED BY <1>1, <1>2, <1>3 DEF Kept

LEMMA Inductive == Spec => []IInv
<1>1. Init => IInv
  BY InitOK
<1>2. IInv /\ [Next]_vars => IInv'
  BY NextOK, StutterOK DEF Kept
<1> QED BY <1>1, <1>2, PTL DEF Spec

-----------------------------------------------------------------------------
(* The variables keep their types, the block numbers their range.          *)
THEOREM TypeCorrect == Spec => []TypeOK
<1>1. IInv => TypeOK
  BY DEF IInv
<1> QED BY <1>1, Inductive, PTL

LEMMA IInvReadBack == IInv => ReadBack
BY DEF IInv, Good, SavedOK, ReadBack

LEMMA IInvCoherent == IInv => Coherent
<1> SUFFICES ASSUME IInv, ~danger PROVE Coherent
  BY DEF Coherent
<1>1. /\ OneEntry(State) /\ Once(State.lru) /\ CleanSame(State) /\ NoneLost(State)
      /\ State.next \in 0..MAX_BLOCKS
  BY DEF IInv, Good, CacheOK, CacheType
<1>2. /\ State.blk = blk /\ State.lru = lru /\ State.tmp = tmp /\ State.next = next_bno
  BY DEF State
<1>3. \A i, j \in Slot : blk[i].bno = blk[j].bno => i = j
  BY <1>1, <1>2 DEF OneEntry
<1>4. \A j, k \in 1..NBUF : lru[j] = lru[k] => j = k
  BY <1>1, <1>2 DEF Once
<1>5. \A i \in Slot : blk[i].bno < next_bno /\ ~blk[i].dirty => tmp[blk[i].bno] = blk[i].buf
  BY <1>1, <1>2 DEF CleanSame
<1>6. ASSUME NEW b \in 0..(next_bno - 1) PROVE Resident(State, b) \/ tmp[b] # NoBlock
  <2>1. b \in Bno /\ b < next_bno
    BY <1>1, <1>2, TmpAssumption DEF Bno
  <2> QED BY <2>1, <1>1, <1>2 DEF NoneLost
<1> QED BY <1>3, <1>4, <1>5, <1>6 DEF Coherent

(* As long as no read failed every line put reads back as it was put,      *)
(* whatever getblock evicted and whatever writes failed in between.        *)
THEOREM ReadBackHolds == Spec => []ReadBack
BY Inductive, IInvReadBack, PTL

(* The cache never holds two entries of one block, never drops what only   *)
(* it holds, and reads only what is in the file.                           *)
THEOREM CoherentHolds == Spec => []Coherent
BY Inductive, IInvCoherent, PTL

(* The used blocks and the end of the file stay together.                  *)
THEOREM NoGapHolds == Spec => []NoGap
<1>1. IInv => NoGap
  BY DEF IInv, Good, Ends, CacheOK, UsedDirty, SavedOK, State, NoGap
<1> QED BY <1>1, Inductive, PTL

LEMMA IInvNoWrap == IInv /\ ~danger => NoWrap
<1> SUFFICES ASSUME IInv, ~danger PROVE NoWrap
  OBVIOUS
<1>1. DFree[1] < MAX_BLOCKS
  BY AddrParts, TmpAssumption DEF IInv, TypeOK, Bno
<1> QED BY <1>1 DEF IInv, Good, SavedOK, NoWrap

(* No line is handed out where a block number has wrapped.  A failed read  *)
(* is the one step to `danger' and it puts nothing.                        *)
THEOREM NoWrapHolds == Spec => []NoWrap
<1>1. Init => NoWrap
  BY InitOK, IInvNoWrap DEF Init
<1>2. IInv' /\ NoWrap /\ [Next]_vars => NoWrap'
  <2> SUFFICES ASSUME IInv', NoWrap, [Next]_vars PROVE NoWrap'
    OBVIOUS
  <2>1. CASE ~danger'
    BY <2>1, IInvNoWrap, PTL
  <2>2. CASE danger'
    <3>1. UNCHANGED <<DFree, saved>>
      BY <2>2 DEF Next, vars, jputline, f_getputl, TooLarge, PutError, jgetline, ReadError,
                  Sync, SyncError
    <3> QED BY <3>1 DEF NoWrap
  <2> QED BY <2>1, <2>2
<1> QED BY <1>1, <1>2, Inductive, PTL DEF Spec

(* No write to the tmp file, whole or torn by an error, takes away a line  *)
(* that could be read from the file.                                       *)
THEOREM DurableStaysHolds == Spec => DurableStays
<1>1. IInv /\ [Next]_vars => [Durable \subseteq Durable']_vars
  BY NextOK, StutterOK DEF Kept
<1> QED BY <1>1, Inductive, PTL DEF Spec, DurableStays

(* After SyncTmp every line put is in the file.                            *)
THEOREM SyncSavesHolds == Spec => SyncSaves
<1>1. IInv /\ [Next]_vars => [Sync => Durable' = DOMAIN saved']_vars
  BY SyncStep
<1> QED BY <1>1, Inductive, PTL DEF Spec, SyncSaves

(* The tmp file implements the store: each step of it puts one line at an  *)
(* unused address or leaves the lines alone, and never loses a durable one.*)
THEOREM TmpImplementsStore == Spec => Implements
<1>1. Init => LS!Init
  <2> SUFFICES ASSUME Init PROVE LS!Init
    OBVIOUS
  <2>1. saved = [a \in {} |-> CHOOSE l \in Line : TRUE] /\ DOMAIN saved = {}
    BY DEF Init
  <2>2. Durable = {}
    BY <2>1 DEF Durable
  <2> QED BY <2>1, <2>2 DEF LS!Init
<1>2. IInv /\ [Next]_vars => [LS!Next]_(LS!vars)
  <2> SUFFICES ASSUME IInv, [Next]_vars PROVE LS!Next \/ UNCHANGED LS!vars
    OBVIOUS
  <2>1. Durable' \subseteq DOMAIN saved'
    BY DEF Durable
  <2>2. CASE Kept
    BY <2>1, <2>2 DEF Kept, LS!Next, LS!WriteBack, LS!Keep
  <2>3. ASSUME NEW a \in Addr, NEW l \in Line, Puts(a, l), Durable \subseteq Durable'
        PROVE  LS!Next
    <3>1. LS!Put(a, l)
      BY <2>1, <2>3 DEF Puts, LS!Put, LS!Keep
    <3> QED BY <3>1 DEF LS!Next
  <2> QED BY <2>2, <2>3, NextOK, StutterOK
<1> QED BY <1>1, <1>2, Inductive, PTL DEF Spec, Implements, LS!Spec
=============================================================================
