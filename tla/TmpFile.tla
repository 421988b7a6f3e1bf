------------------------------- MODULE TmpFile -------------------------------
(***************************************************************************)
(* The tmp file of JOVE and its block cache (io.c, temp.h).                *)
(*                                                                         *)
(* The text of every line that is not being edited lives in a tmp file,    *)
(* reached through NBUF cached blocks kept in LRU order.  Writes are       *)
(* delayed until the least recently used block is found dirty (then every  *)
(* dirty block is written) or SyncTmp is called.  A line never crosses a   *)
(* block and the file only grows: DFree is the end of it.                  *)
(*                                                                         *)
(* A packed daddr is the pair <<bno, off>> that da_to_bno and da_to_off    *)
(* extract from it; a chunk holds one piece of a line, <<l, k>> being the  *)
(* k-th piece of line l (the last piece holds the NUL).                    *)
(***************************************************************************)
EXTENDS Integers

CONSTANTS
  NBUF,         \* blocks in b_cache
  BLK_CHNKS,    \* chunks in a block
  MAX_BLOCKS,   \* block numbers a daddr can represent
  Line,         \* the lines that may be stored
  LineLen,      \* REQ_CHNKS of each line, its NUL included
  NoBlock       \* what is not a block: nothing on disk there, no lastb yet

ASSUME TmpAssumption ==
  /\ NBUF \in Nat \ {0}
  /\ BLK_CHNKS \in Nat /\ BLK_CHNKS > 1
  /\ MAX_BLOCKS \in Nat /\ MAX_BLOCKS > NBUF
  /\ Line # {}
  /\ LineLen \in [Line -> 1..BLK_CHNKS]

YES == TRUE
NO  == FALSE

Slot   == 1..NBUF               \* the entries of b_cache
Bno    == 0..(MAX_BLOCKS - 1)
Chunk  == 0..(BLK_CHNKS - 1)
Cell   == (Line \X (0..BLK_CHNKS)) \cup {<<>>}     \* <<>>: never written
Buf    == [Chunk -> Cell]
Addr   == Bno \X Chunk

ASSUME NoBlockAssumption == NoBlock \notin Buf /\ NoBlock \notin Slot

VARIABLES
  blk,       \* b_cache: the number, dirty bit and bytes of each entry
  lru,       \* the LRU list: lru[1] is f_block, lru[NBUF] is l_block
  tmp,       \* the tmp file, block by block
  next_bno,  \* blocks below this have been used
  lastb,     \* the entry the last getblock returned
  DFree,     \* the end of the tmp file
  saved,     \* history: the line put at each address handed out
  danger     \* a read failed: "to continue editing would be dangerous"

cvars == <<blk, lru, tmp, next_bno, lastb>>
vars  == <<blk, lru, tmp, next_bno, lastb, DFree, saved, danger>>

-----------------------------------------------------------------------------
(* getblock and what it calls, as functions of the cache state s.          *)

State == [blk |-> blk, lru |-> lru, tmp |-> tmp, next |-> next_bno,
          last |-> lastb]

Becomes(s) ==
  /\ blk' = s.blk
  /\ lru' = s.lru
  /\ tmp' = s.tmp
  /\ next_bno' = s.next
  /\ lastb' = s.last

Resident(s, b)     == \E i \in Slot : s.blk[i].bno = b
lookup_block(s, b) == CHOOSE i \in Slot : s.blk[i].bno = b

(* LRUunlink, then linking at the tail: entry i becomes most recently used. *)
ToTail(order, i) ==
  LET p == CHOOSE k \in 1..NBUF : order[k] = i
  IN  [k \in 1..NBUF |-> IF k < p THEN order[k]
                         ELSE IF k < NBUF THEN order[k + 1] ELSE i]

(* The operators named ...Slip are ways to get the one after them wrong;   *)
(* nothing uses them but the runs that show a property notices.            *)
DirtySlip(s) == {i \in Slot : s.blk[i].dirty /\ i # s.last}

Dirty(s) == {i \in Slot : s.blk[i].dirty}

(* blkio(write) of every entry in W, in whole: the delayed writes.         *)
Written(s, W) ==
  [blk |-> [i \in Slot |-> IF i \in W THEN [s.blk[i] EXCEPT !.dirty = FALSE]
                           ELSE s.blk[i]],
   tmp |-> [b \in Bno |-> IF \E i \in W : s.blk[i].bno = b
                          THEN s.blk[CHOOSE i \in W : s.blk[i].bno = b].buf
                          ELSE s.tmp[b]],
   lru |-> s.lru, next |-> s.next, last |-> s.last]

SyncTmp(s) == Written(s, Dirty(s))

Touch(s, i, w) ==
  [s EXCEPT !.blk[i].dirty = (s.blk[i].dirty \/ w), !.last = i]

(* The block asked for is the one returned last time.                      *)
Same(s, b) == s.last # NoBlock /\ s.blk[s.last].bno = b

Hit(s, b, w) ==
  LET i == lookup_block(s, b)
  IN  Touch([s EXCEPT !.lru = ToTail(s.lru, i),
                      !.next = IF b >= s.next THEN b + 1 ELSE s.next], i, w)

ReassignSlip(s, b) ==
  LET i == s.lru[1]
  IN  [s EXCEPT !.lru = ToTail(s.lru, i),
                !.blk[i] = [bno |-> b, dirty |-> FALSE, buf |-> s.blk[i].buf]]

(* The least recently used entry is given the new number.  If it is dirty  *)
(* everything dirty is written first.  A block below next_bno is read; one *)
(* past the end keeps whatever bytes the entry held.                       *)
Reassign(s, b) ==
  LET i == s.lru[1]
      t == IF s.blk[i].dirty THEN SyncTmp(s) ELSE s
  IN  [t EXCEPT !.lru = ToTail(t.lru, i),
                !.blk[i] = [bno |-> b, dirty |-> FALSE, buf |-> t.blk[i].buf]]

MissSlip(s, b, w) ==
  Touch([Reassign(s, b) EXCEPT !.next = IF b < @ THEN @ ELSE b + 1], s.lru[1], w)

Miss(s, b, w) ==
  LET i == s.lru[1]
      t == Reassign(s, b)
  IN  Touch(IF b < s.next THEN [t EXCEPT !.blk[i].buf = t.tmp[b]]
                          ELSE [t EXCEPT !.next = b + 1], i, w)

AllowedSlip(b) == b < MAX_BLOCKS

(* Only block numbers below MAX_BLOCKS - 1 may be used.                    *)
Allowed(b) == b < MAX_BLOCKS - 1

(* da_to_bno keeps only the bits of a block number.                        *)
da_to_bno(a) == IF a[1] < MAX_BLOCKS THEN a[1] ELSE a[1] - MAX_BLOCKS

getblock(s, a, w) ==
  LET b == da_to_bno(a)
  IN  IF Same(s, b) THEN Touch(s, s.last, w)
      ELSE IF Resident(s, b) THEN Hit(s, b, w) ELSE Miss(s, b, w)

-----------------------------------------------------------------------------
(* Storing a line.                                                         *)

(* The first n pieces of l are copied to chunk o of a block.               *)
Copy(buf, o, l, n) ==
  [c \in Chunk |-> IF o <= c /\ c < o + n THEN <<l, c - o>> ELSE buf[c]]

(* The bytes of the entry returned last become buf.                        *)
Fill(s, buf) == [s EXCEPT !.blk[s.last].buf = buf]

Store(s, o, l, n) == Fill(s, Copy(s.blk[s.last].buf, o, l, n))

CopyDownSlip(s, base, o, n) ==
  Fill(s, [c \in Chunk |-> IF c < n THEN s.blk[s.last].buf[o + c]
                           ELSE s.blk[s.last].buf[c]])

(* byte_copy(base, newbp, n): the pieces gathered so far, from where they  *)
(* are now in entry `base', to the start of the block returned last.       *)
CopyDown(s, base, o, n) ==
  Fill(s, [c \in Chunk |-> IF c < n THEN s.blk[base].buf[o + c]
                           ELSE s.blk[s.last].buf[c]])

(* The rest of line l, from piece n on, after the pieces copied down.      *)
Rest(s, l, n) ==
  Fill(s, [c \in Chunk |-> IF n <= c /\ c < LineLen[l] THEN <<l, c>>
                           ELSE s.blk[s.last].buf[c]])

Fits(l, a) == LineLen[l] <= BLK_CHNKS - a[2]

NextBlock(a) == <<a[1] + 1, 0>>                   \* blk_chop(a) + BLK_CHNKS

PlusNoNul(a, n) ==
  IF a[2] + n - 1 = BLK_CHNKS THEN NextBlock(a) ELSE <<a[1], a[2] + n - 1>>

Plus(a, n) == IF a[2] + n = BLK_CHNKS THEN NextBlock(a) ELSE <<a[1], a[2] + n>>

(* The address a now holds line l.                                         *)
Hand(a, l) ==
  /\ saved' = [x \in DOMAIN saved \cup {a} |-> IF x = a THEN l ELSE saved[x]]
  /\ DFree' = Plus(a, LineLen[l])

(* The line does not fit in the block DFree is in: what was copied stays   *)
(* there as waste and the line goes to the block after it.                 *)
Wasted(l) ==
  Store(getblock(State, DFree, YES), DFree[2], l, BLK_CHNKS - DFree[2])

(* jputline starts the copy over in the next block.                        *)
jputline(l) ==
  /\ ~danger /\ Allowed(da_to_bno(DFree))
  /\ \/ /\ Fits(l, DFree)
        /\ Becomes(Store(getblock(State, DFree, YES), DFree[2], l, LineLen[l]))
        /\ Hand(DFree, l)
     \/ /\ ~Fits(l, DFree)
        /\ Allowed(da_to_bno(NextBlock(DFree)))
        /\ Becomes(Store(getblock(Wasted(l), NextBlock(DFree), YES),
                         0, l, LineLen[l]))
        /\ Hand(NextBlock(DFree), l)
  /\ UNCHANGED danger

(* f_getputl takes the characters from a file, so it cannot start over: it *)
(* copies what it has from the old block, still in memory it believes, to  *)
(* the new one, and goes on from there.                                    *)
f_getputl(l) ==
  /\ ~danger /\ Allowed(da_to_bno(DFree))
  /\ \/ /\ Fits(l, DFree)
        /\ Becomes(Store(getblock(State, DFree, YES), DFree[2], l, LineLen[l]))
        /\ Hand(DFree, l)
     \/ /\ ~Fits(l, DFree)
        /\ Allowed(da_to_bno(NextBlock(DFree)))
        /\ LET n == BLK_CHNKS - DFree[2] - 1
               s == Store(getblock(State, DFree, YES), DFree[2], l, n)
               t == CopyDown(getblock(s, NextBlock(DFree), YES),
                             s.last, DFree[2], n)
           IN  Becomes(Rest(t, l, n))
        /\ Hand(NextBlock(DFree), l)
  /\ UNCHANGED danger

(* error("Tmp file too large"): the address that is out of range is not    *)
(* used, but DFree has been moved to it.                                   *)
TooLarge(l) ==
  /\ ~danger
  /\ \/ ~Allowed(da_to_bno(DFree)) /\ UNCHANGED <<cvars, DFree>>
     \/ /\ Allowed(da_to_bno(DFree))
        /\ ~Fits(l, DFree)
        /\ ~Allowed(da_to_bno(NextBlock(DFree)))
        /\ Becomes(Wasted(l))
        /\ DFree' = NextBlock(DFree)
  /\ UNCHANGED <<saved, danger>>

(* jgetline and lbptr: the block of the line is brought in.                *)
jgetline(a) ==
  /\ ~danger
  /\ Becomes(getblock(State, a, NO))
  /\ UNCHANGED <<DFree, saved, danger>>

Sync ==
  /\ ~danger
  /\ Becomes(SyncTmp(State))
  /\ UNCHANGED <<DFree, saved, danger>>

-----------------------------------------------------------------------------
(* blkio fails.                                                            *)

(* SyncTmp fails at the k-th entry of the list: the entries before it are  *)
(* written, of its own block the first n chunks are; it and the entries    *)
(* after it stay dirty.                                                    *)
PartSync(s, k, n) ==
  LET b == s.blk[s.lru[k]].bno
      t == Written(s, {i \in Dirty(s) : \E m \in 1..(k - 1) : s.lru[m] = i})
      torn == [c \in Chunk |-> IF c < n THEN s.blk[s.lru[k]].buf[c]
                               ELSE IF s.tmp[b] = NoBlock THEN <<>> ELSE s.tmp[b][c]]
  IN  [t EXCEPT !.tmp[b] = IF n = 0 THEN @ ELSE torn]

FailsAt(s, k) == s.blk[s.lru[k]].dirty

(* The failing SyncTmp is the editor's own or that of a first getblock.    *)
SyncError ==
  /\ ~danger
  /\ \E k \in 1..NBUF, n \in Chunk : FailsAt(State, k) /\ Becomes(PartSync(State, k, n))
  /\ UNCHANGED <<DFree, saved, danger>>

(* It is that of the second getblock of jputline or f_getputl: DFree has   *)
(* been moved to the block that could not be had.                          *)
PutError(l) ==
  /\ ~danger
  /\ Allowed(da_to_bno(DFree)) /\ ~Fits(l, DFree) /\ Allowed(da_to_bno(NextBlock(DFree)))
  /\ LET s == Wasted(l)
     IN  /\ ~Resident(s, da_to_bno(NextBlock(DFree)))
         /\ FailsAt(s, 1)
         /\ \E k \in 1..NBUF, n \in Chunk : FailsAt(s, k) /\ Becomes(PartSync(s, k, n))
  /\ DFree' = NextBlock(DFree)
  /\ UNCHANGED <<saved, danger>>

(* The read of a block fails after the entry was given its number: the     *)
(* entry now holds another block's bytes.                                  *)
ReadError(a) ==
  /\ ~danger
  /\ ~Resident(State, da_to_bno(a)) /\ da_to_bno(a) < next_bno
  /\ Becomes(Reassign(State, da_to_bno(a)))
  /\ danger' = TRUE
  /\ UNCHANGED <<DFree, saved>>

-----------------------------------------------------------------------------
(* d_cache_init: entry i has number i - 1 and block 0 is first to go.      *)
Init ==
  /\ blk = [i \in Slot |-> [bno |-> i - 1, dirty |-> FALSE,
                            buf |-> [c \in Chunk |-> <<>>]]]
  /\ lru = [k \in 1..NBUF |-> k]
  /\ tmp = [b \in Bno |-> NoBlock]
  /\ next_bno = 0
  /\ lastb = NoBlock
  /\ DFree = <<0, 1>>
  /\ saved = [a \in {} |-> CHOOSE l \in Line : TRUE]
  /\ danger = FALSE

Next ==
  \/ \E l \in Line : jputline(l) \/ f_getputl(l) \/ TooLarge(l) \/ PutError(l)
  \/ \E a \in DOMAIN saved : jgetline(a)
  \/ \E a \in DOMAIN saved \cup {DFree} : ReadError(a)
  \/ Sync
  \/ SyncError

Spec == Init /\ [][Next]_vars
-----------------------------------------------------------------------------
(* What a read gives.                                                      *)

Holds(buf, o, l) ==
  /\ buf # NoBlock
  /\ o + LineLen[l] <= BLK_CHNKS
  /\ \A c \in o..(o + LineLen[l] - 1) : buf[c] = <<l, c - o>>

(* The bytes getblock would return for block b: the cache's, else the      *)
(* file's.                                                                 *)
Image(s, b) == IF Resident(s, b) THEN s.blk[lookup_block(s, b)].buf ELSE s.tmp[b]

(* The lines that can be read from the file alone.                         *)
Durable == {a \in DOMAIN saved : Holds(tmp[a[1]], a[2], saved[a])}

TypeOK ==
  /\ blk \in [Slot -> [bno : Bno, dirty : BOOLEAN, buf : Buf]]
  /\ lru \in [1..NBUF -> Slot]
  /\ tmp \in [Bno -> Buf \cup {NoBlock}]
  /\ next_bno \in 0..MAX_BLOCKS
  /\ lastb \in Slot \cup {NoBlock}
  /\ DFree \in Addr
  /\ DOMAIN saved \subseteq Addr
  /\ \A a \in DOMAIN saved : saved[a] \in Line
  /\ danger \in BOOLEAN

(* Every line put can be read back, whatever was evicted, reread, written  *)
(* in part or put after it: getblock, jputline, f_getputl and SyncTmp      *)
(* together never lose a line or give the bytes of another.                *)
ReadBack == ~danger => \A a \in DOMAIN saved : Holds(Image(State, a[1]), a[2], saved[a])

(* The cache stays coherent: a block is in at most one entry, each entry   *)
(* is once on the LRU list, a clean used entry is what the file has, and a *)
(* block that was used and is not cached is in the file, so that getblock  *)
(* never reads where nothing was written.                                  *)
Coherent ==
  ~danger =>
    /\ \A i, j \in Slot : blk[i].bno = blk[j].bno => i = j
    /\ \A j, k \in 1..NBUF : lru[j] = lru[k] => j = k
    /\ \A i \in Slot : blk[i].bno < next_bno /\ ~blk[i].dirty => tmp[blk[i].bno] = blk[i].buf
    /\ \A b \in 0..(next_bno - 1) : Resident(State, b) \/ tmp[b] # NoBlock

(* No line is ever put beyond DFree or in the block reserved for the       *)
(* addresses that are not addresses (NOWHERE_DADDR): the limit is reported *)
(* before the block number wraps, and further lines fail the same way.     *)
NoWrap ==
  /\ DFree[1] < MAX_BLOCKS
  /\ \A a \in DOMAIN saved :
       /\ Allowed(a[1])
       /\ a[1] < DFree[1] \/ (a[1] = DFree[1] /\ a[2] + LineLen[saved[a]] <= DFree[2])

(* Blocks are first used in order: the block of DFree is the last used or  *)
(* the one after it, even after a put failed part way.  getblock extends   *)
(* the file by one block at a time, and a cached entry of a block below    *)
(* next_bno always was read or written.                                    *)
NoGap ==
  ~danger =>
    /\ DFree[1] <= next_bno /\ next_bno <= DFree[1] + 1
    /\ \A i \in Slot : blk[i].dirty => blk[i].bno < next_bno
    /\ \A a \in DOMAIN saved : a[1] < next_bno

(* A line once in the file stays readable from the file alone: rewriting a *)
(* block, even in part before an error, never takes a durable line away.   *)
DurableStays == [][Durable \subseteq Durable']_vars

(* After SyncTmp every line is durable, which is what SyncRec counts on    *)
(* when it then writes the addresses of the lines to the recovery file.    *)
SyncSaves == [][Sync => Durable' = DOMAIN saved']_vars

(* The tmp file implements the store of lines.                             *)
LS == INSTANCE LineStore WITH durable <- Durable
Implements == LS!Spec
=============================================================================
