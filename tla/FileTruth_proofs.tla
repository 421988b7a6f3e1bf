--------------------------- MODULE FileTruth_proofs ---------------------------
(***************************************************************************)
(* Proofs of what the buffers' records say of the files (FileSave): what   *)
(* counts as saved is in the file, and what is overwritten unasked has     *)
(* been seen.                                                              *)
(***************************************************************************)
EXTENDS FileSave_proofs

USE FileAssumption

-----------------------------------------------------------------------------
(* The invariant.                                                          *)

(* In the directory d with the inodes nd, the file x looks as it is        *)
(* recorded in the buffer r.                                               *)
Same(d, nd, r, x) == r.ino # 0 /\ d[x] = r.ino /\ nd[r.ino].mtime = r.mtime

(* Then it holds what the buffer has seen of it ...                        *)
SeenIn(d, nd, r) == \A x \in Files : Same(d, nd, r, x) => nd[r.ino].data = r.seen

(* ... and only a buffer that is whole goes by the file's own name: one    *)
(* that was cut short has a name that no file has yet.                     *)
CutFrom(d, nd, r) ==
  \A x \in Files : Same(d, nd, r, x) => IF r.whole THEN x[2] > 0 => x[2] <= r.fname[2]
                                                   ELSE x[2] < r.fname[2]

(* An unmodified buffer is in its file.                                    *)
SavedIn(d, nd, dead, r) ==
  ~r.modified /\ ~r.diverged /\ ~r.ntbf /\ r.whole /\ r.fname \in Files /\ Same(d, nd, r, r.fname)
    => (r.saved \/ ~dead => nd[r.ino].data = r.text) /\ (r.saved => nd[r.ino].synced)

Records ==
  /\ \A b \in Buffers : buf[b] # NULL => CutFrom(dir, node, buf[b])
  /\ ~At("dead") => \A b \in Buffers : buf[b] # NULL => SeenIn(dir, node, buf[b])
  /\ \A b \in Buffers : buf[b] # NULL /\ ~(b = curbuf /\ BeingRead) => SavedIn(dir, node, At("dead"), buf[b])

(* Where JOVE is in reading or writing a file.                             *)
Between ==
  /\ At("rstat") => dir[job.name] = job.ino
  /\ At("rread") => cur.ino \in {job.ino, 0}
  /\ job.at \in {"put", "close", "stat"} => dir[job.name] = job.ino
  /\ At("put") => ~Blind
  /\ job.at \in {"close", "stat"} /\ job.cmd \in {"save", "write"} => node[job.ino].data = cur.text
  /\ At("stat") => node[job.ino].synced

(* What is going to be overwritten unasked has been seen.                  *)
OnlyCurrent == \A b \in world : Matches(buf[b], job.name, Stat(job.name)) => b = curbuf
AtRisk ==
  /\ job.at \in {"backup", "copy", "sync", "open"} /\ ~job.asked /\ job.cmd # "append"
  /\ dir[job.name] # 0
  /\ job.cmd = "region" => OnlyCurrent
Unasked == AtRisk => node[dir[job.name]].data = cur.seen /\ cur.whole

Truth == ~gap => Records /\ Between /\ Unasked

(* What do_stat changes in a buffer takes nothing of this away.            *)
LEMMA LooksTrue ==
  ASSUME NEW d, NEW nd, NEW dead, NEW r, NEW s, Looks(r, s)
  PROVE  /\ CutFrom(d, nd, r) => CutFrom(d, nd, s)
         /\ SeenIn(d, nd, r) => SeenIn(d, nd, s)
         /\ SavedIn(d, nd, dead, r) => SavedIn(d, nd, dead, s)
<1>1. \A x : Same(d, nd, s, x) => Same(d, nd, r, x) /\ s.ino = r.ino
  BY DEF Same, Looks
<1>2. CutFrom(d, nd, r) => CutFrom(d, nd, s)
  BY <1>1 DEF CutFrom, Looks
<1>3. SeenIn(d, nd, r) => SeenIn(d, nd, s)
  BY <1>1 DEF SeenIn, Looks
<1>4. SavedIn(d, nd, dead, r) => SavedIn(d, nd, dead, s)
  BY <1>1 DEF SavedIn, Looks
<1> QED BY <1>2, <1>3, <1>4

(* A buffer without an inode passes for no file.                           *)
LEMMA NoInode ==
  ASSUME NEW d, NEW nd, NEW dead, NEW r, r.ino = 0
  PROVE  CutFrom(d, nd, r) /\ SeenIn(d, nd, r) /\ SavedIn(d, nd, dead, r)
BY DEF CutFrom, SeenIn, SavedIn, Same

(* Where JOVE has a file in hand, or is no more.                           *)
Busy == {"rstat", "rread", "put", "close", "stat", "backup", "copy", "sync", "open", "dead"}

(* Elsewhere there is nothing to keep but the records.                     *)
LEMMA Quiet ==
  ASSUME job'.at \notin Busy
  PROVE  Between' /\ Unasked' /\ ~At("dead")' /\ ~BeingRead'
<1>1. Between' /\ Unasked' /\ ~At("dead")'
  <2>1. /\ job'.at # "rstat" /\ job'.at # "rread" /\ job'.at # "put" /\ job'.at # "close" /\ job'.at # "stat"
        /\ job'.at # "backup" /\ job'.at # "copy" /\ job'.at # "sync" /\ job'.at # "open" /\ job'.at # "dead"
    BY DEF Busy
  <2>2. Between'
    BY <2>1 DEF Between, At
  <2>3. Unasked'
    <3>1. job'.at \notin {"backup", "copy", "sync", "open"}
      BY <2>1
    <3> QED BY <3>1 DEF Unasked, AtRisk
  <2> QED BY <2>1, <2>2, <2>3 DEF At
<1>2. ~BeingRead'
  BY DEF BeingRead, Busy, At
<1> QED BY <1>1, <1>2

(* Records are kept by a step that changes no files, if each buffer is     *)
(* only looked at or again tells the truth.                                *)
LEMMA RecordsKept ==
  ASSUME Records, ~At("dead"), ~At("dead")', UNCHANGED <<dir, node>>,
         \A b \in Buffers : buf'[b] # NULL =>
           \/ /\ buf[b] # NULL /\ Looks(buf[b], buf'[b])
              /\ b = curbuf /\ BeingRead => b = curbuf' /\ BeingRead'
           \/ /\ CutFrom(dir, node, buf'[b]) /\ SeenIn(dir, node, buf'[b])
              /\ ~(b = curbuf' /\ BeingRead') => SavedIn(dir, node, FALSE, buf'[b])
  PROVE  Records'
<1>1. ASSUME NEW b \in Buffers, buf'[b] # NULL
      PROVE  /\ CutFrom(dir, node, buf'[b]) /\ SeenIn(dir, node, buf'[b])
             /\ ~(b = curbuf' /\ BeingRead') => SavedIn(dir, node, FALSE, buf'[b])
  <2>1. CASE /\ buf[b] # NULL /\ Looks(buf[b], buf'[b])
             /\ b = curbuf /\ BeingRead => b = curbuf' /\ BeingRead'
    <3>1. CutFrom(dir, node, buf[b]) /\ SeenIn(dir, node, buf[b])
          /\ (~(b = curbuf /\ BeingRead) => SavedIn(dir, node, FALSE, buf[b]))
      <4>1. At("dead") = FALSE
        BY DEF At
      <4> QED BY <2>1, <4>1 DEF Records
    <3>2. PICK d, nd, r, s : d = dir /\ nd = node /\ r = buf[b] /\ s = buf'[b]
      OBVIOUS
    <3>3. /\ CutFrom(d, nd, r) => CutFrom(d, nd, s)
          /\ SeenIn(d, nd, r) => SeenIn(d, nd, s)
          /\ SavedIn(d, nd, FALSE, r) => SavedIn(d, nd, FALSE, s)
      BY <2>1, <3>2, LooksTrue
    <3> QED BY <2>1, <3>1, <3>2, <3>3
  <2> QED BY <1>1, <2>1
<1>2. ASSUME NEW b \in Buffers, buf'[b] # NULL
      PROVE  /\ CutFrom(dir', node', buf'[b]) /\ SeenIn(dir', node', buf'[b])
             /\ ~(b = curbuf' /\ BeingRead') => SavedIn(dir', node', At("dead")', buf'[b])
  <2>1. At("dead")' = FALSE
    BY DEF At
  <2> QED BY <1>1, <1>2, <2>1
<1> QED BY <1>2 DEF Records

(* ... or by one that changes files, if no file looks to a buffer as it is *)
(* recorded that did not, and what it holds and has on the disk stays.     *)
LEMMA RecordsStay ==
  ASSUME Records, ~At("dead"), ~At("dead")', UNCHANGED <<buf, curbuf>>, BeingRead => BeingRead',
         \A b \in Buffers : buf[b] # NULL => \A x \in Files : Same(dir', node', buf[b], x) =>
           /\ Same(dir, node, buf[b], x) /\ node'[buf[b].ino].data = node[buf[b].ino].data
           /\ node[buf[b].ino].synced => node'[buf[b].ino].synced
  PROVE  Records'
<1>1. At("dead") = FALSE /\ At("dead")' = FALSE
  BY DEF At
<1>2. ASSUME NEW b \in Buffers, buf[b] # NULL
      PROVE  /\ CutFrom(dir', node', buf[b]) /\ SeenIn(dir', node', buf[b])
             /\ ~(b = curbuf /\ BeingRead) => SavedIn(dir', node', FALSE, buf[b])
  <2>1. /\ CutFrom(dir, node, buf[b]) /\ SeenIn(dir, node, buf[b])
        /\ ~(b = curbuf /\ BeingRead) => SavedIn(dir, node, FALSE, buf[b])
    BY <1>1, <1>2 DEF Records
  <2>2. CutFrom(dir', node', buf[b])
    BY <1>2, <2>1 DEF CutFrom
  <2>3. SeenIn(dir', node', buf[b])
    BY <1>2, <2>1 DEF SeenIn
  <2>4. ~(b = curbuf /\ BeingRead) => SavedIn(dir', node', FALSE, buf[b])
    BY <1>2, <2>1 DEF SavedIn
  <2> QED BY <2>2, <2>3, <2>4
<1>3. ASSUME NEW b \in Buffers, buf'[b] # NULL
      PROVE  /\ CutFrom(dir', node', buf'[b]) /\ SeenIn(dir', node', buf'[b])
             /\ ~(b = curbuf' /\ BeingRead') => SavedIn(dir', node', At("dead")', buf'[b])
  <2>1. buf'[b] = buf[b] /\ curbuf' = curbuf
    OBVIOUS
  <2> QED BY <1>1, <1>2, <1>3, <2>1
<1> QED BY <1>3 DEF Records

(* What Truth says of the current buffer.                                  *)
LEMMA CurRecords ==
  ASSUME Basic, Truth, ~gap, ~At("dead")
  PROVE  /\ Records /\ Between /\ Unasked
         /\ CutFrom(dir, node, cur) /\ SeenIn(dir, node, cur)
         /\ ~BeingRead => SavedIn(dir, node, FALSE, cur)
<1>1. Records /\ Between /\ Unasked /\ At("dead") = FALSE
  BY DEF Truth, At
<1>2. curbuf \in Buffers /\ buf[curbuf] # NULL /\ cur = buf[curbuf]
  BY BasicFacts
<1> QED BY <1>1, <1>2 DEF Records

(* A step that changes the current buffer alone.                           *)
LEMMA CurTrue ==
  ASSUME Basic, Truth, ~gap, ~At("dead"), ~At("dead")', UNCHANGED <<dir, node, curbuf>>,
         NEW r, Good(r), r.ntbf => cur.ntbf, buf' = With(buf, curbuf, r),
         CutFrom(dir, node, r), SeenIn(dir, node, r), ~BeingRead' => SavedIn(dir, node, FALSE, r)
  PROVE  Records'
<1>1. PICK bs : bs = With(buf, curbuf, r)
  OBVIOUS
<1>2. bs[curbuf] = r /\ \A c \in Buffers \ {curbuf} : bs[c] = buf[c]
  BY <1>1, CurChanged
<1>3. \A b : Looks(buf[b], buf[b])
  BY DEF Looks
<1>4. ASSUME NEW b \in Buffers, buf'[b] # NULL
      PROVE  \/ /\ buf[b] # NULL /\ Looks(buf[b], buf'[b])
                /\ b = curbuf /\ BeingRead => b = curbuf' /\ BeingRead'
             \/ /\ CutFrom(dir, node, buf'[b]) /\ SeenIn(dir, node, buf'[b])
                /\ ~(b = curbuf' /\ BeingRead') => SavedIn(dir, node, FALSE, buf'[b])
  <2>1. CASE b = curbuf
    BY <1>1, <1>2, <2>1
  <2>2. CASE b # curbuf
    BY <1>1, <1>2, <1>3, <1>4, <2>2
  <2> QED BY <2>1, <2>2
<1>5. Records
  BY CurRecords
<1> QED BY <1>4, <1>5, RecordsKept

(* What is recorded depends on the inode and the time only.                *)
LEMMA SameRecord ==
  ASSUME NEW d, NEW nd, NEW r, NEW s, s.ino = r.ino, s.mtime = r.mtime
  PROVE  /\ \A x : Same(d, nd, s, x) = Same(d, nd, r, x)
         /\ s.seen = r.seen /\ SeenIn(d, nd, r) => SeenIn(d, nd, s)
         /\ s.whole = r.whole /\ s.fname = r.fname /\ CutFrom(d, nd, r) => CutFrom(d, nd, s)
<1>1. \A x : Same(d, nd, s, x) = Same(d, nd, r, x)
  BY DEF Same
<1>2. s.seen = r.seen /\ SeenIn(d, nd, r) => SeenIn(d, nd, s)
  BY <1>1 DEF SeenIn
<1>3. s.whole = r.whole /\ s.fname = r.fname /\ CutFrom(d, nd, r) => CutFrom(d, nd, s)
  BY <1>1 DEF CutFrom
<1> QED BY <1>1, <1>2, <1>3

(* A reading that has failed gives a buffer the next temporary name.       *)
LEMMA CutShort ==
  ASSUME NEW d, NEW nd, NEW r, NEW s, s.ino = r.ino, s.mtime = r.mtime, CutFrom(d, nd, r),
         r.fname \in Files, s.fname = Tmp(r.fname), ~s.whole
  PROVE  CutFrom(d, nd, s)
<1>1. r.fname[2] \in Nat /\ s.fname[2] = r.fname[2] + 1 /\ \A x \in Files : x[2] \in Nat
  <2>1. s.fname = <<r.fname[1], r.fname[2] + 1>>
    BY DEF Tmp
  <2>2. s.fname[2] = r.fname[2] + 1
    BY <2>1
  <2>3. \A x \in Files : x[2] \in Nat
    BY NamesApart
  <2> QED BY <2>2, <2>3
<1>2. \A x : Same(d, nd, s, x) = Same(d, nd, r, x)
  BY DEF Same
<1>3. ASSUME NEW x \in Files, Same(d, nd, s, x) PROVE x[2] < s.fname[2]
  <2>1. IF r.whole THEN x[2] > 0 => x[2] <= r.fname[2] ELSE x[2] < r.fname[2]
    BY <1>2, <1>3 DEF CutFrom
  <2>2. x[2] \in Nat
    BY <1>1
  <2> QED BY <1>1, <2>1, <2>2
<1> QED BY <1>3 DEF CutFrom

(* The file that SetRecord records, under all of its names.                *)
LEMMA SetTrue ==
  ASSUME Basic, NEW r, NEW n \in Files, r.fname = n, r.whole, r.ino = dir[n], r.seen = Contents(n)
  PROVE  CutFrom(dir, node, r) /\ SeenIn(dir, node, r)
<1>1. ASSUME NEW x \in Files, Same(dir, node, r, x)
      PROVE  (x[2] > 0 => x[2] <= r.fname[2]) /\ node[r.ino].data = r.seen
  <2>1. dir[x] = dir[n] /\ dir[n] # 0
    BY <1>1 DEF Same
  <2>2. x = n \/ x \in Names
    BY <2>1, NamesApart DEF Basic, Disk, Apart
  <2>3. x[2] \in Nat /\ (x \in Names => x[2] = 0)
    BY NamesApart
  <2> QED BY <2>1, <2>2, <2>3 DEF Contents
<1> QED BY <1>1 DEF CutFrom, SeenIn

-----------------------------------------------------------------------------
(* Reading.                                                                *)

(* Where nothing is being saved, only reading has something to keep.       *)
LEMMA NotSaving ==
  ASSUME job'.at \notin Saving_of_file, (At("rstat") => dir[job.name] = job.ino)',
         (At("rread") => cur.ino \in {job.ino, 0})'
  PROVE  Between' /\ Unasked'
<1>1. /\ job'.at # "put" /\ job'.at # "close" /\ job'.at # "stat"
      /\ job'.at \notin {"backup", "copy", "sync", "open"}
  BY DEF Saving_of_file
<1>2. Between'
  BY <1>1 DEF Between, At
<1>3. Unasked'
  BY <1>1 DEF Unasked, AtRisk
<1> QED BY <1>2, <1>3

(* A file that is opened, and one that is not there.                       *)
LEMMA ReadOpenTrue ==
  ASSUME Basic, Truth, ~gap, ~At("dead"), ReadOpen
  PROVE  Records' /\ Between' /\ Unasked'
<1>1. /\ Good(cur) /\ cur \in Buffer /\ curbuf \in Buffers /\ JobGood(job, buf) /\ Owns(job, cur)
      /\ job \in Job /\ job.at \in {"ropen", "insert"}
  BY BasicFacts DEF ReadOpen
<1>2. PICK r : r = [cur EXCEPT !.ntbf = @ /\ At("insert")]
  OBVIOUS
<1>3. /\ Good(r) /\ ~r.ntbf /\ r.fname = cur.fname /\ r.ino = cur.ino /\ r.mtime = cur.mtime
      /\ r.whole = cur.whole /\ r.seen = cur.seen /\ r.modified = cur.modified
      /\ r.diverged = cur.diverged /\ r.saved = cur.saved /\ r.text = cur.text
  BY <1>1, <1>2 DEF Good, Buffer, Owns, At
<1>4. /\ Records /\ CutFrom(dir, node, cur) /\ SeenIn(dir, node, cur) /\ SavedIn(dir, node, FALSE, cur)
  BY <1>1, CurRecords DEF BeingRead, At
<1>5. /\ dir[job.name] = 0 => job' = Idle
      /\ dir[job.name] # 0 => /\ job'.at \in {"iread", "rstat"} /\ job'.name = job.name
                              /\ job'.ino = dir[job.name] /\ (At("ropen") => job'.at = "rstat")
  BY <1>1 DEF ReadOpen, Job, At
<1>6. UNCHANGED <<dir, node, curbuf>> /\ buf' = With(buf, curbuf, r)
  BY <1>2 DEF ReadOpen, With, files
<1>7. job'.at \in {"key", "iread", "rstat"} /\ (At("rstat")' => dir'[job'.name] = job'.ino)
  BY <1>5, <1>6 DEF Idle, At
<1>8. Between' /\ Unasked' /\ ~At("dead")'
  BY <1>7, NotSaving DEF At, Saving_of_file
<1>9. ASSUME ~BeingRead' PROVE SavedIn(dir, node, FALSE, r)
  <2>1. CASE cur.ntbf
    <3>1. At("ropen") /\ job.name = cur.fname
      BY <1>1, <2>1 DEF Owns, At, Reading_of_file
    <3>2. dir[job.name] = 0
      BY <1>5, <1>9, <3>1 DEF BeingRead, At
    <3> QED BY <1>3, <3>1, <3>2 DEF SavedIn, Same
  <2>2. CASE ~cur.ntbf
    BY <1>3, <1>4, <2>2 DEF SavedIn, Same
  <2> QED BY <2>1, <2>2
<1>10. CutFrom(dir, node, r) /\ SeenIn(dir, node, r)
  BY <1>3, <1>4, SameRecord
<1>11. Records'
  BY <1>3, <1>6, <1>8, <1>9, <1>10, CurTrue
<1> QED BY <1>8, <1>11

(* The file that has been opened is recorded.                              *)
LEMMA ReadStatTrue ==
  ASSUME Basic, Truth, ~gap, ~At("dead"), ReadStat
  PROVE  Records' /\ Between' /\ Unasked'
<1>1. /\ Good(cur) /\ cur \in Buffer /\ curbuf \in Buffers /\ JobGood(job, buf) /\ Owns(job, cur)
      /\ job \in Job /\ Disk /\ At("rstat")
  BY BasicFacts DEF ReadStat
<1>2. cur.fname = job.name /\ cur.whole /\ ~cur.ntbf /\ job.name \in Files
  BY <1>1 DEF At, JobGood, Owns, Naming, Reading_of_file
<1>3. PICK st, t, n : st = Stat(cur.fname) /\ t = Contents(cur.fname) /\ n = cur.fname
  OBVIOUS
<1>4. PICK r : r = SetRecord(cur, st, t)
  OBVIOUS
<1>5. /\ Good(r) /\ r.fname = n /\ r.whole /\ ~r.ntbf /\ r.ino = dir[n] /\ r.seen = t
      /\ n \in Files /\ t = Contents(n)
  <2>1. t \in Int
    BY <1>1, <1>2, <1>3, StatType
  <2> QED BY <1>1, <1>2, <1>3, <1>4, <2>1, RecordSet
<1>6. PICK bs : bs = With(buf, curbuf, r)
  OBVIOUS
<1>7. PICK cs : cs = CompareAll(bs, n, st)
  OBVIOUS
<1>8. buf' = cs /\ UNCHANGED <<dir, node, curbuf>> /\ job' = [job EXCEPT !.at = "rread"]
  BY <1>3, <1>4, <1>6, <1>7 DEF With, ReadStat, files, Go
<1>9. /\ Looked(bs, cs) /\ bs[curbuf] = r /\ \A c \in Buffers \ {curbuf} : bs[c] = buf[c]
      /\ cs[curbuf] # NULL /\ Looks(r, cs[curbuf])
  BY <1>2, <1>3, <1>5, <1>6, <1>7, StatSet
<1>10. job'.at = "rread" /\ job'.ino = job.ino
  BY <1>1, <1>8 DEF Job
<1>11. dir[n] = job.ino
  BY <1>1, <1>2, <1>3, CurRecords DEF Between
<1>12. cur' = cs[curbuf] /\ cs[curbuf].ino \in {job.ino, 0}
  BY <1>5, <1>8, <1>9, <1>11 DEF Looks, cur
<1>13. Between' /\ Unasked' /\ ~At("dead")' /\ BeingRead'
  <2>1. /\ job'.at \notin Saving_of_file /\ (At("rstat") => dir[job.name] = job.ino)'
        /\ (At("rread") => cur.ino \in {job.ino, 0})'
    BY <1>10, <1>12 DEF Saving_of_file, At
  <2>2. Between' /\ Unasked'
    BY ONLY <2>1, NotSaving
  <2> QED BY <1>10, <2>2 DEF At, BeingRead
<1>14. CutFrom(dir, node, cs[curbuf]) /\ SeenIn(dir, node, cs[curbuf])
  <2>1. CutFrom(dir, node, r) /\ SeenIn(dir, node, r)
    BY <1>5, SetTrue
  <2>2. PICK d, nd, s : d = dir /\ nd = node /\ s = cs[curbuf]
    OBVIOUS
  <2>3. Looks(r, s) /\ CutFrom(d, nd, r) /\ SeenIn(d, nd, r)
    BY <1>9, <2>1, <2>2
  <2>4. CutFrom(d, nd, s) /\ SeenIn(d, nd, s)
    BY ONLY <2>3, LooksTrue
  <2> QED BY <2>2, <2>4
<1>15. ASSUME NEW b \in Buffers, buf'[b] # NULL
       PROVE  \/ /\ buf[b] # NULL /\ Looks(buf[b], buf'[b])
                 /\ b = curbuf /\ BeingRead => b = curbuf' /\ BeingRead'
              \/ /\ CutFrom(dir, node, buf'[b]) /\ SeenIn(dir, node, buf'[b])
                 /\ ~(b = curbuf' /\ BeingRead') => SavedIn(dir, node, FALSE, buf'[b])
  <2>1. CASE b = curbuf
    BY <1>8, <1>13, <1>14, <2>1
  <2>2. CASE b # curbuf
    BY <1>8, <1>9, <1>15, <2>2 DEF Looked
  <2> QED BY <2>1, <2>2
<1>16. Records /\ ~At("dead")' /\ UNCHANGED <<dir, node>>
  BY <1>8, <1>13, CurRecords
<1>17. Records'
  BY <1>15, <1>16, RecordsKept
<1> QED BY <1>13, <1>17

(* What is read, or not, or inserted; and what is typed.                   *)
LEMMA FilledTrue ==
  ASSUME Basic, Truth, ~gap, ~At("dead"), dofread \/ dofreadFails \/ InsFile \/ InsFileFails \/ Edit
  PROVE  Records' /\ Between' /\ Unasked'
<1>1. /\ Good(cur) /\ cur \in Buffer /\ curbuf \in Buffers /\ JobGood(job, buf) /\ Owns(job, cur)
      /\ job \in Job /\ Disk /\ top \in Nat
  BY BasicFacts
<1>2. CutFrom(dir, node, cur) /\ SeenIn(dir, node, cur) /\ Between
  BY CurRecords
<1>3. job'.at = "key" /\ UNCHANGED <<dir, node, curbuf>>
  BY DEF dofread, dofreadFails, InsFile, InsFileFails, Edit, complain, Idle, files, At
<1>4. Between' /\ Unasked' /\ ~At("dead")' /\ ~BeingRead'
  BY <1>3, Quiet DEF Busy
<1>5. ~cur.ntbf
  BY <1>1 DEF dofread, dofreadFails, InsFile, InsFileFails, Edit, At, Owns
<1>6. SUFFICES ASSUME NEW r, buf' = With(buf, curbuf, r),
                      Good(r), ~r.ntbf, r.ino = cur.ino, r.mtime = cur.mtime, r.seen = cur.seen,
                      \/ /\ cur.whole /\ r.whole /\ r.fname = cur.fname /\ r.saved = FALSE
                         /\ cur.ino \in {job.ino, 0} /\ r.text = node[job.ino].data
                      \/ /\ r.whole = cur.whole /\ r.fname = cur.fname /\ r.modified
                      \/ ~r.whole /\ IF cur.fname = NULL THEN r.ino = 0
                                     ELSE cur.fname \in Files /\ r.fname = Tmp(cur.fname)
               PROVE  Records'
  <2>1. CASE dofread
    <3>1. PICK t : t = node[job.ino].data
      OBVIOUS
    <3>2. t \in Int
      BY <1>1, <2>1, <3>1 DEF dofread, At, JobGood, Open, Job, Disk
    <3>3. PICK r : r = [cur EXCEPT !.text = t, !.whole = TRUE, !.saved = FALSE]
      OBVIOUS
    <3>4. /\ Good(r) /\ ~r.ntbf /\ r.ino = cur.ino /\ r.mtime = cur.mtime /\ r.seen = cur.seen
          /\ r.whole /\ r.fname = cur.fname /\ r.saved = FALSE /\ r.text = t
      BY <1>1, <1>5, <3>2, <3>3 DEF Good, Buffer
    <3>5. cur.whole /\ cur.ino \in {job.ino, 0}
      BY <1>1, <1>2, <2>1 DEF dofread, At, Owns, Reading_of_file, Between
    <3>6. buf' = With(buf, curbuf, r)
      BY <2>1, <3>1, <3>3 DEF dofread, With
    <3> QED BY <1>4, <1>6, <3>1, <3>4, <3>5, <3>6
  <2>2. CASE dofreadFails
    <3>1. cur.fname \in Files /\ cur.fname[2] < MaxTmp
      BY <1>1, <2>2 DEF dofreadFails, At, JobGood, Owns, Naming, Reading_of_file
    <3>2. PICK n : n = Tmp(cur.fname)
      OBVIOUS
    <3>3. n \in Files
      BY <3>1, <3>2, NamesApart
    <3>4. PICK r : r = [cur EXCEPT !.fname = n, !.scratch = TRUE, !.whole = FALSE]
      OBVIOUS
    <3>5. /\ Good(r) /\ ~r.ntbf /\ r.ino = cur.ino /\ r.mtime = cur.mtime /\ r.seen = cur.seen
          /\ ~r.whole /\ r.fname = n
      BY <1>1, <1>5, <3>3, <3>4 DEF Good, Buffer
    <3>6. buf' = With(buf, curbuf, r) /\ cur.fname # NULL
      BY <2>2, <3>1, <3>2, <3>4 DEF dofreadFails, With
    <3> QED BY <1>4, <1>6, <3>1, <3>2, <3>5, <3>6
  <2>3. CASE InsFile \/ Edit
    <3>1. PICK t : t = top'
      OBVIOUS
    <3>2. t \in Int
      BY <1>1, <2>3, <3>1 DEF InsFile, Edit
    <3>3. PICK r : r = [cur EXCEPT !.text = t, !.modified = TRUE]
      OBVIOUS
    <3>4. /\ Good(r) /\ ~r.ntbf /\ r.ino = cur.ino /\ r.mtime = cur.mtime /\ r.seen = cur.seen
          /\ r.whole = cur.whole /\ r.fname = cur.fname /\ r.modified
      BY <1>1, <1>5, <3>2, <3>3 DEF Good, Buffer
    <3>5. buf' = With(buf, curbuf, r)
      BY <2>3, <3>1, <3>3 DEF InsFile, Edit, With
    <3> QED BY <1>4, <1>6, <3>4, <3>5
  <2>4. CASE InsFileFails
    <3>1. cur.fname # NULL => cur.fname \in Files /\ cur.fname[2] < MaxTmp
      BY <1>1, <2>4 DEF InsFileFails, Buffer
    <3>2. PICK n : n = IF cur.fname = NULL THEN NULL ELSE Tmp(cur.fname)
      OBVIOUS
    <3>3. n \in Files \cup {NULL} /\ (cur.fname # NULL => n # NULL)
      BY <3>1, <3>2, NamesApart
    <3>4. PICK r : r = [cur EXCEPT !.fname = n, !.modified = TRUE, !.whole = FALSE]
      OBVIOUS
    <3>5. /\ Good(r) /\ ~r.ntbf /\ r.ino = cur.ino /\ r.mtime = cur.mtime /\ r.seen = cur.seen
          /\ ~r.whole /\ r.fname = n
      BY <1>1, <1>5, <3>3, <3>4 DEF Good, Buffer
    <3>6. cur.fname = NULL => r.ino = 0
      BY <1>1, <3>5 DEF Good
    <3>7. buf' = With(buf, curbuf, r)
      BY <2>4, <3>2, <3>4 DEF InsFileFails, With
    <3> QED BY <1>4, <1>6, <3>1, <3>2, <3>5, <3>6, <3>7
  <2> QED BY <2>1, <2>2, <2>3, <2>4
<1>7. CutFrom(dir, node, r) /\ SeenIn(dir, node, r)
  <2>1. CASE r.whole = cur.whole /\ r.fname = cur.fname
    BY <1>2, <1>6, <2>1, SameRecord
  <2>2. CASE ~r.whole /\ IF cur.fname = NULL THEN r.ino = 0
                         ELSE cur.fname \in Files /\ r.fname = Tmp(cur.fname)
    <3>1. SeenIn(dir, node, r)
      BY <1>2, <1>6, SameRecord
    <3>2. CASE r.ino = 0
      BY <3>2, NoInode
    <3>3. CASE cur.fname \in Files /\ r.fname = Tmp(cur.fname)
      <4>1. PICK d, nd, s : d = dir /\ nd = node /\ s = cur
        OBVIOUS
      <4>2. /\ r.ino = s.ino /\ r.mtime = s.mtime /\ CutFrom(d, nd, s) /\ s.fname \in Files
            /\ r.fname = Tmp(s.fname) /\ ~r.whole
        BY <1>2, <1>6, <2>2, <3>3, <4>1
      <4>3. CutFrom(d, nd, r)
        BY ONLY <4>2, CutShort
      <4> QED BY <3>1, <4>1, <4>3
    <3> QED BY <2>2, <3>2, <3>3
  <2> QED BY <1>6, <2>1, <2>2
<1>8. SavedIn(dir, node, FALSE, r)
  BY <1>6 DEF SavedIn, Same
<1> QED BY <1>3, <1>4, <1>6, <1>7, <1>8, CurTrue

(* Reading keeps what the records say.                                     *)
LEMMA ReadingTrue ==
  ASSUME Basic, Truth, ~At("dead"), Reading
  PROVE  Truth'
<1>1. CASE ReadOpenFails
  BY <1>1 DEF ReadOpenFails, Truth
<1>2. CASE ReadOpen \/ ReadStat \/ dofread \/ dofreadFails \/ InsFile \/ InsFileFails
  <2>1. gap' = gap
    BY <1>2 DEF ReadOpen, ReadStat, dofread, dofreadFails, InsFile, InsFileFails, files
  <2>2. ~gap => Records' /\ Between' /\ Unasked'
    BY <1>2, ReadOpenTrue, ReadStatTrue, FilledTrue
  <2> QED BY <2>1, <2>2 DEF Truth
<1> QED BY <1>1, <1>2 DEF Reading

-----------------------------------------------------------------------------
(* The questions of a save.                                                *)

(* Buffers that are only compared with a file keep what they say.          *)
LEMMA LooksKeep ==
  ASSUME Basic, Truth, ~gap, ~At("dead"), ~BeingRead, ~At("dead")', UNCHANGED <<dir, node>>,
         Looked(buf, buf')
  PROVE  Records'
<1>1. Records
  BY CurRecords
<1>2. \A b \in Buffers : buf'[b] # NULL => buf[b] # NULL /\ Looks(buf[b], buf'[b])
  BY DEF Looked
<1> QED BY <1>1, <1>2, RecordsKept

(* A buffer whose file do_stat finds to be unchanged has seen all of it.   *)
LEMMA TestedSeen ==
  ASSUME Basic, Truth, ~gap, ~At("dead"), NEW n \in Files, dir[n] # 0,
         NEW st, st = Stat(n), NEW bs, bs = CompareAll(buf, n, st), Matches(cur, n, st),
         NEW m, m = Matching(bs, n, st), NEW T,
         T = m \cap {curbuf} \/ (T = Last(m) /\ \A b \in m : b = curbuf),
         ~\E b \in T : bs[b].diverged
  PROVE  node[dir[n]].data = bs[curbuf].seen /\ bs[curbuf].whole
<1>1. /\ Good(cur) /\ cur = buf[curbuf] /\ buf[curbuf] # NULL /\ curbuf \in Buffers /\ AllGood(buf)
      /\ Disk /\ cur \in Buffer
  BY BasicFacts
<1>2. CutFrom(dir, node, cur) /\ SeenIn(dir, node, cur)
  BY CurRecords
<1>3. st.ino = dir[n] /\ st.mtime = node[dir[n]].mtime
  BY <1>1, StatType
<1>4. PICK r, s : r = cur /\ s = bs[curbuf]
  OBVIOUS
<1>5. s = Compared(r, n, st)
  BY <1>1, <1>4 DEF CompareAll
<1>6. Matches(s, n, st) => ~s.diverged
  <2>1. ASSUME Matches(s, n, st) PROVE curbuf \in m
    BY <1>1, <1>4, <2>1 DEF Matching, world
  <2>2. ASSUME curbuf \in m PROVE curbuf \in T
    BY <1>1, <2>2 DEF Last
  <2> QED BY <1>4, <2>1, <2>2
<1>7. r \in Buffer /\ (r.ino # 0 => r.fname \in Files)
  BY <1>1, <1>4 DEF Good, Buffer
<1>8. CASE SameInode(r, st)
  <2>1. ~LostInode(r, n, st) /\ r.ino = dir[n]
    BY <1>3, <1>4, <1>8 DEF Matches, SameInode
  <2>2. s = [r EXCEPT !.diverged = @ \/ (Matches(r, n, st) /\ r.mtime # st.mtime)]
    BY <1>3, <1>5, <2>1 DEF Compared
  <2>3. /\ s.ino = r.ino /\ s.fname = r.fname /\ s.seen = r.seen /\ s.whole = r.whole
        /\ (r.mtime # st.mtime => s.diverged)
    BY <1>4, <1>7, <2>2 DEF Buffer
  <2>4. Matches(s, n, st)
    BY <1>8, <2>1, <2>3 DEF Matches, SameInode, LostInode
  <2>5. Same(dir, node, r, n)
    BY <1>3, <1>6, <2>1, <2>3, <2>4 DEF Same
  <2>6. node[dir[n]].data = s.seen
    BY <1>2, <1>4, <2>1, <2>3, <2>5 DEF SeenIn
  <2>7. s.whole
    <3>1. SUFFICES ASSUME ~r.whole PROVE FALSE
      BY <2>3
    <3>2. n[2] < r.fname[2]
      BY <1>2, <1>4, <2>5, <3>1 DEF CutFrom
    <3>3. r.fname \in Files /\ \A f \in Files : f[2] \in Nat
      BY <1>7, <2>5, NamesApart DEF Same
    <3>4. r.fname # n
      BY <3>2, <3>3
    <3>5. dir[r.fname] = r.ino
      BY <1>8, <2>1, <3>4 DEF LostInode
    <3>6. Same(dir, node, r, r.fname)
      BY <2>5, <3>5 DEF Same
    <3>7. r.fname[2] < r.fname[2]
      BY <1>2, <1>4, <3>1, <3>3, <3>6 DEF CutFrom
    <3> QED BY <3>3, <3>7
  <2> QED BY <1>4, <2>6, <2>7
<1>9. CASE ~SameInode(r, st)
  <2>1. r.fname = n /\ r.ino # st.ino
    BY <1>3, <1>4, <1>9 DEF Matches, SameInode
  <2>2. s = [r EXCEPT !.ino = 0, !.diverged = TRUE]
    BY <1>4, <1>5, <2>1 DEF Compared
  <2>3. s.ino = 0 /\ s.fname = n /\ s.diverged
    BY <1>7, <2>1, <2>2 DEF Buffer
  <2>4. Matches(s, n, st)
    BY <2>3 DEF Matches, SameInode
  <2> QED BY <1>6, <2>3, <2>4
<1> QED BY <1>8, <1>9

(* What is written without a question is at risk, and has been seen.       *)
LEMMA ProceedTrue ==
  ASSUME Basic, Truth, ~gap, job.at \in {"munge", "overwrite?", "diverged?", "prime"},
         NEW asked \in BOOLEAN, NEW bs, AllGood(bs), Looked(buf, bs), Proceed(bs, asked),
         UNCHANGED <<files, curbuf>>,
         ~asked /\ dir[job.name] # 0 /\ job.cmd # "read"
           /\ (job.cmd = "region" =>
                 \A b \in world : Matches(bs[b], job.name, Stat(job.name)) => b = curbuf)
           => node[dir[job.name]].data = bs[curbuf].seen /\ bs[curbuf].whole
  PROVE  Records' /\ Between' /\ Unasked'
<1>1. /\ curbuf \in Buffers /\ cur = buf[curbuf] /\ job \in Job /\ JobGood(job, buf) /\ Disk
      /\ buf[curbuf] # NULL
  BY BasicFacts
<1>2. /\ bs[curbuf] # NULL /\ Good(bs[curbuf])
      /\ \A b \in Buffers : buf[b] # NULL => bs[b] # NULL
  BY LookedFacts
<1>3. job.name \in Files /\ ~At("dead") /\ ~BeingRead
  BY <1>1 DEF JobGood, Naming, Overwriting, At, BeingRead
<1>4. PICK a : a = CASE job.cmd = "read" -> "reload"
                     [] job.cmd # "read" /\ BkupOnWrite -> "backup"
                     [] OTHER -> "open"
  OBVIOUS
<1>5. a \in {"reload", "backup", "open"} /\ (job.cmd = "read" => a = "reload")
  BY <1>4
<1>6. job'.at = a /\ job'.name = job.name /\ job'.cmd = job.cmd /\ job'.asked = asked
  BY <1>1, <1>4, <1>5 DEF Proceed, Job
<1>7. Between' /\ ~At("dead")'
  <2>1. /\ job'.at # "rstat" /\ job'.at # "rread" /\ job'.at # "put" /\ job'.at # "close"
        /\ job'.at # "stat" /\ job'.at # "dead"
    BY <1>5, <1>6
  <2> QED BY <2>1 DEF Between, At
<1>8. CASE job.cmd = "write"
  <2>1. PICK x, n, s : x = bs[curbuf] /\ n = job.name /\ s = setfname(x, n)
    OBVIOUS
  <2>2. Good(s) /\ s.ino = 0 /\ s.seen = x.seen /\ s.whole = x.whole /\ s.ntbf = x.ntbf
    <3>1. Good(x) /\ n \in Files /\ Disk
      BY <1>1, <1>2, <1>3, <2>1
    <3> QED BY ONLY <2>1, <3>1, Named
  <2>3. PICK r : r = [s EXCEPT !.scratch = FALSE]
    OBVIOUS
  <2>4. r \in Buffer /\ r.ino = 0 /\ r.seen = x.seen /\ r.whole = x.whole
    BY <2>2, <2>3 DEF Good, Buffer
  <2>5. PICK old : old = buf'
    OBVIOUS
  <2>6. /\ old = With(bs, curbuf, r) /\ bs \in [Buffers -> Buffer \cup {NULL}]
    BY <1>8, <2>1, <2>3, <2>5 DEF Proceed, With, AllGood
  <2>7. old[curbuf] = r /\ \A b \in Buffers \ {curbuf} : old[b] = bs[b]
    BY <1>1, <2>4, <2>6 DEF With
  <2>8. Records /\ UNCHANGED <<dir, node>>
    BY <1>3, CurRecords DEF files
  <2>9. ASSUME NEW b \in Buffers, buf'[b] # NULL
        PROVE  \/ /\ buf[b] # NULL /\ Looks(buf[b], buf'[b])
                  /\ b = curbuf /\ BeingRead => b = curbuf' /\ BeingRead'
               \/ /\ CutFrom(dir, node, buf'[b]) /\ SeenIn(dir, node, buf'[b])
                  /\ ~(b = curbuf' /\ BeingRead') => SavedIn(dir, node, FALSE, buf'[b])
    <3>1. CASE b = curbuf
      <4>1. CutFrom(dir, node, r) /\ SeenIn(dir, node, r) /\ SavedIn(dir, node, FALSE, r)
        BY <2>4, NoInode
      <4> QED BY <2>5, <2>7, <3>1, <4>1
    <3>2. CASE b # curbuf
      BY <2>5, <2>7, <2>9, <3>2 DEF Looked
    <3> QED BY <3>1, <3>2
  <2>10. Records'
    BY <1>3, <1>7, <2>8, <2>9, RecordsKept
  <2>11. Unasked'
    <3>1. ASSUME AtRisk' PROVE node'[dir'[job'.name]].data = cur'.seen /\ cur'.whole
      <4>1. cur' = r
        BY <2>5, <2>7 DEF cur
      <4>2. dir[job.name] # 0 /\ ~asked
        BY <1>6, <2>8, <3>1 DEF AtRisk
      <4> QED BY <1>6, <1>8, <2>1, <2>4, <2>8, <4>1, <4>2
    <3> QED BY <3>1 DEF Unasked
  <2> QED BY <1>7, <2>10, <2>11
<1>9. CASE job.cmd # "write"
  <2>1. buf' = bs /\ UNCHANGED <<dir, node, curbuf>>
    BY <1>9 DEF Proceed, files
  <2>2. Records'
    BY <1>3, <1>7, <2>1, LooksKeep
  <2>3. Unasked'
    <3>1. ASSUME AtRisk' PROVE node'[dir'[job'.name]].data = cur'.seen /\ cur'.whole
      <4>1. cur' = bs[curbuf]
        BY <2>1 DEF cur
      <4>2. dir[job.name] # 0 /\ ~asked /\ job.cmd # "read"
        BY <1>5, <1>6, <2>1, <3>1 DEF AtRisk
      <4>3. ASSUME job.cmd = "region", NEW b \in world, Matches(bs[b], job.name, Stat(job.name))
            PROVE  b = curbuf
        <5>1. OnlyCurrent'
          BY <1>6, <3>1, <4>3 DEF AtRisk
        <5>2. Stat(job.name)' = Stat(job.name)
          BY <1>6, <2>1 DEF Stat
        <5>3. Matches(buf[b], job.name, Stat(job.name))'
          BY <1>6, <2>1, <4>3, <5>2 DEF Matches, SameInode, LostInode
        <5>4. b \in world'
          BY <1>2, <2>1, <4>3 DEF world
        <5> QED BY <2>1, <5>1, <5>3, <5>4 DEF OnlyCurrent
      <4> QED BY <1>6, <2>1, <4>1, <4>2, <4>3
    <3> QED BY <3>1 DEF Unasked
  <2> QED BY <1>7, <2>2, <2>3
<1> QED BY <1>8, <1>9

(* A step in which the buffers are at most compared, and JOVE has no file  *)
(* in hand.                                                                *)
LEMMA QuietTrue ==
  ASSUME Basic, Truth, ~gap, ~At("dead"), ~BeingRead, job'.at \notin Busy, UNCHANGED <<dir, node>>,
         UNCHANGED buf \/ Looked(buf, buf')
  PROVE  Records' /\ Between' /\ Unasked'
<1>1. Between' /\ Unasked' /\ ~At("dead")'
  BY Quiet
<1>2. Looked(buf, buf')
  <2>1. ASSUME NEW b \in Buffers, buf[b] # NULL PROVE Looks(buf[b], buf[b])
    BY DEF Looks
  <2> QED BY <2>1 DEF Looked
<1>3. Records'
  BY <1>1, <1>2, LooksKeep
<1> QED BY <1>1, <1>3

(* The questions keep what the records say.                                *)
LEMMA QuestionsTrue ==
  ASSUME Basic, Truth, ~At("dead"), filemunge \/ ConfirmOverwrite \/ ConfirmDiverged \/ PrimeCache
  PROVE  Truth'
<1>1. /\ job \in Job /\ JobGood(job, buf) /\ AllGood(buf) /\ curbuf \in Buffers
      /\ buf[curbuf] # NULL /\ cur = buf[curbuf] /\ Disk
  BY BasicFacts
<1>2. job.at \in {"munge", "overwrite?", "diverged?", "prime"} /\ UNCHANGED <<files, curbuf>>
  BY DEF filemunge, ConfirmOverwrite, ConfirmDiverged, PrimeCache, At
<1>3. job.name \in Files /\ ~BeingRead /\ gap' = gap
  BY <1>1, <1>2 DEF JobGood, Naming, Overwriting, BeingRead, At, files
<1>4. SUFFICES ASSUME ~gap PROVE Records' /\ Between' /\ Unasked'
  BY <1>3 DEF Truth
<1>5. PICK st : st = Stat(job.name)
  OBVIOUS
<1>6. PICK bs : bs = CompareAll(buf, job.name, st)
  OBVIOUS
<1>7. AllGood(bs) /\ Looked(buf, bs)
  <2>1. PICK n : n = job.name
    OBVIOUS
  <2> QED BY <1>6, <2>1, CompareCurrent
<1>8. ASSUME job'.at \in {"key", "overwrite?", "diverged?"}, buf' \in {buf, bs}
      PROVE  Records' /\ Between' /\ Unasked'
  BY <1>2, <1>3, <1>4, <1>7, <1>8, QuietTrue DEF Busy, files
<1>9. CASE complain /\ UNCHANGED buf
  BY <1>8, <1>9 DEF complain, Idle
<1>10. CASE Proceed(bs, TRUE)
  BY <1>2, <1>4, <1>7, <1>10, ProceedTrue
<1>11. ASSUME NEW asked \in BOOLEAN, \E b \in Tested(bs, st) : bs[b].diverged,
              chk_divergence(bs, st, asked)
       PROVE  Records' /\ Between' /\ Unasked'
  <2>1. buf' = bs /\ job' = [job EXCEPT !.asked = asked, !.at = "diverged?"]
    BY <1>11 DEF chk_divergence
  <2> QED BY <1>1, <1>8, <2>1 DEF Job
<1>12. CASE chk_divergence(bs, st, TRUE)
  BY <1>10, <1>11, <1>12 DEF chk_divergence
<1>13. CASE PrimeCache
  <2>1. job.cmd = "read"
    BY <1>1, <1>13 DEF PrimeCache, At, JobGood
  <2>2. chk_divergence(bs, st, FALSE)
    BY <1>5, <1>6, <1>13 DEF PrimeCache
  <2>3. CASE Proceed(bs, FALSE)
    BY <1>2, <1>4, <1>7, <2>1, <2>3, ProceedTrue
  <2> QED BY <1>11, <2>2, <2>3 DEF chk_divergence
<1>14. CASE filemunge
  <2>1. CASE buf' = bs /\ Go("overwrite?")
    BY <1>1, <1>8, <2>1 DEF Go, Job
  <2>2. CASE chk_divergence(bs, st, FALSE) /\ ~(st.ino # 0 /\ ~Matches(buf[curbuf], job.name, st))
    <3>1. CASE Proceed(bs, FALSE) /\ ~\E b \in Tested(bs, st) : bs[b].diverged
      <4>1. PICK n, m, T : n = job.name /\ m = Matching(bs, n, st) /\ T = Tested(bs, st)
        OBVIOUS
      <4>2. ASSUME dir[n] # 0,
                   job.cmd = "region" => \A b \in world : Matches(bs[b], n, st) => b = curbuf
            PROVE  node[dir[n]].data = bs[curbuf].seen /\ bs[curbuf].whole
        <5>1. n \in Files /\ st = Stat(n) /\ bs = CompareAll(buf, n, st)
          BY <1>3, <1>5, <1>6, <4>1
        <5>2. Matches(cur, n, st)
          BY <1>1, <2>2, <4>1, <4>2, <5>1, StatType
        <5>3. T = m \cap {curbuf} \/ (T = Last(m) /\ \A b \in m : b = curbuf)
          BY <4>1, <4>2 DEF Tested, Matching
        <5>4. ~\E b \in T : bs[b].diverged
          BY <3>1, <4>1
        <5>5. Basic /\ Truth /\ ~gap /\ ~At("dead")
          BY <1>4
        <5> QED BY ONLY <4>1, <4>2, <5>1, <5>2, <5>3, <5>4, <5>5, TestedSeen
      <4> QED BY <1>2, <1>4, <1>5, <1>7, <3>1, <4>1, <4>2, ProceedTrue
    <3> QED BY <1>11, <2>2, <3>1 DEF chk_divergence
  <2> QED BY <1>5, <1>6, <1>14, <2>1, <2>2 DEF filemunge
<1>15. CASE ConfirmOverwrite
  BY <1>5, <1>6, <1>9, <1>12, <1>15 DEF ConfirmOverwrite
<1>16. CASE ConfirmDiverged
  BY <1>5, <1>6, <1>9, <1>10, <1>16 DEF ConfirmDiverged
<1> QED BY <1>13, <1>14, <1>15, <1>16

-----------------------------------------------------------------------------
(* The rest of saving and the commands.                                    *)

(* SaveFile looks at the file.                                             *)
LEMMA SaveFileTrue ==
  ASSUME Basic, Truth, SaveFile
  PROVE  Truth'
<1>1. At("save") /\ UNCHANGED <<files, curbuf>> /\ job \in Job
  BY BasicFacts DEF SaveFile
<1>2. ~At("dead") /\ ~BeingRead /\ gap' = gap
  BY <1>1 DEF At, BeingRead, files
<1>3. PICK bs : bs = CompareAll(buf, cur.fname, Stat(cur.fname))
  OBVIOUS
<1>4. Looked(buf, bs)
  <2>1. PICK n, st : n = cur.fname /\ st = Stat(cur.fname)
    OBVIOUS
  <2> QED BY <1>3, <2>1, CompareCurrent
<1>5. buf' \in {buf, bs}
  BY <1>3 DEF SaveFile
<1>6. job'.at \in {"prime", "bufs", "key", "munge"}
  <2>1. CASE Next_of_job
    BY <1>1, <2>1 DEF Next_of_job, New, Idle, Job
  <2>2. CASE \E c, n : job' = [job EXCEPT !.cmd = c, !.at = "munge", !.name = n]
    BY <1>1, <2>2 DEF Job
  <2>3. CASE \E n : job' = [job EXCEPT !.at = "munge", !.name = n]
    BY <1>1, <2>3 DEF Job
  <2> QED BY <2>1, <2>2, <2>3 DEF SaveFile
<1>7. ~gap => Records' /\ Between' /\ Unasked'
  BY <1>1, <1>2, <1>4, <1>5, <1>6, QuietTrue DEF Busy, files
<1> QED BY <1>2, <1>7 DEF Truth

(* The buffer has been saved, or is to be filled again.                    *)
LEMMA SavedTrue ==
  ASSUME Basic, Truth, Saved \/ Reload
  PROVE  Truth'
<1>1. /\ job \in Job /\ JobGood(job, buf) /\ Owns(job, cur) /\ curbuf \in Buffers
      /\ buf[curbuf] # NULL /\ cur = buf[curbuf] /\ Good(cur) /\ cur \in Buffer /\ Disk
  BY BasicFacts
<1>2. /\ UNCHANGED <<dir, node, curbuf>> /\ gap' = gap /\ ~cur.ntbf /\ job.name \in Files
      /\ ~At("dead") /\ ~BeingRead
  BY <1>1 DEF Saved, Reload, Owns, At, JobGood, Naming, Overwriting, Saving_of_file, files, BeingRead
<1>3. SUFFICES ASSUME ~gap PROVE Records' /\ Between' /\ Unasked'
  BY <1>2 DEF Truth
<1>4. Records /\ Between
  BY <1>2, <1>3, CurRecords
<1>5. job'.at \in {"prime", "bufs", "key", "ropen"}
  <2>1. CASE Next_of_job
    BY <1>1, <2>1 DEF Next_of_job, New, Idle, Job
  <2>2. CASE Go("ropen")
    BY <1>1, <2>2 DEF Go, Job
  <2> QED BY <2>1, <2>2 DEF Saved, Reload
<1>6. Between' /\ Unasked' /\ ~At("dead")' /\ ~BeingRead'
  BY <1>5, Quiet DEF Busy
<1>7. CASE Saved
  <2>1. /\ At("stat") /\ cur.fname = job.name /\ dir[job.name] = job.ino /\ job.ino # 0
        /\ node[job.ino].data = cur.text /\ node[job.ino].synced
    BY <1>1, <1>4, <1>7 DEF Saved, At, Owns, JobGood, Saving_of_file, Overwriting, Open, Between
  <2>2. PICK st, n, t, x : st = Stat(cur.fname) /\ n = cur.fname /\ t = cur.text /\ x = cur
    OBVIOUS
  <2>3. PICK q : q = SetRecord(x, st, t)
    OBVIOUS
  <2>4. /\ Good(q) /\ q.fname = n /\ q.ntbf = x.ntbf /\ q.seen = t /\ q.text = x.text
        /\ q.ino = dir[n]
    <3>1. Good(x) /\ n \in Files /\ t \in Int /\ x.fname = n /\ st = Stat(n) /\ Disk
      BY <1>1, <1>2, <2>1, <2>2 DEF Buffer
    <3> QED BY ONLY <2>3, <3>1, RecordSet
  <2>5. PICK r : r = [q EXCEPT !.modified = FALSE, !.whole = TRUE, !.saved = TRUE]
    OBVIOUS
  <2>6. /\ Good(r) /\ r.fname = n /\ ~r.ntbf /\ r.whole /\ r.seen = t /\ r.text = t
        /\ r.ino = dir[n]
    BY <1>2, <2>2, <2>4, <2>5 DEF Good, Buffer
  <2>7. PICK bs : bs = With(buf, curbuf, r)
    OBVIOUS
  <2>8. PICK cs : cs = CompareAll(bs, n, st)
    OBVIOUS
  <2>9. buf' = cs
    BY <1>7, <2>2, <2>3, <2>5, <2>7, <2>8 DEF Saved, With
  <2>10. /\ Looked(bs, cs) /\ bs[curbuf] = r /\ \A c \in Buffers \ {curbuf} : bs[c] = buf[c]
         /\ cs[curbuf] # NULL /\ Looks(r, cs[curbuf])
    BY <1>2, <2>1, <2>2, <2>6, <2>7, <2>8, StatSet
  <2>11. CutFrom(dir, node, r) /\ SeenIn(dir, node, r) /\ SavedIn(dir, node, FALSE, r)
    <3>1. n \in Files /\ r.seen = Contents(n)
      BY <1>2, <2>1, <2>2, <2>6 DEF Contents
    <3>2. SavedIn(dir, node, FALSE, r)
      BY <2>1, <2>2, <2>6 DEF SavedIn
    <3> QED BY <2>6, <3>1, <3>2, SetTrue
  <2>12. CutFrom(dir, node, cs[curbuf]) /\ SeenIn(dir, node, cs[curbuf]) /\ SavedIn(dir, node, FALSE, cs[curbuf])
    <3>1. PICK d, nd, s : d = dir /\ nd = node /\ s = cs[curbuf]
      OBVIOUS
    <3>2. Looks(r, s) /\ CutFrom(d, nd, r) /\ SeenIn(d, nd, r) /\ SavedIn(d, nd, FALSE, r)
      BY <2>10, <2>11, <3>1
    <3>3. CutFrom(d, nd, s) /\ SeenIn(d, nd, s) /\ SavedIn(d, nd, FALSE, s)
      BY ONLY <3>2, LooksTrue
    <3> QED BY <3>1, <3>3
  <2>13. ASSUME NEW b \in Buffers, buf'[b] # NULL
         PROVE  \/ /\ buf[b] # NULL /\ Looks(buf[b], buf'[b])
                   /\ b = curbuf /\ BeingRead => b = curbuf' /\ BeingRead'
                \/ /\ CutFrom(dir, node, buf'[b]) /\ SeenIn(dir, node, buf'[b])
                   /\ ~(b = curbuf' /\ BeingRead') => SavedIn(dir, node, FALSE, buf'[b])
    <3>1. CASE b = curbuf
      BY <2>9, <2>12, <3>1
    <3>2. CASE b # curbuf
      BY <2>9, <2>10, <2>13, <3>2 DEF Looked
    <3> QED BY <3>1, <3>2
  <2> QED BY <1>2, <1>4, <1>6, <2>13, RecordsKept
<1>8. CASE Reload
  <2>1. PICK q, x, n : q = setfname(x, n) /\ x = cur /\ n = job.name
    OBVIOUS
  <2>2. Good(q) /\ q.fname = n /\ q.ntbf = x.ntbf /\ q.ino = 0
    <3>1. Good(x) /\ n \in Files /\ Disk
      BY <1>1, <1>2, <2>1
    <3> QED BY ONLY <2>1, <3>1, Named
  <2>3. PICK r : r = [q EXCEPT !.text = 0, !.modified = FALSE, !.whole = TRUE]
    OBVIOUS
  <2>4. Good(r) /\ ~r.ntbf /\ r.ino = 0
    <3>1. q \in Buffer /\ ~q.ntbf /\ 0 \in Int
      BY <1>2, <2>1, <2>2 DEF Good
    <3>2. r \in Buffer /\ r.fname = q.fname /\ r.ntbf = q.ntbf /\ r.mtime = q.mtime /\ r.ino = q.ino
      BY ONLY <2>3, <3>1 DEF Buffer
    <3> QED BY <2>2, <3>1, <3>2 DEF Good
  <2>5. buf' = With(buf, curbuf, r)
    BY <1>8, <2>1, <2>3 DEF Reload, With
  <2>6. CutFrom(dir, node, r) /\ SeenIn(dir, node, r) /\ SavedIn(dir, node, FALSE, r)
    BY <2>4, NoInode
  <2>7. Records'
    BY <1>2, <1>3, <1>6, <2>4, <2>5, <2>6, CurTrue
  <2> QED BY <1>6, <2>7
<1> QED BY <1>7, <1>8

(* put_bufs may give a buffer a name.                                      *)
LEMMA PutBufsTrue ==
  ASSUME Basic, Truth, put_bufs
  PROVE  Truth'
<1>1. /\ job \in Job /\ JobGood(job, buf) /\ AllGood(buf) /\ Disk
  BY BasicFacts
<1>2. UNCHANGED <<dir, node>> /\ gap' = gap /\ At("bufs") /\ ~At("dead") /\ ~BeingRead
  BY DEF put_bufs, At, files, BeingRead
<1>3. SUFFICES ASSUME ~gap PROVE Records' /\ Between' /\ Unasked'
  BY <1>2 DEF Truth
<1>4. job'.at \in {"key", "bufs", "save"}
  <2>1. CASE job' = Idle
    BY <2>1 DEF Idle
  <2>2. ASSUME NEW T, job' = [job EXCEPT !.todo = T] PROVE job'.at = "bufs"
    BY <1>1, <1>2, <2>2 DEF Job, At
  <2>3. ASSUME NEW T, job' = [job EXCEPT !.todo = T, !.at = "save"] PROVE job'.at = "save"
    BY <1>1, <2>3 DEF Job
  <2>4. \/ job' = Idle
        \/ \E T : job' = [job EXCEPT !.todo = T] \/ job' = [job EXCEPT !.todo = T, !.at = "save"]
    BY DEF put_bufs
  <2> QED BY <2>1, <2>2, <2>3, <2>4
<1>5. CASE UNCHANGED buf
  BY <1>2, <1>3, <1>4, <1>5, QuietTrue DEF Busy
<1>6. ASSUME NEW b \in First(job.todo), NEW n \in Names, buf' = [buf EXCEPT ![b] = setfname(buf[b], n)]
      PROVE  Records' /\ Between' /\ Unasked'
  <2>1. Between' /\ Unasked' /\ ~At("dead")' /\ ~BeingRead'
    BY <1>4, Quiet DEF Busy
  <2>2. b \in Buffers /\ buf[b] # NULL /\ Good(buf[b])
    BY <1>1 DEF First, JobGood, Job, AllGood
  <2>3. PICK x, r : x = buf[b] /\ r = setfname(x, n)
    OBVIOUS
  <2>4. r.ino = 0
    <3>1. Disk /\ Good(x) /\ n \in Files
      BY <1>1, <2>2, <2>3, NamesApart
    <3> QED BY ONLY <2>3, <3>1, Named
  <2>5. PICK old, cs : old = buf /\ cs = buf'
    OBVIOUS
  <2>6. cs = [old EXCEPT ![b] = r] /\ old \in [Buffers -> Buffer \cup {NULL}]
    BY <1>1, <1>6, <2>3, <2>5 DEF AllGood
  <2>7. cs[b] = r /\ \A c \in Buffers \ {b} : cs[c] = old[c]
    BY <2>2, <2>6
  <2>8. ASSUME NEW c \in Buffers, buf'[c] # NULL
        PROVE  \/ /\ buf[c] # NULL /\ Looks(buf[c], buf'[c])
                  /\ c = curbuf /\ BeingRead => c = curbuf' /\ BeingRead'
               \/ /\ CutFrom(dir, node, buf'[c]) /\ SeenIn(dir, node, buf'[c])
                  /\ ~(c = curbuf' /\ BeingRead') => SavedIn(dir, node, FALSE, buf'[c])
    <3>1. CASE c = b
      <4>1. CutFrom(dir, node, r) /\ SeenIn(dir, node, r) /\ SavedIn(dir, node, FALSE, r)
        BY <2>4, NoInode
      <4> QED BY <2>5, <2>7, <3>1, <4>1
    <3>2. CASE c # b
      BY <1>2, <2>5, <2>7, <2>8, <3>2 DEF Looks
    <3> QED BY <3>1, <3>2
  <2>9. Records
    BY <1>2, <1>3, CurRecords
  <2> QED BY <1>2, <2>1, <2>8, <2>9, RecordsKept
<1> QED BY <1>5, <1>6 DEF put_bufs

(* A buffer is made for a file, to be filled from it.                      *)
LEMMA FindFileTrue ==
  ASSUME Basic, Truth, NEW n \in Names, NEW force \in BOOLEAN, FindFile(n, force)
  PROVE  Truth'
<1>1. AllGood(buf) /\ Disk /\ now \in Nat
  BY BasicFacts
<1>2. /\ UNCHANGED <<dir, node>> /\ gap' = gap /\ n \in Files /\ ~At("dead") /\ ~BeingRead
  BY NamesApart DEF FindFile, Start, At, files, BeingRead
<1>3. SUFFICES ASSUME ~gap PROVE Records' /\ Between' /\ Unasked'
  BY <1>2 DEF Truth
<1>4. PICK st : st = Stat(n)
  OBVIOUS
<1>5. PICK bs : bs = CompareAll(buf, n, st)
  OBVIOUS
<1>6. AllGood(bs) /\ Looked(buf, bs)
  BY <1>5, CompareCurrent
<1>7. job'.at \in {"key", "ropen"}
  <2>1. \A m : New("ropen", m).at = "ropen"
    BY DEF New, Idle
  <2>2. Idle.at = "key"
    BY DEF Idle
  <2>3. CASE job' = IF force THEN New("ropen", n) ELSE Idle
    BY <2>1, <2>2, <2>3
  <2>4. CASE \E b : job' = IF force /\ buf[b].ntbf THEN New("ropen", buf[b].fname) ELSE Idle
    BY <2>1, <2>2, <2>4
  <2> QED BY <2>3, <2>4 DEF FindFile
<1>8. Between' /\ Unasked' /\ ~At("dead")' /\ ~BeingRead'
  BY <1>7, Quiet DEF Busy
<1>9. CASE buf' = bs
  BY <1>2, <1>3, <1>6, <1>7, <1>9, QuietTrue DEF Busy
<1>10. ASSUME NEW new \in First(Buffers \ world),
              buf' = [bs EXCEPT ![new] =
                      [SetRecord(setfname(NewBuf, n), st, Contents(n)) EXCEPT !.ntbf = TRUE]]
       PROVE  Records'
  <2>1. new \in Buffers /\ buf[new] = NULL
    BY DEF First, world
  <2>2. PICK r : r = [SetRecord(setfname(NewBuf, n), st, Contents(n)) EXCEPT !.ntbf = TRUE]
    OBVIOUS
  <2>3. r.fname = n /\ r.whole /\ r.ntbf /\ r.ino = st.ino /\ r.seen = Contents(n)
    BY <2>2 DEF SetRecord, setfname, NewBuf
  <2>4. CutFrom(dir, node, r) /\ SeenIn(dir, node, r) /\ SavedIn(dir, node, FALSE, r)
    <3>1. r.ino = dir[n]
      BY <1>1, <1>2, <1>4, <2>3, StatType
    <3>2. SavedIn(dir, node, FALSE, r)
      BY <2>3 DEF SavedIn
    <3> QED BY <1>2, <2>3, <3>1, <3>2, SetTrue
  <2>5. PICK cs : cs = buf'
    OBVIOUS
  <2>6. cs = [bs EXCEPT ![new] = r] /\ bs \in [Buffers -> Buffer \cup {NULL}]
    BY <1>6, <1>10, <2>2, <2>5 DEF AllGood
  <2>7. cs[new] = r /\ \A c \in Buffers \ {new} : cs[c] = bs[c]
    BY <2>1, <2>6
  <2>8. ASSUME NEW c \in Buffers, buf'[c] # NULL
        PROVE  \/ /\ buf[c] # NULL /\ Looks(buf[c], buf'[c])
                  /\ c = curbuf /\ BeingRead => c = curbuf' /\ BeingRead'
               \/ /\ CutFrom(dir, node, buf'[c]) /\ SeenIn(dir, node, buf'[c])
                  /\ ~(c = curbuf' /\ BeingRead') => SavedIn(dir, node, FALSE, buf'[c])
    <3>1. CASE c = new
      BY <2>4, <2>5, <2>7, <3>1
    <3>2. CASE c # new
      BY <1>2, <1>6, <2>5, <2>7, <2>8, <3>2 DEF Looked
    <3> QED BY <3>1, <3>2
  <2>9. Records
    BY <1>2, <1>3, CurRecords
  <2> QED BY <1>2, <1>8, <2>8, <2>9, RecordsKept
<1> QED BY <1>4, <1>5, <1>8, <1>9, <1>10 DEF FindFile

(* The other commands only begin; what is appended overwrites nothing.     *)
LEMMA CommandsTrue ==
  ASSUME Basic, Truth, Commands
  PROVE  Truth'
<1>1. ASSUME NEW n \in Names, NEW force \in BOOLEAN, FindFile(n, force) PROVE Truth'
  BY <1>1, FindFileTrue
<1>2. CASE Edit
  <2>1. gap' = gap /\ ~At("dead")
    BY <1>2 DEF Edit, At
  <2> QED BY <1>2, <2>1, FilledTrue DEF Truth
<1>3. ASSUME UNCHANGED <<files, buf>>, At("key"), job'.at \notin Busy PROVE Truth'
  <2>1. ~At("dead") /\ ~BeingRead /\ gap' = gap /\ UNCHANGED <<dir, node>>
    BY <1>3 DEF At, BeingRead, files
  <2> QED BY <1>3, <2>1, QuietTrue DEF Truth
<1>4. ASSUME NEW b \in Buffers, SelectBuf(b) PROVE Truth'
  <2>1. job'.at \in {"ropen", "key"}
    BY <1>4 DEF SelectBuf, New, Idle
  <2> QED BY <1>3, <1>4, <2>1 DEF SelectBuf, Start, Busy
<1>5. ASSUME NEW n \in Names, JWriteFile(n) \/ WrtReg(n) \/ InsertCommand(n) \/ JReadFile(n)
      PROVE  Truth'
  <2>1. job'.at \in {"munge", "insert", "prime", "save"}
    BY <1>5 DEF JWriteFile, WrtReg, InsertCommand, JReadFile, New, Idle
  <2> QED BY <1>3, <1>5, <2>1 DEF JWriteFile, WrtReg, InsertCommand, JReadFile, Start, Busy
<1>6. ASSUME NEW n \in Names, AppReg(n) PROVE Truth'
  <2>1. ~At("dead") /\ ~BeingRead /\ gap' = gap /\ UNCHANGED <<dir, node, buf>>
    BY <1>6 DEF AppReg, Start, At, BeingRead, files
  <2>2. job'.at = "open" /\ job'.cmd = "append"
    BY <1>6 DEF AppReg, New, Idle
  <2>3. Unasked' /\ ~At("dead")'
    BY <2>2 DEF Unasked, AtRisk, At
  <2>4. Between'
    BY <2>2 DEF Between, At
  <2>5. Looked(buf, buf')
    <3>1. ASSUME NEW b \in Buffers, buf[b] # NULL PROVE Looks(buf[b], buf[b])
      BY DEF Looks
    <3> QED BY <2>1, <3>1 DEF Looked
  <2>6. ~gap => Records'
    BY <2>1, <2>3, <2>5, LooksKeep
  <2> QED BY <2>1, <2>3, <2>4, <2>6 DEF Truth
<1>7. CASE SaveCommand \/ WtModBuf
  <2>1. job'.at \in {"save", "bufs"}
    BY <1>7 DEF SaveCommand, WtModBuf, New, Idle
  <2> QED BY <1>3, <1>7, <2>1 DEF SaveCommand, WtModBuf, Start, Busy
<1> QED BY <1>1, <1>2, <1>4, <1>5, <1>6, <1>7 DEF Commands

-----------------------------------------------------------------------------
(* The system calls of a save.                                             *)

(* The backup touches no file's inode.                                     *)
LEMMA BackupTrue ==
  ASSUME Basic, Truth, file_backup \/ CopyBackup \/ SyncBackup
  PROVE  Truth'
<1>1. /\ job \in Job /\ JobGood(job, buf) /\ AllGood(buf) /\ Disk /\ curbuf \in Buffers
  BY BasicFacts
<1>2. /\ UNCHANGED <<buf, curbuf>> /\ gap' = gap /\ job.at \in {"backup", "copy", "sync"}
      /\ job.name \in Files /\ ~At("dead") /\ ~BeingRead
  BY <1>1 DEF file_backup, CopyBackup, SyncBackup, At, JobGood, Naming, Overwriting, Saving_of_file, BeingRead
<1>3. SUFFICES ASSUME ~gap PROVE Records' /\ Between' /\ Unasked'
  BY <1>2 DEF Truth
<1>4. \/ job' = Idle
      \/ /\ job'.at \in {"copy", "sync", "open"}
         /\ job'.name = job.name /\ job'.cmd = job.cmd /\ job'.asked = job.asked
  BY <1>1 DEF file_backup, CopyBackup, SyncBackup, Go, complain, Job
<1>5. ASSUME NEW x \in Files PROVE dir'[x] = dir[x] /\ (dir[x] # 0 => node'[dir[x]] = node[dir[x]])
  <2>1. x \in AllNames /\ Bak(job.name) \in AllNames /\ x # Bak(job.name) /\ dir[x] \in Inodes \cup {0}
    BY <1>1, <1>2, NamesApart DEF Disk
  <2>2. CASE file_backup
    <3>1. CASE UNCHANGED <<dir, node>>
      BY <3>1
    <3>2. CASE dir' = [dir EXCEPT ![Bak(job.name)] = 0] /\ UNCHANGED node
      BY <1>1, <2>1, <3>2 DEF Disk
    <3>3. ASSUME NEW i \in Fresh, dir' = [dir EXCEPT ![Bak(job.name)] = i], node' = [node EXCEPT ![i] = Empty]
          PROVE  dir'[x] = dir[x] /\ (dir[x] # 0 => node'[dir[x]] = node[dir[x]])
      <4>1. dir[x] # i
        BY <2>1, FreshApart
      <4> QED BY <1>1, <2>1, <3>3, <4>1 DEF Disk
    <3> QED BY <2>2, <3>1, <3>2, <3>3 DEF file_backup
  <2>3. CASE CopyBackup \/ SyncBackup
    <3>1. CASE UNCHANGED node
      BY <2>3, <3>1 DEF CopyBackup, SyncBackup
    <3>2. PICK i, t, nodes : i = dir[Bak(job.name)] /\ t = node[job.ino].data /\ nodes = node'
      OBVIOUS
    <3>3. CASE nodes = [node EXCEPT ![i].data = t] \/ nodes = [node EXCEPT ![i].synced = TRUE]
      <4>1. t \in Int
        <5>1. job.ino \in Inodes
          BY <1>1, <1>2, <2>3 DEF CopyBackup, SyncBackup, At, JobGood, Open, Job
        <5> QED BY <1>1, <3>2, <5>1 DEF Disk
      <4>2. \A k \in Inodes \ {i} : nodes[k] = node[k]
        BY <1>1, <3>3, <4>1, FieldType, ZenonT(60)
      <4>3. dir[x] # 0 => dir[x] # i
        BY <1>2, <3>2, BackupApart
      <4> QED BY <2>1, <2>3, <3>2, <4>2, <4>3 DEF CopyBackup, SyncBackup
    <3> QED BY <2>3, <3>1, <3>2, <3>3 DEF CopyBackup, SyncBackup
  <2> QED BY <2>2, <2>3
<1>6. ~At("dead")' /\ Between'
  BY <1>4 DEF Idle, At, Between
<1>7. Records'
  <2>1. ASSUME NEW b \in Buffers, buf[b] # NULL, NEW x \in Files, Same(dir', node', buf[b], x)
        PROVE  /\ Same(dir, node, buf[b], x) /\ node'[buf[b].ino].data = node[buf[b].ino].data
               /\ node[buf[b].ino].synced => node'[buf[b].ino].synced
    BY <1>5, <2>1 DEF Same
  <2>2. Records
    BY <1>2, <1>3, CurRecords
  <2> QED BY <1>2, <1>6, <2>1, <2>2, RecordsStay
<1>8. Unasked'
  <2>1. CASE job' = Idle
    BY <2>1 DEF Unasked, AtRisk, Idle
  <2>2. CASE job'.name = job.name /\ job'.cmd = job.cmd /\ job'.asked = job.asked
    <3>1. SUFFICES ASSUME AtRisk' PROVE node'[dir'[job'.name]].data = cur'.seen /\ cur'.whole
      BY DEF Unasked
    <3>2. dir'[job.name] = dir[job.name] /\ dir[job.name] # 0
          /\ node'[dir[job.name]] = node[dir[job.name]] /\ cur' = cur
      BY <1>2, <1>5, <2>2, <3>1 DEF AtRisk, cur
    <3>3. ASSUME OnlyCurrent' PROVE OnlyCurrent
      <4>1. SUFFICES ASSUME NEW b \in world, Matches(buf[b], job.name, Stat(job.name)) PROVE b = curbuf
        BY DEF OnlyCurrent
      <4>2. b \in world' /\ Stat(job.name)' = Stat(job.name)
        BY <1>2, <2>2, <3>2, <4>1 DEF world, Stat
      <4>3. buf[b].ino # 0 => buf[b].fname \in Files
        BY <1>1, <4>1 DEF AllGood, Good, Buffer, world
      <4>4. Matches(buf[b], job.name, Stat(job.name))'
        BY <1>2, <1>5, <2>2, <4>1, <4>2, <4>3 DEF Matches, SameInode, LostInode
      <4> QED BY <1>2, <3>3, <4>2, <4>4 DEF OnlyCurrent
    <3>4. AtRisk
      BY <1>2, <2>2, <3>1, <3>2, <3>3 DEF AtRisk
    <3>5. Unasked
      BY <1>2, <1>3, CurRecords
    <3> QED BY <2>2, <3>2, <3>4, <3>5 DEF Unasked
  <2> QED BY <1>4, <2>1, <2>2
<1> QED BY <1>6, <1>7, <1>8

(* A file that is written looks at once like no record of it.              *)
LEMMA WriteTrue ==
  ASSUME Basic, Truth, open_file \/ putreg \/ f_close
  PROVE  Truth'
<1>1. /\ job \in Job /\ JobGood(job, buf) /\ AllGood(buf) /\ Disk /\ curbuf \in Buffers /\ top \in Nat
      /\ cur \in Buffer
  BY BasicFacts
<1>2. /\ UNCHANGED <<buf, curbuf, now>> /\ job.at \in {"open", "put", "close"}
      /\ job.name \in Files /\ ~At("dead") /\ ~BeingRead
  BY <1>1 DEF open_file, putreg, f_close, At, JobGood, Naming, Overwriting, Saving_of_file, BeingRead
<1>3. SUFFICES ASSUME ~gap' PROVE Records' /\ Between' /\ Unasked'
  BY <1>1 DEF Truth
<1>4. ~gap
  BY <1>3 DEF open_file, putreg, f_close
<1>5. Records /\ Between
  BY <1>2, <1>4, CurRecords
<1>6. /\ job'.at \in {"key", "put", "close", "stat"} /\ (job'.at # "key" => job'.name = job.name)
      /\ (job'.at # "key" => job'.cmd = job.cmd)
  <2>1. CASE job' = Idle
    BY <2>1 DEF Idle
  <2>2. ASSUME NEW a \in {"put", "close", "stat"}, job' = [job EXCEPT !.at = a]
        PROVE  job'.at = a /\ job'.name = job.name /\ job'.cmd = job.cmd
    BY <1>1, <2>2 DEF Job
  <2>3. ASSUME NEW i, job' = [job EXCEPT !.at = "put", !.ino = i]
        PROVE  job'.at = "put" /\ job'.name = job.name /\ job'.cmd = job.cmd
    BY <1>1, <2>3 DEF Job
  <2> QED BY <2>1, <2>2, <2>3 DEF open_file, putreg, f_close, Go, complain
<1>7. Unasked' /\ ~At("dead")'
  BY <1>6 DEF Unasked, AtRisk, At
<1>8. ASSUME NEW i \in Inodes, node'[i].mtime = now, ~Blind, \A k \in Inodes \ {i} : node'[k] = node[k],
             \A x \in Files : dir'[x] = dir[x] \/ dir'[x] = i
      PROVE  Records'
  <2>1. ASSUME NEW b \in Buffers, buf[b] # NULL, NEW x \in Files, Same(dir', node', buf[b], x)
        PROVE  /\ Same(dir, node, buf[b], x) /\ node'[buf[b].ino].data = node[buf[b].ino].data
               /\ node[buf[b].ino].synced => node'[buf[b].ino].synced
    <3>1. buf[b].mtime # now /\ buf[b].ino \in Inodes
      BY <1>1, <1>8, <2>1 DEF Blind, world, AllGood, Good, Buffer, Same
    <3>2. buf[b].ino # i
      BY <1>8, <2>1, <3>1 DEF Same
    <3> QED BY <1>8, <2>1, <3>1, <3>2 DEF Same
  <2> QED BY <1>2, <1>5, <1>7, <2>1, RecordsStay
<1>9. ASSUME UNCHANGED <<dir, node>> PROVE Records'
  BY <1>2, <1>5, <1>7, <1>9, RecordsStay
<1>10. CASE open_file
  <2>1. CASE complain /\ UNCHANGED <<dir, node>>
    BY <1>7, <1>9, <2>1 DEF complain, Idle, Between, At
  <2>2. ASSUME NEW i \in IF dir[job.name] = 0 THEN Fresh ELSE {dir[job.name]},
               dir' = [dir EXCEPT ![job.name] = i],
               node' = IF job.cmd = "append" /\ dir[job.name] # 0 THEN node
                                              ELSE [node EXCEPT ![i] = Empty],
               job' = [job EXCEPT !.at = "put", !.ino = i], gap' = (gap \/ Blind)
        PROVE  Records' /\ Between' /\ Unasked'
    <3>1. job.name \in AllNames /\ \A x \in Files : x \in AllNames
      BY <1>2, NamesApart
    <3>2. i \in Inodes
      BY <1>1, <2>2, <3>1, FreshApart DEF Disk
    <3>3. ~Blind
      BY <1>3, <2>2
    <3>4. dir'[job.name] = i /\ \A x \in Files : dir'[x] = dir[x] \/ dir'[x] = i
      BY <1>1, <2>2, <3>1 DEF Disk
    <3>5. job'.at = "put" /\ job'.name = job.name /\ job'.ino = i
      BY <1>1, <2>2 DEF Job
    <3>6. Between'
      BY <1>2, <3>3, <3>4, <3>5 DEF Between, At, Blind, world
    <3>7. Records'
      <4>1. CASE job.cmd = "append" /\ dir[job.name] # 0
        <5>1. UNCHANGED <<dir, node>>
          BY <1>1, <2>2, <3>1, <4>1 DEF Disk
        <5> QED BY <1>9, <5>1
      <4>2. CASE ~(job.cmd = "append" /\ dir[job.name] # 0)
        <5>1. node'[i].mtime = now /\ \A k \in Inodes \ {i} : node'[k] = node[k]
          BY <1>1, <2>2, <3>2, <4>2 DEF Empty, Disk
        <5> QED BY <1>8, <3>2, <3>3, <3>4, <5>1
      <4> QED BY <4>1, <4>2
    <3> QED BY <1>7, <3>6, <3>7
  <2> QED BY <1>10, <2>1, <2>2 DEF open_file
<1>11. CASE putreg
  <2>1. /\ At("put") /\ dir[job.name] = job.ino /\ ~Blind /\ job.ino \in Inodes /\ UNCHANGED dir
    BY <1>1, <1>5, <1>11 DEF putreg, At, Between, JobGood, Open, Job
  <2>2. PICK x : /\ node' = [node EXCEPT ![job.ino] = x] /\ x.mtime = now
                 /\ \/ Go("close") /\ (job.cmd \in {"save", "write"} => x.data = cur.text)
                    \/ complain
    <3>1. ASSUME NEW t PROVE /\ [Empty EXCEPT !.data = t].mtime = now
                             /\ [Empty EXCEPT !.data = t].data = t
      BY DEF Empty
    <3>2. Empty.mtime = now
      BY DEF Empty
    <3>3. CASE job.cmd \in {"save", "write"} /\ Go("close")
               /\ node' = [node EXCEPT ![job.ino] = [Empty EXCEPT !.data = cur.text]]
      BY <3>1, <3>3
    <3>4. CASE job.cmd \in {"region", "append"} /\ Go("close")
               /\ node' = [node EXCEPT ![job.ino] = [Empty EXCEPT !.data = top']]
      BY <3>1, <3>4
    <3>5. CASE complain /\ node' = [node EXCEPT ![job.ino] = Empty]
      BY <3>2, <3>5
    <3> QED BY <1>11, <3>3, <3>4, <3>5 DEF putreg
  <2>3. node'[job.ino] = x /\ \A k \in Inodes \ {job.ino} : node'[k] = node[k]
    BY <1>1, <2>1, <2>2 DEF Disk
  <2>4. Records'
    BY <1>8, <2>1, <2>2, <2>3
  <2>5. Between'
    <3>1. CASE complain
      BY <3>1 DEF complain, Idle, Between, At
    <3>2. CASE Go("close") /\ (job.cmd \in {"save", "write"} => x.data = cur.text)
      <4>1. job'.at = "close" /\ job'.name = job.name /\ job'.ino = job.ino /\ job'.cmd = job.cmd
        BY <1>1, <3>2 DEF Go, Job
      <4>2. cur' = cur
        BY <1>2 DEF cur
      <4> QED BY <2>1, <2>3, <3>2, <4>1, <4>2 DEF Between, At
    <3> QED BY <2>2, <3>1, <3>2
  <2> QED BY <1>7, <2>4, <2>5
<1>12. CASE f_close
  <2>1. /\ At("close") /\ dir[job.name] = job.ino /\ job.ino \in Inodes /\ UNCHANGED dir
        /\ (job.cmd \in {"save", "write"} => node[job.ino].data = cur.text)
    BY <1>1, <1>5, <1>12 DEF f_close, At, Between, JobGood, Open, Job
  <2>2. CASE complain /\ UNCHANGED node
    BY <1>7, <1>9, <2>1, <2>2 DEF complain, Idle, Between, At
  <2>3. CASE /\ node' = [node EXCEPT ![job.ino].synced = TRUE]
             /\ IF job.cmd \in {"save", "write"} THEN Go("stat") ELSE job' = Idle
    <3>1. /\ \A k \in Inodes : node'[k].mtime = node[k].mtime /\ node'[k].data = node[k].data
          /\ \A k \in Inodes : node[k].synced => node'[k].synced
          /\ node'[job.ino].synced
      <4>1. \A k \in Inodes : node'[k] = IF k = job.ino THEN [node[k] EXCEPT !.synced = TRUE] ELSE node[k]
        BY <1>1, <2>1, <2>3 DEF Disk
      <4>2. \A k \in Inodes : node[k] \in [data : Int, mtime : Nat, synced : BOOLEAN]
        BY <1>1 DEF Disk
      <4>3. ASSUME NEW k \in Inodes
            PROVE  /\ node'[k].mtime = node[k].mtime /\ node'[k].data = node[k].data
                   /\ (k = job.ino => node'[k].synced) /\ (node[k].synced => node'[k].synced)
        BY <4>1, <4>2
      <4> QED BY <2>1, <4>3
    <3>2. ASSUME NEW b \in Buffers, buf[b] # NULL, NEW x \in Files, Same(dir', node', buf[b], x)
          PROVE  /\ Same(dir, node, buf[b], x) /\ node'[buf[b].ino].data = node[buf[b].ino].data
                 /\ node[buf[b].ino].synced => node'[buf[b].ino].synced
      <4>1. buf[b].ino \in Inodes
        BY <1>1, <3>2 DEF AllGood, Good, Buffer, Same
      <4> QED BY <2>1, <3>1, <3>2, <4>1 DEF Same
    <3>3. Records'
      BY <1>2, <1>5, <1>7, <3>2, RecordsStay
    <3>4. Between'
      <4>1. CASE job' = Idle
        BY <4>1 DEF Idle, Between, At
      <4>2. CASE job.cmd \in {"save", "write"} /\ Go("stat")
        <5>1. job'.at = "stat" /\ job'.name = job.name /\ job'.ino = job.ino /\ job'.cmd = job.cmd
          BY <1>1, <4>2 DEF Go, Job
        <5>2. cur' = cur
          BY <1>2 DEF cur
        <5> QED BY <2>1, <3>1, <4>2, <5>1, <5>2 DEF Between, At
      <4> QED BY <2>3, <4>1, <4>2
    <3> QED BY <1>7, <3>3, <3>4
  <2> QED BY <1>12, <2>2, <2>3 DEF f_close
<1> QED BY <1>10, <1>11, <1>12

-----------------------------------------------------------------------------
(* Everybody else.                                                         *)

(* What others change looks at once like no record of it, or JOVE could    *)
(* not notice.                                                             *)
LEMMA OthersTrue ==
  ASSUME Basic, Truth, ~At("dead"), NEW n \in Names, Rewrite(n) \/ Replace(n) \/ Remove(n)
  PROVE  Truth'
<1>1. /\ AllGood(buf) /\ Disk /\ n \in Files /\ gap \in BOOLEAN
  BY BasicFacts, NamesApart
<1>2. UNCHANGED <<buf, curbuf, job, now>> /\ gap' = Unnoticed
  BY DEF Rewrite, Replace, Remove, Others
<1>3. SUFFICES ASSUME ~gap' PROVE Records' /\ Between' /\ Unasked'
  BY DEF Truth
<1>4. ~gap /\ ~Blind /\ job.at \notin Windows
  BY <1>2, <1>3 DEF Unnoticed
<1>5. Records /\ Between
  BY <1>4, CurRecords
<1>6. ~At("dead")' /\ (BeingRead => BeingRead')
  BY <1>2 DEF At, BeingRead
<1>7. /\ job.at # "rstat" /\ job.at # "put" /\ job.at # "close" /\ job.at # "stat"
      /\ job.at \notin {"backup", "copy", "sync", "open"}
  BY <1>4 DEF Windows
<1>8. Between' /\ Unasked'
  <2>1. cur' = cur
    BY <1>2 DEF cur
  <2>2. Between'
    BY <1>2, <1>5, <1>7, <2>1 DEF Between, At
  <2> QED BY <1>2, <1>7, <2>2 DEF Unasked, AtRisk
<1>9. n \in AllNames /\ \A x \in Files : x \in AllNames /\ dir[x] \in Inodes \cup {0}
  BY <1>1, NamesApart DEF Disk
<1>10. ASSUME NEW b \in Buffers, buf[b] # NULL, NEW x \in Files, Same(dir', node', buf[b], x)
       PROVE  /\ Same(dir, node, buf[b], x) /\ node'[buf[b].ino].data = node[buf[b].ino].data
              /\ node[buf[b].ino].synced => node'[buf[b].ino].synced
  <2>1. buf[b].mtime # now /\ buf[b].ino \in Inodes /\ dir'[x] = buf[b].ino
        /\ node'[buf[b].ino].mtime = buf[b].mtime /\ 0 \notin Inodes
    BY <1>1, <1>4, <1>10 DEF Blind, world, AllGood, Good, Buffer, Same
  <2>2. ASSUME NEW i, NEW t, node' = [node EXCEPT ![i] = [data |-> t, mtime |-> now, synced |-> TRUE]]
        PROVE  buf[b].ino # i /\ node'[buf[b].ino] = node[buf[b].ino]
    <3>1. node \in [Inodes -> [data : Int, mtime : Nat, synced : BOOLEAN]]
      BY <1>1 DEF Disk
    <3>2. buf[b].ino # i
      BY <2>1, <2>2, <3>1
    <3> QED BY <2>1, <2>2, <3>1, <3>2
  <2>3. CASE Rewrite(n)
    <3>1. dir' = dir /\ node' = [node EXCEPT ![dir[n]] = [data |-> top + 1, mtime |-> now, synced |-> TRUE]]
      BY <2>3 DEF Rewrite, NewContents
    <3>2. node'[buf[b].ino] = node[buf[b].ino]
      BY <2>2, <3>1
    <3> QED BY <2>1, <3>1, <3>2 DEF Same
  <2>4. CASE Replace(n)
    <3>1. PICK i \in Fresh : /\ node' = [node EXCEPT ![i] = [data |-> top + 1, mtime |-> now, synced |-> TRUE]]
                             /\ dir' = [dir EXCEPT ![n] = i]
      BY <2>4 DEF Replace, NewContents
    <3>2. buf[b].ino # i /\ node'[buf[b].ino] = node[buf[b].ino]
      BY <2>2, <3>1
    <3>3. dir'[x] = IF x = n THEN i ELSE dir[x]
      BY <1>1, <1>9, <3>1 DEF Disk
    <3> QED BY <2>1, <3>2, <3>3 DEF Same
  <2>5. CASE Remove(n)
    <3>1. node' = node /\ dir' = [dir EXCEPT ![n] = 0]
      BY <2>5 DEF Remove
    <3>2. dir'[x] = IF x = n THEN 0 ELSE dir[x]
      BY <1>1, <1>9, <3>1 DEF Disk
    <3> QED BY <2>1, <3>1, <3>2 DEF Same
  <2> QED BY <2>3, <2>4, <2>5
<1>11. Records'
  BY <1>2, <1>4, <1>5, <1>6, <1>10, RecordsStay
<1> QED BY <1>8, <1>11

(* The second in which a buffer has been recorded goes by.                 *)
LEMMA TickTrue ==
  ASSUME Basic, Truth, ~At("dead"), Tick
  PROVE  Truth'
<1>1. AllGood(buf) /\ now \in Nat
  BY BasicFacts
<1>2. UNCHANGED <<dir, node, buf, curbuf, job, gap>> /\ now' = now + 1
  BY DEF Tick
<1>3. SUFFICES ASSUME ~gap PROVE Records' /\ Between' /\ Unasked'
  BY <1>2 DEF Truth
<1>4. Records /\ Between /\ Unasked
  BY <1>3, CurRecords
<1>5. Records'
  <2>1. ~At("dead")' /\ (BeingRead => BeingRead')
    BY <1>2 DEF At, BeingRead
  <2> QED BY <1>2, <1>4, <2>1, RecordsStay
<1>6. ~Blind'
  <2>1. ASSUME NEW b \in world' PROVE buf'[b].mtime # now'
    <3>1. buf'[b] = buf[b] /\ Good(buf[b])
      BY <1>1, <1>2, <2>1 DEF world, AllGood
    <3>2. buf[b].mtime \in Nat /\ buf[b].mtime <= now
      BY <3>1 DEF Good, Buffer
    <3> QED BY <1>1, <1>2, <3>1, <3>2
  <2> QED BY <2>1 DEF Blind
<1>7. cur' = cur
  BY <1>2 DEF cur
<1>8. Between'
  BY <1>2, <1>4, <1>6, <1>7 DEF Between, At
<1>9. Unasked'
  <2>1. AtRisk' = AtRisk
    BY <1>2 DEF AtRisk, OnlyCurrent, Matches, SameInode, LostInode, Stat, world
  <2> QED BY <1>2, <1>4, <1>7, <2>1 DEF Unasked
<1> QED BY <1>5, <1>8, <1>9

(* What is saved outlives the machine.                                     *)
LEMMA CrashTrue ==
  ASSUME Basic, Truth, ~At("dead"), Crash
  PROVE  Truth'
<1>1. AllGood(buf) /\ Disk
  BY BasicFacts
<1>2. /\ UNCHANGED <<dir, buf, curbuf, gap>> /\ job'.at = "dead" /\ job'.cmd = job.at
  BY DEF Crash, Idle
<1>3. SUFFICES ASSUME ~gap PROVE Records' /\ Between' /\ Unasked'
  BY <1>2 DEF Truth
<1>4. Records /\ At("dead") = FALSE /\ At("dead")' = TRUE
  BY <1>2, <1>3, CurRecords DEF At
<1>5. Between' /\ Unasked'
  BY <1>2 DEF Between, Unasked, AtRisk, At
<1>6. BeingRead' = BeingRead
  BY <1>2, <1>4 DEF BeingRead
<1>7. ASSUME NEW i \in Inodes
      PROVE  node'[i].mtime = node[i].mtime /\ (node[i].synced => node'[i] = node[i])
  <2>1. node[i] \in [data : Int, mtime : Nat, synced : BOOLEAN]
    BY <1>1 DEF Disk
  <2>2. CASE node' = node
    BY <2>2
  <2>3. CASE node' = [k \in Inodes |-> IF node[k].synced THEN node[k] ELSE [node[k] EXCEPT !.data = Part]]
    BY <2>1, <2>3
  <2> QED BY <2>2, <2>3 DEF Crash
<1>8. ASSUME NEW b \in Buffers, buf'[b] # NULL
      PROVE  /\ CutFrom(dir', node', buf'[b])
             /\ ~(b = curbuf' /\ BeingRead') => SavedIn(dir', node', At("dead")', buf'[b])
  <2>1. PICK r, d, nd, md : r = buf[b] /\ d = dir /\ nd = node /\ md = node'
    OBVIOUS
  <2>2. /\ CutFrom(d, nd, r) /\ r.ino \in Inodes \cup {0}
        /\ ~(b = curbuf /\ BeingRead) => SavedIn(d, nd, FALSE, r)
    BY <1>1, <1>2, <1>4, <1>8, <2>1 DEF Records, AllGood, Good, Buffer
  <2>3. r.ino # 0 => md[r.ino].mtime = nd[r.ino].mtime /\ (nd[r.ino].synced => md[r.ino] = nd[r.ino])
    BY <1>7, <2>1, <2>2
  <2>4. \A x : Same(d, md, r, x) => Same(d, nd, r, x)
    BY <2>3 DEF Same
  <2>5. CutFrom(d, md, r)
    BY <2>2, <2>4 DEF CutFrom
  <2>6. SavedIn(d, nd, FALSE, r) => SavedIn(d, md, TRUE, r)
    BY <2>3, <2>4 DEF SavedIn, Same
  <2> QED BY <1>2, <1>4, <1>6, <2>1, <2>2, <2>5, <2>6
<1>9. Records'
  BY <1>4, <1>8 DEF Records
<1> QED BY <1>5, <1>9

-----------------------------------------------------------------------------
(* The theorems.                                                           *)

(* To begin with nothing has been recorded.                                *)
LEMMA InitTrue ==
  ASSUME Init
  PROVE  Truth
<1>1. job.at = "key" /\ \A b \in Buffers : buf[b] # NULL => buf[b].ino = 0
  BY DEF Init, Idle, NewBuf
<1>2. ASSUME NEW b \in Buffers, buf[b] # NULL
      PROVE  CutFrom(dir, node, buf[b]) /\ SeenIn(dir, node, buf[b]) /\ SavedIn(dir, node, At("dead"), buf[b])
  <2>1. PICK d, nd, r, dead : d = dir /\ nd = node /\ r = buf[b] /\ dead = At("dead")
    OBVIOUS
  <2>2. r.ino = 0
    BY <1>1, <1>2, <2>1
  <2>3. CutFrom(d, nd, r) /\ SeenIn(d, nd, r) /\ SavedIn(d, nd, dead, r)
    BY ONLY <2>2, NoInode
  <2> QED BY <2>1, <2>3
<1>3. Records
  BY <1>2 DEF Records
<1>4. Between /\ Unasked
  BY <1>1 DEF Between, Unasked, AtRisk, At
<1> QED BY <1>3, <1>4 DEF Truth

(* Every step keeps it.                                                    *)
LEMMA StepTrue ==
  ASSUME Basic, Truth, [~At("dead") /\ Next]_vars
  PROVE  Truth'
<1>1. CASE UNCHANGED vars
  BY <1>1 DEF vars, Truth, Records, Between, Unasked, AtRisk, OnlyCurrent, world, Matches, SameInode,
              LostInode, Stat, Blind, BeingRead, At, cur, CutFrom, SeenIn, SavedIn, Same
<1>2. CASE ~At("dead") /\ Reading
  BY <1>2, ReadingTrue
<1>3. CASE ~At("dead") /\ Saving
  BY <1>3, SaveFileTrue, QuestionsTrue, BackupTrue, WriteTrue, SavedTrue, PutBufsTrue DEF Saving
<1>4. CASE Commands
  BY <1>4, CommandsTrue
<1>5. CASE ~At("dead") /\ World
  BY <1>5, OthersTrue, TickTrue, CrashTrue DEF World
<1> QED BY <1>1, <1>2, <1>3, <1>4, <1>5 DEF Next

(* A buffer that counts as unmodified, and whose file still looks as it    *)
(* was recorded, is in that file, on the disk (file_write, f_close,        *)
(* read_file).                                                             *)
THEOREM SavedIsSavedAlways == Spec => []SavedIsSaved
<1>1. Init => Basic /\ Truth
  BY InitBasic, InitTrue
<1>2. Basic /\ Truth /\ [~At("dead") /\ Next]_vars => Basic' /\ Truth'
  BY StepBasic, StepTrue
<1>3. Basic /\ Truth => SavedIsSaved
  <2>1. SUFFICES ASSUME Basic, Truth, ~gap, NEW b \in world, NEW r, r = buf[b],
                        ~r.modified, ~r.diverged, ~r.ntbf, r.whole, r.ino # 0, r.fname # NULL,
                        dir[r.fname] = r.ino, node[r.ino].mtime = r.mtime, ~(b = curbuf /\ BeingRead)
                 PROVE  (r.saved \/ ~At("dead") => node[r.ino].data = r.text) /\ (r.saved => node[r.ino].synced)
    BY DEF SavedIsSaved
  <2>2. SavedIn(dir, node, At("dead"), r) /\ r.fname \in Files \cup {NULL}
    BY <2>1, BasicFacts DEF Truth, Records, world, AllGood, Good, Buffer
  <2> QED BY <2>1, <2>2 DEF SavedIn, Same
<1> QED BY <1>1, <1>2, <1>3, PTL DEF Spec

(* What JOVE overwrites without having asked is what the buffer was wholly *)
(* read from or last saved as (filemunge, chk_divergence, do_stat,         *)
(* read_file).                                                             *)
THEOREM NoSilentLossAlways == Spec => NoSilentLoss
<1>1. Init => Basic /\ Truth
  BY InitBasic, InitTrue
<1>2. Basic /\ Truth /\ [~At("dead") /\ Next]_vars => Basic' /\ Truth'
  BY StepBasic, StepTrue
<1>3. Truth => (At("open") /\ job'.at = "put" /\ dir[job.name] # 0 /\ ~gap /\ ~job.asked
                /\ (job.cmd = "region" => \A b \in world : Matches(buf[b], job.name, Stat(job.name)) => b = curbuf)
                /\ job.cmd # "append"
                  => node[dir[job.name]].data = cur.seen /\ cur.whole)
  BY DEF Truth, Unasked, AtRisk, OnlyCurrent, At
<1> QED BY <1>1, <1>2, <1>3, PTL DEF Spec, NoSilentLoss
=============================================================================
