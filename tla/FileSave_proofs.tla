---------------------------- MODULE FileSave_proofs ---------------------------
(***************************************************************************)
(* Proofs of the properties of FileSave: its type invariant, who has which *)
(* file and inode, and that what a save replaces is in its backup.         *)
(***************************************************************************)
EXTENDS FileSave, TLAPS

USE FileAssumption

-----------------------------------------------------------------------------
(* The disk, the buffers and the command, each by itself.                  *)

(* Links are only between the user's names; backups share their inodes     *)
(* with nothing, not even with an open file.                               *)
Apart ==
  /\ \A x, y \in AllNames : x # y /\ dir[x] = dir[y] /\ dir[x] # 0 => x \in Names /\ y \in Names
  /\ \A f \in Files : dir[Bak(f)] # 0 => dir[Bak(f)] # job.ino

Disk ==
  /\ dir \in [AllNames -> Inodes \cup {0}]
  /\ node \in [Inodes -> [data : Int, mtime : Nat, synced : BOOLEAN]]
  /\ now \in Nat /\ top \in Nat /\ gap \in BOOLEAN
  /\ \A i \in Inodes : node[i].mtime <= now
  /\ job.ino \in Inodes \cup {0}
  /\ Apart

(* A buffer that has a file or is to be filled from one has its name; the  *)
(* latter has nothing that could be saved.                                 *)
Good(r) ==
  /\ r \in Buffer /\ r.mtime <= now
  /\ r.ino # 0 => r.fname # NULL
  /\ r.ntbf => r.fname # NULL /\ r.whole /\ ~r.modified

AllGood(bs) ==
  /\ bs \in [Buffers -> Buffer \cup {NULL}] /\ bs[1] # NULL /\ ~bs[1].ntbf
  /\ \A b \in Buffers : bs[b] # NULL => Good(bs[b])
Bufs == AllGood(buf) /\ curbuf \in world

Saving_of_file == {"backup", "copy", "sync", "open", "put", "close", "stat"}
Overwriting == {"munge", "overwrite?", "diverged?"} \cup Saving_of_file
Reading_of_file == {"ropen", "rstat", "rread"}
Open == {"rstat", "rread", "iread", "copy", "sync", "put", "close", "stat"}
Naming == Overwriting \cup Reading_of_file \cup {"insert", "iread", "prime", "reload"}
Steps == Naming \cup {"key", "save", "bufs", "dead"}

Job == [at : Steps, cmd : Steps \cup {"write", "region", "append", "read"},
        name : Files \cup {NULL}, ino : Inodes \cup {0}, asked : BOOLEAN,
        todo : SUBSET Buffers, back : Buffers, reload : Names \cup {NULL}]

(* Which file a command is about, and that it is the current buffer's.     *)
JobGood(j, bs) ==
  /\ j \in Job /\ bs[j.back] # NULL /\ ~bs[j.back].ntbf
  /\ \A b \in j.todo : bs[b] # NULL
  /\ j.at \in Naming => j.name \in Files
  /\ j.at \in Open => j.ino # 0
  /\ j.at = "prime" => j.cmd = "read"
  /\ j.at = "stat" => j.cmd \in {"save", "write"}
Owns(j, r) ==
  /\ r.ntbf => j.at \in {"ropen", "dead"}
  /\ j.at \in Reading_of_file => r.fname = j.name /\ r.whole
  /\ j.at \in Overwriting /\ j.cmd = "save" => r.fname = j.name
  /\ j.at \in Saving_of_file /\ j.cmd = "write" => r.fname = j.name
Jobs == JobGood(job, buf)
Own == Owns(job, cur)

Basic == Disk /\ Bufs /\ Jobs /\ Own

-----------------------------------------------------------------------------
(* The operators.                                                          *)

(* A backup's name is no file's, and tells whose backup it is.             *)
LEMMA NamesApart ==
  /\ Names \subseteq Files /\ Files \subseteq AllNames
  /\ \A f \in Files : Bak(f) \in AllNames /\ Bak(f) \notin Files
  /\ \A f, h \in Files : Bak(f) = Bak(h) => f = h
  /\ \A f \in Files : f[2] \in Nat /\ (f[2] < MaxTmp => Tmp(f) \in Files)
  /\ \A f \in Files : f \in Names <=> f[2] = 0
  /\ \A n \in AllNames : n \notin Files => \E f \in Files : n = Bak(f)
<1>1. Names \subseteq Files /\ Files \subseteq AllNames
  BY DEF Names, Files, AllNames
<1>2. \A f \in Files : Bak(f) \in AllNames
  BY DEF AllNames
<1>3. \A f \in Files : Bak(f) \notin Files
  BY DEF Files, Bak
<1>4. \A f, h \in Files : Bak(f) = Bak(h) => f = h
  BY DEF Files, Bak
<1>5. \A f \in Files : f[2] \in Nat /\ (f[2] < MaxTmp => Tmp(f) \in Files)
  BY DEF Files, Tmp
<1>6. \A f \in Files : f \in Names <=> f[2] = 0
  BY DEF Files, Names
<1>7. \A n \in AllNames : n \notin Files => \E f \in Files : n = Bak(f)
  BY DEF AllNames
<1> QED BY <1>1, <1>2, <1>3, <1>4, <1>5, <1>6, <1>7

(* What do_stat may change of a buffer that it compares with a file.       *)
Looks(r, s) ==
  /\ s.fname = r.fname /\ s.scratch = r.scratch /\ s.ntbf = r.ntbf /\ s.modified = r.modified
  /\ s.mtime = r.mtime /\ s.text = r.text /\ s.whole = r.whole /\ s.seen = r.seen
  /\ s.saved = r.saved /\ s.ino \in {r.ino, 0} /\ (r.diverged => s.diverged)
  /\ s.ino # r.ino => s.diverged
Looked(bs, cs) ==
  \A b \in Buffers : (bs[b] = NULL <=> cs[b] = NULL) /\ (bs[b] # NULL => Looks(bs[b], cs[b]))

Status == [ino : Inodes \cup {0}, mtime : Nat]

(* Stat returns what there is of the file.                                 *)
LEMMA StatType ==
  ASSUME Disk, NEW n \in Files
  PROVE  /\ Stat(n) \in Status /\ Stat(n).ino = dir[n] /\ Stat(n).mtime <= now
         /\ Stat(n).mtime = IF dir[n] = 0 THEN 0 ELSE node[dir[n]].mtime
         /\ Contents(n) \in Int
<1>1. n \in AllNames
  BY NamesApart
<1>2. /\ dir[n] \in Inodes \cup {0} /\ 0 \notin Inodes
      /\ dir[n] # 0 => node[dir[n]].mtime \in Nat /\ node[dir[n]].mtime <= now
                        /\ node[dir[n]].data \in Int
      /\ now \in Nat
  BY <1>1 DEF Disk
<1>3. CASE dir[n] = 0
  BY <1>2, <1>3 DEF Stat, Status, Contents
<1>4. CASE dir[n] # 0
  BY <1>2, <1>4 DEF Stat, Status, Contents
<1> QED BY <1>3, <1>4

(* CompareAll only notes that a file is gone or changed.                   *)
LEMMA CompareAllLooks ==
  ASSUME NEW bs, AllGood(bs), NEW n, NEW st
  PROVE  /\ AllGood(CompareAll(bs, n, st)) /\ Looked(bs, CompareAll(bs, n, st))
         /\ \A b \in Buffers : bs[b] # NULL =>
              CompareAll(bs, n, st)[b] = Compared(bs[b], n, st)
<1> DEFINE cs == CompareAll(bs, n, st)
<1>1. ASSUME NEW b \in Buffers
      PROVE  /\ bs[b] = NULL => cs[b] = NULL
             /\ bs[b] # NULL => Good(cs[b]) /\ cs[b] # NULL /\ Looks(bs[b], cs[b])
  <2>1. cs[b] = IF bs[b] = NULL THEN NULL ELSE Compared(bs[b], n, st)
    BY DEF CompareAll
  <2>2. CASE bs[b] = NULL
    BY <2>1, <2>2
  <2>3. CASE bs[b] # NULL
    <3>1. PICK r : r = bs[b]
      OBVIOUS
    <3>2. r \in Buffer /\ Good(r)
      BY <3>1, <2>3 DEF AllGood, Good
    <3>3. PICK c : c = Compared(r, n, st)
      OBVIOUS
    <3>4. \/ c = [r EXCEPT !.ino = 0, !.diverged = TRUE]
          \/ \E d \in BOOLEAN : c = [r EXCEPT !.diverged = r.diverged \/ d]
      BY <3>3 DEF Compared
    <3>5. c \in Buffer /\ Looks(r, c)
      BY <3>2, <3>4, ZenonT(60) DEF Buffer, Looks
    <3>6. cs[b] = c
      BY <2>1, <2>3, <3>1, <3>3
    <3>7. Good(c) /\ c # NULL
      BY <3>2, <3>5 DEF Good, Looks
    <3> HIDE DEF cs
    <3> QED BY <3>1, <3>5, <3>6, <3>7, <2>3
  <2> QED BY <2>2, <2>3
<1>2. cs = [b \in Buffers |-> cs[b]] /\ \A b \in Buffers : bs[b] # NULL => cs[b] = Compared(bs[b], n, st)
  BY DEF CompareAll
<1> HIDE DEF cs
<1>3. cs \in [Buffers -> Buffer \cup {NULL}]
  BY <1>1, <1>2 DEF Good
<1>4. AllGood(cs)
  BY <1>1, <1>3 DEF AllGood, Looks
<1>5. Looked(bs, cs)
  BY <1>1 DEF Looked
<1> QED BY <1>2, <1>4, <1>5 DEF cs

With(bs, b, r) == [bs EXCEPT ![b] = r]

(* One buffer is changed.                                                  *)
LEMMA OneChanged ==
  ASSUME NEW bs, AllGood(bs), NEW b \in Buffers, NEW r, Good(r), b = 1 => ~r.ntbf
  PROVE  /\ AllGood(With(bs, b, r)) /\ With(bs, b, r)[b] = r /\ r # NULL
         /\ \A c \in Buffers \ {b} : With(bs, b, r)[c] = bs[c]
<1>3. PICK cs : cs = With(bs, b, r)
  OBVIOUS
<1>1. r \in Buffer /\ r # NULL
  BY DEF Good
<1>2. bs \in [Buffers -> Buffer \cup {NULL}] /\ bs[1] # NULL /\ ~bs[1].ntbf
  BY DEF AllGood
<1>4. cs \in [Buffers -> Buffer \cup {NULL}] /\ cs[b] = r /\ \A c \in Buffers \ {b} : cs[c] = bs[c]
  BY <1>1, <1>2, <1>3 DEF With
<1>5. cs[1] # NULL /\ ~cs[1].ntbf
  BY <1>1, <1>2, <1>4
<1>6. ASSUME NEW c \in Buffers, cs[c] # NULL PROVE Good(cs[c])
  BY <1>4, <1>6 DEF AllGood
<1>7. AllGood(cs)
  BY <1>4, <1>5, <1>6 DEF AllGood
<1> QED BY <1>1, <1>3, <1>4, <1>7

(* A buffer that gets a file name has seen no file by it.                  *)
LEMMA Named ==
  ASSUME Disk, NEW r, Good(r), NEW n \in Files, NEW c, c = setfname(r, n)
  PROVE  /\ Good(c) /\ c.fname = n /\ c.ino = 0 /\ c.whole = r.whole
         /\ c.seen = r.seen /\ c.text = r.text /\ c.ntbf = r.ntbf /\ c.modified = r.modified
<1>1. r \in Buffer /\ n # NULL /\ now \in Nat
  BY DEF Good, Disk
<1>2. /\ c \in Buffer /\ c.fname = n /\ c.ino = 0 /\ c.mtime = 0 /\ c.ntbf = r.ntbf
      /\ c.whole = r.whole /\ c.seen = r.seen /\ c.text = r.text /\ c.modified = r.modified
  BY <1>1 DEF setfname, Buffer
<1>3. r.ntbf => r.whole /\ ~r.modified
  BY DEF Good
<1> QED BY <1>1, <1>2, <1>3 DEF Good

(* A buffer whose record is set has what there is of the file.             *)
LEMMA RecordSet ==
  ASSUME Disk, NEW r, Good(r), NEW n \in Files, r.fname = n, NEW t \in Int, NEW st, st = Stat(n),
         NEW c, c = SetRecord(r, st, t)
  PROVE  /\ Good(c) /\ c.fname = n /\ c.whole = r.whole /\ c.seen = t /\ c.text = r.text
         /\ c.ino = dir[n] /\ c.mtime = st.mtime /\ c.ntbf = r.ntbf /\ c.modified = r.modified
<1>1. r \in Buffer /\ n # NULL /\ now \in Nat
  BY DEF Good, Disk
<1>2. st.ino \in Inodes \cup {0} /\ st.ino = dir[n] /\ st.mtime \in Nat /\ st.mtime <= now
  BY StatType DEF Status
<1> QED BY <1>1, <1>2 DEF SetRecord, Good, Buffer

-----------------------------------------------------------------------------
(* Basic is inductive.                                                     *)

(* Links stay apart when only the command's inode changes.                 *)
LEMMA DiskStays ==
  ASSUME Basic, UNCHANGED <<dir, node, now>>, top' \in Nat, gap' \in BOOLEAN,
         job'.ino = 0 \/ job'.ino = job.ino \/ \E n \in Files : job'.ino = dir[n]
  PROVE  Disk'
<1>1. job'.ino \in Inodes \cup {0}
  BY NamesApart DEF Basic, Disk
<1>2. ASSUME NEW h \in Files, dir[Bak(h)] # 0 PROVE dir[Bak(h)] # job'.ino
  <2>1. dir[Bak(h)] # job.ino
    BY <1>2 DEF Basic, Disk, Apart
  <2>2. \A n \in Files : dir[n] # dir[Bak(h)]
    BY <1>2, NamesApart DEF Basic, Disk, Apart
  <2> QED BY <1>2, <2>1, <2>2
<1>3. Apart'
  BY <1>2 DEF Basic, Disk, Apart
<1> QED BY <1>1, <1>3 DEF Basic, Disk

(* A step that leaves the disk alone.                                      *)
LEMMA Becomes ==
  ASSUME Basic, UNCHANGED <<dir, node, now>>, top' \in Nat, gap' \in BOOLEAN,
         AllGood(buf'), curbuf' \in Buffers, buf'[curbuf'] # NULL,
         JobGood(job', buf'), Owns(job', buf'[curbuf']),
         job'.ino = 0 \/ job'.ino = job.ino \/ \E n \in Files : job'.ino = dir[n]
  PROVE  Basic'
<1>1. Disk'
  BY DiskStays
<1>2. AllGood(buf)'
  BY DEF AllGood, Good
<1>3. (curbuf \in world)'
  BY DEF world
<1>4. Jobs'
  BY DEF Jobs, JobGood
<1>5. Own'
  BY DEF Own, Owns, cur
<1> QED BY <1>1, <1>2, <1>3, <1>4, <1>5 DEF Basic, Bufs

(* A step that leaves the buffers alone.                                   *)
LEMMA DiskBecomes ==
  ASSUME Basic, Disk', UNCHANGED <<buf, curbuf>>, now' >= now,
         JobGood(job', buf), Owns(job', cur)
  PROVE  Basic'
<1>1. AllGood(buf)'
  <2>1. ASSUME NEW b \in Buffers, buf[b] # NULL PROVE Good(buf[b])'
    <3>1. Good(buf[b]) /\ now \in Nat /\ now' \in Nat
      BY <2>1 DEF Basic, Bufs, AllGood, Disk
    <3>2. buf[b].mtime \in Nat
      BY <3>1 DEF Good, Buffer
    <3> QED BY <3>1, <3>2 DEF Good
  <2> QED BY <2>1 DEF Basic, Bufs, AllGood
<1>2. (curbuf \in world)'
  BY DEF world, Basic, Bufs
<1>3. Jobs'
  BY DEF Jobs, JobGood
<1>4. Own'
  BY DEF Own, Owns, cur
<1> QED BY <1>1, <1>2, <1>3, <1>4 DEF Basic, Bufs

(* What the command becomes.                                               *)
LEMMA IdleFits ==
  ASSUME NEW bs, AllGood(bs), NEW r, ~r.ntbf
  PROVE  JobGood(Idle, bs) /\ Owns(Idle, r) /\ Idle.ino = 0
<1>1. Idle \in Job
  BY DEF Idle, Job, Steps, Naming, Overwriting, Saving_of_file, Reading_of_file
<1>2. JobGood(Idle, bs)
  BY <1>1 DEF JobGood, Idle, AllGood, Open, Naming, Overwriting, Saving_of_file, Reading_of_file
<1>3. Owns(Idle, r) /\ Idle.ino = 0
  BY DEF Owns, Idle, Overwriting, Saving_of_file, Reading_of_file
<1> QED BY <1>2, <1>3

(* A command that has begun names its file and returns to its buffer.      *)
LEMMA NewFits ==
  ASSUME Bufs, NEW bs, AllGood(bs), bs[curbuf] # NULL, ~bs[curbuf].ntbf, NEW n \in Files \cup {NULL},
         NEW step \in Steps \cup {"write", "region", "append", "read"}, NEW at \in Steps,
         at \in Naming => n \in Files, at = "prime" => step = "read", at \notin Open, NEW r,
         r.ntbf => at = "ropen", at \in Reading_of_file => r.fname = n /\ r.whole,
         at \in Overwriting /\ step = "save" => r.fname = n,
         at \in Saving_of_file => step # "write"
  PROVE  /\ JobGood([New(step, n) EXCEPT !.at = at], bs)
         /\ Owns([New(step, n) EXCEPT !.at = at], r)
         /\ New(step, n).ino = 0 /\ [New(step, n) EXCEPT !.at = at].ino = 0
         /\ step = at => New(step, n) = [New(step, n) EXCEPT !.at = at]
<1>1. curbuf \in Buffers
  BY DEF Bufs, world
<1>2. PICK j : j = [New(step, n) EXCEPT !.at = at]
  OBVIOUS
<1>3. /\ j \in Job /\ j.at = at /\ j.cmd = step /\ j.name = n /\ j.ino = 0
      /\ j.todo = {} /\ j.back = curbuf
  BY <1>1, <1>2 DEF New, Idle, Job
<1>4. New(step, n).ino = 0 /\ (step = at => New(step, n) = j)
  BY <1>2 DEF New, Idle
<1>5. JobGood(j, bs)
  BY <1>3 DEF JobGood, Open
<1>6. Owns(j, r)
  BY <1>3 DEF Owns
<1> QED BY <1>2, <1>3, <1>4, <1>5, <1>6

(* A command that begins with the reading of a file.                       *)
LEMMA OpenFits ==
  ASSUME Bufs, NEW bs, AllGood(bs), bs[curbuf] # NULL, ~bs[curbuf].ntbf, NEW n \in Files,
         NEW r, r.fname = n, r.whole
  PROVE  JobGood(New("ropen", n), bs) /\ Owns(New("ropen", n), r) /\ New("ropen", n).ino = 0
<1>1. PICK step : step = "ropen"
  OBVIOUS
<1>2. step \in Steps /\ step \notin Open \cup {"prime", "stat"} \cup Overwriting \cup Saving_of_file
  BY <1>1 DEF Steps, Naming, Open, Reading_of_file, Overwriting, Saving_of_file
<1>3. n \in Files \cup {NULL} /\ step \in Steps \cup {"write", "region", "append", "read"}
  BY <1>2
<1>4. /\ JobGood([New(step, n) EXCEPT !.at = step], bs)
      /\ Owns([New(step, n) EXCEPT !.at = step], r)
      /\ New(step, n).ino = 0 /\ New(step, n) = [New(step, n) EXCEPT !.at = step]
  BY <1>1, <1>2, <1>3, NewFits
<1> QED BY <1>1, <1>4

(* What Basic says of the current buffer and the command.                  *)
LEMMA BasicFacts ==
  ASSUME Basic
  PROVE  /\ Good(cur) /\ cur \in Buffer /\ cur = buf[curbuf] /\ buf[curbuf] # NULL
         /\ curbuf \in Buffers /\ AllGood(buf) /\ Bufs /\ Disk
         /\ job \in Job /\ JobGood(job, buf) /\ Owns(job, cur)
         /\ now \in Nat /\ top \in Nat /\ gap \in BOOLEAN
<1>1. AllGood(buf) /\ curbuf \in Buffers /\ buf[curbuf] # NULL /\ Bufs /\ Disk /\ Jobs /\ Own
  BY DEF Basic, Bufs, world
<1>2. Good(buf[curbuf])
  BY <1>1 DEF AllGood
<1>3. cur = buf[curbuf] /\ Good(cur)
  BY <1>2 DEF cur
<1>4. cur \in Buffer
  BY <1>3 DEF Good
<1>5. JobGood(job, buf) /\ Owns(job, cur)
  BY <1>1 DEF Jobs, Own
<1>6. job \in Job
  BY <1>5 DEF JobGood
<1>7. now \in Nat /\ top \in Nat /\ gap \in BOOLEAN
  BY <1>1 DEF Disk
<1> QED BY <1>1, <1>3, <1>4, <1>5, <1>6, <1>7

(* The current buffer becomes r.                                           *)
LEMMA CurChanged ==
  ASSUME Basic, NEW r, Good(r), r.ntbf => cur.ntbf, NEW bs, bs = With(buf, curbuf, r)
  PROVE  /\ AllGood(bs) /\ bs[curbuf] = r /\ r # NULL /\ \A c \in Buffers \ {curbuf} : bs[c] = buf[c]
         /\ \A c \in Buffers : buf[c] # NULL => bs[c] # NULL /\ (bs[c].ntbf => buf[c].ntbf)
<1>1. PICK old, c : old = buf /\ c = curbuf
  OBVIOUS
<1>2. AllGood(old) /\ c \in Buffers /\ bs = With(old, c, r) /\ Good(r) /\ (c = 1 => ~r.ntbf)
  BY <1>1, BasicFacts DEF AllGood
<1>3. AllGood(bs) /\ bs[c] = r /\ r # NULL /\ \A x \in Buffers \ {c} : bs[x] = old[x]
  BY ONLY <1>2, OneChanged
<1> QED BY <1>1, <1>3, BasicFacts

(* A step that changes the current buffer alone.                           *)
LEMMA CurBecomes ==
  ASSUME Basic, NEW r, Good(r), r.ntbf => cur.ntbf, buf' = With(buf, curbuf, r),
         UNCHANGED <<dir, node, now, curbuf>>, top' \in Nat, gap' \in BOOLEAN,
         JobGood(job', buf), Owns(job', r),
         job'.ino = 0 \/ job'.ino = job.ino \/ \E n \in Files : job'.ino = dir[n]
  PROVE  Basic' /\ buf'[curbuf'] = r
<1>1. curbuf \in Buffers /\ AllGood(buf)
  BY BasicFacts
<1>2. PICK bs : bs = With(buf, curbuf, r)
  OBVIOUS
<1>3. /\ AllGood(bs) /\ bs[curbuf] = r /\ r # NULL
      /\ \A c \in Buffers : buf[c] # NULL => bs[c] # NULL /\ (bs[c].ntbf => buf[c].ntbf)
  BY <1>2, CurChanged
<1>4. JobGood(job', bs)
  <2>2. job' \in Job
    BY DEF JobGood
  <2>3. job'.back \in Buffers /\ job'.todo \subseteq Buffers
    BY <2>2 DEF Job
  <2> QED BY <1>3, <2>3 DEF JobGood
<1> QED BY <1>1, <1>2, <1>3, <1>4, Becomes

(* Reading keeps it.                                                       *)
LEMMA ReadingBasic ==
  ASSUME Basic, Reading
  PROVE  Basic'
<1>1. /\ Good(cur) /\ cur \in Buffer /\ AllGood(buf) /\ curbuf \in Buffers /\ buf[curbuf] # NULL
      /\ job \in Job /\ JobGood(job, buf) /\ Owns(job, cur)
      /\ now \in Nat /\ top \in Nat /\ gap \in BOOLEAN /\ Disk
  BY BasicFacts
<1>2. \A r : ~r.ntbf => JobGood(Idle, buf) /\ Owns(Idle, r) /\ Idle.ino = 0
  BY <1>1, IdleFits
<1>3. CASE ReadOpen
  <2>1. PICK r : r = [cur EXCEPT !.ntbf = @ /\ At("insert")]
    OBVIOUS
  <2>2. Good(r) /\ r.fname = cur.fname /\ r.whole = cur.whole /\ ~r.ntbf
    BY <1>1, <2>1 DEF Good, Buffer, Owns, At
  <2>3. JobGood(job', buf) /\ Owns(job', r) /\ (job'.ino = 0 \/ \E n \in Files : job'.ino = dir[n])
    <3>1. CASE dir[job.name] = 0 /\ job' = Idle
      BY <1>2, <2>2, <3>1
    <3>2. CASE dir[job.name] # 0 /\ job' = [job EXCEPT
                   !.at = IF At("insert") THEN "iread" ELSE "rstat", !.ino = dir[job.name]]
      <4>1. job.name \in Files /\ job.at \in {"ropen", "insert"}
        BY <1>1, <1>3 DEF ReadOpen, JobGood, Naming, Reading_of_file
      <4>2. dir[job.name] \in Inodes
        BY <1>1, <3>2, <4>1, NamesApart DEF Disk
      <4>3. /\ job' \in Job /\ job'.at = (IF At("insert") THEN "iread" ELSE "rstat")
            /\ job'.name = job.name /\ job'.ino = dir[job.name] /\ job'.cmd = job.cmd
            /\ job'.back = job.back /\ job'.todo = job.todo
        <5>1. PICK i : i = dir[job.name]
          OBVIOUS
        <5>2. PICK a : a = IF At("insert") THEN "iread" ELSE "rstat"
          OBVIOUS
        <5>3. a \in Steps /\ i \in Inodes
          BY <4>2, <5>1, <5>2 DEF Steps, Naming, Reading_of_file
        <5>4. job' = [job EXCEPT !.at = a, !.ino = i]
          BY <3>2, <5>1, <5>2
        <5> QED BY <1>1, <5>1, <5>2, <5>3, <5>4 DEF Job
      <4>4. JobGood(job', buf)
        BY <1>1, <3>2, <4>1, <4>3 DEF JobGood
      <4>5. Owns(job', r)
        BY <1>1, <2>2, <4>1, <4>3 DEF Owns, At, Overwriting, Saving_of_file, Reading_of_file
      <4> QED BY <4>1, <4>3, <4>4, <4>5
    <3> QED BY <1>3, <3>1, <3>2 DEF ReadOpen
  <2> QED BY <1>1, <1>3, <2>1, <2>2, <2>3, CurBecomes DEF With, ReadOpen, files
<1>4. CASE ReadOpenFails
  <2>1. PICK r : r = [cur EXCEPT !.ntbf = @ /\ At("insert")]
    OBVIOUS
  <2>2. Good(r) /\ ~r.ntbf
    BY <1>1, <2>1 DEF Good, Buffer, Owns, At
  <2> QED BY <1>1, <1>2, <1>4, <2>1, <2>2, CurBecomes DEF With, ReadOpenFails, complain
<1>5. CASE ReadStat
  <2>1. PICK st : st = Stat(cur.fname)
    OBVIOUS
  <2>2. cur.fname = job.name /\ cur.whole /\ ~cur.ntbf /\ job.name \in Files /\ At("rstat")
    BY <1>1, <1>5 DEF ReadStat, At, JobGood, Owns, Naming, Reading_of_file
  <2>3. PICK r : r = SetRecord(cur, st, Contents(cur.fname))
    OBVIOUS
  <2>4. Good(r) /\ r.fname = job.name /\ r.whole /\ ~r.ntbf
    BY <1>1, <2>1, <2>2, <2>3, StatType, RecordSet
  <2>5. PICK bs : bs = With(buf, curbuf, r)
    OBVIOUS
  <2>6. /\ AllGood(bs) /\ bs[curbuf] = r /\ r # NULL
        /\ \A c \in Buffers : buf[c] # NULL => bs[c] # NULL /\ (bs[c].ntbf => buf[c].ntbf)
    BY <1>1, <2>4, <2>5, CurChanged
  <2>7. buf' = CompareAll(bs, cur.fname, st)
    BY <1>5, <2>1, <2>3, <2>5 DEF With, ReadStat
  <2>8. AllGood(buf') /\ Looked(bs, buf')
    BY <2>6, <2>7, CompareAllLooks
  <2>9. /\ buf'[curbuf] # NULL /\ buf'[curbuf].fname = job.name /\ buf'[curbuf].whole
        /\ ~buf'[curbuf].ntbf
        /\ \A c \in Buffers : buf[c] # NULL => buf'[c] # NULL /\ (buf'[c].ntbf => buf[c].ntbf)
    BY <1>1, <2>4, <2>6, <2>8 DEF Looked, Looks
  <2>10. /\ job' \in Job /\ job'.at = "rread" /\ job'.name = job.name /\ job'.ino = job.ino
         /\ job'.cmd = job.cmd /\ job'.back = job.back /\ job'.todo = job.todo
    BY <1>1, <1>5 DEF ReadStat, Go, Job, Steps, Naming, Reading_of_file
  <2>11. JobGood(job', buf')
    <3>1. job.back \in Buffers /\ job.todo \subseteq Buffers /\ job.ino # 0
      BY <1>1, <2>2 DEF Job, JobGood, Open, At
    <3> QED BY <1>1, <2>2, <2>9, <2>10, <3>1 DEF JobGood
  <2>12. Owns(job', buf'[curbuf])
    BY <2>9, <2>10 DEF Owns, Overwriting, Saving_of_file, Reading_of_file
  <2> QED BY <1>1, <1>5, <2>8, <2>9, <2>10, <2>11, <2>12, Becomes DEF ReadStat, files
<1>6. CASE dofread
  <2>1. PICK i : i = job.ino
    OBVIOUS
  <2>2. i \in Inodes
    BY <1>1, <1>6, <2>1 DEF dofread, At, JobGood, Open, Job
  <2>3. PICK t : t = node[job.ino].data
    OBVIOUS
  <2>4. t \in Int
    BY <1>1, <2>1, <2>2, <2>3 DEF Disk
  <2>5. PICK r : r = [cur EXCEPT !.text = t, !.whole = TRUE, !.saved = FALSE]
    OBVIOUS
  <2>6. Good(r) /\ ~r.ntbf
    BY <1>1, <1>6, <2>4, <2>5 DEF Good, Buffer, Owns, dofread, At
  <2> QED BY <1>1, <1>2, <1>6, <2>3, <2>5, <2>6, CurBecomes DEF With, dofread, files
<1>7. CASE dofreadFails
  <2>1. cur.fname \in Files /\ cur.fname[2] < MaxTmp /\ ~cur.ntbf
    BY <1>1, <1>7 DEF dofreadFails, At, JobGood, Owns, Naming, Reading_of_file
  <2>2. PICK n : n = Tmp(cur.fname)
    OBVIOUS
  <2>3. n \in Files
    BY <2>1, <2>2, NamesApart
  <2>4. PICK r : r = [cur EXCEPT !.fname = n, !.scratch = TRUE, !.whole = FALSE]
    OBVIOUS
  <2>5. Good(r) /\ ~r.ntbf
    BY <1>1, <2>1, <2>3, <2>4 DEF Good, Buffer
  <2> QED BY <1>1, <1>2, <1>7, <2>2, <2>4, <2>5, CurBecomes DEF With, dofreadFails, files, complain
<1>8. CASE InsFile
  <2>1. PICK t : t = top'
    OBVIOUS
  <2>2. t \in Int /\ top' \in Nat /\ ~cur.ntbf
    BY <1>1, <1>8, <2>1 DEF InsFile, Owns, At
  <2>3. PICK r : r = [cur EXCEPT !.text = t, !.modified = TRUE]
    OBVIOUS
  <2>4. Good(r) /\ ~r.ntbf
    BY <1>1, <2>2, <2>3 DEF Good, Buffer
  <2> QED BY <1>1, <1>2, <1>8, <2>1, <2>2, <2>3, <2>4, CurBecomes DEF With, InsFile
<1>9. CASE InsFileFails
  <2>1. ~cur.ntbf /\ (cur.fname # NULL => cur.fname \in Files /\ cur.fname[2] < MaxTmp)
    BY <1>1, <1>9 DEF InsFileFails, Buffer, Owns, At
  <2>2. PICK n : n = IF cur.fname = NULL THEN NULL ELSE Tmp(cur.fname)
    OBVIOUS
  <2>3. n \in Files \cup {NULL} /\ (cur.fname # NULL => n # NULL)
    BY <2>1, <2>2, NamesApart
  <2>4. PICK r : r = [cur EXCEPT !.fname = n, !.modified = TRUE, !.whole = FALSE]
    OBVIOUS
  <2>5. Good(r) /\ ~r.ntbf
    BY <1>1, <2>1, <2>3, <2>4 DEF Good, Buffer
  <2> QED BY <1>1, <1>2, <1>9, <2>2, <2>4, <2>5, CurBecomes DEF With, InsFileFails, files, complain
<1> QED BY <1>3, <1>4, <1>5, <1>6, <1>7, <1>8, <1>9 DEF Reading

(* What holds of the buffers when one file has been compared with them.    *)
LEMMA LookedFacts ==
  ASSUME Basic, NEW bs, AllGood(bs), Looked(buf, bs)
  PROVE  /\ bs[curbuf] # NULL /\ Good(bs[curbuf]) /\ Looks(cur, bs[curbuf])
         /\ \A b \in Buffers : buf[b] # NULL => bs[b] # NULL /\ (bs[b].ntbf => buf[b].ntbf)
<1>1. curbuf \in Buffers /\ buf[curbuf] # NULL /\ cur = buf[curbuf]
  BY BasicFacts
<1> QED BY <1>1 DEF Looked, Looks, AllGood

(* What the command may go on with keeps its file and its buffers.         *)
LEMMA GoesOn ==
  ASSUME Basic, NEW at \in Steps, NEW j \in Job, j.at = at, j.name = job.name, j.back = job.back,
         j.todo \subseteq job.todo, j.cmd = job.cmd,
         at \in Naming => job.name \in Files, at \in Open => j.ino # 0, at # "prime",
         at = "stat" => job.cmd \in {"save", "write"},
         NEW bs, \A b \in Buffers : buf[b] # NULL => bs[b] # NULL /\ (bs[b].ntbf => buf[b].ntbf)
  PROVE  JobGood(j, bs)
<1>1. JobGood(job, buf) /\ job \in Job
  BY BasicFacts
<1>2. job.back \in Buffers /\ job.todo \subseteq Buffers
  BY <1>1 DEF Job
<1> QED BY <1>1, <1>2 DEF JobGood

(* A buffer that has been asked about is written, or filled again.         *)
LEMMA ProceedBasic ==
  ASSUME Basic, job.at \in {"munge", "overwrite?", "diverged?", "prime"}, NEW asked \in BOOLEAN,
         NEW bs, AllGood(bs), Looked(buf, bs), Proceed(bs, asked), UNCHANGED <<files, curbuf>>
  PROVE  Basic'
<1>1. /\ curbuf \in Buffers /\ cur = buf[curbuf] /\ job \in Job /\ JobGood(job, buf)
      /\ Owns(job, cur) /\ top \in Nat /\ gap \in BOOLEAN /\ Disk
  BY BasicFacts
<1>2. /\ bs[curbuf] # NULL /\ Good(bs[curbuf]) /\ Looks(cur, bs[curbuf])
      /\ \A b \in Buffers : buf[b] # NULL => bs[b] # NULL /\ (bs[b].ntbf => buf[b].ntbf)
  BY LookedFacts
<1>3. job.name \in Files /\ ~cur.ntbf
  BY <1>1 DEF JobGood, Owns, Naming, Overwriting
<1>4. PICK a : a = CASE job.cmd = "read" -> "reload"
                     [] job.cmd # "read" /\ BkupOnWrite -> "backup"
                     [] OTHER -> "open"
  OBVIOUS
<1>5. a \in {"reload", "backup", "open"} /\ a \in Steps /\ (a = "reload" => job.cmd = "read")
  BY <1>4 DEF Steps, Naming, Overwriting, Saving_of_file
<1>6. /\ job' \in Job /\ job'.at = a /\ job'.name = job.name /\ job'.ino = job.ino
      /\ job'.cmd = job.cmd /\ job'.back = job.back /\ job'.todo = job.todo
  BY <1>1, <1>4, <1>5, ZenonT(60) DEF Proceed, Job
<1>7. CASE job.cmd = "write"
  <2>1. PICK s : s = setfname(bs[curbuf], job.name)
    OBVIOUS
  <2>2. PICK x, n : x = bs[curbuf] /\ n = job.name
    OBVIOUS
  <2>3. Good(s) /\ s.fname = job.name /\ ~s.ntbf
    <3>1. Good(x) /\ n \in Files /\ Disk /\ s = setfname(x, n)
      BY <1>1, <1>2, <1>3, <2>1, <2>2
    <3>2. Good(s) /\ s.fname = n /\ s.ntbf = x.ntbf
      BY ONLY <3>1, Named
    <3> QED BY <1>2, <1>3, <2>2, <3>2 DEF Looks
  <2>4. PICK r : r = [s EXCEPT !.scratch = FALSE]
    OBVIOUS
  <2>5. Good(r) /\ r.fname = job.name /\ ~r.ntbf
    BY <2>3, <2>4 DEF Good, Buffer
  <2>6. PICK c, old : c = curbuf /\ old = buf'
    OBVIOUS
  <2>7. old = With(bs, c, r)
    BY <1>7, <2>1, <2>4, <2>6 DEF Proceed, With
  <2>8. AllGood(old) /\ old[c] = r /\ r # NULL /\ \A b \in Buffers \ {c} : old[b] = bs[b]
    <3>1. c \in Buffers
      BY <1>1, <2>6
    <3> QED BY <2>5, <2>7, <3>1, OneChanged
  <2>9. \A b \in Buffers : buf[b] # NULL => buf'[b] # NULL /\ (buf'[b].ntbf => buf[b].ntbf)
    BY <1>2, <2>5, <2>6, <2>8
  <2>10. JobGood(job', buf')
    BY <1>3, <1>5, <1>6, <2>9, GoesOn DEF Open
  <2>11. Owns(job', r)
    BY <1>5, <1>6, <1>7, <2>5 DEF Owns, Reading_of_file
  <2> QED BY <1>1, <1>6, <2>6, <2>8, <2>10, <2>11, Becomes DEF files
<1>8. CASE job.cmd # "write"
  <2>1. buf' = bs
    BY <1>8 DEF Proceed
  <2>2. JobGood(job', buf')
    BY <1>2, <1>3, <1>5, <1>6, <2>1, GoesOn DEF Open
  <2>3. ~bs[curbuf].ntbf /\ bs[curbuf].fname = cur.fname
    BY <1>2, <1>3 DEF Looks
  <2>4. Owns(job', bs[curbuf])
    BY <1>1, <1>5, <1>6, <1>8, <2>3 DEF Owns, Overwriting, Reading_of_file, JobGood
  <2> QED BY <1>1, <1>2, <1>6, <2>1, <2>2, <2>4, Becomes DEF files
<1> QED BY <1>7, <1>8

(* The user is asked, or not.                                              *)
LEMMA DivergenceBasic ==
  ASSUME Basic, job.at \in {"munge", "overwrite?", "diverged?", "prime"}, NEW asked \in BOOLEAN,
         NEW bs, AllGood(bs), Looked(buf, bs), NEW st, chk_divergence(bs, st, asked),
         UNCHANGED <<files, curbuf>>
  PROVE  Basic'
<1>1. CASE Proceed(bs, asked)
  BY <1>1, ProceedBasic
<1>2. CASE buf' = bs /\ job' = [job EXCEPT !.asked = asked, !.at = "diverged?"]
  <2>1. /\ curbuf \in Buffers /\ cur = buf[curbuf] /\ job \in Job /\ JobGood(job, buf)
        /\ Owns(job, cur) /\ top \in Nat /\ gap \in BOOLEAN
    BY BasicFacts
  <2>2. /\ bs[curbuf] # NULL /\ Good(bs[curbuf]) /\ Looks(cur, bs[curbuf])
        /\ \A b \in Buffers : buf[b] # NULL => bs[b] # NULL /\ (bs[b].ntbf => buf[b].ntbf)
    BY LookedFacts
  <2>3. job.name \in Files /\ ~cur.ntbf
    BY <2>1 DEF JobGood, Owns, Naming, Overwriting
  <2>4. "diverged?" \in Steps /\ "diverged?" \notin Open \cup {"prime", "stat"}
    BY DEF Steps, Naming, Overwriting, Open
  <2>5. /\ job' \in Job /\ job'.at = "diverged?" /\ job'.name = job.name /\ job'.ino = job.ino
        /\ job'.cmd = job.cmd /\ job'.back = job.back /\ job'.todo = job.todo
    BY <1>2, <2>1, <2>4 DEF Job
  <2>6. JobGood(job', buf')
    BY <1>2, <2>2, <2>3, <2>4, <2>5, GoesOn
  <2>7. ~bs[curbuf].ntbf /\ bs[curbuf].fname = cur.fname
    BY <2>2, <2>3 DEF Looks
  <2>8. Owns(job', bs[curbuf])
    BY <2>1, <2>5, <2>7 DEF Owns, Overwriting, Reading_of_file, Saving_of_file, JobGood
  <2> QED BY <1>2, <2>1, <2>2, <2>5, <2>6, <2>8, Becomes DEF files
<1> QED BY <1>1, <1>2 DEF chk_divergence

(* A name is linked to a new file, or to none.                             *)
LEMMA Relinked ==
  ASSUME Disk, NEW n \in AllNames, NEW i \in Fresh \cup {0}, dir' = [dir EXCEPT ![n] = i],
         \/ job'.ino \in {0, job.ino}
         \/ n \in Files /\ job'.ino = i
         \/ \E x \in Files : job'.ino = dir[x]
  PROVE  /\ dir' \in [AllNames -> Inodes \cup {0}] /\ job'.ino \in Inodes \cup {0} /\ Apart'
         /\ i \in Inodes \cup {0} /\ dir'[n] = i /\ \A x \in AllNames \ {n} : dir'[x] = dir[x]
         /\ i # 0 => i \in Inodes /\ i # job.ino /\ \A x \in AllNames : dir[x] # i
<1>1. i # 0 => i \in Inodes /\ i # job.ino /\ \A x \in AllNames : dir[x] # i
  BY DEF Fresh, First, InUse
<1>2. dir \in [AllNames -> Inodes \cup {0}] /\ job.ino \in Inodes \cup {0} /\ Apart
  BY DEF Disk
<1>3. dir' \in [AllNames -> Inodes \cup {0}]
  BY <1>1, <1>2
<1>4. dir'[n] = i /\ \A x \in AllNames \ {n} : dir'[x] = dir[x]
  BY <1>2
<1>5. job'.ino \in Inodes \cup {0}
  BY <1>1, <1>2, NamesApart
<1>6. ASSUME NEW x \in AllNames, NEW y \in AllNames, x # y, dir'[x] = dir'[y], dir'[x] # 0
      PROVE  x \in Names /\ y \in Names
  <2>1. x # n /\ y # n
    BY <1>1, <1>4, <1>6
  <2> QED BY <1>2, <1>4, <1>6, <2>1 DEF Apart
<1>7. ASSUME NEW h \in Files, dir'[Bak(h)] # 0
      PROVE  dir'[Bak(h)] # job'.ino
  <2>1. Bak(h) \in AllNames /\ Bak(h) \notin Files /\ Files \subseteq AllNames /\ Names \subseteq Files
    BY NamesApart
  <2>2. CASE Bak(h) = n
    BY <1>1, <1>4, <1>7, <2>1, <2>2
  <2>3. CASE Bak(h) # n
    <3>1. dir'[Bak(h)] = dir[Bak(h)] /\ dir[Bak(h)] # job.ino
      BY <1>2, <1>4, <1>7, <2>1, <2>3 DEF Apart
    <3>2. \A x \in Files : dir[x] # dir[Bak(h)]
      BY <1>2, <1>7, <2>1, <3>1 DEF Apart
    <3>3. dir[Bak(h)] # i
      BY <1>1, <1>7, <2>1, <3>1
    <3> QED BY <1>7, <3>1, <3>2, <3>3
  <2> QED BY <2>2, <2>3
<1>8. Apart'
  BY <1>6, <1>7 DEF Apart
<1> QED BY <1>1, <1>3, <1>4, <1>5, <1>8

(* The file that is open is written, or its inode put on the disk.         *)
LEMMA NodeType ==
  ASSUME Disk, NEW i \in Inodes, NEW x \in [data : Int, mtime : Nat, synced : BOOLEAN], x.mtime <= now,
         NEW nodes, nodes = [node EXCEPT ![i] = x]
  PROVE  /\ nodes \in [Inodes -> [data : Int, mtime : Nat, synced : BOOLEAN]]
         /\ \A k \in Inodes : nodes[k].mtime <= now
         /\ nodes[i] = x /\ \A k \in Inodes \ {i} : nodes[k] = node[k]
BY DEF Disk

(* ... or its contents, or whether it is on the disk, change.              *)
LEMMA FieldType ==
  ASSUME Disk, NEW i, NEW x, NEW nodes,
         \/ nodes = [node EXCEPT ![i].data = x] /\ x \in Int
         \/ nodes = [node EXCEPT ![i].synced = TRUE]
  PROVE  /\ nodes \in [Inodes -> [data : Int, mtime : Nat, synced : BOOLEAN]]
         /\ \A k \in Inodes : nodes[k].mtime = node[k].mtime /\ nodes[k].mtime <= now
         /\ \A k \in Inodes \ {i} : nodes[k] = node[k]
<1>1. node \in [Inodes -> [data : Int, mtime : Nat, synced : BOOLEAN]] /\ \A k \in Inodes : node[k].mtime <= now
  BY DEF Disk
<1>2. CASE i \in Inodes
  <2>1. PICK y : y = node[i]
    OBVIOUS
  <2>2. PICK z : \/ z = [y EXCEPT !.data = x] /\ x \in Int
                 \/ z = [y EXCEPT !.synced = TRUE]
        /\ nodes = [node EXCEPT ![i] = z]
    BY <2>1
  <2>3. y \in [data : Int, mtime : Nat, synced : BOOLEAN] /\ y.mtime <= now
    BY <1>1, <1>2, <2>1
  <2>4. z \in [data : Int, mtime : Nat, synced : BOOLEAN] /\ z.mtime = y.mtime
    BY <2>2, <2>3
  <2>5. nodes = [node EXCEPT ![i] = z]
    BY <2>2
  <2> QED BY <1>1, <1>2, <2>1, <2>3, <2>4, <2>5
<1>3. CASE i \notin Inodes
  <2>1. nodes = node
    BY <1>1, <1>3
  <2> QED BY <1>1, <2>1
<1> QED BY <1>2, <1>3

(* A save goes on to its next call, or is given up.                        *)
LEMMA SaveGoesOn ==
  ASSUME Basic, job.at \in Saving_of_file,
         \/ job' = Idle
         \/ \E a \in Saving_of_file, i \in Inodes \cup {0} :
              /\ a = "stat" => job.cmd \in {"save", "write"}
              /\ a \in Open => i # 0
              /\ \/ job' = [job EXCEPT !.at = a] /\ i = job.ino
                 \/ job' = [job EXCEPT !.at = a, !.ino = i]
  PROVE  JobGood(job', buf) /\ Owns(job', cur)
<1>1. /\ job \in Job /\ JobGood(job, buf) /\ Owns(job, cur) /\ AllGood(buf)
  BY BasicFacts
<1>2. ~cur.ntbf /\ job.name \in Files
  BY <1>1 DEF Owns, JobGood, Naming, Overwriting, Saving_of_file
<1>3. CASE job' = Idle
  BY <1>1, <1>2, <1>3, IdleFits
<1>4. ASSUME NEW a \in Saving_of_file, NEW i \in Inodes \cup {0},
             a = "stat" => job.cmd \in {"save", "write"}, a \in Open => i # 0,
             (job' = [job EXCEPT !.at = a] /\ i = job.ino) \/ job' = [job EXCEPT !.at = a, !.ino = i]
      PROVE  JobGood(job', buf) /\ Owns(job', cur)
  <2>1. a \in Steps /\ a # "prime"
    BY DEF Steps, Naming, Overwriting, Saving_of_file
  <2>2. /\ job' \in Job /\ job'.at = a /\ job'.name = job.name /\ job'.ino = i
        /\ job'.cmd = job.cmd /\ job'.back = job.back /\ job'.todo = job.todo
    BY <1>1, <1>4, <2>1, ZenonT(60) DEF Job
  <2>3. JobGood(job', buf)
    BY <1>1, <1>2, <1>4, <2>1, <2>2, GoesOn
  <2>4. Owns(job', cur)
    BY <1>1, <1>2, <1>4, <2>2 DEF Owns, Overwriting, Reading_of_file, Saving_of_file
  <2> QED BY <2>3, <2>4
<1> QED BY <1>3, <1>4

(* The calls of a save keep Basic.                                         *)
LEMMA CallsBasic ==
  ASSUME Basic, file_backup \/ CopyBackup \/ SyncBackup \/ open_file \/ putreg \/ f_close
  PROVE  Basic'
<1>1. /\ job \in Job /\ JobGood(job, buf) /\ Owns(job, cur) /\ AllGood(buf) /\ Disk
      /\ now \in Nat /\ top \in Nat /\ gap \in BOOLEAN /\ cur \in Buffer
  BY BasicFacts
<1>2. job.at \in Saving_of_file
  BY DEF file_backup, CopyBackup, SyncBackup, open_file, putreg, f_close, At, Saving_of_file
<1>3. job.name \in Files /\ Bak(job.name) \in AllNames /\ job.name \in AllNames
  BY <1>1, <1>2, NamesApart DEF JobGood, Naming, Overwriting
<1>4. Saving_of_file = {"backup", "copy", "sync", "open", "put", "close", "stat"} /\ job.ino \in Inodes \cup {0}
  BY <1>1 DEF Saving_of_file, Job
<1>5. UNCHANGED <<buf, curbuf, now>>
  BY DEF file_backup, CopyBackup, SyncBackup, open_file, putreg, f_close
<1>6. Empty \in [data : Int, mtime : Nat, synced : BOOLEAN] /\ Empty.mtime <= now
  BY <1>1 DEF Empty, Part
<1>7. Idle.ino = 0
  BY DEF Idle
<1>8. CASE file_backup
  <2>1. CASE UNCHANGED <<dir, node>> /\ (job' = Idle \/ Go("open"))
    <3>1. JobGood(job', buf) /\ Owns(job', cur)
      <4>1. job' = Idle \/ job' = [job EXCEPT !.at = "open"]
        BY <2>1 DEF Go
      <4> QED BY <1>2, <1>4, <4>1, SaveGoesOn DEF Open
    <3>2. job'.ino \in {0, job.ino}
      BY <1>1, <1>7, <2>1 DEF Go, Job
    <3>3. Disk'
      BY <1>1, <1>5, <1>8, <2>1, <3>2, DiskStays DEF file_backup
    <3> QED BY <1>1, <1>5, <3>1, <3>3, DiskBecomes
  <2>2. CASE job' = Idle /\ UNCHANGED node /\ dir' = [dir EXCEPT ![Bak(job.name)] = 0]
    <3>1. JobGood(job', buf) /\ Owns(job', cur)
      BY <1>2, <2>2, SaveGoesOn
    <3>2. Disk'
      <4>1. PICK n : n = Bak(job.name)
        OBVIOUS
      <4>2. dir' = [dir EXCEPT ![n] = 0] /\ n \in AllNames /\ job'.ino = 0
        BY <1>3, <1>7, <2>2, <4>1
      <4>3. dir' \in [AllNames -> Inodes \cup {0}] /\ job'.ino \in Inodes \cup {0} /\ Apart'
        BY <1>1, <4>2, Relinked
      <4> QED BY <1>1, <1>5, <1>8, <2>2, <4>3 DEF Disk, file_backup
    <3> QED BY <1>1, <1>5, <3>1, <3>2, DiskBecomes
  <2>3. ASSUME dir[job.name] # 0, NEW i \in Fresh, dir' = [dir EXCEPT ![Bak(job.name)] = i],
               node' = [node EXCEPT ![i] = Empty],
               job' = [job EXCEPT !.at = "copy", !.ino = dir[job.name]]
        PROVE  Basic'
    <3>1. dir[job.name] \in Inodes
      BY <1>1, <1>3, <2>3 DEF Disk
    <3>2. JobGood(job', buf) /\ Owns(job', cur) /\ job'.ino = dir[job.name]
      <4>1. PICK k : k = dir[job.name]
        OBVIOUS
      <4>2. job' = [job EXCEPT !.at = "copy", !.ino = k] /\ k \in Inodes /\ k # 0
        BY <2>3, <3>1, <4>1
      <4>3. JobGood(job', buf) /\ Owns(job', cur)
        BY <1>2, <1>4, <4>2, SaveGoesOn
      <4> QED BY <1>1, <4>1, <4>2, <4>3 DEF Job
    <3>3. Disk'
      <4>1. PICK n, e : n = Bak(job.name) /\ e = Empty
        OBVIOUS
      <4>2. dir' = [dir EXCEPT ![n] = i] /\ n \in AllNames /\ \E x \in Files : job'.ino = dir[x]
        BY <1>3, <2>3, <3>2, <4>1
      <4>3. /\ dir' \in [AllNames -> Inodes \cup {0}] /\ job'.ino \in Inodes \cup {0} /\ Apart'
            /\ i # 0 => i \in Inodes
        BY <1>1, <4>2, Relinked
      <4>4. i \in Inodes
        BY DEF Fresh, First
      <4>5. /\ node' \in [Inodes -> [data : Int, mtime : Nat, synced : BOOLEAN]]
            /\ \A k \in Inodes : node'[k].mtime <= now
        BY <1>1, <1>6, <2>3, <4>1, <4>4, NodeType
      <4> QED BY <1>1, <1>5, <1>8, <4>3, <4>5 DEF Disk, file_backup
    <3> QED BY <1>1, <1>5, <3>2, <3>3, DiskBecomes
  <2> QED BY <1>8, <2>1, <2>2, <2>3 DEF file_backup, complain
<1>9. CASE CopyBackup \/ SyncBackup \/ f_close
  <2>1. job.ino \in Inodes
    BY <1>1, <1>9 DEF CopyBackup, SyncBackup, f_close, At, JobGood, Open, Job
  <2>2. JobGood(job', buf) /\ Owns(job', cur)
    <3>1. \/ job' = Idle \/ job' = [job EXCEPT !.at = "sync"] \/ job' = [job EXCEPT !.at = "open"]
          \/ job.cmd \in {"save", "write"} /\ job' = [job EXCEPT !.at = "stat"]
      BY <1>9 DEF CopyBackup, SyncBackup, f_close, Go, complain
    <3> QED BY <1>2, <1>4, <2>1, <3>1, SaveGoesOn DEF Open
  <2>3. job'.ino \in {0, job.ino}
    BY <1>1, <1>7, <1>9 DEF CopyBackup, SyncBackup, f_close, Go, complain, Job
  <2>4. /\ node' \in [Inodes -> [data : Int, mtime : Nat, synced : BOOLEAN]]
        /\ \A k \in Inodes : node'[k].mtime <= now
    <3>1. PICK i, x : i \in {job.ino, dir[Bak(job.name)]} /\ x = node[job.ino].data /\
              \/ node' = node \/ node' = [node EXCEPT ![i].data = x]
              \/ node' = [node EXCEPT ![i].synced = TRUE]
      BY <1>9 DEF CopyBackup, SyncBackup, f_close
    <3>2. x \in Int
      BY <1>1, <2>1, <3>1 DEF Disk
    <3>3. CASE node' = node
      BY <1>1, <3>3 DEF Disk
    <3>4. CASE node' # node
      BY <1>1, <3>1, <3>2, <3>4, FieldType
    <3> QED BY <3>3, <3>4
  <2>5. UNCHANGED <<dir, top, gap>>
    BY <1>9 DEF CopyBackup, SyncBackup, f_close
  <2>6. Apart'
    BY <1>1, <1>5, <2>3, <2>5 DEF Disk, Apart
  <2>7. Disk'
    BY <1>1, <1>4, <1>5, <2>3, <2>4, <2>5, <2>6 DEF Disk
  <2> QED BY <1>1, <1>5, <2>2, <2>7, DiskBecomes
<1>10. CASE open_file
  <2>1. CASE complain /\ UNCHANGED <<dir, node, gap>>
    <3>1. Disk'
      BY <1>1, <1>5, <1>7, <1>10, <2>1, DiskStays DEF open_file, complain
    <3>2. JobGood(job', buf) /\ Owns(job', cur)
      BY <1>2, <2>1, SaveGoesOn DEF complain
    <3> QED BY <1>1, <1>5, <3>1, <3>2, DiskBecomes
  <2>2. ASSUME NEW i \in IF dir[job.name] = 0 THEN Fresh ELSE {dir[job.name]},
               dir' = [dir EXCEPT ![job.name] = i], node' = node \/ node' = [node EXCEPT ![i] = Empty],
               job' = [job EXCEPT !.at = "put", !.ino = i]
        PROVE  Basic'
    <3>1. i \in Inodes
      BY <1>1, <1>3 DEF Disk, Fresh, First
    <3>2. JobGood(job', buf) /\ Owns(job', cur) /\ job'.ino = i
      <4>1. JobGood(job', buf) /\ Owns(job', cur)
        BY <1>2, <1>4, <2>2, <3>1, SaveGoesOn
      <4> QED BY <1>1, <2>2, <3>1, <4>1 DEF Job
    <3>3. dir' \in [AllNames -> Inodes \cup {0}] /\ Apart'
      <4>1. CASE dir[job.name] = 0
        <5>1. PICK n : n = job.name
          OBVIOUS
        <5>2. /\ dir' = [dir EXCEPT ![n] = i] /\ n \in AllNames /\ n \in Files /\ job'.ino = i
              /\ i \in Fresh \cup {0}
          BY <1>3, <2>2, <3>2, <4>1, <5>1
        <5> QED BY <1>1, <5>2, Relinked
      <4>2. CASE dir[job.name] # 0
        <5>1. dir' = dir /\ job'.ino = dir[job.name]
          BY <1>1, <1>3, <2>2, <3>2, <4>2 DEF Disk
        <5>2. \A h \in Files : dir[Bak(h)] # 0 => dir[Bak(h)] # dir[job.name]
          BY <1>1, <1>3, NamesApart DEF Disk, Apart
        <5>3. Apart'
          BY <1>1, <5>1, <5>2 DEF Disk, Apart
        <5> QED BY <1>1, <5>1, <5>3 DEF Disk
      <4> QED BY <4>1, <4>2
    <3>4. /\ node' \in [Inodes -> [data : Int, mtime : Nat, synced : BOOLEAN]]
          /\ \A k \in Inodes : node'[k].mtime <= now
      <4>1. CASE node' = node
        BY <1>1, <4>1 DEF Disk
      <4>2. CASE node' = [node EXCEPT ![i] = Empty]
        <5>1. PICK e : e = Empty
          OBVIOUS
        <5> QED BY <1>1, <1>6, <3>1, <4>2, <5>1, NodeType
      <4> QED BY <2>2, <4>1, <4>2
    <3>5. gap' \in BOOLEAN /\ top' = top
      BY <1>1, <1>10 DEF open_file, Blind
    <3>6. Disk'
      BY <1>1, <1>5, <3>1, <3>2, <3>3, <3>4, <3>5 DEF Disk
    <3> QED BY <1>1, <1>5, <3>2, <3>6, DiskBecomes
  <2> QED BY <1>10, <2>1, <2>2 DEF open_file
<1>11. CASE putreg
  <2>1. job.ino \in Inodes
    BY <1>1, <1>11 DEF putreg, At, JobGood, Open, Job
  <2>2. JobGood(job', buf) /\ Owns(job', cur) /\ job'.ino \in {0, job.ino}
    <3>1. job' = Idle \/ job' = [job EXCEPT !.at = "close"]
      BY <1>11 DEF putreg, Go, complain
    <3>2. JobGood(job', buf) /\ Owns(job', cur)
      BY <1>2, <1>4, <2>1, <3>1, SaveGoesOn
    <3> QED BY <1>1, <1>7, <3>1, <3>2 DEF Job
  <2>3. UNCHANGED dir /\ gap' = gap /\ top' \in Nat
    BY <1>1, <1>11 DEF putreg
  <2>4. PICK i, x : /\ i = job.ino /\ node' = [node EXCEPT ![i] = x]
                    /\ \/ x = Empty
                       \/ \E d : x = [Empty EXCEPT !.data = d] /\ (d = cur.text \/ d = top')
    BY <1>11 DEF putreg
  <2>5. x \in [data : Int, mtime : Nat, synced : BOOLEAN] /\ x.mtime <= now /\ i \in Inodes
        /\ node' = [node EXCEPT ![i] = x]
    <3>1. cur.text \in Int /\ top' \in Int
      BY <1>1, <2>3 DEF Buffer
    <3>2. PICK e : e = Empty
      OBVIOUS
    <3> QED BY <1>1, <1>6, <2>1, <2>4, <3>1, <3>2
  <2>6. /\ node' \in [Inodes -> [data : Int, mtime : Nat, synced : BOOLEAN]]
        /\ \A k \in Inodes : node'[k].mtime <= now
    BY <1>1, <2>5, NodeType
  <2>7. Apart'
    BY <1>1, <2>2, <2>3 DEF Disk, Apart
  <2>8. Disk'
    BY <1>1, <1>4, <1>5, <2>2, <2>3, <2>6, <2>7 DEF Disk
  <2> QED BY <1>1, <1>5, <2>2, <2>8, DiskBecomes
<1> QED BY <1>8, <1>9, <1>10, <1>11

(* A comparison with a file leaves all of Basic's buffers good.            *)
LEMMA CompareCurrent ==
  ASSUME Basic, NEW n, NEW st
  PROVE  AllGood(CompareAll(buf, n, st)) /\ Looked(buf, CompareAll(buf, n, st))
<1>1. PICK old : old = buf
  OBVIOUS
<1>2. AllGood(old)
  BY <1>1, BasicFacts
<1>3. AllGood(CompareAll(old, n, st)) /\ Looked(old, CompareAll(old, n, st))
  BY ONLY <1>2, CompareAllLooks
<1> QED BY <1>1, <1>3

(* So do the questions of a save.                                          *)
LEMMA QuestionsBasic ==
  ASSUME Basic, filemunge \/ ConfirmOverwrite \/ ConfirmDiverged \/ PrimeCache
  PROVE  Basic'
<1>1. /\ job \in Job /\ JobGood(job, buf) /\ Owns(job, cur) /\ AllGood(buf) /\ curbuf \in Buffers
      /\ buf[curbuf] # NULL /\ cur = buf[curbuf] /\ top \in Nat /\ gap \in BOOLEAN /\ Disk
  BY BasicFacts
<1>2. job.at \in {"munge", "overwrite?", "diverged?", "prime"} /\ UNCHANGED <<files, curbuf>>
  BY DEF filemunge, ConfirmOverwrite, ConfirmDiverged, PrimeCache, At
<1>3. ~cur.ntbf /\ job.name \in Files
  BY <1>1, <1>2 DEF Owns, JobGood, Naming, Overwriting
<1>4. PICK st : st = Stat(job.name)
  OBVIOUS
<1>5. PICK bs : bs = CompareAll(buf, job.name, st)
  OBVIOUS
<1>6. AllGood(bs) /\ Looked(buf, bs)
  <2>1. PICK n : n = job.name
    OBVIOUS
  <2> QED BY <1>5, <2>1, CompareCurrent
<1>7. CASE complain /\ UNCHANGED buf
  <2>1. JobGood(job', buf) /\ Owns(job', cur) /\ job'.ino = 0
    BY <1>1, <1>3, <1>7, IdleFits DEF complain
  <2> QED BY <1>1, <1>2, <1>7, <2>1, Becomes DEF files
<1>8. CASE \E asked \in BOOLEAN : Proceed(bs, asked)
  BY <1>2, <1>6, <1>8, ProceedBasic
<1>9. CASE \E asked \in BOOLEAN : chk_divergence(bs, st, asked)
  BY <1>2, <1>6, <1>9, DivergenceBasic
<1>10. CASE buf' = bs /\ Go("overwrite?") /\ At("munge")
  <2>1. /\ bs[curbuf] # NULL /\ Good(bs[curbuf]) /\ Looks(cur, bs[curbuf])
        /\ \A b \in Buffers : buf[b] # NULL => bs[b] # NULL /\ (bs[b].ntbf => buf[b].ntbf)
    BY <1>6, LookedFacts
  <2>2. "overwrite?" \in Steps /\ "overwrite?" \notin Open \cup {"prime", "stat"}
    BY DEF Steps, Naming, Overwriting, Open
  <2>3. /\ job' \in Job /\ job'.at = "overwrite?" /\ job'.name = job.name /\ job'.ino = job.ino
        /\ job'.cmd = job.cmd /\ job'.back = job.back /\ job'.todo = job.todo
    BY <1>1, <1>10, <2>2 DEF Job, Go
  <2>4. JobGood(job', buf')
    BY <1>3, <1>10, <2>1, <2>2, <2>3, GoesOn
  <2>5. Owns(job', bs[curbuf])
    BY <1>1, <1>3, <1>10, <2>1, <2>3 DEF Owns, Overwriting, Reading_of_file, Saving_of_file, Looks, At
  <2> QED BY <1>1, <1>2, <1>6, <1>10, <2>1, <2>3, <2>4, <2>5, Becomes DEF files
<1>11. CASE filemunge
  BY <1>4, <1>5, <1>9, <1>10, <1>11 DEF filemunge
<1>12. CASE ConfirmOverwrite
  BY <1>4, <1>5, <1>7, <1>9, <1>12 DEF ConfirmOverwrite
<1>13. CASE ConfirmDiverged
  BY <1>4, <1>5, <1>7, <1>8, <1>13 DEF ConfirmDiverged
<1>14. CASE PrimeCache
  BY <1>4, <1>5, <1>9, <1>14 DEF PrimeCache
<1> QED BY <1>11, <1>12, <1>13, <1>14

(* What a save was part of goes on.                                        *)
LEMMA NextOfJob ==
  ASSUME Basic, Next_of_job, At("save") \/ At("stat"),
         NEW bs, AllGood(bs), \A b \in Buffers : buf[b] # NULL => bs[b] # NULL /\ (bs[b].ntbf => buf[b].ntbf),
         NEW r, ~r.ntbf
  PROVE  JobGood(job', bs) /\ Owns(job', r) /\ job'.ino \in {0, job.ino}
<1>1. /\ job \in Job /\ JobGood(job, buf) /\ Owns(job, cur) /\ Bufs /\ curbuf \in Buffers
      /\ buf[curbuf] # NULL /\ cur = buf[curbuf]
  BY BasicFacts
<1>2. ~cur.ntbf
  BY <1>1 DEF Owns, At
<1>3. bs[curbuf] # NULL /\ ~bs[curbuf].ntbf
  BY <1>1, <1>2
<1>4. CASE job.reload # NULL /\ job' = [New("read", job.reload) EXCEPT !.at = "prime"]
  <2>1. PICK n : n = job.reload
    OBVIOUS
  <2>2. n \in Files
    BY <1>1, <1>4, <2>1, NamesApart DEF Job
  <2>3. "prime" \in Steps /\ "prime" \notin Open \cup Reading_of_file \cup Overwriting \cup Saving_of_file
    BY DEF Steps, Naming, Open, Reading_of_file, Overwriting, Saving_of_file
  <2> QED BY <1>1, <1>3, <1>4, <2>1, <2>2, <2>3, NewFits
<1>5. CASE job' = [job EXCEPT !.at = "bufs", !.asked = FALSE]
  <2>1. "bufs" \in Steps /\ "bufs" \notin Open \cup Naming \cup {"prime", "stat"}
    BY DEF Steps, Naming, Open, Reading_of_file, Overwriting, Saving_of_file
  <2>2. /\ job' \in Job /\ job'.at = "bufs" /\ job'.name = job.name /\ job'.ino = job.ino
        /\ job'.cmd = job.cmd /\ job'.back = job.back /\ job'.todo = job.todo
    BY <1>1, <1>5, <2>1 DEF Job
  <2>3. JobGood(job', bs)
    BY <2>1, <2>2, GoesOn
  <2>4. Owns(job', r)
    BY <2>2 DEF Owns, Overwriting, Reading_of_file, Saving_of_file
  <2> QED BY <2>2, <2>3, <2>4
<1>6. CASE job' = Idle
  BY <1>6, IdleFits
<1> QED BY <1>4, <1>5, <1>6 DEF Next_of_job

(* And the rest of saving.                                                 *)
LEMMA SaveFileBasic ==
  ASSUME Basic, SaveFile
  PROVE  Basic'
<1>1. /\ job \in Job /\ JobGood(job, buf) /\ Owns(job, cur) /\ AllGood(buf) /\ curbuf \in Buffers
      /\ buf[curbuf] # NULL /\ cur = buf[curbuf] /\ top \in Nat /\ gap \in BOOLEAN /\ Good(cur)
      /\ cur \in Buffer
  BY BasicFacts
<1>2. PICK bs : bs = CompareAll(buf, cur.fname, Stat(cur.fname))
  OBVIOUS
<1>3. AllGood(bs) /\ Looked(buf, bs)
  <2>1. PICK n, st : n = cur.fname /\ st = Stat(cur.fname)
    OBVIOUS
  <2> QED BY <1>2, <2>1, CompareCurrent
<1>4. Looked(buf, buf)
  <2>1. ASSUME NEW b \in Buffers, buf[b] # NULL PROVE Looks(buf[b], buf[b])
    BY DEF Looks
  <2> QED BY <2>1 DEF Looked
<1>5. PICK cs : cs = buf'
  OBVIOUS
<1>6. cs \in {buf, bs}
  BY <1>2, <1>5 DEF SaveFile
<1>7. AllGood(cs) /\ Looked(buf, cs)
  BY <1>1, <1>3, <1>4, <1>6
<1>8. /\ cs[curbuf] # NULL /\ Good(cs[curbuf]) /\ Looks(cur, cs[curbuf])
      /\ \A b \in Buffers : buf[b] # NULL => cs[b] # NULL /\ (cs[b].ntbf => buf[b].ntbf)
  BY <1>7, LookedFacts
<1>9. ~cur.ntbf /\ ~cs[curbuf].ntbf /\ cs[curbuf].fname = cur.fname
  BY <1>1, <1>8 DEF SaveFile, Owns, Looks, At
<1>10. At("save") /\ UNCHANGED <<files, curbuf>>
  BY DEF SaveFile
<1>11. CASE Next_of_job
  <2>1. JobGood(job', cs) /\ Owns(job', cs[curbuf]) /\ job'.ino \in {0, job.ino}
    BY <1>7, <1>8, <1>9, <1>10, <1>11, NextOfJob
  <2> QED BY <1>1, <1>5, <1>7, <1>8, <1>10, <2>1, Becomes DEF files
<1>12. ASSUME NEW n \in Files, NEW c \in {job.cmd, "write"}, c = "save" => cur.fname = n,
              job' = [job EXCEPT !.cmd = c, !.at = "munge", !.name = n]
       PROVE  Basic'
  <2>1. "munge" \in Steps /\ "munge" \notin Open \cup {"prime", "stat"} \cup Reading_of_file \cup Saving_of_file
    BY DEF Steps, Naming, Open, Reading_of_file, Overwriting, Saving_of_file
  <2>2. /\ job' \in Job /\ job'.at = "munge" /\ job'.name = n /\ job'.ino = job.ino
        /\ job'.cmd = c /\ job'.back = job.back /\ job'.todo = job.todo
    BY <1>1, <1>12, <2>1 DEF Job
  <2>3. JobGood(job', cs)
    <3>1. job.back \in Buffers /\ job.todo \subseteq Buffers
      BY <1>1 DEF Job
    <3> QED BY <1>1, <1>8, <2>1, <2>2, <3>1 DEF JobGood
  <2>4. Owns(job', cs[curbuf])
    BY <1>9, <1>12, <2>1, <2>2 DEF Owns
  <2> QED BY <1>1, <1>5, <1>7, <1>8, <1>10, <2>2, <2>3, <2>4, Becomes DEF files
<1>13. CASE cur.fname = NULL /\ \E n \in Names : job' = [job EXCEPT !.cmd = "write", !.at = "munge", !.name = n]
  BY <1>12, <1>13, NamesApart
<1>14. CASE cur.fname # NULL /\ job' = [job EXCEPT !.at = "munge", !.name = cur.fname]
  <2>1. PICK n : n = cur.fname
    OBVIOUS
  <2>2. n \in Files
    BY <1>1, <1>14, <2>1 DEF Buffer
  <2>3. job' = [job EXCEPT !.cmd = job.cmd, !.at = "munge", !.name = n]
    BY <1>1, <1>14, <2>1 DEF Job
  <2> QED BY <1>12, <2>1, <2>2, <2>3
<1> QED BY <1>2, <1>11, <1>13, <1>14 DEF SaveFile

(* do_stat with DS_SET of the current buffer and its own file.             *)
LEMMA StatSet ==
  ASSUME Basic, cur.fname \in Files, NEW r, Good(r), r.fname = cur.fname, ~r.ntbf,
         NEW bs, bs = With(buf, curbuf, r), NEW st, NEW cs, cs = CompareAll(bs, cur.fname, st)
  PROVE  /\ AllGood(cs) /\ Looked(bs, cs) /\ AllGood(bs) /\ bs[curbuf] = r
         /\ \A c \in Buffers \ {curbuf} : bs[c] = buf[c]
         /\ cs[curbuf] # NULL /\ Good(cs[curbuf]) /\ Looks(r, cs[curbuf]) /\ ~cs[curbuf].ntbf
         /\ \A c \in Buffers : buf[c] # NULL => cs[c] # NULL /\ (cs[c].ntbf => buf[c].ntbf)
<1>1. PICK n : n = cur.fname
  OBVIOUS
<1>2. /\ AllGood(bs) /\ bs[curbuf] = r /\ r # NULL /\ \A c \in Buffers \ {curbuf} : bs[c] = buf[c]
      /\ \A c \in Buffers : buf[c] # NULL => bs[c] # NULL /\ (bs[c].ntbf => buf[c].ntbf)
  BY CurChanged
<1>3. AllGood(cs) /\ Looked(bs, cs)
  BY <1>1, <1>2, CompareAllLooks
<1>4. curbuf \in Buffers
  BY BasicFacts
<1>5. cs[curbuf] # NULL /\ Looks(r, cs[curbuf]) /\ Good(cs[curbuf])
  BY <1>2, <1>3, <1>4 DEF Looked, AllGood
<1>6. ~cs[curbuf].ntbf
  BY <1>5 DEF Looks
<1>7. \A c \in Buffers : buf[c] # NULL => cs[c] # NULL /\ (cs[c].ntbf => buf[c].ntbf)
  BY <1>2, <1>3 DEF Looked, Looks
<1> QED BY <1>2, <1>3, <1>5, <1>6, <1>7

(* The buffer has been saved, is filled again, or the next one is.         *)
LEMMA SavedBasic ==
  ASSUME Basic, Saved \/ Reload
  PROVE  Basic'
<1>1. /\ job \in Job /\ JobGood(job, buf) /\ Owns(job, cur) /\ AllGood(buf) /\ curbuf \in Buffers
      /\ buf[curbuf] # NULL /\ cur = buf[curbuf] /\ top \in Nat /\ gap \in BOOLEAN /\ Good(cur)
      /\ cur \in Buffer /\ Disk
  BY BasicFacts
<1>2. UNCHANGED <<files, curbuf>> /\ ~cur.ntbf /\ job.name \in Files
  BY <1>1 DEF Saved, Reload, Owns, At, JobGood, Naming, Overwriting, Saving_of_file
<1>3. CASE Saved
  <2>1. cur.fname = job.name
    BY <1>1, <1>3 DEF Saved, At, Owns, JobGood, Saving_of_file, Overwriting
  <2>2. PICK st, n, t, x : st = Stat(cur.fname) /\ n = cur.fname /\ t = cur.text /\ x = cur
    OBVIOUS
  <2>3. PICK q : q = SetRecord(x, st, t)
    OBVIOUS
  <2>4. Good(q) /\ q.fname = n /\ q.ntbf = x.ntbf
    <3>1. Good(x) /\ n \in Files /\ t \in Int /\ x.fname = n /\ st = Stat(n) /\ Disk
      BY <1>1, <1>2, <2>1, <2>2 DEF Buffer
    <3> QED BY ONLY <2>3, <3>1, RecordSet
  <2>5. PICK r : r = [q EXCEPT !.modified = FALSE, !.whole = TRUE, !.saved = TRUE]
    OBVIOUS
  <2>6. Good(r) /\ r.fname = cur.fname /\ ~r.ntbf
    BY <1>2, <2>2, <2>4, <2>5 DEF Good, Buffer
  <2>7. PICK bs : bs = With(buf, curbuf, r)
    OBVIOUS
  <2>8. PICK cs : cs = CompareAll(bs, cur.fname, st)
    OBVIOUS
  <2>9. buf' = cs
    BY <1>3, <2>2, <2>3, <2>5, <2>7, <2>8 DEF Saved, With
  <2>10. /\ AllGood(cs) /\ cs[curbuf] # NULL /\ ~cs[curbuf].ntbf
         /\ \A c \in Buffers : buf[c] # NULL => cs[c] # NULL /\ (cs[c].ntbf => buf[c].ntbf)
    BY <1>2, <2>1, <2>6, <2>7, <2>8, StatSet
  <2>11. JobGood(job', cs) /\ Owns(job', cs[curbuf]) /\ job'.ino \in {0, job.ino}
    BY <1>3, <2>10, NextOfJob DEF Saved
  <2> QED BY <1>1, <1>2, <2>9, <2>10, <2>11, Becomes DEF files
<1>4. CASE Reload
  <2>1. PICK q, x, n : q = setfname(x, n) /\ x = cur /\ n = job.name
    OBVIOUS
  <2>2. Good(q) /\ q.fname = n /\ q.ntbf = x.ntbf
    <3>1. Good(x) /\ n \in Files /\ Disk
      BY <1>1, <1>2, <2>1
    <3> QED BY ONLY <2>1, <3>1, Named
  <2>3. PICK r : r = [q EXCEPT !.text = 0, !.modified = FALSE, !.whole = TRUE]
    OBVIOUS
  <2>4. Good(r) /\ r.fname = job.name /\ ~r.ntbf /\ r.whole
    <3>1. q \in Buffer /\ ~q.ntbf /\ q.fname = job.name /\ job.name # NULL
      BY <1>2, <2>1, <2>2 DEF Good
    <3>2. /\ r \in Buffer /\ r.fname = q.fname /\ r.ntbf = q.ntbf /\ r.whole /\ r.mtime = q.mtime
          /\ r.ino = q.ino
      <4>1. q \in Buffer /\ 0 \in Int
        BY <3>1
      <4> QED BY ONLY <2>3, <4>1 DEF Buffer
    <3> QED BY <2>2, <3>1, <3>2 DEF Good
  <2>5. buf' = With(buf, curbuf, r)
    BY <1>4, <2>1, <2>3 DEF Reload, With
  <2>6. "ropen" \in Steps /\ "ropen" \notin Open \cup {"prime", "stat"} \cup Overwriting \cup Saving_of_file
    BY DEF Steps, Naming, Open, Reading_of_file, Overwriting, Saving_of_file
  <2>7. /\ job' \in Job /\ job'.at = "ropen" /\ job'.name = job.name /\ job'.ino = job.ino
        /\ job'.cmd = job.cmd /\ job'.back = job.back /\ job'.todo = job.todo
    BY <1>1, <1>4, <2>6 DEF Reload, Go, Job
  <2>8. JobGood(job', buf)
    BY <1>1, <1>2, <2>6, <2>7, GoesOn
  <2>9. Owns(job', r)
    BY <2>4, <2>6, <2>7 DEF Owns
  <2> QED BY <1>1, <1>2, <2>4, <2>5, <2>7, <2>8, <2>9, CurBecomes DEF files
<1> QED BY <1>3, <1>4

(* put_bufs goes to the next buffer, or back.                              *)
LEMMA PutBufsBasic ==
  ASSUME Basic, put_bufs
  PROVE  Basic'
<1>1. /\ job \in Job /\ JobGood(job, buf) /\ Owns(job, cur) /\ AllGood(buf) /\ curbuf \in Buffers
      /\ buf[curbuf] # NULL /\ cur = buf[curbuf] /\ top \in Nat /\ gap \in BOOLEAN /\ Disk
  BY BasicFacts
<1>2. UNCHANGED <<files>> /\ At("bufs") /\ ~cur.ntbf
  BY <1>1 DEF put_bufs, Owns, At
<1>3. job.back \in Buffers /\ job.todo \subseteq Buffers
  BY <1>1 DEF Job
<1>4. CASE curbuf' = job.back /\ job' = Idle /\ UNCHANGED buf
  <2>1. buf[job.back] # NULL /\ ~buf[job.back].ntbf
    BY <1>1 DEF JobGood
  <2>2. JobGood(job', buf) /\ Owns(job', buf[curbuf']) /\ job'.ino = 0
    BY <1>1, <1>4, <2>1, IdleFits
  <2> QED BY <1>1, <1>2, <1>3, <1>4, <2>1, <2>2, Becomes DEF files
<1>5. ASSUME NEW b \in First(job.todo), job' = [job EXCEPT !.todo = @ \ {b}], UNCHANGED buf,
             curbuf' = IF buf[b].modified /\ ~buf[b].scratch THEN b ELSE curbuf
      PROVE  Basic'
  <2>1. b \in job.todo /\ b \in Buffers
    BY <1>3 DEF First
  <2>2. buf[b] # NULL /\ Good(buf[b])
    BY <1>1, <2>1 DEF JobGood, AllGood
  <2>3. curbuf' \in Buffers /\ buf[curbuf'] # NULL /\ ~buf[curbuf'].ntbf
    BY <1>1, <1>2, <1>5, <2>1, <2>2 DEF Good
  <2>4. /\ job' \in Job /\ job'.at = "bufs" /\ job'.name = job.name /\ job'.ino = job.ino
        /\ job'.cmd = job.cmd /\ job'.back = job.back /\ job'.todo \subseteq job.todo
    BY <1>1, <1>2, <1>5 DEF Job, At
  <2>5. "bufs" \in Steps /\ "bufs" \notin Open \cup Naming \cup {"prime", "stat"}
    BY DEF Steps, Naming, Open, Reading_of_file, Overwriting, Saving_of_file
  <2>6. JobGood(job', buf)
    BY <2>4, <2>5, GoesOn
  <2>7. Owns(job', buf[curbuf'])
    BY <2>3, <2>4 DEF Owns, Overwriting, Reading_of_file, Saving_of_file
  <2> QED BY <1>1, <1>2, <1>5, <2>3, <2>4, <2>6, <2>7, Becomes DEF files
<1>6. ASSUME NEW b \in First(job.todo), buf[b].modified, curbuf' = b,
             IF buf[b].fname # NULL THEN UNCHANGED buf
               ELSE \E n \in Names : buf' = [buf EXCEPT ![b] = setfname(buf[b], n)],
             job' = [job EXCEPT !.todo = @ \ {b}, !.at = "save"]
      PROVE  Basic'
  <2>1. b \in job.todo /\ b \in Buffers
    BY <1>3 DEF First
  <2>2. buf[b] # NULL /\ Good(buf[b]) /\ ~buf[b].ntbf
    BY <1>1, <1>6, <2>1 DEF JobGood, AllGood, Good
  <2>3. /\ job' \in Job /\ job'.at = "save" /\ job'.name = job.name /\ job'.ino = job.ino
        /\ job'.cmd = job.cmd /\ job'.back = job.back /\ job'.todo \subseteq job.todo
    BY <1>1, <1>2, <1>6 DEF Job, At, Steps
  <2>4. "save" \in Steps /\ "save" \notin Open \cup Naming \cup {"prime", "stat"}
    BY DEF Steps, Naming, Open, Reading_of_file, Overwriting, Saving_of_file
  <2>5. PICK old, x : old = buf /\ x = buf[b]
    OBVIOUS
  <2>6. PICK cs : cs = buf'
    OBVIOUS
  <2>7. /\ AllGood(cs) /\ cs[b] # NULL /\ ~cs[b].ntbf
        /\ \A c \in Buffers : buf[c] # NULL => cs[c] # NULL /\ (cs[c].ntbf => buf[c].ntbf)
    <3>1. CASE UNCHANGED buf
      BY <1>1, <2>1, <2>2, <2>6, <3>1
    <3>2. ASSUME NEW n \in Names, buf' = [buf EXCEPT ![b] = setfname(buf[b], n)]
          PROVE  /\ AllGood(cs) /\ cs[b] # NULL /\ ~cs[b].ntbf
                 /\ \A c \in Buffers : buf[c] # NULL => cs[c] # NULL /\ (cs[c].ntbf => buf[c].ntbf)
      <4>1. n \in Files
        BY NamesApart
      <4>2. PICK r : r = setfname(x, n)
        OBVIOUS
      <4>3. Good(r) /\ r.ntbf = x.ntbf
        BY <1>1, <2>2, <2>5, <4>1, <4>2, Named
      <4>4. cs = With(old, b, r) /\ AllGood(old) /\ ~r.ntbf
        BY <1>1, <2>2, <2>5, <2>6, <3>2, <4>2, <4>3 DEF With
      <4>5. AllGood(cs) /\ cs[b] = r /\ r # NULL /\ \A c \in Buffers \ {b} : cs[c] = old[c]
        BY <2>1, <4>3, <4>4, OneChanged
      <4> QED BY <2>5, <4>4, <4>5
    <3> QED BY <1>6, <3>1, <3>2
  <2>8. JobGood(job', cs)
    BY <2>3, <2>4, <2>7, GoesOn
  <2>9. Owns(job', cs[b])
    BY <2>3, <2>4, <2>7 DEF Owns, Overwriting, Reading_of_file, Saving_of_file
  <2> QED BY <1>1, <1>2, <1>6, <2>1, <2>3, <2>6, <2>7, <2>8, <2>9, Becomes DEF files
<1> QED BY <1>4, <1>5, <1>6 DEF put_bufs

(* A buffer is found for a file, or made for it.                           *)
LEMMA FindFileBasic ==
  ASSUME Basic, NEW n \in Names, NEW force \in BOOLEAN, FindFile(n, force)
  PROVE  Basic'
<1>1. /\ job \in Job /\ JobGood(job, buf) /\ Owns(job, cur) /\ AllGood(buf) /\ curbuf \in Buffers
      /\ buf[curbuf] # NULL /\ cur = buf[curbuf] /\ top \in Nat /\ gap \in BOOLEAN /\ Disk /\ Bufs
      /\ now \in Nat
  BY BasicFacts
<1>2. UNCHANGED files /\ At("key") /\ ~cur.ntbf /\ n \in Files
  BY <1>1, NamesApart DEF FindFile, Start, Owns, At
<1>3. PICK st : st = Stat(n)
  OBVIOUS
<1>4. PICK bs : bs = CompareAll(buf, n, st)
  OBVIOUS
<1>5. AllGood(bs) /\ Looked(buf, bs)
  BY <1>4, CompareCurrent
<1>6. /\ bs[curbuf] # NULL /\ Good(bs[curbuf]) /\ Looks(cur, bs[curbuf])
      /\ \A b \in Buffers : buf[b] # NULL => bs[b] # NULL /\ (bs[b].ntbf => buf[b].ntbf)
  BY <1>5, LookedFacts
<1>7. ~bs[curbuf].ntbf
  BY <1>2, <1>6 DEF Looks
<1>9. ASSUME NEW new \in First(Buffers \ world),
             buf' = [bs EXCEPT ![new] =
                      [SetRecord(setfname(NewBuf, n), st, Contents(n)) EXCEPT !.ntbf = TRUE]],
             curbuf' = IF force THEN new ELSE curbuf,
             job' = IF force THEN New("ropen", n) ELSE Idle
      PROVE  Basic'
  <2>1. new \in Buffers /\ buf[new] = NULL /\ new # 1 /\ new # curbuf
    BY <1>1 DEF First, world, AllGood
  <2>2. PICK p, t : p = setfname(NewBuf, n) /\ t = Contents(n)
    OBVIOUS
  <2>3. Good(p) /\ p.fname = n /\ p.whole /\ ~p.modified
    <3>1. n # NULL
      BY <1>2
    <3>2. p = [fname |-> n, scratch |-> FALSE, ntbf |-> FALSE, modified |-> FALSE,
               diverged |-> FALSE, ino |-> 0, mtime |-> 0, text |-> 0,
               whole |-> TRUE, seen |-> 0, saved |-> FALSE]
      BY <2>2 DEF setfname, NewBuf
    <3>3. p \in Buffer
      BY <1>2, <3>2 DEF Buffer
    <3> QED BY <1>1, <3>1, <3>2, <3>3 DEF Good
  <2>4. PICK q : q = SetRecord(p, st, t)
    OBVIOUS
  <2>5. Good(q) /\ q.fname = n /\ q.whole /\ ~q.modified
    <3>1. t \in Int
      BY <1>1, <1>2, <2>2, StatType
    <3>2. Good(q) /\ q.fname = n /\ q.whole = p.whole /\ q.modified = p.modified
      <4>1. Disk /\ Good(p) /\ n \in Files /\ p.fname = n /\ t \in Int /\ st = Stat(n)
        BY <1>1, <1>2, <1>3, <2>3, <3>1
      <4> QED BY ONLY <2>4, <4>1, RecordSet
    <3> QED BY <2>3, <3>2
  <2>6. PICK r : r = [q EXCEPT !.ntbf = TRUE]
    OBVIOUS
  <2>7. Good(r) /\ r.fname = n /\ r.whole
    <3>1. q \in Buffer /\ n # NULL
      BY <1>2, <2>5 DEF Good
    <3>2. /\ r \in Buffer /\ r.fname = q.fname /\ r.whole = q.whole /\ r.mtime = q.mtime
          /\ r.ino = q.ino /\ r.modified = q.modified
      BY ONLY <2>6, <3>1 DEF Buffer
    <3> QED BY <2>5, <3>1, <3>2 DEF Good
  <2>8. PICK cs : cs = buf'
    OBVIOUS
  <2>9. cs = With(bs, new, r)
    BY <1>9, <2>2, <2>4, <2>6, <2>8 DEF With
  <2>10. AllGood(cs) /\ cs[new] = r /\ r # NULL /\ \A c \in Buffers \ {new} : cs[c] = bs[c]
    <3>1. AllGood(bs) /\ new \in Buffers /\ Good(r) /\ (new = 1 => ~r.ntbf)
      BY <1>5, <2>1, <2>7
    <3> QED BY ONLY <3>1, <2>9, OneChanged
  <2>11. /\ cs[curbuf] = bs[curbuf]
         /\ \A b \in Buffers : buf[b] # NULL => cs[b] # NULL /\ (cs[b].ntbf => buf[b].ntbf)
    BY <1>1, <1>6, <2>1, <2>10
  <2>12. CASE force
    <3>1. curbuf' = new /\ job' = New("ropen", n)
      BY <1>9, <2>12
    <3>2. JobGood(job', cs) /\ Owns(job', r) /\ job'.ino = 0
      BY <1>1, <1>2, <1>6, <1>7, <2>7, <2>10, <2>11, <3>1, OpenFits
    <3> QED BY <1>1, <1>2, <2>1, <2>8, <2>10, <3>1, <3>2, Becomes DEF files
  <2>13. CASE ~force
    <3>1. curbuf' = curbuf /\ job' = Idle
      BY <1>9, <2>13
    <3>2. JobGood(job', cs) /\ Owns(job', cs[curbuf]) /\ job'.ino = 0
      BY <1>7, <2>10, <2>11, <3>1, IdleFits
    <3> QED BY <1>1, <1>2, <1>6, <2>8, <2>10, <2>11, <3>1, <3>2, Becomes DEF files
  <2> QED BY <2>12, <2>13
<1>10. ASSUME NEW b \in Last(Matching(buf, n, st)), buf' = bs, curbuf' = IF force THEN b ELSE curbuf,
              job' = IF force /\ buf[b].ntbf THEN New("ropen", buf[b].fname) ELSE Idle
       PROVE  Basic'
  <2>1. b \in Buffers /\ buf[b] # NULL
    BY DEF Last, Matching, world
  <2>2. bs[b] # NULL /\ Good(bs[b]) /\ Looks(buf[b], bs[b]) /\ Good(buf[b])
    BY <1>1, <1>5, <2>1 DEF Looked, AllGood
  <2>3. CASE force /\ buf[b].ntbf
    <3>1. PICK m : m = buf[b].fname
      OBVIOUS
    <3>2. m \in Files /\ bs[b].fname = m /\ bs[b].whole
      BY <2>2, <2>3, <3>1 DEF Good, Buffer, Looks
    <3>3. curbuf' = b /\ job' = New("ropen", m)
      BY <1>10, <2>3, <3>1
    <3>4. JobGood(job', bs) /\ Owns(job', bs[b]) /\ job'.ino = 0
      BY <1>1, <1>5, <1>6, <1>7, <3>2, <3>3, OpenFits
    <3> QED BY <1>1, <1>2, <1>5, <1>10, <2>1, <2>2, <3>3, <3>4, Becomes DEF files
  <2>4. CASE ~(force /\ buf[b].ntbf)
    <3>1. job' = Idle /\ curbuf' \in {b, curbuf} /\ (curbuf' = b => b = curbuf \/ ~buf[b].ntbf)
      BY <1>10, <2>4
    <3>2. curbuf' \in Buffers /\ bs[curbuf'] # NULL /\ ~bs[curbuf'].ntbf
      BY <1>1, <1>6, <1>7, <2>1, <2>2, <3>1
    <3>3. JobGood(job', bs) /\ Owns(job', bs[curbuf']) /\ job'.ino = 0
      BY <1>5, <3>1, <3>2, IdleFits
    <3> QED BY <1>1, <1>2, <1>5, <1>10, <3>1, <3>2, <3>3, Becomes DEF files
  <2> QED BY <2>3, <2>4
<1> QED BY <1>3, <1>4, <1>9, <1>10 DEF FindFile

(* The other commands begin.                                               *)
LEMMA CommandsBasic ==
  ASSUME Basic, Commands
  PROVE  Basic'
<1>1. /\ job \in Job /\ JobGood(job, buf) /\ Owns(job, cur) /\ AllGood(buf) /\ curbuf \in Buffers
      /\ buf[curbuf] # NULL /\ cur = buf[curbuf] /\ top \in Nat /\ gap \in BOOLEAN /\ Disk /\ Bufs
      /\ cur \in Buffer /\ Good(cur)
  BY BasicFacts
<1>2. Names \subseteq Files
  BY NamesApart
<1>3. ASSUME NEW n \in Names, NEW force \in BOOLEAN, FindFile(n, force) PROVE Basic'
  BY <1>3, FindFileBasic
<1>4. ASSUME NEW b \in Buffers, SelectBuf(b) PROVE Basic'
  <2>1. UNCHANGED <<dir, node, now, top, gap, buf>> /\ curbuf' = b /\ buf[b] # NULL
    BY <1>4 DEF SelectBuf, files, world
  <2>2. Good(buf[b])
    BY <1>1, <2>1 DEF AllGood
  <2>3. CASE buf[b].ntbf
    <3>1. PICK m : m = buf[b].fname
      OBVIOUS
    <3>2. m \in Files /\ buf[b].whole /\ job' = New("ropen", m)
      BY <1>4, <2>2, <2>3, <3>1 DEF SelectBuf, Good, Buffer
    <3>4. ~cur.ntbf
      BY <1>1, <1>4 DEF SelectBuf, Start, Owns, At
    <3>5. PICK old, r : old = buf /\ r = buf[b]
      OBVIOUS
    <3>6. JobGood(job', old) /\ Owns(job', r) /\ job'.ino = 0
      BY <1>1, <2>3, <3>1, <3>2, <3>4, <3>5, OpenFits
    <3> QED BY <1>1, <2>1, <3>5, <3>6, Becomes
  <2>4. CASE ~buf[b].ntbf
    <3>1. job' = Idle
      BY <1>4, <2>4 DEF SelectBuf
    <3>2. JobGood(job', buf) /\ Owns(job', buf[b]) /\ job'.ino = 0
      BY <1>1, <2>4, <3>1, IdleFits
    <3> QED BY <1>1, <2>1, <3>2, Becomes
  <2> QED BY <2>3, <2>4
<1>5. ASSUME At("key"), UNCHANGED <<files, buf, curbuf>>, NEW n \in Names \cup {NULL},
             NEW cmd \in {"save", "write", "region", "append", "insert", "read"},
             NEW at \in {"save", "bufs", "munge", "open", "insert", "prime"},
             at = "prime" => cmd = "read", at = "munge" => cmd # "save", at = "open" => cmd = "append",
             at \in {"munge", "open", "insert", "prime"} => n \in Names,
             job' = [New(cmd, n) EXCEPT !.at = at]
      PROVE  Basic'
  <2>1. /\ at \in Steps /\ at \notin Open \cup Reading_of_file
        /\ cmd \in Steps \cup {"write", "region", "append", "read"}
        /\ at \in Naming => at \in {"munge", "open", "insert", "prime"}
        /\ at \in Overwriting => at \in {"munge", "open"}
        /\ at \in Saving_of_file => at = "open"
    BY DEF Steps, Naming, Open, Reading_of_file, Overwriting, Saving_of_file
  <2>2. ~cur.ntbf /\ n \in Files \cup {NULL} /\ (n \in Names => n \in Files)
    BY <1>1, <1>2, <1>5 DEF Owns, At
  <2>3. PICK old, r : old = buf /\ r = cur
    OBVIOUS
  <2>4. JobGood(job', old) /\ Owns(job', r) /\ job'.ino = 0
    <3>1. /\ AllGood(old) /\ old[curbuf] # NULL /\ ~old[curbuf].ntbf /\ ~r.ntbf
          /\ at \in Naming => n \in Files
      BY <1>1, <1>5, <2>1, <2>2, <2>3
    <3>2. /\ JobGood([New(cmd, n) EXCEPT !.at = at], old)
          /\ Owns([New(cmd, n) EXCEPT !.at = at], r)
          /\ [New(cmd, n) EXCEPT !.at = at].ino = 0
      BY <1>1, <1>5, <2>1, <2>2, <3>1, NewFits
    <3> QED BY <1>5, <3>2
  <2> QED BY <1>1, <1>5, <2>3, <2>4, Becomes DEF files
<1>6. CASE Edit
  <2>1. PICK t : t = top'
    OBVIOUS
  <2>2. t \in Int /\ top' \in Nat /\ ~cur.ntbf
    BY <1>1, <1>6, <2>1 DEF Edit, Owns, At
  <2>3. PICK r : r = [cur EXCEPT !.text = t, !.modified = TRUE]
    OBVIOUS
  <2>4. Good(r) /\ ~r.ntbf /\ buf' = With(buf, curbuf, r) /\ r.fname = cur.fname /\ r.whole = cur.whole
    BY <1>1, <1>6, <2>1, <2>2, <2>3 DEF Good, Buffer, With, Edit
  <2>5. JobGood(job', buf) /\ Owns(job', r) /\ job'.ino = job.ino
    BY <1>1, <1>6, <2>4 DEF Edit, Owns
  <2> QED BY <1>1, <1>6, <2>2, <2>4, <2>5, CurBecomes DEF Edit
<1>7. ASSUME NEW n \in Names,
             JWriteFile(n) \/ WrtReg(n) \/ AppReg(n) \/ InsertCommand(n) \/ JReadFile(n)
      PROVE  Basic'
  <2>1. At("key") /\ UNCHANGED <<files, buf, curbuf>>
    BY <1>7 DEF JWriteFile, WrtReg, AppReg, InsertCommand, JReadFile, Start
  <2>2. CASE job' = [New("write", n) EXCEPT !.at = "munge"]
    BY <1>5, <2>1, <2>2
  <2>3. CASE job' = [New("region", n) EXCEPT !.at = "munge"]
    BY <1>5, <2>1, <2>3
  <2>4. CASE job' = [New("append", n) EXCEPT !.at = "open"]
    BY <1>5, <2>1, <2>4
  <2>5. CASE job' = [New("read", n) EXCEPT !.at = "prime"]
    BY <1>5, <2>1, <2>5
  <2>6. CASE job' = New("insert", n)
    <3>1. job' = [New("insert", n) EXCEPT !.at = "insert"]
      BY <2>6 DEF New, Idle
    <3> QED BY <1>5, <2>1, <3>1
  <2>7. CASE job' = [New("save", NULL) EXCEPT !.reload = n]
    <3>1. /\ job' \in Job /\ job'.at = "save" /\ job'.cmd = "save" /\ job'.todo = {}
          /\ job'.back = curbuf /\ job'.ino = 0
      BY <1>1, <2>7 DEF New, Idle, Job, Steps
    <3>2. ~cur.ntbf
      BY <1>1, <2>1 DEF Owns, At
    <3>3. JobGood(job', buf)
      BY <1>1, <3>1, <3>2 DEF JobGood, Naming, Open, Overwriting, Reading_of_file, Saving_of_file
    <3>4. Owns(job', cur)
      BY <3>1, <3>2 DEF Owns, Overwriting, Reading_of_file, Saving_of_file
    <3> QED BY <1>1, <2>1, <3>1, <3>3, <3>4, Becomes DEF files
  <2> QED BY <1>7, <2>2, <2>3, <2>4, <2>5, <2>6, <2>7
           DEF JWriteFile, WrtReg, AppReg, InsertCommand, JReadFile
<1>8. CASE SaveCommand
  <2>1. job' = [New("save", NULL) EXCEPT !.at = "save"]
    BY <1>8 DEF SaveCommand, New, Idle
  <2> QED BY <1>5, <1>8, <2>1 DEF SaveCommand, Start
<1>9. CASE WtModBuf
  <2>1. /\ job' \in Job /\ job'.at = "bufs" /\ job'.cmd = "save" /\ job'.todo = world
        /\ job'.back = curbuf /\ job'.ino = 0
    BY <1>1, <1>9 DEF WtModBuf, New, Idle, Job, Steps, world
  <2>2. ~cur.ntbf
    BY <1>1, <1>9 DEF Owns, At, WtModBuf, Start
  <2>3. JobGood(job', buf)
    BY <1>1, <2>1, <2>2 DEF JobGood, world, Naming, Open, Overwriting, Reading_of_file, Saving_of_file
  <2>4. Owns(job', cur)
    BY <2>1, <2>2 DEF Owns, Overwriting, Reading_of_file, Saving_of_file
  <2> QED BY <1>1, <1>9, <2>1, <2>3, <2>4, Becomes DEF files, WtModBuf
<1> QED BY <1>3, <1>4, <1>6, <1>7, <1>8, <1>9 DEF Commands

(* What others do to the files, the clock, and a crash.                    *)
LEMMA WorldBasic ==
  ASSUME Basic, World
  PROVE  Basic'
<1>1. /\ job \in Job /\ JobGood(job, buf) /\ Owns(job, cur) /\ AllGood(buf) /\ Disk
      /\ top \in Nat /\ gap \in BOOLEAN /\ now \in Nat
  BY BasicFacts
<1>2. ASSUME NEW n \in Names, Rewrite(n) \/ Replace(n) \/ Remove(n) PROVE Basic'
  <2>1. UNCHANGED <<now, buf, curbuf, job, kept>> /\ n \in AllNames
    BY <1>2, NamesApart DEF Rewrite, Replace, Remove, Others
  <2>2. gap' \in BOOLEAN /\ top' \in Nat
    <3>1. gap' = Unnoticed /\ (top' = top \/ top' = top + 1)
      BY <1>2 DEF Rewrite, Replace, Remove
    <3>2. Unnoticed \in BOOLEAN
      BY DEF Unnoticed
    <3> QED BY <1>1, <3>1, <3>2
  <2>3. PICK x : x = [data |-> top + 1, mtime |-> now, synced |-> TRUE]
    OBVIOUS
  <2>4. x \in [data : Int, mtime : Nat, synced : BOOLEAN] /\ x.mtime <= now
    BY <1>1, <2>3
  <2>5. job'.ino = job.ino /\ job'.ino \in Inodes \cup {0}
    BY <1>1, <2>1 DEF Disk
  <2>6. Disk'
    <3>1. CASE Rewrite(n)
      <4>1. PICK i : i = dir[n]
        OBVIOUS
      <4>2. i \in Inodes /\ node' = [node EXCEPT ![i] = x] /\ UNCHANGED dir
        BY <1>1, <2>1, <2>3, <3>1, <4>1 DEF Rewrite, NewContents, Disk
      <4>3. /\ node' \in [Inodes -> [data : Int, mtime : Nat, synced : BOOLEAN]]
            /\ \A k \in Inodes : node'[k].mtime <= now
        BY <1>1, <2>4, <4>2, NodeType
      <4>4. Apart'
        BY <1>1, <2>5, <4>2 DEF Disk, Apart
      <4> QED BY <1>1, <2>1, <2>2, <2>5, <4>2, <4>3, <4>4 DEF Disk
    <3>2. CASE Replace(n)
      <4>1. PICK i \in Fresh : node' = [node EXCEPT ![i] = x] /\ dir' = [dir EXCEPT ![n] = i]
        BY <2>3, <3>2 DEF Replace, NewContents
      <4>2. i \in Inodes
        BY DEF Fresh, First
      <4>3. /\ node' \in [Inodes -> [data : Int, mtime : Nat, synced : BOOLEAN]]
            /\ \A k \in Inodes : node'[k].mtime <= now
        BY <1>1, <2>4, <4>1, <4>2, NodeType
      <4>4. dir' \in [AllNames -> Inodes \cup {0}] /\ Apart'
        BY <1>1, <2>1, <2>5, <4>1, Relinked
      <4> QED BY <1>1, <2>1, <2>2, <2>5, <4>3, <4>4 DEF Disk
    <3>3. CASE Remove(n)
      <4>1. dir' = [dir EXCEPT ![n] = 0] /\ UNCHANGED node
        BY <3>3 DEF Remove
      <4>2. dir' \in [AllNames -> Inodes \cup {0}] /\ Apart'
        BY <1>1, <2>1, <2>5, <4>1, Relinked
      <4> QED BY <1>1, <2>1, <2>2, <2>5, <4>1, <4>2 DEF Disk
    <3> QED BY <1>2, <3>1, <3>2, <3>3
  <2> QED BY <1>1, <2>1, <2>6, DiskBecomes
<1>3. CASE Tick
  <2>1. now' = now + 1 /\ UNCHANGED <<dir, node, buf, curbuf, job, top, gap>>
    BY <1>3 DEF Tick
  <2>2. \A i \in Inodes : node[i].mtime <= now + 1
    BY <1>1 DEF Disk
  <2>3. Apart'
    BY <1>1, <2>1 DEF Disk, Apart
  <2>4. Disk'
    BY <1>1, <2>1, <2>2, <2>3 DEF Disk
  <2> QED BY <1>1, <2>1, <2>4, DiskBecomes
<1>4. CASE Crash
  <2>1. UNCHANGED <<dir, now, buf, curbuf, top, gap>> /\ job' = [Idle EXCEPT !.at = "dead", !.cmd = job.at]
    BY <1>4 DEF Crash
  <2>2. /\ job' \in Job /\ job'.at = "dead" /\ job'.cmd = job.at /\ job'.ino = 0
        /\ job'.todo = {} /\ job'.back = 1
    BY <1>1, <2>1 DEF Idle, Job, Steps
  <2>3. JobGood(job', buf)
    BY <1>1, <2>2 DEF JobGood, AllGood, Naming, Open, Overwriting, Reading_of_file, Saving_of_file
  <2>4. Owns(job', cur)
    BY <2>2 DEF Owns, Overwriting, Reading_of_file, Saving_of_file
  <2>5. /\ node' \in [Inodes -> [data : Int, mtime : Nat, synced : BOOLEAN]]
        /\ \A i \in Inodes : node'[i].mtime = node[i].mtime
    <3>1. CASE node' = node
      BY <1>1, <3>1 DEF Disk
    <3>2. CASE node' = [i \in Inodes |-> IF node[i].synced THEN node[i] ELSE [node[i] EXCEPT !.data = Part]]
      <4>1. \A i \in Inodes : /\ node'[i] \in [data : Int, mtime : Nat, synced : BOOLEAN]
                              /\ node'[i].mtime = node[i].mtime
        <5>1. TAKE i \in Inodes
        <5>2. PICK y : y = node[i]
          OBVIOUS
        <5>3. y \in [data : Int, mtime : Nat, synced : BOOLEAN]
          BY <1>1, <5>2 DEF Disk
        <5>4. node'[i] = IF y.synced THEN y ELSE [y EXCEPT !.data = Part]
          BY <3>2, <5>2
        <5> QED BY <5>2, <5>3, <5>4 DEF Part
      <4> QED BY <3>2, <4>1
    <3> QED BY <1>4, <3>1, <3>2 DEF Crash
  <2>6. Apart'
    BY <1>1, <2>1, <2>2 DEF Disk, Apart
  <2>7. Disk'
    BY <1>1, <2>1, <2>2, <2>5, <2>6 DEF Disk
  <2> QED BY <1>1, <2>1, <2>3, <2>4, <2>7, DiskBecomes
<1> QED BY <1>2, <1>3, <1>4 DEF World

(* So it begins.                                                           *)
LEMMA InitBasic ==
  ASSUME Init
  PROVE  Basic
<1>1. /\ Names \subseteq Files /\ Files \subseteq AllNames
      /\ \A f \in Files : Bak(f) \in AllNames /\ Bak(f) \notin Names
  BY NamesApart
<1>2. PICK d \in Links : dir = [n \in AllNames |-> IF n \in Names THEN d[n] ELSE 0]
  BY DEF Init
<1>3. d \in [Names -> Inodes \cup {0}]
  OBVIOUS
<1>4. dir \in [AllNames -> Inodes \cup {0}]
  BY <1>2, <1>3
<1>5. \A n \in AllNames : n \notin Names => dir[n] = 0
  BY <1>2
<1>6. Apart
  BY <1>1, <1>5 DEF Apart
<1>7. /\ node = [i \in Inodes |-> [data |-> i, mtime |-> 1, synced |-> TRUE]]
      /\ now = 2 /\ top \in Nat /\ gap = FALSE /\ job = Idle /\ curbuf = 1
      /\ buf = [b \in Buffers |-> IF b = 1 THEN NewBuf ELSE NULL]
  BY DEF Init
<1>8. node \in [Inodes -> [data : Int, mtime : Nat, synced : BOOLEAN]] /\ \A i \in Inodes : node[i].mtime <= now
  BY <1>7
<1>9. Disk
  BY <1>4, <1>6, <1>7, <1>8 DEF Disk, Idle
<1>10. NewBuf \in Buffer /\ Good(NewBuf) /\ ~NewBuf.ntbf /\ NewBuf # NULL
  <2>1. NewBuf \in Buffer
    BY DEF NewBuf, Buffer
  <2>2. NewBuf.mtime = 0 /\ NewBuf.ino = 0 /\ ~NewBuf.ntbf
    BY DEF NewBuf
  <2> QED BY <1>7, <2>1, <2>2 DEF Good
<1>11. AllGood(buf) /\ buf[curbuf] = NewBuf /\ curbuf \in world
  <2>1. buf \in [Buffers -> Buffer \cup {NULL}] /\ buf[1] = NewBuf
    BY <1>7, <1>10
  <2>2. \A b \in Buffers : buf[b] # NULL => buf[b] = NewBuf
    BY <1>7
  <2> QED BY <1>7, <1>10, <2>1, <2>2 DEF AllGood, world
<1>12. JobGood(job, buf) /\ Owns(job, cur)
  <2>1. PICK old, r : old = buf /\ r = buf[curbuf]
    OBVIOUS
  <2> QED BY <1>7, <1>10, <1>11, <2>1, IdleFits DEF cur
<1> QED BY <1>9, <1>11, <1>12 DEF Basic, Bufs, Jobs, Own

(* Every step keeps it.                                                    *)
LEMMA StepBasic ==
  ASSUME Basic, [~At("dead") /\ Next]_vars
  PROVE  Basic'
<1>1. CASE Next
  BY <1>1, ReadingBasic, CommandsBasic, WorldBasic, QuestionsBasic, CallsBasic, SaveFileBasic,
     SavedBasic, PutBufsBasic DEF Next, Saving
<1>2. CASE UNCHANGED vars
  <2>1. UNCHANGED <<dir, node, now, top, gap, buf, curbuf, job>>
    BY <1>2 DEF vars
  <2>2. JobGood(job', buf') /\ Owns(job', buf'[curbuf']) /\ AllGood(buf')
    BY <2>1, BasicFacts
  <2> QED BY <2>1, <2>2, BasicFacts, Becomes
<1> QED BY <1>1, <1>2

(* Types; links, backups and open files share inodes only as they should;  *)
(* a buffer without a file name has no file, and one that is still to be   *)
(* filled is neither modified nor current; and every step of reading and   *)
(* saving is about the current buffer's own file (io.c, buf.c).            *)
THEOREM BasicAlways == Spec => []Basic
<1>1. Init => Basic
  BY InitBasic
<1>2. Basic /\ [~At("dead") /\ Next]_vars => Basic'
  BY StepBasic
<1> QED BY <1>1, <1>2, PTL DEF Spec

-----------------------------------------------------------------------------
(* The backup.                                                             *)

(* The contents that have been backed up are in a backup, and on the disk. *)
Backed(i) == i # 0 /\ node[i].synced /\ node[i].data = kept
InBackup == kept # NULL => \E f \in Files : Backed(dir[Bak(f)])
BackingUp == job.at \in {"copy", "sync"} => kept = NULL /\ dir[Bak(job.name)] # 0
Backup == InBackup /\ BackingUp

(* Only the calls of a save and others touch files, and only file_backup   *)
(* makes a backup.                                                         *)
LEMMA LeavesDisk ==
  ASSUME Basic, \/ Reading \/ Commands
                \/ SaveFile \/ filemunge \/ ConfirmOverwrite \/ ConfirmDiverged \/ Saved
                \/ put_bufs \/ PrimeCache \/ Reload
  PROVE  UNCHANGED <<dir, node, now, kept>> /\ job'.at \notin {"copy", "sync", "put", "close", "stat"}
<1>1. job \in Job /\ \A step, n : New(step, n).at = step
  BY BasicFacts DEF New, Idle
<1>8. ASSUME NEW c, NEW n, NEW a PROVE [New(c, n) EXCEPT !.at = a].at = a
  BY DEF New, Idle
<1>2. Idle.at = "key"
  BY DEF Idle
<1>3. ASSUME Reading
      PROVE  UNCHANGED <<dir, node, now, kept>> /\ job'.at \notin {"copy", "sync", "put", "close", "stat"}
  <2>1. CASE ReadOpen
    <3>1. job' = Idle \/ \E i : job' = [job EXCEPT !.at = IF At("insert") THEN "iread" ELSE "rstat", !.ino = i]
      BY <2>1 DEF ReadOpen
    <3>2. UNCHANGED <<dir, node, now, kept>>
      BY <2>1 DEF ReadOpen, files
    <3> QED BY <1>1, <1>2, <3>1, <3>2, ZenonT(60) DEF Job
  <2>2. CASE ReadStat
    BY <1>1, <2>2 DEF ReadStat, files, Go, Job
  <2>3. CASE ReadOpenFails \/ dofread \/ dofreadFails \/ InsFile \/ InsFileFails
    BY <1>2, <2>3 DEF ReadOpenFails, dofread, dofreadFails, InsFile, InsFileFails, files, complain
  <2> QED BY <1>3, <2>1, <2>2, <2>3 DEF Reading
<1>4. ASSUME Commands
      PROVE  UNCHANGED <<dir, node, now, kept>> /\ job'.at \notin {"copy", "sync", "put", "close", "stat"}
  <2>1. UNCHANGED <<dir, node, now, kept>>
    BY <1>4 DEF Commands, FindFile, SelectBuf, JWriteFile, WrtReg, AppReg, InsertCommand, JReadFile,
                SaveCommand, WtModBuf, Edit, files
  <2>2. job'.at \in {"key", "ropen", "munge", "open", "insert", "prime", "save", "bufs"}
    <3>1. ASSUME NEW n \in Names, NEW force \in BOOLEAN, FindFile(n, force)
          PROVE  job'.at \in {"key", "ropen"}
      <4>1. \/ job' = Idle \/ job' = New("ropen", n)
            \/ \E b \in Buffers : job' = New("ropen", buf[b].fname)
        BY <3>1 DEF FindFile, Last, Matching, world
      <4> QED BY <1>1, <1>2, <4>1
    <3>2. ASSUME NEW b \in Buffers, SelectBuf(b) PROVE job'.at \in {"key", "ropen"}
      <4>1. job' = Idle \/ job' = New("ropen", buf[b].fname)
        BY <3>2 DEF SelectBuf
      <4> QED BY <1>1, <1>2, <4>1
    <3>3. ASSUME NEW n \in Names, JWriteFile(n) \/ WrtReg(n) \/ AppReg(n) \/ InsertCommand(n)
          PROVE  job'.at \in {"munge", "open", "insert"}
      <4>1. CASE JWriteFile(n)
        BY <4>1 DEF JWriteFile, New, Idle
      <4>2. CASE WrtReg(n)
        BY <4>2 DEF WrtReg, New, Idle
      <4>3. CASE AppReg(n)
        BY <4>3 DEF AppReg, New, Idle
      <4>4. CASE InsertCommand(n)
        BY <4>4 DEF InsertCommand, New, Idle
      <4> QED BY <3>3, <4>1, <4>2, <4>3, <4>4
    <3>4. ASSUME NEW n \in Names, JReadFile(n) PROVE job'.at \in {"prime", "save"}
      BY <3>4 DEF JReadFile, New, Idle
    <3>5. CASE SaveCommand \/ WtModBuf \/ Edit
      BY <3>5 DEF SaveCommand, WtModBuf, Edit, At, New, Idle
    <3> QED BY <1>4, <3>1, <3>2, <3>3, <3>4, <3>5 DEF Commands
  <2> QED BY <2>1, <2>2
<1>5. ASSUME SaveFile \/ Saved
      PROVE  UNCHANGED <<dir, node, now, kept>> /\ job'.at \notin {"copy", "sync", "put", "close", "stat"}
  <2>1. UNCHANGED <<dir, node, now, kept>>
    BY <1>5 DEF SaveFile, Saved, files
  <2>2. \/ Next_of_job
        \/ \E n : job' = [job EXCEPT !.cmd = "write", !.at = "munge", !.name = n]
        \/ \E n : job' = [job EXCEPT !.at = "munge", !.name = n]
    BY <1>5 DEF SaveFile, Saved
  <2>3. Next_of_job => job'.at \in {"prime", "bufs", "key"}
    BY <1>1, <1>2, <1>8 DEF Next_of_job, Job
  <2> QED BY <1>1, <2>1, <2>2, <2>3, ZenonT(60) DEF Job
<1>6. ASSUME filemunge \/ ConfirmOverwrite \/ ConfirmDiverged \/ PrimeCache
      PROVE  UNCHANGED <<dir, node, now, kept>> /\ job'.at \notin {"copy", "sync", "put", "close", "stat"}
  <2>1. UNCHANGED <<dir, node, now, kept>>
    BY <1>6 DEF filemunge, ConfirmOverwrite, ConfirmDiverged, PrimeCache, files
  <2>2. \/ Go("overwrite?") \/ complain
        \/ \E bs, st : \E asked \in BOOLEAN : chk_divergence(bs, st, asked) \/ Proceed(bs, asked)
    BY <1>6 DEF filemunge, ConfirmOverwrite, ConfirmDiverged, PrimeCache
  <2>3. \/ job' = [job EXCEPT !.at = "overwrite?"] \/ job' = Idle
        \/ \E asked : job' = [job EXCEPT !.asked = asked, !.at = "diverged?"]
        \/ \E bs : \E asked \in BOOLEAN : Proceed(bs, asked)
    BY <2>2 DEF chk_divergence, Go, complain
  <2>4. ASSUME NEW bs, NEW asked, Proceed(bs, asked)
        PROVE  \E a \in {"reload", "backup", "open"} : job' = [job EXCEPT !.asked = asked, !.at = a]
    BY <2>4 DEF Proceed
  <2> QED BY <1>1, <1>2, <2>1, <2>3, <2>4, ZenonT(60) DEF Job
<1>7. ASSUME put_bufs \/ Reload
      PROVE  UNCHANGED <<dir, node, now, kept>> /\ job'.at \notin {"copy", "sync", "put", "close", "stat"}
  <2>1. UNCHANGED <<dir, node, now, kept>>
    BY <1>7 DEF put_bufs, Reload, files
  <2>2. \/ job' = Idle
        \/ \E b : At("bufs") /\ job' = [job EXCEPT !.todo = @ \ {b}]
        \/ \E b : job' = [job EXCEPT !.todo = @ \ {b}, !.at = "save"]
        \/ job' = [job EXCEPT !.at = "ropen"]
    BY <1>7 DEF put_bufs, Reload, Go
  <2> QED BY <1>1, <1>2, <2>1, <2>2, ZenonT(60) DEF Job, At
<1> QED BY <1>3, <1>4, <1>5, <1>6, <1>7

(* A step keeps the backup if what it writes is not a backup.              *)
LEMMA BackupStays ==
  ASSUME Basic, Backup, UNCHANGED kept, job'.at \notin {"copy", "sync"} \/ UNCHANGED job,
         \A h \in Files : dir[Bak(h)] # 0 =>
           /\ dir'[Bak(h)] = dir[Bak(h)]
           /\ node[dir[Bak(h)]].synced =>
                node'[dir[Bak(h)]].synced /\ node'[dir[Bak(h)]].data = node[dir[Bak(h)]].data
  PROVE  Backup'
<1>1. InBackup'
  BY DEF Backup, InBackup, Backed
<1>2. BackingUp'
  <2>1. CASE job'.at \notin {"copy", "sync"}
    BY <2>1 DEF BackingUp
  <2>2. CASE UNCHANGED job /\ job.at \in {"copy", "sync"}
    <3>1. job.name \in Files /\ kept = NULL /\ dir[Bak(job.name)] # 0
      BY <2>2, BasicFacts DEF JobGood, Naming, Overwriting, Saving_of_file, Backup, BackingUp
    <3> QED BY <2>2, <3>1 DEF BackingUp
  <2> QED BY <2>1, <2>2
<1> QED BY <1>1, <1>2 DEF Backup

(* No file is a backup's, and none is open.                                *)
LEMMA BackupApart ==
  ASSUME Basic, NEW h \in Files, dir[Bak(h)] # 0
  PROVE  /\ dir[Bak(h)] \in Inodes /\ dir[Bak(h)] # job.ino
         /\ \A n \in Files : dir[n] # dir[Bak(h)] /\ n # Bak(h)
BY NamesApart, BasicFacts DEF Disk, Apart

(* A new inode is nobody's.                                                *)
LEMMA FreshApart ==
  ASSUME NEW i \in Fresh
  PROVE  i \in Inodes /\ i # 0 /\ i # job.ino /\ \A n \in AllNames : dir[n] # i
BY DEF Fresh, First, InUse

(* The backup stays true.                                                  *)
LEMMA StepBackup ==
  ASSUME Basic, Backup, [~At("dead") /\ Next]_vars
  PROVE  Backup'
<1>1. /\ job \in Job /\ JobGood(job, buf) /\ Disk
  BY BasicFacts
<1>2. Idle.at = "key"
  BY DEF Idle
<1>3. ASSUME NEW h \in Files, dir[Bak(h)] # 0
      PROVE  /\ dir[Bak(h)] \in Inodes /\ dir[Bak(h)] # job.ino
             /\ \A n \in Files : dir[n] # dir[Bak(h)] /\ n # Bak(h)
  BY <1>3, BackupApart
<1>4. ASSUME UNCHANGED vars PROVE Backup'
  BY <1>4, BackupStays DEF vars
<1>5. ASSUME \/ Reading \/ Commands
             \/ SaveFile \/ filemunge \/ ConfirmOverwrite \/ ConfirmDiverged \/ Saved
             \/ put_bufs \/ PrimeCache \/ Reload
      PROVE  Backup'
  BY <1>5, LeavesDisk, BackupStays
<1>6. ASSUME file_backup PROVE Backup'
  <2>1. kept' = NULL
    BY <1>6 DEF file_backup
  <2>2. job'.at \in {"copy", "sync"} => dir'[Bak(job'.name)] # 0
    <3>1. job' = Idle \/ Go("open") => job'.at \notin {"copy", "sync"}
      BY <1>1, <1>2 DEF Go, Job
    <3>2. ASSUME dir[job.name] # 0, NEW i \in Fresh, dir' = [dir EXCEPT ![Bak(job.name)] = i],
                 job' = [job EXCEPT !.at = "copy", !.ino = dir[job.name]]
          PROVE  dir'[Bak(job'.name)] # 0
      <4>1. job'.name = job.name
        BY <1>1, <3>2 DEF Job
      <4>2. job.name \in Files
        BY <1>1, <1>6 DEF file_backup, At, JobGood, Naming, Overwriting, Saving_of_file
      <4>3. Bak(job.name) \in AllNames /\ i # 0
        BY <4>2, NamesApart, FreshApart
      <4> QED BY <1>1, <3>2, <4>1, <4>3 DEF Disk
    <3> QED BY <1>6, <3>1, <3>2 DEF file_backup, complain
  <2> QED BY <2>1, <2>2 DEF Backup, InBackup, BackingUp
<1>7. ASSUME CopyBackup PROVE Backup'
  <2>1. kept' = NULL /\ dir[Bak(job.name)] # 0 /\ UNCHANGED dir
    BY <1>7 DEF CopyBackup, At, Backup, BackingUp
  <2>2. job'.name = job.name \/ job'.at = "key"
    BY <1>1, <1>2, <1>7 DEF CopyBackup, Go, complain, Job
  <2> QED BY <2>1, <2>2 DEF Backup, InBackup, BackingUp
<1>8. ASSUME SyncBackup PROVE Backup'
  <2>1. kept = NULL /\ dir[Bak(job.name)] # 0 /\ UNCHANGED dir /\ job.name \in Files
    BY <1>1, <1>8 DEF SyncBackup, At, Backup, BackingUp, JobGood, Naming, Overwriting, Saving_of_file
  <2>2. job'.at \notin {"copy", "sync"}
    BY <1>1, <1>2, <1>8 DEF SyncBackup, Go, complain, Job
  <2>3. CASE UNCHANGED kept
    BY <2>1, <2>2, <2>3 DEF Backup, InBackup, BackingUp
  <2>4. CASE /\ node' = [node EXCEPT ![dir[Bak(job.name)]].synced = TRUE]
             /\ kept' = node[dir[Bak(job.name)]].data
    <3>1. PICK i : i = dir[Bak(job.name)]
      OBVIOUS
    <3>2. PICK x : x = node[i]
      OBVIOUS
    <3>3. i \in Inodes /\ i # 0 /\ x \in [data : Int, mtime : Nat, synced : BOOLEAN]
      BY <1>1, <1>3, <2>1, <3>1, <3>2 DEF Disk
    <3>4. node' = [node EXCEPT ![i] = [x EXCEPT !.synced = TRUE]]
      BY <2>4, <3>1, <3>2
    <3>5. node'[i].synced /\ node'[i].data = x.data
      BY <1>1, <3>3, <3>4 DEF Disk
    <3>6. i # 0 /\ node'[i].synced /\ node'[i].data = kept' /\ dir'[Bak(job.name)] = i
      BY <2>1, <2>4, <3>1, <3>2, <3>3, <3>5
    <3>7. PICK f \in Files : dir'[Bak(f)] = i
      BY <2>1, <3>6
    <3>8. Backed(dir[Bak(f)])'
      BY <3>6, <3>7 DEF Backed
    <3> QED BY <2>2, <3>8 DEF Backup, InBackup, BackingUp
  <2> QED BY <1>8, <2>3, <2>4 DEF SyncBackup
<1>9. ASSUME open_file PROVE Backup'
  <2>1. UNCHANGED kept /\ job'.at \notin {"copy", "sync"} /\ job.name \in Files
    BY <1>1, <1>2, <1>9, ZenonT(60) DEF open_file, complain, Job, At, JobGood, Naming, Overwriting, Saving_of_file
  <2>2. CASE UNCHANGED <<dir, node>>
    BY <2>1, <2>2, BackupStays
  <2>3. ASSUME NEW i \in IF dir[job.name] = 0 THEN Fresh ELSE {dir[job.name]},
               dir' = [dir EXCEPT ![job.name] = i], node' = node \/ node' = [node EXCEPT ![i] = Empty]
        PROVE  Backup'
    <3>1. ASSUME NEW h \in Files, dir[Bak(h)] # 0
          PROVE  dir'[Bak(h)] = dir[Bak(h)] /\ node'[dir[Bak(h)]] = node[dir[Bak(h)]]
      <4>1. dir[Bak(h)] # i
        BY <1>3, <2>1, <2>3, <3>1, FreshApart, NamesApart
      <4>2. job.name # Bak(h) /\ Bak(h) \in AllNames /\ dir[Bak(h)] \in Inodes
        BY <1>3, <2>1, <3>1, NamesApart
      <4> QED BY <1>1, <2>3, <4>1, <4>2 DEF Disk
    <3> QED BY <2>1, <3>1, BackupStays
  <2> QED BY <1>9, <2>2, <2>3 DEF open_file
<1>10. ASSUME putreg \/ f_close PROVE Backup'
  <2>1. UNCHANGED <<kept, dir>> /\ job'.at \notin {"copy", "sync"}
    BY <1>1, <1>2, <1>10 DEF putreg, f_close, complain, Go, Job
  <2>2. ASSUME NEW h \in Files, dir[Bak(h)] # 0
        PROVE  node'[dir[Bak(h)]] = node[dir[Bak(h)]]
    <3>1. PICK i : i = dir[Bak(h)]
      OBVIOUS
    <3>2. i \in Inodes /\ i # job.ino
      BY <1>3, <2>2, <3>1
    <3>3. \/ node' = node \/ \E x : node' = [node EXCEPT ![job.ino] = x]
          \/ node' = [node EXCEPT ![job.ino].synced = TRUE]
      BY <1>10 DEF putreg, f_close
    <3> QED BY <1>1, <3>1, <3>2, <3>3 DEF Disk
  <2> QED BY <2>1, <2>2, BackupStays
<1>11. ASSUME NEW n \in Names, Rewrite(n) \/ Replace(n) \/ Remove(n) PROVE Backup'
  <2>1. UNCHANGED <<kept, job>> /\ n \in Files
    BY <1>11, NamesApart DEF Rewrite, Replace, Remove, Others
  <2>2. ASSUME NEW h \in Files, dir[Bak(h)] # 0
        PROVE  dir'[Bak(h)] = dir[Bak(h)] /\ node'[dir[Bak(h)]] = node[dir[Bak(h)]]
    <3>1. PICK k, b : k = dir[Bak(h)] /\ b = Bak(h)
      OBVIOUS
    <3>2. k \in Inodes /\ k # dir[n] /\ b # n /\ b \in AllNames /\ k = dir[b]
      BY <1>3, <2>1, <2>2, <3>1, NamesApart
    <3>3. CASE Rewrite(n)
      BY <1>1, <3>1, <3>2, <3>3 DEF Rewrite, NewContents, Disk
    <3>4. CASE Replace(n)
      <4>1. PICK i \in Fresh : NewContents(i) /\ dir' = [dir EXCEPT ![n] = i]
        BY <3>4 DEF Replace
      <4>2. i # k
        BY <3>2, FreshApart
      <4> QED BY <1>1, <3>1, <3>2, <4>1, <4>2 DEF NewContents, Disk
    <3>5. CASE Remove(n)
      BY <1>1, <3>1, <3>2, <3>5 DEF Remove, Disk
    <3> QED BY <1>11, <3>3, <3>4, <3>5
  <2> QED BY <2>1, <2>2, BackupStays
<1>12. ASSUME Tick PROVE Backup'
  BY <1>12, BackupStays DEF Tick
<1>13. ASSUME Crash PROVE Backup'
  <2>1. UNCHANGED <<dir, kept>> /\ job'.at = "dead"
    BY <1>13 DEF Crash, Idle
  <2>2. ASSUME NEW h \in Files, dir[Bak(h)] # 0, node[dir[Bak(h)]].synced
        PROVE  node'[dir[Bak(h)]] = node[dir[Bak(h)]]
    BY <1>3, <1>13, <2>2 DEF Crash
  <2>3. ASSUME NEW h \in Files, dir[Bak(h)] # 0, node[dir[Bak(h)]].synced
        PROVE  node'[dir[Bak(h)]].synced /\ node'[dir[Bak(h)]].data = node[dir[Bak(h)]].data
    BY <2>2, <2>3
  <2> QED BY <2>1, <2>3, BackupStays
<1> QED BY <1>4, <1>5, <1>6, <1>7, <1>8, <1>9, <1>10, <1>11, <1>12, <1>13
        DEF Next, Saving, World

(* From the moment the backup is complete, what the file held is on the    *)
(* disk under the backup's name, whatever call fails and wherever the      *)
(* machine stops, until the next backup is made (file_backup).             *)
THEOREM BackupHoldsAlways == Spec => []BackupHolds
<1>1. Init => Basic /\ Backup
  <2>1. Init => InBackup /\ BackingUp
    BY DEF Init, InBackup, BackingUp, Idle
  <2> QED BY <2>1, InitBasic DEF Backup
<1>2. Basic /\ Backup /\ [~At("dead") /\ Next]_vars => (Basic /\ Backup)'
  BY StepBasic, StepBackup
<1>3. Basic /\ Backup => BackupHolds
  BY NamesApart DEF Backup, InBackup, Backed, BackupHolds
<1> QED BY <1>1, <1>2, <1>3, PTL DEF Spec
=============================================================================
