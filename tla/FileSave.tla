------------------------------- MODULE FileSave -------------------------------
(***************************************************************************)
(* Visiting, reading, saving and writing files (io.c, fp.c, buf.c), step   *)
(* by system call, while other programs change, replace or remove the      *)
(* files, calls fail, and the machine may stop.                            *)
(*                                                                         *)
(* A file's contents are a number: each text that somebody writes is a new *)
(* one.  A file that has been truncated and not wholly written again holds *)
(* Part.  Times are whole seconds, as in st_mtime.                         *)
(***************************************************************************)
EXTENDS Integers

CONSTANTS
  Stems,     \* what the user's files are called
  MaxTmp,    \* bound of the model: how often reading a file may fail on the way to a name
  Inodes,    \* 1 .. n, enough that a new file always finds one
  Buffers,   \* 1 .. n, in the order of world
  NULL,
  BkupOnWrite,  \* the variable make-backup-files
  Links,     \* the directories to begin with: from Names to Inodes or 0
  Limits     \* records that bound commands, changes by others, failures, texts, seconds

\* A file name is a stem and how often read_file has made a temporary name of it,
\* #name+~; the backup's is #name~.
Names == Stems \X {0}
Files == Stems \X (0 .. MaxTmp)
Tmp(f) == <<f[1], f[2] + 1>>
Bak(f) == <<f[1], f[2], "~">>
AllNames == Files \cup {Bak(f) : f \in Files}

\* What JOVE keeps of a buffer and its file.
Buffer == [fname : Files \cup {NULL}, scratch : BOOLEAN, ntbf : BOOLEAN, modified : BOOLEAN,
           diverged : BOOLEAN, ino : Inodes \cup {0}, mtime : Nat, text : Int,
           whole : BOOLEAN, seen : Int, saved : BOOLEAN]

ASSUME FileAssumption ==
  /\ NULL \notin Files \cup Buffer /\ MaxTmp \in Nat
  /\ Inodes \subseteq Nat \ {0} /\ Buffers \subseteq Nat /\ 1 \in Buffers
  /\ Links \subseteq [Names -> Inodes \cup {0}]
  /\ Limits \subseteq [commands : Nat, fails : Nat, texts : Nat, others : Nat, ticks : Nat,
                       crashes : Nat]

VARIABLES
  dir,     \* name -> inode, 0 when there is no such file
  node,    \* inode -> contents, modification time, whether it is on the disk itself
  now,
  buf,     \* Buffers, NULL when unused
  curbuf,
  job,     \* what the command in progress has come to
  left,    \* what the bounds leave
  top,     \* the last text anybody has written
  \* history:
  gap,     \* a buffer may pass for a file that it does not hold: others changed it
           \* when JOVE could not notice, or it could not be opened
  kept     \* contents of which file_backup has made a backup, NULL when none
vars == <<dir, node, now, buf, curbuf, job, left, top, gap, kept>>

Part == -1

At(step) == job.at = step
cur == buf[curbuf]
world == {b \in Buffers : buf[b] # NULL}

NewBuf == [fname |-> NULL, scratch |-> FALSE, ntbf |-> FALSE, modified |-> FALSE,
           diverged |-> FALSE, ino |-> 0, mtime |-> 0, text |-> 0,
           whole |-> TRUE, seen |-> 0, saved |-> FALSE]
-----------------------------------------------------------------------------
(* do_stat                                                                 *)

Stat(n) == IF dir[n] = 0 THEN [ino |-> 0, mtime |-> 0]
                         ELSE [ino |-> dir[n], mtime |-> node[dir[n]].mtime]

SameInode(b, st) == b.ino # 0 /\ b.ino = st.ino
\* The inode of the buffer's file is now that of another name only.
LostInode(b, n, st) == SameInode(b, st) /\ b.fname # n /\ dir[b.fname] # b.ino
Matches(b, n, st) == IF SameInode(b, st) THEN ~LostInode(b, n, st) ELSE b.fname = n

\* What do_stat notes in a buffer when it meets the file n that st describes.
Compared(b, n, st) ==
  IF LostInode(b, n, st) \/ (Matches(b, n, st) /\ b.ino # st.ino)
    THEN [b EXCEPT !.ino = 0, !.diverged = TRUE]
    ELSE [b EXCEPT !.diverged = @ \/ (Matches(b, n, st) /\ b.mtime # st.mtime)]

CompareAll(bs, n, st) ==
  [b \in Buffers |-> IF bs[b] = NULL THEN NULL ELSE Compared(bs[b], n, st)]

\* DS_SET: the buffer is as the file that st describes.  seen is what it holds.
SetRecord(b, st, contents) ==
  [b EXCEPT !.ino = st.ino, !.mtime = st.mtime, !.diverged = FALSE, !.seen = contents]

First(S) == {x \in S : \A y \in S : x <= y}
Last(S) == {x \in S : \A y \in S : y <= x}

\* do_stat(n, NULL, ...) returns the last of these buffers.
Matching(bs, n, st) == {b \in world : Matches(bs[b], n, st)}

setfname(b, n) == [b EXCEPT !.fname = n, !.ino = 0, !.mtime = 0, !.diverged = FALSE]

Contents(n) == IF dir[n] = 0 THEN 0 ELSE node[dir[n]].data
-----------------------------------------------------------------------------
(* Bounds, and leaving a command                                           *)

Spend(what) == left[what] > 0 /\ left' = [left EXCEPT ![what] = @ - 1]
MayFail == Spend("fails")

\* name: the file; ino: the inode that is open; asked: the user has confirmed;
\* todo: what put_bufs has still to look at; back: what it was called from;
\* reload: what JReadFile reads when the buffer has been saved.
Idle == [at |-> "key", cmd |-> "key", name |-> NULL, ino |-> 0, asked |-> FALSE,
         todo |-> {}, back |-> 1, reload |-> NULL]

\* complain and error: back to the command loop, which closes open files;
\* nothing that is left to do is done.
complain == job' = Idle

Go(step) == job' = [job EXCEPT !.at = step]
files == <<dir, node, now, top, gap, kept>>

New(step, n) == [Idle EXCEPT !.at = step, !.cmd = step, !.name = n, !.back = curbuf]
Start == At("key") /\ Spend("commands")
-----------------------------------------------------------------------------
(* Visiting and reading                                                    *)

\* do_find, with force (FindFile) or without (the file is read when the buffer
\* is next selected); another buffer stays current then.
FindFile(n, force) ==
  /\ Start
  /\ \E st \in {Stat(n)} :
       \/ /\ Matching(buf, n, st) = {}
          /\ \E new \in First(Buffers \ world) :
               /\ buf' = [CompareAll(buf, n, st) EXCEPT ![new] =
                           [SetRecord(setfname(NewBuf, n), st, Contents(n)) EXCEPT !.ntbf = TRUE]]
               /\ curbuf' = IF force THEN new ELSE curbuf
          /\ job' = IF force THEN New("ropen", n) ELSE Idle
       \/ \E b \in Last(Matching(buf, n, st)) :
            /\ buf' = CompareAll(buf, n, st)
            /\ curbuf' = IF force THEN b ELSE curbuf
            /\ job' = IF force /\ buf[b].ntbf THEN New("ropen", buf[b].fname) ELSE Idle
  /\ UNCHANGED files

\* SetBuf of a buffer that is still to be filled reads its file.
SelectBuf(b) ==
  /\ Start /\ b \in world /\ b # curbuf
  /\ curbuf' = b
  /\ job' = IF buf[b].ntbf THEN New("ropen", buf[b].fname) ELSE Idle
  /\ UNCHANGED <<files, buf>>

\* read_file opens the file ...
ReadOpen ==
  /\ job.at \in {"ropen", "insert"}
  /\ buf' = [buf EXCEPT ![curbuf] = [cur EXCEPT !.ntbf = @ /\ At("insert")]]
  /\ \/ dir[job.name] = 0 /\ job' = Idle /\ UNCHANGED left
     \/ /\ dir[job.name] # 0 /\ UNCHANGED left
        /\ job' = [job EXCEPT !.at = IF At("insert") THEN "iread" ELSE "rstat",
                              !.ino = dir[job.name]]
  /\ UNCHANGED <<files, curbuf>>

\* It is there and cannot be opened: a message, and the buffer that do_find has
\* made is empty and passes for the file.
ReadOpenFails ==
  /\ job.at \in {"ropen", "insert"} /\ dir[job.name] # 0 /\ MayFail
  /\ buf' = [buf EXCEPT ![curbuf] = [cur EXCEPT !.ntbf = @ /\ At("insert")]]
  /\ complain /\ gap' = TRUE
  /\ UNCHANGED <<dir, node, now, top, kept, curbuf>>

\* ... notes which file it is ...
ReadStat ==
  /\ At("rstat")
  /\ \E st \in {Stat(cur.fname)} :
       buf' = CompareAll([buf EXCEPT ![curbuf] = SetRecord(cur, st, Contents(cur.fname))],
                         cur.fname, st)
  /\ Go("rread") /\ UNCHANGED <<files, curbuf, left>>

\* ... and reads it.  Only when that has succeeded has the buffer its name and
\* its type again.
dofread ==
  /\ At("rread")
  /\ buf' = [buf EXCEPT ![curbuf] = [cur EXCEPT !.text = node[job.ino].data, !.whole = TRUE,
                                               !.saved = FALSE]]
  /\ job' = Idle
  /\ UNCHANGED <<files, curbuf, left>>

\* Mutant: the buffer keeps its name.
dofreadFailsSlip ==
  /\ At("rread") /\ MayFail
  /\ buf' = [buf EXCEPT ![curbuf] = [cur EXCEPT !.scratch = TRUE, !.whole = FALSE]]
  /\ complain /\ UNCHANGED <<files, curbuf>>

\* A line that is too long, a read error, no room: complain leaves the temporary
\* name and B_SCRATCH.
dofreadFails ==
  /\ At("rread") /\ MayFail /\ cur.fname[2] < MaxTmp
  /\ buf' = [buf EXCEPT ![curbuf] = [cur EXCEPT !.fname = Tmp(@), !.scratch = TRUE,
                                               !.whole = FALSE]]
  /\ complain /\ UNCHANGED <<files, curbuf>>

\* InsFile: the text joins what is in the buffer.
InsFile ==
  /\ At("iread") /\ top < left.texts
  /\ top' = top + 1
  /\ buf' = [buf EXCEPT ![curbuf] = [cur EXCEPT !.text = top', !.modified = TRUE]]
  /\ job' = Idle
  /\ UNCHANGED <<dir, node, now, gap, kept, curbuf, left>>

InsFileFails ==
  /\ At("iread") /\ MayFail /\ (cur.fname # NULL => cur.fname[2] < MaxTmp)
  /\ buf' = [buf EXCEPT ![curbuf] = [cur EXCEPT !.fname = IF @ = NULL THEN NULL ELSE Tmp(@),
                                               !.modified = TRUE, !.whole = FALSE]]
  /\ complain /\ UNCHANGED <<files, curbuf>>
-----------------------------------------------------------------------------
(* Saving: may the file be overwritten?                                    *)

\* filemunge and chk_divergence are done with.
Proceed(bs, asked) ==
  /\ buf' = IF job.cmd = "write"
              THEN [bs EXCEPT ![curbuf] = [setfname(bs[curbuf], job.name)
                                                EXCEPT !.scratch = FALSE]]
              ELSE bs
  /\ job' = [job EXCEPT !.asked = asked,
               !.at = CASE job.cmd = "read" -> "reload"
                        [] job.cmd # "read" /\ BkupOnWrite -> "backup"
                        [] OTHER -> "open"]

\* Whose divergence counts: the current buffer's if it is its file; for
\* write-region that of any buffer.
Tested(bs, st) ==
  LET m == Matching(bs, job.name, st)
  IN IF job.cmd = "region" THEN Last(m) ELSE m \cap {curbuf}

chk_divergence(bs, st, asked) ==
  IF \E b \in Tested(bs, st) : bs[b].diverged
    THEN buf' = bs /\ job' = [job EXCEPT !.asked = asked, !.at = "diverged?"]
    ELSE Proceed(bs, asked)

filemunge ==
  /\ At("munge")
  /\ \E st \in {Stat(job.name)} : \E bs \in {CompareAll(buf, job.name, st)} :
       /\ IF st.ino # 0 /\ ~Matches(buf[curbuf], job.name, st)
            THEN buf' = bs /\ Go("overwrite?")
            ELSE chk_divergence(bs, st, FALSE)
  /\ UNCHANGED <<files, curbuf, left>>

\* The file is looked up again after each question that is answered with yes.
ConfirmOverwrite ==
  /\ At("overwrite?")
  /\ \/ complain /\ UNCHANGED buf
     \/ \E st \in {Stat(job.name)} :
          chk_divergence(CompareAll(buf, job.name, st), st, TRUE)
  /\ UNCHANGED <<files, curbuf, left>>

ConfirmDiverged ==
  /\ At("diverged?")
  /\ \/ complain /\ UNCHANGED buf
     \/ \E st \in {Stat(job.name)} :
          Proceed(CompareAll(buf, job.name, st), TRUE)
  /\ UNCHANGED <<files, curbuf, left>>
-----------------------------------------------------------------------------
(* Saving: the backup                                                      *)

InUse == {dir[n] : n \in AllNames} \cup {job.ino}
Fresh == First(Inodes \ InUse)
Empty == [data |-> Part, mtime |-> now, synced |-> FALSE]

\* file_backup opens the file (when it cannot, there is nothing to back up) and
\* puts a new file in place of the old backup.
file_backup ==
  /\ At("backup")
  /\ kept' = NULL
  /\ \/ dir[job.name] = 0 /\ Go("open") /\ UNCHANGED <<dir, node, left>>
     \/ dir[job.name] # 0 /\ MayFail /\ Go("open") /\ UNCHANGED <<dir, node>>
     \/ dir[job.name] # 0 /\ MayFail /\ complain /\ UNCHANGED node
        /\ dir' \in {dir, [dir EXCEPT ![Bak(job.name)] = 0]}
     \/ /\ dir[job.name] # 0 /\ UNCHANGED left
        /\ \E i \in Fresh :
             /\ dir' = [dir EXCEPT ![Bak(job.name)] = i]
             /\ node' = [node EXCEPT ![i] = Empty]
             /\ job' = [job EXCEPT !.at = "copy", !.ino = dir[job.name]]
  /\ UNCHANGED <<now, top, gap, buf, curbuf>>

CopyBackup ==
  /\ At("copy")
  /\ \/ /\ node' = [node EXCEPT ![dir[Bak(job.name)]].data = node[job.ino].data]
        /\ Go("sync") /\ UNCHANGED left
     \/ MayFail /\ complain /\ UNCHANGED node
  /\ UNCHANGED <<dir, now, top, gap, kept, buf, curbuf>>

\* Mutant: the backup is not synced before the file is truncated.
SyncBackupSlip ==
  /\ At("sync")
  /\ kept' = node[dir[Bak(job.name)]].data
  /\ Go("open")
  /\ UNCHANGED <<dir, node, now, top, gap, buf, curbuf, left>>

SyncBackup ==
  /\ At("sync")
  /\ \/ /\ node' = [node EXCEPT ![dir[Bak(job.name)]].synced = TRUE]
        /\ kept' = node[dir[Bak(job.name)]].data
        /\ Go("open") /\ UNCHANGED left
     \/ MayFail /\ complain /\ UNCHANGED <<node, kept>>
  /\ UNCHANGED <<dir, now, top, gap, buf, curbuf>>
-----------------------------------------------------------------------------
(* Saving: the file                                                        *)

\* A buffer whose record is of this second would not see a change now.
Blind == \E b \in world : buf[b].mtime = now

\* open_file truncates the file unless the region is to be appended.
open_file ==
  /\ At("open")
  /\ \/ MayFail /\ complain /\ UNCHANGED <<dir, node, gap>>
     \/ /\ UNCHANGED left
        /\ \E i \in IF dir[job.name] = 0 THEN Fresh ELSE {dir[job.name]} :
             /\ dir' = [dir EXCEPT ![job.name] = i]
             /\ node' = IF job.cmd = "append" /\ dir[job.name] # 0 THEN node
                                              ELSE [node EXCEPT ![i] = Empty]
             /\ job' = [job EXCEPT !.at = "put", !.ino = i]
             /\ gap' = (gap \/ Blind)
  /\ UNCHANGED <<now, top, kept, buf, curbuf>>

\* The line that EndWNewline adds and putreg: all of the text is written, or
\* there is no room for the line or the text and an error closes the file.
putreg ==
  /\ At("put")
  /\ \/ /\ job.cmd \in {"save", "write"} /\ UNCHANGED <<left, top>>
        /\ node' = [node EXCEPT ![job.ino] = [Empty EXCEPT !.data = cur.text]]
        /\ Go("close")
     \/ /\ job.cmd \in {"region", "append"} /\ top < left.texts /\ UNCHANGED left
        /\ top' = top + 1
        /\ node' = [node EXCEPT ![job.ino] = [Empty EXCEPT !.data = top']]
        /\ Go("close")
     \/ /\ MayFail /\ complain /\ UNCHANGED top
        /\ node' = [node EXCEPT ![job.ino] = Empty]
  /\ UNCHANGED <<dir, now, gap, kept, buf, curbuf>>

\* Mutant: nobody looks at what fsync returns.
f_closeSlip ==
  /\ At("close")
  /\ \/ node' = [node EXCEPT ![job.ino].synced = TRUE] /\ UNCHANGED left
     \/ MayFail /\ UNCHANGED node
  /\ IF job.cmd \in {"save", "write"} THEN Go("stat") ELSE job' = Idle
  /\ UNCHANGED <<dir, now, top, gap, kept, buf, curbuf>>

f_close ==
  /\ At("close")
  /\ \/ /\ node' = [node EXCEPT ![job.ino].synced = TRUE] /\ UNCHANGED left
        /\ IF job.cmd \in {"save", "write"} THEN Go("stat") ELSE job' = Idle
     \/ MayFail /\ complain /\ UNCHANGED node
  /\ UNCHANGED <<dir, now, top, gap, kept, buf, curbuf>>

\* What a save was part of goes on.
Next_of_job ==
  job' = IF job.reload # NULL THEN [New("read", job.reload) EXCEPT !.at = "prime"]
         ELSE IF job.cmd = "save" THEN [job EXCEPT !.at = "bufs", !.asked = FALSE]
         ELSE Idle

\* do_stat with DS_SET, and unmodify
Saved ==
  /\ At("stat")
  /\ \E st \in {Stat(cur.fname)} :
       /\ buf' = CompareAll([buf EXCEPT ![curbuf] =
                    [SetRecord(cur, st, cur.text) EXCEPT !.modified = FALSE, !.whole = TRUE,
                                                 !.saved = TRUE]],
                    cur.fname, st)
  /\ Next_of_job /\ UNCHANGED <<files, curbuf, left>>
-----------------------------------------------------------------------------
(* The commands                                                            *)

\* SaveFile, of the command or of put_bufs
SaveFile ==
  /\ At("save")
  /\ LET known == ~cur.modified /\ ~cur.diverged
         now_diverged == \* what the stat of an unmodified buffer's file shows
           CompareAll(buf, cur.fname, Stat(cur.fname))
     IN IF known /\ (cur.fname = NULL \/ ~now_diverged[curbuf].diverged)
          THEN /\ Next_of_job
               /\ buf' = IF cur.fname = NULL THEN buf ELSE now_diverged
          ELSE IF cur.fname = NULL
                 THEN /\ \E n \in Names : job' = [job EXCEPT !.cmd = "write", !.at = "munge", !.name = n]
                      /\ UNCHANGED buf
                 ELSE /\ job' = [job EXCEPT !.at = "munge", !.name = cur.fname]
                      /\ buf' = IF known THEN now_diverged ELSE buf
  /\ UNCHANGED <<files, curbuf, left>>

SaveCommand == Start /\ job' = New("save", NULL) /\ UNCHANGED <<files, buf, curbuf>>

JWriteFile(n) ==
  Start /\ job' = [New("write", n) EXCEPT !.at = "munge"] /\ UNCHANGED <<files, buf, curbuf>>

\* DoWriteReg; appending asks nothing and makes no backup.
WrtReg(n) ==
  Start /\ job' = [New("region", n) EXCEPT !.at = "munge"] /\ UNCHANGED <<files, buf, curbuf>>
AppReg(n) ==
  Start /\ job' = [New("append", n) EXCEPT !.at = "open"] /\ UNCHANGED <<files, buf, curbuf>>

InsertCommand(n) == Start /\ job' = New("insert", n) /\ UNCHANGED <<files, buf, curbuf>>

WtModBuf ==
  /\ Start /\ \E b \in world : buf[b].modified
  /\ job' = [New("save", NULL) EXCEPT !.at = "bufs", !.todo = world]
  /\ UNCHANGED <<files, buf, curbuf>>

\* put_bufs looks at the next buffer; the user may say no, and may give a name
\* to a buffer that has none.  At the end the first buffer is current again.
put_bufs ==
  /\ At("bufs")
  /\ IF job.todo = {} THEN curbuf' = job.back /\ job' = Idle /\ UNCHANGED buf
     ELSE \E b \in First(job.todo) :
       \/ /\ job' = [job EXCEPT !.todo = @ \ {b}] /\ UNCHANGED buf
          /\ curbuf' = IF buf[b].modified /\ ~buf[b].scratch THEN b ELSE curbuf
       \/ /\ buf[b].modified /\ ~buf[b].scratch
          /\ curbuf' = b
          /\ IF buf[b].fname # NULL THEN UNCHANGED buf
             ELSE \E n \in Names : buf' = [buf EXCEPT ![b] = setfname(buf[b], n)]
          /\ job' = [job EXCEPT !.todo = @ \ {b}, !.at = "save"]
  /\ UNCHANGED <<files, left>>

\* JReadFile: the changes may be saved first.
JReadFile(n) ==
  /\ Start
  /\ \/ job' = [New("read", n) EXCEPT !.at = "prime"]
     \/ cur.modified /\ job' = [New("save", NULL) EXCEPT !.reload = n]
  /\ UNCHANGED <<files, buf, curbuf>>

PrimeCache ==
  /\ At("prime")
  /\ \E st \in {Stat(job.name)} :
       chk_divergence(CompareAll(buf, job.name, st), st, FALSE)
  /\ UNCHANGED <<files, curbuf, left>>

\* buf_clear and setfname
Reload ==
  /\ At("reload")
  /\ buf' = [buf EXCEPT ![curbuf] = [setfname(cur, job.name) EXCEPT
                          !.text = 0, !.modified = FALSE, !.whole = TRUE]]
  /\ Go("ropen") /\ UNCHANGED <<files, curbuf, left>>

\* Text is typed.
Edit ==
  /\ At("key") /\ top < left.texts /\ top' = top + 1
  /\ buf' = [buf EXCEPT ![curbuf] = [cur EXCEPT !.text = top', !.modified = TRUE]]
  /\ UNCHANGED <<dir, node, now, gap, kept, curbuf, job, left>>
-----------------------------------------------------------------------------
(* Everybody else, and the clock                                           *)

\* JOVE has looked at the file, or will take what it finds for its own.
Windows == {"backup", "copy", "sync", "open", "put", "close", "stat", "rstat"}
Unnoticed == gap \/ job.at \in Windows \/ Blind

Others ==
  /\ Spend("others")
  /\ UNCHANGED <<now, buf, curbuf, job, kept>>

NewContents(i) == node' = [node EXCEPT ![i] = [data |-> top + 1, mtime |-> now, synced |-> TRUE]]

Rewrite(n) ==
  /\ Others /\ dir[n] # 0 /\ top < left.texts /\ top' = top + 1
  /\ NewContents(dir[n]) /\ gap' = Unnoticed /\ UNCHANGED dir

\* Another editor writes a new file and renames it, or the file is created.
Replace(n) ==
  /\ Others /\ top < left.texts /\ top' = top + 1
  /\ \E i \in Fresh : NewContents(i) /\ dir' = [dir EXCEPT ![n] = i]
  /\ gap' = Unnoticed

Remove(n) ==
  /\ Others /\ dir[n] # 0 /\ dir' = [dir EXCEPT ![n] = 0]
  /\ gap' = Unnoticed /\ UNCHANGED <<node, top>>

Tick == /\ Spend("ticks") /\ now' = now + 1
        /\ UNCHANGED <<dir, node, buf, curbuf, job, top, gap, kept>>

\* The machine stops: what was not on the disk may be lost.
Crash ==
  /\ Spend("crashes") /\ job' = [Idle EXCEPT !.at = "dead", !.cmd = job.at]
  /\ node' \in {node, [i \in Inodes |-> IF node[i].synced THEN node[i] ELSE [node[i] EXCEPT !.data = Part]]}
  /\ UNCHANGED <<dir, now, buf, curbuf, top, gap, kept>>
-----------------------------------------------------------------------------
Init ==
  /\ dir \in {[n \in AllNames |-> IF n \in Names THEN d[n] ELSE 0] : d \in Links}
  /\ node = [i \in Inodes |-> [data |-> i, mtime |-> 1, synced |-> TRUE]]
  /\ now = 2
  /\ buf = [b \in Buffers |-> IF b = 1 THEN NewBuf ELSE NULL]
  /\ curbuf = 1
  /\ job = Idle
  /\ left \in Limits
  /\ top \in Inodes /\ \A i \in Inodes : i <= top
  /\ gap = FALSE
  /\ kept = NULL

Reading == ReadOpen \/ ReadOpenFails \/ ReadStat \/ dofread \/ dofreadFails \/ InsFile \/ InsFileFails
Saving ==
  \/ SaveFile \/ filemunge \/ ConfirmOverwrite \/ ConfirmDiverged
  \/ file_backup \/ CopyBackup \/ SyncBackup
  \/ open_file \/ putreg \/ f_close \/ Saved
  \/ put_bufs \/ PrimeCache \/ Reload
Commands ==
  \/ \E n \in Names, force \in BOOLEAN : FindFile(n, force)
  \/ \E b \in Buffers : SelectBuf(b)
  \/ \E n \in Names : JWriteFile(n) \/ WrtReg(n) \/ AppReg(n) \/ InsertCommand(n) \/ JReadFile(n)
  \/ SaveCommand \/ WtModBuf \/ Edit
World == (\E n \in Names : Rewrite(n) \/ Replace(n) \/ Remove(n)) \/ Tick \/ Crash

Next == Reading \/ Saving \/ Commands \/ World
Spec == Init /\ [][~At("dead") /\ Next]_vars
-----------------------------------------------------------------------------
(* Properties                                                              *)

\* What JOVE overwrites without having asked is what this very buffer was wholly
\* read from or last saved as: no change by others, no other file, and no text
\* that was cut short in reading goes over a file by itself -- but for changes
\* in the second of the buffer's record, and between the last look at the file
\* and the last write to it, for a file that could not be opened, and for
\* write-region when several buffers have the file, of which the last is looked
\* at (filemunge, chk_divergence, do_stat, read_file).
NoSilentLoss == [][
    At("open") /\ job'.at = "put" /\ dir[job.name] # 0 /\ ~gap /\ ~job.asked
    /\ (job.cmd = "region" => \A b \in world : Matches(buf[b], job.name, Stat(job.name)) => b = curbuf)
    /\ job.cmd # "append"
      => node[dir[job.name]].data = cur.seen /\ cur.whole
  ]_vars

\* The current buffer is being filled from its file, or was when the machine stopped.
BeingRead == (IF At("dead") THEN job.cmd ELSE job.at) \in {"rstat", "rread"}

\* A buffer that counts as unmodified, and whose file still looks as it was
\* recorded, is in that file, on the disk: neither a failed write nor a failed
\* fsync nor a reading that failed leaves it so (file_write, f_close, read_file).
SavedIsSaved == \A b \in world :
  LET r == buf[b]
  IN ~gap /\ ~r.modified /\ ~r.diverged /\ ~r.ntbf /\ r.whole /\ r.ino # 0 /\ r.fname # NULL
     /\ dir[r.fname] = r.ino /\ node[r.ino].mtime = r.mtime
     /\ ~(b = curbuf /\ BeingRead)
       => (r.saved \/ ~At("dead") => node[r.ino].data = r.text) /\ (r.saved => node[r.ino].synced)

\* From the moment the backup is complete, what the file held is on the disk under
\* some name, whatever call fails and wherever the machine stops, until the next
\* backup is made (file_backup).
BackupHolds ==
  kept # NULL => \E n \in AllNames : dir[n] # 0 /\ node[dir[n]].synced /\ node[dir[n]].data = kept
=============================================================================
