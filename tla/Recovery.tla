------------------------------ MODULE Recovery ------------------------------
(***************************************************************************)
(* What a crash leaves of the buffers: SyncRec, which keeps the recovery   *)
(* file (rec.c), the count of modifications that calls for it (jove.c,     *)
(* util.c), the handler of bad-news signals (jove.c), and what the recover *)
(* program makes of the two files (recover.c).                             *)
(*                                                                         *)
(* Lines are put into a LineStore, which module TmpFile implements.  The   *)
(* recovery file is a sequence of cells: a header with the number of       *)
(* buffers, an entry with the number of lines for each of them, and then   *)
(* the addresses of all their lines.  It is rewritten in place, cell by    *)
(* cell, and never truncated.                                              *)
(***************************************************************************)
EXTENDS Integers, Sequences, FiniteSetsExt, Functions, SequencesExt

CONSTANTS
  NBuffers,   \* buffers 1..NBuffers are the world, in this order; none is a scratch buffer
  Line,       \* the lines
  Empty,      \* the empty one
  SyncFreq,   \* modifications after which SyncRec is called
  MaxCount,   \* bound of the model: modifications before getch looks at their count
  MaxLines,   \* bound of the model: lines of all buffers together
  MaxAddr     \* bound of the model: lines put into the store

ASSUME RecoveryAssumption ==
  /\ NBuffers \in Nat \ {0} /\ SyncFreq \in Nat \ {0} /\ MaxCount \in Nat
  /\ MaxLines \in Nat \ {0} /\ MaxAddr \in Nat \ {0}
  /\ Empty \in Line

Buffer == 1..NBuffers
Addr   == 1..MaxAddr

VARIABLES
  saved, durable,     \* the line store
  text,               \* the addresses of each buffer's lines
  dot,                \* the current line of each buffer
  modified,           \* the buffers modified since they were saved
  curbuf,             \* the current buffer
  linebuf, DOLsave,   \* the text of the current line; whether to save it
  ModCount,           \* modifications since the last sync
  key,                \* getch has found no sync due and waits for a key
  rec,                \* the cells of the recovery file
  image, at,          \* the cells being written to it, and how many of them are
  rec_err,            \* writing it has failed once: it is not tried again
  pc,                 \* "edit", "sync", and in finish: "fsync", "bye", "dead"
  Crashing,           \* finish has begun
  files,              \* the tmp file and the recovery file have not been removed
  snap,               \* not in the program: the texts the recovery file is to give
  edits,              \* modifications of each buffer since then
  failed,             \* whether some write has failed
  twice               \* and whether finish has been interrupted by another signal

store   == <<saved, durable>>
buffers == <<text, dot, modified, curbuf, linebuf, DOLsave>>
recfile == <<rec, image, at, rec_err>>
seen    == <<snap, edits, failed>>
vars    == <<store, buffers, ModCount, key, recfile, pc, Crashing, files, seen, twice>>

Store == INSTANCE LineStore

-----------------------------------------------------------------------------
(* The buffers.                                                            *)

Contents(b) == [k \in 1..Len(text[b]) |->
                  IF b = curbuf /\ k = dot[b] THEN linebuf ELSE saved[text[b][k]]]

(* SavLine, whose address the next line of the store will be.              *)
NextAddr == Cardinality(DOMAIN saved) + 1

Put(st, l) == [a \in DOMAIN st \cup {Cardinality(DOMAIN st) + 1} |->
                 IF a \in DOMAIN st THEN st[a] ELSE l]

(* lsave puts linebuf only if it has changed.  A put may write another     *)
(* block of the tmp file; the least is assumed, that it writes none.       *)
Unsaved == DOLsave /\ saved[text[curbuf][dot[curbuf]]] # linebuf

AfterLsave ==
  IF Unsaved THEN [saved |-> Put(saved, linebuf),
                   text  |-> [text EXCEPT ![curbuf][dot[curbuf]] = NextAddr]]
  ELSE [saved |-> saved, text |-> text]

Lsave == /\ Unsaved => NextAddr \in Addr
         /\ saved' = AfterLsave.saved /\ text' = AfterLsave.text /\ DOLsave' = FALSE

modifySlip ==
  /\ ModCount' = IF DOLsave THEN ModCount ELSE ModCount + 1
  /\ modified' = modified \cup {curbuf}
  /\ edits' = [edits EXCEPT ![curbuf] = IF @ >= SyncFreq THEN @ ELSE @ + 1]

modify ==
  /\ ModCount' = ModCount + 1
  /\ modified' = modified \cup {curbuf}
  /\ edits' = [edits EXCEPT ![curbuf] = IF @ >= SyncFreq THEN @ ELSE @ + 1]

(* A command does any number of these before getch is called again: one    *)
(* that inserts a string, justifies a paragraph or replaces, and a macro,  *)
(* modify the buffer many times (insert.c, para.c, re1.c).                 *)
Command == pc = "edit"

Change(l) ==
  /\ Command /\ ModCount < MaxCount /\ l # linebuf
  /\ linebuf' = l /\ DOLsave' = TRUE
  /\ modify
  /\ UNCHANGED <<store, text, dot, curbuf, recfile, pc, Crashing, files, snap, failed>>

(* LineInsert at the end of the line.                                      *)
NewLine ==
  LET d == dot[curbuf]
      s == Put(saved, linebuf)
  IN  /\ Command /\ ModCount < MaxCount
      /\ MapThenSumSet(LAMBDA b : Len(text[b]), Buffer) < MaxLines
      /\ NextAddr + 1 \in Addr
      /\ saved' = Put(s, Empty)
      /\ text' = [text EXCEPT ![curbuf] =
                    InsertAt([@ EXCEPT ![d] = NextAddr], d + 1, NextAddr + 1)]
      /\ dot' = [dot EXCEPT ![curbuf] = d + 1]
      /\ linebuf' = Empty /\ DOLsave' = TRUE
      /\ modify
      /\ UNCHANGED <<durable, curbuf, recfile, pc, Crashing, files, snap, failed>>

(* SetDot and SetBuf.                                                      *)
Goto(b, d) ==
  /\ Command /\ <<b, d>> # <<curbuf, dot[curbuf]>>
  /\ Lsave
  /\ curbuf' = b /\ dot' = [dot EXCEPT ![b] = d]
  /\ linebuf' = AfterLsave.saved[AfterLsave.text[b][d]]
  /\ UNCHANGED <<durable, modified, ModCount, recfile, pc, Crashing, files, seen>>

(* The file is saved; unmodify calls for a sync.                           *)
SaveFile ==
  /\ Command /\ curbuf \in modified
  /\ Lsave
  /\ modified' = modified \ {curbuf}
  /\ edits' = [edits EXCEPT ![curbuf] = 0]
  /\ ModCount' = SyncFreq
  /\ UNCHANGED <<durable, dot, curbuf, linebuf, recfile, pc, Crashing, files, snap, failed>>

-----------------------------------------------------------------------------
(* SyncRec.                                                                *)

(* The loops over world that write the entries and the lines' addresses of  *)
(* the modified buffers, whose lines are t.                                *)
Entries(t) ==
  LET E[b \in 0..NBuffers] ==
        IF b = 0 THEN <<>>
        ELSE E[b - 1] \o IF b \in modified THEN <<<<"entry", b, Len(t[b])>>>> ELSE <<>>
  IN  E[NBuffers]

Pointers(t) ==
  LET P[b \in 0..NBuffers] ==
        IF b = 0 THEN <<>>
        ELSE P[b - 1] \o IF b \in modified THEN [j \in 1..Len(t[b]) |-> <<"line", t[b][j]>>] ELSE <<>>
  IN  P[NBuffers]

ImageOf(t) == <<<<"header", Len(Entries(t))>>>> \o Entries(t) \o Pointers(t)

ImageSlip == ImageOf(text)

Image == ImageOf(AfterLsave.text)

(* Up to the write of the recovery file; `then' is where it is written.    *)
SyncRecSlip(then, done) ==
  \/ modified = {} /\ pc' = done /\ UNCHANGED <<store, text, DOLsave, image, at>>
  \/ /\ modified # {}
     /\ Lsave
     /\ durable' = DOMAIN saved
     /\ IF rec_err THEN pc' = done /\ UNCHANGED <<image, at>>
        ELSE pc' = then /\ image' = Image /\ at' = 0

SyncRec(then, done) ==
  \/ modified = {} /\ pc' = done /\ UNCHANGED <<store, text, DOLsave, image, at>>
  \/ /\ modified # {}
     /\ Lsave
     /\ durable' = DOMAIN saved'
     /\ IF rec_err THEN pc' = done /\ UNCHANGED <<image, at>>
        ELSE pc' = then /\ image' = Image /\ at' = 0

(* SyncTmp fails: error goes back to the command loop, from finish too.    *)
SyncTmpFails ==
  /\ modified # {}
  /\ Lsave /\ UNCHANGED durable
  /\ failed' = TRUE /\ pc' = "edit"
  /\ UNCHANGED <<image, at>>

(* getch, which looks at the count whenever it is asked for a key.         *)
Getch ==
  /\ pc = "edit" /\ ~key /\ ModCount >= SyncFreq
  /\ ModCount' = 0
  /\ \/ SyncRec("sync", "edit") /\ UNCHANGED failed
     \/ SyncTmpFails
  /\ UNCHANGED <<dot, modified, curbuf, linebuf, rec, rec_err, Crashing, files, snap, edits>>

AwaitKey ==
  /\ pc = "edit" /\ ModCount < SyncFreq
  /\ key' = TRUE
  /\ UNCHANGED <<store, buffers, ModCount, recfile, pc, Crashing, files, seen, twice>>

(* One cell is written over what is there.                                 *)
Written == IF at < Len(rec) THEN [rec EXCEPT ![at + 1] = image[at + 1]]
           ELSE Append(rec, image[at + 1])

WriteRec ==
  /\ pc \in {"sync", "fsync"} /\ at < Len(image)
  /\ rec' = Written
  /\ IF at + 1 = Len(image)
     THEN /\ snap' = [b \in modified |-> Contents(b)]
          /\ edits' = [b \in Buffer |-> 0]
          /\ pc' = IF pc = "sync" THEN "edit" ELSE "bye"
          /\ image' = <<>> /\ at' = 0
     ELSE at' = at + 1 /\ UNCHANGED <<image, snap, edits, pc>>
  /\ UNCHANGED <<store, buffers, ModCount, rec_err, Crashing, files, failed>>

(* flushout fails and calls error.                                         *)
WriteRecFails ==
  /\ pc \in {"sync", "fsync"} /\ at < Len(image)
  /\ rec_err' = TRUE /\ failed' = TRUE
  /\ pc' = "edit"
  /\ UNCHANGED <<store, buffers, ModCount, rec, image, at, Crashing, files, snap, edits>>

-----------------------------------------------------------------------------
(* finish, the handler of SIGHUP, SIGTERM and of the machine's traps.      *)

Signal ==
  /\ pc \in {"edit", "sync"} /\ ~Crashing
  /\ Crashing' = TRUE
  /\ \/ SyncRec("fsync", "bye") /\ UNCHANGED failed
     \/ SyncTmpFails
  /\ UNCHANGED <<dot, modified, curbuf, linebuf, ModCount, rec, rec_err, files, snap, edits>>

(* "Your buffers have been saved." has been printed, or that none needed   *)
(* saving.                                                                 *)
Exit ==
  /\ pc = "bye"
  /\ pc' = "dead" /\ files' = (modified # {})
  /\ UNCHANGED <<store, buffers, ModCount, recfile, Crashing, seen>>

(* Another signal, while finish is running or after it has been left by an *)
(* error: DelTmps is YES.                                                  *)
SecondSignal ==
  /\ Crashing /\ pc # "dead"
  /\ pc' = "dead" /\ files' = FALSE /\ twice' = TRUE
  /\ UNCHANGED <<store, buffers, ModCount, recfile, Crashing, seen>>

-----------------------------------------------------------------------------
(* The recover program.                                                    *)

(* The entries, and the cells of each one's lines (makblist, seekto).      *)
Count      == rec[1][2]
Entry(i)   == rec[i + 1]
Listed     == {b \in Buffer : \E i \in 1..Count : Entry(i)[2] = b}
First[i \in 1..Count + 1] == IF i = 1 THEN 1 + Count ELSE First[i - 1] + Entry(i - 1)[3]

(* Whether cells are what they are read as, which after a torn write they  *)
(* need not be.                                                            *)
Whole == /\ Len(rec) > Count
         /\ \A i \in 1..Count : Entry(i)[1] = "entry"
         /\ First[Count + 1] <= Len(rec)
         /\ \A k \in (Count + 2)..First[Count + 1] :
              rec[k][1] = "line" /\ rec[k][2] \in durable

(* What dump_file gets of buffer b from the two files.                     *)
Recover(b) ==
  LET i == CHOOSE i \in 1..Count : Entry(i)[2] = b
  IN  [k \in 1..Entry(i)[3] |-> saved[rec[First[i] + k][2]]]

RecoverAll == IF ~files \/ rec = <<>> THEN <<>> ELSE [b \in Listed |-> Recover(b)]

-----------------------------------------------------------------------------
Init ==
  /\ saved = [a \in {1} |-> Empty] /\ durable = {}
  /\ text = [b \in Buffer |-> <<1>>] /\ dot = [b \in Buffer |-> 1]
  /\ modified = {} /\ curbuf = 1
  /\ linebuf = Empty /\ DOLsave = FALSE /\ ModCount = 0 /\ key = FALSE
  /\ rec = <<>> /\ image = <<>> /\ at = 0 /\ rec_err = FALSE
  /\ pc = "edit" /\ Crashing = FALSE /\ files = TRUE
  /\ snap = <<>> /\ edits = [b \in Buffer |-> 0] /\ failed = FALSE /\ twice = FALSE

Edit ==
  \/ \E l \in Line : Change(l)
  \/ NewLine
  \/ \E b \in Buffer : \E d \in 1..Len(text[b]) : Goto(b, d)
  \/ SaveFile

Next ==
  \/ AwaitKey
  \/ (Edit \/ Getch \/ WriteRec \/ WriteRecFails \/ Signal \/ Exit) /\ key' = FALSE /\ UNCHANGED twice
  \/ SecondSignal /\ key' = FALSE

Spec == Init /\ [][Next]_vars

-----------------------------------------------------------------------------

(* Whenever the recovery file is not being written and no write of it has  *)
(* failed, the recover program gets from it exactly the buffers that were  *)
(* modified at the last sync, with the texts they had then, whatever has   *)
(* been done to them and to the store since.                               *)
RecoversSnapshot ==
  ~rec_err /\ at = Len(image) /\ files /\ rec # <<>> => Whole /\ RecoverAll = snap

(* The introduction: "you will not lose more than the last 50 characters". *)
(* Whenever a key is awaited, and as long as no write has failed, every    *)
(* modified buffer is fewer than SyncFreq modifications ahead of what can  *)
(* be recovered, however many the commands before it have made at a time.  *)
(* (Within a command there is no bound: nothing looks at the count.)       *)
FewLost ==
  key /\ ~failed =>
    \A b \in modified : /\ edits[b] < SyncFreq
                        /\ edits[b] = 0 => b \in DOMAIN RecoverAll /\ RecoverAll[b] = Contents(b)

(* One signal, at any moment, loses nothing at all of a modified buffer,   *)
(* the line being edited included, as long as no write fails.              *)
SignalLosesNothing ==
  pc = "dead" /\ modified # {} /\ ~failed /\ ~twice =>
    Whole /\ RecoverAll = [b \in modified |-> Contents(b)]

=============================================================================
