------------------------------- MODULE Lines -------------------------------
(***************************************************************************)
(* The lines that buffers, the kill ring, marks, error records and windows *)
(* refer to, and the pool they come from and go back to (insert.c,         *)
(* delete.c, marks.c, proc.c, buf.c).                                      *)
(*                                                                         *)
(* A line is free when its address l_dline is NULL_DADDR.  Freed lines     *)
(* wait on a list until the available ones have run out; only then are the *)
(* error records that refer to them dropped, and the lines used again.     *)
(* Of l_dline is kept whether it is null, an address, or nothing but the   *)
(* flag DDIRTY.  Characters are left out: whether marks on a line are      *)
(* beyond the point is chosen.  Routines work on the record s of the state *)
(* (as in Text, which has their characters).                               *)
(***************************************************************************)
EXTENDS Integers, Sequences, SequencesExt, FiniteSetsExt

CONSTANTS
  Buffers,
  MaxLines,     \* lines there is memory for
  CHUNKSIZE, NUMKILLS, NMARKS,
  MaxText,      \* bound of the model: lines of a buffer, of a kill
  Limits        \* bounds of the model: records of how many edits, marks, parses ...

\* Buffers are numbers; each begins with the line of its number, of the first chunk.
ASSUME LinesAssumption ==
  /\ MaxLines \in Nat /\ CHUNKSIZE \in 1 .. MaxLines /\ NUMKILLS \in Nat \ {0, 1} /\ NMARKS \in Nat \ {0, 1}
  /\ Buffers \subseteq 1 .. CHUNKSIZE /\ 1 \in Buffers

VARIABLES
  dline,             \* line -> "null", "used" or "dirty" (DDIRTY and no address)
  faline, ffline,    \* the available lines, the free ones
  chunks,            \* sets of lines, newest first
  world,             \* buffers that exist
  text, dot,         \* buffer -> its lines, index of the point
  curbuf,
  killbuf, killptr, last_cmd,
  markring, themark, \* buffer -> lines of its marks; current one
  errorlist, cur_error, perr_buf,
  other,             \* a window that is not the current one
  leaked,            \* lines that nothing refers to but that were not freed
  left

vars == <<dline, faline, ffline, chunks, world, text, dot, curbuf, killbuf, killptr, last_cmd,
          markring, themark, errorlist, cur_error, perr_buf, other, leaked, left>>

Line == 1 .. MaxLines
NULL == 0
Done == -1
Nowhere == [buf |-> NULL, line |-> NULL, gone |-> FALSE, stale |-> FALSE, cleared |-> FALSE]
At(b, l) == [Nowhere EXCEPT !.buf = b, !.line = l]

State == [dline |-> dline, avail |-> faline, free |-> ffline, chunks |-> chunks,
          world |-> world, text |-> text, dot |-> dot, cur |-> curbuf,
          kill |-> killbuf, kptr |-> killptr, ring |-> markring, tm |-> themark,
          errs |-> errorlist, err |-> cur_error, perr |-> perr_buf,
          other |-> other, leaked |-> leaked,
          \* the line nbufline has returned, and the lists routines build
          got |-> NULL, kept |-> <<>>, copy |-> <<>>]

\* s is what the command cmd leaves.
Becomes(s, cmd) ==
  /\ dline' = s.dline /\ faline' = s.avail /\ ffline' = s.free /\ chunks' = s.chunks
  /\ world' = s.world /\ text' = s.text /\ dot' = s.dot /\ curbuf' = s.cur
  /\ killbuf' = s.kill /\ killptr' = s.kptr /\ last_cmd' = cmd
  /\ markring' = s.ring /\ themark' = s.tm
  /\ errorlist' = s.errs /\ cur_error' = s.err /\ perr_buf' = s.perr
  /\ other' = s.other /\ leaked' = s.leaked
-----------------------------------------------------------------------------
(* The pool                                                                *)

\* freeline, one after the other
lfreelist(s, list) ==
  [s EXCEPT !.dline = [l \in Line |-> IF l \in ToSet(list) THEN "null" ELSE s.dline[l]],
            !.free = Reverse(list) \o @]
makedirty(s, l) == [s EXCEPT !.dline[l] = IF @ = "null" THEN "dirty" ELSE @]

\* The members of q that are in set, in their order.
Chosen(q, set) ==
  LET upto[i \in 0 .. Len(q)] ==
        IF i = 0 THEN <<>> ELSE IF q[i] \in set THEN Append(upto[i - 1], q[i]) ELSE upto[i - 1]
  IN  upto[Len(q)]

\* An error record: the lines of the message and of the error, the buffer of the
\* latter.  Not in the program: one of the lines has been recycled (stale), was
\* taken for one in use though it was free (fooled).
Referents(e) == {e.mess, e.text}

\* Slip: the records are not looked at.
ChkErrorLinesSlip(s) == s

ChkErrorLines(s) ==
  LET dangling(e) == \E l \in Referents(e) : s.dline[l] = "null"
      kept == Chosen(s.errs, {e \in ToSet(s.errs) : ~dangling(e)})
      dirty(e) == \E l \in Referents(e) : s.dline[l] = "dirty"
      \* cur_error goes on to the next record that is kept
      here == {i \in DOMAIN s.errs : i >= s.err /\ ~dangling(s.errs[i])}
  IN [s EXCEPT !.errs = [i \in DOMAIN kept |-> [kept[i] EXCEPT !.fooled = @ \/ dirty(kept[i])]],
               !.err = IF @ = NULL \/ here = {} THEN NULL
                       ELSE Cardinality({i \in 1 .. Min(here) : ~dangling(s.errs[i])})]

\* What still refers to the lines is stale from now on.
Recycled(s, ls) ==
  [s EXCEPT !.errs = [i \in DOMAIN @ |->
                        [s.errs[i] EXCEPT !.stale = @ \/ Referents(s.errs[i]) \cap ls # {}]],
            !.other.stale = @ \/ s.other.line \in ls]
RecycleLines(s) ==
  IF s.free = <<>> THEN s
  ELSE [Recycled(ChkErrorLines(s), ToSet(s.free)) EXCEPT !.avail = @ \o s.free, !.free = <<>>]

\* Chunks of which every line has a null address go back to malloc.
Unused(s) == {c \in ToSet(s.chunks) : \A l \in c : s.dline[l] = "null"}
Collected(r) ==
  [r EXCEPT !.chunks = Chosen(@, ToSet(r.chunks) \ Unused(r)),
            !.avail = Chosen(@, Line \ UNION Unused(r))]
GCchunks(s) == Collected(RecycleLines(s))

Unallocated(s) == Line \ UNION ToSet(s.chunks)
\* The lines of a new chunk become available, the last one first.
Chunk(s, n) ==
  LET new == {l \in Unallocated(s) : Cardinality({k \in Unallocated(s) : k <= l}) <= n}
  IN [s EXCEPT !.chunks = <<new>> \o @,
               !.dline = [l \in Line |-> IF l \in new THEN "null" ELSE s.dline[l]],
               !.avail = Chosen([i \in Line |-> MaxLines + 1 - i], new) \o @]
\* The largest of CHUNKSIZE, CHUNKSIZE / 2 ... that there is memory for.
Sizes(s) == {n \in {CHUNKSIZE \div (2 ^ k) : k \in 0 .. CHUNKSIZE} \ {0} : n <= Cardinality(Unallocated(s))}
Enlarged(g) == IF Sizes(g) = {} THEN g ELSE Chunk(g, Max(Sizes(g)))
newchunk(s) == Enlarged(IF CHUNKSIZE \in Sizes(s) THEN s ELSE GCchunks(s))

Renewed(r) == IF r.avail = <<>> THEN newchunk(r) ELSE r
Supplied(s) == Renewed(IF s.avail = <<>> THEN RecycleLines(s) ELSE s)
Taken(c) ==
  IF c.avail = <<>> THEN [c EXCEPT !.got = NULL]
  ELSE [c EXCEPT !.got = Head(c.avail), !.avail = Tail(@)]
nbufline(s) == Taken(Supplied(s))
SavLine(s, l) == [s EXCEPT !.dline[l] = "used"]
-----------------------------------------------------------------------------
(* Lines of buffers and of kills.  A routine that runs out of lines gives  *)
(* up where it is (complain): got is NULL then.                            *)

Index(s, b, l) == CHOOSE i \in DOMAIN s.text[b] : s.text[b][i] = l
dotline(s) == s.text[s.cur][s.dot[s.cur]]
\* Marks on the lines of the current buffer go to line l.
MoveMarks(s, ls, l) ==
  [s EXCEPT !.ring[s.cur] = [i \in DOMAIN @ |-> IF @[i] \in ls THEN l ELSE @[i]]]

\* n new lines after dot, which goes to the last of them, and with it the marks
\* that are beyond the point (with).
Insert1(r, with) ==
  LET b == r.cur
      at == r.dot[b]
  IN makedirty(MoveMarks([SavLine(r, r.got) EXCEPT
                            !.text[b] = SubSeq(@, 1, at) \o <<r.got>> \o SubSeq(@, at + 1, Len(@)), !.dot[b] = at + 1],
                         IF with THEN {r.text[b][at]} ELSE {}, r.got), r.text[b][at])
\* As long as there are lines.
Insertable(r, with) == IF r.got = NULL THEN r ELSE Insert1(r, with)
InsertNext(p, with) == IF p.got = NULL THEN p ELSE Insertable(nbufline(p), with)
LineInsert(s, n, with) ==
  LET put[k \in 0 .. n] == IF k = 0 THEN [s EXCEPT !.got = Done] ELSE InsertNext(put[k - 1], with)
  IN  put[n]

ChkWindows(s, ls) == [s EXCEPT !.other.gone = @ \/ (s.other.buf = s.cur /\ s.other.line \in ls)]
\* Of lines i to j of the current buffer what is left is in line i, where dot goes.
patchup(s, i, j) ==
  LET ls == SubSeq(s.text[s.cur], i + 1, j)
      l == s.text[s.cur][i]
  IN makedirty(MoveMarks(ChkWindows([s EXCEPT !.dot[s.cur] = i], ToSet(ls)), ToSet(ls), l), l)
Cut(s, i, j) == [s EXCEPT !.text[s.cur] = SubSeq(@, 1, i) \o SubSeq(@, j + 1, Len(@))]

\* What is deleted is in a new line and those after i; kept: these lines.
Deleted(s, r, i, j) ==
  IF r.got = NULL THEN r
  ELSE [Cut(patchup(SavLine(r, r.got), i, j), i, j) EXCEPT
          !.kept = <<r.got>> \o SubSeq(s.text[s.cur], i + 1, j)]
reg_delete(s, i, j) == Deleted(s, nbufline(s), i, j)
\* patchup and lremove, when nothing is kept
Removed(s, i, j) == lfreelist(Cut(patchup(s, i, j), i, j), SubSeq(s.text[s.cur], i + 1, j))

\* A copy of n lines: the first goes into the line it is put at, a new line for
\* each of the others (copy).  got is NULL if they run out.
Copyable(r) == IF r.got = NULL THEN r ELSE [SavLine(r, r.got) EXCEPT !.copy = Append(@, r.got)]
CopyNext(p) == IF p.got = NULL THEN p ELSE Copyable(nbufline(p))
Copy(s, n) ==
  LET put[k \in 0 .. n - 1] == IF k = 0 THEN [s EXCEPT !.got = Done] ELSE CopyNext(put[k - 1])
  IN  put[n - 1]
\* DoYank into the current buffer at dot; dot goes to the end of it.
Yanked(c, with) ==
  LET b == c.cur
      at == c.dot[b]
  IN MoveMarks([c EXCEPT !.text[b] = SubSeq(@, 1, at) \o c.copy \o SubSeq(@, at + 1, Len(@)),
                         !.dot[b] = at + Len(c.copy), !.copy = <<>>],
               IF with /\ c.got # NULL /\ c.copy # <<>> THEN {c.text[b][at]} ELSE {}, Last(<<NULL>> \o c.copy))
DoYank(s, n, with) == Yanked(Copy(s, n), with)

\* Slip: the oldest kill, overwritten, is not freed.
AddKillRingSlip(s, list) ==
  LET k == (s.kptr + 1) % NUMKILLS IN [s EXCEPT !.kill[k] = list, !.kptr = k]
Next_(k) == (k + 1) % NUMKILLS
AddKillRing(s, list) ==
  LET k == Next_(s.kptr)
      room == s.kill[NUMKILLS - 1] = <<>>
      moved == [i \in DOMAIN s.kill |-> IF i <= k THEN s.kill[i] ELSE s.kill[i - 1]]
  IN IF s.kill[s.kptr] = <<>> THEN [s EXCEPT !.kill[s.kptr] = list]
     ELSE IF room THEN [s EXCEPT !.kill = [moved EXCEPT ![k] = list], !.kptr = k]
     ELSE [lfreelist(s, s.kill[k]) EXCEPT !.kill[k] = list, !.kptr = k]

DelKillRing(s) ==
  LET k == s.kptr
      shifted == [i \in DOMAIN s.kill |-> IF i < k THEN s.kill[i]
                                          ELSE IF i = NUMKILLS - 1 THEN <<>> ELSE s.kill[i + 1]]
      before == (k + NUMKILLS - 1) % NUMKILLS
      full == {i \in 0 .. before : shifted[i] # <<>>}
  IN [lfreelist(s, s.kill[k]) EXCEPT !.kill = shifted, !.kptr = IF full = {} THEN 0 ELSE Max(full)]

\* reg_kill: a new kill, or more of the last one; of that only a copy is kept.
Appended(c, backwards) ==
  [c EXCEPT !.kill[c.kptr] = IF backwards THEN <<Head(@)>> \o c.copy \o Tail(@) ELSE @ \o c.copy,
            !.leaked = @ \cup ToSet(c.kept), !.copy = <<>>, !.kept = <<>>]
reg_kill(s, i, j, again, backwards) ==
  LET d == reg_delete(s, i, j)
  IN  IF d.got = NULL THEN d
      ELSE IF again THEN Appended(Copy(d, Len(d.kept)), backwards)
      ELSE [AddKillRing(d, d.kept) EXCEPT !.kept = <<>>]
-----------------------------------------------------------------------------
(* Marks                                                                   *)

do_set_mark(s, l) ==
  LET b == s.cur
      tm == s.tm[b]
      next == (tm + 1) % NMARKS
      r == s.ring[b]
      moved == [i \in DOMAIN r |-> IF i < next THEN r[i] ELSE IF i = next THEN NULL ELSE r[i - 1]]
      at == IF r[tm] = NULL THEN tm ELSE next
      old == IF r[tm] = NULL THEN s ELSE makedirty(s, r[tm])
  IN makedirty([old EXCEPT !.tm[b] = at,
                 !.ring[b] = [(IF r[tm] # NULL /\ r[NMARKS - 1] = NULL THEN moved ELSE r)
                              EXCEPT ![at] = l]], l)

curmark(s) == s.ring[s.cur][s.tm[s.cur]]
ExchPtMark(s) ==
  LET m == curmark(s)
  IN makedirty(makedirty([s EXCEPT !.dot[s.cur] = Index(s, s.cur, m),
                                   !.ring[s.cur][s.tm[s.cur]] = dotline(s)], m), dotline(s))
PopMark(s) ==
  LET e == ExchPtMark(s)
      b == s.cur
      before(k) == {i \in DOMAIN e.ring[b] : i < k /\ e.ring[b][i] # NULL}
  IN IF curmark(s) = NULL THEN s
     ELSE LET k == IF before(s.tm[b]) # {} THEN Max(before(s.tm[b])) ELSE Max(before(NMARKS))
          IN makedirty([e EXCEPT !.tm[b] = k], e.ring[b][k])

\* The marks of the ring go, the lines they were on are made dirty.
AllMarkReset(s, b) ==
  LET lines == {s.ring[b][i] : i \in DOMAIN s.ring[b]} \ {NULL}
  IN [s EXCEPT
        !.dline = [l \in Line |-> IF l \in lines /\ s.dline[l] = "null" THEN "dirty" ELSE s.dline[l]],
        !.ring[b] = [i \in DOMAIN @ |-> NULL], !.tm[b] = 0]
-----------------------------------------------------------------------------
(* Buffers and errors                                                      *)

\* A buffer gets one line; with none to be had it has none (complain).
FirstLine(s, b) ==
  LET r == nbufline(s)
  IN  IF r.got = NULL THEN r ELSE [SavLine(r, r.got) EXCEPT !.text[b] = <<r.got>>, !.dot[b] = 1]
\* The window that shows the buffer is not told (not in the program: cleared).
buf_clear(s, b) ==
  LET l == FirstLine([lfreelist(s, s.text[b]) EXCEPT !.text[b] = <<>>,
                        !.other.cleared = @ \/ s.other.buf = b], b)
  IN  IF l.got = NULL THEN l ELSE AllMarkReset(l, b)

ErrFree(s) == [s EXCEPT !.errs = <<>>, !.err = NULL]
\* (SetBuf and delb_wind are in module Windows.)
kill_buf(s, b) ==
  LET e == IF s.perr = b THEN [ErrFree(s) EXCEPT !.perr = NULL] ELSE s
  IN [lfreelist(e, s.text[b]) EXCEPT
        !.world = @ \ {b}, !.text[b] = <<>>, !.dot[b] = 1,
        !.ring[b] = [i \in DOMAIN @ |-> NULL], !.tm[b] = 0,
        !.cur = IF @ = b THEN CHOOSE c \in s.world \ {b} : TRUE ELSE @,
        !.other = IF @.buf = b THEN Nowhere ELSE @]

inlist(s, b, l) == b \in s.world /\ l \in ToSet(s.text[b])
ErrorHasReferents(s, e) == inlist(s, e.buf, e.text) /\ inlist(s, s.perr, e.mess)
ShowErr(s) ==
  LET e == s.errs[s.err]
  IN IF ~ErrorHasReferents(s, e) THEN s
     ELSE [s EXCEPT !.cur = e.buf,
             !.dot[s.perr] = Index(s, s.perr, e.mess), !.dot[e.buf] = Index(s, e.buf, e.text)]
-----------------------------------------------------------------------------
(* Commands                                                                *)

Command(kind) == left[kind] > 0 /\ left' = [left EXCEPT ![kind] = @ - 1]
Lines_ == DOMAIN text[curbuf]
Fits(n) == Len(text[curbuf]) + n <= MaxText

Newline(n, with) == Command("edits") /\ Fits(n) /\ Becomes(LineInsert(State, n, with), "other")

Delete(i, j) ==
  /\ Command("edits") /\ i < j
  /\ Becomes(Removed(State, i, j), "other")

\* From the point to a line: DelReg, kill-next-word, kill-to-end-of-line ...
Kill(i) ==
  /\ Command("kills")
  /\ LET d == dot[curbuf]
     IN \E back \in BOOLEAN :
          /\ last_cmd = "kill" => Len(killbuf[killptr]) < MaxText
          /\ last_cmd # "kill" => ~back
          /\ LET k == reg_kill(State, Min({i, d}), Max({i, d}), last_cmd = "kill", back)
             IN Becomes(k, IF k.got = NULL THEN "other" ELSE "kill")

\* new_kill and DoYank
CopyRegion ==
  LET m == Index(State, curbuf, curmark(State))
      n == 1 + Max({m, dot[curbuf]}) - Min({m, dot[curbuf]})
      r == nbufline(State)
  IN /\ Command("kills") /\ curmark(State) # NULL
     /\ Becomes(IF r.got = NULL THEN r
                ELSE Appended(Copy(AddKillRing(SavLine(r, r.got), <<r.got>>), n), FALSE), "other")

\* Yank, with set_mark where it began
Yank(with) ==
  LET n == Len(killbuf[killptr])
      y == DoYank(State, n, with)
  IN /\ Command("kills") /\ n > 0 /\ Fits(n - 1)
     /\ IF y.got = NULL THEN Becomes(y, "other")
        ELSE Becomes(do_set_mark(y, dotline(State)), "yank")

\* The last yank is deleted (from the mark to the point), another kill yanked.
Rotated(dir) ==
  LET step(n) == (killptr + n * dir) % NUMKILLS
  IN step(Min({n \in 1 .. NUMKILLS : killbuf[step(n)] # <<>>}))
Popped(dir, i, j) ==
  LET d == reg_delete([State EXCEPT !.kptr = Rotated(dir)], i, j)
      y == DoYank([lfreelist(d, d.kept) EXCEPT !.kept = <<>>], Len(d.kill[d.kptr]), FALSE)
      l == text[curbuf][i]
  IN  IF d.got = NULL THEN d
      ELSE IF y.got = NULL THEN y
      ELSE makedirty([y EXCEPT !.ring[curbuf][y.tm[curbuf]] = l], l)
YankPop(dir) ==
  LET m == Index(State, curbuf, curmark(State))
      y == Popped(dir, Min({m, dot[curbuf]}), Max({m, dot[curbuf]}))
  IN /\ Command("kills") /\ last_cmd = "yank" /\ curmark(State) # NULL
     /\ Len(y.text[curbuf]) <= MaxText
     /\ Becomes(y, IF y.got = NULL THEN "other" ELSE "yank")

MouseUndo == Command("kills") /\ killbuf[killptr] # <<>> /\ Becomes(DelKillRing(State), "other")

SetMark == Command("marks") /\ Becomes(do_set_mark(State, dotline(State)), "other")
Pop == Command("marks") /\ curmark(State) # NULL /\ Becomes(PopMark(State), "other")

BufErase(b) == Command("clears") /\ Becomes(buf_clear(State, b), "other")
KillBuf(b) == Command("clears") /\ world # {b} /\ Becomes(kill_buf(State, b), "other")
MakBuf(b) ==
  /\ Command("clears") /\ b \in Buffers \ world
  /\ Becomes(FirstLine([State EXCEPT !.world = @ \cup {b}], b), "other")

\* The lines of messages and of errors, one or two.
ErrParse ==
  /\ Command("parses")
  /\ \E b \in world : \E ms \in {<<i>> : i \in Lines_} \cup {<<i, i + 1>> : i \in Lines_ \ {Len(text[curbuf])}} :
       \E l \in ToSet(text[b]) :
         LET e(i) == [mess |-> text[curbuf][i], text |-> l, buf |-> b, stale |-> FALSE, fooled |-> FALSE]
         IN Becomes(ShowErr([State EXCEPT !.perr = curbuf, !.err = 1,
                                          !.errs = [i \in DOMAIN ms |-> e(ms[i])]]), "other")

ToError(to) ==
  /\ Command("parses") /\ cur_error # NULL /\ to \in DOMAIN errorlist
  /\ LET beyond == IF to > cur_error THEN {i \in DOMAIN errorlist : i >= to}
                                     ELSE {i \in DOMAIN errorlist : i <= to}
         there == {i \in beyond : ErrorHasReferents(State, errorlist[i])}
         e == IF there = {} THEN (IF to > cur_error THEN Max(beyond) ELSE Min(beyond))
              ELSE IF to > cur_error THEN Min(there) ELSE Max(there)
     IN Becomes(ShowErr([State EXCEPT !.err = e]), "other")

Move(i) == Command("moves") /\ dot[curbuf] # i /\ Becomes([State EXCEPT !.dot[curbuf] = i], "other")
SelectBuf(b) ==
  Command("moves") /\ curbuf # b /\ text[b] # <<>> /\ Becomes([State EXCEPT !.cur = b], "other")

\* SetWind: each window's place is kept, and looked for when it is entered.
SwitchWindow ==
  /\ Command("moves") /\ other.buf # NULL /\ text[other.buf] # <<>>
  /\ LET here == inlist(State, other.buf, other.line)
     IN Becomes([State EXCEPT !.cur = other.buf, !.other = At(curbuf, dotline(State)),
                   !.dot[other.buf] = IF here THEN Index(State, other.buf, other.line) ELSE @],
                "other")
\* UpdWindow; a buffer that has no line has no b_dot.
Redisplay ==
  /\ other.gone
  /\ LET b == other.buf
     IN Becomes([State EXCEPT !.other = At(b, IF text[b] = <<>> THEN NULL ELSE text[b][dot[b]])], last_cmd)
  /\ UNCHANGED left
\* emalloc finds no memory for something else.
Emalloc ==
  LET g == GCchunks(State) IN g # State /\ Becomes(g, last_cmd) /\ UNCHANGED left

Init ==
  /\ left \in Limits
  /\ dline = [l \in Line |-> IF l \in Buffers THEN "used" ELSE "null"]
  /\ chunks = <<1 .. CHUNKSIZE>>
  /\ faline = Chosen([i \in 1 .. CHUNKSIZE |-> i], Line \ Buffers) /\ ffline = <<>>
  /\ world = Buffers /\ text = [b \in Buffers |-> <<b>>] /\ dot = [b \in Buffers |-> 1]
  /\ curbuf = 1
  /\ killbuf = [k \in 0 .. NUMKILLS - 1 |-> <<>>] /\ killptr = 0 /\ last_cmd = "other"
  /\ markring = [b \in Buffers |-> [i \in 0 .. NMARKS - 1 |-> NULL]]
  /\ themark = [b \in Buffers |-> 0]
  /\ errorlist = <<>> /\ cur_error = NULL /\ perr_buf = NULL
  /\ other \in {Nowhere} \cup {At(b, b) : b \in Buffers}
  /\ leaked = {}

Next ==
  \/ /\ text[curbuf] # <<>>
     /\ \/ \E n \in 1 .. 2, with \in BOOLEAN : Newline(n, with)
        \/ \E i, j \in Lines_ : Delete(i, j)
        \/ \E i \in Lines_ : Kill(i) \/ Move(i)
        \/ \E with \in BOOLEAN : Yank(with)
        \/ \E dir \in {1, NUMKILLS - 1} : YankPop(dir)
        \/ CopyRegion \/ SetMark \/ Pop \/ ErrParse \/ SwitchWindow
  \/ MouseUndo
  \/ \E b \in world : BufErase(b) \/ KillBuf(b) \/ SelectBuf(b)
  \/ \E b \in Buffers : MakBuf(b)
  \/ \E to \in {cur_error - 1, cur_error + 1} : ToError(to)
  \/ Redisplay \/ Emalloc

Spec == Init /\ [][Next]_vars
-----------------------------------------------------------------------------
(* Properties                                                              *)

\* Where lines are: the lists of the pool, each buffer and each kill.
Holder == ({"available", "free"} \X {0}) \cup ({"text"} \X Buffers) \cup ({"kill"} \X (0 .. NUMKILLS - 1))
Held ==
  [h \in Holder |-> CASE h[1] = "available" -> faline [] h[1] = "free" -> ffline
                      [] h[1] = "text" -> text[h[2]] [] OTHER -> killbuf[h[2]]]
HeldBy(kinds) == UNION {ToSet(Held[h]) : h \in {g \in Holder : g[1] \in kinds}}

\* A line is in one place only: available, free, in one buffer or in one kill.
\* Its chunk has not gone back to malloc, it has an address exactly when it is in
\* use, and no line is lost but those reg_kill has copied (lfreereg, nbufline,
\* GCchunks).
OnePlace ==
  /\ \A g, h \in Holder : \A i \in DOMAIN Held[g], j \in DOMAIN Held[h] :
       Held[g][i] = Held[h][j] => g = h /\ i = j
  /\ \A h \in Holder : ToSet(Held[h]) \cap leaked = {}
  /\ HeldBy({"available", "free", "text", "kill"}) \cup leaked = UNION ToSet(chunks)
  /\ \A l \in HeldBy({"text", "kill"}) : dline[l] = "used"
  /\ \A l \in HeldBy({"available", "free"}) : dline[l] # "used"

\* A line that is used again is not the line of an error record, unless
\* AllMarkReset had made it look as if it was in use; nor of a window, unless
\* redisplay has been told or the whole buffer was cleared (RecycleLines).
NoStaleLine ==
  /\ \A i \in DOMAIN errorlist : errorlist[i].stale => errorlist[i].fooled
  /\ other.stale => other.gone \/ other.cleared

\* The same without the exceptions.
NothingDangles ==
  /\ \A i \in DOMAIN errorlist : ~errorlist[i].stale
  /\ other.stale => other.gone
=============================================================================
