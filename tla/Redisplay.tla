------------------------------ MODULE Redisplay ------------------------------
(***************************************************************************)
(* The screen is brought up to date from the buffers (disp.c, screen.c):   *)
(* UpdWindow says what each row should show (DesiredScreen), DoIDline      *)
(* scrolls the rows that can be used elsewhere, UpdLine writes the rows    *)
(* that differ from what was last written (PhysScreen).  A typed character *)
(* stops the writing anywhere; what was left out must be made up for.      *)
(*                                                                         *)
(* A text is a number, and so is its address in the tmp file: each text    *)
(* that is put there gets a new one.  Marks, line numbers and the mode     *)
(* line's text (but for the modified sign) are left out; so is resizing,   *)
(* which clears the screen (module Windows).                               *)
(***************************************************************************)
EXTENDS Integers, Sequences, SequencesExt, FiniteSets

CONSTANTS
  Buffers,      \* 1 .. n
  Height,       \* height of each of the two windows, mode line included
  Columns,      \* print columns at which dot may be
  CO,           \* width of the screen
  ScrollWidth, ScrollStep,  \* the variables of these names
  Begin,        \* buffer -> number of lines to begin with
  Limits        \* records that bound commands, new texts, preemptions

ASSUME RedisplayAssumption == Height > 1 /\ CO > 2 /\ ScrollWidth > 0

VARIABLES
  text,      \* buffer -> its lines
  line,      \* line -> address of its text, DDIRTY
  curbuf, dot,   \* dot: buffer -> line
  col,       \* buffer -> print column of dot
  linebuf, DOLsave,
  modified,  \* buffer -> b_modified
  win, curwind,
  PhysScreen, DesiredScreen,
  shown,     \* what is on the terminal
  UpdModLine,
  job,       \* how far redisplay has got
  lost,      \* redisplay did not find dot in its window, or took a mode line for text
  left, top  \* bounds; the last text, the last line
buffers == <<text, line, curbuf, dot, col, linebuf, DOLsave, modified, top>>
screen == <<PhysScreen, DesiredScreen, shown>>
vars == <<buffers, win, curwind, screen, UpdModLine, job, lost, left>>

NULL_DADDR == 0
NOWHERE_DADDR == -1          \* a row whose writing was interrupted
UNSAVED_CURLINE_DADDR == -2
ModeId(b) == -10 - b         \* the mode line of buffer b

Wins == 1 .. 2
ILI == 2 * Height
Rows == 1 .. ILI
FLine(w) == (w - 1) * Height + 1
WSIZE == Height - 1
ModeRow(w) == w * Height
WindowOf(r) == 1 + (r - 1) \div Height

Blank == [text |-> 0, off |-> 0]
Garbled == [text |-> NOWHERE_DADDR, off |-> 0]
HalfModeLine == [text |-> -3, off |-> 0]
NoLine == [id |-> NULL_DADDR, off |-> 0, dirty |-> FALSE, lp |-> 0]

curline == dot[curbuf]
lcontents(l) == IF l = curline THEN linebuf ELSE line[l].d
ModeText(b) == [text |-> ModeId(b), off |-> IF modified[b] THEN 1 ELSE 0]
At(l, b) == CHOOSE i \in DOMAIN text[b] : text[b][i] = l   \* where line l is in b
In(l, b) == l \in ToSet(text[b])
Lesser(a, b) == IF a < b THEN a ELSE b
Greater(a, b) == IF a < b THEN b ELSE a
-----------------------------------------------------------------------------
(* UpdWindow                                                               *)

prev_line(l, b, n) == text[b][Greater(1, At(l, b) - n)]
next_line(l, b, n) == text[b][Lesser(Len(text[b]), At(l, b) + n)]

CentWind(w) == prev_line(w.line, w.b, WSIZE \div 2)
CalcWind(w) ==
  IF ScrollStep = 0 \/ ~In(w.top, w.b) THEN CentWind(w)
  ELSE LET step == IF ScrollStep < 0 THEN WSIZE + ScrollStep ELSE ScrollStep - 1
           above == At(w.line, w.b) < At(w.top, w.b)
           newtop == prev_line(w.line, w.b, IF above THEN step ELSE WSIZE - 1 - step)
           dist == At(newtop, w.b) - At(w.top, w.b)
       IN IF Greater(dist, -dist) >= WSIZE - 1 THEN CentWind(w) ELSE newtop

Visible(w) == In(w.top, w.b) /\ At(w.line, w.b) - At(w.top, w.b) \in 0 .. WSIZE - 1

\* The window as UpdWindow leaves it: its lines are there, dot is among them.
Present(w) == IF w.curgone THEN [w EXCEPT !.line = dot[w.b], !.col = col[w.b]] ELSE w
Topped(w) == [w EXCEPT !.topgone = FALSE, !.curgone = FALSE,
                       !.top = IF w.topgone /\ In(w.line, w.b) THEN CentWind(w) ELSE @]
Shifted(w) == IF ~In(w.line, w.b) \/ Visible(w) THEN w ELSE [w EXCEPT !.top = CalcWind(w)]
Settled(w) == Shifted(Topped(Present(w)))

\* First column that is shown of dot's line, given what its row shows now.
SIWIDTH(off) == IF off # 0 THEN 1 ELSE 0
\* Slip: no room is kept for the mark of a shifted line.
OffsetSlip(off, c) ==
  LET end == off + (CO - 1)
      step == Lesser(ScrollWidth, end - off)
  IN IF off # -1 /\ off <= c /\ c < end THEN off
     ELSE IF off > c /\ off - step <= c THEN Greater(off - step, 0)
     ELSE IF c >= end /\ c < end + step
       THEN Lesser(off + step + (IF off = 0 /\ c = end + step - 1 THEN 1 ELSE 0), c)
     ELSE IF c < CO - 1 THEN 0
     ELSE c - CO \div 2
Offset(off, c) ==
  LET end == off + (CO - 1) - SIWIDTH(off)
      step == Lesser(ScrollWidth, end - off)
  IN IF off # -1 /\ off <= c /\ c < end THEN off
     ELSE IF off > c /\ off - step <= c THEN Greater(off - step, 0)
     ELSE IF c >= end /\ c < end + step
       THEN Lesser(off + step + (IF off = 0 /\ c = end + step - 1 THEN 1 ELSE 0), c)
     ELSE IF c < CO - 1 THEN 0
     ELSE c - CO \div 2

DotRow(w, n) == FLine(n) + At(w.line, w.b) - At(w.top, w.b)
IdOf(l) == IF l = curline /\ DOLsave THEN UNSAVED_CURLINE_DADDR ELSE line[l].d

\* What row r is to show, in window n that is w.
Desired(r, w, n) ==
  IF r = ModeRow(n)
    THEN [id |-> ModeId(w.b), off |-> 0, lp |-> 0,
          dirty |-> UpdModLine \/ PhysScreen[r].id # ModeId(w.b)]
  ELSE LET k == At(w.top, w.b) + r - FLine(n)
       IN IF k > Len(text[w.b])
            THEN [NoLine EXCEPT !.dirty = PhysScreen[r].id # NULL_DADDR]
          ELSE LET l == text[w.b][k]
               IN [id |-> IdOf(l), lp |-> l, dirty |-> line[l].dirty,
                   off |-> IF l = w.line THEN Offset(PhysScreen[DotRow(w, n)].off, w.col) ELSE 0]
-----------------------------------------------------------------------------
(* DoIDline: scroll what can be used elsewhere.  s: PhysScreen and shown.  *)

RECURSIVE UntilEqual(_, _)
UntilEqual(s, r) ==
  IF r > ILI \/ DesiredScreen[r].id = s.phys[r].id THEN r ELSE UntilEqual(s, r + 1)

RECURSIVE FirstDiff(_, _)
FirstDiff(s, r) ==
  IF r > ILI \/ DesiredScreen[r].id # s.phys[r].id THEN r ELSE FirstDiff(s, r + 1)

\* num rows are inserted at row at, and as many are lost above bottom.
Inserted(s, at, num, bottom) ==
  LET from(r, f, new) == IF r \notin at .. bottom - 1 THEN f[r]
                         ELSE IF r < at + num THEN new ELSE f[r - num]
  IN [phys |-> [r \in Rows |-> from(r, s.phys, [s.phys[r] EXCEPT !.id = NULL_DADDR])],
      shown |-> [r \in Rows |-> from(r, s.shown, Blank)]]
Deleted(s, at, num, bottom) ==
  LET from(r, f, new) == IF r \notin at .. bottom - 1 THEN f[r]
                         ELSE IF r + num < bottom THEN f[r + num] ELSE new
  IN [phys |-> [r \in Rows |-> from(r, s.phys, [s.phys[r] EXCEPT !.id = NULL_DADDR])],
      shown |-> [r \in Rows |-> from(r, s.shown, Blank)]]

\* AddLines and DelLines do nothing when too few rows would be kept.
Worth(s, at, num) == num < UntilEqual(s, at + num) - 1 - at

RECURSIVE DoIDline(_, _, _)
DoIDline(s, i, j) ==
  IF i > ILI THEN s
  ELSE IF j > ILI THEN DoIDline(s, i + 1, i + 2)
  ELSE LET id(r) == DesiredScreen[r].id
           again(t, from) == LET f == FirstDiff(t, from) IN DoIDline(t, f, f + 1)
       IN IF id(j) # NULL_DADDR /\ id(j) = s.phys[j].id THEN DoIDline(s, i + 1, i + 2)
          ELSE IF id(j) = s.phys[i].id /\ id(j) # NULL_DADDR
            THEN IF Worth(s, i, j - i)
                   THEN again(Inserted(s, i, j - i, UntilEqual(s, j)), j)
                   ELSE DoIDline(s, i + 1, i + 2)
          ELSE IF id(j) # s.phys[i].id /\ id(i) = s.phys[j].id /\ id(i) # NULL_DADDR
            THEN IF Worth(s, i, j - i)
                   THEN again(Deleted(s, i, j - i, UntilEqual(s, j)), i)
                   ELSE DoIDline(s, i + 1, i + 2)
          ELSE DoIDline(s, i, j + 1)
-----------------------------------------------------------------------------
(* redisplay                                                               *)

\* row: the next one; done_ID; old_UpdModLine
Idle == [at |-> "idle", row |-> 0, done_ID |-> FALSE, old |-> FALSE]
Preempt == left.preempts > 0 /\ left' = [left EXCEPT !.preempts = @ - 1]

\* Up to the rows; when a character is there already nothing is done.
StartRedisplay ==
  /\ job.at = "idle"
  /\ \E now \in {[win EXCEPT ![curwind].line = dot[win[curwind].b],
                             ![curwind].col = col[win[curwind].b]]} :
     \E new \in {[n \in Wins |-> Settled(now[n])]} :
       /\ lost' = \E n \in Wins : ~In(new[n].line, new[n].b) \/ ~Visible(new[n])
       /\ win' = new
       /\ DesiredScreen' = IF lost' THEN DesiredScreen
                           ELSE [r \in Rows |-> Desired(r, new[WindowOf(r)], WindowOf(r))]
  /\ job' = [at |-> "rows", row |-> 1, done_ID |-> FALSE, old |-> UpdModLine]
  /\ UpdModLine' = FALSE
  /\ UNCHANGED <<buffers, curwind, PhysScreen, shown, left>>

Differs(s, r) == \/ DesiredScreen[r].dirty
                 \/ DesiredScreen[r].id # s.phys[r].id
                 \/ DesiredScreen[r].off # s.phys[r].off

\* UpdLine: the row is written (do_cl_eol), or a character stops it in the middle.
Written(s, r, what) ==
  [phys |-> [s.phys EXCEPT ![r] = [id |-> DesiredScreen[r].id, off |-> DesiredScreen[r].off]],
   shown |-> [s.shown EXCEPT ![r] = what]]
\* Slip: a row whose writing was stopped counts as written.
StoppedSlip(s, r, id, what) ==
  [phys |-> [s.phys EXCEPT ![r] = [id |-> DesiredScreen[r].id, off |-> DesiredScreen[r].off]],
   shown |-> [s.shown EXCEPT ![r] = what]]
Stopped(s, r, id, what) ==
  [phys |-> [s.phys EXCEPT ![r].id = id], shown |-> [s.shown EXCEPT ![r] = what]]

Screen(s) == PhysScreen' = s.phys /\ shown' = s.shown

ModeLine(s, r) ==
  LET b == win[WindowOf(r)].b
  IN \/ Screen(Written(s, r, ModeText(b))) /\ UNCHANGED <<UpdModLine, left>>
     \/ Screen(Stopped(s, r, s.phys[r].id, HalfModeLine)) /\ UpdModLine' = TRUE /\ Preempt

UpdText(s, r) ==
  LET l == DesiredScreen[r].lp
  IN /\ line' = [line EXCEPT ![l].dirty = FALSE]
     /\ \/ /\ Screen(Written(s, r, [text |-> lcontents(l), off |-> DesiredScreen[r].off]))
           /\ UNCHANGED <<UpdModLine, left>>
        \/ /\ Screen(Stopped(s, r, NOWHERE_DADDR, Garbled)) /\ Preempt
           /\ UpdModLine' = (UpdModLine \/ job.old)

ClearRow(s, r) ==
  /\ Screen(IF s.phys[r].id = NULL_DADDR THEN s ELSE Written(s, r, Blank))
  /\ UNCHANGED <<UpdModLine, left>>

\* The next row that is not as it should be.
Row ==
  /\ job.at = "rows"
  /\ LET here == [phys |-> PhysScreen, shown |-> shown]
         todo == {r \in job.row .. ILI : Differs(here, r)}
         r == CHOOSE x \in todo : \A y \in todo : x <= y
         scroll == ~job.done_ID /\ DesiredScreen[r].id # PhysScreen[r].id
     IN /\ todo # {}
        /\ \E s \in {IF scroll THEN DoIDline(here, r, r + 1) ELSE here} :
             /\ IF ~Differs(s, r)
                  THEN Screen(s) /\ UNCHANGED <<line, UpdModLine, left>>
                ELSE IF r = ModeRow(WindowOf(r)) THEN ModeLine(s, r) /\ UNCHANGED line
                ELSE IF DesiredScreen[r].id # NULL_DADDR THEN UpdText(s, r)
                ELSE ClearRow(s, r) /\ UNCHANGED line
             /\ lost' = (Differs(s, r) /\ r = ModeRow(WindowOf(r)) /\ ~DesiredScreen[r].dirty)
        \* a row that was stopped leaves the others to the next redisplay
        /\ job' = IF left' = left THEN [job EXCEPT !.row = r + 1, !.done_ID = @ \/ scroll] ELSE Idle
  /\ UNCHANGED <<text, curbuf, dot, col, linebuf, DOLsave, modified, top, win, curwind,
                 DesiredScreen>>

\* GotoDot
Redrawn ==
  /\ job.at = "rows" /\ \A r \in job.row .. ILI : ~Differs([phys |-> PhysScreen, shown |-> shown], r)
  /\ job' = [Idle EXCEPT !.at = "done"]
  /\ UNCHANGED <<buffers, win, curwind, screen, UpdModLine, lost, left>>
-----------------------------------------------------------------------------
(* What commands do to buffers, windows and rows                           *)

Command ==
  /\ job.at \in {"idle", "done"} /\ job' = Idle
  /\ left.commands > 0 /\ left' = [left EXCEPT !.commands = @ - 1]
  /\ UNCHANGED <<lost, DesiredScreen>>
NewText(n) == top.text + n <= left.texts /\ top' = [top EXCEPT !.text = @ + n]

\* lsave: the line gets a new address if its text has changed.  (The texts that
\* are compared are those of the addresses: each text has one.)
lsave == line' = IF DOLsave THEN [line EXCEPT ![curline].d = linebuf,
                                              ![curline].dirty = @ /\ line[curline].d = linebuf]
                            ELSE line

DotTo(b, l, c) ==
  /\ curbuf' = b /\ dot' = [dot EXCEPT ![b] = l] /\ col' = [col EXCEPT ![b] = c]
  /\ IF b = curbuf /\ l = curline THEN UNCHANGED <<line, linebuf, DOLsave>>
     ELSE lsave /\ linebuf' = line'[l].d /\ DOLsave' = FALSE

modify == /\ DOLsave' = TRUE
          /\ modified' = [modified EXCEPT ![curbuf] = TRUE]
          /\ UpdModLine' = (UpdModLine \/ ~modified[curbuf])

\* insert_c, or a deletion within the line; back: which restores the saved text
Edit(back) ==
  /\ Command /\ modify
  /\ line' = [line EXCEPT ![curline].dirty = TRUE]
  /\ IF back THEN linebuf # line[curline].d /\ linebuf' = line[curline].d /\ UNCHANGED top
             ELSE NewText(1) /\ linebuf' = top'.text
  /\ UNCHANGED <<text, curbuf, dot, col, win, curwind, PhysScreen, shown>>

\* LineInsert(1), in the middle of the line or at its beginning
LineInsert(middle) ==
  /\ Command /\ modify /\ NewText(IF middle THEN 2 ELSE 1)
  /\ LET new == CHOOSE l \in DOMAIN line \ UNION {ToSet(text[b]) : b \in Buffers} : TRUE
     IN /\ DOMAIN line # UNION {ToSet(text[b]) : b \in Buffers}
        /\ text' = [text EXCEPT ![curbuf] = InsertAt(@, At(curline, curbuf) + 1, new)]
        /\ line' = [line EXCEPT
             ![curline] = [d |-> top.text + 1, dirty |-> TRUE],
             ![new] = [d |-> IF middle THEN top.text + 2 ELSE line[curline].d, dirty |-> TRUE]]
        /\ linebuf' = IF middle THEN top.text + 2 ELSE linebuf
        /\ dot' = [dot EXCEPT ![curbuf] = new] /\ col' = [col EXCEPT ![curbuf] = 0]
  /\ UNCHANGED <<curbuf, win, curwind, PhysScreen, shown>>

\* Slip: the windows are not told.
ChkWindowsSlip(gone) == UNCHANGED win

\* ChkWindows: the lines after the first up to the last are about to go.
ChkWindows(gone) ==
  win' = [n \in Wins |-> IF win[n].b # curbuf THEN win[n]
                         ELSE [win[n] EXCEPT !.topgone = @ \/ win[n].top \in gone,
                                             !.curgone = @ \/ win[n].line \in gone]]

\* reg_delete and patchup from dot to a place in the next line; whole: of lines
\* as wholes, when dot's line takes the other's address.
DeleteLine(whole) ==
  /\ Command /\ modify
  /\ At(curline, curbuf) < Len(text[curbuf])
  /\ LET next == next_line(curline, curbuf, 1)
     IN /\ text' = [text EXCEPT ![curbuf] = RemoveAt(@, At(curline, curbuf) + 1)]
        /\ ChkWindows({next})
        /\ IF whole
             THEN /\ line' = [line EXCEPT ![curline] = [d |-> line[next].d, dirty |-> TRUE]]
                  /\ linebuf' = line[next].d /\ UNCHANGED top
             ELSE /\ NewText(1) /\ linebuf' = top'.text
                  /\ line' = [line EXCEPT ![curline] =
                       [d |-> IF DOLsave THEN linebuf ELSE @.d, dirty |-> TRUE]]
  /\ UNCHANGED <<curbuf, dot, col, curwind, PhysScreen, shown>>

Move(i, c) ==
  /\ Command /\ i \in DOMAIN text[curbuf] /\ DotTo(curbuf, text[curbuf][i], c)
  /\ UNCHANGED <<text, modified, top, win, curwind, PhysScreen, shown, UpdModLine>>

\* UpScroll, DownScroll
Scroll(n) ==
  /\ Command
  /\ LET w == win[curwind]
         new == [w EXCEPT !.top = IF n > 0 THEN next_line(w.top, w.b, n) ELSE prev_line(w.top, w.b, -n)]
     IN /\ In(w.top, w.b)
        /\ win' = [win EXCEPT ![curwind] = new]
        /\ IF Visible([new EXCEPT !.line = curline]) THEN UNCHANGED <<curbuf, dot, col, line, linebuf, DOLsave>>
                                                     ELSE DotTo(curbuf, new.top, 0)
  /\ UNCHANGED <<text, modified, top, curwind, PhysScreen, shown, UpdModLine>>

\* NextPage, PrevPage
Page(n) ==
  /\ Command
  /\ LET w == win[curwind]
         newline == IF n > 0 THEN next_line(w.top, w.b, Greater(1, WSIZE - 1))
                             ELSE prev_line(w.top, w.b, Greater(1, WSIZE - 1))
     IN /\ In(w.top, w.b)
        /\ n > 0 => ~Visible([w EXCEPT !.line = Last(text[w.b])])
        /\ win' = [win EXCEPT ![curwind] = [w EXCEPT !.top = newline, !.line = newline]]
        /\ DotTo(curbuf, newline, 0)
  /\ UNCHANGED <<text, modified, top, curwind, PhysScreen, shown, UpdModLine>>

\* SetWind of the other window
NextWindow ==
  /\ Command
  /\ LET new == 3 - curwind
         w == win[new]
         there == In(w.line, w.b)   \* inlist; else the line is that of the buffer's dot
     IN /\ DotTo(w.b, IF there THEN w.line ELSE dot[w.b], IF there THEN w.col ELSE col[w.b])
        /\ win' = [win EXCEPT ![curwind].line = curline, ![curwind].col = col[curbuf],
                              ![new].line = IF there THEN @ ELSE dot[w.b],
                              ![new].col = IF there THEN @ ELSE col[w.b]]
        /\ curwind' = new
  /\ UNCHANGED <<text, modified, top, PhysScreen, shown, UpdModLine>>

\* SetBuf and tiewind
SelectBuf(b) ==
  /\ Command /\ b # curbuf
  /\ DotTo(b, dot[b], col[b])
  /\ LET w == [win[curwind] EXCEPT !.b = b, !.line = dot[b], !.col = col[b]]
     IN win' = [win EXCEPT ![curwind] = [w EXCEPT !.top = CalcWind(w)]]
  /\ UpdModLine' = TRUE
  /\ UNCHANGED <<text, modified, top, curwind, PhysScreen, shown>>

\* The clock, or anything else that the mode line shows.
AlarmHandler ==
  /\ Command /\ UpdModLine' = TRUE
  /\ UNCHANGED <<buffers, win, curwind, PhysScreen, shown>>

\* Typeout and TOstop: lines are written over the first n rows.
Typeout(n) ==
  /\ Command
  /\ PhysScreen' = [r \in Rows |-> IF r <= n THEN [PhysScreen[r] EXCEPT !.id = NOWHERE_DADDR] ELSE PhysScreen[r]]
  /\ shown' = [r \in Rows |-> IF r <= n THEN Garbled ELSE shown[r]]
  /\ UNCHANGED <<buffers, win, curwind, UpdModLine>>

\* RedrawDisplay: dot's line into the middle, or all again.
RedrawDisplay ==
  /\ Command
  /\ LET w == [win[curwind] EXCEPT !.line = curline, !.col = col[curbuf]]
         reset == IF Visible(w) THEN [PhysScreen EXCEPT ![DotRow(w, curwind)].off = -1] ELSE PhysScreen
     IN IF CentWind(w) = w.top
          THEN /\ PhysScreen' = [r \in Rows |-> [reset[r] EXCEPT !.id = NULL_DADDR]]
               /\ shown' = [r \in Rows |-> Blank]
               /\ win' = [win EXCEPT ![curwind] = w]
          ELSE /\ PhysScreen' = reset /\ UNCHANGED shown
               /\ win' = [win EXCEPT ![curwind] = [w EXCEPT !.top = CentWind(w)]]
  /\ UNCHANGED <<buffers, curwind, UpdModLine>>
-----------------------------------------------------------------------------
\* Lines are numbered buffer by buffer; the spare ones come last.
FirstOf(b) == 1 + FoldFunction(+, 0, [c \in {x \in Buffers : x < b} |-> Begin[c]])
Given == FirstOf(Cardinality(Buffers) + 1) - 1

Init ==
  /\ left \in Limits
  /\ text = [b \in Buffers |-> [i \in 1 .. Begin[b] |-> FirstOf(b) + i - 1]]
  /\ line = [l \in 1 .. Given + 2 |-> [d |-> l, dirty |-> FALSE]]
  /\ top = [text |-> Given + 2]
  /\ curbuf = 1 /\ dot = [b \in Buffers |-> FirstOf(b)] /\ col = [b \in Buffers |-> 0]
  /\ linebuf = FirstOf(1) /\ DOLsave = FALSE
  /\ modified = [b \in Buffers |-> FALSE]
  /\ win \in {[n \in Wins |-> [b |-> f[n], top |-> FirstOf(f[n]), line |-> FirstOf(f[n]), col |-> 0,
                               topgone |-> FALSE, curgone |-> FALSE]] :
                f \in {g \in [Wins -> Buffers] : g[1] = 1}}
  /\ curwind = 1
  /\ PhysScreen = [r \in Rows |-> [id |-> NULL_DADDR, off |-> 0]]
  /\ DesiredScreen = [r \in Rows |-> NoLine]
  /\ shown = [r \in Rows |-> Blank]
  /\ UpdModLine = FALSE
  /\ job = Idle
  /\ lost = FALSE

Next ==
  \/ StartRedisplay \/ Row \/ Redrawn
  \/ \E back \in BOOLEAN : Edit(back)
  \/ \E m \in BOOLEAN : LineInsert(m) \/ DeleteLine(m)
  \/ \E b \in Buffers : \E i \in DOMAIN text[b], c \in Columns : Move(i, c)
  \/ \E n \in {-1, 1, 2} : Scroll(n)
  \/ \E n \in {-1, 1} : Page(n)
  \/ NextWindow \/ AlarmHandler \/ RedrawDisplay
  \/ \E b \in Buffers : SelectBuf(b)
  \/ \E n \in {1, Height} : Typeout(n)

Spec == Init /\ [][~lost /\ Next]_vars
-----------------------------------------------------------------------------
(* Properties                                                              *)

\* redisplay always finds the line of dot in its window: it is never "hopelessly
\* lost" (UpdWindow), however lines come and go under the windows (ChkWindows,
\* SetWind, tiewind).  Nor does UpdLine meet a mode line that is not flagged as
\* one, because DoIDline has moved it: it would be written as a line of text.
NotLost == ~lost

Expected(r) ==
  LET n == WindowOf(r)
      w == win[n]
      k == At(w.top, w.b) + r - FLine(n)
  IN IF r = ModeRow(n) THEN ModeText(w.b)
     ELSE IF k > Len(text[w.b]) THEN Blank
     ELSE [text |-> lcontents(text[w.b][k]), off |-> DesiredScreen[r].off]

\* Rows that show the current line while it is unsaved, when another row does, too.
Twice(r) == /\ DesiredScreen[r].id = UNSAVED_CURLINE_DADDR
            /\ \E q \in Rows \ {r} : DesiredScreen[q].id = UNSAVED_CURLINE_DADDR

\* When redisplay has come to its end, whatever rows were scrolled, left as they
\* were or left over from interrupted redisplays, each row shows what it should
\* -- unless the line that is being edited is in both windows (UpdLine, DoIDline),
\* or half a mode line was scrolled into a row that was taken to be blank.
ScreenRight ==
  job.at = "done" =>
    \A r \in Rows : \/ shown[r] = Expected(r)
                    \/ Twice(r)
                    \/ shown[r] = HalfModeLine /\ r # ModeRow(WindowOf(r))

\* And dot is within the columns that are shown of its line, not under the marks
\* of a shifted or truncated line (UpdWindow).
DotShown ==
  job.at = "done" =>
    LET w == win[curwind]
        r == DotRow(w, curwind)
        c == w.col + SIWIDTH(PhysScreen[r].off) - PhysScreen[r].off
    IN SIWIDTH(PhysScreen[r].off) <= c /\ c < CO - 1
=============================================================================
