# A TLA+ model of JOVE

JOVE (Jonathan's Own Version of Emacs) is an Emacs-like editor in C.  This
directory is a model of it, module by module: the tmp file behind every line of
text, the editing of lines and the memory they are in, the recovery file, the
buffers with the windows that show them, files and their backups, processes,
the screen, keys and macros, and the commands for searching and filling.  `PROJECT.json` lists the components,
the runs, the mutants, the hazards, the findings and, per definition, the
source lines it stands for.

## Inventory

| component (source) | state | operations | what makes it correct |
|---|---|---|---|
| tmp file (`io.c`, `temp.h`) | `b_cache`, LRU list, `DFree`, `next_bno` | `getblock`, `jputline`, `f_getputl`, `jgetline`, `SyncTmp` | a line put reads back as it was put; a synced line is in the file |
| kill ring (`delete.c`, `insert.c`) | `killbuf`, `killptr` | `AddKillRing`, `DelKillRing`, `reg_kill`, `DoYank`, `YankPop` | what was killed can be yanked, `YankPop` swaps the text it yanked |
| marks (`marks.c`) | `b_markring`, `b_themark`, `w_mark`-like local marks | `MakeMark`, `DelMark`, `DFixMarks`, `IFixMarks`, `SetMark`, `PopMark` | a mark always names a place in its buffer |
| line editing (`insert.c`, `delete.c`, `util.c`) | line list, `linebuf`, dot | `LineInsert`, `reg_delete`, `lsave`, `DoYank` | the list of lines is the text |
| line pool (`insert.c`) | `free_lines`, chunks | `nbufline`, `freeline`, `RecycleLines`, `GCchunks` | a line is in use or free, never both |
| buffers (`buf.c`) | `world`, `curbuf`, `lastbuf`, `perr_buf` | `do_select`, `kill_buf`, `buf_clear`, `SetBuf` | nothing refers to a freed buffer |
| windows (`wind.c`) | ring from `fwind`, `curwind`, heights | `div_wind`, `del_wind`, `WindSize`, `pop_wind`, `tiewind`, `SetWind` | the windows fill the screen, `curwind` shows `curbuf` |
| files (`io.c`, `fp.c`) | `b_mtime`, `b_ino`, `b_modified`, `b_diverged` | `read_file`, `SaveFile`, `file_write`, `file_backup`, `chk_divergence` | a save never silently replaces what somebody else wrote |
| recovery (`rec.c`, `recover.c`) | the rec file and the tmp file on disk | `SyncRec`, `recover` after a crash | what was synced can be recovered |
| interactive processes (`iproc.c`, `portsrv.c`) | `procs`, `p_state`, `p_child_state`, `p_eof` | `proc_strt`, `read_*_proc`, `reap_procs`, `kill_off`, `obituary`, `untieDeadProcess` | no output lost, no dead process left, none freed while used |
| synchronous processes, error list (`proc.c`) | error list, `perr_buf` | `ErrParse`, `ToError` | an error names a line of a live buffer |
| keyboard macros (`macros.c`) | `KeyMacro`, macro stack | `mac_getc`, `Remember`, `Forget` | a macro replays what was typed |
| command loop, signals (`jove.c`) | `ModCount`, `Asking`, jump targets | `getch`, `DoKeys`, `Recur`, `finish`, `AlarmHandler` | an error leaves the editor in a state to go on from |
| redisplay (`disp.c`, `screen.c`) | `nimage`, `DesiredScreen`, `PhysScreen` | `redisplay`, `UpdateMesg`, `UpdWindow`, `DoIDline` | the screen shows the windows |
| minibuffer (`ask.c`) | `AskBuffer`, `Asking`, the buffer to go back to | `get_minibuf`, `real_ask`, `ask`, `ask_buf` | what is typed goes to the minibuffer, and the command goes on with buffers there are |
| key maps (`keymaps.c`, `extend.c`) | `mainmap`, `b_map`, `procsmap`, named maps | `km_getkey`, `km_setkey`, `UnbindKey`, `dispatch` | a binding changes one sequence; no map is freed while used |
| search (`re.c`, `reapp.c`) | the compiled pattern, the last search | `do_comp`, `REmatch`, `dosearch`, `IncSearch`, `replace`, `look_up_tag` | it finds what the pattern means, first match first |
| text commands (`para.c`, `c.c`, `case.c`, `abbrev.c`, `move.c`) | the text, the point, marks | filling, motions, brackets, indentation, case, abbreviations | words are kept, a motion ends where the manual says, every command ends |
| directory stack (`io.c`), formatting (`fmt.c`), character tables (`jctype.c`), terminal layer (`unix.c`, `term.c`), mouse (`mouse.c`), other platforms | | | little state of their own; not modelled |

Components interact by direct calls and shared globals: there is one thread.
What is concurrent is outside it: the kernel running child processes, signal
handlers (`finish`, `AlarmHandler`, `sigchld_handler`), other programs changing
files, and `longjmp` out of the middle of an operation (`complain`, `error`).
What fails is I/O on the tmp file, on the recovery file and on user files, and
the whole editor, at any moment.

## Plan

| module | composes | abstract specification | state |
|---|---|---|---|
| `TmpFile` | | implements `LineStore` | checked, proved |
| `Text` | | implements `FlatText` | checked |
| `Recovery` | a `LineStore` | what `recover` gets is the last snapshot | checked, proved |
| `Windows` | | | checked, proved |
| `Iproc` | | output is a queue in order of writing | checked, safety proved |
| `FileSave` | | an (abstract) file system with other writers | checked, proved |
| `Redisplay` | | what the windows ought to show | checked |
| `Lines` | | a line is in one place | checked, proved |
| `Macros` | | a replay does what was recorded | checked |
| `Search`, `Paragraphs`, `Parens`, `Completion`, `Editing` | `Regexp`, `Points` | `Patterns`; texts as plain sequences | checked |
| `Keymaps` | | implements `Bindings` | checked |

The order followed what would cost a user most: text lost (`TmpFile`, `Text`,
`Recovery`), text put somewhere else than seen (`Windows`), output and files
(`Iproc`, `FileSave`), what is shown (`Redisplay`), and then the commands.
Worth proving next: the steps of `Text` against `FlatText`, then that `Keymaps`
loses no map.

## Modules

| module | models |
|---|---|
| `LineStore` | abstract: what the tmp file promises |
| `TmpFile`, `MCTmpFile`, `TmpFile_proofs` | the tmp file and its block cache |
| `FlatText` | abstract: what a user sees of a buffer being edited |
| `Text`, `MCText` | lists of lines, `linebuf`, the point, marks and the kill |
| `Recovery`, `MCRecovery`, `Recovery_proofs` | the recovery file, the signals and the recover program, over a `LineStore` |
| `Windows`, `MCWindows`, `Windows_proofs` | buffers, windows, questions, the size of the screen |
| `Iproc`, `MCIproc`, `Iproc_proofs` | interactive processes on ptys, `kbd_getch`'s wait, commands run by the shell |
| `FileSave`, `MCFileSave`, `FileSave_proofs`, `FileTruth_proofs` | visiting, reading, saving, backups, divergence |
| `Redisplay`, `MCRedisplay` | `DesiredScreen`, `PhysScreen`, the mode lines, preempted writing |
| `Lines`, `MCLines`, `Lines_proofs` | the lines as memory: free lists, chunks, kill ring, marks, error list |
| `Macros` | where keys come from, keyboard macros, joverc |
| `Bindings`; `Keymaps`, `MCKeymaps` | abstract: bindings of key sequences; the maps that hold them |
| `MCKeyboard` | `Macros` and `Keymaps` side by side, for one run of both |
| `Regexp`; `Patterns` | compiling and matching; what a pattern means |
| `Search`, `MCSearch` | searches, i-search, replacing, tags |
| `Points` | words, sentences, lines, white space, case on a text with a point and marks |
| `Paragraphs`, `Parens`, `Completion` | filling; brackets and C indentation; completing names |
| `Editing`, `MCEditing` | sequences of these commands as keys give them |
| `Loops` | lemmas: induction on the turns of a loop |

In all of them the routines of the program are functions on a record of the
variables they change (`getblock(s, a, w)`, `reg_delete`, `del_wind(s, w)`), so
that a command is their composition in the order of the code, and an action is
one whole command: there is one thread, and only what can come in between is
an action of its own.  Several modules take a constant of records (`Bounds`,
`Limits`, `Jobs`) of which `Init` chooses one: a behaviour keeps to the bounds
it has drawn, and one run covers several small instances.

### TmpFile

`getblock` and the routines under it are functions on a record of the cache
(`blk`, `lru`, `tmp`, `next`, `last`); the actions are the calls the editor
makes (`jputline`, `f_getputl`, `jgetline`, `SyncTmp`) and their failures.  A
chunk holds one piece of a line, so a line of `LineLen[l]` chunks may have to
move to the next block when some pieces of it are already placed, which is
where `jputline` starts over and `f_getputl` copies.  `saved` is a history
variable.  Error paths: `TooLarge` (address space used up), `SyncError` and
`PutError` (a write fails part way through the list of dirty blocks and inside
a block), `ReadError` (the code itself says "to continue editing would be
dangerous"; the model claims nothing but types after it).  Opening and removing
the file are not modelled.

### FlatText and Text

`Text` is a buffer as the program has it: lines with links, their text in the
tmp file (`l_dline` stands for the text the address leads to, which `LineStore`
justifies), the current line in `linebuf`, `DOLsave`, marks, the newest kill.
Actions are commands: insertion of characters and strings, newlines, deletion
of a character, kills in either direction with their joining to the last kill,
copies, yanks, setting and exchanging marks, moves, and an `Lsave` at any time.
`seen` holds the buffer as one sequence of characters, the point and the marks
as places in it and the kill, computed from the lines after each step; `FT!Spec`
says of it what a user would: `Insert`, `Delete`, `Kill`, `Yank` and so on,
without lines.  That the program's special cases (one line, two lines, the
first, the last, the empty one, marks in the middle) are all one rule is what
the refinement shows.

A line that would get too long makes a command fail; `Text` has only commands
that succeed.

### Recovery

The tmp file is a `LineStore`; the recovery file is a sequence of cells that is
overwritten in place, one cell a step (`WriteRec`), which over-approximates
where its buffer is flushed.  `Getch` starts a sync when `ModCount` has reached
`SyncFreq`, and `AwaitKey` is the wait for a key when it has not (`key`): commands
may modify buffers any number of times before `getch` is called again, as those
that insert a string, justify or replace do, and macros.  A failure of either file is `SyncTmpFails` or `WriteRecFails`, after
which `rec_err` keeps the code from ever writing it again.  `Signal` is
`finish`, at any moment outside itself; `SecondSignal` is another one while it
runs (`twice` remembers it).  A crash is not an action: the properties say
what `RecoverAll`, the recover program, makes of the files *in every state*.
`snap`, `edits` and `failed` are history variables.  The tmp file's own
write-backs are left out: a durable line stays durable (`DurableStays`), so they
can only help.  Signals may come between the modifications of
a command, but each is one step: what a signal inside `LineInsert` or `DoYank`
finds is not modelled.  The first
opening of the recovery file belongs to the first sync, and scratch buffers,
which are never synced, are left out.

### Windows

`world` is the list of buffers, `free_bufs` the deleted ones, which are made
anew, last first: `Struct` numbers the memory they are in, so that a pointer
kept too long can lead to another buffer.  `windows` is the ring from `fwind`.
A command that asks nothing is one step; one that asks is two, `Prompt` and the
action of its answer, and between them come the commands typed for the answer
(`dispatch` is `real_ask` selecting the minibuffer again after each), changes
of size (`Resize`), and `Abort`.  What a command keeps while it asks (the buffer
`KillSome` is at and the next one, `WindFind`'s current one) is in `asker`;
commands that keep nothing are told apart by their answer only (`"any"`).
`ShowNext`, `del_wind` and the rest follow `wind.c` line by line.  `hung` is not
in the program.  Left out: what is in the buffers, files reached
under two names, modes, `one-key-confirmation` (off by default; it answers
questions of `kill-some-buffers` without the minibuffer).

`SpecTame` is `Spec` without two kinds of steps, and only those: a deletion at
which `delb_wind` leaves the buffer in a window, and one at which it does not end.
Both are flaws of the program (see Observations) after which windows show a
buffer there is no more, or nothing happens.  The first is stated by its cause,
`Missed`: windows are deleted, the first one among them, and a window of the
buffer comes after one that shows another.  It is no wider than that: model
checking `Spec` up to such a step shows that each leaves a window with the
buffer.  Deletions of windows which `delb_wind` does right, of all of them, of the
first ones or of later ones only, and the case of a single window, are steps of
`SpecTame`.

### Iproc

Two sides: the system (`child`, who has the `slave` end of the pty open,
`status` for `wait`, the pty's queues) and JOVE, whose place in `kbd_getch`,
`reap_procs`, `kill_off`, `proc_write` or a command is `pc`.  Children and their
descendants write, close, stop and die between any two steps of JOVE.  SIGCHLD
sets `procs_to_reap` and ends a `select` that is under way; one that comes
between the look at the flag and the `select` ends nothing.  A buffer is a
sequence of items (a line of output, a typed character, a newline, an obituary),
a mark the number of items before it.  `UnixToBuf` is a command run by the shell
in between, whose `dowait` learns of the deaths of others.  `KillAndYank` is how
`m_big_delete` comes to be set.  Left out: prompts, wrapping of lines, dbx-mode,
and the variant with pipes and `portsrv`.

A start that finds no room for a window (`PopWindComplains`) fails after the fork
and after the buffer was given the process, but before the process is put into
the list: the child runs on, and is in no list, neither read nor noted.  `adrift`
has such processes, which are in no list and still held by their buffer;
`NoDangling`, `EventuallyShown` and `EventuallyBuried` say what is left of them.

### FileSave

One command at a time goes through the system calls of `read_file`,
`filemunge`, `chk_divergence`, `file_backup`, `open_file`, `putreg`, `f_close`
and `do_stat`, `job.at` being the next; other programs rewrite, replace and
remove files between any two of them, each call may fail, and the machine may
stop.  Contents are numbers, each text a new one; a truncated file holds `Part`.
A name is a stem and a number: a failed reading gives the buffer the name
`#name+~`, which is the same stem with the next number, and `MaxTmp` bounds how
often that may happen to one name (once, in the run).  The command loop is the
record `Idle`, in which nothing of the last command is left.

`seen`, `whole` and `saved` of a buffer, `gap` and `kept` are history: `gap`
says that the file may have been changed when the program cannot notice: in the
second of the recorded time, between the last look and the open, between close
and `stat`, or when it could not be opened at all.  `SavedIsSaved` speaks of every
buffer but the current one while a file is being read into it, which is neither
the old text nor the new.  Left out: asking for names,
read-only files, auto-execute macros, `F_APPEND` falling through to a
truncating open, durability of directories.

### Redisplay

`DesiredScreen` and `PhysScreen` row by row, the addresses `s_id` by which rows
are compared, insertion and deletion of lines to scroll (`UpdLine`,
`DoIDline`), lines shifted sideways (`s_offset`), mode lines, text typed over
the screen, and the character typed that stops the writing of a row.  Left out:
line numbers, marks on the screen, `ScrollAll`, insertion of characters within
a line, cursor motion, resizing (in `Windows`).

### Lines

The lines as memory: two buffers, the kill ring, `free_lines` with its tail of
lines that may still be referred to, chunks of `malloc`, marks and their ring,
the error list, a second window.  `nbufline` recycles and, when memory runs
out, collects chunks (`GCchunks`).  Text and columns are left out.

### Macros

The sources of a key in their order (`peekchar`, a running macro, `Inputp` in
joverc, the keyboard), push-back, the stack of running macros with counts, the
recording of keys and `note_dispatch`, arguments, the four loops that execute
keys and what `complain` does in each.  `MCKeyboard` has nine sessions, sets of
keys a user types in any order.  A key stands for the command it is bound to.
Left out: recursive edits, `C-n`, `C-p` and `C-r` in questions, peeking without
reading (`charp`, `SitFor`), the clock, digits of arguments and their overflow,
`if` lines, auto-execute macros.

### Bindings and Keymaps

Full and sparse maps (`km_getkey`, `km_setkey`, conversion at `SPARSE_LIMIT`),
reference counts, local, process and global maps, binding and unbinding of
sequences, `dispatch`.  `Bindings` says what a set of bindings is and what a
binding or the deletion of a prefix changes.  Left out: listing of bindings,
look-up of documentation, quoting with a backslash.

### Regexp, Patterns, Search

`Regexp` has `do_comp` and `REmatch`; `Patterns` says which texts a pattern
matches, by structure.  `Search` has `dosearch` in both directions with
wrapping, incremental search with its states, `re_dosub` and query replace, and
the binary and sequential look-up of a tag in a file read by blocks.  Left out:
`CaseIgnore`, groups beyond two, the recursive edit within query replace.

### Points, Paragraphs, Parens, Completion, Editing

Commands on a text of a few lines with a point and marks, against what the
manual promises: motions by word, sentence, paragraph, line; filling and
auto-fill with its margins; matching brackets past strings, characters and
comments; `c_indent`; transposing, case, white space, indentation,
abbreviations; completion of a name in the minibuffer.  `Editing` runs a job, a
text with a short list of commands, chosen from `Jobs`.  Left out:
`FillComment`, Lisp mode, listing of completions, other `ParaDelim`,
`SpaceSent2` off, other `CArgIndent`, `'` closing a sentence, command hooks of
abbreviations.
## Runs

| run | shows | bounds, and why they are enough |
|---|---|---|
| `tmp_file` | lines are never lost or mixed up, the cache is coherent, addresses do not wrap, synced lines stay readable from the file, `LineStore` is implemented | 2 entries, 3 chunks a block, 4 block numbers, lines of 1, 2 and 3 chunks: all three usable blocks are used, evicted and reread, and every way of not fitting occurs |
| `text` | editing lists of lines is editing one sequence; the lists stay linked and within `LBSIZE` | texts of 3 characters, kills of 2, two letters and a separator, lines of at most 2: up to four lines, places in the same, in neighbouring and in distant ones, and the limit of `linebuf` is met |
| `recovery` | what a crash leaves is the last snapshot, fewer than `SyncFreq` modifications old whenever a key is awaited; one signal loses nothing | two buffers of three lines together, 4 addresses, a sync due after 2 modifications, up to 3 of them before a key is wanted: one buffer grows, is left and is written again between two syncs, and recovery files get longer and shorter |
| `windows` | kept pointers lead to buffers there are, windows fill the screen, the current one keeps the current buffer | 3 buffers in 2 windows, so that `Main`, the minibuffer and one more are each deleted and made anew in each other's memory; 2 buffers in 3 windows on 6 or 5 lines: divisions, deletions of each of three and of the windows of a deleted buffer, scaling with and without a remainder; a recursive edit; names given by the user in all but the first |
| `iproc` | no process half dead, output in order and before what is typed, output shown and deaths noted in the end | one child writing two lines with descendants and stops; typing, sending, control characters, a mistaken deletion; a command of the shell in between; two children in one buffer after each other or in two, the second of which may find no room for a window. Ptys of one line and one item: full ones occur |
| `file_save` | nothing unseen is overwritten unasked, what counts as saved is on the disk, a backup outlives failure and crash | 2 names of one file, of two, or one missing; 2 buffers; up to 3 commands with one failure, or 2 with changes by others, the clock and a crash |
| `redisplay` | every row ends up right, dot is found and its column shown | two windows of 4 rows on 2 buffers, 3 commands with a new line of text and a preemption, or 2 and 2; lines of 8 and 9 columns on a screen of 8 |
| `lines` | a line is in one place, and none is used again while something refers to it | 2 buffers, 6 lines in chunks of 4, a kill ring of 3, a mark ring of 2; six mixtures of edits, kills, marks, clears, error lists and moves |
| `stale_lines` | counterexample, see Findings | as `lines` |
| `keyboard` | a macro does again what was done, and every macro ends; no map is lost or freed twice, a binding changes what it names, dispatch finds the shortest binding | either one of the nine sessions of `MCKeyboard`, or 3 characters, sparse maps of 2, sequences of 2 keys, 2 buffers, 2 bindings and then a dispatch; neither half reads what the other keeps |
| `process_first` | counterexample, see Findings | the maps of `keyboard` |
| `editing` | searches, replacements, tags, filling, brackets, indentation, completion do what the manual says, and end, but for three endless loops `CommandsEnd` names | every pattern of up to three parts on two texts; any five keys of an i-search or answers to a query; tag files of up to 6 lines, two of one name, in blocks of 12; texts of up to 5 lines at right margin 6, tab stops of 4; all sequences of the kinds of C tokens; any four keys of a completion |

`text` has a `VIEW`: two states with the same lists, `linebuf`, flags and `seen`
differ only in which lines of memory they use, which no command looks at
(`nbufline` takes any free one).  Its symmetry permutes the letters; the
properties name none.  The `VIEW` of `windows` is likewise all but the memory a
Buffer is in, with the order of the deleted ones, which decides where the next
is made, carried by the places of `world \o free_bufs`.  The constraint of
`recovery` cuts off what follows a failed write of the recovery file; the
failing step itself is still checked.  Deadlock is not checked where a run
ends: when the addresses are used up (`recovery`), the editor is `dead`, a
session or job is over, the bounds are spent, and in `tmp_file` after `danger`.

Several properties state exceptions, each of them a case where the program does
go wrong or is documented not to hold: `NoSilentLoss`, `Replays`, `ScreenRight`,
`NoStaleLine`, `NoDangling`, `EventuallyShown`, `EventuallyBuried`, `WordsKept`,
`TagFound`, `ParensMatch` and `CommandsEnd` name theirs
in the comment before them or in Observations.

### Fairness

- `iproc`: weak fairness of JOVE's own steps, of the commands for keys it has
  read, and of the clock of a young process: one thread that runs unless it
  waits.  None of the children, who may never write or die, and none of keys.
  `EventuallyShown` therefore assumes that JOVE does not remain stuck in a write
  to a pty nobody reads or in a command of the shell, `EventuallyBuried` that
  keys keep coming: a SIGCHLD between the look at the flag and the `select` is
  noticed only after the next key or output.
- `keyboard`: weak fairness of the loop that executes what is at hand (`Run`,
  `RcLine`, `RcCommand` of `Macros`), none of keys.
- `editing`: weak fairness of the work of a command, none of keys.

The other runs check safety properties, which hold whether or not the user ever
types another key.

## Findings

`stale_lines` ends in a counterexample: `buf_clear` frees the lines of a buffer
without `ChkWindows`, and a second window on it goes on referring to them while
they are used again, contrary to what `insert.c` says of `RecycleLines`.

`process_first` ends in a counterexample: where the current buffer and a process
both bind a key, `get_keymaps` (`keymaps.c:324`) puts the buffer's own map first,
and its binding is executed.  The manual (`cmds.nr:291`) says that a process
binding is preferred to a local one.

## Observations

Met while modelling or by model checking, and not kept as runs.  Where a
property would fail for one of them, it states the exception.

Text and kills
- `ins_str_wrap` that fails on a line too long has changed `linebuf` without
  setting `DOLsave`; `DoYank` that fails has stored the first half of the line
  it splits and forgets the rest.
- `reg_kill` that appends leaks the lines of the kill; `DoYank` running out of
  lines loses the tail; `mak_buf` running out leaves a buffer without lines.

Crash recovery
- The recovery file is rewritten in place, header first: after a crash in
  between neither the old nor the new text can be had from it.  A second signal,
  of another kind, removes what the first has just told the user was saved.
  `recover` offers the last buffer that was saved, as `SyncRec` leaves the file
  alone when nothing is modified.

Buffers and windows
- When `Main` is what `delb_wind` would show instead, it deletes windows, and
  deleting the first makes the next one the first, at which it stops if that
  shows another buffer: of the first and third of three windows the third is left
  with the deleted buffer, where `buf.c:292` says that windows are cleaned up.
  The loop does not end when the only buffer to show instead is the one it
  deletes.
- After `*minibuf*` has been deleted its memory may be another buffer's, which is
  then taken for the minibuffer and emptied; `Recur` takes a buffer made in its
  old one's memory for that one.
- A change of the screen's size that deletes the current window while an answer
  is typed sends the next key to that window's heir; `select-buffer-1` and
  `delete-current-window`, typed for an answer, part the current window from the
  current buffer until either is selected again.

Processes
- A start for which `pop_wind` finds no room fails after the fork
  (`iproc.c:1186`): the child lives, and its buffer names it, but it is in no
  list, so that it is never read, noted as dead or killed.
- A stopped child that is continued by others stays Stopped; `proc_write` loses
  what a write cuts short and hangs on a full pty; `kill_off` waits busily up to
  3 seconds for a silent child whose pty is closed.

Files
- `write-region` looks at the *last* buffer that has the file, where the comment
  at `io.c:1142` says the first; a file that exists but cannot be opened leaves
  an empty buffer that passes for it; saving again after a failed save destroys
  the good backup with a copy of the truncated file; a buffer marked scratch by
  a failed read stays scratch after a later one succeeds.

Redisplay
- Half a mode line that was scrolled stays on the screen (`disp.c:1411`); a line
  edited in both windows stays stale in the second until `lsave`.

Lines
- `AllMarkReset` after lines were freed may make one of them dirty, so that
  `ChkErrorLines` keeps a record of it.

Macros and keys
- `C-x (` typed while defining is recorded and complains on replay
  (`macros.c:326`); the keys of an argument to `C-x )` are left in the macro; a definition ended
  from a macro or after a push-back replays something else; a macro that ends in
  the middle of a key sequence in joverc makes `getch` return EOF, with which
  `km_getkey` looks before its table.
- An emptied prefix map still consumes a key.

Search
- A back reference to an empty group compares one character, and starred does
  not end (`re.c:639`); of several tag lines of one name the bisection may find one
  further on (`reapp.c:398`); a wrapped search never looks at dot's own line again; a forward
  search from the end of a line skips an empty match there; i-search misses
  overlapping occurrences and treats `^`, `$` and `\` as special; a last tag
  line longer than half `JBUFSIZ`, or without a newline, is not found.

Filling and case
- Two more endless loops: `case-region-*` when the mark is beyond its line's end
  after `transpose-lines` (`case.c:145`); `fill-paragraph` and `fill-region` with an
  argument when what they begin with is a single line that `n_indent` shortens
  (`para.c:477`).  `fill-region` that ends on a blank line deletes blank
  lines up to the next paragraph.

## Proofs

Every theorem holds for all constants that satisfy the module's assumption, with
any bounds of the model: any number of lines, buffers, processes or commands.
In each, TLC checked the inductive invariant on the module's run first.

### TmpFile_proofs

Every property of `TmpFile`, from `TmpAssumption` and `NoBlockAssumption`: any
size of cache, block, file and line, any order of calls and failures.

The inductive invariant is `IInv`: unless `danger`, `Good(State, saved, DFree)`,
which joins `CacheOK` (types, one entry per block, every entry once on the LRU
list, clean entries equal to the file, no used block lost, dirty blocks used)
with what relates the cache to `saved` and `DFree` (each line readable from its
block's image, all lines below `DFree`, the end of the file at the end of the
used blocks).  `ReadBack` alone is not inductive: that a line survives an
eviction follows only from the block being clean or written, and that from the
order of the list and the uniqueness of entries.

The argument has three layers.  The lemmas up to `MissOK` take one routine each
(`ToTail`, `SyncTmp`, the hit, the reassignment, the miss) and show that
`CacheOK` is kept and that no used block's image changes; `GetblockOK` sums
them up for `getblock`, whatever it finds.  Those from `GetEnd` to `PartSyncOK`
say what a put does at the end of the file, in the block or by moving on, and
what a failed write leaves.  Those named `...Step` are one per action.
`Inductive` joins them, and each property follows: `DurableStays` from the file
only ever changing to the cache's image of a block (`TmpGrows`),
`TmpImplementsStore` from each step putting one line or none.

### Iproc_proofs

From `IprocAssumption`: `NULL` is no buffer and no process, and a pty holds
something.  `Tables` is the invariant of the tables: what JOVE has noted of a
child (`cs`, `io`, `status` not yet waited for) against what has become of it,
who is in the list, and that buffer and process name each other.  `NoDangling` is
one of its conjuncts and not inductive alone: that a process forgotten by
`obituary` is nowhere else follows from its having been reported dead, so from
what `Reap` and `Drain` may find.

`Texts` is the invariant of the buffers: what is in the pty of a process continues
the numbers of what has been read (`InPty`), nothing is left in the pty of one
whose end has been read (`NoneLeft`), marks and points are in their texts
(`MarkInText`), and `Order`: the output of a process stands before its mark,
complete from 0 on and in the order of its numbers, and behind the message about
its death only output of its descendants.  `OutputInOrder` follows.  Its lemmas
say what inserting one item and a batch of output keep of an order.

### FileSave_proofs and FileTruth_proofs

From `FileAssumption`.  `Basic` has four parts: `Disk` (types; no inode is newer
than the clock; a backup shares its inode with no other name and with no open
file), `Bufs` (the records of buffers; the current one is in use), `Jobs` (the
types and the state of the command under way), `Own` (which name the current
buffer has at which step of reading or saving).  `Backup` says that what
`file_backup` has put aside is still in the backup until the file is whole
again; `BackupHoldsAlways` needs `Apart` of `Disk`, since a link between a backup
and the file would have the open that truncates destroy both.

`Truth` is the invariant behind the other two properties: as long as there was
no `gap`, each buffer's record tells the truth (`Records`: a file that looks as
recorded holds what was seen, and for an unmodified whole buffer what is in the
buffer), the step the command is at agrees with the disk (`Between`), and what
is about to be overwritten unasked has been seen (`Unasked`).  `SavedIsSaved` is
not inductive: a save that begins at "looks as recorded" goes through four system
calls before it is recorded again, and what holds at each of them is `Between`.
That a temporary name is never taken for the file itself is `CutFrom`, which
orders the names a buffer has had.  `FileTruth_proofs` has a lemma for each group
of actions; `RecordsKept` and `Quiet` say once what all actions need that leave
files or the command alone.  `NoSilentLoss` is an action property and follows
from `Unasked` at the step that opens the file.

### Recovery_proofs and Loops

From `RecoveryAssumption`: any number of buffers, of lines and of addresses in
the store.

The first half is about the file as such.  `SyncRec` writes it in two loops and
`recover` finds its way by adding up numbers of lines, so what has to be shown is
an induction over the buffers.  `Loops` makes it possible without operators as
parameters: `EachTurn` is induction stated with a set (the set of turns after
which something holds), `LoopExists` gives the values of a loop after each turn.
`Laid(m, t, n, es, ps, F)` says that the entries `es` and addresses `ps` are those
of the buffers of `m` up to `n` with texts `t`, the `i`-th of which begins at
`F[i]`; a turn of the loops takes it from `n - 1` to `n` (`LaidBehind`,
`LaidAlready`), so they establish it (`LoopsLay`), `seekto` arrives at `F[i]`
(`SeekFinds`), and `recover` gets the texts `t` (`ReadsAll`), whatever cells of a
longer old file follow.

The second half is the invariant `IInv` of the steps.  `Snapped` says that the
file is laid out for some texts whose lines are durable and that they are `snap`;
none of the three properties is inductive, because whether the addresses still
lead to those texts depends on the store only growing (`Basic`), and that a
completed write gives the texts of the moment depends on what held through all its
cells (`Syncing`: nothing unsaved in `linebuf`, every line durable, the cells
written so far those of the image, the image laid out for the buffers as they
are).  `Counted` says that unless a sync is due no buffer is further ahead than
`ModCount`, and `Awaited` that none is due when a key is awaited; `Counts`, `Fresh`
and `Farewell` relate that to `edits` and the signal handler.  Steps are proved by where they lead: back to editing (`GoesOn`),
into a sync (`StartsSync`), to the end (`Ends`), or one cell further
(`WriteRecIInv`).

### Windows_proofs

From `BoundsAssumption` and `WindowsAssumption`: any screen, any number of
buffers and windows, any names.  The theorems are about `SpecTame`: they leave
out the steps at which the program itself goes wrong (`Tame`, under
*Windows* above), and nothing else.

The inductive invariant `IInv` is `Good(State, ToSet(world), ILI)` and what a
command that asks remembers.  `Good(s, X, H)` has three parts.  `Books`: the
buffers that exist and those that were deleted are the first ones, each once, no
two that exist of one name.  `Pointers`: what leads to a buffer leads into `X`.
`Panes`: each window shows one of `X` and has at least two lines, and the heights
add up to `H`.  None of the three properties stands alone: that `mak_buf` makes a
buffer nothing leads to needs the memory of deleted ones to be disjoint from
`X`; that the buffer `do_select` gives `delb_wind` by name is not the one being
deleted needs names to be unique; that a window which is left keeps its buffer
needs `curbuf` to be a buffer there is.  `X` is a parameter because in the middle
of `kill_buf` pointers still lead to the buffer it has unlinked.

The lemmas about heights say what the sum is after a window was changed
(`HeightChanged`), removed, divided, and after all were scaled with the remainder
given to one (`HeightScaled`); they rest on sums of the first `k` windows
(`Partial`), which `Loops` provides.  Those named `Good...` take one routine each.
`GoodDelWind` and `GoodDivWind` are used by a dozen commands.  Two loops need an
induction of their own: `resize` deletes windows that get too small (`Weeds`),
and `delb_wind` goes round the ring while it deletes or reselects.  For the
latter `Lap` says that no window looked at so far shows the buffer, and, when
windows are deleted, that the first window does not or that its windows come
first (`InOrder`): then deleting the first window again and again finds all of
them.  It is there that the proof fails for windows that are `Missed`, and
`KillLeaves` is the one place that needs `Tame` for it.  `Works` and `Kills` are
what commands see of the routines, and the lemmas `...Step` are one per action.

### Lines_proofs

From `LinesAssumption`: any number of lines, buffers, kills and marks, chunks of
any size, commands in any order, and memory that may run out at every line.

The inductive invariant is `IInv`: `Sound(State, {})`, and that the kill which
the next kill adds to, or `YankPop` turns from, is there.  `Sound(s, X)` has four
parts: `s` is a record of the right types; `Whole`, the lines; `Refs`, the point
and the marks of each buffer are on its lines; `Looks`, what the second window
shows is a line of its buffer, or the window will look for its line (`gone`) or
was not told that its buffer was cleared.  `Whole` is about *places*: the two
lists of the pool, each buffer, each kill, and two that exist in the middle of a
routine only, the lines `reg_delete` hands back (`Kept`) and those `DoYank` is
copying (`Copied`); `X` are lines that are in no list for a moment.  No line is
in two places or twice in one (`Apart`), places, `X` and leaked lines are together
the lines of the chunks, and `l_dline` tells the pool from the rest (`Addressed`).

Neither property is inductive.  `OnePlace` says nothing of lines in hand, and a
command goes through several routines each of which may run out of lines in
between; and `GCchunks` gives chunks back by looking at addresses only, so that
no line in use is lost by it needs `Addressed` for the places in hand as well.
`NoStaleLine` needs `Looks`: a line recycled is free, hence in no buffer
(`Apart`), hence not what the window shows.

`Moves` and the lemmas after it say what becomes of `Whole` when lists trade
lines: into the pool, out of it, between a place and `X`.  The lemmas up to
`GoodLineInsert` and `GoodCopy` take the routines of the pool and the loops that
take lines from it, with `Loops` for the induction; those named `Good...` take
one routine each: `AddKillRing` and `DelKillRing` permute the kills (`Permutes`),
`RotatedIs` shows that `YankPop` finds a kill.  `BecomesInv` says that what a
command leaves is the next state, the lemmas `...Step` are one per command, and
`LinesStep` joins them.

### Only model-checked

`Linked` of `Text` and its refinement of `FlatText`: `LineList` follows the links
of the lines, and each routine of `insert.c` and `delete.c` would have to be
shown to relink what its flat counterpart joins.  These proofs have not been
written.

The modules that declare recursive operators or use one (`Keymaps`, `Macros`,
`Redisplay`, `Regexp`, `Patterns`, `Search`, `Points`, `Paragraphs`, `Parens`,
`Editing`): their properties compare a routine with a definition of
what it should compute, which is induction over data throughout.

Liveness (`EventuallyShown`, `EventuallyBuried`, the endings of `keyboard` and
`editing`), which is out of the provers' reach.

## Not modelled

The directory stack, the formatting of messages, the terminal and operating
system layer, the mouse, and the other platforms' front ends: sequential
computations of an output, plain input and output, or code that is not part of
the Unix program.  Of the modelled components, what the sections above call left
out.  `PROJECT.json` lists each component with its sources and state.
