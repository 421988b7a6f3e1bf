------------------------------- MODULE Iproc --------------------------------
(***************************************************************************)
(* Interactive processes on ptys (iproc.c), with the loop of kbd_getch     *)
(* that awaits keys and output (jove.c) and the wait for a command run by  *)
(* the shell in between (proc.c).                                          *)
(*                                                                         *)
(* A child, its descendants, the ptys and the signals go their own way     *)
(* between any two steps of JOVE, which reads output, learns of deaths and *)
(* obeys keys, one thing after the other.  SIGCHLD only sets a flag, and   *)
(* ends a select that is under way.  A buffer is a sequence of items: a    *)
(* line of output, a character typed, a newline typed, the message about a *)
(* death; a mark or a point is the number of items before it.  The child   *)
(* has its pty from its start (openpty).  Prompts, the wrapping of lines   *)
(* and dbx-mode are left out.                                              *)
(***************************************************************************)
EXTENDS Integers, Sequences, SequencesExt, FiniteSets

CONSTANTS
  Proc,        \* bound of the model: the children there may be
  Buf,         \* the buffers for them
  NULL,
  OutCap,      \* lines of output that a pty holds
  InCap,       \* items of input that it holds
  Limits       \* bounds of the model, one of which holds throughout a behaviour: the
               \* children and the buffers, how many lines are written, items typed
               \* and deletions undone, and what else happens

ASSUME IprocAssumption ==
  /\ NULL \notin Buf \cup Proc /\ OutCap \in Nat \ {0} /\ InCap \in Nat \ {0}
  /\ Limits \subseteq [procs : SUBSET Proc, bufs : SUBSET Buf, out : Nat, typed : Nat, kills : Nat,
                       happens : SUBSET {"others", "stop", "sync", "control", "nowindow"}]

VARIABLES
  \* the system
  child,         \* of a process: unborn, live, stopped, or exited
  slave,         \* who has the other end of the pty open: child, others
  status,        \* what wait has to report of the child: none, stopped or dead
  outq, inq,     \* what is in the pty, to be read, and how much input for the child
  written,       \* how many lines have been written to it
  sync,          \* the child that is no interactive process: none, running, closed
                 \* when nobody has its pipe any more, exited
  \* JOVE
  procs,         \* the processes in the list
  io, cs,        \* p_io_state, for MAX_BUSY_WAIT after its start young, and p_child_state
  p_buffer, b_process,
  adrift,        \* not in the program: the processes whose start pop_wind has ended
  p_mark, big,   \* p_mark, and its m_big_delete
  exists,        \* the buffers there are
  text, dot,     \* of a buffer
  procs_to_reap,
  pc,            \* where JOVE is
  at,            \* the process that kill_off drains, or proc_write writes to
  ret,           \* and where JOVE goes from there
  ready,         \* the ptys that select has named, and are still to be read
  key,           \* whether it has read a key
  towrite,       \* lines that do_rtp has still to write
  typed, kills,  \* how many items have been typed, and deletions made
  limit          \* the bound in force

kernel == <<child, slave, status, outq, inq, written, sync>>
tied   == <<procs, p_buffer, b_process, adrift, exists>>
bufs   == <<p_mark, big, text, dot>>
ctl    == <<pc, at, ret, ready, key, towrite>>
ghosts == <<typed, kills, limit>>
vars   == <<kernel, tied, bufs, ctl, ghosts, io, cs, procs_to_reap>>

Out(p, i, w) == <<"out", p, i, w>>
Typed     == <<"in">>
Newline(n) == <<"nl", n>>
Obit(p)   == <<"obit", p>>
Echo(p)   == <<"echo", p>>

EndsLine(x) == x[1] \in {"out", "nl", "obit"}

child_dead(p) == cs[p] = "dead"
io_eofed(p)   == io[p] = "eofed"
dead(p)       == p # NULL => io_eofed(p) /\ child_dead(p)
(* A process that is adrift has no mark and no p_io_state: a command that  *)
(* uses them is not followed.                                              *)
started(p)    == p \notin adrift

-----------------------------------------------------------------------------
(* The text of a buffer.                                                   *)

Insertion(t, d, new) == SubSeq(t, 1, d) \o new \o SubSeq(t, d + 1, Len(t))

(* A mark at the place of an insertion stays before it.                    *)
IFixMarks(m, d, n) == IF m > d THEN m + n ELSE m

(* One in what is deleted, the end included, goes to its beginning.        *)
DFixMarks(m, i, j) == IF m > j THEN m - (j - i) ELSE IF m > i THEN i ELSE m

lastp(t, d) == \A k \in d + 1..Len(t) : ~EndsLine(t[k])

Bol(t, d) == CHOOSE k \in 0..d :
               /\ k = 0 \/ EndsLine(t[k])
               /\ \A j \in k + 1..d : ~EndsLine(t[j])

Eol(t, d) == CHOOSE k \in d..Len(t) :
               /\ k = Len(t) \/ EndsLine(t[k + 1])
               /\ \A j \in d + 1..k : ~EndsLine(t[j])

proc_recSlip(p, new) ==
  LET b == p_buffer[p]  m == p_mark[p]
  IN  /\ text' = [text EXCEPT ![b] = Insertion(@, m, new)]
      /\ dot' = [dot EXCEPT ![b] = IF @ = m THEN m + Len(new) ELSE IFixMarks(@, m, Len(new))]
      /\ UNCHANGED <<p_mark, big>>

(* proc_rec: output goes to the mark, which moves over it; the point stays *)
(* where it was, or moves along when it was there.                         *)
proc_rec(p, new) ==
  LET b == p_buffer[p]  m == p_mark[p]
  IN  /\ text' = [text EXCEPT ![b] = Insertion(@, m, new)]
      /\ p_mark' = [p_mark EXCEPT ![p] = m + Len(new)]
      /\ dot' = [dot EXCEPT ![b] = IF @ = m THEN m + Len(new) ELSE IFixMarks(@, m, Len(new))]
      /\ UNCHANGED <<big>>

proc_close(p) == io' = [io EXCEPT ![p] = "eofed"]

-----------------------------------------------------------------------------
(* The children.  A signal ends a select that is under way.                *)

SIGCHLD ==
  /\ procs_to_reap' = TRUE
  /\ pc' = IF pc = "select" THEN "reap" ELSE pc
  /\ UNCHANGED <<at, ret, ready, key, towrite>>

Write(p, w) ==
  /\ w \in slave[p] /\ ~io_eofed(p) /\ (w = "child" => child[p] = "live")
  /\ written[p] < limit.out /\ Len(outq[p]) < OutCap
  /\ outq' = [outq EXCEPT ![p] = Append(@, Out(p, written[p], w))]
  /\ written' = [written EXCEPT ![p] = @ + 1]
  /\ UNCHANGED <<child, slave, status, inq, sync, tied, bufs, ctl, ghosts, io, cs, procs_to_reap>>

Read(p) ==
  /\ child[p] = "live" /\ inq[p] > 0
  /\ inq' = [inq EXCEPT ![p] = 0]
  /\ UNCHANGED <<child, slave, status, outq, written, sync, tied, bufs, ctl, ghosts, io, cs, procs_to_reap>>

Forks(p) ==
  /\ child[p] = "live" /\ "others" \in limit.happens
  /\ slave' = [slave EXCEPT ![p] = @ \cup {"others"}]
  /\ UNCHANGED <<child, status, outq, inq, written, sync, tied, bufs, ctl, ghosts, io, cs, procs_to_reap>>

OthersClose(p) ==
  /\ "others" \in slave[p] /\ slave' = [slave EXCEPT ![p] = @ \ {"others"}]
  /\ UNCHANGED <<child, status, outq, inq, written, sync, tied, bufs, ctl, ghosts, io, cs, procs_to_reap>>

(* The shell of the manual may also close its output before it exits.      *)
ChildCloses(p) ==
  /\ child[p] = "live" /\ "child" \in slave[p]
  /\ slave' = [slave EXCEPT ![p] = @ \ {"child"}]
  /\ UNCHANGED <<child, status, outq, inq, written, sync, tied, bufs, ctl, ghosts, io, cs, procs_to_reap>>

Dies(p) ==
  /\ child' = [child EXCEPT ![p] = "exited"]
  /\ slave' = [slave EXCEPT ![p] = @ \ {"child"}]
  /\ status' = [status EXCEPT ![p] = "dead"]

Exit(p) ==
  /\ child[p] \in {"live", "stopped"}
  /\ Dies(p) /\ SIGCHLD
  /\ UNCHANGED <<outq, inq, written, sync, tied, bufs, ghosts, io, cs>>

Stop(p) ==
  /\ child[p] = "live" /\ "stop" \in limit.happens
  /\ child' = [child EXCEPT ![p] = "stopped"]
  /\ status' = [status EXCEPT ![p] = "stopped"]
  /\ SIGCHLD
  /\ UNCHANGED <<slave, outq, inq, written, sync, tied, bufs, ghosts, io, cs>>

SyncCloses ==
  /\ sync = "running" /\ sync' = "closed"
  /\ UNCHANGED <<child, slave, status, outq, inq, written, tied, bufs, ctl, ghosts, io, cs,
                 procs_to_reap>>

SyncExit ==
  /\ sync \in {"running", "closed"} /\ sync' = "exited"
  /\ SIGCHLD
  /\ UNCHANGED <<child, slave, status, outq, inq, written, tied, bufs, ghosts, io, cs>>

Clock(p) ==
  /\ p \in procs /\ io[p] = "young"
  /\ io' = [io EXCEPT ![p] = "new"]
  /\ UNCHANGED <<kernel, tied, bufs, ctl, ghosts, cs, procs_to_reap>>

-----------------------------------------------------------------------------
(* Awaiting a key: kbd_getch, reap_procs, kill_off.                        *)

Goto(l) == pc' = l /\ UNCHANGED <<at, ret, ready, key, towrite>>

Loop == IF procs_to_reap THEN "reap" ELSE "enter"

(* The flag is looked at with the end of the step before.  A signal from   *)
(* then to the beginning of the select ends nothing.                       *)
EnterSelect ==
  /\ pc = "enter" /\ Goto("select")
  /\ UNCHANGED <<kernel, tied, bufs, ghosts, io, cs, procs_to_reap>>

readableSlip(p) == p \in procs /\ io[p] = "running" /\ (outq[p] # <<>> \/ slave[p] = {})

readable(p) == p \in procs /\ ~io_eofed(p) /\ (outq[p] # <<>> \/ slave[p] = {})

SelectReturns(k) ==
  /\ pc = "select"
  /\ k \/ \E p \in Proc : readable(p)
  /\ ready' = {p \in Proc : readable(p)}
  /\ IF ready' = {} THEN pc' = "command" /\ UNCHANGED key ELSE pc' = "ready" /\ key' = k
  /\ UNCHANGED <<kernel, tied, bufs, ghosts, io, cs, procs_to_reap, at, ret, towrite>>

(* read_pty_proc: all there is; no more to come is the end, but for a      *)
(* young process that has not written yet.                                 *)
read_pty_proc(p) ==
  IF outq[p] # <<>>
  THEN /\ proc_rec(p, outq[p])
       /\ outq' = [outq EXCEPT ![p] = <<>>]
       /\ io' = [io EXCEPT ![p] = "running"]
  ELSE /\ UNCHANGED <<bufs, outq>>
       /\ IF io[p] = "young" THEN io' = io ELSE proc_close(p)

ReadReady ==
  \E p \in ready :
    /\ pc = "ready"
    /\ read_pty_proc(p)
    /\ ready' = ready \ {p}
    /\ IF ready' # {} THEN UNCHANGED <<pc, key>>
       ELSE pc' = (IF key THEN "command" ELSE Loop) /\ key' = FALSE
    /\ UNCHANGED <<child, slave, status, inq, written, sync, tied, ghosts, cs, procs_to_reap,
                   at, ret, towrite>>

(* kill_off, for what wait has to say of p.                                *)
kill_off(p, from) ==
  IF status[p] = "stopped"
  THEN cs' = [cs EXCEPT ![p] = "stopped"] /\ UNCHANGED ctl
  ELSE /\ pc' = "drain" /\ at' = p /\ ret' = from
       /\ UNCHANGED <<cs, ready, key, towrite>>

Reap ==
  \E p \in Proc :
    /\ pc = "reap" /\ status[p] # "none"
    /\ status' = [status EXCEPT ![p] = "none"]
    /\ IF p \in procs THEN kill_off(p, "reap") ELSE UNCHANGED <<ctl, cs>>
    /\ UNCHANGED <<child, slave, outq, inq, written, sync, tied, bufs, ghosts, io,
                   procs_to_reap>>

(* Nothing to report: once more, if the flag was set, for what may have    *)
(* come since.                                                             *)
ReapNone ==
  /\ pc = "reap" /\ \A p \in Proc : status[p] = "none"
  /\ Goto("reaped")
  /\ UNCHANGED <<kernel, tied, bufs, ghosts, io, cs, procs_to_reap>>

ReapOverSlip ==
  /\ pc = "reaped"
  /\ procs_to_reap' = FALSE
  /\ Goto("enter")
  /\ UNCHANGED <<kernel, tied, bufs, ghosts, io, cs>>

ReapOver ==
  /\ pc = "reaped"
  /\ procs_to_reap' = FALSE
  /\ Goto(Loop)
  /\ UNCHANGED <<kernel, tied, bufs, ghosts, io, cs>>

Drain ==
  /\ pc = "drain" /\ readable(at)
  /\ read_pty_proc(at)
  /\ UNCHANGED <<child, slave, status, inq, written, sync, tied, ctl, ghosts, cs, procs_to_reap>>

(* The message goes to the end of the buffer; the point stays before it.   *)
obituary ==
  /\ pc = "drain" /\ ~readable(at)
  /\ cs' = [cs EXCEPT ![at] = "dead"]
  /\ text' = [text EXCEPT ![p_buffer[at]] = Append(@, Obit(at))]
  /\ pc' = ret /\ at' = NULL /\ ret' = "reap" /\ UNCHANGED <<ready, key, towrite>>
  /\ UNCHANGED <<kernel, tied, p_mark, big, dot, ghosts, io, procs_to_reap>>

-----------------------------------------------------------------------------
(* The commands.                                                           *)

Done == Goto(Loop)

Command(b) == pc = "command" /\ exists[b]

Nothing ==
  /\ pc = "command" /\ Done
  /\ UNCHANGED <<kernel, tied, bufs, ghosts, io, cs, procs_to_reap>>

MoveTo(b, d) ==
  /\ Command(b) /\ dot[b] # d
  /\ dot' = [dot EXCEPT ![b] = d]
  /\ Done
  /\ UNCHANGED <<kernel, tied, p_mark, big, text, ghosts, io, cs, procs_to_reap>>

(* Marks of the processes of a buffer after an insertion in it.            *)
Inserted(b, new) ==
  /\ text' = [text EXCEPT ![b] = Insertion(@, dot[b], new)]
  /\ p_mark' = [p \in Proc |-> IF p_buffer[p] = b THEN IFixMarks(p_mark[p], dot[b], Len(new))
                               ELSE p_mark[p]]
  /\ dot' = [dot EXCEPT ![b] = @ + Len(new)]

Type(b) ==
  /\ Command(b) /\ typed < limit.typed
  /\ Inserted(b, <<Typed>>)
  /\ typed' = typed + 1
  /\ Done
  /\ UNCHANGED <<kernel, tied, big, kills, limit, io, cs, procs_to_reap>>

(* Lines are deleted and yanked back, two commands with nothing between:   *)
(* IFixMarks has left a mark that was in them at their beginning.          *)
KillAndYank(b, i, j) ==
  /\ Command(b) /\ kills < limit.kills
  /\ i < j /\ \E k \in i + 1..j : EndsLine(text[b][k])
  /\ big' = [p \in Proc |-> big[p] \/ (p_buffer[p] = b /\ p_mark[p] \in i + 1..j)]
  /\ p_mark' = [p \in Proc |-> IF p_buffer[p] = b
                               THEN IFixMarks(DFixMarks(p_mark[p], i, j), i, j - i)
                               ELSE p_mark[p]]
  /\ dot' = [dot EXCEPT ![b] = j]
  /\ kills' = kills + 1
  /\ Done
  /\ UNCHANGED <<kernel, tied, text, typed, limit, io, cs, procs_to_reap>>

(* SendData, when the mark has been in a big deletion: the last line.      *)
MarkOf(p, b) == IF big[p] THEN Bol(text[b], Len(text[b])) ELSE p_mark[p]

(* do_rtp writes the text from the mark to the end by lines, of these sizes. *)
Lines(t) ==
  LET ends == SetToSortSeq({k \in DOMAIN t : EndsLine(t[k]) \/ k = Len(t)}, <)
  IN  [n \in DOMAIN ends |-> ends[n] - (IF n = 1 THEN 0 ELSE ends[n - 1])]

do_rtp(p, t) ==
  /\ towrite' = Lines(t)
  /\ IF t = <<>> THEN pc' = Loop /\ UNCHANGED at ELSE pc' = "write" /\ at' = p
  /\ UNCHANGED ret

Send(b, p, nl) == do_rtp(p, SubSeq(text[b], MarkOf(p, b) + 1, Len(text[b])) \o nl)

SendData(b, nl) ==
  LET p == b_process[b]
  IN  /\ Command(b) /\ started(p) /\ ~dead(p) /\ lastp(text[b], dot[b])
      /\ typed + Len(nl) <= limit.typed
      /\ Send(b, p, nl)
      /\ text' = [text EXCEPT ![b] = @ \o nl]
      /\ p_mark' = [p_mark EXCEPT ![p] = Len(text[b]) + Len(nl)]
      /\ dot' = [dot EXCEPT ![b] = Len(text[b]) + Len(nl)]
      /\ big' = [big EXCEPT ![p] = FALSE]
      /\ typed' = typed + Len(nl)
      /\ UNCHANGED <<kernel, tied, kills, limit, ready, key, io, cs, procs_to_reap>>

(* In a line before the last SendData copies it to the end.                *)
CopyLine(b) ==
  LET p == b_process[b]  t == text[b]  d == dot[b]
      line == SubSeq(t, Bol(t, d) + 1, Eol(t, d))
  IN  /\ Command(b) /\ started(p) /\ ~dead(p) /\ ~lastp(t, d)
      /\ typed + Len(line) <= limit.typed
      /\ text' = [text EXCEPT ![b] = @ \o [k \in DOMAIN line |-> Typed]]
      /\ typed' = typed + Len(line)
      /\ p_mark' = [p_mark EXCEPT ![p] = MarkOf(p, b)]
      /\ big' = [big EXCEPT ![p] = FALSE]
      /\ dot' = [dot EXCEPT ![b] = Len(t) + Len(line)]
      /\ Done
      /\ UNCHANGED <<kernel, tied, kills, limit, io, cs, procs_to_reap>>

(* proc_write: what does not fit is lost, unless nothing fits.             *)
Least(m, n) == IF m < n THEN m ELSE n

proc_write ==
  /\ pc = "write"
  /\ inq[at] < InCap
  /\ inq' = [inq EXCEPT ![at] = Least(@ + Head(towrite), InCap)]
  /\ towrite' = Tail(towrite)
  /\ IF Tail(towrite) = <<>> THEN pc' = Loop /\ at' = NULL ELSE UNCHANGED <<pc, at>>
  /\ UNCHANGED <<child, slave, status, outq, written, sync, tied, bufs, ghosts, io, cs,
                 procs_to_reap, ret, ready, key>>

(* send_xc: the character is shown as if it were output, and written.      *)
Control(b) ==
  LET p == b_process[b]
  IN  /\ Command(b) /\ p # NULL /\ started(p) /\ ~io_eofed(p) /\ typed < limit.typed /\ "control" \in limit.happens
      /\ text' = [text EXCEPT ![b] = Insertion(@, p_mark[p], <<Echo(p)>>)]
      /\ p_mark' = [p_mark EXCEPT ![p] = @ + 1]
      /\ dot' = [dot EXCEPT ![b] = Len(text[b]) + 1]
      /\ typed' = typed + 1
      /\ inq' = [inq EXCEPT ![p] = Least(@ + 1, InCap)]
      /\ Done
      /\ UNCHANGED <<child, slave, status, outq, written, sync, tied, big, kills, limit,
                     io, cs, procs_to_reap>>

-----------------------------------------------------------------------------
(* The beginning and the end of the processes.                             *)

(* untieDeadProcess, which complains of a live one.                        *)
UntiedSlip(b) ==
  LET p == b_process[b]
  IN  /\ started(p) /\ (p # NULL => child_dead(p))
      /\ b_process' = [b_process EXCEPT ![b] = NULL]
      /\ p_buffer' = IF p = NULL THEN p_buffer ELSE [p_buffer EXCEPT ![p] = NULL]

Untied(b) ==
  LET p == b_process[b]
  IN  /\ started(p) /\ dead(p)
      /\ b_process' = [b_process EXCEPT ![b] = NULL]
      /\ p_buffer' = IF p = NULL THEN p_buffer ELSE [p_buffer EXCEPT ![p] = NULL]

(* The child opens the pty thrice and closes all other files.              *)
ChildsPty(p) == slave' = [slave EXCEPT ![p] = {"child"}]

Forked(p) ==
  /\ child[p] = "unborn" /\ p \in limit.procs
  /\ child' = [child EXCEPT ![p] = "live"]
  /\ ChildsPty(p)
  /\ UNCHANGED <<status, outq, inq, written, sync>>

Tied(p, b) ==
  /\ b \in limit.bufs /\ started(b_process[b]) /\ dead(b_process[b])
  /\ b_process' = [b_process EXCEPT ![b] = p]
  /\ p_buffer' = [q \in Proc |-> IF q = p THEN b
                                 ELSE IF q = b_process[b] THEN NULL ELSE p_buffer[q]]
  /\ exists' = [exists EXCEPT ![b] = TRUE]

bolp(t) == t = <<>> \/ EndsLine(Last(t))

proc_strt(p, b) ==
  /\ pc = "command"
  /\ Forked(p) /\ Tied(p, b)
  /\ procs' = procs \cup {p}
  /\ text' = [text EXCEPT ![b] = IF bolp(@) THEN @ ELSE Append(@, Newline("start"))]
  /\ p_mark' = [p_mark EXCEPT ![p] = Len(text'[b])]
  /\ dot' = [dot EXCEPT ![b] = Len(text'[b])]
  /\ io' = [io EXCEPT ![p] = "young"]
  /\ cs' = [cs EXCEPT ![p] = "live"]
  /\ Done
  /\ UNCHANGED <<adrift, big, ghosts, procs_to_reap>>

(* pop_wind finds no room for a window, and complains: the child lives, its *)
(* buffer names the process, and nothing else is done.  It has no mark.    *)
(* p_child_state may be anything: if it is that of a dead one, proc_kill   *)
(* does Nothing.                                                           *)
PopWindComplains(p, b) ==
  /\ pc = "command" /\ "nowindow" \in limit.happens
  /\ Forked(p) /\ Tied(p, b)
  /\ adrift' = adrift \cup {p}
  /\ p_mark' = [p_mark EXCEPT ![p] = 0]
  /\ Done
  /\ UNCHANGED <<procs, big, text, dot, ghosts, io, cs, procs_to_reap>>

kill_buf(b) ==
  /\ Command(b) /\ Untied(b)
  /\ exists' = [exists EXCEPT ![b] = FALSE]
  /\ text' = [text EXCEPT ![b] = <<>>] /\ dot' = [dot EXCEPT ![b] = 0]
  /\ Done
  /\ UNCHANGED <<kernel, procs, adrift, p_mark, big, ghosts, io, cs, procs_to_reap>>

(* ProcList frees the processes that are dead.                             *)
ProcList ==
  LET freed == {p \in procs : dead(p)}
  IN  /\ pc = "command" /\ freed # {}
      /\ procs' = procs \ freed
      /\ p_buffer' = [p \in Proc |-> IF p \in freed THEN NULL ELSE p_buffer[p]]
      /\ b_process' = [b \in Buf |-> IF b_process[b] \in freed THEN NULL ELSE b_process[b]]
      /\ Done
      /\ UNCHANGED <<kernel, adrift, exists, bufs, ghosts, io, cs, procs_to_reap>>

Signalled(b) == Command(b) /\ b_process[b] # NULL /\ ~child_dead(b_process[b])

ProcKill(b) ==
  /\ Signalled(b) /\ child[b_process[b]] \in {"live", "stopped"}
  /\ Dies(b_process[b])
  /\ procs_to_reap' = TRUE /\ Goto("reap")
  /\ UNCHANGED <<outq, inq, written, sync, tied, bufs, ghosts, io, cs>>

ProcCont(b) ==
  LET p == b_process[b]
  IN  /\ Signalled(b) /\ child[p] = "stopped"
      /\ child' = [child EXCEPT ![p] = "live"]
      /\ status' = [status EXCEPT ![p] = "none"]
      /\ cs' = IF cs[p] = "stopped" THEN [cs EXCEPT ![p] = "live"] ELSE cs
      /\ procs_to_reap' = TRUE /\ Goto("reap")
      /\ UNCHANGED <<slave, outq, inq, written, sync, tied, bufs, ghosts, io>>

(* KillProcs, before JOVE exits.                                           *)
Running == {p \in procs : ~dead(p)}

KillProcs ==
  /\ pc = "command"
  /\ child' = [p \in Proc |-> IF p \in Running /\ child[p] \in {"live", "stopped"}
                              THEN "exited" ELSE child[p]]
  /\ slave' = [p \in Proc |-> IF p \in Running THEN slave[p] \ {"child"} ELSE slave[p]]
  /\ io' = [p \in Proc |-> IF p \in Running THEN "eofed" ELSE io[p]]
  /\ Goto("exit")
  /\ UNCHANGED <<status, outq, inq, written, sync, tied, bufs, ghosts, cs, procs_to_reap>>

-----------------------------------------------------------------------------
(* A command for the shell (UnixToBuf): its output is read to the end, and *)
(* then its death is awaited, other children's are noted meanwhile.        *)

UnixToBuf ==
  /\ pc = "command" /\ sync = "none" /\ "sync" \in limit.happens
  /\ sync' = "running" /\ Goto("pipe")
  /\ UNCHANGED <<child, slave, status, outq, inq, written, tied, bufs, ghosts, io, cs, procs_to_reap>>

ReadPipe ==
  /\ pc = "pipe" /\ sync \in {"closed", "exited"} /\ Goto("wait")
  /\ UNCHANGED <<kernel, tied, bufs, ghosts, io, cs, procs_to_reap>>

dowait ==
  /\ pc = "wait" /\ sync = "exited"
  /\ sync' = "none" /\ Done
  /\ UNCHANGED <<child, slave, status, outq, inq, written, tied, bufs, ghosts, io, cs, procs_to_reap>>

dowaitOther ==
  \E p \in Proc :
    /\ pc = "wait" /\ status[p] = "dead"
    /\ status' = [status EXCEPT ![p] = "none"]
    /\ IF p \in procs THEN kill_off(p, "wait") ELSE UNCHANGED <<ctl, cs>>
    /\ UNCHANGED <<child, slave, outq, inq, written, sync, tied, bufs, ghosts, io,
                   procs_to_reap>>

-----------------------------------------------------------------------------
Init ==
  /\ child = [p \in Proc |-> "unborn"] /\ slave = [p \in Proc |-> {}]
  /\ status = [p \in Proc |-> "none"]
  /\ outq = [p \in Proc |-> <<>>] /\ inq = [p \in Proc |-> 0]
  /\ written = [p \in Proc |-> 0] /\ sync = "none"
  /\ procs = {} /\ io = [p \in Proc |-> "new"] /\ cs = [p \in Proc |-> "live"]
  /\ p_buffer = [p \in Proc |-> NULL] /\ b_process = [b \in Buf |-> NULL] /\ adrift = {}
  /\ p_mark = [p \in Proc |-> 0] /\ big = [p \in Proc |-> FALSE]
  /\ exists = [b \in Buf |-> FALSE] /\ text = [b \in Buf |-> <<>>]
  /\ dot = [b \in Buf |-> 0]
  /\ procs_to_reap = FALSE /\ pc = "enter" /\ at = NULL /\ ret = "reap"
  /\ ready = {} /\ key = FALSE /\ towrite = <<>>
  /\ typed = 0 /\ kills = 0
  /\ limit \in Limits

Children ==
  \/ SyncCloses \/ SyncExit
  \/ \E p \in Proc : \/ \E w \in slave[p] : Write(p, w)
                     \/ Read(p) \/ Forks(p) \/ OthersClose(p) \/ ChildCloses(p)
                     \/ Exit(p) \/ Stop(p)

Commands ==
  \/ Nothing \/ ProcList \/ KillProcs \/ UnixToBuf
  \/ \E b \in Buf : \/ Type(b) \/ CopyLine(b) \/ Control(b) \/ kill_buf(b)
                    \/ ProcKill(b) \/ ProcCont(b)
                    \/ \E d \in {0, Len(text[b])} : MoveTo(b, d)
                    \/ \E i, j \in 0..Len(text[b]) : KillAndYank(b, i, j)
                    \/ \E nl \in {<<>>, <<Newline(typed)>>} : SendData(b, nl)
                    \/ \E p \in Proc : proc_strt(p, b) \/ PopWindComplains(p, b)

(* What JOVE does of itself, without a key or the help of a child.         *)
Jove ==
  \/ EnterSelect \/ SelectReturns(FALSE) \/ ReadReady
  \/ Reap \/ ReapNone \/ ReapOver \/ Drain \/ obituary
  \/ proc_write \/ ReadPipe \/ dowait \/ dowaitOther

Key == SelectReturns(TRUE)

Ticks == \E p \in Proc : Clock(p)

Next == (pc # "exit" /\ Children) \/ Commands \/ Jove \/ Key \/ Ticks

(* JOVE does what it can do, obeys the keys it has read, and time passes.  *)
Fairness == WF_vars(Jove) /\ WF_vars(Commands) /\ \A p \in Proc : WF_vars(Clock(p))

Spec == Init /\ [][Next]_vars /\ Fairness

-----------------------------------------------------------------------------
(* What must hold.                                                         *)

(* A buffer and its process name each other, a process that is not dead is *)
(* in the list and has a buffer for its output, and one that has not been  *)
(* reported dead is in the list: no output, death or command ever meets a  *)
(* process without a buffer or a buffer of a process that is gone.  Those  *)
(* whose start pop_wind has ended are the exception: their buffers name    *)
(* them, and they live, but they are never in the list.                    *)
NoDangling ==
  /\ \A b \in Buf : b_process[b] # NULL =>
       exists[b] /\ b_process[b] \in procs \cup adrift /\ p_buffer[b_process[b]] = b
  /\ \A p \in procs : p_buffer[p] = NULL => dead(p)
  /\ \A p \in procs \cup adrift : p_buffer[p] # NULL => b_process[p_buffer[p]] = p
  /\ \A p \in Proc : (child[p] \in {"live", "stopped"} \/ status[p] = "dead") => p \in procs \cup adrift
  /\ procs \cap adrift = {}

(* x is a line that p has written.                                         *)
IsOut(p, x) == x[1] = "out" /\ x[2] = p

(* What a child and its descendants have written is in the buffer in that  *)
(* order, but for what is in the pty, before the mark and so before what   *)
(* is being typed, and nothing the child wrote is after the message about  *)
(* its death.                                                              *)
OutputInOrder ==
  \A p \in procs :
    (p_buffer[p] # NULL /\ kills = 0) =>
      LET t == text[p_buffer[p]]
          outs == {k \in DOMAIN t : IsOut(p, t[k])}
          read == written[p] - Len(outq[p])
      IN  /\ {t[k][3] : k \in outs} = 0..read - 1
          /\ \A j, k \in outs : j < k => t[j][3] < t[k][3]
          /\ \A k \in DOMAIN outq[p] : IsOut(p, outq[p][k]) /\ outq[p][k][3] = read + k - 1
          /\ \A k \in outs : k <= p_mark[p]
          /\ \A j \in DOMAIN t, k \in outs : t[j] = Obit(p) /\ j < k => t[k][4] = "others"

NotStuck == []<>(pc \notin {"write", "pipe", "wait"})
KeysComeOn == []<><<Key>>_vars

(* What a process has written is shown in the end, unless JOVE is stuck in *)
(* writing to a process that does not read or in waiting for a command, or *)
(* never listed it (pop_wind).                                             *)
EventuallyShown ==
  NotStuck => \A p \in Proc : (outq[p] # <<>>) ~> (outq[p] = <<>> \/ io_eofed(p) \/ p \in adrift)

(* The death of a process is noted in the end, if only keys keep coming,   *)
(* and pop_wind has not ended its start.                                   *)
EventuallyBuried ==
  KeysComeOn => \A p \in Proc : (status[p] = "dead") ~> (cs[p] = "dead" \/ p \in adrift)
=============================================================================
