---------------------------- MODULE Iproc_proofs -----------------------------
(***************************************************************************)
(* Proofs of the two invariants of Iproc.  The first part is about the     *)
(* tables: which process, buffer and list entry name each other, and what  *)
(* JOVE knows of a child against what has become of it.  The second is     *)
(* about the texts of the buffers.                                         *)
(***************************************************************************)
EXTENDS Iproc, WellFoundedInduction, SequenceTheorems, TLAPS

-----------------------------------------------------------------------------
(* The tables.                                                             *)

TablesType ==
  /\ child \in [Proc -> {"unborn", "live", "stopped", "exited"}]
  /\ status \in [Proc -> {"none", "stopped", "dead"}]
  /\ slave \in [Proc -> SUBSET {"child", "others"}]
  /\ procs \subseteq Proc /\ adrift \subseteq Proc
  /\ io \in [Proc -> {"young", "new", "running", "eofed"}]
  /\ cs \in [Proc -> {"live", "stopped", "dead"}]
  /\ p_buffer \in [Proc -> Buf \cup {NULL}]
  /\ b_process \in [Buf -> Proc \cup {NULL}]
  /\ exists \in [Buf -> BOOLEAN]
  /\ at \in Proc \cup {NULL} /\ ret \in {"reap", "wait"}
  /\ ready \subseteq Proc

(* The system knows of a child what JOVE has not yet been told.            *)
Unborn ==
  \A p \in Proc : child[p] = "unborn" =>
    p \notin procs \cup adrift /\ status[p] = "none" /\ cs[p] = "live" /\ slave[p] = {}
Reports ==
  \A p \in Proc : /\ status[p] = "dead" => child[p] = "exited"
                  /\ pc # "exit" /\ status[p] = "stopped" => child[p] # "exited"
Buried == \A p \in Proc : cs[p] = "dead" => child[p] = "exited" /\ status[p] = "none"

(* Where JOVE is between two steps of one operation.                       *)
Draining ==
  pc = "drain" => /\ at \in procs /\ child[at] = "exited" /\ status[at] = "none"
                  /\ cs[at] # "dead"
AllReady == pc = "ready" => \A p \in ready : p \in procs /\ ~io_eofed(p)
InList == \A p \in Proc : p_buffer[p] # NULL => p \in procs \cup adrift

Tables ==
  /\ TablesType /\ Unborn /\ Reports /\ Buried /\ Draining /\ AllReady /\ InList
  /\ NoDangling

USE IprocAssumption

(* The tables are right at the beginning.                                  *)
LEMMA TablesInit == Init => Tables
BY DEF Init, Tables, TablesType, Unborn, Reports, Buried, Draining, AllReady, InList, NoDangling, io_eofed

tables == <<child, status, slave, procs, io, cs, p_buffer, b_process, adrift, exists, at, ret, ready, pc>>

(* They depend on these variables alone.                                   *)
LEMMA TablesFrame == Tables /\ UNCHANGED tables => Tables'
BY DEF tables, Tables, TablesType, Unborn, Reports, Buried, Draining, AllReady, InList, NoDangling,
       io_eofed, dead, child_dead

(* What the children do leaves the tables right.                           *)
LEMMA TablesChildren == Tables /\ pc # "exit" /\ Children => Tables'
<1> SUFFICES ASSUME Tables, pc # "exit", Children PROVE Tables'
  OBVIOUS
<1> USE DEF Tables, TablesType, Unborn, Reports, Buried, Draining, AllReady, InList, NoDangling,
            io_eofed, dead, child_dead, tied, ctl, bufs, ghosts, kernel
<1>1. CASE SyncCloses
  BY <1>1 DEF SyncCloses
<1>2. CASE SyncExit
  BY <1>2 DEF SyncExit, SIGCHLD
<1>3. ASSUME NEW p \in Proc, NEW w \in slave[p], Write(p, w) PROVE Tables'
  BY <1>3 DEF Write
<1>4. ASSUME NEW p \in Proc, Read(p) PROVE Tables'
  BY <1>4 DEF Read
<1>5. ASSUME NEW p \in Proc, Forks(p) PROVE Tables'
  BY <1>5 DEF Forks
<1>6. ASSUME NEW p \in Proc, OthersClose(p) PROVE Tables'
  BY <1>6 DEF OthersClose
<1>7. ASSUME NEW p \in Proc, ChildCloses(p) PROVE Tables'
  BY <1>7 DEF ChildCloses
<1>8. ASSUME NEW p \in Proc, Exit(p) PROVE Tables'
  BY <1>8 DEF Exit, Dies, SIGCHLD
<1>9. ASSUME NEW p \in Proc, Stop(p) PROVE Tables'
  BY <1>9 DEF Stop, SIGCHLD
<1> QED BY <1>1, <1>2, <1>3, <1>4, <1>5, <1>6, <1>7, <1>8, <1>9 DEF Children

(* So does what JOVE does of itself, or on a key.                          *)
LEMMA TablesJove == Tables /\ (Jove \/ Key \/ Ticks) => Tables'
<1> SUFFICES ASSUME Tables, Jove \/ Key \/ Ticks PROVE Tables'
  OBVIOUS
<1> USE DEF Tables, TablesType, Unborn, Reports, Buried, Draining, AllReady, InList, NoDangling,
            io_eofed, dead, child_dead, tied, ctl, bufs, ghosts, kernel, Goto, Loop
<1>1. CASE EnterSelect
  BY <1>1 DEF EnterSelect
<1>2. ASSUME NEW k \in BOOLEAN, SelectReturns(k) PROVE Tables'
  BY <1>2 DEF SelectReturns, readable
<1>3. CASE ReadReady
  BY <1>3 DEF ReadReady, read_pty_proc, proc_close
<1>4. CASE Reap
  BY <1>4 DEF Reap, kill_off
<1>5. CASE ReapNone
  BY <1>5 DEF ReapNone
<1>6. CASE ReapOver
  BY <1>6 DEF ReapOver
<1>7. CASE Drain
  BY <1>7 DEF Drain, read_pty_proc, proc_close
<1>8. CASE obituary
  BY <1>8 DEF obituary
<1>9. CASE proc_write
  BY <1>9 DEF proc_write
<1>10. CASE ReadPipe
  BY <1>10 DEF ReadPipe
<1>11. CASE dowait
  BY <1>11 DEF dowait, Done
<1>12. CASE dowaitOther
  BY <1>12 DEF dowaitOther, kill_off
<1>13. ASSUME NEW p \in Proc, Clock(p) PROVE Tables'
  BY <1>13 DEF Clock
<1> QED
  BY <1>1, <1>2, <1>3, <1>4, <1>5, <1>6, <1>7, <1>8, <1>9, <1>10, <1>11, <1>12, <1>13
  DEF Jove, Key, Ticks

(* And the commands.                                                       *)
LEMMA TablesCommands == Tables /\ Commands => Tables'
<1> SUFFICES ASSUME Tables, Commands PROVE Tables'
  OBVIOUS
<1> USE DEF Tables, TablesType, Unborn, Reports, Buried, Draining, AllReady, InList, NoDangling,
            io_eofed, dead, child_dead, started, tied, ctl, bufs, ghosts, kernel, Goto, Loop, Done, Command
<1>1. CASE Nothing
  BY <1>1 DEF Nothing
<1>2. CASE ProcList
  BY <1>2 DEF ProcList
<1>3. CASE KillProcs
  BY <1>3 DEF KillProcs, Running
<1>4. CASE UnixToBuf
  BY <1>4 DEF UnixToBuf
<1>5. ASSUME NEW b \in Buf, Type(b) PROVE Tables'
  BY <1>5 DEF Type
<1>6. ASSUME NEW b \in Buf, CopyLine(b) PROVE Tables'
  BY <1>6 DEF CopyLine
<1>7. ASSUME NEW b \in Buf, Control(b) PROVE Tables'
  BY <1>7 DEF Control
<1>8. ASSUME NEW b \in Buf, kill_buf(b) PROVE Tables'
  BY <1>8 DEF kill_buf, Untied
<1>9. ASSUME NEW b \in Buf, ProcKill(b) PROVE Tables'
  BY <1>9 DEF ProcKill, Signalled, Dies
<1>10. ASSUME NEW b \in Buf, ProcCont(b) PROVE Tables'
  BY <1>10 DEF ProcCont, Signalled
<1>11. ASSUME NEW b \in Buf, NEW d, MoveTo(b, d) PROVE Tables'
  BY <1>11 DEF MoveTo
<1>12. ASSUME NEW b \in Buf, NEW i, NEW j, KillAndYank(b, i, j) PROVE Tables'
  BY <1>12 DEF KillAndYank
<1>13. ASSUME NEW b \in Buf, NEW nl, SendData(b, nl) PROVE Tables'
  BY <1>13 DEF SendData, Send, do_rtp
<1>14. ASSUME NEW b \in Buf, NEW p \in Proc, proc_strt(p, b) PROVE Tables'
  BY <1>14 DEF proc_strt, Forked, Tied, ChildsPty
<1>15. ASSUME NEW b \in Buf, NEW p \in Proc, PopWindComplains(p, b) PROVE Tables'
  BY <1>15 DEF PopWindComplains, Forked, Tied, ChildsPty
<1> QED
  BY <1>1, <1>2, <1>3, <1>4, <1>5, <1>6, <1>7, <1>8, <1>9, <1>10, <1>11, <1>12, <1>13, <1>14, <1>15
  DEF Commands

(* The tables stay right.                                                  *)
THEOREM TablesAlways == Spec => []Tables
<1>1. Tables /\ [Next]_vars => Tables'
  BY TablesFrame, TablesChildren, TablesJove, TablesCommands
  DEF Next, vars, tables, kernel, tied, ctl
<1> QED
  BY <1>1, TablesInit, PTL DEF Spec

(* A buffer and its process name each other, and no process that lives or  *)
(* whose death is not yet known is missing from the list (proc_strt,       *)
(* untieDeadProcess, ProcList, kill_off, dowait).                          *)
THEOREM NoDanglingHolds == Spec => []NoDangling
<1>1. Tables => NoDangling
  BY DEF Tables
<1> QED
  BY <1>1, TablesAlways, PTL

-----------------------------------------------------------------------------
(* Sequences with an insertion.                                            *)

(* Where the item k is after n items have been inserted at d.              *)
Moved(k, d, n) == IF k > d THEN k + n ELSE k

(* r is t with the items of new put in at d: where each item went.         *)
Spliced(S, r, t, d, new) ==
  /\ r \in Seq(S) /\ Len(r) = Len(t) + Len(new)
  /\ \A k \in 1..Len(t) : Moved(k, d, Len(new)) \in 1..Len(r) /\ r[Moved(k, d, Len(new))] = t[k]
  /\ \A k \in 1..Len(new) : d + k \in 1..Len(r) /\ r[d + k] = new[k]
  /\ \A k \in 1..Len(r) : \/ \E i \in 1..Len(t) : k = Moved(i, d, Len(new))
                          \/ \E i \in 1..Len(new) : k = d + i

(* An insertion keeps the items before it and after it, and their order.   *)
LEMMA InsertionProperties ==
  ASSUME NEW S, NEW t \in Seq(S), NEW new \in Seq(S), NEW d \in 0..Len(t),
         NEW r, r = Insertion(t, d, new)
  PROVE  Spliced(S, r, t, d, new)
<1>0. Len(t) \in Nat /\ Len(new) \in Nat /\ d \in Nat /\ d <= Len(t)
  OBVIOUS
<1>b. PICK before : before = SubSeq(t, 1, d)
  OBVIOUS
<1>1. before \in Seq(S) /\ Len(before) = d /\ \A i \in 1..d : before[i] = t[i]
  BY <1>b
<1>a. PICK after : after = SubSeq(t, d + 1, Len(t))
  OBVIOUS
<1>2. after \in Seq(S) /\ Len(after) = Len(t) - d /\ \A i \in 1..Len(t) - d : after[i] = t[d + i]
  <2>1. after \in Seq(S) /\ Len(after) = Len(t) - d
    BY <1>0, <1>a
  <2>2. ASSUME NEW i \in 1..Len(t) - d PROVE after[i] = t[d + i]
    BY <1>0, <1>a
  <2> QED BY <2>1, <2>2
<1>f. PICK front : front = before \o new
  OBVIOUS
<1>3. /\ front \in Seq(S) /\ Len(front) = d + Len(new)
      /\ \A i \in 1..d : front[i] = before[i]
      /\ \A i \in 1..Len(new) : front[d + i] = new[i]
  <2>1. before \in Seq(S)
    BY <1>1
  <2>2. /\ front \in Seq(S) /\ Len(front) = Len(before) + Len(new)
        /\ \A i \in 1..Len(before) : front[i] = before[i]
        /\ \A i \in 1..Len(new) : front[Len(before) + i] = new[i]
    BY <2>1, <1>f
  <2> QED BY <2>2, <1>1
<1>5. r = front \o after
  BY <1>a, <1>b, <1>f DEF Insertion
<1>4. /\ r \in Seq(S) /\ Len(r) = Len(front) + Len(after)
      /\ \A i \in 1..Len(front) : r[i] = front[i]
      /\ \A i \in 1..Len(after) : r[Len(front) + i] = after[i]
  <2>1. front \in Seq(S) /\ after \in Seq(S)
    BY <1>2, <1>3
  <2> QED BY <2>1, <1>5
<1>6. r \in Seq(S) /\ Len(r) = Len(t) + Len(new)
  BY <1>0, <1>2, <1>3, <1>4
<1>7. ASSUME NEW k \in 1..Len(t)
      PROVE  Moved(k, d, Len(new)) \in 1..Len(r) /\ r[Moved(k, d, Len(new))] = t[k]
  <2>1. CASE k <= d
    BY <2>1, <1>0, <1>1, <1>3, <1>4, <1>6 DEF Moved
  <2>2. CASE k > d
    <3>1. k - d \in 1..Len(t) - d /\ d + (k - d) = k /\ d + Len(new) + (k - d) = k + Len(new)
      BY <2>2, <1>0
    <3>2. after[k - d] = t[k]
      BY <3>1, <1>2
    <3>3. r[k + Len(new)] = after[k - d]
      BY <3>1, <1>2, <1>3, <1>4
    <3> QED BY <3>2, <3>3, <2>2, <1>0, <1>6 DEF Moved
  <2> QED BY <2>1, <2>2, <1>0
<1>8. ASSUME NEW k \in 1..Len(new)
      PROVE  d + k \in 1..Len(r) /\ r[d + k] = new[k]
  BY <1>0, <1>3, <1>4, <1>6, SMTT(30)
<1>9. ASSUME NEW k \in 1..Len(r)
      PROVE  \/ \E i \in 1..Len(t) : k = Moved(i, d, Len(new))
             \/ \E i \in 1..Len(new) : k = d + i
  <2>1. CASE k <= d
    <3>1. k \in 1..Len(t) /\ k = Moved(k, d, Len(new))
      BY <2>1, <1>0, <1>6 DEF Moved
    <3> QED BY <3>1
  <2>2. CASE k > d /\ k <= d + Len(new)
    <3>1. k - d \in 1..Len(new) /\ k = d + (k - d)
      BY <2>2, <1>0
    <3> QED BY <3>1
  <2>3. CASE k > d + Len(new)
    <3>1. k - Len(new) \in 1..Len(t) /\ k = Moved(k - Len(new), d, Len(new))
      BY <2>3, <1>0, <1>6 DEF Moved
    <3> QED BY <3>1
  <2> QED BY <2>1, <2>2, <2>3, <1>0
<1> QED BY ONLY <1>6, <1>7, <1>8, <1>9 DEF Spliced

(* What is appended is inserted at the end.                                *)
LEMMA AppendAtEnd ==
  ASSUME NEW S, NEW t \in Seq(S), NEW x \in S
  PROVE  Append(t, x) = Insertion(t, Len(t), <<x>>)
<1>1. SubSeq(t, 1, Len(t)) = t /\ SubSeq(t, Len(t) + 1, Len(t)) = <<>>
  OBVIOUS
<1>2. Append(t, x) = t \o <<x>> /\ t \o <<x>> \in Seq(S)
  BY AppendIsConcat
<1> QED BY <1>1, <1>2, ConcatEmptySeq DEF Insertion

(* So is what is concatenated.                                             *)
LEMMA ConcatAtEnd ==
  ASSUME NEW S, NEW t \in Seq(S), NEW u \in Seq(S)
  PROVE  t \o u = Insertion(t, Len(t), u)
<1>1. SubSeq(t, 1, Len(t)) = t /\ SubSeq(t, Len(t) + 1, Len(t)) = <<>>
  OBVIOUS
<1>2. t \o u \in Seq(S)
  OBVIOUS
<1> QED BY <1>1, <1>2, ConcatEmptySeq DEF Insertion

-----------------------------------------------------------------------------
(* The order of what a process has written.                                *)

(* n lines of p have been read into the text t, up to the mark m.          *)
Order(p, t, m, n) ==
  /\ \A k \in 1..Len(t) : IsOut(p, t[k]) => k <= m /\ t[k][3] \in 0..n - 1
  /\ \A i \in 0..n - 1 : \E k \in 1..Len(t) : IsOut(p, t[k]) /\ t[k][3] = i
  /\ \A j, k \in 1..Len(t) : IsOut(p, t[j]) /\ IsOut(p, t[k]) /\ j < k => t[j][3] < t[k][3]
  /\ \A j, k \in 1..Len(t) : t[j] = Obit(p) /\ IsOut(p, t[k]) /\ j < k => t[k][4] = "others"

(* It outlasts an insertion of something else, when the mark goes along or *)
(* farther.  Only at the end may that be the message about its death.      *)
LEMMA InsertKeepsOrder ==
  ASSUME NEW S, NEW t \in Seq(S), NEW new \in Seq(S), NEW d \in 0..Len(t),
         NEW r, r = Insertion(t, d, new), NEW p, NEW m \in Nat, NEW n \in Nat,
         Order(p, t, m, n),
         \A k \in 1..Len(new) : ~IsOut(p, new[k]) /\ (new[k] = Obit(p) => d = Len(t)),
         NEW mm \in Nat, mm >= IFixMarks(m, d, Len(new))
  PROVE  Order(p, r, mm, n)
<1> DEFINE M(k) == Moved(k, d, Len(new))
<1>0. Len(t) \in Nat /\ Len(new) \in Nat /\ d \in Nat /\ d <= Len(t)
  OBVIOUS
<1>1. /\ r \in Seq(S) /\ Len(r) = Len(t) + Len(new)
      /\ \A k \in 1..Len(t) : M(k) \in 1..Len(r) /\ r[M(k)] = t[k]
      /\ \A k \in 1..Len(new) : d + k \in 1..Len(r) /\ r[d + k] = new[k]
      /\ \A k \in 1..Len(r) : \/ \E i \in 1..Len(t) : k = M(i)
                              \/ \E i \in 1..Len(new) : k = d + i
  <2>1. t \in Seq(S) /\ new \in Seq(S) /\ d \in 0..Len(t) /\ r = Insertion(t, d, new)
    BY <1>0
  <2>2. Spliced(S, r, t, d, new)
    BY ONLY <2>1, InsertionProperties
  <2> QED BY <2>2 DEF Spliced
<1>2. \A i, j \in 1..Len(t) : /\ M(i) < M(j) <=> i < j
                              /\ i <= m => M(i) <= mm
  BY <1>0 DEF Moved, IFixMarks
<1>3. \A i \in 1..Len(t), j \in 1..Len(new) : d = Len(t) => M(i) < d + j
  BY <1>0 DEF Moved
<1> HIDE DEF M
<1>4. ASSUME NEW k \in 1..Len(r)
      PROVE  \/ \E i \in 1..Len(t) : k = M(i) /\ r[k] = t[i]
             \/ \E i \in 1..Len(new) : k = d + i /\ r[k] = new[i]
  BY <1>1, Zenon
<1>5. ASSUME NEW k \in 1..Len(r), IsOut(p, r[k])
      PROVE  \E i \in 1..Len(t) : k = M(i) /\ r[k] = t[i] /\ IsOut(p, t[i])
  BY <1>4, <1>5, Zenon
<1>6. ASSUME NEW k \in 1..Len(r), IsOut(p, r[k]) PROVE k <= mm /\ r[k][3] \in 0..n - 1
  <2>1. PICK i \in 1..Len(t) : k = M(i) /\ r[k] = t[i] /\ IsOut(p, t[i])
    BY <1>5, <1>6
  <2>2. i <= m /\ t[i][3] \in 0..n - 1
    BY <2>1 DEF Order
  <2> QED BY <2>1, <2>2, <1>2
<1>7. ASSUME NEW i \in 0..n - 1 PROVE \E k \in 1..Len(r) : IsOut(p, r[k]) /\ r[k][3] = i
  <2>1. PICK k \in 1..Len(t) : IsOut(p, t[k]) /\ t[k][3] = i
    BY DEF Order
  <2>2. M(k) \in 1..Len(r) /\ r[M(k)] = t[k]
    BY <1>1
  <2> QED BY <2>1, <2>2, Zenon
<1>8. ASSUME NEW j \in 1..Len(r), NEW k \in 1..Len(r), IsOut(p, r[j]), IsOut(p, r[k]), j < k
      PROVE  r[j][3] < r[k][3]
  <2>1. PICK i \in 1..Len(t) : k = M(i) /\ r[k] = t[i] /\ IsOut(p, t[i])
    BY <1>5, <1>8
  <2>2. PICK h \in 1..Len(t) : j = M(h) /\ r[j] = t[h] /\ IsOut(p, t[h])
    BY <1>5, <1>8
  <2>3. h < i
    BY <2>1, <2>2, <1>8, <1>2
  <2>4. t[h][3] < t[i][3]
    BY <2>1, <2>2, <2>3 DEF Order
  <2> QED BY <2>1, <2>2, <2>4
<1>9. ASSUME NEW j \in 1..Len(r), NEW k \in 1..Len(r), r[j] = Obit(p), IsOut(p, r[k]), j < k
      PROVE  r[k][4] = "others"
  <2>1. PICK i \in 1..Len(t) : k = M(i) /\ r[k] = t[i] /\ IsOut(p, t[i])
    BY <1>5, <1>9
  <2>2. CASE \E h \in 1..Len(t) : j = M(h) /\ r[j] = t[h]
    <3>1. PICK h \in 1..Len(t) : j = M(h) /\ r[j] = t[h]
      BY <2>2
    <3>2. h < i
      BY <2>1, <3>1, <1>9, <1>2
    <3>3. t[i][4] = "others"
      BY <2>1, <3>1, <3>2, <1>9, ZenonT(60) DEF Order
    <3> QED BY <2>1, <3>3
  <2>3. CASE \E h \in 1..Len(new) : j = d + h /\ r[j] = new[h]
    <3>1. PICK h \in 1..Len(new) : j = d + h /\ r[j] = new[h]
      BY <2>3
    <3>2. new[h] = Obit(p) /\ d = Len(t)
      BY <3>1, <1>9, Zenon
    <3>3. k < j
      BY <3>1, <3>2, <2>1, <1>3
    <3> QED BY <3>3, <1>9
  <2> QED BY <2>2, <2>3, <1>4
<1> QED BY ONLY <1>6, <1>7, <1>8, <1>9 DEF Order

(* It grows by what is read, and inserted at the mark, which moves over it. *)
LEMMA ReadKeepsOrder ==
  ASSUME NEW S, NEW t \in Seq(S), NEW new \in Seq(S), NEW m \in 0..Len(t),
         NEW r, r = Insertion(t, m, new), NEW p, NEW n \in Nat,
         Order(p, t, m, n),
         \A k \in 1..Len(new) : IsOut(p, new[k]) /\ new[k][3] = n + k - 1,
         \A j \in 1..Len(t) : t[j] = Obit(p) => \A k \in 1..Len(new) : new[k][4] = "others"
  PROVE  Order(p, r, m + Len(new), n + Len(new))
<1> DEFINE M(k) == Moved(k, m, Len(new))
<1>0. Len(t) \in Nat /\ Len(new) \in Nat /\ m \in Nat /\ m <= Len(t)
  OBVIOUS
<1>1. /\ r \in Seq(S) /\ Len(r) = Len(t) + Len(new)
      /\ \A k \in 1..Len(t) : M(k) \in 1..Len(r) /\ r[M(k)] = t[k]
      /\ \A k \in 1..Len(new) : m + k \in 1..Len(r) /\ r[m + k] = new[k]
      /\ \A k \in 1..Len(r) : \/ \E i \in 1..Len(t) : k = M(i)
                              \/ \E i \in 1..Len(new) : k = m + i
  <2>1. t \in Seq(S) /\ new \in Seq(S) /\ m \in 0..Len(t) /\ r = Insertion(t, m, new)
    BY <1>0
  <2>2. Spliced(S, r, t, m, new)
    BY ONLY <2>1, InsertionProperties
  <2> QED BY <2>2 DEF Spliced
<1>2. \A i, j \in 1..Len(t) : /\ M(i) < M(j) <=> i < j
                              /\ i <= m => M(i) <= m
  BY <1>0 DEF Moved
<1> HIDE DEF M
<1>4. ASSUME NEW k \in 1..Len(r)
      PROVE  \/ \E i \in 1..Len(t) : k = M(i) /\ r[k] = t[i]
             \/ \E i \in 1..Len(new) : k = m + i /\ r[k] = new[i]
  BY <1>1, ZenonT(60)
<1>5. \A i \in 1..Len(t) : IsOut(p, t[i]) => i <= m /\ t[i][3] \in 0..n - 1
  BY DEF Order
<1>6. ASSUME NEW k \in 1..Len(r), IsOut(p, r[k])
      PROVE  k <= m + Len(new) /\ r[k][3] \in 0..n + Len(new) - 1
  <2>1. CASE \E i \in 1..Len(t) : k = M(i) /\ r[k] = t[i]
    BY <2>1, <1>0, <1>2, <1>5, <1>6
  <2>2. CASE \E i \in 1..Len(new) : k = m + i /\ r[k] = new[i]
    <3>1. PICK i \in 1..Len(new) : k = m + i /\ r[k][3] = n + i - 1
      BY <2>2
    <3> QED BY ONLY <3>1, <1>0, n \in Nat
  <2> QED BY <2>1, <2>2, <1>4
<1>7. ASSUME NEW i \in 0..n + Len(new) - 1 PROVE \E k \in 1..Len(r) : IsOut(p, r[k]) /\ r[k][3] = i
  <2>1. CASE i \in 0..n - 1
    <3>1. PICK k \in 1..Len(t) : IsOut(p, t[k]) /\ t[k][3] = i
      BY <2>1 DEF Order
    <3>2. M(k) \in 1..Len(r) /\ r[M(k)] = t[k]
      BY <1>1
    <3> QED BY <3>1, <3>2, Zenon
  <2>2. CASE i \in n..n + Len(new) - 1
    <3>1. i - n + 1 \in 1..Len(new) /\ n + (i - n + 1) - 1 = i
      BY <2>2, <1>0
    <3>2. IsOut(p, new[i - n + 1]) /\ new[i - n + 1][3] = i
      BY <3>1
    <3>3. m + (i - n + 1) \in 1..Len(r) /\ r[m + (i - n + 1)] = new[i - n + 1]
      BY <3>1, <1>1
    <3> QED BY <3>2, <3>3, Zenon
  <2> QED BY <2>1, <2>2, <1>0
<1>8. ASSUME NEW j \in 1..Len(r), NEW k \in 1..Len(r), IsOut(p, r[j]), IsOut(p, r[k]), j < k
      PROVE  r[j][3] < r[k][3]
  <2>1. CASE \E i \in 1..Len(t) : k = M(i) /\ r[k] = t[i]
    <3>1. PICK i \in 1..Len(t) : k = M(i) /\ r[k] = t[i]
      BY <2>1
    <3>2. i <= m /\ k <= m
      BY <3>1, <1>2, <1>5, <1>8
    <3>3. PICK h \in 1..Len(t) : j = M(h) /\ r[j] = t[h]
      BY <3>2, <1>0, <1>4, <1>8
    <3>4. h < i
      BY <3>1, <3>3, <1>2, <1>8
    <3> QED BY <3>1, <3>3, <3>4, <1>8 DEF Order
  <2>2. CASE \E i \in 1..Len(new) : k = m + i /\ r[k] = new[i]
    <3>1. PICK i \in 1..Len(new) : k = m + i /\ r[k] = new[i]
      BY <2>2
    <3>2. r[k][3] = n + i - 1
      BY <3>1
    <3>3. CASE \E h \in 1..Len(t) : j = M(h) /\ r[j] = t[h]
      <4>1. r[j][3] \in 0..n - 1
        BY <3>3, <1>5, <1>8
      <4>2. n \in Nat /\ i \in Nat /\ i >= 1
        BY <1>0
      <4> QED BY ONLY <4>1, <4>2, <3>2
    <3>4. CASE \E h \in 1..Len(new) : j = m + h /\ r[j] = new[h]
      BY <3>1, <3>2, <3>4, <1>0, <1>8
    <3> QED BY <3>3, <3>4, <1>4
  <2> QED BY <2>1, <2>2, <1>4
<1>9. ASSUME NEW j \in 1..Len(r), NEW k \in 1..Len(r), r[j] = Obit(p), IsOut(p, r[k]), j < k
      PROVE  r[k][4] = "others"
  <2>1. PICK h \in 1..Len(t) : j = M(h) /\ r[j] = t[h]
    <3>1. ASSUME NEW h \in 1..Len(new), r[j] = new[h] PROVE FALSE
      <4>1. new[h][1] = "out"
        BY DEF IsOut
      <4>2. Obit(p)[1] = "obit"
        BY DEF Obit
      <4> QED BY <3>1, <4>1, <4>2, <1>9
    <3> QED BY <3>1, <1>4
  <2>2. CASE \E i \in 1..Len(t) : k = M(i) /\ r[k] = t[i]
    <3>1. PICK i \in 1..Len(t) : k = M(i) /\ r[k] = t[i]
      BY <2>2
    <3>2. h < i
      BY <2>1, <3>1, <1>2, <1>9
    <3>3. t[h] = Obit(p) /\ IsOut(p, t[i])
      BY <2>1, <3>1, <1>9
    <3>4. t[i][4] = "others"
      BY <3>2, <3>3 DEF Order
    <3> QED BY <3>1, <3>4
  <2>3. CASE \E i \in 1..Len(new) : k = m + i /\ r[k] = new[i]
    BY <2>1, <2>3, <1>9
  <2> QED BY <2>2, <2>3, <1>4
<1> QED BY <1>6, <1>7, <1>8, <1>9 DEF Order

-----------------------------------------------------------------------------
(* The least number of a set, and with it the ends of a line.              *)

(* A set of natural numbers that is not empty has a least one.             *)
LEMMA LeastNat ==
  ASSUME NEW T, T \subseteq Nat, T # {}
  PROVE  \E x \in T : \A y \in T : x <= y
<1> DEFINE R == {ss \in Nat \X Nat : ss[1] < ss[2]}
<1>1. R = OpToRel(<, Nat)
  BY DEF OpToRel
<1>2. IsWellFoundedOn(R, Nat)
  BY ONLY <1>1, NatLessThanWellFounded
<1> HIDE DEF R
<1>3. PICK x \in T : \A y \in T : ~ (<<y, x>> \in R)
  BY <1>2, WFMin
<1>4. ASSUME NEW y \in T, ~ (x <= y) PROVE FALSE
  <2>1. x \in Nat /\ y \in Nat /\ y < x
    BY <1>4
  <2>2. <<y, x>> \in R
    BY <2>1 DEF R
  <2> QED BY <2>2, <1>3
<1> QED BY <1>4

(* A line begins where Bol says.                                           *)
LEMMA BolInText ==
  ASSUME NEW t, NEW d \in Nat
  PROVE  Bol(t, d) \in 0..d
<1> DEFINE T == {i \in 0..d : i = d \/ EndsLine(t[d - i])}
<1>1. T \subseteq Nat /\ d \in T
  OBVIOUS
<1>2. PICK i \in T : \A h \in T : i <= h
  BY <1>1, LeastNat
<1>3. i \in 0..d /\ d - i \in 0..d /\ (d - i = 0 \/ EndsLine(t[d - i]))
  OBVIOUS
<1>4. ASSUME NEW j \in d - i + 1..d PROVE ~EndsLine(t[j])
  <2>1. d - j \in 0..d /\ ~ (i <= d - j) /\ d - (d - j) = j
    BY <1>3
  <2> QED BY <2>1, <1>2
<1>5. \E k \in 0..d : (k = 0 \/ EndsLine(t[k])) /\ \A j \in k + 1..d : ~EndsLine(t[j])
  BY <1>3, <1>4
<1> QED BY <1>5 DEF Bol

(* And ends where Eol says.                                                *)
LEMMA EolInText ==
  ASSUME NEW t, Len(t) \in Nat, NEW d \in 0..Len(t)
  PROVE  Eol(t, d) \in d..Len(t)
<1> DEFINE T == {k \in d..Len(t) : k = Len(t) \/ EndsLine(t[k + 1])}
<1>1. T \subseteq Nat /\ Len(t) \in T
  OBVIOUS
<1>2. PICK k \in T : \A h \in T : k <= h
  BY <1>1, LeastNat
<1>3. k \in d..Len(t) /\ (k = Len(t) \/ EndsLine(t[k + 1]))
  OBVIOUS
<1>4. ASSUME NEW j \in d + 1..k PROVE ~EndsLine(t[j])
  <2>1. j - 1 \in d..Len(t) /\ ~ (k <= j - 1) /\ (j - 1) + 1 = j
    BY <1>3
  <2> QED BY <2>1, <1>2
<1>5. \E h \in d..Len(t) : (h = Len(t) \/ EndsLine(t[h + 1])) /\ \A j \in d + 1..h : ~EndsLine(t[j])
  BY <1>3, <1>4
<1> QED BY <1>5 DEF Eol

-----------------------------------------------------------------------------
(* The texts.                                                              *)

Output == {Out(p, i, w) : p \in Proc, i \in Nat, w \in {"child", "others"}}
Messages == {Obit(p) : p \in Proc}
Echoes == {Echo(p) : p \in Proc}
Newlines == {Newline(n) : n \in Nat}
Item == Output \cup Messages \cup Echoes \cup Newlines \cup {Typed, Newline("start")}

(* What may be in a text.                                                  *)
LEMMA Items ==
  /\ Typed \in Item /\ Newline("start") \in Item
  /\ \A n \in Nat : Newline(n) \in Item
  /\ \A p \in Proc : Obit(p) \in Item /\ Echo(p) \in Item
  /\ \A p \in Proc, i \in Nat, w \in {"child", "others"} : Out(p, i, w) \in Item
<1>1. Typed \in Item /\ Newline("start") \in Item
  BY DEF Item
<1>2. \A n \in Nat : Newline(n) \in Item
  BY DEF Item, Newlines
<1>3. \A p \in Proc : Obit(p) \in Item /\ Echo(p) \in Item
  BY DEF Item, Messages, Echoes
<1>4. \A p \in Proc, i \in Nat, w \in {"child", "others"} : Out(p, i, w) \in Item
  BY DEF Item, Output
<1> QED BY <1>1, <1>2, <1>3, <1>4

(* Only output begins with its word, and a message names its process.      *)
LEMMA NoOutput ==
  /\ Typed[1] # "out" /\ \A n : Newline(n)[1] # "out"
  /\ \A p : Obit(p)[1] # "out" /\ Echo(p)[1] # "out" /\ Obit(p)[2] = p
  /\ \A p : Typed # Obit(p) /\ \A n : Newline(n) # Obit(p)
  /\ \A p, q : Echo(p) # Obit(q)
<1>1. Typed[1] = "in" /\ \A n : Newline(n)[1] = "nl"
  BY DEF Typed, Newline
<1>2. \A p : Obit(p)[1] = "obit" /\ Echo(p)[1] = "echo" /\ Obit(p)[2] = p
  BY DEF Obit, Echo
<1> QED BY <1>1, <1>2

TextsType ==
  /\ text \in [Buf -> Seq(Item)]
  /\ dot \in [Buf -> Nat] /\ \A b \in Buf : dot[b] <= Len(text[b])
  /\ p_mark \in [Proc -> Nat] /\ big \in [Proc -> BOOLEAN]
  /\ outq \in [Proc -> Seq(Item)] /\ written \in [Proc -> Nat]
  /\ typed \in Nat /\ kills \in Nat

(* What is in the pty comes after what has been read.                      *)
InPty ==
  \A p \in Proc :
    /\ Len(outq[p]) <= written[p]
    /\ \A k \in 1..Len(outq[p]) :
         IsOut(p, outq[p][k]) /\ outq[p][k][3] = written[p] - Len(outq[p]) + k - 1

(* Nothing is known of a process before it begins, nothing comes from the  *)
(* child when its death is known, nor from anybody after the end.          *)
NothingYet ==
  \A p \in Proc : child[p] = "unborn" =>
    written[p] = 0 /\ \A b \in Buf : \A k \in 1..Len(text[b]) : ~IsOut(p, text[b][k])
DeadSilent ==
  \A p \in Proc : cs[p] = "dead" => \A k \in 1..Len(outq[p]) : outq[p][k][4] = "others"
NoneLeft == pc # "exit" => \A p \in Proc : io_eofed(p) => outq[p] = <<>>
ObitKnown ==
  \A p \in Proc, b \in Buf : \A k \in 1..Len(text[b]) : text[b][k] = Obit(p) => cs[p] = "dead"

MarkInText == \A p \in Proc : p_buffer[p] # NULL => p_mark[p] <= Len(text[p_buffer[p]])
InOrder ==
  kills = 0 => \A p \in Proc :
    /\ ~big[p]
    /\ p_buffer[p] # NULL => Order(p, text[p_buffer[p]], p_mark[p], written[p] - Len(outq[p]))

Texts ==
  /\ TextsType /\ InPty /\ NothingYet /\ DeadSilent /\ NoneLeft /\ ObitKnown
  /\ MarkInText /\ InOrder

(* The texts are right at the beginning.                                   *)
LEMMA TextsInit == Init => Texts
<1> SUFFICES ASSUME Init PROVE Texts
  OBVIOUS
<1> QED
  BY DEF Init, Texts, TextsType, InPty, NothingYet, DeadSilent, NoneLeft, ObitKnown, MarkInText, InOrder

(* Steps that leave texts, ptys and marks alone, bear and bury nobody, and *)
(* do not come to the end of output before they leave JOVE.                *)
LEMMA TextsFrame ==
  ASSUME Texts, UNCHANGED <<text, dot, p_mark, big, outq, written, typed, kills>>,
         \A p \in Proc : /\ child'[p] = "unborn" => child[p] = "unborn"
                         /\ cs'[p] = "dead" <=> cs[p] = "dead"
                         /\ p_buffer'[p] \in {p_buffer[p], NULL},
         pc' = "exit" \/ (pc # "exit" /\ \A p \in Proc : io_eofed(p)' => io_eofed(p))
  PROVE  Texts'
<1>1. (TextsType /\ InPty)'
  BY DEF Texts, TextsType, InPty
<1>2. (NothingYet /\ DeadSilent /\ ObitKnown)'
  BY DEF Texts, NothingYet, DeadSilent, ObitKnown
<1>3. NoneLeft'
  BY DEF Texts, NoneLeft
<1>4. (MarkInText /\ InOrder)'
  BY DEF Texts, MarkInText, InOrder
<1> QED BY <1>1, <1>2, <1>3, <1>4 DEF Texts

(* What the children do leaves the texts right.                            *)
LEMMA TextsChildren == Tables /\ Texts /\ pc # "exit" /\ Children => Texts'
<1> SUFFICES ASSUME Tables, Texts, pc # "exit", Children PROVE Texts'
  OBVIOUS
<1>t. TablesType
  BY DEF Tables
<1> USE DEF tied, ctl, bufs, ghosts, io_eofed
<1>1. CASE SyncCloses
  BY <1>1, TextsFrame DEF SyncCloses
<1>2. CASE SyncExit
  BY <1>2, TextsFrame DEF SyncExit, SIGCHLD
<1>4. ASSUME NEW p \in Proc, Read(p) PROVE Texts'
  BY <1>4, TextsFrame DEF Read
<1>5. ASSUME NEW p \in Proc, Forks(p) PROVE Texts'
  BY <1>5, TextsFrame DEF Forks
<1>6. ASSUME NEW p \in Proc, OthersClose(p) PROVE Texts'
  BY <1>6, TextsFrame DEF OthersClose
<1>7. ASSUME NEW p \in Proc, ChildCloses(p) PROVE Texts'
  BY <1>7, TextsFrame DEF ChildCloses
<1>8. ASSUME NEW p \in Proc, Exit(p) PROVE Texts'
  BY <1>8, <1>t, TextsFrame DEF Exit, Dies, SIGCHLD, TablesType
<1>9. ASSUME NEW p \in Proc, Stop(p) PROVE Texts'
  BY <1>9, <1>t, TextsFrame DEF Stop, SIGCHLD, TablesType
<1>3. ASSUME NEW p \in Proc, NEW w \in slave[p], Write(p, w) PROVE Texts'
  <2>a. PICK q : q = outq[p]
    OBVIOUS
  <2>b. PICK x : x = Out(p, written[p], w)
    OBVIOUS
  <2>0. outq \in [Proc -> Seq(Item)] /\ written \in [Proc -> Nat]
    BY DEF Texts, TextsType
  <2>1. q \in Seq(Item) /\ Len(q) \in Nat /\ written[p] \in Nat /\ w \in {"child", "others"}
    <3>1. q \in Seq(Item) /\ written[p] \in Nat
      BY <2>0, <2>a
    <3>2. w \in {"child", "others"}
      BY <1>t DEF TablesType
    <3> QED BY <3>1, <3>2
  <2>2. x \in Item /\ IsOut(p, x) /\ x[3] = written[p] /\ x[4] = w
    <3>2. x \in Item
      BY <2>1, <2>b, Items
    <3>3. x[1] = "out" /\ x[2] = p /\ x[3] = written[p] /\ x[4] = w
      BY <2>b DEF Out
    <3> QED BY <3>2, <3>3 DEF IsOut
  <2>3. PICK r : r = Append(q, x)
    OBVIOUS
  <2>4. /\ r \in Seq(Item) /\ Len(r) = Len(q) + 1 /\ r # <<>>
        /\ \A k \in 1..Len(q) : r[k] = q[k]
        /\ r[Len(q) + 1] = x
    <3>1. q \in Seq(Item) /\ x \in Item
      BY <2>1, <2>2
    <3>2. r \in Seq(Item) /\ Len(r) = Len(q) + 1
      BY <3>1, <2>3
    <3>3. \A k \in 1..Len(q) : r[k] = q[k]
      BY <3>1, <2>3
    <3>4. r[Len(q) + 1] = x
      BY <3>1, <2>3
    <3> QED BY <3>2, <3>3, <3>4, <2>1
  <2>5. /\ outq' = [outq EXCEPT ![p] = r] /\ written' = [written EXCEPT ![p] = @ + 1]
        /\ w = "child" => child[p] = "live"
        /\ ~io_eofed(p)
        /\ UNCHANGED <<child, text, dot, p_mark, big, p_buffer, typed, kills, cs, io, pc>>
    BY <1>3, <2>a, <2>b, <2>3 DEF Write
  <2>6. outq'[p] = r /\ written'[p] = written[p] + 1
    BY <2>0, <2>5
  <2>7. \A o \in Proc \ {p} : outq'[o] = outq[o] /\ written'[o] = written[o]
    BY <2>0, <2>5
  <2>8. child[p] # "unborn"
    BY <1>t DEF Tables, Unborn
  <2>9. cs[p] = "dead" => w = "others"
    BY <2>1, <2>5 DEF Tables, Buried
  <2>e. written'[p] - Len(r) = written[p] - Len(q)
    <3>1. PICK m, n, u, v : m = written[p] /\ n = Len(q) /\ u = written'[p] /\ v = Len(r)
      OBVIOUS
    <3>2. m \in Nat /\ n \in Nat /\ u = m + 1 /\ v = n + 1
      BY ONLY <3>1, <2>1, <2>4, <2>6
    <3>3. u - v = m - n
      BY ONLY <3>2
    <3> QED BY ONLY <3>1, <3>3
  <2>10. TextsType'
    BY <2>0, <2>1, <2>4, <2>5 DEF Texts, TextsType
  <2>11. InPty'
    <3>1. Len(q) <= written[p] /\ \A k \in 1..Len(q) :
            IsOut(p, q[k]) /\ q[k][3] = written[p] - Len(q) + k - 1
      BY <2>a DEF Texts, InPty
    <3>2. Len(r) <= written'[p]
      BY <2>1, <2>4, <2>6, <3>1
    <3>3. ASSUME NEW k \in 1..Len(r)
          PROVE  IsOut(p, r[k]) /\ r[k][3] = written'[p] - Len(r) + k - 1
      <4>1. CASE k \in 1..Len(q)
        <5>1. r[k] = q[k] /\ IsOut(p, q[k]) /\ q[k][3] = written[p] - Len(q) + k - 1
          BY <4>1, <2>4, <3>1
        <5> QED BY <5>1, <2>e, Zenon
      <4>2. CASE k = Len(q) + 1
        <5>1. r[k] = x /\ IsOut(p, x) /\ x[3] = written[p]
          BY <4>2, <2>2, <2>4
        <5>2. written[p] = written'[p] - Len(r) + k - 1
          <6>1. written[p] \in Nat /\ Len(q) \in Nat
            BY <2>1
          <6>2. written'[p] = written[p] + 1 /\ Len(r) = Len(q) + 1
            BY <2>4, <2>6
          <6> QED BY ONLY <4>2, <6>1, <6>2
        <5> QED BY <5>1, <5>2, Zenon
      <4>3. k \in 1..Len(q) \/ k = Len(q) + 1
        <5>1. Len(q) \in Nat /\ Len(r) = Len(q) + 1 /\ k \in 1..Len(r)
          BY <2>1, <2>4
        <5> QED BY ONLY <5>1
      <4> QED BY ONLY <4>1, <4>2, <4>3
    <3>4. ASSUME NEW o \in Proc \ {p}, NEW k \in 1..Len(outq[o])
          PROVE  Len(outq[o]) <= written[o] /\ IsOut(o, outq[o][k])
                 /\ outq[o][k][3] = written[o] - Len(outq[o]) + k - 1
      BY DEF Texts, InPty
    <3>5. \A o \in Proc \ {p} : Len(outq[o]) <= written[o]
      BY DEF Texts, InPty
    <3> QED BY ONLY <3>2, <3>3, <3>4, <3>5, <2>6, <2>7 DEF InPty, IsOut
  <2>12. NothingYet'
    BY <2>5, <2>7, <2>8 DEF Texts, NothingYet
  <2>13. DeadSilent'
    <3>1. ASSUME cs[p] = "dead", NEW k \in 1..Len(r) PROVE r[k][4] = "others"
      <4>1. CASE k \in 1..Len(q)
        BY <4>1, <3>1, <2>a, <2>4 DEF Texts, DeadSilent
      <4>2. CASE k = Len(q) + 1
        BY <4>2, <3>1, <2>2, <2>4, <2>9
      <4> QED BY <4>1, <4>2, <2>1, <2>4
    <3> QED BY <3>1, <2>5, <2>6, <2>7 DEF Texts, DeadSilent
  <2>14. NoneLeft' /\ ObitKnown' /\ MarkInText'
    BY <2>5, <2>7 DEF Texts, NoneLeft, ObitKnown, MarkInText
  <2>15. InOrder'
    <3>2. \A o \in Proc : written'[o] - Len(outq'[o]) = written[o] - Len(outq[o])
      BY <2>e, <2>a, <2>6, <2>7
    <3> QED BY <3>2, <2>5 DEF Texts, InOrder
  <2> QED BY <2>10, <2>11, <2>12, <2>13, <2>14, <2>15 DEF Texts
<1> QED BY <1>1, <1>2, <1>3, <1>4, <1>5, <1>6, <1>7, <1>8, <1>9 DEF Children

(* JOVE inserts something else than output into a buffer; only the message *)
(* about a death goes to the end of it, and then nothing of the child is   *)
(* left in the pty.                                                        *)
Inserts(b, d, new) ==
  /\ text' = [text EXCEPT ![b] = Insertion(@, d, new)]
  /\ \A k \in 1..Len(new) : /\ new[k][1] # "out"
                           /\ \A p \in Proc : new[k] = Obit(p) => d = Len(text[b]) /\ cs'[p] = "dead"
  /\ dot' \in [Buf -> Nat] /\ \A c \in Buf : dot'[c] <= Len(text'[c])
  /\ p_mark' \in [Proc -> Nat] /\ big' \in [Proc -> BOOLEAN] /\ typed' \in Nat
  /\ \A p \in Proc : IF p_buffer[p] = b THEN p_mark'[p] <= Len(text'[b]) ELSE p_mark'[p] = p_mark[p]
  /\ \A p \in Proc : big'[p] => big[p]
  /\ kills = 0 => \A p \in Proc : p_buffer[p] = b => p_mark'[p] >= IFixMarks(p_mark[p], d, Len(new))
  /\ UNCHANGED <<outq, written, kills, child, p_buffer, io>>
  /\ \A p \in Proc : /\ cs[p] = "dead" => cs'[p] = "dead"
                     /\ cs'[p] = "dead" => cs[p] = "dead" \/ outq[p] = <<>>

(* That leaves the texts right.                                            *)
LEMMA TextsInserted ==
  ASSUME Tables, Texts, pc # "exit",
         NEW b \in Buf, NEW d \in 0..Len(text[b]), NEW new \in Seq(Item), Inserts(b, d, new)
  PROVE  Texts'
<1> USE DEF Inserts
<1> PICK t : t = text[b]
  OBVIOUS
<1>0. text \in [Buf -> Seq(Item)] /\ t \in Seq(Item) /\ Len(t) \in Nat /\ Len(new) \in Nat /\ d \in 0..Len(t)
  BY DEF Texts, TextsType
<1>1. PICK r : r = Insertion(t, d, new)
  OBVIOUS
<1>2. text' = [text EXCEPT ![b] = r]
  BY <1>1
<1>3. text'[b] = r /\ \A c \in Buf \ {b} : text'[c] = text[c]
  BY <1>0, <1>2
<1>4. /\ r \in Seq(Item) /\ Len(r) = Len(t) + Len(new)
      /\ \A k \in 1..Len(t) : Moved(k, d, Len(new)) \in 1..Len(r) /\ r[Moved(k, d, Len(new))] = t[k]
      /\ \A k \in 1..Len(new) : d + k \in 1..Len(r) /\ r[d + k] = new[k]
      /\ \A k \in 1..Len(r) : \/ \E i \in 1..Len(t) : k = Moved(i, d, Len(new))
                              \/ \E i \in 1..Len(new) : k = d + i
  <2>1. Spliced(Item, r, t, d, new)
    BY ONLY <1>0, <1>1, new \in Seq(Item), InsertionProperties
  <2> QED BY ONLY <2>1 DEF Spliced
<1>5. \A k \in 1..Len(r) : (\E i \in 1..Len(t) : r[k] = t[i]) \/ (\E i \in 1..Len(new) : r[k] = new[i])
  <2> TAKE k \in 1..Len(r)
  <2>1. ASSUME NEW i \in 1..Len(t), k = Moved(i, d, Len(new)) PROVE r[k] = t[i]
    BY <2>1, <1>4, Zenon
  <2>2. ASSUME NEW i \in 1..Len(new), k = d + i PROVE r[k] = new[i]
    BY <2>2, <1>4, Zenon
  <2> QED BY <2>1, <2>2, <1>4, ZenonT(60)
<1>6. \A k \in 1..Len(new), p \in Proc : ~IsOut(p, new[k])
  BY DEF IsOut
<1>7. TextsType'
  BY <1>0, <1>2, <1>4 DEF Texts, TextsType
<1>8. InPty' /\ NoneLeft'
  BY DEF Texts, InPty, NoneLeft, io_eofed
<1>9. DeadSilent'
  <2> SUFFICES ASSUME NEW p \in Proc, cs'[p] = "dead", NEW k \in 1..Len(outq[p])
               PROVE  outq[p][k][4] = "others"
    BY DEF DeadSilent
  <2>1. outq[p] # <<>>
    OBVIOUS
  <2> QED BY <2>1 DEF Texts, DeadSilent
<1>10. NothingYet'
  <2> SUFFICES ASSUME NEW p \in Proc, child[p] = "unborn"
               PROVE  written'[p] = 0 /\ \A c \in Buf : \A k \in 1..Len(text'[c]) : ~IsOut(p, text'[c][k])
    BY DEF NothingYet
  <2>1. written[p] = 0 /\ \A c \in Buf : \A k \in 1..Len(text[c]) : ~IsOut(p, text[c][k])
    BY DEF Texts, NothingYet
  <2>2. \A k \in 1..Len(r) : ~IsOut(p, r[k])
    BY <2>1, <1>5, <1>6, ZenonT(60)
  <2> QED BY <2>1, <2>2, <1>3
<1>11. ObitKnown'
  <2>1. \A p \in Proc, c \in Buf : \A k \in 1..Len(text[c]) : text[c][k] = Obit(p) => cs'[p] = "dead"
    BY DEF Texts, ObitKnown
  <2>3. \A p \in Proc, i \in 1..Len(t) : t[i] = Obit(p) => cs'[p] = "dead"
    BY <2>1
  <2>2. \A p \in Proc, k \in 1..Len(r) : r[k] = Obit(p) => cs'[p] = "dead"
    <3> SUFFICES ASSUME NEW p \in Proc, NEW k \in 1..Len(r), r[k] = Obit(p) PROVE cs'[p] = "dead"
      OBVIOUS
    <3>1. ASSUME NEW i \in 1..Len(t), r[k] = t[i] PROVE cs'[p] = "dead"
      BY <3>1, <2>3
    <3>2. CASE \E i \in 1..Len(new) : r[k] = new[i]
      BY <3>2
    <3> QED BY <3>1, <3>2, <1>5
  <2> QED BY <2>1, <2>2, <1>3 DEF ObitKnown
<1>12. MarkInText'
  <2> SUFFICES ASSUME NEW p \in Proc, p_buffer[p] # NULL
               PROVE  p_mark'[p] <= Len(text'[p_buffer[p]])
    BY DEF MarkInText
  <2>1. CASE p_buffer[p] # b
    <3>1. p_buffer[p] \in Buf \ {b}
      BY <2>1 DEF Tables, TablesType
    <3> QED BY <2>1, <3>1, <1>3 DEF Texts, MarkInText
  <2> QED BY <2>1
<1>13. InOrder'
  <2> SUFFICES ASSUME kills = 0, NEW p \in Proc
               PROVE  /\ ~big'[p]
                      /\ p_buffer[p] # NULL =>
                           Order(p, text'[p_buffer[p]], p_mark'[p], written[p] - Len(outq[p]))
    BY DEF InOrder
  <2>1. ~big[p] /\ (p_buffer[p] # NULL =>
          Order(p, text[p_buffer[p]], p_mark[p], written[p] - Len(outq[p])))
    BY DEF Texts, InOrder
  <2>2. CASE p_buffer[p] = b
    <3>1. written[p] - Len(outq[p]) \in Nat
      BY DEF Texts, InPty, TextsType
    <3>2. p_mark[p] \in Nat /\ p_mark'[p] \in Nat
      BY DEF Texts, TextsType
    <3>3. p_buffer[p] # NULL /\ Order(p, t, p_mark[p], written[p] - Len(outq[p]))
      BY <2>1, <2>2
    <3>4. \A k \in 1..Len(new) : ~IsOut(p, new[k]) /\ (new[k] = Obit(p) => d = Len(t))
      BY <1>6
    <3>5. p_mark'[p] >= IFixMarks(p_mark[p], d, Len(new))
      BY <2>2
    <3>6. Order(p, r, p_mark'[p], written[p] - Len(outq[p]))
      <4>1. PICK m : m = p_mark[p]
        OBVIOUS
      <4>2. PICK mm : mm = p_mark'[p]
        OBVIOUS
      <4>3. PICK n : n = written[p] - Len(outq[p])
        OBVIOUS
      <4>4. /\ t \in Seq(Item) /\ new \in Seq(Item) /\ d \in 0..Len(t) /\ m \in Nat /\ mm \in Nat
            /\ n \in Nat /\ Order(p, t, m, n) /\ mm >= IFixMarks(m, d, Len(new))
        BY <1>0, <3>1, <3>2, <3>3, <3>5, <4>1, <4>2, <4>3
      <4>5. Order(p, r, mm, n)
        BY ONLY <4>4, <3>4, <1>1, InsertKeepsOrder
      <4> QED BY <4>2, <4>3, <4>5
    <3> QED BY <2>1, <2>2, <3>6, <1>3
  <2>3. CASE p_buffer[p] # b
    <3>1. p_buffer[p] # NULL => text'[p_buffer[p]] = text[p_buffer[p]]
      BY <2>3, <1>3 DEF Tables, TablesType
    <3> QED BY <2>1, <2>3, <3>1
  <2> QED BY <2>2, <2>3
<1> QED
  BY <1>7, <1>8, <1>9, <1>10, <1>11, <1>12, <1>13 DEF Texts

(* Output is read into the buffer of a process: all that is in the pty.    *)
LEMMA TextsRead ==
  ASSUME Tables, Texts, pc # "exit", pc' # "exit",
         NEW p \in Proc, p \in procs, ~io_eofed(p), read_pty_proc(p),
         p_buffer[p] # NULL,
         UNCHANGED <<written, typed, kills, child, p_buffer, cs>>
  PROVE  Texts'
<1>1. CASE outq[p] = <<>>
  <2>1. UNCHANGED <<text, dot, p_mark, big, outq>>
    BY <1>1 DEF read_pty_proc, bufs
  <2>2. \A o \in Proc : io_eofed(o)' => outq[o] = <<>>
    BY <1>1 DEF read_pty_proc, proc_close, Texts, NoneLeft, io_eofed, Tables, TablesType
  <2>3. TextsType' /\ InPty' /\ NothingYet' /\ DeadSilent' /\ ObitKnown' /\ MarkInText'
    BY <2>1 DEF Texts, TextsType, InPty, NothingYet, DeadSilent, ObitKnown, MarkInText
  <2>4. InOrder'
    BY <2>1 DEF Texts, InOrder
  <2> QED BY <2>1, <2>2, <2>3, <2>4 DEF Texts, NoneLeft
<1>2. CASE outq[p] # <<>>
  <2> PICK b : b = p_buffer[p]
    OBVIOUS
  <2> PICK t : t = text[b]
    OBVIOUS
  <2> PICK m : m = p_mark[p]
    OBVIOUS
  <2> PICK new : new = outq[p]
    OBVIOUS
  <2>1. /\ b \in Buf /\ b # NULL /\ m \in Nat
        /\ t \in Seq(Item) /\ Len(t) \in Nat /\ new \in Seq(Item) /\ Len(new) \in Nat
        /\ text \in [Buf -> Seq(Item)] /\ outq \in [Proc -> Seq(Item)] /\ p_mark \in [Proc -> Nat]
        /\ dot \in [Buf -> Nat]
    BY DEF Texts, TextsType, Tables, TablesType
  <2>2. m \in 0..Len(t) /\ \A c \in Buf : dot[c] <= Len(text[c])
    BY <2>1 DEF Texts, MarkInText, TextsType
  <2>3. PICK r : r = Insertion(t, m, new)
    OBVIOUS
  <2>4. /\ text' = [text EXCEPT ![b] = r]
        /\ p_mark' = [p_mark EXCEPT ![p] = m + Len(new)]
        /\ dot' = [dot EXCEPT ![b] = IF @ = m THEN m + Len(new) ELSE IFixMarks(@, m, Len(new))]
        /\ outq' = [outq EXCEPT ![p] = <<>>]
        /\ io' = [io EXCEPT ![p] = "running"]
        /\ UNCHANGED big
    BY <1>2, <2>3 DEF read_pty_proc, proc_rec
  <2>5. /\ text'[b] = r /\ \A c \in Buf \ {b} : text'[c] = text[c]
        /\ outq'[p] = <<>> /\ \A o \in Proc \ {p} : outq'[o] = outq[o]
        /\ p_mark'[p] = m + Len(new) /\ \A o \in Proc \ {p} : p_mark'[o] = p_mark[o]
    BY <2>1, <2>4
  <2>6. /\ r \in Seq(Item) /\ Len(r) = Len(t) + Len(new)
        /\ \A k \in 1..Len(t) : Moved(k, m, Len(new)) \in 1..Len(r) /\ r[Moved(k, m, Len(new))] = t[k]
        /\ \A k \in 1..Len(new) : m + k \in 1..Len(r) /\ r[m + k] = new[k]
        /\ \A k \in 1..Len(r) : \/ \E i \in 1..Len(t) : k = Moved(i, m, Len(new))
                                \/ \E i \in 1..Len(new) : k = m + i
    <3>1. t \in Seq(Item) /\ new \in Seq(Item) /\ m \in 0..Len(t)
      BY <2>1, <2>2
    <3>2. Spliced(Item, r, t, m, new)
      BY ONLY <3>1, <2>3, InsertionProperties
    <3> QED BY ONLY <3>2 DEF Spliced
  <2>7. \A k \in 1..Len(r) : (\E i \in 1..Len(t) : r[k] = t[i]) \/ (\E i \in 1..Len(new) : r[k] = new[i])
    <3> TAKE k \in 1..Len(r)
    <3>1. ASSUME NEW i \in 1..Len(t), k = Moved(i, m, Len(new)) PROVE r[k] = t[i]
      BY <3>1, <2>6, Zenon
    <3>2. ASSUME NEW i \in 1..Len(new), k = m + i PROVE r[k] = new[i]
      BY <3>2, <2>6, Zenon
    <3> QED BY <3>1, <3>2, <2>6, ZenonT(60)
  <2>8. /\ Len(new) <= written[p] /\ written[p] \in Nat
        /\ \A k \in 1..Len(new) : IsOut(p, new[k]) /\ new[k][3] = written[p] - Len(new) + k - 1
    BY DEF Texts, InPty, TextsType
  <2>9. \A o \in Proc : p_buffer[o] = b => o = p
    BY <2>1 DEF Tables, NoDangling, InList
  <2>10. TextsType'
    <3>1. \A c \in Buf : dot'[c] \in Nat /\ dot'[c] <= Len(text'[c])
      BY <2>1, <2>2, <2>4, <2>5, <2>6 DEF IFixMarks
    <3>2. text' \in [Buf -> Seq(Item)] /\ dot' \in [Buf -> Nat]
      BY <2>1, <2>4, <2>6, <3>1
    <3>3. p_mark' \in [Proc -> Nat] /\ outq' \in [Proc -> Seq(Item)]
      BY <2>1, <2>4
    <3> QED BY <2>4, <3>1, <3>2, <3>3 DEF Texts, TextsType
  <2>11. InPty'
    BY <2>5, <2>8 DEF Texts, InPty
  <2>12. NothingYet'
    <3>1. child[p] # "unborn"
      BY DEF Tables, Unborn
    <3>2. ASSUME NEW o \in Proc, child[o] = "unborn", NEW k \in 1..Len(r) PROVE ~IsOut(o, r[k])
      <4>1. \A i \in 1..Len(t) : ~IsOut(o, t[i])
        BY <3>2, <2>1 DEF Texts, NothingYet
      <4>2. \A i \in 1..Len(new) : ~IsOut(o, new[i])
        BY <3>1, <3>2, <2>8 DEF IsOut
      <4> QED BY <4>1, <4>2, <2>7
    <3> QED BY <3>2, <2>5 DEF Texts, NothingYet
  <2>13. DeadSilent' /\ NoneLeft'
    <3>1. DeadSilent'
      BY <2>5 DEF Texts, DeadSilent
    <3>2. io'[p] = "running" /\ \A o \in Proc \ {p} : io'[o] = io[o]
      BY <2>4 DEF Tables, TablesType
    <3> QED BY <3>1, <3>2, <2>5 DEF Texts, NoneLeft, io_eofed
  <2>14. ObitKnown'
    <3>1. ASSUME NEW o \in Proc, NEW k \in 1..Len(r), r[k] = Obit(o) PROVE cs[o] = "dead"
      <4>1. \A i \in 1..Len(t) : t[i] = Obit(o) => cs[o] = "dead"
        BY <2>1 DEF Texts, ObitKnown
      <4>2. ASSUME NEW i \in 1..Len(new), r[k] = new[i] PROVE FALSE
        <5>1. new[i][1] = "out"
          BY <2>8 DEF IsOut
        <5>2. Obit(o)[1] = "obit"
          BY DEF Obit
        <5> QED BY <3>1, <4>2, <5>1, <5>2
      <4> QED BY <3>1, <4>1, <4>2, <2>7
    <3> QED BY <3>1, <2>5 DEF Texts, ObitKnown
  <2>15. MarkInText'
    <3>1. m + Len(new) <= Len(r)
      BY <2>1, <2>2, <2>6
    <3>2. ASSUME NEW o \in Proc \ {p}, p_buffer[o] # NULL PROVE p_mark'[o] <= Len(text'[p_buffer[o]])
      <4>1. p_buffer[o] \in Buf \ {b}
        BY <3>2, <2>9 DEF Tables, TablesType
      <4> QED BY <3>2, <4>1, <2>5 DEF Texts, MarkInText
    <3> QED BY <3>1, <3>2, <2>5 DEF MarkInText
  <2>16. InOrder'
    <3> SUFFICES ASSUME kills = 0 PROVE InOrder'
      BY DEF InOrder
    <3>1. \A o \in Proc : ~big'[o]
      BY <2>4 DEF Texts, InOrder
    <3>2. ASSUME NEW o \in Proc \ {p}, p_buffer[o] # NULL
          PROVE  Order(o, text'[p_buffer[o]], p_mark'[o], written[o] - Len(outq'[o]))
      <4>1. p_buffer[o] \in Buf \ {b}
        BY <3>2, <2>9 DEF Tables, TablesType
      <4> QED BY <3>2, <4>1, <2>5 DEF Texts, InOrder
    <3>3. Order(p, r, m + Len(new), written[p] - 0)
      <4>1. PICK n : n = written[p] - Len(new)
        OBVIOUS
      <4>2. n \in Nat /\ n + Len(new) = written[p]
        BY <4>1, <2>1, <2>8
      <4>3. Order(p, t, m, n)
        BY <4>1, <2>1 DEF Texts, InOrder
      <4>4. \A k \in 1..Len(new) : IsOut(p, new[k]) /\ new[k][3] = n + k - 1
        BY <4>1, <2>8
      <4>5. \A j \in 1..Len(t) : t[j] = Obit(p) => \A k \in 1..Len(new) : new[k][4] = "others"
        BY <2>1 DEF Texts, ObitKnown, DeadSilent
      <4>6. t \in Seq(Item) /\ new \in Seq(Item) /\ m \in 0..Len(t)
        BY <2>1, <2>2
      <4>7. Order(p, r, m + Len(new), n + Len(new))
        BY ONLY <4>2, <4>3, <4>4, <4>5, <4>6, <2>3, ReadKeepsOrder
      <4> QED BY <4>2, <4>7, <2>8
    <3>4. Len(outq'[p]) = 0
      BY <2>5
    <3> QED BY <3>1, <3>2, <3>3, <3>4, <2>5 DEF InOrder
  <2> QED
    BY <2>10, <2>11, <2>12, <2>13, <2>14, <2>15, <2>16 DEF Texts
<1> QED BY <1>1, <1>2

(* What JOVE does of itself, or on a key, leaves the texts right.          *)
LEMMA TextsJove == Tables /\ Texts /\ (Jove \/ Key \/ Ticks) => Texts'
<1> SUFFICES ASSUME Tables, Texts, Jove \/ Key \/ Ticks PROVE Texts'
  OBVIOUS
<1>t. TablesType
  BY DEF Tables
<1> USE DEF kernel, tied, ctl, bufs, ghosts, io_eofed, Goto, Loop
<1>1. CASE EnterSelect
  BY <1>1, TextsFrame DEF EnterSelect
<1>2. ASSUME NEW k \in BOOLEAN, SelectReturns(k) PROVE Texts'
  BY <1>2, TextsFrame DEF SelectReturns
<1>3. CASE ReadReady
  <2>1. PICK p \in ready : /\ pc = "ready" /\ read_pty_proc(p) /\ pc' # "exit"
                          /\ UNCHANGED <<written, typed, kills, child, p_buffer, cs>>
    BY <1>3 DEF ReadReady
  <2>2. p \in Proc /\ p \in procs /\ ~io_eofed(p) /\ p_buffer[p] # NULL
    BY <2>1 DEF Tables, TablesType, AllReady, NoDangling, dead
  <2> QED BY <2>1, <2>2, TextsRead
<1>4. CASE Reap
  BY <1>4, <1>t, TextsFrame DEF Reap, kill_off, TablesType, Tables, Buried
<1>5. CASE ReapNone
  BY <1>5, TextsFrame DEF ReapNone
<1>6. CASE ReapOver
  BY <1>6, TextsFrame DEF ReapOver
<1>7. CASE Drain
  <2>1. /\ pc = "drain" /\ read_pty_proc(at) /\ pc' # "exit" /\ readable(at)
        /\ UNCHANGED <<written, typed, kills, child, p_buffer, cs>>
    BY <1>7 DEF Drain
  <2>2. at \in Proc /\ at \in procs /\ ~io_eofed(at) /\ p_buffer[at] # NULL
    BY <2>1 DEF readable, Tables, TablesType, Draining, NoDangling, dead, child_dead
  <2> QED BY <2>1, <2>2, TextsRead
<1>8. CASE obituary
  <2>1. /\ pc = "drain" /\ ~readable(at) /\ cs' = [cs EXCEPT ![at] = "dead"]
        /\ text' = [text EXCEPT ![p_buffer[at]] = Append(@, Obit(at))]
        /\ UNCHANGED <<outq, written, child, p_buffer, io, p_mark, big, dot, typed, kills>>
    BY <1>8 DEF obituary
  <2> PICK b : b = p_buffer[at]
    OBVIOUS
  <2>2. /\ at \in Proc /\ at \in procs /\ b \in Buf
    BY <2>1 DEF Tables, TablesType, Draining, NoDangling, dead, child_dead
  <2>3. outq[at] = <<>>
    BY <2>1, <2>2 DEF readable, Texts, NoneLeft
  <2>4. text[b] \in Seq(Item) /\ Len(text[b]) \in Nat /\ Obit(at) \in Item
    BY <2>2, Items DEF Texts, TextsType
  <2>5. PICK new : new = <<Obit(at)>>
    OBVIOUS
  <2>6. new \in Seq(Item) /\ Len(new) = 1 /\ new[1] = Obit(at)
    BY <2>4, <2>5
  <2>7. Append(text[b], Obit(at)) = Insertion(text[b], Len(text[b]), new)
    BY <2>4, <2>5, AppendAtEnd
  <2>8. text' = [text EXCEPT ![b] = Insertion(@, Len(text[b]), new)]
    BY <2>1, <2>7
  <2>9. cs'[at] = "dead" /\ \A p \in Proc \ {at} : cs'[p] = cs[p]
    BY <2>1, <2>2, <1>t DEF TablesType
  <2>10. \A k \in 1..Len(new) : /\ new[k][1] # "out"
                               /\ \A p \in Proc : new[k] = Obit(p) => cs'[p] = "dead"
    <3> SUFFICES ASSUME NEW k \in 1..Len(new)
                 PROVE  new[k][1] # "out" /\ \A p \in Proc : new[k] = Obit(p) => cs'[p] = "dead"
      OBVIOUS
    <3>1. new[k] = Obit(at)
      BY <2>6
    <3>2. ASSUME NEW p \in Proc, new[k] = Obit(p) PROVE p = at
      <4>1. Obit(p)[2] = p /\ Obit(at)[2] = at
        BY NoOutput
      <4> QED BY <3>1, <3>2, <4>1
    <3> QED BY <3>1, <3>2, <2>9, NoOutput
  <2>11. Len(text'[b]) = Len(text[b]) + 1 /\ \A c \in Buf \ {b} : text'[c] = text[c]
    BY <2>1, <2>2, <2>4 DEF Texts, TextsType
  <2>12. \A c \in Buf : dot'[c] <= Len(text'[c])
    BY <2>1, <2>2, <2>4, <2>11 DEF Texts, TextsType
  <2>13. /\ dot' \in [Buf -> Nat] /\ p_mark' \in [Proc -> Nat] /\ big' \in [Proc -> BOOLEAN]
         /\ typed' \in Nat
    BY <2>1 DEF Texts, TextsType
  <2> PICK d : d = Len(text[b])
    OBVIOUS
  <2>14. ASSUME NEW p \in Proc, p_buffer[p] = b
         PROVE  p_mark'[p] <= Len(text'[b]) /\ p_mark'[p] >= IFixMarks(p_mark[p], d, Len(new))
    <3>1. p_mark[p] \in Nat /\ p_mark[p] <= d /\ p_mark'[p] = p_mark[p]
      BY <2>14, <2>1, <2>2 DEF Texts, TextsType, MarkInText
    <3>2. IFixMarks(p_mark[p], d, Len(new)) = p_mark[p]
      BY <3>1, <2>4 DEF IFixMarks
    <3> QED BY <3>1, <3>2, <2>4, <2>11
  <2>15. \A p \in Proc : /\ cs[p] = "dead" => cs'[p] = "dead"
                         /\ cs'[p] = "dead" => cs[p] = "dead" \/ outq[p] = <<>>
    BY <2>3, <2>9
  <2>16. Inserts(b, d, new)
    BY <2>1, <2>8, <2>10, <2>12, <2>13, <2>14, <2>15 DEF Inserts
  <2>17. d \in 0..Len(text[b]) /\ pc # "exit" /\ b \in Buf /\ new \in Seq(Item)
    BY <2>1, <2>2, <2>4, <2>6
  <2> QED BY <2>16, <2>17, TextsInserted
<1>9. CASE proc_write
  BY <1>9, TextsFrame DEF proc_write
<1>10. CASE ReadPipe
  BY <1>10, TextsFrame DEF ReadPipe
<1>11. CASE dowait
  BY <1>11, TextsFrame DEF dowait, Done
<1>12. CASE dowaitOther
  BY <1>12, <1>t, TextsFrame DEF dowaitOther, kill_off, TablesType, Tables, Buried
<1>13. ASSUME NEW p \in Proc, Clock(p) PROVE Texts'
  BY <1>13, <1>t, TextsFrame DEF Clock, TablesType
<1> QED
  BY <1>1, <1>2, <1>3, <1>4, <1>5, <1>6, <1>7, <1>8, <1>9, <1>10, <1>11, <1>12, <1>13
  DEF Jove, Key, Ticks

(* What an insertion does to the lengths.                                  *)
LEMMA TextAfter ==
  ASSUME Texts, NEW b \in Buf, NEW d \in 0..Len(text[b]), NEW new \in Seq(Item),
         text' = [text EXCEPT ![b] = Insertion(@, d, new)]
  PROVE  /\ text[b] \in Seq(Item) /\ Len(text[b]) \in Nat /\ Len(new) \in Nat
         /\ Len(text'[b]) = Len(text[b]) + Len(new)
         /\ \A c \in Buf \ {b} : text'[c] = text[c]
<1>1. text \in [Buf -> Seq(Item)] /\ text[b] \in Seq(Item)
  BY DEF Texts, TextsType
<1>2. PICK r : r = Insertion(text[b], d, new)
  OBVIOUS
<1>3. Len(r) = Len(text[b]) + Len(new)
  <2>1. Spliced(Item, r, text[b], d, new)
    BY <1>1, <1>2, InsertionProperties
  <2> QED BY ONLY <2>1 DEF Spliced
<1>4. text'[b] = r /\ \A c \in Buf \ {b} : text'[c] = text[c]
  BY <1>1, <1>2
<1> QED BY <1>1, <1>3, <1>4

(* A movement of the point.                                                *)
LEMMA TextsMoveTo ==
  ASSUME Tables, Texts, NEW b \in Buf, NEW d \in {0, Len(text[b])}, MoveTo(b, d)
  PROVE  Texts'
<1>1. /\ dot' = [dot EXCEPT ![b] = d] /\ pc # "exit"
      /\ UNCHANGED <<text, p_mark, big, outq, written, typed, kills, child, cs, p_buffer, io>>
  BY DEF MoveTo, Command, kernel, tied, ghosts
<1>2. dot' \in [Buf -> Nat] /\ \A c \in Buf : dot'[c] <= Len(text[c])
  BY <1>1 DEF Texts, TextsType
<1>3. TextsType' /\ InPty' /\ NothingYet'
  BY <1>1, <1>2 DEF Texts, TextsType, InPty, NothingYet
<1>4. DeadSilent' /\ NoneLeft' /\ ObitKnown'
  BY <1>1 DEF Texts, DeadSilent, NoneLeft, ObitKnown, io_eofed
<1>5. MarkInText' /\ InOrder'
  BY <1>1 DEF Texts, MarkInText, InOrder
<1> QED BY <1>3, <1>4, <1>5 DEF Texts

(* A character typed.                                                      *)
LEMMA TextsTyped ==
  ASSUME Tables, Texts, NEW b \in Buf, Type(b)
  PROVE  Texts'
<1> PICK new : new = <<Typed>>
  OBVIOUS
<1> PICK d : d = dot[b]
  OBVIOUS
<1>1. /\ text' = [text EXCEPT ![b] = Insertion(@, d, new)]
      /\ p_mark' = [p \in Proc |-> IF p_buffer[p] = b THEN IFixMarks(p_mark[p], d, Len(new))
                                   ELSE p_mark[p]]
      /\ dot' = [dot EXCEPT ![b] = @ + Len(new)]
      /\ typed' = typed + 1 /\ pc # "exit"
      /\ UNCHANGED <<big, outq, written, kills, child, cs, p_buffer, io>>
  BY DEF Type, Inserted, Command, kernel, tied
<1>2. new \in Seq(Item) /\ Len(new) = 1 /\ new[1] = Typed
  BY Items
<1>3. text[b] \in Seq(Item) /\ Len(text[b]) \in Nat /\ d \in 0..Len(text[b])
  BY DEF Texts, TextsType
<1>4. Len(text'[b]) = Len(text[b]) + 1 /\ \A c \in Buf \ {b} : text'[c] = text[c]
  BY <1>1, <1>2, <1>3, TextAfter, ZenonT(60)
<1>5. \A k \in 1..Len(new) : new[k][1] # "out" /\ \A p \in Proc : new[k] # Obit(p)
  BY <1>2, NoOutput
<1>6. dot' \in [Buf -> Nat] /\ \A c \in Buf : dot'[c] <= Len(text'[c])
  BY <1>1, <1>2, <1>3, <1>4 DEF Texts, TextsType
<1>7. ASSUME NEW p \in Proc
      PROVE  /\ p_mark'[p] \in Nat
             /\ p_buffer[p] = b => p_mark'[p] <= Len(text'[b])
  <2>1. p_mark[p] \in Nat /\ (p_buffer[p] = b => p_mark[p] <= Len(text[b]))
    BY DEF Texts, TextsType, MarkInText
  <2> QED BY <2>1, <1>1, <1>2, <1>3, <1>4 DEF IFixMarks
<1>8. p_mark' \in [Proc -> Nat]
  BY <1>1, <1>7
<1>9. \A p \in Proc : p_buffer[p] = b => p_mark'[p] >= IFixMarks(p_mark[p], d, Len(new))
  BY <1>1, <1>7
<1>10. /\ big' \in [Proc -> BOOLEAN] /\ typed' \in Nat
       /\ \A p \in Proc : p_buffer[p] # b => p_mark'[p] = p_mark[p]
  BY <1>1 DEF Texts, TextsType
<1>11. Inserts(b, d, new)
  BY <1>1, <1>5, <1>6, <1>7, <1>8, <1>9, <1>10 DEF Inserts
<1> QED BY <1>1, <1>2, <1>3, <1>11, TextsInserted

(* Lines deleted and yanked back.                                          *)
LEMMA TextsKillAndYank ==
  ASSUME Tables, Texts, NEW b \in Buf, NEW i \in 0..Len(text[b]), NEW j \in 0..Len(text[b]),
         KillAndYank(b, i, j)
  PROVE  Texts'
<1>1. /\ i < j /\ pc # "exit"
      /\ big' = [p \in Proc |-> big[p] \/ (p_buffer[p] = b /\ p_mark[p] \in i + 1..j)]
      /\ p_mark' = [p \in Proc |-> IF p_buffer[p] = b
                               THEN IFixMarks(DFixMarks(p_mark[p], i, j), i, j - i)
                               ELSE p_mark[p]]
      /\ dot' = [dot EXCEPT ![b] = j] /\ kills' = kills + 1
      /\ UNCHANGED <<text, outq, written, typed, child, cs, p_buffer, io>>
  BY DEF KillAndYank, Command, kernel, tied
<1>2. Len(text[b]) \in Nat
  BY DEF Texts, TextsType
<1>3. ASSUME NEW p \in Proc
      PROVE  p_mark'[p] \in Nat /\ (p_buffer[p] = b => p_mark'[p] <= Len(text[b]))
  <2>1. p_mark[p] \in Nat /\ (p_buffer[p] = b => p_mark[p] <= Len(text[b]))
    BY DEF Texts, TextsType, MarkInText
  <2>2. p_mark'[p] = IF p_buffer[p] = b THEN IFixMarks(DFixMarks(p_mark[p], i, j), i, j - i)
                                       ELSE p_mark[p]
    BY <1>1
  <2>3. PICK m, n, v : m = p_mark[p] /\ n = Len(text[b])
                       /\ v = IFixMarks(DFixMarks(m, i, j), i, j - i)
    OBVIOUS
  <2>4. n \in Nat /\ i \in 0..n /\ j \in 0..n /\ i < j
    BY <2>3, <1>1, <1>2
  <2>5. m \in Nat => v \in Nat /\ (m <= n => v <= n)
    BY ONLY <2>3, <2>4 DEF IFixMarks, DFixMarks
  <2> QED BY ONLY <2>1, <2>2, <2>3, <2>5
<1>4. TextsType'
  <2>0. text \in [Buf -> Seq(Item)] /\ dot \in [Buf -> Nat] /\ outq \in [Proc -> Seq(Item)]
        /\ written \in [Proc -> Nat] /\ typed \in Nat /\ kills \in Nat
        /\ \A c \in Buf : dot[c] <= Len(text[c])
    BY DEF Texts, TextsType
  <2>1. dot' \in [Buf -> Nat] /\ \A c \in Buf : dot'[c] <= Len(text[c])
    BY <2>0, <1>1, <1>2
  <2>2. p_mark' \in [Proc -> Nat]
    BY <1>1, <1>3
  <2>3. big' \in [Proc -> BOOLEAN]
    BY <1>1
  <2>4. kills' \in Nat
    BY <2>0, <1>1
  <2> QED BY <2>0, <2>1, <2>2, <2>3, <2>4, <1>1 DEF TextsType
<1>5. InPty' /\ NothingYet' /\ DeadSilent' /\ NoneLeft' /\ ObitKnown'
  <2>1. InPty'
    BY <1>1 DEF Texts, InPty
  <2>2. NothingYet' /\ DeadSilent'
    BY <1>1 DEF Texts, NothingYet, DeadSilent
  <2>3. NoneLeft'
    BY <1>1 DEF Texts, NoneLeft, io_eofed
  <2>4. ObitKnown'
    BY <1>1 DEF Texts, ObitKnown
  <2> QED BY <2>1, <2>2, <2>3, <2>4
<1>6. MarkInText'
  BY <1>1, <1>3 DEF Texts, MarkInText
<1>7. InOrder'
  BY <1>1 DEF Texts, TextsType, InOrder
<1> QED BY <1>4, <1>5, <1>6, <1>7 DEF Texts

(* A command in the buffer of a process finds that process alone there.    *)
LEMMA OnlyProcess ==
  ASSUME Tables, NEW b \in Buf, b_process[b] # NULL
  PROVE  b_process[b] \in Proc /\ \A q \in Proc : p_buffer[q] = b <=> q = b_process[b]
BY DEF Tables, TablesType, NoDangling, InList

(* SendData appends something for the process p of the buffer, whose mark  *)
(* it sets to m.                                                           *)
Appends(b, p, m, new) ==
  /\ text' = [text EXCEPT ![b] = @ \o new]
  /\ p_mark' = [p_mark EXCEPT ![p] = m]
  /\ dot' = [dot EXCEPT ![b] = Len(text[b]) + Len(new)]
  /\ big' = [big EXCEPT ![p] = FALSE] /\ typed' \in Nat
  /\ m <= Len(text[b]) + Len(new) /\ (kills = 0 => m >= p_mark[p])
  /\ \A k \in 1..Len(new) : new[k][1] # "out" /\ \A q \in Proc : new[k] # Obit(q)
  /\ \A q \in Proc : p_buffer[q] = b <=> q = p
  /\ UNCHANGED <<outq, written, kills, child, cs, p_buffer, io>>

(* That leaves the texts right.                                            *)
LEMMA TextsAppended ==
  ASSUME Tables, Texts, pc # "exit", NEW b \in Buf, NEW new \in Seq(Item), NEW p \in Proc,
         NEW m \in Nat, Appends(b, p, m, new)
  PROVE  Texts'
<1>1. text \in [Buf -> Seq(Item)] /\ text[b] \in Seq(Item)
  BY DEF Texts, TextsType
<1> PICK d : d = Len(text[b])
  OBVIOUS
<1>2. d \in Nat /\ d \in 0..Len(text[b]) /\ Len(new) \in Nat
  BY <1>1
<1>3. text' = [text EXCEPT ![b] = Insertion(@, d, new)]
  BY <1>1, ConcatAtEnd DEF Appends
<1>4. Len(text'[b]) = d + Len(new) /\ \A c \in Buf \ {b} : text'[c] = text[c]
  <2>1. b \in Buf /\ new \in Seq(Item)
    OBVIOUS
  <2>2. Len(text'[b]) = Len(text[b]) + Len(new) /\ \A c \in Buf \ {b} : text'[c] = text[c]
    BY ONLY Texts, <1>2, <1>3, <2>1, TextAfter
  <2> QED BY <2>2
<1>5. dot' \in [Buf -> Nat] /\ \A c \in Buf : dot'[c] <= Len(text'[c])
  BY <1>2, <1>4 DEF Texts, TextsType, Appends
<1>6. /\ p_mark' \in [Proc -> Nat] /\ big' \in [Proc -> BOOLEAN] /\ typed' \in Nat
      /\ \A q \in Proc : (q # p => p_mark'[q] = p_mark[q]) /\ (big'[q] => big[q])
      /\ p_mark'[p] = m
  BY DEF Texts, TextsType, Appends
<1>7. p_mark[p] \in Nat /\ p_mark[p] <= d
  <2>1. p_buffer[p] = b /\ b # NULL
    BY DEF Appends
  <2> QED BY <2>1 DEF Texts, TextsType, MarkInText
<1>8. IFixMarks(p_mark[p], d, Len(new)) = p_mark[p]
  BY <1>2, <1>7 DEF IFixMarks
<1>9. p_mark'[p] <= Len(text'[b]) /\ (kills = 0 => p_mark'[p] >= IFixMarks(p_mark[p], d, Len(new)))
  BY <1>4, <1>6, <1>8 DEF Appends
<1>10. /\ \A k \in 1..Len(new) : new[k][1] # "out" /\ \A q \in Proc : new[k] # Obit(q)
       /\ \A q \in Proc : p_buffer[q] = b <=> q = p
       /\ UNCHANGED <<outq, written, kills, child, cs, p_buffer, io>>
  BY DEF Appends
<1>11. Inserts(b, d, new)
  BY ONLY p \in Proc, <1>3, <1>5, <1>6, <1>9, <1>10 DEF Inserts
<1> QED BY <1>2, <1>11, TextsInserted

(* SendData at the end of the buffer.                                      *)
LEMMA TextsSendData ==
  ASSUME Tables, Texts, NEW b \in Buf, NEW nl \in {<<>>, <<Newline(typed)>>}, SendData(b, nl)
  PROVE  Texts'
<1> PICK p : p = b_process[b]
  OBVIOUS
<1> PICK m : m = Len(text[b]) + Len(nl)
  OBVIOUS
<1>1. /\ text' = [text EXCEPT ![b] = @ \o nl]
      /\ p_mark' = [p_mark EXCEPT ![p] = m]
      /\ dot' = [dot EXCEPT ![b] = Len(text[b]) + Len(nl)]
      /\ big' = [big EXCEPT ![p] = FALSE]
      /\ typed' = typed + Len(nl) /\ pc # "exit" /\ ~dead(p)
      /\ UNCHANGED <<outq, written, kills, child, cs, p_buffer, io>>
  BY DEF SendData, Command, kernel, tied
<1>2. p \in Proc /\ \A q \in Proc : p_buffer[q] = b <=> q = p
  BY <1>1, OnlyProcess DEF dead
<1>3. typed \in Nat /\ text[b] \in Seq(Item) /\ Len(text[b]) \in Nat
  BY DEF Texts, TextsType
<1>4. /\ nl \in Seq(Item) /\ Len(nl) \in Nat
      /\ \A k \in 1..Len(nl) : nl[k][1] # "out" /\ \A q \in Proc : nl[k] # Obit(q)
  <2>1. CASE nl = <<>>
    BY <2>1
  <2>2. CASE nl = <<Newline(typed)>>
    <3>1. Newline(typed) \in Item
      BY <1>3, Items
    <3>2. nl \in Seq(Item) /\ Len(nl) = 1 /\ nl[1] = Newline(typed)
      BY <2>2, <3>1
    <3> QED BY <3>2, NoOutput
  <2> QED BY <2>1, <2>2
<1>5. p_mark[p] \in Nat /\ p_mark[p] <= Len(text[b])
  <2>1. p_buffer[p] = b /\ b # NULL
    BY <1>2
  <2> QED BY <1>2, <2>1 DEF Texts, TextsType, MarkInText
<1>6. m \in Nat /\ p_mark[p] <= m /\ typed' \in Nat
  BY <1>1, <1>3, <1>4, <1>5
<1>7. Appends(b, p, m, nl)
  BY ONLY <1>1, <1>2, <1>3, <1>4, <1>5, <1>6, m = Len(text[b]) + Len(nl) DEF Appends
<1> QED BY <1>1, <1>2, <1>4, <1>6, <1>7, TextsAppended

(* SendData in a line before.                                              *)
LEMMA TextsCopyLine ==
  ASSUME Tables, Texts, NEW b \in Buf, CopyLine(b)
  PROVE  Texts'
<1> PICK p : p = b_process[b]
  OBVIOUS
<1> PICK m : m = MarkOf(p, b)
  OBVIOUS
<1> PICK x : x = Bol(text[b], dot[b])
  OBVIOUS
<1> PICK y : y = Eol(text[b], dot[b])
  OBVIOUS
<1> PICK t : t = text[b]
  OBVIOUS
<1> PICK line : line = SubSeq(t, x + 1, y)
  OBVIOUS
<1> PICK new : new = [k \in DOMAIN line |-> Typed]
  OBVIOUS
<1>1. /\ text' = [text EXCEPT ![b] = @ \o new]
      /\ p_mark' = [p_mark EXCEPT ![p] = m]
      /\ dot' = [dot EXCEPT ![b] = Len(text[b]) + Len(line)]
      /\ big' = [big EXCEPT ![p] = FALSE]
      /\ typed' = typed + Len(line) /\ pc # "exit" /\ ~dead(p)
      /\ UNCHANGED <<outq, written, kills, child, cs, p_buffer, io>>
  BY DEF CopyLine, Command, kernel, tied
<1>2. p \in Proc /\ \A q \in Proc : p_buffer[q] = b <=> q = p
  BY <1>1, OnlyProcess DEF dead
<1>3. typed \in Nat /\ t \in Seq(Item) /\ Len(t) \in Nat /\ dot[b] \in 0..Len(t)
  BY DEF Texts, TextsType
<1>4. new \in Seq(Item) /\ Len(new) \in Nat /\ Len(line) = Len(new) /\ \A k \in 1..Len(new) : new[k] = Typed
  <2>1. x \in 0..dot[b] /\ y \in dot[b]..Len(t)
    BY <1>3, BolInText, EolInText
  <2>2. x + 1 \in Nat /\ y \in Nat /\ y <= Len(t) /\ x + 1 >= 1
    BY <1>3, <2>1, SMTT(30)
  <2>3. line \in Seq(Item)
    BY ONLY <1>3, <2>2, line = SubSeq(t, x + 1, y)
  <2>4. PICK n \in Nat : n = Len(line) /\ DOMAIN line = 1..n
    BY ONLY <2>3
  <2>5. new = [k \in 1..n |-> Typed] /\ Typed \in Item
    BY <2>4, Items
  <2>6. new \in Seq(Item) /\ Len(new) = n /\ \A k \in 1..n : new[k] = Typed
    BY ONLY <2>5, n \in Nat
  <2> QED BY ONLY <2>4, <2>6
<1>5. \A k \in 1..Len(new) : new[k][1] # "out" /\ \A q \in Proc : new[k] # Obit(q)
  BY <1>4, NoOutput
<1>6. p_mark[p] \in Nat /\ p_mark[p] <= Len(t)
  <2>1. p_buffer[p] = b /\ b # NULL
    BY <1>2
  <2> QED BY <1>2, <2>1 DEF Texts, TextsType, MarkInText
<1>7. m \in Nat /\ m <= Len(t)
  <2>1. Bol(t, Len(t)) \in 0..Len(t)
    BY <1>3, BolInText
  <2> QED BY <2>1, <1>3, <1>6 DEF MarkOf
<1>8. kills = 0 => m >= p_mark[p]
  BY <1>2, <1>6 DEF MarkOf, Texts, InOrder
<1>9. /\ m <= Len(text[b]) + Len(new) /\ typed' \in Nat
      /\ dot' = [dot EXCEPT ![b] = Len(text[b]) + Len(new)]
  <2>1. m <= Len(t) + Len(new) /\ typed' \in Nat
    BY ONLY <1>1, <1>3, <1>4, <1>7
  <2> QED BY <1>1, <1>4, <2>1, Zenon
<1>10. Appends(b, p, m, new)
  BY ONLY <1>1, <1>2, <1>5, <1>8, <1>9 DEF Appends
<1> QED BY <1>1, <1>2, <1>4, <1>7, <1>10, TextsAppended

(* A control character is shown at the mark.                               *)
LEMMA TextsControl ==
  ASSUME Tables, Texts, NEW b \in Buf, Control(b)
  PROVE  Texts'
<1> PICK p : p = b_process[b]
  OBVIOUS
<1> PICK d : d = p_mark[p]
  OBVIOUS
<1> PICK new : new = <<Echo(p)>>
  OBVIOUS
<1>1. /\ text' = [text EXCEPT ![b] = Insertion(@, d, new)]
      /\ p_mark' = [p_mark EXCEPT ![p] = @ + 1]
      /\ dot' = [dot EXCEPT ![b] = Len(text[b]) + 1]
      /\ typed' = typed + 1 /\ pc # "exit" /\ p # NULL
      /\ UNCHANGED <<big, outq, written, kills, child, cs, p_buffer, io>>
  BY DEF Control, Command, tied
<1>2. p \in Proc /\ \A q \in Proc : p_buffer[q] = b <=> q = p
  BY <1>1, OnlyProcess
<1>3. new \in Seq(Item) /\ Len(new) = 1 /\ new[1] = Echo(p)
  BY <1>2, Items
<1>4. text[b] \in Seq(Item) /\ Len(text[b]) \in Nat /\ d \in 0..Len(text[b])
  <2>1. text[b] \in Seq(Item) /\ d \in Nat
    BY <1>2 DEF Texts, TextsType
  <2>2. d <= Len(text[b])
    BY <1>2 DEF Texts, MarkInText
  <2> QED BY <2>1, <2>2
<1>5. \A k \in 1..Len(new) : new[k][1] # "out" /\ \A q \in Proc : new[k] # Obit(q)
  BY <1>3, NoOutput
<1>6. Len(text'[b]) = Len(text[b]) + 1 /\ \A c \in Buf \ {b} : text'[c] = text[c]
  BY <1>1, <1>3, <1>4, TextAfter, ZenonT(60)
<1>7. dot' \in [Buf -> Nat] /\ \A c \in Buf : dot'[c] <= Len(text'[c])
  BY <1>1, <1>4, <1>6 DEF Texts, TextsType
<1>8. /\ p_mark' \in [Proc -> Nat] /\ big' \in [Proc -> BOOLEAN] /\ typed' \in Nat
      /\ \A q \in Proc : q # p => p_mark'[q] = p_mark[q]
      /\ p_mark'[p] = d + 1
  BY <1>1, <1>2, <1>4 DEF Texts, TextsType
<1>9. p_mark'[p] >= IFixMarks(p_mark[p], d, Len(new)) /\ p_mark'[p] <= Len(text'[b])
  BY <1>3, <1>4, <1>6, <1>8 DEF IFixMarks
<1>10. Inserts(b, d, new)
  BY <1>1, <1>2, <1>5, <1>7, <1>8, <1>9 DEF Inserts
<1> QED BY <1>1, <1>3, <1>4, <1>10, TextsInserted

(* A buffer deleted, with its dead process.                                *)
LEMMA TextsKillBuf ==
  ASSUME Tables, Texts, NEW b \in Buf, kill_buf(b)
  PROVE  Texts'
<1>1. /\ text' = [text EXCEPT ![b] = <<>>] /\ dot' = [dot EXCEPT ![b] = 0] /\ pc # "exit"
      /\ p_buffer' = IF b_process[b] = NULL THEN p_buffer
                     ELSE [p_buffer EXCEPT ![b_process[b]] = NULL]
      /\ UNCHANGED <<p_mark, big, outq, written, typed, kills, child, cs, io>>
  BY DEF kill_buf, Untied, Command, kernel, ghosts
<1>2. text \in [Buf -> Seq(Item)] /\ dot \in [Buf -> Nat]
  BY DEF Texts, TextsType
<1>3. text'[b] = <<>> /\ \A c \in Buf \ {b} : text'[c] = text[c]
  BY <1>1, <1>2
<1>4. ASSUME NEW q \in Proc, p_buffer'[q] # NULL
      PROVE  p_buffer'[q] = p_buffer[q] /\ p_buffer[q] \in Buf \ {b}
  <2>1. p_buffer \in [Proc -> Buf \cup {NULL}] /\ b_process[b] \in Proc \cup {NULL}
    BY DEF Tables, TablesType
  <2>2. p_buffer'[q] = p_buffer[q] /\ q # b_process[b]
    <3>1. CASE b_process[b] = NULL
      BY <3>1, <1>1
    <3>2. CASE b_process[b] # NULL
      BY <3>2, <2>1, <1>1, <1>4
    <3> QED BY <3>1, <3>2
  <2>3. p_buffer[q] # b
    BY <2>2 DEF Tables, NoDangling, InList
  <2> QED BY <2>1, <2>2, <2>3, <1>4
<1>5. TextsType'
  <2>1. dot' \in [Buf -> Nat] /\ \A c \in Buf : dot'[c] <= Len(text'[c])
    BY <1>1, <1>2, <1>3 DEF Texts, TextsType
  <2> QED BY <2>1, <1>1 DEF Texts, TextsType
<1>6. InPty' /\ DeadSilent' /\ NoneLeft'
  BY <1>1 DEF Texts, InPty, DeadSilent, NoneLeft, io_eofed
<1>7. NothingYet' /\ ObitKnown'
  BY <1>1, <1>3 DEF Texts, NothingYet, ObitKnown
<1>8. MarkInText' /\ InOrder'
  BY <1>1, <1>3, <1>4 DEF Texts, MarkInText, InOrder
<1> QED BY <1>5, <1>6, <1>7, <1>8 DEF Texts

(* A process begun, in a buffer whose process was dead.                    *)
LEMMA TextsStarted ==
  ASSUME Tables, Texts, NEW b \in Buf, NEW p \in Proc, proc_strt(p, b)
  PROVE  Texts'
<1> PICK t : t = text[b]
  OBVIOUS
<1> PICK r : r = IF bolp(t) THEN t ELSE Append(t, Newline("start"))
  OBVIOUS
<1>1. text \in [Buf -> Seq(Item)] /\ t \in Seq(Item) /\ Len(t) \in Nat
  BY DEF Texts, TextsType
<1>2. /\ text' = [text EXCEPT ![b] = r] /\ pc # "exit" /\ child[p] = "unborn"
      /\ p_mark' = [p_mark EXCEPT ![p] = Len(text'[b])]
      /\ dot' = [dot EXCEPT ![b] = Len(text'[b])]
      /\ io' = [io EXCEPT ![p] = "young"] /\ cs' = [cs EXCEPT ![p] = "live"]
      /\ child' = [child EXCEPT ![p] = "live"]
      /\ p_buffer' = [q \in Proc |-> IF q = p THEN b
                                     ELSE IF q = b_process[b] THEN NULL ELSE p_buffer[q]]
      /\ UNCHANGED <<big, outq, written, typed, kills>>
  BY DEF proc_strt, Forked, Tied, ghosts
<1>3. r \in Seq(Item) /\ Len(r) \in Nat /\ \A k \in 1..Len(r) : r[k] = Newline("start") \/ (k \in 1..Len(t) /\ r[k] = t[k])
  <2>1. CASE bolp(t)
    BY <2>1, <1>1
  <2>2. CASE ~bolp(t)
    <3>1. PICK x \in Item : x = Newline("start")
      BY Items
    <3>2. r = Append(t, x)
      BY <2>2, <3>1
    <3>3. r \in Seq(Item) /\ Len(r) = Len(t) + 1
      BY ONLY <3>1, <3>2, <1>1
    <3>4. ASSUME NEW k \in 1..Len(r) PROVE r[k] = x \/ (k \in 1..Len(t) /\ r[k] = t[k])
      BY ONLY <3>1, <3>2, <3>3, <1>1, k \in 1..Len(r)
    <3> QED BY <3>1, <3>3, <3>4, <1>1
  <2> QED BY <2>1, <2>2
<1>4. text'[b] = r /\ \A c \in Buf \ {b} : text'[c] = text[c]
  BY <1>1, <1>2
<1>5. ASSUME NEW q \in Proc \ {p}, p_buffer'[q] # NULL
      PROVE  p_buffer'[q] = p_buffer[q] /\ p_buffer[q] \in Buf \ {b}
  <2>1. p_buffer[q] \in Buf \cup {NULL} /\ q # b_process[b] /\ p_buffer'[q] = p_buffer[q]
    BY <1>2, <1>5 DEF Tables, TablesType
  <2>2. p_buffer[q] # b
    BY <2>1 DEF Tables, NoDangling, InList
  <2> QED BY <2>1, <2>2, <1>5
<1>6. p_buffer'[p] = b
  BY <1>2
<1>7. /\ written[p] = 0 /\ Len(outq[p]) = 0 /\ cs[p] = "live"
      /\ \A c \in Buf : \A k \in 1..Len(text[c]) : ~IsOut(p, text[c][k])
  <2>1. written[p] = 0 /\ \A c \in Buf : \A k \in 1..Len(text[c]) : ~IsOut(p, text[c][k])
    BY <1>2 DEF Texts, NothingYet
  <2>2. outq[p] \in Seq(Item) /\ Len(outq[p]) <= written[p]
    BY DEF Texts, TextsType, InPty
  <2>3. cs[p] = "live"
    BY <1>2 DEF Tables, Unborn
  <2> QED BY <2>1, <2>2, <2>3
<1>8. \A q \in Proc : /\ child'[q] = "unborn" => q # p /\ child[q] = "unborn"
                      /\ cs'[q] = "dead" <=> cs[q] = "dead"
                      /\ io_eofed(q)' => io_eofed(q)
  BY <1>2, <1>7 DEF Tables, TablesType, io_eofed
<1>9. /\ p_mark' \in [Proc -> Nat] /\ p_mark'[p] = Len(r)
      /\ \A q \in Proc \ {p} : p_mark'[q] = p_mark[q]
  <2>1. p_mark \in [Proc -> Nat] /\ Len(text'[b]) \in Nat
    BY <1>3, <1>4 DEF Texts, TextsType
  <2> QED BY <2>1, <1>2, <1>4
<1>10. TextsType'
  <2>1. dot \in [Buf -> Nat] /\ \A c \in Buf : dot[c] <= Len(text[c])
    BY DEF Texts, TextsType
  <2>2. dot' \in [Buf -> Nat] /\ \A c \in Buf : dot'[c] <= Len(text'[c])
    BY <1>2, <1>3, <1>4, <2>1
  <2>3. text' \in [Buf -> Seq(Item)]
    BY <1>1, <1>2, <1>3
  <2> QED BY <1>2, <1>9, <2>2, <2>3 DEF Texts, TextsType
<1>11. InPty' /\ DeadSilent' /\ NoneLeft'
  BY <1>2, <1>8 DEF Texts, InPty, DeadSilent, NoneLeft
<1>12. NothingYet'
  <2>1. ASSUME NEW q \in Proc, child'[q] = "unborn", NEW k \in 1..Len(r) PROVE ~IsOut(q, r[k])
    <3>1. CASE r[k] = Newline("start")
      BY <3>1, NoOutput DEF IsOut
    <3>2. CASE k \in 1..Len(t) /\ r[k] = t[k]
      BY <3>2, <2>1, <1>8 DEF Texts, NothingYet
    <3> QED BY <3>1, <3>2, <1>3
  <2> QED BY <2>1, <1>2, <1>4, <1>8 DEF Texts, NothingYet
<1>13. ObitKnown'
  <2>1. ASSUME NEW q \in Proc, NEW k \in 1..Len(r), r[k] = Obit(q) PROVE cs'[q] = "dead"
    <3>1. CASE r[k] = Newline("start")
      BY <3>1, <2>1, NoOutput
    <3>2. CASE k \in 1..Len(t) /\ r[k] = t[k]
      BY <3>2, <2>1, <1>8 DEF Texts, ObitKnown
    <3> QED BY <3>1, <3>2, <1>3
  <2>2. ASSUME NEW q \in Proc, NEW c \in Buf \ {b}, NEW k \in 1..Len(text[c]), text[c][k] = Obit(q)
        PROVE  cs'[q] = "dead"
    BY <2>2, <1>8 DEF Texts, ObitKnown
  <2>3. ASSUME NEW q \in Proc, NEW c \in Buf, NEW k \in 1..Len(text'[c]), text'[c][k] = Obit(q)
        PROVE  cs'[q] = "dead"
    <3>1. CASE c = b
      <4>1. text'[c] = r
        BY <3>1, <1>4
      <4> QED BY <4>1, <2>1, <2>3
    <3>2. CASE c # b
      <4>1. text'[c] = text[c] /\ c \in Buf \ {b}
        BY <3>2, <1>4
      <4> QED BY <4>1, <2>2, <2>3
    <3> QED BY <3>1, <3>2
  <2> QED BY <2>3 DEF ObitKnown
<1>14. MarkInText'
  <2>1. p_mark'[p] <= Len(text'[p_buffer'[p]])
    <3>1. p_mark'[p] = Len(r) /\ text'[p_buffer'[p]] = r
      BY <1>4, <1>6, <1>9
    <3> QED BY ONLY <3>1, Len(r) \in Nat, <1>3
  <2> QED BY <2>1, <1>4, <1>5, <1>9 DEF Texts, MarkInText
<1>15. InOrder'
  <2>1. \A k \in 1..Len(r) : ~IsOut(p, r[k])
    <3>1. ASSUME NEW k \in 1..Len(r) PROVE ~IsOut(p, r[k])
      <4>1. CASE r[k] = Newline("start")
        BY <4>1, NoOutput DEF IsOut
      <4>2. CASE k \in 1..Len(t) /\ r[k] = t[k]
        BY <4>2, <1>7
      <4> QED BY <4>1, <4>2, <1>3
    <3> QED BY <3>1
  <2>2. Order(p, r, Len(r), 0)
    BY <2>1 DEF Order
  <2>3. written'[p] - Len(outq'[p]) = 0
    BY <1>2, <1>7
  <2>4. Order(p, text'[p_buffer'[p]], p_mark'[p], written'[p] - Len(outq'[p]))
    BY <2>2, <2>3, <1>4, <1>6, <1>9
  <2> QED BY <2>4, <1>2, <1>4, <1>5, <1>9 DEF Texts, InOrder
<1> QED BY <1>10, <1>11, <1>12, <1>13, <1>14, <1>15 DEF Texts

(* One whose start pop_wind ends.                                          *)
LEMMA TextsAdrift ==
  ASSUME Tables, Texts, NEW b \in Buf, NEW p \in Proc, PopWindComplains(p, b)
  PROVE  Texts'
<1>1. /\ pc # "exit" /\ child[p] = "unborn" /\ p_mark' = [p_mark EXCEPT ![p] = 0]
      /\ child' = [child EXCEPT ![p] = "live"]
      /\ p_buffer' = [q \in Proc |-> IF q = p THEN b
                                     ELSE IF q = b_process[b] THEN NULL ELSE p_buffer[q]]
      /\ UNCHANGED <<text, dot, big, io, cs, outq, written, typed, kills>>
  BY DEF PopWindComplains, Forked, Tied, ghosts
<1>2. \A q \in Proc : /\ child'[q] = "unborn" => child[q] = "unborn"
                      /\ q # p => p_mark'[q] = p_mark[q] /\ p_buffer'[q] \in {p_buffer[q], NULL}
  BY <1>1 DEF Tables, TablesType, Texts, TextsType
<1>3. p_mark' \in [Proc -> Nat] /\ p_mark'[p] = 0 /\ p_buffer'[p] = b
  BY <1>1 DEF Texts, TextsType
<1>4. TextsType' /\ InPty' /\ NothingYet' /\ DeadSilent' /\ NoneLeft' /\ ObitKnown'
  BY <1>1, <1>2, <1>3 DEF Texts, TextsType, InPty, NothingYet, DeadSilent, NoneLeft, ObitKnown, io_eofed
<1>5. text[b] \in Seq(Item) /\ Len(text[b]) \in Nat
  BY DEF Texts, TextsType
<1>6. MarkInText'
  BY <1>1, <1>2, <1>3, <1>5 DEF Texts, MarkInText
<1>7. Len(outq[p]) \in Nat /\ written[p] - Len(outq[p]) = 0
  BY <1>1 DEF Texts, TextsType, InPty, NothingYet
<1>8. \A k \in 1..Len(text[b]) : ~IsOut(p, text[b][k])
  BY <1>1 DEF Texts, NothingYet
<1>9. Order(p, text[b], 0, 0)
  BY <1>8 DEF Order
<1>10. InOrder'
  BY <1>1, <1>2, <1>3, <1>7, <1>9 DEF Texts, InOrder
<1> QED BY <1>4, <1>6, <1>10 DEF Texts

(* The commands leave the texts right.                                     *)
LEMMA TextsCommands == Tables /\ Texts /\ Commands => Texts'
<1> SUFFICES ASSUME Tables, Texts, Commands PROVE Texts'
  OBVIOUS
<1>t. TablesType
  BY DEF Tables
<1> USE DEF kernel, tied, ctl, bufs, ghosts, io_eofed, Goto, Loop, Done, Command
<1>1. CASE Nothing
  BY <1>1, TextsFrame DEF Nothing
<1>2. CASE ProcList
  BY <1>2, TextsFrame DEF ProcList
<1>3. CASE KillProcs
  BY <1>3, TextsFrame DEF KillProcs
<1>4. CASE UnixToBuf
  BY <1>4, TextsFrame DEF UnixToBuf
<1>5. ASSUME NEW b \in Buf, Type(b) PROVE Texts'
  BY <1>5, TextsTyped
<1>6. ASSUME NEW b \in Buf, CopyLine(b) PROVE Texts'
  BY <1>6, TextsCopyLine
<1>7. ASSUME NEW b \in Buf, Control(b) PROVE Texts'
  BY <1>7, TextsControl
<1>8. ASSUME NEW b \in Buf, kill_buf(b) PROVE Texts'
  BY <1>8, TextsKillBuf
<1>9. ASSUME NEW b \in Buf, ProcKill(b) PROVE Texts'
  BY <1>9, <1>t, TextsFrame DEF ProcKill, Signalled, Dies, TablesType
<1>10. ASSUME NEW b \in Buf, ProcCont(b) PROVE Texts'
  BY <1>10, <1>t, TextsFrame DEF ProcCont, Signalled, TablesType
<1>11. ASSUME NEW b \in Buf, NEW d \in {0, Len(text[b])}, MoveTo(b, d) PROVE Texts'
  BY <1>11, TextsMoveTo
<1>12. ASSUME NEW b \in Buf, NEW i \in 0..Len(text[b]), NEW j \in 0..Len(text[b]), KillAndYank(b, i, j)
       PROVE  Texts'
  BY <1>12, TextsKillAndYank
<1>13. ASSUME NEW b \in Buf, NEW nl \in {<<>>, <<Newline(typed)>>}, SendData(b, nl) PROVE Texts'
  BY <1>13, TextsSendData
<1>14. ASSUME NEW b \in Buf, NEW p \in Proc, proc_strt(p, b) PROVE Texts'
  BY <1>14, TextsStarted
<1>15. ASSUME NEW b \in Buf, NEW p \in Proc, PopWindComplains(p, b) PROVE Texts'
  BY <1>15, TextsAdrift
<1> QED
  BY <1>1, <1>2, <1>3, <1>4, <1>5, <1>6, <1>7, <1>8, <1>9, <1>10, <1>11, <1>12, <1>13, <1>14, <1>15
  DEF Commands

(* The texts stay right.                                                   *)
THEOREM TextsAlways == Spec => []Texts
<1>1. Tables /\ Texts /\ [Next]_vars => Texts'
  <2> SUFFICES ASSUME Tables, Texts, [Next]_vars PROVE Texts'
    OBVIOUS
  <2>1. CASE pc # "exit" /\ Children
    BY <2>1, TextsChildren
  <2>2. CASE Commands
    BY <2>2, TextsCommands
  <2>3. CASE Jove \/ Key \/ Ticks
    BY <2>3, TextsJove
  <2>4. CASE UNCHANGED vars
    <3>1. UNCHANGED <<text, dot, p_mark, big, outq, written, typed, kills, child, cs, p_buffer, io, pc>>
      BY <2>4 DEF vars, kernel, tied, bufs, ctl, ghosts
    <3>2. TextsType' /\ InPty' /\ NothingYet' /\ DeadSilent'
      BY <3>1 DEF Texts, TextsType, InPty, NothingYet, DeadSilent
    <3>3. NoneLeft' /\ ObitKnown' /\ MarkInText' /\ InOrder'
      BY <3>1 DEF Texts, NoneLeft, ObitKnown, MarkInText, InOrder, io_eofed
    <3> QED BY <3>2, <3>3 DEF Texts
  <2> QED BY <2>1, <2>2, <2>3, <2>4 DEF Next
<1> QED
  BY <1>1, TextsInit, TablesAlways, PTL DEF Spec

(* The output of a process is in its buffer in order, before its mark, and *)
(* only its descendants' output after the message about its death          *)
(* (proc_rec, read_pty_proc, kill_off, SendData, proc_strt).               *)
THEOREM OutputInOrderHolds == Spec => []OutputInOrder
<1>1. Tables /\ Texts => OutputInOrder
  <2> SUFFICES ASSUME Tables, Texts, NEW p \in procs, p_buffer[p] # NULL, kills = 0
               PROVE  LET t == text[p_buffer[p]]
                          outs == {k \in DOMAIN t : IsOut(p, t[k])}
                          read == written[p] - Len(outq[p])
                      IN  /\ {t[k][3] : k \in outs} = 0..read - 1
                          /\ \A j, k \in outs : j < k => t[j][3] < t[k][3]
                          /\ \A k \in DOMAIN outq[p] : IsOut(p, outq[p][k]) /\ outq[p][k][3] = read + k - 1
                          /\ \A k \in outs : k <= p_mark[p]
                          /\ \A j \in DOMAIN t, k \in outs : t[j] = Obit(p) /\ j < k => t[k][4] = "others"
    BY DEF OutputInOrder
  <2> DEFINE t == text[p_buffer[p]]
             outs == {k \in DOMAIN t : IsOut(p, t[k])}
             read == written[p] - Len(outq[p])
  <2>1. p \in Proc /\ t \in Seq(Item) /\ outq[p] \in Seq(Item)
    BY DEF Tables, TablesType, Texts, TextsType
  <2>2. DOMAIN t = 1..Len(t) /\ DOMAIN outq[p] = 1..Len(outq[p])
    BY <2>1
  <2>3. Order(p, t, p_mark[p], read)
    BY <2>1 DEF Texts, InOrder
  <2>4. \A k \in DOMAIN outq[p] : IsOut(p, outq[p][k]) /\ outq[p][k][3] = read + k - 1
    BY <2>1, <2>2 DEF Texts, InPty
  <2>5. \A k : k \in outs <=> k \in 1..Len(t) /\ IsOut(p, t[k])
    BY <2>2
  <2> HIDE DEF t, outs, read
  <2>6. {t[k][3] : k \in outs} = 0..read - 1
    <3>1. \A k \in outs : t[k][3] \in 0..read - 1
      BY <2>3, <2>5 DEF Order
    <3>2. \A i \in 0..read - 1 : \E k \in outs : t[k][3] = i
      BY <2>3, <2>5 DEF Order
    <3>3. \A x : x \in {t[k][3] : k \in outs} <=> \E k \in outs : x = t[k][3]
      OBVIOUS
    <3>4. \A x : x \in {t[k][3] : k \in outs} <=> x \in 0..read - 1
      BY <3>1, <3>2, <3>3, ZenonT(60)
    <3> QED BY <3>4, Zenon
  <2>7. /\ \A j, k \in outs : j < k => t[j][3] < t[k][3]
        /\ \A k \in outs : k <= p_mark[p]
        /\ \A j \in DOMAIN t, k \in outs : t[j] = Obit(p) /\ j < k => t[k][4] = "others"
    BY <2>2, <2>3, <2>5 DEF Order
  <2> QED BY <2>4, <2>6, <2>7 DEF t, outs, read
<1> QED
  BY <1>1, TablesAlways, TextsAlways, PTL
=============================================================================
