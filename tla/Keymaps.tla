------------------------------ MODULE Keymaps -------------------------------
(***************************************************************************)
(* Key maps (keymaps.c): full maps and sorted sparse ones that become full *)
(* when they grow, prefixes made and freed as sequences are bound, named   *)
(* maps that several sequences may lead to, the maps of buffers, and the   *)
(* dispatch of a key sequence through the maps that are active.            *)
(*                                                                         *)
(* An object is an integer: a keymap if positive, a command if negative,   *)
(* and 0 is NULL.  Memory that is freed is used again.                     *)
(***************************************************************************)
EXTENDS Integers, Sequences, SequencesExt, FiniteSets, FiniteSetsExt, Functions, TLC

CONSTANTS
  NCHARS, KEYMAP_QUANTUM, SPARSE_LIMIT,
  KEYMAX,         \* the most keys DoBind takes: sizeof keys - 1
  Commands,       \* negative integers
  Bindable,       \* bounds of the model: what is bound to sequences, and the local bindings at first
  First,
  Buffers,        \* above all keymaps, to tell the two apart
  ProcBufs,       \* the ones tied to a process
  Ops, Looks      \* bounds of the model: commands and dispatches a behaviour has

ASSUME KeymapAssumption == NCHARS \in Nat /\ KEYMAP_QUANTUM \in Nat \ {0} /\ Commands \subseteq {-k : k \in 1 .. 9}

VARIABLES
  maps,           \* the keymaps there are
  b_map, curbuf,
  asking,         \* DoBind: the map, the one its keys have led to, the keys, what to bind, as is_an_arg
  going,          \* dispatch: the maps that still hope (0: none), the keys
  did,            \* the last sequence that was bound or dispatched, and the object
  left

vars == <<maps, b_map, curbuf, asking, going, did, left>>

Chars == 0 .. NCHARS - 1
NULL == 0
mainmap == 1
EscMap == 2
procsmap == 3
Names == {mainmap, EscMap, procsmap}
Idle == <<>>
IsKeymap(o) == o > 0

-----------------------------------------------------------------------------
RECURSIVE PositionSlip(_, _, _, _), Position(_, _, _, _)
PositionSlip(b, key, lwb, upb) ==      \* mutant: a key before the first is not put before it
  LET mid == (lwb + upb) \div 2
  IN  IF mid # lwb THEN IF b[mid + 1].key <= key THEN PositionSlip(b, key, mid, upb) ELSE PositionSlip(b, key, lwb, mid)
      ELSE IF lwb # upb /\ b[lwb + 1].key = key THEN lwb ELSE upb
\* The place of a key among bindings, or of the one that would follow it.
Position(b, key, lwb, upb) ==
  LET mid == (lwb + upb) \div 2
  IN  IF mid # lwb THEN IF b[mid + 1].key <= key THEN Position(b, key, mid, upb) ELSE Position(b, key, lwb, mid)
      ELSE IF lwb # upb /\ b[lwb + 1].key >= key THEN lwb ELSE upb
km_getkey(m, key) ==
  IF m.full # <<>> THEN m.full[key]
  ELSE LET i == Position(m.bindings, key, 0, Len(m.bindings))
       IN  IF i < Len(m.bindings) /\ m.bindings[i + 1].key = key THEN m.bindings[i + 1].value ELSE NULL

Sparse == [full |-> <<>>, bindings |-> <<>>, nalloc |-> 0, unfreeable |-> FALSE]
Full(keys) == [Sparse EXCEPT !.full = keys, !.unfreeable = TRUE]
\* emalloc: the first free memory
Unused(k) == Min((1 .. Cardinality(DOMAIN k) + 1) \ DOMAIN k)
km_new(k) == Unused(k) :> Sparse @@ k

Values(m) == {km_getkey(m, c) : c \in Chars} \ {NULL}
\* What DelObjRef frees: the map and what only it leads to.
RECURSIVE Freed(_, _)
Freed(k, o) ==
  IF ~IsKeymap(o) \/ k[o].unfreeable THEN {}
  ELSE {o} \cup UNION {Freed(k, v) : v \in Values(k[o])}
DelObjRefSlip(k, o) == Restrict(k, DOMAIN k \ (Freed(k, o) \cap {o}))      \* mutant: not what it leads to
DelObjRef(k, o) == Restrict(k, DOMAIN k \ Freed(k, o))

\* The map with the key set; a sparse one is converted when it would grow beyond the limit.
Set(m, key, d) ==
  LET b == m.bindings
      i == Position(b, key, 0, Len(b))
      new == [key |-> key, value |-> d]
      Convert == [m EXCEPT !.bindings = <<>>, !.nalloc = 0,
                    !.full = [c \in Chars |-> IF c = key THEN d ELSE km_getkey(m, c)]]
  IN  CASE m.full # <<>> -> [m EXCEPT !.full[key] = d]
        [] m.full = <<>> /\ km_getkey(m, key) # NULL ->
             IF d = NULL THEN [m EXCEPT !.bindings = RemoveAt(b, i + 1)] ELSE [m EXCEPT !.bindings[i + 1] = new]
        [] m.full = <<>> /\ km_getkey(m, key) = NULL ->
             CASE d = NULL -> m
               [] d # NULL /\ Len(b) = m.nalloc /\ Len(b) >= SPARSE_LIMIT -> Convert
               [] OTHER -> [m EXCEPT !.bindings = InsertAt(b, i + 1, new),
                                     !.nalloc = IF Len(b) = @ THEN @ + KEYMAP_QUANTUM ELSE @]
km_setkey(k, id, key, d) == [DelObjRef(k, km_getkey(k[id], key)) EXCEPT ![id] = Set(@, key, d)]

GetKeymap(k, id, key) == IF IsKeymap(km_getkey(k[id], key)) THEN km_getkey(k[id], key) ELSE NULL

\* The set of the maps there are then (one).
RECURSIVE BindSequence(_, _, _, _)
BindSequence(k, id, keys, obj) ==
  IF Len(keys) = 1 THEN {km_setkey(k, id, keys[1], obj)}
  ELSE IF GetKeymap(k, id, keys[1]) # NULL THEN BindSequence(k, GetKeymap(k, id, keys[1]), Tail(keys), obj)
  ELSE UNION {BindSequence(l, Unused(k), Tail(keys), obj) :
                l \in {km_setkey(j, id, keys[1], Unused(k)) : j \in {km_new(k)}}}

-----------------------------------------------------------------------------
Busy == asking # Idle \/ going # Idle
\* Bound of the model: dispatching, which changes no map, comes last.
Spend(what) == /\ ~Busy /\ left[what] > 0 /\ (what = "ops" => left.looks = Looks)
               /\ left' = [left EXCEPT ![what] = @ - 1]

\* bind-to-key and the like; the name of what to bind has been asked for, and may
\* have been refused: then nothing is bound, but a local map is there (DoLBind).
DoBind(map, obj, arg, k) ==
  /\ asking' = [map |-> map, m |-> map, keys |-> <<>>, obj |-> obj, arg |-> arg]
  /\ maps' = k
StartBind ==
  /\ Spend("ops")
  /\ \E obj \in Bindable, arg \in BOOLEAN :
       \/ DoBind(mainmap, obj, arg, maps) /\ UNCHANGED b_map
       \/ DoBind(procsmap, obj, arg, maps) /\ UNCHANGED b_map
       \/ b_map[curbuf] # NULL /\ DoBind(b_map[curbuf], obj, arg, maps) /\ UNCHANGED b_map
       \/ /\ b_map[curbuf] = NULL /\ DoBind(Unused(maps), obj, arg, km_new(maps))
          /\ b_map' = [b_map EXCEPT ![curbuf] = Unused(maps)]
  /\ UNCHANGED <<curbuf, going, did>>
RefuseLocal ==
  /\ Spend("ops")
  /\ b_map[curbuf] = NULL /\ maps' = km_new(maps) /\ b_map' = [b_map EXCEPT ![curbuf] = Unused(maps)]
  /\ UNCHANGED <<curbuf, asking, going, did>>

Bound(keys) ==
  /\ maps' \in BindSequence(maps, asking.map, keys, asking.obj)
  /\ asking' = Idle /\ did' = [how |-> "bind", keys |-> keys, obj |-> asking.obj]
\* A key of the sequence.  With an argument, or in a joverc, the sequence goes on to
\* the end of the line; otherwise to the first key that is no prefix.
BindKey(c) ==
  /\ asking # Idle
  /\ LET keys == Append(asking.keys, c)
         m == GetKeymap(maps, asking.m, c)
     IN  CASE Len(asking.keys) = KEYMAX -> asking' = Idle /\ UNCHANGED <<maps, did>>  \* key sequence too long
           [] Len(asking.keys) # KEYMAX /\ (asking.arg \/ m # NULL) ->
                asking' = [asking EXCEPT !.keys = keys, !.m = IF asking.arg THEN @ ELSE m] /\ UNCHANGED <<maps, did>>
           [] OTHER -> Bound(keys)
  /\ UNCHANGED <<b_map, curbuf, going, left>>
EndOfKeys ==
  /\ asking # Idle /\ asking.arg
  /\ \/ asking.keys # <<>> /\ Bound(asking.keys)
     \/ asking.keys = <<>> /\ asking' = Idle /\ UNCHANGED <<maps, did>>    \* can't bind empty key sequence
  /\ UNCHANGED <<b_map, curbuf, going, left>>

-----------------------------------------------------------------------------
get_keymapsSlip ==      \* mutant: the global map is asked before the processes'
  (IF b_map[curbuf] # NULL THEN <<b_map[curbuf]>> ELSE <<>>)
    \o <<mainmap>> \o (IF curbuf \in ProcBufs THEN <<procsmap>> ELSE <<>>)
get_keymaps ==
  (IF b_map[curbuf] # NULL THEN <<b_map[curbuf]>> ELSE <<>>)
    \o (IF curbuf \in ProcBufs THEN <<procsmap>> ELSE <<>>) \o <<mainmap>>

Start == Spend("looks") /\ going' = [maps |-> get_keymaps, keys |-> <<>>] /\ UNCHANGED <<maps, b_map, curbuf, asking, did>>
\* dispatch, and KeyDesc: the maps are gone through in order, for each key.
Key(c) ==
  /\ going # Idle /\ Len(going.keys) < KEYMAX
  /\ LET found == [i \in DOMAIN going.maps |->
                     IF going.maps[i] = NULL THEN NULL ELSE km_getkey(maps[going.maps[i]], c)]
         first == SelectInSeq(found, LAMBDA o : o < 0)
         keys == Append(going.keys, c)
     IN  CASE first # 0 -> did' = [how |-> "dispatch", keys |-> keys, obj |-> found[first]] /\ going' = Idle
           [] first = 0 /\ \E i \in DOMAIN found : found[i] # NULL ->
                going' = [maps |-> found, keys |-> keys] /\ UNCHANGED did
           [] OTHER -> did' = [how |-> "dispatch", keys |-> keys, obj |-> NULL] /\ going' = Idle
  /\ UNCHANGED <<maps, b_map, curbuf, asking, left>>
\* AbortChar, but as the first key.  Bound of the model: no more than KEYMAX keys.
Aborted ==
  /\ going # Idle /\ going.keys # <<>>
  /\ going' = Idle /\ UNCHANGED <<maps, b_map, curbuf, asking, did, left>>

-----------------------------------------------------------------------------
SetBuf == Spend("ops") /\ curbuf' \in Buffers \ {curbuf} /\ UNCHANGED <<maps, b_map, asking, going, did>>
\* kill_buf: its Buffer may be used again.
KillBuf ==
  /\ Spend("ops")
  /\ \E b \in Buffers : /\ maps' = DelObjRef(maps, b_map[b])
                        /\ b_map' = [b_map EXCEPT ![b] = NULL]
                        /\ curbuf' \in IF b = curbuf THEN Buffers \ {b} ELSE {curbuf}
  /\ UNCHANGED <<asking, going, did>>

Init ==
  /\ LET begin == (mainmap :> Full([c \in Chars |-> CASE c = 0 -> EscMap [] c = 1 -> -2 [] OTHER -> NULL]))
                   @@ (EscMap :> Full([c \in Chars |-> IF c = 0 THEN -3 ELSE NULL]))
                   @@ (procsmap :> [Set(Sparse, 1, -4) EXCEPT !.unfreeable = TRUE])       \* InitKeymaps
     IN  \E l \in First : IF l = Sparse THEN maps = begin /\ b_map = [b \in Buffers |-> NULL]
                          ELSE maps = 4 :> l @@ begin /\ b_map = [b \in Buffers |-> IF b \in ProcBufs THEN 4 ELSE NULL]
  /\ curbuf \in Buffers
  /\ asking = Idle /\ going = Idle /\ did = [how |-> "none", keys |-> <<>>, obj |-> NULL] /\ left = [ops |-> Ops, looks |-> Looks]

Next ==
  \/ StartBind \/ RefuseLocal \/ (\E c \in Chars : BindKey(c)) \/ EndOfKeys
  \/ Start \/ (\E c \in Chars : Key(c)) \/ Aborted
  \/ SetBuf \/ KillBuf
Spec == Init /\ [][Next]_vars

-----------------------------------------------------------------------------
(* The bindings that the maps are.                                         *)

RECURSIVE Entries(_, _, _)
Entries(id, root, keys) ==
  UNION {IF v = NULL THEN {}
         ELSE IF v \in Commands \cup Names THEN {<<<<root, Append(keys, c)>>, v>>}
         ELSE Entries(v, root, Append(keys, c)) :
           <<c, v>> \in {<<k, km_getkey(maps[id], k)>> : k \in Chars}}
bound ==
  CHOOSE f \in {[p \in {e[1] : e \in all} |-> (CHOOSE e \in all : e[1] = p)[2]] :
           all \in {UNION {Entries(n, n, <<>>) : n \in Names}
                      \cup UNION {Entries(b_map[b], b, <<>>) : b \in {a \in Buffers : b_map[a] # NULL}}}} : TRUE

B == INSTANCE Bindings WITH Roots <- Names \cup Buffers

\* Binding a sequence in the maps is binding that sequence: what is made, replaced,
\* converted and freed changes the meaning of no other; deleting a buffer forgets
\* its own, and nothing else changes any.
Binds ==
  [][maps' # maps => \A old \in {bound}, new \in {bound'} :
       IF asking # Idle /\ asking' = Idle /\ did'.how = "bind"
       THEN \E root \in Names \cup Buffers :
              /\ asking.map = IF root \in Names THEN root ELSE b_map[root]
              /\ new = B!Bound(old, root, did'.keys, did'.obj)
       ELSE new = old \/ \E b \in Buffers : b_map'[b] = NULL /\ new = B!Forgotten(old, b)]_maps

\* Each map that has no name is the value of one key of one map, or the map of one
\* buffer, and all that is referred to is there: nothing is lost, freed twice or
\* used after it was freed (DelObjRef, km_setkey).  Sparse maps are sorted.
Owned ==
  /\ \A id \in DOMAIN maps :
       /\ id \notin Names =>
            Cardinality({<<j, c>> \in (DOMAIN maps) \X Chars : km_getkey(maps[j], c) = id})
              + Cardinality({b \in Buffers : b_map[b] = id}) = 1
       /\ \A v \in Values(maps[id]) : IsKeymap(v) => v \in DOMAIN maps
       /\ LET b == maps[id].bindings IN
            Len(b) <= maps[id].nalloc /\ \A i \in 2 .. Len(b) : b[i - 1].key < b[i].key
  /\ \A b \in Buffers : b_map[b] # NULL => b_map[b] \in DOMAIN maps

\* Where keys have a command, of the maps that the current buffer looks in.
Holders(b, keys) ==
  {r \in {curbuf, mainmap} \cup (IF curbuf \in ProcBufs THEN {procsmap} ELSE {}) : B!Meaning(b, r, keys) \in Commands}
Dispatching == did' # did /\ did'.how = "dispatch"

\* doc/cmds.nr:291, but for the choice between a process and a local binding: the
\* shortest binding is executed, and a global one only where no other is as short.
Dispatched ==
  [][Dispatching =>
       \A b \in {bound}, keys \in {did'.keys} :
         LET all == Holders(b, keys)
         IN  /\ \A n \in 1 .. Len(keys) - 1 : Holders(b, SubSeq(keys, 1, n)) = {}
             /\ IF did'.obj = NULL THEN all = {}
                ELSE \E r \in IF all = {mainmap} THEN all ELSE all \ {mainmap} : did'.obj = B!Meaning(b, r, keys)]_did

\* doc/cmds.nr:292: if there is still a choice, a process binding is preferred to a
\* local binding.  (get_keymaps has them the other way round.)
ProcessFirst ==
  [][Dispatching =>
       \A b \in {bound}, keys \in {did'.keys} :
         procsmap \in Holders(b, keys) => did'.obj = B!Meaning(b, procsmap, keys)]_did

=============================================================================
