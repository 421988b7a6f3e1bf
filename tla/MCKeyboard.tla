---------------------------- MODULE MCKeyboard -----------------------------
(***************************************************************************)
(* Both halves of reading the keyboard, each by itself: a behaviour either *)
(* reads keys and runs macros (Macros), or binds and dispatches sequences  *)
(* (Keymaps).  They share no variable.                                     *)
(***************************************************************************)
EXTENDS MCKeymaps

VARIABLES loops, want, rc, Inputp, peekchar, mac_stack, kmac, m_len, named, InMacDefine,
          Interactive, arg, this_cmd, seen, keysLeft,
          half          \* the one that goes on

MCBodies == {<<"x">>, <<"C-x", "(">>, <<"C-x", "e">>, <<"d", "RET", "x">>, <<"q", "i", "RET">>}
Script == << <<"d", "x">>, <<"m">>, <<"C-u", "m">>, <<"q", "!">>, <<"x", "x">> >>
Typeable == {"x", "RET", "C-u", "C-x", "(", ")", "e", "q", "d", "n", "s", "i", "p", "m", "!", "C-g"}
\* A definition and its replay, and what else is typed
Def == [k \in {"C-x", "(", ")", "e", "x"} |-> IF k = "C-x" THEN 3 ELSE 1]
Session(lines, more) ==
  [rc |-> lines, keys |-> [k \in Typeable |-> (IF k \in DOMAIN Def THEN Def[k] ELSE 0)
                                            + (IF k \in DOMAIN more THEN more[k] ELSE 0)]]
Each(ks) == [k \in ks |-> 1]
MCSessions == {
  Session(<<>>, [q |-> 1, RET |-> 2]),
  Session(<<>>, Each({"C-u", "q", "RET", "i"})),
  Session(<<>>, [k \in {"C-u", "s", "C-g"} |-> IF k = "C-u" THEN 2 ELSE 1]),
  Session(<<>>, [d |-> 1, m |-> 2, RET |-> 1]),
  Session(<<>>, Each({"n", "m", "RET"})),
  Session(<<>>, Each({"p", "!", "x"})),
  Session(<<>>, Each({"C-x", "e", "x"})),
  Session(<<>>, Each({"C-x", "("})),
  Session(Script, Each({"m"}))}

M == INSTANCE Macros WITH Bodies <- MCBodies, Sessions <- MCSessions, left <- keysLeft

macroVars == <<loops, want, rc, Inputp, peekchar, mac_stack, kmac, m_len, named, InMacDefine,
               Interactive, arg, this_cmd, seen, keysLeft>>
keyboardVars == <<vars, macroVars, half>>

KeyboardInit ==
  /\ Init /\ M!Init /\ half \in {"macros", "keymaps"}
  \* The half that rests does so in one state.
  /\ half = "macros" => curbuf \in ProcBufs /\ b_map[curbuf] = NULL
  /\ half = "keymaps" => rc = Script
MacrosNext == half = "macros" /\ M!Next /\ UNCHANGED <<vars, half>>
KeymapsNext == half = "keymaps" /\ Next /\ UNCHANGED <<macroVars, half>>
KeyboardNext == MacrosNext \/ KeymapsNext
KeyboardSpec ==
  KeyboardInit /\ [][KeyboardNext]_keyboardVars
    /\ WF_keyboardVars(half = "macros" /\ (M!Run \/ M!RcLine \/ M!RcCommand) /\ UNCHANGED <<vars, half>>)

Replays == M!Replays
MacrosEnd == M!MacrosEnd
=============================================================================
