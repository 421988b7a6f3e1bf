----------------------------- MODULE MCEditing -----------------------------
EXTENDS MCSearch, Editing

Command_(name) == [name |-> name, n |-> 1, arg |-> FALSE, c |-> "a", up |-> TRUE]
By(name, ns) == {[Command_(name) EXCEPT !.n = n] : n \in ns}
Named(names) == {Command_(name) : name \in names}
EditJob(t, d, marks, commands, modes, n) ==
  [Rest_ EXCEPT !.keys = n] @@ [kind |-> "edit", text |-> t, dot |-> d, buf |-> Buf(t, d, marks), commands |-> commands,
    modes |-> modes, abbrevs |-> <<"a", "b">> :> <<"b", "a", " ", "a">>]
Marks(t, l, p) == "mark" :> <<Len(t), Len(Last(t))>> @@ "m1" :> <<l, IF Len(t[l]) < p THEN Len(t[l]) ELSE p>>

\* Filling, and moving by paragraphs.
LineSet == {<<>>, <<"a">>, <<"a", "b", " ", "b", ".">>, <<" ", "a", " ", "a", "b">>, <<" ", " ", "b">>,
            <<"b", ".", " ", " ", "a">>, <<"\\", "a">>}
FillTexts == (UNION {[1 .. n -> LineSet] : n \in 1 .. 2})
             \cup {<<<<"a">>, x, y>> : x \in LineSet, y \in {<<>>, <<"b">>, <<" ", "a", " ", "a", "b">>}}
Fills == Named({"fill-paragraph", "fill-region"}) \cup {[c EXCEPT !.arg = TRUE] : c \in Named({"fill-paragraph", "fill-region"})}
FillJobs == {EditJob(t, <<1, p>>, Marks(t, Len(t), 2), Fills, {}, 2) : t \in FillTexts, p \in {0}}
RegionJobs == {EditJob(t, <<2, 0>>, [Marks(t, 1, 1) EXCEPT !["mark"] = m], Named({"fill-region"}), {}, 1) :
                 t \in [1 .. 5 -> {<<>>, <<"a">>, <<"a", "b", " ", "b", "a">>}], m \in {<<1, 0>>, <<3, 0>>, <<4, 0>>}}
ParaTexts == [1 .. 4 -> {<<>>, <<"a">>, <<" ", "a">>, <<"\\", "b">>}]
ParaJobs == {EditJob(t, <<l, 0>>, Marks(t, 1, 0), By("paragraph", {1, -1}), {}, 1) : t \in ParaTexts, l \in 1 .. 4}

\* Typing.
Typed == {[Command_("type") EXCEPT !.c = c] : c \in {"a", " ", "."}}
TypeJobs == {EditJob(<<<<" ", "a", " ", "a", "b">>, <<"b">>>>, <<1, 5>>, Marks(<<<<" ">>>>, 1, 0), Typed \cup Named({"newline"}), m, 4) :
               m \in {{"Fill"}, {"Fill", "Indent"}, {"Fill", "Abbrev", "OverWrite"}}}

\* Parentheses in C, in what is lexically right.
Tokens == {<<"(">>, <<")">>, <<"{">>, <<"a">>, <<"\"", "(", "\"">>, <<"'", "}", "'">>, <<"/", "*", ")", "*", "/">>,
           <<"\"", "\\", "\"", "(", "\"">>, <<"\"", "/", "*", "\"">>, <<"'", "\"", "'">>, <<"/", "*", "\"", "*", "/">>, <<"/">>}
ParenJobs == {EditJob(<<abc[1] \o abc[2], <<" ">> \o abc[3]>>, IF d = <<1, 2>> THEN <<1, Len(abc[1])>> ELSE d, Marks(<<<<>>>>, 1, 0),
                      Named({"up-list", "list"}), {"C"}, 1) :
                abc \in Tokens \X Tokens \X Tokens, d \in {<<1, 0>>, <<1, 2>>, <<2, 0>>, <<2, 2>>}}

\* Answers.
AskJob(typed, possible, flags, joverc, n) ==
  [Rest_ EXCEPT !.keys = n] @@ [kind |-> "ask", text |-> <<<<>>>>, dot |-> <<1, 0>>, buf |-> <<>>, typed |-> typed, file |-> FALSE,
    Possible |-> possible, flags |-> flags, joverc |-> joverc, show |-> FALSE]
Names_ == {<<<<"a">>, <<"a", "b">>, <<"a", "b", "b">>>>, <<<<"a", "b", "a">>, <<"a", "b", "b", "a">>, <<"b">>>>, <<<<"b", "a">>>>}
AskJobs ==
  {AskJob({"a", "b", "A", "1", "TAB", "SP", "CR"}, p, f, j, 4) : p \in Names_,
     f \in {{"OLD"}, {"OLD", "CASEIND"}, {"NEW"}, {"OLD", "NEW", "EMPTY"}, {"OLD", "INDEX"}}, j \in BOOLEAN}
File(name, bad, dir) == [name |-> name, bad |-> bad, dir |-> dir]
Files == {File(<<"a", "b">>, FALSE, TRUE), File(<<"a", "b", "a">>, TRUE, FALSE), File(<<"a", "b", "b">>, FALSE, FALSE), File(<<"b", "a">>, TRUE, FALSE)}
Listed == <<File(<<"a", "b">>, FALSE, TRUE), File(<<"a", "b", "a">>, TRUE, FALSE), File(<<"a", "b", "b">>, FALSE, FALSE),
             File(<<"b", "a">>, TRUE, FALSE)>>
FileJobs == {[AskJob({"a", "b", "TAB", "CR"}, SelectSeq(Listed, LAMBDA f : f \in fs), {}, FALSE, 4) EXCEPT !.file = TRUE, !.show = show] :
               fs \in SUBSET Files, show \in BOOLEAN}

\* Every other command.
Others == By("char", {1, -2}) \cup By("line", {1, -1}) \cup By("word", {1, -1}) \cup By("sentence", {1, -1})
  \cup By("delete", {1, -1}) \cup By("s-expression", {1, -1}) \cup By("shift", {2, -1})
  \cup Named({"down-list", "tab", "newline", "newline-and-indent", "open-line",
              "beginning-of-line", "end-of-line", "first-non-blank", "kill-word", "kill-sentence", "kill-s-expression", "kill-line",
              "delete-white-space", "delete-blank-lines", "transpose", "transpose-lines", "case-word", "case-region", "capitalize"})
  \cup {[Command_("paren") EXCEPT !.c = "}"], [Command_("case-word") EXCEPT !.n = -1, !.up = FALSE]}
OtherJobs == {EditJob(t, <<1, 2>>, Marks(t, 2, 1), Others, m, 2) :
                t \in {<<<<"a", "b", " ", "(", "a", ".">>, <<"{">>, <<>>, <<>>>>, <<<<"a", ".", " ", "{", " ", "b">>, <<" ", "b">>>>},
                m \in {{"C", "Indent"}, {"OverWrite", "Abbrev"}}}
MCEditJobs == FillJobs \cup RegionJobs \cup ParaJobs \cup TypeJobs \cup ParenJobs \cup AskJobs \cup FileJobs \cup OtherJobs
MCAllJobs == MCJobs \cup MCEditJobs
=============================================================================
