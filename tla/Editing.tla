------------------------------- MODULE Editing -------------------------------
(***************************************************************************)
(* Commands that work on what the text says (insert.c, misc.c, delete.c,   *)
(* case.c, move.c, para.c, c.c, abbrev.c), and answers that are completed, *)
(* beside those of Search.tla: a behaviour is one of Jobs again, and an    *)
(* "edit" or "ask" job gives the buffer it begins with and the commands or *)
(* keys that may be typed.                                                 *)
(***************************************************************************)
EXTENDS Search, Completion, Paragraphs, Parens

VARIABLE buf          \* the buffer of an "edit" job; the minibuffer's line of an "ask" job

allVars == <<vars, buf>>

-----------------------------------------------------------------------------
(* Typing.  Modes are the minor modes that are on, and "C" if the major    *)
(* mode is; abbrevs the table that is looked up (a function of words).     *)

WordBefore(b) == LET p == CHOOSE q \in 0 .. b.dot[2] :
                            /\ q = 0 \/ ~jisident(At(linebuf(b), q - 1))
                            /\ \A r \in q .. b.dot[2] - 1 : jisident(At(linebuf(b), r))
                 IN  SubSeq(linebuf(b), p + 1, b.dot[2])
\* A phrase takes over capitals: one its first, more of them those of all its words.
AbbrevExpand(b, abbrevs) ==
  LET word == WordBefore(b)
      count == Cardinality({i \in DOMAIN word : word[i] \in DOMAIN LowerOf})
      phrase == abbrevs[Lowered(word)]
      Up(i) == count > 0 /\ (i = 1 \/ (count > 1 /\ phrase[i - 1] \in Blank \cup {"-"}))
  IN  IF Lowered(word) \notin DOMAIN abbrevs THEN b
      ELSE ins_str(del_char(b, 0 - Len(word)),
                   [i \in DOMAIN phrase |-> IF Up(i) THEN CharUpcase(phrase[i]) ELSE phrase[i]])
MaybeAbbrevExpand(b, c, modes, abbrevs) ==
  IF "Abbrev" \in modes /\ ~jisident(c) /\ WordBefore(b) # <<>> THEN AbbrevExpand(b, abbrevs) ELSE b

overwrite(b, c) ==
  LET stays == eolp(b) \/ (Here(b) = "\t" /\ tabstop - (Column(b) % tabstop) # 1)
  IN  ins_str(IF stays THEN b ELSE del_char(b, 1), <<c>>)
AutoFill(b, c, modes) ==
  LET full == "Fill" \in modes /\ Column(b) >= RMargin /\ ~(c \in Blank /\ eolp(b))
      margin == IF "Indent" \in modes THEN Column(ToIndent(b)) ELSE LMargin
      l == b.dot[1]
  IN  IF full THEN DoJustify(b, <<l, 0>>, <<l, Len(linebuf(b))>>, TRUE, margin) ELSE b
SelfInsert(b, c, modes, abbrevs) ==
  LET words == MaybeAbbrevExpand(b, c, modes, abbrevs)
  IN  AutoFill(IF "OverWrite" \in modes THEN overwrite(words, c) ELSE ins_str(words, <<c>>), c, modes)
Tab(b, modes, abbrevs) ==
  IF "C" \notin modes THEN SelfInsert(b, "\t", modes, abbrevs)
  ELSE IF within_indent(b) THEN c_indent(b, FALSE)
  ELSE LET at == skip_wht_space(b) IN n_indent(at, NextTab(Column(at)))
DoParen(b, c, modes, abbrevs) ==
  SelfInsert(IF "C" \in modes /\ c = "}" /\ within_indent(b) THEN c_indent(b, TRUE) ELSE b, c, modes, abbrevs)
DoNewline(b, indentp, modes, abbrevs) ==
  LET indent == Column(ToIndent(b))
      words == MaybeAbbrevExpand(b, NUL, modes, abbrevs)
      bare == IF indentp THEN DelWtSpace(words) ELSE words
      new == IF eolp(bare) /\ TwoBlank(bare) THEN Goto(bare, <<bare.dot[1] + 1, 0>>) ELSE LineInsert(bare, 1)
  IN  IF indentp THEN DoIndent(new, IF LMargin = 0 THEN indent ELSE LMargin) ELSE new
KillEOL(b) ==
  LET end == IF ~blnkp(After(linebuf(b), b.dot[2])) \/ lastp(b) THEN <<b.dot[1], Len(linebuf(b))>>
             ELSE <<b.dot[1] + 1, 0>>
  IN  IF end = b.dot THEN complain(b) ELSE Delete(b, b.dot, end)
\* reg_kill of what a motion has passed.
Kill(b, to) ==
  CASE to.what # "ok" -> to
    [] to.what = "ok" /\ to.dot = b.dot -> complain(b)
    [] OTHER -> Delete(b, First({b.dot, to.dot}, b.dot), Latest({b.dot, to.dot}, b.dot))
RECURSIVE Sentences(_, _), SentencesFrom(_, _)
Sentences(b, n) == IF n = 0 THEN b ELSE SentencesFrom(to_sent(b, Sign(n)), n)
SentencesFrom(b, n) == IF AtAnEnd(b, Sign(n)) THEN b ELSE Sentences(b, n - Sign(n))
KillEos(b, n) == Kill(b, Sentences(b, n))
KillExpr(b, CMode) == Kill(b, Exprs(b, 1, TRUE, CMode))
OpenLine(b) == Goto(LineInsert(b, 1), b.dot)
NextLine(b, n) ==      \* and PrevLine
  IF (n > 0 /\ eobp(b)) \/ (n < 0 /\ bobp(b)) THEN complain(b) ELSE line_move(b, n, TRUE)
case_word(b, to, up) == [Cased(b, b.dot, to.dot, up) EXCEPT !.dot = Latest({b.dot, to.dot}, b.dot)]
CaseReg(b, up) == Cased(b, b.dot, b.marks["mark"], up)

\* What command c does in buffer b, in these modes.
Do(b, c, modes, abbrevs) ==
  LET C == "C" \in modes
      word == f_word(b, IF "n" \in DOMAIN c THEN c.n ELSE 0)
  IN  CASE c.name = "char" -> f_char(b, c.n)
        [] c.name = "line" -> NextLine(b, c.n)
        [] c.name = "beginning-of-line" -> Bol(b)
        [] c.name = "end-of-line" -> Eol(b)
        [] c.name = "first-non-blank" -> ToIndent(b)
        [] c.name = "word" -> word
        [] c.name = "sentence" -> Sentences(b, c.n)
        [] c.name = "paragraph" -> DoPara(b, FORWARD, c.n)
        [] c.name = "s-expression" -> Exprs(b, c.n, TRUE, C)
        [] c.name = "list" -> Exprs(b, c.n, FALSE, C)
        [] c.name = "up-list" -> BUpList(b, C)
        [] c.name = "down-list" -> FDownList(b)
        [] c.name = "type" -> SelfInsert(b, c.c, modes, abbrevs)
        [] c.name = "paren" -> DoParen(b, c.c, modes, abbrevs)
        [] c.name = "tab" -> Tab(b, modes, abbrevs)
        [] c.name = "newline" -> DoNewline(b, "Indent" \in modes, modes, abbrevs)
        [] c.name = "newline-and-indent" -> DoNewline(b, TRUE, modes, abbrevs)
        [] c.name = "open-line" -> OpenLine(b)
        [] c.name = "delete" -> del_char(b, c.n)
        [] c.name = "kill-word" -> Kill(b, word)
        [] c.name = "kill-sentence" -> KillEos(b, c.n)
        [] c.name = "kill-s-expression" -> KillExpr(b, C)
        [] c.name = "kill-line" -> KillEOL(b)
        [] c.name = "delete-white-space" -> DelWtSpace(b)
        [] c.name = "delete-blank-lines" -> Unmarked(DelBlnkLines(b), {"dot"})
        [] c.name = "transpose" -> TransChar(b)
        [] c.name = "transpose-lines" -> TransLines(b)
        [] c.name = "case-word" -> case_word(b, word, c.up)
        [] c.name = "case-region" -> CaseReg(b, c.up)
        [] c.name = "capitalize" -> CapWord(b)
        [] c.name = "shift" -> re_indent(b, c.n)
        [] c.name = "fill-paragraph" -> FillParagraph(b, c.arg)
        [] c.name = "fill-region" -> FillRegion(b, c.arg)

NoBuf == <<>>
Buf(t, d, marks) == [text |-> t, dot |-> d, marks |-> marks, line_pos |-> 0, lined |-> FALSE, what |-> "ok",
                     lm |-> FALSE, hi |-> 0, bi |-> 0]
\* The next command is obeyed; where the file is "for ever" busy with one, no more are.
Command ==
  /\ state = "start" /\ job.kind = "edit" /\ left > 0
  /\ left' = left - 1
  /\ \E c \in job.commands : \E b \in {[buf EXCEPT !.what = "ok", !.lined = @ /\ c.name = "line"]} :
       \E new \in {Do(b, c, job.modes, job.abbrevs)} :
         /\ buf' = [new EXCEPT !.lined = @ /\ c.name = "line"]
         /\ state' = IF new.what = "hangs" THEN "hangs" ELSE "start"
         /\ past' = [past EXCEPT !.text = buf, !.answers = <<c>>, !.stale = @ \/ c.name = "transpose-lines"]
  /\ UNCHANGED <<text, dot, mark, searchstr, job, frames, ISbuf, Inputp, sub, tag>>

\* A character is typed in the minibuffer, or a key that completes or answers.
Complete ==
  /\ state = "start" /\ job.kind = "ask" /\ left > 0
  /\ left' = left - 1
  /\ \E key \in job.typed :
       /\ past' = [past EXCEPT !.text = buf, !.answers = <<key>>]
       /\ CASE key \notin {"TAB", "SP", "CR", "LF"} -> buf' = Append(buf, key) /\ UNCHANGED <<state, tag>>
            [] key \in {"TAB", "SP", "CR", "LF"} /\ job.file ->
                 IF key \in {"CR", "LF"} THEN state' = "done" /\ UNCHANGED <<buf, tag>>
                 ELSE buf' = f_complete(buf, job.Possible, job.show) /\ UNCHANGED <<state, tag>>
            [] OTHER -> \E a \in {aux_complete(buf, key, job.Possible, job.flags, job.joverc)} :
                 /\ buf' = a.line
                 /\ state' = CASE a.out = "accept" -> "done" [] a.out = "stay" -> "start" [] a.out = "error" -> "error"
                 /\ tag' = [tag EXCEPT !.at = a.value]
  /\ UNCHANGED <<text, dot, mark, searchstr, job, frames, ISbuf, Inputp, sub>>

EditingInit == Init /\ buf = IF job.kind \in {"edit", "ask"} THEN job.buf ELSE NoBuf
SearchNext == Next /\ UNCHANGED buf
EditingNext == SearchNext \/ Command \/ Complete
EditingSpec == EditingInit /\ [][EditingNext]_allVars /\ WF_allVars(Work /\ UNCHANGED buf)

-----------------------------------------------------------------------------
Was == past.text              \* the buffer before the last command
Obeyed(names) == job.kind = "edit" /\ past.answers # <<>> /\ past.answers[1].name \in names /\ buf.what = "ok"
Solid(c) == c \notin Blank
WordsOf(line) ==
  LET starts == {p \in DOMAIN line : Solid(line[p]) /\ (p = 1 \/ ~Solid(line[p - 1]))}
      End(p) == CHOOSE q \in p .. Len(line) : /\ \A r \in p .. q : Solid(line[r])
                                              /\ q = Len(line) \/ ~Solid(line[q + 1])
  IN  [i \in 1 .. Cardinality(starts) |->
         LET p == CHOOSE q \in starts : Cardinality({r \in starts : r < q}) = i - 1 IN SubSeq(line, p, End(p))]
AllWords(t) == FlattenSeq([l \in DOMAIN t |-> WordsOf(t[l])])
SolidBefore(t, d) == Cardinality({x \in UNION {{l} \X DOMAIN t[l] : l \in DOMAIN t} :
                                    Solid(t[x[1]][x[2]]) /\ Earlier(<<x[1], x[2] - 1>>, d)})

\* Filling, and breaking a line that has become too long, changes white space and
\* nothing else: the words stay, in their order, and every mark between the
\* characters it was between (DoJustify); and fill-region leaves alone what is
\* outside of the region, but for the blank lines after a region that ends with a
\* blank line, which go, up to the next paragraph (do_rfill).
WordsKept ==
  Obeyed({"fill-paragraph", "fill-region", "type"}) =>
    LET c == past.answers[1]
        fill == c.name # "type"
        typed == IF fill THEN Was ELSE SelfInsert(Was, c.c, job.modes \ {"Fill"}, job.abbrevs)
        d == Was.dot
        m == Was.marks["mark"]
        head == SubSeq(Was.text, 1, First({m, d}, d)[1] - 1)
        end == Latest({m, d}, d)[1]
    IN  /\ AllWords(buf.text) = AllWords(typed.text)
        /\ \A k \in DOMAIN Was.marks : SolidBefore(buf.text, buf.marks[k]) = SolidBefore(typed.text, typed.marks[k])
        /\ c.name = "fill-region" =>
             /\ IsPrefix(head, buf.text)
             /\ i_blank(Was.text, end) \/ IsSuffix(After(Was.text, end), buf.text)

\* A paragraph that has been filled: no line is too wide, unless it is one word,
\* and no line could have taken the word after it and the space before that, or the
\* two spaces after the end of a sentence (cmds.nr, fill-paragraph); and if it still
\* is one paragraph, filling it again changes nothing.
Width(line) == calc_pos(line, Len(line))
Gap(line) == IF SentenceTo(line, Len(line)) THEN 2 ELSE 1
Filled ==
  Obeyed({"fill-paragraph"}) =>
    LET p == find_para(Was.text, Was.dot[1], BACKWARD)
        q == find_para(buf.text, buf.dot[1], BACKWARD)
        last == Len(buf.text) - (Len(Was.text) - p.tail)
    IN  /\ \A l \in p.head .. last : Width(buf.text[l]) <= RMargin \/ Len(WordsOf(buf.text[l])) = 1
        /\ \A l \in p.head .. last - 1 : Width(buf.text[l]) + Gap(buf.text[l]) + Len(WordsOf(buf.text[l + 1])[1]) > RMargin
        /\ q.head = p.head /\ q.tail = last => FillParagraph(buf, FALSE).text = buf.text

\* From the beginning on, what each position is in: code, a string, a character or
\* a comment (of C).
Lexed(t) ==
  LET flat == InOrder(t)
      C(i) == At(t[flat[i][1]], flat[i][2])
      Step(s, i) ==
        LET is == s[Len(s)]
            next == CASE is = "code" /\ C(i) = "\"" -> "string"
                      [] is = "code" /\ C(i) = "'" -> "char"
                      [] is = "code" /\ C(i) = "*" /\ i > 1 /\ C(i - 1) = "/" -> "comment"
                      [] is = "string" /\ C(i) = "\"" /\ C(i - 1) # "\\" -> "code"
                      [] is = "char" /\ C(i) = "'" -> "code"
                      [] is = "comment" /\ C(i) = "/" /\ C(i - 1) = "*" -> "code"
                      [] OTHER -> is
        IN  Append(s, next)
      all == FoldLeft(Step, <<"code">>, [i \in DOMAIN flat |-> i])
  IN  [d \in ToSet(flat) |-> all[CHOOSE i \in DOMAIN flat : flat[i] = d]]
\* The brackets that count.
Brackets(t) == LET lexed == Lexed(t) IN {d \in DOMAIN lexed : lexed[d] = "code" /\ At(t[d[1]], d[2]) \in Opening \cup Closing}
Depth(t, ds) == Cardinality({d \in ds : At(t[d[1]], d[2]) \in Opening}) - Cardinality({d \in ds : At(t[d[1]], d[2]) \in Closing})
\* In C, from code, up-list comes to the bracket that opens what encloses the point,
\* and list to after the one that closes what opens there: none that is in a
\* string, a character or a comment is taken for one.  But an opening bracket at the
\* beginning of a line in between ends the search of up-list, and the point stays
\* (m_paren, can_stop).
ParensMatch ==
  (Obeyed({"up-list", "list"}) /\ "C" \in job.modes) =>
    LET t == Was.text
        at == Was.dot
        all == Brackets(t)
        Between(d, e) == {x \in all : ~Earlier(x, d) /\ Earlier(x, e)}
        enclosing == Latest({d \in all : Earlier(d, at) /\ Depth(t, Between(d, at)) = 1}, <<>>)
        matching == First({d \in all : Earlier(at, d) /\ Depth(t, Between(at, d) \cup {d}) = 0}, <<>>)
        code == Lexed(t)[at] = "code"
        stop == \E d \in all : /\ Earlier(d, at) /\ d[2] = 0 /\ At(t[d[1]], 0) \in Opening
                               /\ enclosing # <<>> => Earlier(enclosing, d)
    IN  IF past.answers[1].name = "up-list"
        THEN code => buf.dot = IF enclosing = <<>> \/ stop THEN at ELSE enclosing
        ELSE at \in all /\ Here(Was) \in Opening =>
               buf.dot = IF matching = <<>> THEN at ELSE <<matching[1], matching[2] + 1>>

LongestCommon(names) ==
  LET one == CHOOSE s \in names : TRUE
      common == {n \in 0 .. Len(one) : \A t \in names : IsPrefix(SubSeq(one, 1, n), t)}
  IN  SubSeq(one, 1, Max(common))
\* The keys answer as the comment before complete says (extend.c): what is accepted
\* is one of Possible, a new answer or a number only where that may be, never one of
\* several that could be meant; otherwise what is typed becomes what all that could
\* be meant begin with.  If nothing new has that name an answer that exists is kept.
\* A file name is completed as far as the names go together that are not to be
\* ignored, and no character of it is lost (fill_in).
Completed ==
  (job.kind = "ask" /\ past.answers # <<>> /\ past.answers[1] \in {"TAB", "SP", "CR", "LF"}) =>
    LET t == IF "CASEIND" \in job.flags THEN Lowered(Was) ELSE Was
        c == IF past.answers[1] = "LF" \/ job.joverc THEN "CR" ELSE past.answers[1]
        names == IF job.file THEN [i \in DOMAIN job.Possible |-> job.Possible[i].name] ELSE job.Possible
        matches == {i \in DOMAIN names : IsPrefix(t, names[i])}
        meant == {names[i] : i \in matches}
        old == "OLD" \in job.flags
        exists == t \in meant /\ ~old /\ c # "TAB"
        accepted == {i \in matches : old /\ (names[i] = t \/ matches = {i})}
          \cup {i \in {Numeral(t)} \cap DOMAIN names : c = "CR" /\ "INDEX" \in job.flags}
          \cup {i \in {-1} : c = "CR" /\ (IF t = <<>> THEN "EMPTY" ELSE "NEW") \in job.flags}
        good == {i \in matches : ~job.Possible[i].bad}
        longest == LongestCommon({names[i] : i \in IF good = {} THEN matches ELSE good})
        single == Cardinality(IF good = {} THEN matches ELSE good) = 1 /\ job.Possible[Min(IF good = {} THEN matches ELSE good)].dir
    IN  CASE job.file -> c = "CR" \/ buf = IF matches = {} \/ (good = {} /\ ~job.show) THEN t
                                         ELSE IF single THEN Append(longest, "/") ELSE longest
          [] ~job.file /\ state = "done" -> c # "TAB" /\ tag.at \in accepted
          [] ~job.file /\ state = "error" -> job.joverc /\ (accepted = {} \/ exists)
          [] OTHER -> IF exists THEN buf = t
                      ELSE /\ c = "TAB" \/ accepted = {}
                           /\ IF meant # {} THEN buf = LongestCommon(meant) ELSE IsPrefix(buf, t)

\* The region a command works on ends beyond the end of a line, as transpose-lines
\* leaves the mark.
RegionOver == LET end == Latest({Was.dot, Was.marks["mark"]}, Was.dot) IN end[2] > Len(Was.text[end[1]])
\* What filling begins with is a single line.
OneLine ==
  LET all == past.answers[1].name = "fill-paragraph"
      from == First({Was.dot, Was.marks["mark"]}, Was.dot)[1]
      end == Latest({Was.dot, Was.marks["mark"]}, Was.dot)[1]
      p == IF all THEN find_para(Was.text, Was.dot[1], BACKWARD) ELSE find_para(Was.text, from, FORWARD)
  IN  p # NoPara /\ IF all THEN p.head = p.tail ELSE Max({from, p.head}) = Min({end, p.tail})

\* No search, replacement, filling or other command goes on for ever, but in three
\* cases, in which the program does: a pattern with any number of references to a
\* group that may be empty (REmatch); changing the case of a region that ends beyond
\* the end of a line (case_reg); and filling with an argument that begins with giving
\* a single line another indentation, if what is left of it ends before the end that
\* is marked only then (DoJustify).
CommandsEnd ==
  []<>(\/ state \in {"done", "error", "isearch", "quoting", "asking"}
       \/ state = "start" /\ job.kind \in {"edit", "ask"}
       \/ state = "hangs" /\ job.kind \in {"search", "replace"} /\ P!RepeatedEmptyRef(job.alts)
       \/ state = "hangs" /\ job.kind = "edit" /\ past.answers[1].name = "case-region" /\ RegionOver
       \/ /\ state = "hangs" /\ job.kind = "edit" /\ past.answers[1].name \in {"fill-region", "fill-paragraph"}
          /\ past.answers[1].arg /\ OneLine)
=============================================================================
