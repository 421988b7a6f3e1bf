------------------------------ MODULE MCSearch ------------------------------
EXTENDS Search
MCOrder == <<"a", "b", " ", "^", "\\", "(">>
MCIdents == {"a", "b"}
MCKeys == {"a", "b", "C-s", "C-r", "DEL", "C-g", "CR", "\\", "("}

A == P!Char("a")  B == P!Char("b")
AB == P!OneOf({"a", "b"}, <<"a", "-", "b">>)
Ends_ == {P!Edge("eol"), P!Edge("eow")}
Starts == {P!Edge("bol"), P!Edge("bow")}
Simple == {A, B, P!AnyChar, AB, P!NoneOf({"a"}, <<"a">>), P!Many(A), P!Many(P!AnyChar), P!Many(AB),
           P!Edge("bow"), P!Edge("eow"), P!Quoted("b")}
Groups == {P!Group(1, <<A>>), P!Group(1, <<P!Many(A)>>), P!Group(1, <<AB, P!Many(A)>>),
           P!Group(1, <<P!Either(<<<<A, B>>, <<A>>>>)>>)}
Eithers == {P!Either(<<<<A>>, <<B, A>>>>), P!Either(<<<<A, B>>, <<A>>, <<P!Edge("bow")>>>>)}
Refs == {P!Ref(1), P!Many(P!Ref(1))}
Patterns ==
  {<<x>> : x \in Simple \cup Groups \cup Eithers}
  \cup {<<x, y>> : x \in Simple \cup Eithers \cup Groups \cup Starts, y \in Simple \cup Eithers \cup Ends_}
  \cup {<<g, r>> : g \in Groups, r \in Refs}
  \cup {<<g, x, r>> : g \in Groups, x \in {A, B, P!Many(B)}, r \in Refs}
  \cup {<<x, y, z>> : x \in {A, P!Many(A), P!Edge("bol")}, y \in {A, B, P!Many(AB), P!Edge("bow")}, z \in {A, B, P!Edge("eol")}}
SearchJob(t, d, dir, alts, wrap) ==
  [kind |-> "search", text |-> t, dot |-> d, mark |-> <<1, 0>>, searchstr |-> <<>>, keys |-> 0,
   dir |-> dir, alts |-> alts, re |-> TRUE, wrap |-> wrap]
Text1 == << <<"a", "a", "b">>, <<" ", "b", "a", "b">> >>
Text2 == << <<"b", "a">>, <<>>, <<"a", "b", " ", "a">> >>
SearchJobs == {SearchJob(t, d, dir, <<p>>, w) : p \in Patterns, t \in {Text1, Text2}, d \in {<<1, 1>>, <<2, 0>>}, 
                 dir \in {1, -1}, w \in {TRUE}}

Rest_ == [mark |-> <<1, 0>>, searchstr |-> <<>>, keys |-> 0, dir |-> 1, re |-> TRUE, wrap |-> FALSE]
IsearchJob(t, d, dir, str, n) ==
  [Rest_ EXCEPT !.dir = dir, !.searchstr = str, !.keys = n] @@ [kind |-> "isearch", text |-> t, dot |-> d]
IsearchJobs == {
  IsearchJob(<< <<"a", "a", "a", "b">>, <<"b", "a">> >>, <<1, 0>>, 1, <<"b">>, 5),
  IsearchJob(<< <<"a", "b">>, <<"a", "a", "b">> >>, <<2, 1>>, -1, <<"a", "\\", "^">>, 5)}

ReplaceJob(t, d, alts, new, region, query, n) ==
  [Rest_ EXCEPT !.mark = IF region THEN <<2, 2>> ELSE @, !.keys = n]
    @@ [kind |-> "replace", text |-> t, dot |-> d, alts |-> alts, new |-> new, region |-> region, query |-> query]
Text3 == << <<"a", "a", "b">>, <<"a", "b", " ", "a">> >>
Replaceable == {
  << <<A>> >>, << <<P!Many(A)>> >>, << <<P!Edge("bol")>> >>, << <<P!Edge("eol")>> >>, << <<P!Edge("bow")>> >>,
  << <<P!Edge("eow")>> >>, << <<P!Edge("bow"), A>> >>, << <<P!Edge("bol"), P!Many(A)>> >>,
  << <<P!AnyChar>> >>, << <<A>>, <<B>> >>, << <<P!Many(AB)>> >>}
New == {<<>>, <<A>>, <<B, P!Ref(0), P!Quoted("b")>>}
Pair == << <<P!Group(1, <<A>>), P!Group(2, <<P!Many(B)>>)>> >>
ReplaceJobs ==
  {ReplaceJob(Text3, d, alts, new, r, FALSE, 0) : d \in {<<1, 0>>, <<1, 1>>, <<2, 3>>},
     alts \in Replaceable, new \in New, r \in BOOLEAN}
  \cup {ReplaceJob(Text3, <<1, 0>>, Pair, <<P!Ref(2), P!Ref(1)>>, r, FALSE, 0) : r \in BOOLEAN}
  \cup {ReplaceJob(Text3, <<1, 0>>, << <<P!Group(1, <<P!Many(A)>>), P!Many(P!Ref(1))>> >>, <<B>>, FALSE, FALSE, 0)}
  \cup {ReplaceJob(<< <<"a", " ", "a">>, <<"a", "a">> >>, <<1, 0>>, alts, new, FALSE, TRUE, 5) :
          alts \in {<< <<A>> >>, << <<P!Edge("bow")>> >>}, new \in {<<>>, <<B, B>>}}

TagJob(file, t) == [Rest_ EXCEPT !.re = FALSE] @@ [kind |-> "tag", text |-> << <<>> >>, dot |-> <<1, 0>>, lines |-> file, tag |-> t]
Names == <<<<2>>, <<2, 2>>, <<2, 3>>, <<2, 3>>, <<3>>, <<3, 2, 2>>>>
TagJobs == {TagJob([k \in 1 .. Cardinality(s) |->
                      LET i == CHOOSE j \in s : Cardinality({x \in s : x < j}) = k - 1
                      IN  [name |-> Names[i], size |-> Len(Names[i]) + IF i \in w THEN 10 ELSE 2]], t) :
              s \in (SUBSET (1 .. 6)) \ {{}}, w \in {{}, {1, 5}, {6}}, t \in {<<2>>, <<2, 3>>, <<3, 2>>, <<3>>}}
MCJobs == SearchJobs \cup IsearchJobs \cup ReplaceJobs \cup TagJobs
=============================================================================
