----------------------------- MODULE MCRequests -----------------------------
(* References of every shape against bases of every kind; forms and headers. *)
EXTENDS Requests

Https == <<"s", ":">>
Slashes == <<"/", "/">>
Some(S, n) == SeqOf(S, n) \ {<< >>}

Paths == Some({"/", ".", "a", "%2E"}, 5)
Shapes == Some({"a", "s", ":", "/", ".", "?", "#"}, 3)
LongShapes == {<<"/">> \o p : p \in SeqOf({"/", ":", ".", "a"}, 3)} \cup {<<"/", "/", "a", "?", "%2f", "#">>, <<" ">>}
Authorities == SeqOf({"a", "%41", "%2f", "e'", "%g", ":", "4", "0", "@", "[", "]"}, 3)

Home == Https \o Slashes \o <<"a", ":", "8">>
Bases ==
  {Home, Home \o <<"/", "a", "/", ".", "?", "a">>, Home \o <<"/", "a", "/", ".", "%2E">>,
   <<"a", ":", "a", "/", "a">>, <<"a", "/">>}

\* A '&' and what may follow, with numbers at the limits.
Numbers == {<<"0">>, <<"1", "0">>, <<"3", "7">>, <<"4", "4">>, <<"7", "2">>, <<"1", "2", "8">>, <<"1", "2", "9">>, <<"1", "3", "1">>, <<"1", "6", "0">>,
            <<"5", "5", "2", "9", "5">>, <<"5", "5", "2", "9", "6">>, <<"6", "5", "5", "3", "6">>,
            <<"1", "1", "1", "4", "1", "1", "1">>, <<"1", "1", "1", "4", "1", "1", "2">>}
Referring ==
  {<<"&">> \o w : w \in SeqOf({"&", "#", "x", "a", "s", "4", ";"}, 4)}
    \cup {<<"&", "#">> \o n \o <<";", "a">> : n \in Numbers}
    \cup {<<"&", "#">> \o [i \in 1..k |-> "0"] \o <<"6", "5", ";">> : k \in 6..8}
    \cup {<<"&", "#", "x">> \o [i \in 1..k |-> "0"] \o <<"4", "1", ";">> : k \in 5..7}

MCLinks ==
  [href : Shapes \cup LongShapes, base : Bases \cup {NoBase}]
    \cup [href : Paths, base : {b \in Bases : Starts(b, Home)}]
    \cup [href : {Https \o Slashes \o a \o <<"/", "a">> : a \in Authorities}, base : {NoBase}]
    \cup [href : {<<"a", ":">> \o p : p \in Paths}, base : {NoBase}]
    \cup [href : Referring, base : {Home}]

Field(n, v) == [name |-> n, value |-> v]
Texts == SeqOf({"a", " ", "&", "=", "~", "+", "/", "e'"}, 2)
Pairs == {<<Field(<<"a">>, v), Field(n, w)>> : v, w \in {t \in Texts : Len(t) < 2}, n \in {<< >>, <<"=">>, Null}}
Actions == {Null, <<"a">>, <<"?", "a", "#", "a">>, <<"a", ":">>, <<" ">>, <<"/", "a", "a", "a">>}
MCSubmits ==
  [method : Method, action : Actions, base : {Home},
   fields : {<< >>} \cup {<<Field(n, v)>> : n \in {<< >>, <<"=">>}, v \in Texts} \cup Pairs]

Header(name, value) == <<name, "=">> \o value
Values == SeqOf({"a", ".", "/", "\\", "\"", ";", "^", " "}, 3)
ExtendedValues ==
  {FlattenSeq(ps) : ps \in SeqOf({<<"%", "2", "F">>, <<"%", "2", "E">>, <<"%", "0", "0">>, <<"%", "0">>,
                                  <<"'">>, <<"a">>, <<"/">>, <<";">>}, 3)}
Before == {p \o <<";", " ">> : p \in SeqOf({"a", "\"", "\\", ";"}, 4)}
Headers ==
  {NoHeader} \cup {Header("filename", v) : v \in Values} \cup {Header("filename*", v) : v \in ExtendedValues}
    \cup {p \o Header("filename", <<"a", "a">>) : p \in Before}
    \cup {Header("filename", <<"a", ";">>) \o Header("filename*", v) : v \in {<< >>, <<"/">>, <<"a", ".">>}}
MCResponses ==
  [ref : {Home \o <<"/", "a">>}, base : {NoBase}, header : Headers, length : {0}, max : {0}]
    \cup [ref : {<<"a">>, <<"/">>, <<"/", "%2f", ".", "a">>, <<"a", ":">>, <<" ">>, <<"/", "/", "%C3", ":", "8", "/", "%C3", "?", "%C3", "#", "%C3">>},
           base : {Home}, header : {NoHeader, Header("filename", << >>), Header("filename", <<".">>)},
           length : {-1, 0, 1, 2}, max : {-1, 0, 1}]
==============================================================================
