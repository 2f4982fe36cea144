----------------------------- MODULE MCStartup -----------------------------
(***************************************************************************)
(* Startup on command lines of up to four arguments, a table of four       *)
(* codecs and a small directory tree with a link back to its root.         *)
(***************************************************************************)
EXTENDS Startup

MCLongName == <<"h", "e", "l", "p">>

(* Codecs: lz,1,2,12 - mem without levels - liz,10,11 - "old" is not built. *)
MCName == {"lz", "mem", "liz", "old", "FAST", "MAX", "unknown"}
MCRegistry == [lz  |-> [id |-> 1, lev |-> << <<1>>, <<2>>, <<1, 2>> >>],
               mem |-> [id |-> 2, lev |-> <<>>],
               liz |-> [id |-> 3, lev |-> << <<1, 0>>, <<1, 1>> >>]]
L(n, p)  == [lev |-> n, prm |-> p]
S(n, ls) == [name |-> n, levels |-> ls]
MCPlugg  == [FAST |-> <<S("lz", <<L(<<1>>, ""), L(<<2>>, "p")>>), S("old", <<>>)>>,
             MAX  |-> <<S("lz", <<L(<<3>>, "")>>), S("mem", <<>>)>>]
MCIni    == [MAX  |-> <<S("liz", <<L(<<1, 0>>, ""), L(<<2>>, "")>>), S("mem", <<>>)>>]
MCParam  == {"", "p", "longer", "longest", "long"}
MCCut    == [p \in MCParam |-> IF p \in {"longer", "longest"} THEN "long" ELSE p]

(* One letter of the argument of -e stands for one segment. *)
Seg == [a |-> S("lz",  <<L(<<1>>, ""), L(<<1>>, "p"), L(<<1>>, "")>>),
        b |-> S("lz",  <<L(<<2>>, "longer"), L(<<2>>, "longest"), L(<<2>>, "long")>>),
        c |-> S("mem", <<>>),
        d |-> S("liz", <<L(<<1>>, "")>>),
        e |-> S("liz", <<L(<<0>>, "")>>),
        f |-> S("lz",  <<L(<<1, 2>>, "")>>),
        g |-> S("old", <<>>),
        h |-> S("FAST", <<>>),
        i |-> S("MAX", <<>>),
        j |-> S("lz",  <<>>)]
MCSpecs == [t \in BoundedSeq(DOMAIN Seg, 3) \cup {<<"F", "A", "S", "T">>} |->
              IF Len(t) = 4 THEN <<Seg["h"]>> ELSE [k \in DOMAIN t |-> Seg[t[k]]]]

(* The tree: top holds the files one and two.gz, the directories sub and
   closed, and a dangling link; sub holds two and a link to top. *)
MCKind == [top |-> "dir", sub |-> "dir", closed |-> "locked", one |-> "reg",
           two |-> "reg", gz |-> "reg", dangling |-> "gone", empty |-> "reg",
           dash |-> "gone", own |-> "secret"]
MCSub  == [top |-> [a |-> "one", b |-> "gz", c |-> "sub", d |-> "dangling"],
           sub |-> [x |-> "two", y |-> "top", z |-> "closed"]]
MCData == [one |-> <<"5", "6", "7">>, two |-> <<"7", "8", "7">>, gz |-> <<"1">>, empty |-> <<>>]
P(root, parts, slash) == [root |-> root, parts |-> parts, slash |-> slash]
MCDelimiter == [t \in {<<"5", "4">>, <<"5", "5">>} |-> IF t[2] = "4" THEN "6" ELSE "7"]
MCLimit == [t \in {<<>>, <<"4">>, <<"7">>, <<"9">>, <<"1", "4">>} |->
              CASE t = <<>> -> 99 [] t = <<"4">> -> 4 [] t = <<"7">> -> 7 [] t = <<"9">> -> 9 [] OTHER -> 14]

-----------------------------------------------------------------------------
(* Three kinds of command lines: any four arguments; any three segments for
   -e; any two operands to merge, under the options of -M. *)
Argument == {<<"-", "r">>, <<"-", "g", "r">>, <<"-", "e">>, <<"-", "e", "a">>, <<"f">>, <<"d">>,
        <<"-", "-">>, <<"-">>, <<"-", "x">>, <<"-", "H">>, <<"-", "R", "-">>,
        <<"-", "-", "h">>, <<"-", "-", "x">>, <<"-", "i", "0">>}
ParseLines  == BoundedSeq(Argument, 3) \cup {<<x, y, z, v>> : x \in {<<"f">>, <<"-", "e">>},
                  y \in Argument, z \in Argument, v \in {<<"d">>, <<"-", "r">>, <<"-", "-">>}}
SelectLines == {<<<<"-", "e">> \o t, <<"f">>>> : t \in DOMAIN MCSpecs \ {<<>>}}
               \cup {<<<<"-", "e">>, <<>>, <<"f">>>>}
               \cup {<<<<"-", "e", x>>>> : x \in DOMAIN Seg}
MergeLines  ==
  {<<<<"-", "M", "o">>>> \o r \o n \o b \o f :
     r \in {<<>>, <<<<"-", "r", "-">>>>}, n \in {<<>>, <<<<"-", "N", "5", "5">>>>, <<<<"-", "N", "5", "4">>>>},
     b \in {<<>>, <<<<"-", "B", "4">>>>, <<<<"-", "B", "7">>>>, <<<<"-", "B", "9">>>>, <<<<"-", "B", "1", "4">>>>},
     f \in BoundedSeq({<<"/">>, <<"d", "/">>, <<"f">>, <<"2">>, <<"0">>, <<"-">>, <<"p">>}, 2)}

MCLines == ParseLines \cup SelectLines \cup MergeLines

Words   == {<<"stdin">>} \cup UNION {{line[i] : i \in DOMAIN line} : line \in MCLines}

(* What has no node is not there. *)
MCOperand ==
  [t \in Words |->
     CASE t = <<"/">>      -> [path |-> P(TRUE, <<>>, FALSE), node |-> "top"]
       [] t = <<"d">>      -> [path |-> P(FALSE, <<"d">>, FALSE), node |-> "top"]
       [] t = <<"d", "/">> -> [path |-> P(FALSE, <<"d">>, TRUE), node |-> "sub"]
       [] t = <<"f">>      -> [path |-> P(FALSE, <<"f">>, FALSE), node |-> "one"]
       [] t = <<"2">>      -> [path |-> P(FALSE, <<"2">>, FALSE), node |-> "two"]
       [] t = <<"p">>      -> [path |-> P(FALSE, <<"p">>, FALSE), node |-> "own"]
       [] t = <<"-">>      -> [path |-> P(FALSE, <<"-">>, FALSE), node |-> "dash"]
       [] t = <<"0">>      -> [path |-> P(FALSE, <<"0">>, FALSE), node |-> "empty"]
       [] OTHER            -> [path |-> P(FALSE, <<"gone">>, FALSE), node |-> "dangling"]]

-----------------------------------------------------------------------------
(* The program always gets to the benchmark or ends, links that lead back to a
   directory above them included. *)
Ends == <>(main \in {"bench", "usage", "crash", "exit"})
=============================================================================
