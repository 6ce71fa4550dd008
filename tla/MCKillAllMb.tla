---------------------------- MODULE MCKillAllMb -----------------------------
EXTENDS KillAllMb

\* "a.txt" and "./a.txt" name one file, which ends inside a word; c is no .txt.
MCNames == [p \in {"a.txt", "./a.txt", "b.txt", "c"} |->
              IF p = "b.txt" THEN "b" ELSE IF p = "c" THEN "c" ELSE "a"]
MCTexts == [f \in {"a", "b", "c"} |->
              IF f = "a" THEN <<"x">> ELSE IF f = "b" THEN <<"y", "w", " ">> ELSE <<"z">>]
MCTxt == DOMAIN MCNames \ {"c"}

Line(op, paths) == [op |-> op, paths |-> paths]
Idle == Line("none", <<>>)
Killall == Line("killallmb", <<>>)
Run == Line("run", <<>>)
App(p, q) == Line("++", <<p, q>>)
Cats == {Line("+", <<"a.txt", "b.txt">>), Line("+", <<"b.txt", "c">>), Line("+", <<>>)}
Wcs == {Line("#", <<p>>) : p \in {"a.txt", "b.txt"}}
Apps == {App(p, q) : p, q \in DOMAIN MCNames}
Some == {App("a.txt", "b.txt"), App("b.txt", "./a.txt")}

Lines2(X, Y) == {[s \in {1, 2, 3} |-> IF s = 1 THEN l ELSE IF s = 2 THEN m ELSE Idle]
                 : l \in X, m \in Y}
\* two operators at a time; a killallmb against each thing a shell can be doing, and two
\* of them with a third shell
MCLines ==
    Lines2(Apps, Some) \union Lines2(Cats \union Wcs, Some)
    \union Lines2({Killall}, {Idle, Run, Killall, App("a.txt", "b.txt")})
    \union {[s \in {1, 2, 3} |-> IF s = 3 THEN Run ELSE Killall]}

\* all on one terminal, each on its own, one without
MCPlaces == {<<"t1", "t1", "t2">>, <<"t1", "t2", "t2">>, <<"t1", "t2", "file">>, <<"file", "t1", "t1">>}
=============================================================================
