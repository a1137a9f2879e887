---------------------------- MODULE MCHandEdits -----------------------------
(* Files edited by hand: blocks of the bootstrap group with up to three    *)
(* lines after "proxies:", or without it, in three layouts (the column of  *)
(* "proxies:", of the items), names with quotes inside, another group      *)
(* before, a key or a group after.                                         *)
EXTENDS HandEdits

MCWords == {"", "plain", "second", "quoted", "bootstrap", "other", "final"}

plain   == Name("plain", 0)
second  == Name("second", 0)
quoted  == Name("quoted", 1)
Home(m) == [m EXCEPT !.remark = "plain"]

MCGiven == {plain, second, quoted, Doubled(quoted), Home(plain)}

ItemsAt(column) ==
    {Item(plain, "plain", column), Item(second, "single", column),
     Item(quoted, "plain", column), Item(Doubled(quoted), "single", column),
     Commented(Item(plain, "plain", column)), Commented(Item(plain, "single", column)),
     Item(NoName, "single", column)}

LinesAt(column) == {Blank, Comment, Field} \cup ItemsAt(column)

Layouts == {<<2, 2>>, <<2, 4>>, <<4, 4>>}

Listed(layout, lines) == {<<Proxies(layout[1])>> \o s : s \in lines}
UpTo(n, S) == UNION {[1 .. k -> S] : k \in 0 .. n}

Blocks == {<<>>, <<Field>>}
            \cup UNION {Listed(layout, UpTo(3, LinesAt(layout[2]))) : layout \in Layouts}

Other(g, m) == <<Group(g), Field, Proxies(2), Item(m, "plain", 2)>>
Befores == {<<Key>>, Other("other", quoted)}
Afters  == {<<>>, <<Key, Item(plain, "plain", 0)>>, Other("final", plain)}

File(before, block, after) == before \o <<Group("bootstrap"), Field>> \o block \o after

MCTexts == {File(before, block, after) :
              before \in Befores, block \in Blocks, after \in Afters}
=============================================================================
