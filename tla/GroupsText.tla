------------------------------ MODULE GroupsText ------------------------------
(***************************************************************************)
(* The text of the groups file (internal/identity/enhancement.go): what    *)
(* apply renders, what status extracts, and the editing of lines by which  *)
(* switch-bootstrap puts one node first.                                   *)
(*                                                                         *)
(* A line is known by what the code and Clash look for in it: the first    *)
(* line of a group ("- name:", at any indentation), a top-level key,       *)
(* "proxies:" alone, a list item, another key of a group, a comment,       *)
(* nothing but spaces.  "proxies:" and the items have the column they      *)
(* begin at, an item also its name between the quotes, the way it is       *)
(* quoted, and whether a comment follows on its line.  A group is known by *)
(* the text after "name:".                                                 *)
(***************************************************************************)
EXTENDS Lists, Names, FiniteSetsExt

Styles == {"plain", "single", "double"}

(* The lines that may be written with the words in W, nodes and groups. *)
LinesOf(W) ==
    [kind : {"group", "key", "proxies", "item", "field", "comment", "blank"},
     group : W, name : NamesOf(W), style : Styles, comment : BOOLEAN, column : Nat]

Line(kind) == [kind |-> kind, group |-> NoName.node, name |-> NoName, style |-> "plain",
               comment |-> FALSE, column |-> 0]

Group(g)        == [Line("group") EXCEPT !.group = g]
Key             == Line("key")
Proxies(column) == [Line("proxies") EXCEPT !.column = column]
Field           == Line("field")
Comment         == Line("comment")
Blank           == Line("blank")

Item(name, style, column) ==
    [kind |-> "item", group |-> NoName.node, name |-> name, style |-> style,
     comment |-> FALSE, column |-> column]
Commented(item) == [item EXCEPT !.comment = TRUE]

(* The tool writes its "proxies:" and every item at this column, whatever  *)
(* the indentation around them.                                            *)
Column == 2

yamlSingleQuote(name) == Item(Doubled(name), "single", Column)

(* Both readers of the tool take the quotes off the ends of the line's     *)
(* rest, and only those: a comment stays, with the quote before it.        *)
Trimmed(item) ==
    LET closing == IF item.style = "single" THEN 1 ELSE 0
    IN  IF ~item.comment THEN item.name
        ELSE [node |-> item.name.node, quotes |-> item.name.quotes + closing,
              remark |-> item.style]

(* Clash reads YAML: a comment is no part of the name, and in single       *)
(* quotes two quotes are one.                                              *)
ClashReads(item) == IF item.style = "single" THEN Halved(item.name) ELSE item.name

-----------------------------------------------------------------------------
(* The lines of group g: the first line that names it, the "proxies:" of   *)
(* its block, and the end of the block, the next group or top-level key.   *)
GroupStarts(text, g) == {i \in DOMAIN text : text[i] = Group(g)}

BlockEndLater(text, start) ==  \* a slip: a top-level key does not end a block
    Min({i \in start + 1 .. Len(text) : text[i].kind = "group"} \cup {Len(text) + 1})

BlockEnd(text, start) ==
    Min({i \in start + 1 .. Len(text) : text[i].kind \in {"group", "key"}}
        \cup {Len(text) + 1})

ProxiesLines(text, start) ==
    {i \in start + 1 .. BlockEnd(text, start) - 1 : text[i].kind = "proxies"}

HasList(text, g) ==
    /\ GroupStarts(text, g) # {}
    /\ ProxiesLines(text, Min(GroupStarts(text, g))) # {}

ListAt(text, g)    == Min(ProxiesLines(text, Min(GroupStarts(text, g))))
ListEnd(text, g)   == BlockEnd(text, Min(GroupStarts(text, g)))
ListLines(text, g) == SubSeq(text, ListAt(text, g) + 1, ListEnd(text, g) - 1)

ItemsOf(lines) == Within(lines, {l \in ToSet(lines) : l.kind = "item"})

NamesIn(items) == [i \in DOMAIN items |-> Trimmed(items[i])]

extractToBlank(text, g) ==  \* a slip: the list ends at a blank line
    LET lines  == ListLines(text, g)
        blanks == {i \in DOMAIN lines : lines[i] = Blank}
    IN  IF ~HasList(text, g) THEN <<>>
        ELSE NamesIn(ItemsOf(SubSeq(lines, 1, Min(blanks \cup {Len(lines) + 1}) - 1)))

(* Every item down to the end of the block, another key's included. *)
extractBootstrapCandidates(text, g) ==
    IF HasList(text, g) THEN NamesIn(ItemsOf(ListLines(text, g))) ELSE <<>>

-----------------------------------------------------------------------------
ReorderedTwice(names, name) ==  \* a slip: the node is not taken out of its place
    <<name>> \o names

(* The node's name as it is given, then the others. *)
Reordered(names, name) == <<name>> \o Without(names, name)

Written(names) ==
    LET kept == Without(names, NoName)
    IN  [i \in DOMAIN kept |-> yamlSingleQuote(kept[i])]

Refused == <<>>

(* The text with name first in group g; it is refused without the group,   *)
(* its list, or the name in it.  Of the block from the list on nothing     *)
(* else is kept: blank lines, comments and further keys go.                *)
SwitchBootstrapInGroups(text, g, name) ==
    LET names == extractBootstrapCandidates(text, g)
    IN  IF ~Contains(names, name) THEN Refused
        ELSE SubSeq(text, 1, ListAt(text, g))
             \o Written(Reordered(names, name))
             \o SubSeq(text, ListEnd(text, g), Len(text))

(* The candidates' group and the final group, between two comments and the *)
(* keys; the last newline leaves an empty line.                            *)
Opening(bootstrap) == <<Comment, Comment, Key, Group(bootstrap), Field, Proxies(Column)>>
Closing(final, static) ==
    <<Group(final), Field, Proxies(Column), Item(static, "plain", Column), Key, Key, Blank>>

renderGroupEnhancement(bootstrap, final, static, candidates) ==
    Opening(bootstrap) \o Written(candidates) \o Closing(final, static)

-----------------------------------------------------------------------------
(* What Clash finds listed in group g: its list ends at another key of the *)
(* group, and at an item to the left of "proxies:".                        *)
LeavesList(line, column) ==
    \/ line.kind \in {"field", "proxies"}
    \/ line.kind = "item" /\ line.column < column

ClashPart(lines, column) ==
    LET leaving == {i \in DOMAIN lines : LeavesList(lines[i], column)}
    IN  SubSeq(lines, 1, Min(leaving \cup {Len(lines) + 1}) - 1)

ClashLists(text, g) ==
    IF ~HasList(text, g) THEN <<>>
    ELSE LET part  == ClashPart(ListLines(text, g), text[ListAt(text, g)].column)
             items == ItemsOf(part)
         IN  Without([i \in DOMAIN items |-> ClashReads(items[i])], NoName)

(* The tool and Clash find the same in the list of group g, and the column *)
(* the tool writes at is inside it: nothing but items, blank lines and     *)
(* comments up to the end of the block, no item with a comment on its line *)
(* or a quote inside single quotes, no group that is indented itself.      *)
Understood(text, g) ==
    LET lines  == ListLines(text, g)
        items  == ItemsOf(lines)
        column == text[ListAt(text, g)].column
    IN  /\ column <= Column
        /\ \A i \in DOMAIN lines : ~LeavesList(lines[i], column)
        /\ \A i \in DOMAIN items : Trimmed(items[i]) = ClashReads(items[i])
        /\ \A i, j \in DOMAIN items : items[i].column = items[j].column

Headings(text) == Within(text, {l \in ToSet(text) : l.kind \in {"group", "key"}})

=============================================================================
