--------------------------- MODULE EnhancementText ----------------------------
(***************************************************************************)
(* Enhancement's groups file as text: the lists of module Enhancement      *)
(* stand for the lines of module GroupsText, and Clash reads the lines.    *)
(***************************************************************************)
EXTENDS Enhancement, GroupsText

Static == Name("static", 0)

(* The text of a groups file in which the tool reads list. *)
TextOf(list) ==
    Opening("bootstrap")
    \o [i \in DOMAIN list |-> Item(list[i], "single", Column)]
    \o Closing("final", Static)

(* What Clash finds in a groups file of content c. *)
ClashFinds(c) == ClashLists(TextOf(c.data), "bootstrap")

(* Editing lines is reordering the list, for names with any number of      *)
(* quotes inside: apply renders the text of the list it wrote, from the    *)
(* text of whatever is on the disk status extracts the list it stands for, *)
(* and switching that text gives the text of the switched list, or is      *)
(* refused when the name is not in the list as the tool reads it           *)
(* (enhancement.go:157-195, 219-240, 274-340).                             *)
TextIsList ==
    /\ disk["groups"].kind = "managed" =>
         LET list == disk["groups"].data
             text == TextOf(list)
         IN  /\ extractBootstrapCandidates(text, "bootstrap") = list
             /\ \A n \in Given :
                  SwitchBootstrapInGroups(text, "bootstrap", n) =
                    IF Contains(list, n) THEN TextOf(Switched(list, n)) ELSE Refused
    /\ \A j \in Applies :
         renderGroupEnhancement("bootstrap", "final", Static, dedupeNonEmpty(j.nodes))
           = TextOf(Rendered("groups", j).data)

(* When apply has made its last write, Clash reads in the groups file each *)
(* candidate apply was given, once, in their order, with every quote as it *)
(* was given, unless somebody wrote the file since apply read it           *)
(* (enhancement.go:86-104, 219-230, 360-376).                              *)
ClashReadsWhatApplyWasGiven ==
    \A p \in Procs :
        /\ WritesDone(p) /\ job[p].cmd = "apply"
        /\ "groups" \notin overtaken[p]
        => ClashFinds(disk["groups"]) = dedupeNonEmpty(job[p].nodes)

=============================================================================
