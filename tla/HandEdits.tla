------------------------------ MODULE HandEdits -------------------------------
(***************************************************************************)
(* A groups file that somebody wrote or changed by hand (profiles/<groups> *)
(* of a Clash Verge profile), and switch-bootstrap run on it again and     *)
(* again (runSwitchBootstrap in internal/cli/cli.go,                       *)
(* SwitchBootstrapInGroups in internal/identity/enhancement.go).  One      *)
(* command at a time, each to its end: what overlapping and failing        *)
(* commands leave is module Enhancement's.                                 *)
(***************************************************************************)
EXTENDS GroupsText

CONSTANTS Words,          \* what nodes and groups may be called
          Texts,          \* the files as they were edited
          BootstrapGroup, \* the configuration's
          Given,          \* what --node may be
          MaxSwitches     \* bound: switches made

ASSUME HandEditsAssumption ==
    /\ NoName \in NamesOf(Words)
    /\ Texts \subseteq Seq(LinesOf(Words))
    /\ Given \subseteq NamesOf(Words) \ {NoName}
    /\ MaxSwitches \in Nat

VARIABLES text,
          \* history
          original,  \* the text as it was edited
          recent,    \* the nodes chosen, each once, the last one first
          switches   \* switches made so far

vars == <<text, original, recent, switches>>

Init ==
    /\ text \in Texts
    /\ original = text
    /\ recent = <<>>
    /\ switches = 0

(* A refused switch changes nothing. *)
SwitchBootstrap(name) ==
    /\ switches < MaxSwitches
    /\ SwitchBootstrapInGroups(text, BootstrapGroup, name) # Refused
    /\ text' = SwitchBootstrapInGroups(text, BootstrapGroup, name)
    /\ recent' = Reordered(recent, name)
    /\ switches' = switches + 1
    /\ UNCHANGED original

Next == \E name \in Given : SwitchBootstrap(name)

Spec == Init /\ [][Next]_vars

-----------------------------------------------------------------------------
TypeOK ==
    /\ text \in Seq(LinesOf(Words)) /\ original \in Seq(LinesOf(Words))
    /\ recent \in Seq(Given) /\ IsInjective(recent)
    /\ switches \in 0 .. MaxSwitches

(* However often the list is switched, in whatever shape the file is, the  *)
(* groups and keys of the file stay as they were edited, and Clash finds   *)
(* in every other group what it found there (enhancement.go:291-299,       *)
(* 309-311, 332-339).                                                      *)
OtherGroupsSurvive ==
    /\ Headings(text) = Headings(original)
    /\ \A heading \in ToSet(Headings(original)) :
         heading.group # BootstrapGroup =>
           ClashLists(text, heading.group) = ClashLists(original, heading.group)

(* The tool and Clash understand the file alike; no name of its list has a *)
(* quote inside.                                                           *)
Legible(t) == HasList(t, BootstrapGroup) /\ Understood(t, BootstrapGroup)

Simple(t) ==
    /\ Legible(t)
    /\ \A i \in DOMAIN ItemsOf(ListLines(t, BootstrapGroup)) :
         ItemsOf(ListLines(t, BootstrapGroup))[i].name.quotes = 0

(* One switch of an edited file that the tool and Clash understand alike,  *)
(* and any number of switches when its names have no quotes inside, lose   *)
(* and double no candidate and change no name: Clash finds the nodes       *)
(* chosen, the last one first, then the candidates never chosen in the     *)
(* order of the edited file (enhancement.go:274-340).                      *)
CandidatesSurvive ==
    Simple(original) \/ (Legible(original) /\ switches <= 1) =>
        LET found == ClashLists(original, BootstrapGroup)
        IN  ClashLists(text, BootstrapGroup) =
                recent \o Within(found, ToSet(found) \ ToSet(recent))

=============================================================================
