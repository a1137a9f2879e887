---------------------------- MODULE HandEditsProofs ----------------------------
(***************************************************************************)
(* Theorems of module HandEdits: what holds of one switch of any text      *)
(* (GroupsTextProofs), over any number of switches of any files.           *)
(***************************************************************************)
EXTENDS HandEdits, GroupsTextProofs

LEMMA ReorderedFacts ==
    ASSUME NEW T, NEW s \in Seq(T), NEW a \in T
    PROVE  /\ Reordered(s, a) \in Seq(T) /\ ToSet(Reordered(s, a)) = ToSet(s) \cup {a}
           /\ IsInjective(s) => IsInjective(Reordered(s, a))
<1> DEFINE one == <<a>>
<1> DEFINE w == Without(s, a)
<1> DEFINE r == one \o w
<1>1. /\ w \in Seq(T) /\ ToSet(w) = ToSet(s) \ {a}
      /\ IsInjective(s) => IsInjective(w)
  <2>1. w \in Seq(T) /\ ToSet(w) = ToSet(s) \ {a}
        BY WithoutIn
  <2>2. IsInjective(s) => IsInjective(w)
        BY WithinFacts DEF Without
  <2> QED BY <2>1, <2>2
<1>2. one \in Seq(T) /\ Len(one) = 1 /\ one[1] = a
      OBVIOUS
<1>3. Reordered(s, a) = r
      BY Zenon DEF Reordered
<1> HIDE DEF one, w, r
<1>4. /\ r \in Seq(T) /\ Len(r) = 1 + Len(w) /\ Len(w) \in Nat
      /\ DOMAIN r = 1 .. 1 + Len(w) /\ DOMAIN w = 1 .. Len(w)
      /\ r[1] = a /\ \A i \in 1 .. Len(w) : r[i + 1] = w[i]
  <2>1. /\ r \in Seq(T) /\ Len(r) = Len(one) + Len(w)
        /\ \A i \in 1 .. Len(one) + Len(w) :
             r[i] = IF i <= Len(one) THEN one[i] ELSE w[i - Len(one)]
        BY <1>1, <1>2, ConcatProperties, ZenonT(60) DEF r
  <2>2. Len(w) \in Nat /\ DOMAIN w = 1 .. Len(w) /\ DOMAIN r = 1 .. Len(r)
        BY <1>1, <2>1, LenProperties
  <2>3. r[1] = a
        BY <1>2, <2>1, <2>2
  <2>4. ASSUME NEW i \in 1 .. Len(w) PROVE r[i + 1] = w[i]
    <3>1. i + 1 \in 1 .. 1 + Len(w) /\ ~(i + 1 <= 1) /\ (i + 1) - 1 = i
          BY <2>2
    <3> QED BY <3>1, <1>2, <2>1
  <2> QED BY <1>2, <2>1, <2>2, <2>3, <2>4
<1>5. \A i \in 1 .. 1 + Len(w) : i = 1 \/ \E j \in 1 .. Len(w) : i = j + 1
  <2> SUFFICES ASSUME NEW i \in 1 .. 1 + Len(w), i # 1
               PROVE  \E j \in 1 .. Len(w) : i = j + 1
      OBVIOUS
  <2>1. i - 1 \in 1 .. Len(w) /\ i = (i - 1) + 1
        BY <1>4
  <2> QED BY <2>1
<1>6. ToSet(r) = {a} \cup ToSet(w)
  <2>1. ASSUME NEW e \in ToSet(r) PROVE e \in {a} \cup ToSet(w)
    <3>1. PICK i \in 1 .. 1 + Len(w) : r[i] = e
          BY <2>1, <1>4 DEF ToSet
    <3>2. CASE i = 1
          BY <3>1, <3>2, <1>4
    <3>3. CASE i # 1
      <4>1. PICK j \in 1 .. Len(w) : i = j + 1
            BY <1>5, <3>3
      <4>2. w[j] = e
            BY <1>4, <3>1, <4>1
      <4> QED BY <4>2, <1>4 DEF ToSet
    <3> QED BY <3>2, <3>3
  <2>2. ASSUME NEW e \in {a} \cup ToSet(w) PROVE e \in ToSet(r)
    <3>1. CASE e = a
      <4>1. 1 \in 1 .. 1 + Len(w)
            BY <1>4
      <4> QED BY <3>1, <4>1, <1>4 DEF ToSet
    <3>2. CASE e \in ToSet(w)
      <4>1. PICK i \in 1 .. Len(w) : w[i] = e
            BY <3>2, <1>4 DEF ToSet
      <4>2. i + 1 \in 1 .. 1 + Len(w) /\ r[i + 1] = e
            BY <4>1, <1>4
      <4> QED BY <4>2, <1>4 DEF ToSet
    <3> QED BY <3>1, <3>2
  <2> QED BY <2>1, <2>2
<1>7. ASSUME IsInjective(w) PROVE IsInjective(r)
  <2> SUFFICES ASSUME NEW i \in 1 .. 1 + Len(w), NEW j \in 1 .. 1 + Len(w), r[i] = r[j]
               PROVE  i = j
      BY <1>4 DEF IsInjective
  <2>1. \A k \in 1 .. Len(w) : r[k + 1] # a
        BY <1>1, <1>4 DEF ToSet
  <2>2. \A k, l \in 1 .. Len(w) : r[k + 1] = r[l + 1] => k = l
        BY <1>4, <1>7 DEF IsInjective
  <2>3. CASE i = 1 \/ j = 1
        BY <1>4, <1>5, <2>1, <2>3
  <2>4. CASE i # 1 /\ j # 1
    <3>1. PICK k \in 1 .. Len(w) : i = k + 1
          BY <1>5, <2>4
    <3>2. PICK l \in 1 .. Len(w) : j = l + 1
          BY <1>5, <2>4
    <3>3. r[k + 1] = r[l + 1]
          BY <3>1, <3>2
    <3> QED BY <2>2, <3>1, <3>2, <3>3
  <2> QED BY <2>3, <2>4
<1>8. ToSet(r) = ToSet(s) \cup {a}
      BY <1>1, <1>6
<1>9. /\ r \in Seq(T) /\ ToSet(r) = ToSet(s) \cup {a}
      /\ IsInjective(s) => IsInjective(r)
      BY <1>1, <1>4, <1>7, <1>8, Zenon
<1> QED BY <1>3, <1>9, Zenon

-----------------------------------------------------------------------------
(* TypeOK holds of every behaviour: a text stays a text, whatever it is    *)
(* switched to.                                                            *)
LEMMA SwitchedText ==
    ASSUME HandEditsAssumption, TypeOK, NEW name \in Given, SwitchBootstrap(name)
    PROVE  /\ text' \in Seq(LinesOf(Words))
           /\ Headings(text') = Headings(text)
           /\ \A g : g # BootstrapGroup => ClashLists(text', g) = ClashLists(text, g)
           /\ Understood(text, BootstrapGroup) =>
                ClashLists(text', BootstrapGroup) =
                  Reordered(ClashLists(text, BootstrapGroup), name)
<1>1. /\ NoName \in NamesOf(Words) /\ text \in Seq(LinesOf(Words))
      /\ name \in NamesOf(Words) /\ name # NoName
      BY DEF HandEditsAssumption, TypeOK
<1>2. /\ text' = SwitchBootstrapInGroups(text, BootstrapGroup, name)
      /\ SwitchBootstrapInGroups(text, BootstrapGroup, name) # Refused
      BY DEF SwitchBootstrap
<1> DEFINE u == SwitchBootstrapInGroups(text, BootstrapGroup, name)
<1> HIDE DEF u
<1>3. /\ u \in Seq(LinesOf(Words))
      /\ Headings(u) = Headings(text)
      /\ \A g : g # BootstrapGroup => ClashLists(u, g) = ClashLists(text, g)
      /\ Understood(text, BootstrapGroup) =>
           ClashLists(u, BootstrapGroup) = Reordered(ClashLists(text, BootstrapGroup), name)
  <2>1. u = SwitchBootstrapInGroups(text, BootstrapGroup, name) /\ u # Refused
        BY <1>2 DEF u
  <2> QED BY <1>1, <2>1, SwitchOfAnyText
<1>4. text' = u
      BY <1>2 DEF u
<1> QED BY <1>3, <1>4

(* Types; the nodes chosen are named once each (enhancement.go:274-340).   *)
THEOREM HandEditsTypes == Spec => []TypeOK
<1> USE HandEditsAssumption
<1>1. Init => TypeOK
  <2> SUFFICES ASSUME Init PROVE TypeOK
      OBVIOUS
  <2>1. /\ text \in Seq(LinesOf(Words)) /\ original \in Seq(LinesOf(Words))
        /\ switches \in 0 .. MaxSwitches
        BY DEF Init, HandEditsAssumption
  <2>2. recent = <<>> /\ recent \in Seq(Given) /\ IsInjective(recent)
        BY EmptySeq DEF Init, IsInjective
  <2> QED BY <2>1, <2>2 DEF TypeOK
<1>2. TypeOK /\ [Next]_vars => TypeOK'
  <2> SUFFICES ASSUME TypeOK, [Next]_vars PROVE TypeOK'
      OBVIOUS
  <2>1. ASSUME NEW name \in Given, SwitchBootstrap(name) PROVE TypeOK'
    <3>1. text' \in Seq(LinesOf(Words)) /\ original' \in Seq(LinesOf(Words))
          BY <2>1, SwitchedText DEF TypeOK, SwitchBootstrap
    <3>2. recent' \in Seq(Given) /\ IsInjective(recent')
      <4>1. recent' = Reordered(recent, name) /\ recent \in Seq(Given) /\ IsInjective(recent)
            BY <2>1 DEF SwitchBootstrap, TypeOK
      <4> QED BY <4>1, ReorderedFacts
    <3>3. switches' \in 0 .. MaxSwitches
          BY <2>1 DEF SwitchBootstrap, TypeOK, HandEditsAssumption
    <3> QED BY <3>1, <3>2, <3>3 DEF TypeOK
  <2>2. CASE UNCHANGED vars
        BY <2>2 DEF vars, TypeOK
  <2> QED BY <2>1, <2>2 DEF Next
<1> QED BY <1>1, <1>2, PTL DEF Spec

-----------------------------------------------------------------------------
(* The headings of the file and what Clash finds in every other group stay *)
(* as they were edited, however often the list is switched.                *)
THEOREM OtherGroupsAlwaysSurvive == Spec => []OtherGroupsSurvive
<1> USE HandEditsAssumption
<1>1. Init => OtherGroupsSurvive
      BY DEF Init, OtherGroupsSurvive
<1>2. TypeOK /\ OtherGroupsSurvive /\ [Next]_vars => OtherGroupsSurvive'
  <2> SUFFICES ASSUME TypeOK, OtherGroupsSurvive, [Next]_vars PROVE OtherGroupsSurvive'
      OBVIOUS
  <2>1. ASSUME NEW name \in Given, SwitchBootstrap(name) PROVE OtherGroupsSurvive'
    <3>1. /\ Headings(text') = Headings(text)
          /\ \A g : g # BootstrapGroup => ClashLists(text', g) = ClashLists(text, g)
          BY <2>1, SwitchedText
    <3>2. original' = original
          BY <2>1 DEF SwitchBootstrap
    <3> QED BY <3>1, <3>2 DEF OtherGroupsSurvive
  <2>2. CASE UNCHANGED vars
        BY <2>2 DEF vars, OtherGroupsSurvive
  <2> QED BY <2>1, <2>2 DEF Next
<1> QED BY <1>1, <1>2, HandEditsTypes, PTL DEF Spec

-----------------------------------------------------------------------------
(* A simple list is simple again when it is written: the names in it have  *)
(* no quotes to double, and the items are where the tool writes them.      *)
LEMMA PlainlyRead ==
    ASSUME NEW item, item.name.quotes = 0, Trimmed(item) = ClashReads(item)
    PROVE  Trimmed(item).quotes = 0
<1>1. ClashReads(item).quotes = 0
  <2>1. CASE item.style = "single"
    <3>1. ClashReads(item).quotes = item.name.quotes \div 2 \/ ClashReads(item) = item.name
          BY <2>1 DEF ClashReads, Halved
    <3> QED BY <3>1
  <2>2. CASE item.style # "single"
        BY <2>2 DEF ClashReads
  <2> QED BY <2>1, <2>2
<1> QED BY <1>1

LEMMA PlainlyWritten ==
    ASSUME NEW N, NoName \in NamesOf(N), NEW m \in NamesOf(N), m.quotes = 0
    PROVE  /\ Quoted(N)[m].name.quotes = 0
           /\ Trimmed(Quoted(N)[m]) = ClashReads(Quoted(N)[m])
<1>1. m = [node |-> m.node, quotes |-> m.quotes, remark |-> m.remark]
      BY DEF NamesOf
<1>2. Doubled(m) = m
  <2>1. Doubled(m) = [node |-> m.node, quotes |-> 2 * m.quotes, remark |-> m.remark]
        BY <1>1 DEF Doubled
  <2> QED BY <1>1, <2>1
<1>3. Quoted(N)[m] \in ItemsIn(N)
      BY ReadingFacts
<1>4. /\ Clash(N)[Quoted(N)[m]] = m /\ Trim(N)[Quoted(N)[m]] = m
      BY <1>2, ReadingFacts
<1>5. Clash(N)[Quoted(N)[m]] = ClashReads(Quoted(N)[m])
      BY <1>3 DEF Clash
<1>6. Trim(N)[Quoted(N)[m]] = Trimmed(Quoted(N)[m])
      BY <1>3 DEF Trim
<1>7. Quoted(N)[m] = yamlSingleQuote(m)
      BY DEF Quoted
<1>8. yamlSingleQuote(m).name = m
      BY <1>2 DEF yamlSingleQuote, Item
<1> QED BY <1>4, <1>5, <1>6, <1>7, <1>8

LEMMA StaysSimple ==
    ASSUME NoName \in NamesOf(Words), NEW t \in Seq(LinesOf(Words)), Simple(t),
           NEW name \in NamesOf(Words), NEW u,
           u = SwitchBootstrapInGroups(t, BootstrapGroup, name), u # Refused
    PROVE  Simple(u)
<1> DEFINE names == extractBootstrapCandidates(t, BootstrapGroup)
<1> DEFINE items == ItemsOf(ListLines(t, BootstrapGroup))
<1> DEFINE r == Reordered(names, name)
<1> DEFINE kept == Without(r, NoName)
<1> DEFINE w == Written(r)
<1>1. /\ names \in Seq(NamesOf(Words)) /\ Contains(names, name)
      /\ names = Renamed(items, Trim(Words))
      /\ \E s, p, e, f : Edits(Words, t, u, BootstrapGroup, w, s, p, e, f)
      BY SwitchIs
<1>2. PICK s, p, e, f : Edits(Words, t, u, BootstrapGroup, w, s, p, e, f)
      BY <1>1
<1>3. /\ u \in Seq(LinesOf(Words)) /\ w \in Seq(ItemsIn(Words))
      /\ Located(t, BootstrapGroup, s, p, e) /\ Located(u, BootstrapGroup, s, p, f)
      /\ Spliced(t, u, p, e, f) /\ ListLines(u, BootstrapGroup) = w
      BY <1>2 DEF Edits
<1>4. /\ ListLines(t, BootstrapGroup) \in Seq(LinesOf(Words)) /\ ListAt(t, BootstrapGroup) = p
      /\ HasList(u, BootstrapGroup) /\ ListAt(u, BootstrapGroup) = p
      BY <1>3, ListLinesAre
<1>5. items \in Seq(ItemsIn(Words))
      BY <1>4, ItemsAre
<1>6. /\ \A i \in DOMAIN items : Trimmed(items[i]) = ClashReads(items[i])
      /\ \A i \in DOMAIN items : items[i].name.quotes = 0
      /\ t[p].column <= Column
      BY <1>4 DEF Simple, Legible, Understood
<1> HIDE DEF names, items
<1>7. \A m \in ToSet(names) : m.quotes = 0
  <2>1. \A i \in DOMAIN items : items[i] \in ItemsIn(Words)
        BY <1>5, LenProperties, ElementOfSeq
  <2>2. DOMAIN names = DOMAIN items /\ \A i \in DOMAIN items : names[i] = Trimmed(items[i])
        BY <1>1, <2>1 DEF Renamed, Trim
  <2>3. \A i \in DOMAIN items : Trimmed(items[i]).quotes = 0
        BY <1>6, PlainlyRead
  <2> QED BY <2>2, <2>3 DEF ToSet
<1>8. name \in ToSet(names)
      BY <1>1, LenProperties DEF Contains, ToSet
<1>9. r \in Seq(NamesOf(Words)) /\ ToSet(r) = ToSet(names) \cup {name}
  <2> DEFINE N == NamesOf(Words)
  <2>1. names \in Seq(N) /\ name \in N
        BY <1>1
  <2> HIDE DEF N
  <2>2. r \in Seq(N) /\ ToSet(r) = ToSet(names) \cup {name}
        BY ONLY <2>1, ReorderedFacts, SMTT(30)
  <2> QED BY <2>2 DEF N
<1> HIDE DEF r
<1>10. /\ kept \in Seq(NamesOf(Words)) /\ w = Renamed(kept, Quoted(Words))
       /\ \A i \in 1 .. Len(w) : w[i].column = Column
       BY <1>9, WrittenIs
<1>11. \A m \in ToSet(kept) : m.quotes = 0
       BY <1>7, <1>8, <1>9, WithoutIn
<1> HIDE DEF kept, w
<1>12. \A i \in DOMAIN w : /\ w[i].name.quotes = 0 /\ Trimmed(w[i]) = ClashReads(w[i])
                           /\ w[i].column = Column /\ w[i].kind = "item"
  <2> SUFFICES ASSUME NEW i \in DOMAIN w
               PROVE  /\ w[i].name.quotes = 0 /\ Trimmed(w[i]) = ClashReads(w[i])
                      /\ w[i].column = Column /\ w[i].kind = "item"
      OBVIOUS
  <2>1. DOMAIN w = 1 .. Len(w) /\ DOMAIN w = DOMAIN kept
        BY <1>3, <1>10, LenProperties DEF Renamed
  <2>2. w[i] = Quoted(Words)[kept[i]] /\ kept[i] \in ToSet(kept) /\ kept[i] \in NamesOf(Words)
        BY <1>10, <2>1, LenProperties, ElementOfSeq DEF Renamed, ToSet
  <2>3. /\ Quoted(Words)[kept[i]].name.quotes = 0
        /\ Trimmed(Quoted(Words)[kept[i]]) = ClashReads(Quoted(Words)[kept[i]])
        BY <1>11, <2>2, PlainlyWritten
  <2>4. w[i] \in ItemsIn(Words)
        BY <1>3, <2>1, ElementOfSeq
  <2>5. w[i].kind = "item" /\ w[i].column = Column
        BY <1>10, <2>1, <2>4 DEF ItemsIn
  <2> QED BY <2>2, <2>3, <2>5
<1>13. ItemsOf(w) = w
       BY <1>3, ItemsAll
<1>14. u[p] = t[p] /\ u[p].column \in Nat
  <2>1. /\ Len(t) \in Nat /\ p \in Nat /\ s \in 1 .. Len(t) /\ p \in s + 1 .. e - 1
        /\ e \in s + 1 .. Len(t) + 1
        BY <1>3, LenProperties DEF Located, Block, Spliced
  <2>2. p \in 1 .. p /\ p \in 1 .. Len(t)
        BY <2>1
  <2>3. t[p] \in LinesOf(Words)
        BY <2>2, ElementOfSeq
  <2>4. u[p] = t[p]
        BY <1>3, <2>2 DEF Spliced
  <2> QED BY <2>3, <2>4 DEF LinesOf
<1>15. \A i \in DOMAIN w : ~LeavesList(w[i], u[p].column)
       BY <1>6, <1>12, <1>14 DEF LeavesList, Column
<1>16. Understood(u, BootstrapGroup)
  <2>1. \A i, j \in DOMAIN w : w[i].column = w[j].column
        BY <1>12
  <2>2. \A i \in DOMAIN w : Trimmed(w[i]) = ClashReads(w[i])
        BY <1>12
  <2>3. u[p].column <= Column
        BY <1>6, <1>14
  <2> QED BY <1>3, <1>4, <1>13, <1>15, <2>1, <2>2, <2>3 DEF Understood
<1>17. \A i \in DOMAIN w : w[i].name.quotes = 0
       BY <1>12
<1> QED BY <1>3, <1>4, <1>13, <1>16, <1>17 DEF Simple, Legible

LEMMA ClashFinds ==
    ASSUME NoName \in NamesOf(Words), NEW t \in Seq(LinesOf(Words)), Legible(t)
    PROVE  ClashLists(t, BootstrapGroup) \in Seq(NamesOf(Words))
<1>1. HasList(t, BootstrapGroup) /\ Understood(t, BootstrapGroup)
      BY DEF Legible
<1>2. PICK s, p, e : Located(t, BootstrapGroup, s, p, e)
      BY <1>1, HasLocated
<1> DEFINE items == ItemsOf(ListLines(t, BootstrapGroup))
<1> DEFINE found == Renamed(items, Clash(Words))
<1>3. ListAt(t, BootstrapGroup) = p
      BY <1>2, ListLinesAre
<1>4. \A i \in DOMAIN ListLines(t, BootstrapGroup) :
        ~LeavesList(ListLines(t, BootstrapGroup)[i], t[p].column)
      BY <1>1, <1>3 DEF Understood
<1>5. ClashLists(t, BootstrapGroup) = Without(found, NoName) /\ items \in Seq(ItemsIn(Words))
      BY <1>2, <1>4, ClashListIs
<1> HIDE DEF items
<1>6. found \in Seq(NamesOf(Words))
      BY <1>5, ReadingFacts, RenamedFacts
<1> HIDE DEF found
<1> QED BY <1>5, <1>6, WithoutIn

(* Moving the chosen node to the front of what was chosen before, and of   *)
(* the candidates never chosen.                                            *)
ChosenFirst(chosen, found) == chosen \o Within(found, ToSet(found) \ ToSet(chosen))

LEMMA ReorderedAgain ==
    ASSUME NEW T, NEW found \in Seq(T), NEW chosen \in Seq(T), NEW name \in T
    PROVE  Reordered(ChosenFirst(chosen, found), name) =
             ChosenFirst(Reordered(chosen, name), found)
<1> DEFINE A == ToSet(found) \ ToSet(chosen)
<1> DEFINE B == ToSet(found) \ ToSet(Reordered(chosen, name))
<1> DEFINE K == T \ {name}
<1> DEFINE rest == Within(found, A)
<1> DEFINE left == Within(found, B)
<1> DEFINE kept == Without(chosen, name)
<1> DEFINE one == <<name>>
<1> DEFINE both == chosen \o rest
<1>1. /\ rest \in Seq(T) /\ left \in Seq(T) /\ kept \in Seq(T) /\ one \in Seq(T)
      BY WithinFacts, WithoutIn
<1>2. Reordered(chosen, name) = one \o kept /\ Reordered(both, name) = one \o Without(both, name)
      BY Zenon DEF Reordered
<1>3. ToSet(Reordered(chosen, name)) = ToSet(chosen) \cup {name}
      BY ReorderedFacts
<1>4. ToSet(found) \subseteq T
      BY LenProperties, ElementOfSeq DEF ToSet
<1>5. A \cap K = B
      BY <1>3, <1>4
<1>6. Within(rest, K) = Within(found, A \cap K)
      BY WithinTwice
<1>7. Within(rest, K) = left
      BY <1>5, <1>6, Zenon
<1> HIDE DEF A, B, K, rest, left, kept, one
<1>8. both \in Seq(T)
      BY <1>1, ConcatProperties
<1> HIDE DEF both
<1>9. Without(both, name) = Within(both, K)
      BY <1>8, WithoutIs DEF K
<1>10. kept = Within(chosen, K)
       BY WithoutIs DEF K, kept
<1>11. Within(both, K) = Within(chosen, K) \o Within(rest, K)
  <2>1. ASSUME NEW s \in Seq(T), NEW u \in Seq(T), NEW S
        PROVE  Within(s \o u, S) = Within(s, S) \o Within(u, S)
        BY WithinConcat, SMTT(30)
  <2>2. chosen \in Seq(T) /\ rest \in Seq(T)
        BY <1>1
  <2> QED BY <2>1, <2>2, Zenon DEF both
<1>12. Without(both, name) = kept \o left
       BY <1>7, <1>9, <1>10, <1>11, Zenon
<1>13. one \o (kept \o left) = (one \o kept) \o left
       BY <1>1, ConcatAssociative, SMTT(60)
<1>14. Reordered(both, name) = Reordered(chosen, name) \o left
       BY <1>2, <1>12, <1>13, Zenon
<1> QED BY <1>14, Zenon DEF both, rest, left, A, B, ChosenFirst

(* CandidatesSurvive is inductive together with the file staying simple:   *)
(* of a list with quotes inside its names it would not be true, and such a *)
(* list is only switched as it was edited.                                 *)
SimpleInv ==
    /\ CandidatesSurvive
    /\ switches = 0 => text = original /\ recent = <<>>
    /\ Simple(original) => Simple(text)

(* One switch of an edited file that the tool and Clash understand alike,  *)
(* and however many of a simple one, lose and double no candidate: Clash   *)
(* finds the chosen nodes, the last chosen first, then the candidates      *)
(* never chosen in the order of the edited file.                           *)
THEOREM CandidatesAlwaysSurvive == Spec => []CandidatesSurvive
<1> USE HandEditsAssumption
<1>1. Init => SimpleInv
  <2> SUFFICES ASSUME Init PROVE SimpleInv
      OBVIOUS
  <2> DEFINE found == ClashLists(original, BootstrapGroup)
  <2>1. /\ NoName \in NamesOf(Words) /\ text \in Seq(LinesOf(Words)) /\ text = original
        /\ recent = <<>>
        BY DEF Init, HandEditsAssumption
  <2>2. ASSUME Legible(original)
        PROVE  ClashLists(text, BootstrapGroup) =
                 recent \o Within(found, ToSet(found) \ ToSet(recent))
    <3>1. found \in Seq(NamesOf(Words))
          BY <2>1, <2>2, ClashFinds
    <3>2. ClashLists(text, BootstrapGroup) = found
          BY <2>1
    <3> HIDE DEF found
    <3>3. ToSet(recent) = {}
          BY <2>1 DEF ToSet
    <3>4. Within(found, ToSet(found) \ ToSet(recent)) = found
          BY <3>1, <3>3, WithinAll
    <3>5. recent \o found = found
          BY <2>1, <3>1, ConcatEmptySeq
    <3> QED BY <3>2, <3>4, <3>5, Zenon
  <2>3. CandidatesSurvive
        BY <2>2, Zenon DEF CandidatesSurvive, Simple
  <2> QED BY <2>1, <2>3, Zenon DEF SimpleInv
<1>2. TypeOK /\ SimpleInv /\ [Next]_vars => SimpleInv'
  <2> SUFFICES ASSUME TypeOK, SimpleInv, [Next]_vars PROVE SimpleInv'
      OBVIOUS
  <2> DEFINE found == ClashLists(original, BootstrapGroup)
  <2>1. ASSUME NEW name \in Given, SwitchBootstrap(name) PROVE SimpleInv'
    <3>1. /\ NoName \in NamesOf(Words) /\ original \in Seq(LinesOf(Words))
          /\ text \in Seq(LinesOf(Words)) /\ name \in NamesOf(Words)
          /\ recent \in Seq(Given) /\ Given \subseteq NamesOf(Words)
          BY DEF TypeOK, HandEditsAssumption
    <3>2. /\ text' = SwitchBootstrapInGroups(text, BootstrapGroup, name)
          /\ SwitchBootstrapInGroups(text, BootstrapGroup, name) # Refused
          /\ recent' = Reordered(recent, name) /\ original' = original
          BY <2>1 DEF SwitchBootstrap
    <3>3. switches \in Nat /\ switches' = switches + 1
          BY <2>1 DEF SwitchBootstrap, TypeOK, HandEditsAssumption
    <3>4. Simple(original) => Simple(text) /\ Simple(text')
          BY <3>1, <3>2, StaysSimple DEF SimpleInv
    <3>5. ASSUME Simple(original) \/ (Legible(original) /\ switches' <= 1)
          PROVE  ClashLists(text', BootstrapGroup) =
                   recent' \o Within(found, ToSet(found) \ ToSet(recent'))
      <4>1. Legible(original) /\ Legible(text)
        <5>1. CASE Simple(original)
              BY <3>4, <5>1 DEF Simple
        <5>2. CASE Legible(original) /\ switches' <= 1
          <6>1. switches = 0
                BY <3>3, <5>2
          <6> QED BY <5>2, <6>1 DEF SimpleInv
        <5> QED BY <3>5, <5>1, <5>2
      <4>2. ClashLists(text, BootstrapGroup) =
              recent \o Within(found, ToSet(found) \ ToSet(recent))
        <5>1. Simple(original) \/ (Legible(original) /\ switches <= 1)
              BY <3>3, <3>5
        <5> QED BY <5>1, Zenon DEF SimpleInv, CandidatesSurvive
      <4>3. ClashLists(text', BootstrapGroup) =
              Reordered(ClashLists(text, BootstrapGroup), name)
        <5>1. Understood(text, BootstrapGroup)
              BY <4>1 DEF Legible
        <5> QED BY <2>1, <5>1, SwitchedText
      <4>4. found \in Seq(NamesOf(Words)) /\ recent \in Seq(NamesOf(Words))
            BY <4>1, <3>1, ClashFinds, SeqMonotonic
      <4> HIDE DEF found
      <4>5. Reordered(ChosenFirst(recent, found), name) =
              ChosenFirst(Reordered(recent, name), found)
            BY <3>1, <4>4, ReorderedAgain
      <4> QED BY <3>2, <4>2, <4>3, <4>5, Zenon DEF ChosenFirst
    <3>6. CandidatesSurvive'
      <4>1. Simple(original') = Simple(original) /\ Legible(original') = Legible(original)
            BY <3>2, Zenon
      <4> QED BY <3>2, <3>5, <4>1, Zenon DEF CandidatesSurvive
    <3>7. switches' # 0 /\ (Simple(original') => Simple(text'))
          BY <3>2, <3>3, <3>4
    <3> QED BY <3>6, <3>7, Zenon DEF SimpleInv
  <2>2. CASE UNCHANGED vars
        BY <2>2 DEF vars, SimpleInv, CandidatesSurvive, Simple, Legible
  <2> QED BY <2>1, <2>2 DEF Next
<1>3. SimpleInv => CandidatesSurvive
      BY DEF SimpleInv
<1> QED BY <1>1, <1>2, <1>3, HandEditsTypes, PTL DEF Spec

=============================================================================
