--------------------------- MODULE GroupsTextProofs ---------------------------
(***************************************************************************)
(* What the loops of module Lists compute, for lists of any length, and    *)
(* what a switch makes of any text: of any lines at any columns, however   *)
(* often and in whatever order its groups, keys and lists occur.           *)
(*                                                                         *)
(* Induction over the naturals is used in the form of sets: a set that     *)
(* holds 0 and, with n, n + 1, holds every natural number.                 *)
(***************************************************************************)
EXTENDS GroupsText, SequenceTheorems, WellFoundedInduction, TLAPS

LEMMA NatSet ==
    ASSUME NEW S, 0 \in S, \A n \in Nat : n \in S => n + 1 \in S
    PROVE  Nat \subseteq S
<1> DEFINE T == Nat \ S
<1> DEFINE R == OpToRel(<, Nat)
<1> SUFFICES ASSUME T # {} PROVE FALSE
    OBVIOUS
<1>1. IsWellFoundedOn(R, Nat)
      BY NatLessThanWellFounded
<1>2. PICK x \in T : \A y \in T : ~ (<<y, x>> \in R)
  <2> HIDE DEF R
  <2> T \subseteq Nat OBVIOUS
  <2> HIDE DEF T
  <2> QED BY <1>1, WFMin
<1>3. \A y \in T : ~(y < x)
      BY <1>2 DEF OpToRel
<1>4. x # 0 /\ x - 1 \in Nat /\ x - 1 \notin T
      BY <1>3
<1> QED BY <1>4

LEMMA UpTo ==
    ASSUME NEW n \in Nat, NEW S, 0 \in S, \A i \in 0 .. n - 1 : i \in S => i + 1 \in S
    PROVE  0 .. n \subseteq S
<1> DEFINE T == S \cup {i \in Nat : i > n}
<1>1. 0 \in T /\ \A i \in Nat : i \in T => i + 1 \in T
      OBVIOUS
<1>2. Nat \subseteq T
  <2> HIDE DEF T
  <2> QED BY <1>1, NatSet
<1> QED BY <1>2

Run(g, n, X, x, step) ==
    /\ g \in [0 .. n -> X]
    /\ g[0] = x
    /\ \A i \in 1 .. n : g[i] = step[i][g[i - 1]]

(* A function of a prefix of the naturals may be defined by recursion. *)
LEMMA Recursion ==
    ASSUME NEW X, NEW n \in Nat, NEW x \in X, NEW step \in [1 .. n -> [X -> X]]
    PROVE  \E g : Run(g, n, X, x, step)
<1> DEFINE S == {m \in 0 .. n : \E g : Run(g, m, X, x, step)}
<1>1. 0 \in S
  <2>1. Run([i \in 0 .. 0 |-> x], 0, X, x, step)
        BY DEF Run
  <2> QED BY <2>1
<1>2. ASSUME NEW m \in 0 .. n - 1, m \in S
      PROVE  m + 1 \in S
  <2>1. PICK g : Run(g, m, X, x, step)
        BY <1>2
  <2> HIDE DEF S
  <2> DEFINE h == [i \in 0 .. m + 1 |-> IF i = m + 1 THEN step[m + 1][g[m]] ELSE g[i]]
  <2>2. step[m + 1][g[m]] \in X
        BY <2>1 DEF Run
  <2>3. h \in [0 .. m + 1 -> X] /\ h[0] = x
        BY <2>1, <2>2 DEF Run
  <2>4. /\ h[m + 1] = step[m + 1][g[m]]
        /\ \A i \in 0 .. m : h[i] = g[i]
        /\ m \in 0 .. m
        OBVIOUS
  <2> HIDE DEF h
  <2>5. ASSUME NEW i \in 1 .. m + 1
        PROVE  h[i] = step[i][h[i - 1]]
    <3>1. CASE i = m + 1
          BY <3>1, <2>4
    <3>2. CASE i # m + 1
      <4>1. i \in 1 .. m /\ i \in 0 .. m /\ i - 1 \in 0 .. m
            BY <3>2
      <4> QED BY <4>1, <2>1, <2>4 DEF Run
    <3> QED BY <3>1, <3>2
  <2>6. Run(h, m + 1, X, x, step)
        BY <2>3, <2>5 DEF Run
  <2> QED BY <2>6 DEF S
<1>3. 0 .. n \subseteq S
  <2> HIDE DEF S
  <2> QED BY <1>1, <1>2, UpTo
<1> QED BY <1>3

(* kept is what the loop of Within, and of dedupeNonEmpty, has after i elements. *)
WithinKept(kept, T, s, S) ==
    /\ kept[0] = <<>>
    /\ \A i \in 0 .. Len(s) : kept[i] \in Seq(T)
    /\ \A i \in 1 .. Len(s) :
         kept[i] = IF s[i] \in S THEN Append(kept[i - 1], s[i]) ELSE kept[i - 1]

FirstsKept(kept, T, s) ==
    /\ kept[0] = <<>>
    /\ \A i \in 0 .. Len(s) : kept[i] \in Seq(T)
    /\ \A i \in 1 .. Len(s) :
         kept[i] = IF Contains(kept[i - 1], s[i]) THEN kept[i - 1]
                   ELSE Append(kept[i - 1], s[i])

LEMMA WithinLoop ==
    ASSUME NEW T, NEW s \in Seq(T), NEW S
    PROVE  \E kept : WithinKept(kept, T, s, S) /\ Within(s, S) = kept[Len(s)]
<1> DEFINE n == Len(s)
<1> DEFINE X == Seq(T)
<1> DEFINE none == <<>>
<1> DEFINE next(i, x) == IF s[i] \in S THEN Append(x, s[i]) ELSE x
<1> DEFINE Body(g) == [i \in 0 .. n |-> IF i = 0 THEN none ELSE next(i, g[i - 1])]
<1> DEFINE F == CHOOSE g : g = Body(g)
<1> DEFINE step == [i \in 1 .. n |-> [x \in X |-> next(i, x)]]
<1>1. Within(s, S) = F[n]
      BY Zenon DEF Within
<1>2. n \in Nat /\ none \in X /\ \A i \in 1 .. n : s[i] \in T
      BY ElementOfSeq, LenProperties, EmptySeq
<1>3. \A i \in 1 .. n : \A x \in X : next(i, x) \in X
      BY <1>2, AppendProperties
<1> HIDE DEF X, n, none, next
<1>4. /\ step \in [1 .. n -> [X -> X]]
      /\ \A i \in 1 .. n : \A x \in X : step[i][x] = next(i, x)
      BY <1>3
<1> HIDE DEF step, F, Body
<1>5. PICK g : Run(g, n, X, none, step)
      BY <1>2, <1>4, Recursion
<1>6. g = Body(g)
  <2>1. \A i \in 1 .. n : i - 1 \in 0 .. n /\ g[i - 1] \in X
        BY <1>2, <1>5 DEF Run
  <2>2. \A i \in 0 .. n : g[i] = IF i = 0 THEN none ELSE next(i, g[i - 1])
        BY <1>2, <1>4, <1>5, <2>1 DEF Run
  <2> QED BY <2>2, <1>5 DEF Body, Run
<1>7. F = Body(F)
      BY <1>6 DEF F
<1>8. /\ DOMAIN F = 0 .. n /\ F[0] = none
      /\ \A i \in 1 .. n : F[i] = next(i, F[i - 1])
      BY <1>2, <1>7 DEF Body
<1>9. \A i \in 0 .. n : F[i] \in X
  <2> DEFINE P == {i \in 0 .. n : F[i] \in X}
  <2>1. 0 \in P
        BY <1>2, <1>8
  <2>2. ASSUME NEW i \in 0 .. n - 1, i \in P
        PROVE  i + 1 \in P
    <3>1. i + 1 \in 1 .. n /\ i + 1 - 1 = i /\ i + 1 \in 0 .. n /\ F[i] \in X
          BY <2>2, <1>2
    <3> QED BY <3>1, <1>3, <1>8
  <2> HIDE DEF P
  <2>3. 0 .. n \subseteq P
        BY <1>2, <2>1, <2>2, UpTo
  <2> QED BY <2>3 DEF P
<1>10. WithinKept(F, T, s, S)
      BY <1>8, <1>9 DEF X, n, none, next, WithinKept
<1> QED
    BY <1>1, <1>10 DEF n

LEMMA DedupeLoop ==
    ASSUME NEW T, NEW s \in Seq(T)
    PROVE  \E kept : FirstsKept(kept, T, s) /\ dedupeNonEmpty(s) = kept[Len(s)]
<1> DEFINE n == Len(s)
<1> DEFINE X == Seq(T)
<1> DEFINE none == <<>>
<1> DEFINE next(i, x) == IF Contains(x, s[i]) THEN x ELSE Append(x, s[i])
<1> DEFINE Body(g) == [i \in 0 .. n |-> IF i = 0 THEN none ELSE next(i, g[i - 1])]
<1> DEFINE F == CHOOSE g : g = Body(g)
<1> DEFINE step == [i \in 1 .. n |-> [x \in X |-> next(i, x)]]
<1>1. dedupeNonEmpty(s) = F[n]
      BY Zenon DEF dedupeNonEmpty
<1>2. n \in Nat /\ none \in X /\ \A i \in 1 .. n : s[i] \in T
      BY ElementOfSeq, LenProperties, EmptySeq
<1>3. \A i \in 1 .. n : \A x \in X : next(i, x) \in X
      BY <1>2, AppendProperties
<1> HIDE DEF X, n, none, next
<1>4. /\ step \in [1 .. n -> [X -> X]]
      /\ \A i \in 1 .. n : \A x \in X : step[i][x] = next(i, x)
      BY <1>3
<1> HIDE DEF step, F, Body
<1>5. PICK g : Run(g, n, X, none, step)
      BY <1>2, <1>4, Recursion
<1>6. g = Body(g)
  <2>1. \A i \in 1 .. n : i - 1 \in 0 .. n /\ g[i - 1] \in X
        BY <1>2, <1>5 DEF Run
  <2>2. \A i \in 0 .. n : g[i] = IF i = 0 THEN none ELSE next(i, g[i - 1])
        BY <1>2, <1>4, <1>5, <2>1 DEF Run
  <2> QED BY <2>2, <1>5 DEF Body, Run
<1>7. F = Body(F)
      BY <1>6 DEF F
<1>8. /\ DOMAIN F = 0 .. n /\ F[0] = none
      /\ \A i \in 1 .. n : F[i] = next(i, F[i - 1])
      BY <1>2, <1>7 DEF Body
<1>9. \A i \in 0 .. n : F[i] \in X
  <2> DEFINE P == {i \in 0 .. n : F[i] \in X}
  <2>1. 0 \in P
        BY <1>2, <1>8
  <2>2. ASSUME NEW i \in 0 .. n - 1, i \in P
        PROVE  i + 1 \in P
    <3>1. i + 1 \in 1 .. n /\ i + 1 - 1 = i /\ i + 1 \in 0 .. n /\ F[i] \in X
          BY <2>2, <1>2
    <3> QED BY <3>1, <1>3, <1>8
  <2> HIDE DEF P
  <2>3. 0 .. n \subseteq P
        BY <1>2, <2>1, <2>2, UpTo
  <2> QED BY <2>3 DEF P
<1>10. FirstsKept(F, T, s)
      BY <1>8, <1>9 DEF X, n, none, next, FirstsKept
<1> QED
    BY <1>1, <1>10 DEF n

-----------------------------------------------------------------------------
LEMMA AppendFacts ==
    ASSUME NEW T, NEW s \in Seq(T), NEW e \in T
    PROVE  /\ Append(s, e) \in Seq(T) /\ Len(Append(s, e)) = Len(s) + 1
           /\ ToSet(Append(s, e)) = ToSet(s) \cup {e}
           /\ IsInjective(s) /\ e \notin ToSet(s) => IsInjective(Append(s, e))
<1>1. /\ DOMAIN s = 1 .. Len(s) /\ DOMAIN Append(s, e) = 1 .. Len(s) + 1 /\ Len(s) \in Nat
      /\ \A i \in 1 .. Len(s) : Append(s, e)[i] = s[i]
      /\ Append(s, e)[Len(s) + 1] = e
      /\ Append(s, e) \in Seq(T) /\ Len(Append(s, e)) = Len(s) + 1
      BY AppendProperties, LenProperties
<1> QED
    BY <1>1 DEF ToSet, IsInjective

(* Within keeps the elements of s that are in S, and no repetition.        *)
LEMMA WithinFacts ==
    ASSUME NEW T, NEW s \in Seq(T), NEW S
    PROVE  /\ Within(s, S) \in Seq(T)
           /\ ToSet(Within(s, S)) = ToSet(s) \cap S
           /\ IsInjective(s) => IsInjective(Within(s, S))
<1>1. PICK kept : WithinKept(kept, T, s, S) /\ Within(s, S) = kept[Len(s)]
      BY WithinLoop
<1>2. /\ Len(s) \in Nat /\ DOMAIN s = 1 .. Len(s) /\ \A i \in 1 .. Len(s) : s[i] \in T
      BY ElementOfSeq, LenProperties
<1> DEFINE P == {i \in 0 .. Len(s) :
                   /\ ToSet(kept[i]) = {s[j] : j \in 1 .. i} \cap S
                   /\ IsInjective(s) => IsInjective(kept[i])}
<1>3. 0 \in P
  <2>1. DOMAIN <<>> = {} /\ 1 .. 0 = {}
        OBVIOUS
  <2> QED BY <2>1, <1>1, <1>2 DEF WithinKept, ToSet, IsInjective
<1>4. ASSUME NEW i \in 0 .. Len(s) - 1, i \in P
      PROVE  i + 1 \in P
  <2>1. /\ i + 1 \in 1 .. Len(s) /\ i + 1 - 1 = i /\ i + 1 \in 0 .. Len(s) /\ i \in 0 .. Len(s)
        /\ kept[i] \in Seq(T) /\ s[i + 1] \in T
        BY <1>1, <1>2 DEF WithinKept
  <2>2. /\ ToSet(kept[i]) = {s[j] : j \in 1 .. i} \cap S
        /\ IsInjective(s) => IsInjective(kept[i])
        BY <1>4
  <2>3. {s[j] : j \in 1 .. i + 1} = {s[j] : j \in 1 .. i} \cup {s[i + 1]}
        BY <2>1
  <2>4. kept[i + 1] = IF s[i + 1] \in S THEN Append(kept[i], s[i + 1]) ELSE kept[i]
        BY <1>1, <2>1 DEF WithinKept
  <2>5. ToSet(kept[i + 1]) = {s[j] : j \in 1 .. i + 1} \cap S
        BY <2>1, <2>2, <2>3, <2>4, AppendFacts
  <2>6. ASSUME IsInjective(s) PROVE IsInjective(kept[i + 1])
    <3>1. s[i + 1] \notin {s[j] : j \in 1 .. i}
          BY <2>6, <2>1, <1>2 DEF IsInjective
    <3> QED BY <3>1, <2>1, <2>2, <2>4, <2>6, AppendFacts
  <2> QED BY <2>1, <2>5, <2>6
<1> HIDE DEF P
<1>5. 0 .. Len(s) \subseteq P
      BY <1>2, <1>3, <1>4, UpTo
<1>6. /\ ToSet(kept[Len(s)]) = {s[j] : j \in 1 .. Len(s)} \cap S
      /\ IsInjective(s) => IsInjective(kept[Len(s)])
      BY <1>2, <1>5 DEF P
<1>7. kept[Len(s)] \in Seq(T) /\ ToSet(s) = {s[j] : j \in 1 .. Len(s)}
      BY <1>1, <1>2 DEF WithinKept, ToSet
<1> QED
    BY <1>1, <1>6, <1>7

(* dedupeNonEmpty keeps every element of s, once.                             *)
LEMMA DedupeFacts ==
    ASSUME NEW T, NEW s \in Seq(T)
    PROVE  /\ dedupeNonEmpty(s) \in Seq(T)
           /\ ToSet(dedupeNonEmpty(s)) = ToSet(s)
           /\ IsInjective(dedupeNonEmpty(s))
<1>1. PICK kept : FirstsKept(kept, T, s) /\ dedupeNonEmpty(s) = kept[Len(s)]
      BY DedupeLoop
<1>2. /\ Len(s) \in Nat /\ DOMAIN s = 1 .. Len(s) /\ \A i \in 1 .. Len(s) : s[i] \in T
      BY ElementOfSeq, LenProperties
<1> DEFINE P == {i \in 0 .. Len(s) :
                   /\ ToSet(kept[i]) = {s[j] : j \in 1 .. i}
                   /\ IsInjective(kept[i])}
<1>3. 0 \in P
  <2>1. DOMAIN <<>> = {} /\ 1 .. 0 = {}
        OBVIOUS
  <2> QED BY <2>1, <1>1, <1>2 DEF FirstsKept, ToSet, IsInjective
<1>4. ASSUME NEW i \in 0 .. Len(s) - 1, i \in P
      PROVE  i + 1 \in P
  <2>1. /\ i + 1 \in 1 .. Len(s) /\ i + 1 - 1 = i /\ i + 1 \in 0 .. Len(s) /\ i \in 0 .. Len(s)
        /\ kept[i] \in Seq(T) /\ s[i + 1] \in T
        BY <1>1, <1>2 DEF FirstsKept
  <2>2. ToSet(kept[i]) = {s[j] : j \in 1 .. i} /\ IsInjective(kept[i])
        BY <1>4
  <2>3. {s[j] : j \in 1 .. i + 1} = {s[j] : j \in 1 .. i} \cup {s[i + 1]}
        BY <2>1
  <2>4. kept[i + 1] = IF Contains(kept[i], s[i + 1]) THEN kept[i]
                      ELSE Append(kept[i], s[i + 1])
        BY <1>1, <2>1 DEF FirstsKept
  <2>5. Contains(kept[i], s[i + 1]) <=> s[i + 1] \in ToSet(kept[i])
        BY <2>1, LenProperties DEF Contains, ToSet
  <2>6. ToSet(kept[i + 1]) = {s[j] : j \in 1 .. i + 1} /\ IsInjective(kept[i + 1])
        BY <2>1, <2>2, <2>3, <2>4, <2>5, AppendFacts
  <2> QED BY <2>1, <2>6
<1> HIDE DEF P
<1>5. 0 .. Len(s) \subseteq P
      BY <1>2, <1>3, <1>4, UpTo
<1>6. ToSet(kept[Len(s)]) = {s[j] : j \in 1 .. Len(s)} /\ IsInjective(kept[Len(s)])
      BY <1>2, <1>5 DEF P
<1>7. kept[Len(s)] \in Seq(T) /\ ToSet(s) = {s[j] : j \in 1 .. Len(s)}
      BY <1>1, <1>2 DEF FirstsKept, ToSet
<1> QED
    BY <1>1, <1>6, <1>7

(* Without takes one element out of a list without repetition.             *)
LEMMA WithoutFacts ==
    ASSUME NEW T, NEW s \in Seq(T), IsInjective(s), NEW e \in ToSet(s)
    PROVE  /\ Without(s, e) \in Seq(T) /\ IsInjective(Without(s, e))
           /\ ToSet(Without(s, e)) = ToSet(s) \ {e}
           /\ Len(Without(s, e)) = Len(s) - 1
<1> DEFINE S == ToSet(s) \ {e}
<1>1. PICK kept : WithinKept(kept, T, s, S) /\ Within(s, S) = kept[Len(s)]
  <2> HIDE DEF S
  <2> QED BY WithinLoop
<1>2. /\ Len(s) \in Nat /\ DOMAIN s = 1 .. Len(s)
      /\ \A i \in 1 .. Len(s) : s[i] \in T /\ (s[i] \in S <=> s[i] # e)
      BY ElementOfSeq, LenProperties DEF ToSet
<1> HIDE DEF S
<1> DEFINE P == {i \in 0 .. Len(s) :
                   Len(kept[i]) = IF \E j \in 1 .. i : s[j] = e THEN i - 1 ELSE i}
<1>3. 0 \in P
      BY <1>1, <1>2 DEF WithinKept
<1>4. ASSUME NEW i \in 0 .. Len(s) - 1, i \in P
      PROVE  i + 1 \in P
  <2>1. /\ i + 1 \in 1 .. Len(s) /\ i + 1 - 1 = i /\ i + 1 \in 0 .. Len(s) /\ i \in 0 .. Len(s)
        /\ kept[i] \in Seq(T) /\ s[i + 1] \in T
        BY <1>1, <1>2 DEF WithinKept
  <2>2. kept[i + 1] = IF s[i + 1] # e THEN Append(kept[i], s[i + 1]) ELSE kept[i]
        BY <1>1, <1>2, <2>1 DEF WithinKept
  <2>3. s[i + 1] = e => \A j \in 1 .. i : s[j] # e
        BY <1>2, <2>1 DEF IsInjective
  <2>4. \A j \in 1 .. i + 1 : j \in 1 .. i \/ j = i + 1
        BY <2>1
  <2>5. Len(kept[i + 1]) = IF s[i + 1] # e THEN Len(kept[i]) + 1 ELSE Len(kept[i])
        BY <2>1, <2>2, AppendFacts
  <2> QED BY <1>4, <2>1, <2>3, <2>4, <2>5
<1> HIDE DEF P
<1>5. 0 .. Len(s) \subseteq P
      BY <1>2, <1>3, <1>4, UpTo
<1>6. \E j \in 1 .. Len(s) : s[j] = e
      BY <1>2 DEF ToSet
<1>7. Len(Within(s, S)) = Len(s) - 1
  <2>1. Len(kept[Len(s)]) = IF \E j \in 1 .. Len(s) : s[j] = e THEN Len(s) - 1 ELSE Len(s)
        BY <1>2, <1>5 DEF P
  <2> QED BY <2>1, <1>1, <1>6
<1>8. Without(s, e) = Within(s, S) /\ ToSet(s) \cap S = ToSet(s) \ {e}
      BY DEF Without, S
<1> QED
    BY <1>7, <1>8, WithinFacts

(* ... and closes the gap: what stood behind it moves up one place.        *)
LEMMA WithoutPlaces ==
    ASSUME NEW T, NEW s \in Seq(T), IsInjective(s), NEW k \in 1 .. Len(s)
    PROVE  /\ \A i \in 1 .. k - 1 : Without(s, s[k])[i] = s[i]
           /\ \A i \in k .. Len(s) - 1 : Without(s, s[k])[i] = s[i + 1]
<1> DEFINE S == ToSet(s) \ {s[k]}
<1>1. PICK kept : WithinKept(kept, T, s, S) /\ Within(s, S) = kept[Len(s)]
  <2> HIDE DEF S
  <2> QED BY WithinLoop
<1>2. /\ Len(s) \in Nat /\ DOMAIN s = 1 .. Len(s)
      /\ \A i \in 1 .. Len(s) : s[i] \in T /\ (s[i] \in S <=> i # k)
      BY ElementOfSeq, LenProperties DEF ToSet, IsInjective
<1>3. Without(s, s[k]) = kept[Len(s)]
      BY <1>1 DEF Without, S
<1> HIDE DEF S
<1> DEFINE Passed(i) == IF i < k THEN i ELSE i - 1
<1> DEFINE P == {i \in 0 .. Len(s) :
                   /\ Len(kept[i]) = Passed(i)
                   /\ \A j \in 1 .. Passed(i) : kept[i][j] = IF j < k THEN s[j] ELSE s[j + 1]}
<1>4. 0 \in P
      BY <1>1, <1>2 DEF WithinKept
<1>5. ASSUME NEW i \in 0 .. Len(s) - 1, i \in P
      PROVE  i + 1 \in P
  <2>1. /\ i + 1 \in 1 .. Len(s) /\ i + 1 - 1 = i /\ i + 1 \in 0 .. Len(s) /\ i \in 0 .. Len(s)
        /\ kept[i] \in Seq(T) /\ s[i + 1] \in T
        BY <1>1, <1>2 DEF WithinKept
  <2>2. kept[i + 1] = IF i + 1 # k THEN Append(kept[i], s[i + 1]) ELSE kept[i]
        BY <1>1, <1>2, <2>1 DEF WithinKept
  <2>3. CASE i + 1 = k
        BY <1>5, <2>1, <2>2, <2>3
  <2>4. CASE i + 1 # k
    <3>1. /\ Len(kept[i + 1]) = Len(kept[i]) + 1
          /\ \A j \in 1 .. Len(kept[i]) : kept[i + 1][j] = kept[i][j]
          /\ kept[i + 1][Len(kept[i]) + 1] = s[i + 1]
          BY <2>1, <2>2, <2>4, AppendProperties
    <3>2. Len(kept[i]) = Passed(i) /\ Passed(i + 1) = Passed(i) + 1
          BY <1>5, <2>1, <2>4
    <3>3. \A j \in 1 .. Passed(i) : kept[i][j] = IF j < k THEN s[j] ELSE s[j + 1]
          BY <1>5
    <3>4. s[i + 1] = IF Passed(i) + 1 < k THEN s[Passed(i) + 1] ELSE s[Passed(i) + 1 + 1]
          BY <2>1, <2>4
    <3> QED BY <2>1, <3>1, <3>2, <3>3, <3>4
  <2> QED BY <2>3, <2>4
<1> HIDE DEF P
<1>6. 0 .. Len(s) \subseteq P
      BY <1>2, <1>4, <1>5, UpTo
<1>7. \A j \in 1 .. Len(s) - 1 : kept[Len(s)][j] = IF j < k THEN s[j] ELSE s[j + 1]
      BY <1>2, <1>6 DEF P
<1> QED BY <1>2, <1>3, <1>7

-----------------------------------------------------------------------------
(* Induction over lists, and Within as an algebra: what it does to a       *)
(* longer list, to a concatenation, to a list whose elements are renamed.  *)
LEMMA SeqSet ==
    ASSUME NEW T, NEW Q, <<>> \in Q,
           \A s \in Seq(T), e \in T : s \in Q => Append(s, e) \in Q
    PROVE  Seq(T) \subseteq Q
<1> DEFINE P == {n \in Nat : \A s \in Seq(T) : Len(s) = n => s \in Q}
<1>1. 0 \in P
      BY EmptySeq
<1>2. ASSUME NEW n \in Nat, n \in P
      PROVE  n + 1 \in P
  <2> SUFFICES ASSUME NEW s \in Seq(T), Len(s) = n + 1
               PROVE  s \in Q
      OBVIOUS
  <2>1. s # <<>>
        BY EmptySeq
  <2>2. PICK t \in Seq(T), e \in T : s = Append(t, e)
        BY <2>1, SequenceEmptyOrAppend
  <2>3. Len(t) = n
        BY <2>2, AppendProperties, LenProperties
  <2> QED BY <1>2, <2>2, <2>3
<1> HIDE DEF P
<1>3. Nat \subseteq P
      BY <1>1, <1>2, NatSet
<1> QED BY <1>3, LenProperties DEF P

LEMMA WithinEmpty ==
    ASSUME NEW S PROVE Within(<<>>, S) = <<>>
<1>1. <<>> \in Seq({}) /\ Len(<<>>) = 0
      BY EmptySeq
<1>2. PICK kept : WithinKept(kept, {}, <<>>, S) /\ Within(<<>>, S) = kept[Len(<<>>)]
      BY <1>1, WithinLoop
<1> QED BY <1>1, <1>2 DEF WithinKept

LEMMA WithinAppend ==
    ASSUME NEW T, NEW s \in Seq(T), NEW e \in T, NEW S
    PROVE  Within(Append(s, e), S) = IF e \in S THEN Append(Within(s, S), e) ELSE Within(s, S)
<1> DEFINE n == Len(s)
<1> DEFINE t == Append(s, e)
<1>1. /\ t \in Seq(T) /\ Len(t) = n + 1 /\ n \in Nat
      /\ \A i \in 1 .. n : t[i] = s[i]
      /\ t[n + 1] = e
      BY AppendProperties, LenProperties
<1> HIDE DEF t
<1>2. PICK kept : WithinKept(kept, T, s, S) /\ Within(s, S) = kept[Len(s)]
      BY WithinLoop
<1>3. PICK more : WithinKept(more, T, t, S) /\ Within(t, S) = more[Len(t)]
      BY <1>1, WithinLoop
<1> HIDE DEF n
<1> DEFINE P == {i \in 0 .. n : more[i] = kept[i]}
<1>4. 0 \in P
      BY <1>1, <1>2, <1>3 DEF WithinKept, n
<1>5. ASSUME NEW i \in 0 .. n - 1, i \in P
      PROVE  i + 1 \in P
  <2>1. i + 1 \in 1 .. n /\ i + 1 \in 1 .. n + 1 /\ i + 1 - 1 = i /\ i + 1 \in 0 .. n
        BY <1>1
  <2>2. kept[i + 1] = IF s[i + 1] \in S THEN Append(kept[i], s[i + 1]) ELSE kept[i]
        BY <2>1, <1>2 DEF WithinKept, n
  <2>3. more[i + 1] = IF t[i + 1] \in S THEN Append(more[i], t[i + 1]) ELSE more[i]
        BY <2>1, <1>1, <1>3 DEF WithinKept
  <2> QED BY <1>5, <2>1, <2>2, <2>3, <1>1
<1> HIDE DEF P
<1>6. 0 .. n \subseteq P
      BY <1>1, <1>4, <1>5, UpTo
<1>7. more[n] = kept[n]
      BY <1>1, <1>6 DEF P
<1>8. more[n + 1] = IF t[n + 1] \in S THEN Append(more[n], t[n + 1]) ELSE more[n]
  <2>1. n + 1 \in 1 .. n + 1 /\ n + 1 - 1 = n
        BY <1>1
  <2> QED BY <2>1, <1>1, <1>3 DEF WithinKept
<1> QED BY <1>1, <1>2, <1>3, <1>7, <1>8 DEF t, n

(* Only what s holds counts. *)
LEMMA WithinSame ==
    ASSUME NEW T, NEW s \in Seq(T), NEW A, NEW B, ToSet(s) \cap A = ToSet(s) \cap B
    PROVE  Within(s, A) = Within(s, B)
<1> DEFINE Q == {t \in Seq(T) : ToSet(t) \cap A = ToSet(t) \cap B => Within(t, A) = Within(t, B)}
<1>1. <<>> \in Q
      BY WithinEmpty, EmptySeq
<1>2. ASSUME NEW t \in Seq(T), NEW e \in T, t \in Q
      PROVE  Append(t, e) \in Q
  <2> SUFFICES ASSUME ToSet(Append(t, e)) \cap A = ToSet(Append(t, e)) \cap B
               PROVE  Within(Append(t, e), A) = Within(Append(t, e), B)
      BY AppendFacts
  <2>1. (e \in A <=> e \in B) /\ ToSet(t) \cap A = ToSet(t) \cap B
    <3>1. ToSet(Append(t, e)) = ToSet(t) \cup {e}
          BY AppendFacts
    <3>2. \A x \in ToSet(t) \cup {e} : x \in A <=> x \in B
          BY <3>1
    <3> QED BY <3>2
  <2>2. Within(t, A) = Within(t, B)
        BY <1>2, <2>1
  <2>3. Within(Append(t, e), A) = IF e \in A THEN Append(Within(t, A), e) ELSE Within(t, A)
        BY WithinAppend
  <2>4. Within(Append(t, e), B) = IF e \in B THEN Append(Within(t, B), e) ELSE Within(t, B)
        BY WithinAppend
  <2> QED BY <2>1, <2>2, <2>3, <2>4, Zenon
<1> HIDE DEF Q
<1>3. Seq(T) \subseteq Q
      BY <1>1, <1>2, SeqSet
<1> QED BY <1>3 DEF Q

LEMMA WithinAll ==
    ASSUME NEW T, NEW s \in Seq(T), NEW S, ToSet(s) \subseteq S
    PROVE  Within(s, S) = s
<1> DEFINE Q == {t \in Seq(T) : ToSet(t) \subseteq S => Within(t, S) = t}
<1>1. <<>> \in Q
      BY WithinEmpty, EmptySeq
<1>2. ASSUME NEW t \in Seq(T), NEW e \in T, t \in Q
      PROVE  Append(t, e) \in Q
      BY <1>2, AppendFacts, WithinAppend
<1> HIDE DEF Q
<1>3. Seq(T) \subseteq Q
      BY <1>1, <1>2, SeqSet
<1> QED BY <1>3 DEF Q

LEMMA WithinNone ==
    ASSUME NEW T, NEW s \in Seq(T), NEW S, ToSet(s) \cap S = {}
    PROVE  Within(s, S) = <<>>
<1>1. Within(s, S) \in Seq(T) /\ ToSet(Within(s, S)) = {}
      BY WithinFacts
<1>2. DOMAIN Within(s, S) = 1 .. Len(Within(s, S)) /\ Len(Within(s, S)) \in Nat
      BY <1>1, LenProperties
<1>3. \A i \in DOMAIN Within(s, S) : Within(s, S)[i] \in ToSet(Within(s, S))
      BY DEF ToSet
<1>4. Len(Within(s, S)) = 0
  <2>1. DOMAIN Within(s, S) = {}
        BY <1>1, <1>3
  <2> QED BY <2>1, <1>2
<1> QED BY <1>1, <1>4, EmptySeq

LEMMA WithinTwice ==
    ASSUME NEW T, NEW s \in Seq(T), NEW A, NEW B
    PROVE  Within(Within(s, A), B) = Within(s, A \cap B)
<1> DEFINE Q == {t \in Seq(T) : Within(Within(t, A), B) = Within(t, A \cap B)}
<1>1. <<>> \in Q
      BY WithinEmpty, EmptySeq
<1>2. ASSUME NEW t \in Seq(T), NEW e \in T, t \in Q
      PROVE  Append(t, e) \in Q
  <2>1. Append(t, e) \in Seq(T) /\ Within(t, A) \in Seq(T)
        BY AppendFacts, WithinFacts
  <2>2. Within(Within(t, A), B) = Within(t, A \cap B)
        BY <1>2
  <2>3. Within(Within(Append(t, e), A), B) = Within(Append(t, e), A \cap B)
    <3> DEFINE w == Within(t, A)
    <3>1. Within(Append(t, e), A) = IF e \in A THEN Append(w, e) ELSE w
          BY WithinAppend
    <3>2. Within(Append(t, e), A \cap B) =
            IF e \in A \cap B THEN Append(Within(t, A \cap B), e) ELSE Within(t, A \cap B)
          BY WithinAppend
    <3> HIDE DEF w
    <3>3. Within(Append(w, e), B) = IF e \in B THEN Append(Within(w, B), e) ELSE Within(w, B)
          BY <2>1, WithinAppend DEF w
    <3>4. Within(w, B) = Within(t, A \cap B)
          BY <2>2 DEF w
    <3>5. e \in A \cap B <=> e \in A /\ e \in B
          OBVIOUS
    <3>6. CASE e \in A
          BY <3>1, <3>2, <3>3, <3>4, <3>5, <3>6, Zenon
    <3>7. CASE e \notin A
          BY <3>1, <3>2, <3>4, <3>5, <3>7, Zenon
    <3> QED BY <3>6, <3>7
  <2> QED BY <2>1, <2>3
<1> HIDE DEF Q
<1>3. Seq(T) \subseteq Q
      BY <1>1, <1>2, SeqSet
<1> QED BY <1>3 DEF Q

LEMMA ConcatAppend ==
    ASSUME NEW T, NEW s \in Seq(T), NEW t \in Seq(T), NEW e \in T
    PROVE  s \o Append(t, e) = Append(s \o t, e)
<1>1. Append(t, e) = t \o <<e>> /\ Append(s \o t, e) = (s \o t) \o <<e>> /\ <<e>> \in Seq(T)
      BY AppendIsConcat, ConcatProperties
<1> QED BY <1>1, ConcatAssociative

LEMMA WithinConcat ==
    ASSUME NEW T, NEW s \in Seq(T), NEW u \in Seq(T), NEW S
    PROVE  Within(s \o u, S) = Within(s, S) \o Within(u, S)
<1> DEFINE Q == {t \in Seq(T) : Within(s \o t, S) = Within(s, S) \o Within(t, S)}
<1>1. <<>> \in Q
      BY WithinEmpty, EmptySeq, ConcatEmptySeq, WithinFacts
<1>2. ASSUME NEW t \in Seq(T), NEW e \in T, t \in Q
      PROVE  Append(t, e) \in Q
  <2>1. /\ Append(t, e) \in Seq(T) /\ s \o t \in Seq(T)
        /\ Within(s, S) \in Seq(T) /\ Within(t, S) \in Seq(T)
        BY AppendFacts, ConcatProperties, WithinFacts
  <2>2. Within(s \o Append(t, e), S) = Within(Append(s \o t, e), S)
    <3>1. s \o Append(t, e) = Append(s \o t, e)
          BY ConcatAppend
    <3> QED BY <3>1, Zenon
  <2>3. Within(s \o t, S) = Within(s, S) \o Within(t, S)
        BY <1>2
  <2> DEFINE c == s \o t
  <2> DEFINE ws == Within(s, S)
  <2> DEFINE wt == Within(t, S)
  <2> DEFINE wc == ws \o wt
  <2>4. Within(Append(c, e), S) = IF e \in S THEN Append(wc, e) ELSE wc
    <3> HIDE DEF c
    <3> QED BY <2>1, <2>3, WithinAppend, ZenonT(60) DEF c
  <2>5. Within(Append(t, e), S) = IF e \in S THEN Append(wt, e) ELSE wt
        BY WithinAppend
  <2>6. ws \o Append(wt, e) = Append(wc, e)
        BY <2>1, ConcatAppend
  <2>7. Within(s \o Append(t, e), S) = ws \o Within(Append(t, e), S)
    <3> HIDE DEF c, ws, wt, wc
    <3>1. wc = ws \o wt
          BY DEF wc
    <3>2. Within(s \o Append(t, e), S) = Within(Append(c, e), S)
          BY <2>2 DEF c
    <3> QED BY <2>4, <2>5, <2>6, <3>1, <3>2, Zenon
  <2> QED BY <2>1, <2>7
<1> HIDE DEF Q
<1>3. Seq(T) \subseteq Q
      BY <1>1, <1>2, SeqSet
<1> QED BY <1>3 DEF Q

(* s with every element renamed by F. *)
Renamed(s, F) == [i \in DOMAIN s |-> F[s[i]]]

LEMMA RenamedFacts ==
    ASSUME NEW T, NEW U, NEW F \in [T -> U], NEW s \in Seq(T)
    PROVE  /\ Renamed(s, F) \in Seq(U) /\ Len(Renamed(s, F)) = Len(s)
           /\ \A i \in 1 .. Len(s) : Renamed(s, F)[i] = F[s[i]]
           /\ \A e \in T : Renamed(Append(s, e), F) = Append(Renamed(s, F), F[e])
<1>1. /\ DOMAIN s = 1 .. Len(s) /\ Len(s) \in Nat /\ \A i \in 1 .. Len(s) : s[i] \in T
      BY LenProperties, ElementOfSeq
<1>2. Renamed(s, F) \in [1 .. Len(s) -> U]
      BY <1>1 DEF Renamed
<1>3. /\ Renamed(s, F) \in Seq(U) /\ Len(Renamed(s, F)) = Len(s)
      /\ \A i \in 1 .. Len(s) : Renamed(s, F)[i] = F[s[i]]
      BY <1>1, <1>2 DEF Renamed
<1>4. ASSUME NEW e \in T
      PROVE  Renamed(Append(s, e), F) = Append(Renamed(s, F), F[e])
  <2> DEFINE t == Append(s, e)
  <2> DEFINE r == Append(Renamed(s, F), F[e])
  <2>1. /\ t \in Seq(T) /\ Len(t) = Len(s) + 1 /\ DOMAIN t = 1 .. Len(s) + 1
        /\ \A i \in 1 .. Len(s) : t[i] = s[i]
        /\ t[Len(s) + 1] = e
        BY AppendProperties, LenProperties
  <2>2. /\ r \in Seq(U) /\ Len(r) = Len(s) + 1
        /\ \A i \in 1 .. Len(s) : r[i] = F[s[i]]
        /\ r[Len(s) + 1] = F[e]
        BY <1>3, AppendProperties
  <2> HIDE DEF t, r
  <2>3. \A i \in 1 .. Len(s) + 1 : t[i] \in T
        BY <2>1, ElementOfSeq
  <2>4. Renamed(t, F) \in [1 .. Len(s) + 1 -> U]
        BY <2>1, <2>3 DEF Renamed
  <2>5. Renamed(t, F) \in Seq(U) /\ Len(Renamed(t, F)) = Len(s) + 1
        BY <2>4, <1>1
  <2>6. \A i \in 1 .. Len(s) + 1 : Renamed(t, F)[i] = r[i]
    <3>1. \A i \in 1 .. Len(s) + 1 : i \in 1 .. Len(s) \/ i = Len(s) + 1
          BY <1>1
    <3> QED BY <3>1, <2>1, <2>2 DEF Renamed
  <2>7. Renamed(t, F) = r
        BY <2>2, <2>5, <2>6, SeqEqual
  <2> QED BY <2>7 DEF t, r
<1> QED BY <1>3, <1>4

LEMMA RenamedEmpty ==
    ASSUME NEW T, NEW U, NEW F \in [T -> U]
    PROVE  Renamed(<<>>, F) = <<>>
<1>1. <<>> \in Seq(T) /\ Len(<<>>) = 0
      BY EmptySeq
<1>2. PICK z \in Seq(T) : z = <<>> /\ Len(z) = 0
      BY <1>1
<1>3. Renamed(z, F) \in Seq(U) /\ Len(Renamed(z, F)) = Len(z)
      BY RenamedFacts
<1>4. Renamed(z, F) = <<>>
      BY <1>2, <1>3, EmptySeq
<1> QED BY <1>2, <1>4

LEMMA WithinRenamed ==
    ASSUME NEW T, NEW U, NEW F \in [T -> U], NEW s \in Seq(T), NEW A, NEW B,
           \A e \in ToSet(s) : e \in A <=> F[e] \in B
    PROVE  Within(Renamed(s, F), B) = Renamed(Within(s, A), F)
<1> DEFINE Q == {t \in Seq(T) : (\A e \in ToSet(t) : e \in A <=> F[e] \in B) =>
                                 Within(Renamed(t, F), B) = Renamed(Within(t, A), F)}
<1>1. <<>> \in Q
      BY RenamedEmpty, WithinEmpty, EmptySeq
<1>2. ASSUME NEW t \in Seq(T), NEW e \in T, t \in Q
      PROVE  Append(t, e) \in Q
  <2> SUFFICES ASSUME \A d \in ToSet(Append(t, e)) : d \in A <=> F[d] \in B
               PROVE  Within(Renamed(Append(t, e), F), B) = Renamed(Within(Append(t, e), A), F)
      BY AppendFacts
  <2>1. (e \in A <=> F[e] \in B) /\ \A d \in ToSet(t) : d \in A <=> F[d] \in B
        BY AppendFacts
  <2>2. /\ Within(Renamed(t, F), B) = Renamed(Within(t, A), F)
        /\ Within(t, A) \in Seq(T) /\ Renamed(t, F) \in Seq(U) /\ F[e] \in U
        BY <1>2, <2>1, WithinFacts, RenamedFacts
  <2>3. /\ Renamed(Append(t, e), F) = Append(Renamed(t, F), F[e])
        /\ Renamed(Append(Within(t, A), e), F) = Append(Renamed(Within(t, A), F), F[e])
    <3>1. \A w \in Seq(T) : Renamed(Append(w, e), F) = Append(Renamed(w, F), F[e])
          BY RenamedFacts, SMTT(30)
    <3> QED BY <3>1, <2>2, Zenon
  <2>4. Within(Append(t, e), A) = IF e \in A THEN Append(Within(t, A), e) ELSE Within(t, A)
        BY WithinAppend
  <2>5. \A r \in Seq(U), d \in U :
          Within(Append(r, d), B) = IF d \in B THEN Append(Within(r, B), d) ELSE Within(r, B)
        BY WithinAppend
  <2>6. Within(Append(Renamed(t, F), F[e]), B) =
          IF F[e] \in B THEN Append(Within(Renamed(t, F), B), F[e])
          ELSE Within(Renamed(t, F), B)
        BY <2>2, <2>5, Zenon
  <2> QED BY <2>1, <2>2, <2>3, <2>4, <2>6, Zenon
<1> HIDE DEF Q
<1>3. Seq(T) \subseteq Q
      BY <1>1, <1>2, SeqSet
<1> QED BY <1>3 DEF Q

-----------------------------------------------------------------------------
(* Where the list of a group is. *)
LEMMA LeastOf ==
    ASSUME NEW S, S \subseteq Nat, S # {}
    PROVE  \E x \in S : \A y \in S : x <= y
<1> DEFINE P == {n \in Nat : \A i \in 0 .. n : i \notin S}
<1> SUFFICES ASSUME \A x \in S : \E y \in S : ~(x <= y) PROVE FALSE
    OBVIOUS
<1>1. 0 \in P
      OBVIOUS
<1>2. ASSUME NEW n \in Nat, n \in P
      PROVE  n + 1 \in P
  <2>1. \A y \in S : n + 1 <= y
    <3> SUFFICES ASSUME NEW y \in S, y <= n PROVE FALSE
        OBVIOUS
    <3>1. y \in 0 .. n
          OBVIOUS
    <3> QED BY <3>1, <1>2
  <2>2. n + 1 \notin S
        BY <2>1
  <2>3. \A i \in 0 .. n + 1 : i \in 0 .. n \/ i = n + 1
        OBVIOUS
  <2> QED BY <2>2, <2>3, <1>2
<1> HIDE DEF P
<1>3. Nat \subseteq P
      BY <1>1, <1>2, NatSet
<1>4. ASSUME NEW y \in S PROVE FALSE
  <2>1. y \in Nat
        OBVIOUS
  <2>2. y \in 0 .. y
        BY <2>1
  <2> QED BY <2>1, <2>2, <1>3 DEF P
<1> QED BY <1>4

LEMMA MinFacts ==
    ASSUME NEW S, S \subseteq Nat, S # {}
    PROVE  Min(S) \in S /\ \A y \in S : Min(S) <= y
  BY LeastOf DEF Min

LEMMA MinIs ==
    ASSUME NEW S, S \subseteq Nat, NEW x \in S, \A y \in S : x <= y
    PROVE  Min(S) = x
<1> DEFINE m == Min(S)
<1>1. m \in S /\ m <= x
      BY MinFacts
<1> HIDE DEF m
<1>2. m \in Nat /\ x \in Nat /\ x <= m
      BY <1>1
<1> QED BY <1>1, <1>2 DEF m

(* s is the first line of group g, e the end of its block, p its list.     *)
Block(text, s, e) ==
    /\ s \in 1 .. Len(text) /\ e \in s + 1 .. Len(text) + 1
    /\ \A i \in s + 1 .. e - 1 : text[i].kind \notin {"group", "key"}
    /\ e # Len(text) + 1 => text[e].kind \in {"group", "key"}

Located(text, g, s, p, e) ==
    /\ Block(text, s, e)
    /\ text[s] = Group(g) /\ \A i \in 1 .. s - 1 : text[i] # Group(g)
    /\ p \in s + 1 .. e - 1
    /\ text[p].kind = "proxies" /\ \A i \in s + 1 .. p - 1 : text[i].kind # "proxies"

LEMMA BlockIs ==
    ASSUME NEW L, NEW text \in Seq(L), NEW s \in 1 .. Len(text)
    PROVE  /\ Block(text, s, BlockEnd(text, s))
           /\ \A e : Block(text, s, e) => e = BlockEnd(text, s)
<1>1. Len(text) \in Nat
      BY LenProperties
<1> DEFINE E == {i \in s + 1 .. Len(text) : text[i].kind \in {"group", "key"}} \cup {Len(text) + 1}
<1>2. E \subseteq Nat /\ E # {}
      BY <1>1
<1>3. BlockEnd(text, s) = Min(E)
      BY DEF BlockEnd
<1>4. \A i \in E : i \in s + 1 .. Len(text) + 1
      BY <1>1
<1>5. /\ \A i \in s + 1 .. Len(text) : i \in E <=> text[i].kind \in {"group", "key"}
      /\ Len(text) + 1 \in E
      BY <1>1
<1> HIDE DEF E
<1>6. Min(E) \in E /\ \A y \in E : Min(E) <= y
      BY <1>2, MinFacts
<1>7. Block(text, s, Min(E))
      BY <1>1, <1>4, <1>5, <1>6 DEF Block
<1>8. ASSUME NEW e, Block(text, s, e)
      PROVE  e = Min(E)
  <2>1. e \in E /\ e \in Nat
        BY <1>1, <1>5, <1>8 DEF Block
  <2>2. ASSUME NEW y \in E, y < e PROVE FALSE
    <3>1. y \in s + 1 .. e - 1 /\ y \in s + 1 .. Len(text)
          BY <1>1, <1>4, <1>8, <2>2 DEF Block
    <3> QED BY <3>1, <1>5, <1>8 DEF Block
  <2>3. \A y \in E : e <= y
        BY <2>1, <2>2, <1>2
  <2> QED BY <2>1, <2>3, <1>2, MinIs
<1> QED BY <1>3, <1>7, <1>8

LEMMA HasLocated ==
    ASSUME NEW L, NEW text \in Seq(L), NEW g, HasList(text, g)
    PROVE  \E s : Located(text, g, s, ListAt(text, g), ListEnd(text, g))
<1>1. Len(text) \in Nat /\ DOMAIN text = 1 .. Len(text)
      BY LenProperties
<1> DEFINE G == GroupStarts(text, g)
<1> DEFINE s == Min(G)
<1>2. G \subseteq 1 .. Len(text) /\ G # {} /\ \A i \in 1 .. Len(text) : i \in G <=> text[i] = Group(g)
      BY <1>1 DEF HasList, GroupStarts
<1>3. s \in G /\ \A y \in G : s <= y
  <2> HIDE DEF G
  <2>1. G \subseteq Nat
        BY <1>2
  <2> QED BY <2>1, <1>2, MinFacts
<1> DEFINE P == ProxiesLines(text, s)
<1> DEFINE e == BlockEnd(text, s)
<1>4. /\ ListAt(text, g) = Min(P) /\ ListEnd(text, g) = e /\ P # {}
      BY DEF ListAt, ListEnd, HasList
<1>5. \A i : i \in P <=> i \in s + 1 .. e - 1 /\ text[i].kind = "proxies"
      BY DEF ProxiesLines
<1> HIDE DEF G, P, s, e
<1>6. s \in 1 .. Len(text) /\ Block(text, s, e)
      BY <1>2, <1>3, BlockIs DEF e
<1>7. P \subseteq Nat
      BY <1>1, <1>5, <1>6 DEF Block
<1>8. Min(P) \in P /\ \A y \in P : Min(P) <= y
      BY <1>4, <1>7, MinFacts
<1>9. \A i \in 1 .. s - 1 : text[i] # Group(g)
      BY <1>1, <1>2, <1>3, <1>6
<1>10. \A i \in s + 1 .. Min(P) - 1 : text[i].kind # "proxies"
      BY <1>1, <1>5, <1>6, <1>7, <1>8 DEF Block
<1>11. Located(text, g, s, Min(P), e)
      BY <1>2, <1>3, <1>5, <1>6, <1>8, <1>9, <1>10 DEF Located
<1> QED BY <1>4, <1>11

LEMMA LocatedIs ==
    ASSUME NEW L, NEW text \in Seq(L), NEW g, NEW s, NEW p, NEW e, Located(text, g, s, p, e)
    PROVE  HasList(text, g) /\ ListAt(text, g) = p /\ ListEnd(text, g) = e
<1>1. Len(text) \in Nat /\ DOMAIN text = 1 .. Len(text)
      BY LenProperties
<1>2. s \in 1 .. Len(text) /\ e \in Int /\ Block(text, s, e)
      BY <1>1 DEF Located, Block
<1> DEFINE G == GroupStarts(text, g)
<1>3. G \subseteq 1 .. Len(text) /\ \A i \in 1 .. Len(text) : i \in G <=> text[i] = Group(g)
      BY <1>1 DEF GroupStarts
<1> HIDE DEF G
<1>4. Min(G) = s
  <2>1. G \subseteq Nat /\ s \in G
        BY <1>2, <1>3 DEF Located
  <2>2. \A y \in G : s <= y
        BY <1>2, <1>3 DEF Located
  <2> QED BY <2>1, <2>2, MinIs
<1>5. BlockEnd(text, s) = e
      BY <1>2, BlockIs
<1> DEFINE P == ProxiesLines(text, s)
<1>6. \A i : i \in P <=> i \in s + 1 .. e - 1 /\ text[i].kind = "proxies"
      BY <1>5 DEF ProxiesLines
<1> HIDE DEF P
<1>7. Min(P) = p /\ p \in P
  <2>1. P \subseteq Nat /\ p \in P
        BY <1>2, <1>6 DEF Located
  <2>2. \A y \in P : p <= y
        BY <1>2, <1>6, <2>1 DEF Located
  <2> QED BY <2>1, <2>2, MinIs
<1> QED
    BY <1>2, <1>3, <1>4, <1>5, <1>7 DEF HasList, ListAt, ListEnd, Located, G, P

-----------------------------------------------------------------------------
(* u is t with the lines between a and e replaced by those between a and f;*)
(* neither has a heading there, or from the heading at h on.               *)
Spliced(t, u, a, e, f) ==
    /\ a \in Nat /\ e \in a + 1 .. Len(t) + 1 /\ f \in a + 1 .. Len(u) + 1
    /\ Len(t) - e = Len(u) - f
    /\ \A i \in 1 .. a : u[i] = t[i]
    /\ \A k \in 0 .. Len(t) - e : u[f + k] = t[e + k]

NoHeading(t, i, j) == \A k \in i .. j : t[k].kind \notin {"group", "key"}

LEMMA SplicedBack ==
    ASSUME NEW L, NEW t \in Seq(L), NEW u \in Seq(L), NEW a, NEW e, NEW f, Spliced(t, u, a, e, f)
    PROVE  Spliced(u, t, a, f, e)
  BY LenProperties DEF Spliced

(* From p1 to x1, u has the lines that t has from p to x.                  *)
SameBetween(t, p, x, u, p1, x1) ==
    /\ p \in Nat /\ x \in Nat /\ p1 \in Nat /\ x1 \in Nat /\ x1 - p1 = x - p
    /\ \A k \in 0 .. x - p - 1 : u[p1 + k] = t[p + k]

(* A group other than the one at h is found in u as it was in t.           *)
LEMMA Moved ==
    ASSUME NEW L, NEW t \in Seq(L), NEW u \in Seq(L), NEW a, NEW e, NEW f, Spliced(t, u, a, e, f),
           NEW h \in 1 .. a, t[h].kind = "group",
           NoHeading(t, h + 1, e - 1), NoHeading(u, h + 1, f - 1),
           NEW g, t[h] # Group(g),
           NEW s, NEW p, NEW x, Located(t, g, s, p, x)
    PROVE  \E s1, p1, x1 : Located(u, g, s1, p1, x1) /\ SameBetween(t, p, x, u, p1, x1)
<1>1. /\ Len(t) \in Nat /\ Len(u) \in Nat /\ a \in Nat
      /\ e \in a + 1 .. Len(t) + 1 /\ f \in a + 1 .. Len(u) + 1
      /\ Len(t) - e = Len(u) - f
      /\ \A i \in 1 .. a : u[i] = t[i]
      BY LenProperties DEF Spliced
<1>2. /\ s \in 1 .. Len(t) /\ x \in s + 1 .. Len(t) + 1 /\ p \in s + 1 .. x - 1
      /\ \A i \in s + 1 .. x - 1 : t[i].kind \notin {"group", "key"}
      /\ x # Len(t) + 1 => t[x].kind \in {"group", "key"}
      /\ t[s] = Group(g) /\ \A i \in 1 .. s - 1 : t[i] # Group(g)
      /\ t[p].kind = "proxies" /\ \A i \in s + 1 .. p - 1 : t[i].kind # "proxies"
      BY DEF Located, Block
<1>3. Group(g).kind = "group"
      BY DEF Group, Line
<1>4. s # h /\ s \notin h + 1 .. e - 1
      BY <1>2, <1>3 DEF NoHeading
<1> DEFINE m == Len(t)
<1> DEFINE n == Len(u)
<1>N. /\ m \in Nat /\ n \in Nat /\ a \in Nat /\ e \in Nat /\ f \in Nat /\ h \in Nat
      /\ s \in Nat /\ p \in Nat /\ x \in Nat
      /\ 1 <= h /\ h <= a /\ a + 1 <= e /\ e <= m + 1 /\ a + 1 <= f /\ f <= n + 1
      /\ m - e = n - f /\ 1 <= s /\ s + 1 <= p /\ p <= x - 1 /\ x <= m + 1 /\ s <= m
      BY <1>1, <1>2
<1> HIDE DEF m, n
<1>5. CASE s <= a
  <2>1. s < h
    <3>1. ~(s >= h + 1 /\ s <= e - 1)
          BY <1>4, <1>N, SMTT(30)
    <3> QED BY <3>1, <1>4, <1>5, <1>N, SMTT(30)
  <2>2. x <= h
    <3> SUFFICES ASSUME x > h PROVE FALSE
        BY <1>N, SMTT(30)
    <3>1. h \in s + 1 .. x - 1
          BY <2>1, <1>N, SMTT(30)
    <3> QED BY <3>1, <1>2
  <2>X. /\ s \in Nat /\ p \in Nat /\ x \in Nat /\ a \in Nat /\ n \in Nat
        /\ 1 <= s /\ s + 1 <= p /\ p + 1 <= x
    <3>1. /\ s \in Nat /\ p \in Nat /\ x \in Nat /\ a \in Nat /\ n \in Nat
          /\ 1 <= s /\ s + 1 <= p /\ p <= x - 1
          BY <1>N, Zenon
    <3> QED BY <3>1
  <2>Y. x <= a /\ x <= n /\ x # m + 1
    <3>1. /\ h <= a /\ a + 1 <= e /\ e <= m + 1 /\ a + 1 <= f /\ f <= n + 1
          /\ h \in Nat /\ e \in Nat /\ f \in Nat /\ m \in Nat
          BY <1>N, Zenon
    <3> QED BY <2>2, <2>X, <3>1, SMTT(30)
  <2>3. \A i \in 1 .. x : u[i] = t[i]
    <3>1. \A i \in 1 .. x : i \in 1 .. a
          BY <2>X, <2>Y, SMTT(30)
    <3> QED BY <3>1, <1>1
  <2>4. x # m + 1 /\ s \in 1 .. n /\ x \in s + 1 .. n + 1
        BY <2>X, <2>Y, SMTT(30)
  <2>5. Block(u, s, x)
    <3>1. x \in 1 .. x /\ \A i \in s + 1 .. x - 1 : i \in 1 .. x
          BY <2>X, SMTT(30)
    <3>2. \A i \in s + 1 .. x - 1 : u[i].kind \notin {"group", "key"}
          BY <2>3, <3>1, <1>2
    <3>3. u[x].kind \in {"group", "key"}
      <4>1. t[x].kind \in {"group", "key"}
            BY <2>4, <1>2 DEF m
      <4> QED BY <4>1, <2>3, <3>1
    <3> QED BY <2>4, <3>2, <3>3 DEF Block, n
  <2>6. /\ s \in 1 .. x /\ p \in 1 .. x /\ \A i \in 1 .. s - 1 : i \in 1 .. x
        /\ \A i \in s + 1 .. p - 1 : i \in 1 .. x
        BY <2>X, SMTT(30)
  <2>7. Located(u, g, s, p, x)
        BY <1>2, <2>3, <2>5, <2>6 DEF Located
  <2>8. ASSUME NEW k \in 0 .. x - p - 1 PROVE p + k \in 1 .. x
        BY <2>X, SMTT(30)
  <2>10. /\ p \in Nat /\ x \in Nat /\ x - p = x - p
         /\ \A k \in 0 .. x - p - 1 : u[p + k] = t[p + k]
    <3>1. p \in Nat /\ x \in Nat
          BY <2>X, Zenon
    <3>2. \A k \in 0 .. x - p - 1 : u[p + k] = t[p + k]
          BY <2>3, <2>8, Zenon
    <3> QED BY <3>1, <3>2, Zenon
  <2> QED
      BY <2>7, <2>10 DEF SameBetween
<1>6. CASE s > a
  <2>1. s >= e
    <3>1. ~(s >= h + 1 /\ s <= e - 1)
          BY <1>4, <1>N, SMTT(30)
    <3> QED BY <3>1, <1>6, <1>N, SMTT(30)
  <2> DEFINE d == f - e
  <2>X. e \in Nat /\ f \in Nat /\ m \in Nat
        BY <1>N, Zenon
  <2>2. \A i \in e .. m : u[i + d] = t[i]
    <3> SUFFICES ASSUME NEW i \in e .. m PROVE u[i + d] = t[i]
        OBVIOUS
    <3>1. i - e \in 0 .. m - e /\ f + (i - e) = i + d /\ e + (i - e) = i
          BY <2>X, SMTT(30)
    <3>2. u[f + (i - e)] = t[e + (i - e)]
          BY <3>1 DEF Spliced, m
    <3> QED BY <3>1, <3>2
  <2> HIDE DEF d
  <2>3. d \in Int /\ n = m + d /\ f = e + d
    <3>1. /\ m \in Nat /\ n \in Nat /\ e \in Nat /\ f \in Nat
          /\ m - e = n - f
          BY <1>N, Zenon
    <3>2. f - e \in Int /\ n = m + (f - e) /\ f = e + (f - e)
          BY <3>1, SMTT(60)
    <3> QED BY <3>2, Zenon DEF d
  <2>Y. /\ s \in Nat /\ x \in Nat /\ p \in Nat /\ x <= m + 1 /\ s + 1 <= p /\ p <= x - 1
        BY <1>N, Zenon
  <2>4. \A i \in f .. n : i - d \in e .. m /\ u[i] = t[i - d]
    <3> SUFFICES ASSUME NEW i \in f .. n PROVE i - d \in e .. m /\ u[i] = t[i - d]
        OBVIOUS
    <3>1. i - d \in e .. m /\ (i - d) + d = i
          BY <1>N, <2>3, SMTT(30)
    <3> QED BY <3>1, <2>2
  <2>5. Block(u, s + d, x + d)
    <3>1. s + d \in 1 .. n /\ x + d \in s + d + 1 .. n + 1
          BY <1>N, <2>1, <2>3, SMTT(30)
    <3>2. ASSUME NEW i \in s + d + 1 .. (x + d) - 1
          PROVE  u[i].kind \notin {"group", "key"}
      <4>1. i \in Int /\ s + 1 <= i - d /\ i - d <= x - 1
            BY <2>Y, <2>3, SMTT(30)
      <4>2. i \in f .. n /\ i - d \in s + 1 .. x - 1
            BY <4>1, <2>X, <2>Y, <2>3, <2>1, SMTT(30)
      <4> QED BY <4>2, <2>4, <1>2
    <3>3. ASSUME x + d # n + 1
          PROVE  u[x + d].kind \in {"group", "key"}
      <4>1. x # m + 1 /\ x \in e .. m
        <5>1. ASSUME x = m + 1 PROVE FALSE
          <6>1. x + d = (m + d) + 1
                BY <5>1, <2>X, <2>3, SMTT(30)
          <6> QED BY <6>1, <3>3, <2>3
        <5>2. x <= m /\ e <= x
              BY <5>1, <2>X, <2>Y, <2>1, SMTT(30)
        <5> QED BY <5>1, <5>2, <2>X, <2>Y, SMTT(30)
      <4>2. t[x].kind \in {"group", "key"}
            BY <4>1, <1>2 DEF m
      <4>3. u[x + d] = t[x]
            BY <4>1, <2>2
      <4> QED BY <4>2, <4>3
    <3> QED BY <3>1, <3>2, <3>3 DEF Block, n
  <2>6. u[s + d] = Group(g)
    <3>1. s \in e .. m
          BY <1>N, <2>1, SMTT(30)
    <3> QED BY <3>1, <2>2, <1>2
  <2>7. ASSUME NEW i \in 1 .. (s + d) - 1
        PROVE  u[i] # Group(g)
    <3>1. CASE i <= a
      <4>1. i \in 1 .. a /\ i \in 1 .. s - 1
            BY <3>1, <1>N, <1>6, <2>3, <2>1, SMTT(30)
      <4> QED BY <4>1, <1>1, <1>2
    <3>2. CASE i > a /\ i < f
      <4>1. i \in h + 1 .. f - 1
            BY <3>2, <1>N, <2>3, SMTT(30)
      <4> QED BY <4>1, <1>3 DEF NoHeading
    <3>3. CASE i >= f
      <4>1. i \in f .. n /\ i - d \in 1 .. s - 1
            BY <3>3, <1>N, <2>1, <2>3, SMTT(30)
      <4> QED BY <4>1, <2>4, <1>2
    <3> QED BY <3>1, <3>2, <3>3, <1>N, <2>3, SMTT(30)
  <2>8. p + d \in s + d + 1 .. (x + d) - 1 /\ u[p + d].kind = "proxies"
    <3>1. p \in e .. m
          BY <2>X, <2>Y, <2>1, SMTT(30)
    <3>2. p + d \in s + d + 1 .. (x + d) - 1
          BY <1>N, <2>3, SMTT(30)
    <3> QED BY <3>1, <3>2, <2>2, <1>2
  <2>9. ASSUME NEW i \in s + d + 1 .. (p + d) - 1
        PROVE  u[i].kind # "proxies"
    <3>1. i \in f .. n /\ i - d \in s + 1 .. p - 1
          BY <1>N, <2>1, <2>3, SMTT(30)
    <3> QED BY <3>1, <2>4, <1>2
  <2>10. Located(u, g, s + d, p + d, x + d)
    <3> DEFINE s1 == s + d
    <3> DEFINE p1 == p + d
    <3> DEFINE x1 == x + d
    <3>1. /\ \A i \in 1 .. s1 - 1 : u[i] # Group(g)
          /\ \A i \in s1 + 1 .. p1 - 1 : u[i].kind # "proxies"
          BY <2>7, <2>9
    <3>2. /\ Block(u, s1, x1) /\ u[s1] = Group(g)
          /\ p1 \in s1 + 1 .. x1 - 1 /\ u[p1].kind = "proxies"
          BY <2>5, <2>6, <2>8
    <3> HIDE DEF s1, p1, x1
    <3>3. Located(u, g, s1, p1, x1)
          BY <3>1, <3>2 DEF Located
    <3> QED BY <3>3 DEF s1, p1, x1
  <2>11. ASSUME NEW k \in 0 .. x - p - 1
         PROVE  u[(p + d) + k] = t[p + k]
    <3>1. p + k \in e .. m /\ (p + d) + k = (p + k) + d
          BY <1>N, <2>1, <2>3, SMTT(30)
    <3> QED BY <3>1, <2>2
  <2>12. /\ p + d \in Nat /\ x + d \in Nat /\ p \in Nat /\ x \in Nat
         /\ (x + d) - (p + d) = x - p
        BY <1>N, <2>1, <2>3, SMTT(30)
  <2> QED
      BY <2>10, <2>11, <2>12 DEF SameBetween
<1> QED
    BY <1>N, <1>5, <1>6, SMTT(30)

-----------------------------------------------------------------------------
(* The items of a text whose nodes are those in N, what is written for a   *)
(* name, and what the tool and Clash read.                                 *)
ItemsIn(N) == {l \in LinesOf(N) : l.kind = "item"}

Quoted(N) == [m \in NamesOf(N) |-> yamlSingleQuote(m)]
Trim(N)   == [l \in ItemsIn(N) |-> Trimmed(l)]
Clash(N)  == [l \in ItemsIn(N) |-> ClashReads(l)]

LEMMA NameFacts ==
    ASSUME NEW N, NEW m \in NamesOf(N)
    PROVE  /\ Doubled(m) \in NamesOf(N) /\ Halved(m) \in NamesOf(N)
           /\ Halved(Doubled(m)) = m
<1>1. /\ m = [node |-> m.node, quotes |-> m.quotes, remark |-> m.remark]
      /\ m.node \in N /\ m.quotes \in Nat /\ m.remark \in Remarks
      BY DEF NamesOf
<1>2. /\ Doubled(m) = [node |-> m.node, quotes |-> 2 * m.quotes, remark |-> m.remark]
      /\ Halved(m) = [node |-> m.node, quotes |-> m.quotes \div 2, remark |-> m.remark]
      BY <1>1 DEF Doubled, Halved
<1>3. 2 * m.quotes \in Nat /\ m.quotes \div 2 \in Nat /\ (2 * m.quotes) \div 2 = m.quotes
      BY <1>1
<1>4. Doubled(m) \in NamesOf(N) /\ Halved(m) \in NamesOf(N)
      BY <1>1, <1>2, <1>3 DEF NamesOf
<1>5. Halved(Doubled(m)) =
        [node |-> m.node, quotes |-> (2 * m.quotes) \div 2, remark |-> m.remark]
      BY <1>2 DEF Halved
<1> QED BY <1>1, <1>3, <1>4, <1>5

LEMMA ItemFacts ==
    ASSUME NEW N, NoName \in NamesOf(N)
    PROVE  /\ \A m \in NamesOf(N), q \in Styles, c \in Nat : Item(m, q, c) \in ItemsIn(N)
           /\ \A m, q, c : /\ Item(m, q, c).name = m /\ Item(m, q, c).style = q
                          /\ Item(m, q, c).column = c /\ Item(m, q, c).comment = FALSE
                          /\ Item(m, q, c).kind = "item"
<1>1. \A m, q, c : Item(m, q, c) =
        [kind |-> "item", group |-> NoName.node, name |-> m, style |-> q,
         comment |-> FALSE, column |-> c]
      BY DEF Item
<1>2. NoName.node \in N
      BY DEF NamesOf
<1> QED BY <1>1, <1>2 DEF ItemsIn, LinesOf

LEMMA ReadingFacts ==
    ASSUME NEW N, NoName \in NamesOf(N)
    PROVE  /\ Quoted(N) \in [NamesOf(N) -> ItemsIn(N)]
           /\ Trim(N) \in [ItemsIn(N) -> NamesOf(N)]
           /\ Clash(N) \in [ItemsIn(N) -> NamesOf(N)]
           /\ \A m \in NamesOf(N) : /\ Clash(N)[Quoted(N)[m]] = m
                                    /\ Trim(N)[Quoted(N)[m]] = Doubled(m)
                                    /\ Quoted(N)[m].column = Column
<1>1. ASSUME NEW m \in NamesOf(N)
      PROVE  /\ yamlSingleQuote(m) \in ItemsIn(N) /\ yamlSingleQuote(m).column = Column
             /\ ClashReads(yamlSingleQuote(m)) = m /\ Trimmed(yamlSingleQuote(m)) = Doubled(m)
  <2> DEFINE l == Item(Doubled(m), "single", Column)
  <2>1. /\ l \in ItemsIn(N) /\ l.name = Doubled(m) /\ l.style = "single"
        /\ l.column = Column /\ l.comment = FALSE
    <3>1. Doubled(m) \in NamesOf(N) /\ "single" \in Styles /\ Column \in Nat
          BY NameFacts DEF Styles, Column
    <3> HIDE DEF Column
    <3>2. \A q \in Styles, c \in Nat :
            LET k == Item(Doubled(m), q, c)
            IN  /\ k \in ItemsIn(N) /\ k.name = Doubled(m) /\ k.style = q
                /\ k.column = c /\ k.comment = FALSE
      <4> SUFFICES ASSUME NEW q \in Styles, NEW c \in Nat
                   PROVE  /\ Item(Doubled(m), q, c) \in ItemsIn(N)
                          /\ Item(Doubled(m), q, c).name = Doubled(m)
                          /\ Item(Doubled(m), q, c).style = q
                          /\ Item(Doubled(m), q, c).column = c
                          /\ Item(Doubled(m), q, c).comment = FALSE
          OBVIOUS
      <4>1. Item(Doubled(m), q, c) \in ItemsIn(N)
            BY <3>1, ItemFacts, Zenon
      <4>2. Item(Doubled(m), q, c) =
              [kind |-> "item", group |-> NoName.node, name |-> Doubled(m), style |-> q,
               comment |-> FALSE, column |-> c]
            BY DEF Item
      <4> QED BY <4>1, <4>2
    <3> QED BY <3>1, <3>2
  <2>2. yamlSingleQuote(m) = l
        BY DEF yamlSingleQuote
  <2> HIDE DEF l
  <2>3. ClashReads(l) = Halved(Doubled(m)) /\ Trimmed(l) = Doubled(m)
        BY <2>1 DEF ClashReads, Trimmed
  <2> QED BY <2>1, <2>2, <2>3, NameFacts
<1>2. ASSUME NEW l \in ItemsIn(N)
      PROVE  Trimmed(l) \in NamesOf(N) /\ ClashReads(l) \in NamesOf(N)
  <2>1. l.name \in NamesOf(N) /\ l.style \in Styles /\ l.comment \in BOOLEAN
        BY DEF ItemsIn, LinesOf
  <2>2. l.style \in Remarks
        BY <2>1 DEF Styles, Remarks
  <2>3. /\ l.name = [node |-> l.name.node, quotes |-> l.name.quotes, remark |-> l.name.remark]
        /\ l.name.node \in N /\ l.name.quotes \in Nat
        BY <2>1 DEF NamesOf
  <2>4. Trimmed(l) \in NamesOf(N)
    <3>1. CASE ~l.comment
          BY <3>1, <2>1 DEF Trimmed
    <3>2. CASE l.comment /\ l.style = "single"
      <4>1. Trimmed(l) = [node |-> l.name.node, quotes |-> l.name.quotes + 1, remark |-> l.style]
            BY <3>2 DEF Trimmed
      <4> QED BY <4>1, <2>2, <2>3 DEF NamesOf
    <3>3. CASE l.comment /\ l.style # "single"
      <4>1. Trimmed(l) = [node |-> l.name.node, quotes |-> l.name.quotes + 0, remark |-> l.style]
            BY <3>3 DEF Trimmed
      <4> QED BY <4>1, <2>2, <2>3 DEF NamesOf
    <3> QED BY <3>1, <3>2, <3>3, <2>1
  <2>5. ClashReads(l) \in NamesOf(N)
        BY <2>1, NameFacts DEF ClashReads
  <2> QED BY <2>4, <2>5
<1> QED BY <1>1, <1>2 DEF Quoted, Trim, Clash

LEMMA InSeq ==
    ASSUME NEW T, NEW s \in Seq(T), NEW U, ToSet(s) \subseteq U
    PROVE  s \in Seq(U)
<1>1. DOMAIN s = 1 .. Len(s) /\ Len(s) \in Nat /\ s \in [1 .. Len(s) -> T]
      BY LenProperties
<1>2. \A i \in 1 .. Len(s) : s[i] \in U
      BY <1>1 DEF ToSet
<1>3. s \in [1 .. Len(s) -> U]
      BY <1>1, <1>2
<1> QED BY <1>1, <1>3, SeqDef

(* What is kept of s, and what is written of a list of names.              *)
LEMMA WithoutIn ==
    ASSUME NEW T, NEW s \in Seq(T), NEW e
    PROVE  Without(s, e) \in Seq(T) /\ ToSet(Without(s, e)) = ToSet(s) \ {e}
<1>1. /\ Within(s, ToSet(s) \ {e}) \in Seq(T)
      /\ ToSet(Within(s, ToSet(s) \ {e})) = ToSet(s) \cap (ToSet(s) \ {e})
      BY WithinFacts
<1> QED BY <1>1 DEF Without

LEMMA WithoutTwice ==
    ASSUME NEW T, NEW s \in Seq(T), NEW a, NEW b
    PROVE  Without(Without(s, a), b) = Within(s, ToSet(s) \ {a, b})
<1> DEFINE A == ToSet(s) \ {a}
<1> DEFINE w == Without(s, a)
<1>1. w \in Seq(T) /\ ToSet(w) = A /\ w = Within(s, A)
      BY WithoutIn DEF Without
<1>2. Without(w, b) = Within(w, A \ {b})
      BY <1>1 DEF Without
<1>3. Within(Within(s, A), A \ {b}) = Within(s, A \cap (A \ {b}))
      BY WithinTwice
<1>4. A \cap (A \ {b}) = ToSet(s) \ {a, b}
      OBVIOUS
<1> HIDE DEF A, w
<1>5. Within(w, A \ {b}) = Within(s, A \cap (A \ {b}))
      BY <1>1, <1>3
<1> QED BY <1>2, <1>4, <1>5 DEF w

LEMMA RenamedAt ==
    ASSUME NEW T, NEW s \in Seq(T), NEW F
    PROVE  \A i \in 1 .. Len(s) : Renamed(s, F)[i] = F[s[i]]
  BY LenProperties DEF Renamed

LEMMA WrittenIs ==
    ASSUME NEW N, NoName \in NamesOf(N), NEW names \in Seq(NamesOf(N))
    PROVE  /\ Without(names, NoName) \in Seq(NamesOf(N))
           /\ Written(names) = Renamed(Without(names, NoName), Quoted(N))
           /\ Written(names) \in Seq(ItemsIn(N))
           /\ \A i \in 1 .. Len(Written(names)) : Written(names)[i].column = Column
<1> DEFINE kept == Without(names, NoName)
<1>1. kept \in Seq(NamesOf(N))
      BY WithoutIn
<1>2. Written(names) = [i \in DOMAIN kept |-> yamlSingleQuote(kept[i])]
      BY DEF Written
<1> HIDE DEF kept
<1>3. \A i \in DOMAIN kept : kept[i] \in NamesOf(N)
      BY <1>1, LenProperties, ElementOfSeq
<1>4. [i \in DOMAIN kept |-> yamlSingleQuote(kept[i])] = Renamed(kept, Quoted(N))
      BY <1>3 DEF Renamed, Quoted
<1> DEFINE w == Renamed(kept, Quoted(N))
<1>5. /\ w \in Seq(ItemsIn(N)) /\ Len(w) = Len(kept)
      /\ \A i \in 1 .. Len(kept) : w[i] = Quoted(N)[kept[i]]
  <2>1. Quoted(N) \in [NamesOf(N) -> ItemsIn(N)]
        BY ReadingFacts
  <2>2. w \in Seq(ItemsIn(N)) /\ Len(w) = Len(kept)
    <3>1. DOMAIN kept = 1 .. Len(kept) /\ Len(kept) \in Nat
          BY <1>1, LenProperties
    <3>2. w \in [1 .. Len(kept) -> ItemsIn(N)]
          BY <1>3, <2>1, <3>1 DEF Renamed
    <3> QED BY <3>1, <3>2
  <2>3. \A i \in 1 .. Len(kept) : w[i] = Quoted(N)[kept[i]]
        BY <1>1, RenamedAt
  <2> QED BY <2>2, <2>3
<1> HIDE DEF w
<1>6. \A i \in 1 .. Len(w) : w[i].column = Column
      BY <1>1, <1>5, ReadingFacts, ElementOfSeq
<1> QED BY <1>1, <1>2, <1>4, <1>5, <1>6 DEF kept, w

(* The lines of a located list, their items, and the names in them.        *)
LEMMA ListLinesAre ==
    ASSUME NEW N, NEW t \in Seq(LinesOf(N)), NEW g, NEW s, NEW p, NEW e, Located(t, g, s, p, e)
    PROVE  /\ HasList(t, g) /\ ListAt(t, g) = p
           /\ ListLines(t, g) \in Seq(LinesOf(N)) /\ Len(ListLines(t, g)) = e - p - 1
           /\ \A i \in 1 .. e - p - 1 : ListLines(t, g)[i] = t[p + i]
<1> DEFINE listed == SubSeq(t, p + 1, e - 1)
<1>1. /\ Len(t) \in Nat /\ p \in Nat /\ e \in Nat /\ p < e /\ e <= Len(t) + 1
      /\ \A i \in 1 .. Len(t) : t[i] \in LinesOf(N)
  <2>1. Len(t) \in Nat /\ \A i \in 1 .. Len(t) : t[i] \in LinesOf(N)
        BY LenProperties, ElementOfSeq
  <2>2. s \in 1 .. Len(t) /\ e \in s + 1 .. Len(t) + 1 /\ p \in s + 1 .. e - 1
        BY Zenon DEF Located, Block
  <2> QED BY <2>1, <2>2
<1>2. \A i \in p + 1 .. e - 1 : t[i] \in LinesOf(N)
      BY <1>1
<1>3. /\ listed \in Seq(LinesOf(N)) /\ Len(listed) = e - p - 1
      /\ \A i \in 1 .. e - p - 1 : listed[i] = t[p + i]
  <2>1. p + 1 \in Int /\ e - 1 \in Int
        BY <1>1
  <2>2. /\ listed \in Seq(LinesOf(N))
        /\ Len(listed) = IF p + 1 <= e - 1 THEN (e - 1) - (p + 1) + 1 ELSE 0
        /\ \A i \in 1 .. (e - 1) - (p + 1) + 1 : listed[i] = t[(p + 1) + i - 1]
        BY <1>2, <2>1, SubSeqProperties
  <2> HIDE DEF listed
  <2>3. (e - 1) - (p + 1) + 1 = e - p - 1
        BY <1>1
  <2>4. \A i \in 1 .. e - p - 1 : (p + 1) + i - 1 = p + i
        BY <1>1
  <2>5. Len(listed) = e - p - 1
        BY <2>2, <1>1
  <2>6. \A i \in 1 .. e - p - 1 : i \in 1 .. (e - 1) - (p + 1) + 1
        BY <2>3
  <2> QED BY <2>2, <2>4, <2>5, <2>6
<1>4. HasList(t, g) /\ ListAt(t, g) = p /\ ListEnd(t, g) = e
      BY LocatedIs
<1>5. ListLines(t, g) = listed
      BY <1>4 DEF ListLines
<1> HIDE DEF listed
<1> QED BY <1>3, <1>4, <1>5, Zenon

LEMMA ItemsAre ==
    ASSUME NEW N, NoName \in NamesOf(N), NEW lines \in Seq(LinesOf(N))
    PROVE  /\ ItemsOf(lines) = Within(lines, ItemsIn(N)) /\ ItemsOf(lines) \in Seq(ItemsIn(N))
           /\ NamesIn(ItemsOf(lines)) = Renamed(ItemsOf(lines), Trim(N))
           /\ NamesIn(ItemsOf(lines)) \in Seq(NamesOf(N))
<1> DEFINE S == {l \in ToSet(lines) : l.kind = "item"}
<1>1. ItemsOf(lines) = Within(lines, S)
      BY DEF ItemsOf
<1>2. ToSet(lines) \subseteq LinesOf(N)
      BY LenProperties, ElementOfSeq DEF ToSet
<1>3. ToSet(lines) \cap S = ToSet(lines) \cap ItemsIn(N)
      BY <1>2 DEF ItemsIn
<1> HIDE DEF S
<1>4. Within(lines, S) = Within(lines, ItemsIn(N))
      BY <1>3, WithinSame
<1> DEFINE items == ItemsOf(lines)
<1>5. items \in Seq(ItemsIn(N))
  <2>1. /\ Within(lines, ItemsIn(N)) \in Seq(LinesOf(N))
        /\ ToSet(Within(lines, ItemsIn(N))) \subseteq ItemsIn(N)
        BY WithinFacts
  <2> QED BY <2>1, <1>1, <1>4, InSeq
<1>6. NamesIn(items) = [i \in DOMAIN items |-> Trimmed(items[i])]
      BY DEF NamesIn
<1>7. \A i \in DOMAIN items : items[i] \in ItemsIn(N)
      BY <1>5, LenProperties, ElementOfSeq
<1>8. [i \in DOMAIN items |-> Trimmed(items[i])] = Renamed(items, Trim(N))
      BY <1>7 DEF Renamed, Trim
<1>9. Renamed(items, Trim(N)) \in Seq(NamesOf(N))
      BY <1>5, ReadingFacts, RenamedFacts
<1> QED BY <1>1, <1>4, <1>5, <1>6, <1>8, <1>9

-----------------------------------------------------------------------------
(* What a switch makes of a located list: the lines before and after stay, *)
(* and the list is what is written.                                        *)
Edited(t, p, e, w) == SubSeq(t, 1, p) \o w \o SubSeq(t, e, Len(t))

LEMMA EditedFacts ==
    ASSUME NEW N, NEW t \in Seq(LinesOf(N)), NEW g, NEW s, NEW p, NEW e, Located(t, g, s, p, e),
           NEW w \in Seq(ItemsIn(N))
    PROVE  LET u == Edited(t, p, e, w)
               f == p + Len(w) + 1
           IN  /\ u \in Seq(LinesOf(N))
               /\ Spliced(t, u, p, e, f)
               /\ \A i \in 1 .. Len(w) : u[p + i] = w[i]
               /\ Located(u, g, s, p, f)
<1> DEFINE n == Len(w)
<1> DEFINE m == Len(t)
<1> DEFINE a == SubSeq(t, 1, p)
<1> DEFINE z == SubSeq(t, e, m)
<1>1. /\ \A i \in 1 .. Len(t) : t[i] \in LinesOf(N)
      /\ \A i \in 1 .. Len(w) : w[i] \in ItemsIn(N)
      BY ElementOfSeq
<1>2. Len(t) \in Nat /\ Len(w) \in Nat
      BY LenProperties
<1>3. /\ s \in 1 .. Len(t) /\ e \in s + 1 .. Len(t) + 1 /\ p \in s + 1 .. e - 1
      /\ \A i \in s + 1 .. e - 1 : t[i].kind \notin {"group", "key"}
      /\ e # Len(t) + 1 => t[e].kind \in {"group", "key"}
      /\ t[s] = Group(g) /\ \A i \in 1 .. s - 1 : t[i] # Group(g)
      /\ t[p].kind = "proxies" /\ \A i \in s + 1 .. p - 1 : t[i].kind # "proxies"
      BY DEF Located, Block
<1>N. /\ m \in Nat /\ n \in Nat /\ s \in Nat /\ p \in Nat /\ e \in Nat
      /\ 1 <= s /\ s + 1 <= p /\ p <= e - 1 /\ e <= m + 1 /\ s <= m
  <2>1. s \in 1 .. m /\ e \in s + 1 .. m + 1 /\ p \in s + 1 .. e - 1
        BY <1>3, Zenon
  <2> QED BY <1>2, <2>1
<1>4. w \in Seq(LinesOf(N))
  <2>1. ItemsIn(N) \subseteq LinesOf(N)
        BY DEF ItemsIn
  <2> QED BY <2>1, SeqMonotonic
<1> HIDE DEF m, n
<1>5. /\ a \in Seq(LinesOf(N)) /\ Len(a) = p /\ \A i \in 1 .. p : a[i] = t[i]
  <2>1. \A i \in 1 .. p : t[i] \in LinesOf(N)
        BY <1>1, <1>N DEF m
  <2>2. /\ a \in Seq(LinesOf(N)) /\ Len(a) = (IF 1 <= p THEN p - 1 + 1 ELSE 0)
        /\ \A i \in 1 .. p - 1 + 1 : a[i] = t[1 + i - 1]
        BY <1>N, <2>1, SubSeqProperties
  <2> HIDE DEF a
  <2>3. \A i \in 1 .. p : i \in 1 .. p - 1 + 1 /\ 1 + i - 1 = i
        BY <1>N
  <2>4. Len(a) = p
        BY <2>2, <1>N
  <2> QED BY <2>2, <2>3, <2>4
<1>6. /\ z \in Seq(LinesOf(N)) /\ Len(z) = m - e + 1
      /\ \A k \in 0 .. m - e : z[k + 1] = t[e + k]
  <2>1. \A i \in e .. m : t[i] \in LinesOf(N)
        BY <1>1, <1>N DEF m
  <2>2. /\ z \in Seq(LinesOf(N)) /\ Len(z) = (IF e <= m THEN m - e + 1 ELSE 0)
        /\ \A i \in 1 .. m - e + 1 : z[i] = t[e + i - 1]
        BY <1>N, <2>1, SubSeqProperties
  <2> HIDE DEF z
  <2>3. \A k \in 0 .. m - e : k + 1 \in 1 .. m - e + 1 /\ e + (k + 1) - 1 = e + k
        BY <1>N
  <2>4. Len(z) = m - e + 1
        BY <2>2, <1>N
  <2>5. ASSUME NEW k \in 0 .. m - e PROVE z[k + 1] = t[e + k]
        BY <2>2, <2>3
  <2> QED BY <2>2, <2>4, <2>5
<1> HIDE DEF a, z
<1> DEFINE b == a \o w
<1>7. /\ b \in Seq(LinesOf(N)) /\ Len(b) = p + n
      /\ \A i \in 1 .. p + n : b[i] = IF i <= p THEN a[i] ELSE w[i - p]
      BY <1>4, <1>5, ConcatProperties DEF n
<1> HIDE DEF b
<1> DEFINE u == b \o z
<1>8. /\ u \in Seq(LinesOf(N)) /\ Len(u) = p + n + (m - e + 1)
      /\ \A i \in 1 .. p + n + (m - e + 1) : u[i] = IF i <= p + n THEN b[i] ELSE z[i - (p + n)]
  <2>1. /\ u \in Seq(LinesOf(N)) /\ Len(u) = Len(b) + Len(z)
        /\ \A i \in 1 .. Len(b) + Len(z) : u[i] = IF i <= Len(b) THEN b[i] ELSE z[i - Len(b)]
        BY <1>6, <1>7, ConcatProperties
  <2> HIDE DEF u
  <2>2. Len(b) = p + n /\ Len(z) = m - e + 1
        BY <1>6, <1>7
  <2> QED BY <2>1, <2>2
<1>9. u = Edited(t, p, e, w)
      BY DEF Edited, u, b, a, z, m
<1> HIDE DEF u
<1> DEFINE f == p + n + 1
<1>10. \A i \in 1 .. p : u[i] = t[i]
  <2>1. \A i \in 1 .. p : i \in 1 .. p + n + (m - e + 1) /\ i \in 1 .. p + n /\ i <= p + n /\ i <= p
        BY <1>N
  <2> QED BY <2>1, <1>5, <1>7, <1>8
<1>11. \A i \in 1 .. n : u[p + i] = w[i]
  <2>1. \A i \in 1 .. n : /\ p + i \in 1 .. p + n + (m - e + 1) /\ p + i \in 1 .. p + n
                          /\ p + i <= p + n /\ ~(p + i <= p) /\ (p + i) - p = i
        BY <1>N
  <2> QED BY <2>1, <1>7, <1>8
<1>12. \A k \in 0 .. m - e : u[f + k] = t[e + k]
  <2>1. \A k \in 0 .. m - e : /\ f + k \in 1 .. p + n + (m - e + 1) /\ ~(f + k <= p + n)
                              /\ (f + k) - (p + n) = k + 1
        BY <1>N
  <2> QED BY <2>1, <1>6, <1>8
<1>13. /\ f \in Nat /\ p + 1 <= f /\ f <= Len(u) + 1 /\ m - e = Len(u) - f /\ Len(u) \in Nat
  <2>1. /\ m \in Nat /\ n \in Nat /\ p \in Nat /\ e \in Nat /\ e <= m + 1
        BY <1>N, Zenon
  <2>2. Len(u) = p + n + (m - e + 1)
        BY <1>8
  <2> QED BY <2>1, <2>2
<1> HIDE DEF f
<1>14. Spliced(t, u, p, e, f)
  <2>1. p \in Nat /\ e \in p + 1 .. m + 1 /\ f \in p + 1 .. Len(u) + 1
        BY <1>N, <1>13
  <2> QED BY <2>1, <1>10, <1>12, <1>13 DEF Spliced, m
<1>15. Located(u, g, s, p, f)
  <2>1. ASSUME NEW i \in s + 1 .. f - 1 PROVE u[i].kind \notin {"group", "key"}
    <3>1. CASE i <= p
      <4>1. i \in 1 .. p /\ i \in s + 1 .. e - 1
            BY <3>1, <1>N
      <4> QED BY <4>1, <1>3, <1>10
    <3>2. CASE i > p
      <4>1. i - p \in 1 .. n /\ p + (i - p) = i
            BY <3>2, <1>N, <1>13 DEF f
      <4>2. u[i] = w[i - p]
            BY <4>1, <1>11
      <4>3. w[i - p] \in ItemsIn(N)
            BY <4>1, <1>1 DEF n
      <4> QED BY <4>2, <4>3 DEF ItemsIn
    <3> QED BY <3>1, <3>2, <1>N, <1>13
  <2>2. ASSUME f # Len(u) + 1 PROVE u[f].kind \in {"group", "key"}
    <3>1. e # m + 1 /\ 0 \in 0 .. m - e /\ e + 0 = e /\ f + 0 = f
          BY <2>2, <1>13, <1>N
    <3>2. t[e].kind \in {"group", "key"}
          BY <3>1, <1>3 DEF m
    <3>3. u[f] = t[e]
          BY <3>1, <1>12
    <3> QED BY <3>2, <3>3
  <2>3. s \in 1 .. Len(u) /\ f \in s + 1 .. Len(u) + 1 /\ p \in s + 1 .. f - 1
        BY <1>13, <1>N
  <2>4. /\ s \in 1 .. p /\ p \in 1 .. p /\ \A i \in 1 .. s - 1 : i \in 1 .. p
        /\ \A i \in s + 1 .. p - 1 : i \in 1 .. p
        BY <1>N
  <2>5. Block(u, s, f)
        BY <2>1, <2>2, <2>3 DEF Block
  <2> QED BY <1>3, <1>10, <2>3, <2>4, <2>5 DEF Located
<1> QED BY <1>8, <1>9, <1>11, <1>14, <1>15 DEF f, n

Undoes(C, Q, A, B) == Q \in [A -> B] /\ C \in [B -> A] /\ \A m \in A : C[Q[m]] = m

LEMMA RenamedBack ==
    ASSUME NEW A, NEW B, NEW Q, NEW C, Undoes(C, Q, A, B), NEW names \in Seq(A)
    PROVE  Renamed(Renamed(names, Q), C) = names
<1>1. Q \in [A -> B]
      BY DEF Undoes
<1>2. C \in [B -> A]
      BY DEF Undoes
<1> DEFINE w == Renamed(names, Q)
<1>3. w \in Seq(B) /\ Len(w) = Len(names)
      BY <1>1, RenamedFacts
<1>4. \A i \in 1 .. Len(names) : w[i] = Q[names[i]]
      BY RenamedAt
<1> HIDE DEF w
<1>5. Renamed(w, C) \in Seq(A) /\ Len(Renamed(w, C)) = Len(w)
      BY <1>2, <1>3, RenamedFacts
<1>6. \A i \in 1 .. Len(w) : Renamed(w, C)[i] = C[w[i]]
      BY <1>3, RenamedAt
<1>7. \A i \in 1 .. Len(names) : Renamed(w, C)[i] = names[i]
      BY <1>3, <1>4, <1>6, ElementOfSeq DEF Undoes
<1>8. Renamed(w, C) = names
      BY <1>3, <1>5, <1>7, SeqEqual
<1> QED BY <1>8 DEF w

(* Clash reads the names of a list as they were before they were written.  *)
LEMMA Reread ==
    ASSUME NEW N, NoName \in NamesOf(N), NEW names \in Seq(NamesOf(N))
    PROVE  Renamed(Renamed(names, Quoted(N)), Clash(N)) = names
<1>1. Undoes(Clash(N), Quoted(N), NamesOf(N), ItemsIn(N))
      BY ReadingFacts DEF Undoes
<1> QED BY <1>1, RenamedBack

LEMMA ItemsAll ==
    ASSUME NEW N, NoName \in NamesOf(N), NEW w \in Seq(ItemsIn(N))
    PROVE  w \in Seq(LinesOf(N)) /\ ItemsOf(w) = w
<1>1. w \in Seq(LinesOf(N))
  <2>1. ItemsIn(N) \subseteq LinesOf(N)
        BY DEF ItemsIn
  <2> QED BY <2>1, SeqMonotonic
<1>2. ToSet(w) \subseteq ItemsIn(N)
      BY LenProperties, ElementOfSeq DEF ToSet
<1>3. Within(w, ItemsIn(N)) = w
      BY <1>1, <1>2, WithinAll
<1> QED BY <1>1, <1>3, ItemsAre

LEMMA ReorderedIn ==
    ASSUME NEW N, NEW names \in Seq(NamesOf(N)), NEW name \in NamesOf(N)
    PROVE  /\ Reordered(names, name) = <<name>> \o Without(names, name)
           /\ Reordered(names, name) \in Seq(NamesOf(N))
<1>1. Without(names, name) \in Seq(NamesOf(N))
      BY WithoutIn
<1>2. Reordered(names, name) = <<name>> \o Without(names, name)
      BY Zenon DEF Reordered
<1>3. <<name>> \in Seq(NamesOf(N))
      OBVIOUS
<1> DEFINE one == <<name>>
<1> HIDE DEF one
<1>4. one \o Without(names, name) \in Seq(NamesOf(N))
      BY <1>1, <1>3, ConcatProperties DEF one
<1> QED BY <1>2, <1>4 DEF one

(* A switch that is not refused edits the list of a group that is there.   *)
LEMMA SwitchEdits ==
    ASSUME NEW N, NoName \in NamesOf(N), NEW t \in Seq(LinesOf(N)), NEW g,
           NEW name \in NamesOf(N), SwitchBootstrapInGroups(t, g, name) # Refused
    PROVE  LET names == extractBootstrapCandidates(t, g)
           IN  \E s, p, e :
                 /\ Located(t, g, s, p, e)
                 /\ names \in Seq(NamesOf(N)) /\ Contains(names, name)
                 /\ names = Renamed(ItemsOf(ListLines(t, g)), Trim(N))
                 /\ Written(Reordered(names, name)) \in Seq(ItemsIn(N))
                 /\ SwitchBootstrapInGroups(t, g, name) =
                      Edited(t, p, e, Written(Reordered(names, name)))
<1> DEFINE names == extractBootstrapCandidates(t, g)
<1>1. Contains(names, name)
      BY DEF SwitchBootstrapInGroups
<1>2. SwitchBootstrapInGroups(t, g, name) =
        Edited(t, ListAt(t, g), ListEnd(t, g), Written(Reordered(names, name)))
      BY <1>1, Zenon DEF SwitchBootstrapInGroups, Edited
<1>3. HasList(t, g)
  <2> SUFFICES ASSUME ~HasList(t, g) PROVE FALSE
      OBVIOUS
  <2>1. names = <<>>
        BY DEF extractBootstrapCandidates
  <2> QED BY <1>1, <2>1 DEF Contains
<1>4. PICK s : Located(t, g, s, ListAt(t, g), ListEnd(t, g))
      BY <1>3, HasLocated
<1>5. names \in Seq(NamesOf(N)) /\ names = Renamed(ItemsOf(ListLines(t, g)), Trim(N))
  <2>1. ListLines(t, g) \in Seq(LinesOf(N))
        BY <1>4, ListLinesAre
  <2>2. names = NamesIn(ItemsOf(ListLines(t, g)))
        BY <1>3 DEF extractBootstrapCandidates
  <2> QED BY <2>1, <2>2, ItemsAre
<1> HIDE DEF names
<1>6. Written(Reordered(names, name)) \in Seq(ItemsIn(N))
      BY <1>5, ReorderedIn, WrittenIs
<1> QED BY <1>1, <1>2, <1>4, <1>5, <1>6, Zenon DEF names

(* Where no line leaves the list Clash finds every item of it.             *)
LEMMA ClashPartIs ==
    ASSUME NEW N, NEW lines \in Seq(LinesOf(N)), NEW column,
           \A i \in DOMAIN lines : ~LeavesList(lines[i], column)
    PROVE  ClashPart(lines, column) = lines
<1>1. {i \in DOMAIN lines : LeavesList(lines[i], column)} = {}
      OBVIOUS
<1> DEFINE m == Len(lines) + 1
<1>2. Len(lines) \in Nat /\ m \in Nat /\ m - 1 = Len(lines)
      BY LenProperties
<1>3. ClashPart(lines, column) = SubSeq(lines, 1, Min({} \cup {m}) - 1)
      BY <1>1, Zenon DEF ClashPart
<1> HIDE DEF m
<1>4. {} \cup {m} \subseteq Nat /\ m \in {} \cup {m} /\ \A y \in {} \cup {m} : m <= y
      BY <1>2
<1>5. Min({} \cup {m}) = m
      BY <1>4, MinIs
<1> QED BY <1>2, <1>3, <1>5, SubSeqFull

LEMMA ClashListIs ==
    ASSUME NEW N, NoName \in NamesOf(N), NEW t \in Seq(LinesOf(N)), NEW g,
           NEW s, NEW p, NEW e, Located(t, g, s, p, e),
           \A i \in DOMAIN ListLines(t, g) : ~LeavesList(ListLines(t, g)[i], t[p].column)
    PROVE  /\ ClashLists(t, g) = Without(Renamed(ItemsOf(ListLines(t, g)), Clash(N)), NoName)
           /\ ItemsOf(ListLines(t, g)) \in Seq(ItemsIn(N))
<1> DEFINE lines == ListLines(t, g)
<1> DEFINE items == ItemsOf(lines)
<1>1. HasList(t, g) /\ ListAt(t, g) = p /\ lines \in Seq(LinesOf(N))
      BY ListLinesAre
<1>2. ClashPart(lines, t[p].column) = lines
      BY <1>1, ClashPartIs
<1> HIDE DEF lines
<1>3. items \in Seq(ItemsIn(N))
      BY <1>1, ItemsAre
<1>4. ClashLists(t, g) = Without([i \in DOMAIN items |-> ClashReads(items[i])], NoName)
      BY <1>1, <1>2 DEF ClashLists, lines
<1> HIDE DEF items
<1>5. \A i \in DOMAIN items : items[i] \in ItemsIn(N)
      BY <1>3, LenProperties, ElementOfSeq
<1>6. [i \in DOMAIN items |-> ClashReads(items[i])] = Renamed(items, Clash(N))
      BY <1>5 DEF Renamed, Clash
<1> QED BY <1>3, <1>4, <1>6 DEF items, lines

LEMMA ClashFindsNone ==
    ASSUME NEW t, NEW u, NEW g, ~HasList(t, g), ~HasList(u, g)
    PROVE  ClashLists(t, g) = ClashLists(u, g)
  BY DEF ClashLists

LEMMA ClashFindsTheSame ==
    ASSUME NEW N, NEW t \in Seq(LinesOf(N)), NEW u \in Seq(LinesOf(N)), NEW g,
           NEW s, NEW p, NEW x, Located(t, g, s, p, x),
           NEW s1, NEW p1, NEW x1, Located(u, g, s1, p1, x1),
           SameBetween(t, p, x, u, p1, x1)
    PROVE  ClashLists(u, g) = ClashLists(t, g)
<1>1. /\ HasList(t, g) /\ ListAt(t, g) = p
      /\ ListLines(t, g) \in Seq(LinesOf(N)) /\ Len(ListLines(t, g)) = x - p - 1
      /\ \A i \in 1 .. x - p - 1 : ListLines(t, g)[i] = t[p + i]
      BY ListLinesAre
<1>2. /\ HasList(u, g) /\ ListAt(u, g) = p1
      /\ ListLines(u, g) \in Seq(LinesOf(N)) /\ Len(ListLines(u, g)) = x1 - p1 - 1
      /\ \A i \in 1 .. x1 - p1 - 1 : ListLines(u, g)[i] = u[p1 + i]
      BY ListLinesAre
<1>3. /\ p \in Nat /\ x \in Nat /\ p1 \in Nat /\ x1 \in Nat
      /\ x1 - p1 - 1 = x - p - 1 /\ \A k \in 0 .. x - p - 1 : u[p1 + k] = t[p + k]
      BY DEF SameBetween
<1>4. p <= x - 1
      BY DEF Located, Block
<1>5. u[p1] = t[p]
  <2>1. 0 \in 0 .. x - p - 1 /\ p1 + 0 = p1 /\ p + 0 = p
        BY <1>3, <1>4
  <2> QED BY <2>1, <1>3
<1>6. \A i \in 1 .. x - p - 1 : i \in 0 .. x - p - 1
      BY <1>3
<1> DEFINE a == ListLines(t, g)
<1> DEFINE b == ListLines(u, g)
<1>7. Len(a) = Len(b) /\ \A i \in 1 .. Len(a) : a[i] = b[i]
  <2>1. Len(a) = x - p - 1 /\ \A i \in 1 .. x - p - 1 : a[i] = t[p + i]
        BY <1>1
  <2>2. Len(b) = x - p - 1 /\ \A i \in 1 .. x - p - 1 : b[i] = u[p1 + i]
        BY <1>2, <1>3
  <2> HIDE DEF a, b
  <2>3. \A i \in 1 .. x - p - 1 : a[i] = b[i]
        BY <2>1, <2>2, <1>3, <1>6
  <2> QED BY <2>1, <2>2, <2>3
<1>8. a \in Seq(LinesOf(N)) /\ b \in Seq(LinesOf(N))
      BY <1>1, <1>2
<1> HIDE DEF a, b
<1>9. a = b
      BY <1>7, <1>8, SeqEqual
<1>10. ListLines(t, g) = ListLines(u, g)
       BY <1>9 DEF a, b
<1> QED BY <1>1, <1>2, <1>5, <1>10, Zenon DEF ClashLists

-----------------------------------------------------------------------------
(* A switch as an edit: what it is, where, and how the edited text is read.*)
Edits(N, t, u, g, w, s, p, e, f) ==
    /\ u \in Seq(LinesOf(N)) /\ w \in Seq(ItemsIn(N))
    /\ Located(t, g, s, p, e) /\ Located(u, g, s, p, f) /\ Spliced(t, u, p, e, f)
    /\ u = Edited(t, p, e, w) /\ ListLines(u, g) = w

LEMMA LinesWritten ==
    ASSUME NEW N, NoName \in NamesOf(N), NEW u \in Seq(LinesOf(N)), NEW g, NEW s, NEW p,
           NEW w \in Seq(ItemsIn(N)), Located(u, g, s, p, p + Len(w) + 1), p \in Nat,
           \A i \in 1 .. Len(w) : u[p + i] = w[i]
    PROVE  ListLines(u, g) = w
<1> DEFINE e == p + Len(w) + 1
<1>2. Len(w) \in Nat /\ e - p - 1 = Len(w) /\ Located(u, g, s, p, e)
      BY LenProperties
<1> HIDE DEF e
<1>1. /\ ListLines(u, g) \in Seq(LinesOf(N)) /\ Len(ListLines(u, g)) = e - p - 1
      /\ \A i \in 1 .. e - p - 1 : ListLines(u, g)[i] = u[p + i]
      BY <1>2, ListLinesAre
<1>3. w \in Seq(LinesOf(N))
      BY ItemsAll
<1> QED BY <1>1, <1>2, <1>3, SeqEqual

LEMMA SwitchIs ==
    ASSUME NEW N, NoName \in NamesOf(N), NEW t \in Seq(LinesOf(N)), NEW g,
           NEW name \in NamesOf(N), NEW u,
           u = SwitchBootstrapInGroups(t, g, name), u # Refused
    PROVE  LET names == extractBootstrapCandidates(t, g)
           IN  /\ names \in Seq(NamesOf(N)) /\ Contains(names, name)
               /\ names = Renamed(ItemsOf(ListLines(t, g)), Trim(N))
               /\ \E s, p, e, f : Edits(N, t, u, g, Written(Reordered(names, name)), s, p, e, f)
<1> DEFINE names == extractBootstrapCandidates(t, g)
<1> DEFINE w == Written(Reordered(names, name))
<1>1. PICK s, p, e :
        /\ Located(t, g, s, p, e)
        /\ names \in Seq(NamesOf(N)) /\ Contains(names, name)
        /\ names = Renamed(ItemsOf(ListLines(t, g)), Trim(N))
        /\ w \in Seq(ItemsIn(N))
        /\ u = Edited(t, p, e, w)
      BY SwitchEdits
<1> HIDE DEF names, w
<1> DEFINE f == p + Len(w) + 1
<1>2. /\ Edited(t, p, e, w) \in Seq(LinesOf(N))
      /\ Spliced(t, Edited(t, p, e, w), p, e, f)
      /\ \A i \in 1 .. Len(w) : Edited(t, p, e, w)[p + i] = w[i]
      /\ Located(Edited(t, p, e, w), g, s, p, f)
      BY <1>1, EditedFacts
<1>3. /\ u \in Seq(LinesOf(N)) /\ Spliced(t, u, p, e, f) /\ Located(u, g, s, p, f)
      /\ \A i \in 1 .. Len(w) : u[p + i] = w[i]
      BY <1>1, <1>2
<1>4. p \in Nat
      BY <1>3 DEF Spliced
<1>5. ListLines(u, g) = w
      BY <1>1, <1>3, <1>4, LinesWritten, ZenonT(90)
<1> HIDE DEF f
<1>6. Edits(N, t, u, g, w, s, p, e, f)
      BY <1>1, <1>3, <1>5 DEF Edits
<1> QED BY <1>1, <1>6, Zenon DEF names, w

(* Every other group is read as it was.                                    *)
LEMMA OtherGroups ==
    ASSUME NEW N, NEW t \in Seq(LinesOf(N)), NEW u, NEW h, NEW w, NEW s, NEW p, NEW e, NEW f,
           Edits(N, t, u, h, w, s, p, e, f), NEW g, Group(g) # Group(h)
    PROVE  ClashLists(u, g) = ClashLists(t, g)
<1>1. /\ u \in Seq(LinesOf(N)) /\ Spliced(t, u, p, e, f) /\ Spliced(u, t, p, f, e)
      BY SplicedBack DEF Edits
<1>2. /\ s \in 1 .. p /\ t[s].kind = "group" /\ u[s].kind = "group"
      /\ t[s] # Group(g) /\ u[s] # Group(g)
      /\ NoHeading(t, s + 1, e - 1) /\ NoHeading(u, s + 1, f - 1)
  <2>1. /\ s \in 1 .. Len(t) /\ p \in s + 1 .. e - 1 /\ p \in Nat
        /\ t[s] = Group(h) /\ u[s] = Group(h)
        /\ NoHeading(t, s + 1, e - 1) /\ NoHeading(u, s + 1, f - 1)
        BY DEF Edits, Located, Block, NoHeading, Spliced
  <2>2. Group(h).kind = "group"
        BY DEF Group, Line
  <2>3. s \in 1 .. p
        BY <2>1
  <2> QED BY <2>1, <2>2, <2>3
<1>3. CASE HasList(t, g)
  <2>1. PICK sg, pg, xg : Located(t, g, sg, pg, xg)
        BY <1>3, HasLocated
  <2>2. PICK s1, p1, x1 :
          Located(u, g, s1, p1, x1) /\ SameBetween(t, pg, xg, u, p1, x1)
        BY <1>1, <1>2, <2>1, Moved
  <2> QED BY <1>1, <2>1, <2>2, ClashFindsTheSame
<1>4. CASE ~HasList(t, g)
  <2>1. ASSUME HasList(u, g) PROVE FALSE
    <3>1. PICK sg, pg, xg : Located(u, g, sg, pg, xg)
          BY <1>1, <2>1, HasLocated
    <3>2. PICK s1, p1, x1 : Located(t, g, s1, p1, x1)
          BY <1>1, <1>2, <3>1, Moved
    <3> QED BY <1>4, <3>2, LocatedIs
  <2> QED BY <1>4, <2>1, ClashFindsNone
<1> QED BY <1>3, <1>4

(* The headings are those before and after the list.                       *)
LEMMA WithinMiddle ==
    ASSUME NEW T, NEW a \in Seq(T), NEW c \in Seq(T), NEW z \in Seq(T), NEW K, ToSet(c) \cap K = {}
    PROVE  Within(a \o c \o z, K) = Within(a, K) \o Within(z, K)
<1> DEFINE b == a \o c
<1>1. b \in Seq(T)
      BY ConcatProperties
<1>2. Within(b, K) = Within(a, K) \o Within(c, K)
      BY WithinConcat
<1>3. Within(c, K) = <<>>
      BY WithinNone
<1>4. Within(a, K) \in Seq(T)
      BY WithinFacts
<1> DEFINE wa == Within(a, K)
<1>5. wa \o <<>> = wa
      BY <1>4, ConcatEmptySeq
<1>6. Within(b, K) = wa
      BY <1>2, <1>3, <1>5, Zenon
<1> HIDE DEF b
<1>7. Within(b \o z, K) = Within(b, K) \o Within(z, K)
      BY <1>1, WithinConcat, SMTT(40)
<1> QED BY <1>6, <1>7, Zenon DEF b

LEMMA HeadingsAre ==
    ASSUME NEW N, NEW t \in Seq(LinesOf(N))
    PROVE  Headings(t) = Within(t, {l \in LinesOf(N) : l.kind \in {"group", "key"}})
<1> DEFINE A == {l \in ToSet(t) : l.kind \in {"group", "key"}}
<1> DEFINE K == {l \in LinesOf(N) : l.kind \in {"group", "key"}}
<1>1. ToSet(t) \subseteq LinesOf(N)
      BY LenProperties, ElementOfSeq DEF ToSet
<1>2. ToSet(t) \cap A = ToSet(t) \cap K
      BY <1>1
<1>3. Headings(t) = Within(t, A)
      BY DEF Headings
<1> HIDE DEF A, K
<1>4. Within(t, A) = Within(t, K)
      BY <1>2, WithinSame
<1> QED BY <1>3, <1>4 DEF K

LEMMA HeadingsKept ==
    ASSUME NEW N, NEW t \in Seq(LinesOf(N)), NEW u, NEW h, NEW w, NEW s, NEW p, NEW e, NEW f,
           Edits(N, t, u, h, w, s, p, e, f)
    PROVE  Headings(u) = Headings(t)
<1> DEFINE a == SubSeq(t, 1, p)
<1> DEFINE c == SubSeq(t, p + 1, e - 1)
<1> DEFINE z == SubSeq(t, e, Len(t))
<1> DEFINE K == {l \in LinesOf(N) : l.kind \in {"group", "key"}}
<1>1. /\ Len(t) \in Nat /\ p \in Nat /\ e \in Nat /\ s \in Nat /\ s < p /\ p < e /\ e <= Len(t) + 1
      /\ \A i \in s + 1 .. e - 1 : t[i].kind \notin {"group", "key"}
  <2>1. Len(t) \in Nat
        BY LenProperties
  <2> QED BY <2>1 DEF Edits, Located, Block
<1>2. \A i \in 1 .. Len(t) : t[i] \in LinesOf(N)
      BY ElementOfSeq
<1>3. a \in Seq(LinesOf(N)) /\ z \in Seq(LinesOf(N))
  <2>1. (\A i \in 1 .. p : t[i] \in LinesOf(N)) /\ \A i \in e .. Len(t) : t[i] \in LinesOf(N)
        BY <1>1, <1>2
  <2> QED BY <2>1, <1>1, SubSeqProperties
<1>4. /\ c \in Seq(LinesOf(N)) /\ Len(c) = e - p - 1
      /\ \A i \in 1 .. e - p - 1 : c[i] = t[p + i]
  <2>1. \A i \in p + 1 .. e - 1 : t[i] \in LinesOf(N)
        BY <1>1, <1>2
  <2>2. p + 1 \in Int /\ e - 1 \in Int
        BY <1>1
  <2>3. /\ c \in Seq(LinesOf(N))
        /\ Len(c) = IF p + 1 <= e - 1 THEN (e - 1) - (p + 1) + 1 ELSE 0
        /\ \A i \in 1 .. (e - 1) - (p + 1) + 1 : c[i] = t[(p + 1) + i - 1]
        BY <2>1, <2>2, SubSeqProperties
  <2> HIDE DEF c
  <2>4. /\ Len(c) = e - p - 1
        /\ \A i \in 1 .. e - p - 1 : i \in 1 .. (e - 1) - (p + 1) + 1 /\ (p + 1) + i - 1 = p + i
        BY <1>1, <2>3
  <2> QED BY <2>3, <2>4
<1>5. t = a \o c \o z
  <2>1. a \o c = SubSeq(t, 1, e - 1)
    <3>1. 1 \in 1 .. Len(t) + 1 /\ p \in 1 - 1 .. Len(t) /\ e - 1 \in p .. Len(t)
          BY <1>1
    <3> QED BY <3>1, ConcatAdjacentSubSeq
  <2>2. SubSeq(t, 1, e - 1) \o SubSeq(t, (e - 1) + 1, Len(t)) = SubSeq(t, 1, Len(t))
    <3>1. 1 \in 1 .. Len(t) + 1 /\ e - 1 \in 1 - 1 .. Len(t) /\ Len(t) \in e - 1 .. Len(t)
          BY <1>1
    <3> QED BY <3>1, ConcatAdjacentSubSeq
  <2>3. (e - 1) + 1 = e
        BY <1>1
  <2>4. SubSeq(t, 1, Len(t)) = t
        BY SubSeqFull
  <2> QED BY <2>1, <2>2, <2>3, <2>4
<1>6. u = a \o w \o z /\ w \in Seq(ItemsIn(N)) /\ u \in Seq(LinesOf(N))
      BY DEF Edits, Edited
<1> HIDE DEF a, c, z
<1>7. ToSet(c) \cap K = {}
  <2> SUFFICES ASSUME NEW i \in 1 .. e - p - 1 PROVE c[i] \notin K
      BY <1>4, LenProperties DEF ToSet
  <2>1. p + i \in s + 1 .. e - 1
        BY <1>1
  <2> QED BY <2>1, <1>1, <1>4
<1>8. w \in Seq(LinesOf(N)) /\ ToSet(w) \cap K = {}
  <2>1. ItemsIn(N) \subseteq LinesOf(N)
        BY DEF ItemsIn
  <2>2. ToSet(w) \subseteq ItemsIn(N)
        BY <1>6, LenProperties, ElementOfSeq DEF ToSet
  <2>3. w \in Seq(LinesOf(N))
        BY <1>6, <2>1, SeqMonotonic
  <2> QED BY <2>2, <2>3 DEF ItemsIn, K
<1> HIDE DEF K
<1>9. Within(a \o c \o z, K) = Within(a, K) \o Within(z, K)
      BY <1>3, <1>4, <1>7, WithinMiddle, SMTT(40)
<1>10. Within(a \o w \o z, K) = Within(a, K) \o Within(z, K)
  <2>1. \A c1 \in Seq(LinesOf(N)) : ToSet(c1) \cap K = {} =>
          Within(a \o c1 \o z, K) = Within(a, K) \o Within(z, K)
        BY <1>3, WithinMiddle, SMTT(40)
  <2> QED BY <1>8, <2>1, Zenon
<1>11. Within(t, K) = Within(u, K)
      BY <1>5, <1>6, <1>9, <1>10, Zenon
<1>12. Headings(t) = Within(t, K) /\ Headings(u) = Within(u, K)
      BY <1>6, HeadingsAre DEF K
<1> QED BY <1>11, <1>12

(* The names of the list that was edited.                                  *)
LEMMA WithoutIs ==
    ASSUME NEW T, NEW s \in Seq(T), NEW e
    PROVE  Without(s, e) = Within(s, T \ {e})
<1>1. ToSet(s) \subseteq T
      BY LenProperties, ElementOfSeq DEF ToSet
<1>2. ToSet(s) \cap (ToSet(s) \ {e}) = ToSet(s) \cap (T \ {e})
      BY <1>1
<1>3. Within(s, ToSet(s) \ {e}) = Within(s, T \ {e})
      BY <1>2, WithinSame
<1> QED BY <1>3 DEF Without

LEMMA WithoutCommutes ==
    ASSUME NEW T, NEW s \in Seq(T), NEW a, NEW b
    PROVE  Without(Without(s, a), b) = Without(Without(s, b), a)
<1>1. Without(Without(s, a), b) = Within(s, ToSet(s) \ {a, b})
      BY WithoutTwice
<1>2. Without(Without(s, b), a) = Within(s, ToSet(s) \ {b, a})
      BY WithoutTwice
<1>3. ToSet(s) \ {a, b} = ToSet(s) \ {b, a}
      OBVIOUS
<1> QED BY <1>1, <1>2, <1>3, Zenon

LEMMA WithoutBehind ==
    ASSUME NEW T, NEW s \in Seq(T), NEW a \in T, NEW b, a # b
    PROVE  Without(<<a>> \o s, b) = <<a>> \o Without(s, b)
<1> DEFINE one == <<a>>
<1> DEFINE K == T \ {b}
<1>1. one \in Seq(T) /\ ToSet(one) \subseteq K
      BY DEF ToSet
<1> HIDE DEF one, K
<1>2. one \o s \in Seq(T)
      BY <1>1, ConcatProperties
<1>3. Without(one \o s, b) = Within(one \o s, K) /\ Without(s, b) = Within(s, K)
      BY <1>2, WithoutIs DEF K
<1>4. Within(one \o s, K) = Within(one, K) \o Within(s, K)
      BY <1>1, WithinConcat
<1>5. Within(one, K) = one
      BY <1>1, WithinAll
<1>6. Without(one \o s, b) = one \o Without(s, b)
      BY <1>3, <1>4, <1>5, Zenon
<1> QED BY <1>6 DEF one

LEMMA WithoutAgain ==
    ASSUME NEW T, NEW s \in Seq(T), NEW a
    PROVE  Without(Without(s, a), a) = Without(s, a)
<1>1. Without(Without(s, a), a) = Within(s, ToSet(s) \ {a, a})
      BY WithoutTwice
<1>2. ToSet(s) \ {a, a} = ToSet(s) \ {a}
      OBVIOUS
<1> QED BY <1>1, <1>2, Zenon DEF Without

LEMMA OwnGroup ==
    ASSUME NEW N, NoName \in NamesOf(N), NEW t \in Seq(LinesOf(N)), NEW u, NEW h,
           NEW s, NEW p, NEW e, NEW f, NEW name \in NamesOf(N), name # NoName,
           NEW names \in Seq(NamesOf(N)), names = Renamed(ItemsOf(ListLines(t, h)), Trim(N)),
           Edits(N, t, u, h, Written(Reordered(names, name)), s, p, e, f),
           Understood(t, h)
    PROVE  ClashLists(u, h) = Reordered(ClashLists(t, h), name)
<1> DEFINE r == Reordered(names, name)
<1> DEFINE kept == Without(r, NoName)
<1>1. /\ r \in Seq(NamesOf(N)) /\ r = <<name>> \o Without(names, name)
      /\ Without(names, name) \in Seq(NamesOf(N))
      BY ReorderedIn, WithoutIn
<1> HIDE DEF r
<1>2. /\ kept \in Seq(NamesOf(N)) /\ Written(r) = Renamed(kept, Quoted(N))
      /\ Written(r) \in Seq(ItemsIn(N))
      /\ \A i \in 1 .. Len(Written(r)) : Written(r)[i].column = Column
      BY <1>1, WrittenIs
<1>3. kept = <<name>> \o Without(Without(names, name), NoName)
  <2>1. Without(<<name>> \o Without(names, name), NoName) =
          <<name>> \o Without(Without(names, name), NoName)
        BY <1>1, WithoutBehind, ZenonT(90)
  <2> QED BY <1>1, <2>1, Zenon
<1>4. Without(kept, NoName) = kept
      BY <1>1, WithoutAgain
<1> HIDE DEF kept
<1>U. /\ t[p].column <= Column
      /\ \A i \in DOMAIN ListLines(t, h) : ~LeavesList(ListLines(t, h)[i], t[p].column)
      /\ \A i \in DOMAIN ItemsOf(ListLines(t, h)) :
           Trimmed(ItemsOf(ListLines(t, h))[i]) = ClashReads(ItemsOf(ListLines(t, h))[i])
  <2>1. ListAt(t, h) = p
        BY ListLinesAre DEF Edits
  <2> QED BY <2>1 DEF Understood
<1>5. ClashLists(u, h) = kept
  <2> DEFINE w == Written(r)
  <2>1. /\ u \in Seq(LinesOf(N)) /\ Located(u, h, s, p, f) /\ ListLines(u, h) = w
        /\ p \in Nat /\ p \in 1 .. p /\ u[p] = t[p]
    <3>1. /\ u \in Seq(LinesOf(N)) /\ Located(u, h, s, p, f) /\ ListLines(u, h) = w
          /\ Spliced(t, u, p, e, f)
          BY DEF Edits, r
    <3>2. p \in Nat /\ p >= 1
      <4>1. Len(t) \in Nat /\ p \in Nat /\ s \in 1 .. Len(t) /\ p \in s + 1 .. e - 1
            BY <3>1, LenProperties DEF Edits, Located, Block, Spliced
      <4> QED BY <4>1
    <3> QED BY <3>1, <3>2 DEF Spliced
  <2>2. w \in Seq(ItemsIn(N)) /\ ItemsOf(w) = w
        BY <1>2, ItemsAll
  <2>3. ASSUME NEW i \in DOMAIN w PROVE ~LeavesList(w[i], u[p].column)
    <3>1. w[i] \in ItemsIn(N) /\ w[i].column = Column
          BY <1>2, <2>2, LenProperties, ElementOfSeq
    <3>2. w[i].kind = "item"
          BY <3>1 DEF ItemsIn
    <3>3. u[p].column <= Column /\ u[p].column \in Nat /\ Column \in Nat
      <4>1. p \in 1 .. Len(u)
            BY <2>1, LenProperties DEF Located, Block
      <4>2. u[p] \in LinesOf(N)
            BY <2>1, <4>1, ElementOfSeq
      <4> QED BY <4>2, <2>1, <1>U DEF LinesOf, Column
    <3> QED BY <3>1, <3>2, <3>3 DEF LeavesList
  <2> HIDE DEF w
  <2>4. ClashLists(u, h) = Without(Renamed(ItemsOf(ListLines(u, h)), Clash(N)), NoName)
        BY <2>1, <2>3, ClashListIs
  <2>5. Renamed(Renamed(kept, Quoted(N)), Clash(N)) = kept
        BY <1>2, Reread
  <2> QED BY <1>2, <1>4, <2>1, <2>2, <2>4, <2>5, Zenon DEF w
<1>6. ClashLists(t, h) = Without(names, NoName)
  <2>1. Located(t, h, s, p, e)
        BY DEF Edits
  <2> DEFINE items == ItemsOf(ListLines(t, h))
  <2>2. ClashLists(t, h) = Without(Renamed(items, Clash(N)), NoName) /\ items \in Seq(ItemsIn(N))
        BY <2>1, <1>U, ClashListIs
  <2>3. \A i \in DOMAIN items : Trimmed(items[i]) = ClashReads(items[i])
        BY <1>U
  <2>4. names = Renamed(items, Trim(N))
        OBVIOUS
  <2> HIDE DEF items
  <2>5. \A i \in DOMAIN items : items[i] \in ItemsIn(N)
        BY <2>2, LenProperties, ElementOfSeq
  <2>6. Renamed(items, Clash(N)) = Renamed(items, Trim(N))
        BY <2>3, <2>5 DEF Renamed, Clash, Trim
  <2> QED BY <2>2, <2>4, <2>6, Zenon
<1>7. Reordered(Without(names, NoName), name) =
        <<name>> \o Without(Without(names, NoName), name)
  <2>1. Without(names, NoName) \in Seq(NamesOf(N))
        BY WithoutIn
  <2> QED BY <2>1, ReorderedIn
<1>8. Without(Without(names, NoName), name) = Without(Without(names, name), NoName)
      BY WithoutCommutes
<1> QED BY <1>3, <1>5, <1>6, <1>7, <1>8, Zenon

-----------------------------------------------------------------------------
(* Whatever the lines of the text are, at whatever columns, and whichever  *)
(* group and name are given, a switch that is not refused leaves the       *)
(* headings and what Clash finds in every other group as they were; in the *)
(* group it finds the node first and the others in their order, if the     *)
(* tool understands the list as Clash does: not indented beyond the        *)
(* written items, no other keys behind it, no comment on an item's line,   *)
(* no quote inside single quotes (enhancement.go:274-340).                 *)
THEOREM SwitchOfAnyText ==
    ASSUME NEW N, NoName \in NamesOf(N), NEW text \in Seq(LinesOf(N)), NEW group,
           NEW name \in NamesOf(N), name # NoName,
           NEW switched, switched = SwitchBootstrapInGroups(text, group, name),
           switched # Refused
    PROVE  /\ switched \in Seq(LinesOf(N))
           /\ Headings(switched) = Headings(text)
           /\ \A g : g # group => ClashLists(switched, g) = ClashLists(text, g)
           /\ Understood(text, group) =>
                ClashLists(switched, group) = Reordered(ClashLists(text, group), name)
<1> DEFINE names == extractBootstrapCandidates(text, group)
<1> DEFINE w == Written(Reordered(names, name))
<1>1. /\ names \in Seq(NamesOf(N)) /\ names = Renamed(ItemsOf(ListLines(text, group)), Trim(N))
      /\ \E s, p, e, f : Edits(N, text, switched, group, w, s, p, e, f)
      BY SwitchIs
<1> HIDE DEF names
<1>2. PICK s, p, e, f : Edits(N, text, switched, group, w, s, p, e, f)
      BY <1>1
<1>3. Headings(switched) = Headings(text)
      BY <1>2, HeadingsKept
<1>4. ASSUME NEW g, g # group
      PROVE  ClashLists(switched, g) = ClashLists(text, g)
  <2>1. Group(g).group # Group(group).group
        BY <1>4 DEF Group, Line
  <2> QED BY <1>2, <2>1, OtherGroups
<1>5. ASSUME Understood(text, group)
      PROVE  ClashLists(switched, group) = Reordered(ClashLists(text, group), name)
      BY <1>1, <1>2, <1>5, OwnGroup
<1>6. switched \in Seq(LinesOf(N))
      BY <1>2 DEF Edits
<1> QED BY <1>3, <1>4, <1>5, <1>6

=============================================================================
