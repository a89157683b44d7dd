---------------------------- MODULE Choices_proof ----------------------------
(***************************************************************************)
(* Proofs about the choices that pure functions make, for every argument:  *)
(* induction over the natural numbers, in the form that the proofs can     *)
(* cite; then, function by function, that the answer is right; and at the  *)
(* end that every answer is.                                               *)
(***************************************************************************)
EXTENDS Choices, FiniteSetTheorems, SequenceTheorems, WellFoundedInduction, TLAPS

(* A set of natural numbers that has an element has a least one.           *)
LEMMA LeastNumber ==
  ASSUME NEW T \in SUBSET Nat, T # {}
  PROVE  \E m \in T : \A k \in T : m <= k
<1> DEFINE below == {ss \in Nat \X Nat : ss[1] < ss[2]}
<1>1. IsWellFoundedOn(below, Nat)
  BY NatLessThanWellFounded, Zenon DEF OpToRel
<1>2. \E m \in T : \A k \in T : <<k, m>> \notin below
  BY <1>1, WFMin, Zenon
<1>3. \A k, m \in T : <<k, m>> \in below <=> k < m
  OBVIOUS
<1> HIDE DEF below
<1>4. PICK m \in T : \A k \in T : <<k, m>> \notin below
  BY <1>2
<1>5. \A k \in T : ~ (k < m)
  BY <1>3, <1>4
<1> QED
  BY <1>4, <1>5

(* Induction, as a fact about a set: one that has 0 and with a number the  *)
(* next one, up to n, has all numbers up to n.                             *)
LEMMA UpToN ==
  ASSUME NEW n \in Nat, NEW T, 0 \in T, \A k \in 0 .. n - 1 : k \in T => k + 1 \in T
  PROVE  0 .. n \subseteq T
<1> SUFFICES ASSUME (0 .. n) \ T # {} PROVE FALSE
  OBVIOUS
<1>1. PICK m \in (0 .. n) \ T : \A k \in (0 .. n) \ T : m <= k
  <2>1. (0 .. n) \ T \in SUBSET Nat
    OBVIOUS
  <2> QED
    BY <2>1, LeastNumber
<1>2. m # 0 /\ m - 1 \in 0 .. n - 1
  BY <1>1
<1>3. m - 1 \in T
  BY <1>1, <1>2
<1> QED
  BY <1>1, <1>2, <1>3

(* A function given by its value at 0 and a step to each next one, up to n. *)
Recursive(g, n, base, step) ==
    \A i \in 0 .. n : g[i] = IF i = 0 THEN base ELSE step[i][g[i - 1]]

(* Such a function exists, so that what a loop computes has a value after  *)
(* each of its turns.                                                      *)
LEMMA RecursionDefined ==
  ASSUME NEW n \in Nat, NEW V, NEW base \in V, NEW step \in [1 .. n -> [V -> V]]
  PROVE  \E g \in [0 .. n -> V] : Recursive(g, n, base, step)
<1> DEFINE T == {k \in Nat : \E g \in [0 .. n -> V] :
                    \A i \in 0 .. n : i <= k =>
                        g[i] = IF i = 0 THEN base ELSE step[i][g[i - 1]]}
<1>1. 0 \in T
  <2> DEFINE h == [i \in 0 .. n |-> base]
  <2>1. h \in [0 .. n -> V] /\ \A i \in 0 .. n : h[i] = base
    OBVIOUS
  <2> HIDE DEF h
  <2>2. \A i \in 0 .. n : i <= 0 => h[i] = IF i = 0 THEN base ELSE step[i][h[i - 1]]
    BY <2>1
  <2> QED
    BY <2>1, <2>2
<1>2. ASSUME NEW k \in 0 .. n - 1, k \in T PROVE k + 1 \in T
  <2>1. PICK g \in [0 .. n -> V] :
            \A i \in 0 .. n : i <= k => g[i] = IF i = 0 THEN base ELSE step[i][g[i - 1]]
    BY <1>2
  <2> DEFINE h == [g EXCEPT ![k + 1] = step[k + 1][g[k]]]
  <2>2. step[k + 1][g[k]] \in V
    OBVIOUS
  <2>3. h \in [0 .. n -> V] /\ h[k + 1] = step[k + 1][g[k]] /\ \A i \in 0 .. k : h[i] = g[i]
    BY <2>2
  <2>4. ASSUME NEW i \in 0 .. n, i <= k + 1
        PROVE  h[i] = IF i = 0 THEN base ELSE step[i][h[i - 1]]
    <3>1. CASE i = 0
      BY <2>1, <2>3, <3>1
    <3>2. CASE i \in 1 .. k
      <4>1. h[i] = g[i] /\ h[i - 1] = g[i - 1]
        BY <2>3, <3>2
      <4> QED
        BY <2>1, <3>2, <4>1
    <3>3. CASE i = k + 1
      <4>1. h[k] = g[k]
        BY <2>3
      <4> QED
        BY <2>3, <3>3, <4>1
    <3> QED
      BY <2>4, <3>1, <3>2, <3>3
  <2> HIDE DEF h
  <2> QED
    BY <2>3, <2>4
<1>3. n \in T
  <2> HIDE DEF T
  <2>1. 0 .. n \subseteq T
    BY <1>1, <1>2, UpToN
  <2> QED
    BY <2>1
<1> QED
  BY <1>3 DEF Recursive

(* What a definition by recursion says of a function, as long as its       *)
(* values are of a kind.                                                   *)
Computed(f, n, V, base, step) ==
    /\ f = [i \in 0 .. n |-> f[i]]
    /\ f[0] = base
    /\ \A i \in 1 .. n : f[i - 1] \in V => f[i] = step[i][f[i - 1]]

(* There is no other function of which it is true.                         *)
LEMMA OnlyRecursion ==
  ASSUME NEW n \in Nat, NEW V, NEW base \in V, NEW step \in [1 .. n -> [V -> V]],
         NEW g \in [0 .. n -> V], Recursive(g, n, base, step),
         NEW f, Computed(f, n, V, base, step)
  PROVE  f = g
<1> DEFINE T == {i \in 0 .. n : f[i] = g[i]}
<1>1. g[0] = base /\ \A i \in 1 .. n : g[i] = step[i][g[i - 1]]
  BY DEF Recursive
<1>2. 0 \in T
  BY <1>1 DEF Computed
<1>3. ASSUME NEW k \in 0 .. n - 1, k \in T PROVE k + 1 \in T
  <2>1. k + 1 \in 1 .. n /\ k + 1 \in 0 .. n /\ (k + 1) - 1 = k
    OBVIOUS
  <2>2. f[k] = g[k] /\ f[k] \in V
    BY <1>3
  <2>3. f[k + 1] = step[k + 1][f[k]] /\ g[k + 1] = step[k + 1][g[k]]
    BY <1>1, <2>1, <2>2 DEF Computed
  <2> QED
    BY <2>1, <2>2, <2>3
<1>4. 0 .. n \subseteq T
  <2> HIDE DEF T
  <2> QED
    BY <1>2, <1>3, UpToN
<1>5. \A i \in 0 .. n : f[i] = g[i]
  BY <1>4
<1> QED
  BY <1>5 DEF Computed
-----------------------------------------------------------------------------
(* What a choice is made of: nothing yet, or one of the names with its     *)
(* count.                                                                  *)
Bests(S) == {NoBest} \cup [name : S, count : Nat]

(* LeastOf is what a loop that starts with no choice has after its last    *)
(* turn.                                                                   *)
LEMMA BestsDefined ==
  ASSUME NEW S, NEW names \in Seq(S), NEW counts \in [S -> Nat], NEW excluded, NEW early
  PROVE  \E best \in [0 .. Len(names) -> Bests(S)] :
            /\ best[0] = NoBest
            /\ \A i \in 1 .. Len(names) :
                  best[i] = LeastStep(best[i - 1], names[i], counts, excluded, early)
            /\ LeastOf(names, counts, excluded, early) = best[Len(names)].name
<1>1. PICK n \in Nat : n = Len(names)
  OBVIOUS
<1>2. NoBest \in Bests(S)
  BY DEF Bests
<1>3. ASSUME NEW b \in Bests(S), NEW i \in 1 .. n
      PROVE  LeastStep(b, names[i], counts, excluded, early) \in Bests(S)
  <2>1. names[i] \in S /\ counts[names[i]] \in Nat
    BY <1>1
  <2> QED
    BY <2>1 DEF Bests, LeastStep, Better
<1>4. PICK step \in [1 .. n -> [Bests(S) -> Bests(S)]] :
          \A i \in 1 .. n : \A b \in Bests(S) :
              step[i][b] = LeastStep(b, names[i], counts, excluded, early)
  <2> DEFINE s == [i \in 1 .. n |-> [b \in Bests(S) |-> LeastStep(b, names[i], counts, excluded, early)]]
  <2>1. s \in [1 .. n -> [Bests(S) -> Bests(S)]]
    BY <1>3
  <2>2. \A i \in 1 .. n : \A b \in Bests(S) :
           s[i][b] = LeastStep(b, names[i], counts, excluded, early)
    OBVIOUS
  <2> HIDE DEF s
  <2> QED
    BY <2>1, <2>2
<1>5. PICK g \in [0 .. n -> Bests(S)] : Recursive(g, n, NoBest, step)
  BY <1>2, RecursionDefined
<1>6. g[0] = NoBest
  BY <1>5 DEF Recursive
<1>7. ASSUME NEW i \in 1 .. n
      PROVE  g[i] = LeastStep(g[i - 1], names[i], counts, excluded, early)
  <2>1. i # 0 /\ i \in 0 .. n /\ i - 1 \in 0 .. n
    OBVIOUS
  <2>2. g[i] = step[i][g[i - 1]]
    BY <1>5, <2>1 DEF Recursive
  <2> QED
    BY <1>4, <2>1, <2>2
<1> DEFINE Is(f) == f = [i \in 0 .. n |-> IF i = 0 THEN NoBest
                                          ELSE LeastStep(f[i - 1], names[i], counts, excluded, early)]
<1>8. Is(g)
  <2>1. \A i \in 0 .. n : g[i] = IF i = 0 THEN NoBest
                                ELSE LeastStep(g[i - 1], names[i], counts, excluded, early)
    BY <1>6, <1>7
  <2> QED
    BY <2>1
<1>9. ASSUME NEW f, Is(f) PROVE f = g
  <2> DEFINE T == {i \in 0 .. n : f[i] = g[i]}
  <2>1. 0 \in T
    BY <1>6, <1>9
  <2>2. ASSUME NEW k \in 0 .. n - 1, k \in T PROVE k + 1 \in T
    BY <1>7, <1>9, <2>2
  <2>3. 0 .. n \subseteq T
    <3> HIDE DEF T, Is
    <3> QED
      BY <2>1, <2>2, UpToN
  <2>4. \A i \in 0 .. n : f[i] = g[i]
    BY <2>3
  <2> QED
    BY <1>9, <2>4
<1>10. LeastOf(names, counts, excluded, early) = (CHOOSE f : Is(f))[n].name
  BY <1>1 DEF LeastOf
<1>11. (CHOOSE f : Is(f)) = g
  <2> HIDE DEF Is
  <2> QED
    BY <1>8, <1>9
<1> HIDE DEF Is
<1> QED
  BY <1>1, <1>6, <1>7, <1>10, <1>11

(* What such a loop ends with is the first of the names that are not       *)
(* excluded which has least, or no name where all are excluded.            *)
LEMMA LeastIsRight ==
  ASSUME NEW S, NoName \notin S, NEW names \in Seq(S), NEW counts \in [S -> Nat], NEW excluded,
         NEW early
  PROVE  /\ LeastRight(names, counts, excluded, LeastOf(names, counts, excluded, early))
         /\ LeastOf(names, counts, excluded, early) \in {NoName} \cup (S \ excluded)
<1>1. PICK n \in Nat : n = Len(names)
  OBVIOUS
<1>2. PICK best \in [0 .. n -> Bests(S)] :
          /\ best[0] = NoBest
          /\ \A i \in 1 .. n : best[i] = LeastStep(best[i - 1], names[i], counts, excluded, early)
          /\ LeastOf(names, counts, excluded, early) = best[n].name
  BY <1>1, BestsDefined
<1>3. DOMAIN names = 1 .. n /\ \A i \in 1 .. n : names[i] \in S /\ counts[names[i]] \in Nat
  BY <1>1
<1> DEFINE Candidates(k) == {i \in 1 .. k : names[i] \notin excluded}
           Is(k, i) ==
              /\ best[k] = [name |-> names[i], count |-> counts[names[i]]]
              /\ \A j \in Candidates(k) :
                    \/ counts[names[j]] > counts[names[i]]
                    \/ counts[names[j]] = counts[names[i]] /\ i <= j
           Right(k) == IF Candidates(k) = {} THEN best[k] = NoBest
                       ELSE \E i \in Candidates(k) : Is(k, i)
           T == {k \in 0 .. n : Right(k)}
<1>4. 0 \in T
  BY <1>2
<1>5. ASSUME NEW k \in 0 .. n - 1, k \in T PROVE k + 1 \in T
  <2>1. /\ k + 1 \in 1 .. n /\ k + 1 \in 0 .. n
        /\ best[k + 1] = LeastStep(best[k], names[k + 1], counts, excluded, early)
        /\ names[k + 1] \in S /\ counts[names[k + 1]] \in Nat
    BY <1>2, <1>3
  <2>2. CASE names[k + 1] \in excluded
    <3>1. best[k + 1] = best[k] /\ Candidates(k + 1) = Candidates(k)
      BY <2>1, <2>2 DEF LeastStep
    <3> QED
      BY <1>5, <2>1, <3>1
  <2>3. CASE names[k + 1] \notin excluded
    <3>1. Candidates(k + 1) = Candidates(k) \cup {k + 1}
      BY <2>3
    <3>2. CASE Candidates(k) = {}
      <4>1. best[k] = NoBest
        BY <1>5, <3>2
      <4>2. best[k + 1] = [name |-> names[k + 1], count |-> counts[names[k + 1]]]
        BY <2>1, <2>3, <4>1 DEF LeastStep, Better
      <4>3. Is(k + 1, k + 1)
        <5>1. Candidates(k + 1) = {k + 1}
          BY <3>1, <3>2
        <5> HIDE DEF Candidates
        <5> QED
          BY <2>1, <4>2, <5>1
      <4> QED
        BY <2>1, <3>1, <4>3
    <3>3. CASE Candidates(k) # {}
      <4>1. PICK i \in Candidates(k) : Is(k, i)
        BY <1>5, <3>3
      <4>2. i \in 1 .. n /\ i <= k /\ names[i] \in S /\ counts[names[i]] \in Nat
        BY <1>3
      <4>3. best[k] # NoBest /\ best[k].count = counts[names[i]]
        BY <4>1, <4>2 DEF NoBest
      <4>4. CASE counts[names[k + 1]] < counts[names[i]]
        <5>1. best[k + 1] = [name |-> names[k + 1], count |-> counts[names[k + 1]]]
          BY <2>1, <2>3, <4>2, <4>3, <4>4 DEF LeastStep, Better
        <5>2. \A j \in Candidates(k) : counts[names[j]] \in Nat
          BY <1>3
        <5>3. ASSUME NEW j \in Candidates(k) PROVE counts[names[j]] > counts[names[k + 1]]
          <6>1. counts[names[j]] >= counts[names[i]]
            BY <4>1, <4>2, <5>2
          <6>2. PICK theirs, ours, this \in Nat :
                   theirs = counts[names[j]] /\ ours = counts[names[i]]
                   /\ this = counts[names[k + 1]]
            BY <2>1, <4>2, <5>2
          <6>3. theirs > this
            <7>1. theirs >= ours /\ this < ours
              BY <4>4, <6>1, <6>2, Zenon
            <7> HIDE DEF Candidates, Is, Right, T
            <7> QED
              BY <7>1
          <6> QED
            BY <6>2, <6>3, Zenon
        <5>4. Is(k + 1, k + 1)
          BY <2>1, <3>1, <5>1, <5>3
        <5> QED
          BY <2>1, <3>1, <5>4
      <4>5. CASE ~ (counts[names[k + 1]] < counts[names[i]])
        <5>1. best[k + 1] = best[k]
          BY <2>1, <2>3, <4>2, <4>3, <4>5 DEF LeastStep, Better
        <5>2. Is(k + 1, i)
          BY <2>1, <3>1, <4>1, <4>2, <4>5, <5>1
        <5> QED
          BY <2>1, <3>1, <4>1, <5>2
      <4> QED
        BY <4>4, <4>5
    <3> QED
      BY <3>2, <3>3
  <2> QED
    BY <2>2, <2>3
<1>6. Right(n)
  <2>1. 0 .. n \subseteq T
    <3> HIDE DEF T
    <3> QED
      BY <1>4, <1>5, UpToN
  <2>2. n \in T
    <3> HIDE DEF T
    <3> QED
      BY <2>1
  <2> HIDE DEF Right
  <2> QED
    BY <2>2
<1>7. CASE Candidates(n) = {}
  BY <1>2, <1>3, <1>6, <1>7 DEF LeastRight, NoBest
<1>8. CASE Candidates(n) # {}
  <2>1. PICK i \in Candidates(n) : Is(n, i)
    BY <1>6, <1>8
  <2>2. LeastOf(names, counts, excluded, early) = names[i]
    BY <1>2, <2>1
  <2> QED
    BY <1>3, <1>8, <2>1, <2>2 DEF LeastRight
<1> QED
  BY <1>7, <1>8

-----------------------------------------------------------------------------
(* What is kept of the names that a loop has seen.                         *)
KeptStep(kept, n, excluded) == IF n \in excluded THEN kept ELSE Append(kept, n)

IsKept(kept, names, excluded) ==
    /\ kept[0] = <<>>
    /\ \A i \in 1 .. Len(names) : kept[i] = KeptStep(kept[i - 1], names[i], excluded)
    /\ NotIn(names, excluded) = kept[Len(names)]

(* NotIn is what the loop has kept after its last turn.                    *)
LEMMA KeptDefined ==
  ASSUME NEW S, NEW names \in Seq(S), NEW excluded
  PROVE  \E kept \in [0 .. Len(names) -> Seq(S)] : IsKept(kept, names, excluded)
<1>1. PICK n \in Nat : n = Len(names)
  OBVIOUS
<1>2. <<>> \in Seq(S)
  OBVIOUS
<1>3. ASSUME NEW b \in Seq(S), NEW i \in 1 .. n
      PROVE  KeptStep(b, names[i], excluded) \in Seq(S)
  <2>1. names[i] \in S
    BY <1>1
  <2> QED
    BY <2>1 DEF KeptStep
<1>4. PICK step \in [1 .. n -> [Seq(S) -> Seq(S)]] :
          \A i \in 1 .. n : \A b \in Seq(S) :
              step[i][b] = KeptStep(b, names[i], excluded)
  <2> DEFINE s == [i \in 1 .. n |-> [b \in Seq(S) |-> KeptStep(b, names[i], excluded)]]
  <2>1. s \in [1 .. n -> [Seq(S) -> Seq(S)]]
    BY <1>3
  <2>2. \A i \in 1 .. n : \A b \in Seq(S) :
           s[i][b] = KeptStep(b, names[i], excluded)
    OBVIOUS
  <2> HIDE DEF s
  <2> QED
    BY <2>1, <2>2
<1>5. PICK g \in [0 .. n -> Seq(S)] : Recursive(g, n, <<>>, step)
  BY <1>2, RecursionDefined
<1>6. g[0] = <<>>
  BY <1>5 DEF Recursive
<1>7. ASSUME NEW i \in 1 .. n
      PROVE  g[i] = KeptStep(g[i - 1], names[i], excluded)
  <2>1. i # 0 /\ i \in 0 .. n /\ i - 1 \in 0 .. n
    OBVIOUS
  <2>2. g[i] = step[i][g[i - 1]]
    BY <1>5, <2>1 DEF Recursive
  <2> QED
    BY <1>4, <2>1, <2>2
<1> DEFINE Is(f) == f = [i \in 0 .. n |-> IF i = 0 THEN <<>>
                                          ELSE KeptStep(f[i - 1], names[i], excluded)]
<1>8. Is(g)
  <2>1. \A i \in 0 .. n : g[i] = IF i = 0 THEN <<>>
                                ELSE KeptStep(g[i - 1], names[i], excluded)
    BY <1>6, <1>7
  <2> QED
    BY <2>1
<1>9. ASSUME NEW f, Is(f) PROVE f = g
  <2> DEFINE T == {i \in 0 .. n : f[i] = g[i]}
  <2>1. 0 \in T
    BY <1>6, <1>9
  <2>2. ASSUME NEW k \in 0 .. n - 1, k \in T PROVE k + 1 \in T
    BY <1>7, <1>9, <2>2
  <2>3. 0 .. n \subseteq T
    <3> HIDE DEF T, Is
    <3> QED
      BY <2>1, <2>2, UpToN
  <2>4. \A i \in 0 .. n : f[i] = g[i]
    BY <2>3
  <2> QED
    BY <1>9, <2>4
<1>10. NotIn(names, excluded) = (CHOOSE f : Is(f))[n]
  BY <1>1 DEF NotIn, KeptStep
<1>11. (CHOOSE f : Is(f)) = g
  <2> HIDE DEF Is
  <2> QED
    BY <1>8, <1>9
<1> HIDE DEF Is
<1> QED
  BY <1>1, <1>6, <1>7, <1>10, <1>11 DEF IsKept

(* What is appended is in the sequence, and nothing is lost.               *)
LEMMA RangeOfAppend ==
  ASSUME NEW S, NEW s \in Seq(S), NEW x \in S
  PROVE  ToSet(Append(s, x)) = ToSet(s) \cup {x}
<1>1. DOMAIN Append(s, x) = 1 .. Len(s) + 1 /\ DOMAIN s = 1 .. Len(s)
  OBVIOUS
<1>2. \A i \in DOMAIN s : Append(s, x)[i] = s[i]
  OBVIOUS
<1>3. Append(s, x)[Len(s) + 1] = x
  OBVIOUS
<1>4. DOMAIN Append(s, x) = DOMAIN s \cup {Len(s) + 1}
  BY <1>1
<1> QED
  BY <1>2, <1>3, <1>4 DEF ToSet

(* A function on 1 .. n is a sequence of n entries.                        *)
LEMMA SeqFromFunction ==
  ASSUME NEW S, NEW n \in Nat, NEW f \in [1 .. n -> S]
  PROVE  f \in Seq(S) /\ DOMAIN f = 1 .. n /\ Len(f) = n
<1>1. [i \in 1 .. n |-> f[i]] \in Seq(S)
  OBVIOUS
<1>2. f = [i \in 1 .. n |-> f[i]]
  OBVIOUS
<1> QED
  BY <1>1, <1>2

(* A loop keeps the names that are not excluded.                           *)
LEMMA NotInIsRight ==
  ASSUME NEW S, NEW names \in Seq(S), NEW excluded
  PROVE  /\ NotIn(names, excluded) \in Seq(S)
         /\ ToSet(NotIn(names, excluded)) = ToSet(names) \ excluded
<1>1. PICK n \in Nat : n = Len(names)
  OBVIOUS
<1>2. PICK kept \in [0 .. n -> Seq(S)] :
          /\ kept[0] = <<>>
          /\ \A i \in 1 .. n : kept[i] = KeptStep(kept[i - 1], names[i], excluded)
          /\ NotIn(names, excluded) = kept[n]
  <2>1. PICK kept \in [0 .. n -> Seq(S)] : IsKept(kept, names, excluded)
    BY <1>1, KeptDefined
  <2> QED
    BY <1>1, <2>1 DEF IsKept
<1>3. DOMAIN names = 1 .. n /\ \A i \in 1 .. n : names[i] \in S
  BY <1>1
<1> DEFINE T == {k \in 0 .. n : ToSet(kept[k]) = {names[i] : i \in 1 .. k} \ excluded}
<1>4. 0 \in T
  BY <1>2 DEF ToSet
<1>5. ASSUME NEW k \in 0 .. n - 1, k \in T PROVE k + 1 \in T
  <2>1. k + 1 \in 1 .. n /\ k + 1 \in 0 .. n /\ names[k + 1] \in S /\ kept[k] \in Seq(S)
    BY <1>3
  <2>2. kept[k + 1] = KeptStep(kept[k], names[k + 1], excluded)
    BY <1>2, <2>1
  <2>3. {names[i] : i \in 1 .. k + 1} = {names[i] : i \in 1 .. k} \cup {names[k + 1]}
    BY <2>1
  <2>4. CASE names[k + 1] \in excluded
    <3>1. ToSet(kept[k + 1]) = ToSet(kept[k])
      BY <2>2, <2>4 DEF KeptStep
    <3> QED
      BY <1>5, <2>1, <2>3, <2>4, <3>1
  <2>5. CASE names[k + 1] \notin excluded
    <3>1. kept[k + 1] = Append(kept[k], names[k + 1])
      BY <2>2, <2>5 DEF KeptStep
    <3>2. ToSet(kept[k + 1]) = ToSet(kept[k]) \cup {names[k + 1]}
      BY <2>1, <3>1, RangeOfAppend
    <3> QED
      BY <1>5, <2>1, <2>3, <2>5, <3>2
  <2> QED
    BY <2>4, <2>5
<1>6. n \in T
  <2>1. 0 .. n \subseteq T
    <3> HIDE DEF T
    <3> QED
      BY <1>4, <1>5, UpToN
  <2> QED
    BY <2>1
<1> QED
  BY <1>2, <1>3, <1>6 DEF ToSet

(* A sequence is one of anything that has all its entries.                 *)
LEMMA SeqOfItsEntries ==
  ASSUME NEW S, NEW names \in Seq(S), NEW D, \A i \in DOMAIN names : names[i] \in D
  PROVE  names \in Seq(D)
<1>1. PICK m \in Nat : m = Len(names) /\ DOMAIN names = 1 .. m
  BY LenProperties
<1>2. names \in [1 .. m -> D]
  BY <1>1
<1>3. [i \in 1 .. m |-> names[i]] \in Seq(D)
  BY <1>1
<1>4. names = [i \in 1 .. m |-> names[i]]
  BY <1>2
<1> QED
  BY <1>3, <1>4

(* Instances are counted by numbers.                                       *)
LEMMA CountsAreNumbers ==
  ASSUME NEW S, NEW instances \in Seq(S), NEW names
  PROVE  /\ \A r : CountIn(instances, r) \in Nat
         /\ CountsIn(instances, names) \in [ToSet(names) -> Nat]
<1>1. ASSUME NEW r PROVE CountIn(instances, r) \in Nat
  <2>1. IsFiniteSet(1 .. Len(instances))
    BY FS_Interval
  <2>2. {i \in DOMAIN instances : instances[i] = r} \subseteq 1 .. Len(instances)
    OBVIOUS
  <2>3. IsFiniteSet({i \in DOMAIN instances : instances[i] = r})
    BY <2>1, <2>2, FS_Subset
  <2> QED
    BY <2>3, FS_CardinalityType DEF CountIn
<1> QED
  BY <1>1 DEF CountsIn, ToSet

(* None of a kind is none that has it.                                     *)
LEMMA NoneCounted ==
  ASSUME NEW S, NEW instances \in Seq(S), NEW r
  PROVE  CountIn(instances, r) = 0 <=> r \notin ToSet(instances)
<1>1. IsFiniteSet({i \in DOMAIN instances : instances[i] = r})
  BY FS_Interval, FS_Subset
<1>2. CountIn(instances, r) = 0 <=> {i \in DOMAIN instances : instances[i] = r} = {}
  BY <1>1, FS_EmptySet DEF CountIn
<1> QED
  BY <1>2 DEF ToSet

(* The first with least is only one.                                       *)
LEMMA LeastIsOne ==
  ASSUME NEW S, NEW names \in Seq(S), NEW counts \in [S -> Nat], NEW excluded, NEW r, NEW q,
         LeastRight(names, counts, excluded, r), LeastRight(names, counts, excluded, q)
  PROVE  r = q
<1> DEFINE candidates == {i \in DOMAIN names : names[i] \notin excluded}
<1>1. CASE candidates = {}
  BY <1>1 DEF LeastRight
<1>2. CASE candidates # {}
  <2>1. PICK i \in candidates :
            names[i] = r /\ \A k \in candidates : counts[names[k]] > counts[r]
                                                  \/ (counts[names[k]] = counts[r] /\ i <= k)
    BY <1>2 DEF LeastRight
  <2>2. PICK j \in candidates :
            names[j] = q /\ \A k \in candidates : counts[names[k]] > counts[q]
                                                  \/ (counts[names[k]] = counts[q] /\ j <= k)
    BY <1>2 DEF LeastRight
  <2>3. counts[r] \in Nat /\ counts[q] \in Nat /\ i \in Nat /\ j \in Nat
    BY <2>1, <2>2
  <2>4. i <= j /\ j <= i
    <3>1. counts[q] > counts[r] \/ (counts[q] = counts[r] /\ i <= j)
      BY <2>1, <2>2
    <3>2. counts[r] > counts[q] \/ (counts[r] = counts[q] /\ j <= i)
      BY <2>1, <2>2
    <3> QED
      BY <2>3, <3>1, <3>2
  <2> QED
    BY <2>1, <2>2, <2>3, <2>4
<1> QED
  BY <1>1, <1>2

(* Whatever regions and instances an account has, and however many: the    *)
(* region that each loop of cloudinfo/region.go answers with is the first  *)
(* with least of those it may choose, the default one exactly where each   *)
(* has an activity tracker, no zone exactly where each is full; and the    *)
(* regions that are said to be without a service have none of it.          *)
THEOREM RegionChoicesAreRight ==
  ASSUME NEW S, NoName \notin S, NEW names \in Seq(S), NEW I, NEW instances \in Seq(I),
         NEW supported \in Seq(S), NEW trackers
  PROVE  RegionsRight(names, instances, supported, trackers,
                      RegionChoices(names, instances, supported, trackers))
<1> DEFINE counts == CountsIn(instances, names)
           crowded == {z \in DOMAIN counts : counts[z] >= maxPowerConnectionsPerZone}
           asked == IF supported = <<>> THEN names ELSE supported
           free == {asked[i] : i \in {k \in DOMAIN asked : CountIn(instances, asked[k]) = 0}}
           occupied == ToSet(instances)
           chosen == RegionChoices(names, instances, supported, trackers)
           without == GetRegionWithoutService(names, instances, supported)
<1>1. PICK D : D = ToSet(names)
  OBVIOUS
<1>2. counts \in [D -> Nat] /\ names \in Seq(D) /\ NoName \notin D
  <2>1. counts \in [D -> Nat]
    BY <1>1, CountsAreNumbers
  <2>2. \A i \in 1 .. Len(names) : names[i] \in D
    BY <1>1 DEF ToSet
  <2>3. NoName \notin D
    BY <1>1 DEF ToSet
  <2>4. \A i \in DOMAIN names : names[i] \in D
    BY <2>2
  <2>5. names \in Seq(D)
    BY <2>4, SeqOfItsEntries
  <2> QED
    BY <2>1, <2>3, <2>5
<1> HIDE DEF counts
<1>3. \A e, early : LeastRight(names, counts, e, LeastOf(names, counts, e, early))
  BY <1>2, LeastIsRight
<1>4. LeastRight(names, counts, {}, chosen.resources)
  BY <1>3 DEF RegionChoices, GetRegionWithLeastResources, counts
<1>5. chosen.gateways = chosen.resources
  <2>1. LeastRight(names, counts, {}, chosen.gateways)
    BY <1>3 DEF RegionChoices, GetRegionWithLeastTransitGateways, counts
  <2> QED
    BY <1>2, <1>4, <2>1, LeastIsOne
<1>6. LeastRight(names, counts, crowded, chosen.zone)
  BY <1>3 DEF RegionChoices, GetLeastPowerConnectionZone, counts
<1>7. IF \A i \in DOMAIN names : names[i] \in trackers THEN chosen.balancers = "default"
      ELSE LeastRight(names, counts, trackers, chosen.balancers)
  <2> DEFINE best == LeastOf(names, counts, trackers, TRUE)
  <2>1. LeastRight(names, counts, trackers, best)
    BY <1>3
  <2>2. chosen.balancers = IF best = NoName THEN "default" ELSE best
    BY DEF RegionChoices, GetLeastSdnlbTestRegion, counts
  <2> HIDE DEF best
  <2>3. best = NoName <=> \A i \in DOMAIN names : names[i] \in trackers
    BY <1>2, <2>1 DEF LeastRight
  <2> QED
    BY <2>1, <2>2, <2>3
<1>8. free = ToSet(asked) \ occupied
  BY NoneCounted DEF ToSet
<1>9. /\ NotIn(asked, occupied) \in Seq(S)
      /\ ToSet(NotIn(asked, occupied)) = free
  BY <1>8, NotInIsRight
<1>10. without = IF supported # <<>> THEN NotIn(asked, occupied)
                 ELSE IF NotIn(asked, occupied) = <<>> THEN <<>>
                      ELSE <<Head(NotIn(asked, occupied))>>
  BY DEF GetRegionWithoutService, ToSet
<1> HIDE DEF free, occupied, asked, without
<1>11. /\ ToSet(without) \subseteq free
       /\ without = <<>> <=> free = {}
       /\ supported # <<>> => free = ToSet(without)
  <2> DEFINE kept == NotIn(asked, occupied)
  <2>1. kept \in Seq(S) /\ ToSet(kept) = free
    BY <1>9
  <2> HIDE DEF kept
  <2>2. kept = <<>> <=> free = {}
    <3>1. CASE kept = <<>>
      BY <2>1, <3>1 DEF ToSet
    <3>2. CASE kept # <<>>
      <4>1. 1 \in DOMAIN kept
        BY <2>1, <3>2, EmptySeq, LenProperties
      <4> QED
        BY <2>1, <3>2, <4>1 DEF ToSet
    <3> QED
      BY <3>1, <3>2
  <2>3. CASE supported # <<>>
    BY <1>10, <2>1, <2>2, <2>3 DEF kept
  <2>4. CASE supported = <<>> /\ kept = <<>>
    BY <1>10, <2>1, <2>2, <2>4 DEF ToSet, kept
  <2>5. CASE supported = <<>> /\ kept # <<>>
    <3>1. without = <<Head(kept)>> /\ Head(kept) \in ToSet(kept)
      BY <1>10, <2>1, <2>5 DEF ToSet, kept
    <3>2. ToSet(without) = {Head(kept)} /\ without # <<>>
      BY <3>1 DEF ToSet
    <3> QED
      BY <2>1, <2>5, <3>1, <3>2
  <2> QED
    BY <2>3, <2>4, <2>5
<1>12. chosen.without = without
  BY DEF RegionChoices, without
<1> QED
  BY <1>4, <1>5, <1>6, <1>7, <1>11, <1>12
     DEF RegionsRight, ToSet, counts, crowded, asked, free
-----------------------------------------------------------------------------
-----------------------------------------------------------------------------
Triples == Nat \X Nat \X Nat

(* Versions are ordered.                                                   *)
LEMMA BelowOrders ==
  ASSUME NEW a \in Triples, NEW b \in Triples
  PROVE  /\ Below(a, a)
         /\ Below(a, b) \/ Below(b, a)
         /\ Below(a, b) /\ Below(b, a) => a = b
         /\ \A c \in Triples : Below(a, b) /\ Below(b, c) => Below(a, c)
BY DEF Below, Triples

(* Of some versions there is a highest, and a last one that is as high.    *)
LEMMA Highest ==
  ASSUME NEW n \in Nat, NEW v \in [1 .. n -> Triples \cup {NotSemver}],
         NEW hits \in SUBSET (1 .. n), hits # {}, \A i \in hits : v[i] \in Triples
  PROVE  \E i \in hits : /\ \A k \in hits : Below(v[k], v[i])
                         /\ \A k \in hits : v[k] = v[i] => k <= i
<1> DEFINE Top(m, i) == /\ i \in hits /\ i <= m
                        /\ \A k \in hits : k <= m => Below(v[k], v[i])
                        /\ \A k \in hits : k <= m /\ v[k] = v[i] => k <= i
           T == {m \in 0 .. n : (\E i \in hits : i <= m) => \E i \in hits : Top(m, i)}
<1>1. 0 \in T
  OBVIOUS
<1>2. ASSUME NEW m \in 0 .. n - 1, m \in T PROVE m + 1 \in T
  <2>1. CASE m + 1 \notin hits
    <3>1. \A i \in hits : i <= m + 1 <=> i <= m
      BY <2>1
    <3> QED
      BY <1>2, <3>1
  <2>2. CASE m + 1 \in hits /\ ~ \E i \in hits : i <= m
    <3>1. \A i \in hits : i <= m + 1 => i = m + 1
      BY <2>2
    <3>2. Below(v[m + 1], v[m + 1])
      BY <2>2, BelowOrders
    <3>3. Top(m + 1, m + 1)
      BY <2>2, <3>1, <3>2
    <3> QED
      BY <2>2, <3>3
  <2>3. CASE m + 1 \in hits /\ \E i \in hits : i <= m
    <3>1. PICK i \in hits : Top(m, i)
      BY <1>2, <2>3
    <3>2. \A k \in hits : v[k] \in Triples /\ k \in Nat /\ (k <= m + 1 <=> k <= m \/ k = m + 1)
      OBVIOUS
    <3>3. CASE Below(v[i], v[m + 1])
      <4>1. \A k \in hits : k <= m + 1 => Below(v[k], v[m + 1])
        BY <2>3, <3>1, <3>2, <3>3, BelowOrders
      <4>2. Top(m + 1, m + 1)
        BY <2>3, <4>1
      <4> QED
        BY <2>3, <4>2
    <3>4. CASE ~ Below(v[i], v[m + 1])
      <4>1. Below(v[m + 1], v[i]) /\ v[m + 1] # v[i]
        BY <2>3, <3>2, <3>4, BelowOrders
      <4>2. Top(m + 1, i)
        BY <3>1, <3>2, <4>1
      <4> QED
        BY <4>2
    <3> QED
      BY <3>3, <3>4
  <2> QED
    BY <2>1, <2>2, <2>3
<1>3. n \in T
  <2> HIDE DEF T
  <2>1. 0 .. n \subseteq T
    BY <1>1, <1>2, UpToN
  <2> QED
    BY <2>1
<1> HIDE DEF T
<1>4. PICK j \in hits : Top(n, j)
  <2>1. PICK i \in hits : TRUE
    OBVIOUS
  <2>2. i \in 1 .. n
    BY <2>1
  <2>3. i <= n
    BY <2>2
  <2> QED
    BY <1>3, <2>1, <2>3 DEF T
<1> QED
  BY <1>4

(* A valid constraint.                                                     *)
LEMMA ConstraintIs ==
  ASSUME NEW target \in Seq(ConstraintParts),
         Constraint(target) # Invalid
  PROVE  /\ Constraint(target).type \in {"=", "^", "~", ">=", "<=", "range"}
         /\ Constraint(target).min \in Triples
         /\ Constraint(target).max \in Triples
         /\ Constraint(target).type = "=" => Constraint(target).min = Constraint(target).max
<1>1. CASE Len(target) = 2
  <2>1. PICK p, q \in ConstraintParts : p = target[1] /\ q = target[2]
    BY <1>1
  <2>2. Constraint(target) = RangeOf(p, q)
    BY <1>1, <2>1 DEF Constraint
  <2>3. PICK a, b \in Triples : RangeOf(p, q) = [type |-> "range", min |-> a, max |-> b]
    <3>1. p.semver \in {NotSemver} \cup Triples /\ q.semver \in {NotSemver} \cup Triples
      BY DEF ConstraintParts, Semvers, Triples
    <3> QED
      BY <2>2, <3>1 DEF RangeOf
  <2> QED
    BY <2>2, <2>3
<1>2. CASE Len(target) # 2
  <2>1. Len(target) = 1 /\ target[1].semver # NotSemver
        /\ Constraint(target) = [type |-> target[1].op, min |-> target[1].semver,
                                 max |-> target[1].semver]
    BY <1>2 DEF Constraint
  <2>2. PICK p \in ConstraintParts : p = target[1]
    BY <2>1
  <2>3. p.op \in {"=", "^", "~", ">=", "<="} /\ p.semver \in {NotSemver} \cup Triples
    BY DEF ConstraintParts, Semvers, Triples
  <2> QED
    BY <2>1, <2>2, <2>3
<1> QED
  BY <1>1, <1>2

(* What satisfies a constraint is what is within its interval.             *)
LEMMA SatisfiesIsInterval ==
  ASSUME NEW n \in Triples,
         NEW c \in [type : {"=", "^", "~", ">=", "<=", "range"}, min : Triples, max : Triples],
         c.type = "=" => c.min = c.max
  PROVE  Satisfies(n, c) <=> InInterval(n, c)
<1> PICK a, b, d \in Nat : n = <<a, b, d>>
  BY DEF Triples
<1> PICK x, y, z \in Nat : c.min = <<x, y, z>>
  BY DEF Triples
<1>1. CASE c.type = "="
  BY <1>1, BelowOrders DEF Satisfies, InInterval
<1>2. CASE c.type = "^"
  <2>1. Next3(c.min, 1) = <<x + 1, 0, 0>>
    BY DEF Next3
  <2> QED
    BY <1>2, <2>1 DEF Satisfies, InInterval, Below
<1>3. CASE c.type = "~"
  <2>1. Next3(c.min, 2) = <<x, y + 1, 0>>
    BY DEF Next3
  <2> QED
    BY <1>3, <2>1 DEF Satisfies, InInterval, Below
<1>4. CASE c.type \in {">=", "<=", "range"}
  BY <1>4 DEF Satisfies, InInterval
<1> QED
  BY <1>1, <1>2, <1>3, <1>4

(* Whatever versions an offering lists and whatever the constraint: the    *)
(* version that GetLatestVersionByConstraint answers with satisfies it,    *)
(* none that does is higher, and there is none only where none does.       *)
THEOREM LatestVersionIsRight ==
  ASSUME NEW versions \in Seq(ListedVersions),
         NEW target \in Seq(ConstraintParts)
  PROVE  LatestVersionRight(versions, target, GetLatestVersionByConstraint(versions, target))
<1> DEFINE c == Constraint(target)
           hits == {i \in DOMAIN versions : versions[i].semver # NotSemver
                                            /\ Satisfies(versions[i].semver, c)}
           meeting == {i \in DOMAIN versions : versions[i].semver # NotSemver
                                               /\ InInterval(versions[i].semver, c)}
           Top(i) == /\ \A k \in hits : Below(versions[k].semver, versions[i].semver)
                     /\ \A k \in hits : versions[k].semver = versions[i].semver => k <= i
           answer == GetLatestVersionByConstraint(versions, target)
<1>1. CASE c = Invalid
  BY <1>1 DEF GetLatestVersionByConstraint, LatestVersionRight
<1>2. CASE c # Invalid
  <2>1. /\ c.type \in {"=", "^", "~", ">=", "<=", "range"}
        /\ c.min \in Triples /\ c.max \in Triples /\ (c.type = "=" => c.min = c.max)
    BY <1>2, ConstraintIs
  <2>2. PICK n \in Nat : DOMAIN versions = 1 .. n
    OBVIOUS
  <2>3. ASSUME NEW i \in 1 .. n PROVE versions[i].semver \in Triples \cup {NotSemver}
    <3>1. versions[i] \in ListedVersions
      BY <2>2
    <3> QED
      BY <3>1 DEF ListedVersions, Semvers, Triples
  <2>4. c \in [type : {"=", "^", "~", ">=", "<=", "range"}, min : Triples, max : Triples]
    BY <2>1 DEF Constraint, RangeOf, Invalid
  <2> HIDE DEF c
  <2>5. hits = meeting
    BY <2>1, <2>2, <2>3, <2>4, SatisfiesIsInterval
  <2>6. hits \subseteq 1 .. n /\ \A i \in hits : versions[i].semver \in Triples /\ Satisfies(versions[i].semver, c)
    BY <2>2, <2>3
  <2>7. answer = IF hits = {} THEN NoVersion
                 ELSE IF c.type = "=" THEN versions[CHOOSE i \in hits : \A k \in hits : i <= k]
                 ELSE versions[CHOOSE i \in hits : Top(i)]
    BY <1>2 DEF GetLatestVersionByConstraint, c
  <2>8. (IF meeting = {} THEN answer = NoVersion
         ELSE /\ \E i \in meeting : answer = versions[i]
              /\ \A i \in meeting : Below(versions[i].semver, answer.semver))
        => LatestVersionRight(versions, target, answer)
    BY <1>2 DEF LatestVersionRight, c
  <2> SUFFICES LatestVersionRight(versions, target, answer)
    OBVIOUS
  <2> HIDE DEF hits, meeting, answer
  <2>9. CASE hits = {}
    BY <2>5, <2>7, <2>8, <2>9
  <2>10. CASE hits # {} /\ c.type = "="
    <3>1. \E i \in hits : \A k \in hits : i <= k
      BY <2>6, <2>10, LeastNumber
    <3>2. PICK i \in hits : answer = versions[i]
      BY <2>7, <2>10, <3>1
    <3>3. \A k \in hits : versions[k].semver = c.min
      BY <2>6, <2>10 DEF Satisfies
    <3>4. \A k \in hits : Below(versions[k].semver, answer.semver)
      BY <2>1, <3>2, <3>3, BelowOrders
    <3> QED
      BY <2>5, <2>8, <2>10, <3>2, <3>4
  <2>11. CASE hits # {} /\ c.type # "="
    <3> DEFINE v == [i \in 1 .. n |-> versions[i].semver]
    <3>1. v \in [1 .. n -> Triples \cup {NotSemver}] /\ \A i \in hits : v[i] = versions[i].semver
      BY <2>3, <2>6
    <3>2. \E i \in hits : Top(i)
      <4> HIDE DEF v
      <4>1. PICK i \in hits : /\ \A k \in hits : Below(v[k], v[i])
                              /\ \A k \in hits : v[k] = v[i] => k <= i
        <5>1. hits \in SUBSET (1 .. n) /\ \A i \in hits : v[i] \in Triples
          BY <2>6, <3>1
        <5> QED
          BY <2>11, <3>1, <5>1, Highest
      <4>2. Top(i)
        BY <3>1, <4>1
      <4> QED
        BY <4>2
    <3>3. PICK i \in hits : answer = versions[i] /\ Top(i)
      BY <2>7, <2>11, <3>2
    <3> QED
      BY <2>5, <2>8, <2>11, <3>3
  <2> QED
    BY <2>9, <2>10, <2>11
<1> QED
  BY <1>1, <1>2
-----------------------------------------------------------------------------
(* Doubled is what a number is after it has been doubled that many times.  *)
LEMMA DoubledDefined ==
  ASSUME NEW delay \in Nat, NEW n \in Nat
  PROVE  \E g \in [0 .. n -> Nat] :
            /\ g[0] = delay
            /\ \A i \in 1 .. n : g[i] = 2 * g[i - 1]
            /\ Doubled(delay, n) = g[n]
<1> DEFINE step == [i \in 1 .. n |-> [d \in Nat |-> 2 * d]]
           Is(f) == f = [i \in 0 .. n |-> IF i = 0 THEN delay ELSE 2 * f[i - 1]]
<1>1. step \in [1 .. n -> [Nat -> Nat]] /\ \A i \in 1 .. n : \A d \in Nat : step[i][d] = 2 * d
  OBVIOUS
<1> HIDE DEF step
<1>2. PICK g \in [0 .. n -> Nat] : Recursive(g, n, delay, step)
  BY <1>1, RecursionDefined
<1>3. g[0] = delay /\ \A i \in 1 .. n : g[i] = 2 * g[i - 1]
  <2>1. \A i \in 1 .. n : i \in 0 .. n /\ i # 0 /\ i - 1 \in 0 .. n
    OBVIOUS
  <2>2. \A i \in 1 .. n : g[i] = step[i][g[i - 1]]
    BY <1>2, <2>1 DEF Recursive
  <2>3. g[0] = delay
    BY <1>2 DEF Recursive
  <2> QED
    BY <1>1, <2>1, <2>2, <2>3
<1>4. Is(g)
  <2>1. \A i \in 0 .. n : g[i] = IF i = 0 THEN delay ELSE 2 * g[i - 1]
    BY <1>3
  <2> QED
    BY <2>1
<1>5. ASSUME NEW f, Is(f) PROVE f = g
  <2>1. f = [i \in 0 .. n |-> f[i]] /\ f[0] = delay
    BY <1>5
  <2>2. ASSUME NEW i \in 1 .. n, f[i - 1] \in Nat PROVE f[i] = step[i][f[i - 1]]
    <3>1. i \in 0 .. n /\ i # 0
      OBVIOUS
    <3>2. f[i] = 2 * f[i - 1]
      BY <1>5, <3>1
    <3> QED
      BY <1>1, <2>2, <3>2
  <2>3. Computed(f, n, Nat, delay, step)
    BY <2>1, <2>2 DEF Computed
  <2> HIDE DEF Is
  <2> QED
    BY <1>1, <1>2, <2>3, OnlyRecursion
<1>6. Doubled(delay, n) = (CHOOSE f : Is(f))[n]
  BY DEF Doubled
<1> HIDE DEF Is
<1> QED
  BY <1>3, <1>4, <1>5, <1>6

(* Doubling once more doubles.                                             *)
LEMMA DoubledOnce ==
  ASSUME NEW delay \in Nat, NEW n \in Nat
  PROVE  /\ Doubled(delay, n) \in Nat
         /\ Doubled(delay, n + 1) = 2 * Doubled(delay, n)
<1>1. PICK g \in [0 .. n -> Nat] :
          /\ g[0] = delay
          /\ \A i \in 1 .. n : g[i] = 2 * g[i - 1]
          /\ Doubled(delay, n) = g[n]
  BY DoubledDefined
<1>2. PICK h \in [0 .. n + 1 -> Nat] :
          /\ h[0] = delay
          /\ \A i \in 1 .. n + 1 : h[i] = 2 * h[i - 1]
          /\ Doubled(delay, n + 1) = h[n + 1]
  <2>1. PICK p \in Nat : p = n + 1
    OBVIOUS
  <2>2. \E h \in [0 .. p -> Nat] :
            /\ h[0] = delay
            /\ \A i \in 1 .. p : h[i] = 2 * h[i - 1]
            /\ Doubled(delay, p) = h[p]
    BY DoubledDefined
  <2> QED
    BY <2>1, <2>2
<1> DEFINE T == {i \in 0 .. n : h[i] = g[i]}
<1>3. 0 \in T
  BY <1>1, <1>2
<1>4. ASSUME NEW k \in 0 .. n - 1, k \in T PROVE k + 1 \in T
  <2>1. k + 1 \in 1 .. n /\ k + 1 \in 1 .. n + 1 /\ (k + 1) - 1 = k
    OBVIOUS
  <2>2. h[k + 1] = 2 * h[k] /\ g[k + 1] = 2 * g[k]
    BY <1>1, <1>2, <2>1
  <2> QED
    BY <1>4, <2>1, <2>2
<1>5. n \in T
  <2> HIDE DEF T
  <2>1. 0 .. n \subseteq T
    BY <1>3, <1>4, UpToN
  <2> QED
    BY <2>1
<1>6. h[n + 1] = 2 * h[n]
  BY <1>2
<1> QED
  BY <1>1, <1>2, <1>5, <1>6

(* Delays stay within their bounds, and without jitter none is shorter     *)
(* than the one before.                                                    *)
LEMMA DelaysBounded ==
  ASSUME NEW config \in RetryConfigs, NEW skip \in BOOLEAN, NEW n \in Nat
  PROVE  /\ 0 <= CalculateDelay(config, n, skip).least
         /\ 10 * CalculateDelay(config, n, skip).most <= 13 * config.max
         /\ ~config.jitter =>
               /\ CalculateDelay(config, n, skip).most <= config.max
               /\ CalculateDelay(config, n, skip).most <= CalculateDelay(config, n + 1, skip).least
<1>1. PICK i, max \in Nat : i = config.initial /\ max = config.max
  BY DEF RetryConfigs
<1>2. BaseDelay(config, n) \in Nat /\ BaseDelay(config, n + 1) \in Nat
      /\ BaseDelay(config, n) <= BaseDelay(config, n + 1)
  <2>1. CASE config.strategy = "linear"
    <3>1. BaseDelay(config, n) = (n + 1) * i /\ BaseDelay(config, n + 1) = ((n + 1) + 1) * i
      BY <1>1, <2>1 DEF BaseDelay
    <3>2. ((n + 1) + 1) * i = (n + 1) * i + i /\ (n + 1) * i \in Nat
      OBVIOUS
    <3> QED
      BY <3>1, <3>2
  <2>2. CASE config.strategy = "fixed"
    BY <1>1, <2>2 DEF BaseDelay
  <2>3. CASE config.strategy = "exponential"
    <3>1. BaseDelay(config, n) = Doubled(i, n) /\ BaseDelay(config, n + 1) = Doubled(i, n + 1)
      BY <1>1, <2>3 DEF BaseDelay
    <3> QED
      BY <3>1, DoubledOnce
  <2> QED
    BY <2>1, <2>2, <2>3 DEF RetryConfigs
<1> DEFINE d(m) == Least(BaseDelay(config, m), config.max)
<1>3. d(n) \in Nat /\ d(n + 1) \in Nat /\ d(n) <= max /\ d(n) <= d(n + 1)
  BY <1>1, <1>2 DEF Least
<1>4. PICK a, b \in Nat : a = d(n) /\ b = d(n + 1) /\ a <= b /\ a <= max
  BY <1>3
<1>5. /\ (a * 3) \div 10 \in Nat /\ 10 * ((a * 3) \div 10) <= 3 * a
  BY SMT
<1>6. CalculateDelay(config, n, skip) =
        IF skip THEN [least |-> 0, most |-> 0]
        ELSE IF config.jitter /\ config.strategy # "fixed"
        THEN [least |-> a - (a * 3) \div 10, most |-> a + (a * 3) \div 10]
        ELSE [least |-> a - 0, most |-> a + 0]
  BY <1>4 DEF CalculateDelay
<1>7. ~config.jitter => CalculateDelay(config, n + 1, skip) =
        IF skip THEN [least |-> 0, most |-> 0] ELSE [least |-> b - 0, most |-> b + 0]
  BY <1>4 DEF CalculateDelay
<1> HIDE DEF d
<1> QED
  BY <1>1, <1>4, <1>5, <1>6, <1>7

(* The attempts that are made are the first ones.                          *)
LEMMA AttemptsAreFirst ==
  ASSUME NEW config \in RetryConfigs, NEW outcomes \in Seq(STRING),
         config.retries <= Len(outcomes)
  PROVE  \E m \in 0 .. config.retries :
            /\ Cardinality(Attempts(config, outcomes)) = m
            /\ \A k \in 1 .. m - 1 : outcomes[k] # "ok" /\ Retried(config, outcomes[k])
            /\ m < config.retries =>
                  m > 0 /\ ~ (outcomes[m] # "ok" /\ Retried(config, outcomes[m]))
<1> DEFINE Again(k) == outcomes[k] # "ok" /\ Retried(config, outcomes[k])
<1>1. PICK r \in Nat : r = config.retries
  BY DEF RetryConfigs
<1>2. Attempts(config, outcomes) = {n \in 1 .. r : \A k \in 1 .. n - 1 : Again(k)}
  <2>1. Least(config.retries, Len(outcomes)) = r
    BY <1>1 DEF Least
  <2> QED
    BY <2>1 DEF Attempts
<1> DEFINE final == {k \in 1 .. r : ~Again(k)}
<1> HIDE DEF Again
<1>3. CASE final = {}
  <2>1. Attempts(config, outcomes) = 1 .. r
    BY <1>2, <1>3
  <2>2. Cardinality(1 .. r) = r
    BY FS_Interval
  <2>3. \A k \in 1 .. r - 1 : Again(k)
    BY <1>3
  <2> QED
    BY <1>1, <2>1, <2>2, <2>3 DEF Again
<1>4. CASE final # {}
  <2>1. PICK m \in final : \A k \in final : m <= k
    <3>1. final \in SUBSET Nat
      OBVIOUS
    <3> HIDE DEF final
    <3> QED
      BY <1>4, <3>1, LeastNumber
  <2>2. m \in 1 .. r /\ ~Again(m) /\ \A k \in 1 .. m - 1 : Again(k)
    BY <2>1
  <2>3. Attempts(config, outcomes) = 1 .. m
    <3>1. ASSUME NEW n \in 1 .. r PROVE n <= m <=> \A k \in 1 .. n - 1 : Again(k)
      <4>1. CASE n <= m
        <5>1. \A k \in 1 .. n - 1 : k \in 1 .. m - 1
          BY <2>2, <4>1
        <5> QED
          BY <2>2, <4>1, <5>1
      <4>2. CASE n > m
        <5>1. m \in 1 .. n - 1
          BY <2>2, <4>2
        <5> QED
          BY <2>2, <4>2, <5>1
      <4> QED
        BY <2>2, <4>1, <4>2
    <3> QED
      BY <1>2, <2>2, <3>1
  <2>4. Cardinality(1 .. m) = m
    BY <2>2, FS_Interval
  <2> QED
    BY <1>1, <2>2, <2>3, <2>4 DEF Again
<1> QED
  BY <1>3, <1>4

(* Whatever each attempt ends with, up to MaxAttempts of them:             *)
(* RetryWithConfig makes no attempt after one that succeeds or may not be  *)
(* retried, gives up only when all have been made, and waits between them  *)
(* for as long as the strategy and its bounds say.                         *)
THEOREM RetriesAreRight ==
  ASSUME NEW config \in RetryConfigs, NEW outcomes \in Seq(STRING), NEW skip \in BOOLEAN,
         config.retries <= Len(outcomes)
  PROVE  RetryRight(config, outcomes, skip, RetryWithConfig(config, outcomes, skip))
<1>1. PICK r \in Nat : r = config.retries
  BY DEF RetryConfigs
<1>2. PICK m \in 0 .. r :
          /\ Cardinality(Attempts(config, outcomes)) = m
          /\ \A k \in 1 .. m - 1 : outcomes[k] # "ok" /\ Retried(config, outcomes[k])
          /\ m < r => m > 0 /\ ~ (outcomes[m] # "ok" /\ Retried(config, outcomes[m]))
  BY <1>1, AttemptsAreFirst
<1> DEFINE end == RetryWithConfig(config, outcomes, skip)
<1>3. /\ end.attempts = m
      /\ end.result = IF m = 0 THEN "untried" ELSE outcomes[m]
      /\ end.exhausted => m = 0 \/ (outcomes[m] # "ok" /\ Retried(config, outcomes[m]))
  BY <1>2 DEF RetryWithConfig
<1>10. end.waited = [n \in 1 .. m - 1 |-> CalculateDelay(config, n, skip)]
  BY <1>2 DEF RetryWithConfig
<1> SUFFICES RetryRight(config, outcomes, skip, end)
  OBVIOUS
<1> HIDE DEF end
<1>4. end.attempts <= config.retries
  BY <1>1, <1>2, <1>3
<1>5. \A n \in 1 .. end.attempts - 1 : outcomes[n] # "ok" /\ Retried(config, outcomes[n])
  BY <1>2, <1>3
<1>6. end.attempts < config.retries => end.result = "ok" \/ ~Retried(config, end.result)
  BY <1>1, <1>2, <1>3
<1>7. (\E n \in 1 .. end.attempts : outcomes[n] = "ok") <=> end.result = "ok"
  <2>1. CASE m = 0
    BY <1>3, <2>1
  <2>2. CASE m > 0
    <3>1. \A n \in 1 .. m : n \in 1 .. m - 1 \/ n = m
      BY <2>2
    <3> QED
      BY <1>2, <1>3, <2>2, <3>1
  <2> QED
    BY <2>1, <2>2
<1>8. end.exhausted => end.attempts = config.retries
  BY <1>1, <1>2, <1>3
<1>9. ASSUME NEW n \in DOMAIN end.waited
      PROVE  /\ 0 <= end.waited[n].least
             /\ 10 * end.waited[n].most <= 13 * config.max
             /\ ~config.jitter => /\ end.waited[n].most <= config.max
                                  /\ n > 1 => end.waited[n - 1].most <= end.waited[n].least
  <2>1. n \in 1 .. m - 1 /\ end.waited[n] = CalculateDelay(config, n, skip)
    BY <1>10
  <2>2. n > 1 => n - 1 \in Nat /\ (n - 1) + 1 = n
                 /\ end.waited[n - 1] = CalculateDelay(config, n - 1, skip)
    BY <1>10, <2>1
  <2>3. /\ 0 <= CalculateDelay(config, n, skip).least
        /\ 10 * CalculateDelay(config, n, skip).most <= 13 * config.max
        /\ ~config.jitter => CalculateDelay(config, n, skip).most <= config.max
    <3>1. PICK p \in Nat : p = n
      BY <2>1
    <3>2. /\ 0 <= CalculateDelay(config, p, skip).least
          /\ 10 * CalculateDelay(config, p, skip).most <= 13 * config.max
          /\ ~config.jitter => CalculateDelay(config, p, skip).most <= config.max
      BY DelaysBounded
    <3> QED
      BY <3>1, <3>2
  <2>4. ASSUME n > 1, ~config.jitter
        PROVE  CalculateDelay(config, n - 1, skip).most <= CalculateDelay(config, n, skip).least
    <3>1. PICK p \in Nat : p = n - 1 /\ p + 1 = n
      BY <2>2, <2>4
    <3>2. CalculateDelay(config, p, skip).most <= CalculateDelay(config, p + 1, skip).least
      BY <2>4, DelaysBounded
    <3> QED
      BY <3>1, <3>2
  <2> QED
    BY <2>1, <2>2, <2>3, <2>4
<1> QED
  BY <1>4, <1>5, <1>6, <1>7, <1>8, <1>9 DEF RetryRight
-----------------------------------------------------------------------------
(* The base of a test is one pair. *)
THEOREM BaseIsRight ==
  ASSUME NEW given, NEW env, NEW git
  PROVE  BaseRight(given, env, git, GetBaseRepoAndBranch(given, env, git))
<1> DEFINE repo == IF env.repo = Failed THEN given.repo ELSE env.repo
           branch == IF env.branch = Failed THEN given.branch ELSE env.branch
           base == GetBaseRepoAndBranch(given, env, git)
<1>1. CASE Nothing \notin {repo, branch}
  <2>1. base = [repo |-> repo, branch |-> branch, fatal |-> FALSE]
    BY <1>1, Zenon DEF GetBaseRepoAndBranch
  <2>2. base.repo = repo /\ base.branch = branch
    BY <2>1
  <2> QED
    BY <1>1, <2>2 DEF BaseRight
<1>2. CASE Nothing \in {repo, branch} /\ GitRootPath(git) = Failed
  <2>1. base = [repo |-> Nothing, branch |-> Nothing, fatal |-> TRUE]
    BY <1>2, Zenon DEF GetBaseRepoAndBranch
  <2> QED
    BY <2>1 DEF BaseRight
<1>3. CASE Nothing \in {repo, branch} /\ GitRootPath(git) # Failed
  <2>1. base = [repo |-> GetOriginURL(git), branch |-> GetOriginBranch(git), fatal |-> FALSE]
    BY <1>3, Zenon DEF GetBaseRepoAndBranch
  <2> QED
    BY <2>1 DEF BaseRight
<1> QED
  BY <1>1, <1>2, <1>3
-----------------------------------------------------------------------------
(* What the list of the files that are new is computed from.               *)
LEMMA WithNewDefined ==
  ASSUME NEW files \in Seq(STRING), NEW others \in Seq(STRING)
  PROVE  \E g \in [0 .. Len(others) -> Seq(STRING)] :
            /\ g[0] = files
            /\ \A i \in 1 .. Len(others) :
                  g[i] = IF others[i] \in ToSet(g[i - 1]) THEN g[i - 1] ELSE Append(g[i - 1], others[i])
            /\ WithNew(files, others) = g[Len(others)]
<1> DEFINE n == Len(others)
           next(i, s) == IF others[i] \in ToSet(s) THEN s ELSE Append(s, others[i])
           step == [i \in 1 .. n |-> [s \in Seq(STRING) |-> next(i, s)]]
           value(f, i) == IF i = 0 THEN files
                          ELSE IF others[i] \in ToSet(f[i - 1]) THEN f[i - 1]
                          ELSE Append(f[i - 1], others[i])
           Is(f) == f = [i \in 0 .. n |-> value(f, i)]
<1>1. /\ step \in [1 .. n -> [Seq(STRING) -> Seq(STRING)]]
      /\ \A i \in 1 .. n : \A s \in Seq(STRING) :
            step[i][s] = IF others[i] \in ToSet(s) THEN s ELSE Append(s, others[i])
  <2>1. n \in Nat /\ \A i \in 1 .. n : others[i] \in STRING
    OBVIOUS
  <2>2. \A i \in 1 .. n : \A s \in Seq(STRING) : next(i, s) \in Seq(STRING)
    <3> SUFFICES ASSUME NEW i \in 1 .. n, NEW s \in Seq(STRING) PROVE next(i, s) \in Seq(STRING)
      OBVIOUS
    <3>1. Append(s, others[i]) \in Seq(STRING)
      BY <2>1
    <3> QED
      BY <3>1, Zenon
  <2>3. /\ step \in [1 .. n -> [Seq(STRING) -> Seq(STRING)]]
        /\ \A i \in 1 .. n : \A s \in Seq(STRING) : step[i][s] = next(i, s)
    <3> HIDE DEF next
    <3> QED
      BY <2>2
  <2> QED
    BY <2>3
<1> HIDE DEF step
<1>2. n \in Nat
  OBVIOUS
<1>3. PICK g \in [0 .. n -> Seq(STRING)] : Recursive(g, n, files, step)
  <2> HIDE DEF n
  <2> QED
    BY <1>1, <1>2, RecursionDefined
<1>4. /\ g[0] = files
      /\ \A i \in 1 .. n :
            g[i] = IF others[i] \in ToSet(g[i - 1]) THEN g[i - 1] ELSE Append(g[i - 1], others[i])
  <2> HIDE DEF n
  <2>1. \A i \in 1 .. n : i \in 0 .. n /\ i # 0 /\ i - 1 \in 0 .. n
    BY <1>2
  <2>2. \A i \in 1 .. n : g[i] = step[i][g[i - 1]]
    BY <1>3, <2>1 DEF Recursive
  <2>3. g[0] = files
    <3>1. 0 \in 0 .. n
      BY <1>2
    <3>2. g[0] = IF 0 = 0 THEN files ELSE step[0][g[0 - 1]]
      BY <1>3, <3>1, Zenon DEF Recursive
    <3> QED
      BY <3>2, Zenon
  <2> QED
    BY <1>1, <2>1, <2>2, <2>3
<1>5. Is(g)
  <2>1. ASSUME NEW i \in 0 .. n PROVE g[i] = value(g, i)
    <3>1. i = 0 \/ i \in 1 .. n
      BY <1>2
    <3>2. i \in 1 .. n => i # 0
      BY <1>2
    <3> QED
      BY <1>4, <3>1, <3>2, Zenon
  <2> HIDE DEF value, n
  <2> QED
    BY <2>1
<1>6. ASSUME NEW f, Is(f) PROVE f = g
  <2>1. f = [i \in 0 .. n |-> f[i]] /\ f[0] = files
    BY <1>2, <1>6
  <2>2. ASSUME NEW i \in 1 .. n, f[i - 1] \in Seq(STRING) PROVE f[i] = step[i][f[i - 1]]
    <3>1. i \in 0 .. n /\ i # 0
      BY <1>2
    <3>2. f[i] = IF others[i] \in ToSet(f[i - 1]) THEN f[i - 1] ELSE Append(f[i - 1], others[i])
      BY <1>6, <3>1
    <3> QED
      BY <1>1, <2>2, <3>2
  <2>3. Computed(f, n, Seq(STRING), files, step)
    BY <2>1, <2>2 DEF Computed
  <2> HIDE DEF Is, n
  <2> QED
    BY <1>1, <1>2, <1>3, <2>3, OnlyRecursion
<1>7. WithNew(files, others) = (CHOOSE f : Is(f))[n]
  BY DEF WithNew
<1> HIDE DEF Is
<1> QED
  BY <1>4, <1>5, <1>6, <1>7

\* What is true of a list once the first i others have been looked at.
NewUpTo(s, i, files, others) ==
    /\ ToSet(s) = ToSet(files) \cup {others[k] : k \in 1 .. i}
    /\ \A j, k \in 1 .. Len(s) : s[j] = s[k] => j = k \/ s[j] \in ToSet(files)

(* One more file is looked at.                                             *)
LEMMA OneMoreFile ==
  ASSUME NEW files \in Seq(STRING), NEW others \in Seq(STRING), NEW s \in Seq(STRING),
         NEW i \in 1 .. Len(others), NewUpTo(s, i - 1, files, others)
  PROVE  NewUpTo(IF others[i] \in ToSet(s) THEN s ELSE Append(s, others[i]), i, files, others)
<1>1. {others[k] : k \in 1 .. i} = {others[k] : k \in 1 .. i - 1} \cup {others[i]}
  <2>1. 1 .. i = (1 .. i - 1) \cup {i}
    OBVIOUS
  <2> QED
    BY <2>1
<1>2. CASE others[i] \in ToSet(s)
  BY <1>1, <1>2 DEF NewUpTo
<1>3. CASE others[i] \notin ToSet(s)
  <2> DEFINE t == Append(s, others[i])
  <2>1. /\ others[i] \in STRING /\ Len(s) \in Nat
        /\ t \in Seq(STRING) /\ Len(t) = Len(s) + 1 /\ t[Len(s) + 1] = others[i]
        /\ \A k \in 1 .. Len(s) : t[k] = s[k] /\ s[k] \in ToSet(s)
    BY DEF ToSet
  <2> HIDE DEF t
  <2>2. ToSet(t) = ToSet(s) \cup {others[i]}
    <3>1. ASSUME NEW x \in ToSet(t) PROVE x \in ToSet(s) \cup {others[i]}
      <4>1. PICK k \in 1 .. Len(t) : x = t[k]
        BY <2>1 DEF ToSet
      <4>2. k \in 1 .. Len(s) \/ k = Len(s) + 1
        BY <2>1
      <4> QED
        BY <2>1, <4>1, <4>2
    <3>2. ASSUME NEW x \in ToSet(s) PROVE x \in ToSet(t)
      <4>1. PICK k \in 1 .. Len(s) : x = s[k]
        BY DEF ToSet
      <4>2. k \in 1 .. Len(t) /\ x = t[k]
        BY <2>1, <4>1
      <4> QED
        <5>1. k \in DOMAIN t
          BY <2>1, <4>2
        <5> QED
          BY <4>2, <5>1, Zenon DEF ToSet
    <3>3. others[i] \in ToSet(t)
      <4>1. Len(s) + 1 \in 1 .. Len(t)
        BY <2>1
      <4> QED
        BY <2>1, <4>1 DEF ToSet
    <3> QED
      BY <3>1, <3>2, <3>3
  <2>3. ASSUME NEW j \in 1 .. Len(t), NEW k \in 1 .. Len(t), t[j] = t[k]
        PROVE  j = k \/ t[j] \in ToSet(files)
    <3>1. (j \in 1 .. Len(s) \/ j = Len(s) + 1) /\ (k \in 1 .. Len(s) \/ k = Len(s) + 1)
      BY <2>1
    <3> QED
      BY <1>3, <2>1, <2>3, <3>1 DEF NewUpTo
  <2>4. NewUpTo(t, i, files, others)
    BY <1>1, <2>2, <2>3 DEF NewUpTo
  <2> QED
    BY <1>3, <2>4 DEF t
<1> QED
  BY <1>2, <1>3

(* The list that is made: every file is in it, and those that are new once. *)
LEMMA WithNewIsRight ==
  ASSUME NEW files \in Seq(STRING), NEW others \in Seq(STRING)
  PROVE  /\ WithNew(files, others) \in Seq(STRING)
         /\ ToSet(WithNew(files, others)) = ToSet(files) \cup ToSet(others)
         /\ \A j, k \in 1 .. Len(WithNew(files, others)) :
               WithNew(files, others)[j] = WithNew(files, others)[k] =>
                  j = k \/ WithNew(files, others)[j] \in ToSet(files)
<1>1. PICK g \in [0 .. Len(others) -> Seq(STRING)] :
          /\ g[0] = files
          /\ \A i \in 1 .. Len(others) :
                g[i] = IF others[i] \in ToSet(g[i - 1]) THEN g[i - 1] ELSE Append(g[i - 1], others[i])
          /\ WithNew(files, others) = g[Len(others)]
  BY WithNewDefined
<1> DEFINE n == Len(others)
           T == {i \in 0 .. n : NewUpTo(g[i], i, files, others)}
<1>2. n \in Nat
  OBVIOUS
<1>3. 0 \in T
  <2>1. NewUpTo(files, 0, files, others)
    <3>1. \A j \in 1 .. Len(files) : files[j] \in ToSet(files)
      BY DEF ToSet
    <3>2. {others[k] : k \in 1 .. 0} = {}
      OBVIOUS
    <3> QED
      BY <3>1, <3>2 DEF NewUpTo
  <2> QED
    BY <1>1, <1>2, <2>1
<1>4. ASSUME NEW k \in 0 .. n - 1, k \in T PROVE k + 1 \in T
  <2>1. PICK p \in 1 .. n : p = k + 1 /\ p - 1 = k
    BY <1>2
  <2>2. g[k] \in Seq(STRING) /\ NewUpTo(g[k], p - 1, files, others)
    BY <1>4, <1>2, <2>1
  <2>3. NewUpTo(IF others[p] \in ToSet(g[k]) THEN g[k] ELSE Append(g[k], others[p]), p, files, others)
    BY <2>2, OneMoreFile
  <2>4. g[p] = IF others[p] \in ToSet(g[k]) THEN g[k] ELSE Append(g[k], others[p])
    BY <1>1, <2>1
  <2> QED
    BY <2>1, <2>3, <2>4
<1>5. NewUpTo(g[n], n, files, others) /\ g[n] \in Seq(STRING)
  <2> HIDE DEF T, n
  <2>1. 0 .. n \subseteq T
    BY <1>2, <1>3, <1>4, UpToN
  <2>2. n \in T
    BY <1>2, <2>1
  <2> QED
    BY <2>2 DEF T, n
<1>6. {others[k] : k \in 1 .. n} = ToSet(others)
  BY DEF ToSet
<1> QED
  BY <1>1, <1>5, <1>6 DEF NewUpTo

(* The files of one list after another.                                    *)
LEMMA FilesOfBoth ==
  ASSUME NEW s \in Seq(STRING), NEW t \in Seq(STRING)
  PROVE  ToSet(s \o t) = ToSet(s) \cup ToSet(t)
<1>1. /\ Len(s) \in Nat /\ Len(t) \in Nat
      /\ DOMAIN (s \o t) = 1 .. Len(s) + Len(t)
      /\ \A i \in 1 .. Len(s) : (s \o t)[i] = s[i]
      /\ \A i \in 1 .. Len(t) : (s \o t)[Len(s) + i] = t[i]
  OBVIOUS
<1>2. ASSUME NEW x \in ToSet(s \o t) PROVE x \in ToSet(s) \cup ToSet(t)
  <2>1. PICK k \in 1 .. Len(s) + Len(t) : x = (s \o t)[k]
    BY <1>1 DEF ToSet
  <2>2. CASE k \in 1 .. Len(s)
    BY <1>1, <2>1, <2>2 DEF ToSet
  <2>3. CASE k \notin 1 .. Len(s)
    <3>1. PICK i \in 1 .. Len(t) : k = Len(s) + i
      <4>1. k - Len(s) \in 1 .. Len(t) /\ k = Len(s) + (k - Len(s))
        BY <1>1, <2>3
      <4> QED
        BY <4>1
    <3> QED
      BY <1>1, <2>1, <3>1 DEF ToSet
  <2> QED
    BY <2>2, <2>3
<1>3. ASSUME NEW x \in ToSet(s) PROVE x \in ToSet(s \o t)
  <2>1. PICK k \in 1 .. Len(s) : x = s[k]
    BY DEF ToSet
  <2>2. k \in DOMAIN (s \o t) /\ x = (s \o t)[k]
    BY <1>1, <2>1
  <2> QED
    BY <2>2 DEF ToSet
<1>4. ASSUME NEW x \in ToSet(t) PROVE x \in ToSet(s \o t)
  <2>1. PICK k \in 1 .. Len(t) : x = t[k]
    BY DEF ToSet
  <2>2. Len(s) + k \in DOMAIN (s \o t) /\ x = (s \o t)[Len(s) + k]
    BY <1>1, <2>1
  <2> QED
    BY <2>2 DEF ToSet
<1> QED
  BY <1>2, <1>3, <1>4

(* Every file that has changed is in the list once.                        *)
THEOREM ChangesAreRight ==
  ASSUME NEW git, git \in [status : Listing, unpushed : Listing, lastCommit : Listing]
  PROVE  ChangesRight(git, ChangesToBePush(git))
<1> DEFINE unpushed == Listed(IF git.unpushed.ok THEN git.unpushed ELSE git.lastCommit)
           changes == ChangesToBePush(git)
           files == WithNew(git.status.files, unpushed.files)
<1>1. git.status \in Listing /\ git.unpushed \in Listing /\ git.lastCommit \in Listing
  OBVIOUS
<1>2. /\ git.status.files \in Seq(STRING)
      /\ unpushed.files \in Seq(STRING)
      /\ unpushed.blank \in BOOLEAN
      /\ git.unpushed.ok => unpushed = git.unpushed
  <2>1. \A l \in Listing : l.files \in Seq(STRING) /\ l.blank \in BOOLEAN
    BY DEF Listing
  <2>2. \A l \in Listing : Listed(l).files \in Seq(STRING) /\ Listed(l).blank \in BOOLEAN
                            /\ (l.ok => Listed(l) = l)
    <3> SUFFICES ASSUME NEW l \in Listing
                 PROVE  /\ Listed(l).files \in Seq(STRING) /\ Listed(l).blank \in BOOLEAN
                        /\ (l.ok => Listed(l) = l)
      OBVIOUS
    <3>1. CASE l.ok
      BY <2>1, <3>1 DEF Listed
    <3>2. CASE ~l.ok
      <4>1. Listed(l) = [ok |-> FALSE, files |-> <<>>, blank |-> FALSE]
        BY <3>2 DEF Listed
      <4>2. <<>> \in Seq(STRING)
        OBVIOUS
      <4> QED
        BY <3>2, <4>1, <4>2
    <3> QED
      BY <3>1, <3>2
  <2> QED
    BY <1>1, <2>1, <2>2
<1>3. CASE git.status.ok
  <2>1. /\ changes.changes = (git.status.files # <<>> \/ unpushed.files # <<>> \/ unpushed.blank)
        /\ changes.files = files
        /\ changes.error = FALSE
    BY <1>3 DEF ChangesToBePush
  <2>2. /\ files \in Seq(STRING)
        /\ ToSet(files) = ToSet(git.status.files) \cup ToSet(unpushed.files)
        /\ \A j, k \in 1 .. Len(files) : files[j] = files[k] => j = k \/ files[j] \in ToSet(git.status.files)
    <3> HIDE DEF unpushed
    <3> QED
      BY <1>2, WithNewIsRight
  <2> HIDE DEF changes, files
  <2>3. files # <<>> => changes.changes
    <3>1. SUFFICES ASSUME files # <<>> PROVE git.status.files # <<>> \/ unpushed.files # <<>>
      BY <2>1
    <3>2. PICK x \in ToSet(files) : TRUE
      BY <2>2, <3>1 DEF ToSet
    <3> HIDE DEF unpushed
    <3>3. \A s : s = <<>> => ToSet(s) = {}
      BY DEF ToSet
    <3> QED
      BY <2>2, <3>2, <3>3
  <2>4. git.unpushed.ok => ToSet(files) = ToSet(git.status.files \o git.unpushed.files)
    BY <1>2, <2>2, FilesOfBoth
  <2>5. \A j, k \in DOMAIN files : files[j] = files[k] => j = k \/ files[j] \in ToSet(git.status.files)
    BY <2>2
  <2> HIDE DEF unpushed
  <2> QED
    BY <1>3, <2>1, <2>2, <2>3, <2>4, <2>5 DEF ChangesRight, changes
<1>4. CASE ~git.status.ok
  BY <1>4 DEF ChangesToBePush, ChangesRight
<1> QED
  BY <1>3, <1>4
-----------------------------------------------------------------------------
(* A name that is not found is taken for the first.                        *)
LEMMA IndexOfIsOne ==
  ASSUME NEW names \in Seq(STRING), names # <<>>, NEW name
  PROVE  IndexOf(names, name) \in 1 .. Len(names)
<1> DEFINE found == {i \in 1 .. Len(names) : names[i] = name}
<1>1. CASE name \in ToSet(names)
  <2>1. found # {} /\ found \in SUBSET Nat
    BY <1>1 DEF ToSet
  <2>2. PICK m \in found : \A k \in found : m <= k
    BY <2>1, LeastNumber
  <2>3. m \in DOMAIN names /\ names[m] = name /\ \A k \in 1 .. m - 1 : names[k] # name
    BY <2>2
  <2>4. IndexOf(names, name) \in DOMAIN names
    BY <1>1, <2>3 DEF IndexOf
  <2> QED
    BY <2>4
<1>2. CASE name \notin ToSet(names)
  <2>1. 1 \in 1 .. Len(names)
    OBVIOUS
  <2> QED
    BY <1>2, <2>1 DEF IndexOf
<1> QED
  BY <1>1, <1>2

(* The flavor whose configuration is read is one of the catalog's.         *)
LEMMA FlavorIsOne ==
  ASSUME NEW t, StackTask(t), NEW product, NEW flavor
  PROVE  Flavor(t.catalog, product, flavor).configuration \in Seq(CatalogEntry)
<1> DEFINE Flavors == [name : STRING, configuration : Seq(CatalogEntry)]
           Products == [name : STRING, flavors : Seq(Flavors)]
<1>1. /\ t.catalog \in Seq(Products) /\ t.catalog # <<>>
      /\ \A i \in 1 .. Len(t.catalog) : t.catalog[i].flavors # <<>>
  BY DEF StackTask
<1>2. PICK c \in Seq(Products) : c = t.catalog
  BY <1>1
<1> DEFINE names == [i \in DOMAIN c |-> c[i].name]
           p == c[IndexOf(names, product)]
           theirs == [i \in DOMAIN p.flavors |-> p.flavors[i].name]
           f == p.flavors[IndexOf(theirs, flavor)]
<1>3. \A q \in Products : q.name \in STRING /\ q.flavors \in Seq(Flavors)
  OBVIOUS
<1>4. \A q \in Flavors : q.name \in STRING /\ q.configuration \in Seq(CatalogEntry)
  OBVIOUS
<1>5. p \in Products /\ p.flavors # <<>>
  <2> HIDE DEF Products, Flavors
  <2>1. names \in Seq(STRING) /\ names # <<>> /\ Len(names) = Len(c)
    <3>1. PICK m \in Nat : m = Len(c) /\ DOMAIN c = 1 .. m /\ m # 0
      BY <1>1, <1>2
    <3>2. \A i \in 1 .. m : c[i].name \in STRING
      BY <1>3, <3>1
    <3>3. names \in [1 .. m -> STRING] /\ DOMAIN names = 1 .. m
      BY <3>1, <3>2
    <3> HIDE DEF names
    <3>4. names \in Seq(STRING) /\ Len(names) = m
      BY <3>3, SeqFromFunction
    <3> QED
      BY <3>1, <3>4
  <2>2. IndexOf(names, product) \in 1 .. Len(c)
    BY <2>1, IndexOfIsOne
  <2>3. PICK k \in 1 .. Len(c) : k = IndexOf(names, product)
    BY <2>2
  <2>4. c[k] \in Products /\ c[k].flavors # <<>>
    BY <1>1, <1>2
  <2> QED
    BY <2>3, <2>4, Zenon
<1>6. f \in Flavors
  <2> HIDE DEF Products, p
  <2>0. p.flavors \in Seq(Flavors)
    BY <1>3, <1>5
  <2>1. theirs \in Seq(STRING) /\ theirs # <<>> /\ Len(theirs) = Len(p.flavors)
    <3> HIDE DEF Flavors
    <3>1. PICK m \in Nat : m = Len(p.flavors) /\ DOMAIN p.flavors = 1 .. m /\ m # 0
      BY <1>5, <2>0
    <3>2. \A i \in 1 .. m : p.flavors[i].name \in STRING
      BY <1>4, <2>0, <3>1
    <3>3. theirs \in [1 .. m -> STRING] /\ DOMAIN theirs = 1 .. m
      BY <3>1, <3>2
    <3> HIDE DEF theirs
    <3>4. theirs \in Seq(STRING) /\ Len(theirs) = m
      BY <3>3, SeqFromFunction
    <3> QED
      BY <3>1, <3>4
  <2>2. IndexOf(theirs, flavor) \in 1 .. Len(p.flavors)
    BY <2>1, IndexOfIsOne
  <2>3. PICK k \in 1 .. Len(p.flavors) : k = IndexOf(theirs, flavor)
    BY <2>2
  <2>4. p.flavors[k] \in Flavors
    <3> HIDE DEF Flavors
    <3> QED
      BY <2>0
  <2> QED
    BY <2>3, <2>4, Zenon
<1>7. Flavor(t.catalog, product, flavor) = f
  BY <1>2, Zenon DEF Flavor
<1> HIDE DEF f, Flavors
<1> QED
  BY <1>4, <1>6, <1>7

\* An input of a stack's definition.
DeclaredInput == [name : STRING, type : STRING, default : InputValues]

GivenOK(given) == \A n \in DOMAIN given : given[n] \in InputValues

(* What a value is made of is a value.                                     *)
LEMMA ValuesMade ==
  ASSUME NEW v \in InputValues
  PROVE  AsText(v) \in InputValues /\ \A type : Taken(type, v) \in InputValues
<1>1. v.go \in GoTypes /\ v.is \in InputContents /\ v.number \in Int /\ v.truth \in {"", "true", "false"}
  BY DEF InputValues
<1>2. \A go \in GoTypes : \A is \in InputContents : \A number \in Int : \A truth \in {"", "true", "false"} :
         InputValue(go, is, number, truth) \in InputValues
  BY DEF InputValue, InputValues
<1>3. "string" \in GoTypes /\ "int64" \in GoTypes /\ "bool" \in GoTypes
  BY DEF GoTypes
<1>4. Null \in InputContents /\ 0 \in Int /\ "" \in {"", "true", "false"}
  BY InputContentsAssumption
<1>5. AsText(v) \in InputValues
  BY <1>1, <1>2, <1>3, Zenon DEF AsText
<1>6. /\ InputValue("int64", Null, v.number, "") \in InputValues
      /\ InputValue("bool", Null, 0, v.truth) \in InputValues
  BY <1>1, <1>2, <1>3, <1>4, Zenon
<1>7. \A type : Taken(type, v) \in InputValues
  BY <1>6, Zenon DEF Taken
<1> QED
  BY <1>5, <1>7

(* The value of an entry of the catalog, and of an input of the stack file. *)
LEMMA ValuesAre ==
  ASSUME NEW given, GivenOK(given)
  PROVE  /\ \A input \in CatalogEntry : EntryValue(input, given) \in InputValues
         /\ \A in \in FileInput : StackValue(in, given) \in InputValues
<1>1. \A input \in CatalogEntry : input.default \in InputValues
  BY DEF CatalogEntry
<1>2. \A in \in FileInput : in.default \in InputValues
  BY DEF FileInput
<1>3. InputValue("string", "__NULL__", 0, "") \in InputValues
  <2>1. "__NULL__" \in InputContents
    BY InputContentsAssumption
  <2>2. "string" \in GoTypes
    BY DEF GoTypes
  <2> QED
    BY <2>1, <2>2 DEF InputValue, InputValues
<1>4. \A input \in CatalogEntry : EntryValue(input, given) \in InputValues
  BY <1>1, Zenon DEF EntryValue, GivenOK
<1>5. \A in \in FileInput : StackValue(in, given) \in InputValues
  BY <1>2, <1>3, Zenon DEF StackValue, GivenOK
<1> QED
  BY <1>4, <1>5

(* The first input of a name, where there is one.                          *)
LEMMA FirstRowIs ==
  ASSUME NEW d \in Seq(DeclaredInput), NEW input, RowsOf(d, input) # {}
  PROVE  FirstRow(d, input) \in 1 .. Len(d) /\ d[FirstRow(d, input)].name = input.key
<1> DEFINE at == RowsOf(d, input)
           x == FirstRow(d, input)
<1>1. at \in SUBSET Nat
  BY DEF RowsOf
<1>2. x \in at
  <2>1. \E m \in at : \A j \in at : m <= j
    <3> HIDE DEF at
    <3> QED
      BY <1>1, LeastNumber DEF at
  <2> QED
    BY <2>1 DEF FirstRow
<1> HIDE DEF x
<1> QED
  BY <1>2 DEF RowsOf, x

(* What an input of the catalog makes of the definition is a definition.   *)
LEMMA UpdateType ==
  ASSUME NEW d \in Seq(DeclaredInput), NEW input \in CatalogEntry, NEW given,
         GivenOK(given)
  PROVE  UpdateInput(d, input, given) \in Seq(DeclaredInput)
<1> DEFINE value == AsText(EntryValue(input, given))
           i == FirstRow(d, input)
           more == [name |-> input.key, type |-> input.type, default |-> input.default]
<1>1. input.key \in STRING /\ input.type \in STRING /\ input.default \in InputValues
  BY DEF CatalogEntry
<1>2. \A type : Taken(type, value) \in InputValues
  BY ValuesAre, ValuesMade
<1>3. Append(d, more) \in Seq(DeclaredInput)
  <2>1. more \in DeclaredInput
    BY <1>1 DEF DeclaredInput
  <2> QED
    BY <2>1
<1>4. ASSUME RowsOf(d, input) # {}
      PROVE  [d EXCEPT ![i].default = Taken(d[i].type, value)] \in Seq(DeclaredInput)
  <2> HIDE DEF i, value
  <2>1. PICK k \in 1 .. Len(d) : k = i
    BY <1>4, FirstRowIs DEF i
  <2>2. PICK new \in InputValues : new = Taken(d[k].type, value)
    BY <1>2
  <2>3. d[k] \in DeclaredInput
    OBVIOUS
  <2>4. [d[k] EXCEPT !.default = new] \in DeclaredInput
    BY <2>3 DEF DeclaredInput
  <2>5. [d EXCEPT ![k].default = new] \in Seq(DeclaredInput)
    BY <2>4
  <2> QED
    BY <2>1, <2>2, <2>5
<1>5. UpdateInput(d, input, given) =
        IF value.go = "nil" THEN d
        ELSE IF RowsOf(d, input) = {} THEN Append(d, more)
        ELSE IF Takes(d[i].type, value) THEN [d EXCEPT ![i].default = Taken(d[i].type, value)] ELSE d
  BY Zenon DEF UpdateInput
<1> HIDE DEF value, more, i
<1> QED
  BY <1>3, <1>4, <1>5

(* What the definition is computed from.                                   *)
LEMMA UpdatesDefined ==
  ASSUME NEW d \in Seq(DeclaredInput), NEW c \in Seq(CatalogEntry), NEW given,
         GivenOK(given)
  PROVE  \E g \in [0 .. Len(c) -> Seq(DeclaredInput)] :
            /\ g[0] = d
            /\ \A i \in 1 .. Len(c) : g[i] = UpdateInput(g[i - 1], c[i], given)
            /\ Updates(d, c, given) = g
<1> DEFINE V == Seq(DeclaredInput)
           n == Len(c)
           step == [i \in 1 .. n |-> [s \in V |-> UpdateInput(s, c[i], given)]]
           Is(f) == f = [i \in 0 .. n |-> IF i = 0 THEN d ELSE UpdateInput(f[i - 1], c[i], given)]
<1>1. /\ step \in [1 .. n -> [V -> V]]
      /\ \A i \in 1 .. n : \A s \in V : step[i][s] = UpdateInput(s, c[i], given)
  <2>1. \A i \in 1 .. n : \A s \in V : UpdateInput(s, c[i], given) \in V
    <3>1. \A i \in 1 .. n : c[i] \in CatalogEntry
      OBVIOUS
    <3> QED
      BY <3>1, UpdateType
  <2> HIDE DEF V, n
  <2> QED
    BY <2>1
<1> HIDE DEF step
<1>2. n \in Nat /\ d \in V
  OBVIOUS
<1> HIDE DEF V, n
<1>3. PICK g \in [0 .. n -> V] : Recursive(g, n, d, step)
  BY <1>1, <1>2, RecursionDefined
<1>4. g[0] = d /\ \A i \in 1 .. n : g[i] = UpdateInput(g[i - 1], c[i], given)
  <2>1. \A i \in 1 .. n : i \in 0 .. n /\ i # 0 /\ i - 1 \in 0 .. n
    BY <1>2
  <2>2. \A i \in 1 .. n : g[i] = step[i][g[i - 1]]
    BY <1>3, <2>1 DEF Recursive
  <2>3. g[0] = d
    BY <1>2, <1>3 DEF Recursive
  <2> QED
    BY <1>1, <2>1, <2>2, <2>3
<1>5. Is(g)
  <2>1. \A i \in 0 .. n : g[i] = IF i = 0 THEN d ELSE UpdateInput(g[i - 1], c[i], given)
    BY <1>2, <1>4
  <2> QED
    BY <2>1
<1>6. ASSUME NEW f, Is(f) PROVE f = g
  <2>1. f = [i \in 0 .. n |-> f[i]] /\ f[0] = d
    BY <1>2, <1>6
  <2>2. ASSUME NEW i \in 1 .. n, f[i - 1] \in V PROVE f[i] = step[i][f[i - 1]]
    <3>1. i \in 0 .. n /\ i # 0
      BY <1>2
    <3>2. f[i] = UpdateInput(f[i - 1], c[i], given)
      BY <1>6, <3>1
    <3> QED
      BY <1>1, <2>2, <3>2
  <2>3. Computed(f, n, V, d, step)
    BY <2>1, <2>2 DEF Computed
  <2> HIDE DEF Is
  <2> QED
    BY <1>1, <1>2, <1>3, <2>3, OnlyRecursion
<1>7. Updates(d, c, given) = (CHOOSE f : Is(f))
  BY DEF Updates, n
<1> HIDE DEF Is
<1> QED
  BY <1>4, <1>5, <1>6, <1>7 DEF n, V

(* An entry of the catalog that may give an input of the definition its value. *)
Gives(row, entry) == entry.key = row.name /\ Takes(row.type, AsText(entry.default))

\* What an input of a type keeps of a value that the test gives.
KeptOrTaken(type, v) == {v} \cup (IF Takes(type, v) THEN {Taken(type, v)} ELSE {})

\* The input of the definition for one of the stack file, once the first i entries of the
\* catalog have been looked at.
RowUpTo(row, in, i, c, given) ==
    /\ row.name = in.name /\ row.type = in.type
    /\ row.name \in DOMAIN given => row.default \in KeptOrTaken(row.type, AsText(given[row.name]))
    /\ row.name \notin DOMAIN given =>
          /\ \A j \in 1 .. i : Gives(row, c[j]) => row.default = Taken(row.type, AsText(c[j].default))
          /\ (\A j \in 1 .. i : ~Gives(row, c[j])) => row.default = AsText(StackValue(in, given))

\* One that is not in the stack file.
AddedUpTo(row, i, c) ==
    /\ row.name = "ibmcloud_api_key"
    /\ \E j \in 1 .. i : c[j].key = row.name /\ c[j].default = row.default

OnceEach(d) == \A k, m \in 1 .. Len(d) : d[k].name = d[m].name => k = m

UpdatedUpTo(d, i, inputs, c, given) ==
    /\ Len(inputs) <= Len(d)
    /\ OnceEach(d)
    /\ \A k \in 1 .. Len(inputs) : RowUpTo(d[k], inputs[k], i, c, given)
    /\ \A k \in Len(inputs) + 1 .. Len(d) : AddedUpTo(d[k], i, c)

KeysOnce(c) == \A k, m \in 1 .. Len(c) : c[k].key = c[m].key => k = m

(* An input of the definition that an entry leaves alone.                  *)
LEMMA RowLeft ==
  ASSUME NEW row \in DeclaredInput, NEW in \in FileInput, NEW c \in Seq(CatalogEntry), NEW given,
         NEW i \in 1 .. Len(c), RowUpTo(row, in, i - 1, c, given),
         row.name \in DOMAIN given \/ ~Gives(row, c[i])
  PROVE  RowUpTo(row, in, i, c, given)
<1>1. 1 .. i = (1 .. i - 1) \cup {i}
  OBVIOUS
<1> QED
  BY <1>1 DEF RowUpTo

(* One that it gives its value.                                            *)
LEMMA RowGiven ==
  ASSUME NEW row \in DeclaredInput, NEW in \in FileInput, NEW c \in Seq(CatalogEntry), NEW given,
         NEW i \in 1 .. Len(c), RowUpTo(row, in, i - 1, c, given), KeysOnce(c),
         row.name \notin DOMAIN given, Gives(row, c[i])
  PROVE  RowUpTo([row EXCEPT !.default = Taken(row.type, AsText(c[i].default))], in, i, c, given)
<1> DEFINE new == [row EXCEPT !.default = Taken(row.type, AsText(c[i].default))]
<1>1. /\ new.name = row.name /\ new.type = row.type
      /\ new.default = Taken(row.type, AsText(c[i].default))
  BY DEF DeclaredInput
<1> HIDE DEF new
<1>2. Gives(new, c[i])
  BY <1>1 DEF Gives
<1>3. ASSUME NEW j \in 1 .. i, Gives(new, c[j]) PROVE j = i
  <2>1. j \in 1 .. Len(c) /\ c[j].key = c[i].key
    BY <1>2, <1>3 DEF Gives
  <2> QED
    BY <2>1 DEF KeysOnce
<1>4. i \in 1 .. i
  OBVIOUS
<1>5. RowUpTo(new, in, i, c, given)
  BY <1>1, <1>2, <1>3, <1>4 DEF RowUpTo
<1> QED
  BY <1>5 DEF new

(* An entry is looked at.                                                  *)
LEMMA UpdateKeeps ==
  ASSUME NEW inputs \in Seq(FileInput), NEW d \in Seq(DeclaredInput),
         NEW c \in Seq(CatalogEntry), NEW given, NEW i \in 1 .. Len(c), KeysOnce(c),
         UpdatedUpTo(d, i - 1, inputs, c, given),
         c[i].key = "ibmcloud_api_key" \/ \E k \in 1 .. Len(inputs) : inputs[k].name = c[i].key
  PROVE  UpdatedUpTo(UpdateInput(d, c[i], given), i, inputs, c, given)
<1> DEFINE value == AsText(EntryValue(c[i], given))
           at == RowsOf(d, c[i])
           x == FirstRow(d, c[i])
           more == [name |-> c[i].key, type |-> c[i].type, default |-> c[i].default]
<1>1. /\ c[i] \in CatalogEntry
      /\ \A k \in 1 .. Len(d) : d[k] \in DeclaredInput
      /\ \A k \in 1 .. Len(inputs) : inputs[k] \in FileInput
      /\ Len(inputs) \in Nat /\ Len(d) \in Nat /\ Len(inputs) <= Len(d)
  BY DEF UpdatedUpTo
<1>2. UpdateInput(d, c[i], given) =
        IF value.go = "nil" THEN d
        ELSE IF at = {} THEN Append(d, more)
        ELSE IF Takes(d[x].type, value) THEN [d EXCEPT ![x].default = Taken(d[x].type, value)] ELSE d
  BY Zenon DEF UpdateInput
<1>0. c[i].key \notin DOMAIN given => value = AsText(c[i].default)
  BY DEF EntryValue
<1>3. ASSUME NEW k \in Len(inputs) + 1 .. Len(d) PROVE AddedUpTo(d[k], i, c)
  <2>1. AddedUpTo(d[k], i - 1, c)
    BY DEF UpdatedUpTo
  <2>2. \A j \in 1 .. i - 1 : j \in 1 .. i
    OBVIOUS
  <2> QED
    BY <2>1, <2>2 DEF AddedUpTo
\* Nothing is changed when no input can be given the entry's value.
<1>4. ASSUME \A k \in 1 .. Len(d) : d[k].name \in DOMAIN given \/ ~Gives(d[k], c[i])
      PROVE  UpdatedUpTo(d, i, inputs, c, given)
  <2>1. ASSUME NEW k \in 1 .. Len(inputs) PROVE RowUpTo(d[k], inputs[k], i, c, given)
    <3>1. k \in 1 .. Len(d) /\ RowUpTo(d[k], inputs[k], i - 1, c, given)
      BY <1>1 DEF UpdatedUpTo
    <3>2. d[k] \in DeclaredInput /\ inputs[k] \in FileInput
      BY <1>1, <3>1
    <3> QED
      BY <1>4, <3>1, <3>2, RowLeft
  <2> QED
    BY <1>3, <2>1 DEF UpdatedUpTo
<1>5. CASE value.go = "nil"
  <2> HIDE DEF value
  <2>0. \A type : ~Takes(type, value)
    BY <1>5, "string" # "nil", "int" # "nil", "float64" # "nil", "bool" # "nil" DEF Takes
  <2>1. \A k \in 1 .. Len(d) : d[k].name \in DOMAIN given \/ ~Gives(d[k], c[i])
    BY <1>0, <2>0 DEF Gives
  <2> QED
    BY <1>2, <1>4, <1>5, <2>1, Zenon
<1>6. CASE value.go # "nil" /\ at = {}
  <2> DEFINE t == Append(d, more)
  <2>1. /\ more \in DeclaredInput
        /\ more.name = c[i].key /\ more.default = c[i].default
    BY <1>1 DEF DeclaredInput, CatalogEntry
  <2> HIDE DEF more
  <2>2. /\ t \in Seq(DeclaredInput) /\ Len(t) = Len(d) + 1 /\ t[Len(d) + 1] = more
        /\ \A k \in 1 .. Len(d) : t[k] = d[k]
    BY <2>1
  <2> HIDE DEF t
  <2>3. \A k \in 1 .. Len(d) : d[k].name # more.name
    BY <1>6, <2>1 DEF RowsOf
  <2>4. OnceEach(t)
    <3> SUFFICES ASSUME NEW k \in 1 .. Len(t), NEW m \in 1 .. Len(t), t[k].name = t[m].name PROVE k = m
      BY DEF OnceEach
    <3>1. (k \in 1 .. Len(d) \/ k = Len(d) + 1) /\ (m \in 1 .. Len(d) \/ m = Len(d) + 1)
      BY <1>1, <2>2
    <3> QED
      BY <2>2, <2>3, <3>1 DEF UpdatedUpTo, OnceEach
  <2>5. \A k \in 1 .. Len(inputs) : inputs[k].name # c[i].key
    <3>1. \A k \in 1 .. Len(inputs) : k \in 1 .. Len(d) /\ d[k].name = inputs[k].name
      BY <1>1 DEF UpdatedUpTo, RowUpTo
    <3> QED
      BY <2>1, <2>3, <3>1
  <2>6. AddedUpTo(more, i, c)
    <3>1. i \in 1 .. i
      OBVIOUS
    <3> QED
      BY <2>1, <2>5, <3>1 DEF AddedUpTo
  <2>7. ASSUME NEW k \in Len(inputs) + 1 .. Len(t) PROVE AddedUpTo(t[k], i, c)
    <3>1. k \in Len(inputs) + 1 .. Len(d) \/ k = Len(d) + 1
      BY <1>1, <2>2
    <3>2. CASE k \in Len(inputs) + 1 .. Len(d)
      <4>1. t[k] = d[k]
        BY <1>1, <2>2, <3>2
      <4> QED
        BY <1>3, <3>2, <4>1
    <3> QED
      BY <2>2, <2>6, <3>1, <3>2
  <2>8. \A k \in 1 .. Len(d) : d[k].name \in DOMAIN given \/ ~Gives(d[k], c[i])
    BY <2>1, <2>3 DEF Gives
  <2>9. ASSUME NEW k \in 1 .. Len(inputs) PROVE RowUpTo(t[k], inputs[k], i, c, given)
    <3>1. t[k] = d[k]
      BY <1>1, <2>2
    <3> QED
      BY <1>4, <2>8, <3>1 DEF UpdatedUpTo
  <2>a. Len(inputs) <= Len(t)
    BY <1>1, <2>2
  <2>b. UpdatedUpTo(t, i, inputs, c, given)
    BY <2>4, <2>7, <2>9, <2>a DEF UpdatedUpTo
  <2>c. UpdateInput(d, c[i], given) = t
    BY <1>2, <1>6, Zenon DEF t
  <2> QED
    BY <2>b, <2>c
<1>7. CASE value.go # "nil" /\ at # {}
  <2>1. x \in 1 .. Len(d) /\ d[x].name = c[i].key
    BY <1>7, FirstRowIs
  <2> HIDE DEF x
  <2>2. ASSUME NEW k \in 1 .. Len(d), k # x PROVE ~Gives(d[k], c[i])
    BY <2>1, <2>2 DEF UpdatedUpTo, OnceEach, Gives
  <2>3. CASE ~Takes(d[x].type, value)
    <3>0. c[i].key \notin DOMAIN given => ~Gives(d[x], c[i])
      <4> HIDE DEF value
      <4> QED
        BY <1>0, <2>3 DEF Gives
    <3>1. \A k \in 1 .. Len(d) : d[k].name \in DOMAIN given \/ ~Gives(d[k], c[i])
      BY <2>1, <2>2, <3>0
    <3> QED
      BY <1>2, <1>4, <1>7, <2>3, <3>1, Zenon
  <2>4. CASE Takes(d[x].type, value)
    <3> DEFINE made == Taken(d[x].type, value)
               t == [d EXCEPT ![x].default = made]
               new == [d[x] EXCEPT !.default = made]
    <3>1. UpdateInput(d, c[i], given) = t
      BY <1>2, <1>7, <2>4, Zenon
    <3>2. /\ DOMAIN t = 1 .. Len(d) /\ Len(t) = Len(d) /\ t[x] = new
          /\ \A k \in 1 .. Len(d) : k # x => t[k] = d[k]
      <4> HIDE DEF made
      <4> QED
        BY <2>1
    <3>3. new.name = d[x].name /\ new.type = d[x].type /\ new.default = made
      <4> HIDE DEF made
      <4> QED
        BY <1>1, <2>1 DEF DeclaredInput
    <3>4. x \in 1 .. Len(inputs)
      <4> SUFFICES ASSUME x \notin 1 .. Len(inputs) PROVE FALSE
        OBVIOUS
      <4>1. x \in Len(inputs) + 1 .. Len(d)
        BY <1>1, <2>1
      <4>2. PICK j \in 1 .. i - 1 : c[j].key = d[x].name
        BY <4>1 DEF UpdatedUpTo, AddedUpTo
      <4>3. j \in 1 .. Len(c) /\ i \in 1 .. Len(c) /\ j # i
        OBVIOUS
      <4> QED
        BY <2>1, <4>2, <4>3 DEF KeysOnce
    <3>5. RowUpTo(new, inputs[x], i, c, given)
      <4>1. RowUpTo(d[x], inputs[x], i - 1, c, given) /\ d[x] \in DeclaredInput /\ inputs[x] \in FileInput
        BY <1>1, <2>1, <3>4 DEF UpdatedUpTo
      <4>2. CASE c[i].key \in DOMAIN given
        <5>1. value = AsText(given[d[x].name]) /\ d[x].name \in DOMAIN given
          BY <2>1, <4>2 DEF EntryValue
        <5> HIDE DEF new, value
        <5>2. new.default \in KeptOrTaken(new.type, AsText(given[new.name]))
          BY <2>4, <3>3, <5>1 DEF KeptOrTaken, made
        <5> QED
          BY <3>3, <4>1, <5>1, <5>2 DEF RowUpTo
      <4>3. CASE c[i].key \notin DOMAIN given
        <5> HIDE DEF value
        <5>1. /\ value = AsText(c[i].default) /\ Gives(d[x], c[i])
              /\ d[x].name \notin DOMAIN given
          BY <1>0, <2>1, <2>4, <4>3 DEF Gives
        <5>2. RowUpTo([d[x] EXCEPT !.default = Taken(d[x].type, AsText(c[i].default))],
                      inputs[x], i, c, given)
          BY <4>1, <5>1, RowGiven
        <5> QED
          BY <5>1, <5>2
      <4> QED
        BY <4>2, <4>3
    <3> HIDE DEF t, new, value, made
    <3>6. ASSUME NEW k \in 1 .. Len(inputs) PROVE RowUpTo(t[k], inputs[k], i, c, given)
      <4>1. CASE k = x
        BY <3>2, <3>5, <4>1
      <4>2. CASE k # x
        <5>1. k \in 1 .. Len(d) /\ t[k] = d[k] /\ RowUpTo(d[k], inputs[k], i - 1, c, given)
          BY <1>1, <3>2, <4>2 DEF UpdatedUpTo
        <5>2. d[k] \in DeclaredInput /\ inputs[k] \in FileInput
          BY <1>1, <5>1
        <5> QED
          BY <2>2, <4>2, <5>1, <5>2, RowLeft
      <4> QED
        BY <4>1, <4>2
    <3>7. ASSUME NEW k \in Len(inputs) + 1 .. Len(t) PROVE AddedUpTo(t[k], i, c)
      <4>1. k # x /\ k \in 1 .. Len(d) /\ k \in Len(inputs) + 1 .. Len(d)
        BY <1>1, <3>2, <3>4
      <4> QED
        BY <1>3, <3>2, <4>1
    <3>8. OnceEach(t)
      <4>1. \A k \in 1 .. Len(d) : t[k].name = d[k].name
        BY <2>1, <3>2, <3>3
      <4> QED
        BY <3>2, <4>1 DEF OnceEach, UpdatedUpTo
    <3>9. UpdatedUpTo(t, i, inputs, c, given)
      BY <1>1, <3>2, <3>6, <3>7, <3>8 DEF UpdatedUpTo
    <3> QED
      BY <3>1, <3>9
  <2> QED
    BY <2>3, <2>4
<1> QED
  BY <1>5, <1>6, <1>7

(* All entries are looked at.                                              *)
LEMMA UpdatesRight ==
  ASSUME NEW inputs \in Seq(FileInput), NEW d \in Seq(DeclaredInput),
         NEW c \in Seq(CatalogEntry), NEW given, KeysOnce(c),
         GivenOK(given),
         UpdatedUpTo(d, 0, inputs, c, given),
         \A i \in 1 .. Len(c) : c[i].key = "ibmcloud_api_key"
                                \/ \E k \in 1 .. Len(inputs) : inputs[k].name = c[i].key
  PROVE  /\ Updates(d, c, given)[Len(c)] \in Seq(DeclaredInput)
         /\ UpdatedUpTo(Updates(d, c, given)[Len(c)], Len(c), inputs, c, given)
<1>1. PICK g \in [0 .. Len(c) -> Seq(DeclaredInput)] :
            /\ g[0] = d
            /\ \A i \in 1 .. Len(c) : g[i] = UpdateInput(g[i - 1], c[i], given)
            /\ Updates(d, c, given) = g
  BY UpdatesDefined
<1> DEFINE n == Len(c)
           T == {i \in 0 .. n : UpdatedUpTo(g[i], i, inputs, c, given)}
<1>2. n \in Nat
  OBVIOUS
<1>3. 0 \in T
  BY <1>1, <1>2
<1>4. ASSUME NEW k \in 0 .. n - 1, k \in T PROVE k + 1 \in T
  <2>1. PICK p \in 1 .. n : p = k + 1 /\ p - 1 = k
    BY <1>2
  <2>2. g[k] \in Seq(DeclaredInput) /\ UpdatedUpTo(g[k], p - 1, inputs, c, given)
    BY <1>4, <1>2, <2>1
  <2>3. UpdatedUpTo(UpdateInput(g[k], c[p], given), p, inputs, c, given)
    BY <2>2, UpdateKeeps
  <2>4. g[p] = UpdateInput(g[k], c[p], given)
    BY <1>1, <2>1
  <2> QED
    BY <2>1, <2>3, <2>4
<1>5. UpdatedUpTo(g[n], n, inputs, c, given) /\ g[n] \in Seq(DeclaredInput)
  <2> HIDE DEF T, n
  <2>1. 0 .. n \subseteq T
    BY <1>2, <1>3, <1>4, UpToN
  <2>2. n \in T
    BY <1>2, <2>1
  <2> QED
    BY <2>2 DEF T, n
<1> QED
  BY <1>1, <1>5

(* A list without duplicates has every name once.                          *)
LEMMA NoDuplicateInputs ==
  /\ \A d \in Seq(DeclaredInput) : HasDuplicates(d, LAMBDA x : x.name) <=> ~OnceEach(d)
  /\ \A d \in Seq(FileInput) : HasDuplicates(d, LAMBDA x : x.name) <=> ~OnceEach(d)
BY DEF HasDuplicates, OnceEach

(* The same of the entries of a catalog.                                   *)
LEMMA NoDuplicateKeys ==
  ASSUME NEW c \in Seq(CatalogEntry)
  PROVE  HasDuplicates(c, LAMBDA x : x.key) <=> ~KeysOnce(c)
BY DEF HasDuplicates, KeysOnce

(* What the catalog is compared with: an entry whose input the stack file  *)
(* does not have is the API key's.                                         *)
LEMMA EntryIsDeclared ==
  ASSUME NEW stack, stack.inputs \in Seq(FileInput), NEW input \in CatalogEntry,
         Mismatches(stack, input) = {}
  PROVE  input.key = "ibmcloud_api_key" \/ \E k \in 1 .. Len(stack.inputs) : stack.inputs[k].name = input.key
<1> SUFFICES ASSUME input.key # "ibmcloud_api_key",
                    {i \in DOMAIN stack.inputs : stack.inputs[i].name = input.key} = {}
             PROVE  FALSE
  OBVIOUS
<1>1. Mismatches(stack, input) = {"extra"}
  BY Zenon DEF Mismatches
<1> QED
  BY <1>1

(* The definition that the stack file and the test make together.          *)
LEMMA StackIO ==
  ASSUME NEW stack, stack.inputs \in Seq(FileInput), NEW given, GivenOK(given),
         OnceEach(stack.inputs), NEW c
  PROVE  /\ DefineStackIO(stack, given) \in Seq(DeclaredInput)
         /\ UpdatedUpTo(DefineStackIO(stack, given), 0, stack.inputs, c, given)
<1>1. PICK inputs \in Seq(FileInput) : inputs = stack.inputs
  OBVIOUS
<1> DEFINE default(in) == AsText(StackValue(in, given))
           row(in) == [name |-> in.name, type |-> in.type, default |-> default(in)]
           d == DefineStackIO(stack, given)
<1>2. \A in \in FileInput : default(in) \in InputValues /\ in.name \in STRING /\ in.type \in STRING
  <2>1. \A in \in FileInput : default(in) \in InputValues
    BY ValuesAre, ValuesMade
  <2> QED
    BY <2>1 DEF FileInput
<1>3. d = [k \in 1 .. Len(inputs) |-> row(inputs[k])]
  <2>1. DOMAIN stack.inputs = 1 .. Len(inputs)
    BY <1>1
  <2> QED
    BY <1>1, <2>1 DEF DefineStackIO
<1> HIDE DEF default
<1>4. \A k \in 1 .. Len(inputs) : inputs[k] \in FileInput
  OBVIOUS
<1>5. \A in \in FileInput : row(in) \in DeclaredInput /\ row(in).name = in.name
                                /\ row(in).type = in.type /\ row(in).default = default(in)
  BY <1>2 DEF DeclaredInput
<1> HIDE DEF row, d
<1>6. /\ d \in Seq(DeclaredInput) /\ Len(d) = Len(inputs)
      /\ \A k \in 1 .. Len(d) : d[k] = row(inputs[k])
  BY <1>3, <1>4, <1>5
<1>7. OnceEach(d)
  BY <1>1, <1>4, <1>5, <1>6 DEF OnceEach
<1>8. ASSUME NEW k \in 1 .. Len(inputs) PROVE RowUpTo(d[k], inputs[k], 0, c, given)
  <2>1. inputs[k] \in FileInput /\ d[k] = row(inputs[k])
    BY <1>4, <1>6
  <2>2. \A j \in 1 .. 0 : FALSE
    OBVIOUS
  <2> QED
    <3>1. d[k].name \in DOMAIN given => AsText(StackValue(inputs[k], given)) = AsText(given[d[k].name])
      BY <1>5, <2>1 DEF StackValue
    <3> QED
      BY <1>5, <2>1, <2>2, <3>1 DEF RowUpTo, default, KeptOrTaken
<1>9. UpdatedUpTo(d, 0, inputs, c, given)
  <2>1. \A k \in Len(inputs) + 1 .. Len(d) : FALSE
    BY <1>6
  <2> QED
    BY <1>6, <1>7, <1>8, <2>1 DEF UpdatedUpTo
<1> QED
  BY <1>1, <1>6, <1>9 DEF d

(* The input of the stack file with a name, where each has its own.        *)
LEMMA OnlyInput ==
  ASSUME NEW inputs \in Seq(FileInput), OnceEach(inputs), NEW k \in 1 .. Len(inputs)
  PROVE  {s \in ToSet(inputs) : s.name = inputs[k].name} = {inputs[k]}
<1>1. inputs[k] \in ToSet(inputs)
  BY DEF ToSet
<1>2. ASSUME NEW s \in ToSet(inputs), s.name = inputs[k].name PROVE s = inputs[k]
  <2>1. PICK m \in 1 .. Len(inputs) : s = inputs[m]
    BY DEF ToSet
  <2> QED
    BY <1>2, <2>1 DEF OnceEach
<1> QED
  BY <1>1, <1>2

\* What the entries of the catalog give an input.
TakenOf(row, c) ==
    {Taken(row.type, AsText(e.default)) :
        e \in {x \in {y \in ToSet(c) : y.key = row.name} : Takes(row.type, AsText(x.default))}}
WrittenOf(row, inputs, given) ==
    {AsText(StackValue(i, given)) : i \in {s \in ToSet(inputs) : s.name = row.name}}
RightOf(row, inputs, c, given) ==
    IF row.name \in DOMAIN given THEN KeptOrTaken(row.type, AsText(given[row.name]))
    ELSE IF TakenOf(row, c) # {} THEN TakenOf(row, c)
    ELSE WrittenOf(row, inputs, given)

(* The value that an input of the stack file ends with.                    *)
LEMMA ValueIsRight ==
  ASSUME NEW inputs \in Seq(FileInput), OnceEach(inputs), NEW k \in 1 .. Len(inputs),
         NEW c \in Seq(CatalogEntry), NEW given, NEW row \in DeclaredInput,
         RowUpTo(row, inputs[k], Len(c), c, given)
  PROVE  row.default \in RightOf(row, inputs, c, given)
<1>1. row.name = inputs[k].name
  BY DEF RowUpTo
<1>2. WrittenOf(row, inputs, given) = {AsText(StackValue(inputs[k], given))}
  <2>1. {s \in ToSet(inputs) : s.name = row.name} = {inputs[k]}
    BY <1>1, OnlyInput, Zenon
  <2> QED
    BY <2>1, Zenon DEF WrittenOf
<1>3. \A x : x \in TakenOf(row, c) <=>
              \E j \in 1 .. Len(c) : Gives(row, c[j]) /\ x = Taken(row.type, AsText(c[j].default))
  <2>1. \A e : e \in ToSet(c) <=> \E j \in 1 .. Len(c) : e = c[j]
    BY DEF ToSet
  <2> QED
    BY <2>1, Zenon DEF TakenOf, Gives
<1>4. CASE row.name \in DOMAIN given
  BY <1>4, Zenon DEF RowUpTo, RightOf
<1>5. CASE row.name \notin DOMAIN given /\ TakenOf(row, c) # {}
  <2>1. PICK j \in 1 .. Len(c) : Gives(row, c[j])
    BY <1>3, <1>5
  <2>2. row.default = Taken(row.type, AsText(c[j].default))
    BY <1>5, <2>1 DEF RowUpTo
  <2>3. row.default \in TakenOf(row, c)
    BY <1>3, <2>1, <2>2
  <2> QED
    BY <1>5, <2>3, Zenon DEF RightOf
<1>6. CASE row.name \notin DOMAIN given /\ TakenOf(row, c) = {}
  <2>1. \A j \in 1 .. Len(c) : ~Gives(row, c[j])
    BY <1>3, <1>6
  <2>2. row.default = AsText(StackValue(inputs[k], given))
    BY <1>6, <2>1 DEF RowUpTo
  <2> QED
    BY <1>2, <1>6, <2>2, Zenon DEF RightOf
<1> QED
  BY <1>4, <1>5, <1>6

\* The values that the test, the stack file and the catalog have.
ValuesIn(inputs, c, given) ==
    {given[n] : n \in DOMAIN given} \cup {s.default : s \in ToSet(inputs)} \cup {e.default : e \in ToSet(c)}

(* A panic is over a value that is no text.                                *)
LEMMA PanicsOver ==
  ASSUME NEW inputs \in Seq(FileInput), NEW c \in Seq(CatalogEntry), NEW given, NEW u,
         \/ \E i \in DOMAIN inputs : NoText(StackValue(inputs[i], given))
         \/ \E i \in DOMAIN c : UpdatePanics(u[i - 1], c[i], given)
  PROVE  \E v \in ValuesIn(inputs, c, given) : AsText(v).go # "string"
<1>1. /\ "nil" # "string" /\ "[nil]" # "string"
      /\ "nil" # "[]interface {}" /\ "[nil]" # "[]interface {}"
  OBVIOUS
<1>2. CASE \E i \in DOMAIN inputs : NoText(StackValue(inputs[i], given))
  <2>1. PICK i \in DOMAIN inputs : NoText(StackValue(inputs[i], given))
    BY <1>2
  <2>2. inputs[i] \in ToSet(inputs)
    BY DEF ToSet
  <2>3. ~NoText(InputValue("string", "__NULL__", 0, ""))
    BY DEF NoText, InputValue
  <2>4. PICK v \in ValuesIn(inputs, c, given) : v = StackValue(inputs[i], given)
    BY <2>1, <2>2, <2>3, Zenon DEF StackValue, ValuesIn
  <2>5. NoText(v)
    BY <2>1, <2>4
  <2>6. AsText(v).go # "string"
    BY <1>1, <2>5 DEF NoText, AsText
  <2> QED
    BY <2>6
<1>3. CASE \E i \in DOMAIN c : UpdatePanics(u[i - 1], c[i], given)
  <2>1. PICK i \in DOMAIN c : UpdatePanics(u[i - 1], c[i], given)
    BY <1>3
  <2>2. c[i] \in ToSet(c)
    BY DEF ToSet
  <2>3. PICK v \in ValuesIn(inputs, c, given) : v = EntryValue(c[i], given)
    BY <2>2, Zenon DEF EntryValue, ValuesIn
  <2>4. PICK type : NoText(AsText(v)) \/ Refuses(type, AsText(v))
    BY <2>1, <2>3, Zenon DEF UpdatePanics
  <2>5. AsText(v).go # "string"
    BY <1>1, <2>4 DEF NoText, Refuses
  <2> QED
    BY <2>5
<1> QED
  BY <1>2, <1>3

(* The value of every input of the stack file comes from the test, or else *)
(* from the catalog where its type takes the catalog's, or else from the   *)
(* stack file, converted for its type; every name is there once; and a     *)
(* panic is over a value that is no text: CreateStackFromConfigFile for    *)
(* all files and inputs.                                                   *)
THEOREM DefinitionIsRight ==
  ASSUME NEW t, StackTask(t), NEW product, NEW flavor
  PROVE  DefinitionRight(t.stack, t.catalog, t.given, product, flavor,
                         CreateStackFromConfigFile(t.stack, t.catalog, t.given, product, flavor))
<1> DEFINE stack == t.stack
           given == t.given
           c == Flavor(t.catalog, product, flavor).configuration
           result == CreateStackFromConfigFile(stack, t.catalog, given, product, flavor)
           u == Updates(DefineStackIO(stack, given), c, given)
           made == u[Len(c)]
           inputs == stack.inputs
           names == {s.name : s \in ToSet(inputs)}
           said(n) == {e.default : e \in {x \in ToSet(c) : x.key = n}}
           ends(m) == /\ ~HasDuplicates(m, LAMBDA d : d.name)
                      /\ names \subseteq {d.name : d \in ToSet(m)}
                      /\ \A d \in ToSet(m) :
                            IF d.name \in names THEN d.default \in RightOf(d, inputs, c, given)
                            ELSE d.name = "ibmcloud_api_key" /\ d.default \in said(d.name)
<1>1. stack.inputs \in Seq(FileInput) /\ GivenOK(given) /\ c \in Seq(CatalogEntry)
  BY FlavorIsOne DEF StackTask, GivenOK
<1>b. ASSUME result.panics PROVE \E v \in ValuesIn(inputs, c, given) : AsText(v).go # "string"
  <2>1. \/ \E i \in DOMAIN inputs : NoText(StackValue(inputs[i], given))
        \/ \E i \in DOMAIN c : UpdatePanics(u[i - 1], c[i], given)
    BY <1>b DEF CreateStackFromConfigFile
  <2> HIDE DEF u, c, inputs, given
  <2> QED
    BY <1>1, <2>1, PanicsOver DEF inputs
<1>c. ASSUME ~result.error, ~result.panics PROVE ends(result.definition)
  <2>2. /\ ~HasDuplicates(stack.inputs, LAMBDA x : x.name)
        /\ ~HasDuplicates(c, LAMBDA x : x.key)
        /\ \A i \in DOMAIN c : Mismatches(stack, c[i]) = {}
        /\ result.definition = made
    BY <1>c DEF CreateStackFromConfigFile, CheckStackForDuplicates
  <2> HIDE DEF result, made, c, stack, given, u
  <2>3. OnceEach(stack.inputs) /\ KeysOnce(c)
    BY <1>1, <2>2, NoDuplicateInputs, NoDuplicateKeys
  <2>4. \A i \in 1 .. Len(c) : c[i].key = "ibmcloud_api_key"
                              \/ \E k \in 1 .. Len(stack.inputs) : stack.inputs[k].name = c[i].key
    <3> SUFFICES ASSUME NEW i \in 1 .. Len(c)
                 PROVE  c[i].key = "ibmcloud_api_key"
                        \/ \E k \in 1 .. Len(stack.inputs) : stack.inputs[k].name = c[i].key
      OBVIOUS
    <3>1. c[i] \in CatalogEntry /\ Mismatches(stack, c[i]) = {}
      BY <1>1, <2>2
    <3> QED
      BY <1>1, <3>1, EntryIsDeclared
  <2>5. /\ made \in Seq(DeclaredInput)
        /\ UpdatedUpTo(made, Len(c), stack.inputs, c, given)
    <3>1. /\ DefineStackIO(stack, given) \in Seq(DeclaredInput)
          /\ UpdatedUpTo(DefineStackIO(stack, given), 0, stack.inputs, c, given)
      BY <1>1, <2>3, StackIO
    <3> QED
      BY <1>1, <2>3, <2>4, <3>1, UpdatesRight DEF made, u
  <2>6. \A k \in 1 .. Len(inputs) :
           /\ k \in 1 .. Len(made)
           /\ made[k].name = inputs[k].name
           /\ RowUpTo(made[k], inputs[k], Len(c), c, given)
    BY <1>1, <2>5 DEF UpdatedUpTo, RowUpTo
  <2>7. \A n : n \in names <=> \E k \in 1 .. Len(inputs) : n = inputs[k].name
    <3>1. \A e : e \in ToSet(inputs) <=> \E k \in 1 .. Len(inputs) : e = inputs[k]
      BY <1>1 DEF ToSet
    <3> QED
      BY <3>1
  <2>8. ~HasDuplicates(made, LAMBDA d : d.name)
    BY <2>5, NoDuplicateInputs DEF UpdatedUpTo
  <2>9. names \subseteq {d.name : d \in ToSet(made)}
    <3>1. \A k \in 1 .. Len(made) : made[k] \in ToSet(made)
      BY <2>5 DEF ToSet
    <3> HIDE DEF names
    <3> QED
      BY <2>6, <2>7, <3>1
  <2>a. ASSUME NEW d \in ToSet(made)
        PROVE  IF d.name \in names THEN d.default \in RightOf(d, inputs, c, given)
               ELSE d.name = "ibmcloud_api_key" /\ d.default \in said(d.name)
    <3>1. PICK k \in 1 .. Len(made) : d = made[k]
      BY <2>5 DEF ToSet
    <3>2. CASE k \in 1 .. Len(inputs)
      <4>1. d.name \in names
        <5> HIDE DEF names
        <5> QED
          BY <2>6, <2>7, <3>1, <3>2
      <4>2. d \in DeclaredInput /\ RowUpTo(d, inputs[k], Len(c), c, given)
        BY <2>5, <2>6, <3>1, <3>2
      <4>3. d.default \in RightOf(d, inputs, c, given)
        BY <1>1, <2>3, <3>2, <4>2, ValueIsRight
      <4> QED
        BY <4>1, <4>3
    <3>3. CASE k \notin 1 .. Len(inputs)
      <4>1. AddedUpTo(d, Len(c), c)
        <5>1. k \in Len(inputs) + 1 .. Len(made)
          BY <1>1, <3>3
        <5> QED
          BY <2>5, <3>1, <5>1 DEF UpdatedUpTo
      <4>2. d.name \notin names
        <5> SUFFICES ASSUME d.name \in names PROVE FALSE
          OBVIOUS
        <5>1. PICK m \in 1 .. Len(inputs) : d.name = inputs[m].name
          BY <2>7
        <5> QED
          BY <2>5, <2>6, <3>1, <3>3, <5>1 DEF UpdatedUpTo, OnceEach
      <4>3. d.default \in said(d.name)
        <5>1. PICK j \in 1 .. Len(c) : c[j].key = d.name /\ c[j].default = d.default
          BY <4>1 DEF AddedUpTo
        <5>2. c[j] \in ToSet(c)
          BY <1>1 DEF ToSet
        <5> QED
          BY <5>1, <5>2
      <4> QED
        BY <4>1, <4>2, <4>3 DEF AddedUpTo
    <3> QED
      BY <3>2, <3>3
  <2> HIDE DEF names, said, inputs
  <2>b. ends(made)
    BY <2>8, <2>9, <2>a, Zenon
  <2> HIDE DEF ends
  <2> QED
    BY <2>2, <2>b, Zenon
<1> HIDE DEF result, u, made
<1>d. result.error \/ result.panics \/ ends(result.definition)
  <2> HIDE DEF ends
  <2> QED
    BY <1>c
<1>e. result.panics => \E v \in ValuesIn(inputs, c, given) : AsText(v).go # "string"
  BY <1>b
<1>f. DefinitionRight(stack, t.catalog, given, product, flavor, result)
  BY <1>d, <1>e, Zenon DEF DefinitionRight, RightOf, TakenOf, WrittenOf, KeptOrTaken, ValuesIn
<1> QED
  BY <1>f DEF result

-----------------------------------------------------------------------------
(* What a path may have led to.                                            *)
Owners == STRING \cup {TheStack}
Sides == {"inputs", "outputs"}
Texts == STRING \cup {Unknown}
Positions(places) ==
    [at : {"stack", "members", "lost"}] \cup [at : {"member"}, owner : Owners]
    \cup [at : {"list"}, owner : Owners, side : Sides]
    \cup [at : {"slot"}, slot : DOMAIN places]

(* A slot without its value.                                               *)
Place == [owner : Owners, side : Sides, name : STRING]

(* One part further is a position again.                                   *)
LEMMA NavigationStays ==
  ASSUME NEW m \in Nat, NEW places \in [1 .. m -> Place], NEW from \in Positions(places), NEW part \in STRING
  PROVE  NavigateToPart(places, from, part) \in Positions(places)
<1> DEFINE slots == {i \in DOMAIN places : /\ from.at = "list" /\ places[i].owner = from.owner
                                           /\ places[i].side = from.side /\ places[i].name = part}
           there == NavigateToPart(places, from, part)
<1>1. slots # {} => (CHOOSE i \in slots : \A k \in slots : i <= k) \in DOMAIN places
  <2> SUFFICES ASSUME slots # {} PROVE (CHOOSE i \in slots : \A k \in slots : i <= k) \in slots
    OBVIOUS
  <2>1. slots \in SUBSET Nat
    OBVIOUS
  <2>2. \E i \in slots : \A k \in slots : i <= k
    <3> HIDE DEF slots
    <3> QED
      BY <2>1, LeastNumber
  <2> HIDE DEF slots
  <2> QED
    BY <2>2
<1> DEFINE first == CHOOSE i \in slots : \A k \in slots : i <= k
<1> DEFINE toList == from.at = "stack" /\ part \in {"inputs", "outputs"}
           toMembers == from.at = "stack" /\ part = "members"
           toMember == from.at \in {"stack", "members"} /\ part \in Members(places)
           toListOf == from.at = "member" /\ part \in {"inputs", "outputs"}
<1>2. there = CASE toList -> [at |-> "list", owner |-> TheStack, side |-> part]
                [] toMembers -> [at |-> "members"]
                [] toMember -> [at |-> "member", owner |-> part]
                [] toListOf -> [at |-> "list", owner |-> from.owner, side |-> part]
                [] slots # {} -> [at |-> "slot", slot |-> first]
                [] OTHER -> Lost
  BY Zenon DEF NavigateToPart
<1>3. from.at = "member" => from.owner \in Owners
  BY DEF Positions
<1>4. toList => [at |-> "list", owner |-> TheStack, side |-> part] \in Positions(places)
  BY DEF Owners, Sides, Positions
<1>5. [at |-> "members"] \in Positions(places) /\ Lost \in Positions(places)
  BY DEF Positions, Lost
<1>6. [at |-> "member", owner |-> part] \in Positions(places)
  BY DEF Owners, Sides, Positions
<1>7. toListOf => [at |-> "list", owner |-> from.owner, side |-> part] \in Positions(places)
  BY <1>3 DEF Sides, Positions
<1>8. slots # {} => [at |-> "slot", slot |-> first] \in Positions(places)
  <2> HIDE DEF slots
  <2> SUFFICES ASSUME slots # {} PROVE [at |-> "slot", slot |-> first] \in Positions(places)
    OBVIOUS
  <2>1. first \in DOMAIN places
    BY <1>1
  <2> HIDE DEF first
  <2> QED
    BY <2>1 DEF Positions
<1> HIDE DEF slots, first, toList, toMembers, toMember, toListOf
<1> QED
  BY <1>2, <1>4, <1>5, <1>6, <1>7, <1>8, Zenon

(* The loop of a definition by recursion: what it is, once it is known     *)
(* that every turn keeps to a set.                                         *)
LEMMA LoopDefined ==
  ASSUME NEW n \in Nat, NEW V, NEW base \in V, NEW step \in [1 .. n -> [V -> V]]
  PROVE  \E g \in [0 .. n -> V] :
            /\ g[0] = base
            /\ \A i \in 1 .. n : g[i] = step[i][g[i - 1]]
            /\ \A f : Computed(f, n, V, base, step) => f = g
<1>1. PICK g \in [0 .. n -> V] : Recursive(g, n, base, step)
  BY RecursionDefined
<1>2. g[0] = base /\ \A i \in 1 .. n : g[i] = step[i][g[i - 1]]
  BY <1>1 DEF Recursive
<1>3. ASSUME NEW f, Computed(f, n, V, base, step) PROVE f = g
  BY <1>1, <1>3, OnlyRecursion
<1> QED
  BY <1>2, <1>3

(* A path leads to a position.                                             *)
LEMMA TargetIsPosition ==
  ASSUME NEW m \in Nat, NEW places \in [1 .. m -> Place], NEW path \in Seq(STRING)
  PROVE  Target(places, path) \in Positions(places)
<1>1. PICK n \in Nat : n = Len(path)
  OBVIOUS
<1> DEFINE V == Positions(places)
           base == [at |-> "stack"]
<1>2. base \in V
  BY DEF Positions
<1>3. ASSUME NEW i \in 1 .. n, NEW from \in V PROVE Step(places, from, path[i]) \in V
  <2>1. path[i] \in STRING
    BY <1>1
  <2>2. NavigateToPart(places, from, path[i]) \in V
    BY <2>1, NavigationStays
  <2> QED
    BY <2>2, Zenon DEF Step
<1> DEFINE step == [i \in 1 .. n |-> [from \in V |-> Step(places, from, path[i])]]
           Is(f) == f = [i \in 0 .. n |-> IF i = 0 THEN base ELSE Step(places, f[i - 1], path[i])]
<1>4. Target(places, path) = (CHOOSE f : Is(f))[n]
  BY <1>1, Zenon DEF Target
<1> HIDE DEF V, base
<1>5. step \in [1 .. n -> [V -> V]]
  BY <1>3
<1>6. \A i \in 1 .. n : \A from \in V : step[i][from] = Step(places, from, path[i])
  OBVIOUS
<1> HIDE DEF step
<1>7. PICK g \in [0 .. n -> V] :
         /\ g[0] = base
         /\ \A i \in 1 .. n : g[i] = step[i][g[i - 1]]
         /\ \A f : Computed(f, n, V, base, step) => f = g
  BY <1>2, <1>5, LoopDefined
<1>8. Is(g)
  <2>1. ASSUME NEW i \in 1 .. n PROVE g[i] = Step(places, g[i - 1], path[i])
    <3>1. g[i - 1] \in V
      BY <1>7
    <3> QED
      BY <1>6, <1>7, <3>1
  <2>2. \A i \in 0 .. n : g[i] = IF i = 0 THEN base ELSE Step(places, g[i - 1], path[i])
    BY <1>7, <2>1
  <2> QED
    BY <2>2
<1>9. ASSUME NEW f, Is(f) PROVE f = g
  <2>1. f = [i \in 0 .. n |-> IF i = 0 THEN base ELSE Step(places, f[i - 1], path[i])]
    BY <1>9, Zenon
  <2> HIDE DEF Is
  <2>2. f[0] = base
    BY <2>1
  <2>3. \A i \in 1 .. n : f[i] = Step(places, f[i - 1], path[i])
    BY <2>1
  <2>4. Computed(f, n, V, base, step)
    BY <1>6, <2>1, <2>2, <2>3 DEF Computed
  <2> QED
    BY <1>7, <2>4
<1>10. (CHOOSE f : Is(f)) = g
  <2> HIDE DEF Is
  <2> QED
    BY <1>8, <1>9
<1> HIDE DEF Is
<1> QED
  <2>1. g[n] \in V
    BY <1>7
  <2> QED
    BY <1>4, <1>10, <2>1, Zenon DEF V

(* A slot as the code keeps it.                                            *)
KeptSlot == [owner : Owners, side : Sides, name : STRING, given : Givens, isRef : BOOLEAN,
             value : Texts, resolved : BOOLEAN]

\* What is true of a slot from the start on.
Sound(r) == r.isRef <=> r.given.kind = "ref"

\* What no turn changes.
SameSlot(r, q) ==
    /\ r.owner = q.owner /\ r.side = q.side /\ r.name = q.name
    /\ r.given = q.given /\ r.isRef = q.isRef

(* Only a reference has a path, and it is one of parts.                    *)
LEMMA PathsOfGivens ==
  ASSUME NEW g \in Givens, g.kind = "ref"
  PROVE  g.path \in Seq(STRING)
BY DEF Givens, NotGiven

(* Where a reference leads to is a slot, or nowhere.                       *)
LEMMA LeadsToSlot ==
  ASSUME NEW n \in Nat, NEW s \in [1 .. n -> KeptSlot], NEW i \in 1 .. n, Sound(s[i]), s[i].isRef
  PROVE  /\ LeadsTo(s, i) \in 0 .. n
         /\ GetReferenceValue(s, s[i].given.path) =
                IF LeadsTo(s, i) = 0 THEN Unknown ELSE s[LeadsTo(s, i)].value
<1>1. Places(s) \in [1 .. n -> Place]
  BY DEF Places, Place, KeptSlot
<1>2. s[i].given.path \in Seq(STRING)
  <2>1. s[i].given \in Givens /\ s[i].given.kind = "ref"
    BY DEF KeptSlot, Sound
  <2> QED
    BY <2>1, PathsOfGivens
<1>3. PICK target \in Positions(Places(s)) : target = Target(Places(s), s[i].given.path)
  BY <1>1, <1>2, TargetIsPosition
<1>4. DOMAIN Places(s) = 1 .. n
  BY <1>1
<1>5. target.at = "slot" => target.slot \in 1 .. n
  BY <1>4 DEF Positions
<1>6. LeadsTo(s, i) = IF target.at = "slot" THEN target.slot ELSE 0
  BY <1>3, Zenon DEF LeadsTo
<1>7. GetReferenceValue(s, s[i].given.path) =
         IF target.at = "slot" THEN s[target.slot].value ELSE Unknown
  BY <1>3, Zenon DEF GetReferenceValue
<1> QED
  BY <1>5, <1>6, <1>7

(* What one turn of the pass does.                                         *)
LEMMA TurnIs ==
  ASSUME NEW n \in Nat, NEW s \in [1 .. n -> KeptSlot], NEW i \in 1 .. n, Sound(s[i])
  PROVE  /\ ResolveSlot(s, i) \in [1 .. n -> KeptSlot]
         /\ \A k \in 1 .. n : SameSlot(ResolveSlot(s, i)[k], s[k])
         /\ \A k \in 1 .. n : k # i => ResolveSlot(s, i)[k] = s[k]
         /\ ~s[i].isRef => ResolveSlot(s, i) = s
         /\ s[i].isRef =>
              /\ LeadsTo(s, i) \in 0 .. n
              /\ LeadsTo(s, i) = 0 \/ s[LeadsTo(s, i)].value = Unknown => ResolveSlot(s, i) = s
              /\ LeadsTo(s, i) # 0 /\ s[LeadsTo(s, i)].value # Unknown =>
                    /\ ResolveSlot(s, i)[i].value = s[LeadsTo(s, i)].value
                    /\ ResolveSlot(s, i)[i].resolved
<1> DEFINE value == GetReferenceValue(s, s[i].given.path)
           after == [s EXCEPT ![i].value = value, ![i].resolved = TRUE]
<1>1. ResolveSlot(s, i) = IF ~s[i].isRef THEN s ELSE IF value = Unknown THEN s ELSE after
  BY Zenon DEF ResolveSlot
<1>2. CASE ~s[i].isRef
  <2>1. \A k \in 1 .. n : SameSlot(s[k], s[k])
    BY DEF SameSlot
  <2> QED
    BY <1>1, <1>2, <2>1
<1>3. CASE s[i].isRef
  <2>1. /\ LeadsTo(s, i) \in 0 .. n
        /\ value = IF LeadsTo(s, i) = 0 THEN Unknown ELSE s[LeadsTo(s, i)].value
    BY <1>3, LeadsToSlot
  <2>2. PICK t \in 0 .. n : t = LeadsTo(s, i)
    BY <2>1
  <2> HIDE DEF value
  <2>3. value = Unknown => ResolveSlot(s, i) = s
    BY <1>1, <1>3
  <2>0. \A k \in 1 .. n : SameSlot(s[k], s[k])
    BY DEF SameSlot
  <2>4. CASE t = 0
    BY <1>3, <2>0, <2>1, <2>2, <2>3, <2>4
  <2>5. CASE t # 0 /\ s[t].value = Unknown
    BY <1>3, <2>0, <2>1, <2>2, <2>3, <2>5
  <2>6. CASE t # 0 /\ s[t].value # Unknown
    <3>1. value = s[t].value /\ value \in Texts /\ ResolveSlot(s, i) = after
      <4>1. value = s[t].value
        BY <2>1, <2>2, <2>6
      <4>2. s[t] \in KeptSlot
        BY <2>6
      <4>3. s[t].value \in Texts
        BY <4>2 DEF KeptSlot
      <4> QED
        BY <1>1, <1>3, <2>6, <4>1, <4>3
    <3>2. [s[i] EXCEPT !.value = value, !.resolved = TRUE] \in KeptSlot
      <4>1. \A r \in KeptSlot, v \in Texts : [r EXCEPT !.value = v, !.resolved = TRUE] \in KeptSlot
        BY DEF KeptSlot
      <4> QED
        BY <3>1, <4>1
    <3>6. \A r \in KeptSlot, v \in Texts :
              LET q == [r EXCEPT !.value = v, !.resolved = TRUE]
              IN  q.value = v /\ q.resolved /\ SameSlot(q, r)
      BY DEF KeptSlot, SameSlot
    <3>3. after = [s EXCEPT ![i] = [s[i] EXCEPT !.value = value, !.resolved = TRUE]]
      BY DEF KeptSlot
    <3>4. after \in [1 .. n -> KeptSlot] /\ after[i] = [s[i] EXCEPT !.value = value, !.resolved = TRUE]
      BY <3>2, <3>3
    <3>5. \A k \in 1 .. n : k # i => after[k] = s[k]
      BY <3>3
    <3>7. after[i].value = value /\ after[i].resolved /\ SameSlot(after[i], s[i])
      <4>1. s[i] \in KeptSlot
        OBVIOUS
      <4>2. PICK q : q = [s[i] EXCEPT !.value = value, !.resolved = TRUE]
        OBVIOUS
      <4>3. q.value = value /\ q.resolved /\ SameSlot(q, s[i])
        BY <3>1, <3>6, <4>1, <4>2, Zenon
      <4>4. after[i] = q
        BY <3>4, <4>2
      <4> HIDE DEF after
      <4> QED
        BY <4>3, <4>4
    <3> HIDE DEF after
    <3>8. \A k \in 1 .. n : SameSlot(after[k], s[k])
      BY <2>0, <3>5, <3>7
    <3> QED
      BY <1>3, <2>2, <2>6, <3>1, <3>4, <3>5, <3>7, <3>8
  <2> QED
    BY <2>4, <2>5, <2>6
<1> QED
  BY <1>2, <1>3

(* The stacks that differ from another one in values only.                 *)
AsBefore(n, s0) ==
    {s \in [1 .. n -> KeptSlot] : \A i \in 1 .. n : SameSlot(s[i], s0[i])}

(* Where references lead to does not change with what they are worth.      *)
LEMMA ShapeStays ==
  ASSUME NEW n \in Nat, NEW s0 \in [1 .. n -> KeptSlot], NEW s \in AsBefore(n, s0)
  PROVE  /\ \A i \in 1 .. n : /\ s[i].given = s0[i].given
                              /\ s[i].isRef = s0[i].isRef
                              /\ Sound(s0[i]) => Sound(s[i])
         /\ \A i \in 1 .. n : LeadsTo(s, i) = LeadsTo(s0, i)
<1>1. \A i \in 1 .. n : s0[i] \in KeptSlot /\ s[i] \in KeptSlot
  BY DEF AsBefore
<1>2. ASSUME NEW i \in 1 .. n
      PROVE  /\ s[i].given = s0[i].given /\ s[i].isRef = s0[i].isRef
             /\ s[i].owner = s0[i].owner /\ s[i].side = s0[i].side /\ s[i].name = s0[i].name
  BY DEF AsBefore, SameSlot
<1>3. Places(s) = Places(s0)
  <2>1. DOMAIN s = 1 .. n /\ DOMAIN s0 = 1 .. n
    BY DEF AsBefore
  <2> QED
    BY <1>2, <2>1 DEF Places
<1>4. ASSUME NEW i \in 1 .. n PROVE LeadsTo(s, i) = LeadsTo(s0, i)
  BY <1>2, <1>3, Zenon DEF LeadsTo
<1>5. ASSUME NEW i \in 1 .. n PROVE Sound(s0[i]) => Sound(s[i])
  BY <1>2 DEF Sound
<1> QED
  BY <1>2, <1>4, <1>5

(* The pass, turn by turn.                                                 *)
LEMMA PassIs ==
  ASSUME NEW n \in Nat, NEW s0 \in [1 .. n -> KeptSlot], \A i \in 1 .. n : Sound(s0[i])
  PROVE  \E p \in [0 .. n -> AsBefore(n, s0)] :
            /\ p[0] = s0
            /\ \A i \in 1 .. n : p[i] = ResolveSlot(p[i - 1], i)
            /\ Len(s0) = n => ResolveReferences(s0) = p[n]
<1> DEFINE V == AsBefore(n, s0)
<1>2. s0 \in V
  BY DEF AsBefore, SameSlot
<1>3. ASSUME NEW i \in 1 .. n, NEW s \in V PROVE ResolveSlot(s, i) \in V
  <2> DEFINE r == ResolveSlot(s, i)
  <2>1. s \in [1 .. n -> KeptSlot] /\ Sound(s[i])
    BY ShapeStays DEF AsBefore
  <2>2. r \in [1 .. n -> KeptSlot] /\ \A k \in 1 .. n : SameSlot(r[k], s[k])
    BY <2>1, TurnIs
  <2>3. \A k \in 1 .. n : SameSlot(s[k], s0[k])
    BY DEF AsBefore
  <2> HIDE DEF r
  <2>4. \A k \in 1 .. n : SameSlot(r[k], s0[k])
    BY <2>2, <2>3 DEF SameSlot
  <2> QED
    BY <2>2, <2>4 DEF AsBefore, r
<1> DEFINE step == [i \in 1 .. n |-> [s \in V |-> ResolveSlot(s, i)]]
           Is(f) == f = [i \in 0 .. n |-> IF i = 0 THEN s0 ELSE ResolveSlot(f[i - 1], i)]
<1>4. Len(s0) = n => ResolveReferences(s0) = (CHOOSE f : Is(f))[n]
  BY Zenon DEF ResolveReferences
<1> HIDE DEF V
<1>5. step \in [1 .. n -> [V -> V]]
  BY <1>3
<1>6. \A i \in 1 .. n : \A s \in V : step[i][s] = ResolveSlot(s, i)
  OBVIOUS
<1> HIDE DEF step
<1> HIDE DEF Is
<1>7. PICK g \in [0 .. n -> V] :
         /\ g[0] = s0
         /\ \A i \in 1 .. n : g[i] = step[i][g[i - 1]]
         /\ \A f : Computed(f, n, V, s0, step) => f = g
  <2>1. \A b \in V : \E g \in [0 .. n -> V] :
           /\ g[0] = b
           /\ \A i \in 1 .. n : g[i] = step[i][g[i - 1]]
           /\ \A f : Computed(f, n, V, b, step) => f = g
    BY <1>5, LoopDefined
  <2> QED
    BY <1>2, <2>1
<1>8. ASSUME NEW i \in 1 .. n PROVE g[i] = ResolveSlot(g[i - 1], i)
  <2>1. g[i - 1] \in V
    BY <1>7
  <2> QED
    BY <1>6, <1>7, <2>1
<1>9. Is(g)
  <2>1. \A i \in 0 .. n : g[i] = IF i = 0 THEN s0 ELSE ResolveSlot(g[i - 1], i)
    BY <1>7, <1>8
  <2> QED
    BY <2>1 DEF Is
<1>10. ASSUME NEW f, Is(f) PROVE f = g
  <2>1. Computed(f, n, V, s0, step)
    BY <1>6, <1>10 DEF Computed, Is
  <2> QED
    BY <1>7, <2>1
<1>11. (CHOOSE f : Is(f)) = g
  BY <1>9, <1>10
<1>12. Len(s0) = n => ResolveReferences(s0) = g[n]
  BY <1>4, <1>11
<1> QED
  BY <1>7, <1>8, <1>12 DEF V

(* The stacks of n slots that references can be resolved in.               *)
SoundStacks(n) == {s \in [1 .. n -> KeptSlot] : \A i \in 1 .. n : Sound(s[i])}

(* One reference further.                                                  *)
Onward(s, x) ==
    IF x = 0 THEN 0 ELSE IF s[x].isRef THEN LeadsTo(s, x) ELSE x

(* One reference further is a slot, or nowhere.                            *)
LEMMA OnwardIsSlot ==
  ASSUME NEW n \in Nat, NEW s \in SoundStacks(n), NEW x \in 0 .. n
  PROVE  Onward(s, x) \in 0 .. n
<1>1. CASE x = 0
  BY <1>1 DEF Onward
<1>2. CASE x # 0
  BY <1>2, LeadsToSlot DEF Onward, SoundStacks
<1> QED
  BY <1>1, <1>2

(* The m references that x leads through.                                  *)
IsChain(g, s, x, m) ==
    /\ g[0] = x
    /\ \A k \in 1 .. m : g[k] = Onward(s, g[k - 1])
    /\ Follow(s, x, m) = g[m]

(* What follows from x is a chain, and Follow its end.                     *)
LEMMA FollowIs ==
  ASSUME NEW n \in Nat, NEW s \in SoundStacks(n),
         NEW x \in 0 .. n, NEW m \in Nat
  PROVE  \E g \in [0 .. m -> 0 .. n] : IsChain(g, s, x, m)
<1> DEFINE V == 0 .. n
           step == [k \in 1 .. m |-> [y \in V |-> Onward(s, y)]]
           Is(f) == f = [k \in 0 .. m |-> IF k = 0 THEN x ELSE Onward(s, f[k - 1])]
<1>1. Follow(s, x, m) = (CHOOSE f : Is(f))[m]
  BY Zenon DEF Follow, Onward
<1>2. \A y \in V : Onward(s, y) \in V
  BY OnwardIsSlot
<1> HIDE DEF V, Is
<1>3. step \in [1 .. m -> [V -> V]]
  BY <1>2
<1>4. \A k \in 1 .. m : \A y \in V : step[k][y] = Onward(s, y)
  OBVIOUS
<1> HIDE DEF step
<1>5. \A b \in V : \E g \in [0 .. m -> V] :
         /\ g[0] = b
         /\ \A k \in 1 .. m : g[k] = step[k][g[k - 1]]
         /\ \A f : Computed(f, m, V, b, step) => f = g
  BY <1>3, LoopDefined
<1>6. x \in V
  BY DEF V
<1>7. PICK g \in [0 .. m -> V] :
         /\ g[0] = x
         /\ \A k \in 1 .. m : g[k] = step[k][g[k - 1]]
         /\ \A f : Computed(f, m, V, x, step) => f = g
  BY <1>5, <1>6
<1>8. ASSUME NEW k \in 1 .. m PROVE g[k] = Onward(s, g[k - 1])
  <2>1. g[k - 1] \in V
    BY <1>7
  <2> QED
    BY <1>4, <1>7, <2>1
<1>9. Is(g)
  <2>1. \A k \in 0 .. m : g[k] = IF k = 0 THEN x ELSE Onward(s, g[k - 1])
    BY <1>7, <1>8
  <2> QED
    BY <2>1 DEF Is
<1>10. ASSUME NEW f, Is(f) PROVE f = g
  <2>1. Computed(f, m, V, x, step)
    <3>1. f = [k \in 0 .. m |-> IF k = 0 THEN x ELSE Onward(s, f[k - 1])]
      BY <1>10 DEF Is
    <3>2. f = [k \in 0 .. m |-> f[k]]
      BY <3>1
    <3>3. f[0] = x
      BY <3>1
    <3>4. ASSUME NEW k \in 1 .. m, f[k - 1] \in V PROVE f[k] = step[k][f[k - 1]]
      <4>1. k \in 0 .. m /\ k # 0
        OBVIOUS
      <4>2. f[k] = Onward(s, f[k - 1])
        BY <3>1, <4>1
      <4> QED
        BY <1>4, <3>4, <4>2
    <3> QED
      BY <3>2, <3>3, <3>4, Zenon DEF Computed
  <2> QED
    BY <1>7, <2>1
<1>11. (CHOOSE f : Is(f)) = g
  BY <1>9, <1>10
<1> QED
  BY <1>1, <1>7, <1>8, <1>11 DEF V, IsChain

(* What is no reference is the end, and a reference has the end of the     *)
(* slot that it leads to.                                                  *)
LEMMA FollowOn ==
  ASSUME NEW n \in Nat, NEW s \in SoundStacks(n),
         NEW x \in 0 .. n, NEW m \in Nat
  PROVE  /\ Onward(s, x) = x => Follow(s, x, m) = x
         /\ Follow(s, x, m + 1) = Follow(s, Onward(s, x), m)
<1>1. PICK g \in [0 .. m -> 0 .. n] :
         /\ g[0] = x
         /\ \A k \in 1 .. m : g[k] = Onward(s, g[k - 1])
         /\ Follow(s, x, m) = g[m]
  <2>1. PICK g \in [0 .. m -> 0 .. n] : IsChain(g, s, x, m)
    BY FollowIs
  <2> QED
    BY <2>1 DEF IsChain
<1>2. ASSUME Onward(s, x) = x PROVE Follow(s, x, m) = x
  <2> DEFINE T == {k \in 0 .. m : g[k] = x}
  <2>1. 0 \in T
    BY <1>1
  <2>2. ASSUME NEW k \in 0 .. m - 1, k \in T PROVE k + 1 \in T
    BY <1>1, <1>2, <2>2
  <2>3. m \in T
    <3> HIDE DEF T
    <3>1. 0 .. m \subseteq T
      BY <2>1, <2>2, UpToN
    <3> QED
      BY <3>1
  <2> QED
    BY <1>1, <2>3
<1>3. Follow(s, x, m + 1) = Follow(s, Onward(s, x), m)
  <2>1. PICK l \in Nat : l = m + 1
    OBVIOUS
  <2>2. PICK h \in [0 .. l -> 0 .. n] :
           /\ h[0] = x
           /\ \A k \in 1 .. l : h[k] = Onward(s, h[k - 1])
           /\ Follow(s, x, l) = h[l]
    <3>1. PICK h \in [0 .. l -> 0 .. n] : IsChain(h, s, x, l)
      BY FollowIs
    <3> QED
      BY <3>1 DEF IsChain
  <2>3. PICK y \in 0 .. n : y = Onward(s, x)
    BY OnwardIsSlot
  <2>4. PICK d \in [0 .. m -> 0 .. n] :
           /\ d[0] = y
           /\ \A k \in 1 .. m : d[k] = Onward(s, d[k - 1])
           /\ Follow(s, y, m) = d[m]
    <3>1. PICK d \in [0 .. m -> 0 .. n] : IsChain(d, s, y, m)
      BY FollowIs
    <3> QED
      BY <3>1 DEF IsChain
  <2> DEFINE T == {k \in 0 .. m : d[k] = h[k + 1]}
  <2>5. 0 \in T
    <3>1. 1 \in 1 .. l /\ 1 - 1 = 0
      BY <2>1
    <3>2. h[1] = Onward(s, h[0])
      BY <2>2, <3>1
    <3> QED
      BY <2>2, <2>3, <2>4, <3>2
  <2>6. ASSUME NEW k \in 0 .. m - 1, k \in T PROVE k + 1 \in T
    <3>1. k + 1 \in 1 .. m /\ (k + 1) - 1 = k /\ (k + 1) + 1 \in 1 .. l /\ ((k + 1) + 1) - 1 = k + 1
      BY <2>1
    <3>2. d[k + 1] = Onward(s, d[k])
      BY <2>4, <3>1
    <3>3. h[(k + 1) + 1] = Onward(s, h[k + 1])
      BY <2>2, <3>1
    <3> QED
      BY <2>6, <3>1, <3>2, <3>3
  <2>7. m \in T
    <3> HIDE DEF T
    <3>1. 0 .. m \subseteq T
      BY <2>5, <2>6, UpToN
    <3> QED
      BY <3>1
  <2>8. d[m] = h[l]
    BY <2>1, <2>7
  <2> QED
    BY <2>1, <2>2, <2>3, <2>4, <2>8
<1> QED
  BY <1>2, <1>3

(* How a slot begins: a reference without a value, what was given a value  *)
(* with it.                                                                *)
Begins(r) ==
    IF r.isRef THEN r.value = Unknown /\ ~r.resolved
    ELSE /\ r.given.kind = "value" => r.value # Unknown
         /\ r.value # Unknown => r.given = Value(r.value)

(* The stacks that a pass starts with.                                     *)
Beginnings(n) == {s \in SoundStacks(n) : \A i \in 1 .. n : Begins(s[i])}

(* A stack as it is read is such a beginning.                              *)
LEMMA StructBegins ==
  ASSUME NEW slots \in Seq(Slot)
  PROVE  /\ CreateStackRefStruct(slots) \in Beginnings(Len(slots))
         /\ Len(CreateStackRefStruct(slots)) = Len(slots)
         /\ DOMAIN CreateStackRefStruct(slots) = DOMAIN slots
<1> DEFINE s0 == CreateStackRefStruct(slots)
<1>1. PICK n \in Nat : n = Len(slots) /\ DOMAIN slots = 1 .. n
  BY LenProperties
<1>2. ASSUME NEW i \in 1 .. n PROVE s0[i] \in KeptSlot /\ Sound(s0[i]) /\ Begins(s0[i])
  <2>1. PICK q \in Slot : q = slots[i]
    BY <1>1
  <2>2. PICK r : r = s0[i]
    OBVIOUS
  <2>3. /\ r.owner = q.owner /\ r.side = q.side /\ r.name = q.name /\ r.given = q.given
        /\ r = [owner |-> r.owner, side |-> r.side, name |-> r.name, given |-> r.given,
                isRef |-> r.isRef, value |-> r.value, resolved |-> r.resolved]
    BY <1>1, <2>1, <2>2 DEF CreateStackRefStruct
  <2>4. /\ r.isRef = (q.given.kind = "ref")
        /\ r.value = (IF q.given.kind = "value" THEN q.given.value ELSE Unknown)
        /\ r.resolved = (q.given.kind = "value" \/ (q.side = "outputs" /\ q.given.kind # "ref"))
    BY <1>1, <2>1, <2>2 DEF CreateStackRefStruct, ProcessValue
  <2>5. q.owner \in Owners /\ q.side \in Sides /\ q.name \in STRING /\ q.given \in Givens
    BY <2>1 DEF Slot, Owners, Sides
  <2>6. q.given.kind = "value" => /\ q.given.value \in Texts /\ q.given.value # Unknown
                                  /\ q.given = Value(q.given.value)
    BY <2>5 DEF Givens, NotGiven, Value, Texts
  <2>7. Unknown \in Texts
    BY DEF Texts
  <2>8. r \in KeptSlot
    BY <2>3, <2>4, <2>5, <2>6, <2>7 DEF KeptSlot
  <2>9. Sound(r)
    BY <2>3, <2>4 DEF Sound
  <2>10. Begins(r)
    BY <2>3, <2>4, <2>6 DEF Begins
  <2> QED
    BY <2>2, <2>8, <2>9, <2>10
<1>3. s0 = [i \in 1 .. n |-> s0[i]] /\ DOMAIN s0 = DOMAIN slots
  BY <1>1 DEF CreateStackRefStruct
<1> HIDE DEF s0
<1>4. s0 \in [1 .. n -> KeptSlot]
  BY <1>2, <1>3
<1>5. s0 \in Beginnings(n)
  BY <1>2, <1>4 DEF Beginnings, SoundStacks
<1>6. Len(s0) = n
  BY <1>1, <1>4, SeqFromFunction
<1> QED
  BY <1>1, <1>3, <1>5, <1>6 DEF s0

(* What the pass makes of a slot.                                          *)
Ends(f, s0, i) ==
    IF f[i].isRef
    THEN /\ f[i].resolved <=> /\ LeadsTo(f, i) # 0
                              /\ f[LeadsTo(f, i)].isRef => LeadsTo(f, i) < i
                              /\ f[LeadsTo(f, i)].value # Unknown
         /\ f[i].resolved => f[i].value = f[LeadsTo(f, i)].value
         /\ f[i].resolved <=> f[i].value # Unknown
    ELSE f[i] = s0[i]

(* After the pass every slot is at its end: the slots above it were done   *)
(* when it was its turn, and those below were not.                         *)
LEMMA PassEnds ==
  ASSUME NEW n \in Nat, NEW s0 \in Beginnings(n), Len(s0) = n
  PROVE  /\ ResolveReferences(s0) \in SoundStacks(n)
         /\ \A i \in 1 .. n : Ends(ResolveReferences(s0), s0, i)
<1>1. s0 \in [1 .. n -> KeptSlot] /\ \A i \in 1 .. n : Sound(s0[i]) /\ Begins(s0[i])
  BY DEF Beginnings, SoundStacks
<1>2. PICK p \in [0 .. n -> AsBefore(n, s0)] :
         /\ p[0] = s0
         /\ \A i \in 1 .. n : p[i] = ResolveSlot(p[i - 1], i)
         /\ ResolveReferences(s0) = p[n]
  BY <1>1, PassIs
<1>3. ASSUME NEW k \in 0 .. n
      PROVE  /\ p[k] \in [1 .. n -> KeptSlot]
             /\ \A i \in 1 .. n : Sound(p[k][i]) /\ p[k][i].isRef = s0[i].isRef
                                  /\ LeadsTo(p[k], i) = LeadsTo(s0, i)
  <2>1. p[k] \in AsBefore(n, s0)
    OBVIOUS
  <2>2. p[k] \in [1 .. n -> KeptSlot]
    BY <2>1 DEF AsBefore
  <2> QED
    BY <1>1, <2>1, <2>2, ShapeStays
<1> DEFINE Stable(k) == \A i \in 1 .. n : p[k][i] = IF i <= k THEN p[i][i] ELSE s0[i]
           T == {k \in 0 .. n : Stable(k)}
<1>4. 0 \in T
  BY <1>2
<1>5. ASSUME NEW k \in 0 .. n - 1, k \in T PROVE k + 1 \in T
  <2>1. k + 1 \in 1 .. n /\ (k + 1) - 1 = k /\ k \in 0 .. n
    OBVIOUS
  <2>2. p[k + 1] = ResolveSlot(p[k], k + 1)
    BY <1>2, <2>1
  <2>3. \A i \in 1 .. n : i # k + 1 => p[k + 1][i] = p[k][i]
    <3>1. p[k] \in [1 .. n -> KeptSlot] /\ Sound(p[k][k + 1])
      BY <1>3, <2>1
    <3>2. PICK j \in 1 .. n : j = k + 1
      BY <2>1
    <3>3. \A i \in 1 .. n : i # j => ResolveSlot(p[k], j)[i] = p[k][i]
      BY <3>1, <3>2, TurnIs
    <3> QED
      BY <2>2, <3>2, <3>3
  <2>4. ASSUME NEW i \in 1 .. n PROVE p[k + 1][i] = IF i <= k + 1 THEN p[i][i] ELSE s0[i]
    <3>1. CASE i = k + 1
      BY <3>1
    <3>2. CASE i # k + 1
      <4>1. p[k + 1][i] = p[k][i] /\ (i <= k <=> i <= k + 1)
        BY <2>1, <2>3, <3>2
      <4> QED
        BY <1>5, <4>1
    <3> QED
      BY <3>1, <3>2
  <2> QED
    BY <2>1, <2>4
<1>6. \A k \in 0 .. n : Stable(k)
  <2>1. 0 .. n \subseteq T
    <3> HIDE DEF T
    <3> QED
      BY <1>4, <1>5, UpToN
  <2> QED
    BY <2>1
<1> DEFINE f == p[n]
<1>7. f \in [1 .. n -> KeptSlot] /\ \A i \in 1 .. n : f[i] = p[i][i]
  BY <1>3, <1>6
<1>8. ASSUME NEW i \in 1 .. n PROVE Ends(f, s0, i)
  <2> DEFINE s == p[i - 1]
             t == LeadsTo(s, i)
  <2>1. i - 1 \in 0 .. n /\ p[i] = ResolveSlot(s, i)
    BY <1>2
  <2>2. s \in [1 .. n -> KeptSlot] /\ Sound(s[i]) /\ s[i].isRef = s0[i].isRef
    BY <1>3, <2>1
  <2>3. s[i] = s0[i]
    BY <1>6, <2>1
  <2>4. f[i] = ResolveSlot(s, i)[i]
    BY <1>7, <2>1
  <2>5. f[i].isRef = s0[i].isRef
    BY <1>3
  <2>6. CASE ~s0[i].isRef
    <3>1. ResolveSlot(s, i) = s
      BY <2>2, <2>6, TurnIs
    <3> QED
      BY <2>3, <2>4, <2>5, <2>6, <3>1 DEF Ends
  <2>7. CASE s0[i].isRef
    <3>1. t \in 0 .. n /\ t = LeadsTo(f, i)
      BY <1>3, <2>1, <2>2, <2>7, TurnIs
    <3>2. /\ t = 0 \/ s[t].value = Unknown => f[i] = s0[i]
          /\ t # 0 /\ s[t].value # Unknown => f[i].value = s[t].value /\ f[i].resolved
      BY <2>2, <2>3, <2>4, <2>7, TurnIs
    <3>3. s0[i].value = Unknown /\ ~s0[i].resolved
      BY <1>1, <2>7 DEF Begins
    <3> HIDE DEF s
    <3>4. t # 0 => s[t] = IF t < i THEN f[t] ELSE s0[t]
      <4>1. t # 0 => s[t] = IF t <= i - 1 THEN p[t][t] ELSE s0[t]
        BY <1>6, <2>1, <3>1 DEF s
      <4> HIDE DEF t
      <4>2. t <= i - 1 <=> t < i
        BY <3>1
      <4> QED
        BY <1>7, <3>1, <4>1, <4>2
    <3>5. t # 0 /\ ~f[t].isRef => f[t] = s0[t]
      <4>1. ASSUME t # 0, ~f[t].isRef PROVE f[t] = s0[t]
        <5> HIDE DEF t
        <5>1. t \in 1 .. n /\ t - 1 \in 0 .. n
          BY <3>1, <4>1
        <5>2. ~p[t - 1][t].isRef /\ Sound(p[t - 1][t]) /\ p[t - 1] \in [1 .. n -> KeptSlot]
          BY <1>3, <4>1, <5>1
        <5>3. p[t] = ResolveSlot(p[t - 1], t)
          BY <1>2, <5>1
        <5>4. p[t] = p[t - 1]
          BY <5>1, <5>2, <5>3, TurnIs
        <5>5. p[t - 1][t] = s0[t]
          BY <1>6, <5>1
        <5> QED
          BY <1>7, <5>1, <5>4, <5>5
      <4> QED
        BY <4>1
    <3>6. t # 0 /\ f[t].isRef => s0[t].value = Unknown
      <4> HIDE DEF t
      <4> QED
        BY <1>1, <1>3, <3>1 DEF Begins
    <3> HIDE DEF t
    <3>7. t # 0 => (s[t].value # Unknown <=>
                      (f[t].isRef => t < i) /\ f[t].value # Unknown)
      BY <3>1, <3>4, <3>5, <3>6
    <3>8. t # 0 /\ s[t].value # Unknown => s[t].value = f[t].value
      BY <3>1, <3>4, <3>5, <3>6
    <3> HIDE DEF f
    <3> QED
      BY <2>5, <2>7, <3>1, <3>2, <3>3, <3>7, <3>8 DEF Ends
  <2> QED
    BY <2>6, <2>7
<1>9. f \in SoundStacks(n)
  BY <1>3 DEF SoundStacks
<1> HIDE DEF f
<1>10. ResolveReferences(s0) = f
  BY <1>2 DEF f
<1> QED
  BY <1>8, <1>9, <1>10

(* A reference that is resolved has the value at its end.                  *)
LEMMA ResolvedHasItsEnd ==
  ASSUME NEW n \in Nat, NEW s0 \in Beginnings(n), NEW f \in SoundStacks(n),
         \A j \in 1 .. n : Ends(f, s0, j), NEW i \in 1 .. n, f[i].isRef, f[i].resolved
  PROVE  Follow(f, i, n) \in 1 .. n /\ f[Follow(f, i, n)].given = Value(f[i].value)
<1> DEFINE HasEnd(j, m) ==
              Follow(f, j, m) \in 1 .. n /\ f[Follow(f, j, m)].given = Value(f[j].value)
           Good(j) == f[j].isRef /\ f[j].resolved => \A m \in Nat : m >= j => HasEnd(j, m)
           T == {k \in 0 .. n : \A j \in 1 .. k : Good(j)}
<1>1. 0 \in T
  OBVIOUS
<1>2. ASSUME NEW k \in 0 .. n - 1, k \in T PROVE k + 1 \in T
  <2>1. PICK j \in 1 .. n : j = k + 1
    OBVIOUS
  <2>2. ASSUME f[j].isRef, f[j].resolved, NEW m \in Nat, m >= j PROVE HasEnd(j, m)
    <3>1. PICK t \in 0 .. n : t = LeadsTo(f, j)
      BY <2>2, LeadsToSlot DEF SoundStacks
    <3>2. Onward(f, j) = t
      BY <2>1, <2>2, <3>1 DEF Onward
    <3>3. PICK l \in Nat : m = l + 1 /\ l >= k
      <4>1. m - 1 \in Nat /\ m = (m - 1) + 1 /\ m - 1 >= k
        BY <2>1, <2>2
      <4> QED
        BY <4>1
    <3>4. Follow(f, j, m) = Follow(f, t, l)
      BY <3>2, <3>3, FollowOn
    <3>5. /\ t # 0 /\ f[t].value # Unknown /\ (f[t].isRef => t < j)
          /\ f[j].value = f[t].value
      BY <2>2, <3>1 DEF Ends
    <3>6. t \in 1 .. n
      BY <3>5
    <3>7. CASE ~f[t].isRef
      <4>1. Follow(f, t, l) = t
        <5>1. Onward(f, t) = t
          BY <3>6, <3>7 DEF Onward
        <5> QED
          BY <5>1, FollowOn
      <4>2. f[t] = s0[t] /\ Begins(s0[t])
        BY <3>6, <3>7 DEF Ends, Beginnings
      <4>3. f[t].given = Value(f[t].value)
        BY <3>5, <3>7, <4>2 DEF Begins
      <4> QED
        BY <3>4, <3>5, <3>6, <4>1, <4>3
    <3>8. CASE f[t].isRef
      <4>1. f[t].resolved
        BY <3>5, <3>6, <3>8 DEF Ends
      <4>2. t \in 1 .. k /\ l >= t
        BY <2>1, <3>3, <3>5, <3>6, <3>8
      <4>3. Good(t)
        BY <1>2, <4>2
      <4>4. HasEnd(t, l)
        BY <3>8, <4>1, <4>2, <4>3
      <4> QED
        BY <3>4, <3>5, <4>4
    <3> QED
      BY <3>7, <3>8
  <2>3. Good(j)
    BY <2>2
  <2>4. \A q \in 1 .. k + 1 : q \in 1 .. k \/ q = j
    BY <2>1
  <2> HIDE DEF Good
  <2> QED
    BY <1>2, <2>1, <2>3, <2>4
<1>3. n \in T
  <2> HIDE DEF T
  <2>1. 0 .. n \subseteq T
    BY <1>1, <1>2, UpToN
  <2> QED
    BY <2>1
<1>4. Good(i)
  BY <1>3
<1> QED
  BY <1>4

(* Whatever a stack holds, and however its references hang together: after *)
(* the one pass of ResolveReferences a reference that is resolved has the  *)
(* value at the end of its chain; one that is not ends in no value, or     *)
(* passes one further down or unresolved; and nothing else has changed.    *)
THEOREM ReferencesAreRight ==
  ASSUME NEW slots \in Seq(Slot)
  PROVE  StackReferencesRight(slots, ResolveReferences(CreateStackRefStruct(slots)))
<1> DEFINE f == ResolveReferences(CreateStackRefStruct(slots))
<1>1. PICK n \in Nat : n = Len(slots) /\ DOMAIN slots = 1 .. n
  BY LenProperties
<1>2. PICK s0 \in Beginnings(n) : s0 = CreateStackRefStruct(slots) /\ Len(s0) = n
  BY <1>1, StructBegins
<1>3. f \in SoundStacks(n) /\ \A i \in 1 .. n : Ends(f, s0, i)
  BY <1>2, PassEnds
<1> HIDE DEF f
<1>4. f \in [1 .. n -> KeptSlot] /\ \A i \in 1 .. n : Sound(f[i])
  BY <1>3 DEF SoundStacks
<1>5. DOMAIN f = 1 .. n /\ Len(f) = n
  BY <1>4, SeqFromFunction
<1>6. ASSUME NEW i \in 1 .. n, ~f[i].isRef PROVE f[i] = s0[i]
  BY <1>3, <1>6 DEF Ends
<1>7. ASSUME NEW i \in 1 .. n, f[i].isRef, f[i].resolved
      PROVE  Follow(f, i, n) # 0 /\ f[Follow(f, i, n)].given = Value(f[i].value)
  <2>1. Follow(f, i, n) \in 1 .. n /\ f[Follow(f, i, n)].given = Value(f[i].value)
    BY <1>3, <1>7, ResolvedHasItsEnd
  <2> QED
    BY <2>1
<1>8. ASSUME NEW i \in 1 .. n, f[i].isRef, ~f[i].resolved
      PROVE  \/ Follow(f, i, n) = 0 \/ f[Follow(f, i, n)].given.kind # "value"
             \/ f[LeadsTo(f, i)].isRef /\ (LeadsTo(f, i) > i \/ ~f[LeadsTo(f, i)].resolved)
  <2>1. PICK t \in 0 .. n : t = LeadsTo(f, i)
    BY <1>4, <1>8, LeadsToSlot
  <2>2. Onward(f, i) = t
    BY <1>8, <2>1 DEF Onward
  <2>3. PICK l \in Nat : n = l + 1
    <3>1. n - 1 \in Nat /\ n = (n - 1) + 1
      OBVIOUS
    <3> QED
      BY <3>1
  <2>4. Follow(f, i, n) = Follow(f, t, l)
    BY <1>3, <2>2, <2>3, FollowOn
  <2>5. CASE t = 0
    <3>1. Onward(f, t) = t
      BY <2>5 DEF Onward
    <3>2. Follow(f, t, l) = t
      BY <1>3, <3>1, FollowOn
    <3> QED
      BY <2>4, <2>5, <3>2
  <2>6. CASE t # 0 /\ ~f[t].isRef
    <3>1. Onward(f, t) = t
      BY <2>6 DEF Onward
    <3>2. Follow(f, t, l) = t
      BY <1>3, <3>1, FollowOn
    <3>3. t \in 1 .. n
      BY <2>6
    <3>4. f[t].value = Unknown
      BY <1>3, <1>8, <2>1, <2>6 DEF Ends
    <3>5. f[t] = s0[t] /\ Begins(s0[t])
      BY <1>6, <2>6, <3>3 DEF Beginnings
    <3>6. f[t].given.kind # "value"
      BY <2>6, <3>4, <3>5 DEF Begins
    <3> QED
      BY <2>4, <3>2, <3>6
  <2>7. CASE t # 0 /\ f[t].isRef
    <3>1. t \in 1 .. n
      BY <2>7
    <3>2. ~(t < i) \/ f[t].value = Unknown
      BY <1>3, <1>8, <2>1, <2>7 DEF Ends
    <3>3. f[t].resolved <=> f[t].value # Unknown
      BY <1>3, <2>7, <3>1 DEF Ends
    <3>4. t > i \/ ~f[t].resolved
      BY <1>8, <3>1, <3>2, <3>3
    <3> QED
      BY <2>1, <2>7, <3>4
  <2> QED
    BY <2>5, <2>6, <2>7
<1> QED
  BY <1>1, <1>2, <1>5, <1>6, <1>7, <1>8 DEF StackReferencesRight, f

-----------------------------------------------------------------------------
ChoicesIInv == task \in ChoiceTasks /\ out \in {<<>>, <<ChoiceOf(task)>>}

(* An answer is right, whatever function is asked and for whatever.        *)
LEMMA AnswerIsRight ==
  ASSUME task \in ChoiceTasks, out = <<ChoiceOf(task)>>
  PROVE  ChoicesRight
<1>1. out[1] = ChoiceOf(task)
  OBVIOUS
<1>2. CASE task.kind = "version"
  <2>1. VersionTask(task)
    BY <1>2, ChoiceTasksAssumption
  <2>2. out[1] = GetLatestVersionByConstraint(task.versions, task.target)
    BY <1>1, <1>2 DEF ChoiceOf
  <2>3. LatestVersionRight(task.versions, task.target, out[1])
    BY <2>1, <2>2, LatestVersionIsRight DEF VersionTask
  <2> QED
    BY <1>2, <2>3 DEF ChoicesRight, Answered
<1>3. CASE task.kind = "retry"
  <2>1. RetryTask(task)
    BY <1>3, ChoiceTasksAssumption
  <2>2. out[1] = RetryWithConfig(task.config, task.outcomes, task.skip)
    BY <1>1, <1>3 DEF ChoiceOf
  <2>3. RetryRight(task.config, task.outcomes, task.skip, out[1])
    BY <2>1, <2>2, RetriesAreRight DEF RetryTask
  <2> QED
    BY <1>3, <2>3 DEF ChoicesRight, Answered
<1>4. CASE task.kind = "region"
  <2>1. RegionTask(task)
    BY <1>4, ChoiceTasksAssumption
  <2>2. out[1] = RegionChoices(task.names, task.instances, task.supported, task.trackers)
    BY <1>1, <1>4 DEF ChoiceOf
  <2>3. NoName \notin STRING \ {NoName}
    OBVIOUS
  <2>4. RegionsRight(task.names, task.instances, task.supported, task.trackers, out[1])
    BY <2>1, <2>2, <2>3, RegionChoicesAreRight DEF RegionTask
  <2> QED
    BY <1>4, <2>4 DEF ChoicesRight, Answered
<1>5. CASE task.kind = "git"
  <2>1. out[1] = GetBaseRepoAndBranch(task.given, task.env, task.git)
    BY <1>1, <1>5 DEF ChoiceOf
  <2>2. BaseRight(task.given, task.env, task.git, out[1])
    BY <2>1, BaseIsRight
  <2> QED
    BY <1>5, <2>2 DEF ChoicesRight, Answered
<1>6. CASE task.kind = "changes"
  <2>1. ChangeTask(task)
    BY <1>6, ChoiceTasksAssumption
  <2>2. out[1] = ChangesToBePush(task.git)
    BY <1>1, <1>6 DEF ChoiceOf
  <2>3. ChangesRight(task.git, out[1])
    BY <2>1, <2>2, ChangesAreRight DEF ChangeTask
  <2> QED
    BY <1>6, <2>3 DEF ChoicesRight, Answered
<1>7. CASE task.kind = "stack"
  <2>1. StackTask(task)
    BY <1>7, ChoiceTasksAssumption
  <2>2. out[1] = CreateStackFromConfigFile(task.stack, task.catalog, task.given, "p", task.flavor)
    BY <1>1, <1>7 DEF ChoiceOf
  <2>3. DefinitionRight(task.stack, task.catalog, task.given, "p", task.flavor, out[1])
    BY <2>1, <2>2, DefinitionIsRight
  <2> QED
    BY <1>7, <2>3 DEF ChoicesRight, Answered
<1>8. CASE task.kind = "references"
  <2>1. ReferencesTask(task)
    BY <1>8, ChoiceTasksAssumption
  <2>2. out[1] = ResolveReferences(CreateStackRefStruct(task.slots))
    BY <1>1, <1>8 DEF ChoiceOf
  <2>3. StackReferencesRight(task.slots, out[1])
    BY <2>1, <2>2, ReferencesAreRight DEF ReferencesTask
  <2> QED
    BY <1>8, <2>3 DEF ChoicesRight, Answered
<1> QED
  BY <1>2, <1>3, <1>4, <1>5, <1>6, <1>7, <1>8, ChoiceTasksAssumption

(* Every choice that a function is asked for is right, for all arguments   *)
(* that its callers may have: the version for a constraint, whether to try *)
(* again and how long to wait, a region, the base of a test, the files     *)
(* that are not pushed, the inputs of a stack, and the values of its       *)
(* references.                                                             *)
THEOREM ChoicesSafe == ChoicesSpec => []ChoicesRight
<1>1. ChoicesInit => ChoicesIInv
  BY DEF ChoicesInit, ChoicesIInv
<1>2. ChoicesIInv /\ [ChoicesNext]_<<task, out>> => ChoicesIInv'
  <2> SUFFICES ASSUME ChoicesIInv, [ChoicesNext]_<<task, out>> PROVE ChoicesIInv'
    OBVIOUS
  <2>1. task' = task
    BY DEF ChoicesNext
  <2>2. ChoiceOf(task)' = ChoiceOf(task)
    BY <2>1
  <2>3. out' \in {out, <<ChoiceOf(task)>>}
    BY DEF ChoicesNext
  <2> QED
    BY <2>1, <2>2, <2>3 DEF ChoicesIInv
<1>3. ChoicesIInv => ChoicesRight
  <2>1. CASE out = <<>>
    BY <2>1 DEF ChoicesRight, Answered
  <2>2. CASE task \in ChoiceTasks /\ out = <<ChoiceOf(task)>>
    BY <2>2, AnswerIsRight
  <2> QED
    BY <2>1, <2>2 DEF ChoicesIInv
<1> QED
  BY <1>1, <1>2, <1>3, PTL DEF ChoicesSpec
==============================================================================
