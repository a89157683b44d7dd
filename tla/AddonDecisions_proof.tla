------------------------ MODULE AddonDecisions_proof ------------------------
(***************************************************************************)
(* Proofs about what an addon test tries and decides, for all arguments    *)
(* that the functions may be given: the cases of a permutation run are     *)
(* just those that there are and that the user does not skip, each once; a *)
(* project is valid just if it is as expected; a circle of references is   *)
(* found just if there is one; a test goes on to deploy only with          *)
(* configurations that can be deployed; the dependencies that are required *)
(* and no others are enabled for the user; and the tree that a test        *)
(* expects is that of the dependencies that are enabled.                   *)
(***************************************************************************)
EXTENDS AddonDecisions, Choices_proof

(* The digits of a mixed radix are below these numbers.                    *)
Radix == Nat \ {0}

(* The products of the first radices.                                      *)
IsProducts(q, radices) ==
    /\ q[0] = 1
    /\ \A i \in 1 .. Len(radices) : q[i] = q[i - 1] * radices[i]
    /\ HowMany(radices) = q[Len(radices)]

LEMMA ProductsDefined ==
  ASSUME NEW radices \in Seq(Radix)
  PROVE  \E q \in [0 .. Len(radices) -> Radix] : IsProducts(q, radices)
<1>0. PICK n \in Nat : n = Len(radices)
  OBVIOUS
<1> DEFINE V == Radix
           base == 1
           step == [i \in 1 .. n |-> [v \in V |-> v * radices[i]]]
           Is(f) == f = [i \in 0 .. n |-> IF i = 0 THEN base ELSE f[i - 1] * radices[i]]
<1>1. HowMany(radices) = (CHOOSE f : Is(f))[n]
  BY <1>0, Zenon DEF HowMany
<1>2. base \in V
  BY DEF Radix
<1>3. ASSUME NEW i \in 1 .. n, NEW v \in V PROVE v * radices[i] \in V
  <2>1. PICK a \in Radix, b \in Radix : a = v /\ b = radices[i]
    BY <1>0
  <2>2. a * b \in Radix
    BY DEF Radix
  <2> QED
    BY <2>1, <2>2
<1> HIDE DEF V, base
<1>4. step \in [1 .. n -> [V -> V]]
  BY <1>3
<1>5. \A i \in 1 .. n : \A v \in V : step[i][v] = v * radices[i]
  OBVIOUS
<1> HIDE DEF step
<1>6. PICK g \in [0 .. n -> V] :
         /\ g[0] = base
         /\ \A i \in 1 .. n : g[i] = step[i][g[i - 1]]
         /\ \A f : Computed(f, n, V, base, step) => f = g
  BY <1>2, <1>4, LoopDefined
<1>7. ASSUME NEW i \in 1 .. n PROVE g[i] = g[i - 1] * radices[i]
  <2>1. g[i - 1] \in V
    BY <1>6
  <2> QED
    BY <1>5, <1>6, <2>1
<1>8. Is(g)
  <2>1. \A i \in 0 .. n : g[i] = IF i = 0 THEN base ELSE g[i - 1] * radices[i]
    BY <1>6, <1>7
  <2> QED
    BY <2>1
<1>9. ASSUME NEW f, Is(f) PROVE f = g
  <2>1. f = [i \in 0 .. n |-> IF i = 0 THEN base ELSE f[i - 1] * radices[i]]
    BY <1>9, Zenon
  <2> HIDE DEF Is
  <2>2. f[0] = base
    BY <2>1
  <2>3. \A i \in 1 .. n : f[i] = f[i - 1] * radices[i]
    BY <2>1
  <2>4. Computed(f, n, V, base, step)
    BY <1>5, <2>1, <2>2, <2>3 DEF Computed
  <2> QED
    BY <1>6, <2>4
<1>10. (CHOOSE f : Is(f)) = g
  <2> HIDE DEF Is
  <2> QED
    BY <1>8, <1>9
<1> HIDE DEF Is
<1>11. IsProducts(g, radices)
  BY <1>0, <1>1, <1>6, <1>7, <1>10 DEF IsProducts, base
<1> QED
  BY <1>0, <1>6, <1>11 DEF V

(* What is left of a number after each of its digits.                      *)
IsLeft(tmp, radices, number) ==
    /\ tmp[0] = number
    /\ \A i \in 1 .. Len(radices) :
          /\ tmp[i] = tmp[i - 1] \div radices[i]
          /\ Digit(radices, number, i) = tmp[i - 1] % radices[i]

LEMMA LeftDefined ==
  ASSUME NEW radices \in Seq(Radix), NEW number \in Nat
  PROVE  \E tmp \in [0 .. Len(radices) -> Nat] : IsLeft(tmp, radices, number)
<1>0. PICK n \in Nat : n = Len(radices)
  OBVIOUS
<1> DEFINE V == Nat
           base == number
           step == [i \in 1 .. n |-> [v \in V |-> v \div radices[i]]]
           Is(f) == f = [i \in 0 .. n |-> IF i = 0 THEN base ELSE f[i - 1] \div radices[i]]
<1>1. \A k : Digit(radices, number, k) = (CHOOSE f : Is(f))[k - 1] % radices[k]
  BY <1>0, Zenon DEF Digit
<1>2. base \in V
  OBVIOUS
<1>3. ASSUME NEW i \in 1 .. n, NEW v \in V PROVE v \div radices[i] \in V
  <2>1. PICK b \in Radix : b = radices[i]
    BY <1>0
  <2>2. v \div b \in Nat
    BY DEF Radix
  <2> QED
    BY <2>1, <2>2
<1> HIDE DEF V, base
<1>4. step \in [1 .. n -> [V -> V]]
  BY <1>3
<1>5. \A i \in 1 .. n : \A v \in V : step[i][v] = v \div radices[i]
  OBVIOUS
<1> HIDE DEF step
<1>6. PICK g \in [0 .. n -> V] :
         /\ g[0] = base
         /\ \A i \in 1 .. n : g[i] = step[i][g[i - 1]]
         /\ \A f : Computed(f, n, V, base, step) => f = g
  BY <1>2, <1>4, LoopDefined
<1>7. ASSUME NEW i \in 1 .. n PROVE g[i] = g[i - 1] \div radices[i]
  <2>1. g[i - 1] \in V
    BY <1>6
  <2> QED
    BY <1>5, <1>6, <2>1
<1>8. Is(g)
  <2>1. \A i \in 0 .. n : g[i] = IF i = 0 THEN base ELSE g[i - 1] \div radices[i]
    BY <1>6, <1>7
  <2> QED
    BY <2>1
<1>9. ASSUME NEW f, Is(f) PROVE f = g
  <2>1. f = [i \in 0 .. n |-> IF i = 0 THEN base ELSE f[i - 1] \div radices[i]]
    BY <1>9, Zenon
  <2> HIDE DEF Is
  <2>2. f[0] = base
    BY <2>1
  <2>3. \A i \in 1 .. n : f[i] = f[i - 1] \div radices[i]
    BY <2>1
  <2>4. Computed(f, n, V, base, step)
    BY <1>5, <2>1, <2>2, <2>3 DEF Computed
  <2> QED
    BY <1>6, <2>4
<1>10. (CHOOSE f : Is(f)) = g
  <2> HIDE DEF Is
  <2> QED
    BY <1>8, <1>9
<1> HIDE DEF Is
<1>11. IsLeft(g, radices, number)
  BY <1>0, <1>1, <1>6, <1>7, <1>10 DEF IsLeft, base
<1> QED
  BY <1>0, <1>6, <1>11 DEF V

LEMMA HowManyIsPositive ==
  ASSUME NEW radices \in Seq(Radix)
  PROVE  HowMany(radices) \in Radix
<1>1. PICK n \in Nat : n = Len(radices)
  OBVIOUS
<1>2. PICK q \in [0 .. n -> Radix] : IsProducts(q, radices)
  BY <1>1, ProductsDefined
<1>3. q[n] \in Radix
  OBVIOUS
<1> QED
  BY <1>1, <1>2, <1>3 DEF IsProducts

(* Division by a radix leaves a digit below it, from which the number      *)
(* comes back.                                                             *)
LEMMA DivisionIsUndone ==
  ASSUME NEW a \in Nat, NEW r \in Radix
  PROVE  /\ a \div r \in Nat /\ a % r \in 0 .. r - 1
         /\ a = (a \div r) * r + (a % r)
  BY DEF Radix

LEMMA DivisionUndoes ==
  ASSUME NEW a \in Nat, NEW r \in Radix, NEW d \in 0 .. r - 1
  PROVE  /\ (a * r + d) \in Nat
         /\ (a * r + d) \div r = a /\ (a * r + d) % r = d
  BY DEF Radix

LEMMA DigitIsBelow ==
  ASSUME NEW radices \in Seq(Radix), NEW number \in Nat, NEW k \in 1 .. Len(radices)
  PROVE  Digit(radices, number, k) \in 0 .. radices[k] - 1
<1>1. PICK n \in Nat : n = Len(radices)
  OBVIOUS
<1>2. PICK tmp \in [0 .. n -> Nat] : IsLeft(tmp, radices, number)
  BY <1>1, LeftDefined
<1>3. tmp[k - 1] \in Nat /\ radices[k] \in Radix
  BY <1>1
<1>4. Digit(radices, number, k) = tmp[k - 1] % radices[k]
  BY <1>2 DEF IsLeft
<1> QED
  BY <1>3, <1>4, DivisionIsUndone

(* What is left of a number times the product of the radices that it was   *)
(* divided by is not more than the number.                                 *)
LEMMA LessIsLeft ==
  ASSUME NEW a \in Nat, NEW r \in Radix, NEW p \in Radix, NEW c \in Nat, a * p <= c
  PROVE  (a \div r) * (p * r) <= c
<1>1. PICK b \in Nat : b = a \div r /\ b * r <= a
  BY DivisionIsUndone DEF Radix
<1>2. b * (p * r) = (b * r) * p
  BY DEF Radix
<1>3. (b * r) * p <= a * p
  BY <1>1 DEF Radix
<1>4. b * (p * r) \in Nat /\ (b * r) * p \in Nat /\ a * p \in Nat
  BY DEF Radix
<1> QED
  BY <1>1, <1>2, <1>3, <1>4

(* Nothing is left of a number that has no more digits.                    *)
LEMMA NothingIsLeft ==
  ASSUME NEW radices \in Seq(Radix), NEW number \in 0 .. HowMany(radices) - 1,
         NEW tmp \in [0 .. Len(radices) -> Nat], IsLeft(tmp, radices, number)
  PROVE  tmp[Len(radices)] = 0
<1>1. PICK n \in Nat : n = Len(radices)
  OBVIOUS
<1>2. PICK q \in [0 .. n -> Radix] : IsProducts(q, radices)
  BY <1>1, ProductsDefined
<1>3. \A i \in 1 .. n : radices[i] \in Radix
  BY <1>1
<1>4. number \in Nat
  BY HowManyIsPositive DEF Radix
<1> DEFINE T == {k \in 0 .. n : tmp[k] * q[k] <= number}
<1>5. 0 \in T
  <2>1. tmp[0] = number /\ q[0] = 1
    BY <1>2 DEF IsLeft, IsProducts
  <2> QED
    BY <1>4, <2>1
<1>6. ASSUME NEW k \in 0 .. n - 1, k \in T PROVE k + 1 \in T
  <2>1. k + 1 \in 1 .. n /\ (k + 1) - 1 = k /\ k \in 0 .. n /\ k + 1 \in 0 .. n
    OBVIOUS
  <2>2. tmp[k + 1] = tmp[k] \div radices[k + 1] /\ q[k + 1] = q[k] * radices[k + 1]
    BY <1>1, <1>2, <2>1 DEF IsLeft, IsProducts
  <2>3. tmp[k] \in Nat /\ q[k] \in Radix /\ radices[k + 1] \in Radix
    BY <1>1, <1>3, <2>1
  <2>4. tmp[k] * q[k] <= number
    BY <1>6
  <2>5. (tmp[k] \div radices[k + 1]) * (q[k] * radices[k + 1]) <= number
    BY <1>4, <2>3, <2>4, LessIsLeft
  <2> QED
    BY <2>1, <2>2, <2>5
<1>7. n \in T
  <2>1. 0 .. n \subseteq T
    <3> HIDE DEF T
    <3> QED
      BY <1>5, <1>6, UpToN
  <2> QED
    BY <2>1
<1>8. PICK a \in Nat, p \in Radix : a = tmp[n] /\ p = q[n] /\ a * p <= number /\ number < p
  <2>1. tmp[n] \in Nat /\ q[n] \in Radix
    BY <1>1
  <2>2. HowMany(radices) = q[n]
    BY <1>1, <1>2 DEF IsProducts
  <2>3. number < q[n]
    BY <2>1, <2>2 DEF Radix
  <2> QED
    BY <1>7, <2>1, <2>3
<1>9. a = 0
  <2> SUFFICES ASSUME a >= 1 PROVE FALSE
    OBVIOUS
  <2>1. a * p >= p /\ a * p \in Nat
    BY DEF Radix
  <2> QED
    BY <1>4, <1>8, <2>1 DEF Radix
<1> QED
  BY <1>1, <1>8, <1>9

(* A number has its digits for itself.                                     *)
LEMMA DigitsTell ==
  ASSUME NEW radices \in Seq(Radix),
         NEW a \in 0 .. HowMany(radices) - 1, NEW b \in 0 .. HowMany(radices) - 1,
         \A k \in 1 .. Len(radices) : Digit(radices, a, k) = Digit(radices, b, k)
  PROVE  a = b
<1>1. PICK n \in Nat : n = Len(radices)
  OBVIOUS
<1>2. a \in Nat /\ b \in Nat
  BY HowManyIsPositive DEF Radix
<1>3. PICK f \in [0 .. n -> Nat] : IsLeft(f, radices, a)
  BY <1>1, <1>2, LeftDefined
<1>4. PICK g \in [0 .. n -> Nat] : IsLeft(g, radices, b)
  BY <1>1, <1>2, LeftDefined
<1> DEFINE T == {k \in 0 .. n : f[n - k] = g[n - k]}
<1>5. 0 \in T
  <2>1. f[n] = 0 /\ g[n] = 0
    BY <1>1, <1>3, <1>4, NothingIsLeft
  <2> QED
    BY <2>1
<1>6. ASSUME NEW k \in 0 .. n - 1, k \in T PROVE k + 1 \in T
  <2>1. PICK j \in 1 .. n : j = n - k /\ j - 1 = n - (k + 1) /\ j \in 0 .. n /\ j - 1 \in 0 .. n
    <3>1. n - k \in 1 .. n
      OBVIOUS
    <3> QED
      BY <3>1
  <2>2. f[j] = g[j]
    BY <1>6, <2>1
  <2>3. /\ f[j] = f[j - 1] \div radices[j] /\ Digit(radices, a, j) = f[j - 1] % radices[j]
        /\ g[j] = g[j - 1] \div radices[j] /\ Digit(radices, b, j) = g[j - 1] % radices[j]
    BY <1>1, <1>3, <1>4 DEF IsLeft
  <2>4. f[j - 1] \in Nat /\ g[j - 1] \in Nat /\ radices[j] \in Radix
    <3>1. radices[j] \in Radix
      BY <1>1
    <3> QED
      BY <2>1, <3>1
  <2>5. Digit(radices, a, j) = Digit(radices, b, j)
    <3>1. j \in 1 .. Len(radices)
      BY <1>1
    <3> QED
      BY <3>1, Zenon
  <2>6. f[j - 1] = g[j - 1]
    <3>1. PICK x \in Nat, y \in Nat, r \in Radix : x = f[j - 1] /\ y = g[j - 1] /\ r = radices[j]
      BY <2>4
    <3>2. x \div r = y \div r /\ x % r = y % r
      BY <2>2, <2>3, <2>5, <3>1
    <3>3. x = (x \div r) * r + (x % r) /\ y = (y \div r) * r + (y % r)
      BY <3>1, DivisionIsUndone
    <3> QED
      BY <3>1, <3>2, <3>3
  <2> QED
    BY <2>1, <2>6
<1>7. n \in T
  <2>1. 0 .. n \subseteq T
    <3> HIDE DEF T
    <3> QED
      BY <1>5, <1>6, UpToN
  <2> HIDE DEF T
  <2> QED
    BY <2>1
<1>8. f[0] = g[0]
  BY <1>7
<1> QED
  BY <1>3, <1>4, <1>8 DEF IsLeft

(* One digit more makes a number that is still below the product of the    *)
(* radices.                                                                *)
LEMMA OneDigitMore ==
  ASSUME NEW a \in Nat, NEW r \in Radix, NEW d \in 0 .. r - 1, NEW p \in Radix, NEW c \in Nat,
         (a + 1) * (p * r) <= c
  PROVE  ((a * r + d) + 1) * p <= c
<1>1. (a * r + d) + 1 <= (a + 1) * r
  BY DEF Radix
<1>2. PICK u \in Nat, v \in Nat : u = (a * r + d) + 1 /\ v = (a + 1) * r /\ u <= v
  BY <1>1 DEF Radix
<1>3. u * p <= v * p
  BY <1>2 DEF Radix
<1>4. v * p = (a + 1) * (p * r)
  BY <1>2 DEF Radix
<1>5. u * p \in Nat /\ v * p \in Nat
  BY DEF Radix
<1> QED
  BY <1>2, <1>3, <1>4, <1>5

(* Every choice of digits is that of a number.                             *)
LEMMA DigitsGive ==
  ASSUME NEW radices \in Seq(Radix), NEW d \in [1 .. Len(radices) -> Nat],
         \A k \in 1 .. Len(radices) : d[k] \in 0 .. radices[k] - 1
  PROVE  \E c \in 0 .. HowMany(radices) - 1 :
            \A k \in 1 .. Len(radices) : Digit(radices, c, k) = d[k]
<1>1. PICK n \in Nat : n = Len(radices)
  OBVIOUS
<1>2. PICK q \in [0 .. n -> Radix] : IsProducts(q, radices)
  BY <1>1, ProductsDefined
<1>3. \A k \in 1 .. n : radices[k] \in Radix /\ d[k] \in 0 .. radices[k] - 1
  BY <1>1
<1> DEFINE at(i) == n - i + 1
           step == [i \in 1 .. n |-> [v \in Nat |-> v * radices[at(i)] + d[at(i)]]]
<1>4. step \in [1 .. n -> [Nat -> Nat]]
  <2>1. ASSUME NEW i \in 1 .. n, NEW v \in Nat PROVE v * radices[at(i)] + d[at(i)] \in Nat
    <3>1. at(i) \in 1 .. n
      OBVIOUS
    <3>2. PICK r \in Radix : r = radices[at(i)] /\ d[at(i)] \in 0 .. r - 1
      BY <1>3, <3>1
    <3> QED
      BY <3>2, DivisionUndoes
  <2> QED
    BY <2>1
<1>5. PICK w \in [0 .. n -> Nat] : w[0] = 0 /\ \A i \in 1 .. n : w[i] = step[i][w[i - 1]]
  <2> HIDE DEF step
  <2>1. 0 \in Nat
    OBVIOUS
  <2>2. PICK w \in [0 .. n -> Nat] : Recursive(w, n, 0, step)
    BY <1>4, <2>1, RecursionDefined
  <2>3. w[0] = 0 /\ \A i \in 1 .. n : w[i] = step[i][w[i - 1]]
    BY <2>2 DEF Recursive
  <2> QED
    BY <2>3
<1>6. ASSUME NEW i \in 1 .. n PROVE w[i] = w[i - 1] * radices[at(i)] + d[at(i)]
  <2>1. w[i - 1] \in Nat
    OBVIOUS
  <2> QED
    BY <1>5, <2>1
<1> HIDE DEF step
<1>7. w[n] < HowMany(radices) /\ w[n] \in Nat
  <2>1. PICK top \in Radix : top = q[n] /\ top = HowMany(radices)
    BY <1>1, <1>2 DEF IsProducts
  <2> DEFINE T == {i \in 0 .. n : (w[i] + 1) * q[n - i] <= top}
  <2>2. 0 \in T
    <3>1. w[0] = 0 /\ n - 0 = n /\ 0 \in 0 .. n
      BY <1>5
    <3>2. (0 + 1) * top <= top
      BY DEF Radix
    <3> QED
      BY <2>1, <3>1, <3>2
  <2>3. ASSUME NEW k \in 0 .. n - 1, k \in T PROVE k + 1 \in T
    <3>1. PICK j \in 1 .. n : j = n - k /\ j - 1 = n - (k + 1) /\ at(k + 1) = j
      <4>1. n - k \in 1 .. n
        OBVIOUS
      <4> QED
        BY <4>1
    <3>2. k + 1 \in 1 .. n /\ k + 1 \in 0 .. n /\ (k + 1) - 1 = k /\ j - 1 \in 0 .. n /\ k \in 0 .. n
      BY <3>1
    <3>3. w[k + 1] = w[k] * radices[j] + d[j]
      BY <1>6, <3>1, <3>2
    <3>4. q[j] = q[j - 1] * radices[j]
      BY <1>1, <1>2 DEF IsProducts
    <3>5. w[k] \in Nat /\ radices[j] \in Radix /\ d[j] \in 0 .. radices[j] - 1 /\ q[j - 1] \in Radix
      BY <1>3, <3>2
    <3>6. (w[k] + 1) * (q[j - 1] * radices[j]) <= top
      BY <2>3, <3>1, <3>4
    <3>7. ((w[k] * radices[j] + d[j]) + 1) * q[j - 1] <= top
      <4>1. top \in Nat
        BY DEF Radix
      <4> QED
        BY <3>5, <3>6, <4>1, OneDigitMore
    <3> QED
      BY <3>1, <3>2, <3>3, <3>7
  <2>4. n \in T
    <3>1. 0 .. n \subseteq T
      <4> HIDE DEF T
      <4> QED
        BY <2>2, <2>3, UpToN
    <3> QED
      BY <3>1
  <2>5. q[0] = 1 /\ w[n] \in Nat
    BY <1>2 DEF IsProducts
  <2>6. (w[n] + 1) * q[0] <= top
    BY <2>4
  <2>7. w[n] + 1 <= top
    BY <2>5, <2>6
  <2> QED
    BY <2>1, <2>5, <2>7 DEF Radix
<1>8. PICK tmp \in [0 .. n -> Nat] : IsLeft(tmp, radices, w[n])
  BY <1>1, <1>7, LeftDefined
<1>9. ASSUME NEW k \in 0 .. n - 1, tmp[k] = w[n - k]
      PROVE  tmp[k + 1] = w[n - (k + 1)] /\ Digit(radices, w[n], k + 1) = d[k + 1]
  <2>1. PICK j \in 1 .. n : j = n - k /\ j - 1 = n - (k + 1) /\ at(j) = k + 1
    <3>1. n - k \in 1 .. n
      OBVIOUS
    <3> QED
      BY <3>1
  <2>2. k + 1 \in 1 .. n /\ (k + 1) - 1 = k /\ j - 1 \in 0 .. n
    BY <2>1
  <2>3. tmp[k] = w[j - 1] * radices[k + 1] + d[k + 1]
    BY <1>6, <1>9, <2>1
  <2>4. /\ tmp[k + 1] = tmp[k] \div radices[k + 1]
        /\ Digit(radices, w[n], k + 1) = tmp[k] % radices[k + 1]
    BY <1>1, <1>8, <2>2 DEF IsLeft
  <2>5. w[j - 1] \in Nat /\ radices[k + 1] \in Radix /\ d[k + 1] \in 0 .. radices[k + 1] - 1
    BY <1>3, <2>2
  <2>6. PICK a \in Nat, r \in Radix : a = w[j - 1] /\ r = radices[k + 1] /\ d[k + 1] \in 0 .. r - 1
    BY <2>5
  <2>7. (a * r + d[k + 1]) \div r = a /\ (a * r + d[k + 1]) % r = d[k + 1]
    BY <2>6, DivisionUndoes
  <2> QED
    BY <2>1, <2>3, <2>4, <2>6, <2>7
<1> DEFINE T == {k \in 0 .. n : tmp[k] = w[n - k]}
<1>10. 0 \in T
  BY <1>8 DEF IsLeft
<1>11. 0 .. n \subseteq T
  <2>1. ASSUME NEW k \in 0 .. n - 1, k \in T PROVE k + 1 \in T
    <3>1. tmp[k] = w[n - k]
      BY <2>1
    <3>2. tmp[k + 1] = w[n - (k + 1)]
      BY <1>9, <3>1
    <3> QED
      BY <3>2
  <2> HIDE DEF T
  <2> QED
    BY <1>10, <2>1, UpToN
<1>12. ASSUME NEW k \in 1 .. n PROVE Digit(radices, w[n], k) = d[k]
  <2>1. k - 1 \in 0 .. n - 1 /\ k - 1 \in 0 .. n /\ (k - 1) + 1 = k
    OBVIOUS
  <2>2. tmp[k - 1] = w[n - (k - 1)]
    BY <1>11, <2>1
  <2>3. Digit(radices, w[n], (k - 1) + 1) = d[(k - 1) + 1]
    BY <1>9, <2>1, <2>2
  <2> QED
    BY <2>1, <2>3
<1>13. w[n] \in 0 .. HowMany(radices) - 1
  BY <1>7, HowManyIsPositive DEF Radix
<1> QED
  BY <1>1, <1>12, <1>13

-----------------------------------------------------------------------------
(* The test cases of a permutation run.                                    *)
FlavorSet == (STRING \cup {ImplicitFlavor}) \ {Off}
ConfigSet == [name : STRING, flavor : FlavorSet, enabled : BOOLEAN]

\* A choice as the two numbers give it.
Choice(deps, mask, comb) ==
    [j \in DOMAIN deps |-> IF Enabled(deps, mask, j) THEN ChosenFlavor(deps, mask, comb, j) ELSE Off]

LEMMA BitsAreRadices ==
  ASSUME NEW deps \in Seq(Offered)
  PROVE  /\ Bits(deps) \in Seq(Radix) /\ Len(Bits(deps)) = Len(deps)
         /\ \A j \in 1 .. Len(deps) : Bits(deps)[j] = 2
<1>1. PICK n \in Nat : n = Len(deps) /\ DOMAIN deps = 1 .. n
  OBVIOUS
<1>2. Bits(deps) \in [1 .. n -> Radix] /\ \A j \in 1 .. n : Bits(deps)[j] = 2
  BY <1>1 DEF Bits, Radix
<1> QED
  BY <1>1, <1>2, SeqFromFunction

LEMMA EachIsOffered ==
  ASSUME NEW deps \in Seq(Offered), NEW j \in 1 .. Len(deps)
  PROVE  deps[j].name \in STRING /\ deps[j].flavors \in Seq(STRING \ {Off})
<1>1. PICK d \in Offered : d = deps[j]
  OBVIOUS
<1>2. d.name \in STRING /\ d.flavors \in Seq(STRING \ {Off})
  BY Zenon DEF Offered
<1> QED
  BY <1>1, <1>2

LEMMA FlavorsAreCounted ==
  ASSUME NEW deps \in Seq(Offered), NEW j \in 1 .. Len(deps)
  PROVE  /\ FlavorCount(deps[j]) \in Radix
         /\ deps[j].flavors # <<>> => /\ FlavorCount(deps[j]) = Len(deps[j].flavors)
                                      /\ DOMAIN deps[j].flavors = 1 .. FlavorCount(deps[j])
         /\ deps[j].flavors = <<>> => FlavorCount(deps[j]) = 1
<1>1. deps[j].flavors \in Seq(STRING \ {Off})
  BY EachIsOffered
<1>2. PICK fl \in Seq(STRING \ {Off}) : fl = deps[j].flavors
  BY <1>1
<1>3. fl # <<>> => Len(fl) \in Nat \ {0} /\ DOMAIN fl = 1 .. Len(fl)
  BY EmptySeq, LenProperties
<1> QED
  BY <1>2, <1>3 DEF FlavorCount, Radix

LEMMA RadicesAreRadices ==
  ASSUME NEW deps \in Seq(Offered), NEW mask
  PROVE  /\ Radices(deps, mask) \in Seq(Radix) /\ Len(Radices(deps, mask)) = Len(deps)
         /\ \A j \in 1 .. Len(deps) :
               Radices(deps, mask)[j] = IF Enabled(deps, mask, j) THEN FlavorCount(deps[j]) ELSE 1
<1>1. PICK n \in Nat : n = Len(deps) /\ DOMAIN deps = 1 .. n
  OBVIOUS
<1>2. \A j \in 1 .. n : FlavorCount(deps[j]) \in Radix
  BY <1>1, FlavorsAreCounted
<1>3. /\ Radices(deps, mask) \in [1 .. n -> Radix]
      /\ \A j \in 1 .. n : Radices(deps, mask)[j] = IF Enabled(deps, mask, j)
                                                     THEN FlavorCount(deps[j]) ELSE 1
  BY <1>1, <1>2 DEF Radices, Radix
<1> QED
  BY <1>1, <1>3, SeqFromFunction

(* The flavor that is taken without a choice is one of a dependency's, and *)
(* none is the mark of a dependency that is off.                           *)
LEMMA FlavorsAreFlavors ==
  ASSUME NEW deps \in Seq(Offered), NEW j \in 1 .. Len(deps)
  PROVE  /\ Flavors(deps[j]) \subseteq FlavorSet
         /\ PickDefaultFlavor(deps[j]) \in Flavors(deps[j])
<1>1. PICK fl \in Seq(STRING \ {Off}) : fl = deps[j].flavors
  BY EachIsOffered
<1>2. ToSet(fl) \subseteq FlavorSet
  BY DEF ToSet, FlavorSet
<1>3. fl # <<>> => Head(fl) \in FlavorSet
  BY DEF FlavorSet
<1>4. ImplicitFlavor \in FlavorSet
  <2>1. ImplicitFlavor # Off
    BY DEF ImplicitFlavor, Off
  <2> QED
    BY <2>1 DEF FlavorSet
<1>5. PickDefaultFlavor(deps[j]) \in FlavorSet
  BY <1>1, <1>3, <1>4 DEF PickDefaultFlavor
<1> QED
  BY <1>1, <1>2, <1>5 DEF Flavors

LEMMA ChosenIsFlavor ==
  ASSUME NEW deps \in Seq(Offered), NEW mask \in Nat, NEW comb \in Nat,
         NEW j \in 1 .. Len(deps), Enabled(deps, mask, j)
  PROVE  ChosenFlavor(deps, mask, comb, j) \in Flavors(deps[j])
<1>1. CASE deps[j].flavors = <<>>
  BY <1>1, FlavorsAreFlavors, Zenon DEF ChosenFlavor
<1>2. CASE deps[j].flavors # <<>>
  <2>1. Radices(deps, mask) \in Seq(Radix) /\ j \in 1 .. Len(Radices(deps, mask))
        /\ Radices(deps, mask)[j] = FlavorCount(deps[j])
    BY RadicesAreRadices
  <2>2. Digit(Radices(deps, mask), comb, j) \in 0 .. Radices(deps, mask)[j] - 1
    BY <2>1, DigitIsBelow, Zenon
  <2>3. PICK r \in Radix : r = FlavorCount(deps[j]) /\ DOMAIN deps[j].flavors = 1 .. r
    BY <1>2, FlavorsAreCounted
  <2>4. PICK d \in 0 .. r - 1 : d = Digit(Radices(deps, mask), comb, j)
    BY <2>1, <2>2, <2>3
  <2>5. 1 + d \in DOMAIN deps[j].flavors
    BY <2>3, <2>4 DEF Radix
  <2>6. ChosenFlavor(deps, mask, comb, j) = deps[j].flavors[1 + d]
    BY <1>2, <2>4 DEF ChosenFlavor
  <2> QED
    BY <2>5, <2>6 DEF Flavors, ToSet
<1> QED
  BY <1>1, <1>2

(* The configurations of a case are those of its choice.                   *)
LEMMA ConfigsAreOfChoice ==
  ASSUME NEW deps \in Seq(Offered), NEW mask \in Nat, NEW comb \in Nat
  PROVE  /\ Configs(deps, mask, comb) \in Seq(ConfigSet)
         /\ Len(Configs(deps, mask, comb)) = Len(deps)
         /\ \A j \in 1 .. Len(deps) :
               Configs(deps, mask, comb)[j] = ConfigFor(deps[j], Choice(deps, mask, comb)[j])
<1>1. PICK n \in Nat : n = Len(deps) /\ DOMAIN deps = 1 .. n
  OBVIOUS
<1>2. ASSUME NEW j \in 1 .. n
      PROVE  /\ Configs(deps, mask, comb)[j] = ConfigFor(deps[j], Choice(deps, mask, comb)[j])
             /\ Configs(deps, mask, comb)[j] \in ConfigSet
  <2>1. deps[j].name \in STRING
    BY <1>1, EachIsOffered
  <2>2. PickDefaultFlavor(deps[j]) \in FlavorSet
    BY <1>1, FlavorsAreFlavors
  <2>3. CASE Enabled(deps, mask, j)
    <3>1. ChosenFlavor(deps, mask, comb, j) \in FlavorSet
      BY <1>1, <2>3, ChosenIsFlavor, FlavorsAreFlavors
    <3>2. Choice(deps, mask, comb)[j] = ChosenFlavor(deps, mask, comb, j)
      BY <1>1, <2>3 DEF Choice
    <3>3. Configs(deps, mask, comb)[j] = Config(deps[j], ChosenFlavor(deps, mask, comb, j), TRUE)
      BY <1>1, <2>3 DEF Configs
    <3>4. ConfigFor(deps[j], Choice(deps, mask, comb)[j])
             = Config(deps[j], ChosenFlavor(deps, mask, comb, j), TRUE)
      BY <3>1, <3>2 DEF ConfigFor, FlavorSet
    <3>5. Config(deps[j], ChosenFlavor(deps, mask, comb, j), TRUE) \in ConfigSet
      BY <2>1, <3>1 DEF Config, ConfigSet
    <3> QED
      BY <3>3, <3>4, <3>5
  <2>4. CASE ~Enabled(deps, mask, j)
    <3>1. Choice(deps, mask, comb)[j] = Off
      BY <1>1, <2>4 DEF Choice
    <3>2. Configs(deps, mask, comb)[j] = Config(deps[j], PickDefaultFlavor(deps[j]), FALSE)
      BY <1>1, <2>4 DEF Configs
    <3>3. ConfigFor(deps[j], Choice(deps, mask, comb)[j])
             = Config(deps[j], PickDefaultFlavor(deps[j]), FALSE)
      BY <3>1 DEF ConfigFor
    <3>4. Config(deps[j], PickDefaultFlavor(deps[j]), FALSE) \in ConfigSet
      BY <2>1, <2>2 DEF Config, ConfigSet
    <3> QED
      BY <3>2, <3>3, <3>4
  <2> QED
    BY <2>3, <2>4
<1>3. Configs(deps, mask, comb) \in [1 .. n -> ConfigSet]
  <2>1. Configs(deps, mask, comb) = [j \in 1 .. n |-> Configs(deps, mask, comb)[j]]
    BY <1>1 DEF Configs
  <2> QED
    BY <1>2, <2>1
<1> QED
  BY <1>1, <1>2, <1>3, SeqFromFunction

(* The configurations that are enabled, or not, after each of them.        *)
ThoseStep(s, config, enabled) == IF config.enabled = enabled THEN Append(s, config) ELSE s

IsThose(list, configs, enabled) ==
    /\ list[0] = <<>>
    /\ \A i \in 1 .. Len(configs) : list[i] = ThoseStep(list[i - 1], configs[i], enabled)
    /\ Those(configs, enabled) = list[Len(configs)]

LEMMA ThoseDefined ==
  ASSUME NEW configs \in Seq(ConfigSet), NEW enabled
  PROVE  \E list \in [0 .. Len(configs) -> Seq(ConfigSet)] : IsThose(list, configs, enabled)
<1>0. PICK n \in Nat : n = Len(configs)
  OBVIOUS
<1> DEFINE V == Seq(ConfigSet)
           base == <<>>
           step == [i \in 1 .. n |-> [v \in V |-> ThoseStep(v, configs[i], enabled)]]
           Is(f) == f = [i \in 0 .. n |-> IF i = 0 THEN base ELSE ThoseStep(f[i - 1], configs[i], enabled)]
<1>1. Those(configs, enabled) = (CHOOSE f : Is(f))[n]
  BY <1>0, Zenon DEF Those, ThoseStep
<1>2. base \in V
  OBVIOUS
<1>3. ASSUME NEW i \in 1 .. n, NEW v \in V PROVE ThoseStep(v, configs[i], enabled) \in V
  <2>1. configs[i] \in ConfigSet
    BY <1>0
  <2> HIDE DEF V
  <2>2. v \in Seq(ConfigSet)
    BY DEF V
  <2>3. ThoseStep(v, configs[i], enabled) \in Seq(ConfigSet)
    BY <2>1, <2>2 DEF ThoseStep
  <2> QED
    BY <2>3 DEF V
<1> HIDE DEF V, base
<1>4. step \in [1 .. n -> [V -> V]]
  BY <1>3
<1>5. \A i \in 1 .. n : \A v \in V : step[i][v] = ThoseStep(v, configs[i], enabled)
  OBVIOUS
<1> HIDE DEF step
<1>6. PICK g \in [0 .. n -> V] :
         /\ g[0] = base
         /\ \A i \in 1 .. n : g[i] = step[i][g[i - 1]]
         /\ \A f : Computed(f, n, V, base, step) => f = g
  BY <1>2, <1>4, LoopDefined
<1>7. ASSUME NEW i \in 1 .. n PROVE g[i] = ThoseStep(g[i - 1], configs[i], enabled)
  <2>1. g[i - 1] \in V
    BY <1>6
  <2> QED
    BY <1>5, <1>6, <2>1
<1>8. Is(g)
  <2>1. \A i \in 0 .. n : g[i] = IF i = 0 THEN base ELSE ThoseStep(g[i - 1], configs[i], enabled)
    BY <1>6, <1>7
  <2> QED
    BY <2>1
<1>9. ASSUME NEW f, Is(f) PROVE f = g
  <2>1. f = [i \in 0 .. n |-> IF i = 0 THEN base ELSE ThoseStep(f[i - 1], configs[i], enabled)]
    BY <1>9, Zenon
  <2> HIDE DEF Is
  <2>2. f[0] = base
    BY <2>1
  <2>3. \A i \in 1 .. n : f[i] = ThoseStep(f[i - 1], configs[i], enabled)
    BY <2>1
  <2>4. Computed(f, n, V, base, step)
    BY <1>5, <2>1, <2>2, <2>3 DEF Computed
  <2> QED
    BY <1>6, <2>4
<1>10. (CHOOSE f : Is(f)) = g
  <2> HIDE DEF Is
  <2> QED
    BY <1>8, <1>9
<1> HIDE DEF Is
<1>11. IsThose(g, configs, enabled)
  BY <1>0, <1>1, <1>6, <1>7, <1>10 DEF IsThose, base
<1> QED
  BY <1>0, <1>6, <1>11 DEF V

Named(s, name) == {i \in DOMAIN s : s[i].name = name}

(* What is appended has a name of its own if no other has its name.        *)
LEMMA AppendDistinct ==
  ASSUME NEW s \in Seq(ConfigSet), NEW c \in ConfigSet, Distinct(s),
         \A d \in ToSet(s) : d.name # c.name
  PROVE  Distinct(Append(s, c))
<1>1. PICK m \in Nat : m = Len(s) /\ DOMAIN s = 1 .. m
  OBVIOUS
<1>2. PICK t \in Seq(ConfigSet) : t = Append(s, c) /\ DOMAIN t = 1 .. m + 1
  <2>1. Append(s, c) \in Seq(ConfigSet) /\ DOMAIN Append(s, c) = 1 .. Len(s) + 1
    OBVIOUS
  <2> QED
    BY <1>1, <2>1
<1>3. t[m + 1] = c /\ \A i \in 1 .. m : t[i] = s[i]
  BY <1>1, <1>2
<1>4. \A i \in 1 .. m : t[i].name # c.name
  BY <1>1, <1>3 DEF ToSet
<1>5. \A i, k \in 1 .. m : t[i].name = t[k].name => i = k
  BY <1>1, <1>3 DEF Distinct
<1>6. ASSUME NEW i \in 1 .. m + 1, NEW k \in 1 .. m + 1, t[i].name = t[k].name PROVE i = k
  <2>1. CASE i \in 1 .. m /\ k \in 1 .. m
    BY <1>5, <1>6, <2>1
  <2>2. CASE i = m + 1 /\ k \in 1 .. m
    BY <1>3, <1>4, <1>6, <2>2
  <2>3. CASE i \in 1 .. m /\ k = m + 1
    BY <1>3, <1>4, <1>6, <2>3
  <2> QED
    BY <2>1, <2>2, <2>3
<1> QED
  BY <1>2, <1>6 DEF Distinct

LEMMA ThoseAre ==
  ASSUME NEW configs \in Seq(ConfigSet), NEW enabled
  PROVE  /\ Those(configs, enabled) \in Seq(ConfigSet)
         /\ ToSet(Those(configs, enabled)) = {c \in ToSet(configs) : c.enabled = enabled}
         /\ Distinct(configs) => Distinct(Those(configs, enabled))
<1>1. PICK n \in Nat : n = Len(configs) /\ DOMAIN configs = 1 .. n
  OBVIOUS
<1>2. PICK list \in [0 .. n -> Seq(ConfigSet)] : IsThose(list, configs, enabled)
  BY <1>1, ThoseDefined
<1>3. /\ list[0] = <<>> /\ Those(configs, enabled) = list[n]
      /\ \A i \in 1 .. n : list[i] = ThoseStep(list[i - 1], configs[i], enabled)
  BY <1>1, <1>2 DEF IsThose
<1> DEFINE T == {k \in 0 .. n :
                    /\ ToSet(list[k]) = {configs[i] : i \in {j \in 1 .. k : configs[j].enabled = enabled}}
                    /\ Distinct(configs) => Distinct(list[k])}
<1>4. 0 \in T
  BY <1>3 DEF ToSet, Distinct
<1>5. ASSUME NEW k \in 0 .. n - 1, k \in T PROVE k + 1 \in T
  <2>1. /\ k + 1 \in 1 .. n /\ k + 1 \in 0 .. n /\ (k + 1) - 1 = k /\ k \in 0 .. n
        /\ 1 .. k + 1 = (1 .. k) \cup {k + 1}
    OBVIOUS
  <2>2. PICK c \in ConfigSet : c = configs[k + 1]
    BY <1>1, <2>1
  <2>3. PICK s \in Seq(ConfigSet) : s = list[k]
    BY <2>1
  <2>4. list[k + 1] = ThoseStep(s, c, enabled)
    BY <1>3, <2>1, <2>2, <2>3
  <2>5. /\ ToSet(s) = {configs[i] : i \in {j \in 1 .. k : configs[j].enabled = enabled}}
        /\ Distinct(configs) => Distinct(s)
    BY <1>5, <2>3
  <2>6. CASE c.enabled = enabled
    <3>1. list[k + 1] = Append(s, c) /\ ToSet(Append(s, c)) = ToSet(s) \cup {c}
      BY <2>4, <2>6, RangeOfAppend DEF ThoseStep
    <3>2. ToSet(list[k + 1])
             = {configs[i] : i \in {j \in 1 .. k + 1 : configs[j].enabled = enabled}}
      <4>1. PICK K : K = {j \in 1 .. k : configs[j].enabled = enabled}
        OBVIOUS
      <4>2. {j \in 1 .. k + 1 : configs[j].enabled = enabled} = K \cup {k + 1}
        BY <2>1, <2>2, <2>6, <4>1
      <4>3. ToSet(list[k + 1]) = {configs[i] : i \in K} \cup {configs[k + 1]}
        BY <2>2, <2>5, <3>1, <4>1
      <4>4. {configs[i] : i \in K} \cup {configs[k + 1]} = {configs[i] : i \in K \cup {k + 1}}
        OBVIOUS
      <4> QED
        BY <4>2, <4>3, <4>4
    <3>3. ASSUME Distinct(configs) PROVE Distinct(Append(s, c))
      <4>1. ASSUME NEW d \in ToSet(s) PROVE d.name # c.name
        <5>1. PICK i \in 1 .. k : d = configs[i]
          BY <2>5
        <5>2. i \in DOMAIN configs /\ k + 1 \in DOMAIN configs /\ i # k + 1
          BY <1>1, <2>1
        <5> QED
          BY <2>2, <3>3, <5>1, <5>2 DEF Distinct
      <4> QED
        BY <2>5, <3>3, <4>1, AppendDistinct
    <3> QED
      BY <2>1, <3>1, <3>2, <3>3
  <2>7. CASE c.enabled # enabled
    <3>1. list[k + 1] = s
      BY <2>4, <2>7 DEF ThoseStep
    <3>2. {j \in 1 .. k + 1 : configs[j].enabled = enabled}
             = {j \in 1 .. k : configs[j].enabled = enabled}
      BY <2>1, <2>2, <2>7
    <3> QED
      BY <2>1, <2>5, <3>1, <3>2
  <2> QED
    BY <2>6, <2>7
<1>6. n \in T
  <2>1. 0 .. n \subseteq T
    <3> HIDE DEF T
    <3> QED
      BY <1>4, <1>5, UpToN
  <2> HIDE DEF T
  <2> QED
    BY <2>1
<1>7. list[n] \in Seq(ConfigSet)
  OBVIOUS
<1>8. {configs[i] : i \in {j \in 1 .. n : configs[j].enabled = enabled}}
         = {c \in ToSet(configs) : c.enabled = enabled}
  BY <1>1 DEF ToSet
<1> QED
  BY <1>3, <1>6, <1>7, <1>8

(* Every configuration is enabled or not.                                  *)
LEMMA ThoseTogether ==
  ASSUME NEW configs \in Seq(ConfigSet)
  PROVE  Len(Those(configs, TRUE) \o Those(configs, FALSE)) = Len(configs)
<1>1. PICK n \in Nat : n = Len(configs) /\ DOMAIN configs = 1 .. n
  OBVIOUS
<1>2. PICK on \in [0 .. n -> Seq(ConfigSet)] : IsThose(on, configs, TRUE)
  BY <1>1, ThoseDefined
<1>3. PICK off \in [0 .. n -> Seq(ConfigSet)] : IsThose(off, configs, FALSE)
  BY <1>1, ThoseDefined
<1> DEFINE T == {k \in 0 .. n : Len(on[k]) + Len(off[k]) = k}
<1>4. 0 \in T
  <2>1. on[0] = <<>> /\ off[0] = <<>>
    BY <1>2, <1>3 DEF IsThose
  <2> QED
    BY <2>1
<1>5. ASSUME NEW k \in 0 .. n - 1, k \in T PROVE k + 1 \in T
  <2>1. k + 1 \in 1 .. n /\ k + 1 \in 0 .. n /\ (k + 1) - 1 = k /\ k \in 0 .. n
    OBVIOUS
  <2>2. PICK c \in ConfigSet : c = configs[k + 1]
    BY <1>1, <2>1
  <2>3. PICK s \in Seq(ConfigSet), t \in Seq(ConfigSet) : s = on[k] /\ t = off[k]
    BY <2>1
  <2>4. on[k + 1] = ThoseStep(s, c, TRUE) /\ off[k + 1] = ThoseStep(t, c, FALSE)
    BY <1>1, <1>2, <1>3, <2>1, <2>2, <2>3 DEF IsThose
  <2>5. PICK a \in Nat, b \in Nat : a = Len(s) /\ b = Len(t) /\ a + b = k
    BY <1>5, <2>3
  <2>6. c.enabled \in BOOLEAN
    BY DEF ConfigSet
  <2>7. /\ Len(Append(s, c)) = a + 1 /\ Len(Append(t, c)) = b + 1 /\ a + (b + 1) = k + 1
        /\ (a + 1) + b = k + 1 /\ Len(s) = a /\ Len(t) = b
    <3>1. Len(Append(s, c)) = Len(s) + 1 /\ Len(Append(t, c)) = Len(t) + 1
      OBVIOUS
    <3>2. a + b = k
      BY <2>5
    <3>3. a + (b + 1) = k + 1 /\ (a + 1) + b = k + 1
      BY <3>2
    <3> QED
      BY <2>5, <3>1, <3>3
  <2>8. CASE c.enabled = TRUE
    <3>1. on[k + 1] = Append(s, c) /\ off[k + 1] = t
      BY <2>4, <2>8 DEF ThoseStep
    <3> QED
      BY <2>1, <2>7, <3>1
  <2>9. CASE c.enabled = FALSE
    <3>1. on[k + 1] = s /\ off[k + 1] = Append(t, c)
      BY <2>4, <2>9 DEF ThoseStep
    <3> QED
      BY <2>1, <2>7, <3>1
  <2> QED
    BY <2>6, <2>8, <2>9
<1>6. n \in T
  <2>1. 0 .. n \subseteq T
    <3> HIDE DEF T
    <3> QED
      BY <1>4, <1>5, UpToN
  <2> HIDE DEF T
  <2> QED
    BY <2>1
<1>7. PICK s \in Seq(ConfigSet), t \in Seq(ConfigSet) :
         s = Those(configs, TRUE) /\ t = Those(configs, FALSE) /\ s = on[n] /\ t = off[n]
  <2>1. Those(configs, TRUE) = on[n] /\ Those(configs, FALSE) = off[n]
    BY <1>1, <1>2, <1>3 DEF IsThose
  <2>2. on[n] \in Seq(ConfigSet) /\ off[n] \in Seq(ConfigSet)
    OBVIOUS
  <2> QED
    BY <2>1, <2>2, Zenon
<1>8. Len(s \o t) = Len(s) + Len(t)
  OBVIOUS
<1> QED
  BY <1>1, <1>6, <1>7, <1>8

(* Names that are all different are as many as the entries.                *)
LEMMA NamesCounted ==
  ASSUME NEW S, NEW s \in Seq(S), Distinct(s)
  PROVE  IsFiniteSet(NamesIn(s)) /\ Cardinality(NamesIn(s)) = Len(s)
<1>1. PICK n \in Nat : n = Len(s) /\ DOMAIN s = 1 .. n
  BY LenProperties
<1> DEFINE f == [i \in 1 .. n |-> s[i].name]
<1>2. f \in Bijection(1 .. n, NamesIn(s))
  <2>1. NamesIn(s) = {s[i].name : i \in 1 .. n}
    BY <1>1 DEF NamesIn, ToSet
  <2>2. \A i, k \in 1 .. n : f[i] = f[k] => i = k
    BY <1>1 DEF Distinct
  <2> QED
    BY <2>1, <2>2 DEF Bijection, Injection, Surjection, IsInjective
<1>3. ExistsBijection(1 .. n, NamesIn(s))
  BY <1>2 DEF ExistsBijection
<1>4. IsFiniteSet(1 .. n)
  BY FS_Interval
<1> HIDE DEF f
<1>5. IsFiniteSet(NamesIn(s))
  BY <1>3, <1>4, FS_Bijection
<1>6. Cardinality(NamesIn(s)) = n
  BY <1>3, FS_CountingElements
<1> QED
  BY <1>1, <1>5, <1>6

\* The dependencies that are enabled in a choice.
On(deps, f) == {j \in DOMAIN deps : f[j] # Off}

\* Just their configurations.
HasEnabled(deps, f, E) ==
    /\ E \in Seq(ConfigSet) /\ Distinct(E)
    /\ ToSet(E) = {Config(deps[j], f[j], TRUE) : j \in On(deps, f)}

(* The enabled configurations of a case.                                   *)
LEMMA EnabledOfChoice ==
  ASSUME NEW deps \in Seq(Offered), Distinct(deps), NEW mask \in Nat, NEW comb \in Nat
  PROVE  HasEnabled(deps, Choice(deps, mask, comb), Those(Configs(deps, mask, comb), TRUE))
<1>01. PICK f : f = Choice(deps, mask, comb)
  OBVIOUS
<1>02. PICK E : E = Those(Configs(deps, mask, comb), TRUE)
  OBVIOUS
<1>1. PICK n \in Nat : n = Len(deps) /\ DOMAIN deps = 1 .. n
  OBVIOUS
<1>2. PICK C \in Seq(ConfigSet) : C = Configs(deps, mask, comb) /\ DOMAIN C = 1 .. n
  <2>1. Configs(deps, mask, comb) \in Seq(ConfigSet) /\ Len(Configs(deps, mask, comb)) = n
    BY <1>1, ConfigsAreOfChoice
  <2> QED
    BY <2>1
<1>3. \A j \in 1 .. n : C[j] = ConfigFor(deps[j], f[j])
  BY <1>01, <1>1, <1>2, ConfigsAreOfChoice
<1>4. \A j \in 1 .. n : C[j].name = deps[j].name /\ (C[j].enabled = TRUE <=> f[j] # Off)
  <2>1. \A d, c : ConfigFor(d, c).name = d.name /\ (ConfigFor(d, c).enabled = TRUE <=> c # Off)
    BY DEF ConfigFor, Config
  <2> QED
    BY <1>3, <2>1
<1>5. Distinct(C)
  BY <1>1, <1>2, <1>4 DEF Distinct
<1>6. /\ E \in Seq(ConfigSet) /\ Distinct(E)
      /\ ToSet(E) = {c \in ToSet(C) : c.enabled = TRUE}
  BY <1>02, <1>2, <1>5, ThoseAre
<1>7. {c \in ToSet(C) : c.enabled = TRUE} = {C[j] : j \in On(deps, f)}
  BY <1>1, <1>2, <1>4 DEF ToSet, On
<1>8. \A j \in On(deps, f) : C[j] = Config(deps[j], f[j], TRUE)
  BY <1>1, <1>3 DEF ConfigFor, On
<1>9. {C[j] : j \in On(deps, f)} = {Config(deps[j], f[j], TRUE) : j \in On(deps, f)}
  BY <1>8
<1> QED
  BY <1>01, <1>02, <1>6, <1>7, <1>9, Zenon DEF HasEnabled

LEMMA MatchesEnabled ==
  ASSUME NEW deps \in Seq(Offered), NEW f, NEW E, HasEnabled(deps, f, E), NEW s
  PROVE  Matches(s, E) <=> \E j \in On(deps, f) : deps[j].name = s.name /\ Accepts(s, f[j])
<1>01. /\ E \in Seq(ConfigSet) /\ Distinct(E)
      /\ ToSet(E) = {Config(deps[j], f[j], TRUE) : j \in On(deps, f)}
  BY DEF HasEnabled
<1>1. PICK n \in Nat : n = Len(E) /\ DOMAIN E = 1 .. n
  BY <1>01, LenProperties
<1>2. ASSUME Matches(s, E)
      PROVE  \E j \in On(deps, f) : deps[j].name = s.name /\ Accepts(s, f[j])
  <2>1. PICK i \in DOMAIN E : E[i].name = s.name /\ Accepts(s, E[i].flavor)
    BY <1>2, Zenon DEF Matches
  <2>2. E[i] \in ToSet(E)
    BY DEF ToSet
  <2>3. PICK j \in On(deps, f) : E[i] = Config(deps[j], f[j], TRUE)
    BY <1>01, <2>2
  <2>4. E[i].name = deps[j].name /\ E[i].flavor = f[j]
    BY <2>3 DEF Config
  <2> QED
    BY <2>1, <2>4
<1>3. ASSUME NEW j \in On(deps, f), deps[j].name = s.name, Accepts(s, f[j])
      PROVE  Matches(s, E)
  <2>1. Config(deps[j], f[j], TRUE) \in ToSet(E)
    BY <1>01
  <2>2. PICK i \in DOMAIN E : E[i] = Config(deps[j], f[j], TRUE)
    BY <2>1 DEF ToSet
  <2>3. E[i].name = s.name /\ E[i].flavor = f[j]
    BY <1>3, <2>2 DEF Config
  <2>4. \A k \in i + 1 .. Len(E) : E[k].name # s.name
    BY <1>1, <1>01, <2>3 DEF Distinct
  <2>5. Accepts(s, E[i].flavor)
    BY <1>3, <2>3
  <2> QED
    BY <2>3, <2>4, <2>5, Zenon DEF Matches
<1> QED
  BY <1>2, <1>3

(* What is skipped is what the user skips.                                 *)
LEMMA SkipIsSkipped ==
  ASSUME NEW deps \in Seq(Offered), Distinct(deps), NEW mask \in Nat, NEW comb \in Nat,
         NEW skips \in Seq(Seq(SkipEntry))
  PROVE  ShouldSkipPermutation(skips, Those(Configs(deps, mask, comb), TRUE))
            <=> Skipped(deps, skips, Choice(deps, mask, comb))
<1>1. PICK f : f = Choice(deps, mask, comb)
  OBVIOUS
<1>01. PICK E : E = Those(Configs(deps, mask, comb), TRUE)
  OBVIOUS
<1>02. HasEnabled(deps, f, E)
  BY <1>1, <1>01, EnabledOfChoice
<1>2. /\ E \in Seq(ConfigSet) /\ Distinct(E)
      /\ ToSet(E) = {Config(deps[j], f[j], TRUE) : j \in On(deps, f)}
  BY <1>02 DEF HasEnabled
<1>3. NamesIn(E) = {deps[j].name : j \in On(deps, f)}
  <2>1. \A j \in On(deps, f) : Config(deps[j], f[j], TRUE).name = deps[j].name
    BY DEF Config
  <2> QED
    <3>1. ASSUME NEW x \in ToSet(E) PROVE \E j \in On(deps, f) : x.name = deps[j].name
      BY <1>2, <2>1
    <3>2. ASSUME NEW j \in On(deps, f) PROVE \E x \in ToSet(E) : x.name = deps[j].name
      BY <1>2, <2>1
    <3>3. NamesIn(E) \subseteq {deps[j].name : j \in On(deps, f)}
      BY <3>1 DEF NamesIn
    <3>4. {deps[j].name : j \in On(deps, f)} \subseteq NamesIn(E)
      BY <3>2 DEF NamesIn
    <3> QED
      BY <3>3, <3>4
<1>4. IsFiniteSet(NamesIn(E)) /\ Cardinality(NamesIn(E)) = Len(E)
  BY <1>2, NamesCounted
<1>5. \A s : Matches(s, E) <=> \E j \in On(deps, f) : deps[j].name = s.name /\ Accepts(s, f[j])
  BY <1>02, MatchesEnabled
<1>6. ASSUME NEW skip \in ToSet(skips), Distinct(skip)
      PROVE  (Len(skip) = Len(E) /\ \A s \in ToSet(skip) : Matches(s, E))
             <=> /\ NamesIn(skip) = NamesIn(E)
                 /\ \A s \in ToSet(skip), j \in On(deps, f) :
                       s.name = deps[j].name => Accepts(s, f[j])
  <2>1. skip \in Seq(SkipEntry) /\ Distinct(skip)
    BY <1>6 DEF ToSet
  <2>2. IsFiniteSet(NamesIn(skip)) /\ Cardinality(NamesIn(skip)) = Len(skip)
    BY <2>1, NamesCounted
  <2>3. ASSUME Len(skip) = Len(E), \A s \in ToSet(skip) : Matches(s, E)
        PROVE  /\ NamesIn(skip) = NamesIn(E)
               /\ \A s \in ToSet(skip), j \in On(deps, f) :
                     s.name = deps[j].name => Accepts(s, f[j])
    <3>1. NamesIn(skip) \in SUBSET NamesIn(E)
      <4>1. ASSUME NEW s \in ToSet(skip) PROVE s.name \in NamesIn(E)
        BY <1>3, <1>5, <2>3
      <4> QED
        BY <4>1 DEF NamesIn
    <3>2. NamesIn(E) = NamesIn(skip)
      BY <1>4, <2>2, <2>3, <3>1, FS_Subset
    <3>3. ASSUME NEW s \in ToSet(skip), NEW j \in On(deps, f), s.name = deps[j].name
          PROVE  Accepts(s, f[j])
      <4>1. PICK k \in On(deps, f) : deps[k].name = s.name /\ Accepts(s, f[k])
        BY <1>5, <2>3
      <4>2. k = j
        BY <3>3, <4>1 DEF Distinct, On
      <4> QED
        BY <4>1, <4>2
    <3> QED
      BY <3>2, <3>3
  <2>4. ASSUME NamesIn(skip) = NamesIn(E),
               \A s \in ToSet(skip), j \in On(deps, f) :
                  s.name = deps[j].name => Accepts(s, f[j])
        PROVE  Len(skip) = Len(E) /\ \A s \in ToSet(skip) : Matches(s, E)
    <3>1. Len(skip) = Len(E)
      BY <1>4, <2>2, <2>4
    <3>2. ASSUME NEW s \in ToSet(skip) PROVE Matches(s, E)
      <4>1. s.name \in NamesIn(E)
        BY <2>4 DEF NamesIn
      <4>2. PICK j \in On(deps, f) : s.name = deps[j].name
        BY <1>3, <4>1
      <4>3. Accepts(s, f[j])
        BY <2>4, <4>2
      <4> QED
        BY <1>5, <4>2, <4>3
    <3> QED
      BY <3>1, <3>2
  <2> QED
    BY <2>3, <2>4
<1>7. ShouldSkipPermutation(skips, E)
         <=> \E skip \in ToSet(skips) : Len(skip) = Len(E) /\ \A s \in ToSet(skip) : Matches(s, E)
  BY Zenon DEF ShouldSkipPermutation
<1>8. \A s, j : (j \in On(deps, f) /\ deps[j].name = s.name /\ Accepts(s, f[j]))
                  => \A k \in On(deps, f) : s.name = deps[k].name => Accepts(s, f[k])
  BY DEF Distinct, On
<1>9. ASSUME NEW skip \in ToSet(skips)
      PROVE  (\A s \in ToSet(skip) : Matches(s, E))
             <=> /\ NamesIn(skip) \subseteq NamesIn(E)
                 /\ \A s \in ToSet(skip), j \in On(deps, f) :
                       s.name = deps[j].name => Accepts(s, f[j])
  <2>1. ASSUME NEW s \in ToSet(skip), Matches(s, E)
        PROVE  /\ s.name \in NamesIn(E)
               /\ \A j \in On(deps, f) : s.name = deps[j].name => Accepts(s, f[j])
    <3>1. PICK j \in On(deps, f) : deps[j].name = s.name /\ Accepts(s, f[j])
      BY <1>5, <2>1
    <3> QED
      BY <1>3, <1>8, <3>1
  <2>2. ASSUME NEW s \in ToSet(skip), s.name \in NamesIn(E),
               \A j \in On(deps, f) : s.name = deps[j].name => Accepts(s, f[j])
        PROVE  Matches(s, E)
    <3>1. PICK j \in On(deps, f) : s.name = deps[j].name
      BY <1>3, <2>2
    <3> QED
      BY <1>5, <2>2, <3>1
  <2>3. NamesIn(skip) \subseteq NamesIn(E) <=> \A s \in ToSet(skip) : s.name \in NamesIn(E)
    BY DEF NamesIn
  <2> QED
    BY <2>1, <2>2, <2>3, Zenon
<1>10. Cardinality(On(deps, f)) = Len(E)
  <2>1. PICK n \in Nat : n = Len(deps) /\ DOMAIN deps = 1 .. n
    OBVIOUS
  <2>2. IsFiniteSet(On(deps, f))
    <3>1. On(deps, f) \in SUBSET (1 .. n) /\ IsFiniteSet(1 .. n)
      BY <2>1, FS_Interval DEF On
    <3> QED
      BY <3>1, FS_Subset
  <2> DEFINE g == [j \in On(deps, f) |-> deps[j].name]
  <2>3. g \in Bijection(On(deps, f), NamesIn(E))
    <3>1. \A j, k \in On(deps, f) : g[j] = g[k] => j = k
      BY DEF Distinct, On
    <3> QED
      BY <1>3, <3>1 DEF Bijection, Injection, Surjection, IsInjective
  <2>4. ExistsBijection(On(deps, f), NamesIn(E))
    BY <2>3 DEF ExistsBijection
  <2> HIDE DEF g
  <2>5. Cardinality(On(deps, f)) = Cardinality(NamesIn(E))
    BY <2>2, <2>4, FS_Bijection
  <2> QED
    BY <1>4, <2>5
<1>11. ASSUME NEW skip \in ToSet(skips)
       PROVE  (Len(skip) = Len(E) /\ \A s \in ToSet(skip) : Matches(s, E))
              <=> SkippedBy(deps, skip, f)
  <2>1. NamesIn(E) = {deps[j].name : j \in {k \in DOMAIN deps : f[k] # Off}}
    BY <1>3 DEF On
  <2>2. On(deps, f) = {k \in DOMAIN deps : f[k] # Off}
    BY DEF On
  <2>3. SkippedBy(deps, skip, f)
           <=> /\ IF Distinct(skip) THEN NamesIn(skip) = NamesIn(E)
                  ELSE Len(skip) = Cardinality(On(deps, f)) /\ NamesIn(skip) \subseteq NamesIn(E)
               /\ \A s \in ToSet(skip), j \in On(deps, f) :
                     s.name = deps[j].name => Accepts(s, f[j])
    BY <2>1, <2>2, Zenon DEF SkippedBy
  <2>4. CASE Distinct(skip)
    BY <1>6, <2>3, <2>4, Zenon
  <2>5. CASE ~Distinct(skip)
    BY <1>9, <1>10, <2>3, <2>5, Zenon
  <2> QED
    BY <2>4, <2>5
<1>12. Skipped(deps, skips, f)
          <=> \E skip \in ToSet(skips) : Len(skip) = Len(E) /\ \A s \in ToSet(skip) : Matches(s, E)
  BY <1>11, Zenon DEF Skipped
<1> QED
  BY <1>1, <1>01, <1>7, <1>12

(* The numbers that the two loops go through.                              *)
MaskSet(deps) == 0 .. HowMany(Bits(deps)) - 1
CombSet(deps, mask) == 0 .. HowMany(Radices(deps, mask)) - 1

LEMMA MasksAreNumbers ==
  ASSUME NEW deps \in Seq(Offered)
  PROVE  MaskSet(deps) \subseteq Nat /\ \A mask : CombSet(deps, mask) \subseteq Nat
<1>1. \A r \in Radix : 0 .. r - 1 \subseteq Nat
  BY DEF Radix
<1>2. HowMany(Bits(deps)) \in Radix
  BY BitsAreRadices, HowManyIsPositive
<1>3. \A mask : HowMany(Radices(deps, mask)) \in Radix
  BY RadicesAreRadices, HowManyIsPositive
<1> QED
  BY <1>1, <1>2, <1>3 DEF MaskSet, CombSet

LEMMA EnabledInChoice ==
  ASSUME NEW deps \in Seq(Offered), NEW mask \in Nat, NEW comb \in Nat, NEW j \in 1 .. Len(deps)
  PROVE  Enabled(deps, mask, j) <=> Choice(deps, mask, comb)[j] # Off
<1>1. j \in DOMAIN deps
  OBVIOUS
<1>2. Enabled(deps, mask, j) => ChosenFlavor(deps, mask, comb, j) # Off
  BY ChosenIsFlavor, FlavorsAreFlavors DEF FlavorSet
<1> QED
  BY <1>1, <1>2 DEF Choice

(* Two pairs of numbers do not give the same choice.                       *)
LEMMA ChoiceTells ==
  ASSUME NEW deps \in Seq(Offered), FlavorsDistinct(deps),
         NEW m1 \in MaskSet(deps), NEW c1 \in CombSet(deps, m1),
         NEW m2 \in MaskSet(deps), NEW c2 \in CombSet(deps, m2),
         Choice(deps, m1, c1) = Choice(deps, m2, c2)
  PROVE  m1 = m2 /\ c1 = c2
<1>1. PICK n \in Nat : n = Len(deps) /\ DOMAIN deps = 1 .. n
  OBVIOUS
<1>2. m1 \in Nat /\ c1 \in Nat /\ m2 \in Nat /\ c2 \in Nat
  BY MasksAreNumbers
<1>3. ASSUME NEW j \in 1 .. n PROVE Enabled(deps, m1, j) <=> Enabled(deps, m2, j)
  BY <1>1, <1>2, EnabledInChoice
<1>4. /\ Bits(deps) \in Seq(Radix) /\ Len(Bits(deps)) = n
      /\ \A j \in 1 .. n : Bits(deps)[j] = 2
  BY <1>1, BitsAreRadices
<1>5. ASSUME NEW j \in 1 .. n PROVE Digit(Bits(deps), m1, j) = Digit(Bits(deps), m2, j)
  <2>1. Digit(Bits(deps), m1, j) \in 0 .. 1 /\ Digit(Bits(deps), m2, j) \in 0 .. 1
    <3>1. \A m \in Nat : Digit(Bits(deps), m, j) \in 0 .. Bits(deps)[j] - 1
      BY <1>4, DigitIsBelow
    <3>2. Bits(deps)[j] - 1 = 1
      BY <1>4
    <3> QED
      BY <1>2, <3>1, <3>2
  <2>2. Digit(Bits(deps), m1, j) = 1 <=> Digit(Bits(deps), m2, j) = 1
    BY <1>3 DEF Enabled
  <2> QED
    BY <2>1, <2>2
<1>6. m1 = m2
  BY <1>4, <1>5, DigitsTell DEF MaskSet
<1>7. PICK rr \in Seq(Radix) :
         /\ rr = Radices(deps, m1) /\ Len(rr) = n
         /\ \A j \in 1 .. n : rr[j] = IF Enabled(deps, m1, j) THEN FlavorCount(deps[j]) ELSE 1
  BY <1>1, RadicesAreRadices
<1>8. ASSUME NEW j \in 1 .. n PROVE Digit(rr, c1, j) = Digit(rr, c2, j)
  <2>1. Digit(rr, c1, j) \in 0 .. rr[j] - 1 /\ Digit(rr, c2, j) \in 0 .. rr[j] - 1
    BY <1>2, <1>7, DigitIsBelow
  <2>2. CASE rr[j] = 1
    BY <2>1, <2>2
  <2>3. CASE rr[j] # 1
    <3>1. Enabled(deps, m1, j) /\ rr[j] = FlavorCount(deps[j])
      BY <1>7, <2>3
    <3>2. deps[j].flavors # <<>> /\ DOMAIN deps[j].flavors = 1 .. FlavorCount(deps[j])
      BY <1>1, <2>3, <3>1, FlavorsAreCounted
    <3>3. PICK r \in Radix : r = rr[j]
      BY <1>7
    <3>4. PICK d1 \in 0 .. r - 1, d2 \in 0 .. r - 1 :
             d1 = Digit(rr, c1, j) /\ d2 = Digit(rr, c2, j)
      BY <2>1, <3>3
    <3>5. ChosenFlavor(deps, m1, c1, j) = ChosenFlavor(deps, m1, c2, j)
      <4>1. Choice(deps, m1, c1)[j] = Choice(deps, m1, c2)[j]
        BY <1>6
      <4> QED
        BY <1>1, <3>1, <4>1 DEF Choice
    <3>6. deps[j].flavors[1 + d1] = deps[j].flavors[1 + d2]
      BY <1>7, <3>2, <3>4, <3>5 DEF ChosenFlavor
    <3>7. 1 + d1 \in DOMAIN deps[j].flavors /\ 1 + d2 \in DOMAIN deps[j].flavors
      <4>1. r \in Nat /\ DOMAIN deps[j].flavors = 1 .. r
        BY <3>1, <3>2, <3>3 DEF Radix
      <4> QED
        BY <3>4, <4>1
    <3>8. 1 + d1 = 1 + d2
      BY <1>1, <3>6, <3>7 DEF FlavorsDistinct
    <3> QED
      BY <3>4, <3>8
  <2> QED
    BY <2>2, <2>3
<1>9. c1 \in 0 .. HowMany(rr) - 1 /\ c2 \in 0 .. HowMany(rr) - 1
  BY <1>6, <1>7 DEF CombSet
<1>10. c1 = c2
  BY <1>7, <1>8, <1>9, DigitsTell
<1> QED
  BY <1>6, <1>10

(* The choice that two numbers give may be a test case.                    *)
LEMMA ChoiceIsPossible ==
  ASSUME NEW deps \in Seq(Offered), NEW mask \in Nat, NEW comb \in Nat, ~AllEnabled(deps, mask)
  PROVE  Choice(deps, mask, comb) \in PossibleCases(deps)
<1>1. PICK n \in Nat : n = Len(deps) /\ DOMAIN deps = 1 .. n
  OBVIOUS
<1>2. PICK f : f = Choice(deps, mask, comb)
  OBVIOUS
<1>3. ASSUME NEW j \in 1 .. n PROVE f[j] \in {Off} \cup Flavors(deps[j])
  <2>1. Enabled(deps, mask, j) => ChosenFlavor(deps, mask, comb, j) \in Flavors(deps[j])
    BY <1>1, ChosenIsFlavor
  <2> QED
    BY <1>1, <1>2, <2>1 DEF Choice
<1>4. \A j \in 1 .. n : deps[j] \in ToSet(deps)
  BY <1>1 DEF ToSet
<1>5. f = [j \in DOMAIN deps |-> f[j]]
  BY <1>2 DEF Choice
<1>6. f \in [DOMAIN deps -> {Off} \cup UNION {Flavors(d) : d \in ToSet(deps)}]
  <2>1. \A j \in DOMAIN deps : f[j] \in {Off} \cup UNION {Flavors(d) : d \in ToSet(deps)}
    BY <1>1, <1>3, <1>4
  <2> QED
    BY <1>5, <2>1
<1>7. \E j \in DOMAIN deps : f[j] = Off
  BY <1>1, <1>2, EnabledInChoice DEF AllEnabled
<1> QED
  BY <1>1, <1>2, <1>3, <1>6, <1>7, Zenon DEF PossibleCases

(* Every choice that may be a test case is that of two numbers.            *)
LEMMA ChoiceIsGiven ==
  ASSUME NEW deps \in Seq(Offered), NEW f \in PossibleCases(deps)
  PROVE  \E mask \in MaskSet(deps) : \E comb \in CombSet(deps, mask) :
            ~AllEnabled(deps, mask) /\ Choice(deps, mask, comb) = f
<1>1. PICK n \in Nat : n = Len(deps) /\ DOMAIN deps = 1 .. n
  OBVIOUS
<1>2. /\ f = [j \in 1 .. n |-> f[j]]
      /\ \A j \in 1 .. n : f[j] \in {Off} \cup Flavors(deps[j])
      /\ \E j \in 1 .. n : f[j] = Off
  BY <1>1 DEF PossibleCases
<1>3. /\ Bits(deps) \in Seq(Radix) /\ Len(Bits(deps)) = n
      /\ \A j \in 1 .. n : Bits(deps)[j] = 2
  BY <1>1, BitsAreRadices
<1>4. PICK mask \in MaskSet(deps) :
         \A j \in 1 .. n : Digit(Bits(deps), mask, j) = IF f[j] = Off THEN 0 ELSE 1
  <2> DEFINE d == [j \in 1 .. n |-> IF f[j] = Off THEN 0 ELSE 1]
  <2>1. d \in [1 .. n -> Nat] /\ \A j \in 1 .. n : d[j] = IF f[j] = Off THEN 0 ELSE 1
    OBVIOUS
  <2> HIDE DEF d
  <2>2. \A j \in 1 .. n : d[j] \in 0 .. Bits(deps)[j] - 1
    BY <1>3, <2>1
  <2>3. PICK c \in 0 .. HowMany(Bits(deps)) - 1 : \A k \in 1 .. n : Digit(Bits(deps), c, k) = d[k]
    BY <1>3, <2>1, <2>2, DigitsGive
  <2> QED
    BY <2>1, <2>3 DEF MaskSet
<1>5. \A j \in 1 .. n : Enabled(deps, mask, j) <=> f[j] # Off
  BY <1>4 DEF Enabled
<1>6. ~AllEnabled(deps, mask)
  BY <1>1, <1>2, <1>5 DEF AllEnabled
<1>7. PICK rr \in Seq(Radix) :
         /\ rr = Radices(deps, mask) /\ Len(rr) = n
         /\ \A j \in 1 .. n : rr[j] = IF Enabled(deps, mask, j) THEN FlavorCount(deps[j]) ELSE 1
  BY <1>1, RadicesAreRadices
<1> DEFINE GivesFlavor(j, x) ==
              /\ x \in 0 .. rr[j] - 1
              /\ f[j] # Off /\ deps[j].flavors # <<>> => deps[j].flavors[1 + x] = f[j]
<1>8. ASSUME NEW j \in 1 .. n PROVE \E x \in Nat : GivesFlavor(j, x)
  <2>1. PICK r \in Radix : r = rr[j]
    BY <1>7
  <2>2. CASE f[j] = Off \/ deps[j].flavors = <<>>
    <3>1. GivesFlavor(j, 0)
      BY <2>1, <2>2 DEF Radix
    <3> QED
      BY <3>1
  <2>3. CASE f[j] # Off /\ deps[j].flavors # <<>>
    <3>1. rr[j] = FlavorCount(deps[j])
      BY <1>5, <1>7, <2>3
    <3>2. DOMAIN deps[j].flavors = 1 .. r
      BY <1>1, <2>1, <2>3, <3>1, FlavorsAreCounted
    <3>3. PickDefaultFlavor(deps[j]) = deps[j].flavors[1] /\ 1 \in DOMAIN deps[j].flavors
      <4>1. deps[j].flavors \in Seq(STRING \ {Off})
        BY <1>1, EachIsOffered
      <4> QED
        BY <2>1, <2>3, <3>2, <4>1 DEF PickDefaultFlavor, Radix
    <3>4. f[j] \in ToSet(deps[j].flavors)
      BY <1>2, <2>3, <3>3 DEF Flavors, ToSet
    <3>5. PICK i \in 1 .. r : deps[j].flavors[i] = f[j]
      BY <3>2, <3>4 DEF ToSet
    <3>6. i - 1 \in Nat /\ i - 1 \in 0 .. r - 1 /\ 1 + (i - 1) = i
      BY DEF Radix
    <3> QED
      BY <2>1, <3>5, <3>6
  <2> QED
    BY <2>2, <2>3
<1>9. PICK comb \in CombSet(deps, mask) : \A j \in 1 .. n : GivesFlavor(j, Digit(rr, comb, j))
  <2> DEFINE d == [j \in 1 .. n |-> CHOOSE x \in Nat : GivesFlavor(j, x)]
  <2> HIDE DEF GivesFlavor
  <2>1. \A j \in 1 .. n : d[j] \in Nat /\ GivesFlavor(j, d[j])
    BY <1>8
  <2>2. d \in [1 .. n -> Nat]
    BY <2>1
  <2> HIDE DEF d
  <2>3. \A j \in 1 .. n : d[j] \in 0 .. rr[j] - 1
    BY <2>1 DEF GivesFlavor
  <2>4. PICK c \in 0 .. HowMany(rr) - 1 : \A k \in 1 .. n : Digit(rr, c, k) = d[k]
    BY <1>7, <2>2, <2>3, DigitsGive
  <2> QED
    BY <1>7, <2>1, <2>4 DEF CombSet
<1>10. ASSUME NEW j \in 1 .. n PROVE Choice(deps, mask, comb)[j] = f[j]
  <2>1. CASE f[j] = Off
    BY <1>1, <1>5, <2>1 DEF Choice
  <2>2. CASE f[j] # Off
    <3>1. Choice(deps, mask, comb)[j] = ChosenFlavor(deps, mask, comb, j)
      BY <1>1, <1>5, <2>2 DEF Choice
    <3>2. CASE deps[j].flavors = <<>>
      <4>1. f[j] \in {PickDefaultFlavor(deps[j])} \cup ToSet(<<>>)
        BY <1>2, <2>2, <3>2 DEF Flavors
      <4>2. ToSet(<<>>) = {}
        BY DEF ToSet
      <4> QED
        BY <3>1, <3>2, <4>1, <4>2 DEF ChosenFlavor
    <3>3. CASE deps[j].flavors # <<>>
      BY <1>7, <1>9, <2>2, <3>1, <3>3 DEF ChosenFlavor
    <3> QED
      BY <3>2, <3>3
  <2> QED
    BY <2>1, <2>2
<1>11. Choice(deps, mask, comb) = f
  <2>1. Choice(deps, mask, comb) = [j \in 1 .. n |-> Choice(deps, mask, comb)[j]]
    BY <1>1 DEF Choice
  <2> QED
    BY <1>2, <1>10, <2>1
<1> QED
  BY <1>6, <1>11

(* The configurations of the test case of two numbers, and whether it is   *)
(* kept.                                                                   *)
DepsOf(deps, mask, comb) ==
    Those(Configs(deps, mask, comb), TRUE) \o Those(Configs(deps, mask, comb), FALSE)
KeptCase(deps, skips, mask, comb) ==
    ~ShouldSkipPermutation(skips, Those(Configs(deps, mask, comb), TRUE))

CaseSet == [index : Nat, deps : Seq(ConfigSet)]

LEMMA RangeOfConcat ==
  ASSUME NEW S, NEW s \in Seq(S), NEW t \in Seq(S)
  PROVE  ToSet(s \o t) = ToSet(s) \cup ToSet(t)
<1>1. PICK a \in Nat, b \in Nat : /\ a = Len(s) /\ DOMAIN s = 1 .. a
                                 /\ b = Len(t) /\ DOMAIN t = 1 .. b
  BY LenProperties
<1>2. DOMAIN (s \o t) = 1 .. a + b
  BY <1>1, ConcatProperties, LenProperties
<1>3. \A i \in 1 .. a + b : (s \o t)[i] = IF i <= a THEN s[i] ELSE t[i - a]
  BY <1>1, ConcatProperties
<1>4. ASSUME NEW x \in ToSet(s \o t) PROVE x \in ToSet(s) \cup ToSet(t)
  <2>1. PICK i \in 1 .. a + b : x = (s \o t)[i]
    BY <1>2 DEF ToSet
  <2>2. CASE i <= a
    BY <1>1, <1>3, <2>1, <2>2 DEF ToSet
  <2>3. CASE ~(i <= a)
    <3>1. i - a \in 1 .. b
      BY <2>3
    <3> QED
      BY <1>1, <1>3, <2>1, <2>3, <3>1 DEF ToSet
  <2> QED
    BY <2>2, <2>3
<1>5. ASSUME NEW x \in ToSet(s) PROVE x \in ToSet(s \o t)
  <2>1. PICK i \in 1 .. a : x = s[i]
    BY <1>1 DEF ToSet
  <2>2. i \in 1 .. a + b /\ i <= a
    OBVIOUS
  <2> QED
    BY <1>2, <1>3, <2>1, <2>2 DEF ToSet
<1>6. ASSUME NEW x \in ToSet(t) PROVE x \in ToSet(s \o t)
  <2>1. PICK i \in 1 .. b : x = t[i]
    BY <1>1 DEF ToSet
  <2>2. i + a \in 1 .. a + b /\ ~(i + a <= a) /\ (i + a) - a = i
    OBVIOUS
  <2> QED
    BY <1>2, <1>3, <2>1, <2>2 DEF ToSet
<1> QED
  BY <1>4, <1>5, <1>6

LEMMA DepsAreOfChoice ==
  ASSUME NEW deps \in Seq(Offered), NEW mask \in Nat, NEW comb \in Nat
  PROVE  /\ DepsOf(deps, mask, comb) \in Seq(ConfigSet)
         /\ Len(DepsOf(deps, mask, comb)) = Len(deps)
         /\ ToSet(DepsOf(deps, mask, comb))
               = {ConfigFor(deps[j], Choice(deps, mask, comb)[j]) : j \in DOMAIN deps}
<1>1. PICK n \in Nat : n = Len(deps) /\ DOMAIN deps = 1 .. n
  OBVIOUS
<1>2. PICK C \in Seq(ConfigSet) : C = Configs(deps, mask, comb) /\ Len(C) = n
  BY <1>1, ConfigsAreOfChoice
<1>3. PICK s \in Seq(ConfigSet), t \in Seq(ConfigSet) :
         /\ s = Those(C, TRUE) /\ t = Those(C, FALSE)
         /\ ToSet(s) = {c \in ToSet(C) : c.enabled = TRUE}
         /\ ToSet(t) = {c \in ToSet(C) : c.enabled = FALSE}
  BY ThoseAre
<1>4. DepsOf(deps, mask, comb) = s \o t /\ Len(s \o t) = n
  BY <1>2, <1>3, ThoseTogether DEF DepsOf
<1>5. ToSet(s \o t) = ToSet(s) \cup ToSet(t)
  BY RangeOfConcat
<1>6. \A c \in ToSet(C) : c.enabled \in BOOLEAN
  <2>1. \A c \in ConfigSet : c.enabled \in BOOLEAN
    BY DEF ConfigSet
  <2>2. ToSet(C) \subseteq ConfigSet
    BY DEF ToSet
  <2> QED
    BY <2>1, <2>2
<1>7. ToSet(s \o t) = ToSet(C)
  BY <1>3, <1>5, <1>6
<1>8. ToSet(C) = {C[j] : j \in 1 .. n}
  <2>1. DOMAIN C = 1 .. n
    BY <1>2
  <2> QED
    BY <2>1 DEF ToSet
<1>9. \A j \in 1 .. n : C[j] = ConfigFor(deps[j], Choice(deps, mask, comb)[j])
  BY <1>1, <1>2, ConfigsAreOfChoice
<1>10. ToSet(C) = {ConfigFor(deps[j], Choice(deps, mask, comb)[j]) : j \in DOMAIN deps}
  BY <1>1, <1>8, <1>9
<1>11. s \o t \in Seq(ConfigSet)
  OBVIOUS
<1> QED
  BY <1>1, <1>4, <1>7, <1>10, <1>11

(* The configurations tell which choice they are of.                       *)
LEMMA ConfigsTell ==
  ASSUME NEW deps \in Seq(Offered), Distinct(deps),
         NEW f \in PossibleCases(deps), NEW g \in PossibleCases(deps),
         {ConfigFor(deps[j], f[j]) : j \in DOMAIN deps}
            = {ConfigFor(deps[j], g[j]) : j \in DOMAIN deps}
  PROVE  f = g
<1>1. f = [j \in DOMAIN deps |-> f[j]] /\ g = [j \in DOMAIN deps |-> g[j]]
  BY DEF PossibleCases
<1>2. \A d, c : /\ ConfigFor(d, c).name = d.name
                /\ ConfigFor(d, c).enabled <=> c # Off
                /\ c # Off => ConfigFor(d, c).flavor = c
  BY DEF ConfigFor, Config
<1>3. ASSUME NEW j \in DOMAIN deps PROVE f[j] = g[j]
  <2>1. PICK k \in DOMAIN deps : ConfigFor(deps[j], f[j]) = ConfigFor(deps[k], g[k])
    OBVIOUS
  <2>2. deps[j].name = deps[k].name
    BY <1>2, <2>1
  <2>3. k = j
    BY <2>2 DEF Distinct
  <2>4. f[j] # Off <=> g[j] # Off
    BY <1>2, <2>1, <2>3
  <2> QED
    BY <1>2, <2>1, <2>3, <2>4
<1> QED
  BY <1>1, <1>3

LEMMA DepsTell ==
  ASSUME NEW deps \in Seq(Offered), Distinct(deps), FlavorsDistinct(deps),
         NEW m1 \in MaskSet(deps), NEW c1 \in CombSet(deps, m1), ~AllEnabled(deps, m1),
         NEW m2 \in MaskSet(deps), NEW c2 \in CombSet(deps, m2), ~AllEnabled(deps, m2),
         DepsOf(deps, m1, c1) = DepsOf(deps, m2, c2)
  PROVE  m1 = m2 /\ c1 = c2
<1>1. m1 \in Nat /\ c1 \in Nat /\ m2 \in Nat /\ c2 \in Nat
  BY MasksAreNumbers
<1>2. Choice(deps, m1, c1) \in PossibleCases(deps) /\ Choice(deps, m2, c2) \in PossibleCases(deps)
  BY <1>1, ChoiceIsPossible
<1>3. {ConfigFor(deps[j], Choice(deps, m1, c1)[j]) : j \in DOMAIN deps}
         = {ConfigFor(deps[j], Choice(deps, m2, c2)[j]) : j \in DOMAIN deps}
  <2>1. ToSet(DepsOf(deps, m1, c1))
           = {ConfigFor(deps[j], Choice(deps, m1, c1)[j]) : j \in DOMAIN deps}
    BY <1>1, DepsAreOfChoice
  <2>2. ToSet(DepsOf(deps, m2, c2))
           = {ConfigFor(deps[j], Choice(deps, m2, c2)[j]) : j \in DOMAIN deps}
    BY <1>1, DepsAreOfChoice
  <2> QED
    BY <2>1, <2>2
<1>4. Choice(deps, m1, c1) = Choice(deps, m2, c2)
  BY <1>2, <1>3, ConfigsTell
<1> QED
  BY <1>4, ChoiceTells

\* The next test case.
NextCase(cases, d) == [index |-> Len(cases), deps |-> d]

(* The test cases have these configurations, each of them once, and are    *)
(* numbered as they come.                                                  *)
Collected(cases, W) ==
    /\ cases \in Seq(CaseSet)
    /\ \A i \in DOMAIN cases : cases[i].index = i - 1 /\ cases[i].deps \in W
    /\ \A w \in W : \E i \in DOMAIN cases : cases[i].deps = w
    /\ \A i, k \in DOMAIN cases : cases[i].deps = cases[k].deps => i = k

LEMMA CollectOne ==
  ASSUME NEW cases, NEW W, Collected(cases, W), NEW d \in Seq(ConfigSet), d \notin W
  PROVE  Collected(Append(cases, NextCase(cases, d)), W \cup {d})
<1>1. /\ cases \in Seq(CaseSet)
      /\ \A i \in DOMAIN cases : cases[i].index = i - 1 /\ cases[i].deps \in W
      /\ \A w \in W : \E i \in DOMAIN cases : cases[i].deps = w
      /\ \A i, k \in DOMAIN cases : cases[i].deps = cases[k].deps => i = k
  BY DEF Collected
<1>2. PICK n \in Nat : n = Len(cases) /\ DOMAIN cases = 1 .. n
  BY <1>1, LenProperties
<1>3. PICK c : /\ c = [index |-> n, deps |-> d] /\ c \in CaseSet
              /\ c.index = n /\ c.deps = d
  <2>1. [index |-> n, deps |-> d] \in CaseSet
    BY Zenon DEF CaseSet
  <2> QED
    BY <2>1
<1>4. PICK t : t = Append(cases, c)
  OBVIOUS
<1>5. /\ t \in Seq(CaseSet) /\ DOMAIN t = 1 .. n + 1 /\ t[n + 1] = c
      /\ \A i \in 1 .. n : i \in 1 .. n + 1 /\ i # n + 1 /\ t[i] = cases[i]
  <2>1. cases \in Seq(CaseSet) /\ c \in CaseSet
    BY <1>1, <1>3
  <2>2. Append(cases, c) \in Seq(CaseSet) /\ DOMAIN Append(cases, c) = 1 .. Len(cases) + 1
    BY <2>1
  <2>3. Append(cases, c)[Len(cases) + 1] = c
    BY <2>1
  <2>4. \A i \in 1 .. Len(cases) : Append(cases, c)[i] = cases[i]
    BY <2>1
  <2> QED
    BY <1>2, <1>4, <2>2, <2>3, <2>4
<1>6. ASSUME NEW i \in 1 .. n PROVE t[i].index = i - 1 /\ t[i].deps \in W /\ t[i].deps # d
  <2>1. cases[i].index = i - 1 /\ cases[i].deps \in W
    BY <1>1, <1>2
  <2> QED
    BY <1>5, <2>1
<1>7. \A i \in 1 .. n + 1 : t[i].index = i - 1 /\ t[i].deps \in W \cup {d}
  BY <1>3, <1>5, <1>6
<1>8. ASSUME NEW w \in W \cup {d} PROVE \E i \in 1 .. n + 1 : t[i].deps = w
  <2>1. CASE w \in W
    <3>1. PICK i \in 1 .. n : cases[i].deps = w
      BY <1>1, <1>2, <2>1
    <3> QED
      BY <1>5, <3>1
  <2>2. CASE w = d
    BY <1>3, <1>5, <2>2
  <2> QED
    BY <2>1, <2>2
<1>9. ASSUME NEW i \in 1 .. n + 1, NEW k \in 1 .. n + 1, t[i].deps = t[k].deps PROVE i = k
  <2>1. CASE i \in 1 .. n /\ k \in 1 .. n
    <3>1. t[i] = cases[i] /\ t[k] = cases[k]
      BY <1>5, <2>1
    <3>2. cases[i].deps = cases[k].deps
      BY <1>9, <3>1
    <3> QED
      BY <1>1, <1>2, <2>1, <3>2
  <2>2. CASE i = n + 1 /\ k \in 1 .. n
    BY <1>3, <1>5, <1>6, <1>9, <2>2
  <2>3. CASE i \in 1 .. n /\ k = n + 1
    BY <1>3, <1>5, <1>6, <1>9, <2>3
  <2> QED
    BY <2>1, <2>2, <2>3
<1>10. Collected(t, W \cup {d})
  BY <1>5, <1>7, <1>8, <1>9 DEF Collected
<1>11. c = NextCase(cases, d)
  BY <1>2, <1>3 DEF NextCase
<1> QED
  BY <1>4, <1>10, <1>11

(* The loop over the choices of flavors for one mask.                      *)
IsWithMask(g, deps, skips, mask, before) ==
    /\ g[0] = before
    /\ \A i \in 1 .. HowMany(Radices(deps, mask)) :
          g[i] = WithCase(deps, skips, mask, i - 1, g[i - 1])
    /\ WithMask(deps, skips, mask, before) = g[HowMany(Radices(deps, mask))]

LEMMA WithCaseIs ==
  ASSUME NEW deps \in Seq(Offered), NEW skips, NEW mask \in Nat, NEW comb \in Nat,
         NEW cases \in Seq(CaseSet)
  PROVE  /\ KeptCase(deps, skips, mask, comb) =>
               WithCase(deps, skips, mask, comb, cases)
                  = Append(cases, NextCase(cases, DepsOf(deps, mask, comb)))
         /\ ~KeptCase(deps, skips, mask, comb) =>
               WithCase(deps, skips, mask, comb, cases) = cases
         /\ WithCase(deps, skips, mask, comb, cases) \in Seq(CaseSet)
<1>1. NextCase(cases, DepsOf(deps, mask, comb)) \in CaseSet
  <2>1. Len(cases) \in Nat /\ DepsOf(deps, mask, comb) \in Seq(ConfigSet)
    BY DepsAreOfChoice
  <2> QED
    BY <2>1, Zenon DEF CaseSet, NextCase
<1>2. WithCase(deps, skips, mask, comb, cases)
         = IF KeptCase(deps, skips, mask, comb)
           THEN Append(cases, NextCase(cases, DepsOf(deps, mask, comb)))
           ELSE cases
  BY Zenon DEF WithCase, KeptCase, DepsOf, NextCase
<1> QED
  BY <1>1, <1>2

LEMMA WithMaskDefined ==
  ASSUME NEW deps \in Seq(Offered), NEW skips, NEW mask \in Nat, NEW before \in Seq(CaseSet)
  PROVE  \E g \in [0 .. HowMany(Radices(deps, mask)) -> Seq(CaseSet)] :
            IsWithMask(g, deps, skips, mask, before)
<1>0. PICK n \in Nat : n = HowMany(Radices(deps, mask))
  BY RadicesAreRadices, HowManyIsPositive DEF Radix
<1> DEFINE V == Seq(CaseSet)
           base == before
           step == [i \in 1 .. n |-> [v \in V |-> WithCase(deps, skips, mask, i - 1, v)]]
           Is(f) == f = [i \in 0 .. n |-> IF i = 0 THEN base ELSE WithCase(deps, skips, mask, i - 1, f[i - 1])]
<1>1. WithMask(deps, skips, mask, before) = (CHOOSE f : Is(f))[n]
  BY <1>0, Zenon DEF WithMask
<1>2. base \in V
  OBVIOUS
<1>3. ASSUME NEW i \in 1 .. n, NEW v \in V PROVE WithCase(deps, skips, mask, i - 1, v) \in V
  <2>1. i - 1 \in Nat
    OBVIOUS
  <2> HIDE DEF V
  <2>2. v \in Seq(CaseSet)
    BY DEF V
  <2>3. WithCase(deps, skips, mask, i - 1, v) \in Seq(CaseSet)
    BY <2>1, <2>2, WithCaseIs
  <2> QED
    BY <2>3 DEF V
<1> HIDE DEF V, base
<1>4. step \in [1 .. n -> [V -> V]]
  BY <1>3
<1>5. \A i \in 1 .. n : \A v \in V : step[i][v] = WithCase(deps, skips, mask, i - 1, v)
  OBVIOUS
<1> HIDE DEF step
<1>6. PICK g \in [0 .. n -> V] :
         /\ g[0] = base
         /\ \A i \in 1 .. n : g[i] = step[i][g[i - 1]]
         /\ \A f : Computed(f, n, V, base, step) => f = g
  BY <1>2, <1>4, LoopDefined
<1>7. ASSUME NEW i \in 1 .. n PROVE g[i] = WithCase(deps, skips, mask, i - 1, g[i - 1])
  <2>1. g[i - 1] \in V
    BY <1>6
  <2> QED
    BY <1>5, <1>6, <2>1
<1>8. Is(g)
  <2>1. \A i \in 0 .. n : g[i] = IF i = 0 THEN base ELSE WithCase(deps, skips, mask, i - 1, g[i - 1])
    BY <1>6, <1>7
  <2> QED
    BY <2>1
<1>9. ASSUME NEW f, Is(f) PROVE f = g
  <2>1. f = [i \in 0 .. n |-> IF i = 0 THEN base ELSE WithCase(deps, skips, mask, i - 1, f[i - 1])]
    BY <1>9, Zenon
  <2> HIDE DEF Is
  <2>2. f[0] = base
    BY <2>1
  <2>3. \A i \in 1 .. n : f[i] = WithCase(deps, skips, mask, i - 1, f[i - 1])
    BY <2>1
  <2>4. Computed(f, n, V, base, step)
    BY <1>5, <2>1, <2>2, <2>3 DEF Computed
  <2> QED
    BY <1>6, <2>4
<1>10. (CHOOSE f : Is(f)) = g
  <2> HIDE DEF Is
  <2> QED
    BY <1>8, <1>9
<1> HIDE DEF Is
<1>11. IsWithMask(g, deps, skips, mask, before)
  BY <1>0, <1>1, <1>6, <1>7, <1>10 DEF IsWithMask, base
<1> QED
  BY <1>0, <1>6, <1>11 DEF V

\* What the first choices of flavors for a mask give.
DoneInMask(deps, skips, mask, k) ==
    {DepsOf(deps, mask, c) : c \in {x \in 0 .. k - 1 : KeptCase(deps, skips, mask, x)}}

LEMMA WithMaskIs ==
  ASSUME NEW deps \in Seq(Offered), Distinct(deps), FlavorsDistinct(deps), NEW skips,
         NEW mask \in MaskSet(deps), ~AllEnabled(deps, mask),
         NEW before, NEW W, Collected(before, W),
         \A c \in CombSet(deps, mask) : DepsOf(deps, mask, c) \notin W
  PROVE  Collected(WithMask(deps, skips, mask, before),
                   W \cup DoneInMask(deps, skips, mask, HowMany(Radices(deps, mask))))
<1>1. mask \in Nat /\ before \in Seq(CaseSet)
  BY MasksAreNumbers DEF Collected
<1>2. PICK n \in Nat : n = HowMany(Radices(deps, mask)) /\ CombSet(deps, mask) = 0 .. n - 1
  BY RadicesAreRadices, HowManyIsPositive DEF Radix, CombSet
<1>3. PICK g \in [0 .. n -> Seq(CaseSet)] : IsWithMask(g, deps, skips, mask, before)
  BY <1>1, <1>2, WithMaskDefined
<1>4. /\ g[0] = before /\ WithMask(deps, skips, mask, before) = g[n]
      /\ \A i \in 1 .. n : g[i] = WithCase(deps, skips, mask, i - 1, g[i - 1])
  BY <1>2, <1>3 DEF IsWithMask
<1> DEFINE D(k) == DoneInMask(deps, skips, mask, k)
           T == {k \in 0 .. n : Collected(g[k], W \cup D(k))}
<1>5. 0 \in T
  <2>1. D(0) = {}
    BY DEF DoneInMask
  <2> HIDE DEF D
  <2>2. W \cup D(0) = W
    BY <2>1
  <2> QED
    <3>1. Collected(g[0], W \cup D(0))
      BY <1>4, <2>2
    <3> QED
      BY <3>1
<1>6. ASSUME NEW k \in 0 .. n - 1, k \in T PROVE k + 1 \in T
  <2>1. /\ k + 1 \in 1 .. n /\ k + 1 \in 0 .. n /\ (k + 1) - 1 = k /\ k \in 0 .. n /\ k \in Nat
        /\ 0 .. k = (0 .. k - 1) \cup {k}
    OBVIOUS
  <2>2. g[k] \in Seq(CaseSet) /\ Collected(g[k], W \cup D(k))
    BY <1>6, <2>1
  <2>19. PICK s \in Seq(CaseSet) : s = g[k] /\ Collected(s, W \cup D(k))
    BY <2>2
  <2>20. PICK U : s = g[k] /\ U = W \cup D(k) /\ Collected(s, U)
    BY <2>19
  <2>3. g[k + 1] = WithCase(deps, skips, mask, k, s)
    BY <1>4, <2>1, <2>20
  <2>4. CASE ~KeptCase(deps, skips, mask, k)
    <3>1. g[k + 1] = s
      <4>1. k \in Nat /\ mask \in Nat
        BY <1>1, <2>1
      <4>2. WithCase(deps, skips, mask, k, s) = s
        BY <2>4, <4>1, WithCaseIs, Zenon
      <4> QED
        BY <2>3, <4>2
    <3>2. D(k + 1) = D(k)
      BY <2>1, <2>4 DEF DoneInMask
    <3> HIDE DEF D
    <3> QED
      BY <2>1, <2>20, <3>1, <3>2
  <2>5. CASE KeptCase(deps, skips, mask, k)
    <3>1. g[k + 1] = Append(s, NextCase(s, DepsOf(deps, mask, k)))
      BY <1>1, <2>1, <2>3, <2>5, WithCaseIs
    <3>2. D(k + 1) = D(k) \cup {DepsOf(deps, mask, k)}
      BY <2>1, <2>5 DEF DoneInMask
    <3>3. DepsOf(deps, mask, k) \notin W \cup D(k)
      <4>1. k \in CombSet(deps, mask)
        BY <1>2
      <4>2. DepsOf(deps, mask, k) \notin W
        BY <4>1
      <4>3. ASSUME NEW x \in 0 .. k - 1 PROVE DepsOf(deps, mask, x) # DepsOf(deps, mask, k)
        <5>1. x \in CombSet(deps, mask) /\ x # k
          BY <1>2
        <5> QED
          BY <4>1, <5>1, DepsTell
      <4> QED
        BY <4>2, <4>3 DEF DoneInMask
    <3>4. DepsOf(deps, mask, k) \in Seq(ConfigSet)
      BY <1>1, <2>1, DepsAreOfChoice
    <3> HIDE DEF D
    <3>5. Collected(g[k + 1], U \cup {DepsOf(deps, mask, k)})
      <4>1. DepsOf(deps, mask, k) \notin U /\ Collected(s, U)
        BY <2>20, <3>3
      <4>2. PICK d \in Seq(ConfigSet) : d = DepsOf(deps, mask, k)
        BY <3>4
      <4>3. Collected(Append(s, NextCase(s, d)), U \cup {d})
        BY <4>1, <4>2, CollectOne
      <4> QED
        BY <3>1, <4>2, <4>3
    <3>6. U \cup {DepsOf(deps, mask, k)} = W \cup D(k + 1)
      BY <2>20, <3>2
    <3> QED
      BY <2>1, <3>5, <3>6
  <2> QED
    BY <2>4, <2>5
<1>7. n \in T
  <2>1. 0 .. n \subseteq T
    <3> HIDE DEF T
    <3> QED
      BY <1>5, <1>6, UpToN
  <2> HIDE DEF T
  <2> QED
    BY <2>1
<1> QED
  BY <1>2, <1>4, <1>7

(* The loop over the masks.                                                *)
MaskStep(deps, skips, m, cases) ==
    IF AllEnabled(deps, m - 1) THEN cases ELSE WithMask(deps, skips, m - 1, cases)

IsGenerated(g, deps, skips) ==
    /\ g[0] = <<>>
    /\ \A i \in 1 .. HowMany(Bits(deps)) : g[i] = MaskStep(deps, skips, i, g[i - 1])
    /\ GeneratePermutationsWithFlavors(deps, skips) = g[HowMany(Bits(deps))]

LEMMA GeneratedDefined ==
  ASSUME NEW deps \in Seq(Offered), NEW skips
  PROVE  \E g \in [0 .. HowMany(Bits(deps)) -> Seq(CaseSet)] : IsGenerated(g, deps, skips)
<1>0. PICK n \in Nat : n = HowMany(Bits(deps))
  BY BitsAreRadices, HowManyIsPositive DEF Radix
<1> DEFINE V == Seq(CaseSet)
           base == <<>>
           step == [i \in 1 .. n |-> [v \in V |-> MaskStep(deps, skips, i, v)]]
           Is(f) == f = [i \in 0 .. n |-> IF i = 0 THEN base ELSE MaskStep(deps, skips, i, f[i - 1])]
<1>1. GeneratePermutationsWithFlavors(deps, skips) = (CHOOSE f : Is(f))[n]
  BY <1>0, Zenon DEF GeneratePermutationsWithFlavors, MaskStep
<1>2. base \in V
  OBVIOUS
<1>3. ASSUME NEW i \in 1 .. n, NEW v \in V PROVE MaskStep(deps, skips, i, v) \in V
  <2>1. i - 1 \in Nat
    OBVIOUS
  <2> HIDE DEF V
  <2>2. v \in Seq(CaseSet)
    BY DEF V
  <2>3. WithMask(deps, skips, i - 1, v) \in Seq(CaseSet)
    <3>1. PICK k \in Nat : k = HowMany(Radices(deps, i - 1))
      BY RadicesAreRadices, HowManyIsPositive DEF Radix
    <3>2. PICK h \in [0 .. k -> Seq(CaseSet)] : IsWithMask(h, deps, skips, i - 1, v)
      BY <2>1, <2>2, <3>1, WithMaskDefined
    <3>3. h[k] \in Seq(CaseSet)
      OBVIOUS
    <3> QED
      BY <3>1, <3>2, <3>3 DEF IsWithMask
  <2> QED
    BY <2>2, <2>3 DEF V, MaskStep
<1> HIDE DEF V, base
<1>4. step \in [1 .. n -> [V -> V]]
  BY <1>3
<1>5. \A i \in 1 .. n : \A v \in V : step[i][v] = MaskStep(deps, skips, i, v)
  OBVIOUS
<1> HIDE DEF step
<1>6. PICK g \in [0 .. n -> V] :
         /\ g[0] = base
         /\ \A i \in 1 .. n : g[i] = step[i][g[i - 1]]
         /\ \A f : Computed(f, n, V, base, step) => f = g
  BY <1>2, <1>4, LoopDefined
<1>7. ASSUME NEW i \in 1 .. n PROVE g[i] = MaskStep(deps, skips, i, g[i - 1])
  <2>1. g[i - 1] \in V
    BY <1>6
  <2> QED
    BY <1>5, <1>6, <2>1
<1>8. Is(g)
  <2>1. \A i \in 0 .. n : g[i] = IF i = 0 THEN base ELSE MaskStep(deps, skips, i, g[i - 1])
    BY <1>6, <1>7
  <2> QED
    BY <2>1
<1>9. ASSUME NEW f, Is(f) PROVE f = g
  <2>1. f = [i \in 0 .. n |-> IF i = 0 THEN base ELSE MaskStep(deps, skips, i, f[i - 1])]
    BY <1>9, Zenon
  <2> HIDE DEF Is
  <2>2. f[0] = base
    BY <2>1
  <2>3. \A i \in 1 .. n : f[i] = MaskStep(deps, skips, i, f[i - 1])
    BY <2>1
  <2>4. Computed(f, n, V, base, step)
    BY <1>5, <2>1, <2>2, <2>3 DEF Computed
  <2> QED
    BY <1>6, <2>4
<1>10. (CHOOSE f : Is(f)) = g
  <2> HIDE DEF Is
  <2> QED
    BY <1>8, <1>9
<1> HIDE DEF Is
<1>11. IsGenerated(g, deps, skips)
  BY <1>0, <1>1, <1>6, <1>7, <1>10 DEF IsGenerated, base
<1> QED
  BY <1>0, <1>6, <1>11 DEF V

\* What the first masks give.
DoneSoFar(deps, skips, k) ==
    UNION {DoneInMask(deps, skips, m, HowMany(Radices(deps, m))) :
              m \in {x \in 0 .. k - 1 : ~AllEnabled(deps, x)}}

LEMMA GeneratedIs ==
  ASSUME NEW deps \in Seq(Offered), Distinct(deps), FlavorsDistinct(deps), NEW skips
  PROVE  Collected(GeneratePermutationsWithFlavors(deps, skips),
                   DoneSoFar(deps, skips, HowMany(Bits(deps))))
<1>1. PICK n \in Nat : n = HowMany(Bits(deps)) /\ MaskSet(deps) = 0 .. n - 1
  BY BitsAreRadices, HowManyIsPositive DEF Radix, MaskSet
<1>2. PICK g \in [0 .. n -> Seq(CaseSet)] : IsGenerated(g, deps, skips)
  BY <1>1, GeneratedDefined
<1>3. /\ g[0] = <<>> /\ GeneratePermutationsWithFlavors(deps, skips) = g[n]
      /\ \A i \in 1 .. n : g[i] = MaskStep(deps, skips, i, g[i - 1])
  BY <1>1, <1>2 DEF IsGenerated
<1> DEFINE D(k) == DoneSoFar(deps, skips, k)
           T == {k \in 0 .. n : Collected(g[k], D(k))}
<1>4. 0 \in T
  <2>1. D(0) = {}
    BY DEF DoneSoFar
  <2>2. Collected(<<>>, {})
    BY DEF Collected
  <2> HIDE DEF D
  <2> QED
    <3>1. Collected(g[0], D(0))
      BY <1>3, <2>1, <2>2
    <3> QED
      BY <3>1
<1>5. ASSUME NEW k \in 0 .. n - 1, k \in T PROVE k + 1 \in T
  <2>1. /\ k + 1 \in 1 .. n /\ k + 1 \in 0 .. n /\ (k + 1) - 1 = k /\ k \in 0 .. n
        /\ 0 .. k = (0 .. k - 1) \cup {k}
    OBVIOUS
  <2>2. g[k] \in Seq(CaseSet) /\ Collected(g[k], D(k))
    BY <1>5, <2>1
  <2>20. PICK s, U : s \in Seq(CaseSet) /\ s = g[k] /\ U = D(k) /\ Collected(s, U)
    BY <2>2
  <2>3. g[k + 1] = MaskStep(deps, skips, k + 1, s)
    BY <1>3, <2>1, <2>20
  <2>4. CASE AllEnabled(deps, k)
    <3>1. g[k + 1] = s
      BY <2>1, <2>3, <2>4 DEF MaskStep
    <3>2. D(k + 1) = D(k)
      BY <2>1, <2>4 DEF DoneSoFar
    <3> HIDE DEF D
    <3> QED
      BY <2>1, <2>20, <3>1, <3>2
  <2>5. CASE ~AllEnabled(deps, k)
    <3>1. g[k + 1] = WithMask(deps, skips, k, s)
      BY <2>1, <2>3, <2>5 DEF MaskStep
    <3>2. D(k + 1) = D(k) \cup DoneInMask(deps, skips, k, HowMany(Radices(deps, k)))
      BY <2>1, <2>5 DEF DoneSoFar
    <3>3. ASSUME NEW c \in CombSet(deps, k) PROVE DepsOf(deps, k, c) \notin D(k)
      <4> SUFFICES ASSUME DepsOf(deps, k, c) \in D(k) PROVE FALSE
        OBVIOUS
      <4>1. PICK m \in 0 .. k - 1 :
               /\ ~AllEnabled(deps, m)
               /\ DepsOf(deps, k, c) \in DoneInMask(deps, skips, m, HowMany(Radices(deps, m)))
        BY DEF DoneSoFar
      <4>2. PICK x \in CombSet(deps, m) : DepsOf(deps, m, x) = DepsOf(deps, k, c)
        BY <4>1 DEF DoneInMask, CombSet
      <4>3. m \in MaskSet(deps) /\ k \in MaskSet(deps) /\ m # k
        BY <1>1
      <4> QED
        BY <2>5, <4>1, <4>2, <4>3, DepsTell
    <3>4. k \in MaskSet(deps)
      BY <1>1
    <3>5. \A c \in CombSet(deps, k) : DepsOf(deps, k, c) \notin U
      BY <2>20, <3>3
    <3> HIDE DEF D
    <3>6. Collected(WithMask(deps, skips, k, s),
                    U \cup DoneInMask(deps, skips, k, HowMany(Radices(deps, k))))
      BY <2>5, <2>20, <3>4, <3>5, WithMaskIs
    <3>7. Collected(g[k + 1], D(k + 1))
      BY <2>20, <3>1, <3>2, <3>6
    <3> QED
      BY <2>1, <3>7
  <2> QED
    BY <2>4, <2>5
<1>6. n \in T
  <2>1. 0 .. n \subseteq T
    <3> HIDE DEF T
    <3> QED
      BY <1>4, <1>5, UpToN
  <2> HIDE DEF T
  <2> QED
    BY <2>1
<1> QED
  BY <1>1, <1>3, <1>6

(* Every choice of enabled dependencies and flavors but the default one    *)
(* has just one test case, unless the user skips it, and no other has one: *)
(* generatePermutationsWithFlavors and shouldSkipPermutation of            *)
(* testaddons/tests.go.                                                    *)
THEOREM PermutationsAreRight ==
  ASSUME NEW deps, NEW skips, PermutationsFor(deps, skips)
  PROVE  PermutationsRight(deps, skips, GeneratePermutationsWithFlavors(deps, skips))
<1>1. /\ deps \in Seq(Offered) /\ Distinct(deps) /\ FlavorsDistinct(deps)
      /\ skips \in Seq(Seq(SkipEntry))
  BY DEF PermutationsFor
<1>2. PICK cases, W : /\ cases = GeneratePermutationsWithFlavors(deps, skips)
                      /\ W = DoneSoFar(deps, skips, HowMany(Bits(deps)))
                      /\ Collected(cases, W)
  BY <1>1, GeneratedIs
<1>3. /\ \A i \in DOMAIN cases : cases[i].index = i - 1 /\ cases[i].deps \in W
      /\ \A w \in W : \E i \in DOMAIN cases : cases[i].deps = w
      /\ \A i, k \in DOMAIN cases : cases[i].deps = cases[k].deps => i = k
  BY <1>2, Zenon DEF Collected
<1> DEFINE wanted == {f \in PossibleCases(deps) : ~Skipped(deps, skips, f)}
           IsPair(m, c) == /\ m \in MaskSet(deps) /\ c \in CombSet(deps, m)
                           /\ ~AllEnabled(deps, m) /\ KeptCase(deps, skips, m, c)
<1>4. ASSUME NEW w PROVE w \in W <=> \E m, c : IsPair(m, c) /\ w = DepsOf(deps, m, c)
  <2>1. w \in W <=> \E m \in MaskSet(deps) : /\ ~AllEnabled(deps, m)
                                             /\ w \in DoneInMask(deps, skips, m, HowMany(Radices(deps, m)))
    BY <1>2 DEF DoneSoFar, MaskSet
  <2>2. \A m : w \in DoneInMask(deps, skips, m, HowMany(Radices(deps, m)))
                  <=> \E c \in CombSet(deps, m) : KeptCase(deps, skips, m, c) /\ w = DepsOf(deps, m, c)
    BY DEF DoneInMask, CombSet
  <2> QED
    BY <2>1, <2>2
<1>5. ASSUME NEW m, NEW c, IsPair(m, c)
      PROVE  /\ m \in Nat /\ c \in Nat /\ Choice(deps, m, c) \in wanted
             /\ Len(DepsOf(deps, m, c)) = Len(deps)
             /\ ToSet(DepsOf(deps, m, c))
                   = {ConfigFor(deps[j], Choice(deps, m, c)[j]) : j \in DOMAIN deps}
  <2>1. m \in Nat /\ c \in Nat
    BY <1>1, <1>5, MasksAreNumbers
  <2>2. Choice(deps, m, c) \in PossibleCases(deps)
    BY <1>1, <1>5, <2>1, ChoiceIsPossible
  <2>3. ~Skipped(deps, skips, Choice(deps, m, c))
    BY <1>1, <1>5, <2>1, SkipIsSkipped DEF KeptCase
  <2> QED
    BY <1>1, <2>1, <2>2, <2>3, DepsAreOfChoice
<1>6. ASSUME NEW f \in wanted PROVE \E m, c : IsPair(m, c) /\ Choice(deps, m, c) = f
  <2>0. PICK m \in MaskSet(deps) : \E c \in CombSet(deps, m) :
           ~AllEnabled(deps, m) /\ Choice(deps, m, c) = f
    BY <1>1, ChoiceIsGiven
  <2>1. PICK c \in CombSet(deps, m) : ~AllEnabled(deps, m) /\ Choice(deps, m, c) = f
    BY <2>0
  <2>2. m \in Nat /\ c \in Nat
    BY <1>1, MasksAreNumbers
  <2>3. KeptCase(deps, skips, m, c)
    BY <1>1, <2>1, <2>2, SkipIsSkipped DEF KeptCase
  <2> QED
    BY <2>1, <2>3
<1>7. ASSUME NEW i \in DOMAIN cases, NEW m, NEW c, IsPair(m, c), cases[i].deps = DepsOf(deps, m, c),
             NEW f \in wanted
      PROVE  IsCaseOf(deps, f, cases[i]) <=> f = Choice(deps, m, c)
  <2>1. f \in PossibleCases(deps) /\ Choice(deps, m, c) \in PossibleCases(deps)
    BY <1>5, <1>7
  <2>2. /\ Len(cases[i].deps) = Len(deps)
        /\ ToSet(cases[i].deps) = {ConfigFor(deps[j], Choice(deps, m, c)[j]) : j \in DOMAIN deps}
    BY <1>5, <1>7
  <2>3. ASSUME IsCaseOf(deps, f, cases[i]) PROVE f = Choice(deps, m, c)
    <3>1. {ConfigFor(deps[j], f[j]) : j \in DOMAIN deps}
             = {ConfigFor(deps[j], Choice(deps, m, c)[j]) : j \in DOMAIN deps}
      BY <2>2, <2>3 DEF IsCaseOf
    <3> QED
      BY <1>1, <2>1, <3>1, ConfigsTell
  <2>4. ASSUME f = Choice(deps, m, c) PROVE IsCaseOf(deps, f, cases[i])
    BY <2>2, <2>4 DEF IsCaseOf
  <2> QED
    BY <2>3, <2>4
<1>8. ASSUME NEW i \in DOMAIN cases PROVE \E f \in wanted : IsCaseOf(deps, f, cases[i])
  <2>1. PICK m, c : IsPair(m, c) /\ cases[i].deps = DepsOf(deps, m, c)
    BY <1>3, <1>4
  <2> HIDE DEF wanted, IsPair
  <2>2. Choice(deps, m, c) \in wanted
    BY <1>5, <2>1
  <2> QED
    BY <1>7, <2>1, <2>2
<1>9. ASSUME NEW f \in wanted
      PROVE  \E i \in DOMAIN cases :
                /\ IsCaseOf(deps, f, cases[i])
                /\ \A k \in DOMAIN cases : IsCaseOf(deps, f, cases[k]) => k = i
  <2> HIDE DEF wanted, IsPair
  <2>1. PICK m, c : IsPair(m, c) /\ Choice(deps, m, c) = f
    BY <1>6
  <2>2. DepsOf(deps, m, c) \in W
    BY <1>4, <2>1
  <2>3. PICK i \in DOMAIN cases : cases[i].deps = DepsOf(deps, m, c)
    BY <1>3, <2>2
  <2>4. IsCaseOf(deps, f, cases[i])
    BY <1>7, <2>1, <2>3
  <2>5. ASSUME NEW k \in DOMAIN cases, IsCaseOf(deps, f, cases[k]) PROVE k = i
    <3>1. PICK m2, c2 : IsPair(m2, c2) /\ cases[k].deps = DepsOf(deps, m2, c2)
      BY <1>3, <1>4
    <3>2. f = Choice(deps, m2, c2)
      BY <1>7, <2>5, <3>1
    <3>3. m = m2 /\ c = c2
      BY <1>1, <2>1, <3>1, <3>2, ChoiceTells DEF IsPair
    <3> QED
      BY <1>3, <2>3, <3>1, <3>3
  <2> QED
    BY <2>4, <2>5
<1> HIDE DEF IsPair
<1>10. ASSUME NEW i \in DOMAIN cases
       PROVE  cases[i].index = i - 1 /\ \E f \in wanted : IsCaseOf(deps, f, cases[i])
  BY <1>3, <1>8
<1>11. PermutationsRight(deps, skips, cases)
  BY <1>9, <1>10, Zenon DEF PermutationsRight
<1> QED
  BY <1>2, <1>11

-----------------------------------------------------------------------------
(* Only the empty sequence has nothing in it.                              *)
LEMMA NothingInIt ==
  ASSUME NEW S, NEW s \in Seq(S)
  PROVE  s = <<>> <=> ToSet(s) = {}
<1>1. PICK n \in Nat : n = Len(s) /\ DOMAIN s = 1 .. n
  OBVIOUS
<1>2. ASSUME ToSet(s) = {} PROVE s = <<>>
  <2>1. 1 .. n = {}
    BY <1>1, <1>2 DEF ToSet
  <2> QED
    BY <1>1, <2>1
<1>3. ASSUME s = <<>> PROVE ToSet(s) = {}
  BY <1>3 DEF ToSet
<1> QED
  BY <1>2, <1>3

(* The validation of an addon's dependencies finds the project valid only  *)
(* if its configurations are those expected, and then always:              *)
(* validateDependencies of testaddons/dependency_graph.go.                 *)
THEOREM ValidationIsRight ==
  ASSUME NEW S, NEW graph \in Seq(S \X S), NEW expected \in Seq(S), NEW deployed \in Seq(S)
  PROVE  ValidationRight(graph, expected, deployed,
                         ValidateDependencies(graph, expected, deployed))
<1> DEFINE told == {e \in ToSet(graph) : e[2] \in ToSet(deployed)}
<1>1. PICK errors \in Seq(S \X S), unexpected \in Seq(S), missing \in Seq(S) :
         /\ errors = NotIn(graph, told)
         /\ unexpected = NotIn(deployed, ToSet(expected))
         /\ missing = NotIn(expected, ToSet(deployed))
         /\ ToSet(errors) = ToSet(graph) \ told
         /\ ToSet(unexpected) = ToSet(deployed) \ ToSet(expected)
         /\ ToSet(missing) = ToSet(expected) \ ToSet(deployed)
  <2> HIDE DEF told
  <2> QED
    BY NotInIsRight
<1>2. errors = <<>> <=> \A i \in DOMAIN graph : graph[i][2] \in ToSet(deployed)
  <2>1. errors = <<>> <=> ToSet(errors) = {}
    BY NothingInIt
  <2>2. ToSet(errors) = {} <=> \A e \in ToSet(graph) : e[2] \in ToSet(deployed)
    BY <1>1
  <2>3. (\A e \in ToSet(graph) : e[2] \in ToSet(deployed))
           <=> \A i \in DOMAIN graph : graph[i][2] \in ToSet(deployed)
    BY DEF ToSet
  <2> QED
    BY <2>1, <2>2, <2>3
<1>3. unexpected = <<>> /\ missing = <<>> <=> ToSet(expected) = ToSet(deployed)
  <2>1. (unexpected = <<>> <=> ToSet(unexpected) = {}) /\ (missing = <<>> <=> ToSet(missing) = {})
    BY NothingInIt
  <2> QED
    BY <1>1, <2>1
<1>4. ValidateDependencies(graph, expected, deployed).valid
         <=> errors = <<>> /\ unexpected = <<>> /\ missing = <<>> /\ Len(expected) = Len(deployed)
  BY <1>1 DEF ValidateDependencies, MissingFrom
<1> QED
  BY <1>2, <1>3, <1>4 DEF ValidationRight

-----------------------------------------------------------------------------
(* A way goes from each configuration on it to one that it refers to, and  *)
(* a circle comes back to itself.                                          *)
IsWay(graph, path) == \A i \in 1 .. Len(path) - 1 : path[i + 1] \in ToSet(graph[path[i]])
IsCircle(graph, path) ==
    /\ path # <<>> /\ IsWay(graph, path)
    /\ path[Len(path)] \in ToSet(SubSeq(path, 1, Len(path) - 1))

(* No circle goes through configurations that have ranks, each a greater   *)
(* one than those that it refers to.                                       *)
HaveRanks(graph, some, m, rank) ==
    /\ rank \in [some -> Nat] /\ \A x \in some : rank[x] < m
    /\ \A x \in some : \A y \in ToSet(graph[x]) : y \in some /\ rank[y] < rank[x]
Ranked(graph, some) == \E m \in Nat : \E rank \in [some -> Nat] : HaveRanks(graph, some, m, rank)

LEMMA NoneRanked ==
  ASSUME NEW graph
  PROVE  Ranked(graph, {})
<1> DEFINE none == [x \in {} |-> 0]
<1>1. none \in [{} -> Nat]
  OBVIOUS
<1>2. HaveRanks(graph, {}, 0, none)
  BY <1>1 DEF HaveRanks
<1> QED
  BY <1>1, <1>2 DEF Ranked

(* One more has a rank if all that it refers to have one.                  *)
LEMMA OneMoreRanked ==
  ASSUME NEW graph, NEW some, Ranked(graph, some), NEW id, id \notin some,
         ToSet(graph[id]) \subseteq some
  PROVE  Ranked(graph, some \cup {id})
<1>1. PICK m \in Nat : \E rank \in [some -> Nat] : HaveRanks(graph, some, m, rank)
  BY DEF Ranked
<1>2. PICK rank \in [some -> Nat] : HaveRanks(graph, some, m, rank)
  BY <1>1
<1>3. PICK more \in [some \cup {id} -> Nat] : more[id] = m /\ \A x \in some : more[x] = rank[x]
  <2> DEFINE r == [x \in some \cup {id} |-> IF x = id THEN m ELSE rank[x]]
  <2>1. r \in [some \cup {id} -> Nat] /\ r[id] = m /\ \A x \in some : r[x] = rank[x]
    OBVIOUS
  <2> HIDE DEF r
  <2> QED
    BY <2>1
<1>4. ASSUME NEW x \in some \cup {id}, NEW y \in ToSet(graph[x])
      PROVE  y \in some /\ more[y] < more[x]
  <2>1. CASE x \in some
    <3>1. y \in some /\ rank[y] < rank[x]
      BY <1>2, <1>4, <2>1 DEF HaveRanks
    <3> QED
      BY <1>3, <2>1, <3>1
  <2>2. CASE x = id
    <3>1. y \in some
      BY <1>4, <2>2
    <3>2. rank[y] < m
      BY <1>2, <3>1 DEF HaveRanks
    <3> QED
      BY <1>3, <2>2, <3>1, <3>2
  <2> QED
    BY <2>1, <2>2
<1>5. \A x \in some \cup {id} : more[x] < m + 1
  <2>1. \A x \in some : rank[x] < m /\ rank[x] \in Nat
    BY <1>2 DEF HaveRanks
  <2> QED
    BY <1>3, <2>1
<1>6. HaveRanks(graph, some \cup {id}, m + 1, more)
  BY <1>4, <1>5 DEF HaveRanks
<1>7. m + 1 \in Nat
  OBVIOUS
<1> QED
  BY <1>6, <1>7 DEF Ranked

(* If all have ranks there is no circle: some of the lowest rank would     *)
(* refer to one of a lower.                                                *)
LEMMA RankedHasNoCircle ==
  ASSUME NEW graph, Ranked(graph, DOMAIN graph)
  PROVE  ~Circular(graph)
<1> SUFFICES ASSUME NEW some \in SUBSET DOMAIN graph, some # {},
                    \A x \in some : ToSet(graph[x]) \cap some # {}
             PROVE  FALSE
  BY DEF Circular
<1>1. PICK m \in Nat : \E rank \in [DOMAIN graph -> Nat] : HaveRanks(graph, DOMAIN graph, m, rank)
  BY DEF Ranked
<1>2. PICK rank \in [DOMAIN graph -> Nat] : HaveRanks(graph, DOMAIN graph, m, rank)
  BY <1>1
<1> DEFINE ranks == {rank[x] : x \in some}
<1>3. ranks \in SUBSET Nat /\ ranks # {}
  OBVIOUS
<1>4. PICK r \in ranks : \A k \in ranks : r <= k
  <2> HIDE DEF ranks
  <2> QED
    BY <1>3, LeastNumber
<1>5. PICK x \in some : rank[x] = r
  BY <1>4
<1>6. PICK y \in some : y \in ToSet(graph[x])
  OBVIOUS
<1>7. rank[y] < rank[x]
  BY <1>2, <1>6 DEF HaveRanks
<1>8. rank[y] \in ranks /\ rank[y] \in Nat /\ rank[x] \in Nat
  OBVIOUS
<1> HIDE DEF ranks
<1> QED
  BY <1>3, <1>4, <1>5, <1>7, <1>8

(* What is on a circle that is found each refers to one on it.             *)
LEMMA CircleIsCircular ==
  ASSUME NEW graph, NEW path \in Seq(DOMAIN graph), IsCircle(graph, path)
  PROVE  Circular(graph)
<1>1. PICK n \in Nat : n = Len(path) /\ DOMAIN path = 1 .. n
  OBVIOUS
<1>2. n # 0
  BY <1>1 DEF IsCircle
<1>3. DOMAIN SubSeq(path, 1, n - 1) = 1 .. n - 1 /\ \A i \in 1 .. n - 1 : SubSeq(path, 1, n - 1)[i] = path[i]
  BY <1>1, <1>2
<1> DEFINE some == {path[i] : i \in 1 .. n - 1}
<1>4. path[n] \in some
  BY <1>1, <1>3 DEF IsCircle, ToSet
<1>5. some \in SUBSET DOMAIN graph
  <2>1. \A i \in 1 .. n - 1 : path[i] \in DOMAIN graph
    BY <1>1
  <2> QED
    BY <2>1
<1>6. ASSUME NEW x \in some PROVE ToSet(graph[x]) \cap some # {}
  <2>1. PICK i \in 1 .. n - 1 : x = path[i]
    OBVIOUS
  <2>2. path[i + 1] \in ToSet(graph[x])
    BY <1>1, <2>1 DEF IsCircle, IsWay
  <2>3. path[i + 1] \in some
    <3>1. CASE i = n - 1
      BY <1>1, <1>4, <2>1, <3>1
    <3>2. CASE i # n - 1
      <4>1. i + 1 \in 1 .. n - 1
        BY <1>1, <3>2
      <4> QED
        BY <4>1
    <3> QED
      BY <3>1, <3>2
  <2> QED
    BY <2>2, <2>3
<1> HIDE DEF some
<1> QED
  BY <1>4, <1>5, <1>6 DEF Circular

(* What a sequence is with one more entry.                                 *)
LEMMA OneMoreEntry ==
  ASSUME NEW S, NEW s \in Seq(S), NEW x \in S
  PROVE  /\ Append(s, x) \in Seq(S) /\ Len(Append(s, x)) = Len(s) + 1
         /\ Append(s, x)[Len(s) + 1] = x /\ \A i \in 1 .. Len(s) : Append(s, x)[i] = s[i]
OBVIOUS

(* A way goes on, from its end to what that refers to.                     *)
LEMMA WayGoesOn ==
  ASSUME NEW graph, NEW D, NEW path \in Seq(D), NEW id \in D, NEW next \in D,
         IsWay(graph, Append(path, id)), next \in ToSet(graph[id])
  PROVE  IsWay(graph, Append(Append(path, id), next))
<1>1. PICK n \in Nat : n = Len(path) /\ DOMAIN path = 1 .. n
  OBVIOUS
<1>2. PICK here \in Seq(D) : here = Append(path, id)
  BY OneMoreEntry
<1>3. Len(here) = n + 1 /\ here[n + 1] = id
  BY <1>1, <1>2
<1>4. PICK on \in Seq(D) : on = Append(here, next)
  BY OneMoreEntry
<1>5. Len(on) = n + 2 /\ on[n + 2] = next /\ \A i \in 1 .. n + 1 : on[i] = here[i]
  BY <1>1, <1>3, <1>4
<1>6. ASSUME NEW i \in 1 .. n + 1 PROVE on[i + 1] \in ToSet(graph[on[i]])
  <2>1. CASE i = n + 1
    BY <1>1, <1>3, <1>5, <2>1
  <2>2. CASE i # n + 1
    <3>1. i \in 1 .. n /\ i + 1 \in 1 .. n + 1
      BY <1>1, <2>2
    <3>2. here[i + 1] \in ToSet(graph[here[i]])
      BY <1>1, <1>2, <1>3, <3>1 DEF IsWay
    <3> QED
      BY <1>5, <3>1, <3>2
  <2> QED
    BY <2>1, <2>2
<1>7. \A i \in 1 .. Len(on) - 1 : on[i + 1] \in ToSet(graph[on[i]])
  BY <1>1, <1>5, <1>6
<1> QED
  BY <1>2, <1>4, <1>7 DEF IsWay

(* A way that goes on to what is on it is a circle.                        *)
LEMMA WayIsCircle ==
  ASSUME NEW graph, NEW D, NEW here \in Seq(D), NEW next \in D,
         IsWay(graph, Append(here, next)), next \in ToSet(here)
  PROVE  IsCircle(graph, Append(here, next)) /\ Append(here, next) # <<>>
<1>1. PICK n \in Nat : n = Len(here) /\ DOMAIN here = 1 .. n
  OBVIOUS
<1>2. PICK on \in Seq(D) : on = Append(here, next)
  BY OneMoreEntry
<1>3. Len(on) = n + 1 /\ on[n + 1] = next /\ \A i \in 1 .. n : on[i] = here[i]
  BY <1>1, <1>2
<1>4. DOMAIN SubSeq(on, 1, n) = 1 .. n /\ \A i \in 1 .. n : SubSeq(on, 1, n)[i] = here[i]
  BY <1>1, <1>3
<1>5. PICK i \in 1 .. n : here[i] = next
  BY <1>1 DEF ToSet
<1>6. next \in ToSet(SubSeq(on, 1, n))
  BY <1>4, <1>5 DEF ToSet
<1>7. Len(on) - 1 = n /\ on # <<>>
  BY <1>1, <1>3
<1>8. on[Len(on)] \in ToSet(SubSeq(on, 1, Len(on) - 1))
  BY <1>1, <1>3, <1>6, <1>7
<1> QED
  BY <1>2, <1>7, <1>8 DEF IsCircle

(* What the definition of a visit says: a look for each dependency, from   *)
(* the first to the last.                                                  *)
FirstLook(call) ==
    [call.search EXCEPT !.visited = @ \cup {call.id}, !.stack = @ \cup {call.id}]
LastLook(call, end) == IF end.cycle # <<>> THEN end ELSE [end EXCEPT !.stack = @ \ {call.id}]
Here(call) == Append(call.path, call.id)
LooksAre(graph, below, call, looks) ==
    /\ looks[0] = FirstLook(call)
    /\ \A j \in 1 .. Len(graph[call.id]) :
          looks[j] = Look(below, Here(call), looks[j - 1], graph[call.id][j])
    /\ Visit(graph, below, call) = LastLook(call, looks[Len(graph[call.id])])

LEMMA LookIsSearch ==
  ASSUME NEW graph, NEW below \in [Calls(graph) -> Searches(graph)], NEW here \in Seq(DOMAIN graph),
         NEW s \in Searches(graph), NEW next \in DOMAIN graph
  PROVE  Look(below, here, s, next) \in Searches(graph)
<1>1. Call(next, s, here) \in Calls(graph)
  BY DEF Call, Calls
<1>2. below[Call(next, s, here)] \in Searches(graph)
  BY <1>1
<1>3. Append(here, next) \in Seq(DOMAIN graph)
  OBVIOUS
<1>4. [s EXCEPT !.cycle = Append(here, next)] \in Searches(graph)
  BY <1>3 DEF Searches
<1> QED
  BY <1>2, <1>4 DEF Look

LEMMA EndsAreSearches ==
  ASSUME NEW graph, NEW call \in Calls(graph)
  PROVE  /\ FirstLook(call) \in Searches(graph)
         /\ \A end \in Searches(graph) : LastLook(call, end) \in Searches(graph)
         /\ Here(call) \in Seq(DOMAIN graph)
         /\ call.id \in DOMAIN graph /\ call.search \in Searches(graph) /\ call.path \in Seq(DOMAIN graph)
<1>1. call.id \in DOMAIN graph /\ call.search \in Searches(graph) /\ call.path \in Seq(DOMAIN graph)
  BY DEF Calls
<1>2. FirstLook(call) \in Searches(graph)
  BY <1>1 DEF FirstLook, Searches
<1>3. ASSUME NEW end \in Searches(graph) PROVE LastLook(call, end) \in Searches(graph)
  BY <1>1 DEF LastLook, Searches
<1>4. Here(call) \in Seq(DOMAIN graph)
  BY <1>1 DEF Here
<1> QED
  BY <1>1, <1>2, <1>3, <1>4

LEMMA LooksDefined ==
  ASSUME NEW graph, IsGraph(graph), NEW below \in [Calls(graph) -> Searches(graph)],
         NEW call \in Calls(graph)
  PROVE  \E looks \in [0 .. Len(graph[call.id]) -> Searches(graph)] :
            LooksAre(graph, below, call, looks)
<1>00. PICK deps : deps = graph[call.id]
  OBVIOUS
<1>01. deps \in Seq(DOMAIN graph)
  BY <1>00, EndsAreSearches DEF IsGraph
<1>0. PICK n \in Nat : n = Len(deps) /\ \A i \in 1 .. n : deps[i] \in DOMAIN graph
  BY <1>01
<1> DEFINE V == Searches(graph)
           base == FirstLook(call)
           step == [i \in 1 .. n |-> [v \in V |-> Look(below, Here(call), v, deps[i])]]
           Is(f) == f = [i \in 0 .. n |-> IF i = 0 THEN base ELSE Look(below, Here(call), f[i - 1], deps[i])]
<1>1. Visit(graph, below, call) = LastLook(call, (CHOOSE f : Is(f))[n])
  <2>1. n = Len(graph[call.id])
    BY <1>00, <1>0
  <2>2. Visit(graph, below, call) = LastLook(call, (CHOOSE f : f =
           [j \in 0 .. Len(graph[call.id]) |->
               IF j = 0 THEN FirstLook(call)
               ELSE Look(below, Here(call), f[j - 1], graph[call.id][j])])[Len(graph[call.id])])
    BY Zenon DEF Visit, FirstLook, LastLook, Here
  <2> QED
    BY <1>00, <2>1, <2>2, Zenon
<1>2. base \in V
  BY EndsAreSearches
<1>3. ASSUME NEW i \in 1 .. n, NEW v \in V PROVE Look(below, Here(call), v, deps[i]) \in V
  BY <1>0, EndsAreSearches, LookIsSearch
<1> HIDE DEF V, base
<1>4. step \in [1 .. n -> [V -> V]]
  BY <1>3
<1>5. \A i \in 1 .. n : \A v \in V : step[i][v] = Look(below, Here(call), v, deps[i])
  OBVIOUS
<1> HIDE DEF step
<1>6. PICK g \in [0 .. n -> V] :
         /\ g[0] = base
         /\ \A i \in 1 .. n : g[i] = step[i][g[i - 1]]
         /\ \A f : Computed(f, n, V, base, step) => f = g
  BY <1>2, <1>4, LoopDefined
<1>7. ASSUME NEW i \in 1 .. n PROVE g[i] = Look(below, Here(call), g[i - 1], deps[i])
  <2>1. g[i - 1] \in V
    BY <1>6
  <2> QED
    BY <1>5, <1>6, <2>1
<1>8. Is(g)
  <2>1. \A i \in 0 .. n : g[i] = IF i = 0 THEN base ELSE Look(below, Here(call), g[i - 1], deps[i])
    BY <1>6, <1>7
  <2> QED
    BY <2>1
<1>9. ASSUME NEW f, Is(f) PROVE f = g
  <2>1. f = [i \in 0 .. n |-> IF i = 0 THEN base ELSE Look(below, Here(call), f[i - 1], deps[i])]
    BY <1>9, Zenon
  <2> HIDE DEF Is
  <2>2. f[0] = base
    BY <2>1
  <2>3. \A i \in 1 .. n : f[i] = Look(below, Here(call), f[i - 1], deps[i])
    BY <2>1
  <2>4. Computed(f, n, V, base, step)
    BY <1>5, <2>1, <2>2, <2>3 DEF Computed
  <2> QED
    BY <1>6, <2>4
<1>10. (CHOOSE f : Is(f)) = g
  <2> HIDE DEF Is
  <2> QED
    BY <1>8, <1>9
<1> HIDE DEF Is
<1>11. LooksAre(graph, below, call, g)
  BY <1>00, <1>0, <1>1, <1>6, <1>7, <1>10 DEF LooksAre, base
<1> QED
  BY <1>00, <1>0, <1>6, <1>11 DEF V

(* A search is called for a configuration that is not visited yet, with    *)
(* the way to it on its stack, when whatever else has been visited has     *)
(* ranks; it answers with a circle, or when the configuration and all      *)
(* below it have ranks too.                                                *)
IsCall(graph, call) ==
    /\ call.search.cycle = <<>> /\ call.id \notin call.search.visited
    /\ IsWay(graph, Here(call))
    /\ call.search.stack = ToSet(call.path) /\ call.search.stack \subseteq call.search.visited
    /\ Ranked(graph, call.search.visited \ call.search.stack)

IsAnswer(graph, call, end) ==
    /\ call.search.visited \cup {call.id} \subseteq end.visited
    /\ end.cycle = <<>> => /\ end.stack = call.search.stack /\ end.stack \subseteq end.visited
                           /\ Ranked(graph, end.visited \ end.stack)
    /\ end.cycle # <<>> => IsCircle(graph, end.cycle)

NotVisited(graph, call) == Cardinality(DOMAIN graph \ call.search.visited)

Answers(graph, below, k) ==
    \A call \in Calls(graph) :
       IsCall(graph, call) /\ NotVisited(graph, call) <= k => IsAnswer(graph, call, below[call])

(* What a visit has found after some of its looks.                         *)
LookedAt(graph, call, s, j) ==
    /\ call.search.visited \cup {call.id} \subseteq s.visited
    /\ s.cycle = <<>> =>
          /\ s.stack = ToSet(Here(call)) /\ s.stack \subseteq s.visited
          /\ Ranked(graph, s.visited \ s.stack)
          /\ \A i \in 1 .. j : graph[call.id][i] \in s.visited \ s.stack
    /\ s.cycle # <<>> => IsCircle(graph, s.cycle)

LEMMA FirstLookIsRight ==
  ASSUME NEW graph, NEW call \in Calls(graph), IsCall(graph, call)
  PROVE  LookedAt(graph, call, FirstLook(call), 0)
<1>1. PICK id \in DOMAIN graph, s \in Searches(graph), path \in Seq(DOMAIN graph) :
         id = call.id /\ s = call.search /\ path = call.path
  BY DEF Calls
<1>2. /\ FirstLook(call).visited = s.visited \cup {id}
      /\ FirstLook(call).stack = s.stack \cup {id} /\ FirstLook(call).cycle = s.cycle
  BY <1>1 DEF FirstLook, Searches
<1>3. ToSet(Here(call)) = ToSet(path) \cup {id}
  BY <1>1, RangeOfAppend DEF Here
<1>4. (s.visited \cup {id}) \ (s.stack \cup {id}) = s.visited \ s.stack
  BY <1>1 DEF IsCall
<1>5. Ranked(graph, FirstLook(call).visited \ FirstLook(call).stack)
  BY <1>1, <1>2, <1>4 DEF IsCall
<1> QED
  BY <1>1, <1>2, <1>3, <1>5 DEF LookedAt, IsCall

LEMMA FewerNotVisited ==
  ASSUME NEW graph, IsGraph(graph), NEW call \in Calls(graph), NEW other \in Calls(graph),
         call.id \notin call.search.visited,
         call.search.visited \cup {call.id} \subseteq other.search.visited,
         NEW k \in Nat, NotVisited(graph, call) <= k + 1
  PROVE  NotVisited(graph, other) <= k
<1>1. PICK D : D = DOMAIN graph \ call.search.visited
  OBVIOUS
<1>2. IsFiniteSet(D) /\ call.id \in D
  BY <1>1, FS_Subset DEF IsGraph, Calls
<1>3. /\ IsFiniteSet(D \ {call.id}) /\ Cardinality(D \ {call.id}) = Cardinality(D) - 1
      /\ Cardinality(D) \in Nat
  BY <1>2, FS_RemoveElement, FS_CardinalityType
<1>4. DOMAIN graph \ other.search.visited \subseteq D \ {call.id}
  BY <1>1
<1>5. /\ Cardinality(DOMAIN graph \ other.search.visited) <= Cardinality(D \ {call.id})
      /\ Cardinality(DOMAIN graph \ other.search.visited) \in Nat
  BY <1>3, <1>4, FS_Subset, FS_CardinalityType
<1> QED
  BY <1>1, <1>3, <1>5 DEF NotVisited

(* One more look: what it finds is a circle, or the dependency has a rank. *)
LEMMA OneLookIsRight ==
  ASSUME NEW graph, IsGraph(graph), NEW k \in Nat,
         NEW below \in [Calls(graph) -> Searches(graph)], Answers(graph, below, k),
         NEW call \in Calls(graph), IsCall(graph, call), NotVisited(graph, call) <= k + 1,
         NEW n \in Nat, n = Len(graph[call.id]), NEW j \in 0 .. n - 1,
         NEW s \in Searches(graph), LookedAt(graph, call, s, j)
  PROVE  LookedAt(graph, call, Look(below, Here(call), s, graph[call.id][j + 1]), j + 1)
<1>1. PICK deps \in Seq(DOMAIN graph) : deps = graph[call.id]
  BY EndsAreSearches DEF IsGraph
<1>2. j + 1 \in 1 .. n /\ 1 .. j + 1 = (1 .. j) \cup {j + 1}
  OBVIOUS
<1>3. PICK next \in DOMAIN graph : next = deps[j + 1]
  BY <1>1, <1>2
<1>4. next \in ToSet(graph[call.id])
  BY <1>1, <1>2, <1>3 DEF ToSet
<1>5. PICK here \in Seq(DOMAIN graph) : here = Here(call)
  BY EndsAreSearches
<1>6. IsWay(graph, Append(here, next)) /\ Append(here, next) \in Seq(DOMAIN graph)
  <2>1. call.id \in DOMAIN graph /\ call.path \in Seq(DOMAIN graph) /\ IsWay(graph, Append(call.path, call.id))
    BY EndsAreSearches DEF IsCall, Here
  <2>2. IsWay(graph, Append(Append(call.path, call.id), next))
    BY <1>4, <2>1, WayGoesOn
  <2> QED
    BY <1>5, <2>2, OneMoreEntry DEF Here
<1>7. PICK e : e = Look(below, here, s, next)
  OBVIOUS
<1> SUFFICES LookedAt(graph, call, e, j + 1)
  BY <1>1, <1>3, <1>5, <1>7
<1>8. CASE s.cycle # <<>>
  <2>1. e = s
    BY <1>7, <1>8 DEF Look
  <2> QED
    BY <1>8, <2>1 DEF LookedAt
<1>9. CASE s.cycle = <<>> /\ next \notin s.visited
  <2>1. PICK other : other = Call(next, s, here)
    OBVIOUS
  <2>2. /\ other \in Calls(graph)
        /\ other.id = next /\ other.search = s /\ other.path = here /\ Here(other) = Append(here, next)
    BY <2>1 DEF Call, Calls, Here
  <2>3. IsCall(graph, other)
    BY <1>5, <1>6, <1>9, <2>2 DEF IsCall, LookedAt
  <2>4. NotVisited(graph, other) <= k
    BY <2>2, FewerNotVisited DEF LookedAt, IsCall
  <2>5. IsAnswer(graph, other, below[other])
    BY <2>2, <2>3, <2>4 DEF Answers
  <2>6. e = below[other]
    BY <1>7, <1>9, <2>1 DEF Look
  <2>7. /\ s.visited \cup {next} \subseteq e.visited
        /\ e.cycle = <<>> => /\ e.stack = s.stack /\ e.stack \subseteq e.visited
                             /\ Ranked(graph, e.visited \ e.stack)
        /\ e.cycle # <<>> => IsCircle(graph, e.cycle)
    BY <2>2, <2>5, <2>6 DEF IsAnswer
  <2>8. ASSUME e.cycle = <<>>, NEW i \in 1 .. j + 1 PROVE graph[call.id][i] \in e.visited \ e.stack
    <3>1. CASE i \in 1 .. j
      BY <1>9, <2>7, <2>8, <3>1 DEF LookedAt
    <3>2. CASE i = j + 1
      BY <1>1, <1>3, <1>9, <2>7, <2>8, <3>2 DEF LookedAt
    <3> QED
      BY <1>2, <3>1, <3>2
  <2> QED
    BY <1>9, <2>7, <2>8 DEF LookedAt
<1>10. CASE s.cycle = <<>> /\ next \in s.visited /\ next \in s.stack
  <2>1. e = [s EXCEPT !.cycle = Append(here, next)]
    BY <1>7, <1>10 DEF Look
  <2>2. e.visited = s.visited /\ e.cycle = Append(here, next)
    BY <2>1 DEF Searches
  <2>3. next \in ToSet(here)
    BY <1>5, <1>10 DEF LookedAt
  <2>4. IsCircle(graph, e.cycle) /\ e.cycle # <<>>
    BY <1>6, <2>2, <2>3, WayIsCircle
  <2> QED
    BY <2>2, <2>4 DEF LookedAt
<1>11. CASE s.cycle = <<>> /\ next \in s.visited /\ next \notin s.stack
  <2>1. e = s
    BY <1>7, <1>11 DEF Look
  <2>2. graph[call.id][j + 1] \in s.visited \ s.stack
    BY <1>1, <1>3, <1>11
  <2>3. \A i \in 1 .. j + 1 : graph[call.id][i] \in s.visited \ s.stack
    BY <1>2, <1>11, <2>2 DEF LookedAt
  <2> QED
    BY <1>11, <2>1, <2>3 DEF LookedAt
<1> QED
  BY <1>8, <1>9, <1>10, <1>11

(* After its last look all that the configuration refers to have ranks.    *)
LEMMA LastLookIsRight ==
  ASSUME NEW graph, IsGraph(graph), NEW call \in Calls(graph), IsCall(graph, call),
         NEW s \in Searches(graph), LookedAt(graph, call, s, Len(graph[call.id]))
  PROVE  IsAnswer(graph, call, LastLook(call, s))
<1>1. CASE s.cycle # <<>>
  BY <1>1 DEF LookedAt, LastLook, IsAnswer
<1>2. CASE s.cycle = <<>>
  <2>1. PICK id \in DOMAIN graph, path \in Seq(DOMAIN graph), deps \in Seq(DOMAIN graph) :
           id = call.id /\ path = call.path /\ deps = graph[id]
    BY EndsAreSearches DEF IsGraph
  <2>2. PICK e : e = LastLook(call, s)
    OBVIOUS
  <2>3. e.visited = s.visited /\ e.stack = s.stack \ {id} /\ e.cycle = <<>>
    BY <1>2, <2>1, <2>2 DEF LastLook, Searches
  <2>4. s.stack = ToSet(path) \cup {id}
    BY <1>2, <2>1, RangeOfAppend DEF LookedAt, Here
  <2>5. id \notin ToSet(path) /\ ToSet(path) = call.search.stack
    BY <2>1 DEF IsCall
  <2>6. e.stack = call.search.stack
    BY <2>3, <2>4, <2>5
  <2>7. ToSet(graph[id]) \subseteq s.visited \ s.stack
    BY <1>2, <2>1 DEF LookedAt, ToSet
  <2>8. PICK some : some = s.visited \ s.stack
    OBVIOUS
  <2>9. Ranked(graph, some) /\ id \notin some /\ ToSet(graph[id]) \subseteq some
    BY <1>2, <2>4, <2>7, <2>8 DEF LookedAt
  <2>10. Ranked(graph, some \cup {id})
    BY <2>9, OneMoreRanked
  <2>11. id \in s.visited /\ s.stack \subseteq s.visited
    BY <1>2, <2>1 DEF LookedAt
  <2>12. e.visited \ e.stack = some \cup {id}
    BY <2>3, <2>4, <2>5, <2>8, <2>11
  <2>13. Ranked(graph, e.visited \ e.stack)
    BY <2>10, <2>12
  <2>14. call.search.visited \cup {call.id} \subseteq e.visited
    BY <2>3 DEF LookedAt
  <2>15. e.stack \subseteq e.visited
    BY <2>3, <2>11
  <2> QED
    BY <2>2, <2>3, <2>6, <2>13, <2>14, <2>15 DEF IsAnswer
<1> QED
  BY <1>1, <1>2

LEMMA VisitLooks ==
  ASSUME NEW graph, IsGraph(graph), NEW below \in [Calls(graph) -> Searches(graph)],
         NEW call \in Calls(graph)
  PROVE  \E n \in Nat : \E looks \in [0 .. n -> Searches(graph)] :
            /\ n = Len(graph[call.id]) /\ LooksAre(graph, below, call, looks)
            /\ Visit(graph, below, call) = LastLook(call, looks[n])
            /\ Visit(graph, below, call) \in Searches(graph)
<1>1. PICK n \in Nat : n = Len(graph[call.id])
  <2>1. graph[call.id] \in Seq(DOMAIN graph)
    BY EndsAreSearches DEF IsGraph
  <2> QED
    BY <2>1
<1>2. PICK looks \in [0 .. n -> Searches(graph)] : LooksAre(graph, below, call, looks)
  BY <1>1, LooksDefined
<1>3. Visit(graph, below, call) = LastLook(call, looks[n])
  BY <1>1, <1>2 DEF LooksAre
<1>4. looks[n] \in Searches(graph)
  OBVIOUS
<1>5. Visit(graph, below, call) \in Searches(graph)
  BY <1>3, <1>4, EndsAreSearches
<1> QED
  BY <1>1, <1>2, <1>3, <1>5

(* So a visit answers what it is asked, if the searches below it do.       *)
LEMMA VisitIsRight ==
  ASSUME NEW graph, IsGraph(graph), NEW k \in Nat,
         NEW below \in [Calls(graph) -> Searches(graph)], Answers(graph, below, k),
         NEW call \in Calls(graph), IsCall(graph, call), NotVisited(graph, call) <= k + 1
  PROVE  IsAnswer(graph, call, Visit(graph, below, call))
<1>1. PICK n \in Nat : \E looks \in [0 .. n -> Searches(graph)] :
         /\ n = Len(graph[call.id]) /\ LooksAre(graph, below, call, looks)
         /\ Visit(graph, below, call) = LastLook(call, looks[n])
  BY VisitLooks
<1>2. PICK looks \in [0 .. n -> Searches(graph)] :
         /\ n = Len(graph[call.id]) /\ LooksAre(graph, below, call, looks)
         /\ Visit(graph, below, call) = LastLook(call, looks[n])
  BY <1>1
<1> DEFINE T == {j \in 0 .. n : LookedAt(graph, call, looks[j], j)}
<1>3. 0 \in T
  <2>1. looks[0] = FirstLook(call)
    BY <1>2 DEF LooksAre
  <2> QED
    BY <2>1, FirstLookIsRight
<1>4. ASSUME NEW j \in 0 .. n - 1, j \in T PROVE j + 1 \in T
  <2>1. j \in 0 .. n /\ j + 1 \in 0 .. n /\ j + 1 \in 1 .. n /\ (j + 1) - 1 = j
    OBVIOUS
  <2>2. PICK s \in Searches(graph) : s = looks[j]
    BY <2>1
  <2>3. looks[j + 1] = Look(below, Here(call), s, graph[call.id][j + 1])
    BY <1>2, <2>1, <2>2 DEF LooksAre
  <2>4. LookedAt(graph, call, s, j)
    BY <1>4, <2>2
  <2>5. LookedAt(graph, call, looks[j + 1], j + 1)
    BY <1>2, <2>3, <2>4, OneLookIsRight
  <2> QED
    BY <2>1, <2>5
<1>5. n \in T
  <2> HIDE DEF T
  <2>1. 0 .. n \subseteq T
    BY <1>3, <1>4, UpToN
  <2> QED
    BY <2>1
<1>6. LookedAt(graph, call, looks[n], n) /\ looks[n] \in Searches(graph)
  BY <1>5
<1> HIDE DEF T
<1> QED
  BY <1>2, <1>6, LastLookIsRight

(* The levels of the search.                                               *)
LevelsAre(graph, levels, dfs) ==
    /\ dfs[0] = NoLevel(graph)
    /\ \A k \in 1 .. levels : dfs[k] = Level(graph, dfs[k - 1])
    /\ \A id, search : FindCycleDFS(graph, id, search) = dfs[levels][Call(id, search, <<>>)]

LEMMA LevelIsSearch ==
  ASSUME NEW graph, IsGraph(graph), NEW below \in [Calls(graph) -> Searches(graph)]
  PROVE  Level(graph, below) \in [Calls(graph) -> Searches(graph)]
<1>1. \A call \in Calls(graph) : Visit(graph, below, call) \in Searches(graph)
  BY VisitLooks
<1> QED
  BY <1>1 DEF Level

LEMMA LevelsDefined ==
  ASSUME NEW graph, IsGraph(graph)
  PROVE  \E n \in Nat : \E dfs \in [0 .. n -> [Calls(graph) -> Searches(graph)]] :
            n = Cardinality(DOMAIN graph) /\ LevelsAre(graph, n, dfs)
<1>0. PICK n \in Nat : n = Cardinality(DOMAIN graph)
  BY FS_CardinalityType DEF IsGraph
<1> DEFINE V == [Calls(graph) -> Searches(graph)]
           base == NoLevel(graph)
           step == [i \in 1 .. n |-> [v \in V |-> Level(graph, v)]]
           Is(f) == f = [i \in 0 .. n |-> IF i = 0 THEN base ELSE Level(graph, f[i - 1])]
<1>1. ASSUME NEW id, NEW search
      PROVE  FindCycleDFS(graph, id, search) = (CHOOSE f : Is(f))[n][Call(id, search, <<>>)]
  BY <1>0, Zenon DEF FindCycleDFS
<1>2. base \in V
  <2>1. \A call \in Calls(graph) : call.search \in Searches(graph)
    BY EndsAreSearches
  <2> QED
    BY <2>1 DEF NoLevel
<1>3. ASSUME NEW i \in 1 .. n, NEW v \in V PROVE Level(graph, v) \in V
  BY LevelIsSearch
<1> HIDE DEF V, base
<1>4. step \in [1 .. n -> [V -> V]]
  BY <1>3
<1>5. \A i \in 1 .. n : \A v \in V : step[i][v] = Level(graph, v)
  OBVIOUS
<1> HIDE DEF step
<1>6. PICK g \in [0 .. n -> V] :
         /\ g[0] = base
         /\ \A i \in 1 .. n : g[i] = step[i][g[i - 1]]
         /\ \A f : Computed(f, n, V, base, step) => f = g
  BY <1>2, <1>4, LoopDefined
<1>7. ASSUME NEW i \in 1 .. n PROVE g[i] = Level(graph, g[i - 1])
  <2>1. g[i - 1] \in V
    BY <1>6
  <2> QED
    BY <1>5, <1>6, <2>1
<1>8. Is(g)
  <2>1. \A i \in 0 .. n : g[i] = IF i = 0 THEN base ELSE Level(graph, g[i - 1])
    BY <1>6, <1>7
  <2> QED
    BY <2>1
<1>9. ASSUME NEW f, Is(f) PROVE f = g
  <2>1. f = [i \in 0 .. n |-> IF i = 0 THEN base ELSE Level(graph, f[i - 1])]
    BY <1>9, Zenon
  <2> HIDE DEF Is
  <2>2. f[0] = base
    BY <2>1
  <2>3. \A i \in 1 .. n : f[i] = Level(graph, f[i - 1])
    BY <2>1
  <2>4. Computed(f, n, V, base, step)
    BY <1>5, <2>1, <2>2, <2>3 DEF Computed
  <2> QED
    BY <1>6, <2>4
<1>10. (CHOOSE f : Is(f)) = g
  <2> HIDE DEF Is
  <2> QED
    BY <1>8, <1>9
<1> HIDE DEF Is
<1>11. LevelsAre(graph, n, g)
  BY <1>1, <1>6, <1>7, <1>10 DEF LevelsAre, base
<1> QED
  BY <1>0, <1>6, <1>11 DEF V

(* The search answers when it is called for a root.                        *)
LEMMA SearchIsRight ==
  ASSUME NEW graph, IsGraph(graph), NEW id \in DOMAIN graph, NEW s \in Searches(graph)
  PROVE  /\ FindCycleDFS(graph, id, s) \in Searches(graph)
         /\ IsCall(graph, Call(id, s, <<>>))
            => IsAnswer(graph, Call(id, s, <<>>), FindCycleDFS(graph, id, s))
<1>1. PICK n \in Nat : \E dfs \in [0 .. n -> [Calls(graph) -> Searches(graph)]] :
         n = Cardinality(DOMAIN graph) /\ LevelsAre(graph, n, dfs)
  BY LevelsDefined
<1>2. PICK dfs \in [0 .. n -> [Calls(graph) -> Searches(graph)]] :
         n = Cardinality(DOMAIN graph) /\ LevelsAre(graph, n, dfs)
  BY <1>1
<1> DEFINE T == {k \in 0 .. n : Answers(graph, dfs[k], k)}
<1>3. 0 \in T
  <2> SUFFICES ASSUME NEW call \in Calls(graph), IsCall(graph, call), NotVisited(graph, call) <= 0
               PROVE  FALSE
    BY DEF Answers
  <2>1. PICK D : D = DOMAIN graph \ call.search.visited
    OBVIOUS
  <2>2. call.id \in D /\ IsFiniteSet(D)
    BY <2>1, FS_Subset DEF IsCall, Calls, IsGraph
  <2>3. Cardinality(D) \in Nat /\ Cardinality(D) # 0
    BY <2>2, FS_EmptySet, FS_CardinalityType
  <2> QED
    BY <2>1, <2>3 DEF NotVisited
<1>4. ASSUME NEW k \in 0 .. n - 1, k \in T PROVE k + 1 \in T
  <2>1. k \in 0 .. n /\ k + 1 \in 0 .. n /\ k + 1 \in 1 .. n /\ (k + 1) - 1 = k /\ k \in Nat
    OBVIOUS
  <2>2. PICK below \in [Calls(graph) -> Searches(graph)] : below = dfs[k]
    BY <2>1
  <2>3. dfs[k + 1] = Level(graph, below) /\ Answers(graph, below, k)
    BY <1>2, <1>4, <2>1, <2>2 DEF LevelsAre
  <2>4. ASSUME NEW call \in Calls(graph), IsCall(graph, call), NotVisited(graph, call) <= k + 1
        PROVE  IsAnswer(graph, call, Level(graph, below)[call])
    <3>1. Level(graph, below)[call] = Visit(graph, below, call)
      BY DEF Level
    <3> QED
      BY <2>1, <2>3, <2>4, <3>1, VisitIsRight
  <2>5. Answers(graph, dfs[k + 1], k + 1)
    BY <2>3, <2>4 DEF Answers
  <2> QED
    BY <2>1, <2>5
<1>5. n \in T
  <2> HIDE DEF T
  <2>1. 0 .. n \subseteq T
    BY <1>3, <1>4, UpToN
  <2> QED
    BY <2>1
<1>6. Answers(graph, dfs[n], n) /\ dfs[n] \in [Calls(graph) -> Searches(graph)]
  BY <1>5
<1> HIDE DEF T
<1>7. PICK call \in Calls(graph) : call = Call(id, s, <<>>)
  <2>1. Call(id, s, <<>>) \in Calls(graph)
    BY DEF Call, Calls
  <2> QED
    BY <2>1
<1>8. FindCycleDFS(graph, id, s) = dfs[n][call]
  BY <1>2, <1>7 DEF LevelsAre
<1>9. NotVisited(graph, call) <= n
  BY <1>2, FS_Subset DEF NotVisited, IsGraph
<1> QED
  BY <1>6, <1>7, <1>8, <1>9 DEF Answers

(* What is known after some of the roots.                                  *)
Founds(graph) == [visited : SUBSET DOMAIN graph, stack : SUBSET DOMAIN graph,
                  cycles : Seq(Seq(DOMAIN graph))]
NothingFound == [visited |-> {}, stack |-> {}, cycles |-> <<>>]
FoundAfter(graph, roots, s, i) ==
    /\ s.cycles = <<>> => /\ s.stack = {} /\ Ranked(graph, s.visited)
                          /\ \A k \in 1 .. i : roots[k] \in s.visited
    /\ s.cycles # <<>> => IsCircle(graph, s.cycles[1])

LEMMA FromRootIsRight ==
  ASSUME NEW graph, IsGraph(graph), NEW roots \in Seq(DOMAIN graph), NEW i \in 0 .. Len(roots) - 1,
         NEW s \in Founds(graph)
  PROVE  /\ FromRoot(graph, s, roots[i + 1]) \in Founds(graph)
         /\ FoundAfter(graph, roots, s, i)
            => FoundAfter(graph, roots, FromRoot(graph, s, roots[i + 1]), i + 1)
<1>1. PICK n \in Nat : n = Len(roots)
  OBVIOUS
<1>2. PICK id \in DOMAIN graph : id = roots[i + 1]
  BY <1>1
<1>3. 1 .. i + 1 = (1 .. i) \cup {i + 1} /\ i \in Nat
  BY <1>1
<1>4. PICK e : e = FromRoot(graph, s, id)
  OBVIOUS
<1>5. CASE id \in s.visited
  <2>1. e = s
    BY <1>4, <1>5 DEF FromRoot
  <2>2. ASSUME FoundAfter(graph, roots, s, i) PROVE FoundAfter(graph, roots, s, i + 1)
    BY <1>2, <1>3, <1>5, <2>2 DEF FoundAfter
  <2> QED
    BY <1>2, <1>4, <2>1, <2>2
<1>6. CASE id \notin s.visited
  <2>1. PICK search \in Searches(graph) :
           search = [visited |-> s.visited, stack |-> s.stack, cycle |-> <<>>]
    <3>1. [visited |-> s.visited, stack |-> s.stack, cycle |-> <<>>] \in Searches(graph)
      BY DEF Searches, Founds
    <3> QED
      BY <3>1
  <2>2. PICK found \in Searches(graph) : found = FindCycleDFS(graph, id, search)
    BY SearchIsRight
  <2>3. /\ e.visited = found.visited /\ e.stack = found.stack
        /\ found.cycle = <<>> => e.cycles = s.cycles
        /\ found.cycle # <<>> => e.cycles = Append(s.cycles, found.cycle)
        /\ e = [visited |-> e.visited, stack |-> e.stack, cycles |-> e.cycles]
    BY <1>4, <1>6, <2>1, <2>2 DEF FromRoot
  <2>4. PICK cycles \in Seq(Seq(DOMAIN graph)) : cycles = s.cycles
    BY DEF Founds
  <2>5. PICK cycle \in Seq(DOMAIN graph) : cycle = found.cycle
    BY DEF Searches
  <2>6. PICK m \in Nat : m = Len(cycles)
    OBVIOUS
  <2>7. /\ Append(cycles, cycle) \in Seq(Seq(DOMAIN graph)) /\ Append(cycles, cycle) # <<>>
        /\ cycles = <<>> => Append(cycles, cycle)[1] = cycle
        /\ cycles # <<>> => Append(cycles, cycle)[1] = cycles[1]
    <3>1. /\ Append(cycles, cycle) \in Seq(Seq(DOMAIN graph)) /\ Len(Append(cycles, cycle)) = m + 1
          /\ Append(cycles, cycle)[m + 1] = cycle
          /\ \A k \in 1 .. m : Append(cycles, cycle)[k] = cycles[k]
      BY <2>6, OneMoreEntry
    <3>2. Append(cycles, cycle) # <<>>
      BY <3>1
    <3>3. CASE cycles = <<>>
      BY <2>6, <3>1, <3>2, <3>3
    <3>4. CASE cycles # <<>>
      <4>1. 1 \in 1 .. m
        BY <2>6, <3>4
      <4> QED
        BY <3>1, <3>2, <3>4, <4>1
    <3> QED
      BY <3>3, <3>4
  <2>8. e.cycles \in Seq(Seq(DOMAIN graph))
    BY <2>3, <2>4, <2>5, <2>7
  <2>9. e \in Founds(graph)
    BY <2>3, <2>8 DEF Founds, Searches
  <2>10. ASSUME FoundAfter(graph, roots, s, i) PROVE FoundAfter(graph, roots, e, i + 1)
    <3>1. CASE s.cycles # <<>>
      <4>1. e.cycles # <<>> /\ e.cycles[1] = s.cycles[1]
        BY <2>3, <2>4, <2>5, <2>7, <3>1
      <4> QED
        BY <2>10, <3>1, <4>1 DEF FoundAfter
    <3>2. CASE s.cycles = <<>>
      <4>1. PICK call : call = Call(id, search, <<>>)
        OBVIOUS
      <4>2. /\ call.id = id /\ call.search = search /\ call.path = <<>>
            /\ search.visited = s.visited /\ search.stack = s.stack /\ search.cycle = <<>>
        BY <2>1, <4>1 DEF Call
      <4>3. ToSet(call.path) = {}
        BY <4>2 DEF ToSet
      <4>4. IsWay(graph, Here(call))
        <5>1. <<>> \in Seq(DOMAIN graph) /\ Len(<<>>) = 0
          OBVIOUS
        <5>2. Len(Append(<<>>, id)) - 1 = 0
          BY <5>1, OneMoreEntry
        <5> QED
          BY <4>2, <5>2 DEF IsWay, Here
      <4>5. s.stack = {} /\ Ranked(graph, s.visited)
        BY <2>10, <3>2 DEF FoundAfter
      <4>6. search.visited \ search.stack = s.visited
        BY <4>2, <4>5
      <4>7. IsCall(graph, call)
        BY <1>6, <4>2, <4>3, <4>4, <4>5, <4>6 DEF IsCall
      <4>8. IsAnswer(graph, call, found)
        BY <2>2, <4>1, <4>7, SearchIsRight
      <4>9. CASE found.cycle = <<>>
        <5>1. /\ found.stack = {} /\ Ranked(graph, found.visited \ found.stack)
              /\ s.visited \cup {id} \subseteq found.visited
          BY <4>2, <4>5, <4>8, <4>9 DEF IsAnswer
        <5>2. found.visited \ found.stack = found.visited
          BY <5>1
        <5>3. \A k \in 1 .. i + 1 : roots[k] \in e.visited
          BY <1>2, <1>3, <2>3, <2>10, <3>2, <5>1 DEF FoundAfter
        <5> QED
          BY <2>3, <3>2, <4>9, <5>1, <5>2, <5>3 DEF FoundAfter
      <4>10. CASE found.cycle # <<>>
        <5>1. IsCircle(graph, found.cycle)
          BY <4>8, <4>10 DEF IsAnswer
        <5>2. e.cycles # <<>> /\ e.cycles[1] = found.cycle
          BY <2>3, <2>4, <2>5, <2>7, <3>2, <4>10
        <5> QED
          BY <5>1, <5>2 DEF FoundAfter
      <4> QED
        BY <4>9, <4>10
    <3> QED
      BY <3>1, <3>2
  <2> QED
    BY <1>2, <1>4, <2>9, <2>10
<1> QED
  BY <1>5, <1>6

FoundsAre(graph, roots, found) ==
    /\ found[0] = NothingFound
    /\ \A i \in 1 .. Len(roots) : found[i] = FromRoot(graph, found[i - 1], roots[i])
    /\ DetectCircularDependencies(graph, roots) = found[Len(roots)].cycles

LEMMA FoundsDefined ==
  ASSUME NEW graph, IsGraph(graph), NEW roots \in Seq(DOMAIN graph)
  PROVE  \E found \in [0 .. Len(roots) -> Founds(graph)] : FoundsAre(graph, roots, found)
<1>0. PICK n \in Nat : n = Len(roots)
  OBVIOUS
<1> DEFINE V == Founds(graph)
           base == NothingFound
           step == [i \in 1 .. n |-> [v \in V |-> FromRoot(graph, v, roots[i])]]
           Is(f) == f = [i \in 0 .. n |-> IF i = 0 THEN base ELSE FromRoot(graph, f[i - 1], roots[i])]
<1>1. DetectCircularDependencies(graph, roots) = (CHOOSE f : Is(f))[n].cycles
  BY <1>0, Zenon DEF DetectCircularDependencies, NothingFound
<1>2. base \in V
  <2>1. <<>> \in Seq(Seq(DOMAIN graph))
    OBVIOUS
  <2> QED
    BY <2>1 DEF NothingFound, Founds
<1>3. ASSUME NEW i \in 1 .. n, NEW v \in V PROVE FromRoot(graph, v, roots[i]) \in V
  <2>1. i - 1 \in 0 .. Len(roots) - 1 /\ (i - 1) + 1 = i
    BY <1>0
  <2> QED
    BY <2>1, FromRootIsRight
<1> HIDE DEF V, base
<1>4. step \in [1 .. n -> [V -> V]]
  BY <1>3
<1>5. \A i \in 1 .. n : \A v \in V : step[i][v] = FromRoot(graph, v, roots[i])
  OBVIOUS
<1> HIDE DEF step
<1>6. PICK g \in [0 .. n -> V] :
         /\ g[0] = base
         /\ \A i \in 1 .. n : g[i] = step[i][g[i - 1]]
         /\ \A f : Computed(f, n, V, base, step) => f = g
  BY <1>2, <1>4, LoopDefined
<1>7. ASSUME NEW i \in 1 .. n PROVE g[i] = FromRoot(graph, g[i - 1], roots[i])
  <2>1. g[i - 1] \in V
    BY <1>6
  <2> QED
    BY <1>5, <1>6, <2>1
<1>8. Is(g)
  <2>1. \A i \in 0 .. n : g[i] = IF i = 0 THEN base ELSE FromRoot(graph, g[i - 1], roots[i])
    BY <1>6, <1>7
  <2> QED
    BY <2>1
<1>9. ASSUME NEW f, Is(f) PROVE f = g
  <2>1. f = [i \in 0 .. n |-> IF i = 0 THEN base ELSE FromRoot(graph, f[i - 1], roots[i])]
    BY <1>9, Zenon
  <2> HIDE DEF Is
  <2>2. f[0] = base
    BY <2>1
  <2>3. \A i \in 1 .. n : f[i] = FromRoot(graph, f[i - 1], roots[i])
    BY <2>1
  <2>4. Computed(f, n, V, base, step)
    BY <1>5, <2>1, <2>2, <2>3 DEF Computed
  <2> QED
    BY <1>6, <2>4
<1>10. (CHOOSE f : Is(f)) = g
  <2> HIDE DEF Is
  <2> QED
    BY <1>8, <1>9
<1> HIDE DEF Is
<1>11. FoundsAre(graph, roots, g)
  BY <1>0, <1>1, <1>6, <1>7, <1>10 DEF FoundsAre, base
<1> QED
  BY <1>0, <1>6, <1>11 DEF V

(* A circular dependency is reported only if there is one, and then always, *)
(* and the first that is reported is one: detectCircularDependencies and    *)
(* findCycleDFS of testaddons/tests.go, whatever refers to what and in      *)
(* whatever order the map of configurations is walked.                      *)
THEOREM CyclesAreRight ==
  ASSUME NEW graph, IsGraph(graph), NEW roots \in Seq(DOMAIN graph), ToSet(roots) = DOMAIN graph
  PROVE  CyclesRight(graph, DetectCircularDependencies(graph, roots))
<1>1. PICK n \in Nat : n = Len(roots) /\ DOMAIN roots = 1 .. n
  OBVIOUS
<1>2. PICK found \in [0 .. n -> Founds(graph)] : FoundsAre(graph, roots, found)
  BY <1>1, FoundsDefined
<1> DEFINE T == {i \in 0 .. n : FoundAfter(graph, roots, found[i], i)}
<1>3. 0 \in T
  <2>1. FoundAfter(graph, roots, NothingFound, 0)
    BY NoneRanked DEF FoundAfter, NothingFound
  <2> QED
    BY <1>2, <2>1 DEF FoundsAre
<1>4. ASSUME NEW i \in 0 .. n - 1, i \in T PROVE i + 1 \in T
  <2>1. i \in 0 .. n /\ i + 1 \in 0 .. n /\ i + 1 \in 1 .. n /\ (i + 1) - 1 = i
    OBVIOUS
  <2>2. PICK s \in Founds(graph) : s = found[i]
    BY <2>1
  <2>3. found[i + 1] = FromRoot(graph, s, roots[i + 1])
    BY <1>1, <1>2, <2>1, <2>2 DEF FoundsAre
  <2>4. FoundAfter(graph, roots, found[i + 1], i + 1)
    BY <1>1, <1>4, <2>2, <2>3, FromRootIsRight
  <2> QED
    BY <2>1, <2>4
<1>5. n \in T
  <2> HIDE DEF T
  <2>1. 0 .. n \subseteq T
    BY <1>3, <1>4, UpToN
  <2> QED
    BY <2>1
<1>6. PICK s \in Founds(graph) : s = found[n] /\ FoundAfter(graph, roots, s, n)
  BY <1>5
<1> HIDE DEF T
<1>7. PICK cycles \in Seq(Seq(DOMAIN graph)) :
         cycles = s.cycles /\ cycles = DetectCircularDependencies(graph, roots)
  BY <1>1, <1>2, <1>6 DEF FoundsAre, Founds
<1>8. ASSUME cycles = <<>> PROVE ~Circular(graph)
  <2>1. Ranked(graph, s.visited) /\ \A k \in 1 .. n : roots[k] \in s.visited
    BY <1>6, <1>7, <1>8 DEF FoundAfter
  <2>2. s.visited = DOMAIN graph
    <3>1. s.visited \subseteq DOMAIN graph
      BY DEF Founds
    <3>2. ToSet(roots) \subseteq s.visited
      BY <1>1, <2>1 DEF ToSet
    <3> QED
      BY <3>1, <3>2
  <2> QED
    BY <2>1, <2>2, RankedHasNoCircle
<1>9. ASSUME cycles # <<>> PROVE IsCircle(graph, cycles[1]) /\ cycles[1] \in Seq(DOMAIN graph)
  BY <1>6, <1>7, <1>9 DEF FoundAfter
<1>10. ASSUME cycles # <<>> PROVE Circular(graph)
  BY <1>9, <1>10, CircleIsCircular
<1>11. cycles # <<>> => /\ \A i \in 1 .. Len(cycles[1]) - 1 :
                              cycles[1][i + 1] \in ToSet(graph[cycles[1][i]])
                        /\ cycles[1][Len(cycles[1])] \in ToSet(SubSeq(cycles[1], 1, Len(cycles[1]) - 1))
  BY <1>9 DEF IsCircle, IsWay
<1> QED
  BY <1>7, <1>8, <1>10, <1>11, Zenon DEF CyclesRight

-----------------------------------------------------------------------------
(* What has been found before a configuration is examined.                 *)
ScanEnds == {"", "UPDATE_CONFIGURATION", "SETTING_INPUTS", "RESOLVE_REFERENCES"}
Scans == [end : ScanEnds, failed : BOOLEAN, ready : BOOLEAN, waiting : Seq(Configuration),
          awaiting : Seq(Configuration), missing : Seq(STRING)]

LEMMA InStateIsSeq ==
  ASSUME NEW list \in Seq(Configuration), NEW c \in Configuration, NEW code
  PROVE  /\ InState(c, code, list) \in Seq(Configuration)
         /\ c.state = code => InState(c, code, list) # <<>>
         /\ list # <<>> => InState(c, code, list) # <<>>
         /\ \A d \in ToSet(InState(c, code, list)) : d \in ToSet(list) \/ (d = c /\ c.state = code)
<1>1. PICK more \in Seq(Configuration) : more = Append(list, c) /\ Len(more) = Len(list) + 1
  BY OneMoreEntry
<1>2. more # <<>>
  BY <1>1
<1>3. ToSet(more) = ToSet(list) \cup {c}
  BY <1>1, RangeOfAppend
<1> QED
  BY <1>1, <1>2, <1>3 DEF InState

(* What examining one configuration does.                                  *)
Asks(opts, c) == ~opts.skipRefs /\ c.refs # <<>>
SkippedError(opts, c) == Asks(opts, c) /\ c.service # "ok"
IsExamined(opts, s, c, e) ==
    /\ s.end # "" => e = s
    /\ e.end = "" =>
          /\ s.end = "" /\ c.reads \notin {"unreadable", "refused"}
          /\ e.ready = (s.ready \/ c.state = "awaiting_validation")
          /\ e.waiting = InState(c, "awaiting_input", s.waiting)
          /\ e.awaiting = InState(c, "awaiting_prerequisite", s.awaiting)
          /\ SkippedError(opts, c) => ~opts.skipInfra /\ c.service = "transient"
          /\ c.known /\ c.missing /\ ~SkippedError(opts, c) => e.missing # <<>>
          /\ s.missing # <<>> => e.missing # <<>>

LEMMA ExamineIs ==
  ASSUME NEW opts \in VerdictOptions, NEW s \in Scans, NEW c \in Configuration
  PROVE  Examine(opts, s, c) \in Scans /\ IsExamined(opts, s, c, Examine(opts, s, c))
<1>1. PICK waiting \in Seq(Configuration), awaiting \in Seq(Configuration) :
         /\ waiting = InState(c, "awaiting_input", s.waiting)
         /\ awaiting = InState(c, "awaiting_prerequisite", s.awaiting)
  BY InStateIsSeq DEF Scans
<1>2. PICK read : read = [s EXCEPT !.failed = @ \/ c.reads = "not updated",
                                   !.ready = @ \/ c.state = "awaiting_validation",
                                   !.waiting = waiting, !.awaiting = awaiting]
  OBVIOUS
<1>3. /\ read \in Scans
      /\ read.end = s.end /\ read.ready = (s.ready \/ c.state = "awaiting_validation")
      /\ read.waiting = waiting /\ read.awaiting = awaiting /\ read.missing = s.missing
  BY <1>2 DEF Scans
<1>4. PICK id \in STRING : id = c.id
  BY DEF Configuration
<1>5. PICK missing \in Seq(STRING) : missing = Append(s.missing, id) /\ missing # <<>>
  <2>1. PICK was \in Seq(STRING) : was = s.missing
    BY DEF Scans
  <2>2. PICK more \in Seq(STRING) : more = Append(was, id) /\ Len(more) = Len(was) + 1
    BY OneMoreEntry
  <2>3. PICK k \in Nat : k = Len(was)
    OBVIOUS
  <2>4. Len(more) = k + 1
    BY <2>2, <2>3
  <2>5. more # <<>>
    BY <2>4
  <2> QED
    BY <2>1, <2>2, <2>5
<1>6. PICK e : e = Examine(opts, s, c)
  OBVIOUS
<1>7. e = IF s.end # "" THEN s
          ELSE IF c.reads = "unreadable" THEN [s EXCEPT !.end = "UPDATE_CONFIGURATION"]
          ELSE IF c.reads = "refused" THEN [s EXCEPT !.end = "SETTING_INPUTS", !.failed = TRUE]
          ELSE IF Asks(opts, c) /\ c.service = "transient" /\ ~opts.skipInfra THEN read
          ELSE IF Asks(opts, c) /\ c.service # "ok"
          THEN [read EXCEPT !.end = "RESOLVE_REFERENCES", !.failed = TRUE]
          ELSE IF c.known /\ c.missing THEN [read EXCEPT !.missing = Append(@, c.id)]
          ELSE read
  BY <1>1, <1>2, <1>6, Zenon DEF Examine, Asks
<1>8. CASE s.end # ""
  BY <1>6, <1>7, <1>8 DEF IsExamined
<1>9. CASE s.end = "" /\ c.reads = "unreadable"
  <2>1. e = [s EXCEPT !.end = "UPDATE_CONFIGURATION"]
    BY <1>7, <1>9
  <2>2. e \in Scans /\ e.end # ""
    BY <2>1 DEF Scans, ScanEnds
  <2> QED
    BY <1>6, <1>9, <2>2 DEF IsExamined
<1>10. CASE s.end = "" /\ c.reads = "refused"
  <2>1. e = [s EXCEPT !.end = "SETTING_INPUTS", !.failed = TRUE]
    BY <1>7, <1>10
  <2>2. e \in Scans /\ e.end # ""
    BY <2>1 DEF Scans, ScanEnds
  <2> QED
    BY <1>6, <1>10, <2>2 DEF IsExamined
<1>11. CASE /\ s.end = "" /\ c.reads \notin {"unreadable", "refused"}
            /\ Asks(opts, c) /\ c.service = "transient" /\ ~opts.skipInfra
  <2>1. e = read
    BY <1>7, <1>11
  <2> QED
    BY <1>1, <1>3, <1>6, <1>11, <2>1 DEF IsExamined, SkippedError
<1>12. CASE /\ s.end = "" /\ c.reads \notin {"unreadable", "refused"}
            /\ Asks(opts, c) /\ ~(c.service = "transient" /\ ~opts.skipInfra) /\ c.service # "ok"
  <2>1. e = [read EXCEPT !.end = "RESOLVE_REFERENCES", !.failed = TRUE]
    BY <1>7, <1>12
  <2>2. e \in Scans /\ e.end # ""
    BY <1>3, <2>1 DEF Scans, ScanEnds
  <2> QED
    BY <1>6, <1>12, <2>2 DEF IsExamined
<1>13. CASE /\ s.end = "" /\ c.reads \notin {"unreadable", "refused"}
            /\ ~SkippedError(opts, c) /\ c.known /\ c.missing
  <2>1. e = [read EXCEPT !.missing = Append(@, c.id)]
    BY <1>7, <1>13 DEF SkippedError
  <2>2. e = [read EXCEPT !.missing = missing]
    BY <1>3, <1>4, <1>5, <2>1
  <2>3. /\ e \in Scans /\ e.ready = read.ready /\ e.waiting = waiting /\ e.awaiting = awaiting
        /\ e.missing = missing /\ e.end = s.end
    BY <1>3, <2>2 DEF Scans
  <2> QED
    BY <1>1, <1>3, <1>5, <1>6, <1>13, <2>3 DEF IsExamined
<1>14. CASE /\ s.end = "" /\ c.reads \notin {"unreadable", "refused"}
            /\ ~SkippedError(opts, c) /\ ~(c.known /\ c.missing)
  <2>1. e = read
    BY <1>7, <1>14 DEF SkippedError
  <2> QED
    BY <1>1, <1>3, <1>6, <1>14, <2>1 DEF IsExamined
<1> QED
  BY <1>8, <1>9, <1>10, <1>11, <1>12, <1>13, <1>14 DEF SkippedError

(* What the definition of the verdict says.                                *)
GoesOn(opts, configs, valid, scan) ==
    /\ scan.end = "" /\ (opts.skipDependencies \/ valid) /\ scan.missing = <<>>
    /\ WaitingInputIssues(opts, scan, configs) = {}
ScansAre(opts, configs, valid, scans) ==
    /\ scans[0] = NothingYet
    /\ \A i \in 1 .. Len(configs) : scans[i] = Examine(opts, scans[i - 1], configs[i])
    /\ Verdict(opts, configs, valid).end = "" => GoesOn(opts, configs, valid, scans[Len(configs)])

LEMMA ScansDefined ==
  ASSUME NEW opts \in VerdictOptions, NEW configs \in Seq(Configuration), NEW valid
  PROVE  \E scans \in [0 .. Len(configs) -> Scans] : ScansAre(opts, configs, valid, scans)
<1>0. PICK n \in Nat : n = Len(configs)
  OBVIOUS
<1> DEFINE V == Scans
           base == NothingYet
           step == [i \in 1 .. n |-> [v \in V |-> Examine(opts, v, configs[i])]]
           Is(f) == f = [i \in 0 .. n |-> IF i = 0 THEN base ELSE Examine(opts, f[i - 1], configs[i])]
<1>1. Verdict(opts, configs, valid).end = "" => GoesOn(opts, configs, valid, (CHOOSE f : Is(f))[n])
  <2>0. PICK scan : scan = (CHOOSE f : Is(f))[n]
    OBVIOUS
  <2>1. Verdict(opts, configs, valid)
           = IF scan.end # "" THEN [end |-> scan.end, failed |-> scan.failed]
             ELSE IF ~opts.skipDependencies /\ ~valid
             THEN [end |-> "DEPENDENCY_VALIDATION", failed |-> scan.failed]
             ELSE IF scan.missing # <<>> THEN [end |-> "MISSING_INPUTS", failed |-> TRUE]
             ELSE IF WaitingInputIssues(opts, scan, configs) # {}
             THEN [end |-> "INPUT_VALIDATION", failed |-> TRUE]
             ELSE [end |-> "", failed |-> scan.failed]
    BY <1>0, <2>0, Zenon DEF Verdict
  <2> HIDE DEF Is
  <2>2. PICK v : v = Verdict(opts, configs, valid)
    OBVIOUS
  <2>3. ASSUME scan.end # "" PROVE v.end # ""
    <3>1. v = [end |-> scan.end, failed |-> scan.failed]
      BY <2>1, <2>2, <2>3, Zenon
    <3> QED
      BY <2>3, <3>1
  <2>4. ASSUME scan.end = "", ~(opts.skipDependencies \/ valid) PROVE v.end # ""
    <3>1. v = [end |-> "DEPENDENCY_VALIDATION", failed |-> scan.failed]
      BY <2>1, <2>2, <2>4, Zenon
    <3> QED
      BY <3>1
  <2>5. ASSUME scan.end = "", opts.skipDependencies \/ valid, scan.missing # <<>> PROVE v.end # ""
    <3>1. v = [end |-> "MISSING_INPUTS", failed |-> TRUE]
      BY <2>1, <2>2, <2>5, Zenon
    <3> QED
      BY <3>1
  <2>6. ASSUME scan.end = "", opts.skipDependencies \/ valid, scan.missing = <<>>,
               WaitingInputIssues(opts, scan, configs) # {}
        PROVE  v.end # ""
    <3>1. v = [end |-> "INPUT_VALIDATION", failed |-> TRUE]
      BY <2>1, <2>2, <2>6, Zenon
    <3> QED
      BY <3>1
  <2>7. ASSUME v.end = "" PROVE GoesOn(opts, configs, valid, scan)
    BY <2>3, <2>4, <2>5, <2>6, <2>7, Zenon DEF GoesOn
  <2> QED
    BY <2>0, <2>2, <2>7
<1>2. base \in V
  <2>1. <<>> \in Seq(Configuration) /\ <<>> \in Seq(STRING)
    OBVIOUS
  <2> QED
    BY <2>1 DEF NothingYet, Scans, ScanEnds
<1>3. ASSUME NEW i \in 1 .. n, NEW v \in V PROVE Examine(opts, v, configs[i]) \in V
  <2>1. configs[i] \in Configuration
    BY <1>0
  <2> QED
    BY <2>1, ExamineIs
<1> HIDE DEF V, base
<1>4. step \in [1 .. n -> [V -> V]]
  BY <1>3
<1>5. \A i \in 1 .. n : \A v \in V : step[i][v] = Examine(opts, v, configs[i])
  OBVIOUS
<1> HIDE DEF step
<1>6. PICK g \in [0 .. n -> V] :
         /\ g[0] = base
         /\ \A i \in 1 .. n : g[i] = step[i][g[i - 1]]
         /\ \A f : Computed(f, n, V, base, step) => f = g
  BY <1>2, <1>4, LoopDefined
<1>7. ASSUME NEW i \in 1 .. n PROVE g[i] = Examine(opts, g[i - 1], configs[i])
  <2>1. g[i - 1] \in V
    BY <1>6
  <2> QED
    BY <1>5, <1>6, <2>1
<1>8. Is(g)
  <2>1. \A i \in 0 .. n : g[i] = IF i = 0 THEN base ELSE Examine(opts, g[i - 1], configs[i])
    BY <1>6, <1>7
  <2> QED
    BY <2>1
<1>9. ASSUME NEW f, Is(f) PROVE f = g
  <2>1. f = [i \in 0 .. n |-> IF i = 0 THEN base ELSE Examine(opts, f[i - 1], configs[i])]
    BY <1>9, Zenon
  <2> HIDE DEF Is
  <2>2. f[0] = base
    BY <2>1
  <2>3. \A i \in 1 .. n : f[i] = Examine(opts, f[i - 1], configs[i])
    BY <2>1
  <2>4. Computed(f, n, V, base, step)
    BY <1>5, <2>1, <2>2, <2>3 DEF Computed
  <2> QED
    BY <1>6, <2>4
<1>10. (CHOOSE f : Is(f)) = g
  <2> HIDE DEF Is
  <2> QED
    BY <1>8, <1>9
<1> HIDE DEF Is
<1>11. ScansAre(opts, configs, valid, g)
  BY <1>0, <1>1, <1>6, <1>7, <1>10 DEF ScansAre, base
<1> QED
  BY <1>0, <1>6, <1>11 DEF V

(* What is known of the first configurations while none has ended the test. *)
ScanRight(opts, configs, s, i) ==
    s.end = "" =>
       /\ \A k \in 1 .. i :
             /\ configs[k].reads \notin {"unreadable", "refused"}
             /\ SkippedError(opts, configs[k]) => ~opts.skipInfra /\ configs[k].service = "transient"
             /\ configs[k].known /\ configs[k].missing /\ ~SkippedError(opts, configs[k])
                => s.missing # <<>>
             /\ configs[k].state = "awaiting_input" => s.waiting # <<>>
       /\ s.ready => \E k \in 1 .. i : configs[k].state = "awaiting_validation"
       /\ \A c \in ToSet(s.awaiting) :
             c.state = "awaiting_prerequisite" /\ \E k \in 1 .. i : c = configs[k]

LEMMA ExamineIsRight ==
  ASSUME NEW opts \in VerdictOptions, NEW configs \in Seq(Configuration),
         NEW n \in Nat, n = Len(configs), NEW i \in 0 .. n - 1,
         NEW s \in Scans, ScanRight(opts, configs, s, i)
  PROVE  ScanRight(opts, configs, Examine(opts, s, configs[i + 1]), i + 1)
<1>1. i + 1 \in 1 .. n /\ 1 .. i + 1 = (1 .. i) \cup {i + 1}
  OBVIOUS
<1>2. PICK c \in Configuration : c = configs[i + 1]
  BY <1>1
<1>3. PICK e \in Scans : e = Examine(opts, s, c) /\ IsExamined(opts, s, c, e)
  BY ExamineIs
<1> SUFFICES ASSUME e.end = "" PROVE ScanRight(opts, configs, e, i + 1)
  BY <1>2, <1>3 DEF ScanRight
<1>4. /\ s.end = "" /\ c.reads \notin {"unreadable", "refused"}
      /\ e.ready = (s.ready \/ c.state = "awaiting_validation")
      /\ e.waiting = InState(c, "awaiting_input", s.waiting)
      /\ e.awaiting = InState(c, "awaiting_prerequisite", s.awaiting)
      /\ SkippedError(opts, c) => ~opts.skipInfra /\ c.service = "transient"
      /\ c.known /\ c.missing /\ ~SkippedError(opts, c) => e.missing # <<>>
      /\ s.missing # <<>> => e.missing # <<>>
  BY <1>3, Zenon DEF IsExamined
<1>5. PICK waiting \in Seq(Configuration), awaiting \in Seq(Configuration) :
         waiting = s.waiting /\ awaiting = s.awaiting
  BY DEF Scans
<1>6. /\ waiting # <<>> => e.waiting # <<>>
      /\ c.state = "awaiting_input" => e.waiting # <<>>
  <2>1. PICK code : code = "awaiting_input"
    OBVIOUS
  <2>2. PICK now : now = InState(c, code, waiting)
    OBVIOUS
  <2>3. (waiting # <<>> => now # <<>>) /\ (c.state = code => now # <<>>)
    BY <2>2, InStateIsSeq
  <2>4. e.waiting = now
    BY <1>4, <1>5, <2>1, <2>2, Zenon
  <2> QED
    BY <2>1, <2>3, <2>4, Zenon
<1>7. \A d \in ToSet(e.awaiting) :
         d \in ToSet(awaiting) \/ (d = c /\ c.state = "awaiting_prerequisite")
  <2>1. PICK code : code = "awaiting_prerequisite"
    OBVIOUS
  <2>2. \A d \in ToSet(InState(c, code, awaiting)) :
           d \in ToSet(awaiting) \/ (d = c /\ c.state = code)
    BY InStateIsSeq
  <2>3. e.awaiting = InState(c, code, awaiting)
    BY <1>4, <1>5, <2>1, Zenon
  <2> QED
    BY <2>1, <2>2, <2>3, Zenon
<1>8. ASSUME NEW k \in 1 .. i + 1
      PROVE  /\ configs[k].reads \notin {"unreadable", "refused"}
             /\ SkippedError(opts, configs[k]) => ~opts.skipInfra /\ configs[k].service = "transient"
             /\ configs[k].known /\ configs[k].missing /\ ~SkippedError(opts, configs[k])
                => e.missing # <<>>
             /\ configs[k].state = "awaiting_input" => e.waiting # <<>>
  <2>1. CASE k \in 1 .. i
    <3>1. /\ configs[k].reads \notin {"unreadable", "refused"}
          /\ SkippedError(opts, configs[k]) => ~opts.skipInfra /\ configs[k].service = "transient"
          /\ configs[k].known /\ configs[k].missing /\ ~SkippedError(opts, configs[k])
             => s.missing # <<>>
          /\ configs[k].state = "awaiting_input" => s.waiting # <<>>
      BY <1>4, <2>1, Zenon DEF ScanRight
    <3> QED
      BY <1>4, <1>5, <1>6, <3>1, Zenon
  <2>2. CASE k = i + 1
    BY <1>2, <1>4, <1>6, <2>2, Zenon
  <2> QED
    BY <1>1, <2>1, <2>2
<1>9. e.ready => \E k \in 1 .. i + 1 : configs[k].state = "awaiting_validation"
  <2>1. CASE s.ready
    <3>1. PICK k \in 1 .. i : configs[k].state = "awaiting_validation"
      BY <1>4, <2>1, Zenon DEF ScanRight
    <3> QED
      BY <1>1, <3>1
  <2>2. CASE c.state = "awaiting_validation"
    BY <1>1, <1>2, <2>2
  <2> QED
    BY <1>4, <2>1, <2>2, Zenon
<1>10. ASSUME NEW d \in ToSet(e.awaiting)
       PROVE  d.state = "awaiting_prerequisite" /\ \E k \in 1 .. i + 1 : d = configs[k]
  <2>1. CASE d \in ToSet(awaiting)
    <3>1. d.state = "awaiting_prerequisite" /\ \E k \in 1 .. i : d = configs[k]
      BY <1>4, <1>5, <2>1, Zenon DEF ScanRight
    <3> QED
      BY <1>1, <3>1
  <2>2. CASE d = c /\ c.state = "awaiting_prerequisite"
    BY <1>1, <1>2, <2>2
  <2> QED
    BY <1>7, <1>10, <2>1, <2>2
<1> QED
  BY <1>8, <1>9, <1>10, Zenon DEF ScanRight

(* The circles that are looked for among those that wait are theirs.       *)
LEMMA WaitingCircle ==
  ASSUME NEW awaiting \in Seq(Configuration),
         \A c, d \in ToSet(awaiting) : c.id = d.id => c = d,
         CircularDependencies(awaiting) # <<>>
  PROVE  \E some \in SUBSET ToSet(awaiting) :
            some # {} /\ \A c \in some : \E d \in some : d.id \in ToSet(c.refs)
<1>1. PICK n \in Nat : n = Len(awaiting) /\ DOMAIN awaiting = 1 .. n
  OBVIOUS
<1>2. \A i \in 1 .. n : awaiting[i] \in ToSet(awaiting) /\ awaiting[i].id \in STRING
  <2>1. \A i \in 1 .. n : awaiting[i] \in Configuration
    BY <1>1
  <2>2. \A c \in Configuration : c.id \in STRING
    BY DEF Configuration
  <2> QED
    BY <1>1, <2>1, <2>2 DEF ToSet
<1>3. PICK I : I = Ids(awaiting)
  OBVIOUS
<1>4. I = {awaiting[i].id : i \in 1 .. n}
  BY <1>1, <1>3 DEF Ids
<1>5. IsFiniteSet(I)
  <2>1. IsFiniteSet(1 .. n)
    BY FS_Interval
  <2> DEFINE f == [i \in 1 .. n |-> awaiting[i].id]
  <2>2. f \in [1 .. n -> I] /\ \A x \in I : \E i \in 1 .. n : f[i] = x
    BY <1>4
  <2> HIDE DEF f
  <2>3. f \in Surjection(1 .. n, I)
    BY <2>2 DEF Surjection
  <2> QED
    BY <2>1, <2>3, FS_Surjection
<1>6. ASSUME NEW c \in ToSet(awaiting)
      PROVE  /\ c.id \in I /\ c.refs \in Seq(STRING)
             /\ (CHOOSE d \in ToSet(awaiting) : d.id = c.id) = c
  <2>1. c \in Configuration /\ \E i \in 1 .. n : c = awaiting[i]
    BY <1>1 DEF ToSet
  <2>2. \A d \in ToSet(awaiting) : d.id = c.id <=> d = c
    OBVIOUS
  <2> QED
    BY <1>4, <2>1, <2>2 DEF Configuration
<1>7. ASSUME NEW c \in ToSet(awaiting)
      PROVE  /\ WaitsFor(awaiting)[c.id] \in Seq(I)
             /\ ToSet(WaitsFor(awaiting)[c.id]) = ToSet(c.refs) \cap I
  <2>1. PICK refs \in Seq(STRING) : refs = c.refs
    BY <1>6
  <2>2. PICK list : list = NotIn(refs, ToSet(refs) \ I)
    OBVIOUS
  <2>3. list \in Seq(STRING) /\ ToSet(list) = ToSet(refs) \ (ToSet(refs) \ I)
    BY <2>2, NotInIsRight
  <2>4. ToSet(list) = ToSet(refs) \cap I
    BY <2>3
  <2>5. list \in Seq(I)
    <3>1. \A i \in DOMAIN list : list[i] \in ToSet(list)
      BY <2>3 DEF ToSet
    <3>2. \A i \in DOMAIN list : list[i] \in I
      BY <2>4, <3>1
    <3> QED
      BY <2>3, <3>2, SeqOfItsEntries
  <2>6. WaitsFor(awaiting)[c.id] = Among(c.refs, Ids(awaiting))
    BY <1>3, <1>6 DEF WaitsFor
  <2>7. WaitsFor(awaiting)[c.id] = list
    BY <1>3, <2>1, <2>2, <2>6 DEF Among
  <2> QED
    BY <2>1, <2>4, <2>5, <2>7
<1>8. PICK graph : graph = WaitsFor(awaiting)
  OBVIOUS
<1>9. DOMAIN graph = I /\ graph = [id \in I |-> graph[id]]
  BY <1>3, <1>8 DEF WaitsFor
<1>10. \A id \in I : \E c \in ToSet(awaiting) : c.id = id
  BY <1>2, <1>4
<1>11. IsGraph(graph)
  <2>1. \A id \in I : graph[id] \in Seq(I)
    BY <1>7, <1>8, <1>10
  <2> QED
    BY <1>5, <1>9, <2>1 DEF IsGraph
<1>12. PICK roots \in Seq(I) : roots = [i \in 1 .. n |-> awaiting[i].id] /\ DOMAIN roots = 1 .. n
  <2> DEFINE r == [i \in 1 .. n |-> awaiting[i].id]
  <2>1. r \in [1 .. n -> I]
    BY <1>4
  <2> HIDE DEF r
  <2>2. r \in Seq(I) /\ DOMAIN r = 1 .. n
    BY <2>1, SeqFromFunction
  <2> QED
    BY <2>2 DEF r
<1>13. ToSet(roots) = I
  BY <1>4, <1>12 DEF ToSet
<1>14. DetectCircularDependencies(graph, roots) # <<>>
  BY <1>1, <1>8, <1>12 DEF CircularDependencies
<1>15. CyclesRight(graph, DetectCircularDependencies(graph, roots))
  BY <1>9, <1>11, <1>13, CyclesAreRight
<1>16. Circular(graph)
  BY <1>14, <1>15 DEF CyclesRight
<1>17. PICK ids \in SUBSET I : ids # {} /\ \A x \in ids : ToSet(graph[x]) \cap ids # {}
  BY <1>9, <1>16 DEF Circular
<1> DEFINE some == {c \in ToSet(awaiting) : c.id \in ids}
<1>18. some # {}
  BY <1>10, <1>17
<1>19. ASSUME NEW c \in some PROVE \E d \in some : d.id \in ToSet(c.refs)
  <2>1. PICK y \in ids : y \in ToSet(graph[c.id])
    BY <1>17
  <2>2. y \in ToSet(c.refs) /\ y \in I
    BY <1>7, <1>8, <2>1
  <2> QED
    BY <1>10, <2>1, <2>2
<1>20. some \in SUBSET ToSet(awaiting)
  OBVIOUS
<1> HIDE DEF some
<1> QED
  BY <1>18, <1>19, <1>20

(* A test goes on to deploy only with configurations that can be: what     *)
(* runAddonTest of testaddons/tests.go decides after its look at all of    *)
(* them, for every project.                                                *)
THEOREM VerdictIsRight ==
  ASSUME NEW opts \in VerdictOptions, NEW configs \in Seq(Configuration), OneOfEachId(configs),
         NEW valid \in BOOLEAN
  PROVE  VerdictRight(opts, configs, valid, Verdict(opts, configs, valid))
<1>1. PICK n \in Nat : n = Len(configs) /\ DOMAIN configs = 1 .. n
  OBVIOUS
<1>01. \A k \in 1 .. n : configs[k] \in Configuration
  BY <1>1
<1>2. PICK scans \in [0 .. n -> Scans] : ScansAre(opts, configs, valid, scans)
  BY <1>1, ScansDefined
<1> DEFINE T == {i \in 0 .. n : ScanRight(opts, configs, scans[i], i)}
<1>3. 0 \in T
  <2>1. scans[0] = NothingYet
    BY <1>2 DEF ScansAre
  <2>2. NothingYet.ready = FALSE /\ ToSet(NothingYet.awaiting) = {}
    BY DEF NothingYet, ToSet
  <2>3. 1 .. 0 = {}
    OBVIOUS
  <2>4. ScanRight(opts, configs, NothingYet, 0)
    BY <2>2, <2>3, Zenon DEF ScanRight
  <2> QED
    BY <2>1, <2>4
<1>4. ASSUME NEW i \in 0 .. n - 1, i \in T PROVE i + 1 \in T
  <2>1. i \in 0 .. n /\ i + 1 \in 0 .. n /\ i + 1 \in 1 .. n /\ (i + 1) - 1 = i
    OBVIOUS
  <2>2. PICK s \in Scans : s = scans[i]
    BY <2>1
  <2>3. scans[i + 1] = Examine(opts, s, configs[i + 1])
    BY <1>1, <1>2, <2>1, <2>2 DEF ScansAre
  <2>4. ScanRight(opts, configs, scans[i + 1], i + 1)
    BY <1>1, <1>4, <2>2, <2>3, ExamineIsRight
  <2> QED
    BY <2>1, <2>4
<1>5. n \in T
  <2> HIDE DEF T
  <2>1. 0 .. n \subseteq T
    BY <1>3, <1>4, UpToN
  <2> QED
    BY <2>1
<1>6. PICK s \in Scans : s = scans[n] /\ ScanRight(opts, configs, s, n)
  BY <1>5
<1> HIDE DEF T
<1> SUFFICES ASSUME Verdict(opts, configs, valid).end = ""
             PROVE  VerdictRight(opts, configs, valid, Verdict(opts, configs, valid))
  BY Zenon DEF VerdictRight
<1>7. GoesOn(opts, configs, valid, s)
  BY <1>1, <1>2, <1>6 DEF ScansAre
<1>8. /\ \A k \in 1 .. n :
            /\ configs[k].reads \notin {"unreadable", "refused"}
            /\ SkippedError(opts, configs[k]) => ~opts.skipInfra /\ configs[k].service = "transient"
            /\ configs[k].known /\ configs[k].missing /\ ~SkippedError(opts, configs[k])
               => s.missing # <<>>
            /\ configs[k].state = "awaiting_input" => s.waiting # <<>>
      /\ s.ready => \E k \in 1 .. n : configs[k].state = "awaiting_validation"
      /\ \A c \in ToSet(s.awaiting) :
            c.state = "awaiting_prerequisite" /\ \E k \in 1 .. n : c = configs[k]
  BY <1>6, <1>7, Zenon DEF ScanRight, GoesOn
<1>9. s.missing = <<>> /\ WaitingInputIssues(opts, s, configs) = {}
  BY <1>7 DEF GoesOn
<1>10. PICK waiting \in Seq(Configuration), awaiting \in Seq(Configuration) :
          waiting = s.waiting /\ awaiting = s.awaiting
  BY DEF Scans
<1>11. waiting = <<>>
  <2>1. {"waiting" : c \in ToSet(waiting)} \subseteq WaitingInputIssues(opts, s, configs)
    BY <1>10, Zenon DEF WaitingInputIssues
  <2>2. ToSet(waiting) = {}
    BY <1>9, <2>1
  <2> QED
    BY <2>2, NothingInIt
<1>12. s.ready \/ (CircularDependencies(awaiting) # <<>> /\ ~opts.strict)
  <2> SUFFICES ASSUME ~s.ready PROVE CircularDependencies(awaiting) # <<>> /\ ~opts.strict
    OBVIOUS
  <2>1. PICK cycles : cycles = CircularDependencies(awaiting)
    OBVIOUS
  <2>2. PICK unresolved : unresolved = FindUnresolvedReferences(awaiting, configs)
    OBVIOUS
  <2>3. WaitingInputIssues(opts, s, configs)
           = {"waiting" : c \in ToSet(waiting)} \cup
             (IF cycles # <<>> THEN (IF opts.strict THEN {"circular"} ELSE {})
              ELSE IF unresolved # <<>> THEN {"unresolved"}
              ELSE IF awaiting # <<>> THEN {"prerequisite"} ELSE {"none ready"})
    BY <1>10, <2>1, <2>2 DEF WaitingInputIssues
  <2> QED
    BY <1>9, <2>1, <2>3
<1>13. ASSUME NEW c \in ToSet(awaiting), NEW d \in ToSet(awaiting), c.id = d.id PROVE c = d
  <2>1. PICK i \in 1 .. n : c = configs[i]
    BY <1>8, <1>10, Zenon
  <2>2. PICK k \in 1 .. n : d = configs[k]
    BY <1>8, <1>10, Zenon
  <2>3. i = k
    BY <1>1, <1>13, <2>1, <2>2 DEF OneOfEachId
  <2> QED
    BY <2>1, <2>2, <2>3
<1>14. ASSUME NEW c \in ToSet(configs)
       PROVE  /\ c.reads \in {"ok", "not updated"} /\ c.state # "awaiting_input"
              /\ c.known /\ c.missing => SkippedError(opts, c)
              /\ SkippedError(opts, c) => ~opts.skipInfra /\ c.service = "transient"
  <2>1. PICK k \in 1 .. n : c = configs[k]
    BY <1>1 DEF ToSet
  <2>2. c \in Configuration
    BY <1>01, <2>1
  <2>3. c.reads \in {"ok", "not updated", "unreadable", "refused"}
    BY <2>2 DEF Configuration
  <2>4. c.state # "awaiting_input"
    BY <1>8, <1>10, <1>11, <2>1, Zenon
  <2>5. /\ c.known /\ c.missing => SkippedError(opts, c)
        /\ SkippedError(opts, c) => ~opts.skipInfra /\ c.service = "transient"
    BY <1>8, <1>9, <2>1, Zenon
  <2>6. c.reads \notin {"unreadable", "refused"}
    BY <1>8, <2>1, Zenon
  <2> QED
    BY <2>3, <2>4, <2>5, <2>6, Zenon
<1> DEFINE those == {c \in ToSet(configs) : c.state = "awaiting_prerequisite"}
           Circle(some) == some # {} /\ \A c \in some : \E d \in some : d.id \in ToSet(c.refs)
<1>15. ASSUME ~s.ready PROVE ~opts.strict /\ \E some \in SUBSET those : Circle(some)
  <2>1. ~opts.strict /\ CircularDependencies(awaiting) # <<>>
    BY <1>12, <1>15
  <2>2. PICK some \in SUBSET ToSet(awaiting) : Circle(some)
    BY <1>13, <2>1, WaitingCircle
  <2>3. ASSUME NEW c \in ToSet(awaiting) PROVE c \in those
    <3>1. PICK k \in 1 .. n : c = configs[k]
      BY <1>8, <1>10, Zenon
    <3>2. c \in ToSet(configs)
      BY <1>1, <3>1 DEF ToSet
    <3>3. c.state = "awaiting_prerequisite"
      BY <1>8, <1>10, Zenon
    <3> QED
      BY <3>2, <3>3
  <2>4. some \in SUBSET those
    BY <2>3
  <2> HIDE DEF those, Circle
  <2> QED
    BY <2>1, <2>2, <2>4
<1>16. ASSUME s.ready PROVE \E c \in ToSet(configs) : c.state = "awaiting_validation"
  <2>1. PICK k \in 1 .. n : configs[k].state = "awaiting_validation"
    BY <1>8, <1>16, Zenon
  <2> QED
    BY <1>1, <2>1 DEF ToSet
<1>17. opts.skipDependencies \/ valid
  BY <1>7, Zenon DEF GoesOn
<1> QED
  BY <1>14, <1>15, <1>16, <1>17, Zenon DEF VerdictRight, SkippedError, Asks

-----------------------------------------------------------------------------
(* What the catalog says of a dependency, entry by entry.                  *)
SaidsAre(listed, name, said) ==
    /\ said[0] = ""
    /\ \A i \in 1 .. Len(listed) : said[i] = SaidOf(name, said[i - 1], listed[i])
    /\ RequiredInCatalog(listed, name) <=> said[Len(listed)] = "no"

LEMMA SaidsDefined ==
  ASSUME NEW listed \in Seq(ListedEntry), NEW name
  PROVE  \E said \in [0 .. Len(listed) -> YesNo] : SaidsAre(listed, name, said)
<1>0. PICK n \in Nat : n = Len(listed)
  OBVIOUS
<1> DEFINE V == YesNo
           base == ""
           step == [i \in 1 .. n |-> [v \in V |-> SaidOf(name, v, listed[i])]]
           Is(f) == f = [i \in 0 .. n |-> IF i = 0 THEN base ELSE SaidOf(name, f[i - 1], listed[i])]
<1>1. RequiredInCatalog(listed, name) <=> (CHOOSE f : Is(f))[n] = "no"
  BY <1>0, Zenon DEF RequiredInCatalog
<1>2. base \in V
  BY DEF YesNo
<1>3. ASSUME NEW i \in 1 .. n, NEW v \in V PROVE SaidOf(name, v, listed[i]) \in V
  <2>1. PICK e \in ListedEntry : e = listed[i]
    BY <1>0
  <2>2. e.optional \in YesNo /\ e.onByDefault \in YesNo
    BY <2>1 DEF ListedEntry
  <2>3. SaidOf(name, v, e) \in YesNo
    BY <2>2 DEF SaidOf, YesNo
  <2> QED
    BY <2>1, <2>3
<1> HIDE DEF V, base
<1>4. step \in [1 .. n -> [V -> V]]
  BY <1>3
<1>5. \A i \in 1 .. n : \A v \in V : step[i][v] = SaidOf(name, v, listed[i])
  OBVIOUS
<1> HIDE DEF step
<1>6. PICK g \in [0 .. n -> V] :
         /\ g[0] = base
         /\ \A i \in 1 .. n : g[i] = step[i][g[i - 1]]
         /\ \A f : Computed(f, n, V, base, step) => f = g
  BY <1>2, <1>4, LoopDefined
<1>7. ASSUME NEW i \in 1 .. n PROVE g[i] = SaidOf(name, g[i - 1], listed[i])
  <2>1. g[i - 1] \in V
    BY <1>6
  <2> QED
    BY <1>5, <1>6, <2>1
<1>8. Is(g)
  <2>1. \A i \in 0 .. n : g[i] = IF i = 0 THEN base ELSE SaidOf(name, g[i - 1], listed[i])
    BY <1>6, <1>7
  <2> QED
    BY <2>1
<1>9. ASSUME NEW f, Is(f) PROVE f = g
  <2>1. f = [i \in 0 .. n |-> IF i = 0 THEN base ELSE SaidOf(name, f[i - 1], listed[i])]
    BY <1>9, Zenon
  <2> HIDE DEF Is
  <2>2. f[0] = base
    BY <2>1
  <2>3. \A i \in 1 .. n : f[i] = SaidOf(name, f[i - 1], listed[i])
    BY <2>1
  <2>4. Computed(f, n, V, base, step)
    BY <1>5, <2>1, <2>2, <2>3 DEF Computed
  <2> QED
    BY <1>6, <2>4
<1>10. (CHOOSE f : Is(f)) = g
  <2> HIDE DEF Is
  <2> QED
    BY <1>8, <1>9
<1> HIDE DEF Is
<1>11. SaidsAre(listed, name, g)
  BY <1>0, <1>1, <1>6, <1>7, <1>10 DEF SaidsAre, base
<1> QED
  BY <1>0, <1>6, <1>11 DEF V

(* After some entries nothing is said as long as those of the name are     *)
(* silent, and "no" just if one of them requires the dependency.           *)
SaidAfter(listed, name, said, i) ==
    /\ said = "" <=> \A k \in 1 .. i : listed[k].name = name => Silent(listed[k])
    /\ said = "no" <=> \E k \in 1 .. i :
                          /\ listed[k].name = name /\ listed[k].optional = "no"
                          /\ \A j \in 1 .. k - 1 : listed[j].name = name => Silent(listed[j])

LEMMA OneMoreSaid ==
  ASSUME NEW listed \in Seq(ListedEntry), NEW name, NEW i \in 0 .. Len(listed) - 1,
         NEW said \in YesNo, SaidAfter(listed, name, said, i)
  PROVE  SaidAfter(listed, name, SaidOf(name, said, listed[i + 1]), i + 1)
<1>1. i \in Nat /\ (1 .. i + 1) = (1 .. i) \cup {i + 1} /\ i + 1 \notin 1 .. i /\ (i + 1) - 1 = i
  OBVIOUS
<1>2. PICK e \in ListedEntry : e = listed[i + 1]
  OBVIOUS
<1>3. e.optional \in YesNo /\ e.onByDefault \in YesNo
  BY <1>2 DEF ListedEntry
<1>4. PICK next : next = SaidOf(name, said, e)
  OBVIOUS
<1> DEFINE Requires(k) == /\ listed[k].name = name /\ listed[k].optional = "no"
                          /\ \A j \in 1 .. k - 1 : listed[j].name = name => Silent(listed[j])
           Quiet(k) == listed[k].name = name => Silent(listed[k])
<1>5. said = "" <=> \A k \in 1 .. i : Quiet(k)
  BY Zenon DEF SaidAfter
<1>6. said = "no" <=> \E k \in 1 .. i : Requires(k)
  BY Zenon DEF SaidAfter
<1>7. Quiet(i + 1) <=> e.name # name \/ (e.optional = "" /\ e.onByDefault = "")
  BY <1>2 DEF Silent
<1>8. Requires(i + 1) <=> e.name = name /\ e.optional = "no" /\ said = ""
  BY <1>1, <1>2, <1>5
<1> HIDE DEF Requires, Quiet
<1>9. next = "" <=> said = "" /\ Quiet(i + 1)
  BY <1>3, <1>4, <1>7 DEF SaidOf, YesNo
<1>10. next = "no" <=> said = "no" \/ Requires(i + 1)
  BY <1>3, <1>4, <1>8 DEF SaidOf, YesNo
<1>11. next = "" <=> \A k \in 1 .. i + 1 : Quiet(k)
  BY <1>1, <1>5, <1>9
<1>12. next = "no" <=> \E k \in 1 .. i + 1 : Requires(k)
  BY <1>1, <1>6, <1>10
<1> QED
  BY <1>2, <1>4, <1>11, <1>12 DEF SaidAfter, Quiet, Requires

(* The loop over a version's entries finds whether it requires a           *)
(* dependency.                                                             *)
LEMMA CatalogSaysRequired ==
  ASSUME NEW listed \in Seq(ListedEntry), NEW name
  PROVE  RequiredInCatalog(listed, name) <=> SaysRequired(listed, name)
<1>1. PICK n \in Nat : n = Len(listed) /\ DOMAIN listed = 1 .. n
  OBVIOUS
<1>2. PICK said \in [0 .. n -> YesNo] : SaidsAre(listed, name, said)
  BY <1>1, SaidsDefined
<1> DEFINE T == {i \in 0 .. n : SaidAfter(listed, name, said[i], i)}
<1>3. 0 \in T
  <2>1. ASSUME NEW s, s = "" PROVE SaidAfter(listed, name, s, 0)
    <3>1. "" # "no"
      OBVIOUS
    <3>2. 1 .. 0 = {}
      OBVIOUS
    <3> QED
      BY <2>1, <3>1, <3>2, Zenon DEF SaidAfter
  <2>2. said[0] = ""
    BY <1>2 DEF SaidsAre
  <2>3. SaidAfter(listed, name, said[0], 0)
    BY <2>1, <2>2, Zenon
  <2>4. 0 \in 0 .. n
    OBVIOUS
  <2> QED
    BY <2>3, <2>4, Zenon
<1>4. ASSUME NEW i \in 0 .. n - 1, i \in T PROVE i + 1 \in T
  <2>1. i \in 0 .. n /\ i + 1 \in 0 .. n /\ i + 1 \in 1 .. n /\ (i + 1) - 1 = i
    OBVIOUS
  <2>2. said[i + 1] = SaidOf(name, said[i], listed[i + 1])
    BY <1>1, <1>2, <2>1 DEF SaidsAre
  <2>3. SaidAfter(listed, name, said[i + 1], i + 1)
    BY <1>1, <1>4, <2>1, <2>2, OneMoreSaid
  <2> QED
    BY <2>1, <2>3
<1>5. n \in T
  <2> HIDE DEF T
  <2>1. 0 .. n \subseteq T
    BY <1>3, <1>4, UpToN
  <2> QED
    BY <2>1
<1>6. SaidAfter(listed, name, said[n], n)
  BY <1>5
<1> HIDE DEF T
<1> QED
  BY <1>1, <1>2, <1>6 DEF SaidsAre, SaidAfter, SaysRequired

(* The node that is found by a parent's name is the first that has it.     *)
LEMMA ParentIsFound ==
  ASSUME NEW config, IsTree(config), NEW p \in DOMAIN config
  PROVE  \E k \in 1 .. p : /\ FirstOfName(config, p, k)
                           /\ FindAddonConfig(config, config[p].name) = config[k]
<1>1. PICK n \in Nat : n = Len(config) /\ DOMAIN config = 1 .. n
  BY DEF IsTree
<1> DEFINE name == config[p].name
           those == {i \in 1 .. n : config[i].name = name}
           Foremost(i) == config[i].name = name /\ \A k \in 1 .. i - 1 : config[k].name # name
<1>2. those \in SUBSET Nat /\ those # {}
  BY <1>1
<1>3. PICK m \in those : \A k \in those : m <= k
  BY <1>2, LeastNumber
<1>4. m \in DOMAIN config /\ Foremost(m)
  BY <1>1, <1>3
<1> DEFINE i == CHOOSE i \in DOMAIN config : Foremost(i)
<1>5. i \in DOMAIN config /\ Foremost(i)
  BY <1>4
<1>6. FindAddonConfig(config, name) = config[i]
  BY DEF FindAddonConfig
<1> HIDE DEF i
<1>7. i \in 1 .. p
  BY <1>1, <1>5
<1>8. FirstOfName(config, p, i)
  BY <1>5, <1>7 DEF FirstOfName
<1> QED
  BY <1>6, <1>7, <1>8

(* A dependency that its parent requires is enabled, and no other, where   *)
(* the nodes of the parent's name have one version; in every tree the      *)
(* version that decides is that of the first of them.  It is what          *)
(* validateAndProcessRequiredDependencies of testaddons/tests.go makes of  *)
(* every tree of dependencies.                                             *)
THEOREM RequiredAreEnabled ==
  ASSUME NEW catalog, ListsEntries(catalog), NEW config, IsTree(config)
  PROVE  RequiredRight(catalog, config, ProcessRequiredDependencies(catalog, config))
<1>1. PICK n \in Nat : n = Len(config) /\ DOMAIN config = 1 .. n
  BY DEF IsTree
<1>2. PICK result : result = ProcessRequiredDependencies(catalog, config)
  OBVIOUS
<1>3. result = [i \in 1 .. n |-> IF i = 1 THEN config[1]
                                 ELSE ProcessDependency(catalog, config, config[i])]
  BY <1>1, <1>2 DEF ProcessRequiredDependencies
<1>4. Len(result) = n
  <2>1. DOMAIN result = 1 .. n
    BY <1>3
  <2> QED
    BY <2>1
<1>5. ASSUME NEW i \in 2 .. n, NEW p, p = config[i].parent
      PROVE  /\ \E k \in 1 .. p :
                   /\ FirstOfName(config, p, k)
                   /\ result[i].enabled = EnabledBy(catalog, config[k].version, config[i])
             /\ OneVersionOf(config, p)
                => result[i].enabled = EnabledBy(catalog, config[p].version, config[i])
  <2>1. PICK dep \in TreeEntry : dep = config[i]
    BY <1>1 DEF IsTree
  <2>2. p \in DOMAIN config /\ p = dep.parent /\ p \in 1 .. n
    BY <1>1, <1>5, <2>1 DEF IsTree
  <2>3. dep.required \in YesNo /\ dep.enabled \in YesNo
    BY <2>1 DEF TreeEntry
  <2>4. PICK parent : parent = FindAddonConfig(config, config[p].name)
    OBVIOUS
  <2>5. PICK k \in 1 .. p : FirstOfName(config, p, k) /\ parent = config[k]
    BY <2>2, <2>4, ParentIsFound
  <2>50. PICK version : version = config[k].version
    OBVIOUS
  <2>6. CheckIfDependencyIsRequired(catalog, config, dep, config[p].name)
           <=> IsRequired(catalog, version, dep)
    <3>2. version \in DOMAIN catalog
          => (RequiredInCatalog(catalog[version], dep.name) <=> SaysRequired(catalog[version], dep.name))
      BY CatalogSaysRequired DEF ListsEntries
    <3>3. CheckIfDependencyIsRequired(catalog, config, dep, config[p].name)
             <=> IF dep.required # "" THEN dep.required = "yes"
                 ELSE version \in DOMAIN catalog /\ RequiredInCatalog(catalog[version], dep.name)
      BY <2>4, <2>5, <2>50 DEF CheckIfDependencyIsRequired
    <3>4. IsRequired(catalog, version, dep)
             <=> \/ dep.required = "yes"
                 \/ /\ dep.required = "" /\ version \in DOMAIN catalog
                    /\ SaysRequired(catalog[version], dep.name)
      BY DEF IsRequired
    <3> QED
      BY <2>3, <3>2, <3>3, <3>4 DEF YesNo
  <2>7. result[i] = ProcessDependency(catalog, config, dep)
    BY <1>3, <2>1
  <2>8. ASSUME dep.enabled = "no" /\ IsRequired(catalog, version, dep)
        PROVE  result[i].enabled = "yes"
    <3>1. result[i] = [dep EXCEPT !.enabled = "yes", !.required = "yes", !.by = config[p].name]
      BY <2>2, <2>6, <2>7, <2>8 DEF ProcessDependency
    <3> QED
      BY <2>1, <3>1 DEF TreeEntry
  <2>9. ASSUME ~ (dep.enabled = "no" /\ IsRequired(catalog, version, dep))
        PROVE  result[i].enabled = dep.enabled
    <3>1. result[i] = dep
      BY <2>2, <2>6, <2>7, <2>9 DEF ProcessDependency
    <3> QED
      BY <3>1
  <2>10. result[i].enabled = EnabledBy(catalog, config[k].version, config[i])
    BY <2>1, <2>50, <2>8, <2>9 DEF EnabledBy
  <2>11. ASSUME OneVersionOf(config, p) PROVE config[k].version = config[p].version
    <3>1. k \in DOMAIN config /\ config[k].name = config[p].name
      BY <1>1, <2>2, <2>5 DEF FirstOfName
    <3> QED
      BY <2>11, <3>1 DEF OneVersionOf
  <2> QED
    BY <2>5, <2>10, <2>11
<1> QED
  BY <1>1, <1>2, <1>4, <1>5 DEF RequiredRight

-----------------------------------------------------------------------------
(* Of some numbers there is a first one.                                   *)
LEMMA FirstIsOne ==
  ASSUME NEW numbers \in SUBSET Nat, numbers # {}
  PROVE  FirstIn(numbers) \in numbers
<1>1. \E i \in numbers : \A k \in numbers : i <= k
  BY LeastNumber
<1> QED
  BY <1>1 DEF FirstIn

(* What is found of a dependency in the user's configuration is one of its *)
(* entries of that name, or says nothing.                                  *)
SaysNothing(found) == found.flavor = "" /\ found.enabled = ""
IsEntry(config, name, found) ==
    \E i \in DOMAIN config : config[i].name = name /\ found = config[i]

LEMMA FoundIsEntry ==
  ASSUME NEW config \in Seq(UserEntry), NEW at, NEW name
  PROVE  \/ SaysNothing(FindDependencyByName(config, at, name))
         \/ IsEntry(config, name, FindDependencyByName(config, at, name))
<1>1. PICK S : S = EntriesNamed(config, at, name)
  OBVIOUS
<1>2. CASE S = {}
  BY <1>1, <1>2 DEF FindDependencyByName, SaysNothing
<1>3. CASE S # {}
  <2>1. S \in SUBSET Nat /\ \A i \in S : i \in DOMAIN config /\ config[i].name = name
    BY <1>1 DEF EntriesNamed
  <2>2. FirstIn(S) \in S
    BY <1>3, <2>1, FirstIsOne
  <2>3. FindDependencyByName(config, at, name) = config[FirstIn(S)]
    BY <1>1, <1>3 DEF FindDependencyByName
  <2> QED
    BY <2>1, <2>2, <2>3 DEF IsEntry
<1> QED
  BY <1>2, <1>3

(* What nobody has disabled is included at every node that lists it.       *)
LEMMA UndisputedIsIncluded ==
  ASSUME NEW config \in Seq(UserEntry), NEW at, NEW dep, Undisputed(config, dep)
  PROVE  Include(config, at, dep)
<1>1. \A i \in DOMAIN config : config[i].name = dep.name => config[i].enabled # "no"
  BY Zenon DEF Undisputed
<1>2. dep.onByDefault
  BY Zenon DEF Undisputed
<1>3. PICK enabled : enabled = FindDependencyByName(config, at, dep.name).enabled
  OBVIOUS
<1>4. enabled # "no"
  <2>1. PICK found : found = FindDependencyByName(config, at, dep.name)
    OBVIOUS
  <2>2. CASE SaysNothing(found)
    BY <1>3, <2>1, <2>2 DEF SaysNothing
  <2>3. CASE IsEntry(config, dep.name, found)
    BY <1>1, <1>3, <2>1, <2>3 DEF IsEntry
  <2> QED
    BY <2>1, <2>2, <2>3, FoundIsEntry
<1>5. dep.name \notin Disabled(config)
  BY <1>1 DEF Disabled
<1> QED
  BY <1>2, <1>3, <1>4, <1>5, Zenon DEF Include

(* The configuration of a child is an entry of the user's, or made up.     *)
LEMMA ChildConfigIsEntry ==
  ASSUME NEW config \in Seq(UserEntry), NEW at, NEW child
  PROVE  ChildConfig(config, at, child) \in Synthesized .. Len(config)
<1>1. PICK S : S = {i \in EntriesNamed(config, at, child[1]) : config[i].flavor = child[2]}
  OBVIOUS
<1>2. PICK n \in Nat : n = Len(config) /\ DOMAIN config = 1 .. n
  OBVIOUS
<1>3. S \in SUBSET (1 .. n)
  BY <1>1, <1>2 DEF EntriesNamed
<1>4. S # {} => FirstIn(S) \in S
  BY <1>3, FirstIsOne
<1>5. ChildConfig(config, at, child) \in {Synthesized} \cup (1 .. n)
  BY <1>1, <1>3, <1>4 DEF ChildConfig
<1> QED
  BY <1>2, <1>5 DEF Synthesized

(* The values of a function on a finite set are finitely many.             *)
ValuesOf(f, D) == {f[x] : x \in D}

LEMMA ValuesAreFinite ==
  ASSUME NEW D, IsFiniteSet(D), NEW f, f = [x \in D |-> f[x]]
  PROVE  IsFiniteSet(ValuesOf(f, D))
<1>1. PICK S : S = ValuesOf(f, D)
  OBVIOUS
<1>2. f \in [D -> S] /\ \A y \in S : \E x \in D : f[x] = y
  BY <1>1 DEF ValuesOf
<1>3. f \in Surjection(D, S)
  BY <1>2 DEF Surjection
<1> QED
  BY <1>1, <1>3, FS_Surjection

(* What is in a sequence is finitely many.                                 *)
LEMMA EntriesAreFinite ==
  ASSUME NEW S, NEW s \in Seq(S)
  PROVE  IsFiniteSet(ToSet(s))
<1>1. PICK n \in Nat : n = Len(s) /\ s = [i \in 1 .. n |-> s[i]] /\ DOMAIN s = 1 .. n
  OBVIOUS
<1>2. IsFiniteSet(1 .. n)
  BY FS_Interval
<1>3. ToSet(s) = ValuesOf(s, 1 .. n)
  BY <1>1 DEF ToSet, ValuesOf
<1>4. IsFiniteSet(ValuesOf(s, 1 .. n))
  BY <1>1, <1>2, ValuesAreFinite
<1> QED
  BY <1>3, <1>4

LEMMA ListedFlavorsAreFinite ==
  ASSUME NEW deps \in Seq(Dependency)
  PROVE  IsFiniteSet(FlavorsListed(deps))
<1>1. PICK n \in Nat : n = Len(deps) /\ DOMAIN deps = 1 .. n
  OBVIOUS
<1> DEFINE f == [i \in 1 .. n |-> {deps[i].default} \cup ToSet(deps[i].flavors)]
           S == ValuesOf(f, 1 .. n)
<1>2. ASSUME NEW i \in 1 .. n PROVE IsFiniteSet({deps[i].default} \cup ToSet(deps[i].flavors))
  <2>1. deps[i].flavors \in Seq(STRING)
    <3>1. PICK d \in Dependency : d = deps[i]
      BY <1>1
    <3> QED
      BY <3>1 DEF Dependency
  <2>2. IsFiniteSet(ToSet(deps[i].flavors)) /\ IsFiniteSet({deps[i].default})
    BY <2>1, EntriesAreFinite, FS_Singleton
  <2> QED
    BY <2>2, FS_Union
<1>3. IsFiniteSet(1 .. n)
  BY FS_Interval
<1>4. \A T \in S : IsFiniteSet(T)
  BY <1>2 DEF ValuesOf
<1>5. FlavorsListed(deps) = UNION S
  BY <1>1 DEF FlavorsListed, ValuesOf
<1>6. f = [i \in 1 .. n |-> f[i]]
  OBVIOUS
<1> HIDE DEF f
<1>7. IsFiniteSet(S)
  BY <1>3, <1>6, ValuesAreFinite
<1> HIDE DEF S
<1> QED
  BY <1>4, <1>5, <1>7, FS_UNION

(* The nodes that a tree may have are finitely many, and have all children *)
(* of each of them.                                                        *)
LEMMA NodesAreFinite ==
  ASSUME NEW catalog, NEW node, NEW config, TreeFor(catalog, node, config)
  PROVE  IsFiniteSet(AllNodes(catalog, node, config))
<1>1. PICK n \in Nat : n = Len(config) /\ DOMAIN config = 1 .. n
  BY DEF TreeFor
<1> DEFINE A == {node[2]} \cup {"fully-configurable"}
           f == [i \in 1 .. n |-> config[i].flavor]
           B == ValuesOf(f, 1 .. n)
           g == [x \in DOMAIN catalog |-> FlavorsListed(catalog[x])]
           C == ValuesOf(g, DOMAIN catalog)
<1>2. IsFiniteSet(A)
  <2>1. IsFiniteSet({node[2]}) /\ IsFiniteSet({"fully-configurable"})
    BY FS_Singleton
  <2> QED
    BY <2>1, FS_Union
<1>3. IsFiniteSet(B)
  <2>1. f = [i \in 1 .. n |-> f[i]]
    OBVIOUS
  <2> HIDE DEF f
  <2>2. IsFiniteSet(1 .. n)
    BY FS_Interval
  <2> QED
    BY <2>1, <2>2, ValuesAreFinite
<1>4. IsFiniteSet(UNION C)
  <2>1. \A x \in DOMAIN catalog : IsFiniteSet(FlavorsListed(catalog[x]))
    BY ListedFlavorsAreFinite DEF TreeFor
  <2>2. \A T \in C : IsFiniteSet(T)
    BY <2>1 DEF ValuesOf
  <2>3. PICK D : D = DOMAIN catalog /\ IsFiniteSet(D)
    BY DEF TreeFor
  <2>4. g = [x \in D |-> g[x]]
    BY <2>3
  <2> HIDE DEF g
  <2>5. IsFiniteSet(ValuesOf(g, D))
    BY <2>3, <2>4, ValuesAreFinite
  <2>6. IsFiniteSet(C)
    BY <2>3, <2>5
  <2> HIDE DEF C
  <2> QED
    BY <2>2, <2>6, FS_UNION
<1>5. AllFlavors(catalog, node, config) = (A \cup B) \cup UNION C
  BY <1>1 DEF AllFlavors, ValuesOf
<1> HIDE DEF A, B, C
<1>6. IsFiniteSet(A \cup B)
  BY <1>2, <1>3, FS_Union
<1>7. IsFiniteSet(AllFlavors(catalog, node, config))
  <2>1. PICK E : E = A \cup B /\ IsFiniteSet(E)
    BY <1>6
  <2>2. PICK G : G = UNION C /\ IsFiniteSet(G)
    BY <1>4
  <2>3. IsFiniteSet(E \cup G)
    BY <2>1, <2>2, FS_Union
  <2> QED
    BY <1>5, <2>1, <2>2, <2>3
<1>8. PICK D, F : D = DOMAIN catalog /\ F = AllFlavors(catalog, node, config)
                  /\ IsFiniteSet(D) /\ IsFiniteSet(F)
  BY <1>7 DEF TreeFor
<1>9. IsFiniteSet(D \X F)
  BY <1>8, FS_Product
<1> QED
  BY <1>8, <1>9 DEF AllNodes

LEMMA ChildIsNode ==
  ASSUME NEW catalog, NEW node, NEW config, TreeFor(catalog, node, config),
         NEW name \in DOMAIN catalog, NEW i \in DOMAIN catalog[name], NEW at,
         catalog[name][i].name \in DOMAIN catalog
  PROVE  ChildOf(config, at, catalog[name][i]) \in AllNodes(catalog, node, config)
<1>1. PICK dep \in Dependency : dep = catalog[name][i]
  BY DEF TreeFor
<1>2. PICK F : F = AllFlavors(catalog, node, config)
  OBVIOUS
<1>3. {dep.default} \cup ToSet(dep.flavors) \subseteq F
  <2>1. {dep.default} \cup ToSet(dep.flavors) \subseteq FlavorsListed(catalog[name])
    BY <1>1 DEF FlavorsListed
  <2> QED
    BY <1>2, <2>1 DEF AllFlavors
<1>4. "fully-configurable" \in F /\ \A k \in DOMAIN config : config[k].flavor \in F
  BY <1>2 DEF AllFlavors
<1>5. PICK user : user = FindDependencyByName(config, at, dep.name).flavor
  OBVIOUS
<1>6. user = "" \/ user \in F
  <2>1. PICK found : found = FindDependencyByName(config, at, dep.name)
    OBVIOUS
  <2>2. CASE SaysNothing(found)
    BY <1>5, <2>1, <2>2 DEF SaysNothing
  <2>3. CASE IsEntry(config, dep.name, found)
    BY <1>4, <1>5, <2>1, <2>3 DEF IsEntry
  <2> QED
    BY <2>1, <2>2, <2>3, FoundIsEntry DEF TreeFor
<1>7. dep.flavors # <<>> => Head(dep.flavors) \in F
  <2>1. dep.flavors \in Seq(STRING)
    BY DEF Dependency
  <2>2. dep.flavors # <<>> => Head(dep.flavors) \in ToSet(dep.flavors)
    BY <2>1 DEF ToSet
  <2> QED
    BY <1>3, <2>2
<1>8. DepFlavor(config, at, dep) \in F
  BY <1>3, <1>4, <1>5, <1>6, <1>7 DEF DepFlavor
<1> QED
  BY <1>1, <1>2, <1>8 DEF ChildOf, AllNodes

(* The tree that a call builds: what it has visited is what had been, and  *)
(* what it adds, each node once; every node that is added but for the      *)
(* first is a dependency of another and not disabled; and what nobody      *)
(* disputes of a node's dependencies has been visited too.                 *)
Results(nodes) ==
    [graph : Seq(nodes \X nodes), expected : Seq(nodes), visited : SUBSET nodes, error : BOOLEAN]
Once(s) == \A i, k \in DOMAIN s : s[i] = s[k] => i = k
Complete(catalog, config, n, visited) ==
    \A dep \in ToSet(catalog[n[1]]) :
        Undisputed(config, dep) => \E m \in visited : m[1] = dep.name
IncludedUpTo(catalog, config, call, visited, j) ==
    \A i \in 1 .. j :
        Include(config, call.at, catalog[call.node[1]][i])
        => ChildOf(config, call.at, catalog[call.node[1]][i]) \in visited
Grown(config, call, r) ==
    /\ r.visited = call.visited \cup ToSet(r.expected)
    /\ ToSet(r.expected) \cap call.visited = {}
    /\ Once(r.expected)
    /\ \A e \in ToSet(r.graph) : e[1] \in ToSet(r.expected) /\ e[2] \in r.visited
    /\ \A n \in ToSet(r.expected) \ {call.node} :
          n[1] \notin Disabled(config) /\ \E m \in ToSet(r.expected) : <<m, n>> \in ToSet(r.graph)
StartsWithIt(call, r) == r.expected # <<>> /\ r.expected[1] = call.node

\* Before dependency j + 1 of its node, and at the end.
BuiltUpTo(catalog, config, call, r, j) ==
    ~r.error =>
        /\ Grown(config, call, r) /\ StartsWithIt(call, r)
        /\ \A n \in ToSet(r.expected) \ {call.node} : Complete(catalog, config, n, r.visited)
        /\ IncludedUpTo(catalog, config, call, r.visited, j)
IsBuilt(catalog, config, call, r) ==
    ~r.error =>
        /\ Grown(config, call, r) /\ call.node \in r.visited
        /\ \A n \in ToSet(r.expected) : Complete(catalog, config, n, r.visited)
        /\ call.node \notin call.visited =>
              /\ StartsWithIt(call, r)
              /\ IncludedUpTo(catalog, config, call, r.visited, Len(catalog[call.node[1]]))

(* Sequences that have no entry in common, one after the other.            *)
LEMMA ConcatOnce ==
  ASSUME NEW S, NEW s \in Seq(S), NEW t \in Seq(S), Once(s), Once(t), ToSet(s) \cap ToSet(t) = {}
  PROVE  Once(s \o t)
<1>1. PICK a \in Nat, b \in Nat : /\ a = Len(s) /\ DOMAIN s = 1 .. a
                                 /\ b = Len(t) /\ DOMAIN t = 1 .. b
  BY LenProperties
<1>2. DOMAIN (s \o t) = 1 .. a + b
  BY <1>1, ConcatProperties, LenProperties
<1>3. \A i \in 1 .. a + b : (s \o t)[i] = IF i <= a THEN s[i] ELSE t[i - a]
  BY <1>1, ConcatProperties
<1> SUFFICES ASSUME NEW i \in 1 .. a + b, NEW k \in 1 .. a + b, (s \o t)[i] = (s \o t)[k]
             PROVE  i = k
  BY <1>2 DEF Once
<1>4. \A x \in 1 .. a, y \in 1 .. b : s[x] # t[y]
  BY <1>1 DEF ToSet
<1>5. CASE i <= a /\ k <= a
  BY <1>1, <1>3, <1>5 DEF Once
<1>6. CASE i <= a /\ ~(k <= a)
  <2>1. i \in 1 .. a /\ k - a \in 1 .. b
    BY <1>6
  <2> QED
    BY <1>3, <1>4, <1>6, <2>1
<1>7. CASE ~(i <= a) /\ k <= a
  <2>1. k \in 1 .. a /\ i - a \in 1 .. b
    BY <1>7
  <2> QED
    BY <1>3, <1>4, <1>7, <2>1
<1>8. CASE ~(i <= a) /\ ~(k <= a)
  <2>1. k - a \in 1 .. b /\ i - a \in 1 .. b
    BY <1>8
  <2>2. t[i - a] = t[k - a]
    BY <1>3, <1>8
  <2>3. i - a = k - a
    BY <1>1, <2>1, <2>2 DEF Once
  <2> QED
    BY <2>3
<1> QED
  BY <1>5, <1>6, <1>7, <1>8

(* A tree with the tree of one more dependency merged into it.             *)
IsMerged(call, child, r, c, e) ==
    /\ e.graph = Append(r.graph, <<call.node, child>>) \o c.graph
    /\ e.expected = r.expected \o c.expected
    /\ e.visited = r.visited \cup c.visited /\ e.error = c.error

LEMMA MergedIsGrown ==
  ASSUME NEW nodes, NEW config, NEW call, NEW other,
         NEW r \in Results(nodes), NEW c \in Results(nodes), NEW e \in Results(nodes),
         IsMerged(call, other.node, r, c, e),
         call.node \in nodes, other.node \in nodes, other.visited = r.visited,
         other.node[1] \notin Disabled(config),
         Grown(config, call, r), StartsWithIt(call, r), Grown(config, other, c),
         other.node \in c.visited
  PROVE  /\ Grown(config, call, e) /\ StartsWithIt(call, e)
         /\ ToSet(e.expected) = ToSet(r.expected) \cup ToSet(c.expected)
         /\ r.visited \subseteq e.visited /\ c.visited = e.visited /\ other.node \in e.visited
<1>0. e.expected = r.expected \o c.expected /\ e.visited = r.visited \cup c.visited
  BY DEF IsMerged
<1>1. /\ r.graph \in Seq(nodes \X nodes) /\ r.expected \in Seq(nodes)
      /\ c.graph \in Seq(nodes \X nodes) /\ c.expected \in Seq(nodes)
  BY DEF Results
<1>2. PICK R, C, E : R = ToSet(r.expected) /\ C = ToSet(c.expected) /\ E = ToSet(e.expected)
  OBVIOUS
<1>3. E = R \cup C
  BY <1>0, <1>1, <1>2, RangeOfConcat
<1>4. PICK rg, cg, eg : rg = ToSet(r.graph) /\ cg = ToSet(c.graph) /\ eg = ToSet(e.graph)
  OBVIOUS
<1>5. PICK edge \in nodes \X nodes : edge = <<call.node, other.node>>
  OBVIOUS
<1>6. eg = rg \cup {edge} \cup cg
  <2>1. PICK P : P = nodes \X nodes
    OBVIOUS
  <2>2. PICK before \in Seq(P), below \in Seq(P) : before = r.graph /\ below = c.graph
    BY <1>1, <2>1
  <2>3. PICK x \in P : x = edge
    BY <2>1
  <2>4. PICK with \in Seq(P) : with = Append(before, x)
    BY AppendProperties
  <2>5. ToSet(Append(before, x)) = ToSet(before) \cup {x}
    BY RangeOfAppend
  <2>6. ToSet(with \o below) = ToSet(with) \cup ToSet(below)
    BY RangeOfConcat
  <2>7. e.graph = with \o below
    BY <1>5, <2>2, <2>3, <2>4 DEF IsMerged
  <2> QED
    BY <1>4, <2>2, <2>3, <2>4, <2>5, <2>6, <2>7
<1>7. r.visited = call.visited \cup R /\ R \cap call.visited = {}
  BY <1>2 DEF Grown
<1>8. c.visited = r.visited \cup C /\ C \cap r.visited = {}
  BY <1>2 DEF Grown
<1>9. e.visited = call.visited \cup E /\ E \cap call.visited = {} /\ c.visited = e.visited
  BY <1>0, <1>3, <1>7, <1>8
<1>10. Once(e.expected)
  <2>1. Once(r.expected) /\ Once(c.expected)
    BY DEF Grown
  <2>2. ToSet(r.expected) \cap ToSet(c.expected) = {}
    BY <1>2, <1>7, <1>8
  <2> QED
    BY <1>0, <1>1, <2>1, <2>2, ConcatOnce
<1>11. StartsWithIt(call, e)
  <2>1. PICK a \in Nat : a = Len(r.expected) /\ a > 0
    BY <1>1 DEF StartsWithIt
  <2>2. PICK before \in Seq(nodes), below \in Seq(nodes) :
           before = r.expected /\ below = c.expected
    BY <1>1
  <2>3. PICK b \in Nat : b = Len(below)
    OBVIOUS
  <2>4. Len(before \o below) = a + b /\ (before \o below)[1] = before[1]
    <3>1. /\ Len(before \o below) = Len(before) + Len(below)
          /\ \A i \in 1 .. Len(before) + Len(below) :
                (before \o below)[i] = IF i <= Len(before) THEN before[i]
                                       ELSE below[i - Len(before)]
      BY ConcatProperties
    <3>2. 1 \in 1 .. a + b /\ 1 <= a
      BY <2>1
    <3> QED
      BY <2>1, <2>2, <2>3, <3>1, <3>2
  <2>5. a + b # 0
    BY <2>1
  <2>6. e.expected[1] = r.expected[1] /\ e.expected # <<>>
    <3>1. PICK after : after = before \o below
      OBVIOUS
    <3>2. after # <<>>
      BY <2>4, <2>5, <3>1
    <3> QED
      BY <1>0, <2>2, <2>4, <3>1, <3>2
  <2> QED
    BY <2>6 DEF StartsWithIt
<1>12. call.node \in R
  <2>1. 1 \in DOMAIN r.expected
    BY <1>1 DEF StartsWithIt
  <2> QED
    BY <1>2, <2>1 DEF StartsWithIt, ToSet
<1>13. ASSUME NEW x \in eg PROVE x[1] \in E /\ x[2] \in e.visited
  <2>1. CASE x \in rg
    BY <1>2, <1>3, <1>4, <1>8, <1>9, <2>1 DEF Grown
  <2>2. CASE x = edge
    BY <1>3, <1>5, <1>9, <1>12, <2>2
  <2>3. CASE x \in cg
    BY <1>2, <1>3, <1>4, <1>9, <2>3 DEF Grown
  <2> QED
    BY <1>6, <2>1, <2>2, <2>3
<1>14. ASSUME NEW n \in E \ {call.node}
       PROVE  n[1] \notin Disabled(config) /\ \E m \in E : <<m, n>> \in eg
  <2>1. CASE n \in R
    <3>1. n[1] \notin Disabled(config) /\ \E m \in R : <<m, n>> \in rg
      BY <1>2, <1>4, <2>1 DEF Grown
    <3> QED
      BY <1>3, <1>6, <3>1
  <2>2. CASE n = other.node
    BY <1>3, <1>5, <1>6, <1>12, <2>2
  <2>3. CASE n \in C \ {other.node}
    <3>1. n[1] \notin Disabled(config) /\ \E m \in C : <<m, n>> \in cg
      BY <1>2, <1>4, <2>3 DEF Grown
    <3> QED
      BY <1>3, <1>6, <3>1
  <2> QED
    BY <1>3, <2>1, <2>2, <2>3
<1>15. Grown(config, call, e)
  BY <1>2, <1>4, <1>9, <1>10, <1>13, <1>14 DEF Grown
<1> QED
  BY <1>2, <1>3, <1>8, <1>9, <1>11, <1>15

(* What is complete stays so.                                              *)
LEMMA CompleteStays ==
  ASSUME NEW catalog, NEW config, NEW n, NEW v, NEW w, v \subseteq w,
         Complete(catalog, config, n, v)
  PROVE  Complete(catalog, config, n, w)
  BY DEF Complete

(* A call, and how many nodes have not been visited.                       *)
Left(nodes, call) == Cardinality(nodes \ call.visited)
AllBuilt(catalog, nodes, config, below, k) ==
    \A call \in Builds(nodes, config) :
        Left(nodes, call) <= k => IsBuilt(catalog, config, call, below[call])
ForNodes(catalog, node, config, nodes) ==
    TreeFor(catalog, node, config) /\ nodes = AllNodes(catalog, node, config)

LEMMA NodesSuit ==
  ASSUME NEW catalog, NEW node, NEW config, NEW nodes, ForNodes(catalog, node, config, nodes)
  PROVE  /\ IsFiniteSet(nodes) /\ node \in nodes
         /\ \A n \in nodes : n[1] \in DOMAIN catalog /\ catalog[n[1]] \in Seq(Dependency)
<1>1. IsFiniteSet(nodes)
  BY NodesAreFinite DEF ForNodes
<1>2. node \in nodes
  BY DEF ForNodes, TreeFor, AllNodes, AllFlavors
<1>3. \A n \in nodes : n[1] \in DOMAIN catalog
  BY DEF ForNodes, AllNodes
<1> QED
  BY <1>1, <1>2, <1>3 DEF ForNodes, TreeFor

(* The call for a dependency that is included.                             *)
OtherCall(config, call, r, dep) ==
    Build(ChildOf(config, call.at, dep), ChildConfig(config, call.at, ChildOf(config, call.at, dep)),
          r.visited)

IsOther(nodes, config, call, r, dep, other) ==
    /\ other \in Builds(nodes, config)
    /\ other.node = ChildOf(config, call.at, dep) /\ other.visited = r.visited

LEMMA OtherIsCall ==
  ASSUME NEW catalog, NEW node, NEW config, NEW nodes, ForNodes(catalog, node, config, nodes),
         NEW call \in Builds(nodes, config), NEW j \in DOMAIN catalog[call.node[1]],
         NEW r \in Results(nodes), catalog[call.node[1]][j].name \in DOMAIN catalog
  PROVE  IsOther(nodes, config, call, r, catalog[call.node[1]][j],
                 OtherCall(config, call, r, catalog[call.node[1]][j]))
<1>1. PICK name, dep : name \in DOMAIN catalog /\ name = call.node[1] /\ dep = catalog[name][j]
  BY NodesSuit DEF Builds
<1>2. PICK child : child = ChildOf(config, call.at, dep)
  OBVIOUS
<1>3. child \in nodes
  BY <1>1, <1>2, ChildIsNode DEF ForNodes
<1>4. PICK at : at = ChildConfig(config, call.at, child)
  OBVIOUS
<1>5. at \in Synthesized .. Len(config)
  BY <1>4, ChildConfigIsEntry DEF ForNodes, TreeFor
<1>6. r.visited \in SUBSET nodes
  BY DEF Results
<1>7. OtherCall(config, call, r, dep) = [node |-> child, at |-> at, visited |-> r.visited]
  BY <1>2, <1>4 DEF OtherCall, Build
<1> QED
  BY <1>1, <1>2, <1>3, <1>5, <1>6, <1>7 DEF Builds, IsOther

(* What one more dependency makes of a tree: nothing, an error, or the     *)
(* tree below it merged into it.                                           *)
WithEdge(call, r, child) == [r EXCEPT !.graph = Append(@, <<call.node, child>>)]

LEMMA AddIsOneOf ==
  ASSUME NEW catalog, NEW config, NEW below, NEW call, NEW r, NEW dep, NEW e,
         e = AddDependency(catalog, config, below, call, r, dep)
  PROVE  \/ (r.error \/ ~Include(config, call.at, dep)) /\ e = r
         \/ ~r.error /\ dep.name \notin DOMAIN catalog /\ e = [r EXCEPT !.error = TRUE]
         \/ /\ ~r.error /\ Include(config, call.at, dep) /\ dep.name \in DOMAIN catalog
            /\ e = Merge(WithEdge(call, r, ChildOf(config, call.at, dep)),
                         below[OtherCall(config, call, r, dep)])
  BY Zenon DEF AddDependency, WithEdge, OtherCall

LEMMA MergeIsResult ==
  ASSUME NEW nodes, NEW call, call.node \in nodes, NEW child \in nodes,
         NEW r \in Results(nodes), NEW c \in Results(nodes)
  PROVE  /\ Merge(WithEdge(call, r, child), c) \in Results(nodes)
         /\ IsMerged(call, child, r, c, Merge(WithEdge(call, r, child), c))
<1>1. PICK P : P = nodes \X nodes
  OBVIOUS
<1>2. PICK before \in Seq(P), below \in Seq(P), first \in Seq(nodes), then \in Seq(nodes) :
         /\ before = r.graph /\ below = c.graph /\ first = r.expected /\ then = c.expected
  BY <1>1 DEF Results
<1>3. PICK edge \in P : edge = <<call.node, child>>
  BY <1>1
<1>4. PICK edges \in Seq(P) : edges = Append(before, edge)
  BY AppendProperties
<1>5. PICK with : with = WithEdge(call, r, child)
  OBVIOUS
<1>6. with.graph = edges /\ with.expected = first /\ with.visited = r.visited
  BY <1>2, <1>3, <1>4, <1>5 DEF WithEdge, Results
<1>7. PICK e : e = Merge(with, c)
  OBVIOUS
<1>8. e = [graph |-> edges \o below, expected |-> first \o then,
           visited |-> r.visited \cup c.visited, error |-> c.error]
  BY <1>2, <1>6, <1>7 DEF Merge
<1>9. /\ edges \o below \in Seq(P) /\ first \o then \in Seq(nodes)
      /\ r.visited \cup c.visited \in SUBSET nodes /\ c.error \in BOOLEAN
  BY DEF Results
<1>10. e \in Results(nodes)
  BY <1>1, <1>8, <1>9 DEF Results
<1>11. IsMerged(call, child, r, c, e)
  BY <1>2, <1>3, <1>4, <1>8 DEF IsMerged
<1> QED
  BY <1>5, <1>7, <1>10, <1>11

LEMMA AddIsResult ==
  ASSUME NEW catalog, NEW node, NEW config, NEW nodes, ForNodes(catalog, node, config, nodes),
         NEW below \in [Builds(nodes, config) -> Results(nodes)],
         NEW call \in Builds(nodes, config), NEW j \in DOMAIN catalog[call.node[1]],
         NEW r \in Results(nodes)
  PROVE  AddDependency(catalog, config, below, call, r, catalog[call.node[1]][j]) \in Results(nodes)
<1>1. PICK dep : dep = catalog[call.node[1]][j]
  OBVIOUS
<1>2. PICK e : e = AddDependency(catalog, config, below, call, r, dep)
  OBVIOUS
<1>3. CASE e = r
  BY <1>1, <1>2, <1>3
<1>4. CASE e = [r EXCEPT !.error = TRUE]
  <2>1. e \in Results(nodes)
    BY <1>4 DEF Results
  <2> QED
    BY <1>1, <1>2, <2>1
<1>5. CASE /\ dep.name \in DOMAIN catalog
           /\ e = Merge(WithEdge(call, r, ChildOf(config, call.at, dep)),
                        below[OtherCall(config, call, r, dep)])
  <2>1. PICK other : other = OtherCall(config, call, r, dep)
    OBVIOUS
  <2>2. /\ other \in Builds(nodes, config)
        /\ other.node = ChildOf(config, call.at, dep)
    <3>1. catalog[call.node[1]][j].name \in DOMAIN catalog
      BY <1>1, <1>5
    <3>2. IsOther(nodes, config, call, r, dep, other)
      BY <1>1, <2>1, <3>1, OtherIsCall
    <3> QED
      BY <3>2 DEF IsOther
  <2>3. PICK c \in Results(nodes) : c = below[other]
    BY <2>2
  <2>4. PICK child \in nodes : child = ChildOf(config, call.at, dep)
    BY <2>2 DEF Builds
  <2>5. call.node \in nodes
    BY DEF Builds
  <2>6. /\ Merge(WithEdge(call, r, child), c) \in Results(nodes)
        /\ IsMerged(call, child, r, c, Merge(WithEdge(call, r, child), c))
    BY <2>5, MergeIsResult
  <2>7. e = Merge(WithEdge(call, r, child), c)
    BY <1>5, <2>1, <2>3, <2>4
  <2> QED
    BY <1>1, <1>2, <2>6, <2>7
<1> QED
  BY <1>2, <1>3, <1>4, <1>5, AddIsOneOf

(* One more dependency: the tree stays as it should be, if the calls below *)
(* build the trees that they should.                                       *)
LEMMA AddIsRight ==
  ASSUME NEW catalog, NEW node, NEW config, NEW nodes, ForNodes(catalog, node, config, nodes),
         NEW k \in Nat, NEW below \in [Builds(nodes, config) -> Results(nodes)],
         AllBuilt(catalog, nodes, config, below, k),
         NEW call \in Builds(nodes, config), Left(nodes, call) <= k + 1,
         call.node \notin call.visited,
         NEW n \in Nat, n = Len(catalog[call.node[1]]), NEW j \in 0 .. n - 1,
         NEW r \in Results(nodes), BuiltUpTo(catalog, config, call, r, j)
  PROVE  BuiltUpTo(catalog, config, call,
                   AddDependency(catalog, config, below, call, r, catalog[call.node[1]][j + 1]),
                   j + 1)
<1>1. j + 1 \in 1 .. n /\ 1 .. j + 1 = (1 .. j) \cup {j + 1}
  OBVIOUS
<1>2. call.node \in nodes /\ call.visited \in SUBSET nodes
  BY DEF Builds
<1>3. j + 1 \in DOMAIN catalog[call.node[1]]
  <2>1. catalog[call.node[1]] \in Seq(Dependency)
    BY <1>2, NodesSuit
  <2> QED
    BY <1>1, <2>1
<1>4. PICK dep : dep = catalog[call.node[1]][j + 1]
  OBVIOUS
<1>5. PICK e : e = AddDependency(catalog, config, below, call, r, dep)
  OBVIOUS
<1> SUFFICES ASSUME ~e.error
             PROVE  BuiltUpTo(catalog, config, call, e, j + 1)
  BY <1>4, <1>5 DEF BuiltUpTo
<1>6. CASE (r.error \/ ~Include(config, call.at, dep)) /\ e = r
  <2>1. ~r.error /\ ~Include(config, call.at, dep)
    BY <1>6
  <2>2. IncludedUpTo(catalog, config, call, r.visited, j + 1)
    BY <1>1, <1>4, <2>1 DEF BuiltUpTo, IncludedUpTo
  <2> QED
    BY <1>6, <2>1, <2>2 DEF BuiltUpTo
<1>7. CASE e = [r EXCEPT !.error = TRUE]
  BY <1>7 DEF Results
<1>8. CASE /\ ~r.error /\ Include(config, call.at, dep) /\ dep.name \in DOMAIN catalog
           /\ e = Merge(WithEdge(call, r, ChildOf(config, call.at, dep)),
                        below[OtherCall(config, call, r, dep)])
  <2>1. PICK other : other = OtherCall(config, call, r, dep)
    OBVIOUS
  <2>2. /\ other \in Builds(nodes, config)
        /\ other.node = ChildOf(config, call.at, dep) /\ other.visited = r.visited
    <3>1. PICK i \in DOMAIN catalog[call.node[1]] : dep = catalog[call.node[1]][i]
      BY <1>3, <1>4
    <3>2. IsOther(nodes, config, call, r, dep, other)
      BY <1>8, <2>1, <3>1, OtherIsCall
    <3> QED
      BY <3>2 DEF IsOther
  <2>3. PICK c \in Results(nodes) : c = below[other]
    BY <2>2
  <2>4. PICK child \in nodes : child = ChildOf(config, call.at, dep)
    BY <2>2 DEF Builds
  <2>5. PICK with : with = Merge(WithEdge(call, r, child), c)
    OBVIOUS
  <2>6. e = with
    BY <1>8, <2>1, <2>3, <2>4, <2>5
  <2>7. e \in Results(nodes) /\ IsMerged(call, child, r, c, e)
    BY <1>2, <2>5, <2>6, MergeIsResult
  <2>9. /\ Grown(config, call, r) /\ StartsWithIt(call, r)
        /\ \A m \in ToSet(r.expected) \ {call.node} : Complete(catalog, config, m, r.visited)
        /\ IncludedUpTo(catalog, config, call, r.visited, j)
    BY <1>8 DEF BuiltUpTo
  <2>10. call.visited \cup {call.node} \subseteq r.visited
    <3>1. r.expected \in Seq(nodes)
      BY DEF Results
    <3>2. 1 \in DOMAIN r.expected /\ r.expected[1] = call.node
      BY <2>9, <3>1 DEF StartsWithIt
    <3> QED
      BY <2>9, <3>2 DEF Grown, ToSet
  <2>11. Left(nodes, other) <= k
    <3>1. PICK D : D = nodes \ call.visited
      OBVIOUS
    <3>2. IsFiniteSet(D) /\ call.node \in D
      BY <1>2, <3>1, NodesSuit, FS_Subset
    <3>3. /\ Cardinality(D \ {call.node}) = Cardinality(D) - 1
          /\ Cardinality(D) \in Nat /\ IsFiniteSet(D \ {call.node})
      BY <3>2, FS_RemoveElement, FS_CardinalityType
    <3>4. nodes \ other.visited \subseteq D \ {call.node}
      BY <2>2, <2>10, <3>1
    <3>5. /\ Cardinality(nodes \ other.visited) <= Cardinality(D \ {call.node})
          /\ Cardinality(nodes \ other.visited) \in Nat
      BY <3>3, <3>4, FS_Subset, FS_CardinalityType
    <3> QED
      BY <3>1, <3>3, <3>5 DEF Left
  <2>12. IsBuilt(catalog, config, other, c) /\ ~c.error
    BY <2>2, <2>3, <2>7, <2>11 DEF AllBuilt, IsMerged
  <2>13. /\ Grown(config, other, c) /\ other.node \in c.visited
         /\ \A m \in ToSet(c.expected) : Complete(catalog, config, m, c.visited)
    BY <2>12 DEF IsBuilt
  <2>14. other.node[1] \notin Disabled(config)
    BY <1>8, <2>2 DEF Include, ChildOf
  <2>15. other.node \in nodes /\ IsMerged(call, other.node, r, c, e)
    BY <2>2, <2>4, <2>7
  <2>16. /\ Grown(config, call, e) /\ StartsWithIt(call, e)
         /\ ToSet(e.expected) = ToSet(r.expected) \cup ToSet(c.expected)
         /\ r.visited \subseteq e.visited /\ c.visited = e.visited /\ other.node \in e.visited
    BY <1>2, <2>2, <2>7, <2>9, <2>13, <2>14, <2>15, MergedIsGrown
  <2>17. ASSUME NEW m \in ToSet(e.expected) \ {call.node}
         PROVE  Complete(catalog, config, m, e.visited)
    <3>1. CASE m \in ToSet(r.expected)
      BY <2>9, <2>16, <3>1, CompleteStays
    <3>2. CASE m \in ToSet(c.expected)
      BY <2>13, <2>16, <3>2
    <3> QED
      BY <2>16, <3>1, <3>2
  <2>18. IncludedUpTo(catalog, config, call, e.visited, j + 1)
    BY <1>1, <1>4, <2>2, <2>9, <2>16 DEF IncludedUpTo
  <2> QED
    BY <2>16, <2>17, <2>18 DEF BuiltUpTo
<1> QED
  BY <1>5, <1>6, <1>7, <1>8, AddIsOneOf

(* The tree of a node, dependency by dependency.                           *)
FirstBuilt(call) ==
    [graph |-> <<>>, expected |-> <<call.node>>, visited |-> call.visited \cup {call.node},
     error |-> FALSE]
BuiltsAre(catalog, config, below, call, n, built) ==
    /\ built[0] = FirstBuilt(call)
    /\ \A j \in 1 .. n :
          built[j] = AddDependency(catalog, config, below, call, built[j - 1],
                                   catalog[call.node[1]][j])
    /\ BuildNode(catalog, config, below, call)
          = IF call.node \in call.visited THEN Unchanged(call) ELSE built[n]

LEMMA BeginningsAreResults ==
  ASSUME NEW nodes, NEW config, NEW call \in Builds(nodes, config)
  PROVE  FirstBuilt(call) \in Results(nodes) /\ Unchanged(call) \in Results(nodes)
<1>1. call.node \in nodes /\ call.visited \in SUBSET nodes
  BY DEF Builds
<1>2. PICK P : P = nodes \X nodes
  OBVIOUS
<1>3. <<>> \in Seq(P) /\ <<>> \in Seq(nodes) /\ <<call.node>> \in Seq(nodes)
  BY <1>1
<1> QED
  BY <1>1, <1>2, <1>3 DEF FirstBuilt, Unchanged, Results

LEMMA BuiltsDefined ==
  ASSUME NEW catalog, NEW node, NEW config, NEW nodes, ForNodes(catalog, node, config, nodes),
         NEW below \in [Builds(nodes, config) -> Results(nodes)],
         NEW call \in Builds(nodes, config)
  PROVE  \E n \in Nat : \E built \in [0 .. n -> Results(nodes)] :
            n = Len(catalog[call.node[1]]) /\ BuiltsAre(catalog, config, below, call, n, built)
<1> DEFINE listed == catalog[call.node[1]]
<1>0. listed \in Seq(Dependency)
  BY NodesSuit DEF Builds
<1>01. PICK n \in Nat : n = Len(listed) /\ DOMAIN listed = 1 .. n
  BY <1>0
<1> DEFINE V == Results(nodes)
           base == FirstBuilt(call)
           Add(v, j) == AddDependency(catalog, config, below, call, v, listed[j])
           step == [j \in 1 .. n |-> [v \in V |-> Add(v, j)]]
           Is(f) == f = [j \in 0 .. n |-> IF j = 0 THEN base ELSE Add(f[j - 1], j)]
<1>02. n = Len(listed)
  BY <1>01
<1>1. ASSUME call.node \notin call.visited
      PROVE  BuildNode(catalog, config, below, call) = (CHOOSE f : Is(f))[n]
  BY <1>02, <1>1, Zenon DEF BuildNode, FirstBuilt
<1>03. ASSUME call.node \in call.visited
       PROVE  BuildNode(catalog, config, below, call) = Unchanged(call)
  BY <1>03, Zenon DEF BuildNode
<1>2. base \in V
  BY BeginningsAreResults
<1>3. ASSUME NEW j \in 1 .. n, NEW v \in V PROVE Add(v, j) \in V
  BY <1>0, <1>01, AddIsResult
<1> HIDE DEF V, base, Add, listed
<1>4. step \in [1 .. n -> [V -> V]]
  BY <1>3
<1>5. \A j \in 1 .. n : \A v \in V : step[j][v] = Add(v, j)
  OBVIOUS
<1> HIDE DEF step
<1>6. PICK g \in [0 .. n -> V] :
         /\ g[0] = base
         /\ \A j \in 1 .. n : g[j] = step[j][g[j - 1]]
         /\ \A f : Computed(f, n, V, base, step) => f = g
  BY <1>2, <1>4, LoopDefined
<1>7. ASSUME NEW j \in 1 .. n PROVE g[j] = Add(g[j - 1], j)
  <2>1. g[j - 1] \in V
    BY <1>6
  <2> QED
    BY <1>5, <1>6, <2>1
<1>8. Is(g)
  <2>1. \A j \in 0 .. n : g[j] = IF j = 0 THEN base ELSE Add(g[j - 1], j)
    BY <1>6, <1>7
  <2> QED
    BY <2>1
<1>9. ASSUME NEW f, Is(f) PROVE f = g
  <2>1. f = [j \in 0 .. n |-> IF j = 0 THEN base ELSE Add(f[j - 1], j)]
    BY <1>9, Zenon
  <2> HIDE DEF Is
  <2>2. f[0] = base
    BY <2>1
  <2>3. \A j \in 1 .. n : f[j] = Add(f[j - 1], j)
    BY <2>1
  <2>4. Computed(f, n, V, base, step)
    BY <1>5, <2>1, <2>2, <2>3 DEF Computed
  <2> QED
    BY <1>6, <2>4
<1>10. (CHOOSE f : Is(f)) = g
  <2> HIDE DEF Is
  <2> QED
    BY <1>8, <1>9
<1> HIDE DEF Is
<1>11. BuiltsAre(catalog, config, below, call, n, g)
  BY <1>03, <1>1, <1>6, <1>7, <1>10, Zenon DEF BuiltsAre, base, Add, listed
<1> QED
  BY <1>0, <1>01, <1>6, <1>11 DEF V, listed

LEMMA FirstIsBuilt ==
  ASSUME NEW nodes, NEW catalog, NEW config, NEW call \in Builds(nodes, config),
         call.node \notin call.visited
  PROVE  BuiltUpTo(catalog, config, call, FirstBuilt(call), 0)
<1>1. PICK r : r = FirstBuilt(call)
  OBVIOUS
<1>2. /\ r.expected = <<call.node>> /\ r.graph = <<>>
      /\ r.visited = call.visited \cup {call.node}
  BY <1>1 DEF FirstBuilt
<1>3. ToSet(r.expected) = {call.node} /\ ToSet(r.graph) = {}
  BY <1>2 DEF ToSet
<1>4. Once(r.expected)
  BY <1>2 DEF Once
<1>5. Grown(config, call, r)
  BY <1>2, <1>3, <1>4 DEF Grown
<1>6. StartsWithIt(call, r)
  BY <1>2 DEF StartsWithIt
<1>7. IncludedUpTo(catalog, config, call, r.visited, 0)
  BY DEF IncludedUpTo
<1> QED
  BY <1>1, <1>3, <1>5, <1>6, <1>7 DEF BuiltUpTo

(* With all of its dependencies a node's tree is complete.                 *)
LEMMA LastIsBuilt ==
  ASSUME NEW catalog, NEW node, NEW config, NEW nodes, ForNodes(catalog, node, config, nodes),
         NEW call \in Builds(nodes, config), NEW r \in Results(nodes),
         BuiltUpTo(catalog, config, call, r, Len(catalog[call.node[1]]))
  PROVE  IsBuilt(catalog, config, call, r)
<1> SUFFICES ASSUME ~r.error PROVE IsBuilt(catalog, config, call, r)
  BY DEF IsBuilt
<1>0. PICK listed \in Seq(Dependency) : listed = catalog[call.node[1]]
  BY NodesSuit DEF Builds
<1>1. PICK n \in Nat : n = Len(listed) /\ DOMAIN listed = 1 .. n
  OBVIOUS
<1>2. /\ Grown(config, call, r) /\ StartsWithIt(call, r)
      /\ \A m \in ToSet(r.expected) \ {call.node} : Complete(catalog, config, m, r.visited)
      /\ IncludedUpTo(catalog, config, call, r.visited, n)
  BY <1>0, <1>1 DEF BuiltUpTo
<1>3. call.node \in r.visited
  <2>1. r.expected \in Seq(nodes)
    BY DEF Results
  <2>2. 1 \in DOMAIN r.expected /\ r.expected[1] = call.node
    BY <1>2, <2>1 DEF StartsWithIt
  <2> QED
    BY <1>2, <2>2 DEF Grown, ToSet
<1>4. Complete(catalog, config, call.node, r.visited)
  <2> SUFFICES ASSUME NEW dep \in ToSet(listed), Undisputed(config, dep)
               PROVE  \E m \in r.visited : m[1] = dep.name
    BY <1>0 DEF Complete
  <2>1. PICK i \in 1 .. n : dep = listed[i]
    BY <1>1 DEF ToSet
  <2>2. Include(config, call.at, dep)
    BY UndisputedIsIncluded DEF ForNodes, TreeFor
  <2>3. ChildOf(config, call.at, dep) \in r.visited
    BY <1>0, <1>2, <2>1, <2>2 DEF IncludedUpTo
  <2> QED
    BY <2>3 DEF ChildOf
<1> QED
  BY <1>0, <1>1, <1>2, <1>3, <1>4 DEF IsBuilt

(* Nothing is added for a node that has been visited.                      *)
LEMMA UnchangedIsBuilt ==
  ASSUME NEW catalog, NEW config, NEW call, call.node \in call.visited
  PROVE  IsBuilt(catalog, config, call, Unchanged(call))
<1>1. PICK r : r = Unchanged(call)
  OBVIOUS
<1>2. r.expected = <<>> /\ r.graph = <<>> /\ r.visited = call.visited
  BY <1>1 DEF Unchanged
<1>3. ToSet(r.expected) = {} /\ ToSet(r.graph) = {} /\ Once(r.expected)
  BY <1>2 DEF ToSet, Once
<1>4. Grown(config, call, r)
  BY <1>2, <1>3 DEF Grown
<1> QED
  BY <1>1, <1>2, <1>3, <1>4 DEF IsBuilt

LEMMA NodeIsResult ==
  ASSUME NEW catalog, NEW node, NEW config, NEW nodes, ForNodes(catalog, node, config, nodes),
         NEW below \in [Builds(nodes, config) -> Results(nodes)],
         NEW call \in Builds(nodes, config)
  PROVE  BuildNode(catalog, config, below, call) \in Results(nodes)
<1>1. PICK n \in Nat : \E built \in [0 .. n -> Results(nodes)] :
         n = Len(catalog[call.node[1]]) /\ BuiltsAre(catalog, config, below, call, n, built)
  BY BuiltsDefined
<1>2. PICK built \in [0 .. n -> Results(nodes)] :
         n = Len(catalog[call.node[1]]) /\ BuiltsAre(catalog, config, below, call, n, built)
  BY <1>1
<1>3. built[n] \in Results(nodes)
  OBVIOUS
<1> QED
  BY <1>2, <1>3, BeginningsAreResults DEF BuiltsAre

LEMMA NodeIsBuilt ==
  ASSUME NEW catalog, NEW node, NEW config, NEW nodes, ForNodes(catalog, node, config, nodes),
         NEW k \in Nat, NEW below \in [Builds(nodes, config) -> Results(nodes)],
         AllBuilt(catalog, nodes, config, below, k),
         NEW call \in Builds(nodes, config), Left(nodes, call) <= k + 1
  PROVE  IsBuilt(catalog, config, call, BuildNode(catalog, config, below, call))
<1>1. PICK n \in Nat : \E built \in [0 .. n -> Results(nodes)] :
         n = Len(catalog[call.node[1]]) /\ BuiltsAre(catalog, config, below, call, n, built)
  BY BuiltsDefined
<1>2. PICK built \in [0 .. n -> Results(nodes)] :
         n = Len(catalog[call.node[1]]) /\ BuiltsAre(catalog, config, below, call, n, built)
  BY <1>1
<1>3. CASE call.node \in call.visited
  BY <1>2, <1>3, UnchangedIsBuilt DEF BuiltsAre
<1>4. CASE call.node \notin call.visited
  <2> DEFINE T == {j \in 0 .. n : BuiltUpTo(catalog, config, call, built[j], j)}
  <2>1. 0 \in T
    BY <1>2, <1>4, FirstIsBuilt DEF BuiltsAre
  <2>2. ASSUME NEW j \in 0 .. n - 1, j \in T PROVE j + 1 \in T
    <3>1. j \in 0 .. n /\ j + 1 \in 0 .. n /\ j + 1 \in 1 .. n /\ (j + 1) - 1 = j
      OBVIOUS
    <3>2. PICK r \in Results(nodes) : r = built[j]
      BY <3>1
    <3>3. built[j + 1] = AddDependency(catalog, config, below, call, r, catalog[call.node[1]][j + 1])
      BY <1>2, <3>1, <3>2 DEF BuiltsAre
    <3>4. BuiltUpTo(catalog, config, call, r, j)
      BY <2>2, <3>2
    <3>5. BuiltUpTo(catalog, config, call, built[j + 1], j + 1)
      BY <1>2, <1>4, <3>3, <3>4, AddIsRight
    <3> QED
      BY <3>1, <3>5
  <2>3. n \in T
    <3> HIDE DEF T
    <3>1. 0 .. n \subseteq T
      BY <2>1, <2>2, UpToN
    <3> QED
      BY <3>1
  <2>4. BuiltUpTo(catalog, config, call, built[n], n) /\ built[n] \in Results(nodes)
    BY <2>3
  <2> HIDE DEF T
  <2> QED
    BY <1>2, <1>4, <2>4, LastIsBuilt DEF BuiltsAre
<1> QED
  BY <1>3, <1>4

(* The levels of the recursion.                                            *)
BuildLevelsAre(catalog, node, config, nodes, n, builds) ==
    /\ builds[0] = NoBuildLevel(nodes, config)
    /\ \A k \in 1 .. n : builds[k] = BuildLevel(catalog, nodes, config, builds[k - 1])
    /\ BuildDependencyGraph(catalog, node, config) = builds[n][Build(node, Root, {})]

LEMMA BuildLevelsDefined ==
  ASSUME NEW catalog, NEW node, NEW config, NEW nodes, ForNodes(catalog, node, config, nodes)
  PROVE  \E n \in Nat : \E builds \in [0 .. n -> [Builds(nodes, config) -> Results(nodes)]] :
            n = Cardinality(nodes) /\ BuildLevelsAre(catalog, node, config, nodes, n, builds)
<1>0. PICK n \in Nat : n = Cardinality(nodes)
  BY NodesSuit, FS_CardinalityType
<1> DEFINE V == [Builds(nodes, config) -> Results(nodes)]
           base == NoBuildLevel(nodes, config)
           Next1(v) == BuildLevel(catalog, nodes, config, v)
           step == [k \in 1 .. n |-> [v \in V |-> Next1(v)]]
           Is(f) == f = [k \in 0 .. n |-> IF k = 0 THEN base ELSE Next1(f[k - 1])]
<1>1. BuildDependencyGraph(catalog, node, config) = (CHOOSE f : Is(f))[n][Build(node, Root, {})]
  BY <1>0, Zenon DEF BuildDependencyGraph, ForNodes
<1>2. base \in V
  BY BeginningsAreResults DEF NoBuildLevel
<1>3. ASSUME NEW v \in V PROVE Next1(v) \in V
  BY NodeIsResult DEF BuildLevel
<1> HIDE DEF V, base, Next1
<1>4. step \in [1 .. n -> [V -> V]]
  BY <1>3
<1>5. \A k \in 1 .. n : \A v \in V : step[k][v] = Next1(v)
  OBVIOUS
<1> HIDE DEF step
<1>6. PICK g \in [0 .. n -> V] :
         /\ g[0] = base
         /\ \A k \in 1 .. n : g[k] = step[k][g[k - 1]]
         /\ \A f : Computed(f, n, V, base, step) => f = g
  BY <1>2, <1>4, LoopDefined
<1>7. ASSUME NEW k \in 1 .. n PROVE g[k] = Next1(g[k - 1])
  <2>1. g[k - 1] \in V
    BY <1>6
  <2> QED
    BY <1>5, <1>6, <2>1
<1>8. Is(g)
  <2>1. \A k \in 0 .. n : g[k] = IF k = 0 THEN base ELSE Next1(g[k - 1])
    BY <1>6, <1>7
  <2> QED
    BY <2>1
<1>9. ASSUME NEW f, Is(f) PROVE f = g
  <2>1. f = [k \in 0 .. n |-> IF k = 0 THEN base ELSE Next1(f[k - 1])]
    BY <1>9, Zenon
  <2> HIDE DEF Is
  <2>2. f[0] = base
    BY <2>1
  <2>3. \A k \in 1 .. n : f[k] = Next1(f[k - 1])
    BY <2>1
  <2>4. Computed(f, n, V, base, step)
    BY <1>5, <2>1, <2>2, <2>3 DEF Computed
  <2> QED
    BY <1>6, <2>4
<1>10. (CHOOSE f : Is(f)) = g
  <2> HIDE DEF Is
  <2> QED
    BY <1>8, <1>9
<1> HIDE DEF Is
<1>11. BuildLevelsAre(catalog, node, config, nodes, n, g)
  BY <1>1, <1>6, <1>7, <1>10 DEF BuildLevelsAre, base, Next1
<1> QED
  BY <1>0, <1>6, <1>11 DEF V

(* What the call for a node builds, with nothing visited before.           *)
LEMMA GraphIsBuilt ==
  ASSUME NEW catalog, NEW node, NEW config, NEW nodes, ForNodes(catalog, node, config, nodes)
  PROVE  /\ BuildDependencyGraph(catalog, node, config) \in Results(nodes)
         /\ IsBuilt(catalog, config, Build(node, Root, {}),
                    BuildDependencyGraph(catalog, node, config))
<1>1. PICK n \in Nat : \E builds \in [0 .. n -> [Builds(nodes, config) -> Results(nodes)]] :
         n = Cardinality(nodes) /\ BuildLevelsAre(catalog, node, config, nodes, n, builds)
  BY BuildLevelsDefined
<1>2. PICK builds \in [0 .. n -> [Builds(nodes, config) -> Results(nodes)]] :
         n = Cardinality(nodes) /\ BuildLevelsAre(catalog, node, config, nodes, n, builds)
  BY <1>1
<1> DEFINE T == {k \in 0 .. n : AllBuilt(catalog, nodes, config, builds[k], k)}
<1>3. 0 \in T
  <2> SUFFICES ASSUME NEW call \in Builds(nodes, config), Left(nodes, call) <= 0
               PROVE  IsBuilt(catalog, config, call, builds[0][call])
    BY DEF AllBuilt
  <2>1. builds[0][call] = Unchanged(call)
    BY <1>2 DEF BuildLevelsAre, NoBuildLevel
  <2>2. call.node \in call.visited
    <3>1. PICK D : D = nodes \ call.visited
      OBVIOUS
    <3>2. IsFiniteSet(D)
      BY <3>1, NodesSuit, FS_Subset
    <3>3. Cardinality(D) \in Nat /\ Cardinality(D) <= 0
      BY <3>1, <3>2, FS_CardinalityType DEF Left
    <3>4. D = {}
      BY <3>2, <3>3, FS_EmptySet
    <3> QED
      BY <3>1, <3>4 DEF Builds
  <2> QED
    BY <2>1, <2>2, UnchangedIsBuilt
<1>4. ASSUME NEW k \in 0 .. n - 1, k \in T PROVE k + 1 \in T
  <2>1. k \in 0 .. n /\ k + 1 \in 0 .. n /\ k + 1 \in 1 .. n /\ (k + 1) - 1 = k /\ k \in Nat
    OBVIOUS
  <2>2. PICK below \in [Builds(nodes, config) -> Results(nodes)] : below = builds[k]
    BY <2>1
  <2>3. builds[k + 1] = BuildLevel(catalog, nodes, config, below)
    BY <1>2, <2>1, <2>2 DEF BuildLevelsAre
  <2>4. AllBuilt(catalog, nodes, config, below, k)
    BY <1>4, <2>2
  <2>5. ASSUME NEW call \in Builds(nodes, config), Left(nodes, call) <= k + 1
        PROVE  IsBuilt(catalog, config, call, builds[k + 1][call])
    <3>1. builds[k + 1][call] = BuildNode(catalog, config, below, call)
      BY <2>3 DEF BuildLevel
    <3> QED
      BY <2>1, <2>4, <2>5, <3>1, NodeIsBuilt
  <2>6. AllBuilt(catalog, nodes, config, builds[k + 1], k + 1)
    BY <2>5 DEF AllBuilt
  <2> QED
    BY <2>1, <2>6
<1>5. n \in T
  <2> HIDE DEF T
  <2>1. 0 .. n \subseteq T
    BY <1>3, <1>4, UpToN
  <2> QED
    BY <2>1
<1>6. AllBuilt(catalog, nodes, config, builds[n], n) /\ builds[n] \in [Builds(nodes, config) -> Results(nodes)]
  BY <1>5
<1> HIDE DEF T
<1>7. PICK call \in Builds(nodes, config) : call = Build(node, Root, {}) /\ call.visited = {}
  <2>1. Root \in Synthesized .. Len(config)
    BY DEF Root, Synthesized, ForNodes, TreeFor
  <2>2. Build(node, Root, {}) \in Builds(nodes, config) /\ Build(node, Root, {}).visited = {}
    BY <2>1, NodesSuit DEF Build, Builds
  <2> QED
    BY <2>2
<1>8. Left(nodes, call) <= n
  <2>1. nodes \ call.visited = nodes
    BY <1>7
  <2> QED
    BY <1>2, <2>1, NodesSuit, FS_CardinalityType DEF Left
<1>9. BuildDependencyGraph(catalog, node, config) = builds[n][call]
  BY <1>2, <1>7 DEF BuildLevelsAre
<1> QED
  BY <1>6, <1>7, <1>8, <1>9 DEF AllBuilt

(* The tree of the dependencies that an addon test expects is right, for   *)
(* every catalog and every configuration of the user's, circular ones too: *)
(* buildDependencyGraph of testaddons/dependency_graph.go.                 *)
THEOREM TreesAreRight ==
  ASSUME NEW catalog, NEW node, NEW config, TreeFor(catalog, node, config)
  PROVE  TreeRight(catalog, node, config, BuildDependencyGraph(catalog, node, config))
<1>1. PICK nodes : nodes = AllNodes(catalog, node, config)
  OBVIOUS
<1>2. ForNodes(catalog, node, config, nodes)
  BY <1>1 DEF ForNodes
<1>3. PICK call : call = Build(node, Root, {})
  OBVIOUS
<1>4. call.node = node /\ call.at = Root /\ call.visited = {}
  BY <1>3 DEF Build
<1>5. PICK tree \in Results(nodes) : /\ tree = BuildDependencyGraph(catalog, node, config)
                                     /\ IsBuilt(catalog, config, call, tree)
  BY <1>2, <1>3, GraphIsBuilt
<1> SUFFICES ASSUME ~tree.error PROVE TreeRight(catalog, node, config, tree)
  BY <1>5 DEF TreeRight
<1>6. /\ Grown(config, call, tree) /\ StartsWithIt(call, tree)
      /\ \A n \in ToSet(tree.expected) : Complete(catalog, config, n, tree.visited)
      /\ IncludedUpTo(catalog, config, call, tree.visited, Len(catalog[node[1]]))
  BY <1>4, <1>5 DEF IsBuilt
<1>7. PICK graph \in Seq(nodes \X nodes), expected \in Seq(nodes) :
         graph = tree.graph /\ expected = tree.expected
  BY DEF Results
<1>8. tree.visited = ToSet(expected)
  BY <1>4, <1>6, <1>7 DEF Grown
<1>9. expected # <<>> /\ expected[1] = node /\ Once(expected)
  BY <1>4, <1>6, <1>7 DEF StartsWithIt, Grown
<1>10. \A n \in ToSet(expected) \ {node} :
          n[1] \notin Disabled(config) /\ \E m \in ToSet(expected) : <<m, n>> \in ToSet(graph)
  BY <1>4, <1>6, <1>7 DEF Grown
<1>11. \A e \in ToSet(graph) : e[1] \in ToSet(expected) /\ e[2] \in ToSet(expected)
  BY <1>6, <1>7, <1>8 DEF Grown
<1>12. ASSUME NEW dep \in ToSet(catalog[node[1]]), Include(config, Root, dep)
       PROVE  ChildOf(config, Root, dep) \in ToSet(expected)
  <2>1. PICK listed \in Seq(Dependency) : listed = catalog[node[1]]
    BY <1>2, NodesSuit
  <2>2. PICK i \in 1 .. Len(listed) : dep = listed[i]
    BY <2>1 DEF ToSet
  <2> QED
    BY <1>4, <1>6, <1>8, <1>12, <2>1, <2>2 DEF IncludedUpTo
<1>13. ASSUME NEW n \in ToSet(expected), NEW dep \in ToSet(catalog[n[1]]), Undisputed(config, dep)
       PROVE  \E m \in ToSet(expected) : m[1] = dep.name
  BY <1>6, <1>7, <1>8, <1>13 DEF Complete
<1>14. ValidateDependencies(graph, expected, expected).valid
  <2>1. \A i \in DOMAIN graph : graph[i][2] \in ToSet(expected)
    BY <1>11 DEF ToSet
  <2>2. ValidationRight(graph, expected, expected, ValidateDependencies(graph, expected, expected))
    BY ValidationIsRight
  <2> QED
    BY <2>1, <2>2 DEF ValidationRight
<1> QED
  BY <1>7, <1>9, <1>10, <1>11, <1>12, <1>13, <1>14 DEF TreeRight, Once

-----------------------------------------------------------------------------
AddonsIInv == task \in AddonTasks /\ out \in {<<>>, <<AddonAnswer(task)>>}

(* An answer is right, whatever function is asked and for whatever.        *)
LEMMA AddonAnswerIsRight ==
  ASSUME task \in AddonTasks, out = <<AddonAnswer(task)>>
  PROVE  AddonsRight
<1>1. out[1] = AddonAnswer(task)
  OBVIOUS
<1>2. CASE task.kind = "permutations"
  <2>1. PermutationsFor(task.deps, task.skips)
    BY <1>2, AddonTasksAssumption
  <2>2. out[1] = GeneratePermutationsWithFlavors(task.deps, task.skips)
    BY <1>1, <1>2 DEF AddonAnswer
  <2>3. PermutationsRight(task.deps, task.skips, out[1])
    BY <2>1, <2>2, PermutationsAreRight
  <2> QED
    BY <1>2, <2>3 DEF AddonsRight, Answered
<1>3. CASE task.kind = "validation"
  <2>1. ValidationTask(task)
    BY <1>3, AddonTasksAssumption
  <2>2. out[1] = ValidateDependencies(task.graph, task.expected, task.deployed)
    BY <1>1, <1>3 DEF AddonAnswer
  <2>3. ValidationRight(task.graph, task.expected, task.deployed, out[1])
    BY <2>1, <2>2, ValidationIsRight DEF ValidationTask
  <2> QED
    BY <1>3, <2>3 DEF AddonsRight, Answered
<1>4. CASE task.kind = "cycles"
  <2>1. CycleTask(task)
    BY <1>4, AddonTasksAssumption
  <2>2. out[1] = DetectCircularDependencies(task.graph, task.roots)
    BY <1>1, <1>4 DEF AddonAnswer
  <2>3. CyclesRight(task.graph, out[1])
    BY <2>1, <2>2, CyclesAreRight DEF CycleTask
  <2> QED
    BY <1>4, <2>3 DEF AddonsRight, Answered
<1>5. CASE task.kind = "verdict"
  <2>1. VerdictTask(task)
    BY <1>5, AddonTasksAssumption
  <2>2. out[1] = Verdict(task.opts, task.configs, task.valid)
    BY <1>1, <1>5 DEF AddonAnswer
  <2>3. VerdictRight(task.opts, task.configs, task.valid, out[1])
    BY <2>1, <2>2, VerdictIsRight DEF VerdictTask
  <2> QED
    BY <1>5, <2>3 DEF AddonsRight, Answered
<1>6. CASE task.kind = "required"
  <2>1. RequiredTask(task)
    BY <1>6, AddonTasksAssumption
  <2>2. out[1] = ProcessRequiredDependencies(task.catalog, task.config)
    BY <1>1, <1>6 DEF AddonAnswer
  <2>3. RequiredRight(task.catalog, task.config, out[1])
    BY <2>1, <2>2, RequiredAreEnabled DEF RequiredTask
  <2> QED
    BY <1>6, <2>3 DEF AddonsRight, Answered
<1>7. CASE task.kind = "tree"
  <2>1. TreeFor(task.catalog, task.node, task.config)
    BY <1>7, AddonTasksAssumption
  <2>2. out[1] = BuildDependencyGraph(task.catalog, task.node, task.config)
    BY <1>1, <1>7 DEF AddonAnswer
  <2>3. TreeRight(task.catalog, task.node, task.config, out[1])
    BY <2>1, <2>2, TreesAreRight
  <2> QED
    BY <1>7, <2>3 DEF AddonsRight, Answered
<1> QED
  BY <1>2, <1>3, <1>4, <1>5, <1>6, <1>7, AddonTasksAssumption

(* Everything that an addon test tries and decides is right, for all       *)
(* arguments that its functions may have: the cases of a permutation run,  *)
(* the comparison with what is expected, the search for circles, the       *)
(* verdict, the dependencies that are enabled because they are required,   *)
(* and the tree of those that are enabled.                                 *)
THEOREM AddonDecisionsSafe == AddonsSpec => []AddonsRight
<1>1. AddonsInit => AddonsIInv
  BY DEF AddonsInit, AddonsIInv
<1>2. AddonsIInv /\ [AddonsNext]_<<task, out>> => AddonsIInv'
  <2> SUFFICES ASSUME AddonsIInv, [AddonsNext]_<<task, out>> PROVE AddonsIInv'
    OBVIOUS
  <2>1. task' = task
    BY DEF AddonsNext
  <2>2. AddonAnswer(task)' = AddonAnswer(task)
    BY <2>1
  <2>3. out' \in {out, <<AddonAnswer(task)>>}
    BY DEF AddonsNext
  <2> QED
    BY <2>1, <2>2, <2>3 DEF AddonsIInv
<1>3. AddonsIInv => AddonsRight
  <2>1. CASE out = <<>>
    BY <2>1 DEF AddonsRight, Answered
  <2>2. CASE task \in AddonTasks /\ out = <<AddonAnswer(task)>>
    BY <2>2, AddonAnswerIsRight
  <2> QED
    BY <2>1, <2>2 DEF AddonsIInv
<1> QED
  BY <1>1, <1>2, <1>3, PTL DEF AddonsSpec
=============================================================================
