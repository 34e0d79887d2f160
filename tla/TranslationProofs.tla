-------------------------- MODULE TranslationProofs --------------------------
(***************************************************************************)
(* Facts about words, memory and page tables that the proofs about the     *)
(* modules over them share, for any memory, any tables and any number of   *)
(* levels.                                                                 *)
(***************************************************************************)
EXTENDS Translation, WellFoundedInduction, TLAPS

-----------------------------------------------------------------------------
(* Steps and numbers *)

\* A set that has zero, and with a number the next one, has all up to n.
LEMMA StepByStep ==
  ASSUME NEW n \in Nat, NEW S, 0 \in S, \A k \in 1 .. n : k - 1 \in S => k \in S
  PROVE  0 .. n \subseteq S
<1> DEFINE bad == (0 .. n) \ S
           less == OpToRel(<, Nat)
<1> SUFFICES ASSUME bad # {} PROVE FALSE
  OBVIOUS
<1>1. PICK k \in bad : \A j \in bad : <<j, k>> \notin less
  <2>1. IsWellFoundedOn(less, Nat)
    BY NatLessThanWellFounded DEF less
  <2>2. bad \subseteq Nat
    OBVIOUS
  <2> HIDE DEF bad, less
  <2> QED
    BY <2>1, <2>2, WFMin
<1>2. k \in 1 .. n /\ k \notin S
  OBVIOUS
<1>3. <<k - 1, k>> \in less
  BY <1>2 DEF OpToRel
<1> HIDE DEF less
<1>4. k - 1 \notin bad
  BY <1>1, <1>3
<1>5. k - 1 \in S
  BY <1>2, <1>4
<1> QED
  BY <1>2, <1>5

\* f begins with base and takes a step for each number from one up to n.
Steps(f, n, base, step) == f[0] = base /\ \A b \in 1 .. n : f[b] = step[b][f[b - 1]]

\* Steps from values of T to values of T can be taken one after another.
LEMMA Iterated ==
  ASSUME NEW n \in Nat, NEW T, NEW base \in T, NEW step \in [1 .. n -> [T -> T]]
  PROVE  \E f \in [0 .. n -> T] : Steps(f, n, base, step)
<1> DEFINE good == {k \in 0 .. n : \E f \in [0 .. k -> T] : Steps(f, k, base, step)}
<1>1. 0 \in good
  <2> DEFINE f == [b \in 0 .. 0 |-> base]
  <2>1. f \in [0 .. 0 -> T] /\ Steps(f, 0, base, step)
    BY DEF Steps
  <2> HIDE DEF f
  <2> QED
    BY <2>1
<1>2. ASSUME NEW k \in 1 .. n, k - 1 \in good PROVE k \in good
  <2>1. PICK f \in [0 .. k - 1 -> T] : Steps(f, k - 1, base, step)
    BY <1>2
  <2> DEFINE g == [b \in 0 .. k |-> IF b = k THEN step[k][f[k - 1]] ELSE f[b]]
  <2>2. f[k - 1] \in T
    OBVIOUS
  <2>3. step[k][f[k - 1]] \in T
    BY <2>2
  <2>4. g \in [0 .. k -> T]
    <3>1. \A b \in 0 .. k : b # k => f[b] \in T
      OBVIOUS
    <3> QED
      BY <2>3, <3>1
  <2>5. \A b \in 0 .. k - 1 : g[b] = f[b]
    OBVIOUS
  <2>6. g[k] = step[k][g[k - 1]]
    BY <2>5
  <2> HIDE DEF g
  <2>7. Steps(g, k, base, step)
    <3>1. g[0] = base
      BY <2>1, <2>5 DEF Steps
    <3>2. ASSUME NEW b \in 1 .. k PROVE g[b] = step[b][g[b - 1]]
      <4>1. CASE b = k
        BY <2>6, <4>1
      <4>2. CASE b # k
        <5>1. b \in 1 .. k - 1 /\ b \in 0 .. k - 1 /\ b - 1 \in 0 .. k - 1
          BY <4>2
        <5>2. g[b] = f[b] /\ g[b - 1] = f[b - 1]
          BY <2>5, <5>1
        <5> QED
          BY <2>1, <5>1, <5>2 DEF Steps
      <4> QED
        BY <4>1, <4>2
    <3> QED
      BY <3>1, <3>2 DEF Steps
  <2> QED
    BY <2>4, <2>7
<1>3. n \in good
  <2> HIDE DEF good
  <2>1. 0 .. n \subseteq good
    BY <1>1, <1>2, StepByStep
  <2> QED
    BY <2>1
<1> QED
  BY <1>3

\* Steps from values of T to values of T lead to one.
LEMMA AfterIs ==
  ASSUME NEW n \in Nat, NEW T, NEW base \in T, NEW step \in [1 .. n -> [T -> T]]
  PROVE  \E f \in [0 .. n -> T] : Steps(f, n, base, step) /\ After(n, base, step) = f[n]
<1> DEFINE IsAfter(f) == f = [k \in 0 .. n |-> IF k = 0 THEN base ELSE step[k][f[k - 1]]]
           after == CHOOSE f : IsAfter(f)
<1>1. After(n, base, step) = after[n]
  BY DEF After
<1>2. PICK g \in [0 .. n -> T] : Steps(g, n, base, step)
  BY Iterated
<1>3. IsAfter(g)
  <2>1. \A k \in 0 .. n : g[k] = IF k = 0 THEN base ELSE step[k][g[k - 1]]
    BY <1>2 DEF Steps
  <2>2. g = [k \in 0 .. n |-> g[k]]
    OBVIOUS
  <2> QED
    BY <2>1, <2>2
<1>4. IsAfter(after)
  BY <1>3, Zenon
<1> HIDE DEF after
<1>5. \A k \in 0 .. n : after[k] = IF k = 0 THEN base ELSE step[k][after[k - 1]]
  BY <1>4, Zenon
<1>6. Steps(after, n, base, step)
  BY <1>5 DEF Steps
<1>7. \A k \in 0 .. n : after[k] \in T
  <2> DEFINE S == {k \in 0 .. n : after[k] \in T}
  <2>1. 0 \in S
    BY <1>5
  <2>2. ASSUME NEW k \in 1 .. n, k - 1 \in S PROVE k \in S
    BY <1>5, <2>2
  <2> HIDE DEF S
  <2>3. 0 .. n \subseteq S
    BY <2>1, <2>2, StepByStep
  <2> QED
    BY <2>3 DEF S
<1>8. after \in [0 .. n -> T]
  <2>1. after = [k \in 0 .. n |-> after[k]]
    BY <1>4
  <2> QED
    BY <1>7, <2>1
<1> QED
  BY <1>1, <1>6, <1>8

\* What steps on values of T make of one is one.
LEMMA AfterType ==
  ASSUME NEW n \in Nat, NEW T, NEW base \in T, NEW step \in [1 .. n -> [T -> T]]
  PROVE  After(n, base, step) \in T
BY AfterIs

\* A set of positions has a lowest one, which Min gives.
LEMMA MinIs ==
  ASSUME NEW S \in SUBSET Nat, S # {} PROVE Min(S) \in S /\ \A x \in S : Min(S) <= x
<1> DEFINE less == OpToRel(<, Nat)
<1>1. PICK k \in S : \A j \in S : <<j, k>> \notin less
  <2>1. IsWellFoundedOn(less, Nat)
    BY NatLessThanWellFounded DEF less
  <2> HIDE DEF less
  <2> QED
    BY <2>1, WFMin
<1>2. \A j \in S : ~(j < k)
  BY <1>1 DEF OpToRel
<1> HIDE DEF less
<1>3. \A j \in S : k <= j
  BY <1>2
<1>4. \A x \in S : (\A y \in S : x <= y) => x = k
  BY <1>3
<1> QED
  BY <1>3, <1>4 DEF Min

\* The greatest element of a set is its maximum.
LEMMA MaxIs ==
  ASSUME NEW S \in SUBSET Int, NEW m \in S, \A x \in S : x <= m
  PROVE  Max(S) = m
<1>1. \A x \in S : (\A y \in S : x >= y) => x = m
  OBVIOUS
<1>2. \A y \in S : m >= y
  OBVIOUS
<1> QED
  BY <1>1, <1>2 DEF Max

\* A set of numbers up to a bound that is not empty has a highest one.
LEMMA HighestExists ==
  ASSUME NEW count \in Nat, NEW S \in SUBSET (0 .. count - 1), S # {}
  PROVE  \E m \in S : \A x \in S : x <= m
<1> DEFINE depths == {count - 1 - x : x \in S}
           less == OpToRel(<, Nat)
<1>1. depths \subseteq Nat /\ depths # {}
  <2>1. \A x \in S : count - 1 - x \in Nat
    OBVIOUS
  <2>2. PICK x \in S : TRUE
    OBVIOUS
  <2>3. count - 1 - x \in depths
    OBVIOUS
  <2> QED
    BY <2>1, <2>3
<1>2. PICK k \in depths : \A j \in depths : <<j, k>> \notin less
  <2>1. IsWellFoundedOn(less, Nat)
    BY NatLessThanWellFounded DEF less
  <2> HIDE DEF depths, less
  <2> QED
    BY <1>1, <2>1, WFMin
<1>3. \A j \in depths : ~(j < k)
  BY <1>1, <1>2 DEF OpToRel
<1> HIDE DEF less
<1>4. PICK m \in S : k = count - 1 - m
  OBVIOUS
<1>5. ASSUME NEW x \in S PROVE x <= m
  <2>1. ~(count - 1 - x < k)
    BY <1>3
  <2> QED
    BY <1>4, <2>1
<1> QED
  BY <1>5

-----------------------------------------------------------------------------
(* Words *)

\* A sum is a word.
LEMMA AddType == ASSUME NEW n, NEW v \in WordsOf(n), NEW w \in WordsOf(n)
                 PROVE  Add(v, w, n) \in WordsOf(n)
BY DEF Add, WordsOf

\* A negation is a word.
LEMMA NegType == ASSUME NEW n \in Nat, NEW w \in WordsOf(n) PROVE Neg(w, n) \in WordsOf(n)
<1>1. CASE w = {}
  BY <1>1 DEF Neg, WordsOf
<1>2. CASE w # {}
  <2>1. w \in SUBSET Nat
    BY DEF WordsOf
  <2>2. Min(w) \in w
    BY <1>2, <2>1, MinIs
  <2>3. Min(w) \in 0 .. n - 1
    BY <2>2 DEF WordsOf
  <2> QED
    BY <1>2, <2>3 DEF Neg, WordsOf
<1> QED
  BY <1>1, <1>2

\* A difference is a word.
LEMMA SubType == ASSUME NEW n \in Nat, NEW v \in WordsOf(n), NEW w \in WordsOf(n)
                 PROVE  Sub(v, w, n) \in WordsOf(n)
BY NegType, AddType DEF Sub

\* A shift is cut to the word.
LEMMA ShlType == \A v, s, n : Shl(v, s, n) \in WordsOf(n)
BY DEF Shl, WordsOf

\* The positions of a shifted word.
LEMMA ShlIs ==
  ASSUME NEW w \in SUBSET Int, NEW s \in Int, NEW n \in Int
  PROVE  \A x : x \in Shl(w, s, n) <=> x \in 0 .. n - 1 /\ x - s \in w
<1> SUFFICES ASSUME NEW x PROVE x \in Shl(w, s, n) <=> x \in 0 .. n - 1 /\ x - s \in w
  OBVIOUS
<1>1. ASSUME x \in Shl(w, s, n) PROVE x \in 0 .. n - 1 /\ x - s \in w
  <2>1. PICK b \in w : x = b + s
    BY <1>1 DEF Shl
  <2> QED
    BY <1>1, <2>1 DEF Shl
<1>2. ASSUME x \in 0 .. n - 1, x - s \in w PROVE x \in Shl(w, s, n)
  <2>1. x = (x - s) + s
    BY <1>2
  <2> QED
    BY <1>2, <2>1 DEF Shl
<1> QED
  BY <1>1, <1>2

\* A right shift drops what is below its amount.
LEMMA ShrIs ==
  ASSUME NEW w \in SUBSET Int, NEW s \in Int
  PROVE  \A x : x \in Shr(w, s) <=> x \in Nat /\ x + s \in w
<1> SUFFICES ASSUME NEW x PROVE x \in Shr(w, s) <=> x \in Nat /\ x + s \in w
  OBVIOUS
<1>1. ASSUME x \in Shr(w, s) PROVE x \in Nat /\ x + s \in w
  <2>1. PICK b \in w : x = b - s /\ b >= s
    BY <1>1 DEF Shr
  <2> QED
    BY <2>1
<1>2. ASSUME x \in Nat, x + s \in w PROVE x \in Shr(w, s)
  <2>1. x = (x + s) - s /\ x + s >= s
    BY <1>2
  <2> QED
    BY <1>2, <2>1 DEF Shr
<1> QED
  BY <1>1, <1>2

\* A product is a word.
LEMMA MulType ==
  ASSUME NEW n \in Nat, NEW v, NEW w PROVE Mul(v, w, n) \in WordsOf(n)
<1> DEFINE T == WordsOf(n)
           next(b, sum) == IF b - 1 \in w THEN Add(sum, Shl(v, b - 1, n), n) ELSE sum
           step == [b \in 1 .. n |-> [sum \in T |-> next(b, sum)]]
           none == {}
<1>1. \A b, sum : sum \in T => next(b, sum) \in T
  BY AddType, ShlType
<1>2. none \in T
  BY DEF WordsOf
<1>3. Mul(v, w, n) = After(n, none, step)
  BY DEF Mul
<1> HIDE DEF next, T, none
<1>4. step \in [1 .. n -> [T -> T]]
  BY <1>1
<1> HIDE DEF step
<1> QED
  BY <1>2, <1>3, <1>4, AfterType DEF T

\* A quotient and a remainder are words.
LEMMA DivideType ==
  ASSUME NEW n \in Nat, NEW v, NEW w \in WordsOf(n)
  PROVE  DivideU(v, w, n) \in [quot : WordsOf(n), rem : WordsOf(n)]
<1> DEFINE T == [quot : WordsOf(n), rem : WordsOf(n)]
           shifted(k, before) == Shl(before.rem, 1, n + 1) \cup Shr(v \cap {n - k}, n - k)
           next(k, before) ==
             IF LessU(shifted(k, before), w) THEN [before EXCEPT !.rem = shifted(k, before)]
             ELSE [quot |-> before.quot \cup {n - k},
                   rem |-> Sub(shifted(k, before), w, n + 1) \cap 0 .. n - 1]
           step == [k \in 1 .. n |-> [before \in T |-> next(k, before)]]
           none == [quot |-> {}, rem |-> {}]
<1>1. ASSUME NEW k \in 1 .. n, NEW before \in T PROVE next(k, before) \in T
  <2>1. shifted(k, before) \in WordsOf(n + 1)
    BY DEF Shl, Shr, WordsOf
  <2> HIDE DEF shifted
  <2>2. LessU(shifted(k, before), w) => shifted(k, before) \in WordsOf(n)
    <3> SUFFICES ASSUME LessU(shifted(k, before), w), n \in shifted(k, before) PROVE FALSE
      BY <2>1 DEF WordsOf
    <3>1. PICK b \in w : \A c \in Xor(shifted(k, before), w) : c <= b
      BY DEF LessU
    <3>2. b \in 0 .. n - 1 /\ n \notin w
      BY DEF WordsOf
    <3>3. n \in Xor(shifted(k, before), w)
      BY <3>2 DEF Xor
    <3> QED
      BY <3>1, <3>2, <3>3
  <2>3. before.quot \cup {n - k} \in WordsOf(n)
    BY DEF WordsOf
  <2>4. Sub(shifted(k, before), w, n + 1) \cap 0 .. n - 1 \in WordsOf(n)
    BY DEF WordsOf
  <2> QED
    BY <2>2, <2>3, <2>4
<1>2. none \in T
  BY DEF WordsOf
<1>3. DivideU(v, w, n) = After(n, none, step)
  BY DEF DivideU
<1> HIDE DEF next, T, none
<1>4. step \in [1 .. n -> [T -> T]]
  BY <1>1
<1> HIDE DEF step
<1>5. After(n, none, step) \in T
  BY <1>2, <1>4, AfterType
<1> QED
  BY <1>3, <1>5 DEF T

\* An absolute value is a word.
LEMMA AbsType == ASSUME NEW n \in Nat, NEW w \in WordsOf(n) PROVE Abs(w, n) \in WordsOf(n)
BY NegType DEF Abs

\* A signed quotient and its remainder are words.
LEMMA SignedDivideType ==
  ASSUME NEW n \in Nat, NEW v \in WordsOf(n), NEW w \in WordsOf(n)
  PROVE  QuotS(v, w, n) \in WordsOf(n) /\ RemS(v, w, n) \in WordsOf(n)
<1> DEFINE both == DivideU(Abs(v, n), Abs(w, n), n)
<1>1. both.quot \in WordsOf(n) /\ both.rem \in WordsOf(n)
  BY AbsType, DivideType
<1> HIDE DEF both
<1>2. Neg(both.quot, n) \in WordsOf(n) /\ Neg(both.rem, n) \in WordsOf(n)
  BY <1>1, NegType
<1> QED
  BY <1>1, <1>2 DEF QuotS, RemS, both

-----------------------------------------------------------------------------
(* The lower positions of what is computed depend on those of the operands alone *)

\* A carry reaches a position from one below it that both have, over positions that one has.
LEMMA CarriesIs ==
  ASSUME NEW n \in Nat, NEW v \in WordsOf(n), NEW w \in WordsOf(n), NEW x \in 0 .. n
  PROVE  x \in Carries(v, w, n) <=> \E c \in v \cap w : c < x /\ \A y \in c + 1 .. x - 1 : y \in v \cup w
<1>1. ASSUME NEW c \in v \cap w
      PROVE  x \in c + 1 .. Min((c + 1 .. n) \ (v \cup w))
             <=> c < x /\ \A y \in c + 1 .. x - 1 : y \in v \cup w
  <2> DEFINE stops == (c + 1 .. n) \ (v \cup w)
             m == Min(stops)
  <2>1. c \in 0 .. n - 1 /\ n \notin v \cup w /\ stops \in SUBSET Nat
    BY DEF WordsOf
  <2>2. n \in stops
    BY <2>1
  <2>3. m \in stops /\ \A y \in stops : m <= y
    <3> HIDE DEF stops
    <3> QED
      BY <2>1, <2>2, MinIs
  <2>4. m \in c + 1 .. n /\ m \notin v \cup w /\ \A y \in c + 1 .. n : y \notin v \cup w => m <= y
    BY <2>3
  <2> HIDE DEF m, stops
  <2>5. x \in c + 1 .. m <=> c < x /\ \A y \in c + 1 .. x - 1 : y \in v \cup w
    BY <2>1, <2>4
  <2> QED
    BY <2>5 DEF m, stops
<1>2. x \in Carries(v, w, n) <=> \E c \in v \cap w : x \in c + 1 .. Min((c + 1 .. n) \ (v \cup w))
  BY DEF Carries
<1> QED
  BY <1>1, <1>2

\* A sum has the positions that one of both and the carry have, or all three.
LEMMA AddIs ==
  ASSUME NEW n \in Nat, NEW v \in WordsOf(n), NEW w \in WordsOf(n)
  PROVE  Add(v, w, n) = Xor(Xor(v, w), Carries(v, w, n)) \cap 0 .. n - 1
<1>1. CASE v \cap w = {}
  <2>1. Carries(v, w, n) = {}
    BY <1>1 DEF Carries
  <2>2. Xor(v, w) = v \cup w /\ v \cup w \subseteq 0 .. n - 1
    BY <1>1 DEF Xor, WordsOf
  <2> QED
    BY <1>1, <2>1, <2>2 DEF Add, Xor
<1>2. CASE v \cap w # {}
  BY <1>2 DEF Add
<1> QED
  BY <1>1, <1>2

\* The lower positions of a sum are those of the sum of the lower positions.
LEMMA LowerAdd ==
  ASSUME NEW n \in Nat, NEW m \in 0 .. n, NEW v \in WordsOf(n), NEW w \in WordsOf(n)
  PROVE  Add(v, w, n) \cap 0 .. m - 1 = Add(v \cap 0 .. m - 1, w \cap 0 .. m - 1, m)
<1> DEFINE low == 0 .. m - 1
           lv == v \cap low
           lw == w \cap low
<1>1. m \in Nat /\ lv \in WordsOf(m) /\ lw \in WordsOf(m) /\ low \subseteq 0 .. n - 1
  BY DEF WordsOf
<1>2. ASSUME NEW x \in low PROVE x \in Carries(v, w, n) <=> x \in Carries(lv, lw, m)
  <2>1. x \in 0 .. n /\ x \in 0 .. m
    OBVIOUS
  <2>2. x \in Carries(v, w, n) <=> \E c \in v \cap w : c < x /\ \A y \in c + 1 .. x - 1 : y \in v \cup w
    BY <2>1, CarriesIs
  <2>3. x \in Carries(lv, lw, m)
        <=> \E c \in lv \cap lw : c < x /\ \A y \in c + 1 .. x - 1 : y \in lv \cup lw
    <3> HIDE DEF lv, lw
    <3> QED
      BY <1>1, <2>1, CarriesIs
  <2>4. \A c \in v \cap w : c < x => c \in lv \cap lw
    BY DEF WordsOf
  <2>5. \A c \in lv \cap lw : \A y \in c + 1 .. x - 1 : y \in low
    OBVIOUS
  <2>6. lv \cap lw \subseteq v \cap w
    OBVIOUS
  <2>7. \A y \in low : y \in v \cup w <=> y \in lv \cup lw
    OBVIOUS
  <2> HIDE DEF lv, lw, low
  <2> QED
    BY <2>2, <2>3, <2>4, <2>5, <2>6, <2>7
<1>3. Add(v, w, n) = Xor(Xor(v, w), Carries(v, w, n)) \cap 0 .. n - 1
  BY AddIs
<1>4. Add(lv, lw, m) = Xor(Xor(lv, lw), Carries(lv, lw, m)) \cap low
  <2> HIDE DEF lv, lw
  <2> QED
    BY <1>1, AddIs
<1> QED
  BY <1>1, <1>2, <1>3, <1>4 DEF Xor

\* The positions of a negation.
LEMMA NegIs ==
  ASSUME NEW n \in Nat, NEW w \in WordsOf(n), NEW x \in 0 .. n - 1
  PROVE  x \in Neg(w, n) <=> IF x \in w THEN \A y \in w : x <= y ELSE \E y \in w : y < x
<1>1. CASE w = {}
  BY <1>1 DEF Neg
<1>2. CASE w # {}
  <2> DEFINE m == Min(w)
  <2>1. w \in SUBSET Nat
    BY DEF WordsOf
  <2>2. m \in w /\ \A y \in w : m <= y
    BY <1>2, <2>1, MinIs
  <2>3. Neg(w, n) = {m} \cup ((m + 1 .. n - 1) \ w)
    BY <1>2 DEF Neg
  <2> HIDE DEF m
  <2> QED
    BY <2>1, <2>2, <2>3
<1> QED
  BY <1>1, <1>2

\* So is it with negations.
LEMMA LowerNeg ==
  ASSUME NEW n \in Nat, NEW m \in 0 .. n, NEW w \in WordsOf(n)
  PROVE  Neg(w, n) \cap 0 .. m - 1 = Neg(w \cap 0 .. m - 1, m)
<1> DEFINE low == 0 .. m - 1
           lw == w \cap low
<1>1. m \in Nat /\ lw \in WordsOf(m) /\ w \subseteq 0 .. n - 1
  BY DEF WordsOf
<1>2. ASSUME NEW x \in low PROVE x \in Neg(w, n) <=> x \in Neg(lw, m)
  <2>1. x \in Neg(w, n) <=> IF x \in w THEN \A y \in w : x <= y ELSE \E y \in w : y < x
    <3>1. x \in 0 .. n - 1
      OBVIOUS
    <3> QED
      BY <3>1, NegIs
  <2>2. x \in Neg(lw, m) <=> IF x \in lw THEN \A y \in lw : x <= y ELSE \E y \in lw : y < x
    <3> HIDE DEF lw
    <3> QED
      BY <1>1, NegIs
  <2>3. x \in w <=> x \in lw
    OBVIOUS
  <2>4. (\A y \in w : x <= y) <=> \A y \in lw : x <= y
    BY <1>1
  <2>5. (\E y \in w : y < x) <=> \E y \in lw : y < x
    BY <1>1
  <2> HIDE DEF lw
  <2> QED
    BY <2>1, <2>2, <2>3, <2>4, <2>5
<1>3. Neg(lw, m) \subseteq low
  <2> HIDE DEF lw
  <2> QED
    BY <1>1, NegType DEF WordsOf
<1> QED
  BY <1>2, <1>3

\* And with differences.
LEMMA LowerSub ==
  ASSUME NEW n \in Nat, NEW m \in 0 .. n, NEW v \in WordsOf(n), NEW w \in WordsOf(n)
  PROVE  Sub(v, w, n) \cap 0 .. m - 1 = Sub(v \cap 0 .. m - 1, w \cap 0 .. m - 1, m)
BY NegType, LowerNeg, LowerAdd DEF Sub

\* And with products.
LEMMA LowerMul ==
  ASSUME NEW n \in Nat, NEW m \in 0 .. n, NEW v \in WordsOf(n), NEW w \in WordsOf(n)
  PROVE  Mul(v, w, n) \cap 0 .. m - 1 = Mul(v \cap 0 .. m - 1, w \cap 0 .. m - 1, m)
<1> DEFINE low == 0 .. m - 1
           lv == v \cap low
           lw == w \cap low
           none == {}
           T == WordsOf(n)
           LT == WordsOf(m)
           next(b, sum) == IF b - 1 \in w THEN Add(sum, Shl(v, b - 1, n), n) ELSE sum
           step == [b \in 1 .. n |-> [sum \in T |-> next(b, sum)]]
           lnext(b, sum) == IF b - 1 \in lw THEN Add(sum, Shl(lv, b - 1, m), m) ELSE sum
           lstep == [b \in 1 .. m |-> [sum \in LT |-> lnext(b, sum)]]
<1>1. m \in Nat /\ v \subseteq 0 .. n - 1 /\ w \subseteq 0 .. n - 1
  BY DEF WordsOf
<1>2. PICK f \in [0 .. n -> T] : Steps(f, n, none, step) /\ Mul(v, w, n) = f[n]
  <2>1. \A b, sum : sum \in T => next(b, sum) \in T
    BY AddType, ShlType
  <2>2. none \in T
    BY DEF WordsOf
  <2>3. Mul(v, w, n) = After(n, none, step)
    BY DEF Mul
  <2> HIDE DEF next, T, none
  <2>4. step \in [1 .. n -> [T -> T]]
    BY <2>1
  <2> HIDE DEF step
  <2> QED
    BY <2>2, <2>3, <2>4, AfterIs
<1>3. PICK g \in [0 .. m -> LT] : Steps(g, m, none, lstep) /\ Mul(lv, lw, m) = g[m]
  <2>1. \A b, sum : sum \in LT => lnext(b, sum) \in LT
    BY AddType, ShlType
  <2>2. none \in LT
    BY DEF WordsOf
  <2>3. Mul(lv, lw, m) = After(m, none, lstep)
    BY DEF Mul
  <2> HIDE DEF lnext, LT, none, lv, lw
  <2>4. lstep \in [1 .. m -> [LT -> LT]]
    BY <2>1
  <2> HIDE DEF lstep
  <2> QED
    BY <1>1, <2>2, <2>3, <2>4, AfterIs
<1>4. ASSUME NEW k \in 1 .. n, NEW sum \in T
      PROVE  next(k, sum) \cap low = (IF k <= m THEN lnext(k, sum \cap low) ELSE sum \cap low)
  <2> DEFINE shifted == Shl(v, k - 1, n)
  <2>1. shifted \cap low = (IF k <= m THEN Shl(lv, k - 1, m) ELSE {})
    <3>1. \A x \in Int : x \in shifted <=> x - (k - 1) \in v /\ x \in 0 .. n - 1
      BY <1>1, ShlIs
    <3>2. \A x \in Int : x \in Shl(lv, k - 1, m) <=> x - (k - 1) \in lv /\ x \in low
      BY <1>1, ShlIs
    <3>3. \A x \in shifted \cup Shl(lv, k - 1, m) : x \in Int
      BY DEF Shl
    <3>4. \A x \in low : x - (k - 1) \in v => k <= m /\ x - (k - 1) \in lv
      BY <1>1
    <3>5. low \subseteq 0 .. n - 1 /\ low \subseteq Int
      OBVIOUS
    <3> HIDE DEF shifted
    <3> QED
      BY <3>1, <3>2, <3>3, <3>4, <3>5
  <2>2. shifted \in WordsOf(n)
    BY ShlType
  <2> HIDE DEF shifted
  <2>3. Add(sum, shifted, n) \cap low = Add(sum \cap low, shifted \cap low, m)
    BY <2>2, LowerAdd
  <2>4. Add(sum \cap low, {}, m) = sum \cap low
    BY DEF Add
  <2>5. k <= m => (k - 1 \in w <=> k - 1 \in lw)
    OBVIOUS
  <2> HIDE DEF lw, lv
  <2> QED
    BY <2>1, <2>3, <2>4, <2>5 DEF shifted
<1>5. f[0] = none /\ g[0] = none
  BY <1>2, <1>3 DEF Steps
<1>6. \A k \in 1 .. n : f[k - 1] \in T /\ f[k] = next(k, f[k - 1])
  <2> HIDE DEF next, T
  <2>1. ASSUME NEW k \in 1 .. n PROVE f[k - 1] \in T /\ f[k] = next(k, f[k - 1])
    <3>1. f[k - 1] \in T /\ f[k] = step[k][f[k - 1]]
      BY <1>2 DEF Steps
    <3> QED
      BY <3>1
  <2> QED
    BY <2>1
<1>7. \A k \in 1 .. m : g[k] = lnext(k, g[k - 1])
  <2> HIDE DEF lnext, LT
  <2>1. ASSUME NEW k \in 1 .. m PROVE g[k] = lnext(k, g[k - 1])
    <3>1. g[k - 1] \in LT /\ g[k] = lstep[k][g[k - 1]]
      BY <1>1, <1>3 DEF Steps
    <3> QED
      BY <3>1
  <2> QED
    BY <2>1
<1> DEFINE upTo(k) == IF k <= m THEN k ELSE m
           S == {k \in 0 .. n : f[k] \cap low = g[upTo(k)]}
<1>8. 0 \in S
  BY <1>1, <1>5
<1>9. ASSUME NEW k \in 1 .. n, k - 1 \in S PROVE k \in S
  <2> HIDE DEF next, lnext
  <2>1. f[k] \cap low = (IF k <= m THEN lnext(k, f[k - 1] \cap low) ELSE f[k - 1] \cap low)
    BY <1>4, <1>6
  <2>2. f[k - 1] \cap low = g[upTo(k - 1)]
    BY <1>9
  <2>3. CASE k <= m
    <3>1. upTo(k) = k /\ upTo(k - 1) = k - 1 /\ k \in 1 .. m
      BY <1>1, <2>3
    <3>2. f[k - 1] \cap low = g[k - 1]
      BY <2>2, <3>1
    <3>3. f[k] \cap low = g[k]
      BY <1>7, <2>1, <2>3, <3>1, <3>2
    <3> QED
      BY <3>1, <3>3
  <2>4. CASE ~(k <= m)
    <3>1. upTo(k) = m /\ upTo(k - 1) = m
      BY <1>1, <2>4
    <3> QED
      BY <2>1, <2>2, <2>4, <3>1
  <2> QED
    BY <2>3, <2>4
<1> HIDE DEF S
<1>10. n \in S
  <2>1. 0 .. n \subseteq S
    BY <1>8, <1>9, StepByStep
  <2> QED
    BY <2>1
<1> QED
  BY <1>1, <1>2, <1>3, <1>10 DEF S

-----------------------------------------------------------------------------
(* Values of short words *)

\* The powers of two that short words need.
LEMMA Powers == /\ 2 ^ 0 = 1 /\ 2 ^ 1 = 2 /\ 2 ^ 2 = 4 /\ 2 ^ 3 = 8
                /\ 2 ^ 4 = 16 /\ 2 ^ 5 = 32 /\ 2 ^ 6 = 64
OBVIOUS

One(w, b) == IF b \in w THEN 1 ELSE 0

\* The value of a word of at most seven bits.
LEMMA ValueIs ==
  ASSUME NEW w \in WordsOf(7)
  PROVE  Value(w) = One(w, 0) + 2 * One(w, 1) + 4 * One(w, 2) + 8 * One(w, 3)
                      + 16 * One(w, 4) + 32 * One(w, 5) + 64 * One(w, 6)
<1>1. CASE w = {}
  BY <1>1 DEF Value, One
<1>2. CASE w # {}
  <2>1. PICK m \in w : \A x \in w : x <= m
    BY <1>2, HighestExists DEF WordsOf
  <2>2. Max(w) = m /\ m \in 0 .. 6
    BY <2>1, MaxIs DEF WordsOf
  <2> DEFINE n == m + 1
             part(b) == IF b - 1 \in w THEN 2 ^ (b - 1) ELSE 0
             step == [b \in 1 .. n |-> [sum \in Nat |-> sum + part(b)]]
  <2>3. Value(w) = After(n, 0, step)
    BY <1>2, <2>2 DEF Value
  <2>4. part(1) = One(w, 0) /\ part(2) = 2 * One(w, 1) /\ part(3) = 4 * One(w, 2)
        /\ part(4) = 8 * One(w, 3) /\ part(5) = 16 * One(w, 4) /\ part(6) = 32 * One(w, 5)
        /\ part(7) = 64 * One(w, 6)
    BY Powers DEF One
  <2> HIDE DEF part
  <2>5. \A b \in 1 .. 7 : part(b) \in Nat
    <3>1. \A b \in 1 .. 7 : b = 1 \/ b = 2 \/ b = 3 \/ b = 4 \/ b = 5 \/ b = 6 \/ b = 7
      OBVIOUS
    <3>2. \A b : One(w, b) \in 0 .. 1
      BY DEF One
    <3> QED
      BY <2>4, <3>1, <3>2
  <2>6. step \in [1 .. n -> [Nat -> Nat]]
    BY <2>2, <2>5
  <2>7. \A b \in 1 .. n, sum \in Nat : step[b][sum] = sum + part(b)
    OBVIOUS
  <2> HIDE DEF step
  <2>8. PICK f \in [0 .. n -> Nat] : Steps(f, n, 0, step) /\ After(n, 0, step) = f[n]
    <3>1. n \in Nat
      BY <2>2
    <3> DEFINE T == Nat
               zero == 0
    <3>2. zero \in T /\ step \in [1 .. n -> [T -> T]]
      BY <2>6
    <3> HIDE DEF n, T, zero
    <3>3. \E f \in [0 .. n -> T] : Steps(f, n, zero, step) /\ After(n, zero, step) = f[n]
      BY <3>1, <3>2, AfterIs
    <3> QED
      BY <3>3 DEF T, zero
  <2>9. f[0] = 0 /\ \A b \in 1 .. n : f[b] = f[b - 1] + part(b)
    <3>1. \A b \in 1 .. n : f[b - 1] \in Nat
      BY <2>2
    <3> QED
      BY <2>7, <2>8, <3>1 DEF Steps
  <2>10. \A b \in 0 .. 6 : b > m => One(w, b) = 0
    BY <2>1, <2>2 DEF One
  <2>11. \A b : One(w, b) \in 0 .. 1
    BY DEF One
  <2>12. \A b \in 1 .. 7, c \in 0 .. 6 : b <= m + 1 /\ c = b - 1 => f[b] = f[c] + part(b)
    BY <2>2, <2>9
  <2>13. Value(w) = f[m + 1]
    BY <2>3, <2>8
  <2>14. m = 0 \/ m = 1 \/ m = 2 \/ m = 3 \/ m = 4 \/ m = 5 \/ m = 6
    BY <2>2
  <2> HIDE DEF n
  <2> QED
    <3>1. f[1] = One(w, 0)
      BY <2>2, <2>4, <2>9, <2>11, <2>12
    <3>2. m >= 1 => f[2] = One(w, 0) + 2 * One(w, 1)
      BY <2>2, <2>4, <2>11, <2>12, <3>1
    <3>3. m >= 2 => f[3] = One(w, 0) + 2 * One(w, 1) + 4 * One(w, 2)
      BY <2>2, <2>4, <2>11, <2>12, <3>2
    <3>4. m >= 3 => f[4] = One(w, 0) + 2 * One(w, 1) + 4 * One(w, 2) + 8 * One(w, 3)
      BY <2>2, <2>4, <2>11, <2>12, <3>3
    <3>5. m >= 4 => f[5] = One(w, 0) + 2 * One(w, 1) + 4 * One(w, 2) + 8 * One(w, 3)
                     + 16 * One(w, 4)
      BY <2>2, <2>4, <2>11, <2>12, <3>4
    <3>6. m >= 5 => f[6] = One(w, 0) + 2 * One(w, 1) + 4 * One(w, 2) + 8 * One(w, 3)
                     + 16 * One(w, 4) + 32 * One(w, 5)
      BY <2>2, <2>4, <2>11, <2>12, <3>5
    <3>7. m >= 6 => f[7] = One(w, 0) + 2 * One(w, 1) + 4 * One(w, 2) + 8 * One(w, 3)
                     + 16 * One(w, 4) + 32 * One(w, 5) + 64 * One(w, 6)
      BY <2>2, <2>4, <2>11, <2>12, <3>6
    <3>8. CASE m = 0
      <4>1. One(w, 1) = 0 /\ One(w, 2) = 0 /\ One(w, 3) = 0 /\ One(w, 4) = 0 /\ One(w, 5) = 0 /\ One(w, 6) = 0
        BY <2>10, <3>8
      <4>2. f[m + 1] = f[1]
        BY <3>8
      <4> QED
        BY <2>11, <2>13, <3>1, <3>8, <4>1, <4>2
    <3>9. CASE m = 1
      <4>1. One(w, 2) = 0 /\ One(w, 3) = 0 /\ One(w, 4) = 0 /\ One(w, 5) = 0 /\ One(w, 6) = 0
        BY <2>10, <3>9
      <4>2. f[m + 1] = f[2]
        BY <3>9
      <4> QED
        BY <2>11, <2>13, <3>2, <3>9, <4>1, <4>2
    <3>10. CASE m = 2
      <4>1. One(w, 3) = 0 /\ One(w, 4) = 0 /\ One(w, 5) = 0 /\ One(w, 6) = 0
        BY <2>10, <3>10
      <4>2. f[m + 1] = f[3]
        BY <3>10
      <4> QED
        BY <2>11, <2>13, <3>3, <3>10, <4>1, <4>2
    <3>11. CASE m = 3
      <4>1. One(w, 4) = 0 /\ One(w, 5) = 0 /\ One(w, 6) = 0
        BY <2>10, <3>11
      <4>2. f[m + 1] = f[4]
        BY <3>11
      <4> QED
        BY <2>11, <2>13, <3>4, <3>11, <4>1, <4>2
    <3>12. CASE m = 4
      <4>1. One(w, 5) = 0 /\ One(w, 6) = 0
        BY <2>10, <3>12
      <4>2. f[m + 1] = f[5]
        BY <3>12
      <4> QED
        BY <2>11, <2>13, <3>5, <3>12, <4>1, <4>2
    <3>13. CASE m = 5
      <4>1. One(w, 6) = 0
        BY <2>10, <3>13
      <4>2. f[m + 1] = f[6]
        BY <3>13
      <4> QED
        BY <2>11, <2>13, <3>6, <3>13, <4>1, <4>2
    <3>14. CASE m = 6
      <4>2. f[m + 1] = f[7]
        BY <3>14
      <4> QED
        BY <2>11, <2>13, <3>7, <3>14, <4>2
    <3> QED
      BY <2>14, <3>8, <3>9, <3>10, <3>11, <3>12, <3>13, <3>14
<1> QED
  BY <1>1, <1>2

\* A binary digit, and what is left of it.
LEMMA Binary ==
  \A x, q \in Nat, o \in 0 .. 1 : x = 2 * q + o => x % 2 = o /\ x \div 2 = q
<1> SUFFICES ASSUME NEW x, NEW q \in Nat, NEW o \in 0 .. 1, x = 2 * q + o
             PROVE  x % 2 = o /\ x \div 2 = q
  OBVIOUS
<1> QED
  OBVIOUS

\* The binary digits of a word's value are the word.
LEMMA BitsOfValue ==
  ASSUME NEW w \in WordsOf(7) PROVE Bits(Value(w)) \cap 0 .. 6 = w /\ Value(w) \in 0 .. 127
<1> DEFINE k == Value(w)
<1>1. k = One(w, 0) + 2 * One(w, 1) + 4 * One(w, 2) + 8 * One(w, 3)
            + 16 * One(w, 4) + 32 * One(w, 5) + 64 * One(w, 6)
  BY ValueIs
<1>2. \A b : One(w, b) \in 0 .. 1 /\ (One(w, b) = 1 <=> b \in w)
  BY DEF One
<1> HIDE DEF k
<1>3. k \in 0 .. 127
  BY <1>1, <1>2
<1> DEFINE h6 == One(w, 6)
           h5 == 2 * h6 + One(w, 5)
           h4 == 2 * h5 + One(w, 4)
           h3 == 2 * h4 + One(w, 3)
           h2 == 2 * h3 + One(w, 2)
           h1 == 2 * h2 + One(w, 1)
<1>4. /\ k = 2 * h1 + One(w, 0) /\ h1 = 2 * h2 + One(w, 1) /\ h2 = 2 * h3 + One(w, 2)
      /\ h3 = 2 * h4 + One(w, 3) /\ h4 = 2 * h5 + One(w, 4) /\ h5 = 2 * h6 + One(w, 5)
      /\ h6 = 2 * 0 + One(w, 6)
      /\ h1 \in Nat /\ h2 \in Nat /\ h3 \in Nat /\ h4 \in Nat /\ h5 \in Nat /\ h6 \in Nat
  BY <1>1, <1>2
<1> HIDE DEF h1, h2, h3, h4, h5, h6
<1>5. /\ k % 2 = One(w, 0) /\ k \div 2 = h1 /\ h1 % 2 = One(w, 1) /\ h1 \div 2 = h2
      /\ h2 % 2 = One(w, 2) /\ h2 \div 2 = h3 /\ h3 % 2 = One(w, 3) /\ h3 \div 2 = h4
      /\ h4 % 2 = One(w, 4) /\ h4 \div 2 = h5 /\ h5 % 2 = One(w, 5) /\ h5 \div 2 = h6
      /\ h6 % 2 = One(w, 6)
  <2>1. ASSUME NEW x \in Nat, NEW q \in Nat, NEW b, x = 2 * q + One(w, b)
        PROVE  x % 2 = One(w, b) /\ x \div 2 = q
    BY <1>2, <2>1, Binary
  <2>2. k % 2 = One(w, 0) /\ k \div 2 = h1
    <3>1. k \in Nat /\ h1 \in Nat /\ k = 2 * h1 + One(w, 0)
      BY <1>3, <1>4
    <3> QED
      BY <2>1, <3>1
  <2>3. h1 % 2 = One(w, 1) /\ h1 \div 2 = h2
    <3>1. h1 \in Nat /\ h2 \in Nat /\ h1 = 2 * h2 + One(w, 1)
      BY <1>3, <1>4
    <3> QED
      BY <2>1, <3>1
  <2>4. h2 % 2 = One(w, 2) /\ h2 \div 2 = h3
    <3>1. h2 \in Nat /\ h3 \in Nat /\ h2 = 2 * h3 + One(w, 2)
      BY <1>3, <1>4
    <3> QED
      BY <2>1, <3>1
  <2>5. h3 % 2 = One(w, 3) /\ h3 \div 2 = h4
    <3>1. h3 \in Nat /\ h4 \in Nat /\ h3 = 2 * h4 + One(w, 3)
      BY <1>3, <1>4
    <3> QED
      BY <2>1, <3>1
  <2>6. h4 % 2 = One(w, 4) /\ h4 \div 2 = h5
    <3>1. h4 \in Nat /\ h5 \in Nat /\ h4 = 2 * h5 + One(w, 4)
      BY <1>3, <1>4
    <3> QED
      BY <2>1, <3>1
  <2>7. h5 % 2 = One(w, 5) /\ h5 \div 2 = h6
    <3>1. h5 \in Nat /\ h6 \in Nat /\ h5 = 2 * h6 + One(w, 5)
      BY <1>3, <1>4
    <3> QED
      BY <2>1, <3>1
  <2>8. h6 % 2 = One(w, 6)
    <3>1. h6 \in Nat /\ 0 \in Nat /\ h6 = 2 * 0 + One(w, 6)
      BY <1>3, <1>4
    <3> QED
      BY <2>1, <3>1
  <2> QED
    BY <2>2, <2>3, <2>4, <2>5, <2>6, <2>7, <2>8
<1>6. /\ (k \div 2) \div 2 = k \div 4 /\ (k \div 4) \div 2 = k \div 8 /\ (k \div 8) \div 2 = k \div 16
      /\ (k \div 16) \div 2 = k \div 32 /\ (k \div 32) \div 2 = k \div 64 /\ k \div 1 = k
  BY <1>3
<1>7. /\ (k \div 1) % 2 = One(w, 0) /\ (k \div 2) % 2 = One(w, 1) /\ (k \div 4) % 2 = One(w, 2)
      /\ (k \div 8) % 2 = One(w, 3) /\ (k \div 16) % 2 = One(w, 4) /\ (k \div 32) % 2 = One(w, 5)
      /\ (k \div 64) % 2 = One(w, 6)
  BY <1>5, <1>6
<1>8. \A b \in 0 .. 6 : (k \div 2 ^ b) % 2 = One(w, b)
  <2>1. \A b \in 0 .. 6 : b = 0 \/ b = 1 \/ b = 2 \/ b = 3 \/ b = 4 \/ b = 5 \/ b = 6
    OBVIOUS
  <2> QED
    BY <1>7, <2>1, Powers
<1>9. \A b \in 0 .. 6 : b \in Bits(k) <=> b \in w
  <2>1. \A b \in 0 .. 6 : b \in Bits(k) <=> (k \div 2 ^ b) % 2 = 1
    BY DEF Bits
  <2> QED
    BY <1>2, <1>8, <2>1
<1>10. Bits(k) \cap 0 .. 6 = w
  <2>1. w \subseteq 0 .. 6
    BY DEF WordsOf
  <2> QED
    BY <1>9, <2>1
<1> QED
  BY <1>3, <1>10 DEF k

-----------------------------------------------------------------------------
(* Memory *)

\* A carry comes from below: where neither word has bits in its lowest three positions,
\* the sum has none.
LEMMA AddAligned ==
  ASSUME NEW v \in WordsOf(64), NEW w \in WordsOf(64), v \cap 0 .. 2 = {}, w \cap 0 .. 2 = {}
  PROVE  Add(v, w, 64) \cap 0 .. 2 = {}
<1>1. CASE v \cap w = {}
  BY <1>1 DEF Add
<1>2. CASE v \cap w # {}
  <2>1. ASSUME NEW b \in Carries(v, w, 64) PROVE b \notin 0 .. 2
    <3>1. PICK c \in v \cap w : b \in c + 1 .. Min((c + 1 .. 64) \ (v \cup w))
      BY <2>1 DEF Carries
    <3>2. c \in 3 .. 63
      BY <3>1 DEF WordsOf
    <3> QED
      BY <3>1, <3>2
  <2>2. \A b \in 0 .. 2 : b \notin Xor(Xor(v, w), Carries(v, w, 64))
    BY <2>1 DEF Xor
  <2> QED
    BY <1>2, <2>2 DEF Add
<1> QED
  BY <1>1, <1>2

\* What is loaded has as many bits as was asked for.
LEMMA LoadBytes ==
  \A mem, addr : \A width \in Widths : Load(mem, width, addr) \in WordsOf(8 * width)
BY DEF Load, ExtractBitfield, WordsOf

\* What is loaded with the width of a doubleword is one.
LEMMA LoadType == \A mem, addr : Load(mem, 8, addr) \in WordsOf(64)
BY DEF Load, ExtractBitfield, WordsOf

\* An entry stays a doubleword when it is marked.
LEMMA MarkedType ==
  ASSUME NEW pte \in WordsOf(64), NEW reason PROVE Marked(pte, reason) \in WordsOf(64)
BY DEF Marked, WordsOf, A, D

\* A store of any width keeps memory what it is: no doubleword gets bits past its end.
LEMMA StoreType ==
  ASSUME NEW mem \in Memories, NEW width \in Widths, NEW addr, NEW word
  PROVE  Store(mem, width, addr, word) \in Memories
<1> DEFINE first == 8 * ByteIn(addr)
<1>1. ByteIn(addr) \in 0 .. 7
  BY DEF ByteIn, Bit
<1>2. ASSUME NEW d \in Backed
      PROVE  AssignBitfield(mem[d], 0, first + 8 * width - 64, Shr(word, 64 - first)) \in WordsOf(64)
  <2>1. first + 8 * width - 64 \in Int /\ first + 8 * width - 64 <= 64
    BY <1>1 DEF Widths
  <2>2. mem[d] \in SUBSET (0 .. 63)
    BY DEF Memories, WordsOf
  <2> HIDE DEF first
  <2> QED
    BY <2>1, <2>2 DEF AssignBitfield, WordsOf
<1>3. ASSUME NEW d \in Backed
      PROVE  AssignBitfield(mem[d], first, 8 * width, word) \cap 0 .. 63 \in WordsOf(64)
  BY DEF WordsOf
<1>4. \A d \in Backed : mem[d] \in WordsOf(64)
  BY DEF Memories
<1> QED
  BY <1>2, <1>3, <1>4 DEF Store, Memories

\* A doubleword that is aligned is loaded and stored as a whole.
LEMMA AlignedDoubleword ==
  ASSUME NEW mem \in Memories, NEW addr \in Addresses, addr \cap 0 .. 2 = {}
  PROVE  /\ This(addr) = addr
         /\ Present(8, addr) => Load(mem, 8, addr) = mem[addr]
         /\ \A word \in WordsOf(64) :
              Store(mem, 8, addr, word) = [d \in Backed |-> IF d = addr THEN word ELSE mem[d]]
<1>1. This(addr) = addr
  BY DEF This
<1>2. ByteIn(addr) = 0
  BY DEF ByteIn, Bit
<1>3. ~Crosses(8, addr)
  BY <1>2 DEF Crosses
<1>4. ASSUME Present(8, addr) PROVE Load(mem, 8, addr) = mem[addr]
  <2>1. mem[addr] \in SUBSET (0 .. 63)
    BY <1>1, <1>4 DEF Present, Memories, WordsOf
  <2>2. ExtractBitfield(mem[addr] \cup {}, 8 * 0, 8 * 8) = mem[addr]
    BY <2>1 DEF ExtractBitfield, Shr
  <2> QED
    BY <1>1, <1>2, <1>3, <2>2 DEF Load
<1>5. ASSUME NEW word \in WordsOf(64)
      PROVE  Store(mem, 8, addr, word) = [d \in Backed |-> IF d = addr THEN word ELSE mem[d]]
  <2>1. \A d \in Backed : AssignBitfield(mem[d], 8 * 0, 8 * 8, word) \cap 0 .. 63 = word
    <3>1. \A d \in Backed : mem[d] \in SUBSET (0 .. 63)
      BY DEF Memories, WordsOf
    <3>2. \A b \in word : b \in 0 .. 64 - 1 /\ b \in 0 .. 63 /\ b + 0 = b
      BY DEF WordsOf
    <3>3. {b + 0 : b \in word \cap 0 .. 64 - 1} = word
      <4>1. \A x : x \in word <=> \E b \in word \cap 0 .. 64 - 1 : x = b + 0
        BY <3>2
      <4> QED
        BY <4>1
    <3>4. ASSUME NEW d \in Backed
          PROVE  AssignBitfield(mem[d], 0, 64, word) = word
      <4>1. mem[d] \ (0 .. 0 + 64 - 1) = {}
        BY <3>1
      <4> QED
        BY <3>3, <4>1 DEF AssignBitfield
    <3>5. 8 * 0 = 0 /\ 8 * 8 = 64 /\ word \cap 0 .. 63 = word
      BY <3>2
    <3> QED
      BY <3>4, <3>5
  <2> QED
    BY <1>1, <1>2, <1>3, <2>1 DEF Store
<1> QED
  BY <1>1, <1>4, <1>5

\* What marking an entry does to memory: no bit goes, and none comes but the marks.
Adds(before, after) ==
  \A d \in Backed : before[d] \subseteq after[d] /\ after[d] \subseteq before[d] \cup {A, D}

\* An entry at an aligned address that is written back marked is all that changes.
LEMMA MarkAdds ==
  ASSUME NEW mem \in Memories, NEW addr \in Addresses, addr \cap 0 .. 2 = {},
         NEW pte, Present(8, addr), pte = Load(mem, 8, addr), NEW reason
  PROVE  /\ Store(mem, 8, addr, Marked(pte, reason)) \in Memories
         /\ Adds(mem, Store(mem, 8, addr, Marked(pte, reason)))
<1> DEFINE marked == Marked(pte, reason)
<1>1. marked \in WordsOf(64)
  BY LoadType, MarkedType
<1>2. pte \subseteq marked /\ marked \subseteq pte \cup {A, D}
  BY DEF Marked
<1> HIDE DEF marked
<1>3. pte = mem[addr]
  BY AlignedDoubleword
<1>4. Store(mem, 8, addr, marked) = [e \in Backed |-> IF e = addr THEN marked ELSE mem[e]]
  BY <1>1, AlignedDoubleword
<1>5. Store(mem, 8, addr, marked) \in Memories
  BY <1>1, <1>4 DEF Memories
<1>6. Adds(mem, Store(mem, 8, addr, marked))
  BY <1>2, <1>3, <1>4 DEF Adds
<1> QED
  BY <1>5, <1>6 DEF marked

\* Where the entry of a level lies, and that it is aligned when the table is.
LEMMA PteAddrType ==
  ASSUME NEW t \in Addresses, NEW vaddr, NEW lvl \in Nat
  PROVE  /\ PteAddr(t, vaddr, lvl) \in Addresses
         /\ t \cap 0 .. 2 = {} => PteAddr(t, vaddr, lvl) \cap 0 .. 2 = {}
<1> DEFINE offset == Shl(GetPTOffset(vaddr, lvl), 3, 64)
<1>1. offset \in WordsOf(64)
  BY DEF Shl, WordsOf
<1>2. GetPTOffset(vaddr, lvl) \in SUBSET (0 .. 4)
  BY DEF GetPTOffset
<1>3. offset \cap 0 .. 2 = {}
  BY <1>2 DEF Shl
<1> HIDE DEF offset
<1> QED
  BY <1>1, <1>3, AddType, AddAligned DEF PteAddr, Addresses, offset

\* What looking at an entry gives: where it was looked for, and what was there.
LEMMA LookType ==
  ASSUME NEW mem \in Memories, NEW t \in Addresses, NEW vaddr, NEW lvl \in Nat
  PROVE  LET entry == Look(mem, t, vaddr, lvl) IN
         /\ entry \in Entries /\ entry.kind # "none"
         /\ entry.level = lvl
         /\ entry.pteAddr = PteAddr(t, vaddr, lvl)
         /\ entry.kind \in {"leaf", "table"} =>
              Present(8, entry.pteAddr) /\ entry.pte = Load(mem, 8, entry.pteAddr)
<1> DEFINE pteAddr == PteAddr(t, vaddr, lvl)
<1>1. pteAddr \in Addresses
  BY PteAddrType
<1>2. Load(mem, 8, pteAddr) \in WordsOf(64) /\ {} \in WordsOf(64)
  BY LoadType DEF WordsOf
<1> HIDE DEF pteAddr
<1>3. CASE Present(8, pteAddr)
  BY <1>1, <1>2, <1>3 DEF Look, LookAt, Inspect, Found, Entries, pteAddr
<1>4. CASE ~Present(8, pteAddr)
  BY <1>1, <1>2, <1>4 DEF Look, LookAt, Found, Entries, pteAddr
<1> QED
  BY <1>3, <1>4

\* A frame is an address, and the address made with it too.
LEMMA FrameType == \A pte : GetPPN(pte) \in Addresses /\ GetPPN(pte) \cap 0 .. 2 = {}
BY DEF GetPPN, Addresses, WordsOf

\* A translated address is one, whatever the frame is joined with.
LEMMA NewAddrType ==
  ASSUME NEW pte, NEW lvl \in Nat, NEW vaddr \in Addresses
  PROVE  NewAddr(pte, lvl, vaddr) \in Addresses
BY DEF NewAddr, GetPPN, Addresses, WordsOf

-----------------------------------------------------------------------------
(* The walk through the tables *)

\* The tables of a walk, from a given level up.
IsWalk(f, memory, root, count, vaddr, from) ==
  f = [level \in from .. count - 1 |->
         IF level = count - 1 THEN root
         ELSE GetPPN(Look(memory, f[level + 1], vaddr, level + 1).pte)]

\* A walk can be made one level longer, so that there is one for all levels.
LEMMA WalkExists ==
  ASSUME NEW memory, NEW root, NEW count \in Nat, NEW vaddr
  PROVE  \E f : IsWalk(f, memory, root, count, vaddr, 0)
<1> DEFINE good == {k \in 0 .. count : \E f : IsWalk(f, memory, root, count, vaddr, count - k)}
           bad == (0 .. count) \ good
           less == OpToRel(<, Nat)
<1>1. 0 \in good
  <2> DEFINE f == [level \in count .. count - 1 |->
                     IF level = count - 1 THEN root ELSE GetPPN({})]
  <2>1. \A g : count .. count - 1 = {} /\ f = [level \in count .. count - 1 |-> g[level]]
    OBVIOUS
  <2>2. IsWalk(f, memory, root, count, vaddr, count)
    BY <2>1 DEF IsWalk
  <2> QED
    BY <2>2
<1>2. ASSUME NEW k \in 0 .. count - 1, k \in good
      PROVE  k + 1 \in good
  <2> DEFINE from == count - k
             low == count - (k + 1)
  <2>1. PICK f : IsWalk(f, memory, root, count, vaddr, from)
    BY <1>2
  <2> DEFINE next == IF low = count - 1 THEN root ELSE GetPPN(Look(memory, f[low + 1], vaddr, low + 1).pte)
             g == [level \in low .. count - 1 |-> IF level = low THEN next ELSE f[level]]
  <2>2. \A level \in from .. count - 1 : g[level] = f[level]
    OBVIOUS
  <2>3. \A level \in from .. count - 1 :
          f[level] = IF level = count - 1 THEN root
                     ELSE GetPPN(Look(memory, f[level + 1], vaddr, level + 1).pte)
    BY <2>1 DEF IsWalk
  <2>4. ASSUME NEW level \in low .. count - 1
        PROVE  g[level] = IF level = count - 1 THEN root
                          ELSE GetPPN(Look(memory, g[level + 1], vaddr, level + 1).pte)
    <3>1. CASE level = low
      <4>1. level # count - 1 => g[level + 1] = f[level + 1]
        BY <3>1, <2>2
      <4> QED
        BY <3>1, <4>1
    <3>2. CASE level # low
      <4>1. level \in from .. count - 1
        BY <3>2
      <4>2. level # count - 1 => g[level + 1] = f[level + 1]
        BY <4>1, <2>2
      <4>3. g[level] = f[level]
        BY <4>1, <2>2
      <4> QED
        BY <4>1, <4>2, <4>3, <2>3
    <3> QED
      BY <3>1, <3>2
  <2>5. IsWalk(g, memory, root, count, vaddr, low)
    <3>1. g = [level \in low .. count - 1 |-> g[level]]
      OBVIOUS
    <3> HIDE DEF g, next
    <3> QED
      BY <2>4, <3>1 DEF IsWalk
  <2> QED
    BY <2>5
<1>3. bad = {}
  <2> SUFFICES ASSUME bad # {} PROVE FALSE
    OBVIOUS
  <2>1. PICK k \in bad : \A j \in bad : <<j, k>> \notin less
    <3>1. bad \subseteq Nat
      OBVIOUS
    <3>2. IsWellFoundedOn(less, Nat)
      BY NatLessThanWellFounded DEF less
    <3> HIDE DEF bad, less
    <3> QED
      BY <3>1, <3>2, WFMin
  <2>2. k \in 0 .. count /\ k \notin good
    OBVIOUS
  <2> HIDE DEF good, less
  <2>3. k # 0
    BY <1>1, <2>2
  <2>4. k - 1 \in 0 .. count - 1 /\ <<k - 1, k>> \in less
    BY <2>2, <2>3 DEF OpToRel, less
  <2>5. k - 1 \in good
    BY <2>1, <2>4
  <2>6. (k - 1) + 1 \in good
    BY <1>2, <2>4, <2>5
  <2> QED
    BY <2>2, <2>6
<1>4. count \in good
  BY <1>3
<1>5. \E f : IsWalk(f, memory, root, count, vaddr, count - count)
  BY <1>4
<1> QED
  BY <1>5

\* The tables that GetPteImpl goes through.
Tables(memory, root, count, vaddr) ==
  CHOOSE f : IsWalk(f, memory, root, count, vaddr, 0)

\* The highest is the root, and each of the others is where the entry above it points.
LEMMA TablesAre ==
  ASSUME NEW memory, NEW root, NEW count \in Nat, NEW vaddr, NEW level \in 0 .. count - 1
  PROVE  Tables(memory, root, count, vaddr)[level] =
           IF level = count - 1 THEN root
           ELSE GetPPN(Look(memory, Tables(memory, root, count, vaddr)[level + 1],
                            vaddr, level + 1).pte)
<1> DEFINE f == Tables(memory, root, count, vaddr)
<1>1. IsWalk(f, memory, root, count, vaddr, 0)
  BY WalkExists DEF Tables
<1> HIDE DEF f
<1>2. f[level] = IF level = count - 1 THEN root
                 ELSE GetPPN(Look(memory, f[level + 1], vaddr, level + 1).pte)
  BY <1>1 DEF IsWalk
<1> QED
  BY <1>2 DEF f

\* A walk begins at the root.
LEMMA RootIsHighest ==
  \A memory, root, vaddr : \A count \in Nat \ {0} :
    Tables(memory, root, count, vaddr)[count - 1] = root
BY TablesAre

\* The walk ends at the first entry from the top that does not point to a table.
LEMMA WalkEnds ==
  ASSUME NEW memory, NEW root, NEW count \in Nat, NEW vaddr
  PROVE  LET entry(level) == Look(memory, Tables(memory, root, count, vaddr)[level], vaddr, level)
             walk == GetPteImpl(memory, root, count, vaddr)
         IN /\ (\A level \in 0 .. count - 1 : entry(level).kind = "table") =>
                 walk = Found("NoValidPteFound", {}, {}, 0)
            /\ \A level \in 0 .. count - 1 :
                 /\ entry(level).kind # "table"
                 /\ \A above \in level + 1 .. count - 1 : entry(above).kind = "table"
                 => walk = entry(level)
<1> DEFINE table == Tables(memory, root, count, vaddr)
           entry == [level \in 0 .. count - 1 |-> Look(memory, table[level], vaddr, level)]
           ends == {level \in 0 .. count - 1 : entry[level].kind # "table"}
           walk == GetPteImpl(memory, root, count, vaddr)
<1>1. walk = IF ends = {} THEN Found("NoValidPteFound", {}, {}, 0) ELSE entry[Max(ends)]
  BY Zenon DEF GetPteImpl, Tables, IsWalk
<1>2. \A level \in 0 .. count - 1 : entry[level] = Look(memory, table[level], vaddr, level)
  OBVIOUS
<1> HIDE DEF walk, entry, table
<1>3. (\A level \in 0 .. count - 1 : entry[level].kind = "table") =>
        walk = Found("NoValidPteFound", {}, {}, 0)
  BY <1>1
<1>4. ASSUME NEW level \in 0 .. count - 1, entry[level].kind # "table",
             \A above \in level + 1 .. count - 1 : entry[above].kind = "table"
      PROVE  walk = entry[level]
  <2>1. level \in ends /\ ends \subseteq Int
    BY <1>4
  <2>2. \A x \in ends : x <= level
    BY <1>4
  <2>3. Max(ends) = level
    <3> HIDE DEF ends
    <3> QED
      BY <2>1, <2>2, MaxIs
  <2> QED
    BY <1>1, <2>1, <2>3
<1> QED
  BY <1>2, <1>3, <1>4 DEF walk, table

\* What a walk from an aligned root finds, if it is a leaf, is an entry of memory, at
\* an aligned address.
LEMMA WalkLeaf ==
  ASSUME NEW memory \in Memories, NEW root \in Addresses, root \cap 0 .. 2 = {},
         NEW count \in Nat, NEW vaddr
  PROVE  LET walk == GetPteImpl(memory, root, count, vaddr) IN
         /\ walk \in Entries /\ walk.kind \notin {"none", "table"}
         /\ walk.kind = "leaf" =>
              /\ walk.pteAddr \cap 0 .. 2 = {} /\ Present(8, walk.pteAddr)
              /\ walk.pte = Load(memory, 8, walk.pteAddr)
<1> DEFINE table == Tables(memory, root, count, vaddr)
           entry(level) == Look(memory, table[level], vaddr, level)
           walk == GetPteImpl(memory, root, count, vaddr)
           ends == {level \in 0 .. count - 1 : entry(level).kind # "table"}
<1>1. CASE ends = {}
  <2>1. walk = Found("NoValidPteFound", {}, {}, 0)
    BY <1>1, WalkEnds
  <2> HIDE DEF walk
  <2> QED
    BY <2>1 DEF Found, Entries, WordsOf, Addresses, walk
<1>2. CASE ends # {}
  <2>1. PICK level \in ends : \A x \in ends : x <= level
    <3> HIDE DEF ends
    <3>1. ends \in SUBSET (0 .. count - 1)
      BY DEF ends
    <3> QED
      BY <1>2, <3>1, HighestExists
  <2>2. level \in 0 .. count - 1 /\ \A above \in level + 1 .. count - 1 : entry(above).kind = "table"
    BY <2>1
  <2>3. walk = entry(level)
    BY <2>2, WalkEnds
  <2>4. table[level] \in Addresses /\ table[level] \cap 0 .. 2 = {}
    BY <2>2, TablesAre, FrameType
  <2> HIDE DEF table, walk
  <2>5. /\ entry(level) \in Entries /\ entry(level).kind # "none"
        /\ entry(level).kind = "leaf" =>
             /\ entry(level).pteAddr \cap 0 .. 2 = {} /\ Present(8, entry(level).pteAddr)
             /\ entry(level).pte = Load(memory, 8, entry(level).pteAddr)
    BY <2>2, <2>4, LookType, PteAddrType
  <2> QED
    BY <2>1, <2>3, <2>5 DEF walk
<1> QED
  BY <1>1, <1>2
=============================================================================
