-------------------------- MODULE ArithmeticProofs --------------------------
(***************************************************************************)
(* What the arithmetic of the order path guarantees for every quantity:    *)
(* how far a rounded quotient is from the exact one, what                  *)
(* TruncateToStepSize computes, and how a sum over a finite set of reports *)
(* changes when a report is added or taken away.                           *)
(***************************************************************************)
EXTENDS Decimals, FiniteSets, Functions, FiniteSetTheorems, WellFoundedInduction, TLAPS

-----------------------------------------------------------------------------
(* Rounding. *)

\* The quotient of naturals is the largest multiple that fits.
LEMMA Division ==
    ASSUME NEW a \in Nat, NEW b \in Nat \ {0}
    PROVE  /\ a \div b \in Nat
           /\ (a \div b) * b <= a
           /\ a < (a \div b) * b + b
<1>1. a \div b \in Int /\ a % b \in 0 .. b - 1 /\ a = b * (a \div b) + (a % b)
    OBVIOUS
<1> DEFINE d == a \div b
           r == a % b
<1> HIDE DEF d, r
<1>2. d \in Int /\ r \in 0 .. b - 1 /\ a = b * d + r
    BY <1>1 DEF d, r
<1>3. b * d = d * b
    BY <1>2
<1>4. d \in Nat
    <2> SUFFICES ASSUME d <= -1 PROVE FALSE
        BY <1>2
    <2>1. b * d <= -b
        BY <1>2
    <2> QED
        BY <1>2, <2>1
<1> QED
    BY <1>2, <1>3, <1>4 DEF d

\* A rounded quotient of naturals is a natural number.
LEMMA RoundedDivType ==
    ASSUME NEW a \in Nat, NEW b \in Nat \ {0}
    PROVE  RoundedDiv(a, b) \in Nat
<1>1. 2 * a + b \in Nat /\ 2 * b \in Nat \ {0} /\ a >= 0
    OBVIOUS
<1> QED
    BY <1>1, Division DEF RoundedDiv

\* decimal.Div and decimal.Round: the rounded quotient, multiplied back, is off by at most half of the
\* divisor.
LEMMA RoundedDivError ==
    ASSUME NEW a \in Nat, NEW b \in Nat \ {0}
    PROVE  /\ 2 * (b * RoundedDiv(a, b) - a) <= b
           /\ 2 * (a - b * RoundedDiv(a, b)) <= b
<1> DEFINE r == RoundedDiv(a, b)
           p == b * r
<1>1. 2 * a + b \in Nat /\ 2 * b \in Nat \ {0} /\ a >= 0
    OBVIOUS
<1>2. r = (2 * a + b) \div (2 * b)
    BY <1>1 DEF RoundedDiv
<1>3. r * (2 * b) <= 2 * a + b /\ 2 * a + b < r * (2 * b) + 2 * b /\ r \in Nat
    BY <1>1, <1>2, Division
<1> HIDE DEF r
<1>4. r * (2 * b) = 2 * p /\ p \in Nat
    BY <1>3
<1> HIDE DEF p
<1>5. 2 * (p - a) <= b /\ 2 * (a - p) <= b
    BY <1>3, <1>4
<1> QED
    BY <1>5 DEF p, r

\* livro/client.go, StringFixed(4): the amount sent is within half of 0.0001 of the exact one.
LEMMA StringFixedError ==
    ASSUME NEW x \in Nat
    PROVE  /\ StringFixed(x) * Unit \in Nat
           /\ 2 * (StringFixed(x) * Unit - x) <= Unit
           /\ 2 * (x - StringFixed(x) * Unit) <= Unit
<1>1. StringFixed(x) \in Nat
    BY RoundedDivType, UnitAssumption DEF StringFixed
<1>2. StringFixed(x) * Unit = Unit * StringFixed(x) /\ StringFixed(x) * Unit \in Nat
    BY <1>1, UnitAssumption
<1> QED
    BY <1>2, RoundedDivError, UnitAssumption DEF StringFixed

\* A number rounded to a multiple of D is off by at most half of D, and n times it by n halves.
LEMMA MultipleError ==
    ASSUME NEW r \in Nat, NEW D \in Nat \ {0}, NEW n \in Nat
    PROVE  LET x == RoundedDiv(r, D) * D
           IN  x \in Nat /\ 2 * (n * x - n * r) <= n * D /\ 2 * (n * r - n * x) <= n * D
<1> DEFINE s == RoundedDiv(r, D)
           x == s * D
<1>1. s \in Nat /\ 2 * (D * s - r) <= D /\ 2 * (r - D * s) <= D
    BY RoundedDivType, RoundedDivError
<1> HIDE DEF s
<1>2. x \in Nat /\ 2 * (x - r) <= D /\ 2 * (r - x) <= D
    BY <1>1
<1> HIDE DEF x
<1>3. n * (2 * (x - r)) <= n * D /\ n * (2 * (r - x)) <= n * D
    BY <1>2
<1>4. n * (2 * (x - r)) = 2 * (n * x - n * r) /\ n * (2 * (r - x)) = 2 * (n * r - n * x)
    BY <1>2
<1> QED
    BY <1>2, <1>3, <1>4 DEF x, s

\* A multiple leaves no remainder.
LEMMA Multiple ==
    ASSUME NEW k \in Nat, NEW b \in Nat \ {0}
    PROVE  k * b \in Nat /\ (k * b) % b = 0
<1> DEFINE d == (k * b) \div b
           r == (k * b) % b
<1>1. k * b \in Nat /\ d \in Int /\ r \in 0 .. b - 1 /\ k * b = b * d + r
    OBVIOUS
<1> HIDE DEF d, r
<1>2. r = (k - d) * b
    BY <1>1
<1>3. k - d = 0
    <2>1. ASSUME k - d >= 1 PROVE FALSE
        <3>1. (k - d) * b >= b
            BY <2>1, <1>1
        <3> QED
            BY <3>1, <1>1, <1>2
    <2>2. ASSUME k - d <= -1 PROVE FALSE
        <3>1. (k - d) * b <= -b
            BY <2>2, <1>1
        <3> QED
            BY <3>1, <1>1, <1>2
    <2> QED
        BY <1>1, <2>1, <2>2
<1> QED
    BY <1>1, <1>2, <1>3 DEF r

\* binance/client.go, TruncateToStepSize: although Div rounds half up before Floor, a positive step
\* below twice the precision of Div makes it the floor: a multiple of the step, never above the
\* quantity, and short of it by less than a step.
THEOREM TruncateIsFloor ==
    ASSUME NEW qty \in Nat, NEW stepSize \in 1 .. 2 * Scale - 1
    PROVE  LET t == TruncateToStepSize(qty, stepSize)
           IN  t \in Nat /\ t <= qty /\ qty - t < stepSize /\ t % stepSize = 0
<1> DEFINE r == RoundedDiv(qty * Scale, stepSize)
           k == r \div Scale
           kc == k * Scale
           t == k * stepSize
<1>0. Scale \in Nat \ {0} /\ stepSize \in Nat \ {0} /\ qty * Scale \in Nat /\ stepSize < 2 * Scale
    BY ScaleAssumption
<1>1. r \in Nat /\ 2 * (stepSize * r - qty * Scale) <= stepSize /\ 2 * (qty * Scale - stepSize * r) <= stepSize
    BY <1>0, RoundedDivType, RoundedDivError
<1>t. TruncateToStepSize(qty, stepSize) = t
    BY <1>0 DEF TruncateToStepSize
<1> HIDE DEF r
<1>2. k \in Nat /\ kc <= r /\ r + 1 <= kc + Scale
    BY <1>0, <1>1, Division
<1> HIDE DEF k
<1>3. t \in Nat /\ t % stepSize = 0
    BY <1>0, <1>2, Multiple
<1>4. stepSize * kc = t * Scale
    BY <1>0, <1>2
<1>5. stepSize * kc <= stepSize * r
    BY <1>0, <1>1, <1>2
<1>6. stepSize * r + stepSize <= t * Scale + stepSize * Scale
    <2>1. stepSize * (r + 1) <= stepSize * (kc + Scale)
        BY <1>0, <1>1, <1>2
    <2>2. stepSize * (r + 1) = stepSize * r + stepSize /\ stepSize * (kc + Scale) = stepSize * kc + stepSize * Scale
        BY <1>0, <1>1, <1>2
    <2> QED
        BY <2>1, <2>2, <1>4
<1>7. t <= qty
    <2> SUFFICES ASSUME t >= qty + 1 PROVE FALSE
        BY <1>3
    <2>1. t * Scale >= qty * Scale + Scale
        <3>1. t * Scale >= (qty + 1) * Scale
            BY <1>0, <1>3
        <3> HIDE DEF t
        <3> QED
            BY <3>1, <1>0
    <2> DEFINE A == t * Scale
               B == stepSize * r
               C == qty * Scale
    <2>2. A \in Int /\ B \in Int /\ C \in Int /\ A <= B /\ 2 * (B - C) <= stepSize /\ A >= C + Scale
        BY <1>0, <1>1, <1>3, <1>4, <1>5, <2>1
    <2> HIDE DEF A, B, C
    <2> QED
        BY <2>2, <1>0
<1>8. qty - t < stepSize
    <2> SUFFICES ASSUME qty >= t + stepSize PROVE FALSE
        BY <1>0, <1>3
    <2>1. qty * Scale >= t * Scale + stepSize * Scale
        <3>1. qty * Scale >= (t + stepSize) * Scale
            BY <1>0, <1>3
        <3> HIDE DEF t
        <3> QED
            BY <3>1, <1>0, <1>3
    <2> DEFINE A == t * Scale + stepSize * Scale
               B == stepSize * r
               C == qty * Scale
    <2>2. A \in Int /\ B \in Int /\ C \in Int /\ B + stepSize <= A /\ 2 * (C - B) <= stepSize /\ C >= A
        BY <1>0, <1>1, <1>3, <1>6, <2>1
    <2> HIDE DEF A, B, C
    <2> QED
        BY <2>2, <1>0
<1> HIDE DEF t
<1> QED
    BY <1>t, <1>3, <1>7, <1>8

\* fill_processor.go, the running average: f units at a mean a that is off by at most k halves per
\* unit from the booked value B, and q more at p: the new rounded mean is off by one half more.
LEMMA MeanStep ==
    ASSUME NEW f \in Nat \ {0}, NEW a \in Nat, NEW q \in Nat \ {0}, NEW p \in Nat, NEW k \in Int, NEW B \in Int,
           2 * (f * a - B) <= f * k, -2 * (f * a - B) <= f * k
    PROVE  LET r == RoundedDiv(f * a + q * p, f + q)
           IN  /\ r \in Nat
               /\ 2 * ((f + q) * r - (B + q * p)) <= (f + q) * (k + 1)
               /\ -2 * ((f + q) * r - (B + q * p)) <= (f + q) * (k + 1)
<1> DEFINE fa == f * a
           qp == q * p
           fk == f * k
           r == RoundedDiv(fa + qp, f + q)
           R == (f + q) * r
<1>1. fa \in Nat /\ qp \in Nat /\ fk \in Int /\ f + q \in Nat \ {0} /\ fa + qp \in Nat
    OBVIOUS
<1>2. 2 * (fa - B) <= fk /\ -2 * (fa - B) <= fk
    OBVIOUS
<1> HIDE DEF fa, qp
<1>3. r \in Nat /\ 2 * (R - (fa + qp)) <= f + q /\ 2 * ((fa + qp) - R) <= f + q
    BY <1>1, RoundedDivType, RoundedDivError
<1> HIDE DEF r
<1>4. R \in Int
    BY <1>1, <1>3
<1>5. 0 <= k
    <2> SUFFICES ASSUME k <= -1 PROVE FALSE
        OBVIOUS
    <2>1. fk <= -f
        OBVIOUS
    <2> HIDE DEF fk
    <2> QED
        BY <1>1, <1>2, <2>1
<1>6. (f + q) * (k + 1) = fk + q * k + (f + q) /\ q * k >= 0 /\ q * k \in Int
    BY <1>5
<1> DEFINE qk == q * k
           S == (f + q) * (k + 1)
<1>7. S = fk + qk + (f + q) /\ qk >= 0 /\ qk \in Int
    BY <1>6
<1> HIDE DEF R, fk, qk, S
<1>8. 2 * (R - (B + qp)) <= S /\ -2 * (R - (B + qp)) <= S
    BY <1>1, <1>2, <1>3, <1>4, <1>7
<1> QED
    BY <1>3, <1>8 DEF r, R, S, fa, qp

-----------------------------------------------------------------------------
(* Sums over finite sets.  Induction takes the set of counterexamples as its argument. *)

\* Induction over the naturals, stated for a set so that no operator is a parameter: a least
\* counterexample would have a predecessor.
LEMMA NatSet ==
    ASSUME NEW T, 0 \in T, \A n \in Nat : n \in T => n + 1 \in T
    PROVE  \A n \in Nat : n \in T
<1> DEFINE U == {n \in Nat : n \notin T}
<1> SUFFICES ASSUME U # {} PROVE FALSE
    OBVIOUS
<1>1. PICK n \in U : \A m \in U : ~(<<m, n>> \in OpToRel(<, Nat))
    <2>1. U \subseteq Nat
        OBVIOUS
    <2> QED
        BY <2>1, NatLessThanWellFounded, WFMin
<1>2. n # 0 /\ n \in Nat
    BY DEF U
<1>3. n - 1 \in U
    BY <1>2
<1>4. <<n - 1, n>> \in OpToRel(<, Nat)
    BY <1>2 DEF OpToRel
<1> QED
    BY <1>1, <1>3, <1>4

\* The element the library's fold takes next.
Chosen(s) == CHOOSE x \in s : TRUE

\* What a sum over a subset of S is, from the sums over smaller subsets.
IsSum(g, f, S) ==
    \A s \in SUBSET S : g[s] = IF s = {} THEN 0 ELSE f[Chosen(s)] + g[s \ {Chosen(s)}]

\* The function the library's fold computes with.
SumFun(f, S) ==
    CHOOSE g : g = [s \in SUBSET S |-> IF s = {} THEN 0 ELSE f[Chosen(s)] + g[s \ {Chosen(s)}]]

\* The library's fold is that function at the whole set.
LEMMA SumUnfold ==
    ASSUME NEW f, NEW S
    PROVE  SumFunctionOnSet(f, S) = SumFun(f, S)[S]
BY DEF SumFunctionOnSet, FoldFunctionOnSet, MapThenFoldSet, SumFun, Chosen

\* For a finite set the recursive function exists: one more level of cardinality at a time, each
\* level defined from the one below.
LEMMA SumFunExists ==
    ASSUME NEW f, NEW S, IsFiniteSet(S)
    PROVE  IsSum(SumFun(f, S), f, S)
<1> DEFINE Below(n) == {s \in SUBSET S : Cardinality(s) <= n}
           Body(g, s) == IF s = {} THEN 0 ELSE f[Chosen(s)] + g[s \ {Chosen(s)}]
           Has(n) == \E g : g = [s \in Below(n) |-> Body(g, s)]
           T == {n \in Nat : Has(n)}
<1>0. \A s \in SUBSET S : IsFiniteSet(s) /\ Cardinality(s) \in Nat
    BY FS_Subset, FS_CardinalityType
<1>1. 0 \in T
    <2>1. Below(0) = {{}}
        BY <1>0, FS_EmptySet
    <2> DEFINE g == [s \in Below(0) |-> 0]
    <2>2. g = [s \in Below(0) |-> Body(g, s)]
        BY <2>1
    <2> QED
        BY <2>2
<1>2. ASSUME NEW n \in Nat, n \in T PROVE n + 1 \in T
    <2>1. PICK g : g = [s \in Below(n) |-> Body(g, s)]
        BY <1>2
    <2> DEFINE h == [s \in Below(n + 1) |-> Body(g, s)]
    <2>2. ASSUME NEW s \in Below(n + 1) PROVE Body(g, s) = Body(h, s)
        <3>1. CASE s = {}
            BY <3>1
        <3>2. CASE s # {}
            <4> DEFINE t == s \ {Chosen(s)}
            <4>1. Chosen(s) \in s
                BY <3>2 DEF Chosen
            <4>2. t \in Below(n) /\ t \in Below(n + 1)
                BY <4>1, <1>0, FS_RemoveElement
            <4>3. g[t] = Body(g, t)
                <5> HIDE DEF Body, Below, t
                <5> QED BY <2>1, <4>2
            <4>4. h[t] = Body(g, t)
                BY <4>2
            <4> QED
                BY <3>2, <4>3, <4>4
        <3> QED
            BY <3>1, <3>2
    <2>3. h = [s \in Below(n + 1) |-> Body(h, s)]
        <3> HIDE DEF Body, Below
        <3> QED
            BY <2>2
    <2>4. Has(n + 1)
        <3> HIDE DEF Body, Below, h
        <3> QED
            BY <2>3
    <2> HIDE DEF Has
    <2> QED
        BY <2>4
<1>3. Cardinality(S) \in T
    <2> HIDE DEF T
    <2> QED
        BY <1>0, <1>1, <1>2, NatSet
<1>4. Below(Cardinality(S)) = SUBSET S
    BY <1>0, FS_Subset
<1>5. \E g : g = [s \in SUBSET S |-> Body(g, s)]
    BY <1>3, <1>4
<1>6. SumFun(f, S) = [s \in SUBSET S |-> Body(SumFun(f, S), s)]
    BY <1>5 DEF SumFun
<1> QED
    BY <1>6 DEF IsSum

\* Its values are integers when the summands are.
LEMMA SumFunType ==
    ASSUME NEW D, NEW f \in [D -> Int], NEW S \in SUBSET D, IsFiniteSet(S)
    PROVE  \A s \in SUBSET S : SumFun(f, S)[s] \in Int
<1> DEFINE g == SumFun(f, S)
           T == {n \in Nat : \A s \in SUBSET S : Cardinality(s) <= n => g[s] \in Int}
<1>0. \A s \in SUBSET S : IsFiniteSet(s) /\ Cardinality(s) \in Nat
    BY FS_Subset, FS_CardinalityType
<1>g. \A s \in SUBSET S : g[s] = IF s = {} THEN 0 ELSE f[Chosen(s)] + g[s \ {Chosen(s)}]
    BY SumFunExists DEF IsSum
<1> HIDE DEF g
<1>1. 0 \in T
    <2>1. g[{}] = 0
        BY <1>g, {} \in SUBSET S
    <2>2. \A s \in SUBSET S : Cardinality(s) <= 0 => s = {}
        BY <1>0, FS_EmptySet
    <2> QED
        BY <2>1, <2>2
<1>2. ASSUME NEW n \in Nat, n \in T PROVE n + 1 \in T
    <2> SUFFICES ASSUME NEW s \in SUBSET S, Cardinality(s) <= n + 1 PROVE g[s] \in Int
        OBVIOUS
    <2>1. CASE s = {}
        BY <1>g, <2>1
    <2>2. CASE s # {}
        <3>1. Chosen(s) \in s
            BY <2>2 DEF Chosen
        <3>2. s \ {Chosen(s)} \in SUBSET S /\ Cardinality(s \ {Chosen(s)}) <= n
            BY <3>1, <1>0, FS_RemoveElement
        <3>3. g[s \ {Chosen(s)}] \in Int
            BY <3>2, <1>2
        <3> QED
            BY <1>g, <2>2, <3>1, <3>3
    <2> QED
        BY <2>1, <2>2
<1>3. \A n \in Nat : n \in T
    <2> HIDE DEF T
    <2> QED
        BY <1>1, <1>2, NatSet
<1> QED
    BY <1>0, <1>3 DEF g

\* A sum over a set does not depend on the order in which its elements are chosen.
LEMMA SumFunAny ==
    ASSUME NEW D, NEW f \in [D -> Int], NEW S \in SUBSET D, IsFiniteSet(S)
    PROVE  \A s \in SUBSET S : \A x \in s : SumFun(f, S)[s] = f[x] + SumFun(f, S)[s \ {x}]
<1> DEFINE g == SumFun(f, S)
           T == {n \in Nat : \A s \in SUBSET S : Cardinality(s) <= n =>
                                 \A x \in s : g[s] = f[x] + g[s \ {x}]}
<1>0. \A s \in SUBSET S : IsFiniteSet(s) /\ Cardinality(s) \in Nat
    BY FS_Subset, FS_CardinalityType
<1>g. \A s \in SUBSET S : g[s] = IF s = {} THEN 0 ELSE f[Chosen(s)] + g[s \ {Chosen(s)}]
    BY SumFunExists DEF IsSum
<1>t. \A s \in SUBSET S : g[s] \in Int
    BY SumFunType
<1> HIDE DEF g
<1>1. 0 \in T
    BY <1>0, FS_EmptySet
<1>2. ASSUME NEW n \in Nat, n \in T PROVE n + 1 \in T
    <2> SUFFICES ASSUME NEW s \in SUBSET S, Cardinality(s) <= n + 1, NEW x \in s
                 PROVE  g[s] = f[x] + g[s \ {x}]
        OBVIOUS
    <2> DEFINE c == Chosen(s)
    <2>1. c \in s
        BY DEF Chosen
    <2>2. g[s] = f[c] + g[s \ {c}]
        BY <1>g
    <2> HIDE DEF c
    <2>3. CASE c = x
        BY <2>2, <2>3
    <2>4. CASE c # x
        <3> DEFINE u == s \ {c}
                   v == s \ {x}
        <3>1. u \in SUBSET S /\ v \in SUBSET S /\ x \in u /\ c \in v
            BY <2>1, <2>4
        <3>2. Cardinality(u) <= n /\ Cardinality(v) <= n
            BY <2>1, <1>0, FS_RemoveElement
        <3>3. g[u] = f[x] + g[u \ {x}]
            BY <3>1, <3>2, <1>2
        <3>4. g[v] = f[c] + g[v \ {c}]
            BY <3>1, <3>2, <1>2
        <3>5. u \ {x} = v \ {c} /\ u \ {x} \in SUBSET S
            OBVIOUS
        <3>6. g[u \ {x}] \in Int /\ f[x] \in Int /\ f[c] \in Int
            BY <3>5, <1>t, <2>1
        <3>7. g[s] = f[c] + g[u] /\ g[v] = f[c] + g[u \ {x}]
            BY <2>2, <3>4, <3>5
        <3> HIDE DEF u
        <3>8. f[c] + (f[x] + g[u \ {x}]) = f[x] + (f[c] + g[u \ {x}])
            BY <3>6
        <3> QED
            BY <3>3, <3>7, <3>8
    <2> QED
        BY <2>3, <2>4
<1>3. \A n \in Nat : n \in T
    <2> HIDE DEF T
    <2> QED
        BY <1>1, <1>2, NatSet
<1>4. ASSUME NEW s \in SUBSET S PROVE \A x \in s : g[s] = f[x] + g[s \ {x}]
    BY <1>0, <1>3
<1> QED
    BY <1>4 DEF g

\* Two sums with the same summands are equal, whatever else the functions say.
LEMMA SumFunSame ==
    ASSUME NEW f, NEW h, NEW S, NEW R, IsFiniteSet(S), IsFiniteSet(R),
           \A x \in S \cap R : f[x] = h[x]
    PROVE  \A s \in SUBSET (S \cap R) : SumFun(f, S)[s] = SumFun(h, R)[s]
<1> DEFINE g == SumFun(f, S)
           k == SumFun(h, R)
           T == {n \in Nat : \A s \in SUBSET (S \cap R) : Cardinality(s) <= n => g[s] = k[s]}
<1>0. \A s \in SUBSET (S \cap R) : IsFiniteSet(s) /\ Cardinality(s) \in Nat
    <2>1. \A s \in SUBSET S : IsFiniteSet(s) /\ Cardinality(s) \in Nat
        BY FS_Subset, FS_CardinalityType
    <2> QED
        BY <2>1
<1>g. IsSum(g, f, S) /\ IsSum(k, h, R)
    BY SumFunExists
<1>e. ASSUME NEW s \in SUBSET (S \cap R)
      PROVE  /\ g[s] = IF s = {} THEN 0 ELSE f[Chosen(s)] + g[s \ {Chosen(s)}]
             /\ k[s] = IF s = {} THEN 0 ELSE h[Chosen(s)] + k[s \ {Chosen(s)}]
    <2>1. s \in SUBSET S /\ s \in SUBSET R
        OBVIOUS
    <2> HIDE DEF g, k
    <2> QED
        BY <2>1, <1>g DEF IsSum
<1> HIDE DEF g, k
<1>1. 0 \in T
    <2>1. \A s \in SUBSET (S \cap R) : Cardinality(s) <= 0 => s = {}
        BY <1>0, FS_EmptySet
    <2> QED
        BY <2>1, <1>e
<1>2. ASSUME NEW n \in Nat, n \in T PROVE n + 1 \in T
    <2> SUFFICES ASSUME NEW s \in SUBSET (S \cap R), Cardinality(s) <= n + 1 PROVE g[s] = k[s]
        OBVIOUS
    <2>1. CASE s = {}
        BY <1>e, <2>1
    <2>2. CASE s # {}
        <3>1. Chosen(s) \in s
            BY <2>2 DEF Chosen
        <3>2. s \ {Chosen(s)} \in SUBSET (S \cap R) /\ Cardinality(s \ {Chosen(s)}) <= n
            BY <3>1, <1>0, FS_RemoveElement
        <3>3. g[s \ {Chosen(s)}] = k[s \ {Chosen(s)}]
            BY <3>2, <1>2
        <3> QED
            BY <1>e, <2>2, <3>1, <3>3
    <2> QED
        BY <2>1, <2>2
<1>3. \A n \in Nat : n \in T
    <2> HIDE DEF T
    <2> QED
        BY <1>1, <1>2, NatSet
<1> QED
    BY <1>0, <1>3 DEF g, k

-----------------------------------------------------------------------------
(* What the proofs about fills use. *)

\* The sum of nothing.
LEMMA SumEmpty == ASSUME NEW f PROVE SumFunctionOnSet(f, {}) = 0
<1>1. IsSum(SumFun(f, {}), f, {})
    BY SumFunExists, FS_EmptySet
<1> QED
    BY <1>1, SumUnfold DEF IsSum

\* The sum of integers is an integer.
LEMMA SumType ==
    ASSUME NEW D, NEW f \in [D -> Int], NEW S \in SUBSET D, IsFiniteSet(S)
    PROVE  SumFunctionOnSet(f, S) \in Int
BY SumFunType, SumUnfold

\* One element less.
LEMMA SumRemove ==
    ASSUME NEW D, NEW f \in [D -> Int], NEW S \in SUBSET D, IsFiniteSet(S), NEW x \in S
    PROVE  SumFunctionOnSet(f, S \ {x}) = SumFunctionOnSet(f, S) - f[x]
<1> DEFINE R == S \ {x}
<1>1. IsFiniteSet(R) /\ R \in SUBSET D
    BY FS_RemoveElement
<1>2. SumFun(f, S)[S] = f[x] + SumFun(f, S)[R]
    BY SumFunAny
<1>3. SumFun(f, S)[R] = SumFun(f, R)[R]
    <2>1. R \in SUBSET (S \cap R) /\ \A y \in S \cap R : f[y] = f[y]
        OBVIOUS
    <2> HIDE DEF R
    <2> QED
        BY <1>1, <2>1, SumFunSame
<1>4. SumFunctionOnSet(f, R) = SumFun(f, R)[R] /\ SumFunctionOnSet(f, S) = SumFun(f, S)[S]
    BY SumUnfold
<1>5. SumFunctionOnSet(f, R) \in Int /\ f[x] \in Int
    BY <1>1, SumType
<1> HIDE DEF R
<1>6. SumFunctionOnSet(f, R) = SumFunctionOnSet(f, S) - f[x]
    BY <1>2, <1>3, <1>4, <1>5
<1> QED
    BY <1>6 DEF R

\* One element more.
LEMMA SumAdd ==
    ASSUME NEW D, NEW f \in [D -> Int], NEW S \in SUBSET D, IsFiniteSet(S), NEW x \in D, x \notin S
    PROVE  SumFunctionOnSet(f, S \cup {x}) = SumFunctionOnSet(f, S) + f[x]
<1> DEFINE R == S \cup {x}
<1>1. IsFiniteSet(R) /\ R \in SUBSET D /\ x \in R /\ R \ {x} = S
    BY FS_AddElement
<1> HIDE DEF R
<1>2. SumFunctionOnSet(f, R \ {x}) = SumFunctionOnSet(f, R) - f[x]
    BY <1>1, SumRemove
<1>3. SumFunctionOnSet(f, R) \in Int /\ f[x] \in Int
    BY <1>1, SumType
<1>4. SumFunctionOnSet(f, R) = SumFunctionOnSet(f, S) + f[x]
    BY <1>1, <1>2, <1>3
<1> QED
    BY <1>4 DEF R

\* The sum is made of the values on the set and of nothing else.
LEMMA SumSame ==
    ASSUME NEW f, NEW h, NEW S, IsFiniteSet(S), \A x \in S : f[x] = h[x]
    PROVE  SumFunctionOnSet(f, S) = SumFunctionOnSet(h, S)
BY SumFunSame, SumUnfold

\* Summands that are not negative have no negative sum, and a sum is at least each of them.
LEMMA SumNat ==
    ASSUME NEW D, NEW f \in [D -> Nat], NEW S \in SUBSET D, IsFiniteSet(S)
    PROVE  /\ SumFunctionOnSet(f, S) \in Nat
           /\ \A x \in S : f[x] <= SumFunctionOnSet(f, S)
<1> DEFINE T == {n \in Nat : \A s \in SUBSET S : Cardinality(s) <= n => SumFunctionOnSet(f, s) \in Nat}
<1>0. \A s \in SUBSET S : IsFiniteSet(s) /\ Cardinality(s) \in Nat
    BY FS_Subset, FS_CardinalityType
<1>f. f \in [D -> Int]
    OBVIOUS
<1>r. ASSUME NEW s \in SUBSET S, NEW x \in s
      PROVE  SumFunctionOnSet(f, s) = f[x] + SumFunctionOnSet(f, s \ {x})
    <2>1. SumFunctionOnSet(f, s \ {x}) = SumFunctionOnSet(f, s) - f[x]
        BY <1>0, <1>f, SumRemove
    <2>2. SumFunctionOnSet(f, s) \in Int /\ f[x] \in Int
        BY <1>0, <1>f, SumType
    <2> QED
        BY <2>1, <2>2
<1>1. 0 \in T
    BY <1>0, FS_EmptySet, SumEmpty
<1>2. ASSUME NEW n \in Nat, n \in T PROVE n + 1 \in T
    <2> SUFFICES ASSUME NEW s \in SUBSET S, Cardinality(s) <= n + 1 PROVE SumFunctionOnSet(f, s) \in Nat
        OBVIOUS
    <2>1. CASE s = {}
        BY <2>1, SumEmpty
    <2>2. CASE s # {}
        <3>1. PICK x \in s : TRUE
            BY <2>2
        <3>2. s \ {x} \in SUBSET S /\ Cardinality(s \ {x}) <= n
            BY <3>1, <1>0, FS_RemoveElement
        <3>3. SumFunctionOnSet(f, s \ {x}) \in Nat
            BY <3>2, <1>2
        <3> QED
            BY <3>1, <3>3, <1>r
    <2> QED
        BY <2>1, <2>2
<1>3. \A n \in Nat : n \in T
    <2> HIDE DEF T
    <2> QED
        BY <1>1, <1>2, NatSet
<1>4. \A s \in SUBSET S : SumFunctionOnSet(f, s) \in Nat
    BY <1>0, <1>3
<1>5. ASSUME NEW x \in S PROVE f[x] <= SumFunctionOnSet(f, S)
    <2>1. SumFunctionOnSet(f, S) = f[x] + SumFunctionOnSet(f, S \ {x})
        BY <1>r
    <2>2. SumFunctionOnSet(f, S \ {x}) \in Nat /\ f[x] \in Nat
        BY <1>4
    <2> QED
        BY <2>1, <2>2
<1> QED
    BY <1>4, <1>5
=============================================================================
