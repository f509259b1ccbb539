----------------------------- MODULE CombatProofs -----------------------------
(***************************************************************************)
(* Theorems about EnemyAI and the path search under it, for every level,   *)
(* size of cell and radius, set of enemies and players, and length of a    *)
(* tick, and about HitDetection, for every size of the capsules and every  *)
(* shot.  First LevelObstacles: a leg between two points of neighbouring   *)
(* free cells meets no inflated box, the search links every cell it has    *)
(* come to back to the start through such neighbours, and smoothing only   *)
(* replaces legs by ones it has looked along.  The search that ends by     *)
(* itself has found a shortest way: its queue is a front that every other  *)
(* way has to cross, and the estimate never promises too little.  Then a   *)
(* tick: by induction over the set of the enemies that have had their      *)
(* turns, what has become of each.  Last the shots: the place a test looks *)
(* at is the closest the line comes to the axis of the capsule, and a      *)
(* capsule is convex, so what the line meets of it is one stretch.         *)
(***************************************************************************)
EXTENDS EnemyAI, HitDetection, WellFoundedInduction, FiniteSetTheorems, TLAPS

(* The numbers are well ordered by <.                                      *)
LEMMA LessThan ==
  \E R : IsWellFoundedOn(R, Nat) /\ \A x, y \in Nat : y < x => <<y, x>> \in R
<1> DEFINE R == OpToRel(<, Nat)
<1>1. IsWellFoundedOn(R, Nat)
  BY NatLessThanWellFounded
<1>2. ASSUME NEW x \in Nat, NEW y \in Nat, y < x
      PROVE  <<y, x>> \in R
  <2>1. <<y, x>> \in Nat \X Nat /\ <<y, x>>[1] < <<y, x>>[2]
    BY <1>2
  <2> QED BY <2>1, Zenon DEF OpToRel
<1> HIDE DEF R
<1> QED BY <1>1, <1>2, Zenon

(* Induction over the numbers, with a set in the place of a predicate.     *)
LEMMA SetInduction ==
  ASSUME NEW S, 0 \in S, \A n \in Nat : n \in S => n + 1 \in S
  PROVE  Nat \subseteq S
<1> SUFFICES ASSUME Nat \ S # {} PROVE FALSE
  OBVIOUS
<1>1. PICK R : IsWellFoundedOn(R, Nat) /\ \A x, y \in Nat : y < x => <<y, x>> \in R
  BY LessThan, Zenon
<1>2. PICK x \in Nat \ S : \A y \in Nat \ S : ~(<<y, x>> \in R)
  BY <1>1, WFMin, Zenon
<1>3. x # 0 /\ x - 1 \in Nat /\ x - 1 < x
  BY <1>2
<1>4. x - 1 \in S
  BY <1>1, <1>2, <1>3
<1>5. (x - 1) + 1 \in S /\ (x - 1) + 1 = x
  BY <1>3, <1>4
<1> QED BY <1>5

(* Arithmetic                                                              *)

LEMMA TimesKeepsOrder ==
  ASSUME NEW a \in Int, NEW b \in Int, NEW m \in Nat
  PROVE  /\ a <= b => a * m <= b * m
         /\ m # 0 /\ a * m <= b * m => a <= b
<1>1. ASSUME a <= b PROVE a * m <= b * m
  <2>1. (b - a) * m >= 0
    BY <1>1
  <2>2. (b - a) * m = b * m - a * m
    OBVIOUS
  <2>3. a * m \in Int /\ b * m \in Int
    OBVIOUS
  <2> QED BY <2>1, <2>2, <2>3
<1>2. ASSUME m # 0, a * m <= b * m PROVE a <= b
  <2>1. CASE b < a
    <3>1. (a - b) * m >= m
      BY <2>1
    <3>2. (a - b) * m = a * m - b * m
      OBVIOUS
    <3>3. a * m \in Int /\ b * m \in Int
      OBVIOUS
    <3> QED BY <1>2, <3>1, <3>2, <3>3
  <2> QED BY <2>1
<1> QED BY <1>1, <1>2

LEMMA QuotientIs ==
  ASSUME NEW a \in Nat, NEW k \in Nat \ {0}
  PROVE  /\ a \div k \in Nat
         /\ (a \div k) * k <= a /\ a < (a \div k) * k + k
<1>1. a = k * (a \div k) + (a % k) /\ a % k \in 0 .. k - 1 /\ a \div k \in Nat
  OBVIOUS
<1>2. k * (a \div k) = (a \div k) * k /\ (a \div k) * k \in Int
  BY <1>1
<1> QED BY <1>1, <1>2

(* A number between two multiples in a row has one quotient. *)
LEMMA QuotientOf ==
  ASSUME NEW a \in Nat, NEW k \in Nat \ {0}, NEW c \in Nat, c * k <= a, a < c * k + k
  PROVE  a \div k = c
<1> DEFINE d == a \div k
<1>1. d \in Nat /\ d * k <= a /\ a < d * k + k
  BY QuotientIs
<1> HIDE DEF d
<1>2. c * k \in Int /\ d * k \in Int /\ (c + 1) * k = c * k + k /\ (d + 1) * k = d * k + k
  BY <1>1
<1>3. CASE d < c
  <2>1. (d + 1) * k <= c * k
    BY <1>1, <1>3, TimesKeepsOrder
  <2> QED BY <1>1, <1>2, <2>1
<1>4. CASE c < d
  <2>1. (c + 1) * k <= d * k
    BY <1>1, <1>4, TimesKeepsOrder
  <2> QED BY <1>1, <1>2, <2>1
<1>5. d = c
  BY <1>1, <1>3, <1>4
<1> QED BY <1>5 DEF d

LEMMA QuotientKeepsOrder ==
  ASSUME NEW a \in Nat, NEW b \in Nat, NEW k \in Nat \ {0}, a <= b
  PROVE  a \div k <= b \div k
<1> DEFINE c == a \div k
           d == b \div k
<1>1. c \in Nat /\ c * k <= a /\ d \in Nat /\ b < d * k + k
  BY QuotientIs
<1> HIDE DEF c, d
<1>2. CASE d < c
  <2>1. (d + 1) * k <= c * k
    BY <1>1, <1>2, TimesKeepsOrder
  <2>2. (d + 1) * k = d * k + k /\ d * k \in Int /\ c * k \in Int
    BY <1>1
  <2> QED BY <1>1, <2>1, <2>2
<1>3. c <= d
  BY <1>1, <1>2
<1> QED BY <1>3 DEF c, d

LEMMA TruncIs ==
  ASSUME NEW a \in Int, NEW b \in Int, NEW k \in Nat \ {0}, a <= b
  PROVE  Trunc(a, k) \in Int /\ Trunc(b, k) \in Int /\ Trunc(a, k) <= Trunc(b, k)
<1>1. CASE a >= 0
  <2>1. a \in Nat /\ b \in Nat /\ Trunc(a, k) = a \div k /\ Trunc(b, k) = b \div k
    BY <1>1 DEF Trunc
  <2> QED BY <2>1, QuotientIs, QuotientKeepsOrder
<1>2. CASE a < 0 /\ b >= 0
  <2>1. b \in Nat /\ -a \in Nat /\ Trunc(a, k) = -((-a) \div k) /\ Trunc(b, k) = b \div k
    BY <1>2 DEF Trunc
  <2>2. b \div k \in Nat /\ (-a) \div k \in Nat
    BY <2>1, QuotientIs
  <2> QED BY <2>1, <2>2
<1>3. CASE b < 0
  <2>1. /\ -b \in Nat /\ -a \in Nat /\ -b <= -a
        /\ Trunc(a, k) = -((-a) \div k) /\ Trunc(b, k) = -((-b) \div k)
    BY <1>3 DEF Trunc
  <2>2. (-b) \div k \in Nat /\ (-a) \div k \in Nat /\ (-b) \div k <= (-a) \div k
    BY <2>1, QuotientIs, QuotientKeepsOrder
  <2> QED BY <2>1, <2>2
<1> QED BY <1>1, <1>2, <1>3

(* The least of naturals, and what Min and Max are of two or three numbers. *)
LEMMA LeastNatural ==
  ASSUME NEW S \in SUBSET Nat, S # {}
  PROVE  \E n \in S : \A m \in S : n <= m
<1>1. PICK R : IsWellFoundedOn(R, Nat) /\ \A x, y \in Nat : y < x => <<y, x>> \in R
  BY LessThan, Zenon
<1>2. PICK n \in S : \A m \in S : ~(<<m, n>> \in R)
  BY ONLY <1>1, S \in SUBSET Nat, S # {}, WFMin, ZenonT(30)
<1>3. \A m \in S : ~(m < n)
  BY <1>1, <1>2
<1>4. \A m \in S : m \in Nat /\ n \in Nat
  BY <1>2
<1>5. \A m \in S : n <= m
  BY <1>3, <1>4
<1> QED BY <1>5

LEMMA MinIs ==
  ASSUME NEW S \in SUBSET Int, NEW m \in S, \A x \in S : m <= x
  PROVE  Min(S) = m
<1>1. \A x \in S : (\A y \in S : x <= y) => x = m
  OBVIOUS
<1> QED BY <1>1 DEF Min

LEMMA MaxIs ==
  ASSUME NEW S \in SUBSET Int, NEW m \in S, \A x \in S : x <= m
  PROVE  Max(S) = m
<1>1. \A x \in S : (\A y \in S : x >= y) => x = m
  OBVIOUS
<1> QED BY <1>1 DEF Max

LEMMA MinMaxOfTwo ==
  ASSUME NEW a \in Int, NEW b \in Int
  PROVE  /\ Min({a, b}) = IF a <= b THEN a ELSE b
         /\ Max({a, b}) = IF a <= b THEN b ELSE a
<1>1. Min({a, b}) = IF a <= b THEN a ELSE b
  <2> DEFINE m == IF a <= b THEN a ELSE b
  <2>1. m \in {a, b} /\ \A x \in {a, b} : m <= x
    OBVIOUS
  <2>2. {a, b} \in SUBSET Int
    OBVIOUS
  <2> HIDE DEF m
  <2>3. Min({a, b}) = m
    BY <2>1, <2>2, MinIs
  <2> QED BY <2>3 DEF m
<1>2. Max({a, b}) = IF a <= b THEN b ELSE a
  <2> DEFINE m == IF a <= b THEN b ELSE a
  <2>1. m \in {a, b} /\ \A x \in {a, b} : x <= m
    OBVIOUS
  <2>2. {a, b} \in SUBSET Int
    OBVIOUS
  <2> HIDE DEF m
  <2>3. Max({a, b}) = m
    BY <2>1, <2>2, MaxIs
  <2> QED BY <2>3 DEF m
<1> QED BY <1>1, <1>2

(* Of three, that they bound each of them. *)
LEMMA MinMaxOfThree ==
  ASSUME NEW a \in Int, NEW b \in Int, NEW c \in Int
  PROVE  /\ Min({a, b, c}) \in {a, b, c} /\ Max({a, b, c}) \in {a, b, c}
         /\ Min({a, b, c}) <= a /\ Min({a, b, c}) <= b /\ Min({a, b, c}) <= c
         /\ a <= Max({a, b, c}) /\ b <= Max({a, b, c}) /\ c <= Max({a, b, c})
<1> DEFINE S == {a, b, c}
<1>1. S \in SUBSET Int
  OBVIOUS
<1>2. \E m \in S : \A x \in S : m <= x
  <2>1. CASE a <= b /\ a <= c
    BY <2>1
  <2>2. CASE b <= a /\ b <= c
    BY <2>2
  <2>3. CASE c <= a /\ c <= b
    BY <2>3
  <2> QED BY <2>1, <2>2, <2>3
<1>3. \E m \in S : \A x \in S : x <= m
  <2>1. CASE b <= a /\ c <= a
    BY <2>1
  <2>2. CASE a <= b /\ c <= b
    BY <2>2
  <2>3. CASE a <= c /\ b <= c
    BY <2>3
  <2> QED BY <2>1, <2>2, <2>3
<1> HIDE DEF S
<1>4. Min(S) \in S /\ \A x \in S : Min(S) <= x
  BY <1>1, <1>2, MinIs
<1>5. Max(S) \in S /\ \A x \in S : x <= Max(S)
  BY <1>1, <1>3, MaxIs
<1> QED BY <1>4, <1>5 DEF S

(* A finite set in which any two elements are ordered has a first one.     *)
LEMMA FirstIn ==
  ASSUME NEW D, IsFiniteSet(D), D # {}, NEW R,
         \A d, e \in D : <<d, e>> \in R \/ <<e, d>> \in R,
         \A c, d, e \in D : <<c, d>> \in R /\ <<d, e>> \in R => <<c, e>> \in R
  PROVE  \E d \in D : \A e \in D : <<d, e>> \in R
<1> DEFINE Q == { n \in Nat : \A S \in SUBSET D : IsFiniteSet(S) /\ S # {} /\ Cardinality(S) = n =>
                                \E d \in S : \A e \in S : <<d, e>> \in R }
<1>1. 0 \in Q
  <2>1. \A S \in SUBSET D : IsFiniteSet(S) /\ Cardinality(S) = 0 => S = {}
    BY FS_EmptySet
  <2> QED BY <2>1
<1>2. ASSUME NEW n \in Nat, n \in Q PROVE n + 1 \in Q
  <2>1. ASSUME NEW S \in SUBSET D, IsFiniteSet(S), S # {}, Cardinality(S) = n + 1
        PROVE  \E d \in S : \A e \in S : <<d, e>> \in R
    <3>1. PICK c \in S : TRUE
      BY <2>1
    <3> DEFINE T == S \ {c}
    <3>2. IsFiniteSet(T) /\ Cardinality(T) = n
      <4>1. IsFiniteSet(S \ {c}) /\ Cardinality(S \ {c}) = Cardinality(S) - 1
        BY <2>1, FS_RemoveElement
      <4> QED BY <2>1, <4>1
    <3>3. CASE T = {}
      BY <3>3
    <3>4. CASE T # {}
      <4>1. PICK d \in T : \A e \in T : <<d, e>> \in R
        BY <1>2, <3>2, <3>4
      <4>2. CASE <<c, d>> \in R
        BY <4>1, <4>2
      <4>3. CASE <<d, c>> \in R
        BY <4>1, <4>3
      <4> QED BY <4>2, <4>3
    <3> QED BY <3>3, <3>4
  <2> QED BY <2>1
<1> HIDE DEF Q
<1>3. Cardinality(D) \in Nat
  BY FS_CardinalityType
<1>4. Cardinality(D) \in Q
  BY <1>1, <1>2, <1>3, SetInduction
<1> QED BY <1>4 DEF Q

(* A number for each element of a finite set: one of them is the least.    *)
LEMMA LeastOf ==
  ASSUME NEW D, IsFiniteSet(D), D # {}, NEW f \in [D -> Int]
  PROVE  \E d \in D : \A e \in D : f[d] <= f[e]
<1> DEFINE R == { x \in D \X D : f[x[1]] <= f[x[2]] }
<1>1. \A d, e \in D : <<d, e>> \in R <=> f[d] <= f[e]
  OBVIOUS
<1>2. \A d \in D : f[d] \in Int
  OBVIOUS
<1> HIDE DEF R
<1>3. ASSUME NEW d \in D, NEW e \in D PROVE <<d, e>> \in R \/ <<e, d>> \in R
  <2>1. f[d] <= f[e] \/ f[e] <= f[d]
    BY <1>2
  <2> QED BY <1>1, <2>1
<1>4. \A c, d, e \in D : <<c, d>> \in R /\ <<d, e>> \in R => <<c, e>> \in R
  BY <1>1, <1>2
<1>5. PICK d \in D : \A e \in D : <<d, e>> \in R
  BY <1>3, <1>4, FirstIn
<1> QED BY <1>1, <1>5
-----------------------------------------------------------------------------
(* The grid *)

LEMMA MostOf ==
  ASSUME NEW D, IsFiniteSet(D), D # {}, NEW f \in [D -> Int]
  PROVE  \E d \in D : \A e \in D : f[e] <= f[d]
<1> DEFINE g == [d \in D |-> -f[d]]
<1>1. g \in [D -> Int] /\ \A d \in D : g[d] = -f[d]
  OBVIOUS
<1> HIDE DEF g
<1>2. PICK d \in D : \A e \in D : g[d] <= g[e]
  BY <1>1, LeastOf
<1>3. \A e \in D : f[d] \in Int /\ f[e] \in Int /\ -f[d] <= -f[e]
  BY <1>1, <1>2
<1> QED BY <1>3

LEMMA GridIs ==
  /\ GridMinX \in Int /\ GridMinY \in Int
  /\ CellSize \in Nat \ {0} /\ AgentRadius \in Nat
<1>1. \A b \in Boxes : b[1] \in Int /\ b[2] \in Int
  BY ObstacleAssumption
<1>2. Min({ b[1] : b \in Boxes }) \in Int
  <2> DEFINE f == [b \in Boxes |-> b[1]]
  <2>1. f \in [Boxes -> Int]
    BY <1>1
  <2>2. PICK d \in Boxes : \A e \in Boxes : f[d] <= f[e]
    BY <2>1, LeastOf, ObstacleAssumption
  <2>3. { b[1] : b \in Boxes } \in SUBSET Int /\ d[1] \in { b[1] : b \in Boxes }
        /\ \A x \in { b[1] : b \in Boxes } : d[1] <= x
    BY <1>1, <2>2
  <2> QED BY <1>1, <2>3, MinIs
<1>3. Min({ b[2] : b \in Boxes }) \in Int
  <2> DEFINE f == [b \in Boxes |-> b[2]]
  <2>1. f \in [Boxes -> Int]
    BY <1>1
  <2>2. PICK d \in Boxes : \A e \in Boxes : f[d] <= f[e]
    BY <2>1, LeastOf, ObstacleAssumption
  <2>3. { b[2] : b \in Boxes } \in SUBSET Int /\ d[2] \in { b[2] : b \in Boxes }
        /\ \A x \in { b[2] : b \in Boxes } : d[2] <= x
    BY <1>1, <2>2
  <2> QED BY <1>1, <2>3, MinIs
<1> QED BY <1>2, <1>3, ObstacleAssumption DEF GridMinX, GridMinY

LEMMA CellIs ==
  ASSUME NEW c \in Cells
  PROVE  c = <<c[1], c[2]>> /\ c[1] \in Nat /\ c[2] \in Nat /\ c[1] \in 0 .. GridW - 1 /\ c[2] \in 0 .. GridH - 1
<1>1. PICK x \in 0 .. GridW - 1, y \in 0 .. GridH - 1 : c = <<x, y>>
  BY DEF Cells
<1>2. x \in Nat /\ y \in Nat
  OBVIOUS
<1> QED BY <1>1, <1>2

(* The centre of a cell is in the cell. *)
LEMMA CentreIs ==
  ASSUME NEW c \in Cells
  PROVE  Centre(c) \in Points /\ CellOf(Centre(c)) = c
<1> DEFINE h == CellSize \div 2
<1>1. CellSize \in Nat \ {0} /\ h \in Nat /\ h < CellSize
  BY GridIs
<1> HIDE DEF h
<1>2. ASSUME NEW x \in Nat PROVE x * CellSize + h \in Nat /\ Trunc(x * CellSize + h, CellSize) = x
  <2>1. x * CellSize \in Nat
    BY <1>1
  <2>2. x * CellSize + h \in Nat /\ x * CellSize <= x * CellSize + h /\ x * CellSize + h < x * CellSize + CellSize
    BY <1>1, <2>1
  <2>3. (x * CellSize + h) \div CellSize = x
    BY <1>1, <2>2, QuotientOf
  <2> QED BY <2>2, <2>3 DEF Trunc
<1> DEFINE p == Centre(c)
<1>3. c[1] \in Nat /\ c[2] \in Nat /\ c = <<c[1], c[2]>>
  BY CellIs
<1>4. p = <<GridMinX + c[1] * CellSize + h, GridMinY + c[2] * CellSize + h>>
  BY DEF Centre, h
<1>5. c[1] * CellSize \in Int /\ c[2] * CellSize \in Int
  BY <1>1, <1>3
<1> HIDE DEF p
<1>6. p[1] - GridMinX = c[1] * CellSize + h /\ p[2] - GridMinY = c[2] * CellSize + h
  BY <1>1, <1>4, <1>5, GridIs
<1>7. CellOf(p) = <<c[1], c[2]>>
  BY <1>2, <1>3, <1>6 DEF CellOf
<1>8. p \in Points
  BY <1>1, <1>4, <1>5, GridIs DEF Points
<1> QED BY <1>3, <1>7, <1>8 DEF p
-----------------------------------------------------------------------------
(* The slab test                                                           *)

Overlap(origin, along, low, high) ==
  /\ low <= origin \/ low <= origin + along
  /\ origin <= high \/ origin + along <= high

(* The box and the segment overlap along an axis, if the test says so.     *)
LEMMA SlabIs ==
  ASSUME NEW origin \in Int, NEW along \in Int, NEW low \in Int, NEW high \in Int, low <= high,
         NEW m \in Nat \ {0}, NEW whole, whole = Max({1, Abs(along)}) * m,
         NEW s, s = Slab(origin, along, low, high, whole)
  PROVE  /\ whole \in Int /\ s[1] \in Int /\ s[2] \in Int
         /\ s[1] <= whole /\ 0 <= s[2] /\ s[1] <= s[2] => Overlap(origin, along, low, high)
<1>1. CASE along = 0
  <2>1. Abs(along) = 0 /\ Max({1, 0}) = 1
    BY <1>1, MinMaxOfTwo DEF Abs
  <2>2. whole = m
    BY <2>1
  <2>3. s = IF low <= origin /\ origin <= high THEN <<0, whole>> ELSE <<whole, 0>>
    BY <1>1 DEF Slab
  <2> QED BY <2>2, <2>3 DEF Overlap
<1>2. CASE along # 0
  <2> DEFINE a == Abs(along)
             Time(x) == (x - origin) * Sign(along) * (whole \div Abs(along))
  <2>1. a \in Nat \ {0} /\ Max({1, a}) = a
    <3>1. a \in Nat \ {0}
      BY <1>2 DEF Abs
    <3> HIDE DEF a
    <3>2. 1 \in Int /\ a \in Int
      BY <3>1
    <3>3. Max({1, a}) = IF 1 <= a THEN a ELSE 1
      BY <3>2, MinMaxOfTwo, Zenon
    <3> QED BY <3>1, <3>3
  <2>2. whole = a * m /\ whole \in Nat
    BY <2>1
  <2>3. whole \div Abs(along) = m
    <3>1. m * a = whole
      BY <2>1, <2>2
    <3>2. m * a <= whole /\ whole < m * a + a
      BY <2>1, <2>2, <3>1
    <3>3. whole \div a = m
      BY <2>1, <2>2, <3>2, QuotientOf
    <3> QED BY <3>3
  <2>4. s = <<Min({Time(low), Time(high)}), Max({Time(low), Time(high)})>>
    BY <1>2 DEF Slab
  <2>5. CASE along > 0
    <3>1. Sign(along) = 1 /\ a = along
      BY <2>5 DEF Sign, Abs
    <3>2. Time(low) = (low - origin) * m /\ Time(high) = (high - origin) * m
      BY <2>3, <3>1
    <3>3. (low - origin) * m <= (high - origin) * m
      BY TimesKeepsOrder
    <3>4. (low - origin) * m \in Int /\ (high - origin) * m \in Int
      OBVIOUS
    <3> HIDE DEF Time
    <3>5. s[1] = (low - origin) * m /\ s[2] = (high - origin) * m
      BY <2>4, <3>2, <3>3, <3>4, MinMaxOfTwo
    <3>6. ASSUME s[1] <= whole PROVE low <= origin + along
      <4>1. (low - origin) * m <= along * m
        BY <2>2, <3>1, <3>5, <3>6
      <4>2. low - origin <= along
        BY <4>1, TimesKeepsOrder
      <4> QED BY <4>2
    <3>7. ASSUME 0 <= s[2] PROVE origin <= high
      <4>1. 0 * m <= (high - origin) * m
        BY <3>5, <3>7
      <4>2. 0 <= high - origin
        BY <4>1, TimesKeepsOrder
      <4> QED BY <4>2
    <3> QED BY <2>2, <3>4, <3>5, <3>6, <3>7 DEF Overlap
  <2>6. CASE along < 0
    <3>1. Sign(along) = -1 /\ a = -along
      BY <2>6 DEF Sign, Abs
    <3>2. Time(low) = (origin - low) * m /\ Time(high) = (origin - high) * m
      <4>1. (low - origin) * (-1) = origin - low /\ (high - origin) * (-1) = origin - high
        OBVIOUS
      <4> QED BY <2>3, <3>1, <4>1
    <3>3. (origin - high) * m <= (origin - low) * m
      BY TimesKeepsOrder
    <3>4. (origin - low) * m \in Int /\ (origin - high) * m \in Int
      OBVIOUS
    <3> HIDE DEF Time
    <3>5. s[1] = (origin - high) * m /\ s[2] = (origin - low) * m
      BY <2>4, <3>2, <3>3, <3>4, MinMaxOfTwo
    <3>6. ASSUME s[1] <= whole PROVE origin + along <= high
      <4>1. (origin - high) * m <= (-along) * m
        BY <2>2, <3>1, <3>5, <3>6
      <4>2. origin - high <= -along
        BY <4>1, TimesKeepsOrder
      <4> QED BY <4>2
    <3>7. ASSUME 0 <= s[2] PROVE low <= origin
      <4>1. 0 * m <= (origin - low) * m
        BY <3>5, <3>7
      <4>2. 0 <= origin - low
        BY <4>1, TimesKeepsOrder
      <4> QED BY <4>2
    <3> QED BY <2>2, <3>4, <3>5, <3>6, <3>7 DEF Overlap
  <2> QED BY <1>2, <2>5, <2>6
<1> QED BY <1>1, <1>2

LEMMA OverlapIs ==
  ASSUME NEW p \in Points, NEW q \in Points, NEW b,
         b[1] \in Int, b[2] \in Int, b[3] \in Int, b[4] \in Int, b[1] <= b[3], b[2] <= b[4],
         SegmentIntersectsBox(p, q, b)
  PROVE  /\ b[1] <= p[1] \/ b[1] <= q[1]
         /\ p[1] <= b[3] \/ q[1] <= b[3]
         /\ b[2] <= p[2] \/ b[2] <= q[2]
         /\ p[2] <= b[4] \/ q[2] <= b[4]
<1> DEFINE dx == q[1] - p[1]
           dy == q[2] - p[2]
           mx == Max({1, Abs(dx)})
           my == Max({1, Abs(dy)})
           whole == mx * my
           x == Slab(p[1], dx, b[1], b[3], whole)
           y == Slab(p[2], dy, b[2], b[4], whole)
<1>1. /\ p[1] \in Int /\ p[2] \in Int /\ q[1] \in Int /\ q[2] \in Int
      /\ dx \in Int /\ dy \in Int
  BY DEF Points
<1>2. Max({0, x[1], y[1]}) <= Min({whole, x[2], y[2]})
  BY DEF SegmentIntersectsBox
<1>3. ASSUME NEW a \in Int PROVE Max({1, Abs(a)}) \in Nat \ {0}
  <2>1. Abs(a) \in Int /\ 1 \in Int
    BY DEF Abs
  <2>2. Max({1, Abs(a)}) = IF 1 <= Abs(a) THEN Abs(a) ELSE 1
    BY <2>1, MinMaxOfTwo, Zenon
  <2> QED BY <2>1, <2>2
<1>4. mx \in Nat \ {0} /\ my \in Nat \ {0}
  BY <1>1, <1>3
<1>5. whole = my * mx
  BY <1>4
<1> HIDE DEF dx, dy, x, y
<1>6. /\ whole \in Int /\ x[1] \in Int /\ x[2] \in Int
      /\ x[1] <= whole /\ 0 <= x[2] /\ x[1] <= x[2] => Overlap(p[1], dx, b[1], b[3])
  BY <1>1, <1>4, SlabIs DEF x, mx
<1>7. /\ y[1] \in Int /\ y[2] \in Int
      /\ y[1] <= whole /\ 0 <= y[2] /\ y[1] <= y[2] => Overlap(p[2], dy, b[2], b[4])
  BY <1>1, <1>4, <1>5, SlabIs DEF y, my
<1> HIDE DEF mx, my, whole
<1>8. /\ x[1] <= whole /\ 0 <= x[2] /\ x[1] <= x[2]
      /\ y[1] <= whole /\ 0 <= y[2] /\ y[1] <= y[2]
  <2> DEFINE u == Max({0, x[1], y[1]})
             v == Min({whole, x[2], y[2]})
  <2>1. u \in Int /\ 0 <= u /\ x[1] <= u /\ y[1] <= u
    <3>1. 0 \in Int /\ x[1] \in Int /\ y[1] \in Int
      BY <1>6, <1>7
    <3>2. u \in {0, x[1], y[1]} /\ 0 <= u /\ x[1] <= u /\ y[1] <= u
      BY <3>1, MinMaxOfThree, Zenon
    <3> QED BY <3>1, <3>2
  <2>2. v \in Int /\ v <= whole /\ v <= x[2] /\ v <= y[2]
    <3>1. whole \in Int /\ x[2] \in Int /\ y[2] \in Int
      BY <1>6, <1>7
    <3>2. v \in {whole, x[2], y[2]} /\ v <= whole /\ v <= x[2] /\ v <= y[2]
      BY <3>1, MinMaxOfThree, Zenon
    <3> QED BY <3>1, <3>2
  <2>3. u <= v
    BY <1>2
  <2> HIDE DEF u, v
  <2> QED BY <1>6, <1>7, <2>1, <2>2, <2>3
<1>9. p[1] + dx = q[1] /\ p[2] + dy = q[2]
  BY <1>1 DEF dx, dy
<1> QED BY <1>6, <1>7, <1>8, <1>9 DEF Overlap

OneWithin(c, n, l, h) == \E x \in {c, n} : l <= x /\ x <= h

(* Along an axis: one of the two cells the ends are in is one of the box's. *)
LEMMA CellBetween ==
  ASSUME NEW p \in Int, NEW q \in Int, NEW low \in Int, NEW high \in Int, low <= high,
         low <= p \/ low <= q, p <= high \/ q <= high,
         NEW c, c = Trunc(p, CellSize), NEW n, n = Trunc(q, CellSize), Abs(n - c) <= 1,
         NEW l, l = Trunc(low, CellSize), NEW h, h = Trunc(high, CellSize)
  PROVE  OneWithin(c, n, l, h)
<1>1. CellSize \in Nat \ {0}
  BY GridIs
<1>2. c \in Int /\ n \in Int /\ l \in Int /\ h \in Int /\ l <= h
  <2>1. l \in Int /\ h \in Int /\ l <= h
    BY <1>1, TruncIs
  <2>2. p <= p /\ q <= q
    OBVIOUS
  <2>3. Trunc(p, CellSize) \in Int /\ Trunc(q, CellSize) \in Int
    BY <1>1, <2>2, TruncIs
  <2> QED BY <2>1, <2>3
<1>3. /\ p <= q => c <= n
      /\ q <= p => n <= c
      /\ low <= p => l <= c
      /\ low <= q => l <= n
      /\ p <= high => c <= h
      /\ q <= high => n <= h
  BY <1>1, TruncIs
<1>4. n - c <= 1 /\ c - n <= 1
  BY <1>2 DEF Abs
<1>5. CASE p <= q
  <2>1. low <= q /\ p <= high
    BY <1>5
  <2> QED BY <1>2, <1>3, <1>4, <1>5, <2>1 DEF OneWithin
<1>6. CASE q <= p
  <2>1. low <= p /\ q <= high
    BY <1>6
  <2> QED BY <1>2, <1>3, <1>4, <1>6, <2>1 DEF OneWithin
<1> QED BY <1>5, <1>6

(* A leg between points of neighbouring cells keeps the radius off every   *)
(* box: a box that it met would have covered one of the four cells around. *)
LEMMA LegIsClear ==
  ASSUME NEW p \in Points, NEW q \in Points, CellOf(p) \in FreeCells, CellOf(q) \in Neighbours(CellOf(p))
  PROVE  ~SegmentBlocked(p, q, AgentRadius)
<1> SUFFICES ASSUME NEW b \in Boxes, SegmentIntersectsBox(p, q, Inflate(b, AgentRadius))
             PROVE  FALSE
  BY DEF SegmentBlocked
<1> DEFINE i == Inflate(b, AgentRadius)
           c == CellOf(p)
           n == CellOf(q)
           low == CellOf(<<i[1], i[2]>>)
           high == CellOf(<<i[3], i[4]>>)
<1>1. /\ b[1] \in Int /\ b[2] \in Int /\ b[3] \in Int /\ b[4] \in Int /\ b[1] <= b[3] /\ b[2] <= b[4]
      /\ AgentRadius \in Nat
  BY ObstacleAssumption
<1>2. /\ i[1] \in Int /\ i[2] \in Int /\ i[3] \in Int /\ i[4] \in Int /\ i[1] <= i[3] /\ i[2] <= i[4]
  BY <1>1 DEF Inflate
<1>3. SegmentIntersectsBox(p, q, i)
  OBVIOUS
<1> HIDE DEF i
<1>4. /\ i[1] <= p[1] \/ i[1] <= q[1]
      /\ p[1] <= i[3] \/ q[1] <= i[3]
      /\ i[2] <= p[2] \/ i[2] <= q[2]
      /\ p[2] <= i[4] \/ q[2] <= i[4]
  BY <1>2, <1>3, OverlapIs
<1>5. /\ p[1] \in Int /\ p[2] \in Int /\ q[1] \in Int /\ q[2] \in Int
      /\ GridMinX \in Int /\ GridMinY \in Int
  BY GridIs DEF Points
<1>6. /\ c[1] = Trunc(p[1] - GridMinX, CellSize) /\ c[2] = Trunc(p[2] - GridMinY, CellSize)
      /\ n[1] = Trunc(q[1] - GridMinX, CellSize) /\ n[2] = Trunc(q[2] - GridMinY, CellSize)
      /\ low[1] = Trunc(i[1] - GridMinX, CellSize) /\ low[2] = Trunc(i[2] - GridMinY, CellSize)
      /\ high[1] = Trunc(i[3] - GridMinX, CellSize) /\ high[2] = Trunc(i[4] - GridMinY, CellSize)
  BY DEF CellOf
<1> HIDE DEF c, n, low, high
<1>7. /\ c \in FreeCells /\ n \in FreeCells /\ Abs(n[1] - c[1]) <= 1 /\ Abs(n[2] - c[2]) <= 1
      /\ <<n[1], c[2]>> \notin BlockedCells /\ <<c[1], n[2]>> \notin BlockedCells
  BY DEF Neighbours, c, n
<1>8. PICK x \in {c[1], n[1]} : low[1] <= x /\ x <= high[1]
  <2> DEFINE u == p[1] - GridMinX
             v == q[1] - GridMinX
             l == i[1] - GridMinX
             h == i[3] - GridMinX
  <2>1. u \in Int /\ v \in Int /\ l \in Int /\ h \in Int /\ l <= h
        /\ (l <= u \/ l <= v) /\ (u <= h \/ v <= h)
    BY <1>2, <1>4, <1>5
  <2>2. /\ c[1] = Trunc(u, CellSize) /\ n[1] = Trunc(v, CellSize)
        /\ low[1] = Trunc(l, CellSize) /\ high[1] = Trunc(h, CellSize)
    BY <1>6
  <2>3. Abs(n[1] - c[1]) <= 1
    BY <1>7
  <2> HIDE DEF u, v, l, h
  <2>4. OneWithin(c[1], n[1], low[1], high[1])
    BY <2>1, <2>2, <2>3, CellBetween
  <2> QED BY <2>4 DEF OneWithin
<1>9. PICK y \in {c[2], n[2]} : low[2] <= y /\ y <= high[2]
  <2> DEFINE u == p[2] - GridMinY
             v == q[2] - GridMinY
             l == i[2] - GridMinY
             h == i[4] - GridMinY
  <2>1. u \in Int /\ v \in Int /\ l \in Int /\ h \in Int /\ l <= h
        /\ (l <= u \/ l <= v) /\ (u <= h \/ v <= h)
    BY <1>2, <1>4, <1>5
  <2>2. /\ c[2] = Trunc(u, CellSize) /\ n[2] = Trunc(v, CellSize)
        /\ low[2] = Trunc(l, CellSize) /\ high[2] = Trunc(h, CellSize)
    BY <1>6
  <2>3. Abs(n[2] - c[2]) <= 1
    BY <1>7
  <2> HIDE DEF u, v, l, h
  <2>4. OneWithin(c[2], n[2], low[2], high[2])
    BY <2>1, <2>2, <2>3, CellBetween
  <2> QED BY <2>4 DEF OneWithin
<1>10. c \in Cells /\ n \in Cells /\ c \notin BlockedCells /\ n \notin BlockedCells
  BY <1>7 DEF FreeCells
<1>11. <<x, y>> \in Cells
  <2>1. x \in 0 .. GridW - 1 /\ y \in 0 .. GridH - 1
    BY <1>10, CellIs
  <2> QED BY <2>1 DEF Cells
<1>12. <<x, y>> \in CoveredBy(b)
  <2>1. \A k \in 1 .. 2 : low[k] <= <<x, y>>[k] /\ <<x, y>>[k] <= high[k]
    BY <1>8, <1>9
  <2>2. CoveredBy(b) = { d \in Cells : \A k \in 1 .. 2 : low[k] <= d[k] /\ d[k] <= high[k] }
    BY Zenon DEF CoveredBy, i, low, high
  <2> QED BY <1>11, <2>1, <2>2
<1>13. <<x, y>> \in BlockedCells
  BY <1>12 DEF BlockedCells
<1>14. <<x, y>> \notin BlockedCells
  <2>1. c = <<c[1], c[2]>> /\ n = <<n[1], n[2]>>
    BY <1>10, CellIs
  <2>2. <<c[1], c[2]>> \notin BlockedCells /\ <<n[1], n[2]>> \notin BlockedCells
    BY <1>10, <2>1
  <2> QED BY <1>7, <2>2
<1> QED BY <1>13, <1>14
-----------------------------------------------------------------------------
(* The search                                                              *)

(* The estimate by the two sides of the way left, a along one axis and b   *)
(* along the other.                                                        *)
Octile(a, b) == IF a <= b THEN a * DiagonalCost + (b - a) * CellCost
                ELSE b * DiagonalCost + (a - b) * CellCost

LEMMA OctileIs ==
  ASSUME NEW c \in Cells, NEW d \in Cells
  PROVE  \E a, b \in Nat :
           /\ a = Abs(c[1] - d[1]) /\ b = Abs(c[2] - d[2])
           /\ Heuristic(c, d) = Octile(a, b)
<1> DEFINE a == Abs(c[1] - d[1])
           b == Abs(c[2] - d[2])
<1>1. a \in Nat /\ b \in Nat
  BY CellIs DEF Abs
<1>2. Heuristic(c, d) = Min({a, b}) * DiagonalCost + (Max({a, b}) - Min({a, b})) * CellCost
  BY Zenon DEF Heuristic
<1> HIDE DEF a, b
<1>3. /\ Min({a, b}) = IF a <= b THEN a ELSE b
      /\ Max({a, b}) = IF a <= b THEN b ELSE a
  BY <1>1, MinMaxOfTwo
<1>4. Heuristic(c, d) = Octile(a, b)
  BY <1>1, <1>2, <1>3 DEF Octile
<1> QED BY <1>1, <1>4 DEF a, b

LEMMA HeuristicIs ==
  ASSUME NEW c \in Cells, NEW d \in Cells
  PROVE  Heuristic(c, d) \in Nat
<1>1. PICK a, b \in Nat : Heuristic(c, d) = Octile(a, b)
  BY OctileIs
<1>2. CellCost \in Nat /\ DiagonalCost \in Nat
  BY ObstacleAssumption
<1>3. a <= b => a * DiagonalCost \in Nat /\ (b - a) * CellCost \in Nat
  BY <1>2
<1>4. b <= a => b * DiagonalCost \in Nat /\ (a - b) * CellCost \in Nat
  BY <1>2
<1> QED BY <1>1, <1>3, <1>4 DEF Octile

(* A step to a neighbour saves no more of the estimate than it costs, and  *)
(* nothing is left to go at the goal.                                      *)
LEMMA OctileStep ==
  ASSUME NEW a \in Nat, NEW b \in Nat
  PROVE  /\ Octile(a, b) \in Nat /\ Octile(a, b) = Octile(b, a)
         /\ Octile(a + 1, b) <= Octile(a, b) + CellCost
         /\ Octile(a, b) <= Octile(a + 1, b)
         /\ Octile(a + 1, b + 1) = Octile(a, b) + DiagonalCost
<1> DEFINE C == CellCost
           D == DiagonalCost
<1>1. C \in Nat /\ D \in Nat /\ C <= D /\ D <= 2 * C
  BY ObstacleAssumption
<1> HIDE DEF C, D
<1>2. \A x, y \in Nat : Octile(x, y) = IF x <= y THEN x * D + (y - x) * C ELSE y * D + (x - y) * C
  BY DEF Octile, C, D
<1>3. /\ a * D \in Nat /\ b * D \in Nat /\ a * C \in Nat /\ b * C \in Nat
      /\ (b - a) * C = b * C - a * C /\ (a - b) * C = a * C - b * C
      /\ (a + 1) * D = a * D + D /\ (b + 1) * D = b * D + D
      /\ (b - (a + 1)) * C = b * C - a * C - C /\ ((a + 1) - b) * C = a * C - b * C + C
      /\ ((b + 1) - (a + 1)) * C = b * C - a * C /\ ((a + 1) - (b + 1)) * C = a * C - b * C
  BY <1>1
<1>4. /\ Octile(a, b) = IF a <= b THEN a * D + (b * C - a * C) ELSE b * D + (a * C - b * C)
      /\ Octile(a + 1, b) = IF a + 1 <= b THEN a * D + D + (b * C - a * C - C) ELSE b * D + (a * C - b * C + C)
      /\ Octile(a + 1, b + 1) = IF a <= b THEN a * D + D + (b * C - a * C) ELSE b * D + D + (a * C - b * C)
  BY <1>2, <1>3
<1>5. Octile(a, b) = Octile(b, a)
  <2>1. CASE a = b
    BY <2>1
  <2>2. CASE a # b
    BY <1>2, <2>2
  <2> QED BY <2>1, <2>2
<1>6. Octile(a, b) \in Nat
  <2>1. CASE a <= b
    <3>1. (b - a) * C \in Nat
      BY <1>1, <2>1
    <3> QED BY <1>2, <1>3, <2>1, <3>1
  <2>2. CASE ~(a <= b)
    <3>1. (a - b) * C \in Nat
      BY <1>1, <2>2
    <3> QED BY <1>2, <1>3, <2>2, <3>1
  <2> QED BY <2>1, <2>2
<1> DEFINE aC == a * C
           bC == b * C
           aD == a * D
           bD == b * D
<1>7. aC \in Nat /\ bC \in Nat /\ aD \in Nat /\ bD \in Nat /\ (a = b => aC = bC /\ aD = bD)
  BY <1>3
<1>8. /\ Octile(a, b) = IF a <= b THEN aD + (bC - aC) ELSE bD + (aC - bC)
      /\ Octile(a + 1, b) = IF a + 1 <= b THEN aD + D + (bC - aC - C) ELSE bD + (aC - bC + C)
      /\ Octile(a + 1, b + 1) = IF a <= b THEN aD + D + (bC - aC) ELSE bD + D + (aC - bC)
  BY <1>4
<1> HIDE DEF aC, bC, aD, bD
<1>9. CASE a + 1 <= b
  BY <1>1, <1>5, <1>6, <1>7, <1>8, <1>9 DEF C, D
<1>10. CASE a = b
  BY <1>1, <1>5, <1>6, <1>7, <1>8, <1>10 DEF C, D
<1>11. CASE b + 1 <= a
  BY <1>1, <1>5, <1>6, <1>7, <1>8, <1>11 DEF C, D
<1> QED BY <1>9, <1>10, <1>11

LEMMA HeuristicStep ==
  ASSUME NEW c \in FreeCells, NEW n \in Neighbours(c), NEW goal \in FreeCells
  PROVE  /\ Heuristic(c, goal) <= MoveCost(c, n) + Heuristic(n, goal)
         /\ Heuristic(c, goal) \in Nat /\ Heuristic(n, goal) \in Nat
         /\ MoveCost(c, n) \in Nat \ {0}
         /\ n \in FreeCells /\ n # c
<1>1. n \in FreeCells /\ n # c /\ Abs(n[1] - c[1]) <= 1 /\ Abs(n[2] - c[2]) <= 1
  BY DEF Neighbours
<1>2. c \in Cells /\ n \in Cells /\ goal \in Cells
  BY <1>1 DEF FreeCells
<1>3. /\ c = <<c[1], c[2]>> /\ n = <<n[1], n[2]>>
      /\ c[1] \in Nat /\ c[2] \in Nat /\ n[1] \in Nat /\ n[2] \in Nat /\ goal[1] \in Nat /\ goal[2] \in Nat
  BY <1>2, CellIs
<1>4. PICK a, b \in Nat : /\ a = Abs(c[1] - goal[1]) /\ b = Abs(c[2] - goal[2])
                          /\ Heuristic(c, goal) = Octile(a, b)
  BY <1>2, OctileIs DEF Octile
<1>5. PICK x, y \in Nat : /\ x = Abs(n[1] - goal[1]) /\ y = Abs(n[2] - goal[2])
                          /\ Heuristic(n, goal) = Octile(x, y)
  BY <1>2, OctileIs DEF Octile
<1>6. /\ IF c[1] = n[1] THEN x = a ELSE x = a + 1 \/ a = x + 1
      /\ IF c[2] = n[2] THEN y = b ELSE y = b + 1 \/ b = y + 1
  BY <1>1, <1>3, <1>4, <1>5 DEF Abs
<1>7. c[1] # n[1] \/ c[2] # n[2]
  BY <1>1, <1>3
<1>8. /\ Octile(a, b) \in Nat /\ Octile(x, y) \in Nat
      /\ CellCost \in Nat \ {0} /\ DiagonalCost \in Nat \ {0} /\ CellCost <= DiagonalCost
  <2>1. Octile(a, b) \in Nat /\ Octile(x, y) \in Nat
    BY OctileStep
  <2>2. CellCost \in Nat \ {0} /\ DiagonalCost \in Nat \ {0} /\ CellCost <= DiagonalCost
    BY ObstacleAssumption
  <2> QED BY <2>1, <2>2
<1>0. \A k, m \in Nat : Octile(k, m) = Octile(m, k)
  BY OctileStep
<1>9. MoveCost(c, n) = IF c[1] # n[1] /\ c[2] # n[2] THEN DiagonalCost ELSE CellCost
  BY DEF MoveCost
<1>10. Octile(a, b) <= MoveCost(c, n) + Octile(x, y)
  <2>1. CASE c[1] = n[1]
    <3>1. x = a /\ (y = b + 1 \/ b = y + 1)
      BY <1>6, <1>7, <2>1
    <3>2. CASE y = b + 1
      <4>1. Octile(b, a) <= Octile(b + 1, a)
        BY OctileStep
      <4>2. Octile(b, a) = Octile(a, b) /\ Octile(b + 1, a) = Octile(a, b + 1)
        BY <1>0
      <4> QED BY <1>8, <1>9, <2>1, <3>1, <3>2, <4>1, <4>2
    <3>3. CASE b = y + 1
      <4>1. Octile(y + 1, a) <= Octile(y, a) + CellCost
        BY OctileStep
      <4>2. Octile(y, a) = Octile(a, y) /\ Octile(y + 1, a) = Octile(a, y + 1)
        BY <1>0
      <4> QED BY <1>8, <1>9, <2>1, <3>1, <3>3, <4>1, <4>2
    <3> QED BY <3>1, <3>2, <3>3
  <2>2. CASE c[1] # n[1] /\ c[2] = n[2]
    <3>1. y = b /\ (x = a + 1 \/ a = x + 1)
      BY <1>6, <2>2
    <3>2. Octile(a, b) <= Octile(a + 1, b) /\ Octile(x + 1, b) <= Octile(x, b) + CellCost
      BY OctileStep
    <3> QED BY <1>8, <1>9, <2>2, <3>1, <3>2
  <2>3. CASE c[1] # n[1] /\ c[2] # n[2]
    <3>1. (x = a + 1 \/ a = x + 1) /\ (y = b + 1 \/ b = y + 1)
      BY <1>6, <2>3
    <3>2. CASE a = x + 1 /\ b = y + 1
      <4>1. Octile(x + 1, y + 1) = Octile(x, y) + DiagonalCost
        BY OctileStep
      <4> QED BY <1>8, <1>9, <2>3, <3>2, <4>1
    <3>3. CASE x = a + 1 /\ y = b + 1
      <4>1. Octile(a + 1, b + 1) = Octile(a, b) + DiagonalCost
        BY OctileStep
      <4> QED BY <1>8, <1>9, <2>3, <3>3, <4>1
    <3>4. CASE x = a + 1 /\ b = y + 1
      <4>1. /\ Octile(y + 1, a) <= Octile(y, a) + CellCost /\ Octile(y + 1, a) = Octile(a, y + 1)
            /\ Octile(y, a) = Octile(a, y) /\ Octile(a, y) <= Octile(a + 1, y) /\ Octile(a, y) \in Nat
        BY OctileStep
      <4> QED BY <1>8, <1>9, <2>3, <3>4, <4>1
    <3>5. CASE a = x + 1 /\ y = b + 1
      <4>1. /\ Octile(x + 1, b) <= Octile(x, b) + CellCost /\ Octile(x, b) = Octile(b, x)
            /\ Octile(b, x) <= Octile(b + 1, x) /\ Octile(b + 1, x) = Octile(x, b + 1) /\ Octile(x, b) \in Nat
        BY OctileStep
      <4> QED BY <1>8, <1>9, <2>3, <3>5, <4>1
    <3> QED BY <3>1, <3>2, <3>3, <3>4, <3>5
  <2> QED BY <1>7, <2>1, <2>2, <2>3
<1> QED BY <1>1, <1>4, <1>5, <1>8, <1>9, <1>10

LEMMA NothingToGo ==
  ASSUME NEW c \in FreeCells
  PROVE  Heuristic(c, c) = 0
<1>1. c \in Cells /\ c[1] - c[1] = 0 /\ c[2] - c[2] = 0
  BY CellIs DEF FreeCells
<1>2. PICK a, b \in Nat : a = Abs(c[1] - c[1]) /\ b = Abs(c[2] - c[2])
                          /\ Heuristic(c, c) = Octile(a, b)
  BY <1>1, OctileIs DEF Octile
<1>3. a = 0 /\ b = 0
  BY <1>1, <1>2 DEF Abs
<1> QED BY <1>2, <1>3, ObstacleAssumption DEF Octile

(* The way there and back. *)
LEMMA BothWays ==
  ASSUME NEW c \in FreeCells, NEW n \in FreeCells
  PROVE  n \in Neighbours(c) <=> c \in Neighbours(n)
<1>1. c[1] \in Int /\ c[2] \in Int /\ n[1] \in Int /\ n[2] \in Int
  BY CellIs DEF FreeCells
<1>2. Abs(n[1] - c[1]) = Abs(c[1] - n[1]) /\ Abs(n[2] - c[2]) = Abs(c[2] - n[2])
  BY <1>1 DEF Abs
<1> QED BY <1>2, Zenon DEF Neighbours
-----------------------------------------------------------------------------
(* What every turn of the loop keeps: the cells with a way are linked back *)
(* to the start through neighbours, and every link leads to a lower cost.  *)
Linked(search, c) ==
  LET b == search.from[c]
  IN b \in DOMAIN search.g /\ c \in Neighbours(b) /\ search.g[b] < search.g[c]

SearchInv(search, start, goal) ==
  /\ DOMAIN search = {"found", "g", "from", "open"}
  /\ DOMAIN search.g \subseteq FreeCells /\ DOMAIN search.from = DOMAIN search.g
  /\ start \in DOMAIN search.g /\ \A c \in DOMAIN search.g : search.g[c] \in Nat
  /\ \A c \in DOMAIN search.g \ {start} : Linked(search, c)
  /\ \A t \in search.open : t[1] \in DOMAIN search.g /\ t[2] \in Nat
  /\ search.found => goal \in DOMAIN search.g

(* What a turn of the loop does with the entry t it takes: it has arrived, *)
(* the entry is outdated, or the neighbours it makes nearer are queued.    *)
IsTop(search, t) == t \in search.open /\ \A u \in search.open : t[2] <= u[2]
SameCosts(search, s, t) == s.g = search.g /\ s.from = search.from /\ s.open = search.open \ {t}
Nearer(search, c) == { n \in Neighbours(c) : n \notin DOMAIN search.g \/ search.g[c] + MoveCost(c, n) < search.g[n] }
Improves(search, s, t, goal) ==
  LET c == t[1]
  IN /\ DOMAIN s.g = Nearer(search, c) \cup DOMAIN search.g /\ DOMAIN s.from = DOMAIN s.g
     /\ \A n \in Nearer(search, c) : s.g[n] = search.g[c] + MoveCost(c, n) /\ s.from[n] = c
     /\ \A n \in DOMAIN search.g \ Nearer(search, c) : s.g[n] = search.g[n] /\ s.from[n] = search.from[n]
     /\ s.open = (search.open \ {t}) \cup { <<n, s.g[n] + Heuristic(n, goal)>> : n \in Nearer(search, c) }

IsTurn(search, s, t, goal) ==
  LET c == t[1]
      f == search.g[c] + Heuristic(c, goal)
  IN /\ DOMAIN s = {"found", "g", "from", "open"}
     /\ \/ c = goal /\ s.found = TRUE /\ SameCosts(search, s, t)
        \/ c # goal /\ s.found = search.found /\ f < t[2] /\ SameCosts(search, s, t)
        \/ c # goal /\ s.found = FALSE /\ t[2] <= f /\ Improves(search, s, t, goal)

LEMMA LeastEntry ==
  ASSUME NEW open, open # {}, \A t \in open : t[2] \in Nat
  PROVE  LET top == CHOOSE t \in open : \A u \in open : t[2] <= u[2]
         IN  top \in open /\ \A u \in open : top[2] <= u[2]
<1> DEFINE S == { t[2] : t \in open }
<1>1. S \in SUBSET Nat /\ S # {}
  OBVIOUS
<1>2. PICK n \in S : \A m \in S : n <= m
  <2> HIDE DEF S
  <2> QED BY <1>1, LeastNatural
<1>3. PICK t \in open : n = t[2]
  BY <1>2
<1>4. \A u \in open : t[2] <= u[2]
  BY <1>2, <1>3
<1> QED BY <1>4, Zenon

LEMMA ExpandIs ==
  ASSUME NEW search, NEW start, NEW goal \in FreeCells, SearchInv(search, start, goal),
         search.open # {}, ~search.found
  PROVE  \E t : IsTop(search, t) /\ IsTurn(search, Expand(search, goal), t, goal)
<1> DEFINE top == CHOOSE t \in search.open : \A u \in search.open : t[2] <= u[2]
           c == top[1]
           rest == search.open \ {top}
           Through(n) == search.g[c] + MoveCost(c, n)
           better == { n \in Neighbours(c) : n \notin DOMAIN search.g \/ Through(n) < search.g[n] }
           entries == { <<n, Through(n) + Heuristic(n, goal)>> : n \in better }
           s == [found |-> FALSE,
                 g     |-> Over([n \in better |-> Through(n)], search.g),
                 from  |-> Over([n \in better |-> c], search.from),
                 open  |-> rest \cup entries]
<1>1. /\ DOMAIN search = {"found", "g", "from", "open"}
      /\ DOMAIN search.g \subseteq FreeCells /\ DOMAIN search.from = DOMAIN search.g
      /\ \A d \in DOMAIN search.g : search.g[d] \in Nat
      /\ \A t \in search.open : t[1] \in DOMAIN search.g /\ t[2] \in Nat
  BY DEF SearchInv
<1>2. IsTop(search, top)
  BY <1>1, LeastEntry DEF IsTop
<1> HIDE DEF top
<1>3. c \in FreeCells /\ search.g[c] \in Nat /\ top[2] \in Nat /\ Heuristic(c, goal) \in Nat
  <2>1. top \in search.open
    BY <1>2 DEF IsTop
  <2>2. c \in Cells /\ goal \in Cells
    BY <1>1, <2>1 DEF FreeCells
  <2> QED BY <1>1, <2>1, <2>2, HeuristicIs
<1>4. CASE c = goal
  <2>1. Expand(search, goal) = [search EXCEPT !.found = TRUE, !.open = rest]
    BY <1>4, Zenon DEF Expand, top
  <2>2. \A r : r = [search EXCEPT !.found = TRUE, !.open = rest] =>
          DOMAIN r = DOMAIN search /\ r.found = TRUE /\ r.g = search.g /\ r.from = search.from /\ r.open = rest
    BY <1>1
  <2>3. IsTurn(search, Expand(search, goal), top, goal)
    BY <1>1, <1>4, <2>1, <2>2 DEF IsTurn, SameCosts
  <2> QED BY <1>2, <2>3
<1>5. CASE c # goal /\ top[2] - Heuristic(c, goal) > search.g[c]
  <2>1. Expand(search, goal) = [search EXCEPT !.open = rest]
    BY <1>5, Zenon DEF Expand, top
  <2>2. \A r : r = [search EXCEPT !.open = rest] =>
          DOMAIN r = DOMAIN search /\ r.found = search.found /\ r.g = search.g /\ r.from = search.from /\ r.open = rest
    BY <1>1
  <2>3. search.g[c] + Heuristic(c, goal) < top[2]
    BY <1>3, <1>5
  <2>4. IsTurn(search, Expand(search, goal), top, goal)
    BY <1>1, <1>5, <2>1, <2>2, <2>3 DEF IsTurn, SameCosts
  <2> QED BY <1>2, <2>4
<1>6. CASE c # goal /\ ~(top[2] - Heuristic(c, goal) > search.g[c])
  <2>1. Expand(search, goal) = s
    BY <1>6, Zenon DEF Expand, top
  <2>2. /\ DOMAIN s = {"found", "g", "from", "open"}
        /\ s.open = rest \cup entries /\ s.found = FALSE
        /\ s.g = Over([n \in better |-> Through(n)], search.g)
        /\ s.from = Over([n \in better |-> c], search.from)
    OBVIOUS
  <2>3. better = Nearer(search, c)
    BY DEF Nearer
  <2>4. top[2] <= search.g[c] + Heuristic(c, goal)
    BY <1>3, <1>6
  <2> HIDE DEF s, better, rest, c
  <2>5. /\ DOMAIN s.g = better \cup DOMAIN search.g
        /\ \A n \in better : s.g[n] = Through(n)
        /\ \A n \in DOMAIN search.g \ better : s.g[n] = search.g[n]
    <3> DEFINE f == [n \in better |-> Through(n)]
    <3>1. DOMAIN f = better /\ \A n \in better : f[n] = Through(n)
      OBVIOUS
    <3>2. s.g = Over(f, search.g)
      BY <2>2
    <3> HIDE DEF f, Through
    <3>3. /\ DOMAIN s.g = DOMAIN f \cup DOMAIN search.g
          /\ \A n \in DOMAIN f : s.g[n] = f[n]
          /\ \A n \in DOMAIN search.g \ DOMAIN f : s.g[n] = search.g[n]
      BY <3>2, Zenon DEF Over
    <3> QED BY <3>1, <3>3
  <2>6. /\ DOMAIN s.from = better \cup DOMAIN search.g
        /\ \A n \in better : s.from[n] = c
        /\ \A n \in DOMAIN search.g \ better : s.from[n] = search.from[n]
    <3> DEFINE f == [n \in better |-> c]
    <3>1. DOMAIN f = better /\ \A n \in better : f[n] = c
      OBVIOUS
    <3>2. s.from = Over(f, search.from)
      BY <2>2
    <3> HIDE DEF f
    <3>3. /\ DOMAIN s.from = DOMAIN f \cup DOMAIN search.from
          /\ \A n \in DOMAIN f : s.from[n] = f[n]
          /\ \A n \in DOMAIN search.from \ DOMAIN f : s.from[n] = search.from[n]
      BY <3>2, Zenon DEF Over
    <3> QED BY <1>1, <3>1, <3>3
  <2>7. entries = { <<n, s.g[n] + Heuristic(n, goal)>> : n \in better }
    BY <2>5
  <2> HIDE DEF entries
  <2>8. Improves(search, s, top, goal)
    BY <2>2, <2>3, <2>5, <2>6, <2>7 DEF Improves, c, rest
  <2>9. IsTurn(search, s, top, goal)
    BY <1>6, <2>2, <2>4, <2>8 DEF IsTurn, c
  <2> QED BY <1>2, <2>1, <2>9
<1> QED BY <1>4, <1>5, <1>6
LEMMA ExpandKeeps ==
  ASSUME NEW search, NEW start, NEW goal \in FreeCells, SearchInv(search, start, goal)
  PROVE  SearchInv(Expand(search, goal), start, goal)
<1>1. /\ DOMAIN search = {"found", "g", "from", "open"}
      /\ DOMAIN search.g \subseteq FreeCells /\ DOMAIN search.from = DOMAIN search.g
      /\ start \in DOMAIN search.g /\ \A d \in DOMAIN search.g : search.g[d] \in Nat
      /\ \A d \in DOMAIN search.g \ {start} : Linked(search, d)
      /\ \A t \in search.open : t[1] \in DOMAIN search.g /\ t[2] \in Nat
  BY DEF SearchInv
<1>2. CASE search.open = {} \/ search.found
  BY <1>2 DEF Expand
<1>3. CASE search.open # {} /\ ~search.found
  <2> DEFINE s == Expand(search, goal)
  <2>1. PICK t : IsTop(search, t) /\ IsTurn(search, s, t, goal)
    BY <1>3, ExpandIs
  <2> DEFINE c == t[1]
             near == Nearer(search, c)
  <2> HIDE DEF s
  <2>2. t \in search.open /\ c \in DOMAIN search.g /\ c \in FreeCells /\ search.g[c] \in Nat
    BY <1>1, <2>1 DEF IsTop
  <2>3. DOMAIN s = {"found", "g", "from", "open"}
    BY <2>1 DEF IsTurn
  <2>4. CASE SameCosts(search, s, t) /\ (s.found => c = goal)
    BY <1>1, <2>2, <2>3, <2>4 DEF SearchInv, Linked, SameCosts, s
  <2>5. CASE s.found = FALSE /\ Improves(search, s, t, goal)
    <3>1. ASSUME NEW n \in near
          PROVE  /\ n \in FreeCells /\ n # c /\ n \in Neighbours(c)
                 /\ search.g[c] + MoveCost(c, n) \in Nat /\ search.g[c] < search.g[c] + MoveCost(c, n)
                 /\ n \in DOMAIN search.g => search.g[c] + MoveCost(c, n) < search.g[n]
      <4>1. MoveCost(c, n) \in Nat \ {0}
        BY ObstacleAssumption DEF MoveCost
      <4>2. n \in Neighbours(c) /\ n \in FreeCells \ {c}
        BY DEF Nearer, Neighbours
      <4> QED BY <2>2, <4>1, <4>2 DEF Nearer
    <3>2. /\ DOMAIN s.g = near \cup DOMAIN search.g /\ DOMAIN s.from = DOMAIN s.g
          /\ \A n \in near : s.g[n] = search.g[c] + MoveCost(c, n) /\ s.from[n] = c
          /\ \A n \in DOMAIN search.g \ near : s.g[n] = search.g[n] /\ s.from[n] = search.from[n]
          /\ s.open = (search.open \ {t}) \cup { <<n, s.g[n] + Heuristic(n, goal)>> : n \in near }
      BY <2>5 DEF Improves
    <3> HIDE DEF near, c
    <3>3. \A d \in DOMAIN s.g : s.g[d] \in Nat
      BY <1>1, <3>1, <3>2
    <3>4. c \notin near
      BY <3>1
    <3>5. ASSUME NEW d \in DOMAIN s.g \ {start} PROVE Linked(s, d)
      <4>1. CASE d \in near
        <5>1. s.from[d] = c /\ s.g[d] = search.g[c] + MoveCost(c, d) /\ s.g[c] = search.g[c] /\ c \in DOMAIN s.g
          BY <2>2, <3>2, <3>4, <4>1
        <5> QED BY <3>1, <4>1, <5>1 DEF Linked
      <4>2. CASE d \notin near
        <5> DEFINE b == search.from[d]
        <5>1. d \in DOMAIN search.g /\ b \in DOMAIN search.g /\ d \in Neighbours(b) /\ search.g[b] < search.g[d]
          BY <1>1, <3>2, <4>2 DEF Linked
        <5>2. s.from[d] = b /\ s.g[d] = search.g[d] /\ b \in DOMAIN s.g
          BY <3>2, <4>2, <5>1
        <5> HIDE DEF b
        <5>3. s.g[b] <= search.g[b] /\ search.g[b] \in Nat /\ s.g[b] \in Nat /\ search.g[d] \in Nat
          BY <1>1, <3>1, <3>2, <3>3, <5>1
        <5>4. s.g[b] < s.g[d]
          BY <5>1, <5>2, <5>3
        <5> QED BY <5>1, <5>2, <5>4 DEF Linked
      <4> QED BY <4>1, <4>2
    <3>6. ASSUME NEW u \in s.open PROVE u[1] \in DOMAIN s.g /\ u[2] \in Nat
      <4>1. CASE u \in search.open
        BY <1>1, <3>2, <4>1
      <4>2. CASE u \notin search.open
        <5>1. PICK n \in near : u = <<n, s.g[n] + Heuristic(n, goal)>>
          BY <3>2, <4>2
        <5>2. n \in Cells /\ goal \in Cells
          BY <3>1 DEF FreeCells
        <5>3. Heuristic(n, goal) \in Nat
          BY <5>2, HeuristicIs
        <5> QED BY <3>2, <3>3, <5>1, <5>3
      <4> QED BY <4>1, <4>2
    <3>7. DOMAIN s.g \subseteq FreeCells /\ DOMAIN s.from = DOMAIN s.g /\ start \in DOMAIN s.g
      BY <1>1, <3>1, <3>2
    <3> QED BY <2>3, <2>5, <3>3, <3>5, <3>6, <3>7 DEF SearchInv, s
  <2> QED BY <1>3, <2>1, <2>4, <2>5 DEF IsTurn
<1> QED BY <1>2, <1>3
-----------------------------------------------------------------------------
(* The cells are finitely many                                             *)

LEMMA GridSizeIs == GridW \in Int /\ GridH \in Int
<1>1. \A b \in Boxes : b[3] \in Int /\ b[4] \in Int
  BY ObstacleAssumption
<1>2. Max({ b[3] : b \in Boxes }) \in Int
  <2> DEFINE f == [b \in Boxes |-> b[3]]
  <2>1. f \in [Boxes -> Int]
    BY <1>1
  <2>2. PICK d \in Boxes : \A e \in Boxes : f[e] <= f[d]
    <3> HIDE DEF f
    <3> QED BY <2>1, MostOf, ObstacleAssumption
  <2>3. { b[3] : b \in Boxes } \in SUBSET Int /\ d[3] \in { b[3] : b \in Boxes }
        /\ \A x \in { b[3] : b \in Boxes } : x <= d[3]
    BY <1>1, <2>2
  <2> QED BY <1>1, <2>3, MaxIs
<1>3. Max({ b[4] : b \in Boxes }) \in Int
  <2> DEFINE f == [b \in Boxes |-> b[4]]
  <2>1. f \in [Boxes -> Int]
    BY <1>1
  <2>2. PICK d \in Boxes : \A e \in Boxes : f[e] <= f[d]
    <3> HIDE DEF f
    <3> QED BY <2>1, MostOf, ObstacleAssumption
  <2>3. { b[4] : b \in Boxes } \in SUBSET Int /\ d[4] \in { b[4] : b \in Boxes }
        /\ \A x \in { b[4] : b \in Boxes } : x <= d[4]
    BY <1>1, <2>2
  <2> QED BY <1>1, <2>3, MaxIs
<1> DEFINE w == Trunc(Max({ b[3] : b \in Boxes }) + Margin - GridMinX, CellSize) + 1
           h == Trunc(Max({ b[4] : b \in Boxes }) + Margin - GridMinY, CellSize) + 1
<1>4. w \in Int /\ h \in Int
  <2> DEFINE x == Max({ b[3] : b \in Boxes }) + Margin - GridMinX
             y == Max({ b[4] : b \in Boxes }) + Margin - GridMinY
  <2>1. x \in Int /\ y \in Int /\ CellSize \in Nat \ {0}
    BY <1>2, <1>3, GridIs, ObstacleAssumption
  <2> HIDE DEF x, y
  <2>2. Trunc(x, CellSize) \in Int /\ Trunc(y, CellSize) \in Int
    BY <2>1, TruncIs
  <2> QED BY <2>2 DEF x, y
<1> HIDE DEF w, h
<1>5. Max({1, w}) \in Int /\ Max({1, h}) \in Int
  <2>1. 1 \in Int
    OBVIOUS
  <2>2. Max({1, w}) = (IF 1 <= w THEN w ELSE 1) /\ Max({1, h}) = (IF 1 <= h THEN h ELSE 1)
    BY <1>4, <2>1, MinMaxOfTwo, Zenon
  <2> QED BY <1>4, <2>2
<1> QED BY <1>5, Zenon DEF GridW, GridH, w, h

LEMMA CellsFinite == IsFiniteSet(FreeCells)
<1>1. GridW \in Int /\ GridH \in Int
  BY GridSizeIs
<1>2. IsFiniteSet(0 .. GridW - 1) /\ IsFiniteSet(0 .. GridH - 1)
  BY <1>1, FS_Interval
<1>3. Cells = (0 .. GridW - 1) \X (0 .. GridH - 1)
  BY DEF Cells
<1>4. IsFiniteSet(Cells)
  BY <1>2, <1>3, FS_Product
<1> QED BY <1>4, FS_Subset DEF FreeCells
-----------------------------------------------------------------------------
(* The front of the search: a cell with a way is still queued, at what it  *)
(* costs now, or its neighbours cost no more than by way of it; nothing is *)
(* queued for less than it costs, nor for less than a cell that is done.   *)
Estimate(search, c, goal) == search.g[c] + Heuristic(c, goal)
Queued(search, c, goal) == <<c, Estimate(search, c, goal)>> \in search.open
Relaxed(search, c) ==
  \A n \in Neighbours(c) : n \in DOMAIN search.g /\ search.g[n] <= search.g[c] + MoveCost(c, n)

Front(search, start, goal) ==
  /\ search.found \in BOOLEAN /\ search.g[start] = 0
  /\ \A t \in search.open : t = <<t[1], t[2]>> /\ Estimate(search, t[1], goal) <= t[2]
  /\ \A c \in DOMAIN search.g \ {start} :
       search.g[search.from[c]] + MoveCost(search.from[c], c) <= search.g[c]
  /\ ~search.found => \A c \in DOMAIN search.g :
       \/ Queued(search, c, goal)
       \/ c # goal /\ Relaxed(search, c) /\ \A t \in search.open : Estimate(search, c, goal) <= t[2]
  /\ search.found => \A c \in DOMAIN search.g :
       search.g[goal] <= Estimate(search, c, goal) \/ Relaxed(search, c)

FrontInv(search, start, goal) == SearchInv(search, start, goal) /\ Front(search, start, goal)

(* What is known of the entry taken: it is queued for what it costs unless *)
(* it is outdated, and then nothing that is done becomes nearer.           *)
LEMMA TakenIs ==
  ASSUME NEW search, NEW start, NEW goal \in FreeCells, FrontInv(search, start, goal),
         ~search.found, NEW t, IsTop(search, t)
  PROVE  /\ t[1] \in DOMAIN search.g /\ t[1] \in FreeCells /\ t[2] \in Nat
         /\ Estimate(search, t[1], goal) <= t[2] /\ Estimate(search, t[1], goal) \in Nat
         /\ \A d \in DOMAIN search.g : Estimate(search, d, goal) \in Nat /\ search.g[d] \in Nat /\ d \in FreeCells
         /\ \A d \in DOMAIN search.g : ~Queued(search, d, goal) => Estimate(search, d, goal) <= t[2]
         /\ \A d \in DOMAIN search.g : Queued(search, d, goal) => t[2] <= Estimate(search, d, goal)
<1>1. /\ DOMAIN search.g \subseteq FreeCells /\ \A d \in DOMAIN search.g : search.g[d] \in Nat
      /\ \A u \in search.open : u[1] \in DOMAIN search.g /\ u[2] \in Nat
      /\ t \in search.open /\ \A u \in search.open : t[2] <= u[2]
  BY DEF FrontInv, SearchInv, IsTop
<1>2. \A d \in DOMAIN search.g : d \in FreeCells /\ search.g[d] \in Nat /\ Heuristic(d, goal) \in Nat
  BY <1>1, HeuristicIs DEF FreeCells
<1>3. \A d \in DOMAIN search.g : Estimate(search, d, goal) \in Nat
  BY <1>2 DEF Estimate
<1>4. /\ \A u \in search.open : Estimate(search, u[1], goal) <= u[2]
      /\ \A d \in DOMAIN search.g :
           Queued(search, d, goal) \/ \A u \in search.open : Estimate(search, d, goal) <= u[2]
  BY DEF FrontInv, Front
<1>5. ASSUME NEW d \in DOMAIN search.g, Queued(search, d, goal) PROVE t[2] <= Estimate(search, d, goal)
  <2>1. <<d, Estimate(search, d, goal)>> \in search.open
    BY <1>5 DEF Queued
  <2>2. t[2] <= <<d, Estimate(search, d, goal)>>[2]
    BY <1>1, <2>1
  <2> QED BY <2>2
<1> QED BY <1>1, <1>2, <1>3, <1>4, <1>5

LEMMA FrontWhenSame ==
  ASSUME NEW search, NEW start, NEW goal \in FreeCells, FrontInv(search, start, goal),
         ~search.found, NEW s, NEW t, IsTop(search, t), SameCosts(search, s, t), s.found \in BOOLEAN
  PROVE  /\ t[1] = goal /\ s.found => Front(s, start, goal)
         /\ Estimate(search, t[1], goal) < t[2] /\ ~s.found => Front(s, start, goal)
<1>1. /\ \A c \in DOMAIN search.g : Estimate(s, c, goal) = Estimate(search, c, goal)
      /\ \A c \in DOMAIN search.g : Relaxed(s, c) = Relaxed(search, c)
      /\ s.g = search.g /\ s.from = search.from /\ s.open \subseteq search.open
      /\ \A u \in search.open : u[1] \in DOMAIN search.g
      /\ start \in DOMAIN search.g
  BY DEF Estimate, Relaxed, SameCosts, FrontInv, SearchInv
<1>2. /\ s.g[start] = 0
      /\ \A u \in s.open : u = <<u[1], u[2]>> /\ Estimate(s, u[1], goal) <= u[2]
      /\ \A c \in DOMAIN s.g \ {start} : s.g[s.from[c]] + MoveCost(s.from[c], c) <= s.g[c]
  BY <1>1 DEF FrontInv, Front
<1>3. ASSUME t[1] = goal, s.found PROVE Front(s, start, goal)
  <2>1. ASSUME NEW c \in DOMAIN s.g
        PROVE  s.g[goal] <= Estimate(s, c, goal) \/ Relaxed(s, c)
    <3>1. CASE Queued(search, c, goal)
      <4>1. /\ Estimate(search, goal, goal) <= t[2] /\ t[2] <= Estimate(search, c, goal)
            /\ Estimate(search, goal, goal) \in Nat /\ Estimate(search, c, goal) \in Nat /\ t[2] \in Nat
            /\ search.g[goal] \in Nat
        BY <1>1, <1>3, <3>1, TakenIs
      <4>2. Estimate(search, goal, goal) = search.g[goal]
        BY <4>1, NothingToGo DEF Estimate
      <4>3. search.g[goal] <= Estimate(search, c, goal)
        BY <4>1, <4>2
      <4> QED BY <1>1, <4>3
    <3>2. CASE ~Queued(search, c, goal)
      <4>1. Relaxed(search, c)
        BY <1>1, <3>2 DEF FrontInv, Front
      <4> QED BY <1>1, <4>1
    <3> QED BY <3>1, <3>2
  <2> QED BY <1>2, <1>3, <2>1 DEF Front
<1>4. ASSUME Estimate(search, t[1], goal) < t[2], ~s.found PROVE Front(s, start, goal)
  <2>1. ASSUME NEW c \in DOMAIN s.g
        PROVE  \/ Queued(s, c, goal)
               \/ c # goal /\ Relaxed(s, c) /\ \A u \in s.open : Estimate(s, c, goal) <= u[2]
    <3>1. CASE Queued(search, c, goal)
      <4>1. <<c, Estimate(search, c, goal)>> \in search.open
        BY <3>1 DEF Queued
      <4>2. <<c, Estimate(search, c, goal)>> # t
        <5>1. SUFFICES ASSUME <<c, Estimate(search, c, goal)>> = t PROVE FALSE
          OBVIOUS
        <5>2. t[1] = c /\ t[2] = Estimate(search, c, goal)
          BY <5>1
        <5>3. Estimate(search, c, goal) \in Nat
          BY <1>1, TakenIs
        <5> QED BY <1>4, <5>2, <5>3
      <4>3. s.open = search.open \ {t}
        BY DEF SameCosts
      <4> QED BY <1>1, <4>1, <4>2, <4>3 DEF Queued
    <3>2. CASE ~Queued(search, c, goal)
      <4>1. c # goal /\ Relaxed(search, c) /\ \A u \in search.open : Estimate(search, c, goal) <= u[2]
        BY <1>1, <3>2 DEF FrontInv, Front
      <4> QED BY <1>1, <4>1
    <3> QED BY <3>1, <3>2
  <2> QED BY <1>2, <1>4, <2>1 DEF Front
<1> QED BY <1>3, <1>4

LEMMA ImprovedIs ==
  ASSUME NEW search, NEW start, NEW goal \in FreeCells, FrontInv(search, start, goal),
         ~search.found, NEW s, NEW t, IsTop(search, t), Improves(search, s, t, goal),
         t[2] <= Estimate(search, t[1], goal)
  PROVE  /\ t = <<t[1], Estimate(search, t[1], goal)>>
         /\ t[1] \notin Nearer(search, t[1]) /\ Nearer(search, t[1]) \subseteq Neighbours(t[1])
         /\ \A d \in DOMAIN search.g : d \in DOMAIN s.g /\ s.g[d] \in Nat /\ s.g[d] <= search.g[d]
         /\ \A n \in Nearer(search, t[1]) :
              /\ n \in FreeCells /\ Estimate(s, n, goal) \in Nat /\ t[2] <= Estimate(s, n, goal)
              /\ n # t[1] /\ <<n, Estimate(s, n, goal)>> \in s.open
         /\ \A u \in s.open : t[2] <= u[2]
<1> DEFINE c == t[1]
           near == Nearer(search, c)
<1>1. /\ c \in DOMAIN search.g /\ c \in FreeCells /\ t[2] \in Nat
      /\ Estimate(search, c, goal) <= t[2] /\ Estimate(search, c, goal) \in Nat
      /\ \A d \in DOMAIN search.g : search.g[d] \in Nat
  BY TakenIs
<1>2. t \in search.open /\ \A u \in search.open : t[2] <= u[2]
  BY DEF IsTop
<1>3. t = <<c, t[2]>>
  BY <1>2 DEF FrontInv, Front
<1>4. t[2] = Estimate(search, c, goal)
  BY <1>1
<1>5. /\ DOMAIN s.g = near \cup DOMAIN search.g
      /\ \A n \in near : s.g[n] = search.g[c] + MoveCost(c, n)
      /\ \A n \in DOMAIN search.g \ near : s.g[n] = search.g[n]
      /\ s.open = (search.open \ {t}) \cup { <<n, s.g[n] + Heuristic(n, goal)>> : n \in near }
  BY DEF Improves
<1>6. ASSUME NEW n \in near
      PROVE  /\ n \in Neighbours(c) /\ n \in FreeCells /\ n # c /\ s.g[n] \in Nat
             /\ Estimate(s, n, goal) \in Nat /\ t[2] <= Estimate(s, n, goal)
             /\ n \in DOMAIN search.g => s.g[n] < search.g[n]
  <2>1. n \in Neighbours(c) /\ (n \in DOMAIN search.g => s.g[n] < search.g[n])
    BY <1>5 DEF Nearer
  <2>2. /\ Heuristic(c, goal) <= MoveCost(c, n) + Heuristic(n, goal)
        /\ Heuristic(c, goal) \in Nat /\ Heuristic(n, goal) \in Nat
        /\ MoveCost(c, n) \in Nat /\ n \in FreeCells /\ n # c
    BY <1>1, <2>1, HeuristicStep
  <2>3. s.g[n] = search.g[c] + MoveCost(c, n) /\ search.g[c] \in Nat
    BY <1>1, <1>5
  <2>4. s.g[n] \in Nat /\ s.g[n] + Heuristic(n, goal) \in Nat
        /\ search.g[c] + Heuristic(c, goal) <= s.g[n] + Heuristic(n, goal)
    BY <2>2, <2>3
  <2> QED BY <1>4, <2>1, <2>2, <2>4 DEF Estimate
<1> HIDE DEF near, c
<1>7. ASSUME NEW d \in DOMAIN search.g PROVE d \in DOMAIN s.g /\ s.g[d] \in Nat /\ s.g[d] <= search.g[d]
  <2>1. CASE d \in near
    BY <1>1, <1>5, <1>6, <2>1
  <2>2. CASE d \notin near
    BY <1>1, <1>5, <2>2
  <2> QED BY <2>1, <2>2
<1>8. ASSUME NEW u \in s.open PROVE t[2] <= u[2]
  <2>1. CASE u \in search.open
    BY <1>2, <2>1
  <2>2. CASE u \notin search.open
    <3>1. PICK n \in near : u = <<n, s.g[n] + Heuristic(n, goal)>>
      BY <1>5, <2>2
    <3> QED BY <1>6, <3>1 DEF Estimate
  <2> QED BY <2>1, <2>2
<1>9. \A n \in near : <<n, Estimate(s, n, goal)>> \in s.open
  BY <1>5 DEF Estimate
<1> QED BY <1>3, <1>4, <1>6, <1>7, <1>8, <1>9 DEF near, c

LEMMA FrontWhenImproved ==
  ASSUME NEW search, NEW start, NEW goal \in FreeCells, FrontInv(search, start, goal),
         ~search.found, NEW s, NEW t, IsTop(search, t), Improves(search, s, t, goal),
         t[2] <= Estimate(search, t[1], goal), t[1] # goal, s.found = FALSE
  PROVE  Front(s, start, goal)
<1> DEFINE c == t[1]
           near == Nearer(search, c)
<1>1. /\ c \in DOMAIN search.g /\ c \in FreeCells
      /\ \A d \in DOMAIN search.g : Estimate(search, d, goal) \in Nat /\ search.g[d] \in Nat /\ d \in FreeCells
      /\ \A d \in DOMAIN search.g : ~Queued(search, d, goal) => Estimate(search, d, goal) <= t[2]
  BY TakenIs
<1>2. /\ t = <<c, Estimate(search, c, goal)>> /\ c \notin near
      /\ \A d \in DOMAIN search.g : d \in DOMAIN s.g /\ s.g[d] \in Nat /\ s.g[d] <= search.g[d]
      /\ \A n \in near : Estimate(s, n, goal) \in Nat /\ <<n, Estimate(s, n, goal)>> \in s.open
      /\ \A u \in s.open : t[2] <= u[2]
  BY ImprovedIs
<1>3. /\ DOMAIN s.g = near \cup DOMAIN search.g
      /\ \A n \in near : s.g[n] = search.g[c] + MoveCost(c, n) /\ s.from[n] = c
      /\ \A n \in DOMAIN search.g \ near : s.g[n] = search.g[n] /\ s.from[n] = search.from[n]
      /\ s.open = (search.open \ {t}) \cup { <<n, s.g[n] + Heuristic(n, goal)>> : n \in near }
  BY DEF Improves
<1>4. /\ start \in DOMAIN search.g /\ search.g[start] = 0
      /\ \A u \in search.open : u[1] \in DOMAIN search.g /\ u = <<u[1], u[2]>> /\ u[2] \in Nat
                                /\ Estimate(search, u[1], goal) <= u[2]
      /\ \A d \in DOMAIN search.g \ {start} :
           search.from[d] \in DOMAIN search.g /\ d \in Neighbours(search.from[d])
           /\ search.g[search.from[d]] + MoveCost(search.from[d], d) <= search.g[d]
      /\ \A d \in DOMAIN search.g : ~Queued(search, d, goal) => d # goal /\ Relaxed(search, d)
  BY DEF FrontInv, Front, SearchInv, Linked
<1>5. \A n \in near : n \in Neighbours(c) /\ MoveCost(c, n) \in Nat \ {0}
  BY <1>1, HeuristicStep DEF Nearer
<1>6. \A d \in DOMAIN s.g : d \in FreeCells /\ Heuristic(d, goal) \in Nat
  <2>1. \A d \in DOMAIN s.g : d \in FreeCells
    BY <1>1, <1>3, <1>5 DEF Neighbours
  <2> QED BY <2>1, HeuristicIs DEF FreeCells
<1>7. \A d \in DOMAIN search.g : d \notin near => Estimate(s, d, goal) = Estimate(search, d, goal)
  BY <1>3 DEF Estimate
<1> HIDE DEF near
<1>8. s.g[start] = 0
  BY <1>2, <1>4
<1>9. ASSUME NEW u \in s.open PROVE u = <<u[1], u[2]>> /\ Estimate(s, u[1], goal) <= u[2]
  <2>1. CASE u \in search.open
    <3> DEFINE d == u[1]
    <3>1. d \in DOMAIN search.g /\ d \in DOMAIN s.g /\ search.g[d] + Heuristic(d, goal) <= u[2]
          /\ u = <<d, u[2]>> /\ u[2] \in Nat
      BY <1>2, <1>4, <2>1 DEF Estimate
    <3>2. s.g[d] <= search.g[d] /\ s.g[d] \in Nat /\ search.g[d] \in Nat /\ Heuristic(d, goal) \in Nat
      BY <1>1, <1>2, <1>6, <3>1
    <3> HIDE DEF d
    <3>3. s.g[d] + Heuristic(d, goal) <= u[2]
      BY <3>1, <3>2
    <3> QED BY <3>1, <3>3 DEF Estimate, d
  <2>2. CASE u \notin search.open
    <3>1. PICK n \in near : u = <<n, s.g[n] + Heuristic(n, goal)>>
      BY <1>3, <2>2
    <3>2. u[1] = n /\ u[2] = Estimate(s, n, goal) /\ Estimate(s, n, goal) \in Nat
      BY <1>2, <3>1 DEF Estimate
    <3> QED BY <3>1, <3>2
  <2> QED BY <2>1, <2>2
<1>10. ASSUME NEW d \in DOMAIN s.g \ {start} PROVE s.g[s.from[d]] + MoveCost(s.from[d], d) <= s.g[d]
  <2>1. CASE d \in near
    <3>1. s.from[d] = c /\ s.g[d] = search.g[c] + MoveCost(c, d) /\ s.g[c] = search.g[c]
      BY <1>1, <1>2, <1>3, <2>1
    <3>2. search.g[c] \in Nat /\ MoveCost(c, d) \in Nat
      BY <1>1, <1>5, <2>1
    <3> QED BY <3>1, <3>2
  <2>2. CASE d \notin near
    <3> DEFINE b == search.from[d]
    <3>1. d \in DOMAIN search.g /\ b \in DOMAIN search.g /\ search.g[b] + MoveCost(b, d) <= search.g[d]
          /\ d \in Neighbours(b) /\ s.from[d] = b /\ s.g[d] = search.g[d]
      BY <1>3, <1>4, <2>2
    <3> HIDE DEF b
    <3>2. s.g[b] <= search.g[b] /\ s.g[b] \in Nat /\ search.g[b] \in Nat /\ search.g[d] \in Nat
      BY <1>1, <1>2, <3>1
    <3>3. MoveCost(b, d) \in Nat
      BY ObstacleAssumption DEF MoveCost
    <3> QED BY <3>1, <3>2, <3>3
  <2> QED BY <2>1, <2>2
<1>11. ASSUME NEW d \in DOMAIN s.g
       PROVE  \/ Queued(s, d, goal)
              \/ d # goal /\ Relaxed(s, d) /\ \A u \in s.open : Estimate(s, d, goal) <= u[2]
  <2>1. CASE d \in near
    BY <1>2, <2>1 DEF Queued
  <2>2. CASE d = c
    <3>1. ASSUME NEW n \in Neighbours(c)
          PROVE  n \in DOMAIN s.g /\ s.g[n] <= s.g[c] + MoveCost(c, n)
      <4>1. s.g[c] = search.g[c] /\ search.g[c] \in Nat /\ MoveCost(c, n) \in Nat
        BY <1>1, <1>2, <1>3, HeuristicStep
      <4>2. CASE n \in near
        <5>1. n \in DOMAIN s.g /\ s.g[n] = search.g[c] + MoveCost(c, n)
          BY <1>3, <4>2
        <5>2. s.g[n] <= s.g[c] + MoveCost(c, n)
          BY <4>1, <5>1
        <5> QED BY <5>1, <5>2
      <4>3. CASE n \notin near
        <5>1. n \in DOMAIN search.g /\ ~(search.g[c] + MoveCost(c, n) < search.g[n])
          BY <4>3 DEF near, Nearer
        <5> QED BY <1>1, <1>3, <4>1, <4>3, <5>1
      <4> QED BY <4>2, <4>3
    <3>2. \A u \in s.open : Estimate(s, c, goal) <= u[2]
      <4>1. Estimate(s, c, goal) = t[2]
        BY <1>1, <1>2, <1>7
      <4> QED BY <1>2, <4>1
    <3> QED BY <2>2, <3>1, <3>2 DEF Relaxed
  <2>3. CASE d # c /\ d \notin near
    <3>1. d \in DOMAIN search.g /\ s.g[d] = search.g[d] /\ Estimate(s, d, goal) = Estimate(search, d, goal)
      BY <1>3, <1>7, <2>3
    <3>2. CASE Queued(search, d, goal)
      <4>1. <<d, Estimate(search, d, goal)>> \in search.open /\ <<d, Estimate(search, d, goal)>> # t
        BY <1>2, <2>3, <3>2 DEF Queued
      <4> QED BY <1>3, <3>1, <4>1 DEF Queued
    <3>3. CASE ~Queued(search, d, goal)
      <4>1. d # goal /\ Relaxed(search, d) /\ Estimate(search, d, goal) <= t[2]
        BY <1>1, <1>4, <3>1, <3>3
      <4>2. \A u \in s.open : Estimate(s, d, goal) <= u[2]
        <5>1. ASSUME NEW u \in s.open PROVE Estimate(s, d, goal) <= u[2]
          <6>0. u[2] \in Int
            <7>1. CASE u \in search.open
              <8>1. u[2] \in Nat
                BY <1>4, <7>1
              <8> QED BY <8>1
            <7>2. CASE u \notin search.open
              <8>1. PICK n \in near : u = <<n, s.g[n] + Heuristic(n, goal)>>
                BY <1>3, <7>2
              <8>2. u[2] = Estimate(s, n, goal)
                BY <8>1 DEF Estimate
              <8>3. Estimate(s, n, goal) \in Nat
                BY <1>2
              <8> QED BY <8>2, <8>3
            <7> QED BY <7>1, <7>2
          <6>1. t[2] \in Int /\ t[2] <= u[2] /\ Estimate(search, d, goal) \in Int
            BY <1>1, <1>2, <3>1, TakenIs
          <6> HIDE DEF c
          <6> QED BY <3>1, <4>1, <6>0, <6>1
        <5> QED BY <5>1
      <4>3. Relaxed(s, d)
        <5>1. ASSUME NEW n \in Neighbours(d) PROVE n \in DOMAIN s.g /\ s.g[n] <= s.g[d] + MoveCost(d, n)
          <6>1. n \in DOMAIN search.g /\ search.g[n] <= search.g[d] + MoveCost(d, n)
            BY <4>1 DEF Relaxed
          <6>2. n \in DOMAIN s.g /\ s.g[n] <= search.g[n] /\ s.g[n] \in Nat /\ search.g[n] \in Nat
                /\ search.g[d] \in Nat /\ MoveCost(d, n) \in Nat
            BY <1>1, <1>2, <3>1, <6>1, HeuristicStep
          <6> QED BY <3>1, <6>1, <6>2
        <5> QED BY <5>1 DEF Relaxed
      <4> QED BY <4>1, <4>2, <4>3
    <3> QED BY <3>2, <3>3
  <2> QED BY <2>1, <2>2, <2>3
<1> QED BY <1>8, <1>9, <1>10, <1>11 DEF Front

LEMMA FrontKept ==
  ASSUME NEW search, NEW start, NEW goal \in FreeCells, FrontInv(search, start, goal)
  PROVE  FrontInv(Expand(search, goal), start, goal)
<1>1. SearchInv(search, start, goal) /\ SearchInv(Expand(search, goal), start, goal)
  BY ExpandKeeps DEF FrontInv
<1>2. CASE search.open = {} \/ search.found
  <2>1. Expand(search, goal) = search
    BY <1>2 DEF Expand
  <2> QED BY <2>1
<1>3. CASE search.open # {} /\ ~search.found
  <2> DEFINE s == Expand(search, goal)
  <2>1. PICK t : IsTop(search, t) /\ IsTurn(search, s, t, goal)
    BY <1>1, <1>3, ExpandIs
  <2> HIDE DEF s
  <2>2. CASE t[1] = goal /\ s.found = TRUE /\ SameCosts(search, s, t)
    BY <1>1, <1>3, <2>1, <2>2, FrontWhenSame DEF FrontInv, s
  <2>3. CASE s.found = search.found /\ Estimate(search, t[1], goal) < t[2] /\ SameCosts(search, s, t)
    <3>1. search.found \in BOOLEAN
      BY DEF FrontInv, Front
    <3> QED BY <1>1, <1>3, <2>1, <2>3, <3>1, FrontWhenSame DEF FrontInv, s
  <2>4. CASE t[1] # goal /\ s.found = FALSE /\ t[2] <= Estimate(search, t[1], goal) /\ Improves(search, s, t, goal)
    BY <1>1, <1>3, <2>1, <2>4, FrontWhenImproved DEF FrontInv, s
  <2> QED BY <2>1, <2>2, <2>3, <2>4 DEF IsTurn, Estimate
<1> QED BY <1>2, <1>3

(* How many turns are left at most: every cell is done once, which queues  *)
(* its eight neighbours at most, and every other turn takes an entry away. *)
Undone(search, goal) == { c \in FreeCells : c \notin DOMAIN search.g \/ Queued(search, c, goal) }
Left(search, goal) == 8 * Cardinality(Undone(search, goal)) + Cardinality(search.open)

LEMMA EightNeighbours ==
  ASSUME NEW c \in FreeCells
  PROVE  IsFiniteSet(Neighbours(c)) /\ Cardinality(Neighbours(c)) \in 0 .. 8
<1> DEFINE xs == c[1] - 1 .. c[1] + 1
           ys == c[2] - 1 .. c[2] + 1
           block == xs \X ys
<1>1. c = <<c[1], c[2]>> /\ c[1] \in Int /\ c[2] \in Int
  BY CellIs DEF FreeCells
<1>2. /\ IsFiniteSet(xs) /\ Cardinality(xs) = 3
      /\ IsFiniteSet(ys) /\ Cardinality(ys) = 3
  <2>1. \A k \in Int : /\ k - 1 \in Int /\ k + 1 \in Int
                       /\ ~(k - 1 > k + 1) /\ (k + 1) - (k - 1) + 1 = 3
    OBVIOUS
  <2>2. \A k \in Int : IsFiniteSet(k - 1 .. k + 1) /\ Cardinality(k - 1 .. k + 1) = 3
    BY <2>1, FS_Interval
  <2> QED BY <1>1, <2>2
<1> HIDE DEF xs, ys
<1>3. IsFiniteSet(block) /\ Cardinality(block) = 9
  <2>1. Cardinality(block) = Cardinality(xs) * Cardinality(ys) /\ IsFiniteSet(block)
    BY <1>2, FS_Product
  <2> QED BY <1>2, <2>1
<1>4. c \in block
  BY <1>1 DEF xs, ys
<1>5. Neighbours(c) \subseteq block \ {c}
  <2>1. ASSUME NEW n \in Neighbours(c) PROVE n \in block
    <3>1. n \in Cells /\ Abs(n[1] - c[1]) <= 1 /\ Abs(n[2] - c[2]) <= 1
      BY DEF Neighbours, FreeCells
    <3>2. n = <<n[1], n[2]>> /\ n[1] \in Int /\ n[2] \in Int
      BY <3>1, CellIs
    <3>3. n[1] \in c[1] - 1 .. c[1] + 1 /\ n[2] \in c[2] - 1 .. c[2] + 1
      BY <1>1, <3>1, <3>2 DEF Abs
    <3> QED BY <3>2, <3>3 DEF xs, ys
  <2> QED BY <2>1 DEF Neighbours
<1> HIDE DEF block
<1>6. IsFiniteSet(block \ {c}) /\ Cardinality(block \ {c}) = 8
  BY <1>3, <1>4, FS_RemoveElement
<1>7. IsFiniteSet(Neighbours(c)) /\ Cardinality(Neighbours(c)) <= 8
  BY <1>5, <1>6, FS_Subset
<1> QED BY <1>7, FS_CardinalityType

LEMMA UndoneFinite ==
  ASSUME NEW search, NEW goal
  PROVE  IsFiniteSet(Undone(search, goal)) /\ Cardinality(Undone(search, goal)) \in Nat
<1>1. Undone(search, goal) \in SUBSET FreeCells
  BY DEF Undone
<1> QED BY <1>1, CellsFinite, FS_Subset, FS_CardinalityType

LEMMA LeftWhenImproved ==
  ASSUME NEW search, NEW start, NEW goal \in FreeCells, FrontInv(search, start, goal),
         ~search.found, NEW s, NEW t, IsTop(search, t), Improves(search, s, t, goal),
         t[2] <= Estimate(search, t[1], goal), IsFiniteSet(search.open)
  PROVE  IsFiniteSet(s.open) /\ Left(s, goal) + 1 <= Left(search, goal)
<1> DEFINE c == t[1]
           near == Nearer(search, c)
           entries == { <<n, s.g[n] + Heuristic(n, goal)>> : n \in near }
           rest == search.open \ {t}
<1>1. /\ c \in DOMAIN search.g /\ c \in FreeCells
      /\ \A d \in DOMAIN search.g : Estimate(search, d, goal) \in Nat /\ search.g[d] \in Nat
      /\ \A d \in DOMAIN search.g : ~Queued(search, d, goal) => Estimate(search, d, goal) <= t[2]
      /\ t[2] \in Nat
  BY TakenIs
<1>2. /\ t = <<c, Estimate(search, c, goal)>> /\ c \notin near /\ near \subseteq Neighbours(c)
      /\ \A n \in near : Estimate(s, n, goal) \in Nat /\ t[2] <= Estimate(s, n, goal)
  BY ImprovedIs
<1>3. /\ DOMAIN s.g = near \cup DOMAIN search.g
      /\ \A n \in near : s.g[n] = search.g[c] + MoveCost(c, n)
      /\ \A n \in DOMAIN search.g \ near : s.g[n] = search.g[n]
      /\ s.open = rest \cup entries
  BY DEF Improves
<1>4. t \in search.open /\ Queued(search, c, goal)
  BY <1>2 DEF IsTop, Queued
<1>5. IsFiniteSet(entries) /\ Cardinality(entries) \in 0 .. 8
  <2>1. IsFiniteSet(near) /\ Cardinality(near) <= 8 /\ Cardinality(near) \in Nat
    <3>1. IsFiniteSet(Neighbours(c)) /\ Cardinality(Neighbours(c)) \in 0 .. 8 /\ near \in SUBSET Neighbours(c)
      BY <1>1, <1>2, EightNeighbours
    <3> HIDE DEF near
    <3>2. IsFiniteSet(near) /\ Cardinality(near) <= Cardinality(Neighbours(c))
      BY <3>1, FS_Subset
    <3> QED BY <3>1, <3>2, FS_CardinalityType
  <2> DEFINE f == [n \in near |-> <<n, s.g[n] + Heuristic(n, goal)>>]
  <2>2. f \in Surjection(near, entries)
    <3> HIDE DEF near
    <3>1. f \in [near -> entries] /\ \A e \in entries : \E n \in near : f[n] = e
      OBVIOUS
    <3> QED BY <3>1 DEF Surjection
  <2> HIDE DEF f, entries, near
  <2>3. IsFiniteSet(entries) /\ Cardinality(entries) <= Cardinality(near)
    BY <2>1, <2>2, FS_Surjection
  <2> QED BY <2>1, <2>3, FS_CardinalityType
<1>6. /\ IsFiniteSet(s.open) /\ Cardinality(s.open) \in Nat /\ Cardinality(search.open) \in Nat
      /\ Cardinality(s.open) <= Cardinality(search.open) - 1 + 8
  <2> HIDE DEF entries
  <2>1. IsFiniteSet(rest) /\ Cardinality(rest) = Cardinality(search.open) - 1
    BY <1>4, FS_RemoveElement
  <2> HIDE DEF rest
  <2>2. IsFiniteSet(rest \cup entries)
        /\ Cardinality(rest \cup entries) = Cardinality(rest) + Cardinality(entries) - Cardinality(rest \cap entries)
    BY <1>5, <2>1, FS_Union
  <2>3. Cardinality(rest \cap entries) \in Nat /\ Cardinality(rest \cup entries) \in Nat
        /\ Cardinality(search.open) \in Nat
    BY <2>1, <2>2, FS_CardinalityType, FS_Intersection
  <2> QED BY <1>3, <1>5, <2>1, <2>2, <2>3
<1>7. ASSUME NEW d \in Undone(s, goal) PROVE d \in Undone(search, goal) \ {c}
  <2>1. d \in FreeCells /\ (d \notin DOMAIN s.g \/ Queued(s, d, goal))
    BY DEF Undone
  <2>2. CASE d \notin DOMAIN s.g
    BY <1>1, <1>3, <2>1, <2>2 DEF Undone
  <2>3. CASE d \in near
    <3>1. ASSUME d \in DOMAIN search.g, ~Queued(search, d, goal) PROVE FALSE
      <4>1. s.g[d] < search.g[d]
        BY <1>3, <2>3, <3>1 DEF near, Nearer
      <4>2. Estimate(search, d, goal) <= t[2] /\ t[2] <= Estimate(s, d, goal)
            /\ Estimate(search, d, goal) \in Nat /\ Estimate(s, d, goal) \in Nat
            /\ search.g[d] \in Nat
        BY <1>1, <1>2, <2>3, <3>1
      <4>3. MoveCost(c, d) \in Nat /\ Heuristic(d, goal) \in Nat
        <5>1. d \in Neighbours(c)
          BY <1>2, <2>3
        <5> QED BY <1>1, <5>1, HeuristicStep
      <4>4. s.g[d] \in Nat
        BY <1>1, <1>3, <2>3, <4>3
      <4> QED BY <1>1, <4>1, <4>2, <4>3, <4>4 DEF Estimate
    <3>2. d # c
      BY <1>2, <2>3
    <3> QED BY <2>1, <3>1, <3>2 DEF Undone
  <2>4. CASE d \in DOMAIN s.g /\ d \notin near
    <3>1. d \in DOMAIN search.g /\ Estimate(s, d, goal) = Estimate(search, d, goal)
      BY <1>3, <2>4 DEF Estimate
    <3>2. <<d, Estimate(search, d, goal)>> \in rest \cup entries
      BY <1>3, <2>1, <2>4, <3>1 DEF Queued
    <3>3. <<d, Estimate(search, d, goal)>> \notin entries
      BY <2>4
    <3>4. <<d, Estimate(search, d, goal)>> \in search.open /\ <<d, Estimate(search, d, goal)>> # t
      BY <3>2, <3>3
    <3> QED BY <1>2, <2>1, <3>4 DEF Undone, Queued
  <2> QED BY <2>2, <2>3, <2>4
<1>8. c \in Undone(search, goal)
  BY <1>1, <1>4 DEF Undone
<1> DEFINE U == Undone(search, goal)
           V == Undone(s, goal)
<1>9. IsFiniteSet(U) /\ Cardinality(U) \in Nat /\ IsFiniteSet(V) /\ Cardinality(V) \in Nat
  BY UndoneFinite
<1>10. V \in SUBSET (U \ {c}) /\ c \in U
  BY <1>7, <1>8
<1> HIDE DEF U, V, c, rest, near, entries
<1>11. IsFiniteSet(U \ {c}) /\ Cardinality(U \ {c}) = Cardinality(U) - 1
  BY <1>9, <1>10, FS_RemoveElement
<1>12. Cardinality(V) <= Cardinality(U) - 1
  BY <1>10, <1>11, FS_Subset
<1>13. /\ Left(s, goal) = 8 * Cardinality(V) + Cardinality(s.open)
       /\ Left(search, goal) = 8 * Cardinality(U) + Cardinality(search.open)
  BY DEF Left, U, V
<1> QED BY <1>6, <1>9, <1>12, <1>13

LEMMA LeftShrinks ==
  ASSUME NEW search, NEW start, NEW goal \in FreeCells, FrontInv(search, start, goal),
         ~Ended(search), IsFiniteSet(search.open)
  PROVE  LET s == Expand(search, goal)
         IN  IsFiniteSet(s.open) /\ (Ended(s) \/ Left(s, goal) + 1 <= Left(search, goal))
<1> DEFINE s == Expand(search, goal)
<1>1. PICK t : IsTop(search, t) /\ IsTurn(search, s, t, goal)
  BY ExpandIs DEF FrontInv, Ended
<1>2. t \in search.open /\ ~search.found
  BY <1>1 DEF IsTop, Ended
<1> HIDE DEF s
<1>3. ASSUME SameCosts(search, s, t)
      PROVE  IsFiniteSet(s.open) /\ Cardinality(s.open) = Cardinality(search.open) - 1
             /\ Cardinality(search.open) \in Nat
  BY <1>2, <1>3, FS_RemoveElement, FS_CardinalityType DEF SameCosts
<1>4. CASE s.found /\ SameCosts(search, s, t)
  BY <1>3, <1>4 DEF Ended, s
<1>5. CASE Estimate(search, t[1], goal) < t[2] /\ SameCosts(search, s, t)
  <2>1. Undone(s, goal) \subseteq Undone(search, goal)
    BY <1>5 DEF Undone, Queued, Estimate, SameCosts
  <2> DEFINE U == Undone(search, goal)
             V == Undone(s, goal)
  <2>2. IsFiniteSet(U) /\ Cardinality(U) \in Nat /\ Cardinality(V) \in Nat
    BY UndoneFinite
  <2>3. /\ Left(s, goal) = 8 * Cardinality(V) + Cardinality(s.open)
        /\ Left(search, goal) = 8 * Cardinality(U) + Cardinality(search.open)
    BY DEF Left
  <2>4. V \in SUBSET U
    BY <2>1
  <2> HIDE DEF U, V
  <2>5. Cardinality(V) <= Cardinality(U)
    BY <2>2, <2>4, FS_Subset
  <2>6. Left(s, goal) + 1 <= Left(search, goal)
    BY <1>3, <1>5, <2>2, <2>3, <2>5
  <2> QED BY <1>3, <1>5, <2>6 DEF s
<1>6. CASE t[2] <= Estimate(search, t[1], goal) /\ Improves(search, s, t, goal)
  <2>1. IsFiniteSet(s.open) /\ Left(s, goal) + 1 <= Left(search, goal)
    BY <1>1, <1>2, <1>6, LeftWhenImproved
  <2> QED BY <2>1 DEF s
<1> QED BY <1>1, <1>4, <1>5, <1>6 DEF IsTurn, Estimate

(* The recursion of AStar exists, turn by turn. *)
FirstTurn(start, goal) ==
  [found |-> FALSE, g |-> [c \in {start} |-> 0], from |-> [c \in {start} |-> c],
   open |-> {<<start, Heuristic(start, goal)>>}]
Turn(f, n, start, goal) == IF n > 0 THEN Expand(f[n - 1], goal) ELSE FirstTurn(start, goal)

HasTurns(n, start, goal) == \E f : f = [k \in 0 .. n |-> Turn(f, k, start, goal)]

LEMMA TurnsUpTo ==
  ASSUME NEW start, NEW goal, NEW n \in Nat
  PROVE  HasTurns(n, start, goal)
<1> DEFINE Q == { m \in Nat : \E f : f = [k \in 0 .. m |-> Turn(f, k, start, goal)] }
<1>1. 0 \in Q
  <2> DEFINE f == [k \in 0 .. 0 |-> FirstTurn(start, goal)]
  <2>1. \A k \in 0 .. 0 : Turn(f, k, start, goal) = FirstTurn(start, goal)
    BY DEF Turn
  <2>2. f = [k \in 0 .. 0 |-> Turn(f, k, start, goal)]
    BY <2>1, Zenon
  <2> QED BY <2>2
<1>2. ASSUME NEW m \in Nat, m \in Q PROVE m + 1 \in Q
  <2>1. PICK f : f = [k \in 0 .. m |-> Turn(f, k, start, goal)]
    BY <1>2
  <2> DEFINE g == [k \in 0 .. m + 1 |-> Turn(f, k, start, goal)]
  <2>2. \A k \in 0 .. m : f[k] = g[k]
    <3>1. \A k \in 0 .. m : f[k] = Turn(f, k, start, goal) /\ k \in 0 .. m + 1
      BY <2>1
    <3> QED BY <3>1, Zenon
  <2>3. ASSUME NEW k \in 0 .. m + 1 PROVE Turn(f, k, start, goal) = Turn(g, k, start, goal)
    <3> HIDE DEF g
    <3>1. k > 0 => f[k - 1] = g[k - 1]
      BY <2>2
    <3> QED BY <3>1, Zenon DEF Turn
  <2>4. g = [k \in 0 .. m + 1 |-> Turn(g, k, start, goal)]
    <3> DEFINE h == [k \in 0 .. m + 1 |-> Turn(g, k, start, goal)]
    <3>1. g = h
      BY <2>3, Zenon
    <3> QED BY <3>1
  <2> HIDE DEF g
  <2>5. \E f_1 : f_1 = [k \in 0 .. m + 1 |-> Turn(f_1, k, start, goal)]
    BY <2>4, Zenon
  <2> QED BY <2>5
<1> HIDE DEF Q
<1>3. n \in Q
  BY <1>1, <1>2, SetInduction
<1> QED BY <1>3 DEF Q, HasTurns

LEMMA AStarTurns ==
  ASSUME NEW start, NEW goal
  PROVE  \E after : /\ AStar(start, goal) = after[MaxExpansions]
                    /\ after[0] = FirstTurn(start, goal)
                    /\ \A k \in Nat : k + 1 <= MaxExpansions => after[k + 1] = Expand(after[k], goal)
<1> DEFINE F(f) == [k \in 0 .. MaxExpansions |-> Turn(f, k, start, goal)]
           after == CHOOSE f : f = F(f)
<1>1. MaxExpansions \in Nat
  BY ObstacleAssumption
<1>2. \E f : f = F(f)
  <2>1. HasTurns(MaxExpansions, start, goal)
    BY <1>1, TurnsUpTo
  <2> QED BY <2>1, Zenon DEF HasTurns
<1>3. after = F(after)
  BY <1>2, Zenon
<1>4. AStar(start, goal) = after[MaxExpansions]
  BY Zenon DEF AStar, Turn, FirstTurn
<1> HIDE DEF after
<1>5. \A k \in 0 .. MaxExpansions : after[k] = Turn(after, k, start, goal)
  BY <1>3, Zenon
<1>6. after[0] = FirstTurn(start, goal)
  BY <1>1, <1>5 DEF Turn
<1>7. \A k \in Nat : k + 1 <= MaxExpansions => after[k + 1] = Expand(after[k], goal)
  <2>1. SUFFICES ASSUME NEW k \in Nat, k + 1 <= MaxExpansions PROVE after[k + 1] = Expand(after[k], goal)
    OBVIOUS
  <2>2. k + 1 \in 0 .. MaxExpansions /\ k + 1 > 0 /\ (k + 1) - 1 = k
    BY <1>1, <2>1
  <2> QED BY <1>5, <2>2 DEF Turn
<1> QED BY <1>4, <1>6, <1>7

LEMMA FirstFront ==
  ASSUME NEW start \in FreeCells, NEW goal \in FreeCells
  PROVE  LET s == FirstTurn(start, goal)
         IN  /\ FrontInv(s, start, goal)
             /\ IsFiniteSet(s.open) /\ Left(s, goal) <= 8 * Cardinality(FreeCells) + 1
<1> DEFINE s == FirstTurn(start, goal)
<1>1. Heuristic(start, goal) \in Nat
  BY HeuristicIs DEF FreeCells
<1>2. /\ DOMAIN s = {"found", "g", "from", "open"} /\ s.found = FALSE
      /\ DOMAIN s.g = {start} /\ DOMAIN s.from = {start} /\ s.g[start] = 0
      /\ s.open = {<<start, Heuristic(start, goal)>>}
  BY DEF FirstTurn
<1> HIDE DEF s
<1>3. Estimate(s, start, goal) = Heuristic(start, goal)
  BY <1>1, <1>2 DEF Estimate
<1>4. SearchInv(s, start, goal)
  BY <1>1, <1>2 DEF SearchInv
<1>5. Front(s, start, goal)
  <2>1. Queued(s, start, goal)
    BY <1>2, <1>3 DEF Queued
  <2>2. \A t \in s.open : t = <<t[1], t[2]>> /\ Estimate(s, t[1], goal) <= t[2]
    <3>1. ASSUME NEW t \in s.open PROVE t = <<t[1], t[2]>> /\ Estimate(s, t[1], goal) <= t[2]
      <4>1. t = <<start, Heuristic(start, goal)>>
        BY <1>2
      <4> QED BY <1>1, <1>3, <4>1
    <3> QED BY <3>1
  <2>3. \A c \in DOMAIN s.g : c = start
    BY <1>2
  <2>4. s.found \in BOOLEAN /\ ~s.found /\ s.g[start] = 0
    BY <1>2
  <2> QED BY <2>1, <2>2, <2>3, <2>4 DEF Front
<1>6. IsFiniteSet(s.open) /\ Cardinality(s.open) = 1
  <2> DEFINE e == <<start, Heuristic(start, goal)>>
  <2>1. s.open = {e}
    BY <1>2
  <2> HIDE DEF e
  <2> QED BY <2>1, FS_Singleton
<1>7. Cardinality(Undone(s, goal)) <= Cardinality(FreeCells)
      /\ Cardinality(Undone(s, goal)) \in Nat /\ Cardinality(FreeCells) \in Nat
  <2>1. Undone(s, goal) \in SUBSET FreeCells
    BY DEF Undone
  <2> QED BY <2>1, CellsFinite, FS_Subset, FS_CardinalityType
<1>8. Left(s, goal) <= 8 * Cardinality(FreeCells) + 1
  BY <1>6, <1>7 DEF Left
<1> QED BY <1>4, <1>5, <1>6, <1>8 DEF FrontInv, s

LEMMA AStarFront ==
  ASSUME NEW start \in FreeCells, NEW goal \in FreeCells
  PROVE  /\ FrontInv(AStar(start, goal), start, goal)
         /\ 8 * Cardinality(FreeCells) < MaxExpansions => Ended(AStar(start, goal))
<1> DEFINE most == 8 * Cardinality(FreeCells) + 1
<1>1. MaxExpansions \in Nat /\ Cardinality(FreeCells) \in Nat
  BY ObstacleAssumption, CellsFinite, FS_CardinalityType
<1>2. PICK after : /\ AStar(start, goal) = after[MaxExpansions]
                   /\ after[0] = FirstTurn(start, goal)
                   /\ \A k \in Nat : k + 1 <= MaxExpansions => after[k + 1] = Expand(after[k], goal)
  BY AStarTurns
<1> DEFINE Q == { k \in Nat : k <= MaxExpansions =>
                    /\ FrontInv(after[k], start, goal)
                    /\ IsFiniteSet(after[k].open)
                    /\ Ended(after[k]) \/ Left(after[k], goal) + k <= most }
<1>3. \A s : IsFiniteSet(s.open) => Left(s, goal) \in Nat
  BY UndoneFinite, FS_CardinalityType DEF Left
<1>4. most \in Nat
  BY <1>1
<1> HIDE DEF most
<1>5. 0 \in Q
  <2>1. FrontInv(after[0], start, goal) /\ IsFiniteSet(after[0].open)
    BY <1>2, FirstFront
  <2>2. Left(after[0], goal) <= most
    BY <1>2, FirstFront DEF most
  <2> QED BY <1>3, <1>4, <2>1, <2>2
<1>6. ASSUME NEW k \in Nat, k \in Q PROVE k + 1 \in Q
  <2>1. SUFFICES ASSUME k + 1 <= MaxExpansions
                 PROVE  /\ FrontInv(after[k + 1], start, goal)
                        /\ IsFiniteSet(after[k + 1].open)
                        /\ Ended(after[k + 1]) \/ Left(after[k + 1], goal) + (k + 1) <= most
    OBVIOUS
  <2> DEFINE s == after[k]
             u == after[k + 1]
  <2>2. /\ FrontInv(s, start, goal) /\ IsFiniteSet(s.open)
        /\ Ended(s) \/ Left(s, goal) + k <= most
    BY <1>1, <1>6, <2>1
  <2>3. u = Expand(s, goal)
    BY <1>2, <2>1
  <2> HIDE DEF s, u
  <2>4. FrontInv(u, start, goal)
    BY <2>2, <2>3, FrontKept
  <2>5. CASE Ended(s)
    <3>1. u = s
      BY <2>3, <2>5 DEF Expand, Ended
    <3> QED BY <2>2, <2>4, <2>5, <3>1 DEF s, u
  <2>6. CASE ~Ended(s)
    <3>1. IsFiniteSet(u.open) /\ (Ended(u) \/ Left(u, goal) + 1 <= Left(s, goal))
      BY <2>2, <2>3, <2>6, LeftShrinks
    <3>2. Left(u, goal) \in Nat /\ Left(s, goal) \in Nat
      BY <1>3, <2>2, <3>1
    <3>3. Ended(u) \/ Left(u, goal) + (k + 1) <= most
      BY <1>4, <2>2, <2>6, <3>1, <3>2
    <3> QED BY <2>4, <3>1, <3>3 DEF u
  <2> QED BY <2>5, <2>6
<1> HIDE DEF Q
<1>7. MaxExpansions \in Q
  BY <1>1, <1>5, <1>6, SetInduction
<1> DEFINE s == AStar(start, goal)
<1>8. /\ FrontInv(s, start, goal) /\ IsFiniteSet(s.open)
      /\ Ended(s) \/ Left(s, goal) + MaxExpansions <= most
  BY <1>1, <1>2, <1>7 DEF Q
<1> HIDE DEF s
<1>9. ASSUME 8 * Cardinality(FreeCells) < MaxExpansions, ~Ended(s) PROVE FALSE
  <2>1. most <= MaxExpansions
    BY <1>1, <1>9 DEF most
  <2>2. Left(s, goal) + MaxExpansions <= most /\ Left(s, goal) \in Nat
    BY <1>3, <1>8, <1>9
  <2>3. Left(s, goal) = 0
    BY <1>1, <1>4, <2>1, <2>2
  <2>4. Cardinality(s.open) = 0
    <3>1. Cardinality(s.open) \in Nat /\ Cardinality(Undone(s, goal)) \in Nat
      BY <1>8, UndoneFinite, FS_CardinalityType
    <3> QED BY <2>3, <3>1 DEF Left
  <2>5. s.open = {}
    BY <1>8, <2>4, FS_EmptySet
  <2> QED BY <1>9, <2>5 DEF Ended
<1> QED BY <1>8, <1>9 DEF s
-----------------------------------------------------------------------------
(* The recursion of WayTo goes to lower costs, of which there are finitely *)
(* many, and follows the links back to the start.                          *)
Cheaper(search, n) == { c \in DOMAIN search.g : search.g[c] <= n }
Step(f, search, start, c) == IF c = start THEN <<c>> ELSE Append(f[search.from[c]], c)
HasWays(D, search, start) == \E f : f = [c \in D |-> Step(f, search, start, c)]

LEMMA WaysUpTo ==
  ASSUME NEW search, NEW start, NEW goal, SearchInv(search, start, goal), NEW n \in Nat
  PROVE  HasWays(Cheaper(search, n), search, start)
<1> DEFINE Q == { m \in Nat : HasWays(Cheaper(search, m), search, start) }
<1>0. /\ \A c \in DOMAIN search.g : search.g[c] \in Nat
      /\ \A c \in DOMAIN search.g \ {start} :
           search.from[c] \in DOMAIN search.g /\ search.g[search.from[c]] < search.g[c]
  BY DEF SearchInv, Linked
<1>1. 0 \in Q
  <2> DEFINE f == [c \in Cheaper(search, 0) |-> <<c>>]
  <2>1. \A c \in Cheaper(search, 0) : Step(f, search, start, c) = <<c>>
    <3>1. ASSUME NEW c \in Cheaper(search, 0) PROVE c = start
      BY <1>0 DEF Cheaper
    <3> QED BY <3>1 DEF Step
  <2>2. f = [c \in Cheaper(search, 0) |-> Step(f, search, start, c)]
    BY <2>1, Zenon
  <2> QED BY <2>2, Zenon DEF HasWays
<1>2. ASSUME NEW m \in Nat, m \in Q PROVE m + 1 \in Q
  <2>1. PICK f : f = [c \in Cheaper(search, m) |-> Step(f, search, start, c)]
    BY <1>2 DEF HasWays
  <2> DEFINE g == [c \in Cheaper(search, m + 1) |-> Step(f, search, start, c)]
  <2>2. \A c \in Cheaper(search, m) : f[c] = g[c]
    <3>1. \A c \in Cheaper(search, m) : f[c] = Step(f, search, start, c)
      BY <2>1, Zenon
    <3>2. \A c \in Cheaper(search, m) : c \in Cheaper(search, m + 1)
      BY <1>0 DEF Cheaper
    <3> QED BY <3>1, <3>2, Zenon
  <2>3. ASSUME NEW c \in Cheaper(search, m + 1) PROVE Step(f, search, start, c) = Step(g, search, start, c)
    <3> HIDE DEF g
    <3>1. c # start => search.from[c] \in Cheaper(search, m)
      BY <1>0 DEF Cheaper
    <3>2. c # start => f[search.from[c]] = g[search.from[c]]
      BY <2>2, <3>1
    <3> QED BY <3>2, Zenon DEF Step
  <2>4. g = [c \in Cheaper(search, m + 1) |-> Step(g, search, start, c)]
    <3> DEFINE h == [c \in Cheaper(search, m + 1) |-> Step(g, search, start, c)]
    <3>1. g = h
      BY <2>3, Zenon
    <3> QED BY <3>1
  <2> HIDE DEF g
  <2>5. HasWays(Cheaper(search, m + 1), search, start)
    BY <2>4, Zenon DEF HasWays
  <2> QED BY <2>5
<1> HIDE DEF Q
<1>3. n \in Q
  BY <1>1, <1>2, SetInduction
<1> QED BY <1>3 DEF Q

LEMMA CostsAreBounded ==
  ASSUME NEW search, NEW start, NEW goal, SearchInv(search, start, goal)
  PROVE  \E n \in Nat : Cheaper(search, n) = DOMAIN search.g
<1> DEFINE D == DOMAIN search.g
           f == [c \in D |-> search.g[c]]
<1>1. IsFiniteSet(D) /\ start \in D /\ \A c \in D : search.g[c] \in Nat
  BY CellsFinite, FS_Subset DEF SearchInv
<1>2. f \in [D -> Int] /\ D # {}
  BY <1>1
<1>3. PICK c \in D : \A d \in D : f[d] <= f[c]
  <2> HIDE DEF f, D
  <2> QED BY <1>1, <1>2, MostOf
<1>4. \A d \in D : search.g[d] <= search.g[c]
  BY <1>3
<1> QED BY <1>1, <1>4 DEF Cheaper

(* A way: neighbour after neighbour through free cells. *)
IsWay(w, start, c) ==
  /\ w \in Seq(FreeCells) /\ w # <<>> /\ w[1] = start /\ w[Len(w)] = c
  /\ \A i \in 1 .. Len(w) - 1 : w[i + 1] \in Neighbours(w[i])

LEMMA LongerWay ==
  ASSUME NEW w, NEW start, NEW b, IsWay(w, start, b), NEW c \in Neighbours(b)
  PROVE  IsWay(Append(w, c), start, c)
<1> DEFINE v == Append(w, c)
<1>1. w \in Seq(FreeCells) /\ Len(w) \in Nat /\ Len(w) # 0 /\ w[1] = start /\ w[Len(w)] = b /\ c \in FreeCells
  BY DEF IsWay, Neighbours
<1>2. v \in Seq(FreeCells) /\ Len(v) = Len(w) + 1 /\ v[Len(w) + 1] = c
      /\ \A i \in 1 .. Len(w) : v[i] = w[i]
  BY <1>1
<1> HIDE DEF v
<1>3. ASSUME NEW i \in 1 .. Len(v) - 1 PROVE v[i + 1] \in Neighbours(v[i])
  <2>1. CASE i = Len(w)
    BY <1>1, <1>2, <2>1
  <2>2. CASE i # Len(w)
    <3>1. i \in 1 .. Len(w) - 1 /\ i + 1 \in 1 .. Len(w)
      BY <1>1, <1>2, <2>2
    <3> QED BY <1>2, <3>1 DEF IsWay
  <2> QED BY <2>1, <2>2
<1>4. v # <<>> /\ v[1] = start /\ v[Len(v)] = c
  BY <1>1, <1>2
<1> QED BY <1>2, <1>3, <1>4 DEF IsWay, v

(* What a way costs: k is how far it has come at each of its cells. *)
HasLength(w, n) ==
  \E k \in [1 .. Len(w) -> Nat] :
    /\ k[1] = 0 /\ k[Len(w)] = n
    /\ \A i \in 1 .. Len(w) - 1 : k[i + 1] = k[i] + MoveCost(w[i], w[i + 1])

LEMMA LongerLength ==
  ASSUME NEW w, NEW start, NEW b, IsWay(w, start, b), NEW n \in Nat, HasLength(w, n), NEW c
  PROVE  HasLength(Append(w, c), n + MoveCost(b, c)) /\ n + MoveCost(b, c) \in Nat
<1> DEFINE v == Append(w, c)
           L == Len(w)
<1>1. w \in Seq(FreeCells) /\ L \in Nat /\ L # 0 /\ w[L] = b
  BY DEF IsWay
<1>2. Len(v) = L + 1 /\ v[L + 1] = c /\ \A i \in 1 .. L : v[i] = w[i]
  BY <1>1
<1>3. MoveCost(b, c) \in Nat
  BY ObstacleAssumption DEF MoveCost
<1>4. PICK k \in [1 .. L -> Nat] :
        /\ k[1] = 0 /\ k[L] = n
        /\ \A i \in 1 .. L - 1 : k[i + 1] = k[i] + MoveCost(w[i], w[i + 1])
  BY DEF HasLength
<1> DEFINE m == n + MoveCost(b, c)
           j == [i \in 1 .. L + 1 |-> IF i = L + 1 THEN m ELSE k[i]]
<1> HIDE DEF v, L
<1>5. m \in Nat
  BY <1>3
<1> HIDE DEF m
<1>6. /\ j \in [1 .. L + 1 -> Nat] /\ j[L + 1] = m
      /\ \A i \in 1 .. L : j[i] = k[i]
  BY <1>1, <1>5
<1> HIDE DEF j
<1>7. ASSUME NEW i \in 1 .. (L + 1) - 1 PROVE j[i + 1] = j[i] + MoveCost(v[i], v[i + 1])
  <2>1. CASE i = L
    <3>1. j[i + 1] = m /\ j[i] = n /\ v[i] = b /\ v[i + 1] = c
      BY <1>1, <1>2, <1>4, <1>6, <2>1
    <3> QED BY <3>1 DEF m
  <2>2. CASE i # L
    <3>1. i \in 1 .. L - 1 /\ i \in 1 .. L /\ i + 1 \in 1 .. L
      BY <1>1, <2>2
    <3>2. j[i + 1] = k[i + 1] /\ j[i] = k[i] /\ v[i] = w[i] /\ v[i + 1] = w[i + 1]
      BY <1>2, <1>6, <3>1
    <3> QED BY <1>4, <3>1, <3>2
  <2> QED BY <2>1, <2>2
<1>8. j[1] = 0
  <2>1. 1 \in 1 .. L
    BY <1>1
  <2> QED BY <1>4, <1>6, <2>1
<1>9. HasLength(v, m)
  BY <1>2, <1>6, <1>7, <1>8 DEF HasLength
<1> QED BY <1>5, <1>9 DEF m, v

LEMMA WayCells ==
  ASSUME NEW search, NEW start, NEW goal, SearchInv(search, start, goal)
  PROVE  \E cells : /\ WayTo(search, start, goal) = cells[goal]
                    /\ \A c \in DOMAIN search.g : cells[c] = Step(cells, search, start, c)
<1> DEFINE F(f) == [c \in DOMAIN search.from |-> Step(f, search, start, c)]
           cells == CHOOSE f : f = F(f)
<1>0. DOMAIN search.from = DOMAIN search.g
  BY DEF SearchInv
<1>1. \E f : f = F(f)
  <2>1. PICK n \in Nat : Cheaper(search, n) = DOMAIN search.from
    BY <1>0, CostsAreBounded
  <2>2. HasWays(Cheaper(search, n), search, start)
    BY WaysUpTo
  <2>3. HasWays(DOMAIN search.from, search, start)
    BY <2>1, <2>2
  <2> QED BY <2>3, Zenon DEF HasWays
<1>2. cells = F(cells)
  BY <1>1, Zenon
<1>3. WayTo(search, start, goal) = cells[goal]
  BY Zenon DEF WayTo, Step
<1> HIDE DEF cells
<1>4. \A c \in DOMAIN search.g : cells[c] = Step(cells, search, start, c)
  BY <1>0, <1>2, Zenon
<1> QED BY <1>3, <1>4

(* The way the search came costs no more than it says. *)
LEMMA WayLength ==
  ASSUME NEW search, NEW start, NEW goal, FrontInv(search, start, goal), search.found
  PROVE  LET way == WayTo(search, start, goal)
         IN  IsWay(way, start, goal) /\ \E n \in Nat : HasLength(way, n) /\ n <= search.g[goal]
<1>0. /\ start \in DOMAIN search.g /\ goal \in DOMAIN search.g /\ search.g[start] = 0
      /\ start \in FreeCells /\ \A c \in DOMAIN search.g : search.g[c] \in Nat
      /\ \A c \in DOMAIN search.g \ {start} :
           LET b == search.from[c]
           IN b \in DOMAIN search.g /\ c \in Neighbours(b) /\ search.g[b] < search.g[c]
              /\ search.g[b] + MoveCost(b, c) <= search.g[c]
  BY DEF FrontInv, Front, SearchInv, Linked
<1>1. PICK cells : /\ WayTo(search, start, goal) = cells[goal]
                   /\ \A c \in DOMAIN search.g : cells[c] = Step(cells, search, start, c)
  BY WayCells DEF FrontInv
<1> DEFINE Fine(c) == IsWay(cells[c], start, c)
                      /\ \E n \in Nat : HasLength(cells[c], n) /\ n <= search.g[c]
           Q == { m \in Nat : \A c \in Cheaper(search, m) : Fine(c) }
<1>2. Fine(start)
  <2>1. cells[start] = <<start>>
    BY <1>0, <1>1 DEF Step
  <2>2. IsWay(<<start>>, start, start)
    BY <1>0 DEF IsWay
  <2>3. HasLength(<<start>>, 0)
    <3> DEFINE k == [i \in 1 .. 1 |-> 0]
    <3>1. k \in [1 .. 1 -> Nat] /\ k[1] = 0 /\ Len(<<start>>) = 1 /\ 1 .. 1 - 1 = {}
      OBVIOUS
    <3> QED BY <3>1 DEF HasLength
  <2> QED BY <1>0, <2>1, <2>2, <2>3
<1>3. ASSUME NEW c \in DOMAIN search.g, c # start, Fine(search.from[c]) PROVE Fine(c)
  <2> DEFINE b == search.from[c]
  <2>1. b \in DOMAIN search.g /\ c \in Neighbours(b) /\ search.g[b] + MoveCost(b, c) <= search.g[c]
    BY <1>0, <1>3
  <2>2. cells[c] = Append(cells[b], c)
    BY <1>1, <1>3 DEF Step
  <2>3. Fine(b)
    BY <1>3
  <2> HIDE DEF b
  <2>4. PICK n \in Nat : HasLength(cells[b], n) /\ n <= search.g[b]
    BY <2>3
  <2>5. IsWay(cells[c], start, c) /\ HasLength(cells[c], n + MoveCost(b, c)) /\ n + MoveCost(b, c) \in Nat
    BY <2>1, <2>2, <2>3, <2>4, LongerWay, LongerLength
  <2>6. n + MoveCost(b, c) <= search.g[c]
    <3>1. MoveCost(b, c) \in Nat
      BY ObstacleAssumption DEF MoveCost
    <3>2. search.g[b] \in Nat /\ search.g[c] \in Nat
      BY <1>0, <2>1
    <3> QED BY <2>1, <2>4, <3>1, <3>2
  <2> QED BY <2>5, <2>6
<1> HIDE DEF Fine
<1>4. 0 \in Q
  <2>1. \A c \in Cheaper(search, 0) : c = start
    BY <1>0 DEF Cheaper
  <2> QED BY <1>2, <2>1
<1>5. ASSUME NEW m \in Nat, m \in Q PROVE m + 1 \in Q
  <2>1. ASSUME NEW c \in Cheaper(search, m + 1), c # start PROVE Fine(c)
    <3>1. /\ c \in DOMAIN search.g /\ search.g[c] <= m + 1 /\ search.g[c] \in Nat
          /\ search.from[c] \in DOMAIN search.g /\ search.g[search.from[c]] < search.g[c]
          /\ search.g[search.from[c]] \in Nat
      BY <1>0, <2>1 DEF Cheaper
    <3>2. search.from[c] \in Cheaper(search, m)
      BY <3>1 DEF Cheaper
    <3> QED BY <1>3, <1>5, <2>1, <3>1, <3>2
  <2> QED BY <1>2, <2>1
<1> HIDE DEF Q
<1>6. Nat \subseteq Q
  BY <1>4, <1>5, SetInduction
<1>7. goal \in Cheaper(search, search.g[goal]) /\ search.g[goal] \in Q
  BY <1>0, <1>6 DEF Cheaper
<1>8. Fine(goal)
  BY <1>7 DEF Q
<1> QED BY <1>1, <1>8 DEF Fine
-----------------------------------------------------------------------------
(* The reference: rounds of relaxation                                     *)

Round(d) ==
  LET Ways(c) == { d[m] + MoveCost(m, c) : m \in Neighbours(c) \cap DOMAIN d }
      nearer == { c \in FreeCells : Ways(c) # {} /\ (c \notin DOMAIN d \/ Min(Ways(c)) < d[c]) }
  IN Over([c \in nearer |-> Min(Ways(c))], d)

RoundTurn(f, n, start) == IF n = 0 THEN [c \in {start} |-> 0] ELSE Round(f[n - 1])

LEMMA RoundsUpTo ==
  ASSUME NEW start, NEW n \in Nat
  PROVE  \E f : f = [k \in 0 .. n |-> RoundTurn(f, k, start)]
<1> DEFINE Q == { m \in Nat : \E f : f = [k \in 0 .. m |-> RoundTurn(f, k, start)] }
<1>1. 0 \in Q
  <2> DEFINE first == [c \in {start} |-> 0]
             f == [k \in 0 .. 0 |-> first]
  <2>1. \A k \in 0 .. 0 : RoundTurn(f, k, start) = first
    BY DEF RoundTurn
  <2>2. f = [k \in 0 .. 0 |-> RoundTurn(f, k, start)]
    BY <2>1, Zenon
  <2> QED BY <2>2
<1>2. ASSUME NEW m \in Nat, m \in Q PROVE m + 1 \in Q
  <2>1. PICK f : f = [k \in 0 .. m |-> RoundTurn(f, k, start)]
    BY <1>2
  <2> DEFINE g == [k \in 0 .. m + 1 |-> RoundTurn(f, k, start)]
  <2>2. \A k \in 0 .. m : f[k] = g[k]
    <3>1. \A k \in 0 .. m : f[k] = RoundTurn(f, k, start) /\ k \in 0 .. m + 1
      BY <2>1
    <3> QED BY <3>1, Zenon
  <2>3. ASSUME NEW k \in 0 .. m + 1 PROVE RoundTurn(f, k, start) = RoundTurn(g, k, start)
    <3> HIDE DEF g
    <3>1. k # 0 => f[k - 1] = g[k - 1]
      BY <2>2
    <3> QED BY <3>1, Zenon DEF RoundTurn
  <2>4. g = [k \in 0 .. m + 1 |-> RoundTurn(g, k, start)]
    <3> DEFINE h == [k \in 0 .. m + 1 |-> RoundTurn(g, k, start)]
    <3>1. g = h
      BY <2>3, Zenon
    <3> QED BY <3>1
  <2> HIDE DEF g
  <2>5. \E f_1 : f_1 = [k \in 0 .. m + 1 |-> RoundTurn(f_1, k, start)]
    BY <2>4, Zenon
  <2> QED BY <2>5
<1> HIDE DEF Q
<1>3. n \in Q
  BY <1>1, <1>2, SetInduction
<1> QED BY <1>3 DEF Q

LEMMA ShortestRounds ==
  ASSUME NEW start
  PROVE  \E after : /\ Shortest(start) = after[Cardinality(FreeCells)]
                    /\ after[0] = [c \in {start} |-> 0]
                    /\ \A k \in Nat : k + 1 <= Cardinality(FreeCells) => after[k + 1] = Round(after[k])
<1> DEFINE N == Cardinality(FreeCells)
           F(f) == [k \in 0 .. N |-> RoundTurn(f, k, start)]
           after == CHOOSE f : f = F(f)
<1>1. N \in Nat
  BY CellsFinite, FS_CardinalityType
<1>2. \E f : f = F(f)
  <2> HIDE DEF N
  <2> QED BY <1>1, RoundsUpTo
<1>3. after = F(after)
  BY <1>2, Zenon
<1>4. Shortest(start) = after[N]
  BY Zenon DEF Shortest, RoundTurn, Round
<1> HIDE DEF after, N
<1>5. \A k \in 0 .. N : after[k] = RoundTurn(after, k, start)
  BY <1>3, Zenon
<1>6. after[0] = [c \in {start} |-> 0]
  BY <1>1, <1>5 DEF RoundTurn
<1>7. \A k \in Nat : k + 1 <= N => after[k + 1] = Round(after[k])
  <2>1. SUFFICES ASSUME NEW k \in Nat, k + 1 <= N PROVE after[k + 1] = Round(after[k])
    OBVIOUS
  <2>2. k + 1 \in 0 .. N /\ k + 1 # 0 /\ (k + 1) - 1 = k
    BY <1>1, <2>1
  <2> QED BY <1>5, <2>2 DEF RoundTurn
<1> QED BY <1>4, <1>6, <1>7 DEF N

(* What a round makes of the distances: none grows, one by way of a        *)
(* neighbour is taken into account, and each is one of these.              *)
Distances(d) == DOMAIN d \subseteq FreeCells /\ \A c \in DOMAIN d : d[c] \in Nat

LEMMA RoundIs ==
  ASSUME NEW d, Distances(d)
  PROVE  /\ Distances(Round(d))
         /\ \A c \in DOMAIN d : c \in DOMAIN Round(d) /\ Round(d)[c] <= d[c]
         /\ \A m \in DOMAIN d : \A c \in Neighbours(m) :
              c \in DOMAIN Round(d) /\ Round(d)[c] <= d[m] + MoveCost(m, c)
         /\ \A c \in DOMAIN Round(d) :
              \/ c \in DOMAIN d /\ Round(d)[c] = d[c]
              \/ \E m \in DOMAIN d : c \in Neighbours(m) /\ Round(d)[c] = d[m] + MoveCost(m, c)
<1> DEFINE Ways(c) == { d[m] + MoveCost(m, c) : m \in Neighbours(c) \cap DOMAIN d }
           nearer == { c \in FreeCells : Ways(c) # {} /\ (c \notin DOMAIN d \/ Min(Ways(c)) < d[c]) }
           f == [c \in nearer |-> Min(Ways(c))]
           r == Round(d)
<1>1. DOMAIN d \subseteq FreeCells /\ \A c \in DOMAIN d : d[c] \in Nat
  BY DEF Distances
<1>2. \A m, c : MoveCost(m, c) \in Nat
  BY ObstacleAssumption DEF MoveCost
<1>3. \A c : Ways(c) \in SUBSET Nat
  BY <1>1, <1>2
<1>4. ASSUME NEW c \in FreeCells, Ways(c) # {}
      PROVE  Min(Ways(c)) \in Ways(c) /\ \A w \in Ways(c) : Min(Ways(c)) <= w
  <2> DEFINE W == Ways(c)
  <2>1. W \in SUBSET Nat /\ W # {}
    BY <1>3, <1>4
  <2> HIDE DEF W
  <2>2. PICK n \in W : \A m \in W : n <= m
    BY <2>1, LeastNatural
  <2>3. W \in SUBSET Int
    BY <2>1
  <2>4. Min(W) = n
    BY <2>2, <2>3, MinIs
  <2> QED BY <2>2, <2>4 DEF W
<1>5. DOMAIN f = nearer /\ \A c \in nearer : f[c] = Min(Ways(c))
  OBVIOUS
<1>6. r = Over(f, d)
  BY Zenon DEF Round
<1> HIDE DEF f, r
<1>7. /\ DOMAIN r = nearer \cup DOMAIN d
      /\ \A c \in nearer : r[c] = Min(Ways(c))
      /\ \A c \in DOMAIN d \ nearer : r[c] = d[c]
  <2>1. /\ DOMAIN r = DOMAIN f \cup DOMAIN d
        /\ \A c \in DOMAIN f : r[c] = f[c]
        /\ \A c \in DOMAIN d \ DOMAIN f : r[c] = d[c]
    BY <1>6, Zenon DEF Over
  <2> QED BY <1>5, <2>1
<1>8. ASSUME NEW m \in DOMAIN d, NEW c \in Neighbours(m) PROVE c \in FreeCells /\ d[m] + MoveCost(m, c) \in Ways(c)
  <2>1. m \in FreeCells /\ c \in FreeCells
    BY <1>1 DEF Neighbours
  <2>2. m \in Neighbours(c)
    BY <1>8, <2>1, BothWays
  <2> QED BY <2>1, <2>2
<1>9. ASSUME NEW c \in FreeCells, NEW w \in Ways(c)
      PROVE  \E m \in DOMAIN d : c \in Neighbours(m) /\ w = d[m] + MoveCost(m, c)
  <2>1. PICK m \in Neighbours(c) \cap DOMAIN d : w = d[m] + MoveCost(m, c)
    OBVIOUS
  <2>2. c \in Neighbours(m)
    BY <1>1, <2>1, BothWays
  <2> QED BY <2>1, <2>2
<1>10. \A c \in nearer : c \in FreeCells /\ Ways(c) # {} /\ (c \notin DOMAIN d \/ Min(Ways(c)) < d[c])
  OBVIOUS
<1>11. \A c \in FreeCells \ nearer : Ways(c) = {} \/ (c \in DOMAIN d /\ ~(Min(Ways(c)) < d[c]))
  OBVIOUS
<1> HIDE DEF nearer, Ways
<1>12. ASSUME NEW c \in DOMAIN r PROVE c \in FreeCells /\ r[c] \in Nat
  <2>1. CASE c \in nearer
    <3>1. r[c] \in Ways(c)
      BY <1>4, <1>7, <1>10, <2>1
    <3> QED BY <1>3, <1>10, <2>1, <3>1
  <2>2. CASE c \notin nearer
    BY <1>1, <1>7, <2>2
  <2> QED BY <2>1, <2>2
<1>13. ASSUME NEW c \in DOMAIN d PROVE c \in DOMAIN r /\ r[c] <= d[c]
  <2>1. CASE c \in nearer
    <3>1. r[c] < d[c] /\ c \in DOMAIN r
      BY <1>7, <1>10, <2>1
    <3>2. r[c] \in Nat /\ d[c] \in Nat
      BY <1>1, <1>12, <3>1
    <3> QED BY <3>1, <3>2
  <2>2. CASE c \notin nearer
    BY <1>1, <1>7, <2>2
  <2> QED BY <2>1, <2>2
<1>14. ASSUME NEW m \in DOMAIN d, NEW c \in Neighbours(m)
       PROVE  c \in DOMAIN r /\ r[c] <= d[m] + MoveCost(m, c)
  <2> DEFINE w == d[m] + MoveCost(m, c)
  <2>1. c \in FreeCells /\ w \in Ways(c)
    BY <1>8
  <2>2. w \in Nat
    BY <1>3, <2>1
  <2> HIDE DEF w
  <2>3. Min(Ways(c)) <= w /\ Min(Ways(c)) \in Nat
    BY <1>3, <1>4, <2>1
  <2>4. CASE c \in nearer
    BY <1>7, <2>3, <2>4 DEF w
  <2>5. CASE c \notin nearer
    <3>1. c \in DOMAIN d /\ ~(Min(Ways(c)) < d[c])
      BY <1>11, <2>1, <2>5
    <3>2. r[c] = d[c] /\ c \in DOMAIN r /\ d[c] \in Nat
      BY <1>1, <1>7, <2>5, <3>1
    <3> QED BY <2>2, <2>3, <3>1, <3>2 DEF w
  <2> QED BY <2>4, <2>5
<1>15. ASSUME NEW c \in DOMAIN r
       PROVE  \/ c \in DOMAIN d /\ r[c] = d[c]
              \/ \E m \in DOMAIN d : c \in Neighbours(m) /\ r[c] = d[m] + MoveCost(m, c)
  <2>1. CASE c \in nearer
    <3>1. c \in FreeCells /\ r[c] \in Ways(c)
      BY <1>4, <1>7, <1>10, <2>1
    <3> QED BY <1>9, <3>1
  <2>2. CASE c \notin nearer
    BY <1>7, <2>2
  <2> QED BY <2>1, <2>2
<1> QED BY <1>12, <1>13, <1>14, <1>15 DEF Distances, r

LEMMA RoundsAre ==
  ASSUME NEW start \in FreeCells, NEW after,
         after[0] = [c \in {start} |-> 0],
         \A k \in Nat : k + 1 <= Cardinality(FreeCells) => after[k + 1] = Round(after[k])
  PROVE  \A k \in 0 .. Cardinality(FreeCells) :
           /\ Distances(after[k])
           /\ start \in DOMAIN after[k] /\ after[k][start] <= 0
<1> DEFINE N == Cardinality(FreeCells)
           Q == { k \in Nat : k <= N => /\ Distances(after[k])
                                        /\ start \in DOMAIN after[k] /\ after[k][start] <= 0 }
<1>1. N \in Nat
  BY CellsFinite, FS_CardinalityType
<1> HIDE DEF N
<1>2. 0 \in Q
  <2> DEFINE first == [c \in {start} |-> 0]
  <2>1. Distances(first) /\ start \in DOMAIN first /\ first[start] <= 0
    BY DEF Distances
  <2> QED BY <2>1
<1>3. ASSUME NEW k \in Nat, k \in Q PROVE k + 1 \in Q
  <2>1. SUFFICES ASSUME k + 1 <= N
                 PROVE  /\ Distances(after[k + 1])
                        /\ start \in DOMAIN after[k + 1] /\ after[k + 1][start] <= 0
    OBVIOUS
  <2> DEFINE d == after[k]
             r == after[k + 1]
  <2>2. Distances(d) /\ start \in DOMAIN d /\ d[start] <= 0
    BY <1>1, <1>3, <2>1
  <2>3. r = Round(d)
    BY <2>1 DEF N
  <2> HIDE DEF d, r
  <2>4. Distances(r) /\ start \in DOMAIN r /\ r[start] <= d[start]
    BY <2>2, <2>3, RoundIs
  <2>5. r[start] \in Nat /\ d[start] \in Nat
    BY <2>2, <2>4 DEF Distances
  <2>6. r[start] <= 0
    BY <2>2, <2>4, <2>5
  <2> QED BY <2>4, <2>6 DEF r
<1> HIDE DEF Q
<1>4. Nat \subseteq Q
  BY <1>2, <1>3, SetInduction
<1>5. \A k \in 0 .. N : k \in Q /\ k <= N
  BY <1>1, <1>4
<1> QED BY <1>5 DEF Q, N

(* A distance x to a cell is no less than the search has it at, or the     *)
(* goal cannot be got to for less by way of the cell.                      *)
NoNearer(search, goal, c, x) ==
  \/ c \in DOMAIN search.g /\ search.g[c] <= x /\ Relaxed(search, c)
  \/ search.found /\ search.g[goal] <= x + Heuristic(c, goal)

LEMMA NoNearerNext ==
  ASSUME NEW search, NEW start, NEW goal \in FreeCells, FrontInv(search, start, goal), Ended(search),
         NEW m \in FreeCells, NEW x \in Nat, NoNearer(search, goal, m, x), NEW c \in Neighbours(m)
  PROVE  NoNearer(search, goal, c, x + MoveCost(m, c)) /\ x + MoveCost(m, c) \in Nat
<1>1. /\ \A b \in DOMAIN search.g : search.g[b] \in Nat
      /\ search.found => goal \in DOMAIN search.g
  BY DEF FrontInv, SearchInv
<1>2. \A b \in DOMAIN search.g :
        Relaxed(search, b) \/ (search.found /\ search.g[goal] <= Estimate(search, b, goal))
  BY DEF FrontInv, Front, Ended, Queued
<1>3. /\ Heuristic(m, goal) <= MoveCost(m, c) + Heuristic(c, goal)
      /\ Heuristic(m, goal) \in Nat /\ Heuristic(c, goal) \in Nat /\ MoveCost(m, c) \in Nat
  BY HeuristicStep
<1> DEFINE y == x + MoveCost(m, c)
<1>4. y \in Nat
  BY <1>3
<1>5. CASE m \in DOMAIN search.g /\ search.g[m] <= x /\ Relaxed(search, m)
  <2>1. c \in DOMAIN search.g /\ search.g[c] <= search.g[m] + MoveCost(m, c)
    BY <1>5 DEF Relaxed
  <2>2. search.g[c] \in Nat /\ search.g[m] \in Nat
    BY <1>1, <1>5, <2>1
  <2>3. search.g[c] <= y
    BY <1>3, <1>5, <2>1, <2>2
  <2> HIDE DEF y
  <2>4. CASE Relaxed(search, c)
    BY <1>4, <2>1, <2>3, <2>4 DEF NoNearer, y
  <2>5. CASE search.found /\ search.g[goal] <= Estimate(search, c, goal)
    <3>1. search.g[goal] \in Nat
      BY <1>1, <2>5
    <3>2. search.g[goal] <= y + Heuristic(c, goal)
      BY <1>3, <1>4, <2>2, <2>3, <2>5, <3>1 DEF Estimate
    <3> QED BY <1>4, <2>5, <3>2 DEF NoNearer, y
  <2> QED BY <1>2, <2>1, <2>4, <2>5
<1>6. CASE search.found /\ search.g[goal] <= x + Heuristic(m, goal)
  <2>1. search.g[goal] \in Nat
    BY <1>1, <1>6
  <2>2. search.g[goal] <= y + Heuristic(c, goal)
    BY <1>3, <1>6, <2>1
  <2> QED BY <1>4, <1>6, <2>2 DEF NoNearer
<1> QED BY <1>5, <1>6 DEF NoNearer

LEMMA NoNearerAtFirst ==
  ASSUME NEW search, NEW start, NEW goal \in FreeCells, FrontInv(search, start, goal), Ended(search)
  PROVE  NoNearer(search, goal, start, 0)
<1>1. /\ start \in DOMAIN search.g /\ search.g[start] = 0
      /\ Relaxed(search, start) \/ (search.found /\ search.g[goal] <= Estimate(search, start, goal))
  BY DEF FrontInv, SearchInv, Front, Ended, Queued
<1> QED BY <1>1 DEF NoNearer, Estimate

LEMMA NoNearerAtGoal ==
  ASSUME NEW search, NEW start, NEW goal \in FreeCells, FrontInv(search, start, goal), Ended(search),
         NEW x \in Nat, NoNearer(search, goal, goal, x)
  PROVE  search.found /\ search.g[goal] <= x
<1>1. ~search.found => \A c \in DOMAIN search.g : c # goal
  BY DEF FrontInv, Front, Ended, Queued
<1>2. CASE goal \in DOMAIN search.g /\ search.g[goal] <= x
  BY <1>1, <1>2
<1>3. CASE search.found /\ search.g[goal] <= x + Heuristic(goal, goal)
  <2>1. Heuristic(goal, goal) = 0
    BY NothingToGo
  <2> QED BY <1>3, <2>1
<1> QED BY <1>2, <1>3 DEF NoNearer

LEMMA SearchIsLow ==
  ASSUME NEW search, NEW start \in FreeCells, NEW goal \in FreeCells,
         FrontInv(search, start, goal), Ended(search)
  PROVE  /\ Distances(Shortest(start))
         /\ goal \in DOMAIN Shortest(start) =>
              search.found /\ search.g[goal] <= Shortest(start)[goal]
<1> DEFINE N == Cardinality(FreeCells)
<1>1. N \in Nat
  BY CellsFinite, FS_CardinalityType
<1>2. PICK after : /\ Shortest(start) = after[N]
                   /\ after[0] = [c \in {start} |-> 0]
                   /\ \A k \in Nat : k + 1 <= N => after[k + 1] = Round(after[k])
  BY ShortestRounds
<1>3. \A k \in 0 .. N : Distances(after[k])
  BY <1>2, RoundsAre
<1> HIDE DEF N
<1> DEFINE Low(d) == \A c \in DOMAIN d : NoNearer(search, goal, c, d[c])
           Q == { k \in Nat : k <= N => Low(after[k]) }
<1>5. 0 \in Q
  <2> DEFINE first == [c \in {start} |-> 0]
  <2>1. \A c \in DOMAIN first : c = start /\ first[c] = 0
    OBVIOUS
  <2> HIDE DEF first
  <2>2. Low(first)
    BY <2>1, NoNearerAtFirst
  <2> QED BY <1>2, <2>2 DEF first
<1>6. ASSUME NEW k \in Nat, k \in Q PROVE k + 1 \in Q
  <2>1. SUFFICES ASSUME k + 1 <= N PROVE Low(after[k + 1])
    OBVIOUS
  <2> DEFINE d == after[k]
             r == after[k + 1]
  <2>2. Low(d) /\ Distances(d) /\ r = Round(d)
    <3>1. k \in 0 .. N /\ k <= N
      BY <1>1, <2>1
    <3> QED BY <1>2, <1>3, <1>6, <2>1, <3>1
  <2> HIDE DEF d, r
  <2>3. \A c \in DOMAIN r :
           \/ c \in DOMAIN d /\ r[c] = d[c]
           \/ \E m \in DOMAIN d : c \in Neighbours(m) /\ r[c] = d[m] + MoveCost(m, c)
    BY <2>2, RoundIs
  <2>4. ASSUME NEW m \in DOMAIN d, NEW c \in Neighbours(m) PROVE NoNearer(search, goal, c, d[m] + MoveCost(m, c))
    <3>1. m \in FreeCells /\ d[m] \in Nat /\ NoNearer(search, goal, m, d[m])
      BY <2>2 DEF Distances
    <3> QED BY <3>1, NoNearerNext
  <2>5. Low(r)
    BY <2>2, <2>3, <2>4
  <2> QED BY <2>5 DEF r
<1> HIDE DEF Q
<1>7. N \in Q
  BY <1>1, <1>5, <1>6, SetInduction
<1> DEFINE d == Shortest(start)
<1>8. Low(d) /\ Distances(d)
  BY <1>1, <1>2, <1>3, <1>7 DEF Q
<1> HIDE DEF d
<1>9. ASSUME goal \in DOMAIN d PROVE search.found /\ search.g[goal] <= d[goal]
  <2>1. d[goal] \in Nat /\ NoNearer(search, goal, goal, d[goal])
    BY <1>8, <1>9 DEF Distances
  <2> QED BY <2>1, NoNearerAtGoal
<1> QED BY <1>8, <1>9 DEF d

(* After as many rounds as there are cells nearer to the start than c is,  *)
(* the reference is as near to c as the search.                            *)
Before(search, c) == { b \in DOMAIN search.g : search.g[b] < search.g[c] }

LEMMA SearchIsHigh ==
  ASSUME NEW search, NEW start \in FreeCells, NEW goal \in FreeCells, FrontInv(search, start, goal)
  PROVE  \A c \in DOMAIN search.g :
           c \in DOMAIN Shortest(start) /\ Shortest(start)[c] <= search.g[c]
<1> DEFINE N == Cardinality(FreeCells)
           D == DOMAIN search.g
           K(c) == Cardinality(Before(search, c))
<1>1. N \in Nat
  BY CellsFinite, FS_CardinalityType
<1>2. PICK after : /\ Shortest(start) = after[N]
                   /\ after[0] = [c \in {start} |-> 0]
                   /\ \A k \in Nat : k + 1 <= N => after[k + 1] = Round(after[k])
  BY ShortestRounds
<1>3. \A k \in 0 .. N : Distances(after[k]) /\ start \in DOMAIN after[k] /\ after[k][start] <= 0
  BY <1>2, RoundsAre
<1>4. /\ D \in SUBSET FreeCells /\ start \in D /\ search.g[start] = 0
      /\ \A c \in D : search.g[c] \in Nat
      /\ \A c \in D \ {start} :
           LET b == search.from[c]
           IN b \in D /\ c \in Neighbours(b) /\ search.g[b] < search.g[c]
              /\ search.g[b] + MoveCost(b, c) <= search.g[c]
  BY DEF FrontInv, Front, SearchInv, Linked
<1> HIDE DEF N, D
<1>5. ASSUME NEW c \in D
      PROVE  IsFiniteSet(Before(search, c)) /\ K(c) \in Nat /\ K(c) <= N
  <2>1. Before(search, c) \in SUBSET FreeCells
    BY <1>4 DEF Before, D
  <2> QED BY <2>1, CellsFinite, FS_Subset, FS_CardinalityType DEF N
<1> DEFINE Q == { k \in Nat : k <= N => \A c \in D : K(c) <= k =>
                                c \in DOMAIN after[k] /\ after[k][c] <= search.g[c] }
<1>6. ASSUME NEW c \in D \ {start}
      PROVE  LET b == search.from[c] IN K(b) + 1 <= K(c)
  <2> DEFINE b == search.from[c]
             S == Before(search, c)
             T == Before(search, b)
  <2>1. b \in D /\ search.g[b] < search.g[c]
    BY <1>4
  <2> HIDE DEF b
  <2>2. T \in SUBSET (S \ {b}) /\ b \in S
    <3>1. ASSUME NEW e \in T PROVE e \in S \ {b}
      <4>1. e \in D /\ search.g[e] < search.g[b]
        BY DEF Before, D
      <4>2. search.g[e] \in Nat /\ search.g[b] \in Nat /\ search.g[c] \in Nat
        BY <1>4, <2>1, <4>1
      <4>3. search.g[e] < search.g[c] /\ e # b
        BY <2>1, <4>1, <4>2
      <4> QED BY <4>1, <4>3 DEF Before, D
    <3> QED BY <2>1, <3>1 DEF Before, D
  <2>3. IsFiniteSet(S) /\ Cardinality(S) \in Nat /\ IsFiniteSet(T) /\ Cardinality(T) \in Nat
    BY <1>5, <2>1
  <2> HIDE DEF S, T
  <2>4. IsFiniteSet(S \ {b}) /\ Cardinality(S \ {b}) = Cardinality(S) - 1
    BY <2>2, <2>3, FS_RemoveElement
  <2>5. Cardinality(T) <= Cardinality(S) - 1
    BY <2>2, <2>4, FS_Subset
  <2>6. Cardinality(T) + 1 <= Cardinality(S)
    BY <2>3, <2>5
  <2> QED BY <2>6 DEF S, T, b
<1>7. 0 \in Q
  <2>1. ASSUME NEW c \in D, K(c) <= 0 PROVE c = start
    <3>1. SUFFICES ASSUME c # start PROVE FALSE
      OBVIOUS
    <3>2. search.from[c] \in D /\ K(search.from[c]) + 1 <= K(c)
      BY <1>4, <1>6, <3>1
    <3>3. K(search.from[c]) \in Nat /\ K(c) \in Nat
      BY <1>5, <3>2
    <3> HIDE DEF K
    <3> QED BY <2>1, <3>2, <3>3
  <2> HIDE DEF K
  <2>2. start \in DOMAIN after[0] /\ after[0][start] <= search.g[start]
    BY <1>1, <1>3, <1>4
  <2> QED BY <2>1, <2>2
<1>8. ASSUME NEW k \in Nat, k \in Q PROVE k + 1 \in Q
  <2>1. SUFFICES ASSUME k + 1 <= N, NEW c \in D, K(c) <= k + 1
                 PROVE  c \in DOMAIN after[k + 1] /\ after[k + 1][c] <= search.g[c]
    OBVIOUS
  <2>2. CASE c = start
    BY <1>1, <1>3, <1>4, <2>1, <2>2
  <2>3. CASE c # start
    <3> DEFINE b == search.from[c]
               d == after[k]
    <3>1. b \in D /\ c \in Neighbours(b) /\ search.g[b] + MoveCost(b, c) <= search.g[c]
          /\ K(b) + 1 <= K(c)
      BY <1>4, <1>6, <2>3
    <3> HIDE DEF b
    <3>2. K(b) \in Nat /\ K(c) \in Nat
      BY <1>5, <3>1
    <3> HIDE DEF K
    <3>3. K(b) <= k /\ k <= N /\ k \in 0 .. N
      BY <1>1, <2>1, <3>1, <3>2
    <3>4. b \in DOMAIN d /\ d[b] <= search.g[b]
      BY <1>8, <3>1, <3>3
    <3>5. Distances(d) /\ after[k + 1] = Round(d)
      BY <1>2, <1>3, <2>1, <3>3
    <3> HIDE DEF d
    <3>6. c \in DOMAIN after[k + 1] /\ after[k + 1][c] <= d[b] + MoveCost(b, c)
      BY <3>1, <3>4, <3>5, RoundIs
    <3>7. d[b] \in Nat /\ search.g[b] \in Nat /\ search.g[c] \in Nat /\ MoveCost(b, c) \in Nat
      <4>1. d[b] \in Nat
        BY <3>4, <3>5 DEF Distances
      <4>2. search.g[b] \in Nat /\ search.g[c] \in Nat
        BY <1>4, <3>1
      <4>3. MoveCost(b, c) \in Nat
        BY ObstacleAssumption DEF MoveCost
      <4> QED BY <4>1, <4>2, <4>3
    <3>8. after[k + 1][c] \in Nat
      <4>1. k + 1 \in 0 .. N
        BY <1>1, <2>1
      <4> QED BY <1>3, <3>6, <4>1 DEF Distances
    <3>9. after[k + 1][c] <= search.g[c]
      BY <3>1, <3>4, <3>6, <3>7, <3>8
    <3> QED BY <3>6, <3>9
  <2> QED BY <2>2, <2>3
<1>9. Nat \subseteq Q
  <2> HIDE DEF Q
  <2> QED BY <1>7, <1>8, SetInduction
<1>10. ASSUME NEW c \in D
       PROVE  c \in DOMAIN Shortest(start) /\ Shortest(start)[c] <= search.g[c]
  <2>1. N \in Q /\ K(c) <= N
    BY <1>1, <1>5, <1>9
  <2> HIDE DEF K
  <2>2. c \in DOMAIN after[N] /\ after[N][c] <= search.g[c]
    BY <1>1, <2>1
  <2> QED BY <1>2, <2>2
<1> QED BY <1>10 DEF D

(* A search that ends has found a shortest way if there is any.            *)
LEMMA EndedIsGood ==
  ASSUME NEW start \in FreeCells, NEW goal \in FreeCells, Ended(AStar(start, goal))
  PROVE  LET search == AStar(start, goal)
             best == Shortest(start)
         IN /\ search.found = (goal \in DOMAIN best)
            /\ search.found => search.g[goal] = best[goal]
<1> DEFINE search == AStar(start, goal)
           best == Shortest(start)
<1>1. FrontInv(search, start, goal) /\ Ended(search)
  BY AStarFront
<1> HIDE DEF search
<1>2. Distances(best) /\ (goal \in DOMAIN best => search.found /\ search.g[goal] <= best[goal])
  BY <1>1, SearchIsLow
<1>3. \A c \in DOMAIN search.g : c \in DOMAIN best /\ best[c] <= search.g[c]
  BY <1>1, SearchIsHigh
<1> HIDE DEF best
<1>4. /\ search.found \in BOOLEAN
      /\ search.found => goal \in DOMAIN search.g
      /\ \A c \in DOMAIN search.g : search.g[c] \in Nat
  BY <1>1 DEF FrontInv, Front, SearchInv
<1>5. search.found = (goal \in DOMAIN best)
  BY <1>2, <1>3, <1>4
<1>6. ASSUME search.found PROVE search.g[goal] = best[goal]
  <2>1. goal \in DOMAIN search.g /\ goal \in DOMAIN best /\ search.g[goal] <= best[goal] /\ best[goal] <= search.g[goal]
    BY <1>2, <1>3, <1>4, <1>6
  <2>2. search.g[goal] \in Nat /\ best[goal] \in Nat
    BY <1>2, <1>4, <2>1 DEF Distances
  <2> QED BY <2>1, <2>2
<1> QED BY <1>5, <1>6 DEF search, best
-----------------------------------------------------------------------------
(* What the search finds                                                   *)

(* No way is shorter than the search says, and there is none if it has     *)
(* ended without the goal.                                                 *)
LEMMA NoWayIsShorter ==
  ASSUME NEW search, NEW start, NEW goal \in FreeCells, FrontInv(search, start, goal), Ended(search),
         NEW w, IsWay(w, start, goal), NEW n \in Nat, HasLength(w, n)
  PROVE  search.found /\ search.g[goal] <= n
<1> DEFINE L == Len(w)
<1>1. /\ w \in Seq(FreeCells) /\ L \in Nat /\ L # 0 /\ w[1] = start /\ w[L] = goal
      /\ \A i \in 1 .. L - 1 : w[i + 1] \in Neighbours(w[i])
      /\ \A i \in 1 .. L : w[i] \in FreeCells
  BY DEF IsWay
<1>2. PICK k \in [1 .. L -> Nat] :
        /\ k[1] = 0 /\ k[L] = n
        /\ \A i \in 1 .. L - 1 : k[i + 1] = k[i] + MoveCost(w[i], w[i + 1])
  BY DEF HasLength
<1> HIDE DEF L
<1> DEFINE Q == { i \in Nat : i + 1 <= L => NoNearer(search, goal, w[i + 1], k[i + 1]) }
<1>3. 0 \in Q
  BY <1>1, <1>2, NoNearerAtFirst
<1>4. ASSUME NEW i \in Nat, i \in Q PROVE i + 1 \in Q
  <2>1. SUFFICES ASSUME (i + 1) + 1 <= L PROVE NoNearer(search, goal, w[(i + 1) + 1], k[(i + 1) + 1])
    OBVIOUS
  <2>2. i + 1 \in 1 .. L - 1 /\ i + 1 \in 1 .. L /\ i + 1 <= L
    BY <1>1, <2>1
  <2>3. /\ NoNearer(search, goal, w[i + 1], k[i + 1])
        /\ w[i + 1] \in FreeCells /\ k[i + 1] \in Nat /\ w[(i + 1) + 1] \in Neighbours(w[i + 1])
        /\ k[(i + 1) + 1] = k[i + 1] + MoveCost(w[i + 1], w[(i + 1) + 1])
    BY <1>1, <1>2, <1>4, <2>2
  <2> QED BY <2>3, NoNearerNext
<1> HIDE DEF Q
<1>5. Nat \subseteq Q
  BY <1>3, <1>4, SetInduction
<1>6. L - 1 \in Nat /\ L - 1 \in Q /\ (L - 1) + 1 = L
  BY <1>1, <1>5
<1>7. NoNearer(search, goal, w[L], k[L])
  BY <1>6 DEF Q
<1> QED BY <1>1, <1>2, <1>7, NoNearerAtGoal

LEMMA WaysHaveLengths ==
  ASSUME NEW w, NEW start, NEW goal, IsWay(w, start, goal)
  PROVE  \E n \in Nat : HasLength(w, n)
<1> DEFINE L == Len(w)
           Adds(k, m) == k[1] = 0 /\ \A i \in 1 .. m - 1 : k[i + 1] = k[i] + MoveCost(w[i], w[i + 1])
           Q == { m \in Nat : m + 1 <= L => \E k \in [1 .. m + 1 -> Nat] : Adds(k, m + 1) }
<1>1. L \in Nat /\ L # 0
  BY DEF IsWay
<1> HIDE DEF L
<1>2. 0 \in Q
  <2> DEFINE k == [i \in 1 .. 1 |-> 0]
  <2>1. k \in [1 .. 0 + 1 -> Nat] /\ k[1] = 0 /\ 1 .. (0 + 1) - 1 = {}
    OBVIOUS
  <2> HIDE DEF k
  <2>2. \E k_1 \in [1 .. 0 + 1 -> Nat] : Adds(k_1, 0 + 1)
    BY <2>1
  <2> QED BY <2>2
<1>3. ASSUME NEW m \in Nat, m \in Q PROVE m + 1 \in Q
  <2> DEFINE Longer == \E k \in [1 .. (m + 1) + 1 -> Nat] : Adds(k, (m + 1) + 1)
  <2>1. SUFFICES ASSUME (m + 1) + 1 <= L PROVE Longer
    <3>1. m + 1 \in Nat
      OBVIOUS
    <3> HIDE DEF Adds
    <3> QED BY <2>1, <3>1, Zenon
  <2>2. m + 1 <= L
    BY <1>1, <2>1
  <2>3. PICK k \in [1 .. m + 1 -> Nat] : Adds(k, m + 1)
    BY <1>3, <2>2
  <2> DEFINE x == k[m + 1] + MoveCost(w[m + 1], w[(m + 1) + 1])
             j == [i \in 1 .. (m + 1) + 1 |-> IF i = (m + 1) + 1 THEN x ELSE k[i]]
  <2>4. MoveCost(w[m + 1], w[(m + 1) + 1]) \in Nat /\ k[m + 1] \in Nat
    BY ObstacleAssumption DEF MoveCost
  <2>5. x \in Nat
    BY <2>4
  <2> HIDE DEF x
  <2>6. /\ j \in [1 .. (m + 1) + 1 -> Nat] /\ j[(m + 1) + 1] = x
        /\ \A i \in 1 .. m + 1 : j[i] = k[i]
    BY <2>5
  <2> HIDE DEF j
  <2>7. ASSUME NEW i \in 1 .. ((m + 1) + 1) - 1 PROVE j[i + 1] = j[i] + MoveCost(w[i], w[i + 1])
    <3>1. CASE i = m + 1
      BY <2>6, <3>1 DEF x
    <3>2. CASE i # m + 1
      <4>1. i \in 1 .. (m + 1) - 1 /\ i \in 1 .. m + 1 /\ i + 1 \in 1 .. m + 1
        BY <3>2
      <4> QED BY <2>3, <2>6, <4>1
    <3> QED BY <3>1, <3>2
  <2>8. j[1] = 0
    <3>1. 1 \in 1 .. m + 1
      OBVIOUS
    <3> QED BY <2>3, <2>6, <3>1
  <2> QED BY <2>6, <2>7, <2>8
<1> HIDE DEF Q, Adds
<1>4. L - 1 \in Nat /\ L - 1 \in Q /\ (L - 1) + 1 = L
  <2>1. Nat \subseteq Q
    BY <1>2, <1>3, SetInduction
  <2> QED BY <1>1, <2>1
<1>5. PICK k \in [1 .. L -> Nat] : Adds(k, L)
  BY <1>4 DEF Q
<1>6. k[L] \in Nat
  BY <1>1
<1>7. HasLength(w, k[L])
  BY <1>5 DEF HasLength, Adds, L
<1> QED BY <1>6, <1>7

(* FindPath is right when its loop meets the goal, whatever the bound of   *)
(* its expansions: the cells it goes back through are a way from the start *)
(* to the goal, and no way through free cells is shorter.                  *)
THEOREM FoundIsShortest ==
  ASSUME NEW start \in FreeCells, NEW goal \in FreeCells, AStar(start, goal).found
  PROVE  LET way == WayTo(AStar(start, goal), start, goal)
         IN  /\ IsWay(way, start, goal)
             /\ \E n \in Nat : /\ HasLength(way, n)
                               /\ \A w : \A m \in Nat : IsWay(w, start, goal) /\ HasLength(w, m) => n <= m
<1> DEFINE search == AStar(start, goal)
           way == WayTo(search, start, goal)
<1>1. FrontInv(search, start, goal) /\ search.found /\ Ended(search)
  BY AStarFront DEF Ended
<1> HIDE DEF search
<1>2. PICK n \in Nat : IsWay(way, start, goal) /\ HasLength(way, n) /\ n <= search.g[goal]
  BY <1>1, WayLength
<1>3. search.g[goal] \in Nat
  BY <1>1 DEF FrontInv, SearchInv
<1>4. ASSUME NEW w, NEW m \in Nat, IsWay(w, start, goal), HasLength(w, m) PROVE n <= m
  <2>1. search.g[goal] <= m
    BY <1>1, <1>4, NoWayIsShorter
  <2> QED BY <1>2, <1>3, <2>1
<1> QED BY <1>2, <1>4 DEF search

(* And when its loop has emptied the queue without meeting the goal it has *)
(* missed no way: where FindPath returns no path for lack of entries, and  *)
(* not of expansions, there is none.                                       *)
THEOREM NoWayMissed ==
  ASSUME NEW start \in FreeCells, NEW goal \in FreeCells,
         AStar(start, goal).open = {}, ~AStar(start, goal).found
  PROVE  ~\E w : IsWay(w, start, goal)
<1> DEFINE search == AStar(start, goal)
<1>1. FrontInv(search, start, goal) /\ ~search.found /\ Ended(search)
  BY AStarFront DEF Ended
<1> HIDE DEF search
<1> SUFFICES ASSUME NEW w, IsWay(w, start, goal) PROVE FALSE
  OBVIOUS
<1>2. PICK n \in Nat : HasLength(w, n)
  BY WaysHaveLengths
<1> QED BY <1>1, <1>2, NoWayIsShorter

(* kMaxAStarExpansions is enough for a level with at most an eighth as     *)
(* many free cells: the loop takes every cell once at most at what it      *)
(* costs, which queues eight others at most, and every other turn of it    *)
(* takes an outdated entry away.                                           *)
THEOREM EnoughExpansions == 8 * Cardinality(FreeCells) < MaxExpansions => SearchesEnd
BY AStarFront DEF SearchesEnd

LEMMA SearchesAre ==
  ASSUME NEW start \in FreeCells, NEW goal \in FreeCells
  PROVE  Searches[start, goal] = AStar(start, goal)
<1>1. <<start, goal>> \in FreeCells \X FreeCells
  OBVIOUS
<1> QED BY <1>1 DEF Searches

LEMMA AllSearchesGood ==
  ASSUME SearchesEnd, NEW start \in FreeCells, NEW goal \in FreeCells
  PROVE  <<start, goal>> \in GoodSearches
<1> DEFINE Good(c, best) == { d \in FreeCells : LET search == Searches[c, d]
                                                IN /\ search.found = (d \in DOMAIN best)
                                                   /\ search.found => search.g[d] = best[d] }
<1>1. Searches[start, goal] = AStar(start, goal) /\ Ended(AStar(start, goal))
  BY SearchesAre DEF SearchesEnd
<1>2. goal \in Good(start, Shortest(start))
  BY <1>1, EndedIsGood
<1>3. GoodSearches = UNION { {c} \X Good(c, Shortest(c)) : c \in FreeCells }
  BY Zenon DEF GoodSearches
<1> HIDE DEF Good
<1>4. <<start, goal>> \in {start} \X Good(start, Shortest(start))
  BY <1>2
<1> QED BY <1>3, <1>4
-----------------------------------------------------------------------------
(* Smoothing                                                               *)

(* Every leg has room for an enemy. *)
ClearLegs(path) == \A i \in 1 .. Len(path) - 1 : ~SegmentBlocked(path[i], path[i + 1], AgentRadius)

LEMMA FarthestIs ==
  ASSUME NEW path \in Seq(Points), ClearLegs(path), NEW i \in 1 .. Len(path) - 1
  PROVE  /\ Farthest(path, i) \in i + 1 .. Len(path)
         /\ ~SegmentBlocked(path[i], path[Farthest(path, i)], AgentRadius)
<1> DEFINE far == { j \in i + 2 .. Len(path) : ~SegmentBlocked(path[i], path[j], AgentRadius) }
           S == {i + 1} \cup far
<1>1. Len(path) \in Nat /\ i \in Nat /\ S \in SUBSET (i + 1 .. Len(path)) /\ i + 1 \in S
  OBVIOUS
<1>2. \A j \in S : ~SegmentBlocked(path[i], path[j], AgentRadius)
  BY DEF ClearLegs
<1>3. Farthest(path, i) = Max(S)
  BY DEF Farthest
<1> HIDE DEF S
<1> DEFINE T == { Len(path) - j : j \in S }
<1>4. T \in SUBSET Nat /\ T # {}
  <2>1. ASSUME NEW j \in S PROVE Len(path) - j \in Nat
    <3>1. j \in i + 1 .. Len(path)
      BY <1>1
    <3> QED BY <1>1, <3>1
  <2> QED BY <1>1, <2>1
<1>5. PICK m \in T : \A n \in T : m <= n
  <2> HIDE DEF T
  <2> QED BY <1>4, LeastNatural
<1>6. PICK j \in S : m = Len(path) - j
  BY <1>5
<1>7. \A k \in S : k <= j
  <2>1. \A k \in S : m <= Len(path) - k
    BY <1>5
  <2> QED BY <1>1, <1>6, <2>1
<1>8. Max(S) = j
  <2>1. S \in SUBSET Int
    BY <1>1
  <2> QED BY <1>7, <2>1, MaxIs
<1> QED BY <1>1, <1>2, <1>3, <1>8

(* The recursion of SmoothPath goes to later points of the path. *)
Late(path, n) == { i \in 1 .. Len(path) : Len(path) - i <= n }
Corner(f, path, i) == IF i = Len(path) THEN <<path[i]>> ELSE <<path[i]>> \o f[Farthest(path, i)]
HasCorners(D, path) == \E f : f = [i \in D |-> Corner(f, path, i)]

LEMMA CornersUpTo ==
  ASSUME NEW path \in Seq(Points), ClearLegs(path), NEW n \in Nat
  PROVE  HasCorners(Late(path, n), path)
<1> DEFINE Q == { m \in Nat : HasCorners(Late(path, m), path) }
<1>0. Len(path) \in Nat
  OBVIOUS
<1>1. 0 \in Q
  <2> DEFINE f == [i \in Late(path, 0) |-> <<path[i]>>]
  <2>1. \A i \in Late(path, 0) : Corner(f, path, i) = <<path[i]>>
    <3>1. \A i \in Late(path, 0) : i = Len(path)
      BY <1>0 DEF Late
    <3> QED BY <3>1 DEF Corner
  <2>2. f = [i \in Late(path, 0) |-> Corner(f, path, i)]
    BY <2>1, Zenon
  <2> QED BY <2>2, Zenon DEF HasCorners
<1>2. ASSUME NEW m \in Nat, m \in Q PROVE m + 1 \in Q
  <2>1. PICK f : f = [i \in Late(path, m) |-> Corner(f, path, i)]
    BY <1>2 DEF HasCorners
  <2> DEFINE g == [i \in Late(path, m + 1) |-> Corner(f, path, i)]
  <2>2. \A i \in Late(path, m) : f[i] = g[i]
    <3>1. \A i \in Late(path, m) : f[i] = Corner(f, path, i)
      BY <2>1, Zenon
    <3>2. \A i \in Late(path, m) : i \in Late(path, m + 1)
      BY <1>0 DEF Late
    <3> QED BY <3>1, <3>2, Zenon
  <2>3. ASSUME NEW i \in Late(path, m + 1) PROVE Corner(f, path, i) = Corner(g, path, i)
    <3> HIDE DEF g
    <3>1. i # Len(path) => Farthest(path, i) \in Late(path, m)
      <4>1. i # Len(path) => i \in 1 .. Len(path) - 1
        BY <1>0 DEF Late
      <4>2. i # Len(path) => Farthest(path, i) \in i + 1 .. Len(path)
        BY <4>1, FarthestIs
      <4> QED BY <1>0, <4>2 DEF Late
    <3>2. i # Len(path) => f[Farthest(path, i)] = g[Farthest(path, i)]
      BY <2>2, <3>1
    <3> QED BY <3>2, Zenon DEF Corner
  <2>4. g = [i \in Late(path, m + 1) |-> Corner(g, path, i)]
    <3> DEFINE h == [i \in Late(path, m + 1) |-> Corner(g, path, i)]
    <3>1. g = h
      BY <2>3, Zenon
    <3> QED BY <3>1
  <2> HIDE DEF g
  <2>5. HasCorners(Late(path, m + 1), path)
    BY <2>4, Zenon DEF HasCorners
  <2> QED BY <2>5
<1> HIDE DEF Q
<1>3. n \in Q
  BY <1>1, <1>2, SetInduction
<1> QED BY <1>3 DEF Q

(* What is left of a path: it begins at a point of it, ends where it ends. *)
IsRest(r, path, i) ==
  /\ r \in Seq(Points) /\ r # <<>> /\ r[1] = path[i] /\ r[Len(r)] = path[Len(path)]
  /\ ClearLegs(r)

LEMMA LongerRest ==
  ASSUME NEW path \in Seq(Points), NEW i \in 1 .. Len(path), NEW j, NEW r, IsRest(r, path, j),
         ~SegmentBlocked(path[i], path[j], AgentRadius)
  PROVE  IsRest(<<path[i]>> \o r, path, i)
<1> DEFINE s == <<path[i]>> \o r
<1>1. r \in Seq(Points) /\ Len(r) \in Nat /\ Len(r) # 0 /\ r[1] = path[j] /\ r[Len(r)] = path[Len(path)]
      /\ path[i] \in Points
  BY DEF IsRest
<1>2. s \in Seq(Points) /\ Len(s) = Len(r) + 1 /\ s[1] = path[i]
      /\ \A k \in 1 .. Len(r) : s[k + 1] = r[k]
  BY <1>1
<1> HIDE DEF s
<1>3. ASSUME NEW k \in 1 .. Len(s) - 1 PROVE ~SegmentBlocked(s[k], s[k + 1], AgentRadius)
  <2>1. CASE k = 1
    <3>1. s[k] = path[i] /\ s[k + 1] = path[j]
      BY <1>1, <1>2, <2>1
    <3> QED BY <3>1
  <2>2. CASE k # 1
    <3>1. k - 1 \in 1 .. Len(r) - 1 /\ k \in 1 .. Len(r)
      BY <1>1, <1>2, <2>2
    <3> DEFINE l == k - 1
    <3>2. l \in 1 .. Len(r) - 1 /\ l \in 1 .. Len(r) /\ l + 1 \in 1 .. Len(r) /\ k = l + 1
      BY <1>1, <3>1
    <3> HIDE DEF l
    <3>3. s[l + 1] = r[l] /\ s[(l + 1) + 1] = r[l + 1]
      BY <1>2, <3>2
    <3>4. ~SegmentBlocked(r[l], r[l + 1], AgentRadius)
      BY <3>2 DEF IsRest, ClearLegs
    <3> QED BY <3>2, <3>3, <3>4
  <2> QED BY <2>1, <2>2
<1>4. s # <<>> /\ s[Len(s)] = path[Len(path)]
  <2>1. Len(s) # 0 /\ Len(r) \in 1 .. Len(r)
    BY <1>1, <1>2
  <2>2. s[Len(r) + 1] = r[Len(r)]
    BY <1>2, <2>1
  <2>3. s # <<>>
    BY <2>1
  <2> QED BY <1>1, <1>2, <2>2, <2>3
<1> QED BY <1>2, <1>3, <1>4 DEF IsRest, ClearLegs, s

LEMMA SmoothIs ==
  ASSUME NEW path \in Seq(Points), path # <<>>, ClearLegs(path)
  PROVE  IsRest(SmoothPath(path), path, 1)
<1> DEFINE F(f) == [i \in 1 .. Len(path) |-> Corner(f, path, i)]
           from == CHOOSE f : f = F(f)
<1>0. Len(path) \in Nat /\ Len(path) # 0
  OBVIOUS
<1>1. \E f : f = F(f)
  <2>1. HasCorners(Late(path, Len(path)), path)
    BY <1>0, CornersUpTo
  <2>2. Late(path, Len(path)) = 1 .. Len(path)
    BY <1>0 DEF Late
  <2>3. HasCorners(1 .. Len(path), path)
    BY <2>1, <2>2
  <2> QED BY <2>3, Zenon DEF HasCorners
<1>2. from = F(from)
  BY <1>1, Zenon
<1>3. SmoothPath(path) = from[1]
  BY Zenon DEF SmoothPath, Corner
<1> HIDE DEF from
<1>4. \A i \in 1 .. Len(path) : from[i] = Corner(from, path, i)
  BY <1>2, Zenon
<1> DEFINE Q == { n \in Nat : \A i \in Late(path, n) : IsRest(from[i], path, i) }
<1>5. ASSUME NEW i \in 1 .. Len(path), i = Len(path) PROVE IsRest(from[i], path, i)
  <2>1. path[i] \in Points
    OBVIOUS
  <2>2. from[i] = <<path[i]>>
    BY <1>4, <1>5 DEF Corner
  <2> HIDE DEF Q
  <2> DEFINE r == from[i]
  <2>3. r \in Seq(Points) /\ r # <<>> /\ Len(r) = 1 /\ r[1] = path[i]
    BY <2>1, <2>2
  <2> HIDE DEF r
  <2>4. IsRest(r, path, i)
    BY <1>5, <2>3 DEF IsRest, ClearLegs
  <2> QED BY <2>4 DEF r
<1>6. 0 \in Q
  <2>1. \A i \in Late(path, 0) : i \in 1 .. Len(path) /\ i = Len(path)
    BY <1>0 DEF Late
  <2> QED BY <1>5, <2>1
<1>7. ASSUME NEW n \in Nat, n \in Q PROVE n + 1 \in Q
  <2>1. ASSUME NEW i \in Late(path, n + 1), i # Len(path) PROVE IsRest(from[i], path, i)
    <3> DEFINE j == Farthest(path, i)
    <3>1. i \in 1 .. Len(path) /\ i \in 1 .. Len(path) - 1 /\ Len(path) - i <= n + 1
      BY <1>0, <2>1 DEF Late
    <3>2. j \in i + 1 .. Len(path) /\ ~SegmentBlocked(path[i], path[j], AgentRadius)
      BY <3>1, FarthestIs
    <3>3. from[i] = <<path[i]>> \o from[j]
      BY <1>4, <2>1, <3>1 DEF Corner
    <3> HIDE DEF j
    <3>4. j \in Late(path, n)
      BY <1>0, <3>1, <3>2 DEF Late
    <3>5. IsRest(from[j], path, j)
      BY <1>7, <3>4
    <3> QED BY <3>1, <3>2, <3>3, <3>5, LongerRest
  <2>2. \A i \in Late(path, n + 1) : IsRest(from[i], path, i)
    BY <1>5, <2>1 DEF Late
  <2> QED BY <2>2
<1> HIDE DEF Q
<1>8. Len(path) \in Q
  BY <1>0, <1>6, <1>7, SetInduction
<1>9. 1 \in Late(path, Len(path))
  BY <1>0 DEF Late
<1> QED BY <1>3, <1>8, <1>9 DEF Q
-----------------------------------------------------------------------------
(* A path to a place, if there is one. *)
IsPath(path, goal) ==
  /\ path \in Seq(Points)
  /\ path # NoPath => path[Len(path)] = goal /\ ClearLegs(path)

LEMMA AlongCellsIs ==
  ASSUME NEW p \in Points, NEW q \in Points, CellOf(p) # CellOf(q), NEW cells, IsWay(cells, CellOf(p), CellOf(q))
  PROVE  IsPath(AlongCells(cells, p, q), q)
<1> DEFINE path == [i \in DOMAIN cells |-> IF i = 1 THEN p ELSE IF i = Len(cells) THEN q ELSE Centre(cells[i])]
<1>1. /\ cells \in Seq(FreeCells) /\ Len(cells) \in Nat /\ Len(cells) # 0 /\ DOMAIN cells = 1 .. Len(cells)
      /\ cells[1] = CellOf(p) /\ cells[Len(cells)] = CellOf(q)
      /\ \A i \in 1 .. Len(cells) - 1 : cells[i + 1] \in Neighbours(cells[i])
  BY DEF IsWay
<1>2. Len(cells) # 1
  BY <1>1
<1>3. ASSUME NEW i \in 1 .. Len(cells) PROVE path[i] \in Points /\ CellOf(path[i]) = cells[i]
  <2>1. cells[i] \in FreeCells /\ cells[i] \in Cells
    BY <1>1 DEF FreeCells
  <2>2. Centre(cells[i]) \in Points /\ CellOf(Centre(cells[i])) = cells[i]
    BY <2>1, CentreIs
  <2> QED BY <1>1, <2>2
<1>4. DOMAIN path = 1 .. Len(cells) /\ path[1] = p /\ path[Len(cells)] = q
  BY <1>1, <1>2
<1> HIDE DEF path
<1>5. path \in Seq(Points) /\ Len(path) = Len(cells)
  <2>1. path \in [1 .. Len(cells) -> Points]
    <3>1. path = [i \in 1 .. Len(cells) |-> path[i]]
      BY <1>1 DEF path
    <3> QED BY <1>3, <3>1
  <2> QED BY <1>1, <2>1
<1>6. ClearLegs(path)
  <2>1. ASSUME NEW i \in 1 .. Len(path) - 1 PROVE ~SegmentBlocked(path[i], path[i + 1], AgentRadius)
    <3>1. i \in 1 .. Len(cells) /\ i + 1 \in 1 .. Len(cells) /\ i \in 1 .. Len(cells) - 1
      BY <1>1, <1>5
    <3>2. /\ path[i] \in Points /\ CellOf(path[i]) = cells[i]
          /\ path[i + 1] \in Points /\ CellOf(path[i + 1]) = cells[i + 1]
      BY <1>3, <3>1
    <3>3. cells[i] \in FreeCells /\ cells[i + 1] \in Neighbours(cells[i])
      BY <1>1, <3>1
    <3> QED BY <3>2, <3>3, LegIsClear
  <2> QED BY <2>1 DEF ClearLegs
<1>7. IsRest(SmoothPath(path), path, 1)
  <2>1. path # <<>>
    BY <1>1, <1>5
  <2> QED BY <1>5, <1>6, <2>1, SmoothIs
<1>8. AlongCells(cells, p, q) = SmoothPath(path)
  BY Zenon DEF AlongCells, path
<1> QED BY <1>4, <1>5, <1>7, <1>8 DEF IsRest, IsPath

LEMMA FindPathIs ==
  ASSUME NEW p \in Points, NEW q \in Points
  PROVE  IsPath(FindPath(p, q), q)
<1> DEFINE start == CellOf(p)
           goal == CellOf(q)
           search == Searches[start, goal]
           path == FindPath(p, q)
<1>1. path = IF {start, goal} \subseteq FreeCells
             THEN IF start = goal THEN <<q>>
                  ELSE IF search.found THEN AlongCells(WayTo(search, start, goal), p, q)
                  ELSE NoPath
             ELSE NoPath
  BY DEF FindPath
<1>2. SUFFICES IsPath(path, q)
  OBVIOUS
<1> HIDE DEF path
<1>3. CASE path = NoPath
  <2>1. path \in Seq(Points)
    BY <1>3 DEF NoPath
  <2> QED BY <1>3, <2>1 DEF IsPath
<1>4. CASE path = <<q>>
  <2>1. path \in Seq(Points) /\ Len(path) = 1 /\ path[1] = q
    BY <1>4
  <2>2. ClearLegs(path)
    BY <2>1 DEF ClearLegs
  <2> QED BY <2>1, <2>2 DEF IsPath
<1>5. CASE /\ start \in FreeCells /\ goal \in FreeCells /\ start # goal /\ search.found
           /\ path = AlongCells(WayTo(search, start, goal), p, q)
  <2>1. search = AStar(start, goal)
    BY <1>5 DEF Searches
  <2>2. FrontInv(search, start, goal)
    BY <1>5, <2>1, AStarFront
  <2> HIDE DEF search, start, goal
  <2>3. IsWay(WayTo(search, start, goal), start, goal)
    BY <1>5, <2>2, WayLength
  <2>4. IsPath(AlongCells(WayTo(search, start, goal), p, q), q)
    BY <1>5, <2>3, AlongCellsIs DEF start, goal
  <2> QED BY <1>5, <2>4
<1> HIDE DEF search, start, goal
<1> QED BY <1>1, <1>3, <1>4, <1>5
-----------------------------------------------------------------------------
(* The recursion of Ticks goes on from the sets without one of the enemies *)
(* of a set, so there is such a function.                                  *)
Body(f, S, delta) == IF S = {} THEN {Start(delta)} ELSE UNION { Then(f[S \ {e}], e) : e \in S }
UpTo(n) == { S \in SUBSET DOMAIN enemies : Cardinality(S) <= n }

LEMMA OneFewer ==
  ASSUME NEW S, IsFiniteSet(S), NEW e \in S, NEW n \in Nat, Cardinality(S) <= n + 1
  PROVE  IsFiniteSet(S \ {e}) /\ Cardinality(S \ {e}) <= n
<1>1. IsFiniteSet(S \ {e}) /\ Cardinality(S \ {e}) = Cardinality(S) - 1 /\ Cardinality(S) \in Nat
  BY FS_RemoveElement, FS_CardinalityType
<1> QED BY <1>1

LEMMA Cut ==
  ASSUME NEW f, NEW g, NEW S, NEW delta, \A e \in S : f[S \ {e}] = g[S \ {e}]
  PROVE  Body(f, S, delta) = Body(g, S, delta)
<1>1. { Then(f[S \ {e}], e) : e \in S } = { Then(g[S \ {e}], e) : e \in S }
  BY Zenon
<1> QED BY <1>1, Zenon DEF Body

LEMMA TicksUpTo ==
  ASSUME IsFiniteSet(DOMAIN enemies), NEW delta, NEW n \in Nat
  PROVE  \E f : f = [S \in UpTo(n) |-> Body(f, S, delta)]
<1> DEFINE Q == { m \in Nat : \E f : f = [S \in UpTo(m) |-> Body(f, S, delta)] }
<1>0. \A S \in SUBSET DOMAIN enemies : IsFiniteSet(S) /\ Cardinality(S) \in Nat
  BY FS_Subset, FS_CardinalityType
<1>1. 0 \in Q
  <2>1. UpTo(0) = {{}}
    BY <1>0, FS_EmptySet DEF UpTo
  <2> DEFINE f == [S \in UpTo(0) |-> {Start(delta)}]
  <2>2. \A S \in UpTo(0) : Body(f, S, delta) = {Start(delta)}
    BY <2>1 DEF Body
  <2>3. f = [S \in UpTo(0) |-> Body(f, S, delta)]
    BY <2>2, Zenon
  <2> QED BY <2>3
<1>2. ASSUME NEW m \in Nat, m \in Q PROVE m + 1 \in Q
  <2>1. PICK f : f = [S \in UpTo(m) |-> Body(f, S, delta)]
    BY <1>2
  <2> DEFINE g == [S \in UpTo(m + 1) |-> Body(f, S, delta)]
  <2>2. \A S \in UpTo(m) : S \in UpTo(m + 1)
    BY <1>0 DEF UpTo
  <2>3. \A S \in UpTo(m) : f[S] = g[S]
    <3>1. \A S \in UpTo(m) : f[S] = Body(f, S, delta)
      BY <2>1, Zenon
    <3> QED BY <2>2, <3>1, Zenon
  <2>4. ASSUME NEW S \in UpTo(m + 1) PROVE Body(f, S, delta) = Body(g, S, delta)
    <3>1. ASSUME NEW e \in S PROVE f[S \ {e}] = g[S \ {e}]
      <4>1. S \in SUBSET DOMAIN enemies /\ Cardinality(S) <= m + 1
        BY DEF UpTo
      <4>2. Cardinality(S \ {e}) <= m /\ S \ {e} \in SUBSET DOMAIN enemies
        BY <1>0, <4>1, OneFewer
      <4>3. S \ {e} \in UpTo(m)
        BY <4>2 DEF UpTo
      <4> QED BY <2>3, <4>3
    <3> HIDE DEF g
    <3>2. \A e \in S : f[S \ {e}] = g[S \ {e}]
      BY <3>1, Zenon
    <3> QED BY <3>2, Cut
  <2>5. g = [S \in UpTo(m + 1) |-> Body(g, S, delta)]
    <3> DEFINE h == [S \in UpTo(m + 1) |-> Body(g, S, delta)]
    <3>1. g = h
      BY <2>4, Zenon
    <3> QED BY <3>1
  <2> HIDE DEF g
  <2>6. \E f_1 : f_1 = [S \in UpTo(m + 1) |-> Body(f_1, S, delta)]
    BY <2>5, Zenon
  <2> QED BY <2>6
<1> HIDE DEF Q
<1>3. n \in Q
  BY <1>1, <1>2, SetInduction
<1> QED BY <1>3 DEF Q

LEMMA TicksIs ==
  ASSUME IsFiniteSet(DOMAIN enemies), NEW delta
  PROVE  \E f : f = [S \in SUBSET DOMAIN enemies |-> Body(f, S, delta)]
                /\ Ticks(delta) = f[DOMAIN enemies]
<1> DEFINE F(f) == [S \in SUBSET DOMAIN enemies |-> Body(f, S, delta)]
           after == CHOOSE f : f = F(f)
<1>1. UpTo(Cardinality(DOMAIN enemies)) = SUBSET DOMAIN enemies
  <2>1. \A S \in SUBSET DOMAIN enemies : Cardinality(S) <= Cardinality(DOMAIN enemies)
    BY FS_Subset
  <2> QED BY <2>1 DEF UpTo
<1>2. Cardinality(DOMAIN enemies) \in Nat
  BY FS_CardinalityType
<1>3. \E f : f = F(f)
  <2>1. \E f : f = [S \in UpTo(Cardinality(DOMAIN enemies)) |-> Body(f, S, delta)]
    BY <1>2, TicksUpTo, Zenon
  <2> QED BY <1>1, <2>1, Zenon
<1>4. after = F(after)
  BY <1>3, Zenon
<1>5. Ticks(delta) = after[DOMAIN enemies]
  BY Zenon DEF Ticks, Body
<1> HIDE DEF after
<1> QED BY <1>4, <1>5
-----------------------------------------------------------------------------
(* An enemy and its path: the next waypoint is in it, or all of it is done. *)
OnPath(r) == IsPath(r.path, r.goal) /\ r.idx \in 1 .. Len(r.path) + 1

(* The inductive invariant.  To the type comes that what a tick has seen   *)
(* are points, that paths are right, and the pace of an enemy: what is left of the windup and of *)
(* the cooldown, together with the time since the swing began, make up the *)
(* time between two swings.  Without it nothing in the state tells when a  *)
(* swing began; an enemy that is not registered has none to come.          *)
Paced(e) ==
  LET r == enemies[e]
  IN /\ swing[e].age + r.windup + r.rest >= Windup + AttackCooldown
     /\ r.windup > 0 => swing[e].aim = r.aim

IInv ==
  /\ TypeOK
  /\ \A e \in DOMAIN enemies : Paced(e) /\ OnPath(enemies[e])
  /\ \A e \in Enemies \ DOMAIN enemies : swing[e].age = Rested.age
  /\ \A p \in DOMAIN seen : seen[p] \in Points
-----------------------------------------------------------------------------
(* What the operators of a turn do                                         *)

LEMMA CountDownIs ==
  ASSUME NEW a \in Nat, NEW d \in Nat
  PROVE  CountDown(a, d) = IF a > d THEN a - d ELSE 0
<1> DEFINE m == IF a > d THEN a - d ELSE 0
           S == {0, a - d}
<1>1. m \in S /\ \A y \in S : m >= y
  OBVIOUS
<1>2. \A x \in S : (\A y \in S : x >= y) => x = m
  OBVIOUS
<1> QED BY <1>1, <1>2 DEF CountDown, Max

LEMMA StepIsPoint ==
  ASSUME NEW p \in Points, NEW d \in Int, NEW v, v[1] \in Int, v[2] \in Int
  PROVE  Plus(p, Scale(d, v)) \in Points
<1>1. p[1] \in Int /\ p[2] \in Int
  BY DEF Points
<1>2. d * v[1] \in Int /\ d * v[2] \in Int
  OBVIOUS
<1> DEFINE w == Scale(d, v)
<1>3. w[1] = d * v[1] /\ w[2] = d * v[2]
  BY DEF Scale
<1> HIDE DEF w
<1>4. p[1] + w[1] \in Int /\ p[2] + w[2] \in Int
  BY <1>1, <1>2, <1>3
<1>5. Plus(p, w) \in Points
  BY <1>4 DEF Plus, Points
<1> QED BY <1>5 DEF w

(* Whatever a direction is taken of, it is one of the nine.                *)
LEMMA DirectionIs ==
  ASSUME NEW v
  PROVE  /\ Direction(v)[1] \in Int /\ Direction(v)[2] \in Int
         /\ TurnLeft(v)[1] \in Int /\ TurnLeft(v)[2] \in Int
         /\ TurnRight(v)[1] \in Int /\ TurnRight(v)[2] \in Int
<1>1. \A x : Sign(x) \in Int
  BY DEF Sign
<1> QED BY <1>1 DEF Direction, TurnLeft, TurnRight

(* Fields that a turn leaves alone.                                        *)
Alike(r, s, names) == DOMAIN s = Fields /\ \A x \in names : s[x] = r[x]
Walking == {"pos", "path", "idx", "wait", "goal"}

LEMMA SamePath ==
  ASSUME NEW r, OnPath(r), NEW s, s.path = r.path, s.idx = r.idx, s.goal = r.goal
  PROVE  OnPath(s)
BY DEF OnPath

LEMMA RepathIsRight ==
  ASSUME NEW r, Sound(r), OnPath(r), NEW goal \in Points, NEW delta
  PROVE  OnPath(Repath(r, goal, delta))
<1> DEFINE s == Repath(r, goal, delta)
           found == [r EXCEPT !.path = FindPath(r.pos, goal), !.idx = 1, !.wait = RepathCooldown, !.goal = goal]
           waits == [r EXCEPT !.wait = CountDown(r.wait, delta)]
<1>1. s = found \/ s = waits
  BY Zenon DEF Repath
<1>2. /\ found.path = FindPath(r.pos, goal) /\ found.idx = 1 /\ found.goal = goal
      /\ waits.path = r.path /\ waits.idx = r.idx /\ waits.goal = r.goal
  BY DEF Sound, Fields
<1> HIDE DEF s, found, waits
<1>3. OnPath(found)
  <2>1. IsPath(FindPath(r.pos, goal), goal)
    BY FindPathIs DEF Sound
  <2>2. 1 \in 1 .. Len(FindPath(r.pos, goal)) + 1
    <3>1. Len(FindPath(r.pos, goal)) \in Nat
      BY <2>1 DEF IsPath
    <3> QED BY <3>1
  <2> QED BY <1>2, <2>1, <2>2 DEF OnPath
<1>4. OnPath(waits)
  BY <1>2, SamePath
<1> QED BY <1>1, <1>3, <1>4 DEF s

LEMMA AdvanceStays ==
  ASSUME NEW r, Sound(r), OnPath(r), NEW p, NEW delta
  PROVE  OnPath(Advance(r, p, delta))
<1> DEFINE s == Advance(r, p, delta)
           idx == IF r.idx <= Len(r.path) THEN Waypoint(r).idx ELSE r.idx
<1>1. s.path = r.path /\ s.goal = r.goal /\ s.idx = idx
  BY DEF Advance, Sound, Fields
<1>2. Len(r.path) \in Nat /\ r.idx \in 1 .. Len(r.path) + 1
  BY DEF OnPath, IsPath
<1>3. idx \in 1 .. Len(r.path) + 1
  <2>1. CASE r.idx <= Len(r.path)
    <3> DEFINE S == {Len(r.path)} \cup { i \in r.idx .. Len(r.path) : ~Within(r.path[i], r.pos, ArrivalRadius) }
               next == Min(S)
    <3>1. S \in SUBSET Nat /\ S # {} /\ \A i \in S : i \in 1 .. Len(r.path)
      BY <1>2, <2>1
    <3>2. idx = Len(r.path) + 1 \/ idx = next
      BY <2>1, Zenon DEF Waypoint
    <3> HIDE DEF S, idx
    <3>3. PICK i \in S : \A j \in S : i <= j
      BY <3>1, LeastNatural
    <3>4. next = i
      <4>1. S \in SUBSET Int
        BY <3>1
      <4> QED BY <3>3, <4>1, MinIs
    <3> QED BY <1>2, <3>1, <3>2, <3>3, <3>4
  <2>2. CASE ~(r.idx <= Len(r.path))
    BY <1>2, <2>2
  <2> QED BY <2>1, <2>2
<1> HIDE DEF s, idx
<1> QED BY <1>1, <1>3 DEF OnPath, s

LEMMA RepathIs ==
  ASSUME NEW r, Sound(r), NEW goal \in Points, NEW delta \in Nat
  PROVE  /\ Alike(r, Repath(r, goal, delta), Fields \ Walking)
         /\ Sound(Repath(r, goal, delta))
<1> DEFINE wait == CountDown(r.wait, delta)
<1>1. wait \in 0 .. RepathCooldown
  <2>1. r.wait \in 0 .. RepathCooldown /\ RepathCooldown \in Nat
    BY EnemyAssumption DEF Sound
  <2>2. wait = IF r.wait > delta THEN r.wait - delta ELSE 0
    BY <2>1, CountDownIs
  <2> HIDE DEF wait
  <2> QED BY <2>1, <2>2
<1> HIDE DEF wait
<1>2. RepathCooldown \in 0 .. RepathCooldown
  BY EnemyAssumption
<1>3. \/ Repath(r, goal, delta) = [r EXCEPT !.path = FindPath(r.pos, goal), !.idx = 1, !.wait = RepathCooldown, !.goal = goal]
      \/ Repath(r, goal, delta) = [r EXCEPT !.wait = wait]
  BY DEF Repath, wait
<1> DEFINE s == Repath(r, goal, delta)
<1>4. /\ DOMAIN s = Fields /\ s.pos = r.pos /\ s.health = r.health /\ s.caller = r.caller
      /\ s.rest = r.rest /\ s.windup = r.windup /\ s.aim = r.aim /\ s.call = r.call /\ s.forced = r.forced
      /\ s.goal \in {goal, r.goal} /\ s.wait \in {wait, RepathCooldown}
  BY <1>3 DEF Sound, Fields
<1> HIDE DEF s
<1>5. Sound(s)
  BY <1>1, <1>2, <1>4 DEF Sound
<1>6. Alike(r, s, Fields \ Walking)
  BY <1>4 DEF Alike, Fields, Walking
<1> QED BY <1>5, <1>6 DEF s

LEMMA AdvanceIs ==
  ASSUME NEW r, Sound(r), NEW p, NEW delta \in Nat
  PROVE  /\ Alike(r, Advance(r, p, delta), Fields \ Walking)
         /\ Sound(Advance(r, p, delta))
<1> DEFINE heading == IF r.idx <= Len(r.path) THEN Direction(Minus(Waypoint(r).to, r.pos)) ELSE Steer(r, seen[p], delta)
           s == Advance(r, p, delta)
<1>1. heading[1] \in Int /\ heading[2] \in Int
  <2>1. Steer(r, seen[p], delta)[1] \in Int /\ Steer(r, seen[p], delta)[2] \in Int
    BY DirectionIs DEF Steer
  <2> QED BY <2>1, DirectionIs
<1>2. s = [r EXCEPT !.pos = Plus(@, Scale(delta, heading)),
                    !.idx = IF r.idx <= Len(r.path) THEN Waypoint(r).idx ELSE @]
  BY DEF Advance
<1> HIDE DEF heading, s
<1>3. Plus(r.pos, Scale(delta, heading)) \in Points
  BY <1>1, StepIsPoint DEF Sound
<1>4. /\ DOMAIN s = Fields /\ s.pos \in Points /\ s.health = r.health /\ s.caller = r.caller
      /\ s.rest = r.rest /\ s.windup = r.windup /\ s.aim = r.aim /\ s.call = r.call /\ s.forced = r.forced
      /\ s.goal = r.goal /\ s.wait = r.wait
  BY <1>2, <1>3 DEF Sound, Fields
<1>5. Sound(s)
  BY <1>4 DEF Sound
<1>6. Alike(r, s, Fields \ Walking)
  BY <1>4 DEF Alike, Fields, Walking
<1> QED BY <1>5, <1>6 DEF s

(* A chase moves an enemy, along its path if it has one, and nothing else.  *)
LEMMA ChaseIs ==
  ASSUME NEW r, Sound(r), OnPath(r), NEW p, seen[p] \in Points, NEW delta \in Nat
  PROVE  /\ Alike(r, Chase(r, p, delta), Fields \ Walking)
         /\ Sound(Chase(r, p, delta)) /\ OnPath(Chase(r, p, delta))
<1> DEFINE q == Repath(r, seen[p], delta)
<1>1. Alike(r, q, Fields \ Walking) /\ Sound(q) /\ OnPath(q)
  BY RepathIs, RepathIsRight
<1> HIDE DEF q
<1>2. /\ Alike(q, Advance(q, p, delta), Fields \ Walking)
      /\ Sound(Advance(q, p, delta)) /\ OnPath(Advance(q, p, delta))
  BY <1>1, AdvanceIs, AdvanceStays
<1>3. Chase(r, p, delta) = Advance(q, p, delta)
  BY DEF Chase, q
<1> QED BY <1>1, <1>2, <1>3 DEF Alike

(* An attack swings if the cooldown is over and waits if not.              *)
LEMMA AttackIs ==
  ASSUME NEW r, Sound(r), r.windup = 0, NEW p \in Players, NEW delta \in Nat
  PROVE  LET s == Attack(r, p, delta)
         IN  /\ Alike(r, s, Fields \ {"rest", "windup", "aim"}) /\ Sound(s)
             /\ \/ r.rest > delta /\ s.rest = r.rest - delta /\ s.windup = 0 /\ s.aim = r.aim
                \/ r.rest <= delta /\ s.rest = AttackCooldown /\ s.windup = Windup /\ s.aim = p
<1> DEFINE s == Attack(r, p, delta)
           rest == CountDown(r.rest, delta)
<1>1. r.rest \in 0 .. AttackCooldown /\ AttackCooldown \in Nat \ {0} /\ Windup \in Nat \ {0} /\ None \notin Players
  BY EnemyAssumption DEF Sound
<1>2. rest = IF r.rest > delta THEN r.rest - delta ELSE 0
  BY <1>1, CountDownIs
<1>3. s = IF rest > 0 THEN [r EXCEPT !.rest = rest]
          ELSE [r EXCEPT !.rest = AttackCooldown, !.windup = Windup, !.aim = p]
  BY DEF Attack
<1> HIDE DEF s, rest
<1>4. /\ DOMAIN s = Fields /\ s.pos = r.pos /\ s.health = r.health /\ s.caller = r.caller
      /\ s.call = r.call /\ s.forced = r.forced
      /\ s.goal = r.goal /\ s.wait = r.wait /\ s.path = r.path /\ s.idx = r.idx
  BY <1>3 DEF Sound, Fields
<1>5. \/ r.rest > delta /\ s.rest = r.rest - delta /\ s.windup = 0 /\ s.aim = r.aim
      \/ r.rest <= delta /\ s.rest = AttackCooldown /\ s.windup = Windup /\ s.aim = p
  BY <1>1, <1>2, <1>3 DEF Sound, Fields
<1>6. Sound(s)
  BY <1>1, <1>4, <1>5 DEF Sound
<1>7. Alike(r, s, Fields \ {"rest", "windup", "aim"})
  BY <1>4 DEF Alike, Fields
<1> QED BY <1>5, <1>6, <1>7 DEF s

(* A windup runs down, and forgets its target at the end.                  *)
LEMMA WindUpIs ==
  ASSUME NEW r, Sound(r), r.windup > 0, NEW delta \in Nat
  PROVE  LET s == WindUp(r, delta).record
         IN  /\ Alike(r, s, Fields \ {"windup", "aim"}) /\ Sound(s)
             /\ s.windup = IF r.windup > delta THEN r.windup - delta ELSE 0
             /\ s.aim = IF s.windup = 0 THEN None ELSE r.aim
             /\ WindUp(r, delta).hits => s.windup = 0 /\ r.aim \in DOMAIN seen /\ InReach(r, r.aim)
<1> DEFINE left == CountDown(r.windup, delta)
           s == [r EXCEPT !.windup = left, !.aim = IF left = 0 THEN None ELSE @]
<1>1. r.windup \in 0 .. Windup /\ Windup \in Nat
  BY EnemyAssumption DEF Sound
<1>2. left = IF r.windup > delta THEN r.windup - delta ELSE 0
  BY <1>1, CountDownIs
<1>3. WindUp(r, delta).record = s
  BY DEF WindUp
<1>4. WindUp(r, delta).hits => left = 0 /\ r.aim \in DOMAIN seen /\ InReach(r, r.aim)
  BY Zenon DEF WindUp
<1> HIDE DEF left
<1>5. /\ DOMAIN s = Fields /\ s.pos = r.pos /\ s.health = r.health /\ s.caller = r.caller
      /\ s.call = r.call /\ s.forced = r.forced /\ s.rest = r.rest
      /\ s.goal = r.goal /\ s.wait = r.wait /\ s.path = r.path /\ s.idx = r.idx
      /\ s.windup = left /\ s.aim = IF left = 0 THEN None ELSE r.aim
  BY DEF Sound, Fields
<1> HIDE DEF s
<1>6. Sound(s)
  BY <1>1, <1>2, <1>5 DEF Sound
<1>7. Alike(r, s, Fields \ {"windup", "aim"})
  BY <1>5 DEF Alike, Fields
<1> QED BY <1>2, <1>3, <1>4, <1>5, <1>6, <1>7
-----------------------------------------------------------------------------
(* What a tick has done to the enemies that have had their turns           *)

Struck(t, e) == \E h \in t.hits : h[1] = e

(* Swings not, and is in no windup that is counted down. *)
Rests(t, e) ==
  LET b == enemies[e] r == t.all[e]
  IN /\ r.windup = b.windup /\ r.aim = b.aim
     /\ r.rest <= b.rest /\ b.rest <= r.rest + t.delta
     /\ e \notin t.starts /\ ~Struck(t, e)

Winds(t, e) ==
  LET b == enemies[e] r == t.all[e]
  IN /\ b.windup > 0 /\ r.windup = IF b.windup > t.delta THEN b.windup - t.delta ELSE 0
     /\ r.aim = IF r.windup = 0 THEN None ELSE b.aim
     /\ r.pos = b.pos /\ r.rest = b.rest
     /\ e \notin t.starts
     /\ \A h \in t.hits : h[1] = e =>
          /\ h[2] = b.aim /\ r.windup = 0 /\ b.health > 0 /\ b.aim \in DOMAIN seen /\ InReach(b, b.aim)

Swings(t, e) ==
  LET b == enemies[e] r == t.all[e]
  IN /\ b.windup = 0 /\ b.rest <= t.delta
     /\ r.windup = Windup /\ r.rest = AttackCooldown /\ r.aim \in DOMAIN seen
     /\ b.forced \in DOMAIN seen /\ b.forced # None => r.aim = b.forced
     /\ e \in t.starts /\ ~Struck(t, e)

(* Has not had its turn: only its forced target may be another. *)
Waits(t, e) ==
  LET b == enemies[e] r == t.all[e]
  IN /\ r.pos = b.pos /\ r.windup = b.windup /\ r.aim = b.aim /\ r.rest = b.rest
     /\ e \notin t.starts /\ ~Struck(t, e)

Kept(t, e) ==
  LET b == enemies[e] r == t.all[e]
  IN /\ Sound(r) /\ OnPath(r) /\ r.health = b.health /\ r.caller = b.caller
     /\ b.forced # None => r.forced = b.forced

Shape(t) == DOMAIN t = {"all", "starts", "hits", "delta"} /\ DOMAIN t.all = DOMAIN enemies

AfterTurns(S, t, e) ==
  /\ Kept(t, e)
  /\ e \in S => Rests(t, e) \/ Winds(t, e) \/ Swings(t, e)
  /\ e \notin S => Waits(t, e)

TickInv(S, t) ==
  /\ Shape(t) /\ t.starts \subseteq S /\ \A h \in t.hits : h[1] \in S
  /\ \A e \in DOMAIN enemies : AfterTurns(S, t, e)

(* A turn leaves the others alone, but for the target a caller sets them. *)
Beside(t, u, o) ==
  LET q == t.all[o] r == u.all[o]
  IN /\ DOMAIN r = Fields /\ \A x \in Fields \ {"forced"} : r[x] = q[x]
     /\ r.forced = q.forced \/ (q.forced = None /\ r.forced \in Players)
     /\ (o \in u.starts) = (o \in t.starts)
     /\ \A h : h[1] = o => (h \in u.hits) = (h \in t.hits)

LEMMA BesideIs ==
  ASSUME NEW S, NEW t, NEW u, NEW e, NEW o, o # e, u.delta = t.delta,
         AfterTurns(S, t, o), Beside(t, u, o)
  PROVE  AfterTurns(S \cup {e}, u, o)
<1>1. /\ u.all[o].pos = t.all[o].pos /\ u.all[o].health = t.all[o].health
      /\ u.all[o].caller = t.all[o].caller /\ u.all[o].rest = t.all[o].rest
      /\ u.all[o].windup = t.all[o].windup /\ u.all[o].aim = t.all[o].aim
      /\ u.all[o].call = t.all[o].call /\ u.all[o].goal = t.all[o].goal /\ u.all[o].wait = t.all[o].wait
      /\ u.all[o].path = t.all[o].path /\ u.all[o].idx = t.all[o].idx
      /\ DOMAIN u.all[o] = Fields
      /\ u.all[o].forced = t.all[o].forced \/ (t.all[o].forced = None /\ u.all[o].forced \in Players)
  BY DEF Beside, Fields
<1>2. Struck(u, o) = Struck(t, o) /\ (o \in u.starts) = (o \in t.starts)
  BY DEF Beside, Struck
<1>3. Kept(u, o)
  <2>1. OnPath(u.all[o])
    BY <1>1, SamePath DEF AfterTurns, Kept
  <2> QED BY <1>1, <2>1, EnemyAssumption DEF AfterTurns, Kept, Sound
<1>4. Rests(t, o) => Rests(u, o)
  BY <1>1, <1>2 DEF Rests
<1>5. Winds(t, o) => Winds(u, o)
  BY <1>1, <1>2 DEF Winds, Beside
<1>6. Swings(t, o) => Swings(u, o)
  BY <1>1, <1>2 DEF Swings
<1>7. Waits(t, o) => Waits(u, o)
  BY <1>1, <1>2 DEF Waits
<1> QED BY <1>3, <1>4, <1>5, <1>6, <1>7 DEF AfterTurns

(* What Act relies on of the state it begins in. *)
Ready ==
  /\ \A e \in DOMAIN enemies : Sound(enemies[e]) /\ OnPath(enemies[e])
  /\ \A p \in DOMAIN seen : p \in Players /\ seen[p] \in Points

LEMMA OthersWhenPut ==
  ASSUME NEW t, Shape(t), NEW e \in DOMAIN enemies, NEW s, NEW u,
         DOMAIN u = DOMAIN t, u.all = [t.all EXCEPT ![e] = s], u.delta = t.delta,
         u.starts \ {e} = t.starts \ {e}, \A h : h[1] # e => (h \in u.hits) = (h \in t.hits),
         NEW o \in DOMAIN enemies \ {e}, DOMAIN t.all[o] = Fields
  PROVE  u.all[e] = s /\ Shape(u) /\ Beside(t, u, o)
<1>1. DOMAIN u.all = DOMAIN enemies /\ u.all[e] = s /\ u.all[o] = t.all[o]
  BY DEF Shape
<1>2. Shape(u)
  BY <1>1 DEF Shape
<1>3. (o \in u.starts) = (o \in t.starts)
  OBVIOUS
<1>4. Beside(t, u, o)
  BY <1>1, <1>3 DEF Beside
<1> QED BY <1>1, <1>2, <1>4

(* The step from one turn to the next, once it is known what became of the *)
(* enemy whose turn it was.                                                *)
LEMMA NextTurn ==
  ASSUME NEW S, NEW t, NEW u, NEW e \in DOMAIN enemies \ S, TickInv(S, t),
         Shape(u), u.delta = t.delta,
         u.starts \subseteq t.starts \cup {e}, \A h \in u.hits : h \in t.hits \/ h[1] = e,
         \A o \in DOMAIN enemies \ {e} : Beside(t, u, o),
         Kept(u, e), Rests(u, e) \/ Winds(u, e) \/ Swings(u, e)
  PROVE  TickInv(S \cup {e}, u)
<1>1. ASSUME NEW o \in DOMAIN enemies PROVE AfterTurns(S \cup {e}, u, o)
  <2>1. CASE o = e
    BY <2>1 DEF AfterTurns
  <2>2. CASE o # e
    <3>1. AfterTurns(S, t, o)
      BY DEF TickInv
    <3> QED BY <2>2, <3>1, BesideIs
  <2> QED BY <2>1, <2>2
<1>2. u.starts \subseteq S \cup {e} /\ \A h \in u.hits : h[1] \in S \cup {e}
  BY DEF TickInv
<1> QED BY <1>1, <1>2 DEF TickInv

LEMMA NoTurn ==
  ASSUME NEW S, NEW t, TickInv(S, t), Ready, t.delta \in Nat, NEW e \in DOMAIN enemies \ S
  PROVE  TickInv(S \cup {e}, t)
<1>1. AfterTurns(S, t, e)
  BY DEF TickInv
<1>2. Kept(t, e) /\ Waits(t, e)
  BY <1>1 DEF AfterTurns
<1>3. enemies[e].rest \in Nat
  BY EnemyAssumption DEF Ready, Sound
<1>4. Rests(t, e)
  BY <1>2, <1>3 DEF Waits, Rests
<1>5. ASSUME NEW o \in DOMAIN enemies PROVE Beside(t, t, o)
  BY DEF Beside, TickInv, AfterTurns, Kept, Sound
<1>6. Shape(t)
  BY DEF TickInv
<1> QED BY <1>2, <1>4, <1>5, <1>6, NextTurn

Wound(t, u, e, s) ==
  /\ s = WindUp(t.all[e], t.delta).record
  /\ DOMAIN u = DOMAIN t /\ u.all = [t.all EXCEPT ![e] = s]
  /\ u.delta = t.delta /\ u.starts = t.starts /\ t.hits \subseteq u.hits
  /\ \A h \in u.hits : h \in t.hits \/ (WindUp(t.all[e], t.delta).hits /\ h = <<e, t.all[e].aim>>)

LEMMA WindingTurn ==
  ASSUME NEW S, NEW t, TickInv(S, t), Ready, t.delta \in Nat, NEW e \in DOMAIN enemies \ S,
         t.all[e].health # 0, t.all[e].windup > 0, NEW s, NEW u, Wound(t, u, e, s)
  PROVE  TickInv(S \cup {e}, u)
<1> DEFINE r == t.all[e]
           b == enemies[e]
           hit == WindUp(r, t.delta).hits
<1>0. /\ s = WindUp(r, t.delta).record
      /\ DOMAIN u = DOMAIN t /\ u.all = [t.all EXCEPT ![e] = s]
      /\ u.delta = t.delta /\ u.starts = t.starts /\ t.hits \subseteq u.hits
      /\ \A h \in u.hits : h \in t.hits \/ (hit /\ h = <<e, r.aim>>)
  BY DEF Wound
<1>1. Shape(t) /\ AfterTurns(S, t, e)
  BY DEF TickInv
<1>2. Kept(t, e) /\ Waits(t, e)
  BY <1>1 DEF AfterTurns
<1>3. Sound(r) /\ OnPath(r) /\ r.windup > 0 /\ r.health # 0
  BY <1>2 DEF Kept
<1>4. /\ Alike(r, s, Fields \ {"windup", "aim"}) /\ Sound(s)
      /\ s.windup = IF r.windup > t.delta THEN r.windup - t.delta ELSE 0
      /\ s.aim = IF s.windup = 0 THEN None ELSE r.aim
      /\ hit => s.windup = 0 /\ r.aim \in DOMAIN seen /\ InReach(r, r.aim)
  BY <1>0, <1>3, WindUpIs
<1>6. \A h \in u.hits : h \in t.hits \/ (hit /\ h = <<e, r.aim>>)
  BY <1>0
<1> HIDE DEF r, hit
<1>7. \A h : h[1] # e => (h \in u.hits) = (h \in t.hits)
  BY <1>0, <1>6
<1>8. u.all[e] = s /\ Shape(u)
  BY <1>0, <1>1 DEF Shape
<1>9. ASSUME NEW o \in DOMAIN enemies \ {e} PROVE Beside(t, u, o)
  <2>1. DOMAIN t.all[o] = Fields
    BY DEF TickInv, AfterTurns, Kept, Sound
  <2> QED BY <1>0, <1>1, <1>7, <2>1, OthersWhenPut
<1>10. /\ s.health = r.health /\ s.caller = r.caller /\ s.forced = r.forced /\ s.pos = r.pos /\ s.rest = r.rest
       /\ s.path = r.path /\ s.idx = r.idx /\ s.goal = r.goal
  BY <1>4 DEF Alike, Fields
<1>11. Kept(u, e)
  <2>1. OnPath(s)
    BY <1>3, <1>10, SamePath
  <2> QED BY <1>2, <1>4, <1>8, <1>10, <2>1 DEF Kept, r
<1>12. r.pos = b.pos /\ r.windup = b.windup /\ r.aim = b.aim /\ r.rest = b.rest /\ r.health = b.health
  BY <1>2 DEF Waits, Kept, r
<1>13. b.health > 0
  BY <1>3, <1>12 DEF Sound
<1>14. InReach(r, r.aim) = InReach(b, b.aim)
  BY <1>12 DEF InReach, Sees
<1>15. ASSUME NEW h \in u.hits, h[1] = e
       PROVE  h[2] = b.aim /\ s.windup = 0 /\ b.health > 0 /\ b.aim \in DOMAIN seen /\ InReach(b, b.aim)
  <2>1. h \notin t.hits
    BY <1>2, <1>15 DEF Waits, Struck
  <2>2. hit /\ h = <<e, r.aim>>
    BY <1>6, <2>1
  <2> QED BY <1>4, <1>12, <1>13, <1>14, <2>2
<1>16. Winds(u, e)
  BY <1>0, <1>2, <1>3, <1>4, <1>6, <1>8, <1>10, <1>12, <1>15 DEF Winds, Waits
<1>17. \A h \in u.hits : h \in t.hits \/ h[1] = e
  BY <1>6
<1> QED BY <1>0, <1>8, <1>9, <1>11, <1>16, <1>17, NextTurn

LEMMA ChasingTurn ==
  ASSUME NEW S, NEW t, TickInv(S, t), Ready, t.delta \in Nat, NEW e \in DOMAIN enemies \ S,
         t.all[e].windup = 0, NEW p \in DOMAIN seen, NEW u,
         u = [t EXCEPT !.all[e] = Chase(t.all[e], p, t.delta)]
  PROVE  TickInv(S \cup {e}, u)
<1> DEFINE r == t.all[e]
           b == enemies[e]
           s == Chase(r, p, t.delta)
<1>1. Shape(t) /\ AfterTurns(S, t, e)
  BY DEF TickInv
<1>2. Kept(t, e) /\ Waits(t, e)
  BY <1>1 DEF AfterTurns
<1>3. Sound(r) /\ OnPath(r) /\ seen[p] \in Points
  BY <1>2 DEF Kept, Ready
<1>4. Alike(r, s, Fields \ Walking) /\ Sound(s) /\ OnPath(s)
  BY <1>3, ChaseIs
<1>5. u = [t EXCEPT !.all[e] = s]
  OBVIOUS
<1> HIDE DEF s
<1>6. /\ DOMAIN u = DOMAIN t /\ u.all = [t.all EXCEPT ![e] = s] /\ u.delta = t.delta
      /\ u.starts = t.starts /\ u.hits = t.hits
  BY <1>1, <1>5 DEF Shape
<1> HIDE DEF r
<1>8. u.all[e] = s /\ Shape(u)
  BY <1>1, <1>6 DEF Shape
<1>9. ASSUME NEW o \in DOMAIN enemies \ {e} PROVE Beside(t, u, o)
  <2>1. DOMAIN t.all[o] = Fields
    BY DEF TickInv, AfterTurns, Kept, Sound
  <2>2. \A h : h[1] # e => (h \in u.hits) = (h \in t.hits)
    BY <1>6
  <2> QED BY <1>1, <1>6, <2>1, <2>2, OthersWhenPut
<1>10. /\ s.health = r.health /\ s.caller = r.caller /\ s.forced = r.forced /\ s.rest = r.rest
       /\ s.windup = r.windup /\ s.aim = r.aim
  BY <1>4 DEF Alike, Fields, Walking
<1>11. Kept(u, e)
  BY <1>2, <1>4, <1>8, <1>10 DEF Kept, r
<1>12. r.windup = b.windup /\ r.aim = b.aim /\ r.rest = b.rest /\ b.rest \in Nat
  BY <1>2, EnemyAssumption DEF Waits, Kept, Ready, Sound, r
<1>13. Rests(u, e)
  BY <1>2, <1>6, <1>8, <1>10, <1>12 DEF Rests, Waits, Struck
<1> QED BY <1>6, <1>8, <1>9, <1>11, <1>13, NextTurn

LEMMA SweepIs ==
  ASSUME NEW all, NEW e \in DOMAIN all, NEW p, NEW o \in DOMAIN all
  PROVE  /\ DOMAIN Sweep(all, e, p) = DOMAIN all /\ Sweep(all, e, p)[e] = all[e]
         /\ \/ Sweep(all, e, p)[o] = all[o]
            \/ all[o].forced = None /\ Sweep(all, e, p)[o] = [all[o] EXCEPT !.forced = p]
<1> DEFINE v == Sweep(all, e, p)
<1>1. DOMAIN v = DOMAIN all /\ v[e] = all[e]
  BY Zenon DEF Sweep
<1>2. v[o] = all[o] \/ (all[o].forced = None /\ v[o] = [all[o] EXCEPT !.forced = p])
  BY Zenon DEF Sweep
<1> QED BY <1>1, <1>2

(* The call of a caller leaves its attack as it is. *)
LEMMA CallIs ==
  ASSUME NEW s, Sound(s), NEW delta \in Nat, NEW calls \in BOOLEAN, NEW caller, NEW c,
         c = IF caller THEN [s EXCEPT !.call = IF calls THEN CallCooldown ELSE CountDown(@, delta)] ELSE s
  PROVE  Alike(s, c, Fields \ {"call"}) /\ Sound(c)
<1> DEFINE call == IF calls THEN CallCooldown ELSE CountDown(s.call, delta)
<1>1. s.call \in 0 .. CallCooldown /\ CallCooldown \in Nat
  BY EnemyAssumption DEF Sound
<1>2. CountDown(s.call, delta) = IF s.call > delta THEN s.call - delta ELSE 0
  BY <1>1, CountDownIs
<1>3. call \in 0 .. CallCooldown
  BY <1>1, <1>2
<1>4. c = [s EXCEPT !.call = call] \/ c = s
  OBVIOUS
<1> HIDE DEF call
<1>5. /\ DOMAIN c = Fields /\ c.pos = s.pos /\ c.health = s.health /\ c.caller = s.caller
      /\ c.rest = s.rest /\ c.windup = s.windup /\ c.aim = s.aim /\ c.forced = s.forced
      /\ c.goal = s.goal /\ c.wait = s.wait /\ c.path = s.path /\ c.idx = s.idx
      /\ c.call \in {call, s.call}
  BY <1>4 DEF Sound, Fields
<1>6. Sound(c)
  BY <1>3, <1>5 DEF Sound
<1>7. Alike(s, c, Fields \ {"call"})
  BY <1>5 DEF Alike, Fields
<1> QED BY <1>6, <1>7

Engaged(t, u, e, p) ==
  LET r == t.all[e]
      c == u.all[e]
  IN /\ Alike(r, c, Fields \ {"rest", "windup", "aim", "call"}) /\ Sound(c)
     /\ \/ /\ r.rest > t.delta /\ c.rest = r.rest - t.delta
           /\ c.windup = 0 /\ c.aim = r.aim /\ u.starts = t.starts
        \/ /\ r.rest <= t.delta /\ c.rest = AttackCooldown
           /\ c.windup = Windup /\ c.aim = p /\ u.starts = t.starts \cup {e}
     /\ Shape(u) /\ u.delta = t.delta /\ u.hits = t.hits
     /\ \A o \in DOMAIN enemies \ {e} :
          \/ u.all[o] = t.all[o]
          \/ t.all[o].forced = None /\ u.all[o] = [t.all[o] EXCEPT !.forced = p]

LEMMA EngageIs ==
  ASSUME NEW t, Shape(t), NEW e \in DOMAIN enemies, Sound(t.all[e]), t.all[e].windup = 0,
         t.delta \in Nat, NEW p \in Players, NEW u, u = Engage(t, e, p)
  PROVE  Engaged(t, u, e, p)
<1> DEFINE r == t.all[e]
           s == Attack(r, p, t.delta)
           calls == Called(r, t.delta)
           c == IF r.caller THEN [s EXCEPT !.call = IF calls THEN CallCooldown ELSE CountDown(@, t.delta)] ELSE s
           all == [t.all EXCEPT ![e] = c]
           v == IF calls THEN Sweep(all, e, p) ELSE all
           starts == IF s.windup > 0 THEN t.starts \cup {e} ELSE t.starts
<1>1. /\ Alike(r, s, Fields \ {"rest", "windup", "aim"}) /\ Sound(s)
      /\ \/ r.rest > t.delta /\ s.rest = r.rest - t.delta /\ s.windup = 0 /\ s.aim = r.aim
         \/ r.rest <= t.delta /\ s.rest = AttackCooldown /\ s.windup = Windup /\ s.aim = p
  BY AttackIs
<1>2. u = [t EXCEPT !.all = v, !.starts = starts]
  BY Zenon DEF Engage
<1>3. Alike(s, c, Fields \ {"call"}) /\ Sound(c)
  <2>1. calls \in BOOLEAN
    BY DEF Called
  <2> HIDE DEF s, calls
  <2> QED BY <1>1, <2>1, CallIs
<1>4. DOMAIN all = DOMAIN enemies /\ all[e] = c /\ \A o \in DOMAIN enemies \ {e} : all[o] = t.all[o]
  <2> HIDE DEF c
  <2> QED BY DEF Shape
<1> HIDE DEF all, c, s, calls
<1>5. DOMAIN v = DOMAIN enemies /\ v[e] = c
  <2>1. CASE calls
    <3>1. e \in DOMAIN all
      BY <1>4
    <3>2. DOMAIN Sweep(all, e, p) = DOMAIN all /\ Sweep(all, e, p)[e] = all[e]
      BY <3>1, Zenon DEF Sweep
    <3> QED BY <1>4, <2>1, <3>2
  <2>2. CASE ~calls
    BY <1>4, <2>2
  <2> QED BY <2>1, <2>2
<1>6. ASSUME NEW o \in DOMAIN enemies \ {e}
      PROVE  v[o] = t.all[o] \/ (t.all[o].forced = None /\ v[o] = [t.all[o] EXCEPT !.forced = p])
  <2>1. CASE calls
    <3>1. v[o] = all[o] \/ (all[o].forced = None /\ v[o] = [all[o] EXCEPT !.forced = p])
      BY <1>4, <2>1, SweepIs
    <3> QED BY <1>4, <3>1
  <2>2. CASE ~calls
    BY <1>4, <2>2
  <2> QED BY <2>1, <2>2
<1> HIDE DEF v
<1>7. /\ u.all = v /\ u.starts = starts /\ u.delta = t.delta /\ u.hits = t.hits
      /\ DOMAIN u = {"all", "starts", "hits", "delta"}
  BY <1>2 DEF Shape
<1>8. Alike(r, c, Fields \ {"rest", "windup", "aim", "call"})
  BY <1>1, <1>3 DEF Alike
<1>9. c.rest = s.rest /\ c.windup = s.windup /\ c.aim = s.aim
  BY <1>3 DEF Alike, Fields
<1>10. \/ r.rest > t.delta /\ c.rest = r.rest - t.delta /\ c.windup = 0 /\ c.aim = r.aim
          /\ u.starts = t.starts
       \/ r.rest <= t.delta /\ c.rest = AttackCooldown /\ c.windup = Windup /\ c.aim = p
          /\ u.starts = t.starts \cup {e}
  <2>1. Windup \in Nat \ {0}
    BY EnemyAssumption
  <2> QED BY <1>1, <1>7, <1>9, <2>1
<1>11. Shape(u)
  BY <1>5, <1>7 DEF Shape
<1> HIDE DEF r, starts
<1> QED BY <1>3, <1>5, <1>6, <1>7, <1>8, <1>10, <1>11 DEF r, Engaged

LEMMA EngagingTurn ==
  ASSUME NEW S, NEW t, TickInv(S, t), Ready, t.delta \in Nat, NEW e \in DOMAIN enemies \ S,
         t.all[e].windup = 0, NEW p \in Targets(t.all[e]), NEW u, u = Engage(t, e, p)
  PROVE  TickInv(S \cup {e}, u)
<1> DEFINE r == t.all[e]
           b == enemies[e]
           c == u.all[e]
<1>1. Shape(t) /\ AfterTurns(S, t, e)
  BY DEF TickInv
<1>2. Kept(t, e) /\ Waits(t, e) /\ Sound(r) /\ OnPath(r)
  BY <1>1 DEF AfterTurns, Kept
<1>3. p \in DOMAIN seen /\ p \in Players /\ (r.forced \in DOMAIN seen => p = r.forced)
  BY DEF Targets, Ready
<1>4. /\ Alike(r, c, Fields \ {"rest", "windup", "aim", "call"}) /\ Sound(c)
      /\ \/ r.rest > t.delta /\ c.rest = r.rest - t.delta /\ c.windup = 0 /\ c.aim = r.aim
            /\ u.starts = t.starts
         \/ r.rest <= t.delta /\ c.rest = AttackCooldown /\ c.windup = Windup /\ c.aim = p
            /\ u.starts = t.starts \cup {e}
      /\ Shape(u) /\ u.delta = t.delta /\ u.hits = t.hits
      /\ \A o \in DOMAIN enemies \ {e} :
           \/ u.all[o] = t.all[o]
           \/ t.all[o].forced = None /\ u.all[o] = [t.all[o] EXCEPT !.forced = p]
  <2>1. Engaged(t, u, e, p)
    BY <1>1, <1>2, <1>3, EngageIs
  <2> QED BY <2>1 DEF Engaged
<1>5. ASSUME NEW o \in DOMAIN enemies \ {e} PROVE Beside(t, u, o)
  <2>1. DOMAIN t.all[o] = Fields
    BY DEF TickInv, AfterTurns, Kept, Sound
  <2>2. u.all[o] = t.all[o] \/ (t.all[o].forced = None /\ u.all[o] = [t.all[o] EXCEPT !.forced = p])
    BY <1>4
  <2>3. (o \in u.starts) = (o \in t.starts) /\ u.hits = t.hits
    BY <1>4
  <2>4. DOMAIN u.all[o] = Fields /\ \A x \in Fields \ {"forced"} : u.all[o][x] = t.all[o][x]
    BY <2>1, <2>2
  <2>5. u.all[o].forced = t.all[o].forced \/ (t.all[o].forced = None /\ u.all[o].forced \in Players)
    BY <1>3, <2>1, <2>2 DEF Fields
  <2> QED BY <2>3, <2>4, <2>5 DEF Beside
<1>6. /\ c.health = r.health /\ c.caller = r.caller /\ c.forced = r.forced
      /\ c.path = r.path /\ c.idx = r.idx /\ c.goal = r.goal
  BY <1>4 DEF Alike, Fields
<1>7. Kept(u, e)
  <2> HIDE DEF r, c
  <2>1. OnPath(c)
    BY <1>2, <1>6, SamePath
  <2> QED BY <1>2, <1>4, <1>6, <2>1 DEF Kept, r, c
<1>8. /\ r.windup = b.windup /\ r.aim = b.aim /\ r.rest = b.rest /\ e \notin t.starts
      /\ b.forced # None => r.forced = b.forced
  BY <1>2 DEF Waits, Kept
<1>9. ~Struck(u, e)
  BY <1>2, <1>4 DEF Waits, Struck
<1>10. b.rest \in Nat /\ r.windup = 0
  BY EnemyAssumption DEF Ready, Sound
<1>11. CASE r.rest > t.delta
  <2>1. Rests(u, e)
    BY <1>4, <1>8, <1>9, <1>10, <1>11 DEF Rests
  <2> QED BY <1>4, <1>5, <1>7, <2>1, NextTurn
<1>12. CASE r.rest <= t.delta
  <2>1. c.rest = AttackCooldown /\ c.windup = Windup /\ c.aim = p /\ u.starts = t.starts \cup {e}
    BY <1>4, <1>8, <1>10, <1>12
  <2>2. Swings(u, e)
    BY <1>3, <1>4, <1>8, <1>9, <1>10, <1>12, <2>1 DEF Swings
  <2> QED BY <1>4, <1>5, <1>7, <2>1, <2>2, NextTurn
<1> QED BY <1>8, <1>10, <1>11, <1>12

(* Whatever a turn does, the tick goes on as it should. *)
LEMMA TurnsKeep ==
  ASSUME NEW S, NEW t, TickInv(S, t), Ready, t.delta \in Nat, NEW e \in DOMAIN enemies \ S,
         NEW u \in Turns(t, e)
  PROVE  TickInv(S \cup {e}, u) /\ u.delta = t.delta
<1> DEFINE r == t.all[e]
           w == WindUp(r, t.delta)
<1>1. Sound(r) /\ Shape(t)
  BY DEF TickInv, AfterTurns, Kept
<1>2. CASE DOMAIN seen = {} \/ r.health = 0
  <2>1. u = t
    BY <1>2 DEF Turns
  <2> QED BY <2>1, NoTurn
<1>3. CASE ~(DOMAIN seen = {} \/ r.health = 0) /\ r.windup > 0
  <2> DEFINE s == w.record
  <2>1. u = [[t EXCEPT !.all[e] = s] EXCEPT !.hits = IF w.hits THEN @ \cup {<<e, r.aim>>} ELSE @]
    BY <1>3, Zenon DEF Turns
  <2> HIDE DEF w, s
  <2>2. /\ DOMAIN u = DOMAIN t /\ u.all = [t.all EXCEPT ![e] = s] /\ u.delta = t.delta /\ u.starts = t.starts
        /\ u.hits = IF w.hits THEN t.hits \cup {<<e, r.aim>>} ELSE t.hits
    BY <1>1, <2>1 DEF Shape
  <2>3. t.hits \subseteq u.hits /\ \A h \in u.hits : h \in t.hits \/ (w.hits /\ h = <<e, r.aim>>)
    BY <2>2
  <2>4. s = WindUp(t.all[e], t.delta).record /\ t.all[e].health # 0 /\ t.all[e].windup > 0
    BY <1>3 DEF s, w
  <2>5. \A h \in u.hits : h \in t.hits \/ (WindUp(t.all[e], t.delta).hits /\ h = <<e, t.all[e].aim>>)
    BY <2>3 DEF w
  <2> HIDE DEF r
  <2>6. Wound(t, u, e, s)
    BY <2>2, <2>3, <2>4, <2>5 DEF Wound
  <2>7. TickInv(S \cup {e}, u)
    BY <2>4, <2>6, WindingTurn
  <2> QED BY <2>2, <2>7
<1>4. CASE ~(DOMAIN seen = {} \/ r.health = 0) /\ ~(r.windup > 0)
  <2>1. PICK p \in Targets(r) : u = IF InReach(r, p) THEN Engage(t, e, p) ELSE [t EXCEPT !.all[e] = Chase(r, p, t.delta)]
    BY <1>4, Zenon DEF Turns
  <2>2. r.windup = 0 /\ p \in DOMAIN seen
    BY <1>1, <1>4 DEF Sound, Targets
  <2>3. CASE InReach(r, p)
    <3>1. u = Engage(t, e, p)
      BY <2>1, <2>3
    <3>2. u.delta = t.delta
      <4>1. p \in Players
        BY <2>2 DEF Ready
      <4>2. Engaged(t, u, e, p)
        BY <1>1, <2>2, <3>1, <4>1, EngageIs
      <4> QED BY <4>2 DEF Engaged
    <3> QED BY <2>2, <3>1, <3>2, EngagingTurn
  <2>4. CASE ~InReach(r, p)
    <3>1. u = [t EXCEPT !.all[e] = Chase(r, p, t.delta)]
      BY <2>1, <2>4
    <3>2. u.delta = t.delta
      BY <1>1, <3>1 DEF Shape
    <3> HIDE DEF w
    <3>3. TickInv(S \cup {e}, u)
      BY <2>2, <3>1, ChasingTurn
    <3> QED BY <3>2, <3>3
  <2> QED BY <2>3, <2>4
<1> QED BY <1>2, <1>3, <1>4

LEMMA StartIs ==
  ASSUME Ready, NEW delta \in Nat
  PROVE  TickInv({}, Start(delta)) /\ Start(delta).delta = delta
<1> DEFINE t == Start(delta)
<1>1. /\ t.all = enemies /\ t.starts = {} /\ t.hits = {} /\ t.delta = delta
      /\ DOMAIN t = {"all", "starts", "hits", "delta"}
  BY DEF Start
<1> HIDE DEF t
<1>2. Shape(t) /\ t.starts \subseteq {} /\ \A h \in t.hits : h[1] \in {}
  BY <1>1 DEF Shape
<1>3. ASSUME NEW e \in DOMAIN enemies PROVE AfterTurns({}, t, e)
  <2>1. Kept(t, e)
    BY <1>1 DEF Kept, Ready
  <2>2. Waits(t, e)
    BY <1>1 DEF Waits, Struck
  <2> QED BY <2>1, <2>2 DEF AfterTurns
<1>4. TickInv({}, t)
  BY <1>2, <1>3 DEF TickInv
<1> QED BY <1>1, <1>4 DEF t

(* A tick has given every enemy its turn when it is over, in whatever order. *)
LEMMA TickKeeps ==
  ASSUME IsFiniteSet(DOMAIN enemies), Ready, NEW delta \in Nat, NEW t \in Ticks(delta)
  PROVE  TickInv(DOMAIN enemies, t) /\ t.delta = delta
<1>1. PICK f : f = [S \in SUBSET DOMAIN enemies |-> Body(f, S, delta)] /\ Ticks(delta) = f[DOMAIN enemies]
  BY TicksIs
<1>2. \A S \in SUBSET DOMAIN enemies : f[S] = Body(f, S, delta)
  BY <1>1, Zenon
<1> DEFINE Good(S, u) == TickInv(S, u) /\ u.delta = delta
           Q == { n \in Nat : \A S \in UpTo(n) : \A u \in f[S] : Good(S, u) }
<1>3. ASSUME NEW S \in SUBSET DOMAIN enemies, S = {}, NEW u \in f[S] PROVE Good(S, u)
  <2>1. u = Start(delta)
    BY <1>2, <1>3 DEF Body
  <2> QED BY <1>3, <2>1, StartIs
<1>4. ASSUME NEW S \in SUBSET DOMAIN enemies, S # {}, NEW u \in f[S],
             \A e \in S : \A v \in f[S \ {e}] : Good(S \ {e}, v)
      PROVE  Good(S, u)
  <2>1. PICK e \in S : u \in Then(f[S \ {e}], e)
    <3>1. u \in UNION { Then(f[S \ {e}], e) : e \in S }
      BY <1>2, <1>4 DEF Body
    <3> QED BY <3>1, Zenon
  <2>2. PICK v \in f[S \ {e}] : u \in Turns(v, e)
    BY <2>1 DEF Then
  <2>3. TickInv(S \ {e}, v) /\ v.delta = delta
    BY <1>4, <2>1, <2>2
  <2>4. e \in DOMAIN enemies \ (S \ {e}) /\ (S \ {e}) \cup {e} = S
    BY <2>1
  <2>5. TickInv((S \ {e}) \cup {e}, u) /\ u.delta = v.delta
    BY <2>2, <2>3, <2>4, TurnsKeep
  <2> QED BY <2>3, <2>4, <2>5
<1>5. \A S \in SUBSET DOMAIN enemies : IsFiniteSet(S) /\ Cardinality(S) \in Nat
  BY FS_Subset, FS_CardinalityType
<1> HIDE DEF Good
<1>6. 0 \in Q
  <2>1. \A S \in UpTo(0) : S \in SUBSET DOMAIN enemies /\ S = {}
    BY <1>5, FS_EmptySet DEF UpTo
  <2> QED BY <1>3, <2>1
<1>7. ASSUME NEW n \in Nat, n \in Q PROVE n + 1 \in Q
  <2>1. ASSUME NEW S \in UpTo(n + 1), NEW u \in f[S] PROVE Good(S, u)
    <3>1. S \in SUBSET DOMAIN enemies /\ Cardinality(S) <= n + 1
      BY DEF UpTo
    <3>2. ASSUME NEW e \in S, NEW v \in f[S \ {e}] PROVE Good(S \ {e}, v)
      <4>1. Cardinality(S \ {e}) <= n /\ S \ {e} \in SUBSET DOMAIN enemies
        BY <1>5, <3>1, OneFewer
      <4>2. S \ {e} \in UpTo(n)
        BY <4>1 DEF UpTo
      <4> QED BY <1>7, <4>2
    <3> QED BY <1>3, <1>4, <3>1, <3>2
  <2> QED BY <2>1
<1>8. Nat \subseteq Q
  <2> HIDE DEF Q
  <2> QED BY <1>6, <1>7, SetInduction
<1>9. Cardinality(DOMAIN enemies) \in Nat /\ DOMAIN enemies \in UpTo(Cardinality(DOMAIN enemies))
  BY <1>5 DEF UpTo
<1>10. Good(DOMAIN enemies, t)
  <2>1. Cardinality(DOMAIN enemies) \in Q
    BY <1>8, <1>9, Zenon
  <2> QED BY <1>1, <1>9, <2>1, Zenon
<1> QED BY <1>10 DEF Good
-----------------------------------------------------------------------------
(* The steps *)

LEMMA IsReady ==
  ASSUME IInv
  PROVE  Ready /\ IsFiniteSet(DOMAIN enemies) /\ Deltas \subseteq Nat
<1>1. IsFiniteSet(DOMAIN enemies)
  BY FS_Subset, EnemyAssumption DEF IInv, TypeOK
<1>2. Ready
  BY DEF Ready, IInv, TypeOK
<1> QED BY <1>1, <1>2, EnemyAssumption

LEMMA AgedIs ==
  ASSUME NEW e, swing[e].age \in 0 .. Rested.age, NEW delta \in Nat
  PROVE  Aged(e, delta) = IF swing[e].age + delta > Rested.age THEN Rested.age ELSE swing[e].age + delta
<1> DEFINE m == IF swing[e].age + delta > Rested.age THEN Rested.age ELSE swing[e].age + delta
           S == {Rested.age, swing[e].age + delta}
<1>0. Rested.age \in Nat /\ swing[e].age \in Nat
  BY EnemyAssumption DEF Rested
<1>1. m \in S /\ \A y \in S : m <= y
  BY <1>0
<1>2. \A x \in S : (\A y \in S : x <= y) => x = m
  BY <1>0
<1> QED BY <1>1, <1>2 DEF Aged, Min

(* What became of an enemy and of its pace in a tick. *)
LEMMA PaceKept ==
  ASSUME IInv, NEW delta \in Nat, NEW t, TickInv(DOMAIN enemies, t), t.delta = delta,
         NEW e \in DOMAIN enemies, NEW q,
         q = IF e \in t.starts THEN [aim |-> t.all[e].aim, age |-> 0]
             ELSE [aim |-> IF \E h \in t.hits : h[1] = e THEN None ELSE swing[e].aim, age |-> Aged(e, delta)]
  PROVE  /\ q.age + t.all[e].windup + t.all[e].rest >= Windup + AttackCooldown
         /\ t.all[e].windup > 0 => q.aim = t.all[e].aim
<1> DEFINE b == enemies[e]
           r == t.all[e]
<1>1. /\ b.windup \in Nat /\ b.rest \in Nat /\ r.windup \in Nat /\ r.rest \in Nat
      /\ (r.windup > 0) = (r.aim # None) /\ (b.windup > 0) = (b.aim # None)
      /\ Windup \in Nat \ {0} /\ AttackCooldown \in Nat
  BY EnemyAssumption DEF TickInv, AfterTurns, Kept, Sound, IInv, TypeOK
<1>2. swing[e].age \in 0 .. Rested.age /\ Rested.age = Windup + AttackCooldown
  BY DEF IInv, TypeOK, Rested
<1>3. swing[e].age + b.windup + b.rest >= Windup + AttackCooldown /\ (b.windup > 0 => swing[e].aim = b.aim)
  BY DEF IInv, Paced
<1>4. Aged(e, delta) = IF swing[e].age + delta > Rested.age THEN Rested.age ELSE swing[e].age + delta
  BY <1>2, AgedIs
<1>5. Rests(t, e) \/ Winds(t, e) \/ Swings(t, e)
  BY DEF TickInv, AfterTurns
<1>6. CASE e \in t.starts
  <2>1. Swings(t, e) /\ q.age = 0 /\ q.aim = r.aim
    BY <1>5, <1>6 DEF Rests, Winds
  <2>2. r.windup = Windup /\ r.rest = AttackCooldown
    BY <2>1 DEF Swings
  <2> QED BY <1>1, <2>1, <2>2
<1>7. CASE e \notin t.starts
  <2>0. q.age = Aged(e, delta) /\ q.aim = IF Struck(t, e) THEN None ELSE swing[e].aim
    BY <1>7 DEF Struck
  <2>1. CASE Rests(t, e)
    <3>1. r.windup = b.windup /\ r.aim = b.aim /\ r.rest <= b.rest /\ b.rest <= r.rest + delta /\ ~Struck(t, e)
      BY <2>1 DEF Rests
    <3> HIDE DEF r, b
    <3> QED BY <1>1, <1>2, <1>3, <1>4, <2>0, <3>1 DEF r
  <2>2. CASE Winds(t, e)
    <3>1. /\ b.windup > 0 /\ r.windup = IF b.windup > delta THEN b.windup - delta ELSE 0
          /\ r.aim = IF r.windup = 0 THEN None ELSE b.aim
          /\ r.rest = b.rest /\ (Struck(t, e) => r.windup = 0)
      BY <2>2 DEF Winds, Struck
    <3> HIDE DEF r, b
    <3> QED BY <1>1, <1>2, <1>3, <1>4, <2>0, <3>1 DEF r
  <2>3. CASE Swings(t, e)
    BY <1>7, <2>3 DEF Swings
  <2> QED BY <1>5, <2>1, <2>2, <2>3
<1> QED BY <1>6, <1>7

LEMMA LookStep ==
  ASSUME IInv, Look
  PROVE  IInv'
<1>1. /\ looking' = TRUE /\ DOMAIN seen' = visible /\ \A p \in visible : seen'[p] = at[p]
      /\ UNCHANGED <<enemies, at, visible, stale, swing, events>>
  BY DEF Look
<1>2. TypeOK'
  BY <1>1 DEF IInv, TypeOK
<1>3. \A e \in DOMAIN enemies' : Paced(e)' /\ OnPath(enemies'[e])
  BY <1>1 DEF IInv, Paced
<1>4. \A e \in Enemies \ DOMAIN enemies' : swing'[e].age = Rested.age
  BY <1>1 DEF IInv
<1>5. \A p \in DOMAIN seen' : seen'[p] \in Points
  BY <1>1, EnemyAssumption DEF IInv, TypeOK
<1> QED BY <1>2, <1>3, <1>4, <1>5 DEF IInv

(* The swings after a tick. *)
SwingAfter(t, delta, e) ==
  IF e \in t.starts THEN [aim |-> t.all[e].aim, age |-> 0]
  ELSE [aim |-> IF \E h \in t.hits : h[1] = e THEN None ELSE swing[e].aim, age |-> Aged(e, delta)]

LEMMA ActIs ==
  ASSUME IInv, Act
  PROVE  /\ looking' = FALSE /\ seen' = <<>> /\ UNCHANGED <<at, visible, stale, events>>
         /\ \E delta \in Nat : \E t :
              /\ TickInv(DOMAIN enemies, t) /\ t.delta = delta
              /\ enemies' = t.all
              /\ report' = [starts |-> t.starts, hits |-> t.hits, delta |-> delta]
              /\ swing' = [e \in Enemies |-> SwingAfter(t, delta, e)]
<1>1. /\ looking' = FALSE /\ seen' = <<>> /\ UNCHANGED <<at, visible, stale, events>>
      /\ \E delta \in Deltas : \E t \in Ticks(delta) :
              /\ enemies' = t.all
              /\ report' = [starts |-> t.starts, hits |-> t.hits, delta |-> delta]
              /\ swing' = [e \in Enemies |-> SwingAfter(t, delta, e)]
  BY Zenon DEF Act, SwingAfter
<1>2. PICK delta \in Deltas : \E t \in Ticks(delta) :
              /\ enemies' = t.all
              /\ report' = [starts |-> t.starts, hits |-> t.hits, delta |-> delta]
              /\ swing' = [e \in Enemies |-> SwingAfter(t, delta, e)]
  BY <1>1
<1>3. delta \in Nat
  BY IsReady
<1>4. PICK t \in Ticks(delta) :
              /\ enemies' = t.all
              /\ report' = [starts |-> t.starts, hits |-> t.hits, delta |-> delta]
              /\ swing' = [e \in Enemies |-> SwingAfter(t, delta, e)]
  BY <1>2
<1>5. TickInv(DOMAIN enemies, t) /\ t.delta = delta
  BY <1>3, IsReady, TickKeeps
<1> QED BY <1>1, <1>3, <1>4, <1>5, Zenon

LEMMA ActStep ==
  ASSUME IInv, Act
  PROVE  IInv'
<1>0. PICK delta \in Nat : \E t :
              /\ TickInv(DOMAIN enemies, t) /\ t.delta = delta
              /\ enemies' = t.all
              /\ report' = [starts |-> t.starts, hits |-> t.hits, delta |-> delta]
              /\ swing' = [e \in Enemies |-> SwingAfter(t, delta, e)]
  BY ActIs
<1>1. PICK t :
              /\ TickInv(DOMAIN enemies, t) /\ t.delta = delta
              /\ enemies' = t.all
              /\ report' = [starts |-> t.starts, hits |-> t.hits, delta |-> delta]
              /\ swing' = [e \in Enemies |-> SwingAfter(t, delta, e)]
  BY <1>0
<1>2. looking' = FALSE /\ seen' = <<>> /\ UNCHANGED <<at, visible, stale, events>>
  BY ActIs
<1>3. DOMAIN enemies' = DOMAIN enemies /\ t.starts \subseteq DOMAIN enemies
      /\ \A h \in t.hits : h[1] \in DOMAIN enemies
  BY <1>1 DEF TickInv, Shape
<1>4. \A e \in DOMAIN enemies : Sound(t.all[e]) /\ OnPath(t.all[e])
  BY <1>1 DEF TickInv, AfterTurns, Kept
<1>5. \A e \in Enemies : swing'[e] = SwingAfter(t, delta, e)
  BY <1>1
<1>6. ASSUME NEW e \in Enemies PROVE swing'[e] \in [aim : Players \cup {None}, age : 0 .. Rested.age]
  <2>1. swing[e] \in [aim : Players \cup {None}, age : 0 .. Rested.age] /\ Rested.age \in Nat
    BY EnemyAssumption DEF IInv, TypeOK, Rested
  <2>2. Aged(e, delta) \in 0 .. Rested.age
    BY <2>1, AgedIs
  <2>3. e \in t.starts => t.all[e].aim \in Players \cup {None}
    BY <1>3, <1>4 DEF Sound
  <2>4. CASE e \in t.starts
    <3>1. swing'[e] = [aim |-> t.all[e].aim, age |-> 0]
      BY <1>5, <2>4 DEF SwingAfter
    <3> QED BY <2>1, <2>3, <2>4, <3>1
  <2>5. CASE e \notin t.starts
    <3>1. PICK a \in {None, swing[e].aim} : swing'[e] = [aim |-> a, age |-> Aged(e, delta)]
      BY <1>5, <2>5 DEF SwingAfter
    <3> QED BY <2>1, <2>2, <3>1
  <2> QED BY <2>4, <2>5
<1>7. DOMAIN seen' = {}
  BY <1>2
<1>8. TypeOK'
  <2>1. swing' \in [Enemies -> [aim : Players \cup {None}, age : 0 .. Rested.age]]
    BY <1>1, <1>6
  <2> QED BY <1>1, <1>2, <1>3, <1>4, <1>7, <2>1 DEF IInv, TypeOK
<1>9. ASSUME NEW e \in DOMAIN enemies' PROVE Paced(e)'
  <2>1. e \in DOMAIN enemies /\ e \in Enemies
    BY <1>3 DEF IInv, TypeOK
  <2>2. /\ SwingAfter(t, delta, e).age + t.all[e].windup + t.all[e].rest >= Windup + AttackCooldown
        /\ t.all[e].windup > 0 => SwingAfter(t, delta, e).aim = t.all[e].aim
    BY <1>1, <2>1, PaceKept DEF SwingAfter
  <2> QED BY <1>1, <1>5, <2>1, <2>2 DEF Paced
<1>10. ASSUME NEW e \in Enemies \ DOMAIN enemies' PROVE swing'[e].age = Rested.age
  <2>1. e \notin t.starts /\ swing[e].age = Rested.age /\ Rested.age \in Nat
    BY <1>3, EnemyAssumption DEF IInv, Rested
  <2>2. Aged(e, delta) = Rested.age
    BY <2>1, AgedIs
  <2>3. SwingAfter(t, delta, e).age = Aged(e, delta)
    BY <2>1 DEF SwingAfter
  <2> QED BY <1>5, <2>2, <2>3
<1>11. \A e \in DOMAIN enemies' : OnPath(enemies'[e])
  BY <1>1, <1>3, <1>4
<1> QED BY <1>7, <1>8, <1>9, <1>10, <1>11 DEF IInv

LEMMA ActIsFair ==
  ASSUME IInv, Act
  PROVE  FairReport
<1>0. PICK delta \in Nat : \E t :
              /\ TickInv(DOMAIN enemies, t) /\ t.delta = delta
              /\ enemies' = t.all
              /\ report' = [starts |-> t.starts, hits |-> t.hits, delta |-> delta]
              /\ swing' = [e \in Enemies |-> SwingAfter(t, delta, e)]
  BY ActIs
<1>1. PICK t :
              /\ TickInv(DOMAIN enemies, t) /\ t.delta = delta
              /\ enemies' = t.all
              /\ report' = [starts |-> t.starts, hits |-> t.hits, delta |-> delta]
              /\ swing' = [e \in Enemies |-> SwingAfter(t, delta, e)]
  BY <1>0
<1>2. report'.starts = t.starts /\ report'.hits = t.hits /\ report'.delta = delta
  BY <1>1
<1>3. t.starts \subseteq DOMAIN enemies /\ \A h \in t.hits : h[1] \in DOMAIN enemies
  BY <1>1 DEF TickInv
<1>4. ASSUME NEW e \in DOMAIN enemies
      PROVE  /\ e \in Enemies /\ swing[e].age \in Nat
             /\ enemies[e].windup \in Nat /\ enemies[e].rest \in Nat /\ enemies[e].rest <= AttackCooldown
             /\ swing[e].age + enemies[e].windup + enemies[e].rest >= Windup + AttackCooldown
             /\ enemies[e].windup > 0 => swing[e].aim = enemies[e].aim
             /\ Rests(t, e) \/ Winds(t, e) \/ Swings(t, e)
             /\ enemies[e].forced # None => t.all[e].forced = enemies[e].forced
             /\ Windup \in Nat /\ AttackCooldown \in Nat
  <2>1. e \in Enemies /\ swing[e].age \in Nat
    BY EnemyAssumption DEF IInv, TypeOK, Rested
  <2>2. Sound(enemies[e]) /\ Windup \in Nat /\ AttackCooldown \in Nat
    BY EnemyAssumption DEF IInv, TypeOK
  <2>3. /\ enemies[e].windup \in Nat /\ enemies[e].rest \in Nat /\ enemies[e].rest <= AttackCooldown
    BY <2>2 DEF Sound
  <2>4. /\ swing[e].age + enemies[e].windup + enemies[e].rest >= Windup + AttackCooldown
        /\ enemies[e].windup > 0 => swing[e].aim = enemies[e].aim
    BY DEF IInv, Paced
  <2>5. Rests(t, e) \/ Winds(t, e) \/ Swings(t, e)
    BY <1>1 DEF TickInv, AfterTurns
  <2>6. enemies[e].forced # None => t.all[e].forced = enemies[e].forced
    BY <1>1 DEF TickInv, AfterTurns, Kept
  <2> QED BY <2>1, <2>2, <2>3, <2>4, <2>5, <2>6
<1>5. ASSUME NEW h \in t.hits
      PROVE  /\ swing[h[1]].aim = h[2] /\ swing[h[1]].age + delta >= Windup
             /\ enemies[h[1]].health > 0
             /\ Within(t.all[h[1]].pos, seen[h[2]], AttackRange)
             /\ ~SegmentBlocked(t.all[h[1]].pos, seen[h[2]], 0)
  <2> DEFINE e == h[1]
             b == enemies[e]
  <2>1. e \in DOMAIN enemies
    BY <1>3
  <2>2. Struck(t, e)
    BY DEF Struck
  <2>3. Winds(t, e)
    BY <1>4, <2>1, <2>2 DEF Rests, Swings
  <2>4. /\ b.windup > 0 /\ t.all[e].windup = IF b.windup > delta THEN b.windup - delta ELSE 0
        /\ t.all[e].pos = b.pos
        /\ h[2] = b.aim /\ t.all[e].windup = 0 /\ b.health > 0 /\ InReach(b, b.aim)
    BY <1>1, <2>3 DEF Winds
  <2> HIDE DEF e
  <2>5. swing[e].aim = h[2] /\ swing[e].age + delta >= Windup
    BY <1>4, <2>1, <2>4
  <2>6. Within(b.pos, seen[b.aim], AttackRange) /\ ~SegmentBlocked(b.pos, seen[b.aim], 0)
    BY <2>4 DEF InReach, Sees
  <2> QED BY <2>4, <2>5, <2>6 DEF e
<1>6. ASSUME NEW e \in t.starts
      PROVE  /\ swing[e].age + delta >= Windup + AttackCooldown
             /\ t.all[e].forced \in DOMAIN seen /\ enemies[e].forced # None => swing'[e].aim = enemies[e].forced
  <2>1. e \in DOMAIN enemies
    BY <1>3
  <2>2. Swings(t, e)
    BY <1>4, <2>1 DEF Rests, Winds
  <2>3. /\ enemies[e].windup = 0 /\ enemies[e].rest <= delta
        /\ enemies[e].forced \in DOMAIN seen /\ enemies[e].forced # None => t.all[e].aim = enemies[e].forced
    BY <1>1, <2>2 DEF Swings
  <2>4. swing'[e].aim = t.all[e].aim
    BY <1>1, <1>4, <2>1 DEF SwingAfter
  <2> QED BY <1>4, <2>1, <2>3, <2>4
<1> QED BY <1>1, <1>2, <1>5, <1>6 DEF FairReport

LEMMA RegisterStep ==
  ASSUME IInv, NEW e \in Enemies, NEW r \in Records, Register(e, r)
  PROVE  IInv'
<1> DEFINE record == [pos |-> r.pos, health |-> r.health, caller |-> r.caller,
                      rest |-> 0, windup |-> 0, aim |-> None, call |-> 0, forced |-> None,
                      path |-> NoPath, idx |-> 1, wait |-> 0, goal |-> <<0, 0>>]
<1>1. /\ enemies' = [o \in DOMAIN enemies \cup {e} |-> IF o \in DOMAIN enemies THEN enemies[o] ELSE record]
      /\ UNCHANGED <<at, visible, stale, looking, seen, report, swing, events>>
  BY Zenon DEF Register, RegisterIfNew
<1>2. record.rest = 0 /\ record.windup = 0 /\ Sound(record) /\ OnPath(record)
  <2>1. r.pos \in Points /\ r.health \in Nat /\ r.caller \in BOOLEAN /\ <<0, 0>> \in Points
    BY EnemyAssumption DEF Points
  <2>2. {AttackCooldown, Windup, CallCooldown, RepathCooldown} \subseteq Nat /\ None \notin Players
    BY EnemyAssumption
  <2>3. Sound(record)
    BY <2>1, <2>2 DEF Sound, Fields
  <2>4. NoPath \in Seq(Points) /\ Len(NoPath) = 0
    BY DEF NoPath
  <2>5. OnPath(record)
    BY <2>4 DEF OnPath, IsPath
  <2> QED BY <2>3, <2>5
<1> HIDE DEF record
<1>3. /\ DOMAIN enemies' = DOMAIN enemies \cup {e}
      /\ \A o \in DOMAIN enemies : enemies'[o] = enemies[o]
      /\ e \notin DOMAIN enemies => enemies'[e] = record
  BY <1>1
<1>4. \A o \in DOMAIN enemies' : Sound(enemies'[o])
  BY <1>2, <1>3 DEF IInv, TypeOK
<1>5. TypeOK'
  BY <1>1, <1>3, <1>4 DEF IInv, TypeOK
<1>6. ASSUME NEW o \in DOMAIN enemies' PROVE Paced(o)'
  <2>1. CASE o \in DOMAIN enemies
    BY <1>1, <1>3, <2>1 DEF IInv, Paced
  <2>2. CASE o \notin DOMAIN enemies
    <3>1. o = e /\ swing'[e].age = Windup + AttackCooldown
      BY <1>1, <1>3, <2>2 DEF IInv, Rested
    <3>2. enemies'[e].windup = 0 /\ enemies'[e].rest = 0 /\ Windup + AttackCooldown \in Nat
      BY <1>2, <1>3, <2>2, <3>1, EnemyAssumption
    <3> QED BY <3>1, <3>2 DEF Paced
  <2> QED BY <2>1, <2>2
<1>7. \A o \in Enemies \ DOMAIN enemies' : swing'[o].age = Rested.age
  BY <1>1, <1>3 DEF IInv
<1>8. \A p \in DOMAIN seen' : seen'[p] \in Points
  BY <1>1 DEF IInv
<1>9. \A o \in DOMAIN enemies' : OnPath(enemies'[o])
  BY <1>2, <1>3 DEF IInv
<1> QED BY <1>5, <1>6, <1>7, <1>8, <1>9 DEF IInv

LEMMA DamageStep ==
  ASSUME IInv, NEW e \in Enemies, Damage(e)
  PROVE  IInv'
<1>1. /\ e \in DOMAIN enemies /\ enemies[e].health > 0 /\ events < MaxEvents /\ events' = events + 1
      /\ enemies' = [enemies EXCEPT ![e].health = @ - 1]
      /\ UNCHANGED <<at, visible, stale, looking, seen, report, swing>>
  BY DEF Damage, Client, Living
<1> DEFINE s == [enemies[e] EXCEPT !.health = @ - 1]
<1>2. /\ DOMAIN enemies' = DOMAIN enemies /\ enemies'[e] = s
      /\ \A o \in DOMAIN enemies \ {e} : enemies'[o] = enemies[o]
  BY <1>1
<1>3. Sound(enemies[e])
  BY <1>1 DEF IInv, TypeOK
<1>4. /\ DOMAIN s = Fields /\ s.health = enemies[e].health - 1
      /\ s.pos = enemies[e].pos /\ s.goal = enemies[e].goal /\ s.caller = enemies[e].caller
      /\ s.rest = enemies[e].rest /\ s.windup = enemies[e].windup /\ s.call = enemies[e].call
      /\ s.wait = enemies[e].wait /\ s.forced = enemies[e].forced /\ s.aim = enemies[e].aim
      /\ s.path = enemies[e].path /\ s.idx = enemies[e].idx
  BY <1>3 DEF Sound, Fields
<1> HIDE DEF s
<1>5. Sound(s)
  BY <1>1, <1>3, <1>4 DEF Sound
<1>6. TypeOK'
  <2>1. \A o \in DOMAIN enemies' : Sound(enemies'[o])
    BY <1>2, <1>5 DEF IInv, TypeOK
  <2>2. events' \in 0 .. MaxEvents
    BY <1>1, EnemyAssumption DEF IInv, TypeOK
  <2> QED BY <1>1, <1>2, <2>1, <2>2 DEF IInv, TypeOK
<1>7. ASSUME NEW o \in DOMAIN enemies' PROVE Paced(o)'
  <2>1. o \in DOMAIN enemies /\ enemies'[o].windup = enemies[o].windup
        /\ enemies'[o].rest = enemies[o].rest /\ enemies'[o].aim = enemies[o].aim
    BY <1>2, <1>4
  <2> QED BY <1>1, <2>1 DEF IInv, Paced
<1>8. \A o \in Enemies \ DOMAIN enemies' : swing'[o].age = Rested.age
  BY <1>1, <1>2 DEF IInv
<1>9. \A p \in DOMAIN seen' : seen'[p] \in Points
  BY <1>1 DEF IInv
<1>10. \A o \in DOMAIN enemies' : OnPath(enemies'[o])
  <2>1. OnPath(s)
    BY <1>1, <1>4, SamePath DEF IInv
  <2> QED BY <1>2, <2>1 DEF IInv
<1> QED BY <1>6, <1>7, <1>8, <1>9, <1>10 DEF IInv

(* The handlers that only move or hide a member leave the enemies alone. *)
LEMMA MembersStep ==
  ASSUME IInv, UNCHANGED <<enemies, looking, seen, swing>>,
         at' \in [Players -> Posts], visible' \subseteq Players, stale' \in BOOLEAN,
         events' = events \/ (events < MaxEvents /\ events' = events + 1)
  PROVE  IInv'
<1>1. events' \in 0 .. MaxEvents
  BY EnemyAssumption DEF IInv, TypeOK
<1>2. TypeOK'
  BY <1>1 DEF IInv, TypeOK
<1>3. \A e \in DOMAIN enemies' : Paced(e)' /\ OnPath(enemies'[e])
  BY DEF IInv, Paced
<1> QED BY <1>2, <1>3 DEF IInv

LEMMA ResetStep ==
  ASSUME IInv, Reset
  PROVE  IInv'
<1>1. /\ stale' = FALSE /\ DOMAIN enemies' = {} /\ swing' = [e \in Enemies |-> Rested]
      /\ UNCHANGED <<at, visible, looking, seen, report, events>>
  BY DEF Reset
<1>2. Rested \in [aim : Players \cup {None}, age : 0 .. Rested.age]
  BY EnemyAssumption DEF Rested
<1>3. TypeOK'
  BY <1>1, <1>2 DEF IInv, TypeOK
<1>4. \A e \in Enemies : swing'[e].age = Rested.age
  BY <1>1
<1> QED BY <1>1, <1>3, <1>4 DEF IInv

LEMMA InitIs ==
  ASSUME Init
  PROVE  IInv
<1>1. DOMAIN enemies = {} /\ DOMAIN seen = {}
  BY DEF Init
<1>2. Rested \in [aim : Players \cup {None}, age : 0 .. Rested.age]
  BY EnemyAssumption DEF Rested
<1>3. TypeOK
  <2>1. at \in [Players -> Posts] /\ visible \subseteq Players /\ {stale, looking} \subseteq BOOLEAN
    BY EnemyAssumption DEF Init
  <2>2. swing \in [Enemies -> [aim : Players \cup {None}, age : 0 .. Rested.age]]
    BY <1>2 DEF Init
  <2>3. events \in 0 .. MaxEvents
    BY EnemyAssumption DEF Init
  <2> QED BY <1>1, <2>1, <2>2, <2>3 DEF TypeOK
<1>4. \A e \in Enemies : swing[e].age = Rested.age
  BY DEF Init
<1> QED BY <1>1, <1>3, <1>4 DEF IInv

LEMMA NextStep ==
  ASSUME IInv, [Next]_vars
  PROVE  /\ IInv'
         /\ report' # report /\ report' # NoReport => FairReport
<1>0. at \in [Players -> Posts] /\ visible \subseteq Players /\ stale \in BOOLEAN
  BY DEF IInv, TypeOK
<1>1. CASE Look
  <2>1. report' = NoReport
    BY <1>1 DEF Look
  <2> QED BY <1>1, <2>1, LookStep
<1>2. CASE Act
  BY <1>2, ActStep, ActIsFair
<1>3. CASE Reset
  <2>1. report' = report
    BY <1>3 DEF Reset
  <2> QED BY <1>3, <2>1, ResetStep
<1>4. ASSUME NEW e \in Enemies, Damage(e)
      PROVE  IInv' /\ report' = report
  <2>1. report' = report
    BY <1>4 DEF Damage
  <2> QED BY <1>4, <2>1, DamageStep
<1>5. ASSUME NEW e \in Enemies, NEW r \in Records, Register(e, r)
      PROVE  IInv' /\ report' = report
  <2>1. report' = report
    BY <1>5 DEF Register
  <2> QED BY <1>5, <2>1, RegisterStep
<1>6. ASSUME NEW p \in Players, Move(p) \/ Show(p) \/ Hide(p)
      PROVE  IInv' /\ report' = report
  <2>1. /\ UNCHANGED <<enemies, looking, seen, swing>> /\ report' = report
        /\ events < MaxEvents /\ events' = events + 1
    BY <1>6 DEF Move, Show, Hide, Client
  <2>2. at' \in [Players -> Posts]
    BY <1>0, <1>6 DEF Move, Show, Hide
  <2>3. visible' \subseteq Players /\ stale' \in BOOLEAN
    BY <1>0, <1>6 DEF Move, Show, Hide
  <2> QED BY <2>1, <2>2, <2>3, MembersStep
<1>7. CASE UNCHANGED vars
  <2>1. UNCHANGED <<enemies, at, visible, stale, looking, seen, report, swing, events>>
    BY <1>7 DEF vars
  <2> QED BY <1>0, <2>1, MembersStep
<1> QED BY <1>1, <1>2, <1>3, <1>4, <1>5, <1>6, <1>7 DEF Next

LEMMA EnemyInvariant == Spec => []IInv
<1>1. Init => IInv
  BY InitIs
<1>2. IInv /\ [Next]_vars => IInv'
  BY NextStep
<1> QED BY <1>1, <1>2, PTL DEF Spec

(* The records of the enemies keep their types whatever ticks, handlers    *)
(* and resets do, no countdown of EnemyAI.cpp passes what it starts from,  *)
(* and an enemy has somebody to hit just while it winds up.                *)
THEOREM EnemyTypeCorrect == Spec => []TypeOK
<1>1. IInv => TypeOK
  BY DEF IInv
<1> QED BY <1>1, EnemyInvariant, PTL

(* FairFight, for every level, number of enemies and players and length of *)
(* a tick: what EnemyAI::Tick reports is the end of one swing at one       *)
(* player, in time, in range and in the open, and swings keep their pace.  *)
THEOREM FairFightHolds == Spec => FairFight
<1>1. IInv /\ [Next]_vars => [report' # report /\ report' # NoReport => FairReport]_vars
  BY NextStep
<1> QED BY <1>1, EnemyInvariant, PTL DEF Spec, FairFight
(* PathClear, for every level, size of its cells and bound of the search:  *)
(* a path that FindPath gave an enemy leads to where it was asked for,     *)
(* and leaves room for the enemy's radius on every leg of it, the smoothed *)
(* ones included.                                                          *)
THEOREM PathsAreClear == Spec => []PathClear
<1>1. IInv => PathClear
  <2>1. SUFFICES ASSUME IInv, NEW e \in DOMAIN enemies, enemies[e].path # NoPath
                 PROVE  /\ enemies[e].path[Len(enemies[e].path)] = enemies[e].goal
                        /\ enemies[e].idx \in 1 .. Len(enemies[e].path) + 1
                        /\ ClearLegs(enemies[e].path)
    BY DEF PathClear, ClearLegs
  <2> QED BY <2>1 DEF IInv, OnPath, IsPath
<1> QED BY <1>1, EnemyInvariant, PTL

(* PathShortest, for every level on which the searches end within the      *)
(* bound: whatever cells enemies and players stand on, FindPath finds a    *)
(* way from one to the other if there is one, at the cost of a shortest.   *)
THEOREM PathsAreShortest == SearchesEnd => (Spec => []PathShortest)
<1> SUFFICES ASSUME SearchesEnd PROVE Spec => []PathShortest
  OBVIOUS
<1>1. PathShortest
  BY AllSearchesGood DEF PathShortest
<1> QED BY <1>1, PTL
-----------------------------------------------------------------------------
(* Shots                                                                   *)

Vec == Int \X Int \X Int

LEMMA Products ==
  ASSUME NEW a \in Int, NEW b \in Int, NEW m \in Nat, NEW n \in Nat, a <= m, b <= n, 0 <= a
  PROVE  a * b <= m * n
<1>1. a * b <= a * n
  <2>1. a * (n - b) >= 0
    OBVIOUS
  <2>2. a * (n - b) = a * n - a * b
    OBVIOUS
  <2>3. a * n \in Int /\ a * b \in Int
    OBVIOUS
  <2> QED BY <2>1, <2>2, <2>3
<1>2. a * n <= m * n
  <2>1. (m - a) * n >= 0
    OBVIOUS
  <2>2. (m - a) * n = m * n - a * n
    OBVIOUS
  <2>3. a * n \in Int /\ m * n \in Int
    OBVIOUS
  <2> QED BY <2>1, <2>2, <2>3
<1>3. a * b \in Int /\ a * n \in Int /\ m * n \in Int
  OBVIOUS
<1> QED BY <1>1, <1>2, <1>3

LEMMA Squares ==
  ASSUME NEW a \in Int, NEW b \in Nat
  PROVE  /\ a * a \in Nat
         /\ a <= b /\ -b <= a <=> a * a <= b * b
<1>1. a * a \in Nat
  <2>1. a >= 0 \/ -a >= 0
    OBVIOUS
  <2>2. a * a = (-a) * (-a)
    OBVIOUS
  <2> QED BY <2>1, <2>2
<1>2. (b - a) * (b + a) = b * b - a * a
  OBVIOUS
<1>3. ASSUME a <= b, -b <= a PROVE a * a <= b * b
  <2>1. (b - a) * (b + a) >= 0
    BY <1>3
  <2>2. a * a \in Int /\ b * b \in Int
    OBVIOUS
  <2> QED BY <1>2, <2>1, <2>2
<1>4. ASSUME a > b \/ a < -b PROVE b * b < a * a
  <2>1. (b - a) * (b + a) < 0
    BY <1>4
  <2>2. a * a \in Int /\ b * b \in Int
    OBVIOUS
  <2> QED BY <1>2, <2>1, <2>2
<1>5. a * a \in Int /\ b * b \in Int
  OBVIOUS
<1> QED BY <1>1, <1>3, <1>4, <1>5

LEMMA Vectors ==
  ASSUME NEW x \in Vec, NEW y \in Vec, NEW k \in Int
  PROVE  /\ x[1] \in Int /\ x[2] \in Int /\ x[3] \in Int /\ x = <<x[1], x[2], x[3]>>
         /\ Add(x, y) \in Vec /\ Sub(x, y) \in Vec /\ Times(k, x) \in Vec
         /\ Dot(x, y) \in Int /\ Dot(x, x) \in Nat
<1>1. x[1] \in Int /\ x[2] \in Int /\ x[3] \in Int /\ x = <<x[1], x[2], x[3]>>
  BY DEF Vec
<1>2. y[1] \in Int /\ y[2] \in Int /\ y[3] \in Int
  BY DEF Vec
<1>3. Add(x, y) \in Vec /\ Sub(x, y) \in Vec /\ Times(k, x) \in Vec
  BY <1>1, <1>2 DEF Add, Sub, Times, Vec
<1>4. Dot(x, y) \in Int
  BY <1>1, <1>2 DEF Dot
<1>5. Dot(x, x) \in Nat
  <2>1. x[1] * x[1] \in Nat /\ x[2] * x[2] \in Nat /\ x[3] * x[3] \in Nat
    BY <1>1, Squares, 0 \in Nat
  <2> QED BY <2>1 DEF Dot
<1> QED BY <1>1, <1>3, <1>4, <1>5

LEMMA CauchySchwarz ==
  ASSUME NEW x \in Vec, NEW y \in Vec
  PROVE  Dot(x, y) * Dot(x, y) <= Dot(x, x) * Dot(y, y)
<1> DEFINE a == x[1] b == x[2] c == x[3] d == y[1] e == y[2] f == y[3]
<1>1. a \in Int /\ b \in Int /\ c \in Int /\ d \in Int /\ e \in Int /\ f \in Int
  BY Vectors, 0 \in Int
<1>2. /\ Dot(x, y) = a * d + b * e + c * f /\ Dot(x, x) = a * a + b * b + c * c
      /\ Dot(y, y) = d * d + e * e + f * f
  BY DEF Dot
<1> HIDE DEF a, b, c, d, e, f
<1> DEFINE u == a * e - b * d
           v == a * f - c * d
           w == b * f - c * e
<1>3. (a * a + b * b + c * c) * (d * d + e * e + f * f) =
        (a * d + b * e + c * f) * (a * d + b * e + c * f) + (u * u + v * v + w * w)
  BY <1>1
<1>4. u \in Int /\ v \in Int /\ w \in Int
  BY <1>1
<1> HIDE DEF u, v, w
<1>5. u * u + v * v + w * w \in Nat
  BY <1>4, Squares, 0 \in Nat
<1>6. (a * d + b * e + c * f) * (a * d + b * e + c * f) \in Int
  BY <1>1
<1> QED BY <1>2, <1>3, <1>5, <1>6

LEMMA ShortVectors ==
  ASSUME NEW x \in Vec, NEW y \in Vec, NEW m \in Nat, NEW n \in Nat,
         Dot(x, x) <= m * m, Dot(y, y) <= n * n
  PROVE  Dot(x, y) <= m * n
<1> DEFINE p == Dot(x, y) a == Dot(x, x) b == Dot(y, y)
<1>1. p \in Int /\ a \in Nat /\ b \in Nat /\ p * p <= a * b
  BY Vectors, CauchySchwarz, 0 \in Int
<1>2. a <= m * m /\ b <= n * n /\ m * m \in Nat /\ n * n \in Nat
  OBVIOUS
<1> HIDE DEF p, a, b
<1>3. a * b <= (m * m) * (n * n)
  BY <1>1, <1>2, Products
<1>4. (m * m) * (n * n) = (m * n) * (m * n) /\ m * n \in Nat
  OBVIOUS
<1>5. a * b \in Int /\ p * p \in Int /\ (m * n) * (m * n) \in Int
  BY <1>1, <1>4
<1>6. p * p <= (m * n) * (m * n)
  BY <1>1, <1>3, <1>4, <1>5
<1>7. p <= m * n
  BY <1>1, <1>4, <1>6, Squares
<1> QED BY <1>7 DEF p

(* A point is in a capsule if some point of the axis is close to it.       *)
OffAxis(v, w) == <<v[1], v[2], v[3] - w>>
Reach(k) == CylinderHalfLen * k

LEMMA Sizes ==
  /\ Radius \in Nat /\ CylinderHalfLen \in Nat /\ HalfHeight \in Nat /\ MaxRange \in Nat
  /\ CylinderHalfLen # 0 /\ Radius # 0 /\ CylinderHalfLen + Radius = HalfHeight
BY HitAssumption DEF CylinderHalfLen

LEMMA InCapsuleIs ==
  ASSUME NEW v \in Vec, NEW k \in Nat
  PROVE  /\ Reach(k) \in Nat /\ Radius * k \in Nat
         /\ InCapsule(v, k) <=> \E w \in Int : /\ -Reach(k) <= w /\ w <= Reach(k)
                                               /\ Dot(OffAxis(v, w), OffAxis(v, w)) <= (Radius * k) * (Radius * k)
<1> DEFINE h == Reach(k)
           z == v[3]
           near == Clamp(z, -h, h)
           r == (Radius * k) * (Radius * k)
           a == v[1] * v[1] + v[2] * v[2]
<1>1. Radius \in Nat /\ CylinderHalfLen \in Nat /\ v[1] \in Int /\ v[2] \in Int /\ z \in Int
  BY Sizes, Vectors, 0 \in Int
<1>2. h \in Nat /\ Radius * k \in Nat /\ r \in Nat
  BY <1>1 DEF Reach
<1>3. a \in Int
  BY <1>1
<1>4. InCapsule(v, k) <=> a + (z - near) * (z - near) <= r
  <2>1. -CylinderHalfLen * k = -h /\ CylinderHalfLen * k = h
    BY <1>1 DEF Reach
  <2>2. Radius * Radius * k * k = r
    BY <1>1
  <2> QED BY <2>1, <2>2 DEF InCapsule
<1>5. \A w : Dot(OffAxis(v, w), OffAxis(v, w)) = a + (z - w) * (z - w)
  BY DEF Dot, OffAxis
<1> HIDE DEF h, a, r, z
<1>6. near \in Int /\ -h <= near /\ near <= h
  BY <1>1, <1>2 DEF Clamp
<1>7. ASSUME NEW w \in Int, -h <= w, w <= h PROVE (z - near) * (z - near) <= (z - w) * (z - w)
  <2> DEFINE x == z - near
             b == IF z <= w THEN w - z ELSE z - w
  <2>1. x \in Int /\ b \in Nat /\ x <= b /\ -b <= x
    BY <1>1, <1>2, <1>7 DEF Clamp
  <2>2. b * b = (z - w) * (z - w)
    BY <1>1
  <2> HIDE DEF x, b
  <2>3. x * x <= b * b
    BY <2>1, Squares
  <2> QED BY <2>2, <2>3 DEF x
<1>8. \A w \in Int : (z - w) * (z - w) \in Int
  BY <1>1
<1> HIDE DEF near
<1>9. ASSUME NEW w \in Int, -h <= w, w <= h, a + (z - w) * (z - w) <= r PROVE InCapsule(v, k)
  BY <1>2, <1>3, <1>4, <1>6, <1>7, <1>8, <1>9
<1> QED BY <1>2, <1>4, <1>5, <1>6, <1>9 DEF h, r

(* What lies between two points of a capsule is in it: m times one and n   *)
(* times the other.                                                        *)
LEMMA Between ==
  ASSUME NEW v \in Vec, NEW u \in Vec, NEW k \in Nat, NEW j \in Nat, NEW m \in Nat, NEW n \in Nat,
         InCapsule(v, k), InCapsule(u, j)
  PROVE  InCapsule(Add(Times(m, v), Times(n, u)), m * k + n * j)
<1> DEFINE s == Add(Times(m, v), Times(n, u))
           l == m * k + n * j
<1>1. PICK w \in Int : -Reach(k) <= w /\ w <= Reach(k)
                       /\ Dot(OffAxis(v, w), OffAxis(v, w)) <= (Radius * k) * (Radius * k)
  BY InCapsuleIs
<1>2. PICK t \in Int : -Reach(j) <= t /\ t <= Reach(j)
                       /\ Dot(OffAxis(u, t), OffAxis(u, t)) <= (Radius * j) * (Radius * j)
  BY InCapsuleIs
<1> DEFINE x == OffAxis(v, w)
           y == OffAxis(u, t)
           a == Dot(x, x)
           b == Dot(y, y)
           p == Dot(x, y)
           A == Radius * k
           B == Radius * j
<1>3. x \in Vec /\ y \in Vec /\ s \in Vec /\ l \in Nat
  <2>1. x \in Vec /\ y \in Vec
    BY Vectors, 0 \in Int DEF OffAxis, Vec
  <2>2. m * k \in Nat /\ n * j \in Nat
    OBVIOUS
  <2>3. Times(m, v) \in Vec /\ Times(n, u) \in Vec
    BY Vectors
  <2> QED BY <2>1, <2>2, <2>3, Vectors, 0 \in Int
<1>4. a \in Nat /\ b \in Nat /\ p \in Int /\ A \in Nat /\ B \in Nat /\ a <= A * A /\ b <= B * B
  BY <1>1, <1>2, <1>3, Vectors, InCapsuleIs, 0 \in Int
<1>5. p <= A * B
  BY <1>3, <1>4, ShortVectors
<1> DEFINE z == m * w + n * t
           q == OffAxis(s, z)
<1>6. Dot(q, q) = (m * m) * a + 2 * ((m * n) * p) + (n * n) * b
  <2>1. /\ v[1] \in Int /\ v[2] \in Int /\ v[3] \in Int /\ u[1] \in Int /\ u[2] \in Int /\ u[3] \in Int
    BY Vectors, 0 \in Int
  <2>2. /\ a = v[1] * v[1] + v[2] * v[2] + (v[3] - w) * (v[3] - w)
        /\ b = u[1] * u[1] + u[2] * u[2] + (u[3] - t) * (u[3] - t)
        /\ p = v[1] * u[1] + v[2] * u[2] + (v[3] - w) * (u[3] - t)
        /\ q = <<m * v[1] + n * u[1], m * v[2] + n * u[2], (m * v[3] + n * u[3]) - z>>
    BY DEF Dot, OffAxis, Add, Times
  <2>3. (m * v[3] + n * u[3]) - z = m * (v[3] - w) + n * (u[3] - t)
    BY <2>1
  <2> DEFINE f == v[3] - w
             g == u[3] - t
  <2>4. f \in Int /\ g \in Int
    BY <2>1
  <2>5. q = <<m * v[1] + n * u[1], m * v[2] + n * u[2], m * f + n * g>>
    BY <2>2, <2>3
  <2>6. Dot(q, q) = (m * v[1] + n * u[1]) * (m * v[1] + n * u[1]) + (m * v[2] + n * u[2]) * (m * v[2] + n * u[2])
                    + (m * f + n * g) * (m * f + n * g)
    <3> HIDE DEF f, g, q
    <3> QED BY <2>5 DEF Dot
  <2> HIDE DEF f, g, q, a, b, p
  <2>7. /\ a = v[1] * v[1] + v[2] * v[2] + f * f
        /\ b = u[1] * u[1] + u[2] * u[2] + g * g
        /\ p = v[1] * u[1] + v[2] * u[2] + f * g
    BY <2>2, Zenon DEF f, g
  <2> QED BY <2>1, <2>4, <2>6, <2>7
<1>7. -Reach(l) <= z /\ z <= Reach(l) /\ z \in Int
  <2> DEFINE g == Reach(k) h == Reach(j)
  <2>1. Reach(l) = m * g + n * h
    BY Sizes DEF Reach
  <2>2. g \in Nat /\ h \in Nat /\ -g <= w /\ w <= g /\ -h <= t /\ t <= h
    BY <1>1, <1>2, <1>3, InCapsuleIs
  <2> HIDE DEF g, h
  <2>3. m * (g - w) >= 0 /\ m * (g + w) >= 0 /\ n * (h - t) >= 0 /\ n * (h + t) >= 0
    BY <2>2
  <2>4. /\ m * (g - w) = m * g - m * w /\ m * (g + w) = m * g + m * w
        /\ n * (h - t) = n * h - n * t /\ n * (h + t) = n * h + n * t
    BY <2>2
  <2>5. m * g \in Int /\ m * w \in Int /\ n * h \in Int /\ n * t \in Int
    BY <2>2
  <2> QED BY <2>1, <2>3, <2>4, <2>5
<1> HIDE DEF x, y, a, b, p, A, B, z, q
<1>8. Dot(q, q) <= (Radius * l) * (Radius * l)
  <2>1. (m * m) * a <= (m * m) * (A * A) /\ (m * n) * p <= (m * n) * (A * B) /\ (n * n) * b <= (n * n) * (B * B)
    <3>1. m * m \in Nat /\ m * n \in Nat /\ n * n \in Nat /\ A * A \in Nat /\ A * B \in Nat /\ B * B \in Nat
      BY <1>4
    <3> QED BY <1>4, <1>5, <3>1, Products
  <2>2. (Radius * l) * (Radius * l) = (m * m) * (A * A) + 2 * ((m * n) * (A * B)) + (n * n) * (B * B)
    <3>1. Radius * l = m * A + n * B
      BY Sizes DEF A, B
    <3>2. (m * A + n * B) * (m * A + n * B) = (m * m) * (A * A) + 2 * ((m * n) * (A * B)) + (n * n) * (B * B)
      BY <1>4
    <3> QED BY <3>1, <3>2
  <2>3. /\ (m * m) * a \in Int /\ (m * n) * p \in Int /\ (n * n) * b \in Int
        /\ (m * m) * (A * A) \in Int /\ (m * n) * (A * B) \in Int /\ (n * n) * (B * B) \in Int
    BY <1>4
  <2> QED BY <1>6, <2>1, <2>2, <2>3
<1> QED BY <1>3, <1>7, <1>8, InCapsuleIs DEF q

LEMMA Scaled ==
  ASSUME NEW v \in Vec, NEW k \in Nat, NEW m \in Nat \ {0}, InCapsule(Times(m, v), m * k)
  PROVE  InCapsule(v, k)
<1> DEFINE h == CylinderHalfLen * k
           c == Clamp(v[3], -h, h)
           x == v[1] * v[1] + v[2] * v[2] + (v[3] - c) * (v[3] - c)
           y == Radius * Radius * k * k
<1>1. v[1] \in Int /\ v[2] \in Int /\ v[3] \in Int /\ CylinderHalfLen \in Nat /\ Radius \in Nat /\ h \in Nat
  <2>1. h \in Nat
    BY Sizes
  <2> HIDE DEF h
  <2> QED BY <2>1, Vectors, Sizes, 0 \in Int
<1>2. -CylinderHalfLen * k = -h /\ CylinderHalfLen * (m * k) = m * h /\ -CylinderHalfLen * (m * k) = m * (-h)
  BY <1>1
<1>3. c \in Int
  BY <1>1 DEF Clamp
<1> HIDE DEF h
<1>4. Clamp(m * v[3], m * (-h), m * h) = m * c
  <2>1. \A a, b \in Int : a * m < b * m <=> a < b
    <3>1. SUFFICES ASSUME NEW a \in Int, NEW b \in Int PROVE a * m < b * m <=> a < b
      OBVIOUS
    <3>2. a * m \in Int /\ b * m \in Int
      OBVIOUS
    <3>3. b <= a => b * m <= a * m
      BY TimesKeepsOrder
    <3>4. b * m <= a * m => b <= a
      BY TimesKeepsOrder
    <3> QED BY <3>2, <3>3, <3>4
  <2>2. \A a \in Int : m * a = a * m
    OBVIOUS
  <2>3. v[3] * m < -h * m <=> v[3] < -h
    BY <1>1, <2>1
  <2>4. h * m < v[3] * m <=> h < v[3]
    BY <1>1, <2>1
  <2>5. m * v[3] = v[3] * m /\ m * (-h) = -h * m /\ m * h = h * m
    BY <1>1, <2>2
  <2>6. m * v[3] < m * (-h) <=> v[3] < -h
    BY <2>3, <2>5
  <2>7. m * v[3] > m * h <=> v[3] > h
    <3>1. m * v[3] > m * h <=> h * m < v[3] * m
      BY <1>1, <2>5
    <3> QED BY <1>1, <2>4, <3>1
  <2> HIDE DEF c
  <2>8. c = IF v[3] < -h THEN -h ELSE IF v[3] > h THEN h ELSE v[3]
    BY DEF c, Clamp
  <2> QED BY <2>6, <2>7, <2>8 DEF Clamp
<1> HIDE DEF c
<1>5. (m * m) * x <= (m * m) * y
  <2>1. /\ (m * v[1]) * (m * v[1]) + (m * v[2]) * (m * v[2]) + (m * v[3] - m * c) * (m * v[3] - m * c)
           <= Radius * Radius * (m * k) * (m * k)
    BY <1>2, <1>4 DEF InCapsule, Times
  <2>2. (m * v[1]) * (m * v[1]) + (m * v[2]) * (m * v[2]) + (m * v[3] - m * c) * (m * v[3] - m * c) = (m * m) * x
    BY <1>1, <1>3
  <2>3. Radius * Radius * (m * k) * (m * k) = (m * m) * y
    BY <1>1
  <2> QED BY <2>1, <2>2, <2>3
<1>6. x \in Int /\ y \in Int /\ m * m \in Nat /\ m * m # 0
  BY <1>1, <1>3
<1> HIDE DEF x, y
<1>7. x * (m * m) <= y * (m * m)
  <2>1. (m * m) * x = x * (m * m) /\ (m * m) * y = y * (m * m)
    BY <1>6
  <2> QED BY <1>5, <2>1
<1>8. x <= y
  BY <1>6, <1>7, TimesKeepsOrder
<1> QED BY <1>2, <1>8, Zenon DEF x, y, c, h, InCapsule

(* How far a vector lies off the line along D, squared and times D * D; and *)
(* the vector to a point of the axis, w / k above the centre, times k.     *)
Off(D, x) == Dot(D, D) * Dot(x, x) - Dot(D, x) * Dot(D, x)
ToAxis(E, w, k) == Add(Times(k, E), <<0, 0, w>>)

LEMMA OffIs ==
  ASSUME NEW D \in Vec, NEW E \in Vec, NEW w \in Int, NEW k \in Int
  PROVE  /\ ToAxis(E, w, k) \in Vec
         /\ Off(D, ToAxis(E, w, k)) =
              (D[1] * D[1] + D[2] * D[2]) * (w * w)
              + 2 * ((Dot(D, D) * E[3] - Dot(D, E) * D[3]) * (w * k)) + Off(D, E) * (k * k)
<1> DEFINE a == D[1] b == D[2] c == D[3] d == E[1] e == E[2] f == E[3]
           x == ToAxis(E, w, k)
<1>1. a \in Int /\ b \in Int /\ c \in Int /\ d \in Int /\ e \in Int /\ f \in Int
  BY Vectors, 0 \in Int
<1>2. x = <<k * d, k * e, k * f + w>>
  BY <1>1 DEF ToAxis, Add, Times
<1>3. x \in Vec
  BY <1>1, <1>2 DEF Vec
<1>4. /\ Dot(D, D) = a * a + b * b + c * c /\ Dot(E, E) = d * d + e * e + f * f
      /\ Dot(D, E) = a * d + b * e + c * f
  BY DEF Dot
<1> HIDE DEF a, b, c, d, e, f, x
<1>5. /\ Dot(x, x) = (k * d) * (k * d) + (k * e) * (k * e) + (k * f + w) * (k * f + w)
      /\ Dot(D, x) = a * (k * d) + b * (k * e) + c * (k * f + w)
  BY <1>2 DEF Dot, a, b, c
<1>6. (a * a + b * b + c * c) * ((k * d) * (k * d) + (k * e) * (k * e) + (k * f + w) * (k * f + w))
        - (a * (k * d) + b * (k * e) + c * (k * f + w)) * (a * (k * d) + b * (k * e) + c * (k * f + w))
      = (a * a + b * b) * (w * w)
        + 2 * (((a * a + b * b + c * c) * f - (a * d + b * e + c * f) * c) * (w * k))
        + ((a * a + b * b + c * c) * (d * d + e * e + f * f) - (a * d + b * e + c * f) * (a * d + b * e + c * f)) * (k * k)
  BY <1>1
<1> QED BY <1>3, <1>4, <1>5, <1>6, Zenon DEF Off, a, b, c, d, e, f, x

(* A quadratic q(w) of leading coefficient a >= 0, least where b + a * w   *)
(* vanishes: of two values the one nearer to there is no greater.          *)
LEMMA NearerIsLess ==
  ASSUME NEW a \in Nat \ {0}, NEW b \in Int, NEW c \in Int, NEW w \in Int, NEW k \in Int, NEW t \in Int, NEW j \in Int,
         ((a * w + b * k) * j) * ((a * w + b * k) * j) <= ((a * t + b * j) * k) * ((a * t + b * j) * k)
  PROVE  (a * (w * w) + 2 * (b * (w * k)) + c * (k * k)) * (j * j) <= (a * (t * t) + 2 * (b * (t * j)) + c * (j * j)) * (k * k)
<1> DEFINE x == (a * (w * w) + 2 * (b * (w * k)) + c * (k * k)) * (j * j)
           y == (a * (t * t) + 2 * (b * (t * j)) + c * (j * j)) * (k * k)
           u == ((a * w + b * k) * j) * ((a * w + b * k) * j)
           v == ((a * t + b * j) * k) * ((a * t + b * j) * k)
           r == (a * c - b * b) * ((k * k) * (j * j))
<1>1. x * a = u + r /\ y * a = v + r
  OBVIOUS
<1>2. x \in Int /\ y \in Int /\ u \in Int /\ v \in Int /\ r \in Int /\ u <= v
  OBVIOUS
<1> HIDE DEF x, y, u, v, r
<1>3. x * a <= y * a
  BY <1>1, <1>2
<1>4. x <= y
  BY <1>2, <1>3, TimesKeepsOrder
<1> QED BY <1>4 DEF x, y

LEMMA LeastOnAxis ==
  ASSUME NEW a \in Nat \ {0}, NEW b \in Int, NEW l \in Nat \ {0}, NEW k, k = 4 * ((l * l) * a),
         NEW s, s = Clamp(2 * (l * (l * a - b)), 0, k), NEW w, w = 2 * (l * s) - l * k
  PROVE  /\ k \in Nat \ {0} /\ w \in Int /\ -(l * k) <= w /\ w <= l * k
         /\ \A t \in Int : \A j \in Nat \ {0} : -(l * j) <= t /\ t <= l * j =>
              ((a * w + b * k) * j) * ((a * w + b * k) * j) <= ((a * t + b * j) * k) * ((a * t + b * j) * k)
<1> DEFINE m == l * a
           num == 2 * (l * (m - b))
<1>1. m \in Nat /\ m # 0 /\ l * m \in Nat /\ l * m # 0
  OBVIOUS
<1>2. k = 4 * (l * m) /\ k \in Nat /\ k # 0
  <2>1. (l * l) * a = l * (l * a)
    OBVIOUS
  <2> QED BY <1>1, <2>1
<1>3. num \in Int /\ s = Clamp(num, 0, k)
  BY <1>1
<1>4. s \in Int /\ 0 <= s /\ s <= k
  BY <1>2, <1>3 DEF Clamp
<1>5. /\ w \in Int /\ l * k \in Nat /\ l * s \in Nat /\ l * s <= l * k
  <2>1. s \in Nat
    BY <1>4
  <2>2. l * s <= l * k
    BY <1>2, <1>4, <2>1, Products
  <2>3. l * k \in Nat /\ l * s \in Nat
    BY <1>2, <2>1
  <2> QED BY <2>2, <2>3
<1>6. -(l * k) <= w /\ w <= l * k
  BY <1>5
<1>7. ASSUME NEW t \in Int, NEW j \in Nat \ {0}, -(l * j) <= t, t <= l * j
      PROVE  ((a * w + b * k) * j) * ((a * w + b * k) * j) <= ((a * t + b * j) * k) * ((a * t + b * j) * k)
  <2> DEFINE y == a * w + b * k
             z == a * t + b * j
  <2>1. y \in Int /\ z \in Int
    BY <1>2, <1>5
  <2>2. j * (b - m) <= z /\ z <= j * (b + m)
    <3>1. a * t <= a * (l * j) /\ a * (-(l * j)) <= a * t
      <4>1. a * (l * j - t) >= 0 /\ a * (t + l * j) >= 0
        BY <1>7
      <4>2. a * (l * j - t) = a * (l * j) - a * t /\ a * (t + l * j) = a * t - a * (-(l * j))
        OBVIOUS
      <4>3. a * t \in Int /\ a * (l * j) \in Int /\ a * (-(l * j)) \in Int
        OBVIOUS
      <4> QED BY <4>1, <4>2, <4>3
    <3>2. a * (l * j) = j * m /\ a * (-(l * j)) = -(j * m) /\ j * (b - m) = b * j - j * m /\ j * (b + m) = b * j + j * m
      OBVIOUS
    <3>3. a * t \in Int /\ j * m \in Int /\ b * j \in Int
      BY <1>1
    <3> QED BY <3>1, <3>2, <3>3
  <2>3. CASE 0 <= num /\ num <= k
    <3>1. s = num
      BY <1>2, <1>3, <2>3 DEF Clamp
    <3>2. y = 0
      <4>1. w = 4 * ((l * l) * (m - b)) - l * k
        BY <3>1, <1>1
      <4>2. a * w = 4 * ((a * (l * l)) * (m - b)) - m * k
        <5> DEFINE c == m - b
        <5>1. c \in Int /\ m \in Int /\ k \in Int /\ a * l = m
          BY <1>1, <1>2
        <5>2. w = 4 * ((l * l) * c) - l * k
          BY <4>1
        <5> HIDE DEF c, m
        <5>3. a * w = 4 * ((a * (l * l)) * c) - (a * l) * k
          BY <5>1, <5>2
        <5> QED BY <5>1, <5>3 DEF c
      <4>3. k = 4 * (a * (l * l))
        OBVIOUS
      <4>4. 4 * ((a * (l * l)) * (m - b)) = k * (m - b)
        BY <1>1, <4>3
      <4>5. k * (m - b) = m * k - b * k
        BY <1>1, <1>2
      <4>6. m * k \in Int /\ b * k \in Int
        BY <1>1, <1>2
      <4> HIDE DEF m
      <4> QED BY <4>2, <4>4, <4>5, <4>6
    <3>3. z * k \in Int
      BY <1>2, <2>1
    <3> HIDE DEF y, z
    <3>4. (y * j) * (y * j) = 0
      BY <3>2
    <3>5. (z * k) * (z * k) \in Nat
      BY <3>3, Squares, 0 \in Nat
    <3>6. (y * j) * (y * j) <= (z * k) * (z * k)
      BY <3>4, <3>5
    <3> QED BY <3>6 DEF y, z
  <2>4. CASE num < 0
    <3>1. s = 0 /\ w = -(l * k)
      BY <1>2, <1>3, <1>5, <2>4 DEF Clamp
    <3>2. m - b < 0
      <4>1. m - b >= 0 => num >= 0
        BY <1>1
      <4> QED BY <1>1, <1>3, <2>4, <4>1
    <3>3. y = k * (b - m)
      BY <1>2, <3>1
    <3> DEFINE d == b - m
    <3>4. d \in Nat /\ d # 0 /\ y = k * d /\ j * d <= z
      BY <1>1, <2>2, <3>2, <3>3
    <3> HIDE DEF m, num, y, z, d
    <3>5. j * d \in Nat /\ z \in Nat
      <4>1. j * d \in Nat
        BY <3>4
      <4> QED BY <2>1, <3>4, <4>1
    <3>6. y * j = (j * d) * k
      BY <1>2, <3>4
    <3>7. (j * d) * k <= z * k
      BY <1>2, <3>4, <3>5, Products
    <3>8. (j * d) * k \in Nat /\ z * k \in Nat
      BY <1>2, <3>5
    <3>9. (y * j) * (y * j) <= (z * k) * (z * k)
      BY <3>6, <3>7, <3>8, Products
    <3> QED BY <3>9 DEF y, z
  <2>5. CASE num > k
    <3>1. s = k /\ w = l * k
      BY <1>2, <1>3, <1>5, <2>5 DEF Clamp
    <3>2. b + m < 0
      <4>1. num = 2 * (l * m) - 2 * (l * b) /\ l * b \in Int
        BY <1>1
      <4>2. l * m + l * b < 0
        BY <1>1, <1>2, <2>5, <4>1
      <4>3. l * m + l * b = l * (b + m)
        BY <1>1
      <4>4. b + m >= 0 => l * (b + m) >= 0
        BY <1>1
      <4> QED BY <1>1, <4>2, <4>3, <4>4
    <3>3. y = k * (b + m)
      BY <1>2, <3>1
    <3> DEFINE d == -(b + m)
               x == -z
    <3>4. d \in Nat /\ d # 0 /\ y = -(k * d) /\ x \in Int
      BY <1>1, <1>2, <2>1, <3>2, <3>3
    <3>5. j * d <= x
      <4>1. j * d = -(j * (b + m)) /\ j * (b + m) \in Int
        BY <1>1
      <4> HIDE DEF d, z
      <4> QED BY <2>1, <2>2, <4>1
    <3>6. z * k = -(x * k)
      BY <1>2, <2>1
    <3> HIDE DEF m, num, y, z, d, x
    <3>7. j * d \in Nat /\ x \in Nat
      <4>1. j * d \in Nat
        BY <3>4
      <4> QED BY <3>4, <3>5, <4>1
    <3>8. y * j = -((j * d) * k)
      BY <1>2, <3>4
    <3>9. (j * d) * k <= x * k
      BY <1>2, <3>5, <3>7, Products
    <3>10. (j * d) * k \in Nat /\ x * k \in Nat
      BY <1>2, <3>7
    <3>11. ((j * d) * k) * ((j * d) * k) <= (x * k) * (x * k)
      BY <3>9, <3>10, Products
    <3>12. (y * j) * (y * j) = ((j * d) * k) * ((j * d) * k) /\ (z * k) * (z * k) = (x * k) * (x * k)
      BY <3>6, <3>8, <3>10
    <3> QED BY <3>11, <3>12 DEF y, z
  <2> QED BY <1>2, <1>3, <2>3, <2>4, <2>5
<1> QED BY <1>2, <1>5, <1>6, <1>7

(* The clamped closest-point formula of TestRayAgainstPlayerCapsule is     *)
(* exact: no point of the axis is closer to the line of the shot than the  *)
(* one tested, be the shot parallel to the axis or not.                    *)
LEMMA TestedIsNearest ==
  ASSUME NEW O \in Vec, NEW D \in Vec, NEW centre \in Vec, D # <<0, 0, 0>>
  PROVE  \E w \in Int : \E k \in Nat \ {0} : LET E == Sub(centre, O) IN
           /\ TestRayAgainstPlayerCapsule(O, D, centre) = TestAxisPoint(D, ToAxis(E, w, k), k)
           /\ -Reach(k) <= w /\ w <= Reach(k)
           /\ \A t \in Int : \A j \in Nat \ {0} : -Reach(j) <= t /\ t <= Reach(j) =>
                Off(D, ToAxis(E, w, k)) * (j * j) <= Off(D, ToAxis(E, t, j)) * (k * k)
<1> DEFINE E == Sub(centre, O)
           l == CylinderHalfLen
           a == D[1] * D[1] + D[2] * D[2]
           b == Dot(D, D) * E[3] - Dot(D, E) * D[3]
           c == Off(D, E)
           s == AxisPoint(O, D, centre)
           w == 2 * (l * s[1]) - l * s[2]
           k == s[2]
           num == 2 * (l * (l * a - b))
           denom == 4 * ((l * l) * a)
<1>1. /\ l \in Nat \ {0} /\ E \in Vec /\ D[1] \in Int /\ D[2] \in Int /\ D[3] \in Int
      /\ E[1] \in Int /\ E[2] \in Int /\ E[3] \in Int
      /\ O[1] \in Int /\ O[2] \in Int /\ O[3] \in Int
      /\ centre[1] \in Int /\ centre[2] \in Int /\ centre[3] \in Int
  <2>1. E \in Vec /\ l \in Nat \ {0}
    BY Vectors, Sizes, 0 \in Int
  <2> HIDE DEF E, l
  <2> QED BY <2>1, Vectors, 0 \in Int
<1>2. a \in Nat /\ b \in Int /\ c \in Int
  <2>1. D[1] * D[1] \in Nat /\ D[2] * D[2] \in Nat
    BY <1>1, Squares, 0 \in Nat
  <2>2. Dot(D, D) \in Int /\ Dot(D, E) \in Int /\ Dot(E, E) \in Int
    <3> HIDE DEF E
    <3> QED BY <1>1, Vectors, 0 \in Int
  <2>3. c \in Int
    BY <2>2 DEF Off
  <2> HIDE DEF c
  <2> QED BY <1>1, <2>1, <2>2, <2>3
<1>3. s = IF denom > 0 THEN <<Clamp(num, 0, denom), denom>> ELSE <<0, 1>>
  <2> DEFINE r == Sub(O, Bottom(centre))
  <2>1. /\ E = <<centre[1] - O[1], centre[2] - O[2], centre[3] - O[3]>>
        /\ r = <<O[1] - (centre[1] - 0), O[2] - (centre[2] - 0), O[3] - (centre[3] - l)>>
    BY <1>1 DEF Sub, Bottom
  <2>2. r = <<-E[1], -E[2], l - E[3]>>
    BY <1>1, <2>1
  <2> HIDE DEF r, E, l
  <2>3. /\ Dot(Axis, Axis) = 4 * (l * l) /\ Dot(D, Axis) = 2 * (l * D[3])
        /\ Dot(Axis, r) = 2 * (l * (l - E[3]))
        /\ Dot(D, r) = D[3] * l - Dot(D, E)
    <3>1. Axis = <<0, 0, 2 * l>>
      BY DEF Axis, l
    <3> QED BY <1>1, <2>2, <3>1 DEF Dot
  <2> DEFINE n == Dot(D, D)
             f == Dot(D, E)
  <2>4. n = D[1] * D[1] + D[2] * D[2] + D[3] * D[3] /\ n \in Int /\ f \in Int
    BY <1>1, Vectors, 0 \in Int DEF Dot
  <2>5. n * Dot(Axis, Axis) - Dot(D, Axis) * Dot(D, Axis) = denom
    <3> DEFINE x == D[1] y == D[2] z == D[3]
    <3>1. n = x * x + y * y + z * z /\ a = x * x + y * y /\ Dot(Axis, Axis) = 4 * (l * l) /\ Dot(D, Axis) = 2 * (l * z)
      BY <2>3, <2>4
    <3>2. x \in Int /\ y \in Int /\ z \in Int /\ l \in Int
      BY <1>1
    <3> HIDE DEF n, x, y, z, a
    <3>3. (x * x + y * y + z * z) * (4 * (l * l)) - (2 * (l * z)) * (2 * (l * z)) = 4 * ((l * l) * (x * x + y * y))
      BY <3>2
    <3> QED BY <3>1, <3>3, Zenon
  <2>6. n * Dot(Axis, r) - Dot(D, Axis) * Dot(D, r) = num
    <3> DEFINE x == D[1] y == D[2] z == D[3] e == E[3]
    <3>1. n = x * x + y * y + z * z /\ b = n * e - f * z /\ a = x * x + y * y
      BY <2>4
    <3>2. x \in Int /\ y \in Int /\ z \in Int /\ e \in Int
      BY <1>1
    <3>3. Dot(Axis, r) = 2 * (l * (l - e)) /\ Dot(D, Axis) = 2 * (l * z) /\ Dot(D, r) = z * l - f
      BY <2>3
    <3> HIDE DEF n, f, x, y, z, e, a, b
    <3>4. (x * x + y * y + z * z) * (2 * (l * (l - e))) - (2 * (l * z)) * (z * l - f)
            = 2 * (l * (l * (x * x + y * y) - ((x * x + y * y + z * z) * e - f * z)))
      BY <1>1, <2>4, <3>2
    <3> QED BY <3>1, <3>3, <3>4, Zenon
  <2> QED BY <2>5, <2>6, Zenon DEF AxisPoint, r
<1>4. TestRayAgainstPlayerCapsule(O, D, centre)
        = TestAxisPoint(D, Add(Times(s[2], Sub(Bottom(centre), O)), Times(s[1], Axis)), s[2])
  BY Zenon DEF TestRayAgainstPlayerCapsule
<1>5. s[1] \in Int /\ s[2] \in Int => Add(Times(s[2], Sub(Bottom(centre), O)), Times(s[1], Axis)) = ToAxis(E, w, k)
  <2> HIDE DEF s
  <2>1. SUFFICES ASSUME s[1] \in Int, s[2] \in Int
                 PROVE  Add(Times(s[2], Sub(Bottom(centre), O)), Times(s[1], Axis)) = ToAxis(E, w, k)
    OBVIOUS
  <2> DEFINE p == s[1] q == s[2] x == centre[1] - O[1] y == centre[2] - O[2] z == centre[3] - O[3]
  <2>2. Add(Times(s[2], Sub(Bottom(centre), O)), Times(s[1], Axis))
          = <<q * ((centre[1] - 0) - O[1]) + p * 0, q * ((centre[2] - 0) - O[2]) + p * 0,
              q * ((centre[3] - l) - O[3]) + p * (2 * l)>>
    BY DEF Add, Times, Sub, Bottom, Axis
  <2>3. ToAxis(E, w, k) = <<q * x + 0, q * y + 0, q * z + (2 * (l * p) - l * q)>>
    BY DEF Add, Times, Sub, ToAxis
  <2>4. /\ q * ((centre[1] - 0) - O[1]) + p * 0 = q * x + 0
        /\ q * ((centre[2] - 0) - O[2]) + p * 0 = q * y + 0
    BY <1>1, <2>1
  <2>5. q * ((centre[3] - l) - O[3]) + p * (2 * l) = q * z + (2 * (l * p) - l * q)
    BY <1>1, <2>1
  <2> HIDE DEF p, q, x, y, z, l
  <2> QED BY <2>2, <2>3, <2>4, <2>5
<1>6. \A t, j \in Int : Off(D, ToAxis(E, t, j)) = a * (t * t) + 2 * (b * (t * j)) + c * (j * j)
  <2> HIDE DEF E
  <2> QED BY <1>1, OffIs
<1>7. \A j : Reach(j) = l * j
  BY DEF Reach
<1> HIDE DEF E, l, a, b, c, s
<1>8. /\ s[1] \in Int /\ k \in Nat \ {0} /\ w \in Int /\ -(l * k) <= w /\ w <= l * k
      /\ \A t \in Int : \A j \in Nat \ {0} : -(l * j) <= t /\ t <= l * j =>
           (a * (w * w) + 2 * (b * (w * k)) + c * (k * k)) * (j * j) <= (a * (t * t) + 2 * (b * (t * j)) + c * (j * j)) * (k * k)
  <2>1. CASE a = 0
    <3>1. denom = 0
      BY <1>1, <2>1
    <3>2. s = <<0, 1>>
      BY <1>3, <3>1
    <3>3. w = -l /\ k = 1
      BY <1>1, <3>2
    <3>4. b = 0
      <4>1. D[1] * D[1] \in Nat /\ D[2] * D[2] \in Nat
        BY <1>1, Squares, 0 \in Nat
      <4>2. D[1] * D[1] = 0 /\ D[2] * D[2] = 0
        BY <2>1, <4>1 DEF a
      <4>3. D[1] = 0 /\ D[2] = 0
        <5>1. \A x \in Int : x * x = 0 => x = 0
          BY Squares, 0 \in Nat
        <5> QED BY <1>1, <4>2, <5>1
      <4>4. Dot(D, D) = D[3] * D[3] /\ Dot(D, E) = D[3] * E[3]
        BY <1>1, <4>3 DEF Dot
      <4> QED BY <1>1, <4>4 DEF b
    <3>5. ASSUME NEW t \in Int, NEW j \in Nat \ {0}
          PROVE  (a * (w * w) + 2 * (b * (w * k)) + c * (k * k)) * (j * j) <= (a * (t * t) + 2 * (b * (t * j)) + c * (j * j)) * (k * k)
      <4>1. a * (w * w) = 0 /\ b * (w * k) = 0 /\ a * (t * t) = 0 /\ b * (t * j) = 0 /\ k * k = 1
        BY <1>1, <2>1, <3>3, <3>4
      <4>2. c * (j * j) \in Int
        BY <1>2
      <4>3. (0 + 2 * 0 + c * 1) * (j * j) = c * (j * j) /\ (0 + 2 * 0 + c * (j * j)) * 1 = c * (j * j)
        BY <1>2, <4>2
      <4> QED BY <4>1, <4>2, <4>3
    <3>6. -(l * k) <= w /\ w <= l * k /\ w \in Int
      BY <1>1, <3>3
    <3> QED BY <3>2, <3>3, <3>5, <3>6
  <2>2. CASE a # 0
    <3>1. denom > 0
      <4>1. (l * l) * a > 0
        BY <1>1, <1>2, <2>2
      <4> QED BY <1>1, <1>2, <4>1
    <3>2. s = <<Clamp(num, 0, denom), denom>>
      BY <1>3, <3>1
    <3>3. k = 4 * ((l * l) * a) /\ s[1] = Clamp(2 * (l * (l * a - b)), 0, k)
      BY <3>2
    <3>4. a \in Nat \ {0}
      BY <1>2, <2>2
    <3>5. /\ k \in Nat \ {0} /\ w \in Int /\ -(l * k) <= w /\ w <= l * k
          /\ \A t \in Int : \A j \in Nat \ {0} : -(l * j) <= t /\ t <= l * j =>
               ((a * w + b * k) * j) * ((a * w + b * k) * j) <= ((a * t + b * j) * k) * ((a * t + b * j) * k)
      <4> DEFINE x == s[1] v == w y == k
      <4>1. y = 4 * ((l * l) * a) /\ x = Clamp(2 * (l * (l * a - b)), 0, y) /\ v = 2 * (l * x) - l * y
        BY <3>3
      <4> HIDE DEF x, v, y
      <4> DEFINE Least(p, q, r) ==
                   /\ q \in Nat \ {0} /\ r \in Int /\ -(l * q) <= r /\ r <= l * q
                   /\ \A t \in Int : \A j \in Nat \ {0} : -(l * j) <= t /\ t <= l * j =>
                        ((a * r + b * q) * j) * ((a * r + b * q) * j) <= ((a * t + b * j) * q) * ((a * t + b * j) * q)
      <4>2. \A q, p, r : q = 4 * ((l * l) * a) /\ p = Clamp(2 * (l * (l * a - b)), 0, q) /\ r = 2 * (l * p) - l * q
                          => Least(p, q, r)
        BY <1>1, <1>2, <3>4, LeastOnAxis
      <4>3. Least(x, y, v)
        <5> HIDE DEF Least
        <5> QED BY <4>1, <4>2, Zenon
      <4>4. /\ y \in Nat \ {0} /\ v \in Int /\ -(l * y) <= v /\ v <= l * y
            /\ \A t \in Int : \A j \in Nat \ {0} : -(l * j) <= t /\ t <= l * j =>
                 ((a * v + b * y) * j) * ((a * v + b * y) * j) <= ((a * t + b * j) * y) * ((a * t + b * j) * y)
        BY <4>3, Zenon
      <4> QED BY <4>4 DEF x, v, y
    <3>6. num \in Int
      BY <1>1, <1>2
    <3> HIDE DEF w, k, num
    <3>7. s[1] \in Int
      <4>1. s[1] = Clamp(num, 0, k)
        BY <3>3 DEF num
      <4> QED BY <3>5, <3>6, <4>1 DEF Clamp
    <3>8. ASSUME NEW t \in Int, NEW j \in Nat \ {0}, -(l * j) <= t, t <= l * j
          PROVE  (a * (w * w) + 2 * (b * (w * k)) + c * (k * k)) * (j * j) <= (a * (t * t) + 2 * (b * (t * j)) + c * (j * j)) * (k * k)
      <4>1. ((a * w + b * k) * j) * ((a * w + b * k) * j) <= ((a * t + b * j) * k) * ((a * t + b * j) * k)
        BY <3>5, <3>8
      <4>2. k \in Int /\ j \in Int /\ w \in Int
        BY <3>5
      <4> QED BY <1>2, <3>4, <4>1, <4>2, NearerIsLess
    <3> QED BY <3>5, <3>7, <3>8
  <2> QED BY <2>1, <2>2
<1> HIDE DEF w, k
<1>9. TestRayAgainstPlayerCapsule(O, D, centre) = TestAxisPoint(D, ToAxis(E, w, k), k)
  <2>1. s[2] = k /\ s[2] \in Int
    BY <1>8 DEF k
  <2> QED BY <1>4, <1>5, <1>8, <2>1
<1>10. ASSUME NEW t \in Int, NEW j \in Nat \ {0}, -Reach(j) <= t, t <= Reach(j)
       PROVE  Off(D, ToAxis(E, w, k)) * (j * j) <= Off(D, ToAxis(E, t, j)) * (k * k)
  <2>1. k \in Int /\ j \in Int /\ w \in Int /\ -(l * j) <= t /\ t <= l * j
    BY <1>7, <1>8, <1>10
  <2> QED BY <1>6, <1>8, <2>1
<1> QED BY <1>7, <1>8, <1>9, <1>10 DEF E

LEMMA Nonzero ==
  ASSUME NEW D \in Vec, D # <<0, 0, 0>>
  PROVE  Dot(D, D) \in Nat \ {0}
<1>1. D[1] \in Int /\ D[2] \in Int /\ D[3] \in Int /\ D = <<D[1], D[2], D[3]>> /\ Dot(D, D) \in Nat
  BY Vectors, 0 \in Int
<1>2. D[1] * D[1] \in Nat /\ D[2] * D[2] \in Nat /\ D[3] * D[3] \in Nat
  BY <1>1, Squares, 0 \in Nat
<1>3. \A x \in Int : x * x = 0 => x = 0
  BY Squares, 0 \in Nat
<1>4. SUFFICES ASSUME Dot(D, D) = 0 PROVE FALSE
  BY <1>1
<1>5. D[1] * D[1] = 0 /\ D[2] * D[2] = 0 /\ D[3] * D[3] = 0
  BY <1>2, <1>4 DEF Dot
<1> QED BY <1>1, <1>3, <1>5

(* Places of a shot: where it is closest to a point of the axis, and what  *)
(* a place in the capsule says about such points.                          *)
LEMMA PlaceInside ==
  ASSUME NEW O \in Vec, NEW D \in Vec, NEW centre \in Vec, NEW w \in Int, NEW k \in Nat,
         -Reach(k) <= w, w <= Reach(k),
         NEW x, x = ToAxis(Sub(centre, O), w, k), NEW p, p = Dot(D, x), NEW n, n = Dot(D, D),
         Off(D, x) <= (Radius * Radius * n) * (k * k)
  PROVE  Meets(O, D, centre, <<p, n * k>>)
<1> DEFINE v == HitPlace(O, D, centre, <<p, n * k>>)
           y == OffAxis(v, n * w)
           m == n * k
           A == D[1] B == D[2] C == D[3]
           a == centre[1] - O[1] b == centre[2] - O[2] c == centre[3] - O[3]
<1>1. Sub(centre, O) \in Vec
  BY Vectors, 0 \in Int
<1>2. x \in Vec /\ n \in Nat /\ p \in Int /\ Off(D, x) \in Int
  <2>1. x \in Vec
    BY <1>1, OffIs
  <2>2. n \in Nat /\ p \in Int /\ Dot(x, x) \in Int
    BY <2>1, Vectors, 0 \in Int
  <2> QED BY <2>1, <2>2 DEF Off
<1>3. m \in Nat
  BY <1>2
<1>4. /\ A \in Int /\ B \in Int /\ C \in Int /\ a \in Int /\ b \in Int /\ c \in Int
      /\ centre[1] \in Int /\ centre[2] \in Int /\ centre[3] \in Int /\ O[1] \in Int /\ O[2] \in Int /\ O[3] \in Int
  <2>1. /\ A \in Int /\ B \in Int /\ C \in Int
        /\ centre[1] \in Int /\ centre[2] \in Int /\ centre[3] \in Int /\ O[1] \in Int /\ O[2] \in Int /\ O[3] \in Int
    BY Vectors, 0 \in Int
  <2> QED BY <2>1
<1>5. x = <<k * a + 0, k * b + 0, k * c + w>>
  BY DEF ToAxis, Add, Times, Sub
<1>6. v = <<m * (O[1] - centre[1]) + p * A, m * (O[2] - centre[2]) + p * B, m * (O[3] - centre[3]) + p * C>>
  BY DEF HitPlace, Add, Times, Sub
<1>7. v \in Vec
  BY <1>2, <1>3, <1>4, <1>6 DEF Vec
<1>8. x[1] = k * a /\ x[2] = k * b /\ x[3] = k * c + w
  BY <1>4, <1>5
<1>9. y = <<p * A - n * x[1], p * B - n * x[2], p * C - n * x[3]>>
  <2>1. y = <<v[1], v[2], v[3] - n * w>>
    BY DEF OffAxis
  <2>2. /\ O[1] - centre[1] = -a /\ O[2] - centre[2] = -b /\ O[3] - centre[3] = -c
    BY <1>4
  <2>3. v[1] = m * (-a) + p * A /\ v[2] = m * (-b) + p * B /\ v[3] = m * (-c) + p * C
    BY <1>6, <2>2
  <2>4. /\ m * (-a) + p * A = p * A - n * (k * a) /\ m * (-b) + p * B = p * B - n * (k * b)
        /\ (m * (-c) + p * C) - n * w = p * C - n * (k * c + w)
    <3> HIDE DEF a, b, c, A, B, C
    <3> QED BY <1>2, <1>4
  <2> HIDE DEF a, b, c, A, B, C, v, y, m
  <2> QED BY <1>8, <2>1, <2>3, <2>4
<1>10. Dot(y, y) = n * Off(D, x)
  <2> DEFINE d == x[1] e == x[2] f == x[3]
             N == A * A + B * B + C * C
             P == A * d + B * e + C * f
  <2>1. d \in Int /\ e \in Int /\ f \in Int
    BY <1>2, Vectors, 0 \in Int
  <2>2. n = N /\ p = P /\ Off(D, x) = N * (d * d + e * e + f * f) - P * P
    BY DEF Dot, Off
  <2>3. Dot(y, y) = (p * A - n * d) * (p * A - n * d) + (p * B - n * e) * (p * B - n * e) + (p * C - n * f) * (p * C - n * f)
    <3> HIDE DEF y, A, B, C, d, e, f
    <3>1. y = <<p * A - n * d, p * B - n * e, p * C - n * f>>
      BY <1>9, Zenon DEF d, e, f
    <3> QED BY <3>1 DEF Dot
  <2> HIDE DEF A, B, C, d, e, f, y
  <2>4. (P * A - N * d) * (P * A - N * d) + (P * B - N * e) * (P * B - N * e) + (P * C - N * f) * (P * C - N * f)
          = N * (N * (d * d + e * e + f * f) - P * P)
    BY <1>4, <2>1
  <2> HIDE DEF N, P
  <2> QED BY <2>2, <2>3, <2>4, Zenon
<1>11. Dot(y, y) <= (Radius * m) * (Radius * m)
  <2> DEFINE o == Off(D, x)
             r == Radius * Radius * n
  <2>1. r \in Nat /\ k * k \in Nat /\ o \in Int /\ r * (k * k) \in Nat /\ Radius \in Nat
    <3>1. Radius \in Nat /\ Radius * Radius \in Nat
      BY Sizes
    <3>2. r \in Nat /\ k * k \in Nat
      BY <1>2, <3>1
    <3> HIDE DEF r
    <3> QED BY <1>2, <3>1, <3>2
  <2>2. n * o <= n * (r * (k * k))
    <3> HIDE DEF r, o
    <3>1. o <= r * (k * k)
      BY DEF r, o
    <3>2. n * (r * (k * k) - o) >= 0
      BY <1>2, <2>1, <3>1
    <3>3. n * (r * (k * k) - o) = n * (r * (k * k)) - n * o /\ n * o \in Int /\ n * (r * (k * k)) \in Int
      BY <1>2, <2>1
    <3> QED BY <3>2, <3>3
  <2>3. n * (r * (k * k)) = (Radius * m) * (Radius * m)
    BY <1>2, <2>1
  <2> HIDE DEF r, y, m
  <2> QED BY <1>10, <2>2, <2>3
<1>12. -Reach(m) <= n * w /\ n * w <= Reach(m) /\ n * w \in Int
  <2> DEFINE h == Reach(k)
  <2>1. h \in Nat /\ -h <= w /\ w <= h
    BY <1>7, InCapsuleIs
  <2>2. Reach(m) = n * h
    BY <1>2, Sizes DEF Reach
  <2> HIDE DEF h, m
  <2>3. n * (h - w) >= 0 /\ n * (h + w) >= 0
    BY <1>2, <2>1
  <2>4. n * (h - w) = n * h - n * w /\ n * (h + w) = n * h + n * w /\ n * h \in Int /\ n * w \in Int
    BY <1>2, <2>1
  <2> QED BY <2>2, <2>3, <2>4
<1> HIDE DEF m, v
<1>13. InCapsule(v, m)
  BY <1>3, <1>7, <1>11, <1>12, InCapsuleIs
<1> QED BY <1>13, Zenon DEF Meets, v, m

LEMMA MetIsNear ==
  ASSUME NEW O \in Vec, NEW D \in Vec, NEW centre \in Vec, NEW a \in Int, NEW j \in Nat \ {0},
         Meets(O, D, centre, <<a, j>>)
  PROVE  \E t \in Int : /\ -Reach(j) <= t /\ t <= Reach(j)
                        /\ Off(D, ToAxis(Sub(centre, O), t, j)) <= (Radius * Radius * Dot(D, D)) * (j * j)
<1> DEFINE v == HitPlace(O, D, centre, <<a, j>>)
           n == Dot(D, D)
           A == D[1] B == D[2] C == D[3]
           E == Sub(centre, O)
<1>1. E \in Vec /\ n \in Nat
  BY Vectors, 0 \in Int
<1>2. /\ A \in Int /\ B \in Int /\ C \in Int
      /\ centre[1] \in Int /\ centre[2] \in Int /\ centre[3] \in Int /\ O[1] \in Int /\ O[2] \in Int /\ O[3] \in Int
  BY Vectors, 0 \in Int
<1>3. v = <<j * (O[1] - centre[1]) + a * A, j * (O[2] - centre[2]) + a * B, j * (O[3] - centre[3]) + a * C>>
  BY DEF HitPlace, Add, Times, Sub
<1>4. v \in Vec
  BY <1>2, <1>3 DEF Vec
<1>5. InCapsule(v, j)
  BY Zenon DEF Meets, v
<1>6. PICK t \in Int : /\ -Reach(j) <= t /\ t <= Reach(j)
                       /\ Dot(OffAxis(v, t), OffAxis(v, t)) <= (Radius * j) * (Radius * j)
  BY <1>4, <1>5, InCapsuleIs
<1> DEFINE y == OffAxis(v, t)
           x == ToAxis(E, t, j)
<1>7. x \in Vec /\ y \in Vec
  <2>1. x \in Vec
    BY <1>1, OffIs
  <2>2. y \in Vec
    BY <1>4, Vectors, 0 \in Int DEF OffAxis, Vec
  <2> QED BY <2>1, <2>2
<1>8. x[1] = a * A - y[1] /\ x[2] = a * B - y[2] /\ x[3] = a * C - y[3]
  <2>1. x = <<j * (centre[1] - O[1]) + 0, j * (centre[2] - O[2]) + 0, j * (centre[3] - O[3]) + t>>
    BY DEF ToAxis, Add, Times, Sub
  <2>2. y[1] = j * (O[1] - centre[1]) + a * A /\ y[2] = j * (O[2] - centre[2]) + a * B
        /\ y[3] = (j * (O[3] - centre[3]) + a * C) - t
    BY <1>3 DEF OffAxis
  <2>3. x[1] = j * (centre[1] - O[1]) + 0 /\ x[2] = j * (centre[2] - O[2]) + 0 /\ x[3] = j * (centre[3] - O[3]) + t
    BY <2>1
  <2> HIDE DEF x, y, A, B, C
  <2> QED BY <1>2, <2>2, <2>3
<1>9. Off(D, x) = n * Dot(y, y) - Dot(D, y) * Dot(D, y)
  <2> DEFINE d == y[1] e == y[2] f == y[3]
             N == A * A + B * B + C * C
  <2>1. d \in Int /\ e \in Int /\ f \in Int
    BY <1>7, Vectors, 0 \in Int
  <2>2. n = N /\ Dot(y, y) = d * d + e * e + f * f /\ Dot(D, y) = A * d + B * e + C * f
    BY DEF Dot
  <2>3. Dot(x, x) = (a * A - d) * (a * A - d) + (a * B - e) * (a * B - e) + (a * C - f) * (a * C - f)
        /\ Dot(D, x) = A * (a * A - d) + B * (a * B - e) + C * (a * C - f)
    <3> HIDE DEF x, y, A, B, C
    <3>1. x[1] = a * A - d /\ x[2] = a * B - e /\ x[3] = a * C - f
      BY <1>8
    <3> HIDE DEF d, e, f
    <3> QED BY <3>1 DEF Dot, A, B, C
  <2>4. N * ((a * A - d) * (a * A - d) + (a * B - e) * (a * B - e) + (a * C - f) * (a * C - f))
          - (A * (a * A - d) + B * (a * B - e) + C * (a * C - f)) * (A * (a * A - d) + B * (a * B - e) + C * (a * C - f))
        = N * (d * d + e * e + f * f) - (A * d + B * e + C * f) * (A * d + B * e + C * f)
    <3> HIDE DEF A, B, C, d, e, f
    <3> QED BY <1>2, <2>1
  <2> HIDE DEF A, B, C, d, e, f, x, y, N, n
  <2> QED BY <2>2, <2>3, <2>4, Zenon DEF Off, n
<1>10. Off(D, x) <= (Radius * Radius * n) * (j * j)
  <2> DEFINE q == Dot(y, y) p == Dot(D, y) r == (Radius * j) * (Radius * j)
  <2>1. q \in Nat /\ p \in Int /\ p * p \in Nat
    <3>1. q \in Nat /\ p \in Int
      BY <1>7, Vectors, 0 \in Int
    <3> HIDE DEF p, q
    <3> QED BY <3>1, Squares, 0 \in Nat
  <2>2. q <= r /\ r \in Nat
    <3>1. Radius * j \in Nat
      BY Sizes
    <3>2. r \in Nat
      BY <3>1
    <3> QED BY <1>6, <3>2
  <2>3. (Radius * Radius * n) * (j * j) = n * r
    <3> HIDE DEF n
    <3> QED BY <1>1, Sizes
  <2> HIDE DEF q, p, r, n, x, y
  <2>4. n * q <= n * r
    BY <1>1, <2>1, <2>2, Products
  <2>5. n * q \in Int /\ n * r \in Int
    BY <1>1, <2>1, <2>2
  <2>6. Off(D, x) = n * q - p * p
    BY <1>9 DEF q, p
  <2> QED BY <2>1, <2>3, <2>4, <2>5, <2>6
<1> QED BY <1>6, <1>10

(* What a test tells: the place it looks at is in the capsule if any place *)
(* of the line is, and the player is hit if that place is ahead and in     *)
(* range.                                                                  *)
Far(D, t) == t[1] * t[1] * Dot(D, D) > (MaxRange * MaxRange) * (t[2] * t[2])

LEMMA TestIs ==
  ASSUME NEW O \in Vec, NEW D \in Vec, NEW centre \in Vec, D # <<0, 0, 0>>
  PROVE  LET r == TestRayAgainstPlayerCapsule(O, D, centre)
         IN  /\ r.t = <<r.t[1], r.t[2]>> /\ r.t[1] \in Int /\ r.t[2] \in Nat \ {0}
             /\ (\E a \in Int : \E j \in Nat \ {0} : Meets(O, D, centre, <<a, j>>)) => Meets(O, D, centre, r.t)
             /\ r.hit <=> r.t[1] >= 0 /\ ~Far(D, r.t) /\ Meets(O, D, centre, r.t)
             /\ \E w \in Int : \E k \in Nat \ {0} :
                  /\ -Reach(k) <= w /\ w <= Reach(k)
                  /\ r.t = <<Dot(D, ToAxis(Sub(centre, O), w, k)), Dot(D, D) * k>>
<1> DEFINE E == Sub(centre, O)
           n == Dot(D, D)
           r == TestRayAgainstPlayerCapsule(O, D, centre)
<1>1. PICK w \in Int, k \in Nat \ {0} :
           /\ r = TestAxisPoint(D, ToAxis(E, w, k), k)
           /\ -Reach(k) <= w /\ w <= Reach(k)
           /\ \A t \in Int : \A j \in Nat \ {0} : -Reach(j) <= t /\ t <= Reach(j) =>
                Off(D, ToAxis(E, w, k)) * (j * j) <= Off(D, ToAxis(E, t, j)) * (k * k)
  BY TestedIsNearest, Zenon
<1> DEFINE x == ToAxis(E, w, k)
           p == Dot(D, x)
           m == n * k
           Outside == Off(D, x) > (Radius * Radius * n) * (k * k)
           Beyond == p * p > ((MaxRange * MaxRange) * n) * (k * k)
<1>2. E \in Vec /\ x \in Vec /\ n \in Nat \ {0} /\ p \in Int /\ Off(D, x) \in Int /\ Dot(x, x) \in Int
  <2>1. E \in Vec
    BY Vectors, 0 \in Int
  <2>2. x \in Vec
    <3> HIDE DEF E
    <3> QED BY <2>1, OffIs
  <2> HIDE DEF x, E
  <2>3. n \in Nat \ {0} /\ p \in Int /\ Dot(x, x) \in Int
    BY <2>2, Nonzero, Vectors, 0 \in Int
  <2> QED BY <2>1, <2>2, <2>3 DEF Off
<1>3. m \in Nat \ {0} /\ k \in Nat /\ MaxRange \in Nat /\ Radius \in Nat
  <2> HIDE DEF n
  <2> QED BY <1>2, Sizes
<1>4. r.t = <<p, m>> /\ (r.hit <=> ~(p < 0) /\ ~Beyond /\ ~Outside)
  <2>1. (MaxRange * MaxRange) * n * k * k = ((MaxRange * MaxRange) * n) * (k * k)
        /\ Radius * Radius * n * k * k = (Radius * Radius * n) * (k * k)
    <3> HIDE DEF n
    <3> QED BY <1>2, <1>3
  <2> HIDE DEF x, r
  <2>2. r = TestAxisPoint(D, x, k)
    BY <1>1 DEF x
  <2> QED BY <2>1, <2>2, Zenon DEF TestAxisPoint, Off
<1>5. ~Outside => Meets(O, D, centre, <<p, m>>)
  <2>1. SUFFICES ASSUME ~Outside PROVE Meets(O, D, centre, <<p, m>>)
    OBVIOUS
  <2>2. Off(D, x) <= (Radius * Radius * n) * (k * k)
    <3>1. (Radius * Radius * n) * (k * k) \in Int
      <4> HIDE DEF n
      <4> QED BY <1>2, <1>3
    <3> HIDE DEF x, n
    <3> QED BY <1>2, <2>1, <3>1
  <2> HIDE DEF x, p, n, E
  <2>3. x = ToAxis(Sub(centre, O), w, k) /\ p = Dot(D, x) /\ n = Dot(D, D)
    BY DEF x, p, n, E
  <2> QED BY <1>1, <1>3, <2>2, <2>3, PlaceInside
<1>6. ASSUME NEW a \in Int, NEW j \in Nat \ {0}, Meets(O, D, centre, <<a, j>>) PROVE ~Outside
  <2>1. PICK t \in Int : /\ -Reach(j) <= t /\ t <= Reach(j)
                         /\ Off(D, ToAxis(E, t, j)) <= (Radius * Radius * n) * (j * j)
    BY <1>6, MetIsNear
  <2> DEFINE o == Off(D, x)
             q == Off(D, ToAxis(E, t, j))
             s == Radius * Radius * n
  <2>2. o * (j * j) <= q * (k * k) /\ q <= s * (j * j)
    BY <1>1, <2>1
  <2>3. o \in Int /\ q \in Int /\ s \in Nat /\ j * j \in Nat /\ k * k \in Nat /\ j * j # 0 /\ s * (j * j) \in Nat
    <3>1. ToAxis(E, t, j) \in Vec
      <4> HIDE DEF E
      <4> QED BY <1>2, OffIs
    <3>2. q \in Int
      <4> DEFINE z == ToAxis(E, t, j)
      <4>1. Dot(D, z) \in Int /\ Dot(z, z) \in Int
        <5> HIDE DEF z
        <5> QED BY <3>1, Vectors, 0 \in Int DEF z
      <4> HIDE DEF z, n
      <4>2. q = n * Dot(z, z) - Dot(D, z) * Dot(D, z)
        BY DEF Off, z, n
      <4> HIDE DEF q
      <4> QED BY <1>2, <4>1, <4>2
    <3>3. s \in Nat /\ j * j \in Nat /\ k * k \in Nat /\ j * j # 0
      <4>1. Radius * Radius \in Nat
        BY <1>3
      <4> HIDE DEF n
      <4> QED BY <1>2, <4>1
    <3> HIDE DEF o, q, s
    <3>4. s * (j * j) \in Nat
      BY <3>3
    <3> QED BY <1>2, <3>2, <3>3, <3>4 DEF o
  <2> HIDE DEF o, q, s
  <2>4. q * (k * k) <= (s * (j * j)) * (k * k)
    BY <2>2, <2>3, TimesKeepsOrder
  <2>5. (s * (j * j)) * (k * k) = (s * (k * k)) * (j * j) /\ s * (k * k) \in Int
    BY <2>3
  <2>6. o * (j * j) <= (s * (k * k)) * (j * j)
    <3>1. o * (j * j) \in Int /\ q * (k * k) \in Int /\ (s * (j * j)) * (k * k) \in Int
      BY <2>3
    <3> QED BY <2>2, <2>4, <2>5, <3>1
  <2>7. o <= s * (k * k)
    BY <2>3, <2>5, <2>6, TimesKeepsOrder
  <2>8. ~(o > s * (k * k))
    BY <2>3, <2>5, <2>7
  <2> QED BY <2>8, Zenon DEF o, s
<1>7. Beyond <=> Far(D, <<p, m>>)
  <2> DEFINE M == MaxRange * MaxRange
             y == p * p
             z == (M * n) * (k * k)
  <2> HIDE DEF n, x, p
  <2>1. M \in Nat
    BY <1>3
  <2>2. Far(D, <<p, m>>) <=> p * p * n > M * (m * m)
    BY DEF Far, n
  <2> HIDE DEF M
  <2>3. M * (m * m) = z * n /\ z \in Int /\ y \in Int /\ p * p * n = y * n
    BY <1>2, <1>3, <2>1
  <2> HIDE DEF y, z, m
  <2>4. (y * n <= z * n) <=> y <= z
    BY <1>2, <2>3, TimesKeepsOrder
  <2>5. y * n \in Int /\ z * n \in Int
    BY <1>2, <2>3
  <2> QED BY <2>2, <2>3, <2>4, <2>5 DEF y, z, M
<1> HIDE DEF Beyond, Outside, p, m, r
<1>8. (\E a \in Int : \E j \in Nat \ {0} : Meets(O, D, centre, <<a, j>>)) => Meets(O, D, centre, r.t)
  BY <1>4, <1>5, <1>6
<1>9. ~Outside <=> Meets(O, D, centre, <<p, m>>)
  BY <1>2, <1>3, <1>5, <1>6
<1>10. r.hit <=> r.t[1] >= 0 /\ ~Far(D, r.t) /\ Meets(O, D, centre, r.t)
  BY <1>2, <1>4, <1>7, <1>9
<1>11. r.t = <<Dot(D, ToAxis(Sub(centre, O), w, k)), Dot(D, D) * k>>
  BY <1>4, Zenon DEF p, m, x, E, n
<1>12. r.t = <<r.t[1], r.t[2]>> /\ r.t[1] \in Int /\ r.t[2] \in Nat \ {0}
  BY <1>2, <1>3, <1>4
<1> QED BY <1>1, <1>8, <1>10, <1>11, <1>12, Zenon DEF r

(* The places of a shot in a capsule are an interval of it.                *)
LEMMA PlaceIs ==
  ASSUME NEW O \in Vec, NEW D \in Vec, NEW centre \in Vec, NEW a \in Int, NEW j \in Int
  PROVE  LET v == HitPlace(O, D, centre, <<a, j>>)
         IN  /\ v \in Vec
             /\ v = <<j * (O[1] - centre[1]) + a * D[1], j * (O[2] - centre[2]) + a * D[2],
                      j * (O[3] - centre[3]) + a * D[3]>>
<1> DEFINE v == HitPlace(O, D, centre, <<a, j>>)
<1>1. /\ D[1] \in Int /\ D[2] \in Int /\ D[3] \in Int
      /\ centre[1] \in Int /\ centre[2] \in Int /\ centre[3] \in Int /\ O[1] \in Int /\ O[2] \in Int /\ O[3] \in Int
  BY Vectors, 0 \in Int
<1>2. v = <<j * (O[1] - centre[1]) + a * D[1], j * (O[2] - centre[2]) + a * D[2],
            j * (O[3] - centre[3]) + a * D[3]>>
  BY DEF HitPlace, Add, Times, Sub
<1>3. v \in Vec
  BY <1>1, <1>2 DEF Vec
<1> QED BY <1>2, <1>3

LEMMA MixedPlaces ==
  ASSUME NEW O \in Vec, NEW D \in Vec, NEW centre \in Vec,
         NEW a \in Int, NEW j \in Nat, NEW b \in Int, NEW k \in Nat, NEW c \in Int, NEW l \in Nat,
         Meets(O, D, centre, <<a, j>>), Meets(O, D, centre, <<b, k>>),
         NEW m \in Nat, NEW n \in Nat, NEW p \in Nat \ {0}, m * a + n * b = p * c, m * j + n * k = p * l
  PROVE  Meets(O, D, centre, <<c, l>>)
<1> DEFINE v == HitPlace(O, D, centre, <<a, j>>)
           u == HitPlace(O, D, centre, <<b, k>>)
           x == HitPlace(O, D, centre, <<c, l>>)
<1>1. InCapsule(v, j) /\ InCapsule(u, k)
  BY Zenon DEF Meets, v, u
<1>2. v \in Vec /\ u \in Vec /\ x \in Vec
  BY PlaceIs
<1>3. Add(Times(m, v), Times(n, u)) = Times(p, x)
  <2> DEFINE A == D[1] B == D[2] C == D[3]
             d == O[1] - centre[1] e == O[2] - centre[2] f == O[3] - centre[3]
  <2>1. A \in Int /\ B \in Int /\ C \in Int /\ d \in Int /\ e \in Int /\ f \in Int
    <3>1. /\ D[1] \in Int /\ D[2] \in Int /\ D[3] \in Int
          /\ centre[1] \in Int /\ centre[2] \in Int /\ centre[3] \in Int /\ O[1] \in Int /\ O[2] \in Int /\ O[3] \in Int
      BY Vectors, 0 \in Int
    <3> QED BY <3>1
  <2>2. /\ v = <<j * d + a * A, j * e + a * B, j * f + a * C>>
        /\ u = <<k * d + b * A, k * e + b * B, k * f + b * C>>
        /\ x = <<l * d + c * A, l * e + c * B, l * f + c * C>>
    BY PlaceIs
  <2> HIDE DEF A, B, C, d, e, f, v, u, x
  <2>3. \A s, t \in Int : m * (j * s + a * t) + n * (k * s + b * t) = p * (l * s + c * t)
    <3>1. SUFFICES ASSUME NEW s \in Int, NEW t \in Int
                   PROVE  m * (j * s + a * t) + n * (k * s + b * t) = p * (l * s + c * t)
      OBVIOUS
    <3>2. m * (j * s + a * t) + n * (k * s + b * t) = (m * j + n * k) * s + (m * a + n * b) * t
      OBVIOUS
    <3>3. p * (l * s + c * t) = (p * l) * s + (p * c) * t
      OBVIOUS
    <3> QED BY <3>2, <3>3, Zenon
  <2>4. /\ v[1] = j * d + a * A /\ v[2] = j * e + a * B /\ v[3] = j * f + a * C
        /\ u[1] = k * d + b * A /\ u[2] = k * e + b * B /\ u[3] = k * f + b * C
        /\ x[1] = l * d + c * A /\ x[2] = l * e + c * B /\ x[3] = l * f + c * C
    BY <2>2
  <2>5. m * v[1] + n * u[1] = p * x[1] /\ m * v[2] + n * u[2] = p * x[2] /\ m * v[3] + n * u[3] = p * x[3]
    <3>1. /\ m * (j * d + a * A) + n * (k * d + b * A) = p * (l * d + c * A)
          /\ m * (j * e + a * B) + n * (k * e + b * B) = p * (l * e + c * B)
          /\ m * (j * f + a * C) + n * (k * f + b * C) = p * (l * f + c * C)
      BY <2>1, <2>3, Zenon
    <3> QED BY <2>4, <3>1, Zenon
  <2> QED BY <2>5 DEF Add, Times
<1> HIDE DEF v, u, x
<1>4. InCapsule(Times(p, x), p * l)
  <2>1. InCapsule(Add(Times(m, v), Times(n, u)), m * j + n * k)
    BY <1>1, <1>2, Between
  <2> QED BY <1>3, <2>1, Zenon
<1>5. InCapsule(x, l)
  BY <1>2, <1>4, Scaled
<1> QED BY <1>5, Zenon DEF Meets, x

LEMMA PlacesBetween ==
  ASSUME NEW O \in Vec, NEW D \in Vec, NEW centre \in Vec,
         NEW a \in Int, NEW j \in Nat \ {0}, NEW b \in Int, NEW k \in Nat \ {0}, NEW c \in Int, NEW l \in Nat \ {0},
         Meets(O, D, centre, <<a, j>>), Meets(O, D, centre, <<b, k>>),
         a * l <= c * j, c * k <= b * l
  PROVE  Meets(O, D, centre, <<c, l>>)
<1> DEFINE m == b * l - c * k
           n == c * j - a * l
           p == b * j - a * k
<1>1. m \in Nat /\ n \in Nat
  OBVIOUS
<1>2. m * a + n * b = p * c /\ m * j + n * k = p * l /\ p \in Int
  OBVIOUS
<1>3. CASE p > 0
  <2>1. p \in Nat \ {0}
    BY <1>2, <1>3
  <2> HIDE DEF m, n, p
  <2> QED BY <1>1, <1>2, <2>1, MixedPlaces
<1>4. CASE p <= 0
  <2>1. m * j + n * k >= 0 /\ p * l <= 0
    <3> HIDE DEF m, n, p
    <3>1. m * j >= 0 /\ n * k >= 0
      BY <1>1
    <3>2. m * j \in Int /\ n * k \in Int
      BY <1>1
    <3>3. p * l <= 0
      BY <1>2, <1>4
    <3> QED BY <3>1, <3>2, <3>3
  <2>2. m * j = 0 /\ n * k = 0
    <3> HIDE DEF m, n, p
    <3>1. m * j \in Nat /\ n * k \in Nat /\ p * l \in Int
      BY <1>1, <1>2
    <3> QED BY <1>2, <2>1, <3>1
  <2>3. n = 0
    <3> HIDE DEF n
    <3> QED BY <1>1, <2>2
  <2>4. l * a + 0 * b = j * c /\ l * j + 0 * k = j * l
    BY <2>3
  <2> HIDE DEF m, n, p
  <2> QED BY <2>4, MixedPlaces
<1> QED BY <1>2, <1>3, <1>4

(* A place in two capsules is a point they have in common.                 *)
LEMMA NoCommonPlace ==
  ASSUME NEW O \in Vec, NEW D \in Vec, NEW c1 \in Vec, NEW c2 \in Vec, NEW a \in Int, NEW j \in Nat \ {0},
         Meets(O, D, c1, <<a, j>>), Meets(O, D, c2, <<a, j>>)
  PROVE  ~Disjoint(c1, c2)
<1> DEFINE v == HitPlace(O, D, c1, <<a, j>>)
           u == HitPlace(O, D, c2, <<a, j>>)
           x == Sub(c1, c2)
           y == Times((-1), v)
<1>1. InCapsule(v, j) /\ InCapsule(u, j)
  BY Zenon DEF Meets, v, u
<1>2. v \in Vec /\ u \in Vec /\ x \in Vec /\ y \in Vec
  <2>1. v \in Vec /\ u \in Vec
    BY PlaceIs
  <2>2. x \in Vec /\ -1 \in Int
    BY Vectors, 0 \in Int
  <2> HIDE DEF v
  <2> QED BY <2>1, <2>2, Vectors
<1>3. InCapsule(y, j)
  <2> HIDE DEF v
  <2>1. PICK w \in Int : /\ -Reach(j) <= w /\ w <= Reach(j)
                         /\ Dot(OffAxis(v, w), OffAxis(v, w)) <= (Radius * j) * (Radius * j)
    BY <1>1, <1>2, InCapsuleIs
  <2>2. y = <<(-1) * v[1], (-1) * v[2], (-1) * v[3]>>
    BY DEF Times
  <2>3. v[1] \in Int /\ v[2] \in Int /\ v[3] \in Int
    BY <1>2, Vectors, 0 \in Int
  <2>4. Dot(OffAxis(y, -w), OffAxis(y, -w)) = Dot(OffAxis(v, w), OffAxis(v, w))
    <3>1. /\ OffAxis(v, w) = <<v[1], v[2], v[3] - w>> /\ OffAxis(y, -w) = <<(-1) * v[1], (-1) * v[2], ((-1) * v[3]) - (-w)>>
      BY <2>2 DEF OffAxis
    <3>2. ((-1) * v[3]) - (-w) = -(v[3] - w) /\ (-1) * v[1] = -v[1] /\ (-1) * v[2] = -v[2]
      BY <2>3
    <3> DEFINE f == v[3] - w
    <3>3. f \in Int
      BY <2>3
    <3> HIDE DEF f
    <3>4. OffAxis(v, w) = <<v[1], v[2], f>> /\ OffAxis(y, -w) = <<-v[1], -v[2], -f>>
      BY <3>1, <3>2 DEF f
    <3> QED BY <2>3, <3>3, <3>4 DEF Dot
  <2>5. -Reach(j) <= -w /\ -w <= Reach(j) /\ -w \in Int
    BY <1>2, <2>1, InCapsuleIs
  <2>6. Dot(OffAxis(y, -w), OffAxis(y, -w)) <= (Radius * j) * (Radius * j)
    BY <2>1, <2>4
  <2> HIDE DEF y
  <2> QED BY <1>2, <2>5, <2>6, InCapsuleIs
<1>4. Add(Times(1, y), Times(1, u)) = Times(j, x) /\ 1 * j + 1 * j = j * 2
  <2> DEFINE A == D[1] B == D[2] C == D[3]
  <2>1. /\ A \in Int /\ B \in Int /\ C \in Int /\ O[1] \in Int /\ O[2] \in Int /\ O[3] \in Int
        /\ c1[1] \in Int /\ c1[2] \in Int /\ c1[3] \in Int /\ c2[1] \in Int /\ c2[2] \in Int /\ c2[3] \in Int
    BY Vectors, 0 \in Int
  <2>2. /\ v = <<j * (O[1] - c1[1]) + a * A, j * (O[2] - c1[2]) + a * B, j * (O[3] - c1[3]) + a * C>>
        /\ u = <<j * (O[1] - c2[1]) + a * A, j * (O[2] - c2[2]) + a * B, j * (O[3] - c2[3]) + a * C>>
    BY PlaceIs
  <2>3. /\ y[1] = (-1) * v[1] /\ y[2] = (-1) * v[2] /\ y[3] = (-1) * v[3]
        /\ x[1] = c1[1] - c2[1] /\ x[2] = c1[2] - c2[2] /\ x[3] = c1[3] - c2[3]
    BY DEF Times, Sub
  <2> HIDE DEF v, u, x, y, A, B, C
  <2>4. 1 * y[1] + 1 * u[1] = j * x[1] /\ 1 * y[2] + 1 * u[2] = j * x[2] /\ 1 * y[3] + 1 * u[3] = j * x[3]
    <3>1. /\ v[1] = j * (O[1] - c1[1]) + a * A /\ v[2] = j * (O[2] - c1[2]) + a * B /\ v[3] = j * (O[3] - c1[3]) + a * C
          /\ u[1] = j * (O[1] - c2[1]) + a * A /\ u[2] = j * (O[2] - c2[2]) + a * B /\ u[3] = j * (O[3] - c2[3]) + a * C
      BY <2>2
    <3>2. 1 * y[1] + 1 * u[1] = j * x[1]
      <4> DEFINE q == O[1] s == c1[1] z == c2[1]
      <4>1. /\ q \in Int /\ s \in Int /\ z \in Int /\ A \in Int
            /\ v[1] = j * (q - s) + a * A /\ u[1] = j * (q - z) + a * A /\ y[1] = (-1) * v[1] /\ x[1] = s - z
        BY <2>1, <2>3, <3>1
      <4> HIDE DEF q, s, z
      <4> QED BY <4>1
    <3>3. 1 * y[2] + 1 * u[2] = j * x[2]
      <4> DEFINE q == O[2] s == c1[2] z == c2[2]
      <4>1. /\ q \in Int /\ s \in Int /\ z \in Int /\ B \in Int
            /\ v[2] = j * (q - s) + a * B /\ u[2] = j * (q - z) + a * B /\ y[2] = (-1) * v[2] /\ x[2] = s - z
        BY <2>1, <2>3, <3>1
      <4> HIDE DEF q, s, z
      <4> QED BY <4>1
    <3>4. 1 * y[3] + 1 * u[3] = j * x[3]
      <4> DEFINE q == O[3] s == c1[3] z == c2[3]
      <4>1. /\ q \in Int /\ s \in Int /\ z \in Int /\ C \in Int
            /\ v[3] = j * (q - s) + a * C /\ u[3] = j * (q - z) + a * C /\ y[3] = (-1) * v[3] /\ x[3] = s - z
        BY <2>1, <2>3, <3>1
      <4> HIDE DEF q, s, z
      <4> QED BY <4>1
    <3> QED BY <3>2, <3>3, <3>4
  <2> QED BY <2>4 DEF Add, Times
<1> HIDE DEF v, u, x, y
<1>5. InCapsule(Times(j, x), j * 2)
  <2>1. InCapsule(Add(Times(1, y), Times(1, u)), 1 * j + 1 * j)
    BY <1>1, <1>2, <1>3, Between
  <2> QED BY <1>4, <2>1
<1>6. InCapsule(x, 2)
  BY <1>2, <1>5, Scaled
<1> QED BY <1>6 DEF Disjoint, x

(* A player who is wholly in range is met in range: the place looked at is *)
(* that of a point of the axis, a radius or more inside the range.         *)
InRange(D, t) == t[1] * t[1] * Dot(D, D) < (MaxRange * MaxRange) * (t[2] * t[2])

LEMMA LongEnough ==
  ASSUME NEW x \in Vec, NEW y \in Vec, NEW m \in Nat, NEW n \in Nat,
         Dot(x, x) <= m * m, Dot(y, y) <= n * n
  PROVE  Dot(Add(x, y), Add(x, y)) <= (m + n) * (m + n)
<1> DEFINE a == x[1] b == x[2] c == x[3] d == y[1] e == y[2] f == y[3]
<1>1. a \in Int /\ b \in Int /\ c \in Int /\ d \in Int /\ e \in Int /\ f \in Int
  BY Vectors, 0 \in Int
<1>2. Dot(Add(x, y), Add(x, y)) = (a + d) * (a + d) + (b + e) * (b + e) + (c + f) * (c + f)
  BY DEF Dot, Add
<1>3. /\ Dot(x, y) = a * d + b * e + c * f /\ Dot(x, x) = a * a + b * b + c * c
      /\ Dot(y, y) = d * d + e * e + f * f
  BY DEF Dot
<1>4. Dot(x, y) <= m * n
  BY ShortVectors
<1> HIDE DEF a, b, c, d, e, f
<1>5. (a + d) * (a + d) + (b + e) * (b + e) + (c + f) * (c + f)
        = (a * a + b * b + c * c) + 2 * (a * d + b * e + c * f) + (d * d + e * e + f * f)
  BY <1>1
<1>6. Dot(Add(x, y), Add(x, y)) = Dot(x, x) + 2 * Dot(x, y) + Dot(y, y)
  BY <1>2, <1>3, <1>5, Zenon
<1>7. (m + n) * (m + n) = m * m + 2 * (m * n) + n * n /\ m * m \in Int /\ m * n \in Int /\ n * n \in Int
  OBVIOUS
<1>8. Dot(x, x) \in Int /\ Dot(x, y) \in Int /\ Dot(y, y) \in Int
  BY Vectors, 0 \in Int
<1> QED BY <1>4, <1>6, <1>7, <1>8

LEMMA MetInRange ==
  ASSUME NEW O \in Vec, NEW D \in Vec, NEW centre \in Vec, D # <<0, 0, 0>>,
         WhollyInRange(O, centre), HalfHeight <= MaxRange, NEW w \in Int, NEW k \in Nat \ {0},
         -Reach(k) <= w, w <= Reach(k)
  PROVE  InRange(D, <<Dot(D, ToAxis(Sub(centre, O), w, k)), Dot(D, D) * k>>)
<1> DEFINE E == Sub(centre, O)
           M == MaxRange - HalfHeight
           x == Times(k, E)
           y == <<0, 0, w>>
           z == ToAxis(E, w, k)
           p == Dot(D, z)
           n == Dot(D, D)
           L == M + CylinderHalfLen
<1>1. E \in Vec /\ n \in Nat \ {0} /\ M \in Nat /\ L \in Nat /\ L < MaxRange /\ MaxRange \in Nat /\ M * k \in Nat
  <2>1. E \in Vec /\ n \in Nat \ {0}
    BY Nonzero, Vectors, 0 \in Int
  <2>2. M \in Nat /\ L \in Nat /\ L < MaxRange /\ MaxRange \in Nat
    BY Sizes
  <2> QED BY <2>1, <2>2
<1>2. Dot(E, E) <= M * M
  BY DEF WhollyInRange
<1>3. x \in Vec /\ Dot(x, x) <= (M * k) * (M * k)
  <2> HIDE DEF E, M
  <2>1. x \in Vec
    <3>1. k \in Int
      OBVIOUS
    <3> QED BY <1>1, <3>1, Vectors
  <2>2. Dot(x, x) = Dot(E, E) * (k * k)
    <3> DEFINE a == E[1] b == E[2] c == E[3]
    <3>1. a \in Int /\ b \in Int /\ c \in Int
      BY <1>1, Vectors, 0 \in Int
    <3>2. Dot(x, x) = (k * a) * (k * a) + (k * b) * (k * b) + (k * c) * (k * c) /\ Dot(E, E) = a * a + b * b + c * c
      BY DEF Dot, Times
    <3> HIDE DEF a, b, c, x
    <3>3. (k * a) * (k * a) + (k * b) * (k * b) + (k * c) * (k * c) = (a * a + b * b + c * c) * (k * k)
      BY <3>1
    <3> QED BY <3>2, <3>3, Zenon
  <2>3. Dot(E, E) \in Int /\ M * M \in Int /\ k * k \in Nat
    BY <1>1, Vectors, 0 \in Int
  <2>4. Dot(E, E) * (k * k) <= (M * M) * (k * k)
    BY <1>2, <2>3, TimesKeepsOrder
  <2>5. (M * M) * (k * k) = (M * k) * (M * k)
    BY <1>1
  <2> QED BY <2>1, <2>2, <2>4, <2>5, Zenon
<1>4. y \in Vec /\ Reach(k) \in Nat /\ Dot(y, y) <= Reach(k) * Reach(k)
  <2>1. y \in Vec
    BY DEF Vec
  <2>2. Reach(k) \in Nat
    BY <2>1, InCapsuleIs
  <2>3. Dot(y, y) = w * w
    BY DEF Dot
  <2>4. w * w <= Reach(k) * Reach(k)
    BY <2>2, Squares
  <2> QED BY <2>1, <2>2, <2>3, <2>4, Zenon
<1>5. z \in Vec /\ z = Add(x, y)
  BY <1>3, <1>4, Vectors, 0 \in Int DEF ToAxis
<1>6. Dot(z, z) <= (L * k) * (L * k)
  <2>1. Dot(Add(x, y), Add(x, y)) <= (M * k + Reach(k)) * (M * k + Reach(k))
    <3> HIDE DEF x, y, M
    <3> QED BY <1>1, <1>3, <1>4, LongEnough
  <2>2. M * k + Reach(k) = L * k
    BY Sizes DEF Reach
  <2> HIDE DEF x, y, z, L, M
  <2> QED BY <1>5, <2>1, <2>2
<1> HIDE DEF x, y, z, L, M, E
<1>7. p * p <= n * ((L * k) * (L * k))
  <2>1. p * p <= n * Dot(z, z)
    BY <1>5, CauchySchwarz
  <2>2. Dot(z, z) \in Nat /\ p \in Int
    BY <1>5, Vectors, 0 \in Int
  <2>3. (L * k) * (L * k) \in Nat /\ n \in Nat /\ n >= 0
    BY <1>1
  <2>4. n * Dot(z, z) <= n * ((L * k) * (L * k))
    BY <1>1, <1>6, <2>2, <2>3, Products
  <2> HIDE DEF p, n
  <2>5. p * p \in Int /\ n * Dot(z, z) \in Int /\ n * ((L * k) * (L * k)) \in Int
    BY <1>1, <2>2, <2>3
  <2> QED BY <2>1, <2>4, <2>5
<1>8. p \in Int
  BY <1>5, Vectors, 0 \in Int
<1>9. p * p * n < (MaxRange * MaxRange) * ((n * k) * (n * k))
  <2> HIDE DEF p, n
  <2> DEFINE l == L * k m == MaxRange * k
  <2>1. l \in Nat /\ m \in Nat /\ l < m
    <3>1. (MaxRange - L) * k > 0 /\ (MaxRange - L) * k = MaxRange * k - L * k
      BY <1>1
    <3>2. l \in Nat /\ m \in Nat
      BY <1>1
    <3> QED BY <3>1, <3>2
  <2> HIDE DEF l, m
  <2>2. l * l < m * m
    <3>1. (m - l) * (m + l) > 0 /\ (m - l) * (m + l) = m * m - l * l
      BY <2>1
    <3>2. m * m \in Int /\ l * l \in Int
      BY <2>1
    <3> QED BY <3>1, <3>2
  <2>3. p * p <= n * (l * l)
    BY <1>7 DEF l
  <2>4. p * p * n <= (n * (l * l)) * n
    <3>1. p * p \in Int /\ n * (l * l) \in Int /\ n \in Nat
      BY <1>1, <1>8, <2>1
    <3> QED BY <2>3, <3>1, TimesKeepsOrder
  <2>5. (n * (l * l)) * n < (n * n) * (m * m)
    <3> DEFINE s == m * m - l * l
               q == n * n
    <3>1. s \in Nat \ {0} /\ q \in Nat \ {0}
      BY <1>1, <2>1, <2>2
    <3>2. (n * (l * l)) * n = q * (l * l) /\ q * (m * m) = q * s + q * (l * l) /\ q * (l * l) \in Int
      BY <1>1, <2>1
    <3> HIDE DEF s, q
    <3>3. q * s > 0
      BY <3>1
    <3>4. q * s \in Int
      BY <3>1
    <3>5. (n * n) * (m * m) = q * s + q * (l * l)
      BY <3>2 DEF q
    <3> QED BY <3>2, <3>3, <3>4, <3>5
  <2>6. (n * n) * (m * m) = (MaxRange * MaxRange) * ((n * k) * (n * k))
    BY <1>1 DEF m
  <2>7. p * p * n \in Int /\ (n * (l * l)) * n \in Int /\ (n * n) * (m * m) \in Int
    BY <1>1, <1>8, <2>1
  <2> QED BY <2>4, <2>5, <2>6, <2>7
<1> HIDE DEF p, n
<1>10. InRange(D, <<p, n * k>>)
  BY <1>9 DEF InRange, n
<1> QED BY <1>10, Zenon DEF p, n, z, E

(* One test against one player, put together: it looks at a place t of the *)
(* shot with a positive denominator, which is in the capsule if any place  *)
(* of the line is; and is ahead, if the shot starts outside the capsule    *)
(* and meets it ahead.                                                     *)
LEMMA MetAhead ==
  ASSUME NEW O \in Vec, NEW D \in Vec, NEW centre \in Vec, D # <<0, 0, 0>>,
         ~Meets(O, <<0, 0, 0>>, centre, <<0, 1>>),
         NEW a \in Nat, NEW j \in Nat \ {0}, Meets(O, D, centre, <<a, j>>)
  PROVE  LET r == TestRayAgainstPlayerCapsule(O, D, centre)
         IN  r.t[1] > 0 /\ Meets(O, D, centre, r.t)
<1> DEFINE r == TestRayAgainstPlayerCapsule(O, D, centre)
           b == r.t[1]
           k == r.t[2]
<1>1. a \in Int /\ 0 \in Int /\ 1 \in Nat \ {0} /\ 0 * j <= a * 1
  OBVIOUS
<1>2. r.t = <<b, k>> /\ b \in Int /\ k \in Nat \ {0} /\ Meets(O, D, centre, r.t)
  BY <1>1, TestIs
<1> HIDE DEF r, b, k
<1>3. Meets(O, D, centre, <<b, k>>)
  BY <1>2
<1>4. SUFFICES ASSUME b <= 0 PROVE Meets(O, D, centre, <<0, 1>>)
  <2>1. HitPlace(O, D, centre, <<0, 1>>) = HitPlace(O, <<0, 0, 0>>, centre, <<0, 1>>)
    <3>1. <<0, 0, 0>> \in Vec /\ 0 \in Int /\ 1 \in Int
      BY DEF Vec
    <3> DEFINE A == D[1] B == D[2] C == D[3]
               d == O[1] - centre[1] e == O[2] - centre[2] f == O[3] - centre[3]
    <3>2. A \in Int /\ B \in Int /\ C \in Int /\ d \in Int /\ e \in Int /\ f \in Int
      <4>1. /\ D[1] \in Int /\ D[2] \in Int /\ D[3] \in Int
            /\ centre[1] \in Int /\ centre[2] \in Int /\ centre[3] \in Int /\ O[1] \in Int /\ O[2] \in Int /\ O[3] \in Int
        BY Vectors, 0 \in Int
      <4> QED BY <4>1
    <3>3. HitPlace(O, D, centre, <<0, 1>>) = <<1 * d + 0 * A, 1 * e + 0 * B, 1 * f + 0 * C>>
      BY <3>1, PlaceIs
    <3>4. HitPlace(O, <<0, 0, 0>>, centre, <<0, 1>>) = <<1 * d + 0 * 0, 1 * e + 0 * 0, 1 * f + 0 * 0>>
      BY <3>1, PlaceIs
    <3> HIDE DEF A, B, C, d, e, f
    <3> QED BY <3>2, <3>3, <3>4
  <2>2. ~Meets(O, D, centre, <<0, 1>>)
    BY <2>1 DEF Meets
  <2>3. ~(b <= 0)
    BY <1>4, <2>2
  <2> QED BY <1>2, <2>3 DEF r, b, k
<1>5. b * 1 <= 0 * k
  BY <1>2, <1>4
<1> QED BY <1>1, <1>2, <1>3, <1>5, PlacesBetween

(* Of two players who stand clear of each other, the one met at a place    *)
(* that is no later is met before the other wherever they are met.         *)
LEMMA WhollyBefore ==
  ASSUME NEW O \in Vec, NEW D \in Vec, NEW c1 \in Vec, NEW c2 \in Vec, Disjoint(c1, c2),
         NEW b \in Int, NEW k \in Nat \ {0}, NEW a \in Int, NEW j \in Nat \ {0},
         Meets(O, D, c1, <<b, k>>), Meets(O, D, c2, <<a, j>>), ~Earlier(<<a, j>>, <<b, k>>),
         NEW c \in Int, NEW l \in Nat \ {0}, NEW d \in Int, NEW m \in Nat \ {0},
         Meets(O, D, c1, <<c, l>>), Meets(O, D, c2, <<d, m>>)
  PROVE  Earlier(<<c, l>>, <<d, m>>)
<1>1. b * j <= a * k /\ (Earlier(<<c, l>>, <<d, m>>) <=> c * m < d * l)
  <2>1. ~(a * k < b * j)
    BY DEF Earlier
  <2>2. a * k \in Int /\ b * j \in Int
    OBVIOUS
  <2> QED BY <2>1, <2>2 DEF Earlier
<1>2. SUFFICES ASSUME d * l <= c * m PROVE FALSE
  <2>1. c * m \in Int /\ d * l \in Int
    OBVIOUS
  <2> QED BY <1>1, <1>2, <2>1
<1>3. CASE d * k <= b * m
  <2>1. Meets(O, D, c2, <<b, k>>)
    BY <1>1, <1>3, PlacesBetween
  <2> QED BY <2>1, NoCommonPlace
<1>4. CASE b * m <= d * k
  <2>1. Meets(O, D, c1, <<d, m>>)
    BY <1>2, <1>4, PlacesBetween
  <2> QED BY <2>1, NoCommonPlace
<1>5. d * k \in Int /\ b * m \in Int
  OBVIOUS
<1> QED BY <1>3, <1>4, <1>5

(* A place in range is before one that is not, ahead of the origin.        *)
LEMMA InRangeIsEarlier ==
  ASSUME NEW D \in Vec, D # <<0, 0, 0>>, NEW b \in Nat, NEW k \in Nat \ {0}, NEW a \in Nat, NEW j \in Nat \ {0},
         InRange(D, <<b, k>>), ~InRange(D, <<a, j>>)
  PROVE  ~Earlier(<<a, j>>, <<b, k>>)
<1> DEFINE n == Dot(D, D)
           M == MaxRange * MaxRange
<1>1. n \in Nat \ {0} /\ M \in Nat
  <2>1. n \in Nat \ {0}
    BY Nonzero
  <2>2. MaxRange \in Nat
    BY Sizes
  <2> QED BY <2>1, <2>2
<1>2. b * b * n < M * (k * k) /\ ~(a * a * n < M * (j * j))
  BY DEF InRange
<1> HIDE DEF n, M
<1>3. SUFFICES ASSUME a * k < b * j PROVE FALSE
  BY DEF Earlier
<1>4. (a * k) * (a * k) <= (b * j) * (b * j)
  <2> DEFINE s == a * k t == b * j
  <2>1. s \in Int /\ t \in Nat /\ 0 <= s /\ s <= t
    BY <1>3
  <2> HIDE DEF s, t
  <2>2. s * s <= t * t
    BY <2>1, Products
  <2> QED BY <2>2 DEF s, t
<1>5. (b * b * n) * (j * j) < (M * (k * k)) * (j * j)
  <2> DEFINE s == b * b * n t == M * (k * k) u == j * j
  <2>1. s \in Int /\ t \in Int /\ s < t /\ u \in Nat \ {0}
    BY <1>1, <1>2
  <2> HIDE DEF s, t, u
  <2>2. (t - s) * u > 0 /\ (t - s) * u = t * u - s * u /\ t * u \in Int /\ s * u \in Int
    BY <2>1
  <2>3. s * u < t * u
    BY <2>2
  <2> QED BY <2>3 DEF s, t, u
<1>6. (M * (j * j)) * (k * k) <= (a * a * n) * (k * k)
  <2> DEFINE s == M * (j * j) t == a * a * n u == k * k
  <2>1. s \in Int /\ t \in Int /\ s <= t /\ u \in Nat
    BY <1>1, <1>2
  <2> HIDE DEF s, t, u
  <2>2. s * u <= t * u
    BY <2>1, TimesKeepsOrder
  <2> QED BY <2>2 DEF s, t, u
<1>7. ((a * k) * (a * k)) * n <= ((b * j) * (b * j)) * n
  <2> DEFINE s == (a * k) * (a * k) t == (b * j) * (b * j)
  <2>1. s \in Int /\ t \in Int /\ s <= t
    BY <1>4
  <2> HIDE DEF s, t
  <2>2. s * n <= t * n
    BY <1>1, <2>1, TimesKeepsOrder
  <2> QED BY <2>2 DEF s, t
<1>8. /\ (a * a * n) * (k * k) = ((a * k) * (a * k)) * n /\ (b * b * n) * (j * j) = ((b * j) * (b * j)) * n
      /\ (M * (j * j)) * (k * k) = (M * (k * k)) * (j * j)
  BY <1>1
<1>9. /\ (a * a * n) * (k * k) \in Int /\ (b * b * n) * (j * j) \in Int /\ (M * (j * j)) * (k * k) \in Int
  BY <1>1
<1> HIDE DEF n, M
<1> QED BY <1>5, <1>6, <1>7, <1>8, <1>9

(* Of finitely many places one is not after any other.                     *)
LEMMA FirstOf ==
  ASSUME NEW D, IsFiniteSet(D), D # {}, NEW f \in [D -> Int \X (Nat \ {0})]
  PROVE  \E d \in D : \A e \in D : ~Earlier(f[e], f[d])
<1> DEFINE R == { x \in D \X D : f[x[1]][1] * f[x[2]][2] <= f[x[2]][1] * f[x[1]][2] }
<1>1. \A d, e \in D : <<d, e>> \in R <=> f[d][1] * f[e][2] <= f[e][1] * f[d][2]
  OBVIOUS
<1>2. \A d \in D : f[d][1] \in Int /\ f[d][2] \in Nat \ {0}
  OBVIOUS
<1> HIDE DEF R
<1>3. ASSUME NEW d \in D, NEW e \in D PROVE <<d, e>> \in R \/ <<e, d>> \in R
  <2> DEFINE x == f[d][1] * f[e][2] y == f[e][1] * f[d][2]
  <2>1. x \in Int /\ y \in Int
    BY <1>2
  <2>2. (<<d, e>> \in R <=> x <= y) /\ (<<e, d>> \in R <=> y <= x)
    BY <1>1
  <2> HIDE DEF x, y
  <2> QED BY <2>1, <2>2
<1>4. ASSUME NEW c \in D, NEW d \in D, NEW e \in D, <<c, d>> \in R, <<d, e>> \in R PROVE <<c, e>> \in R
  <2> DEFINE p == f[c][1] q == f[c][2] r == f[d][1] s == f[d][2] t == f[e][1] u == f[e][2]
  <2>1. p \in Int /\ q \in Nat \ {0} /\ r \in Int /\ s \in Nat \ {0} /\ t \in Int /\ u \in Nat \ {0}
    BY <1>2
  <2>2. p * s <= r * q /\ r * u <= t * s /\ (<<c, e>> \in R <=> p * u <= t * q)
    BY <1>1, <1>4
  <2> HIDE DEF p, q, r, s, t, u
  <2>3. p * s \in Int /\ r * q \in Int /\ r * u \in Int /\ t * s \in Int /\ p * u \in Int /\ t * q \in Int
    BY <2>1
  <2>4. (p * s) * u <= (r * q) * u /\ (r * u) * q <= (t * s) * q
    <3> DEFINE a == p * s b == r * q g == r * u h == t * s
    <3>1. a \in Int /\ b \in Int /\ g \in Int /\ h \in Int /\ a <= b /\ g <= h
      BY <2>2, <2>3
    <3> HIDE DEF a, b, g, h
    <3>2. a * u <= b * u /\ g * q <= h * q
      BY <2>1, <3>1, TimesKeepsOrder
    <3> QED BY <3>2 DEF a, b, g, h
  <2>5. (p * u) * s <= (t * q) * s
    <3>1. (p * s) * u = (p * u) * s /\ (r * q) * u = (r * u) * q /\ (t * s) * q = (t * q) * s
      BY <2>1
    <3>2. (p * u) * s \in Int /\ (r * u) * q \in Int /\ (t * q) * s \in Int
      BY <2>1
    <3> QED BY <2>4, <3>1, <3>2
  <2>6. p * u <= t * q
    BY <2>1, <2>3, <2>5, TimesKeepsOrder
  <2> QED BY <2>2, <2>6
<1>5. PICK d \in D : \A e \in D : <<d, e>> \in R
  BY <1>3, <1>4, FirstIn
<1>6. ASSUME NEW e \in D PROVE ~Earlier(f[e], f[d])
  <2> DEFINE x == f[d][1] * f[e][2] y == f[e][1] * f[d][2]
  <2>1. x \in Int /\ y \in Int
    BY <1>2
  <2>2. x <= y /\ (Earlier(f[e], f[d]) <=> y < x)
    BY <1>1, <1>5 DEF Earlier
  <2> HIDE DEF x, y
  <2> QED BY <2>1, <2>2
<1> QED BY <1>6

(* A shot reported as a hit does hit, at the place reported; and hits the  *)
(* first player in its way: the whole of that player's capsule on the line *)
(* of the shot comes before any place ahead where it meets another one.    *)
(* The players stand clear of each other and of the shooter's muzzle.      *)
(* HitDetection.cpp TestRayAgainstPlayerCapsule, with its clamped axis     *)
(* parameter and its one correction, and the nearest-hit loop of           *)
(* Session.cpp ResolveAndBroadcastHit.                                     *)
THEOREM ShotHitsFirst ==
  ASSUME NEW O \in Vec, NEW D \in Vec, NEW others, \A o \in DOMAIN others : others[o].pos \in Vec,
         FairShot(O, others), NEW h \in ResolveHit(O, D, others)
  PROVE  /\ h.target \in DOMAIN others
         /\ h.t \in Nat \X (Nat \ {0}) /\ Meets(O, D, others[h.target].pos, h.t)
         /\ \A x \in DOMAIN others \ {h.target} : \A d \in Nat : \A m \in Nat \ {0} :
              Meets(O, D, others[x].pos, <<d, m>>) =>
                \A c \in Int : \A l \in Nat \ {0} :
                  Meets(O, D, others[h.target].pos, <<c, l>>) => Earlier(<<c, l>>, <<d, m>>)
<1> DEFINE R(o) == TestRayAgainstPlayerCapsule(O, D, others[o].pos)
           result == [o \in DOMAIN others |-> R(o)]
<1>1. D # <<0, 0, 0>>
  BY DEF ResolveHit
<1>2. /\ h.target \in NearestHits(result, D) /\ h.t = result[h.target].t
  BY <1>1 DEF ResolveHit
<1> DEFINE o == h.target
           hits == { y \in DOMAIN result : result[y].hit /\ result[y].t[1] * result[y].t[1] * Dot(D, D)
                                                              < MaxRange * MaxRange * result[y].t[2] * result[y].t[2] }
<1>3. o \in hits /\ \A y \in hits : ~Earlier(result[y].t, result[o].t)
  BY <1>2 DEF NearestHits
<1>4. \A y \in DOMAIN others : /\ R(y).t = <<R(y).t[1], R(y).t[2]>> /\ R(y).t[1] \in Int /\ R(y).t[2] \in Nat \ {0}
                               /\ R(y).hit <=> R(y).t[1] >= 0 /\ ~Far(D, R(y).t) /\ Meets(O, D, others[y].pos, R(y).t)
  BY <1>1, TestIs
<1>5. \A y \in DOMAIN others : result[y] = R(y)
  OBVIOUS
<1>6. \A y \in DOMAIN others : y \in hits <=> R(y).hit /\ InRange(D, R(y).t)
  <2> TAKE y \in DOMAIN others
  <2> DEFINE k == R(y).t[2]
  <2>1. k \in Int /\ MaxRange \in Int
    BY <1>4, Sizes
  <2>2. y \in hits <=> R(y).hit /\ R(y).t[1] * R(y).t[1] * Dot(D, D) < MaxRange * MaxRange * k * k
    BY Zenon
  <2> HIDE DEF k
  <2>3. MaxRange * MaxRange * k * k = (MaxRange * MaxRange) * (k * k)
    BY <2>1
  <2> HIDE DEF hits, R
  <2> QED BY <2>2, <2>3, Zenon DEF InRange, k
<1>7. o \in DOMAIN others /\ h.t = R(o).t /\ R(o).hit /\ InRange(D, R(o).t)
  <2>1. o \in DOMAIN others
    BY <1>3
  <2> QED BY <1>2, <1>3, <1>5, <1>6, <2>1, Zenon
<1> HIDE DEF R
<1>8. h.t \in Nat \X (Nat \ {0}) /\ Meets(O, D, others[o].pos, h.t)
  BY <1>4, <1>7
<1>9. ASSUME NEW x \in DOMAIN others \ {o}, NEW d \in Nat, NEW m \in Nat \ {0}, Meets(O, D, others[x].pos, <<d, m>>)
      PROVE  ~Earlier(R(x).t, R(o).t) /\ Meets(O, D, others[x].pos, R(x).t) /\ Disjoint(others[o].pos, others[x].pos)
  <2>1. x \in DOMAIN others /\ others[x].pos \in Vec
    OBVIOUS
  <2>2. ~Meets(O, <<0, 0, 0>>, others[x].pos, <<0, 1>>) /\ Disjoint(others[o].pos, others[x].pos)
    BY <1>7, <2>1 DEF FairShot
  <2>3. R(x).t[1] > 0 /\ Meets(O, D, others[x].pos, R(x).t)
    BY <1>1, <1>9, <2>1, <2>2, MetAhead DEF R
  <2>4. CASE x \in hits
    BY <1>3, <1>5, <1>7, <2>1, <2>2, <2>3, <2>4
  <2>5. CASE x \notin hits
    <3>1. ~InRange(D, R(x).t)
      <4>1. SUFFICES ASSUME R(x).hit = FALSE \/ ~R(x).hit PROVE ~InRange(D, R(x).t)
        BY <1>6, <2>1, <2>5
      <4>2. Far(D, R(x).t)
        BY <1>4, <2>1, <2>3, <4>1
      <4>3. \A p, q \in Int : ~(p > q /\ p < q)
        OBVIOUS
      <4> DEFINE a == R(x).t[1] j == R(x).t[2] n == Dot(D, D)
      <4>4. a \in Int /\ j \in Int /\ n \in Int /\ MaxRange \in Int
        BY <1>4, <2>1, Sizes, Vectors, 0 \in Int
      <4>5. a * a * n > (MaxRange * MaxRange) * (j * j)
        BY <4>2 DEF Far
      <4>6. InRange(D, R(x).t) <=> a * a * n < (MaxRange * MaxRange) * (j * j)
        BY DEF InRange
      <4> HIDE DEF a, j, n
      <4>7. a * a * n \in Int /\ (MaxRange * MaxRange) * (j * j) \in Int
        BY <4>4
      <4> QED BY <4>5, <4>6, <4>7
    <3>2. ~Earlier(R(x).t, R(o).t)
      <4> DEFINE a == R(x).t[1] j == R(x).t[2] b == R(o).t[1] k == R(o).t[2]
      <4>1. /\ a \in Nat /\ j \in Nat \ {0} /\ R(x).t = <<a, j>>
            /\ b \in Nat /\ k \in Nat \ {0} /\ R(o).t = <<b, k>>
        BY <1>4, <1>7, <2>1, <2>3
      <4> HIDE DEF a, j, b, k
      <4> QED BY <1>1, <1>7, <3>1, <4>1, InRangeIsEarlier
    <3> QED BY <2>2, <2>3, <3>2
  <2> QED BY <2>4, <2>5
<1>10. ASSUME NEW x \in DOMAIN others \ {o}, NEW d \in Nat, NEW m \in Nat \ {0}, Meets(O, D, others[x].pos, <<d, m>>),
              NEW c \in Int, NEW l \in Nat \ {0}, Meets(O, D, others[o].pos, <<c, l>>)
       PROVE  Earlier(<<c, l>>, <<d, m>>)
  <2> DEFINE a == R(x).t[1] j == R(x).t[2] b == R(o).t[1] k == R(o).t[2] c1 == others[o].pos c2 == others[x].pos
  <2>1. /\ ~Earlier(R(x).t, R(o).t) /\ Meets(O, D, c2, R(x).t) /\ Disjoint(c1, c2) /\ Meets(O, D, c1, R(o).t)
    BY <1>7, <1>8, <1>9, <1>10
  <2>2. /\ a \in Int /\ j \in Nat \ {0} /\ R(x).t = <<a, j>>
        /\ b \in Int /\ k \in Nat \ {0} /\ R(o).t = <<b, k>>
    BY <1>4, <1>7
  <2>3. c1 \in Vec /\ c2 \in Vec /\ d \in Int
    BY <1>7
  <2>4. Meets(O, D, c1, <<c, l>>) /\ Meets(O, D, c2, <<d, m>>)
    BY <1>10
  <2> HIDE DEF a, j, b, k, c1, c2
  <2>5. /\ Meets(O, D, c1, <<b, k>>) /\ Meets(O, D, c2, <<a, j>>) /\ ~Earlier(<<a, j>>, <<b, k>>)
        /\ Disjoint(c1, c2)
    BY <2>1, <2>2
  <2> QED BY <2>2, <2>3, <2>4, <2>5, WhollyBefore, Zenon
<1> QED BY <1>7, <1>8, <1>10

(* No player in the way of a shot is missed: if it meets, ahead, somebody  *)
(* whose capsule is all within kMaxRange and does not hold its origin, it  *)
(* is reported as a hit.  Session.cpp ResolveAndBroadcastHit: the tests    *)
(* against every other player, and its search from rayT = kMaxRange down.  *)
THEOREM ShotMissesNobody ==
  ASSUME NEW O \in Vec, NEW D \in Vec, D # <<0, 0, 0>>, NEW others, IsFiniteSet(DOMAIN others),
         \A y \in DOMAIN others : others[y].pos \in Vec, HalfHeight <= MaxRange,
         NEW o \in DOMAIN others, WhollyInRange(O, others[o].pos),
         ~Meets(O, <<0, 0, 0>>, others[o].pos, <<0, 1>>),
         NEW a \in Nat, NEW j \in Nat \ {0}, Meets(O, D, others[o].pos, <<a, j>>)
  PROVE  ResolveHit(O, D, others) # {}
<1> DEFINE R(y) == TestRayAgainstPlayerCapsule(O, D, others[y].pos)
           result == [y \in DOMAIN others |-> R(y)]
           hits == { y \in DOMAIN result : result[y].hit /\ result[y].t[1] * result[y].t[1] * Dot(D, D)
                                                              < MaxRange * MaxRange * result[y].t[2] * result[y].t[2] }
<1>1. \A y \in DOMAIN others : R(y).t = <<R(y).t[1], R(y).t[2]>> /\ R(y).t[1] \in Int /\ R(y).t[2] \in Nat \ {0}
  BY TestIs
<1>2. R(o).t[1] > 0 /\ Meets(O, D, others[o].pos, R(o).t)
  BY MetAhead
<1>3. InRange(D, R(o).t)
  <2>1. PICK w \in Int, k \in Nat \ {0} : /\ -Reach(k) <= w /\ w <= Reach(k)
                                          /\ R(o).t = <<Dot(D, ToAxis(Sub(others[o].pos, O), w, k)), Dot(D, D) * k>>
    BY TestIs
  <2> HIDE DEF R
  <2> QED BY <2>1, MetInRange
<1>4. R(o).hit
  <2> DEFINE b == R(o).t[1] k == R(o).t[2] n == Dot(D, D)
  <2>1. R(o).hit <=> R(o).t[1] >= 0 /\ ~Far(D, R(o).t) /\ Meets(O, D, others[o].pos, R(o).t)
    BY TestIs
  <2> HIDE DEF R
  <2>2. b \in Int /\ k \in Int /\ n \in Int /\ MaxRange \in Int
    BY <1>1, Sizes, Vectors, 0 \in Int
  <2>3. b * b * n < (MaxRange * MaxRange) * (k * k) /\ (Far(D, R(o).t) <=> b * b * n > (MaxRange * MaxRange) * (k * k))
    BY <1>3 DEF InRange, Far
  <2>4. ~Far(D, R(o).t)
    <3> HIDE DEF b, k, n
    <3>1. b * b * n \in Int /\ (MaxRange * MaxRange) * (k * k) \in Int
      BY <2>2
    <3> QED BY <2>3, <3>1
  <2> QED BY <1>1, <1>2, <2>1, <2>4
<1>5. o \in hits
  <2> DEFINE k == R(o).t[2]
  <2>1. k \in Int /\ MaxRange \in Int
    BY <1>1, Sizes
  <2>2. o \in hits <=> R(o).hit /\ R(o).t[1] * R(o).t[1] * Dot(D, D) < MaxRange * MaxRange * k * k
    BY Zenon
  <2> HIDE DEF k
  <2>3. MaxRange * MaxRange * k * k = (MaxRange * MaxRange) * (k * k)
    BY <2>1
  <2> HIDE DEF hits, R
  <2> QED BY <1>3, <1>4, <2>2, <2>3, Zenon DEF InRange, k
<1> DEFINE f == [y \in hits |-> R(y).t]
<1>6. IsFiniteSet(hits) /\ hits # {} /\ f \in [hits -> Int \X (Nat \ {0})]
  <2>1. hits \subseteq DOMAIN others
    OBVIOUS
  <2>2. \A y \in DOMAIN others : R(y).t \in Int \X (Nat \ {0})
    <3> HIDE DEF R
    <3>1. ASSUME NEW y \in DOMAIN others PROVE R(y).t \in Int \X (Nat \ {0})
      <4> DEFINE t == R(y).t
      <4>1. t = <<t[1], t[2]>> /\ t[1] \in Int /\ t[2] \in Nat \ {0}
        BY <1>1
      <4> HIDE DEF t
      <4>2. t \in Int \X (Nat \ {0})
        BY <4>1
      <4> QED BY <4>2 DEF t
    <3> QED BY <3>1
  <2> HIDE DEF hits, R
  <2> QED BY <1>5, <2>1, <2>2, FS_Subset
<1>7. PICK y \in hits : \A e \in hits : ~Earlier(f[e], f[y])
  <2> HIDE DEF f, hits
  <2> QED BY <1>6, FirstOf
<1>8. y \in NearestHits(result, D)
  <2>1. \A e \in hits : result[e].t = f[e]
    OBVIOUS
  <2>2. \A e \in hits : ~Earlier(result[e].t, result[y].t)
    BY <1>7, <2>1, Zenon
  <2> QED BY <2>2, Zenon DEF NearestHits
<1> HIDE DEF result, f, hits
<1> QED BY <1>8, Zenon DEF ResolveHit, result, R

(* Whom a shot hits does not depend on the order in which the players are  *)
(* tried: if they stand clear of each other and of the muzzle, there is    *)
(* at most one answer, with one place and one body region.  Session.cpp    *)
(* ResolveAndBroadcastHit, whose loop keeps the first of equal rayTs, over *)
(* the sessions in the order Room::SnapshotOthers happens to give them.    *)
THEOREM OneAnswer ==
  ASSUME NEW O \in Vec, NEW D \in Vec, NEW others, \A o \in DOMAIN others : others[o].pos \in Vec,
         FairShot(O, others), NEW h \in ResolveHit(O, D, others), NEW g \in ResolveHit(O, D, others)
  PROVE  h = g
<1> DEFINE result == [o \in DOMAIN others |-> TestRayAgainstPlayerCapsule(O, D, others[o].pos)]
           Answer(o) == [target |-> o, t |-> result[o].t, bone |-> HitBoneAt(O, D, others[o], result[o].t)]
<1>1. h = Answer(h.target) /\ g = Answer(g.target)
  BY DEF ResolveHit
<1> HIDE DEF result, Answer
<1>2. SUFFICES ASSUME h.target # g.target PROVE FALSE
  BY <1>1, Zenon
<1> DEFINE a == h.t[1] j == h.t[2] b == g.t[1] k == g.t[2]
<1>3. /\ h.target \in DOMAIN others /\ h.t \in Nat \X (Nat \ {0}) /\ Meets(O, D, others[h.target].pos, h.t)
      /\ g.target \in DOMAIN others /\ g.t \in Nat \X (Nat \ {0}) /\ Meets(O, D, others[g.target].pos, g.t)
  BY ShotHitsFirst, Zenon
<1>4. /\ a \in Nat /\ j \in Nat \ {0} /\ h.t = <<a, j>> /\ a \in Int
      /\ b \in Nat /\ k \in Nat \ {0} /\ g.t = <<b, k>> /\ b \in Int
  BY <1>3
<1> HIDE DEF a, j, b, k
<1>5. Meets(O, D, others[h.target].pos, <<a, j>>) /\ Meets(O, D, others[g.target].pos, <<b, k>>)
  BY <1>3, <1>4
<1>6. Earlier(<<a, j>>, <<b, k>>)
  <2>1. g.target \in DOMAIN others \ {h.target}
    BY <1>2, <1>3
  <2> QED BY <1>4, <1>5, <2>1, ShotHitsFirst, Zenon
<1>7. Earlier(<<b, k>>, <<a, j>>)
  <2>1. h.target \in DOMAIN others \ {g.target}
    BY <1>2, <1>3
  <2> QED BY <1>4, <1>5, <2>1, ShotHitsFirst, Zenon
<1>8. a * k < b * j /\ b * j < a * k
  BY <1>6, <1>7 DEF Earlier
<1>9. a * k \in Int /\ b * j \in Int
  BY <1>4
<1> QED BY <1>8, <1>9
=============================================================================
