------------------------------ MODULE Lagrange ------------------------------
(***************************************************************************)
(* The shares of a key add up to the key: the weights that product_1 and   *)
(* product_2 of src/electionguard/decryption/trustee.c compute are those   *)
(* of Lagrange's interpolation at 0, for every prime q and every set of    *)
(* trustees.  First the arithmetic modulo a prime, then the identity.      *)
(***************************************************************************)
EXTENDS ThresholdShares, FiniteSetTheorems, WellFoundedInduction, TLAPS

------------------------------------------------------------------------------
(* Arithmetic modulo Q.                                                    *)

LEMMA QIsPrime == Q \in Nat /\ Q >= 2 /\ (\A d \in 2 .. Q - 1 : Q % d # 0)
BY ThresholdAssumption

\* Division with remainder.
LEMMA Remainder ==
  ASSUME NEW a \in Int
  PROVE  a \div Q \in Int /\ a % Q \in Exponent /\ a = Q * (a \div Q) + (a % Q)
BY QIsPrime DEF Exponent

LEMMA RemainderIsUnique ==
  ASSUME NEW k \in Int, NEW r \in Exponent
  PROVE  (Q * k + r) % Q = r
<1> DEFINE a == Q * k + r
           j == a \div Q
           s == a % Q
<1>1. Q \in Nat /\ Q >= 2 /\ r \in Int /\ 0 <= r /\ r < Q /\ a \in Int
  BY QIsPrime DEF Exponent
<1>2. j \in Int /\ s \in Exponent /\ a = Q * j + s
  BY <1>1, Remainder
<1>3. s \in Int /\ 0 <= s /\ s < Q
  BY <1>1, <1>2 DEF Exponent
<1>4. a = Q * k + r
  OBVIOUS
<1> HIDE DEF a, j, s
<1>5. Q * (k - j) = s - r
  BY <1>1, <1>2, <1>3, <1>4
<1>6. k - j < 1
  <2>1. ASSUME k - j >= 1 PROVE FALSE
    <3>1. Q * (k - j) >= Q
      BY <1>1, <1>2, <2>1
    <3> QED
      BY <1>1, <1>3, <1>5, <3>1
  <2> QED
    BY <1>2, <2>1
<1>7. k - j > -1
  <2>1. ASSUME k - j <= -1 PROVE FALSE
    <3>1. Q * (k - j) <= -Q
      BY <1>1, <1>2, <2>1
    <3> QED
      BY <1>1, <1>3, <1>5, <3>1
  <2> QED
    BY <1>2, <2>1
<1>8. k = j
  BY <1>2, <1>6, <1>7
<1>9. s = r
  BY <1>1, <1>2, <1>3, <1>4, <1>8
<1> QED
  BY <1>9 DEF s, a

\* Numbers that differ by a multiple of Q have the same remainder.
LEMMA Congruent ==
  ASSUME NEW a \in Int, NEW b \in Int, NEW k \in Int, a = b + Q * k
  PROVE  a % Q = b % Q
<1>1. Q \in Int
  BY QIsPrime
<1> DEFINE j == b \div Q
           r == b % Q
<1>2. j \in Int /\ r \in Exponent /\ b = Q * j + r
  BY Remainder
<1>3. r \in Int
  BY <1>1, <1>2 DEF Exponent
<1>4. r = b % Q
  OBVIOUS
<1> HIDE DEF j, r
<1>5. a = Q * (j + k) + r
  BY <1>1, <1>2, <1>3
<1>6. (Q * (j + k) + r) % Q = r
  BY <1>2, RemainderIsUnique
<1> QED
  BY <1>4, <1>5, <1>6

\* What is added or multiplied may be reduced first.
LEMMA ReduceFirst ==
  ASSUME NEW a \in Int, NEW b \in Int
  PROVE  /\ ((a % Q) + b) % Q = (a + b) % Q
         /\ ((a % Q) - b) % Q = (a - b) % Q
         /\ (b - (a % Q)) % Q = (b - a) % Q
         /\ ((a % Q) * b) % Q = (a * b) % Q
<1> DEFINE j == a \div Q
           r == a % Q
<1>1. Q \in Int /\ j \in Int /\ r \in Int /\ a = Q * j + r
  BY QIsPrime, Remainder DEF Exponent
<1> HIDE DEF j, r
<1>2. \A x, y, k \in Int : x = y + Q * k => x % Q = y % Q
  BY Congruent
<1>3. (a + b) % Q = (r + b) % Q
  <2>1. a + b \in Int /\ r + b \in Int /\ a + b = (r + b) + Q * j
    BY <1>1
  <2> QED
    BY <1>1, <1>2, <2>1
<1>4. (a - b) % Q = (r - b) % Q
  <2>1. a - b \in Int /\ r - b \in Int /\ a - b = (r - b) + Q * j
    BY <1>1
  <2> QED
    BY <1>1, <1>2, <2>1
<1>5. (b - a) % Q = (b - r) % Q
  <2>1. b - a \in Int /\ b - r \in Int /\ -j \in Int /\ b - a = (b - r) + Q * (-j)
    BY <1>1
  <2> QED
    BY <1>2, <2>1
<1>6. (a * b) % Q = (r * b) % Q
  <2>1. a * b \in Int /\ r * b \in Int /\ j * b \in Int /\ a * b = r * b + Q * (j * b)
    BY <1>1
  <2> QED
    BY <1>2, <2>1
<1> QED
  BY <1>3, <1>4, <1>5, <1>6 DEF r

LEMMA Reduced == \A a \in Exponent : a \in Int /\ a % Q = a
<1> SUFFICES ASSUME NEW a \in Exponent PROVE a \in Int /\ a % Q = a
  OBVIOUS
<1>1. Q \in Int /\ a \in Int
  BY QIsPrime DEF Exponent
<1>2. (Q * 0 + a) % Q = a
  BY RemainderIsUnique
<1>3. Q * 0 + a = a
  BY <1>1
<1> QED
  BY <1>1, <1>2, <1>3

LEMMA RemainderIsNumber == \A a \in Int : a % Q \in Int
BY Remainder, Reduced

LEMMA SmallExponents == 0 \in Exponent /\ 1 \in Exponent
BY QIsPrime DEF Exponent

LEMMA OperationsClosed ==
  ASSUME NEW a \in Exponent, NEW b \in Exponent
  PROVE  AddModQ(a, b) \in Exponent /\ SubModQ(a, b) \in Exponent /\ MulModQ(a, b) \in Exponent
<1>1. a + b \in Int /\ a - b \in Int /\ a * b \in Int
  BY Reduced
<1> QED
  BY <1>1, Remainder DEF AddModQ, SubModQ, MulModQ

LEMMA AdditionLaws ==
  ASSUME NEW a \in Exponent, NEW b \in Exponent, NEW c \in Exponent
  PROVE  /\ AddModQ(a, b) = AddModQ(b, a)
         /\ AddModQ(a, 0) = a
         /\ AddModQ(a, AddModQ(b, c)) = AddModQ(AddModQ(a, b), c)
<1>1. a \in Int /\ b \in Int /\ c \in Int /\ a % Q = a /\ 0 \in Int
  BY Reduced
<1>2. a + b \in Int /\ b + c \in Int
  BY <1>1
<1>3. a + b = b + a /\ a + 0 = a
  BY <1>1
<1>4. AddModQ(a, AddModQ(b, c)) = ((b + c) + a) % Q
  <2>1. a + ((b + c) % Q) = ((b + c) % Q) + a
    <3>1. (b + c) % Q \in Int
      BY <1>2, RemainderIsNumber
    <3> QED
      BY <1>1, <3>1
  <2> QED
    BY <1>1, <1>2, <2>1, ReduceFirst DEF AddModQ
<1>5. AddModQ(AddModQ(a, b), c) = ((a + b) + c) % Q
  BY <1>1, <1>2, ReduceFirst DEF AddModQ
<1>6. (b + c) + a = (a + b) + c
  BY <1>1
<1> QED
  BY <1>1, <1>3, <1>4, <1>5, <1>6 DEF AddModQ

LEMMA MultiplicationLaws ==
  ASSUME NEW a \in Exponent, NEW b \in Exponent, NEW c \in Exponent
  PROVE  /\ MulModQ(a, b) = MulModQ(b, a)
         /\ MulModQ(a, 1) = a
         /\ MulModQ(a, 0) = 0
         /\ MulModQ(a, MulModQ(b, c)) = MulModQ(MulModQ(a, b), c)
<1>1. a \in Int /\ b \in Int /\ c \in Int /\ a % Q = a /\ 0 % Q = 0
  BY Reduced, SmallExponents
<1>2. a * b \in Int /\ b * c \in Int
  BY <1>1
<1>3. a * b = b * a /\ a * 1 = a /\ a * 0 = 0
  BY <1>1
<1>4. MulModQ(a, MulModQ(b, c)) = ((b * c) * a) % Q
  <2>1. a * ((b * c) % Q) = ((b * c) % Q) * a
    <3>1. (b * c) % Q \in Int
      BY <1>2, RemainderIsNumber
    <3> QED
      BY <1>1, <3>1
  <2> QED
    BY <1>1, <1>2, <2>1, ReduceFirst DEF MulModQ
<1>5. MulModQ(MulModQ(a, b), c) = ((a * b) * c) % Q
  BY <1>1, <1>2, ReduceFirst DEF MulModQ
<1>6. (b * c) * a = (a * b) * c
  BY <1>1
<1> QED
  BY <1>1, <1>3, <1>4, <1>5, <1>6 DEF MulModQ

LEMMA Distribution ==
  ASSUME NEW a \in Exponent, NEW b \in Exponent, NEW c \in Exponent
  PROVE  /\ MulModQ(c, AddModQ(a, b)) = AddModQ(MulModQ(c, a), MulModQ(c, b))
         /\ MulModQ(c, SubModQ(a, b)) = SubModQ(MulModQ(c, a), MulModQ(c, b))
<1>1. a \in Int /\ b \in Int /\ c \in Int
  BY Reduced
<1>2. /\ a + b \in Int /\ a - b \in Int /\ c * a \in Int /\ c * b \in Int
      /\ (c * a) % Q \in Int /\ (c * b) % Q \in Int
  <2>1. a + b \in Int /\ a - b \in Int /\ c * a \in Int /\ c * b \in Int
    BY <1>1
  <2> QED
    BY <2>1, RemainderIsNumber
<1>3. MulModQ(c, AddModQ(a, b)) = ((a + b) * c) % Q
  <2>1. c * ((a + b) % Q) = ((a + b) % Q) * c
    <3>1. (a + b) % Q \in Int
      BY <1>2, RemainderIsNumber
    <3> QED
      BY <1>1, <3>1
  <2> QED
    BY <1>1, <1>2, <2>1, ReduceFirst DEF MulModQ, AddModQ
<1>4. MulModQ(c, SubModQ(a, b)) = ((a - b) * c) % Q
  <2>1. c * ((a - b) % Q) = ((a - b) % Q) * c
    <3>1. (a - b) % Q \in Int
      BY <1>2, RemainderIsNumber
    <3> QED
      BY <1>1, <3>1
  <2> QED
    BY <1>1, <1>2, <2>1, ReduceFirst DEF MulModQ, SubModQ
<1>5. AddModQ(MulModQ(c, a), MulModQ(c, b)) = (c * a + c * b) % Q
  <2>1. AddModQ(MulModQ(c, a), MulModQ(c, b)) = (c * a + ((c * b) % Q)) % Q
    BY <1>2, ReduceFirst DEF MulModQ, AddModQ
  <2>2. c * a + ((c * b) % Q) = ((c * b) % Q) + c * a /\ c * b + c * a = c * a + c * b
    BY <1>2
  <2>3. (((c * b) % Q) + c * a) % Q = (c * b + c * a) % Q
    BY <1>2, ReduceFirst
  <2> QED
    BY <2>1, <2>2, <2>3
<1>6. SubModQ(MulModQ(c, a), MulModQ(c, b)) = (c * a - c * b) % Q
  <2>1. SubModQ(MulModQ(c, a), MulModQ(c, b)) = (c * a - ((c * b) % Q)) % Q
    BY <1>2, ReduceFirst DEF MulModQ, SubModQ
  <2> QED
    BY <1>2, <2>1, ReduceFirst
<1>7. (a + b) * c = c * a + c * b /\ (a - b) * c = c * a - c * b
  BY <1>1
<1> QED
  BY <1>3, <1>4, <1>5, <1>6, <1>7

LEMMA SubtractionLaws ==
  ASSUME NEW a \in Exponent, NEW b \in Exponent
  PROVE  /\ SubModQ(a, b) = 0 <=> a = b
         /\ AddModQ(SubModQ(a, b), b) = a
<1>1. a \in Int /\ b \in Int /\ a % Q = a /\ b % Q = b /\ 0 % Q = 0
  BY Reduced, SmallExponents
<1>2. a - b \in Int
  BY <1>1
<1>3. AddModQ(SubModQ(a, b), b) = a
  <2>1. AddModQ(SubModQ(a, b), b) = ((a - b) + b) % Q
    BY <1>1, <1>2, ReduceFirst DEF AddModQ, SubModQ
  <2>2. (a - b) + b = a
    BY <1>1
  <2> QED
    BY <1>1, <2>1, <2>2
<1>4. a = b => SubModQ(a, b) = 0
  BY <1>1 DEF SubModQ
<1>5. SubModQ(a, b) = 0 => a = b
  <2>1. AddModQ(0, b) = b
    BY <1>1 DEF AddModQ
  <2> QED
    BY <1>3, <2>1
<1> QED
  BY <1>3, <1>4, <1>5

\* A nonempty set of numbers has a smallest one.
LEMMA SmallestNumber ==
  ASSUME NEW S \in SUBSET Nat, S # {}
  PROVE  \E m \in S : \A n \in S : m <= n
<1> DEFINE R == OpToRel(<, Nat)
<1>1. IsWellFoundedOn(R, Nat)
  BY NatLessThanWellFounded, Zenon
<1> HIDE DEF R
<1>2. PICK m \in S : \A n \in S : ~(<<n, m>> \in R)
  BY <1>1, WFMin
<1>3. \A n \in S : ~(n < m)
  BY <1>2 DEF R, OpToRel
<1>4. \A n \in S : m <= n
  BY <1>3
<1> QED
  BY <1>4

\* Q is prime: it divides no product of smaller numbers (Euclid).
LEMMA NoZeroDivisors ==
  ASSUME NEW a \in Exponent, NEW b \in Exponent, MulModQ(a, b) = 0
  PROVE  a = 0 \/ b = 0
<1> SUFFICES ASSUME a # 0, b # 0 PROVE FALSE
  OBVIOUS
<1> DEFINE S == {n \in 1 .. Q - 1 : (n * a) % Q = 0}
<1>1. a \in Int /\ b \in Int /\ a % Q = a /\ a * b = b * a
  BY Reduced
<1>2. b \in S
  BY <1>1, QIsPrime DEF Exponent, MulModQ
<1>3. PICK m \in S : \A n \in S : m <= n
  <2>1. S \in SUBSET Nat
    BY QIsPrime
  <2> HIDE DEF S
  <2> QED
    BY <1>2, <2>1, SmallestNumber
<1>4. m \in 1 .. Q - 1 /\ (m * a) % Q = 0 /\ m \in Int /\ m * a \in Int
  BY <1>1, QIsPrime
<1>5. m # 1
  <2>1. 1 * a = a
    BY <1>1
  <2> QED
    BY <1>1, <1>4, <2>1
<1> DEFINE j == Q \div m
           r == Q % m
<1>6. j \in Int /\ r \in 1 .. m - 1 /\ Q = m * j + r
  <2>1. m \in 2 .. Q - 1
    BY <1>4, <1>5, QIsPrime
  <2>2. r # 0
    BY <2>1, QIsPrime
  <2>3. j \in Int /\ r \in 0 .. m - 1 /\ Q = m * j + r
    BY <2>1, QIsPrime
  <2> QED
    BY <1>4, <2>2, <2>3
<1> HIDE DEF j, r
<1>7. (r * a) % Q = 0
  <2> DEFINE k == (m * a) \div Q
  <2>1. k \in Int /\ m * a = Q * k
    <3>1. k \in Int /\ m * a = Q * k + ((m * a) % Q)
      BY <1>4, Remainder
    <3>2. Q * k \in Int
      BY <3>1, QIsPrime
    <3> HIDE DEF k
    <3> QED
      BY <1>4, <3>1, <3>2
  <2> HIDE DEF k
  <2>2. r \in Int /\ Q \in Int
    BY <1>4, <1>6, QIsPrime
  <2>3. r * a = Q * a - (m * j) * a
    BY <1>1, <1>4, <1>6, <2>2
  <2>4. (m * j) * a = (m * a) * j
    BY <1>1, <1>4, <1>6
  <2>5. r * a = 0 + Q * (a - k * j)
    BY <1>1, <1>4, <1>6, <2>1, <2>2, <2>3, <2>4
  <2>6. r * a \in Int /\ 0 \in Int /\ a - k * j \in Int
    BY <1>1, <1>6, <2>1, <2>2
  <2>7. (r * a) % Q = 0 % Q
    BY <2>5, <2>6, Congruent
  <2> QED
    BY <2>7, SmallExponents, Reduced
<1>8. r \in S /\ r < m
  BY <1>4, <1>6, <1>7, QIsPrime
<1> QED
  BY <1>3, <1>4, <1>6, <1>8

LEMMA Cancellation ==
  ASSUME NEW a \in Exponent, NEW b \in Exponent, NEW c \in Exponent, c # 0,
         MulModQ(c, a) = MulModQ(c, b)
  PROVE  a = b
<1>1. MulModQ(c, SubModQ(a, b)) = SubModQ(MulModQ(c, a), MulModQ(c, b))
  BY Distribution
<1>2. SubModQ(a, b) \in Exponent /\ MulModQ(c, a) \in Exponent
  BY OperationsClosed
<1>3. MulModQ(c, SubModQ(a, b)) = 0
  BY <1>1, <1>2, SubtractionLaws
<1>4. SubModQ(a, b) = 0
  BY <1>2, <1>3, NoZeroDivisors
<1> QED
  BY <1>4, SubtractionLaws

\* What div_mod_q looks for there is, so that it divides.
LEMMA DivisionUndoesMultiplication ==
  ASSUME NEW a \in Exponent, NEW b \in Exponent, b # 0
  PROVE  DivModQ(a, b) \in Exponent /\ MulModQ(DivModQ(a, b), b) = a
<1> DEFINE f == [x \in Exponent |-> MulModQ(x, b)]
           inverse == CHOOSE x \in Exponent : MulModQ(x, b) = 1
<1>1. f \in Injection(Exponent, Exponent)
  <2>1. f \in [Exponent -> Exponent]
    BY OperationsClosed
  <2>2. ASSUME NEW x \in Exponent, NEW y \in Exponent, f[x] = f[y]
        PROVE  x = y
    <3>1. MulModQ(b, x) = MulModQ(b, y)
      BY <2>2, MultiplicationLaws
    <3> QED
      BY <3>1, Cancellation
  <2> QED
    BY <2>1, <2>2 DEF Injection, IsInjective
<1>2. IsFiniteSet(Exponent)
  BY QIsPrime, FS_Interval DEF Exponent
<1>3. f \in Surjection(Exponent, Exponent)
  BY <1>1, <1>2, FS_Injection
<1>4. \E x \in Exponent : f[x] = 1
  BY <1>3, SmallExponents DEF Surjection
<1>5. \E x \in Exponent : MulModQ(x, b) = 1
  BY <1>4
<1> HIDE DEF f
<1>6. inverse \in Exponent /\ MulModQ(inverse, b) = 1
  BY <1>5
<1>7. DivModQ(a, b) = MulModQ(a, inverse)
  BY DEF DivModQ
<1> HIDE DEF inverse
<1>8. MulModQ(MulModQ(a, inverse), b) = MulModQ(a, MulModQ(inverse, b))
  BY <1>6, MultiplicationLaws
<1> QED
  BY <1>6, <1>7, <1>8, OperationsClosed, MultiplicationLaws

LEMMA AdditionCancels ==
  ASSUME NEW a \in Exponent, NEW b \in Exponent, NEW c \in Exponent
  PROVE  AddModQ(a, b) = c <=> a = SubModQ(c, b)
<1>1. AddModQ(SubModQ(c, b), b) = c
  BY SubtractionLaws
<1>2. ASSUME AddModQ(a, b) = c PROVE a = SubModQ(c, b)
  <2>1. a \in Int /\ b \in Int /\ a + b \in Int /\ a % Q = a
    BY Reduced
  <2>2. SubModQ(c, b) = ((a + b) - b) % Q
    BY <1>2, <2>1, ReduceFirst DEF AddModQ, SubModQ
  <2>3. (a + b) - b = a
    BY <2>1
  <2> QED
    BY <2>1, <2>2, <2>3
<1> QED
  BY <1>1, <1>2

------------------------------------------------------------------------------
(* Sums and products modulo Q.  No factor of a product is 0.               *)

Factors == Exponent \ {0}

Sums == INSTANCE FoldsAndLoops WITH Op <- AddModQ, Base <- 0, D <- Exponent
Products == INSTANCE FoldsAndLoops WITH Op <- MulModQ, Base <- 1, D <- Factors

\* The instances' notion of a finite set is the same one.
LEMMA SameFinite ==
  \A S : IsFiniteSet(S) <=> Sums!IsFiniteSet(S) /\ Products!IsFiniteSet(S)
BY DEF IsFiniteSet, Sums!IsFiniteSet, Products!IsFiniteSet

LEMMA SumsLawful == Sums!Lawful
<1>1. \A a, b \in Exponent : AddModQ(a, b) \in Exponent /\ AddModQ(a, b) = AddModQ(b, a)
  BY OperationsClosed, AdditionLaws
<1>2. \A a \in Exponent : AddModQ(a, 0) = a
  BY AdditionLaws
<1>3. \A a, b, c \in Exponent : AddModQ(a, AddModQ(b, c)) = AddModQ(AddModQ(a, b), c)
  BY AdditionLaws
<1> QED
  BY <1>1, <1>2, <1>3, SmallExponents DEF Sums!Lawful

LEMMA ProductsLawful == Products!Lawful
<1>1. 1 \in Factors
  BY SmallExponents DEF Factors
<1>2. \A a, b \in Factors : MulModQ(a, b) \in Factors
  BY OperationsClosed, NoZeroDivisors DEF Factors
<1>3. \A a, b \in Factors : MulModQ(a, b) = MulModQ(b, a)
  BY MultiplicationLaws DEF Factors
<1>4. \A a \in Factors : MulModQ(a, 1) = a
  BY MultiplicationLaws DEF Factors
<1>5. \A a, b, c \in Factors : MulModQ(a, MulModQ(b, c)) = MulModQ(MulModQ(a, b), c)
  BY MultiplicationLaws DEF Factors
<1> QED
  BY <1>1, <1>2, <1>3, <1>4, <1>5 DEF Products!Lawful

LEMMA SumIsFold == \A f : SumModQ(f) = Sums!Fold(f, DOMAIN f)
BY DEF SumModQ, FoldFunction, FoldFunctionOnSet, MapThenFoldSet,
       Sums!Fold, Sums!MapThenFoldSet

LEMMA ProductIsFold == \A f : ProductModQ(f) = Products!Fold(f, DOMAIN f)
BY DEF ProductModQ, FoldFunction, FoldFunctionOnSet, MapThenFoldSet,
       Products!Fold, Products!MapThenFoldSet

\* A sum taken a multiple of at once, or in every term.
LEMMA SumScaled ==
  ASSUME NEW c \in Exponent, NEW S, IsFiniteSet(S), NEW f, NEW g,
         \A x \in S : f[x] \in Exponent /\ g[x] = MulModQ(c, f[x])
  PROVE  Sums!Fold(g, S) = MulModQ(c, Sums!Fold(f, S))
<1> DEFINE h == [x \in Exponent |-> MulModQ(c, x)]
<1>1. h[0] = 0
  BY SmallExponents, MultiplicationLaws
<1>2. \A a, b \in Exponent : h[AddModQ(a, b)] = AddModQ(h[a], h[b])
  BY Distribution, OperationsClosed
<1>3. \A x \in S : f[x] \in Exponent /\ g[x] = h[f[x]]
  OBVIOUS
<1>4. Sums!Fold(f, S) \in Exponent
  BY SumsLawful, SameFinite, Sums!FoldIn
<1>5. h[Sums!Fold(f, S)] = MulModQ(c, Sums!Fold(f, S))
  BY <1>4
<1> HIDE DEF h
<1>6. Sums!Fold(g, S) = h[Sums!Fold(f, S)]
  BY <1>1, <1>2, <1>3, SumsLawful, SameFinite, Sums!FoldImage
<1> QED
  BY <1>5, <1>6

------------------------------------------------------------------------------
(* The weights.                                                            *)

\* Where trustee i's share is taken.
Point == [i \in Trustee |-> i + 1]
\* The factors of product_2 for trustee l.
Distance(l) == [i \in Trustee |-> SubModQ(i + 1, l + 1)]

LEMMA TrusteeSetsFinite == IsFiniteSet(Trustee) /\ (\A A \in SUBSET Trustee : IsFiniteSet(A))
<1>1. IsFiniteSet(Trustee)
  BY FS_Interval, ThresholdAssumption DEF Trustee
<1> QED
  BY <1>1, FS_Subset

LEMMA PointsDistinct ==
  /\ \A i \in Trustee : Point[i] \in Factors /\ Point[i] = i + 1
  /\ \A i, l \in Trustee : i # l => Point[i] # Point[l]
BY ThresholdAssumption DEF Point, Trustee, Factors, Exponent

LEMMA DistancesNotZero ==
  ASSUME NEW l \in Trustee, NEW i \in Trustee, i # l
  PROVE  Distance(l)[i] \in Factors /\ Distance(l)[i] = SubModQ(Point[i], Point[l])
<1>1. Point[i] \in Exponent /\ Point[l] \in Exponent /\ Point[i] # Point[l]
  BY PointsDistinct DEF Factors
<1>2. Distance(l)[i] = SubModQ(Point[i], Point[l])
  BY DEF Distance, Point
<1>3. SubModQ(Point[i], Point[l]) \in Exponent /\ SubModQ(Point[i], Point[l]) # 0
  BY <1>1, OperationsClosed, SubtractionLaws
<1> QED
  BY <1>2, <1>3 DEF Factors

LEMMA ProductsAreFolds ==
  ASSUME NEW A \in SUBSET Trustee, NEW l \in A
  PROVE  /\ product_1(l, A) = Products!Fold(Point, A \ {l})
         /\ product_2(l, A) = Products!Fold(Distance(l), A \ {l})
<1> DEFINE S == A \ {l}
           f == [i \in S |-> i + 1]
           g == [i \in S |-> SubModQ(i + 1, l + 1)]
<1>1. IsFiniteSet(S) /\ S \subseteq Trustee
  BY TrusteeSetsFinite
<1>2. product_1(l, A) = Products!Fold(f, S) /\ product_2(l, A) = Products!Fold(g, S)
  BY ProductIsFold DEF product_1, product_2
<1>3. \A i \in S : f[i] = Point[i] /\ g[i] = Distance(l)[i]
  BY <1>1 DEF Point, Distance
<1> HIDE DEF S, f, g
<1>4. Products!Fold(f, S) = Products!Fold(Point, S)
  BY <1>1, <1>3, SameFinite, Products!FoldEqual
<1>5. Products!Fold(g, S) = Products!Fold(Distance(l), S)
  BY <1>1, <1>3, SameFinite, Products!FoldEqual
<1> QED
  BY <1>2, <1>4, <1>5 DEF S

LEMMA ProductsNotZero ==
  ASSUME NEW A \in SUBSET Trustee, NEW l \in A
  PROVE  product_1(l, A) \in Factors /\ product_2(l, A) \in Factors
<1>1. IsFiniteSet(A \ {l}) /\ (\A i \in A \ {l} : i \in Trustee /\ i # l) /\ l \in Trustee
  BY TrusteeSetsFinite
<1>2. \A i \in A \ {l} : Point[i] \in Factors /\ Distance(l)[i] \in Factors
  BY <1>1, PointsDistinct, DistancesNotZero
<1>3. Products!Fold(Point, A \ {l}) \in Factors
  BY <1>1, <1>2, ProductsLawful, SameFinite, Products!FoldIn
<1>4. Products!Fold(Distance(l), A \ {l}) \in Factors
  BY <1>1, <1>2, ProductsLawful, SameFinite, Products!FoldIn
<1> QED
  BY <1>3, <1>4, ProductsAreFolds

\* What one more trustee a changes in the products of trustee l.
LEMMA ProductsStep ==
  ASSUME NEW A \in SUBSET Trustee, NEW l \in A, NEW a \in A, a # l
  PROVE  /\ product_1(l, A) = MulModQ(Point[a], product_1(l, A \ {a}))
         /\ product_2(l, A) = MulModQ(Distance(l)[a], product_2(l, A \ {a}))
<1> DEFINE S == A \ {l}
<1>1. IsFiniteSet(S) /\ (\A i \in S : i \in Trustee /\ i # l) /\ l \in Trustee
  BY TrusteeSetsFinite
<1>2. a \in S /\ (A \ {a}) \ {l} = S \ {a} /\ l \in A \ {a} /\ A \ {a} \in SUBSET Trustee
  OBVIOUS
<1>3. /\ product_1(l, A) = Products!Fold(Point, S)
      /\ product_2(l, A) = Products!Fold(Distance(l), S)
  BY ProductsAreFolds
<1>4. /\ product_1(l, A \ {a}) = Products!Fold(Point, S \ {a})
      /\ product_2(l, A \ {a}) = Products!Fold(Distance(l), S \ {a})
  BY <1>2, ProductsAreFolds
<1>5. \A i \in S : Point[i] \in Factors /\ Distance(l)[i] \in Factors
  BY <1>1, PointsDistinct, DistancesNotZero
<1> HIDE DEF S
<1>6. Products!Fold(Point, S) = MulModQ(Point[a], Products!Fold(Point, S \ {a}))
  BY <1>1, <1>2, <1>5, ProductsLawful, SameFinite, Products!FoldRemove
<1>7. Products!Fold(Distance(l), S) = MulModQ(Distance(l)[a], Products!Fold(Distance(l), S \ {a}))
  BY <1>1, <1>2, <1>5, ProductsLawful, SameFinite, Products!FoldRemove
<1> QED
  BY <1>3, <1>4, <1>6, <1>7

LEMMA WeightLaw ==
  ASSUME NEW A \in SUBSET Trustee, NEW l \in A
  PROVE  /\ LagrangeCoefficient(l, A) \in Exponent
         /\ MulModQ(LagrangeCoefficient(l, A), product_2(l, A)) = product_1(l, A)
BY ProductsNotZero, DivisionUndoesMultiplication DEF LagrangeCoefficient, Factors

\* What one more trustee a changes in the weight of trustee l's share.
LEMMA WeightStep ==
  ASSUME NEW A \in SUBSET Trustee, NEW l \in A, NEW a \in A, a # l
  PROVE  MulModQ(LagrangeCoefficient(l, A), Distance(l)[a])
           = MulModQ(Point[a], LagrangeCoefficient(l, A \ {a}))
<1> DEFINE u == LagrangeCoefficient(l, A)
           v == LagrangeCoefficient(l, A \ {a})
           d == Distance(l)[a]
           x == Point[a]
           n == product_1(l, A \ {a})
           p == product_2(l, A \ {a})
<1>1. l \in A \ {a} /\ A \ {a} \in SUBSET Trustee /\ l \in Trustee /\ a \in Trustee
  OBVIOUS
<1>2. u \in Exponent /\ v \in Exponent
  BY <1>1, WeightLaw
<1>3. d \in Exponent /\ x \in Exponent
  BY <1>1, PointsDistinct, DistancesNotZero DEF Factors
<1>4. n \in Exponent /\ p \in Exponent /\ p # 0
  BY <1>1, ProductsNotZero DEF Factors
<1>5. MulModQ(u, MulModQ(d, p)) = MulModQ(x, n)
  BY WeightLaw, ProductsStep
<1>6. MulModQ(v, p) = n
  BY <1>1, WeightLaw
<1> HIDE DEF u, v, d, x, n, p
<1>7. MulModQ(u, d) \in Exponent /\ MulModQ(x, v) \in Exponent
  BY <1>2, <1>3, OperationsClosed
<1>8. MulModQ(p, MulModQ(u, d)) = MulModQ(u, MulModQ(d, p))
  BY <1>2, <1>3, <1>4, <1>7, MultiplicationLaws
<1>9. MulModQ(p, MulModQ(x, v)) = MulModQ(x, MulModQ(v, p))
  BY <1>2, <1>3, <1>4, <1>7, MultiplicationLaws
<1>10. MulModQ(u, d) = MulModQ(x, v)
  BY <1>4, <1>5, <1>6, <1>7, <1>8, <1>9, Cancellation
<1> QED
  BY <1>10 DEF u, v, d, x

\* The powers of a point.
LEMMA ShareWeightLaw ==
  ASSUME NEW l \in Trustee
  PROVE  /\ ShareWeight(l, 0) = 1
         /\ \A e \in Nat : /\ ShareWeight(l, e) \in Exponent
                           /\ ShareWeight(l, e + 1) = MulModQ(Point[l], ShareWeight(l, e))
<1> DEFINE f(e) == [i \in 1 .. e |-> l + 1]
<1>1. \A e \in Nat : ShareWeight(l, e) = Products!Fold(f(e), 1 .. e)
  BY ProductIsFold DEF ShareWeight
<1>2. Point[l] \in Factors /\ Point[l] = l + 1
  BY PointsDistinct
<1>3. ShareWeight(l, 0) = 1
  <2>1. 1 .. 0 = {}
    OBVIOUS
  <2>2. ShareWeight(l, 0) = Products!Fold(f(0), 1 .. 0)
    BY <1>1
  <2> HIDE DEF f
  <2> QED
    BY <2>1, <2>2, Products!FoldEmpty
<1>4. ASSUME NEW e \in Nat
      PROVE  /\ ShareWeight(l, e) \in Exponent
             /\ ShareWeight(l, e + 1) = MulModQ(Point[l], ShareWeight(l, e))
  <2>1. IsFiniteSet(1 .. e) /\ e + 1 \notin 1 .. e /\ (1 .. e) \cup {e + 1} = 1 .. (e + 1)
    BY FS_Interval
  <2>2. \A i \in 1 .. e : f(e)[i] = l + 1 /\ f(e + 1)[i] = l + 1
    OBVIOUS
  <2>3. f(e + 1)[e + 1] = l + 1
    OBVIOUS
  <2>4. ShareWeight(l, e) = Products!Fold(f(e), 1 .. e)
    BY <1>1
  <2>5. ShareWeight(l, e + 1) = Products!Fold(f(e + 1), 1 .. (e + 1))
    BY <1>1
  <2> HIDE DEF f
  <2>6. Products!Fold(f(e), 1 .. e) \in Factors
    BY <1>2, <2>1, <2>2, ProductsLawful, SameFinite, Products!FoldIn
  <2>7. Products!Fold(f(e + 1), 1 .. e) = Products!Fold(f(e), 1 .. e)
    BY <2>1, <2>2, SameFinite, Products!FoldEqual
  <2>8. \A i \in (1 .. e) \cup {e + 1} : f(e + 1)[i] \in Factors
    BY <1>2, <2>2, <2>3
  <2>9. Products!Fold(f(e + 1), (1 .. e) \cup {e + 1})
          = MulModQ(f(e + 1)[e + 1], Products!Fold(f(e + 1), 1 .. e))
    BY <2>1, <2>8, ProductsLawful, SameFinite, Products!FoldAdd
  <2> QED
    BY <1>2, <2>1, <2>3, <2>4, <2>5, <2>6, <2>7, <2>9 DEF Factors
<1> QED
  BY <1>3, <1>4

------------------------------------------------------------------------------
(* What the shares of the e-th power of the points add up to.              *)

Term(A, e) == [l \in Trustee |-> MulModQ(LagrangeCoefficient(l, A), ShareWeight(l, e))]
Moment(A, e) == Sums!Fold(Term(A, e), A)

LEMMA TermsAreExponents ==
  ASSUME NEW A \in SUBSET Trustee, NEW e \in Nat
  PROVE  /\ \A l \in A : Term(A, e)[l] \in Exponent
         /\ Moment(A, e) \in Exponent
<1>1. IsFiniteSet(A) /\ (\A l \in A : l \in Trustee)
  BY TrusteeSetsFinite
<1>2. \A l \in A : Term(A, e)[l] \in Exponent
  BY <1>1, WeightLaw, ShareWeightLaw, OperationsClosed DEF Term
<1>3. Moment(A, e) \in Exponent
  BY <1>1, <1>2, SumsLawful, SameFinite, Sums!FoldIn DEF Moment
<1> QED
  BY <1>2, <1>3

\* The sum for the next power, from those with and without a trustee a.
LEMMA MomentStep ==
  ASSUME NEW A \in SUBSET Trustee, NEW a \in A, NEW e \in Nat
  PROVE  MulModQ(Point[a], Moment(A, e))
           = AddModQ(Moment(A, e + 1), MulModQ(Point[a], Moment(A \ {a}, e)))
<1> DEFINE B == A \ {a}
           x == Point[a]
           scaled == [l \in Trustee |-> MulModQ(x, Term(A, e)[l])]
           rest == [l \in Trustee |-> IF l = a THEN 0 ELSE MulModQ(x, Term(B, e)[l])]
<1>1. /\ IsFiniteSet(A) /\ IsFiniteSet(B) /\ B \in SUBSET A /\ B \in SUBSET Trustee
      /\ a \in Trustee /\ e + 1 \in Nat
  BY TrusteeSetsFinite
<1>2. x \in Exponent
  BY <1>1, PointsDistinct DEF Factors
<1>3. ASSUME NEW l \in A
      PROVE  /\ scaled[l] = MulModQ(x, Term(A, e)[l]) /\ Term(A, e)[l] \in Exponent
             /\ Term(A, e + 1)[l] \in Exponent /\ rest[l] \in Exponent
             /\ scaled[l] = AddModQ(Term(A, e + 1)[l], rest[l])
  <2> DEFINE w == LagrangeCoefficient(l, A)
             v == LagrangeCoefficient(l, B)
             s == ShareWeight(l, e)
             y == Point[l]
  <2>1. l \in Trustee /\ w \in Exponent /\ s \in Exponent /\ y \in Exponent
    BY WeightLaw, ShareWeightLaw, PointsDistinct DEF Factors
  <2>2. Term(A, e)[l] = MulModQ(w, s) /\ Term(A, e)[l] \in Exponent
    BY <2>1, OperationsClosed DEF Term
  <2>3. Term(A, e + 1)[l] = MulModQ(w, MulModQ(y, s)) /\ Term(A, e + 1)[l] \in Exponent
    BY <1>1, <2>1, ShareWeightLaw, OperationsClosed DEF Term
  <2>4. scaled[l] = MulModQ(x, MulModQ(w, s))
    BY <2>1, <2>2
  <2>5. CASE l = a
    <3>1. rest[l] = 0 /\ x = y
      BY <2>1, <2>5
    <3>2. MulModQ(w, MulModQ(y, s)) = MulModQ(y, MulModQ(w, s))
      <4> HIDE DEF w, s, y
      <4> QED
        BY <2>1, MultiplicationLaws, OperationsClosed
    <3> QED
      BY <2>2, <2>3, <2>4, <3>1, <3>2, SmallExponents, AdditionLaws
  <2>6. CASE l # a
    <3> DEFINE d == Distance(l)[a]
    <3>1. l \in B /\ v \in Exponent /\ d \in Exponent /\ d = SubModQ(x, y)
      BY <1>1, <2>1, <2>6, WeightLaw, DistancesNotZero DEF Factors
    <3>2. rest[l] = MulModQ(x, MulModQ(v, s))
      BY <2>1, <2>6 DEF Term
    <3>3. MulModQ(w, d) = MulModQ(x, v)
      BY <2>6, WeightStep
    <3> HIDE DEF w, v, s, x, y, d, scaled, rest, B
    <3>4. MulModQ(x, MulModQ(v, s)) = MulModQ(MulModQ(w, s), d)
      <4>1. MulModQ(x, MulModQ(v, s)) = MulModQ(MulModQ(x, v), s)
        BY <1>2, <2>1, <3>1, MultiplicationLaws
      <4>2. MulModQ(MulModQ(w, d), s) = MulModQ(w, MulModQ(d, s))
        BY <2>1, <3>1, MultiplicationLaws
      <4>3. MulModQ(MulModQ(w, s), d) = MulModQ(w, MulModQ(s, d))
        BY <2>1, <3>1, MultiplicationLaws
      <4>4. MulModQ(d, s) = MulModQ(s, d)
        BY <2>1, <3>1, MultiplicationLaws
      <4> QED
        BY <3>3, <4>1, <4>2, <4>3, <4>4
    <3>5. MulModQ(w, MulModQ(y, s)) = MulModQ(MulModQ(w, s), y)
      BY <2>1, MultiplicationLaws, OperationsClosed
    <3>6. MulModQ(w, s) \in Exponent
      BY <2>1, OperationsClosed
    <3> DEFINE t == MulModQ(w, s)
    <3>7. t \in Exponent
      BY <3>6
    <3>8. MulModQ(t, d) = SubModQ(MulModQ(t, x), MulModQ(t, y))
      BY <1>2, <2>1, <3>1, <3>7, Distribution
    <3>9. MulModQ(t, x) = MulModQ(x, t)
      BY <1>2, <3>7, MultiplicationLaws
    <3>10. /\ MulModQ(t, x) \in Exponent /\ MulModQ(t, y) \in Exponent
           /\ MulModQ(t, d) \in Exponent
      BY <1>2, <2>1, <3>1, <3>7, OperationsClosed
    <3>11. AddModQ(MulModQ(t, d), MulModQ(t, y)) = MulModQ(t, x)
      BY <3>8, <3>10, AdditionCancels
    <3>12. AddModQ(MulModQ(t, y), MulModQ(t, d)) = MulModQ(x, t)
      BY <3>9, <3>10, <3>11, AdditionLaws
    <3> QED
      BY <2>2, <2>3, <2>4, <3>2, <3>4, <3>5, <3>10, <3>12
  <2> QED
    BY <2>5, <2>6
<1>4. \A l \in B : rest[l] = MulModQ(x, Term(B, e)[l])
  BY <1>1
<1>5. rest[a] = 0
  BY <1>1
<1>6. \A l \in B : Term(B, e)[l] \in Exponent
  BY <1>1, TermsAreExponents
<1> HIDE DEF scaled, rest, x
<1>7. Sums!Fold(scaled, A) = MulModQ(x, Moment(A, e))
  BY <1>1, <1>2, <1>3, SumScaled DEF Moment
<1>8. Sums!Fold(scaled, A) = AddModQ(Moment(A, e + 1), Sums!Fold(rest, A))
  BY <1>1, <1>3, SumsLawful, SameFinite, Sums!FoldPair DEF Moment
<1>9. Sums!Fold(rest, A) = Sums!Fold(rest, B)
  <2>1. \A l \in A \ B : rest[l] = 0
    BY <1>5
  <2> HIDE DEF B
  <2> QED
    BY <1>1, <1>3, <2>1, SumsLawful, SameFinite, Sums!FoldSubset
<1>10. Sums!Fold(rest, B) = MulModQ(x, Moment(B, e))
  <2> HIDE DEF B
  <2> QED
    BY <1>1, <1>2, <1>4, <1>6, SumScaled DEF Moment
<1> QED
  BY <1>7, <1>8, <1>9, <1>10 DEF x

LEMMA OneTrustee ==
  ASSUME NEW a \in Trustee
  PROVE  Moment({a}, 0) = 1
<1> DEFINE w == LagrangeCoefficient(a, {a})
<1>1. {a} \in SUBSET Trustee /\ a \in {a} /\ {a} \ {a} = {} /\ 0 \in Nat
  OBVIOUS
<1>2. product_1(a, {a}) = 1 /\ product_2(a, {a}) = 1
  BY <1>1, ProductsAreFolds, Products!FoldEmpty
<1>3. w \in Exponent /\ MulModQ(w, 1) = 1
  BY <1>1, <1>2, WeightLaw
<1>4. Term({a}, 0)[a] = MulModQ(w, 1)
  BY ShareWeightLaw DEF Term
<1>5. Moment({a}, 0) = Term({a}, 0)[a]
  BY <1>1, TermsAreExponents, SumsLawful, Sums!FoldSingle DEF Moment
<1> QED
  BY <1>3, <1>4, <1>5

\* Two trustees determine the sums for the powers 0 and 1.
LEMMA TwoTrustees ==
  ASSUME NEW A \in SUBSET Trustee, NEW a \in A, NEW b \in A, a # b,
         Moment(A \ {a}, 0) = 1, Moment(A \ {b}, 0) = 1
  PROVE  Moment(A, 0) = 1 /\ Moment(A, 1) = 0
<1> DEFINE m == Moment(A, 0)
           n == Moment(A, 1)
<1>1. m \in Exponent /\ n \in Exponent
  <2>1. 0 \in Nat /\ 1 \in Nat
    OBVIOUS
  <2> QED
    BY <2>1, TermsAreExponents
<1>2. Point[a] \in Exponent /\ Point[b] \in Exponent /\ Point[a] # Point[b]
  BY PointsDistinct DEF Factors
<1>3. ASSUME NEW x \in Exponent, MulModQ(x, m) = AddModQ(n, MulModQ(x, 1))
      PROVE  n = MulModQ(SubModQ(m, 1), x)
  <2>1. MulModQ(x, m) \in Exponent /\ MulModQ(x, 1) \in Exponent /\ SubModQ(m, 1) \in Exponent
    BY <1>1, <1>3, SmallExponents, OperationsClosed
  <2>2. n = SubModQ(MulModQ(x, m), MulModQ(x, 1))
    BY <1>1, <1>3, <2>1, AdditionCancels
  <2>3. n = MulModQ(x, SubModQ(m, 1))
    BY <1>1, <1>3, <2>2, SmallExponents, Distribution
  <2> QED
    BY <1>3, <2>1, <2>3, MultiplicationLaws
<1>4. \A c \in {a, b} : n = MulModQ(SubModQ(m, 1), Point[c])
  <2> SUFFICES ASSUME NEW c \in {a, b} PROVE n = MulModQ(SubModQ(m, 1), Point[c])
    OBVIOUS
  <2>1. MulModQ(Point[c], m) = AddModQ(Moment(A, 0 + 1), MulModQ(Point[c], Moment(A \ {c}, 0)))
    BY MomentStep
  <2>2. 0 + 1 = 1 /\ Moment(A \ {c}, 0) = 1 /\ Point[c] \in Exponent
    BY <1>2
  <2> HIDE DEF m, n
  <2>3. MulModQ(Point[c], m) = AddModQ(n, MulModQ(Point[c], 1))
    BY <2>1, <2>2 DEF n
  <2> QED
    BY <1>3, <2>2, <2>3
<1> HIDE DEF m, n
<1>5. SubModQ(m, 1) \in Exponent
  BY <1>1, SmallExponents, OperationsClosed
<1>6. SubModQ(m, 1) = 0
  BY <1>2, <1>4, <1>5, Cancellation
<1>7. m = 1
  BY <1>1, <1>6, SmallExponents, SubtractionLaws
<1>8. n = MulModQ(Point[a], 0)
  BY <1>2, <1>4, <1>6, SmallExponents, MultiplicationLaws
<1>9. n = 0
  BY <1>2, <1>8, MultiplicationLaws
<1> QED
  BY <1>7, <1>9 DEF m, n

\* The sums are 1 for the power 0 and 0 for the other powers below the number of
\* trustees: a polynomial of a lower degree is read off at 0 from its shares.
LEMMA MomentsAreThoseOfZero ==
  ASSUME NEW A \in SUBSET Trustee, A # {}
  PROVE  /\ Moment(A, 0) = 1
         /\ \A e \in 1 .. Cardinality(A) - 1 : Moment(A, e) = 0
<1> DEFINE Known(B) == /\ Moment(B, 0) = 1
                       /\ \A e \in 1 .. Cardinality(B) - 1 : Moment(B, e) = 0
           Good == {B \in SUBSET A : B # {} => Known(B)}
<1>0. IsFiniteSet(A)
  BY TrusteeSetsFinite
<1>1. ASSUME NEW B \in SUBSET A, \A C \in SUBSET B : C # B => C \in Good
      PROVE  B \in Good
  <2> SUFFICES ASSUME B # {} PROVE Known(B)
    OBVIOUS
  <2>1. B \in SUBSET Trustee /\ IsFiniteSet(B) /\ Cardinality(B) \in Nat
    BY TrusteeSetsFinite, FS_CardinalityType
  <2>2. PICK a \in B : TRUE
    OBVIOUS
  <2>3. CASE B = {a}
    <3>1. Cardinality(B) = 1
      BY <2>3, FS_Singleton
    <3>2. 1 .. Cardinality(B) - 1 = {}
      BY <3>1
    <3>3. a \in Trustee
      BY <2>1
    <3> QED
      BY <2>3, <3>2, <3>3, OneTrustee
  <2>4. CASE B # {a}
    <3>1. PICK b \in B : b # a
      BY <2>2, <2>4
    <3> HIDE DEF Known
    <3>2. Known(B \ {a}) /\ Known(B \ {b})
      <4>1. B \ {a} \in SUBSET B /\ B \ {a} # B /\ B \ {a} # {}
        BY <3>1
      <4>2. B \ {b} \in SUBSET B /\ B \ {b} # B /\ B \ {b} # {}
        BY <3>1
      <4> QED
        BY <1>1, <4>1, <4>2
    <3> DEFINE n == Cardinality(B)
    <3>3. Cardinality(B \ {a}) = n - 1
      BY <2>1, FS_RemoveElement
    <3>4. Moment(B, 0) = 1 /\ Moment(B, 1) = 0
      BY <2>1, <3>1, <3>2, TwoTrustees DEF Known
    <3>5. \A e \in 1 .. n - 2 : Moment(B \ {a}, e) = 0
      BY <2>1, <3>2, <3>3 DEF Known
    <3> DEFINE Bad == {e \in 1 .. n - 1 : Moment(B, e) # 0}
    <3>6. n \in Nat
      BY <2>1
    <3> HIDE DEF n
    <3>7. Bad = {}
      <4> SUFFICES ASSUME Bad # {} PROVE FALSE
        OBVIOUS
      <4>1. Bad \in SUBSET Nat
        BY <3>6
      <4> HIDE DEF Bad
      <4>2. PICK m \in Bad : \A k \in Bad : m <= k
        BY <4>1, SmallestNumber
      <4>3. m \in 1 .. n - 1 /\ Moment(B, m) # 0 /\ m # 1
        BY <3>4, <4>2 DEF Bad
      <4> DEFINE e == m - 1
      <4>4. e \in Nat /\ e + 1 = m /\ e \in 1 .. n - 2 /\ e \in 1 .. n - 1 /\ ~(m <= e)
        BY <3>6, <4>3
      <4>5. e \notin Bad
        BY <4>2, <4>4
      <4>6. Moment(B, e) = 0 /\ Moment(B \ {a}, e) = 0
        BY <3>5, <4>4, <4>5 DEF Bad
      <4> HIDE DEF e
      <4>7. MulModQ(Point[a], 0) = AddModQ(Moment(B, m), MulModQ(Point[a], 0))
        BY <2>1, <4>4, <4>6, MomentStep
      <4>8. Point[a] \in Exponent /\ Moment(B, m) \in Exponent
        <5>1. m \in Nat
          BY <4>4
        <5> QED
          BY <2>1, <5>1, PointsDistinct, TermsAreExponents DEF Factors
      <4>9. Moment(B, m) = 0
        BY <4>7, <4>8, SmallExponents, MultiplicationLaws, AdditionLaws
      <4> QED
        BY <4>3, <4>9
    <3>8. \A e \in 1 .. n - 1 : Moment(B, e) = 0
      BY <3>7
    <3> QED
      BY <3>4, <3>8 DEF Known, n
  <2> QED
    BY <2>3, <2>4
<1> HIDE DEF Good
<1>2. A \in Good
  BY <1>0, <1>1, Sums!SetInduction, SameFinite
<1> QED
  BY <1>2 DEF Good

------------------------------------------------------------------------------
(* The shares of a key add up to the key.                                  *)

LEMMA SharesAreExponents ==
  ASSUME NEW coefficients \in [Degree -> Exponent], NEW l \in Trustee
  PROVE  /\ computeTrusteePolynomial(coefficients, l)
              = Sums!Fold([e \in Degree |-> MulModQ(coefficients[e], ShareWeight(l, e))], Degree)
         /\ computeTrusteePolynomial(coefficients, l) \in Exponent
<1> DEFINE f == [e \in Degree |-> MulModQ(coefficients[e], ShareWeight(l, e))]
<1>1. computeTrusteePolynomial(coefficients, l) = Sums!Fold(f, Degree)
  BY SumIsFold DEF computeTrusteePolynomial
<1>2. IsFiniteSet(Degree) /\ Degree \subseteq Nat
  BY FS_Interval, ThresholdAssumption DEF Degree
<1>3. \A e \in Degree : f[e] \in Exponent
  BY <1>2, ShareWeightLaw, OperationsClosed
<1> HIDE DEF f
<1>4. Sums!Fold(f, Degree) \in Exponent
  BY <1>2, <1>3, SumsLawful, SameFinite, Sums!FoldIn
<1> QED
  BY <1>1, <1>4 DEF f

\* The shares that Threshold or more trustees have of a key, each with the weight
\* that the code computes for these trustees, add up to the key's coefficient 0.
LEMMA WeightedSharesAddUp ==
  ASSUME NEW coefficients \in [Degree -> Exponent],
         NEW A \in SUBSET Trustee, Cardinality(A) >= Threshold
  PROVE  SumModQ([l \in A |-> MulModQ(LagrangeCoefficient(l, A),
                                      computeTrusteePolynomial(coefficients, l))])
           = coefficients[0]
<1> DEFINE c == coefficients
           share == [l \in Trustee |->
                       [e \in Degree |-> MulModQ(c[e], ShareWeight(l, e))]]
           F == [l \in A |-> [e \in Degree |->
                   MulModQ(LagrangeCoefficient(l, A), share[l][e])]]
           G == [e \in Degree |-> [l \in A |->
                   MulModQ(LagrangeCoefficient(l, A), share[l][e])]]
           sum == [l \in A |-> MulModQ(LagrangeCoefficient(l, A),
                                       computeTrusteePolynomial(c, l))]
           rows == [l \in A |-> Sums!Fold(F[l], Degree)]
           columns == [e \in Degree |-> Sums!Fold(G[e], A)]
<1>1. /\ IsFiniteSet(A) /\ IsFiniteSet(Degree) /\ (\A l \in A : l \in Trustee)
      /\ \A e \in Degree : e \in Nat
  BY TrusteeSetsFinite, FS_Interval, ThresholdAssumption DEF Degree
<1>2. A # {} /\ 0 \in Degree /\ \A e \in Degree : e # 0 => e \in 1 .. Cardinality(A) - 1
  <2>1. Threshold \in Nat \ {0} /\ Cardinality(A) \in Nat
    BY <1>1, ThresholdAssumption, FS_CardinalityType
  <2>2. A # {}
    BY <2>1, FS_EmptySet
  <2> QED
    BY <2>1, <2>2 DEF Degree
<1>3. \A l \in A, e \in Degree :
        /\ c[e] \in Exponent /\ ShareWeight(l, e) \in Exponent
        /\ LagrangeCoefficient(l, A) \in Exponent /\ share[l][e] \in Exponent
        /\ share[l][e] = MulModQ(c[e], ShareWeight(l, e))
  BY <1>1, WeightLaw, ShareWeightLaw, OperationsClosed
<1>4. \A l \in A, e \in Degree : F[l][e] \in Exponent /\ G[e][l] = F[l][e]
  BY <1>3, OperationsClosed
<1>5. ASSUME NEW l \in A
      PROVE  rows[l] = sum[l]
  <2>1. computeTrusteePolynomial(c, l) = Sums!Fold(share[l], Degree)
    BY <1>1, SharesAreExponents
  <2>2. \A e \in Degree : /\ share[l][e] \in Exponent
                          /\ F[l][e] = MulModQ(LagrangeCoefficient(l, A), share[l][e])
    BY <1>3
  <2>3. LagrangeCoefficient(l, A) \in Exponent
    BY WeightLaw
  <2>4. rows[l] = Sums!Fold(F[l], Degree)
    OBVIOUS
  <2>5. sum[l] = MulModQ(LagrangeCoefficient(l, A), computeTrusteePolynomial(c, l))
    OBVIOUS
  <2> HIDE DEF share, F, rows, sum, c
  <2>6. Sums!Fold(F[l], Degree) = MulModQ(LagrangeCoefficient(l, A), Sums!Fold(share[l], Degree))
    BY <1>1, <2>2, <2>3, SumScaled
  <2> QED
    BY <2>1, <2>4, <2>5, <2>6
<1>6. ASSUME NEW e \in Degree
      PROVE  columns[e] = MulModQ(c[e], Moment(A, e)) /\ columns[e] \in Exponent
  <2>1. e \in Nat /\ c[e] \in Exponent
    BY <1>1
  <2>2. ASSUME NEW l \in A
        PROVE  Term(A, e)[l] \in Exponent /\ G[e][l] = MulModQ(c[e], Term(A, e)[l])
    <3> DEFINE w == LagrangeCoefficient(l, A)
               s == ShareWeight(l, e)
    <3>1. G[e][l] = MulModQ(w, MulModQ(c[e], s)) /\ Term(A, e)[l] = MulModQ(w, s)
      BY <1>1, <1>3 DEF Term
    <3>2. w \in Exponent /\ s \in Exponent
      BY <1>3
    <3> DEFINE k == c[e]
    <3>3. k \in Exponent
      BY <2>1
    <3>4. MulModQ(w, MulModQ(k, s)) = MulModQ(k, MulModQ(w, s)) /\ MulModQ(w, s) \in Exponent
      <4> HIDE DEF w, s, k
      <4>1. MulModQ(w, MulModQ(k, s)) = MulModQ(MulModQ(w, k), s)
        BY <3>2, <3>3, MultiplicationLaws
      <4>2. MulModQ(k, MulModQ(w, s)) = MulModQ(MulModQ(k, w), s)
        BY <3>2, <3>3, MultiplicationLaws
      <4>3. MulModQ(w, k) = MulModQ(k, w)
        BY <3>2, <3>3, MultiplicationLaws
      <4> QED
        BY <3>2, <4>1, <4>2, <4>3, OperationsClosed
    <3> HIDE DEF w, s, G, c
    <3> QED
      BY <3>1, <3>4 DEF k
  <2>3. columns[e] = Sums!Fold(G[e], A)
    OBVIOUS
  <2> HIDE DEF G, columns, c
  <2>4. Sums!Fold(G[e], A) = MulModQ(c[e], Moment(A, e))
    BY <1>1, <2>1, <2>2, SumScaled DEF Moment
  <2> QED
    BY <2>1, <2>3, <2>4, TermsAreExponents, OperationsClosed
<1>7. SumModQ(sum) = Sums!Fold(sum, A)
  BY SumIsFold
<1>8. Sums!Fold(rows, A) = Sums!Fold(columns, Degree)
  <2> HIDE DEF F, G
  <2> QED
    BY <1>1, <1>4, SumsLawful, SameFinite, Sums!FoldSwap
<1>9. columns[0] = c[0] /\ \A e \in Degree : e # 0 => columns[e] = 0
  <2> HIDE DEF columns
  <2>1. Moment(A, 0) = 1 /\ \A e \in Degree : e # 0 => Moment(A, e) = 0
    BY <1>2, MomentsAreThoseOfZero
  <2>2. \A e \in Degree : c[e] \in Exponent
    OBVIOUS
  <2> HIDE DEF c
  <2> QED
    BY <1>2, <1>6, <2>1, <2>2, MultiplicationLaws
<1> HIDE DEF rows, columns, sum
<1>10. Sums!Fold(rows, A) = Sums!Fold(sum, A)
  BY <1>1, <1>5, SameFinite, Sums!FoldEqual
<1>11. Sums!Fold(columns, Degree) = Sums!Fold(columns, {0})
  <2>1. {0} \in SUBSET Degree /\ \A e \in Degree \ {0} : columns[e] = 0
    BY <1>2, <1>9
  <2> QED
    BY <1>1, <1>6, <2>1, SumsLawful, SameFinite, Sums!FoldSubset
<1>12. Sums!Fold(columns, {0}) = columns[0]
  BY <1>2, <1>6, SumsLawful, Sums!FoldSingle
<1> QED
  BY <1>7, <1>8, <1>9, <1>10, <1>11, <1>12 DEF sum

==============================================================================
