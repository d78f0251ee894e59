------------------------- MODULE CryptographyProofs -------------------------
(***************************************************************************)
(* What the secret sharing, the encryption and the proofs promise, for     *)
(* every group of prime order, number of trustees, threshold, ballot and   *)
(* draw.  Everything that is sent is a power of the generator, so that the *)
(* checks are equations between exponents modulo q.                        *)
(***************************************************************************)
EXTENDS ThresholdSharesMC, VotingEncrypter, Tracker, Lagrange, SequenceTheorems

------------------------------------------------------------------------------
(* Numbers modulo P.                                                       *)

Residue == 0 .. P - 1

ModP == INSTANCE Lagrange WITH Q <- P

LEMMA MulModPLaws ==
  ASSUME NEW a \in Residue, NEW b \in Residue, NEW c \in Residue
  PROVE  /\ mul_mod_p(a, b) \in Residue
         /\ mul_mod_p(a, b) = mul_mod_p(b, a)
         /\ mul_mod_p(a, 1) = a
         /\ mul_mod_p(a, mul_mod_p(b, c)) = mul_mod_p(mul_mod_p(a, b), c)
<1>1. a \in ModP!Exponent /\ b \in ModP!Exponent /\ c \in ModP!Exponent
  BY DEF ModP!Exponent, Residue
<1>2. ModP!MulModQ(a, b) \in ModP!Exponent
  BY <1>1, ModP!OperationsClosed, ThresholdAssumption, GroupAssumption
<1>3. /\ ModP!MulModQ(a, b) = ModP!MulModQ(b, a)
      /\ ModP!MulModQ(a, 1) = a
      /\ ModP!MulModQ(a, ModP!MulModQ(b, c)) = ModP!MulModQ(ModP!MulModQ(a, b), c)
  BY <1>1, ModP!MultiplicationLaws, ThresholdAssumption, GroupAssumption
<1>4. \A x, y : ModP!MulModQ(x, y) = mul_mod_p(x, y)
  BY DEF ModP!MulModQ, mul_mod_p
<1>5. ModP!Exponent = Residue
  BY DEF ModP!Exponent, Residue
<1> QED
  BY <1>2, <1>3, <1>4, <1>5

LEMMA GroupNumbers ==
  /\ P \in Nat /\ P >= 3 /\ Q \in Nat /\ Q >= 2 /\ Q < P
  /\ Generator \in Residue /\ 1 \in Residue
BY QIsPrime, GroupAssumption DEF Residue

------------------------------------------------------------------------------
(* Powers.                                                                 *)

\* The powers of all numbers at once, exponent after exponent.
NextPowersModP(powers, e) == [b \in Residue |-> (powers[b] * b) % P]
NextPowers(powers, e) == [b \in Nat |-> powers[b] * b]
TableModP == INSTANCE FoldsAndLoops WITH Op <- NextPowersModP, Base <- 0, D <- Nat
Table == INSTANCE FoldsAndLoops WITH Op <- NextPowers, Base <- 0, D <- Nat

IsPower(power, base, n) ==
  power = [e \in 0 .. n |-> IF e = 0 THEN 1 ELSE power[e - 1] * base]

LEMMA IntegerPowerGoes ==
  ASSUME NEW base \in Nat, NEW n \in Nat
  PROVE  /\ IntegerPower(base, 0) = 1
         /\ IntegerPower(base, n + 1) = IntegerPower(base, n) * base
<1> DEFINE Power(m) == CHOOSE power : IsPower(power, base, m)
<1>1. \A m : IntegerPower(base, m) = Power(m)[m]
  BY DEF IntegerPower, IsPower
<1>2. ASSUME NEW m \in Nat PROVE IsPower(Power(m), base, m)
  <2> DEFINE ones == [b \in Nat |-> 1]
             g == Table!Loop(ones, m)
             power == [e \in 0 .. m |-> g[e][base]]
  <2>1. g[0] = ones /\ \A e \in 1 .. m : g[e] = NextPowers(g[e - 1], e)
    BY Table!LoopUnrolls
  <2> HIDE DEF g
  <2>2. power[0] = 1
    BY <2>1
  <2>3. ASSUME NEW e \in 0 .. m, e # 0 PROVE power[e] = power[e - 1] * base
    <3>1. e \in 1 .. m /\ e - 1 \in 0 .. m
      BY <2>3
    <3> QED
      BY <2>1, <3>1 DEF NextPowers
  <2>4. power = [e \in 0 .. m |-> power[e]]
    OBVIOUS
  <2> HIDE DEF power
  <2>5. IsPower(power, base, m)
    BY <2>2, <2>3, <2>4 DEF IsPower
  <2> QED
    BY <2>5
<1> HIDE DEF Power
<1>3. Power(0)[0] = 1
  BY <1>2 DEF IsPower
<1>4. ASSUME NEW e \in Nat, e <= n PROVE Power(n + 1)[e] = Power(n)[e]
  <2> DEFINE Good == {k \in Nat : k <= n => Power(n + 1)[k] = Power(n)[k]}
  <2>1. IsPower(Power(n), base, n) /\ IsPower(Power(n + 1), base, n + 1)
    BY <1>2
  <2>2. \A k \in 0 .. n : Power(n)[k] = IF k = 0 THEN 1 ELSE Power(n)[k - 1] * base
    BY <2>1 DEF IsPower
  <2>3. \A k \in 0 .. n + 1 :
          Power(n + 1)[k] = IF k = 0 THEN 1 ELSE Power(n + 1)[k - 1] * base
    BY <2>1 DEF IsPower
  <2>4. 0 \in Good
    BY <2>2, <2>3
  <2>5. ASSUME NEW k \in Nat, k \in Good PROVE k + 1 \in Good
    <3> SUFFICES ASSUME k + 1 <= n PROVE Power(n + 1)[k + 1] = Power(n)[k + 1]
      OBVIOUS
    <3>1. k + 1 \in 0 .. n /\ k + 1 \in 0 .. n + 1 /\ k + 1 # 0 /\ (k + 1) - 1 = k
      OBVIOUS
    <3>2. Power(n + 1)[k] = Power(n)[k]
      BY <2>5
    <3> QED
      BY <2>2, <2>3, <3>1, <3>2
  <2> HIDE DEF Good
  <2>6. e \in Good
    BY <2>4, <2>5, Table!NumbersInduce
  <2> QED
    BY <1>4, <2>6 DEF Good
<1>5. Power(n + 1)[n + 1] = Power(n + 1)[n] * base
  <2>1. IsPower(Power(n + 1), base, n + 1)
    BY <1>2
  <2>2. n + 1 \in 0 .. n + 1 /\ n + 1 # 0 /\ (n + 1) - 1 = n
    OBVIOUS
  <2> QED
    BY <2>1, <2>2 DEF IsPower
<1> QED
  BY <1>1, <1>3, <1>4, <1>5

LEMMA IntegerPowerGrows ==
  ASSUME NEW a \in Nat \ {0}, NEW b \in Nat, a <= b, NEW e \in Nat, NEW n \in Nat, e <= n
  PROVE  IntegerPower(a, e) \in Nat /\ IntegerPower(a, e) <= IntegerPower(b, n)
<1> DEFINE Small == {k \in Nat : IntegerPower(a, k) \in Nat \ {0}
                                 /\ IntegerPower(b, k) \in Nat
                                 /\ IntegerPower(a, k) <= IntegerPower(b, k)}
           Longer == {k \in Nat : IntegerPower(a, e) <= IntegerPower(b, e + k)}
<1>1. \A x, y, z \in Nat : x <= y /\ z > 0 => x <= y * z
  <2> SUFFICES ASSUME NEW x \in Nat, NEW y \in Nat, NEW z \in Nat, x <= y, z > 0
               PROVE  x <= y * z
    OBVIOUS
  <2>1. y * z = y * (z - 1) + y /\ z - 1 \in Nat
    OBVIOUS
  <2>2. y * (z - 1) \in Nat
    BY <2>1
  <2> QED
    BY <2>1, <2>2
<1>2. \A x, y \in Nat : x <= y => x * a <= y * b
  <2> SUFFICES ASSUME NEW x \in Nat, NEW y \in Nat, x <= y PROVE x * a <= y * b
    OBVIOUS
  <2>1. (y - x) * a \in Nat /\ y * (b - a) \in Nat
    OBVIOUS
  <2>2. y * b = x * a + (y - x) * a + y * (b - a)
    OBVIOUS
  <2>3. x * a \in Nat
    OBVIOUS
  <2> QED
    BY <2>1, <2>2, <2>3
<1>3. 0 \in Small
  BY IntegerPowerGoes
<1>4. ASSUME NEW k \in Nat, k \in Small PROVE k + 1 \in Small
  <2>1. /\ IntegerPower(a, k + 1) = IntegerPower(a, k) * a
        /\ IntegerPower(b, k + 1) = IntegerPower(b, k) * b
    BY IntegerPowerGoes
  <2>2. \A x, y \in Nat \ {0} : x * y \in Nat \ {0}
    OBVIOUS
  <2> QED
    BY <1>2, <1>4, <2>1, <2>2
<1>5. Nat \subseteq Small
  <2> HIDE DEF Small
  <2> QED
    BY <1>3, <1>4, Table!NumbersInduce
<1>6. 0 \in Longer
  BY <1>5
<1>7. ASSUME NEW k \in Nat, k \in Longer PROVE k + 1 \in Longer
  <2>1. IntegerPower(b, (e + k) + 1) = IntegerPower(b, e + k) * b
    BY IntegerPowerGoes
  <2>2. IntegerPower(a, e) \in Nat /\ IntegerPower(b, e + k) \in Nat /\ b > 0
    BY <1>5
  <2>3. e + (k + 1) = (e + k) + 1
    OBVIOUS
  <2> QED
    BY <1>1, <1>7, <2>1, <2>2, <2>3
<1>8. n - e \in Longer
  <2>1. n - e \in Nat
    OBVIOUS
  <2> HIDE DEF Longer
  <2> QED
    BY <1>6, <1>7, <2>1, Table!NumbersInduce
<1> QED
  BY <1>5, <1>8

LEMMA LargestExponentIsLarge ==
  /\ LargestExponent \in Nat /\ LargestExponent >= 2 * P
  /\ \A l \in Trustee, e \in Degree : IntegerPower(l + 1, e) \in 0 .. LargestExponent
<1> DEFINE last == IntegerPower(NumTrustees, Threshold)
<1>1. NumTrustees \in Nat \ {0} /\ Threshold \in Nat
  BY ThresholdAssumption
<1>2. last \in Nat
  BY <1>1, IntegerPowerGrows
<1>3. LargestExponent = P * P + last
  BY DEF LargestExponent
<1> HIDE DEF last
<1>4. P * P \in Nat /\ P * P >= 2 * P
  <2>1. P * P = (P - 2) * P + 2 * P /\ (P - 2) * P \in Nat
    BY GroupNumbers
  <2> QED
    BY <2>1, GroupNumbers
<1>5. ASSUME NEW l \in Trustee, NEW e \in Degree
      PROVE  IntegerPower(l + 1, e) \in 0 .. LargestExponent
  <2>1. l + 1 \in Nat \ {0} /\ l + 1 <= NumTrustees /\ e \in Nat /\ e <= Threshold
    BY <1>1 DEF Trustee, Degree
  <2>2. IntegerPower(l + 1, e) \in Nat /\ IntegerPower(l + 1, e) <= last
    BY <1>1, <2>1, IntegerPowerGrows DEF last
  <2> QED
    BY <1>2, <1>3, <1>4, <2>2
<1> QED
  BY <1>2, <1>3, <1>4, <1>5, GroupNumbers

LEMMA PowerGoes ==
  ASSUME NEW b \in Residue
  PROVE  /\ pow_mod_p(b, 0) = 1
         /\ \A e \in 1 .. LargestExponent :
              pow_mod_p(b, e) = mul_mod_p(pow_mod_p(b, e - 1), b)
<1> DEFINE n == LargestExponent
           Goes(power) == power = [e \in 0 .. n |-> IF e = 0 THEN 1 ELSE (power[e - 1] * b) % P]
           power == CHOOSE power : Goes(power)
<1>1. \E p : Goes(p)
  <2> DEFINE ones == [x \in Residue |-> 1]
             g == TableModP!Loop(ones, n)
             p == [e \in 0 .. n |-> g[e][b]]
  <2>0. n \in Nat
    BY LargestExponentIsLarge
  <2>1. g[0] = ones /\ \A e \in 1 .. n : g[e] = NextPowersModP(g[e - 1], e)
    BY <2>0, TableModP!LoopUnrolls
  <2> HIDE DEF g, n
  <2>2. p[0] = 1
    BY <2>0, <2>1
  <2>3. ASSUME NEW e \in 0 .. n, e # 0 PROVE p[e] = (p[e - 1] * b) % P
    <3>1. e \in 1 .. n /\ e - 1 \in 0 .. n
      BY <2>0, <2>3
    <3> QED
      BY <2>1, <3>1 DEF NextPowersModP
  <2>4. p = [e \in 0 .. n |-> p[e]]
    OBVIOUS
  <2> HIDE DEF p
  <2>5. Goes(p)
    BY <2>2, <2>3, <2>4
  <2> QED
    BY <2>5
<1>2. Goes(power)
  BY <1>1
<1>3. PowerModP[b] = [e \in 0 .. n |-> power[e]]
  BY DEF PowerModP, Residue
<1> HIDE DEF power, n
<1>4. \A e \in 0 .. n : power[e] = IF e = 0 THEN 1 ELSE (power[e - 1] * b) % P
  BY <1>2
<1>5. \A e \in 0 .. n : pow_mod_p(b, e) = power[e]
  BY <1>3 DEF pow_mod_p
<1>6. n \in Nat
  BY LargestExponentIsLarge DEF n
<1>7. pow_mod_p(b, 0) = 1
  BY <1>4, <1>5, <1>6
<1>8. ASSUME NEW e \in 1 .. n PROVE pow_mod_p(b, e) = mul_mod_p(pow_mod_p(b, e - 1), b)
  <2>1. e \in 0 .. n /\ e # 0 /\ e - 1 \in 0 .. n
    BY <1>6
  <2>2. pow_mod_p(b, e) = (power[e - 1] * b) % P /\ pow_mod_p(b, e - 1) = power[e - 1]
    BY <1>4, <1>5, <2>1
  <2> QED
    BY <2>2 DEF mul_mod_p
<1> QED
  BY <1>7, <1>8 DEF n

LEMMA PowersAreResidues ==
  ASSUME NEW b \in Residue, NEW e \in 0 .. LargestExponent
  PROVE  pow_mod_p(b, e) \in Residue
<1> DEFINE n == LargestExponent
           Good == {k \in Nat : k <= n => pow_mod_p(b, k) \in Residue}
<1>1. n \in Nat
  BY LargestExponentIsLarge
<1>2. pow_mod_p(b, 0) = 1 /\ \A k \in 1 .. n : pow_mod_p(b, k) = mul_mod_p(pow_mod_p(b, k - 1), b)
  BY PowerGoes
<1> HIDE DEF n
<1>3. 0 \in Good
  BY <1>2, GroupNumbers
<1>4. ASSUME NEW k \in Nat, k \in Good PROVE k + 1 \in Good
  <2> SUFFICES ASSUME k + 1 <= n PROVE pow_mod_p(b, k + 1) \in Residue
    OBVIOUS
  <2>1. pow_mod_p(b, k) \in Residue
    BY <1>1, <1>4
  <2>2. k + 1 \in 1 .. n /\ (k + 1) - 1 = k
    BY <1>1
  <2>3. pow_mod_p(b, k + 1) = mul_mod_p(pow_mod_p(b, k), b)
    BY <1>2, <2>2
  <2> QED
    BY <2>1, <2>3, MulModPLaws
<1> HIDE DEF Good
<1>5. e \in Good
  BY <1>3, <1>4, Table!NumbersInduce DEF n
<1> QED
  BY <1>5 DEF Good, n

LEMMA PowerAdds ==
  ASSUME NEW b \in Residue, NEW e \in Nat, NEW f \in Nat, e + f <= LargestExponent
  PROVE  pow_mod_p(b, e + f) = mul_mod_p(pow_mod_p(b, e), pow_mod_p(b, f))
<1> DEFINE n == LargestExponent
           Good == {k \in Nat : e + k <= n =>
                      pow_mod_p(b, e + k) = mul_mod_p(pow_mod_p(b, e), pow_mod_p(b, k))}
<1>1. n \in Nat /\ \A k \in 0 .. n : pow_mod_p(b, k) \in Residue
  BY LargestExponentIsLarge, PowersAreResidues
<1>2. pow_mod_p(b, 0) = 1 /\ \A k \in 1 .. n : pow_mod_p(b, k) = mul_mod_p(pow_mod_p(b, k - 1), b)
  BY PowerGoes
<1> HIDE DEF n
<1>3. 0 \in Good
  <2> SUFFICES ASSUME e <= n
               PROVE  pow_mod_p(b, e) = mul_mod_p(pow_mod_p(b, e), pow_mod_p(b, 0))
    OBVIOUS
  <2>1. pow_mod_p(b, e) \in Residue
    BY <1>1
  <2> QED
    BY <1>2, <2>1, MulModPLaws
<1>4. ASSUME NEW k \in Nat, k \in Good PROVE k + 1 \in Good
  <2> SUFFICES ASSUME e + (k + 1) <= n
               PROVE  pow_mod_p(b, e + (k + 1)) = mul_mod_p(pow_mod_p(b, e), pow_mod_p(b, k + 1))
    OBVIOUS
  <2>1. /\ pow_mod_p(b, e) \in Residue /\ pow_mod_p(b, k) \in Residue
        /\ pow_mod_p(b, e + k) = mul_mod_p(pow_mod_p(b, e), pow_mod_p(b, k))
    BY <1>1, <1>4
  <2>2. /\ k + 1 \in 1 .. n /\ (k + 1) - 1 = k
        /\ e + (k + 1) \in 1 .. n /\ (e + (k + 1)) - 1 = e + k
    BY <1>1
  <2>3. /\ pow_mod_p(b, k + 1) = mul_mod_p(pow_mod_p(b, k), b)
        /\ pow_mod_p(b, e + (k + 1)) = mul_mod_p(pow_mod_p(b, e + k), b)
    BY <1>2, <2>2
  <2> QED
    BY <2>1, <2>3, MulModPLaws
<1> HIDE DEF Good
<1>5. f \in Good
  BY <1>3, <1>4, Table!NumbersInduce
<1> QED
  BY <1>5 DEF Good, n

------------------------------------------------------------------------------
(* The powers of the generator: multiplying them is adding exponents.      *)

E(a) == pow_mod_p(Generator, a)
\* The numbers that are drawn.
Number == 0 .. P

LEMMA NumbersAreExponents ==
  /\ Exponent \subseteq Number /\ Number \subseteq 0 .. LargestExponent
  /\ \A a \in Number : a \in Int /\ a % Q \in Exponent
  /\ uniform_bignum_o \subseteq Number /\ uniform_bignum_o_q \subseteq Number
<1>1. Exponent \subseteq Number /\ Number \subseteq 0 .. LargestExponent
  BY GroupNumbers, LargestExponentIsLarge DEF Exponent, Number
<1>2. \A a \in Number : a \in Int /\ a % Q \in Exponent
  <2>1. \A a \in Number : a \in Int
    BY GroupNumbers DEF Number
  <2> QED
    BY <2>1, Remainder
<1>3. uniform_bignum_o \subseteq Number /\ uniform_bignum_o_q \subseteq Number
  BY GroupNumbers DEF uniform_bignum_o, uniform_bignum_o_q, Number
<1> QED
  BY <1>1, <1>2, <1>3

\* Exponents count modulo the order of the group.
LEMMA ExponentsReduce ==
  ASSUME NEW e \in 0 .. LargestExponent
  PROVE  E(e) = E(e % Q)
<1> DEFINE n == LargestExponent
           Good == {k \in Nat : k <= n => E(k) = E(k % Q)}
<1>1. n \in Nat /\ n >= Q /\ Q \in Nat /\ Q >= 2 /\ Generator \in Residue
  BY LargestExponentIsLarge, GroupNumbers
<1>2. E(0) = 1 /\ \A k \in 1 .. n : E(k) = mul_mod_p(E(k - 1), Generator)
  BY <1>1, PowerGoes DEF E
<1>3. E(Q) = 1
  BY GeneratorAssumption DEF E
<1> HIDE DEF n
<1>4. 0 \in Good
  BY SmallExponents, Reduced
<1>5. ASSUME NEW k \in Nat, k \in Good PROVE k + 1 \in Good
  <2> SUFFICES ASSUME k + 1 <= n PROVE E(k + 1) = E((k + 1) % Q)
    OBVIOUS
  <2> DEFINE r == k % Q
  <2>1. r \in Exponent /\ r \in Nat /\ r + 1 <= Q
    BY Remainder, <1>1 DEF Exponent
  <2>2. E(k) = E(r)
    BY <1>1, <1>5
  <2>3. (r + 1) % Q = (k + 1) % Q
    BY ReduceFirst
  <2> HIDE DEF r
  <2>4. k + 1 \in 1 .. n /\ r + 1 \in 1 .. n /\ (k + 1) - 1 = k /\ (r + 1) - 1 = r
    BY <1>1, <2>1
  <2>5. E(k + 1) = E(r + 1)
    BY <1>2, <2>2, <2>4
  <2>6. CASE r + 1 < Q
    <3>1. r + 1 \in Exponent
      BY <1>1, <2>1, <2>6 DEF Exponent
    <3>2. (r + 1) % Q = r + 1
      BY <3>1, Reduced
    <3> QED
      BY <3>2, <2>3, <2>5
  <2>7. CASE r + 1 = Q
    <3>1. (r + 1) % Q = 0
      BY <1>1, <2>7
    <3> QED
      BY <3>1, <1>2, <1>3, <2>3, <2>5, <2>7
  <2> QED
    BY <2>1, <2>6, <2>7, <1>1
<1> HIDE DEF Good
<1>6. e \in Good
  BY <1>4, <1>5, Table!NumbersInduce DEF n
<1> QED
  BY <1>6 DEF Good, n

LEMMA GeneratorPowers ==
  /\ E(0) = 1 /\ E(1) = Generator
  /\ \A a \in Exponent : E(a) \in Residue
<1>1. E(0) = 1 /\ \A k \in 1 .. LargestExponent : E(k) = mul_mod_p(E(k - 1), Generator)
  BY GroupNumbers, PowerGoes DEF E
<1>2. E(1) = Generator
  <2>1. 1 \in 1 .. LargestExponent
    BY LargestExponentIsLarge, GroupNumbers
  <2>2. E(1) = mul_mod_p(1, Generator)
    BY <1>1, <2>1
  <2> QED
    BY <2>2, MulModPLaws, GroupNumbers
<1>3. \A a \in Exponent : E(a) \in Residue
  BY GroupNumbers, NumbersAreExponents, PowersAreResidues DEF E
<1> QED
  BY <1>1, <1>2, <1>3

LEMMA ExponentsAdd ==
  ASSUME NEW a \in Exponent, NEW b \in Exponent
  PROVE  mul_mod_p(E(a), E(b)) = E(AddModQ(a, b))
<1>1. a \in Nat /\ b \in Nat /\ a + b \in 0 .. LargestExponent
  BY GroupNumbers, LargestExponentIsLarge DEF Exponent
<1>2. E(a + b) = mul_mod_p(E(a), E(b))
  BY <1>1, LargestExponentIsLarge, PowerAdds, GroupNumbers DEF E
<1>3. E(a + b) = E((a + b) % Q)
  BY <1>1, ExponentsReduce
<1> QED
  BY <1>2, <1>3 DEF AddModQ

LEMMA ExponentsMultiply ==
  ASSUME NEW a \in Exponent, NEW e \in 0 .. LargestExponent
  PROVE  pow_mod_p(E(a), e) = E(MulModQ(a, e % Q))
<1> DEFINE n == LargestExponent
           Good == {k \in Nat : k <= n => pow_mod_p(E(a), k) = E(MulModQ(a, k % Q))}
<1>1. n \in Nat /\ E(a) \in Residue
  BY LargestExponentIsLarge, GeneratorPowers
<1>2. /\ pow_mod_p(E(a), 0) = 1
      /\ \A k \in 1 .. n : pow_mod_p(E(a), k) = mul_mod_p(pow_mod_p(E(a), k - 1), E(a))
  BY <1>1, PowerGoes
<1> HIDE DEF n
<1>3. 0 \in Good
  <2>1. 0 % Q = 0 /\ MulModQ(a, 0) = 0
    BY SmallExponents, Reduced, MultiplicationLaws
  <2> QED
    BY <2>1, <1>2, GeneratorPowers
<1>4. ASSUME NEW k \in Nat, k \in Good PROVE k + 1 \in Good
  <2> SUFFICES ASSUME k + 1 <= n PROVE pow_mod_p(E(a), k + 1) = E(MulModQ(a, (k + 1) % Q))
    OBVIOUS
  <2> DEFINE r == k % Q
             m == MulModQ(a, r)
  <2>1. r \in Exponent /\ m \in Exponent /\ 1 \in Exponent
    BY Remainder, OperationsClosed, SmallExponents
  <2>2. pow_mod_p(E(a), k) = E(m)
    BY <1>1, <1>4
  <2>3. k + 1 \in 1 .. n /\ (k + 1) - 1 = k
    BY <1>1
  <2>4. AddModQ(r, 1) = (k + 1) % Q
    BY ReduceFirst DEF AddModQ
  <2> HIDE DEF r
  <2>5. pow_mod_p(E(a), k + 1) = mul_mod_p(E(m), E(a))
    BY <1>2, <2>2, <2>3
  <2>6. mul_mod_p(E(m), E(a)) = E(AddModQ(m, a))
    BY <2>1, ExponentsAdd
  <2>7. MulModQ(a, AddModQ(r, 1)) = AddModQ(MulModQ(a, r), a)
    BY <2>1, Distribution, MultiplicationLaws
  <2> QED
    BY <2>4, <2>5, <2>6, <2>7
<1> HIDE DEF Good
<1>5. e \in Good
  BY <1>3, <1>4, Table!NumbersInduce DEF n
<1> QED
  BY <1>5 DEF Good, n

LEMMA DrawnPowers ==
  ASSUME NEW a \in Exponent, NEW n \in Number
  PROVE  /\ E(n) = E(n % Q) /\ n % Q \in Exponent
         /\ pow_mod_p(E(a), n) = E(MulModQ(a, n % Q)) /\ MulModQ(a, n % Q) \in Exponent
<1>1. n \in 0 .. LargestExponent /\ n % Q \in Exponent
  BY NumbersAreExponents
<1> QED
  BY <1>1, ExponentsReduce, ExponentsMultiply, OperationsClosed

LEMMA ExponentPowers ==
  ASSUME NEW a \in Exponent, NEW e \in Exponent
  PROVE  pow_mod_p(E(a), e) = E(MulModQ(a, e))
BY DrawnPowers, NumbersAreExponents, Reduced

\* The generator has order Q, which is prime.
LEMMA ExponentsDiffer ==
  ASSUME NEW a \in Exponent, NEW b \in Exponent, E(a) = E(b)
  PROVE  a = b
<1> DEFINE d == SubModQ(a, b)
           minus == SubModQ(0, b)
           inverse == DivModQ(1, d)
<1>1. d \in Exponent /\ minus \in Exponent /\ 0 \in Exponent /\ 1 \in Exponent
  BY OperationsClosed, SmallExponents
<1>2. AddModQ(d, b) = a /\ AddModQ(minus, b) = 0
  BY SubtractionLaws, SmallExponents
<1>3. (d = 0) <=> (a = b)
  BY SubtractionLaws
<1>4. d # 0 => inverse \in Exponent /\ MulModQ(inverse, d) = 1
  BY <1>1, DivisionUndoesMultiplication
<1> HIDE DEF d, minus, inverse
<1>5. E(d) \in Residue /\ E(a) \in Residue /\ E(b) \in Residue /\ E(minus) \in Residue
  BY <1>1, GeneratorPowers
<1>6. mul_mod_p(E(d), E(b)) = E(b) /\ mul_mod_p(E(minus), E(b)) = 1
  BY <1>1, <1>2, ExponentsAdd, GeneratorPowers
<1>7. E(d) = 1
  <2>1. mul_mod_p(E(b), E(minus)) = 1
    BY <1>5, <1>6, MulModPLaws
  <2>2. mul_mod_p(E(d), mul_mod_p(E(b), E(minus))) = mul_mod_p(mul_mod_p(E(d), E(b)), E(minus))
    BY <1>5, MulModPLaws
  <2>3. mul_mod_p(E(d), 1) = 1
    BY <1>6, <2>1, <2>2
  <2> QED
    BY <2>3, <1>5, MulModPLaws
<1>8. ASSUME d # 0 PROVE FALSE
  <2>1. inverse \in Exponent /\ MulModQ(inverse, d) = 1
    BY <1>4, <1>8
  <2>2. MulModQ(d, inverse) = 1 /\ MulModQ(0, inverse) = 0
    BY <1>1, <2>1, MultiplicationLaws
  <2>3. pow_mod_p(E(d), inverse) = E(1)
    BY <1>1, <2>1, <2>2, ExponentPowers
  <2>4. pow_mod_p(E(0), inverse) = E(0)
    BY <1>1, <2>1, <2>2, ExponentPowers
  <2>5. Generator = 1
    BY <1>7, <2>3, <2>4, GeneratorPowers
  <2> QED
    BY <2>5, GroupAssumption
<1> QED
  BY <1>3, <1>8

LEMMA LogarithmOfPower ==
  ASSUME NEW a \in Exponent PROVE log_generator_mod_p(E(a)) = a
<1>1. \A e \in Exponent : pow_mod_p(Generator, e) = E(a) <=> e = a
  BY ExponentsDiffer DEF E
<1> QED
  BY <1>1, Zenon DEF log_generator_mod_p

LEMMA PowersDivide ==
  ASSUME NEW b \in Exponent
  PROVE  /\ \A a \in Exponent : div_mod_p(E(a), E(b)) = E(SubModQ(a, b))
         /\ \A x \in Residue : /\ div_mod_p(x, E(b)) \in Residue
                               /\ mul_mod_p(div_mod_p(x, E(b)), E(b)) = x
<1> DEFINE minus == SubModQ(0, b)
           inverse == CHOOSE x \in 1 .. P - 1 : mul_mod_p(x, E(b)) = 1
<1>1. minus \in Exponent /\ AddModQ(minus, b) = 0
  BY OperationsClosed, SmallExponents, SubtractionLaws
<1>2. E(b) \in Residue /\ E(minus) \in Residue
  BY <1>1, GeneratorPowers
<1>3. mul_mod_p(E(minus), E(b)) = 1
  BY <1>1, ExponentsAdd, GeneratorPowers
<1>4. E(minus) \in 1 .. P - 1
  <2>1. mul_mod_p(0, E(b)) = 0
    BY <1>2, GroupNumbers DEF mul_mod_p, Residue
  <2>2. E(minus) # 0
    BY <1>3, <2>1
  <2> QED
    BY <1>2, <2>2, GroupNumbers DEF Residue
<1>5. inverse \in 1 .. P - 1 /\ mul_mod_p(inverse, E(b)) = 1
  BY <1>3, <1>4
<1>6. inverse \in Residue
  BY <1>5, GroupNumbers DEF Residue
<1>7. \A x : div_mod_p(x, E(b)) = mul_mod_p(x, inverse)
  BY DEF div_mod_p
<1> HIDE DEF inverse, minus
<1>8. mul_mod_p(E(b), inverse) = 1
  BY <1>2, <1>5, <1>6, MulModPLaws
<1>9. ASSUME NEW x \in Residue
      PROVE  /\ div_mod_p(x, E(b)) \in Residue
             /\ mul_mod_p(div_mod_p(x, E(b)), E(b)) = x
             /\ mul_mod_p(mul_mod_p(x, E(b)), inverse) = x
  <2>1. /\ mul_mod_p(x, mul_mod_p(inverse, E(b))) = mul_mod_p(mul_mod_p(x, inverse), E(b))
        /\ mul_mod_p(x, mul_mod_p(E(b), inverse)) = mul_mod_p(mul_mod_p(x, E(b)), inverse)
        /\ mul_mod_p(x, 1) = x /\ mul_mod_p(x, inverse) \in Residue
    BY <1>2, <1>6, MulModPLaws
  <2> QED
    BY <2>1, <1>5, <1>7, <1>8
<1>10. ASSUME NEW a \in Exponent PROVE div_mod_p(E(a), E(b)) = E(SubModQ(a, b))
  <2>1. SubModQ(a, b) \in Exponent /\ AddModQ(SubModQ(a, b), b) = a
    BY OperationsClosed, SubtractionLaws
  <2>2. mul_mod_p(E(SubModQ(a, b)), E(b)) = E(a) /\ E(SubModQ(a, b)) \in Residue
    BY <2>1, ExponentsAdd, GeneratorPowers
  <2> QED
    BY <2>2, <1>7, <1>9
<1> QED
  BY <1>9, <1>10

------------------------------------------------------------------------------
(* A product of powers of the generator is the power of the sum.           *)

Powers == INSTANCE FoldsAndLoops WITH Op <- mul_mod_p, Base <- 1, D <- Residue

LEMMA PowersLawful == Powers!Lawful
<1>1. 1 \in Residue
  BY GroupNumbers
<1>2. \A a, b \in Residue : mul_mod_p(a, b) \in Residue /\ mul_mod_p(a, b) = mul_mod_p(b, a)
  BY MulModPLaws
<1>3. \A a \in Residue : mul_mod_p(a, 1) = a
  BY MulModPLaws
<1>4. \A a, b, c \in Residue : mul_mod_p(a, mul_mod_p(b, c)) = mul_mod_p(mul_mod_p(a, b), c)
  BY MulModPLaws
<1> QED
  BY <1>1, <1>2, <1>3, <1>4 DEF Powers!Lawful

LEMMA ProductOfPowers ==
  ASSUME NEW S, IsFiniteSet(S), NEW f, NEW g,
         \A x \in S : f[x] \in Exponent /\ g[x] = E(f[x])
  PROVE  Powers!Fold(g, S) = E(Sums!Fold(f, S)) /\ Sums!Fold(f, S) \in Exponent
<1> DEFINE Good == {T \in SUBSET S : Powers!Fold(g, T) = E(Sums!Fold(f, T))}
<1>1. Sums!IsFiniteSet(S) /\ Powers!IsFiniteSet(S)
  BY DEF IsFiniteSet, Sums!IsFiniteSet, Powers!IsFiniteSet
<1>2. ASSUME NEW T \in SUBSET S, \A U \in SUBSET T : U # T => U \in Good
      PROVE  T \in Good
  <2>1. CASE T = {}
    BY <2>1, Sums!FoldEmpty, Powers!FoldEmpty, GeneratorPowers
  <2>2. CASE T # {}
    <3>1. PICK x \in T : TRUE
      BY <2>2
    <3> DEFINE U == T \ {x}
    <3>2. U \in Good
      BY <1>2, <3>1
    <3>3. IsFiniteSet(T) /\ IsFiniteSet(U)
      BY FS_Subset
    <3>4. /\ Sums!IsFiniteSet(T) /\ Powers!IsFiniteSet(T)
          /\ Sums!IsFiniteSet(U)
      BY <3>3 DEF IsFiniteSet, Sums!IsFiniteSet, Powers!IsFiniteSet
    <3>5. \A y \in T : f[y] \in Exponent /\ g[y] = E(f[y]) /\ g[y] \in Residue
      BY GeneratorPowers
    <3>6. Sums!Fold(f, T) = AddModQ(f[x], Sums!Fold(f, U))
      BY <3>1, <3>4, <3>5, SumsLawful, Sums!FoldRemove
    <3>7. Powers!Fold(g, T) = mul_mod_p(g[x], Powers!Fold(g, U))
      BY <3>1, <3>4, <3>5, PowersLawful, Powers!FoldRemove
    <3>8. Sums!Fold(f, U) \in Exponent
      BY <3>4, <3>5, SumsLawful, Sums!FoldIn
    <3>9. Powers!Fold(g, U) = E(Sums!Fold(f, U))
      BY <3>2
    <3> HIDE DEF U
    <3>10. Powers!Fold(g, T) = E(Sums!Fold(f, T))
      BY <3>1, <3>5, <3>6, <3>7, <3>8, <3>9, ExponentsAdd
    <3> QED
      BY <3>10
  <2> QED
    BY <2>1, <2>2
<1> HIDE DEF Good
<1>3. S \in Good
  BY <1>1, <1>2, Sums!SetInduction
<1>4. Sums!Fold(f, S) \in Exponent
  BY <1>1, SumsLawful, Sums!FoldIn
<1> QED
  BY <1>3, <1>4 DEF Good

LEMMA ProductIsFoldOfPowers == \A f : ProductModP(f) = Powers!Fold(f, DOMAIN f)
BY DEF ProductModP, FoldFunction, FoldFunctionOnSet, MapThenFoldSet,
       Powers!Fold, Powers!MapThenFoldSet

------------------------------------------------------------------------------
(* The equations that the checks of proofs compare.                        *)

\* Addition modulo Q can be undone.
LEMMA SameAdded ==
  ASSUME NEW a \in Exponent, NEW b \in Exponent, NEW c \in Exponent
  PROVE  AddModQ(a, b) = AddModQ(a, c) <=> b = c
<1>1. AddModQ(a, b) = AddModQ(b, a) /\ AddModQ(a, c) = AddModQ(c, a)
  BY AdditionLaws
<1>2. SUFFICES ASSUME AddModQ(b, a) = AddModQ(c, a) PROVE b = c
  BY <1>1
<1>3. AddModQ(b, a) \in Exponent
  BY OperationsClosed
<1>4. b = SubModQ(AddModQ(b, a), a) /\ c = SubModQ(AddModQ(c, a), a)
  BY <1>2, <1>3, AdditionCancels
<1> QED
  BY <1>2, <1>4

\* What was drawn is reduced when it is added or multiplied.
LEMMA DrawnReduce ==
  ASSUME NEW a \in Number, NEW b \in Number, NEW c \in Number
  PROVE  /\ MulModQ(b, c) = MulModQ(b % Q, c % Q)
         /\ AddModQ(a, MulModQ(b, c)) = AddModQ(a % Q, MulModQ(b % Q, c % Q))
         /\ AddModQ(a, b) = AddModQ(a % Q, b % Q)
<1>1. /\ a \in Int /\ b \in Int /\ c \in Int
      /\ a % Q \in Int /\ b % Q \in Int /\ c % Q \in Int
  BY NumbersAreExponents, Reduced
<1>2. /\ ((b % Q) * (c % Q)) % Q = (b * (c % Q)) % Q
      /\ b * (c % Q) = (c % Q) * b
      /\ ((c % Q) * b) % Q = (c * b) % Q
      /\ c * b = b * c
  <2>1. ((b % Q) * (c % Q)) % Q = (b * (c % Q)) % Q
    BY <1>1, ReduceFirst
  <2>2. ((c % Q) * b) % Q = (c * b) % Q
    BY <1>1, ReduceFirst
  <2>3. b * (c % Q) = (c % Q) * b /\ c * b = b * c
    BY <1>1
  <2> QED
    BY <2>1, <2>2, <2>3
<1>3. MulModQ(b, c) = MulModQ(b % Q, c % Q)
  BY <1>2 DEF MulModQ
<1>4. MulModQ(b, c) \in Int
  <2>1. b * c \in Int
    BY <1>1
  <2> QED
    BY <2>1, RemainderIsNumber DEF MulModQ
<1>5. \A m \in Int : AddModQ(a, m) = AddModQ(a % Q, m)
  BY <1>1, ReduceFirst DEF AddModQ
<1>6. AddModQ(a % Q, b) = AddModQ(a % Q, b % Q)
  <2>1. ((b % Q) + (a % Q)) % Q = (b + (a % Q)) % Q
    BY <1>1, ReduceFirst
  <2>2. (b % Q) + (a % Q) = (a % Q) + (b % Q) /\ b + (a % Q) = (a % Q) + b
    BY <1>1
  <2> QED
    BY <2>1, <2>2 DEF AddModQ
<1> QED
  BY <1>1, <1>3, <1>4, <1>5, <1>6

\* The equation of every check: the response u + c * x against the commitment
\* made with u and the c-th power of what is proved, y.
LEMMA ProofEquation ==
  ASSUME NEW b \in Exponent, NEW l \in Exponent, NEW y \in Exponent,
         NEW u \in Number, NEW c \in Number, NEW x \in Number
  PROVE  mul_mod_p(E(MulModQ(l, c % Q)), pow_mod_p(E(b), AddModQ(u, MulModQ(c, x))))
             = mul_mod_p(pow_mod_p(E(b), u), pow_mod_p(E(y), c))
           <=> y = AddModQ(MulModQ(b, x % Q), l) \/ c % Q = 0
<1> DEFINE v == u % Q
           d == c % Q
           z == x % Q
           r == AddModQ(v, MulModQ(d, z))
           right == AddModQ(MulModQ(b, z), l)
<1>1. v \in Exponent /\ d \in Exponent /\ z \in Exponent
  BY NumbersAreExponents
<1>2. AddModQ(u, MulModQ(c, x)) = r
  BY DrawnReduce
<1>3. /\ pow_mod_p(E(b), u) = E(MulModQ(b, v))
      /\ pow_mod_p(E(y), c) = E(MulModQ(y, d))
  BY DrawnPowers
<1> HIDE DEF v, d, z
<1>4. /\ MulModQ(d, z) \in Exponent /\ MulModQ(b, z) \in Exponent /\ MulModQ(b, v) \in Exponent
      /\ MulModQ(l, d) \in Exponent /\ MulModQ(y, d) \in Exponent
  BY <1>1, OperationsClosed
<1>5. r \in Exponent /\ right \in Exponent
  BY <1>1, <1>4, OperationsClosed
<1>6. MulModQ(b, r) \in Exponent /\ MulModQ(d, right) \in Exponent /\ MulModQ(d, y) \in Exponent
      /\ MulModQ(d, MulModQ(b, z)) \in Exponent
  BY <1>1, <1>4, <1>5, OperationsClosed
<1>7. pow_mod_p(E(b), r) = E(MulModQ(b, r))
  BY <1>5, ExponentPowers
<1>8. mul_mod_p(E(MulModQ(l, d)), E(MulModQ(b, r))) = E(AddModQ(MulModQ(l, d), MulModQ(b, r)))
  BY <1>4, <1>6, ExponentsAdd
<1>9. mul_mod_p(E(MulModQ(b, v)), E(MulModQ(y, d))) = E(AddModQ(MulModQ(b, v), MulModQ(y, d)))
  BY <1>4, ExponentsAdd
<1>10. AddModQ(MulModQ(l, d), MulModQ(b, r)) = AddModQ(MulModQ(b, v), MulModQ(d, right))
  <2>1. MulModQ(b, r) = AddModQ(MulModQ(b, v), MulModQ(b, MulModQ(d, z)))
    BY <1>1, <1>4, Distribution
  <2>2. MulModQ(b, MulModQ(d, z)) = MulModQ(d, MulModQ(b, z))
    <3>1. MulModQ(b, MulModQ(d, z)) = MulModQ(MulModQ(b, d), z)
      BY <1>1, MultiplicationLaws
    <3>2. MulModQ(b, d) = MulModQ(d, b)
      BY <1>1, MultiplicationLaws
    <3>3. MulModQ(d, MulModQ(b, z)) = MulModQ(MulModQ(d, b), z)
      BY <1>1, MultiplicationLaws
    <3> QED
      BY <3>1, <3>2, <3>3
  <2>3. MulModQ(l, d) = MulModQ(d, l)
    BY <1>1, MultiplicationLaws
  <2>4. MulModQ(d, right) = AddModQ(MulModQ(d, MulModQ(b, z)), MulModQ(d, l))
    BY <1>1, <1>4, Distribution
  <2> DEFINE p == MulModQ(d, l)
             q == MulModQ(b, v)
             s == MulModQ(d, MulModQ(b, z))
  <2>5. p \in Exponent /\ q \in Exponent /\ s \in Exponent
    BY <1>4, <1>6, <2>3
  <2> HIDE DEF p, q, s, r, right
  <2>6. AddModQ(p, AddModQ(q, s)) = AddModQ(q, AddModQ(s, p))
    <3>1. AddModQ(p, AddModQ(q, s)) = AddModQ(AddModQ(q, s), p)
      BY <2>5, OperationsClosed, AdditionLaws
    <3>2. AddModQ(q, AddModQ(s, p)) = AddModQ(AddModQ(q, s), p)
      BY <2>5, AdditionLaws
    <3> QED
      BY <3>1, <3>2
  <2> QED
    BY <2>1, <2>2, <2>3, <2>4, <2>6 DEF p, q, s
<1>11. MulModQ(y, d) = MulModQ(d, y)
  BY <1>1, MultiplicationLaws
<1>12. MulModQ(d, right) = MulModQ(d, y) <=> y = right \/ d = 0
  <2>1. d = 0 => MulModQ(d, right) = 0 /\ MulModQ(d, y) = 0
    <3>1. MulModQ(d, right) = MulModQ(right, d) /\ MulModQ(right, 0) = 0
      BY <1>1, <1>5, MultiplicationLaws
    <3>2. MulModQ(d, y) = MulModQ(y, d) /\ MulModQ(y, 0) = 0
      BY <1>1, MultiplicationLaws
    <3> QED
      BY <3>1, <3>2
  <2>2. d # 0 /\ MulModQ(d, right) = MulModQ(d, y) => y = right
    BY <1>1, <1>5, Cancellation
  <2> QED
    BY <2>1, <2>2
<1> HIDE DEF r, right
<1>13. /\ AddModQ(MulModQ(b, v), MulModQ(d, right)) \in Exponent
       /\ AddModQ(MulModQ(b, v), MulModQ(d, y)) \in Exponent
  BY <1>4, <1>6, OperationsClosed
<1>14. E(AddModQ(MulModQ(b, v), MulModQ(d, right))) = E(AddModQ(MulModQ(b, v), MulModQ(d, y)))
         <=> y = right \/ d = 0
  BY <1>4, <1>6, <1>12, <1>13, ExponentsDiffer, SameAdded
<1>15. mul_mod_p(E(MulModQ(l, d)), pow_mod_p(E(b), r))
          = mul_mod_p(pow_mod_p(E(b), u), pow_mod_p(E(y), c))
         <=> y = right \/ d = 0
  BY <1>3, <1>7, <1>8, <1>9, <1>10, <1>11, <1>14
<1> QED
  BY <1>2, <1>15 DEF d, r, right, v, z

LEMMA PowerEquation ==
  ASSUME NEW b \in Exponent, NEW y \in Exponent,
         NEW u \in Number, NEW c \in Number, NEW x \in Number
  PROVE  pow_mod_p(E(b), AddModQ(u, MulModQ(c, x)))
             = mul_mod_p(pow_mod_p(E(b), u), pow_mod_p(E(y), c))
           <=> y = MulModQ(b, x % Q) \/ c % Q = 0
<1> DEFINE r == AddModQ(u, MulModQ(c, x))
           xb == MulModQ(b, x % Q)
<1>1. c % Q \in Exponent /\ x % Q \in Exponent /\ xb \in Exponent /\ 0 \in Exponent
  BY NumbersAreExponents, OperationsClosed, SmallExponents
<1>2. MulModQ(0, c % Q) = 0 /\ AddModQ(xb, 0) = xb
  BY <1>1, MultiplicationLaws, AdditionLaws
<1>3. pow_mod_p(E(b), r) \in Residue
  <2>1. r = AddModQ(u % Q, MulModQ(c % Q, x % Q)) /\ u % Q \in Exponent
    BY DrawnReduce, NumbersAreExponents
  <2>2. r \in Exponent
    BY <1>1, <2>1, OperationsClosed
  <2> HIDE DEF r
  <2> QED
    BY <2>2, ExponentPowers, OperationsClosed, GeneratorPowers
<1>4. mul_mod_p(E(0), pow_mod_p(E(b), r)) = pow_mod_p(E(b), r)
  <2> HIDE DEF r
  <2> QED
    BY <1>3, GeneratorPowers, MulModPLaws, GroupNumbers
<1>5. mul_mod_p(E(MulModQ(0, c % Q)), pow_mod_p(E(b), r))
          = mul_mod_p(pow_mod_p(E(b), u), pow_mod_p(E(y), c))
        <=> y = AddModQ(xb, 0) \/ c % Q = 0
  BY <1>1, ProofEquation
<1> QED
  BY <1>2, <1>4, <1>5

LEMMA GeneratorEquation ==
  ASSUME NEW y \in Exponent, NEW u \in Number, NEW c \in Number, NEW x \in Number
  PROVE  pow_mod_p(Generator, AddModQ(u, MulModQ(c, x)))
             = mul_mod_p(pow_mod_p(Generator, u), pow_mod_p(E(y), c))
           <=> y = x % Q \/ c % Q = 0
<1>1. 1 \in Exponent /\ x % Q \in Exponent
  BY SmallExponents, NumbersAreExponents
<1>2. MulModQ(1, x % Q) = x % Q
  BY <1>1, MultiplicationLaws
<1> QED
  BY <1>1, <1>2, PowerEquation, GeneratorPowers

------------------------------------------------------------------------------
(* Key shares (ThresholdSharesMC).                                         *)

\* The key's coefficients, and always enough trustees to decrypt.
EnoughAvailable ==
  /\ coefficients \in [Degree -> Exponent]
  /\ available \in SUBSET Trustee
  /\ Cardinality(available) >= Threshold

LEMMA EnoughInit == Init => EnoughAvailable
BY ThresholdAssumption DEF Init, EnoughAvailable

LEMMA EnoughStep ==
  EnoughAvailable /\ [Next]_<<coefficients, available>> => EnoughAvailable'
<1> SUFFICES ASSUME EnoughAvailable, [Next]_<<coefficients, available>>
             PROVE  EnoughAvailable'
  OBVIOUS
<1>1. IsFiniteSet(available) /\ Cardinality(available) \in Nat /\ Threshold \in Nat
  BY TrusteeSetsFinite, FS_CardinalityType, ThresholdAssumption DEF EnoughAvailable
<1>2. CASE Join
  <2>1. PICK l \in Trustee \ available :
          available' = available \union {l} /\ UNCHANGED coefficients
    BY <1>2 DEF Join
  <2>2. Cardinality(available') = Cardinality(available) + 1
    BY <1>1, <2>1, FS_AddElement
  <2> QED
    BY <1>1, <2>1, <2>2 DEF EnoughAvailable
<1>3. CASE Leave
  <2>1. PICK l \in available :
          /\ Cardinality(available) > Threshold
          /\ available' = available \ {l}
          /\ UNCHANGED coefficients
    BY <1>3 DEF Leave
  <2>2. Cardinality(available') = Cardinality(available) - 1
    BY <1>1, <2>1, FS_RemoveElement
  <2> QED
    BY <1>1, <2>1, <2>2 DEF EnoughAvailable
<1>4. CASE UNCHANGED <<coefficients, available>>
  BY <1>4 DEF EnoughAvailable
<1> QED
  BY <1>2, <1>3, <1>4 DEF Next

\* README.rst of include/electionguard, "any k of the trustees can decrypt": with
\* the weights that compute_fragments gives them, the shares that k or more of the
\* trustees got of a private key always add up to that key.
THEOREM QuorumRecoversKey == Spec => []SharesRecoverKey
<1>1. EnoughAvailable => SharesRecoverKey
  <2> SUFFICES ASSUME EnoughAvailable PROVE SharesRecoverKey
    OBVIOUS
  <2>1. /\ coefficients \in [Degree -> Exponent]
        /\ available \in SUBSET Trustee
        /\ Cardinality(available) >= Threshold
    BY DEF EnoughAvailable
  <2>2. Recombined = coefficients[0]
    BY <2>1, WeightedSharesAddUp DEF Recombined
  <2> QED
    BY <2>2 DEF SharesRecoverKey
<1> QED
  BY EnoughInit, EnoughStep, <1>1, PTL DEF Spec

\* Crypto_check_keypair_proof (crypto.c:96): whatever the key, the draws and the
\* challenge, a trustee's proof passes with its own commitments, and with any one of
\* them exchanged only if the challenge is 0.
THEOREM KeyProofsBind == Spec => []KeyProofBindsKey
<1>1. EnoughAvailable => KeyProofBindsKey
  <2> SUFFICES ASSUME coefficients \in [Degree -> Exponent],
                      NEW u \in uniform_bignum_o_q, NEW challenge \in Exponent,
                      NEW x \in Exponent, NEW e \in Degree
               PROVE  LET claimed == [coefficients EXCEPT ![e] = x]
                      IN  Crypto_check_keypair_proof(coef_commitments(claimed),
                            schnorr_proof(coefficients, [k \in Degree |-> u], challenge))
                          <=> claimed = coefficients \/ challenge = 0
    BY DEF EnoughAvailable, KeyProofBindsKey
  <2> DEFINE claimed == [coefficients EXCEPT ![e] = x]
             holds(k) == pow_mod_p(Generator, AddModQ(u, MulModQ(challenge, coefficients[k])))
                           = mul_mod_p(pow_mod_p(Generator, u),
                                       pow_mod_p(E(claimed[k]), challenge))
  <2>1. claimed \in [Degree -> Exponent]
    OBVIOUS
  <2>2. Crypto_check_keypair_proof(coef_commitments(claimed),
            schnorr_proof(coefficients, [k \in Degree |-> u], challenge))
          <=> \A k \in Degree : holds(k)
    BY DEF Crypto_check_keypair_proof, coef_commitments, schnorr_proof, E
  <2> HIDE DEF claimed
  <2>3. ASSUME NEW k \in Degree
        PROVE  holds(k) <=> claimed[k] = coefficients[k] \/ challenge = 0
    <3>1. /\ claimed[k] \in Exponent /\ coefficients[k] \in Exponent
          /\ u \in Number /\ challenge \in Number /\ coefficients[k] \in Number
      BY <2>1, NumbersAreExponents
    <3>2. coefficients[k] % Q = coefficients[k] /\ challenge % Q = challenge
      BY <3>1, Reduced
    <3> QED
      BY <3>1, <3>2, GeneratorEquation
  <2> HIDE DEF holds
  <2>4. (\A k \in Degree : claimed[k] = coefficients[k]) <=> claimed = coefficients
    BY <2>1
  <2>5. \E k \in Degree : TRUE
    OBVIOUS
  <2> QED
    BY <2>2, <2>3, <2>4, <2>5 DEF claimed
<1> QED
  BY EnoughInit, EnoughStep, <1>1, PTL DEF Spec

\* The exponent of a commitment in the check of a share, reduced, is what the
\* coefficient counts for in the share.
LEMMA IndexPowerIsShareWeight ==
  ASSUME NEW l \in Trustee, NEW e \in Nat
  PROVE  IntegerPower(l + 1, e) \in Nat /\ IntegerPower(l + 1, e) % Q = ShareWeight(l, e)
<1> DEFINE Good == {k \in Nat : /\ IntegerPower(l + 1, k) \in Nat
                                /\ IntegerPower(l + 1, k) % Q = ShareWeight(l, k)}
<1>1. l + 1 \in Nat /\ Point[l] = l + 1 /\ l + 1 \in Exponent
  BY ThresholdAssumption, PointsDistinct DEF Trustee, Factors
<1>2. 0 \in Good
  <2>1. IntegerPower(l + 1, 0) = 1 /\ ShareWeight(l, 0) = 1
    BY <1>1, IntegerPowerGoes, ShareWeightLaw
  <2>2. 1 % Q = 1
    BY SmallExponents, Reduced
  <2> QED
    BY <2>1, <2>2
<1>3. ASSUME NEW k \in Nat, k \in Good PROVE k + 1 \in Good
  <2> DEFINE power == IntegerPower(l + 1, k)
  <2>1. power \in Nat /\ power % Q = ShareWeight(l, k)
    BY <1>3
  <2>2. IntegerPower(l + 1, k + 1) = power * (l + 1)
    BY <1>1, IntegerPowerGoes
  <2>3. ShareWeight(l, k + 1) = MulModQ(l + 1, ShareWeight(l, k))
    BY <1>1, ShareWeightLaw
  <2> HIDE DEF power
  <2>4. ((power % Q) * (l + 1)) % Q = (power * (l + 1)) % Q
    BY <1>1, <2>1, ReduceFirst
  <2>5. ShareWeight(l, k) \in Int
    BY <2>1, RemainderIsNumber
  <2>6. (l + 1) * ShareWeight(l, k) = (power % Q) * (l + 1)
    BY <1>1, <2>1, <2>5
  <2>7. power * (l + 1) \in Nat
    BY <1>1, <2>1
  <2> QED
    BY <2>2, <2>3, <2>4, <2>6, <2>7 DEF MulModQ
<1> HIDE DEF Good
<1>4. e \in Good
  BY <1>2, <1>3, Table!NumbersInduce
<1> QED
  BY <1>4 DEF Good

\* Crypto_check_validity_share_against_public_keys (crypto.c:377): for every
\* polynomial and every trustee, the share that passes is the trustee's own.
THEOREM OnlyTheOwnShareEverPasses == Spec => []OnlyOwnSharePasses
<1>1. EnoughAvailable => OnlyOwnSharePasses
  <2> SUFFICES ASSUME coefficients \in [Degree -> Exponent],
                      NEW l \in Trustee, NEW rsa \in generate_keys, NEW share \in Exponent
               PROVE  Crypto_check_validity_share_against_public_keys(
                          RSA_Encrypt(share, rsa), coef_commitments(coefficients), rsa, l)
                        <=> share = computeTrusteePolynomial(coefficients, l)
    BY DEF EnoughAvailable, OnlyOwnSharePasses
  <2> DEFINE part == [e \in Degree |-> MulModQ(coefficients[e], ShareWeight(l, e))]
             power == [e \in Degree |->
                         pow_mod_p(coef_commitments(coefficients)[e], IntegerPower(l + 1, e))]
  <2>1. RSA_Decrypt(RSA_Encrypt(share, rsa), rsa) = share
    BY RsaAssumption
  <2>2. ASSUME NEW e \in Degree
        PROVE  part[e] \in Exponent /\ power[e] = E(part[e])
    <3>1. e \in Nat /\ coefficients[e] \in Exponent
      BY DEF Degree
    <3>2. /\ IntegerPower(l + 1, e) \in 0 .. LargestExponent
          /\ IntegerPower(l + 1, e) % Q = ShareWeight(l, e)
          /\ ShareWeight(l, e) \in Exponent
      BY <3>1, LargestExponentIsLarge, IndexPowerIsShareWeight, ShareWeightLaw
    <3>3. coef_commitments(coefficients)[e] = E(coefficients[e])
      BY DEF coef_commitments, E
    <3> QED
      BY <3>1, <3>2, <3>3, ExponentsMultiply, OperationsClosed
  <2>3. ProductModP(power) = Powers!Fold(power, Degree)
    BY ProductIsFoldOfPowers
  <2>4. /\ computeTrusteePolynomial(coefficients, l) = Sums!Fold(part, Degree)
        /\ computeTrusteePolynomial(coefficients, l) \in Exponent
    BY SharesAreExponents
  <2>5. IsFiniteSet(Degree)
    BY FS_Interval, ThresholdAssumption DEF Degree
  <2>6. Crypto_check_validity_share_against_public_keys(
            RSA_Encrypt(share, rsa), coef_commitments(coefficients), rsa, l)
          <=> E(share) = ProductModP(power)
    BY <2>1 DEF Crypto_check_validity_share_against_public_keys, E
  <2> HIDE DEF part, power
  <2>7. ProductModP(power) = E(computeTrusteePolynomial(coefficients, l))
    BY <2>2, <2>3, <2>4, <2>5, ProductOfPowers
  <2> QED
    BY <2>4, <2>6, <2>7, ExponentsDiffer
<1> QED
  BY EnoughInit, EnoughStep, <1>1, PTL DEF Spec

------------------------------------------------------------------------------
(* Encrypted ballots (VotingEncrypter).  The proofs first.                 *)

LEMMA DigestIsExponent ==
  ASSUME NEW hash \in Exponent, NEW numbers \in Seq(Residue)
  PROVE  Challenges(hash, numbers) \subseteq Exponent
<1> DEFINE term == [k \in DOMAIN numbers |-> MulModQ(k, numbers[k])]
<1>1. IsFiniteSet(DOMAIN numbers)
  BY FS_Interval
<1>2. ASSUME NEW k \in DOMAIN numbers PROVE term[k] \in Exponent
  <2>1. k \in Int /\ numbers[k] \in Int
    BY GroupNumbers DEF Residue
  <2>2. k * numbers[k] \in Int
    BY <2>1
  <2> QED
    BY <2>2, Remainder DEF MulModQ
<1>3. SumModQ(term) = Sums!Fold(term, DOMAIN numbers)
  BY SumIsFold
<1> HIDE DEF term
<1>4. Sums!Fold(term, DOMAIN numbers) \in Exponent
  BY <1>1, <1>2, SumsLawful, SameFinite, Sums!FoldIn
<1>5. Digest(hash, numbers) \in Exponent
  BY <1>3, <1>4, OperationsClosed DEF Digest, term
<1> QED
  BY <1>5 DEF Challenges

LEMMA TranscriptsAreNumbers ==
  ASSUME NEW a, NEW b,
         a.nonce_encoding \in Residue, a.message_encoding \in Residue,
         b.nonce_encoding \in Residue, b.message_encoding \in Residue
  PROVE  Numbers(a) \o Numbers(b) \in Seq(Residue)
BY DEF Numbers

\* What is left of a challenge when a part is taken away.
LEMMA RestOfChallenge ==
  ASSUME NEW challenge \in Exponent, NEW f \in Number
  PROVE  /\ SubModQ(challenge, f) \in Exponent
         /\ AddModQ(f, SubModQ(challenge, f)) = challenge
         /\ AddModQ(SubModQ(challenge, f), f) = challenge
<1> DEFINE rest == challenge - f
<1>1. challenge \in Int /\ challenge % Q = challenge /\ f \in Int /\ rest \in Int
  BY Reduced, NumbersAreExponents
<1>2. SubModQ(challenge, f) = rest % Q /\ rest % Q \in Exponent /\ rest % Q \in Int
  BY <1>1, Remainder, RemainderIsNumber DEF SubModQ
<1>3. ((rest % Q) + f) % Q = (rest + f) % Q
  BY <1>1, ReduceFirst
<1>4. rest + f = challenge /\ f + (rest % Q) = (rest % Q) + f
  BY <1>1, <1>2
<1> QED
  BY <1>1, <1>2, <1>3, <1>4 DEF AddModQ

\* One half of the proof of a selection, as Crypto_check_dis_proof checks it.
HalfHolds(commitment, part, v, encryption, public_key) ==
  /\ pow_mod_p(Generator, part.response)
       = mul_mod_p(commitment.nonce_encoding,
                   pow_mod_p(encryption.nonce_encoding, part.challenge))
  /\ mul_mod_p(pow_mod_p(Generator, v * part.challenge),
               pow_mod_p(public_key, part.response))
       = mul_mod_p(commitment.message_encoding,
                   pow_mod_p(encryption.message_encoding, part.challenge))

LEMMA MadeUpHalfHolds ==
  ASSUME NEW x \in Exponent, NEW n \in Exponent, NEW m \in Exponent, NEW selected \in BOOLEAN,
         NEW f \in Number, NEW r \in Number
  PROVE  LET fake == fake_commitment(Encryption(E(n), E(m)), selected, E(x), f, r)
             part == [challenge |-> f, response |-> r]
         IN  /\ HalfHolds(fake, part, IF selected THEN 0 ELSE 1, Encryption(E(n), E(m)), E(x))
             /\ fake.nonce_encoding \in Residue /\ fake.message_encoding \in Residue
<1> DEFINE message == IF selected THEN 1 ELSE E(f)
           product == mul_mod_p(pow_mod_p(E(x), r), message)
           fake == Encryption(div_mod_p(E(r), pow_mod_p(E(n), f)),
                              div_mod_p(product, pow_mod_p(E(m), f)))
           part == [challenge |-> f, response |-> r]
           v == IF selected THEN 0 ELSE 1
<1>1. PICK nf \in Exponent : pow_mod_p(E(n), f) = E(nf)
  BY DrawnPowers
<1>2. PICK mf \in Exponent : pow_mod_p(E(m), f) = E(mf)
  BY DrawnPowers
<1>3. E(r) \in Residue /\ E(f) \in Residue /\ pow_mod_p(E(x), r) \in Residue
  BY DrawnPowers, GeneratorPowers
<1>4. message \in Residue /\ product \in Residue
  BY <1>3, MulModPLaws, GroupNumbers
<1>5. E(v * f) = message
  <2>1. CASE selected
    BY <2>1, GeneratorPowers, NumbersAreExponents
  <2>2. CASE ~selected
    BY <2>2, NumbersAreExponents
  <2> QED
    BY <2>1, <2>2
<1>6. /\ div_mod_p(E(r), E(nf)) \in Residue
      /\ mul_mod_p(div_mod_p(E(r), E(nf)), E(nf)) = E(r)
      /\ div_mod_p(product, E(mf)) \in Residue
      /\ mul_mod_p(div_mod_p(product, E(mf)), E(mf)) = product
  <2> HIDE DEF product
  <2> QED
    BY <1>3, <1>4, PowersDivide
<1>7. mul_mod_p(message, pow_mod_p(E(x), r)) = product
  <2> HIDE DEF message
  <2> QED
    BY <1>3, <1>4, MulModPLaws
<1>8. fake.nonce_encoding = div_mod_p(E(r), pow_mod_p(E(n), f))
      /\ fake.message_encoding = div_mod_p(product, pow_mod_p(E(m), f))
  BY DEF Encryption
<1>9. part.challenge = f /\ part.response = r
      /\ Encryption(E(n), E(m)).nonce_encoding = E(n)
      /\ Encryption(E(n), E(m)).message_encoding = E(m)
  BY DEF Encryption
<1>10. fake_commitment(Encryption(E(n), E(m)), selected, E(x), f, r) = fake
  BY <1>9 DEF fake_commitment, E
<1> HIDE DEF fake, product, message, part, v
<1>11. HalfHolds(fake, part, v, Encryption(E(n), E(m)), E(x))
  <2>1. pow_mod_p(Generator, r) = mul_mod_p(fake.nonce_encoding, pow_mod_p(E(n), f))
    BY <1>1, <1>6, <1>8 DEF E
  <2>2. mul_mod_p(pow_mod_p(Generator, v * f), pow_mod_p(E(x), r))
          = mul_mod_p(fake.message_encoding, pow_mod_p(E(m), f))
    <3>1. pow_mod_p(Generator, v * f) = message
      BY <1>5 DEF E
    <3> QED
      BY <3>1, <1>2, <1>6, <1>7, <1>8
  <2> QED
    BY <2>1, <2>2, <1>9 DEF HalfHolds
<1> QED
  BY <1>1, <1>2, <1>6, <1>8, <1>10, <1>11 DEF part, v

LEMMA TrueHalfHolds ==
  ASSUME NEW x \in Exponent, NEW n \in Exponent, NEW m \in Exponent,
         NEW nonce \in Number, nonce % Q = n, NEW u \in Number,
         NEW c \in Exponent, NEW v \in {0, 1}
  PROVE  HalfHolds(Encryption(pow_mod_p(Generator, u), pow_mod_p(E(x), u)),
                   [challenge |-> c, response |-> AddModQ(u, MulModQ(c, nonce))],
                   v, Encryption(E(n), E(m)), E(x))
           <=> m = AddModQ(MulModQ(x, n), v) \/ c = 0
<1>1. c \in Number /\ c % Q = c /\ v \in Exponent
  BY NumbersAreExponents, Reduced, SmallExponents
<1>2. v * c = MulModQ(v, c)
  <2>1. v * c \in Exponent
    BY GroupNumbers DEF Exponent
  <2> QED
    BY <2>1, Reduced DEF MulModQ
<1>3. pow_mod_p(Generator, AddModQ(u, MulModQ(c, nonce)))
        = mul_mod_p(pow_mod_p(Generator, u), pow_mod_p(E(n), c))
  BY <1>1, GeneratorEquation
<1>4. mul_mod_p(E(MulModQ(v, c)), pow_mod_p(E(x), AddModQ(u, MulModQ(c, nonce))))
          = mul_mod_p(pow_mod_p(E(x), u), pow_mod_p(E(m), c))
        <=> m = AddModQ(MulModQ(x, n), v) \/ c = 0
  BY <1>1, ProofEquation
<1> QED
  BY <1>2, <1>3, <1>4 DEF HalfHolds, Encryption, E

LEMMA SelectionProof ==
  ASSUME NEW x \in Exponent, NEW n \in Exponent, NEW m \in Exponent,
         NEW nonce \in Number, nonce % Q = n,
         NEW selected \in BOOLEAN, NEW v, v = IF selected THEN 1 ELSE 0,
         NEW challenge \in Exponent, NEW d \in Draws
  PROVE  /\ Crypto_check_dis_proof(
              dis_proof(Encryption(E(n), E(m)), selected, E(x), nonce, d, challenge),
              Encryption(E(n), E(m)), E(x))
              <=> m = AddModQ(MulModQ(x, n), v) \/ SubModQ(challenge, d.fake_challenge) = 0
         /\ dis_transcript(Encryption(E(n), E(m)), selected, E(x), d) \in Seq(Residue)
<1> DEFINE enc == Encryption(E(n), E(m))
           f == d.fake_challenge
           fake == fake_commitment(enc, selected, E(x), f, d.fake_response)
           real == Encryption(pow_mod_p(Generator, d.u), pow_mod_p(E(x), d.u))
           c == SubModQ(challenge, f)
           fakePart == [challenge |-> f, response |-> d.fake_response]
           realPart == [challenge |-> c, response |-> AddModQ(d.u, MulModQ(c, nonce))]
           proof == dis_proof(enc, selected, E(x), nonce, d, challenge)
<1>1. f \in Number /\ d.fake_response \in Number /\ d.u \in Number
  BY NumbersAreExponents DEF Draws
<1>2. c \in Exponent /\ AddModQ(f, c) = challenge /\ AddModQ(c, f) = challenge
  BY <1>1, RestOfChallenge
<1>3. /\ HalfHolds(fake, fakePart, IF selected THEN 0 ELSE 1, enc, E(x))
      /\ fake.nonce_encoding \in Residue /\ fake.message_encoding \in Residue
  BY <1>1, MadeUpHalfHolds
<1>4. HalfHolds(real, realPart, v, enc, E(x)) <=> m = AddModQ(MulModQ(x, n), v) \/ c = 0
  <2> HIDE DEF c, f
  <2> QED
    BY <1>1, <1>2, TrueHalfHolds
<1>5. /\ real.nonce_encoding \in Residue /\ real.message_encoding \in Residue
      /\ enc.nonce_encoding \in Residue /\ enc.message_encoding \in Residue
  <2>1. pow_mod_p(Generator, d.u) \in Residue /\ pow_mod_p(E(x), d.u) \in Residue
    BY <1>1, DrawnPowers, GeneratorPowers DEF E
  <2> QED
    BY <2>1, GeneratorPowers DEF Encryption
<1> HIDE DEF real, fake, enc, c, realPart, fakePart
<1>6. dis_commitments(enc, selected, E(x), d) = IF selected THEN <<fake, real>> ELSE <<real, fake>>
  BY DEF dis_commitments, real, fake
<1>7. /\ proof.commitments = (IF selected THEN <<fake, real>> ELSE <<real, fake>>)
      /\ proof.challenge = challenge
      /\ proof.parts = IF selected THEN <<fakePart, realPart>> ELSE <<realPart, fakePart>>
  BY <1>6 DEF dis_proof, realPart, fakePart, c
<1>8. fakePart.challenge = f /\ realPart.challenge = c
  BY DEF fakePart, realPart
<1> HIDE DEF proof, f
<1>9. Crypto_check_dis_proof(proof, enc, E(x))
        <=> /\ proof.challenge = AddModQ(proof.parts[1].challenge, proof.parts[2].challenge)
            /\ HalfHolds(proof.commitments[0 + 1], proof.parts[0 + 1], 0, enc, E(x))
            /\ HalfHolds(proof.commitments[1 + 1], proof.parts[1 + 1], 1, enc, E(x))
  BY Zenon DEF Crypto_check_dis_proof, HalfHolds
<1>10. Crypto_check_dis_proof(proof, enc, E(x)) <=> HalfHolds(real, realPart, v, enc, E(x))
  <2>1. CASE selected
    BY <2>1, <1>2, <1>3, <1>7, <1>8, <1>9
  <2>2. CASE ~selected
    BY <2>2, <1>2, <1>3, <1>7, <1>8, <1>9
  <2> QED
    BY <2>1, <2>2
<1>11. dis_transcript(enc, selected, E(x), d) \in Seq(Residue)
  BY <1>3, <1>5, <1>6 DEF dis_transcript, Numbers
<1> QED
  BY <1>4, <1>10, <1>11 DEF proof, enc, c, f

LEMMA AggregateProof ==
  ASSUME NEW x \in Exponent, NEW n \in Exponent, NEW m \in Exponent,
         NEW nonce \in Number, nonce % Q = n,
         NEW u \in uniform_bignum_o_q, NEW c \in Exponent, NEW my_C, NEW l \in Exponent
  PROVE  /\ Crypto_check_aggregate_cp_proof(aggregate_cp_proof(nonce, E(x), u, c),
                                            Encryption(E(n), E(m)), my_C, E(x), l)
              <=> my_C = c /\ (m = AddModQ(MulModQ(x, n), l) \/ c = 0)
         /\ ProofTranscript(Encryption(E(n), E(m)),
                            aggregate_cp_proof(nonce, E(x), u, c).commitment) \in Seq(Residue)
<1> DEFINE enc == Encryption(E(n), E(m))
           proof == aggregate_cp_proof(nonce, E(x), u, c)
<1>1. u \in Number /\ c \in Number /\ c % Q = c /\ MulModQ(l, c) \in Exponent
  BY NumbersAreExponents, Reduced, OperationsClosed
<1>2. pow_mod_p(Generator, AddModQ(u, MulModQ(c, nonce)))
        = mul_mod_p(pow_mod_p(Generator, u), pow_mod_p(E(n), c))
  BY <1>1, GeneratorEquation
<1>3. mul_mod_p(E(MulModQ(l, c)), pow_mod_p(E(x), AddModQ(u, MulModQ(c, nonce))))
          = mul_mod_p(pow_mod_p(E(x), u), pow_mod_p(E(m), c))
        <=> m = AddModQ(MulModQ(x, n), l) \/ c = 0
  BY <1>1, ProofEquation
<1>4. Crypto_check_aggregate_cp_proof(proof, enc, my_C, E(x), l)
        <=> my_C = c /\ (m = AddModQ(MulModQ(x, n), l) \/ c = 0)
  BY <1>2, <1>3 DEF Crypto_check_aggregate_cp_proof, aggregate_cp_proof, Encryption, E
<1>5. /\ E(n) \in Residue /\ E(m) \in Residue
      /\ pow_mod_p(Generator, u) \in Residue /\ pow_mod_p(E(x), u) \in Residue
  BY <1>1, DrawnPowers, GeneratorPowers DEF E
<1>6. ProofTranscript(enc, proof.commitment) \in Seq(Residue)
  BY <1>5, TranscriptsAreNumbers DEF ProofTranscript, aggregate_cp_proof, Encryption
<1> QED
  BY <1>4, <1>6

LEMMA DecryptionProof ==
  ASSUME NEW n \in Exponent, NEW tallied, tallied.nonce_encoding = E(n),
         NEW u \in uniform_bignum_o_q, NEW c \in Exponent,
         NEW secret \in Exponent, NEW y \in Exponent
  PROVE  Crypto_check_decryption_cp_proof(decryption_cp_proof(secret, tallied, u, c),
                                          E(secret), E(y), tallied)
           <=> E(y) = PartialDecryption(secret, tallied) \/ c = 0
<1>1. /\ u \in Number /\ c \in Number /\ c % Q = c /\ secret \in Number /\ secret % Q = secret
      /\ MulModQ(n, secret) \in Exponent
  BY NumbersAreExponents, Reduced, OperationsClosed
<1>2. pow_mod_p(Generator, AddModQ(u, MulModQ(c, secret)))
        = mul_mod_p(pow_mod_p(Generator, u), pow_mod_p(E(secret), c))
  BY <1>1, GeneratorEquation
<1>3. pow_mod_p(E(n), AddModQ(u, MulModQ(c, secret)))
          = mul_mod_p(pow_mod_p(E(n), u), pow_mod_p(E(y), c))
        <=> y = MulModQ(n, secret) \/ c = 0
  BY <1>1, PowerEquation
<1>4. PartialDecryption(secret, tallied) = E(MulModQ(n, secret))
  BY ExponentPowers DEF PartialDecryption
<1>5. E(y) = E(MulModQ(n, secret)) <=> y = MulModQ(n, secret)
  BY <1>1, ExponentsDiffer
<1>6. Crypto_check_decryption_cp_proof(decryption_cp_proof(secret, tallied, u, c),
                                       E(secret), E(y), tallied)
        <=> y = MulModQ(n, secret) \/ c = 0
  BY <1>2, <1>3 DEF Crypto_check_decryption_cp_proof, decryption_cp_proof, Encryption
<1> QED
  BY <1>4, <1>5, <1>6

------------------------------------------------------------------------------
(* What the encrypter keeps while it goes over the selections.             *)

\* How many of the first i selections are selected.
SelectedUpTo(i) == Cardinality({k \in Selection : k <= i /\ ballot.selections[k]})

Key == log_generator_mod_p(joint_key)
Nonce == aggregate_nonce % Q

EncryptionNumbers == [nonce_encoding : Residue, message_encoding : Residue]

EncrypterTypeInv ==
  /\ ballot \in [selections : [Selection -> BOOLEAN],
                 expected_num_selected : 0 .. NumSelections]
  /\ Key \in Exponent /\ joint_key = E(Key)
  /\ base_hash \in Exponent
  /\ encrypted \in Seq(EncryptionNumbers) /\ Len(encrypted) <= NumSelections
  /\ aggregate_nonce \in Number

\* The tally of the ballot is an encryption, with the sum of the nonces, of the
\* number of selections met so far.
SumsInv ==
  /\ tally = Encryption(E(Nonce), E(AddModQ(MulModQ(Key, Nonce), SelectedUpTo(Len(encrypted)))))
  /\ encrypted = <<>> => aggregate_nonce = 0
  /\ Len(encrypted) = 1 => encrypted[1] = tally

\* No proof fails before the ballot is returned.
VerdictInv ==
  /\ stage \in {"called", "encrypting"} => status = "SUCCESS"
  /\ stage = "called" => encrypted = <<>>
  /\ stage = "encrypting" => Validate_selections
  /\ HonestBallotVerifies

EncrypterInv == EncrypterTypeInv /\ SumsInv /\ VerdictInv

LEMMA SelectionsCounted ==
  ASSUME ballot.selections \in [Selection -> BOOLEAN]
  PROVE  /\ \A i \in 0 .. NumSelections : SelectedUpTo(i) \in Exponent
         /\ SelectedUpTo(0) = 0
         /\ SelectedUpTo(NumSelections) = NumSelected
         /\ \A i \in 1 .. NumSelections :
              SelectedUpTo(i) = SelectedUpTo(i - 1) + (IF ballot.selections[i] THEN 1 ELSE 0)
<1> DEFINE chosen(i) == {k \in Selection : k <= i /\ ballot.selections[k]}
<1>1. /\ IsFiniteSet(Selection) /\ Cardinality(Selection) = NumSelections
      /\ NumSelections \in Nat /\ NumSelections < Q /\ Q \in Nat
  BY FS_Interval, EncrypterAssumption, GroupNumbers DEF Selection
<1>2. \A i : IsFiniteSet(chosen(i)) /\ Cardinality(chosen(i)) \in Nat
             /\ Cardinality(chosen(i)) <= NumSelections
  <2> SUFFICES ASSUME NEW i
               PROVE  IsFiniteSet(chosen(i)) /\ Cardinality(chosen(i)) \in Nat
                      /\ Cardinality(chosen(i)) <= NumSelections
    OBVIOUS
  <2>1. chosen(i) \in SUBSET Selection
    OBVIOUS
  <2> HIDE DEF chosen
  <2>2. IsFiniteSet(chosen(i)) /\ Cardinality(chosen(i)) <= Cardinality(Selection)
    BY <1>1, <2>1, FS_Subset
  <2> QED
    BY <1>1, <2>2, FS_CardinalityType
<1>3. \A i \in 0 .. NumSelections : SelectedUpTo(i) \in Exponent
  BY <1>1, <1>2 DEF SelectedUpTo, Exponent
<1>4. SelectedUpTo(0) = 0
  <2>1. chosen(0) = {}
    BY <1>1 DEF Selection
  <2> QED
    BY <2>1, FS_EmptySet DEF SelectedUpTo
<1>5. SelectedUpTo(NumSelections) = NumSelected
  <2>1. chosen(NumSelections) = {i \in Selection : ballot.selections[i]}
    BY <1>1 DEF Selection
  <2> QED
    BY <2>1 DEF SelectedUpTo, NumSelected
<1>6. ASSUME NEW i \in 1 .. NumSelections
      PROVE  SelectedUpTo(i) = SelectedUpTo(i - 1) + (IF ballot.selections[i] THEN 1 ELSE 0)
  <2>1. i \in Selection /\ i \notin chosen(i - 1)
    BY <1>1 DEF Selection
  <2>2. CASE ballot.selections[i]
    <3>1. chosen(i) = chosen(i - 1) \cup {i}
      BY <1>1, <2>1, <2>2 DEF Selection
    <3>2. Cardinality(chosen(i - 1) \cup {i}) = Cardinality(chosen(i - 1)) + 1
      <4> HIDE DEF chosen
      <4> QED
        BY <1>2, <2>1, FS_AddElement
    <3> QED
      BY <2>2, <3>1, <3>2 DEF SelectedUpTo
  <2>3. CASE ~ballot.selections[i]
    <3>1. chosen(i) = chosen(i - 1)
      BY <1>1, <2>1, <2>3 DEF Selection
    <3>2. Cardinality(chosen(i - 1)) \in Nat
      BY <1>2
    <3>3. SelectedUpTo(i) = Cardinality(chosen(i)) /\ SelectedUpTo(i - 1) = Cardinality(chosen(i - 1))
      BY DEF SelectedUpTo
    <3> HIDE DEF chosen
    <3> QED
      BY <2>3, <3>1, <3>2, <3>3
  <2> QED
    BY <2>2, <2>3
<1> QED
  BY <1>3, <1>4, <1>5, <1>6

LEMMA EncrypterStarts == EncrypterInit => EncrypterInv
<1> SUFFICES ASSUME EncrypterInit PROVE EncrypterInv
  OBVIOUS
<1>1. PICK x \in JointKeySecrets : joint_key = E(x)
  BY DEF EncrypterInit, E
<1>2. x \in Exponent /\ Key = x
  BY <1>1, EncrypterAssumption, LogarithmOfPower DEF Key
<1>3. ballot \in [selections : [Selection -> BOOLEAN],
                  expected_num_selected : 0 .. NumSelections]
      /\ encrypted = <<>> /\ aggregate_nonce = 0 /\ tally = Encryption(1, 1)
      /\ base_hash \in Exponent /\ status = "SUCCESS" /\ stage = "called"
  BY EncrypterAssumption DEF EncrypterInit, Crypto_encryption_homomorphic_zero
<1>4. EncrypterTypeInv
  <2>1. 0 \in Number /\ Len(encrypted) <= NumSelections
    BY <1>3, EncrypterAssumption, GroupNumbers DEF Number
  <2>2. encrypted \in Seq(EncryptionNumbers)
    BY <1>3
  <2> QED
    BY <1>1, <1>2, <1>3, <2>1, <2>2 DEF EncrypterTypeInv
<1>5. SumsInv
  <2>1. Nonce = 0 /\ 0 \in Exponent
    BY <1>3, SmallExponents, Reduced DEF Nonce
  <2>2. SelectedUpTo(Len(encrypted)) = 0
    <3>1. Len(encrypted) = 0 /\ ballot.selections \in [Selection -> BOOLEAN]
      BY <1>3
    <3> QED
      BY <3>1, SelectionsCounted
  <2>3. MulModQ(Key, 0) = 0 /\ AddModQ(0, 0) = 0
    BY <1>2, <2>1, MultiplicationLaws, AdditionLaws
  <2> QED
    BY <1>3, <2>1, <2>2, <2>3, GeneratorPowers DEF SumsInv
<1>6. VerdictInv
  BY <1>3 DEF VerdictInv, HonestBallotVerifies
<1> QED
  BY <1>4, <1>5, <1>6 DEF EncrypterInv

\* What one selection is encrypted to.
LEMMA EncryptedSelection ==
  ASSUME NEW x \in Exponent, NEW nonce \in Number, NEW selected \in BOOLEAN
  PROVE  Crypto_encrypt(E(x), nonce, IF selected THEN Generator ELSE 1)
           = Encryption(E(nonce % Q),
                        E(AddModQ(MulModQ(x, nonce % Q), IF selected THEN 1 ELSE 0)))
<1> DEFINE n == nonce % Q
           s == IF selected THEN 1 ELSE 0
<1>1. n \in Exponent /\ MulModQ(x, n) \in Exponent /\ s \in Exponent
      /\ pow_mod_p(Generator, nonce) = E(n) /\ pow_mod_p(E(x), nonce) = E(MulModQ(x, n))
  BY DrawnPowers, SmallExponents DEF E
<1>2. E(s) = IF selected THEN Generator ELSE 1
  BY GeneratorPowers
<1> HIDE DEF s, n
<1>3. mul_mod_p(E(MulModQ(x, n)), E(s)) = E(AddModQ(MulModQ(x, n), s))
  BY <1>1, ExponentsAdd
<1> QED
  BY <1>1, <1>2, <1>3 DEF Crypto_encrypt, n, s

\* Encryptions are added: nonces to nonces, messages to messages.
LEMMA EncryptionsAdd ==
  ASSUME NEW x \in Exponent, NEW n \in Exponent, NEW m \in Exponent,
         NEW k \in Exponent, NEW s \in Exponent
  PROVE  Crypto_encryption_homomorphic_add(
             Encryption(E(n), E(AddModQ(MulModQ(x, n), k))),
             Encryption(E(m), E(AddModQ(MulModQ(x, m), s))))
           = Encryption(E(AddModQ(n, m)), E(AddModQ(MulModQ(x, AddModQ(n, m)), AddModQ(k, s))))
<1> DEFINE a == MulModQ(x, n)
           b == MulModQ(x, m)
<1>1. a \in Exponent /\ b \in Exponent
  BY OperationsClosed
<1>2. MulModQ(x, AddModQ(n, m)) = AddModQ(a, b)
  BY Distribution
<1>3. mul_mod_p(E(n), E(m)) = E(AddModQ(n, m))
  BY ExponentsAdd
<1> HIDE DEF a, b
<1>4. AddModQ(a, k) \in Exponent /\ AddModQ(b, s) \in Exponent /\ AddModQ(k, s) \in Exponent
      /\ AddModQ(k, b) \in Exponent
  BY <1>1, OperationsClosed
<1>5. mul_mod_p(E(AddModQ(a, k)), E(AddModQ(b, s))) = E(AddModQ(AddModQ(a, k), AddModQ(b, s)))
  BY <1>4, ExponentsAdd
<1>6. AddModQ(AddModQ(a, k), AddModQ(b, s)) = AddModQ(AddModQ(a, b), AddModQ(k, s))
  <2>1. AddModQ(AddModQ(a, k), AddModQ(b, s)) = AddModQ(a, AddModQ(k, AddModQ(b, s)))
    BY <1>1, <1>4, AdditionLaws
  <2>2. AddModQ(k, AddModQ(b, s)) = AddModQ(AddModQ(k, b), s)
    BY <1>1, AdditionLaws
  <2>3. AddModQ(k, b) = AddModQ(b, k)
    BY <1>1, AdditionLaws
  <2>4. AddModQ(b, AddModQ(k, s)) = AddModQ(AddModQ(b, k), s)
    BY <1>1, AdditionLaws
  <2>5. AddModQ(AddModQ(a, b), AddModQ(k, s)) = AddModQ(a, AddModQ(b, AddModQ(k, s)))
    BY <1>1, <1>4, AdditionLaws
  <2> QED
    BY <2>1, <2>2, <2>3, <2>4, <2>5
<1> QED
  BY <1>2, <1>3, <1>5, <1>6 DEF Crypto_encryption_homomorphic_add, Encryption, a, b

LEMMA SelectionEncrypted ==
  ASSUME EncrypterInv, EncryptSelection
  PROVE  EncrypterInv'
<1> DEFINE i == Len(encrypted) + 1
           selected == ballot.selections[i]
           s == IF selected THEN 1 ELSE 0
           K == SelectedUpTo(Len(encrypted))
<1>1. PICK nonce \in uniform_bignum_o, d \in Draws :
        LET encryption == Crypto_encrypt(joint_key, nonce, IF selected THEN Generator ELSE 1)
        IN  \E challenge \in
                 Challenges(base_hash, dis_transcript(encryption, selected, joint_key, d)) :
              /\ encrypted' = Append(encrypted, encryption)
              /\ tally' = Crypto_encryption_homomorphic_add(tally, encryption)
              /\ aggregate_nonce' = AddNonce(aggregate_nonce, nonce, i)
              /\ status' =
                   IF Crypto_check_dis_proof(
                        dis_proof(encryption, selected, joint_key, nonce, d, challenge),
                        encryption, joint_key)
                   THEN status ELSE "UNKNOWN_ERROR"
  BY Zenon DEF EncryptSelection
<1>2. /\ stage = "encrypting" /\ Len(encrypted) < NumSelections
      /\ UNCHANGED <<ballot, joint_key, base_hash, stage, unfilled>>
  BY DEF EncryptSelection
<1>3. /\ ballot \in [selections : [Selection -> BOOLEAN],
                     expected_num_selected : 0 .. NumSelections]
      /\ Key \in Exponent /\ joint_key = E(Key) /\ base_hash \in Exponent
      /\ encrypted \in Seq(EncryptionNumbers) /\ aggregate_nonce \in Number
      /\ tally = Encryption(E(Nonce), E(AddModQ(MulModQ(Key, Nonce), K)))
      /\ encrypted = <<>> => aggregate_nonce = 0
  BY DEF EncrypterInv, EncrypterTypeInv, SumsInv
<1>4. i \in 1 .. NumSelections /\ i - 1 = Len(encrypted) /\ Len(encrypted) \in Nat
      /\ Len(encrypted) \in 0 .. NumSelections /\ NumSelections \in Nat
  BY <1>2, <1>3, EncrypterAssumption
<1>5. selected \in BOOLEAN /\ s \in Exponent /\ s \in Nat
  BY <1>3, <1>4, SmallExponents DEF Selection
<1>6. K \in Exponent /\ SelectedUpTo(i) \in Exponent /\ SelectedUpTo(i) = K + s
  <2>1. ballot.selections \in [Selection -> BOOLEAN] /\ i \in 0 .. NumSelections
    BY <1>3, <1>4
  <2> QED
    BY <1>4, <2>1, SelectionsCounted
<1>7. SelectedUpTo(i) = AddModQ(K, s)
  BY <1>6, Reduced DEF AddModQ
<1>8. Nonce \in Exponent /\ nonce \in Number /\ nonce % Q \in Exponent
  BY <1>3, NumbersAreExponents DEF Nonce
<1> DEFINE r == nonce % Q
           m == AddModQ(MulModQ(Key, r), s)
           encryption == Encryption(E(r), E(m))
<1>9. Crypto_encrypt(joint_key, nonce, IF selected THEN Generator ELSE 1) = encryption
  BY <1>3, <1>5, <1>8, EncryptedSelection
<1>10. PICK challenge \in
                Challenges(base_hash, dis_transcript(encryption, selected, joint_key, d)) :
              /\ encrypted' = Append(encrypted, encryption)
              /\ tally' = Crypto_encryption_homomorphic_add(tally, encryption)
              /\ aggregate_nonce' = AddNonce(aggregate_nonce, nonce, i)
              /\ status' =
                   IF Crypto_check_dis_proof(
                        dis_proof(encryption, selected, joint_key, nonce, d, challenge),
                        encryption, joint_key)
                   THEN status ELSE "UNKNOWN_ERROR"
  <2> HIDE DEF encryption, selected
  <2> QED
    BY <1>1, <1>9, Zenon
<1>11. m \in Exponent /\ E(r) \in Residue /\ E(m) \in Residue
  <2>1. MulModQ(Key, r) \in Exponent
    BY <1>3, <1>8, OperationsClosed
  <2>2. m \in Exponent
    BY <1>5, <2>1, OperationsClosed
  <2> HIDE DEF r, m
  <2> QED
    BY <1>8, <2>2, GeneratorPowers DEF r
<1>12. status' = status
  <2> HIDE DEF m, selected
  <2>1. dis_transcript(encryption, selected, joint_key, d) \in Seq(Residue)
    BY <1>3, <1>5, <1>8, <1>11, SmallExponents, SelectionProof
  <2>2. challenge \in Exponent
    BY <1>3, <1>10, <2>1, DigestIsExponent
  <2>3. Crypto_check_dis_proof(dis_proof(encryption, selected, joint_key, nonce, d, challenge),
                               encryption, joint_key)
          <=> \/ m = AddModQ(MulModQ(Key, r), s)
              \/ SubModQ(challenge, d.fake_challenge) = 0
    <3> HIDE DEF r, s
    <3>1. r \in Exponent /\ nonce % Q = r /\ m \in Exponent /\ nonce \in Number
      BY <1>8, <1>11 DEF r
    <3>2. PICK chosen \in BOOLEAN : chosen = selected
      BY <1>5
    <3>3. PICK v : v = s
      OBVIOUS
    <3>4. v = IF chosen THEN 1 ELSE 0
      BY <3>2, <3>3 DEF s
    <3>5. Key \in Exponent /\ joint_key = E(Key)
      BY <1>3
    <3> HIDE DEF m
    <3>6. Crypto_check_dis_proof(
              dis_proof(Encryption(E(r), E(m)), chosen, E(Key), nonce, d, challenge),
              Encryption(E(r), E(m)), E(Key))
            <=> m = AddModQ(MulModQ(Key, r), v) \/ SubModQ(challenge, d.fake_challenge) = 0
      BY <2>2, <3>1, <3>4, <3>5, SelectionProof
    <3> QED
      BY <3>2, <3>3, <3>5, <3>6
  <2> QED
    BY <1>10, <2>3 DEF m
<1>13. Len(encrypted') = i /\ Len(encrypted') \in Nat
  BY <1>3, <1>4, <1>10
<1>14. aggregate_nonce' \in Number /\ aggregate_nonce' % Q = AddModQ(Nonce, r)
  <2>1. CASE i = 1
    <3>1. aggregate_nonce = 0 /\ aggregate_nonce' = nonce
      <4>1. encrypted = <<>>
        BY <1>3, <1>4, <2>1
      <4> QED
        BY <4>1, <1>3, <1>10, <2>1 DEF AddNonce
    <3>2. Nonce = 0 /\ AddModQ(r, 0) = r /\ AddModQ(0, r) = AddModQ(r, 0)
      BY <3>1, <1>8, SmallExponents, Reduced, AdditionLaws DEF Nonce
    <3> QED
      BY <3>1, <3>2, <1>8
  <2>2. CASE i # 1
    <3>1. aggregate_nonce' = AddModQ(aggregate_nonce, nonce)
      BY <1>10, <2>2 DEF AddNonce
    <3>2. AddModQ(aggregate_nonce, nonce) = AddModQ(Nonce, r)
      BY <1>3, <1>8, DrawnReduce DEF Nonce
    <3>3. AddModQ(Nonce, r) \in Exponent
      BY <1>8, OperationsClosed
    <3> QED
      BY <3>1, <3>2, <3>3, NumbersAreExponents, Reduced
  <2> QED
    BY <2>1, <2>2
<1>15. tally' = Encryption(E(AddModQ(Nonce, r)),
                           E(AddModQ(MulModQ(Key, AddModQ(Nonce, r)), SelectedUpTo(i))))
  <2> HIDE DEF r, s, K, i
  <2>1. r \in Exponent
    BY <1>8 DEF r
  <2>2. Crypto_encryption_homomorphic_add(
            Encryption(E(Nonce), E(AddModQ(MulModQ(Key, Nonce), K))),
            Encryption(E(r), E(AddModQ(MulModQ(Key, r), s))))
          = Encryption(E(AddModQ(Nonce, r)),
                       E(AddModQ(MulModQ(Key, AddModQ(Nonce, r)), AddModQ(K, s))))
    BY <1>3, <1>5, <1>6, <1>8, <2>1, EncryptionsAdd
  <2> QED
    BY <1>3, <1>7, <1>10, <2>2
<1>16. Key' = Key /\ Nonce' = AddModQ(Nonce, r)
  BY <1>2, <1>14 DEF Key, Nonce
<1>17. SelectedUpTo(Len(encrypted))' = SelectedUpTo(i)
  BY <1>2, <1>13 DEF SelectedUpTo
<1> HIDE DEF r, m, K, s, i, selected
<1>18. EncrypterTypeInv'
  <2>1. encryption \in EncryptionNumbers
    BY <1>11 DEF Encryption, EncryptionNumbers
  <2>2. encrypted' \in Seq(EncryptionNumbers)
    BY <1>3, <1>10, <2>1
  <2>3. Len(encrypted') <= NumSelections
    BY <1>4, <1>13
  <2> HIDE DEF encryption
  <2> QED
    BY <1>2, <1>3, <1>14, <1>16, <2>2, <2>3 DEF EncrypterTypeInv
<1>19. SumsInv'
  <2>1. tally' = Encryption(E(Nonce'),
                   E(AddModQ(MulModQ(Key', Nonce'), SelectedUpTo(Len(encrypted))')))
    BY <1>15, <1>16, <1>17
  <2>2. encrypted' # <<>>
    BY <1>4, <1>13
  <2>3. Len(encrypted') = 1 => encrypted'[1] = tally'
    <3> SUFFICES ASSUME Len(encrypted') = 1 PROVE encrypted'[1] = tally'
      OBVIOUS
    <3>1. i = 1 /\ encrypted = <<>>
      BY <1>3, <1>4, <1>13
    <3>2. encrypted'[1] = encryption
      BY <1>10, <3>1
    <3>3. aggregate_nonce = 0 /\ 0 \in Exponent
      BY <1>3, <3>1, SmallExponents
    <3>4. Nonce = 0
      BY <3>3, Reduced DEF Nonce
    <3>5. K = 0
      <4>1. ballot.selections \in [Selection -> BOOLEAN] /\ Len(encrypted) = 0
        BY <1>3, <3>1
      <4> QED
        BY <4>1, SelectionsCounted DEF K
    <3>6. AddModQ(Nonce, r) = r /\ SelectedUpTo(i) = s
      <4>1. AddModQ(0, r) = AddModQ(r, 0) /\ AddModQ(r, 0) = r
        BY <1>8, <3>3, AdditionLaws DEF r
      <4>2. AddModQ(0, s) = AddModQ(s, 0) /\ AddModQ(s, 0) = s
        BY <1>5, <3>3, AdditionLaws
      <4> QED
        BY <4>1, <4>2, <1>7, <3>4, <3>5
    <3> QED
      BY <1>15, <3>2, <3>6 DEF m
  <2> QED
    BY <2>1, <2>2, <2>3 DEF SumsInv
<1>20. VerdictInv'
  <2>1. Validate_selections' = Validate_selections
    BY <1>2 DEF Validate_selections, NumSelected
  <2> QED
    BY <1>2, <1>12, <2>1 DEF EncrypterInv, VerdictInv, HonestBallotVerifies
<1> QED
  BY <1>18, <1>19, <1>20 DEF EncrypterInv

LEMMA BallotFinished ==
  ASSUME EncrypterInv, FinishBallot
  PROVE  EncrypterInv'
<1> DEFINE c0(u) == aggregate_cp_proof(aggregate_nonce, joint_key, u, 0).commitment
           l == ballot.expected_num_selected
<1>1. PICK proof \in Crypto_generate_aggregate_cp_proof(aggregate_nonce, tally,
                                                       base_hash, joint_key) :
        LET transcript == ProofTranscript(tally, proof.commitment) IN
        /\ unfilled' = (\E k \in DOMAIN transcript : transcript[k] \in Short)
        /\ \E my_C \in Challenges(base_hash, transcript) :
             status' = CASE ~Writable -> "SERIALIZE_ERROR"
                         [] Writable /\ ~Crypto_check_aggregate_cp_proof(
                              proof, tally, my_C, joint_key, l) -> "UNKNOWN_ERROR"
                         [] OTHER -> status
  BY Zenon DEF FinishBallot
<1>2. /\ stage = "encrypting" /\ Len(encrypted) = NumSelections /\ stage' = "returned"
      /\ UNCHANGED <<ballot, joint_key, base_hash, encrypted, tally, aggregate_nonce>>
  BY DEF FinishBallot
<1> DEFINE K == SelectedUpTo(NumSelections)
           message == AddModQ(MulModQ(Key, Nonce), K)
           transcript == ProofTranscript(tally, proof.commitment)
<1>3. /\ ballot \in [selections : [Selection -> BOOLEAN],
                     expected_num_selected : 0 .. NumSelections]
      /\ Key \in Exponent /\ joint_key = E(Key) /\ base_hash \in Exponent
      /\ aggregate_nonce \in Number
      /\ tally = Encryption(E(Nonce), E(message))
      /\ status = "SUCCESS" /\ Validate_selections
  BY <1>2 DEF EncrypterInv, EncrypterTypeInv, SumsInv, VerdictInv
<1>4. PICK u \in uniform_bignum_o_q :
        \E x \in Challenges(base_hash, ProofTranscript(tally, c0(u))) :
          proof = aggregate_cp_proof(aggregate_nonce, joint_key, u, x)
  BY <1>1, Zenon DEF Crypto_generate_aggregate_cp_proof
<1>5. PICK c \in Challenges(base_hash, ProofTranscript(tally, c0(u))) :
        proof = aggregate_cp_proof(aggregate_nonce, joint_key, u, c)
  BY <1>4
<1>6. K \in Exponent /\ K = l
  <2>1. NumSelections \in 0 .. NumSelections /\ ballot.selections \in [Selection -> BOOLEAN]
    BY <1>3, EncrypterAssumption
  <2> QED
    BY <1>3, <2>1, SelectionsCounted DEF Validate_selections
<1>7. Nonce \in Exponent /\ message \in Exponent
  <2>1. Nonce \in Exponent
    BY <1>3, NumbersAreExponents DEF Nonce
  <2> QED
    BY <1>3, <1>6, <2>1, OperationsClosed
<1>8. proof.commitment = c0(u)
  BY <1>5 DEF aggregate_cp_proof
<1>9. transcript \in Seq(Residue)
  <2> HIDE DEF message
  <2>1. ProofTranscript(Encryption(E(Nonce), E(message)),
                        aggregate_cp_proof(aggregate_nonce, E(Key), u, 0).commitment)
          \in Seq(Residue)
    BY <1>3, <1>7, SmallExponents, AggregateProof DEF Nonce
  <2> QED
    BY <1>3, <1>8, <2>1
<1>10. c \in Exponent
  BY <1>3, <1>5, <1>8, <1>9, DigestIsExponent
<1> HIDE DEF l, K, message, transcript, c0
<1>11. \A my_C : Crypto_check_aggregate_cp_proof(proof, tally, my_C, joint_key, l) <=> my_C = c
  <2> TAKE my_C
  <2>1. aggregate_nonce % Q = Nonce
    BY DEF Nonce
  <2>2. Crypto_check_aggregate_cp_proof(
            aggregate_cp_proof(aggregate_nonce, E(Key), u, c),
            Encryption(E(Nonce), E(message)), my_C, E(Key), K)
          <=> my_C = c /\ (message = AddModQ(MulModQ(Key, Nonce), K) \/ c = 0)
    BY <1>3, <1>6, <1>7, <1>10, <2>1, AggregateProof
  <2> QED
    BY <1>3, <1>5, <1>6, <2>2 DEF message
<1>12. ~unfilled' => \A my_C \in Challenges(base_hash, transcript) : my_C = c
  <2>1. unfilled' = (\E k \in DOMAIN transcript : transcript[k] \in Short)
    BY <1>1 DEF transcript
  <2>2. c \in Challenges(base_hash, transcript)
    BY <1>5, <1>8 DEF transcript
  <2> QED
    BY <2>1, <2>2 DEF Challenges
<1>13. Writable /\ ~unfilled' => status' = "SUCCESS"
  <2>1. PICK my_C \in Challenges(base_hash, transcript) :
          status' = CASE ~Writable -> "SERIALIZE_ERROR"
                      [] Writable /\ ~Crypto_check_aggregate_cp_proof(
                           proof, tally, my_C, joint_key, l) -> "UNKNOWN_ERROR"
                      [] OTHER -> status
    BY <1>1, Zenon DEF transcript
  <2> QED
    BY <1>3, <1>11, <1>12, <2>1
<1>14. Key' = Key /\ Nonce' = Nonce /\ Writable' = Writable
       /\ SelectedUpTo(Len(encrypted))' = SelectedUpTo(Len(encrypted))
  BY <1>2 DEF Key, Nonce, Writable, SelectedUpTo
<1> QED
  BY <1>2, <1>13, <1>14
     DEF EncrypterInv, EncrypterTypeInv, SumsInv, VerdictInv, HonestBallotVerifies

LEMMA EncrypterStep == EncrypterInv /\ [EncrypterNext]_encrypterVars => EncrypterInv'
<1> SUFFICES ASSUME EncrypterInv, [EncrypterNext]_encrypterVars PROVE EncrypterInv'
  OBVIOUS
<1>1. CASE RefuseBallot
  <2>1. /\ ~Validate_selections /\ stage' \in {"returned", "crashed"}
        /\ UNCHANGED <<ballot, joint_key, base_hash, encrypted, tally, aggregate_nonce>>
    BY <1>1 DEF RefuseBallot
  <2>2. /\ Key' = Key /\ Nonce' = Nonce /\ Validate_selections' = Validate_selections
        /\ SelectedUpTo(Len(encrypted))' = SelectedUpTo(Len(encrypted))
    BY <2>1 DEF Key, Nonce, SelectedUpTo, Validate_selections, NumSelected
  <2> QED
    BY <2>1, <2>2
       DEF EncrypterInv, EncrypterTypeInv, SumsInv, VerdictInv, HonestBallotVerifies
<1>2. CASE AcceptBallot
  <2>1. /\ stage = "called" /\ Validate_selections /\ stage' = "encrypting"
        /\ UNCHANGED <<ballot, joint_key, base_hash, encrypted, tally, aggregate_nonce, status>>
    BY <1>2 DEF AcceptBallot
  <2>2. /\ Key' = Key /\ Nonce' = Nonce /\ Validate_selections' = Validate_selections
        /\ SelectedUpTo(Len(encrypted))' = SelectedUpTo(Len(encrypted))
    BY <2>1 DEF Key, Nonce, SelectedUpTo, Validate_selections, NumSelected
  <2> QED
    BY <2>1, <2>2
       DEF EncrypterInv, EncrypterTypeInv, SumsInv, VerdictInv, HonestBallotVerifies
<1>3. CASE EncryptSelection
  BY <1>3, SelectionEncrypted
<1>4. CASE FinishBallot
  BY <1>4, BallotFinished
<1>5. CASE UNCHANGED encrypterVars
  BY <1>5 DEF encrypterVars, EncrypterInv, EncrypterTypeInv, SumsInv, VerdictInv,
              HonestBallotVerifies, Key, Nonce, SelectedUpTo, Validate_selections,
              NumSelected, Writable
<1> QED
  BY <1>1, <1>2, <1>3, <1>4, <1>5 DEF EncrypterNext

LEMMA EncrypterKeeps == EncrypterSpec => []EncrypterInv
BY EncrypterStarts, EncrypterStep, PTL DEF EncrypterSpec

\* Voting_Encrypter_encrypt_ballot (encrypter.c:248-346): whatever is drawn, the
\* ballot that a voter filled in as expected is never rejected by a check of its own
\* proofs, unless a number is too short to be written or hashed.
THEOREM HonestBallotsVerify == EncrypterSpec => []HonestBallotVerifies
<1>1. EncrypterInv => HonestBallotVerifies
  BY DEF EncrypterInv, VerdictInv
<1> QED
  BY EncrypterKeeps, <1>1, PTL

\* Crypto_check_dis_proof (crypto.c:810): for every message in the encryption, draw
\* and challenge, the proof of a selection passes just for what the encryption
\* holds, unless the true half was left no challenge.
THEOREM SelectionProofsBind == EncrypterSpec => []SelectionProofBindsMessage
<1>1. EncrypterInv => SelectionProofBindsMessage
  <2> SUFFICES ASSUME EncrypterInv, Len(encrypted) = 1,
                      NEW selected \in BOOLEAN, NEW more \in Exponent,
                      NEW challenge \in Exponent, NEW d \in Draws
               PROVE  LET holds == (more + IF ballot.selections[1] THEN 1 ELSE 0) % Q
                          encryption == Crypto_encryption_homomorphic_add(
                                          encrypted[1], Encryption(1, pow_mod_p(Generator, more)))
                      IN  Crypto_check_dis_proof(
                              dis_proof(encryption, selected, joint_key, aggregate_nonce, d,
                                        challenge),
                              encryption, joint_key)
                            <=> \/ holds = (IF selected THEN 1 ELSE 0)
                                \/ SubModQ(challenge, d.fake_challenge) = 0
    BY DEF SelectionProofBindsMessage
  <2> DEFINE s == IF ballot.selections[1] THEN 1 ELSE 0
             holds == (more + s) % Q
             key == MulModQ(Key, Nonce)
  <2>1. /\ ballot.selections \in [Selection -> BOOLEAN]
        /\ Key \in Exponent /\ joint_key = E(Key) /\ aggregate_nonce \in Number
        /\ encrypted[1] = Encryption(E(Nonce), E(AddModQ(key, SelectedUpTo(1))))
    BY DEF EncrypterInv, EncrypterTypeInv, SumsInv
  <2>2. SelectedUpTo(1) = s /\ s \in Exponent
    <3>1. 1 \in 1 .. NumSelections /\ 1 - 1 = 0
      BY EncrypterAssumption
    <3>2. SelectedUpTo(1) = SelectedUpTo(0) + s /\ SelectedUpTo(0) = 0
      BY <2>1, <3>1, SelectionsCounted
    <3> QED
      BY <3>2, SmallExponents
  <2>3. Nonce \in Exponent /\ Nonce = aggregate_nonce % Q
    BY <2>1, NumbersAreExponents DEF Nonce
  <2>4. key \in Exponent
    BY <2>1, <2>3, OperationsClosed
  <2>5. holds = AddModQ(s, more) /\ holds \in Exponent
    <3>1. AddModQ(s, more) = AddModQ(more, s) /\ AddModQ(more, s) \in Exponent
      BY <2>2, AdditionLaws, OperationsClosed
    <3> QED
      BY <3>1 DEF AddModQ
  <2> HIDE DEF s, holds
  <2> DEFINE m == AddModQ(key, holds)
  <2>6. Crypto_encryption_homomorphic_add(
            encrypted[1], Encryption(1, pow_mod_p(Generator, more)))
          = Encryption(E(Nonce), E(m))
    <3>1. Encryption(1, pow_mod_p(Generator, more))
            = Encryption(E(0), E(AddModQ(MulModQ(Key, 0), more)))
      <4>1. MulModQ(Key, 0) = 0 /\ AddModQ(0, more) = AddModQ(more, 0) /\ AddModQ(more, 0) = more
        BY <2>1, SmallExponents, MultiplicationLaws, AdditionLaws
      <4> QED
        BY <4>1, GeneratorPowers DEF E
    <3>2. Crypto_encryption_homomorphic_add(
              Encryption(E(Nonce), E(AddModQ(key, s))),
              Encryption(E(0), E(AddModQ(MulModQ(Key, 0), more))))
            = Encryption(E(AddModQ(Nonce, 0)),
                         E(AddModQ(MulModQ(Key, AddModQ(Nonce, 0)), AddModQ(s, more))))
      BY <2>1, <2>2, <2>3, SmallExponents, EncryptionsAdd
    <3>3. AddModQ(Nonce, 0) = Nonce
      BY <2>3, SmallExponents, AdditionLaws
    <3> QED
      BY <2>1, <2>2, <2>5, <3>1, <3>2, <3>3
  <2>7. m \in Exponent
    BY <2>4, <2>5, OperationsClosed
  <2>8. PICK v \in Exponent : v = IF selected THEN 1 ELSE 0
    BY SmallExponents
  <2>9. m = AddModQ(key, v) <=> holds = v
    <3> HIDE DEF key
    <3> QED
      BY <2>4, <2>5, <2>8, SameAdded
  <2> HIDE DEF m
  <2>10. Crypto_check_dis_proof(
             dis_proof(Encryption(E(Nonce), E(m)), selected, E(Key), aggregate_nonce, d, challenge),
             Encryption(E(Nonce), E(m)), E(Key))
           <=> m = AddModQ(key, v) \/ SubModQ(challenge, d.fake_challenge) = 0
    <3>1. Key \in Exponent /\ aggregate_nonce \in Number
          /\ Nonce \in Exponent /\ aggregate_nonce % Q = Nonce /\ v = IF selected THEN 1 ELSE 0
      BY <2>1, <2>3, <2>8
    <3> QED
      BY <2>7, <3>1, SelectionProof
  <2> QED
    BY <2>1, <2>6, <2>8, <2>9, <2>10 DEF holds, s
<1> QED
  BY EncrypterKeeps, <1>1, PTL

\* What the encrypter is left with when it has gone over all selections.
LEMMA TallyOfAll ==
  ASSUME EncrypterInv, Len(encrypted) = NumSelections
  PROVE  /\ Key \in Exponent /\ Nonce \in Exponent /\ NumSelected \in Exponent
         /\ MulModQ(Key, Nonce) \in Exponent
         /\ joint_key = E(Key) /\ aggregate_nonce \in Number /\ Nonce = aggregate_nonce % Q
         /\ tally = Encryption(E(Nonce), E(AddModQ(MulModQ(Key, Nonce), NumSelected)))
<1>1. /\ ballot.selections \in [Selection -> BOOLEAN]
      /\ Key \in Exponent /\ joint_key = E(Key) /\ aggregate_nonce \in Number
      /\ tally = Encryption(E(Nonce), E(AddModQ(MulModQ(Key, Nonce), SelectedUpTo(NumSelections))))
  BY DEF EncrypterInv, EncrypterTypeInv, SumsInv
<1>2. NumSelected = SelectedUpTo(NumSelections) /\ NumSelected \in Exponent
  <2>1. NumSelections \in 0 .. NumSelections
    BY EncrypterAssumption
  <2> QED
    BY <1>1, <2>1, SelectionsCounted
<1>3. Nonce \in Exponent /\ Nonce = aggregate_nonce % Q
  BY <1>1, NumbersAreExponents DEF Nonce
<1> QED
  BY <1>1, <1>2, <1>3, OperationsClosed

\* Crypto_check_aggregate_cp_proof (crypto.c:594): the sums over any ballot prove
\* the number of its selections, and no other number.
THEOREM BallotProofsBind == EncrypterSpec => []BallotProofBindsCount
<1>1. EncrypterInv => BallotProofBindsCount
  <2> SUFFICES ASSUME EncrypterInv, Len(encrypted) = NumSelections,
                      NEW u \in uniform_bignum_o_q, NEW challenge \in Exponent, NEW l \in Exponent
               PROVE  Crypto_check_aggregate_cp_proof(
                          aggregate_cp_proof(aggregate_nonce, joint_key, u, challenge),
                          tally, challenge, joint_key, l)
                        <=> l = NumSelected \/ challenge = 0
    BY DEF BallotProofBindsCount
  <2> DEFINE key == MulModQ(Key, Nonce)
             m == AddModQ(key, NumSelected)
  <2>1. /\ Key \in Exponent /\ Nonce \in Exponent /\ NumSelected \in Exponent
        /\ key \in Exponent
        /\ joint_key = E(Key) /\ aggregate_nonce \in Number /\ Nonce = aggregate_nonce % Q
        /\ tally = Encryption(E(Nonce), E(m))
    BY TallyOfAll
  <2>2. m \in Exponent
    BY <2>1, OperationsClosed
  <2>3. m = AddModQ(key, l) <=> l = NumSelected
    <3>1. key \in Exponent /\ NumSelected \in Exponent
      BY <2>1
    <3> HIDE DEF key
    <3> QED
      BY <3>1, SameAdded
  <2> HIDE DEF m
  <2>4. Crypto_check_aggregate_cp_proof(
            aggregate_cp_proof(aggregate_nonce, E(Key), u, challenge),
            Encryption(E(Nonce), E(m)), challenge, E(Key), l)
          <=> challenge = challenge /\ (m = AddModQ(key, l) \/ challenge = 0)
    BY <2>1, <2>2, AggregateProof
  <2> QED
    BY <2>1, <2>3, <2>4
<1> QED
  BY EncrypterKeeps, <1>1, PTL

\* Crypto_check_decryption_cp_proof (crypto.c:558): what a trustee says it made of
\* the tally passes if its key makes it, and nothing else does.
THEOREM DecryptionProofsBind == EncrypterSpec => []DecryptionProofBindsShare
<1>1. EncrypterInv => DecryptionProofBindsShare
  <2> SUFFICES ASSUME EncrypterInv,
                      NEW u \in uniform_bignum_o_q, NEW challenge \in Exponent,
                      NEW secret \in Exponent, NEW x \in Exponent
               PROVE  Crypto_check_decryption_cp_proof(
                          decryption_cp_proof(secret, tally, u, challenge),
                          pow_mod_p(Generator, secret), pow_mod_p(Generator, x), tally)
                        <=> pow_mod_p(Generator, x) = PartialDecryption(secret, tally)
                            \/ challenge = 0
    BY DEF DecryptionProofBindsShare
  <2>1. aggregate_nonce \in Number /\ tally.nonce_encoding = E(Nonce)
    BY DEF EncrypterInv, EncrypterTypeInv, SumsInv, Encryption
  <2>2. Nonce \in Exponent
    BY <2>1, NumbersAreExponents DEF Nonce
  <2>3. Crypto_check_decryption_cp_proof(
            decryption_cp_proof(secret, tally, u, challenge), E(secret), E(x), tally)
          <=> E(x) = PartialDecryption(secret, tally) \/ challenge = 0
    BY <2>1, <2>2, DecryptionProof
  <2> QED
    BY <2>3 DEF E
<1> QED
  BY EncrypterKeeps, <1>1, PTL

\* README.rst of include/electionguard: however the secret of the joint key is
\* shared out, any quorum's partial decryptions of any ballot's tally leave exactly
\* the number of its selections.
THEOREM AnyQuorumCounts == EncrypterSpec => []AnyQuorumCountsSelections
<1>1. EncrypterInv => AnyQuorumCountsSelections
  <2> SUFFICES ASSUME EncrypterInv, Len(encrypted) = NumSelections,
                      NEW others \in [Degree \ {0} -> Exponent],
                      NEW quorum \in SUBSET Trustee, Cardinality(quorum) >= Threshold
               PROVE  LET coefs == [e \in Degree |-> IF e = 0 THEN Key ELSE others[e]]
                          decryption ==
                            ProductModP([l \in quorum |->
                              pow_mod_p(PartialDecryption(computeTrusteePolynomial(coefs, l), tally),
                                        LagrangeCoefficient(l, quorum))])
                      IN  log_generator_mod_p(div_mod_p(tally.message_encoding, decryption))
                            = NumSelected
    BY DEF AnyQuorumCountsSelections, Key
  <2> DEFINE coefs == [e \in Degree |-> IF e = 0 THEN Key ELSE others[e]]
             share == [l \in quorum |-> MulModQ(LagrangeCoefficient(l, quorum),
                                                computeTrusteePolynomial(coefs, l))]
             part == [l \in quorum |-> MulModQ(Nonce, share[l])]
             weighted == [l \in quorum |->
               pow_mod_p(PartialDecryption(computeTrusteePolynomial(coefs, l), tally),
                         LagrangeCoefficient(l, quorum))]
             key == MulModQ(Key, Nonce)
  <2>1. /\ Key \in Exponent /\ Nonce \in Exponent /\ NumSelected \in Exponent
        /\ key \in Exponent
        /\ tally = Encryption(E(Nonce), E(AddModQ(key, NumSelected)))
    BY TallyOfAll
  <2>2. coefs \in [Degree -> Exponent] /\ coefs[0] = Key
    BY <2>1, ThresholdAssumption DEF Degree
  <2>3. tally.nonce_encoding = E(Nonce) /\ tally.message_encoding = E(AddModQ(key, NumSelected))
    BY <2>1 DEF Encryption
  <2>4. IsFiniteSet(quorum)
    BY TrusteeSetsFinite
  <2>5. ASSUME NEW l \in quorum
        PROVE  /\ share[l] \in Exponent /\ part[l] \in Exponent
               /\ weighted[l] = E(part[l])
    <3> DEFINE w == LagrangeCoefficient(l, quorum)
               p == computeTrusteePolynomial(coefs, l)
    <3> HIDE DEF coefs
    <3>1. w \in Exponent /\ p \in Exponent
      BY <2>2, WeightLaw, SharesAreExponents
    <3>2. share[l] = MulModQ(w, p) /\ part[l] = MulModQ(Nonce, MulModQ(w, p))
      OBVIOUS
    <3>3. weighted[l] = pow_mod_p(PartialDecryption(p, tally), w)
      OBVIOUS
    <3> HIDE DEF w, p, share, part, weighted
    <3>4. MulModQ(w, p) \in Exponent /\ MulModQ(Nonce, p) \in Exponent
      BY <2>1, <3>1, OperationsClosed
    <3>5. PartialDecryption(p, tally) = E(MulModQ(Nonce, p))
      BY <2>1, <2>3, <3>1, ExponentPowers DEF PartialDecryption
    <3>6. weighted[l] = E(MulModQ(MulModQ(Nonce, p), w))
      BY <3>1, <3>3, <3>4, <3>5, ExponentPowers
    <3>7. MulModQ(MulModQ(Nonce, p), w) = MulModQ(Nonce, MulModQ(w, p))
      <4>1. MulModQ(Nonce, MulModQ(p, w)) = MulModQ(MulModQ(Nonce, p), w)
        BY <2>1, <3>1, MultiplicationLaws
      <4>2. MulModQ(p, w) = MulModQ(w, p)
        BY <3>1, MultiplicationLaws
      <4> QED
        BY <4>1, <4>2
    <3>8. part[l] \in Exponent
      BY <2>1, <3>2, <3>4, OperationsClosed
    <3> QED
      BY <3>2, <3>4, <3>6, <3>7, <3>8
  <2>6. SumModQ(share) = Key
    <3> HIDE DEF coefs
    <3> QED
      BY <2>2, WeightedSharesAddUp
  <2>7. SumModQ(share) = Sums!Fold(share, quorum)
    BY SumIsFold
  <2>8. \A l \in quorum : part[l] = MulModQ(Nonce, share[l])
    OBVIOUS
  <2>9. ProductModP(weighted) = Powers!Fold(weighted, quorum)
    BY ProductIsFoldOfPowers
  <2> HIDE DEF share, part, weighted, coefs
  <2>10. Sums!Fold(part, quorum) = MulModQ(Nonce, Key)
    BY <2>1, <2>4, <2>5, <2>6, <2>7, <2>8, SumScaled
  <2>11. ProductModP(weighted) = E(MulModQ(Nonce, Key))
    BY <2>4, <2>5, <2>9, <2>10, ProductOfPowers
  <2>12. MulModQ(Nonce, Key) = key
    BY <2>1, MultiplicationLaws
  <2> HIDE DEF key
  <2>13. AddModQ(key, NumSelected) \in Exponent /\ SubModQ(AddModQ(key, NumSelected), key) = NumSelected
    <3>1. AddModQ(key, NumSelected) \in Exponent
          /\ AddModQ(NumSelected, key) = AddModQ(key, NumSelected)
      BY <2>1, OperationsClosed, AdditionLaws
    <3>2. NumSelected = SubModQ(AddModQ(key, NumSelected), key)
      BY <2>1, <3>1, AdditionCancels
    <3> QED
      BY <3>1, <3>2
  <2>14. div_mod_p(tally.message_encoding, ProductModP(weighted)) = E(NumSelected)
    BY <2>1, <2>3, <2>11, <2>12, <2>13, PowersDivide
  <2>15. log_generator_mod_p(div_mod_p(tally.message_encoding, ProductModP(weighted)))
           = NumSelected
    BY <2>1, <2>14, LogarithmOfPower
  <2> QED
    BY <2>15 DEF weighted, coefs
<1> QED
  BY EncrypterKeeps, <1>1, PTL

------------------------------------------------------------------------------
(* Trackers.                                                               *)

IsFlat(flat, seqs, n) ==
  flat = [i \in 1 .. n |-> IF i = 1 THEN seqs[i] ELSE flat[i - 1] \o seqs[i]]

\* What FlattenSeq puts together one sequence after the other.
LEMMA FlattenGoes ==
  ASSUME NEW S, NEW seqs \in Seq(Seq(S)), Len(seqs) > 0
  PROVE  \E flat : /\ FlattenSeq(seqs) = flat[Len(seqs)]
                   /\ flat[1] = seqs[1]
                   /\ \A i \in 2 .. Len(seqs) : flat[i] = flat[i - 1] \o seqs[i]
<1> DEFINE n == Len(seqs)
           flat == CHOOSE f : IsFlat(f, seqs, n)
           Good == {k \in Nat : \E f : IsFlat(f, seqs, k)}
<1>1. 0 \in Good
  <2> DEFINE f == [i \in 1 .. 0 |-> seqs]
  <2>1. IsFlat(f, seqs, 0)
    BY DEF IsFlat
  <2> QED
    BY <2>1
<1>2. ASSUME NEW k \in Nat, k \in Good PROVE k + 1 \in Good
  <2>1. PICK g : IsFlat(g, seqs, k)
    BY <1>2
  <2> DEFINE f == [i \in 1 .. k + 1 |-> IF i = 1 THEN seqs[i] ELSE g[i - 1] \o seqs[i]]
  <2>2. ASSUME NEW i \in 1 .. k PROVE f[i] = g[i]
    <3>1. g[i] = IF i = 1 THEN seqs[i] ELSE g[i - 1] \o seqs[i]
      BY <2>1 DEF IsFlat
    <3>2. i \in 1 .. k + 1
      OBVIOUS
    <3> QED
      BY <3>1, <3>2
  <2>3. ASSUME NEW i \in 1 .. k + 1
        PROVE  f[i] = IF i = 1 THEN seqs[i] ELSE f[i - 1] \o seqs[i]
    <3>1. CASE i = 1
      BY <3>1
    <3>2. CASE i # 1
      <4>1. i - 1 \in 1 .. k
        BY <3>2
      <4>2. f[i - 1] = g[i - 1]
        BY <4>1, <2>2
      <4> QED
        BY <4>2, <3>2
    <3> QED
      BY <3>1, <3>2
  <2>4. f = [i \in 1 .. k + 1 |-> f[i]]
    OBVIOUS
  <2> HIDE DEF f
  <2>5. IsFlat(f, seqs, k + 1)
    BY <2>3, <2>4 DEF IsFlat
  <2> QED
    BY <2>5
<1> HIDE DEF Good
<1>3. n \in Nat /\ n > 0
  OBVIOUS
<1> HIDE DEF n
<1>6. Nat \subseteq Good
  BY <1>1, <1>2, Table!NumbersInduce
<1>7. \E f : IsFlat(f, seqs, n)
  BY <1>3, <1>6 DEF Good
<1>4. IsFlat(flat, seqs, n)
  BY <1>7
<1>5. FlattenSeq(seqs) = flat[n]
  BY <1>3 DEF FlattenSeq, IsFlat, n
<1> HIDE DEF flat
<1>9. \A i \in 1 .. n : flat[i] = IF i = 1 THEN seqs[i] ELSE flat[i - 1] \o seqs[i]
  BY <1>4 DEF IsFlat
<1>10. 1 \in 1 .. n /\ \A i \in 2 .. n : i \in 1 .. n /\ i # 1
  BY <1>3
<1>8. flat[1] = seqs[1] /\ \A i \in 2 .. n : flat[i] = flat[i - 1] \o seqs[i]
  BY <1>9, <1>10
<1> QED
  BY <1>5, <1>8 DEF n

\* Sequences of eight, put together, keep their places.
LEMMA FlattenPlaces ==
  ASSUME NEW S, NEW seqs \in Seq(Seq(S)), Len(seqs) > 0,
         \A k \in 1 .. Len(seqs) : Len(seqs[k]) = 8
  PROVE  /\ FlattenSeq(seqs) \in Seq(S)
         /\ Len(FlattenSeq(seqs)) = 8 * Len(seqs)
         /\ \A k \in 1 .. Len(seqs), j \in 1 .. 8 :
              FlattenSeq(seqs)[8 * (k - 1) + j] = seqs[k][j]
<1> DEFINE n == Len(seqs)
<1>1. PICK flat : /\ FlattenSeq(seqs) = flat[Len(seqs)]
                  /\ flat[1] = seqs[1]
                  /\ \A i \in 2 .. Len(seqs) : flat[i] = flat[i - 1] \o seqs[i]
  BY FlattenGoes
<1> DEFINE Kept(i) == /\ flat[i] \in Seq(S) /\ Len(flat[i]) = 8 * i
                      /\ \A k \in 1 .. i, j \in 1 .. 8 : flat[i][8 * (k - 1) + j] = seqs[k][j]
           Good == {i \in Nat : i \in 1 .. n => Kept(i)}
<1>2. 0 \in Good
  OBVIOUS
<1>3. ASSUME NEW i \in Nat, i \in Good PROVE i + 1 \in Good
  <2> HIDE DEF Kept
  <2> SUFFICES ASSUME i + 1 \in 1 .. n PROVE Kept(i + 1)
    OBVIOUS
  <2> USE DEF Kept
  <2>1. seqs[i + 1] \in Seq(S) /\ Len(seqs[i + 1]) = 8
    OBVIOUS
  <2>2. CASE i = 0
    BY <1>1, <2>1, <2>2
  <2>3. CASE i # 0
    <3> DEFINE front == flat[i]
               last == seqs[i + 1]
    <3>1. front \in Seq(S) /\ Len(front) = 8 * i
          /\ \A k \in 1 .. i, j \in 1 .. 8 : front[8 * (k - 1) + j] = seqs[k][j]
      BY <1>3, <2>3
    <3>2. i + 1 \in 2 .. Len(seqs) /\ (i + 1) - 1 = i
      BY <2>3
    <3>3. flat[i + 1] = front \o last
      BY <1>1, <3>2
    <3>4. last \in Seq(S) /\ Len(last) = 8
      BY <2>1
    <3>5. \A k \in 1 .. i, j \in 1 .. 8 : 8 * (k - 1) + j \in 1 .. 8 * i
      OBVIOUS
    <3>6. \A j \in 1 .. 8 : 8 * ((i + 1) - 1) + j = Len(front) + j
      BY <3>1
    <3> HIDE DEF front, last
    <3>9. Len(front) \in Nat /\ Len(last) \in Nat
      OBVIOUS
    <3>10. front \in Seq(S) /\ last \in Seq(S)
      BY <3>1, <3>4
    <3>11. /\ front \o last \in Seq(S) /\ Len(front \o last) = Len(front) + Len(last)
           /\ \A q \in 1 .. Len(front) + Len(last) :
                (front \o last)[q] = IF q <= Len(front) THEN front[q] ELSE last[q - Len(front)]
      BY <3>10
    <3>7. /\ front \o last \in Seq(S) /\ Len(front \o last) = 8 * (i + 1)
          /\ \A q \in 1 .. 8 * i : (front \o last)[q] = front[q]
          /\ \A j \in 1 .. 8 : (front \o last)[Len(front) + j] = last[j]
      <4>1. Len(front) = 8 * i /\ Len(last) = 8 /\ 8 * i \in Nat /\ 8 * (i + 1) = 8 * i + 8
        BY <3>1, <3>4
      <4>2. ASSUME NEW q \in 1 .. 8 * i PROVE (front \o last)[q] = front[q]
        <5>1. q \in 1 .. Len(front) + Len(last) /\ q <= Len(front)
          BY <4>1
        <5> QED
          BY <3>11, <5>1
      <4>3. ASSUME NEW j \in 1 .. 8 PROVE (front \o last)[Len(front) + j] = last[j]
        <5>1. /\ Len(front) + j \in 1 .. Len(front) + Len(last)
              /\ ~(Len(front) + j <= Len(front)) /\ (Len(front) + j) - Len(front) = j
          BY <4>1
        <5> QED
          BY <3>11, <5>1
      <4> QED
        BY <3>11, <4>1, <4>2, <4>3
    <3>8. ASSUME NEW k \in 1 .. i + 1, NEW j \in 1 .. 8
          PROVE  (front \o last)[8 * (k - 1) + j] = seqs[k][j]
      <4>1. CASE k \in 1 .. i
        <5>1. 8 * (k - 1) + j \in 1 .. 8 * i
          BY <3>5, <4>1, Zenon
        <5>2. (front \o last)[8 * (k - 1) + j] = front[8 * (k - 1) + j]
          BY <3>7, <5>1
        <5>3. front[8 * (k - 1) + j] = seqs[k][j]
          BY <3>1, <4>1
        <5> QED
          BY <5>2, <5>3
      <4>2. CASE k = i + 1
        <5>1. 8 * (k - 1) + j = Len(front) + j
          BY <3>6, <4>2
        <5>2. (front \o last)[Len(front) + j] = last[j]
          BY <3>7
        <5>3. last = seqs[k]
          BY <4>2 DEF last
        <5> QED
          BY <5>1, <5>2, <5>3
      <4>3. k \in 1 .. i \/ k = i + 1
        OBVIOUS
      <4> QED
        BY <4>1, <4>2, <4>3, Zenon
    <3>12. flat[i + 1] \in Seq(S) /\ Len(flat[i + 1]) = 8 * (i + 1)
      BY <3>3, <3>7
    <3>13. \A k \in 1 .. i + 1, j \in 1 .. 8 : flat[i + 1][8 * (k - 1) + j] = seqs[k][j]
      BY <3>3, <3>8
    <3> QED
      BY <3>12, <3>13
  <2> HIDE DEF Kept
  <2> QED
    BY <2>2, <2>3
<1> HIDE DEF Good
<1>4. Nat \subseteq Good
  BY <1>2, <1>3, Table!NumbersInduce
<1>6. n \in Nat /\ n \in 1 .. n
  OBVIOUS
<1>5. Kept(n)
  BY <1>4, <1>6 DEF Good
<1> QED
  BY <1>1, <1>5

\* What is shown: nouns, by index, spaces and digits.
Symbol == Nat \cup {" "} \cup {chars[i] : i \in 1 .. 16}

LEMMA CharsDiffer ==
  ASSUME NEW i \in 1 .. 16, NEW j \in 1 .. 16, chars[i] = chars[j]
  PROVE  i = j
BY DEF chars

\* A byte is its halves, and a number is told by its multiple of HalfByte and rest.
LEMMA Halves ==
  ASSUME NEW b \in Byte
  PROVE  /\ upper(b) \in 0 .. HalfByte - 1 /\ lower(b) \in 0 .. HalfByte - 1
         /\ b = HalfByte * upper(b) + lower(b) /\ b \in Nat
         /\ upper(b) + 1 \in 1 .. 16 /\ lower(b) + 1 \in 1 .. 16
         /\ upper(b) \in Nat /\ lower(b) \in Nat
<1>1. /\ upper(b) \in 0 .. HalfByte - 1 /\ lower(b) \in 0 .. HalfByte - 1
      /\ b = HalfByte * upper(b) + lower(b) /\ b \in Nat
  BY TrackerAssumption DEF Byte, upper, lower
<1>2. HalfByte \in Nat /\ HalfByte <= 16
  BY TrackerAssumption
<1>3. ASSUME NEW h \in 0 .. HalfByte - 1 PROVE h \in Nat /\ h + 1 \in 1 .. 16
  BY <1>2
<1> QED
  BY <1>1, <1>3

LEMMA SameParts ==
  ASSUME NEW a \in Nat, NEW b \in Nat, NEW u \in 0 .. HalfByte - 1, NEW v \in 0 .. HalfByte - 1,
         a * HalfByte + u = b * HalfByte + v
  PROVE  a = b /\ u = v
BY TrackerAssumption

\* Four bytes are shown as eight symbols, the first seven of which tell them.
LEMMA ChunkShown ==
  ASSUME NEW c \in [1 .. 4 -> Byte]
  PROVE  display_chunk(c) \in Seq(Symbol) /\ Len(display_chunk(c)) = 8
<1>1. \A k \in 1 .. 4 : /\ c[k] \in Nat /\ lower(c[k]) + 1 \in 1 .. 16
                        /\ upper(c[k]) \in Nat /\ upper(c[k]) + 1 \in 1 .. 16
  BY Halves
<1>4. display_noun(c[1], c[2]) \in Nat
  <2>1. c[1] \in Nat /\ upper(c[2]) \in Nat /\ HalfByte \in Nat
    BY <1>1, TrackerAssumption
  <2> QED
    BY <2>1 DEF display_noun
<1>2. display_noun(c[1], c[2]) \in Symbol
  BY <1>4 DEF Symbol
<1>3. " " \in Symbol /\ \A i \in 1 .. 16 : chars[i] \in Symbol
  BY DEF Symbol
<1> HIDE DEF Symbol
<1>5. ASSUME NEW a \in Symbol, NEW b \in Symbol, NEW d \in Symbol, NEW e \in Symbol,
             NEW f \in Symbol, NEW g \in Symbol, NEW h \in Symbol
      PROVE  <<a, b, d, e, f, g, h, b>> \in Seq(Symbol) /\ Len(<<a, b, d, e, f, g, h, b>>) = 8
  OBVIOUS
<1>6. /\ chars[lower(c[2]) + 1] \in Symbol
      /\ chars[upper(c[3]) + 1] \in Symbol /\ chars[lower(c[3]) + 1] \in Symbol
      /\ chars[upper(c[4]) + 1] \in Symbol /\ chars[lower(c[4]) + 1] \in Symbol
  <2>1. /\ lower(c[2]) + 1 \in 1 .. 16
        /\ upper(c[3]) + 1 \in 1 .. 16 /\ lower(c[3]) + 1 \in 1 .. 16
        /\ upper(c[4]) + 1 \in 1 .. 16 /\ lower(c[4]) + 1 \in 1 .. 16
    BY <1>1
  <2> QED
    BY <1>3, <2>1
<1>7. display_chunk(c) = <<display_noun(c[1], c[2]), " ", chars[lower(c[2]) + 1],
                           chars[upper(c[3]) + 1], chars[lower(c[3]) + 1],
                           chars[upper(c[4]) + 1], chars[lower(c[4]) + 1], " ">>
  BY DEF display_chunk
<1> DEFINE n == display_noun(c[1], c[2])
           s == " "
           t == chars[lower(c[2]) + 1]
           u == chars[upper(c[3]) + 1]
           v == chars[lower(c[3]) + 1]
           w == chars[upper(c[4]) + 1]
           x == chars[lower(c[4]) + 1]
<1>8. /\ n \in Symbol /\ s \in Symbol /\ t \in Symbol /\ u \in Symbol
      /\ v \in Symbol /\ w \in Symbol /\ x \in Symbol
  BY <1>2, <1>3, <1>6
<1>9. display_chunk(c) = <<n, s, t, u, v, w, x, s>>
  BY <1>7
<1> HIDE DEF n, s, t, u, v, w, x
<1> QED
  BY <1>5, <1>8, <1>9

LEMMA ChunkTold ==
  ASSUME NEW c \in [1 .. 4 -> Byte], NEW d \in [1 .. 4 -> Byte],
         \A j \in 1 .. 7 : display_chunk(c)[j] = display_chunk(d)[j]
  PROVE  c = d
<1>1. \A k \in 1 .. 4 :
        /\ c[k] \in Byte /\ d[k] \in Byte
        /\ lower(c[k]) \in 0 .. HalfByte - 1 /\ lower(d[k]) \in 0 .. HalfByte - 1
        /\ upper(c[k]) \in 0 .. HalfByte - 1 /\ upper(d[k]) \in 0 .. HalfByte - 1
        /\ c[k] = HalfByte * upper(c[k]) + lower(c[k])
        /\ d[k] = HalfByte * upper(d[k]) + lower(d[k])
  BY Halves
<1>2. \A k \in 1 .. 4 :
        /\ lower(c[k]) + 1 \in 1 .. 16 /\ lower(d[k]) + 1 \in 1 .. 16
        /\ upper(c[k]) + 1 \in 1 .. 16 /\ upper(d[k]) + 1 \in 1 .. 16
  BY Halves
<1>3. /\ display_noun(c[1], c[2]) = display_noun(d[1], d[2])
      /\ chars[lower(c[2]) + 1] = chars[lower(d[2]) + 1]
      /\ \A k \in 3 .. 4 : /\ chars[upper(c[k]) + 1] = chars[upper(d[k]) + 1]
                           /\ chars[lower(c[k]) + 1] = chars[lower(d[k]) + 1]
  BY DEF display_chunk
<1>4. ASSUME NEW k \in 2 .. 4 PROVE lower(c[k]) = lower(d[k])
  <2>1. k \in 1 .. 4 /\ chars[lower(c[k]) + 1] = chars[lower(d[k]) + 1]
    BY <1>3
  <2>2. lower(c[k]) + 1 = lower(d[k]) + 1
    BY <1>2, <2>1, CharsDiffer
  <2>3. lower(c[k]) \in Nat /\ lower(d[k]) \in Nat
    BY <2>1, Halves
  <2> QED
    BY <2>2, <2>3
<1>5. ASSUME NEW k \in 3 .. 4 PROVE upper(c[k]) = upper(d[k])
  <2>1. k \in 1 .. 4 /\ chars[upper(c[k]) + 1] = chars[upper(d[k]) + 1]
    BY <1>3
  <2>2. upper(c[k]) + 1 = upper(d[k]) + 1
    BY <1>2, <2>1, CharsDiffer
  <2>3. upper(c[k]) \in Nat /\ upper(d[k]) \in Nat
    BY <2>1, Halves
  <2> QED
    BY <2>2, <2>3
<1>6. c[1] = d[1] /\ upper(c[2]) = upper(d[2])
  <2>1. /\ c[1] \in Nat /\ d[1] \in Nat
        /\ upper(c[2]) \in 0 .. HalfByte - 1 /\ upper(d[2]) \in 0 .. HalfByte - 1
    BY Halves
  <2>2. c[1] * HalfByte + upper(c[2]) = d[1] * HalfByte + upper(d[2])
    BY <1>3 DEF display_noun
  <2> QED
    BY <2>1, <2>2, SameParts
<1>7. \A k \in 1 .. 4 : c[k] = d[k]
  BY <1>1, <1>4, <1>5, <1>6
<1> QED
  BY <1>7

LEMMA ChunksOfBytes ==
  ASSUME NEW bytes \in Seq(Byte)
  PROVE  /\ Len(Chunks(bytes)) = (Len(bytes) + 3) \div 4
         /\ DOMAIN Chunks(bytes) = 1 .. (Len(bytes) + 3) \div 4
         /\ \A n \in 1 .. (Len(bytes) + 3) \div 4 : Chunks(bytes)[n] \in [1 .. 4 -> Byte]
         /\ \A n \in 1 .. (Len(bytes) + 3) \div 4, k \in 1 .. 4 :
              4 * n - 4 + k <= Len(bytes) => Chunks(bytes)[n][k] = bytes[4 * n - 4 + k]
<1> DEFINE m == (Len(bytes) + 3) \div 4
<1>1. Len(bytes) \in Nat /\ m \in Nat
  OBVIOUS
<1>2. 0 \in Byte
  BY TrackerAssumption DEF Byte
<1>3. Chunks(bytes) = [n \in 1 .. m |-> Chunk(bytes, 4 * n - 3)]
  BY DEF Chunks
<1> HIDE DEF m
<1>4. ASSUME NEW n \in 1 .. m PROVE Chunk(bytes, 4 * n - 3) \in [1 .. 4 -> Byte]
  <2>1. ASSUME NEW k \in 1 .. 4, 4 * n - 3 + k - 1 <= Len(bytes)
        PROVE  bytes[4 * n - 3 + k - 1] \in Byte
    <3>1. 4 * n - 3 + k - 1 \in 1 .. Len(bytes)
      BY <1>1, <2>1
    <3> QED
      BY <3>1
  <2> QED
    BY <1>2, <2>1 DEF Chunk
<1>5. ASSUME NEW n \in 1 .. m, NEW k \in 1 .. 4, 4 * n - 4 + k <= Len(bytes)
      PROVE  Chunk(bytes, 4 * n - 3)[k] = bytes[4 * n - 4 + k]
  <2>1. 4 * n - 3 + k - 1 = 4 * n - 4 + k
    BY <1>1
  <2> QED
    BY <1>5, <2>1 DEF Chunk
<1>6. Len(Chunks(bytes)) = m /\ DOMAIN Chunks(bytes) = 1 .. m
  BY <1>1, <1>3
<1> QED
  BY <1>3, <1>4, <1>5, <1>6 DEF m

\* Every byte is in a chunk.
LEMMA PlaceInChunk ==
  ASSUME NEW len \in Nat, NEW p \in 1 .. len
  PROVE  \E n \in 1 .. (len + 3) \div 4, k \in 1 .. 4 : p = 4 * n - 4 + k
<1> DEFINE n == (p + 3) \div 4
           k == p - 4 * n + 4
<1>1. n \in 1 .. (len + 3) \div 4 /\ k \in 1 .. 4 /\ p = 4 * n - 4 + k
  OBVIOUS
<1> QED
  BY <1>1

\* Hashes of the same length that look the same are the same.
LEMMA SameDisplaySameHash ==
  ASSUME NEW a \in Seq(Byte), NEW b \in Seq(Byte), Len(a) = Len(b),
         display_ballot_tracker(a) = display_ballot_tracker(b)
  PROVE  a = b
<1> DEFINE m == (Len(a) + 3) \div 4
           Shown(bytes) == [n \in DOMAIN Chunks(bytes) |-> display_chunk(Chunks(bytes)[n])]
<1>1. Len(a) \in Nat /\ m \in Nat
  OBVIOUS
<1>2. CASE m = 0
  <2>1. \A p \in 1 .. Len(a) : a[p] = b[p]
    BY <1>1, <1>2
  <2> QED
    BY <2>1, SeqEqual
<1>3. CASE m > 0
  <2>1. ASSUME NEW bytes \in {a, b}
        PROVE  /\ Shown(bytes) \in Seq(Seq(Symbol)) /\ Len(Shown(bytes)) = m
               /\ \A n \in 1 .. m : /\ Shown(bytes)[n] = display_chunk(Chunks(bytes)[n])
                                    /\ Chunks(bytes)[n] \in [1 .. 4 -> Byte]
                                    /\ Len(Shown(bytes)[n]) = 8
    <3>1. /\ DOMAIN Chunks(bytes) = 1 .. m
          /\ \A n \in 1 .. m : Chunks(bytes)[n] \in [1 .. 4 -> Byte]
      BY ChunksOfBytes
    <3>2. Shown(bytes) = [n \in 1 .. m |-> display_chunk(Chunks(bytes)[n])]
      BY <3>1
    <3>3. \A n \in 1 .. m : display_chunk(Chunks(bytes)[n]) \in Seq(Symbol)
                            /\ Len(display_chunk(Chunks(bytes)[n])) = 8
      BY <3>1, ChunkShown
    <3> HIDE DEF m, Shown
    <3>4. Shown(bytes) \in Seq(Seq(Symbol)) /\ Len(Shown(bytes)) = m
      BY <1>1, <3>2, <3>3
    <3>5. \A n \in 1 .. m : Shown(bytes)[n] = display_chunk(Chunks(bytes)[n])
      BY <3>2
    <3> QED
      BY <3>1, <3>3, <3>4, <3>5, Zenon
  <2>2. ASSUME NEW bytes \in {a, b}
        PROVE  display_ballot_tracker(bytes) = SubSeq(FlattenSeq(Shown(bytes)), 1,
                                                      Len(FlattenSeq(Shown(bytes))) - 1)
    BY DEF display_ballot_tracker, Front
  <2> HIDE DEF m, Shown
  <2>3. ASSUME NEW bytes \in {a, b}, NEW n \in 1 .. m, NEW j \in 1 .. 7
        PROVE  display_ballot_tracker(bytes)[8 * (n - 1) + j] = display_chunk(Chunks(bytes)[n])[j]
    <3> DEFINE flat == FlattenSeq(Shown(bytes))
               p == 8 * (n - 1) + j
    <3>1. /\ flat \in Seq(Symbol) /\ Len(flat) = 8 * m
          /\ flat[p] = Shown(bytes)[n][j]
      <4>1. /\ Shown(bytes) \in Seq(Seq(Symbol)) /\ Len(Shown(bytes)) = m /\ Len(Shown(bytes)) > 0
            /\ \A k \in 1 .. Len(Shown(bytes)) : Len(Shown(bytes)[k]) = 8
        BY <1>3, <2>1
      <4>2. j \in 1 .. 8
        OBVIOUS
      <4> QED
        BY <4>1, <4>2, FlattenPlaces
    <3>2. p \in 1 .. 8 * m - 1 /\ 8 * m - 1 \in Nat /\ 8 * m - 1 <= 8 * m
      BY <1>1, <1>3
    <3> HIDE DEF flat, p
    <3>3. SubSeq(flat, 1, 8 * m - 1)[p] = flat[p]
      BY <3>1, <3>2
    <3> QED
      BY <2>1, <2>2, <3>1, <3>3 DEF flat, p
  <2>4. ASSUME NEW n \in 1 .. m PROVE Chunks(a)[n] = Chunks(b)[n]
    <3>1. \A j \in 1 .. 7 : display_chunk(Chunks(a)[n])[j] = display_chunk(Chunks(b)[n])[j]
      BY <2>3
    <3>2. Chunks(a)[n] \in [1 .. 4 -> Byte] /\ Chunks(b)[n] \in [1 .. 4 -> Byte]
      BY <2>1
    <3> QED
      BY <3>1, <3>2, ChunkTold
  <2>5. ASSUME NEW p \in 1 .. Len(a) PROVE a[p] = b[p]
    <3>1. PICK n \in 1 .. m, k \in 1 .. 4 : p = 4 * n - 4 + k
      BY <1>1, PlaceInChunk DEF m
    <3>2. 4 * n - 4 + k <= Len(a) /\ Len(a) = Len(b)
      BY <3>1, <1>1
    <3>3. Chunks(a)[n][k] = a[4 * n - 4 + k] /\ Chunks(b)[n][k] = b[4 * n - 4 + k]
      BY <3>2, ChunksOfBytes DEF m
    <3> QED
      BY <2>4, <3>1, <3>3
  <2> QED
    BY <2>5, SeqEqual
<1> QED
  BY <1>1, <1>2, <1>3

\* src/electionguard/voting/tracker.c: what a voter is shown of the hash of a ballot
\* tells it from every other hash of its length, however long it is.
THEOREM TrackersTellTheBallot == TrackerSpec => []TrackersLookDifferent
<1> DEFINE Bytes == tracker \in Seq(Byte)
<1>1. TrackerInit => Bytes
  BY DEF TrackerInit
<1>2. Bytes /\ [ReconstructTracker]_tracker => Bytes'
  BY TrackerAssumption DEF ReconstructTracker
<1>3. Bytes => TrackersLookDifferent
  <2> SUFFICES ASSUME tracker \in Seq(Byte),
                      NEW other \in [DOMAIN tracker -> Byte],
                      display_ballot_tracker(other) = display_ballot_tracker(tracker)
               PROVE  other = tracker
    BY DEF TrackersLookDifferent
  <2>1. DOMAIN tracker = 1 .. Len(tracker) /\ Len(tracker) \in Nat
    OBVIOUS
  <2>2. other \in Seq(Byte) /\ Len(other) = Len(tracker)
    BY <2>1
  <2> QED
    BY <2>2, SameDisplaySameHash
<1> QED
  BY <1>1, <1>2, <1>3, PTL DEF TrackerSpec

=============================================================================
