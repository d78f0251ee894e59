----------------------------- MODULE WordProofs -----------------------------
(***************************************************************************)
(* Numbers in words and messages in bytes.  The long numbers of            *)
(* src/electionguard/uint4096.c compute what the numbers they stand for    *)
(* do, for every word size, number of words, modulus and operand; and      *)
(* every message of src/electionguard/serialize is read back as it was     *)
(* written, however many fields it has and however long they are.          *)
(***************************************************************************)
EXTENDS UintArithmetic, MessageLayouts, SequenceTheorems, TLAPS

\* For the facts about loops that are about no loop.
Idle(s, j) == s
Rounds == INSTANCE FoldsAndLoops WITH Op <- Idle, Base <- 0, D <- Nat

\* A function by rounds: b at first, and F of what was there and the number of the round.
ByRounds(g, S, b, n, F) ==
  g \in [0 .. n -> S] /\ g[0] = b /\ \A j \in 1 .. n : g[j] = F[<<g[j - 1], j>>]

LEMMA LoopOf ==
  ASSUME NEW S, NEW b \in S, NEW n \in Nat, NEW F,
         \A v \in S, j \in 1 .. n : F[<<v, j>>] \in S
  PROVE  \E g : ByRounds(g, S, b, n, F)
<1> DEFINE Good == {k \in Nat : k <= n => \E g : ByRounds(g, S, b, k, F)}
<1>1. 0 \in Good
  <2> DEFINE g == [j \in 0 .. 0 |-> b]
  <2>1. ByRounds(g, S, b, 0, F)
    BY DEF ByRounds
  <2> QED
    BY <2>1
<1>2. ASSUME NEW k \in Nat, k \in Good PROVE k + 1 \in Good
  <2> SUFFICES ASSUME k + 1 <= n PROVE \E g : ByRounds(g, S, b, k + 1, F)
    OBVIOUS
  <2>1. PICK g : ByRounds(g, S, b, k, F)
    BY <1>2
  <2> DEFINE last == F[<<g[k], k + 1>>]
             h == [j \in 0 .. k + 1 |-> IF j = k + 1 THEN last ELSE g[j]]
  <2>2. g \in [0 .. k -> S] /\ g[0] = b /\ \A j \in 1 .. k : g[j] = F[<<g[j - 1], j>>]
    BY <2>1 DEF ByRounds
  <2>3. g[k] \in S /\ k + 1 \in 1 .. n
    BY <2>2
  <2>4. last \in S
    BY <2>3
  <2>5. h \in [0 .. k + 1 -> S] /\ h[0] = b
    BY <2>2, <2>4
  <2>6. ASSUME NEW j \in 1 .. k + 1 PROVE h[j] = F[<<h[j - 1], j>>]
    <3>1. j - 1 \in 0 .. k + 1 /\ j \in 0 .. k + 1 /\ j - 1 # k + 1
      OBVIOUS
    <3>2. h[j - 1] = g[j - 1]
      BY <3>1
    <3>3. CASE j = k + 1
      <4>1. j - 1 = k
        BY <3>3
      <4>2. h[j - 1] = g[k]
        BY <3>2, <4>1
      <4>3. h[j] = last
        BY <3>1, <3>3
      <4> QED
        BY <3>3, <4>2, <4>3
    <3>4. CASE j # k + 1
      <4>1. j \in 1 .. k
        BY <3>4
      <4>2. h[j] = g[j]
        BY <3>1, <3>4
      <4> QED
        BY <2>2, <3>2, <4>1, <4>2
    <3> QED
      BY <3>3, <3>4
  <2> HIDE DEF h
  <2>7. ByRounds(h, S, b, k + 1, F)
    BY <2>5, <2>6 DEF ByRounds
  <2> QED
    BY <2>7
<1> HIDE DEF Good
<1>3. n \in Good
  BY <1>1, <1>2, Rounds!NumbersInduce
<1> QED
  BY <1>3 DEF Good

LEMMA SameRounds ==
  ASSUME NEW n \in Nat, NEW g, NEW h, g[0] = h[0],
         \A j \in 1 .. n : g[j - 1] = h[j - 1] => g[j] = h[j]
  PROVE  \A j \in 0 .. n : g[j] = h[j]
<1> DEFINE Good == {j \in Nat : j <= n => g[j] = h[j]}
<1>1. 0 \in Good
  OBVIOUS
<1>2. ASSUME NEW j \in Nat, j \in Good PROVE j + 1 \in Good
  <2>1. j + 1 <= n => j + 1 \in 1 .. n /\ (j + 1) - 1 = j
    OBVIOUS
  <2> QED
    BY <1>2, <2>1
<1> HIDE DEF Good
<1>3. Nat \subseteq Good
  BY <1>1, <1>2, Rounds!NumbersInduce
<1> QED
  BY <1>3 DEF Good

------------------------------------------------------------------------------
(* Powers.                                                                 *)

IsPower(power, base, n) ==
  power = [e \in 0 .. n |-> IF e = 0 THEN 1 ELSE power[e - 1] * base]

LEMMA IntegerPowerGoes ==
  ASSUME NEW base \in Nat, NEW n \in Nat
  PROVE  /\ IntegerPower(base, 0) = 1
         /\ IntegerPower(base, n + 1) = IntegerPower(base, n) * base
<1> DEFINE Power(m) == CHOOSE power : IsPower(power, base, m)
<1>1. \A m : IntegerPower(base, m) = Power(m)[m]
  BY DEF IntegerPower, IsPower
<1>2. ASSUME NEW m \in Nat PROVE IsPower(Power(m), base, m)
  <2> DEFINE F == [vj \in Nat \X (1 .. m) |-> vj[1] * base]
  <2>1. \A v \in Nat, j \in 1 .. m : F[<<v, j>>] = v * base /\ F[<<v, j>>] \in Nat
    OBVIOUS
  <2> HIDE DEF F
  <2>2. 1 \in Nat
    OBVIOUS
  <2>3. PICK g : ByRounds(g, Nat, 1, m, F)
    BY <2>1, <2>2, LoopOf
  <2>4. ASSUME NEW j \in 0 .. m PROVE g[j] = IF j = 0 THEN 1 ELSE g[j - 1] * base
    <3>1. CASE j = 0
      BY <3>1, <2>3 DEF ByRounds
    <3>2. CASE j # 0
      <4>1. j \in 1 .. m /\ j - 1 \in 0 .. m
        BY <3>2
      <4>2. g[j - 1] \in Nat /\ g[j] = F[<<g[j - 1], j>>]
        BY <4>1, <2>3 DEF ByRounds
      <4> QED
        BY <4>1, <4>2, <3>2, <2>1
    <3> QED
      BY <3>1, <3>2
  <2>5. g = [j \in 0 .. m |-> g[j]]
    BY <2>3 DEF ByRounds
  <2>6. IsPower(g, base, m)
    BY <2>4, <2>5 DEF IsPower
  <2> QED
    BY <2>6
<1> HIDE DEF Power
<1>3. ASSUME NEW m \in Nat, NEW j \in 0 .. m
      PROVE  Power(m)[j] = IF j = 0 THEN 1 ELSE Power(m)[j - 1] * base
  BY <1>2 DEF IsPower
<1>4. Power(n + 1)[0] = Power(n)[0] /\ Power(0)[0] = 1
  BY <1>3
<1>5. \A j \in 1 .. n : Power(n + 1)[j - 1] = Power(n)[j - 1] => Power(n + 1)[j] = Power(n)[j]
  BY <1>3
<1>6. \A j \in 0 .. n : Power(n + 1)[j] = Power(n)[j]
  BY <1>4, <1>5, SameRounds
<1>7. Power(n + 1)[n + 1] = Power(n + 1)[n] * base
  BY <1>3
<1> QED
  BY <1>1, <1>4, <1>6, <1>7

LEMMA PowerIsNumber ==
  ASSUME NEW base \in Nat \ {0}, NEW n \in Nat
  PROVE  IntegerPower(base, n) \in Nat \ {0}
<1> DEFINE Good == {k \in Nat : IntegerPower(base, k) \in Nat \ {0}}
<1>1. 0 \in Good
  BY IntegerPowerGoes
<1>2. ASSUME NEW k \in Nat, k \in Good PROVE k + 1 \in Good
  <2>1. IntegerPower(base, k + 1) = IntegerPower(base, k) * base
    BY IntegerPowerGoes
  <2>2. \A x, y \in Nat \ {0} : x * y \in Nat \ {0}
    OBVIOUS
  <2> QED
    BY <1>2, <2>1, <2>2
<1> HIDE DEF Good
<1> QED
  BY <1>1, <1>2, Rounds!NumbersInduce DEF Good

\* Also those of 0.
LEMMA PowersAreNumbers ==
  ASSUME NEW base \in Nat, NEW n \in Nat
  PROVE  IntegerPower(base, n) \in Nat
<1> DEFINE Good == {k \in Nat : IntegerPower(base, k) \in Nat}
<1>1. 0 \in Good
  BY IntegerPowerGoes
<1>2. ASSUME NEW k \in Nat, k \in Good PROVE k + 1 \in Good
  <2>1. IntegerPower(base, k + 1) = IntegerPower(base, k) * base
    BY IntegerPowerGoes
  <2>2. \A x, y \in Nat : x * y \in Nat
    OBVIOUS
  <2> QED
    BY <1>2, <2>1, <2>2
<1> HIDE DEF Good
<1> QED
  BY <1>1, <1>2, Rounds!NumbersInduce DEF Good

LEMMA PowersMultiply ==
  ASSUME NEW base \in Nat, NEW i \in Nat, NEW n \in Nat
  PROVE  IntegerPower(base, i + n) = IntegerPower(base, i) * IntegerPower(base, n)
<1> DEFINE Good == {k \in Nat : IntegerPower(base, i + k)
                                  = IntegerPower(base, i) * IntegerPower(base, k)}
<1>1. 0 \in Good
  BY IntegerPowerGoes, PowersAreNumbers
<1>2. ASSUME NEW k \in Nat, k \in Good PROVE k + 1 \in Good
  <2>1. IntegerPower(base, k + 1) = IntegerPower(base, k) * base
    BY IntegerPowerGoes
  <2>2. IntegerPower(base, (i + k) + 1) = IntegerPower(base, i + k) * base /\ (i + k) + 1 = i + (k + 1)
    BY IntegerPowerGoes
  <2>3. IntegerPower(base, i) \in Nat /\ IntegerPower(base, k) \in Nat
    BY PowersAreNumbers
  <2>4. \A x, y, z \in Nat : (x * y) * z = x * (y * z)
    OBVIOUS
  <2> QED
    BY <1>2, <2>1, <2>2, <2>3, <2>4
<1> HIDE DEF Good
<1> QED
  BY <1>1, <1>2, Rounds!NumbersInduce DEF Good

\* The power of a power.
LEMMA PowersOfPowers ==
  ASSUME NEW base \in Nat \ {0}, NEW i \in Nat, NEW n \in Nat
  PROVE  IntegerPower(IntegerPower(base, i), n) = IntegerPower(base, i * n)
<1> DEFINE Good == {k \in Nat : IntegerPower(IntegerPower(base, i), k) = IntegerPower(base, i * k)}
<1>0. IntegerPower(base, i) \in Nat \ {0}
  BY PowerIsNumber
<1>1. 0 \in Good
  BY <1>0, IntegerPowerGoes
<1>2. ASSUME NEW k \in Nat, k \in Good PROVE k + 1 \in Good
  <2>1. IntegerPower(IntegerPower(base, i), k + 1) = IntegerPower(IntegerPower(base, i), k) * IntegerPower(base, i)
    BY <1>0, IntegerPowerGoes
  <2>2. i * k \in Nat /\ i * (k + 1) = i * k + i
    OBVIOUS
  <2>3. IntegerPower(base, i * k + i) = IntegerPower(base, i * k) * IntegerPower(base, i)
    BY <2>2, PowersMultiply
  <2> QED
    BY <1>2, <2>1, <2>2, <2>3
<1> HIDE DEF Good
<1> QED
  BY <1>1, <1>2, Rounds!NumbersInduce DEF Good

LEMMA Products == \A x, y \in Nat : x * y \in Nat
OBVIOUS

------------------------------------------------------------------------------
(* Division.                                                               *)

LEMMA Division ==
  ASSUME NEW x \in Nat, NEW y \in Nat \ {0}
  PROVE  /\ x \div y \in Nat /\ x % y \in 0 .. y - 1
         /\ x = (x \div y) * y + (x % y)
OBVIOUS

LEMMA DivisionIsUnique ==
  ASSUME NEW x \in Nat, NEW y \in Nat \ {0}, NEW q \in Int, NEW r \in 0 .. y - 1, x = q * y + r
  PROVE  q = x \div y /\ r = x % y
OBVIOUS

LEMMA SmallQuotient ==
  ASSUME NEW x \in Nat, NEW y \in Nat \ {0}, x < y
  PROVE  x \div y = 0 /\ x % y = x
<1>1. x = 0 * y + x /\ x \in 0 .. y - 1
  OBVIOUS
<1> QED
  BY <1>1, DivisionIsUnique

------------------------------------------------------------------------------
(* Words and what they stand for.                                          *)

Words(n) == [1 .. n -> Word]

LEMMA WordSizes ==
  /\ WordBits \in Nat /\ Base \in Nat /\ Base >= 2
  /\ Size(0) = 1
  /\ \A n \in Nat : Size(n) \in Nat \ {0} /\ Size(n + 1) = Size(n) * Base
<1>1. WordBits \in Nat \ {0} /\ WordBits - 1 \in Nat /\ (WordBits - 1) + 1 = WordBits
  BY UintAssumption
<1>2. Base = IntegerPower(2, WordBits - 1) * 2
  BY <1>1, IntegerPowerGoes DEF Base
<1>3. IntegerPower(2, WordBits - 1) \in Nat \ {0}
  BY <1>1, PowerIsNumber
<1>4. Base \in Nat \ {0} /\ Base >= 2
  BY <1>2, <1>3
<1>5. \A n \in Nat : Size(n) \in Nat \ {0} /\ Size(n + 1) = Size(n) * Base /\ Size(0) = 1
  BY <1>4, PowerIsNumber, IntegerPowerGoes DEF Size
<1> QED
  BY <1>1, <1>4, <1>5

LEMMA SizesMultiply ==
  ASSUME NEW m \in Nat, NEW n \in Nat
  PROVE  Size(m + n) = Size(m) * Size(n)
<1>1. Base \in Nat \ {0}
  BY WordSizes
<1> QED
  BY <1>1, PowersMultiply DEF Size

\* As the recursive function of ValueOf, one for each of the model's.
IsValue(value, words, n) ==
  value = [k \in 0 .. n |-> IF k = 0 THEN 0 ELSE value[k - 1] * Base + words[k]]

LEMMA ValueGoes ==
  ASSUME NEW n \in Nat, NEW words, \A i \in 1 .. n + 1 : words[i] \in Nat
  PROVE  /\ ValueOf(0, words) = 0
         /\ ValueOf(n + 1, words) = ValueOf(n, words) * Base + words[n + 1]
<1> DEFINE Worth(m) == CHOOSE value : IsValue(value, words, m)
<1>1. \A m : ValueOf(m, words) = Worth(m)[m]
  BY DEF ValueOf, IsValue
<1>2. ASSUME NEW m \in 0 .. n + 1 PROVE IsValue(Worth(m), words, m)
  <2> DEFINE F == [vj \in Nat \X (1 .. m) |-> vj[1] * Base + words[vj[2]]]
  <2>1. \A v \in Nat, j \in 1 .. m : F[<<v, j>>] = v * Base + words[j]
    OBVIOUS
  <2>2. \A j \in 1 .. m : words[j] \in Nat
    OBVIOUS
  <2>3. \A v, w \in Nat : v * Base + w \in Nat
    BY WordSizes, Products
  <2> HIDE DEF F
  <2>4. \A v \in Nat, j \in 1 .. m : F[<<v, j>>] \in Nat
    BY <2>1, <2>2, <2>3
  <2>5. 0 \in Nat /\ m \in Nat
    OBVIOUS
  <2>6. PICK g : ByRounds(g, Nat, 0, m, F)
    BY <2>4, <2>5, LoopOf
  <2>7. ASSUME NEW j \in 0 .. m PROVE g[j] = IF j = 0 THEN 0 ELSE g[j - 1] * Base + words[j]
    <3>1. CASE j = 0
      BY <3>1, <2>6 DEF ByRounds
    <3>2. CASE j # 0
      <4>1. j \in 1 .. m /\ j - 1 \in 0 .. m
        BY <3>2
      <4>2. g[j - 1] \in Nat /\ g[j] = F[<<g[j - 1], j>>]
        BY <4>1, <2>6 DEF ByRounds
      <4> QED
        BY <4>1, <4>2, <3>2, <2>1
    <3> QED
      BY <3>1, <3>2
  <2>8. g = [j \in 0 .. m |-> g[j]]
    BY <2>6 DEF ByRounds
  <2>9. IsValue(g, words, m)
    BY <2>7, <2>8 DEF IsValue
  <2> QED
    BY <2>9
<1> HIDE DEF Worth
<1>3. ASSUME NEW m \in 0 .. n + 1, NEW j \in 0 .. m
      PROVE  Worth(m)[j] = IF j = 0 THEN 0 ELSE Worth(m)[j - 1] * Base + words[j]
  BY <1>2 DEF IsValue
<1>4. n \in 0 .. n + 1 /\ n + 1 \in 0 .. n + 1 /\ 0 \in 0 .. n + 1
  OBVIOUS
<1>5. Worth(n + 1)[0] = Worth(n)[0] /\ Worth(0)[0] = 0
  BY <1>3, <1>4
<1>6. \A j \in 1 .. n : Worth(n + 1)[j - 1] = Worth(n)[j - 1] => Worth(n + 1)[j] = Worth(n)[j]
  BY <1>3, <1>4
<1>7. \A j \in 0 .. n : Worth(n + 1)[j] = Worth(n)[j]
  BY <1>5, <1>6, SameRounds
<1>8. Worth(n + 1)[n + 1] = Worth(n + 1)[n] * Base + words[n + 1]
  BY <1>3, <1>4
<1> QED
  BY <1>1, <1>5, <1>7, <1>8

\* Round by round along the words.
LEMMA ValueRounds ==
  ASSUME NEW n \in Nat, NEW words, \A i \in 1 .. n : words[i] \in Nat
  PROVE  /\ ValueOf(0, words) = 0
         /\ \A k \in Nat : k < n =>
              ValueOf(k + 1, words) = ValueOf(k, words) * Base + words[k + 1]
<1>1. ValueOf(0, words) = 0
  <2> DEFINE value == CHOOSE value : IsValue(value, words, 0)
             nothing == [k \in 0 .. 0 |-> 0]
  <2>1. ValueOf(0, words) = value[0]
    BY DEF ValueOf, IsValue
  <2>2. IsValue(nothing, words, 0)
    BY DEF IsValue
  <2>3. IsValue(value, words, 0)
    BY <2>2
  <2> HIDE DEF value
  <2> QED
    BY <2>1, <2>3 DEF IsValue
<1>2. ASSUME NEW k \in Nat, k < n
      PROVE  ValueOf(k + 1, words) = ValueOf(k, words) * Base + words[k + 1]
  <2>1. \A i \in 1 .. k + 1 : words[i] \in Nat
    BY <1>2
  <2> QED
    BY <2>1, ValueGoes
<1> QED
  BY <1>1, <1>2

LEMMA ValueIsNumber ==
  ASSUME NEW n \in Nat, NEW words, \A i \in 1 .. n : words[i] \in Nat
  PROVE  ValueOf(n, words) \in Nat
<1> DEFINE Good == {k \in Nat : k <= n => ValueOf(k, words) \in Nat}
<1>1. 0 \in Good
  BY ValueRounds
<1>2. ASSUME NEW k \in Nat, k \in Good PROVE k + 1 \in Good
  <2> SUFFICES ASSUME k + 1 <= n PROVE ValueOf(k + 1, words) \in Nat
    OBVIOUS
  <2>1. ValueOf(k + 1, words) = ValueOf(k, words) * Base + words[k + 1]
    BY <1>2, ValueRounds
  <2>2. ValueOf(k, words) \in Nat /\ words[k + 1] \in Nat /\ k < n
    BY <1>2
  <2> QED
    <3>1. ValueOf(k, words) * Base \in Nat
      BY <2>2, WordSizes, Products
    <3> QED
      BY <2>1, <2>2, <3>1
<1> HIDE DEF Good
<1>3. n \in Good
  BY <1>1, <1>2, Rounds!NumbersInduce
<1> QED
  BY <1>3 DEF Good

LEMMA ValueSame ==
  ASSUME NEW n \in Nat, NEW v, NEW w, \A i \in 1 .. n : v[i] = w[i] /\ w[i] \in Nat
  PROVE  ValueOf(n, v) = ValueOf(n, w)
<1> DEFINE Good == {k \in Nat : k <= n => ValueOf(k, v) = ValueOf(k, w)}
<1>1. \A i \in 1 .. n : v[i] \in Nat /\ w[i] \in Nat
  OBVIOUS
<1>2. 0 \in Good
  BY <1>1, ValueRounds
<1>3. ASSUME NEW k \in Nat, k \in Good PROVE k + 1 \in Good
  <2> SUFFICES ASSUME k < n PROVE ValueOf(k + 1, v) = ValueOf(k + 1, w)
    OBVIOUS
  <2>1. ValueOf(k + 1, v) = ValueOf(k, v) * Base + v[k + 1]
    BY <1>1, ValueRounds
  <2>2. ValueOf(k + 1, w) = ValueOf(k, w) * Base + w[k + 1]
    BY <1>1, ValueRounds
  <2>3. ValueOf(k, v) = ValueOf(k, w) /\ v[k + 1] = w[k + 1]
    BY <1>3
  <2> QED
    BY <2>1, <2>2, <2>3
<1> HIDE DEF Good
<1>4. n \in Good
  BY <1>2, <1>3, Rounds!NumbersInduce
<1> QED
  BY <1>4 DEF Good

LEMMA WordsAreNumbers ==
  ASSUME NEW n \in Nat, NEW words \in Words(n)
  PROVE  \A i \in 1 .. n : words[i] \in Nat /\ words[i] \in Int /\ 0 <= words[i] /\ words[i] < Base
<1>1. Base \in Nat
  BY WordSizes
<1>2. \A i \in 1 .. n : words[i] \in 0 .. Base - 1
  BY DEF Words, Word
<1> QED
  BY <1>1, <1>2

LEMMA ValueBounded ==
  ASSUME NEW n \in Nat, NEW words \in Words(n)
  PROVE  /\ ValueOf(n, words) \in Nat /\ ValueOf(n, words) < Size(n)
         /\ \A k \in 0 .. n : ValueOf(k, words) \in Nat /\ ValueOf(k, words) < Size(k)
<1> DEFINE Good == {k \in Nat : k <= n => ValueOf(k, words) \in Nat /\ ValueOf(k, words) < Size(k)}
<1>1. \A i \in 1 .. n : words[i] \in Nat /\ words[i] < Base
  BY WordsAreNumbers
<1>2. 0 \in Good
  <2>1. ValueOf(0, words) = 0
    BY <1>1, ValueRounds
  <2>2. Size(0) = 1
    BY WordSizes
  <2> QED
    BY <2>1, <2>2
<1>3. ASSUME NEW k \in Nat, k \in Good PROVE k + 1 \in Good
  <2> SUFFICES ASSUME k < n PROVE ValueOf(k + 1, words) \in Nat /\ ValueOf(k + 1, words) < Size(k + 1)
    OBVIOUS
  <2> DEFINE v == ValueOf(k, words)
             s == Size(k)
             w == words[k + 1]
  <2>1. ValueOf(k + 1, words) = v * Base + w
    BY <1>1, ValueRounds
  <2>2. Size(k + 1) = s * Base /\ s \in Nat
    BY WordSizes
  <2>3. v \in Nat /\ v < s /\ w \in Nat /\ w < Base
    BY <1>1, <1>3
  <2> HIDE DEF v, s, w
  <2>4. v * Base + w < s * Base /\ v * Base \in Nat
    <3>1. s * Base = v * Base + Base + (s - v - 1) * Base
      BY <2>2, <2>3, WordSizes
    <3>2. (s - v - 1) * Base \in Nat /\ v * Base \in Nat
      BY <2>2, <2>3, WordSizes, Products
    <3> QED
      BY <2>3, <3>1, <3>2, WordSizes
  <2> QED
    BY <2>1, <2>2, <2>3, <2>4
<1> HIDE DEF Good
<1>4. Nat \subseteq Good
  BY <1>2, <1>3, Rounds!NumbersInduce
<1> QED
  BY <1>4 DEF Good

------------------------------------------------------------------------------
(* Sums, complements, comparisons.                                         *)

\* Adding from the last word on, what does not fit a word going on to the next.
LEMMA CarriesRipple ==
  ASSUME NEW n \in Nat, NEW a, NEW b, NEW out, NEW carry \in [0 .. n -> {0, 1}],
         \A i \in 1 .. n :
           a[i] \in Nat /\ b[i] \in Nat /\ out[i] \in Nat
           /\ a[i] + b[i] + carry[i] = out[i] + Base * carry[i - 1]
  PROVE  ValueOf(n, a) + ValueOf(n, b) + carry[n] = ValueOf(n, out) + carry[0] * Size(n)
<1> DEFINE Good == {k \in Nat : k <= n =>
             ValueOf(k, a) + ValueOf(k, b) + carry[k] = ValueOf(k, out) + carry[0] * Size(k)}
<1>0. \A i \in 1 .. n : a[i] \in Nat
  OBVIOUS
<1>1. \A i \in 1 .. n : b[i] \in Nat
  OBVIOUS
<1>2. \A i \in 1 .. n : out[i] \in Nat
  OBVIOUS
<1>3. \A k \in 0 .. n : ValueOf(k, a) \in Nat /\ ValueOf(k, b) \in Nat /\ ValueOf(k, out) \in Nat
                        /\ carry[k] \in Nat
  BY ValueIsNumber
<1>7. \A k \in Nat : k < n => ValueOf(k + 1, a) = ValueOf(k, a) * Base + a[k + 1]
  BY <1>0, ValueRounds
<1>8. \A k \in Nat : k < n => ValueOf(k + 1, b) = ValueOf(k, b) * Base + b[k + 1]
  BY <1>1, ValueRounds
<1>9. \A k \in Nat : k < n => ValueOf(k + 1, out) = ValueOf(k, out) * Base + out[k + 1]
  BY <1>2, ValueRounds
<1>4. 0 \in Good
  <2>1. ValueOf(0, a) = 0 /\ ValueOf(0, b) = 0 /\ ValueOf(0, out) = 0
    BY <1>0, <1>1, <1>2, ValueRounds
  <2> QED
    BY <2>1, <1>3, WordSizes
<1>5. ASSUME NEW k \in Nat, k \in Good PROVE k + 1 \in Good
  <2> SUFFICES ASSUME k < n
               PROVE  ValueOf(k + 1, a) + ValueOf(k + 1, b) + carry[k + 1]
                        = ValueOf(k + 1, out) + carry[0] * Size(k + 1)
    OBVIOUS
  <2> DEFINE va == ValueOf(k, a)  vb == ValueOf(k, b)  vo == ValueOf(k, out)
             c == carry[k]  d == carry[k + 1]  z == carry[0]  s == Size(k)
             x == a[k + 1]  y == b[k + 1]  w == out[k + 1]
  <2>1. /\ ValueOf(k + 1, a) = va * Base + x
        /\ ValueOf(k + 1, b) = vb * Base + y
        /\ ValueOf(k + 1, out) = vo * Base + w
    <3>1. ValueOf(k + 1, a) = va * Base + x
      BY <1>7
    <3>2. ValueOf(k + 1, b) = vb * Base + y
      BY <1>8
    <3>3. ValueOf(k + 1, out) = vo * Base + w
      BY <1>9
    <3> QED
      BY <3>1, <3>2, <3>3
  <2>2. Size(k + 1) = s * Base /\ s \in Nat
    BY WordSizes
  <2>3. va \in Nat /\ vb \in Nat /\ vo \in Nat /\ c \in Nat /\ d \in Nat /\ z \in Nat
    BY <1>3
  <2>4. k + 1 \in 1 .. n /\ (k + 1) - 1 = k
    OBVIOUS
  <2>5. x \in Nat /\ y \in Nat /\ w \in Nat /\ x + y + d = w + Base * c
    BY <2>4
  <2>6. va + vb + c = vo + z * s
    BY <1>5
  <2> HIDE DEF va, vb, vo, c, d, z, s, x, y, w
  <2>7. (va + vb + c) * Base = (vo + z * s) * Base
    BY <2>6
  <2>8. (va + vb + c) * Base = va * Base + vb * Base + Base * c
    BY <2>3, WordSizes
  <2>9. (vo + z * s) * Base = vo * Base + z * (s * Base)
    <3>1. \A p, q, r, t \in Nat : (p + q * r) * t = p * t + q * (r * t)
      OBVIOUS
    <3> QED
      BY <3>1, <2>2, <2>3, WordSizes
  <2>10. va * Base \in Nat /\ vb * Base \in Nat /\ vo * Base \in Nat /\ Base * c \in Nat
         /\ z * (s * Base) \in Nat
    BY <2>2, <2>3, WordSizes, Products
  <2>11. (va * Base + x) + (vb * Base + y) + d = (vo * Base + w) + z * (s * Base)
    <3> DEFINE va1 == va * Base  vb1 == vb * Base  vo1 == vo * Base
               c1 == Base * c  s1 == z * (s * Base)
    <3>1. va1 + vb1 + c1 = vo1 + s1
      BY <2>7, <2>8, <2>9
    <3>2. va1 \in Nat /\ vb1 \in Nat /\ vo1 \in Nat /\ c1 \in Nat /\ s1 \in Nat
      BY <2>10
    <3>3. x + y + d = w + c1 /\ x \in Nat /\ y \in Nat /\ w \in Nat /\ d \in Nat
      BY <2>3, <2>5
    <3> HIDE DEF va1, vb1, vo1, c1, s1
    <3>4. (va1 + x) + (vb1 + y) + d = (vo1 + w) + s1
      BY <3>1, <3>2, <3>3
    <3> QED
      BY <3>4 DEF va1, vb1, vo1, s1
  <2> QED
    BY <2>1, <2>2, <2>11 DEF d, z
<1> HIDE DEF Good
<1>6. n \in Good
  BY <1>4, <1>5, Rounds!NumbersInduce
<1> QED
  BY <1>6 DEF Good

IsCarry(carry, n, a, b) ==
  carry = [k \in 0 .. n |->
             IF k = 0 THEN 0
             ELSE IF a[n + 1 - k] + b[n + 1 - k] + carry[k - 1] >= Base THEN 1 ELSE 0]

AddsWith(out, carry, n, a, b) ==
  out = [i \in 1 .. n |-> (a[i] + b[i] + carry[n - i]) % Base]

LEMMA CarryGoes ==
  ASSUME NEW n \in Nat, NEW a, NEW b
  PROVE  \E carry : /\ IsCarry(carry, n, a, b) /\ carry \in [0 .. n -> {0, 1}]
                    /\ AddsWith(uintnwords_add_o(n, a, b), carry, n, a, b)
<1> DEFINE F == [vj \in {0, 1} \X (1 .. n) |->
                   IF a[n + 1 - vj[2]] + b[n + 1 - vj[2]] + vj[1] >= Base THEN 1 ELSE 0]
<1>1. \A v \in {0, 1}, j \in 1 .. n :
        /\ F[<<v, j>>] = IF a[n + 1 - j] + b[n + 1 - j] + v >= Base THEN 1 ELSE 0
        /\ F[<<v, j>>] \in {0, 1}
  OBVIOUS
<1> HIDE DEF F
<1>2. 0 \in {0, 1}
  OBVIOUS
<1>3. PICK g : ByRounds(g, {0, 1}, 0, n, F)
  BY <1>1, <1>2, LoopOf
<1>4. ASSUME NEW k \in 0 .. n
      PROVE  g[k] = IF k = 0 THEN 0
                    ELSE IF a[n + 1 - k] + b[n + 1 - k] + g[k - 1] >= Base THEN 1 ELSE 0
  <2>1. CASE k = 0
    BY <2>1, <1>3 DEF ByRounds
  <2>2. CASE k # 0
    <3>1. k \in 1 .. n /\ k - 1 \in 0 .. n
      BY <2>2
    <3>2. g[k - 1] \in {0, 1} /\ g[k] = F[<<g[k - 1], k>>]
      BY <3>1, <1>3 DEF ByRounds
    <3> QED
      BY <3>1, <3>2, <2>2, <1>1
  <2> QED
    BY <2>1, <2>2
<1>5. g = [k \in 0 .. n |-> g[k]]
  BY <1>3 DEF ByRounds
<1>6. IsCarry(g, n, a, b)
  BY <1>4, <1>5 DEF IsCarry
<1> DEFINE carry == CHOOSE carry : IsCarry(carry, n, a, b)
<1>7. IsCarry(carry, n, a, b)
  BY <1>6
<1>8. AddsWith(uintnwords_add_o(n, a, b), carry, n, a, b)
  BY DEF uintnwords_add_o, IsCarry, AddsWith
<1> HIDE DEF carry
<1>9. carry \in [0 .. n -> {0, 1}]
  BY <1>7 DEF IsCarry
<1> QED
  BY <1>7, <1>8, <1>9

\* A sum with its carry.
LEMMA WordSum ==
  ASSUME NEW x \in Nat, NEW y \in Nat, NEW c \in {0, 1}, x < Base, y < Base
  PROVE  /\ (x + y + c) % Base \in Word
         /\ x + y + c = ((x + y + c) % Base) + Base * (IF x + y + c >= Base THEN 1 ELSE 0)
<1>1. Base \in Nat /\ Base >= 2
  BY WordSizes
<1> DEFINE s == x + y + c
<1>2. s \in Nat /\ s < 2 * Base
  BY <1>1
<1> HIDE DEF s
<1>3. CASE s >= Base
  <2>1. s = 1 * Base + (s - Base) /\ s - Base \in 0 .. Base - 1
    BY <1>1, <1>2, <1>3
  <2>2. s % Base = s - Base
    BY <1>1, <1>2, <2>1, DivisionIsUnique
  <2> QED
    BY <1>1, <1>2, <1>3, <2>1, <2>2 DEF s, Word
<1>4. CASE s < Base
  <2>1. s % Base = s
    BY <1>1, <1>2, <1>4, SmallQuotient
  <2> QED
    BY <1>1, <1>2, <1>4, <2>1 DEF s, Word
<1> QED
  BY <1>1, <1>2, <1>3, <1>4

LEMMA SumOfWords ==
  ASSUME NEW n \in Nat, NEW a \in Words(n), NEW b \in Words(n)
  PROVE  /\ uintnwords_add_o(n, a, b) \in Words(n)
         /\ ValueOf(n, uintnwords_add_o(n, a, b)) = (ValueOf(n, a) + ValueOf(n, b)) % Size(n)
<1> DEFINE out == uintnwords_add_o(n, a, b)
<1>1. PICK carry :
        /\ IsCarry(carry, n, a, b) /\ carry \in [0 .. n -> {0, 1}]
        /\ AddsWith(out, carry, n, a, b)
  BY CarryGoes
<1> HIDE DEF out
<1> DEFINE c == [i \in 0 .. n |-> carry[n - i]]
<1>2. c \in [0 .. n -> {0, 1}] /\ c[n] = 0
  BY <1>1 DEF IsCarry
<1>3. \A i \in 1 .. n : a[i] \in Nat /\ b[i] \in Nat /\ a[i] < Base /\ b[i] < Base
  BY WordsAreNumbers
<1>4. ASSUME NEW i \in 1 .. n
      PROVE  out[i] \in Word /\ a[i] + b[i] + c[i] = out[i] + Base * c[i - 1]
  <2>1. n - i \in 0 .. n /\ i \in 0 .. n /\ i - 1 \in 0 .. n /\ n - (i - 1) \in 0 .. n
        /\ n - (i - 1) # 0 /\ n + 1 - (n - (i - 1)) = i /\ (n - (i - 1)) - 1 = n - i
    OBVIOUS
  <2>2. c[i] = carry[n - i] /\ c[i - 1] = carry[n - (i - 1)]
    BY <2>1
  <2>3. carry[n - (i - 1)] = IF a[i] + b[i] + carry[n - i] >= Base THEN 1 ELSE 0
    BY <1>1, <2>1 DEF IsCarry
  <2>4. out[i] = (a[i] + b[i] + c[i]) % Base /\ c[i] \in {0, 1}
    BY <1>1, <1>2, <2>1, <2>2 DEF AddsWith
  <2> HIDE DEF c
  <2> QED
    BY <1>3, <2>2, <2>3, <2>4, WordSum
<1>5. out = [i \in 1 .. n |-> out[i]]
  BY <1>1 DEF AddsWith
<1>6. out \in Words(n)
  BY <1>4, <1>5 DEF Words
<1> HIDE DEF c
<1>7. ValueOf(n, a) + ValueOf(n, b) + c[n] = ValueOf(n, out) + c[0] * Size(n)
  <2>1. \A i \in 1 .. n : out[i] \in Nat
    BY <1>6, WordsAreNumbers
  <2> QED
    BY <1>2, <1>3, <1>4, <2>1, CarriesRipple
<1>8. ValueOf(n, out) \in 0 .. Size(n) - 1 /\ Size(n) \in Nat \ {0} /\ c[0] \in Int
  <2>1. ValueOf(n, out) \in Nat /\ ValueOf(n, out) < Size(n)
    BY <1>6, ValueBounded
  <2>2. Size(n) \in Nat \ {0}
    BY WordSizes
  <2>3. c[0] \in {0, 1}
    BY <1>2
  <2> QED
    BY <2>1, <2>2, <2>3
<1>9. ValueOf(n, a) + ValueOf(n, b) \in Nat
  BY ValueBounded
<1>10. ValueOf(n, a) + ValueOf(n, b) = c[0] * Size(n) + ValueOf(n, out)
  <2> DEFINE p == c[0] * Size(n)
  <2>1. p \in Int
    BY <1>8
  <2>2. ValueOf(n, a) \in Nat /\ ValueOf(n, b) \in Nat
    BY ValueBounded
  <2>3. ValueOf(n, a) + ValueOf(n, b) + 0 = ValueOf(n, out) + p
    BY <1>2, <1>7
  <2> HIDE DEF p
  <2>4. ValueOf(n, a) + ValueOf(n, b) = p + ValueOf(n, out)
    BY <2>1, <2>2, <2>3, <1>8
  <2> QED
    BY <2>4 DEF p
<1>11. ValueOf(n, out) = (ValueOf(n, a) + ValueOf(n, b)) % Size(n)
  BY <1>8, <1>9, <1>10, DivisionIsUnique
<1> QED
  BY <1>6, <1>11 DEF out

\* The complement of a number in words, and one more.
LEMMA NegatedWords ==
  ASSUME NEW n \in Nat, NEW a \in Words(n)
  PROVE  /\ uintnwords_negate_o(n, a) \in Words(n)
         /\ ValueOf(n, uintnwords_negate_o(n, a)) = (Size(n) - ValueOf(n, a)) % Size(n)
<1> DEFINE b == [i \in 1 .. n |-> Base - 1 - a[i]]
           out == uintnwords_succ_o(n, b)
           Ones(i) == \A j \in i + 1 .. n : b[j] = Base - 1
           c == [i \in 0 .. n |-> IF Ones(i) THEN 1 ELSE 0]
           zeros == [i \in 1 .. n |-> 0]
           d == [i \in 0 .. n |-> IF i = 0 THEN 0 ELSE 0]
<1>0. Base \in Nat /\ Base >= 2
  BY WordSizes
<1>1. uintnwords_negate_o(n, a) = out
  BY DEF uintnwords_negate_o
<1>2. \A i \in 1 .. n : a[i] \in Nat /\ a[i] < Base
  BY WordsAreNumbers
<1>3. \A i \in 1 .. n : b[i] \in Nat /\ b[i] < Base /\ a[i] + b[i] = Base - 1
  BY <1>0, <1>2
<1>4. \A i \in 1 .. n : out[i] = IF Ones(i) THEN (b[i] + 1) % Base ELSE b[i]
  BY DEF uintnwords_succ_o
<1>5. out = [i \in 1 .. n |-> out[i]]
  BY DEF uintnwords_succ_o
<1>6. c \in [0 .. n -> {0, 1}] /\ c[n] = 1
  OBVIOUS
<1> HIDE DEF out, b
<1>7. ASSUME NEW i \in 1 .. n
      PROVE  out[i] \in Word /\ b[i] + zeros[i] + c[i] = out[i] + Base * c[i - 1]
  <2>1. zeros[i] = 0 /\ i \in 0 .. n /\ i - 1 \in 0 .. n /\ (i - 1) + 1 = i
    OBVIOUS
  <2>2. Ones(i - 1) <=> Ones(i) /\ b[i] = Base - 1
    <3>1. \A j : j \in (i - 1) + 1 .. n <=> j = i \/ j \in i + 1 .. n
      OBVIOUS
    <3> QED
      BY <3>1
  <2>3. c[i] = (IF Ones(i) THEN 1 ELSE 0) /\ c[i - 1] = (IF Ones(i - 1) THEN 1 ELSE 0)
    BY <2>1
  <2> HIDE DEF Ones, c, zeros
  <2>4. CASE ~Ones(i)
    BY <1>0, <1>3, <1>4, <2>1, <2>2, <2>3, <2>4 DEF Word
  <2>5. CASE Ones(i)
    <3>1. b[i] \in Nat /\ b[i] < Base /\ 1 \in {0, 1}
      BY <1>3
    <3>2. out[i] = (b[i] + 1) % Base
      BY <1>4, <2>5
    <3>3. CASE b[i] = Base - 1
      <4>1. b[i] + 1 = 1 * Base + 0 /\ 0 \in 0 .. Base - 1
        BY <1>0, <3>3
      <4>2. out[i] = 0
        BY <1>0, <3>2, <4>1, DivisionIsUnique
      <4> QED
        BY <1>0, <2>1, <2>2, <2>3, <2>5, <3>3, <4>1, <4>2 DEF Word
    <3>4. CASE b[i] # Base - 1
      <4>1. b[i] + 1 \in Nat /\ b[i] + 1 < Base
        BY <1>0, <3>1, <3>4
      <4>2. out[i] = b[i] + 1
        BY <1>0, <3>2, <4>1, SmallQuotient
      <4> QED
        BY <1>0, <2>1, <2>2, <2>3, <2>5, <3>1, <3>4, <4>1, <4>2 DEF Word
    <3> QED
      BY <3>3, <3>4
  <2> QED
    BY <2>4, <2>5
<1>8. out \in Words(n)
  BY <1>5, <1>7 DEF Words
<1>9. \A i \in 1 .. n : zeros[i] = 0
  OBVIOUS
<1> HIDE DEF zeros, c
<1>10. ValueOf(n, b) + ValueOf(n, zeros) + 1 = ValueOf(n, out) + c[0] * Size(n)
  <2>1. \A i \in 1 .. n : out[i] \in Nat
    BY <1>8, WordsAreNumbers
  <2>2. \A i \in 1 .. n : b[i] \in Nat /\ zeros[i] \in Nat
    BY <1>3, <1>9
  <2>3. \A i \in 1 .. n :
          b[i] \in Nat /\ zeros[i] \in Nat /\ out[i] \in Nat
          /\ b[i] + zeros[i] + c[i] = out[i] + Base * c[i - 1]
    BY <1>7, <2>1, <2>2
  <2> HIDE DEF Ones
  <2>4. ValueOf(n, b) + ValueOf(n, zeros) + c[n] = ValueOf(n, out) + c[0] * Size(n)
    BY <1>6, <2>3, CarriesRipple
  <2> QED
    BY <1>6, <2>4
<1>11. ValueOf(n, zeros) = 0
  <2> DEFINE Good == {k \in Nat : k <= n => ValueOf(k, zeros) = 0}
  <2>1. \A i \in 1 .. n : zeros[i] \in Nat
    BY <1>9
  <2>2. 0 \in Good
    BY <2>1, ValueRounds
  <2>3. ASSUME NEW k \in Nat, k \in Good PROVE k + 1 \in Good
    <3>1. k < n => ValueOf(k + 1, zeros) = ValueOf(k, zeros) * Base + zeros[k + 1]
      BY <2>1, ValueRounds
    <3> QED
      BY <2>3, <3>1, <1>0, <1>9
  <2> HIDE DEF Good
  <2>4. n \in Good
    BY <2>2, <2>3, Rounds!NumbersInduce
  <2> QED
    BY <2>4 DEF Good
\* The complement: every word of a and b adds up to the largest word.
<1>12. ValueOf(n, a) + ValueOf(n, b) = Size(n) - 1
  <2> DEFINE Good == {k \in Nat : k <= n => ValueOf(k, a) + ValueOf(k, b) = Size(k) - 1}
  <2>1. \A i \in 1 .. n : a[i] \in Nat
    BY <1>2
  <2>2. \A i \in 1 .. n : b[i] \in Nat
    BY <1>3
  <2>3. ValueOf(0, a) = 0 /\ \A k \in Nat : k < n => ValueOf(k + 1, a) = ValueOf(k, a) * Base + a[k + 1]
    BY <2>1, ValueRounds
  <2>4. ValueOf(0, b) = 0 /\ \A k \in Nat : k < n => ValueOf(k + 1, b) = ValueOf(k, b) * Base + b[k + 1]
    BY <2>2, ValueRounds
  <2>5. Size(0) = 1
    BY WordSizes
  <2>6. 0 \in Good
    BY <2>3, <2>4, <2>5
  <2>7. ASSUME NEW k \in Nat, k \in Good PROVE k + 1 \in Good
    <3> SUFFICES ASSUME k < n PROVE ValueOf(k + 1, a) + ValueOf(k + 1, b) = Size(k + 1) - 1
      OBVIOUS
    <3> DEFINE va == ValueOf(k, a)  vb == ValueOf(k, b)  s == Size(k)
    <3>1. ValueOf(k + 1, a) = va * Base + a[k + 1] /\ ValueOf(k + 1, b) = vb * Base + b[k + 1]
      BY <2>3, <2>4
    <3>2. Size(k + 1) = s * Base /\ s \in Nat
      BY WordSizes
    <3>3. va + vb = s - 1
      BY <2>7
    <3>4. va \in Nat /\ vb \in Nat
      BY <2>1, <2>2, ValueIsNumber
    <3>5. a[k + 1] \in Nat /\ b[k + 1] \in Nat /\ a[k + 1] + b[k + 1] = Base - 1
      BY <1>2, <1>3
    <3> HIDE DEF va, vb, s
    <3>6. (va + vb) * Base = s * Base - Base /\ (va + vb) * Base = va * Base + vb * Base
      BY <1>0, <3>2, <3>3, <3>4
    <3>7. va * Base \in Nat /\ vb * Base \in Nat /\ s * Base \in Nat
      BY <1>0, <3>2, <3>4, Products
    <3> QED
      BY <1>0, <3>1, <3>2, <3>5, <3>6, <3>7
  <2> HIDE DEF Good
  <2>8. n \in Good
    BY <2>6, <2>7, Rounds!NumbersInduce
  <2> QED
    BY <2>8 DEF Good
<1>13. ValueOf(n, a) \in Nat /\ ValueOf(n, a) < Size(n)
  BY ValueBounded
<1>14. ValueOf(n, out) \in Nat /\ ValueOf(n, out) < Size(n)
  BY <1>8, ValueBounded
<1>15. Size(n) \in Nat \ {0}
  BY WordSizes
<1>16. ValueOf(n, b) \in Nat
  BY <1>3, ValueIsNumber
<1>17. Size(n) - ValueOf(n, a) = c[0] * Size(n) + ValueOf(n, out)
  <2>1. c[0] \in {0, 1}
    BY <1>6
  <2> DEFINE p == c[0] * Size(n)
  <2>2. p \in Int
    BY <1>15, <2>1
  <2>3. ValueOf(n, b) + 0 + 1 = ValueOf(n, out) + p
    BY <1>10, <1>11
  <2> HIDE DEF p
  <2>4. Size(n) - ValueOf(n, a) = p + ValueOf(n, out)
    BY <1>12, <1>13, <1>14, <1>15, <1>16, <2>2, <2>3
  <2> QED
    BY <2>4 DEF p
<1>18. Size(n) - ValueOf(n, a) \in Nat /\ ValueOf(n, out) \in 0 .. Size(n) - 1 /\ c[0] \in Int
  BY <1>6, <1>13, <1>14, <1>15
<1>19. ValueOf(n, out) = (Size(n) - ValueOf(n, a)) % Size(n)
  BY <1>15, <1>17, <1>18, DivisionIsUnique
<1> QED
  BY <1>1, <1>8, <1>19

\* The words decide as the numbers do, from the first word that differs.
LEMMA SameWordsSameValue ==
  ASSUME NEW n \in Nat, NEW a \in Words(n), NEW b \in Words(n)
  PROVE  /\ uintnwords_le(n, a, b) <=> ValueOf(n, a) <= ValueOf(n, b)
         /\ (uintnwords_cmp(n, a, b) = 0) <=> ValueOf(n, a) = ValueOf(n, b)
<1> DEFINE differ == {i \in 1 .. n : a[i] # b[i]}
           Less(v, w) == \A k \in 0 .. n : ValueOf(k, v) < ValueOf(k, w) => ValueOf(n, v) < ValueOf(n, w)
<1>1. \A i \in 1 .. n : a[i] \in Nat /\ b[i] \in Nat /\ a[i] < Base /\ b[i] < Base
  BY WordsAreNumbers
<1>2. \A k \in 0 .. n : ValueOf(k, a) \in Nat /\ ValueOf(k, b) \in Nat
  BY ValueBounded
\* A prefix that is smaller stays smaller.
<1>3. ASSUME NEW v \in Words(n), NEW w \in Words(n), NEW m \in 0 .. n, ValueOf(m, v) < ValueOf(m, w)
      PROVE  ValueOf(n, v) < ValueOf(n, w)
  <2> DEFINE Good == {j \in Nat : m + j <= n => ValueOf(m + j, v) < ValueOf(m + j, w)}
  <2>1. 0 \in Good
    BY <1>3
  <2>2. ASSUME NEW j \in Nat, j \in Good PROVE j + 1 \in Good
    <3> SUFFICES ASSUME m + (j + 1) <= n PROVE ValueOf(m + (j + 1), v) < ValueOf(m + (j + 1), w)
      OBVIOUS
    <3> DEFINE k == m + j
               p == ValueOf(k, v)  q == ValueOf(k, w)
    <3>1. k \in Nat /\ k < n /\ m + (j + 1) = k + 1 /\ k + 1 \in 1 .. n /\ k \in 0 .. n
      OBVIOUS
    <3>2. p < q
      BY <2>2, <3>1
    <3> HIDE DEF k
    <3>3. \A i \in 1 .. n : v[i] \in Nat /\ v[i] < Base
      BY WordsAreNumbers
    <3>4. \A i \in 1 .. n : w[i] \in Nat /\ w[i] < Base
      BY WordsAreNumbers
    <3>5. ValueOf(k + 1, v) = p * Base + v[k + 1]
      BY <3>1, <3>3, ValueRounds
    <3>6. ValueOf(k + 1, w) = q * Base + w[k + 1]
      BY <3>1, <3>4, ValueRounds
    <3>7. p \in Nat /\ q \in Nat
      BY <3>1, ValueBounded
    <3>8. v[k + 1] \in Nat /\ w[k + 1] \in Nat /\ v[k + 1] < Base
      BY <3>1, <3>3, <3>4
    <3> HIDE DEF p, q
    <3>9. q * Base = p * Base + Base + (q - p - 1) * Base /\ (q - p - 1) * Base \in Nat
          /\ p * Base \in Nat
      <4>1. q - p - 1 \in Nat /\ Base \in Nat
        BY <3>2, <3>7, WordSizes
      <4> QED
        BY <3>7, <4>1, Products
    <3>10. p * Base + v[k + 1] < q * Base + w[k + 1]
      BY <3>8, <3>9, WordSizes
    <3> QED
      BY <3>1, <3>5, <3>6, <3>10
  <2> HIDE DEF Good
  <2>3. n - m \in Good /\ m + (n - m) = n
    BY <2>1, <2>2, Rounds!NumbersInduce
  <2> QED
    BY <2>3 DEF Good
<1>4. CASE differ = {}
  <2>1. \A i \in 1 .. n : a[i] = b[i] /\ b[i] \in Nat
    BY <1>1, <1>4
  <2>2. ValueOf(n, a) = ValueOf(n, b)
    BY <2>1, ValueSame
  <2>3. uintnwords_cmp(n, a, b) = 0
    BY <1>4 DEF uintnwords_cmp
  <2> QED
    BY <2>2, <2>3, ValueBounded DEF uintnwords_le
<1>5. CASE differ # {}
  <2> DEFINE first == CHOOSE i \in differ : \A j \in differ : i <= j
  <2>1. \E i \in differ : \A j \in differ : i <= j
    <3>1. differ \in SUBSET Nat
      OBVIOUS
    <3> HIDE DEF differ
    <3> QED
      BY <1>5, <3>1, Rounds!LeastNumber
  <2>2. first \in differ /\ \A j \in differ : first <= j
    BY <2>1
  <2>3. uintnwords_cmp(n, a, b) = IF a[first] < b[first] THEN -1 ELSE 1
    BY <1>5 DEF uintnwords_cmp
  <2> HIDE DEF first
  <2>4. first \in 1 .. n /\ first - 1 \in Nat /\ (first - 1) + 1 = first /\ first \in 0 .. n
    BY <2>2
  <2>5. \A i \in 1 .. first - 1 : a[i] = b[i] /\ b[i] \in Nat
    BY <1>1, <2>2, <2>4
  <2>6. ValueOf(first - 1, a) = ValueOf(first - 1, b)
    BY <2>4, <2>5, ValueSame
  <2> DEFINE p == ValueOf(first - 1, b) * Base
  <2>7. ValueOf(first, a) = p + a[first]
    BY <1>1, <2>4, <2>6, ValueGoes
  <2>8. ValueOf(first, b) = p + b[first]
    BY <1>1, <2>4, ValueGoes
  <2>9. p \in Nat
    <3>1. \A i \in 1 .. first - 1 : b[i] \in Nat
      BY <2>5
    <3>2. ValueOf(first - 1, b) \in Nat
      BY <2>4, <3>1, ValueIsNumber
    <3> QED
      BY <3>2, WordSizes, Products
  <2> HIDE DEF p
  <2>10. a[first] # b[first] /\ a[first] \in Nat /\ b[first] \in Nat
    BY <1>1, <2>2
  <2>11. CASE a[first] < b[first]
    <3>1. ValueOf(first, a) < ValueOf(first, b)
      BY <2>7, <2>8, <2>9, <2>10, <2>11
    <3>2. ValueOf(n, a) < ValueOf(n, b)
      BY <1>3, <2>4, <3>1
    <3>3. uintnwords_cmp(n, a, b) = -1
      BY <2>3, <2>11
    <3> QED
      BY <3>2, <3>3, ValueBounded DEF uintnwords_le
  <2>12. CASE ~(a[first] < b[first])
    <3>1. ValueOf(first, b) < ValueOf(first, a)
      BY <2>7, <2>8, <2>9, <2>10, <2>12
    <3>2. ValueOf(n, b) < ValueOf(n, a)
      BY <1>3, <2>4, <3>1
    <3>3. uintnwords_cmp(n, a, b) = 1
      BY <2>3, <2>12
    <3> QED
      BY <3>2, <3>3, ValueBounded DEF uintnwords_le
  <2> QED
    BY <2>11, <2>12
<1> QED
  BY <1>4, <1>5

------------------------------------------------------------------------------
(* Parts of numbers.                                                       *)

LEMMA PrefixAndRest ==
  ASSUME NEW m \in Nat, NEW n \in Nat, NEW words, \A i \in 1 .. m + n : words[i] \in Nat
  PROVE  ValueOf(m + n, words) = ValueOf(m, words) * Size(n) + ValueOf(n, From(words, m, n))
<1> DEFINE rest == From(words, m, n)
           Good == {k \in Nat : k <= n =>
                      ValueOf(m + k, words) = ValueOf(m, words) * Size(k) + ValueOf(k, rest)}
<1>1. \A i \in 1 .. n : rest[i] = words[m + i] /\ rest[i] \in Nat
  BY DEF From
<1> HIDE DEF rest
<1>2. \A i \in 1 .. n : rest[i] \in Nat
  BY <1>1
<1>3. ValueOf(0, rest) = 0 /\ \A k \in Nat : k < n => ValueOf(k + 1, rest) = ValueOf(k, rest) * Base + rest[k + 1]
  BY <1>2, ValueRounds
<1>4. \A k \in Nat : k < m + n => ValueOf(k + 1, words) = ValueOf(k, words) * Base + words[k + 1]
  <2>1. m + n \in Nat
    OBVIOUS
  <2> QED
    BY <2>1, ValueRounds
<1>5. ValueOf(m, words) \in Nat
  <2>1. \A i \in 1 .. m : words[i] \in Nat
    OBVIOUS
  <2> QED
    BY <2>1, ValueIsNumber
<1>6. \A k \in 0 .. n : ValueOf(k, rest) \in Nat
  BY <1>2, ValueIsNumber
<1>7. 0 \in Good
  <2>1. m + 0 = m /\ Size(0) = 1
    BY WordSizes
  <2> QED
    BY <2>1, <1>3, <1>5
<1>8. ASSUME NEW k \in Nat, k \in Good PROVE k + 1 \in Good
  <2> SUFFICES ASSUME k < n
               PROVE  ValueOf(m + (k + 1), words) = ValueOf(m, words) * Size(k + 1) + ValueOf(k + 1, rest)
    OBVIOUS
  <2> DEFINE p == ValueOf(m, words)  q == ValueOf(k, rest)  s == Size(k)
  <2>1. m + k \in Nat /\ m + k < m + n /\ m + (k + 1) = (m + k) + 1
    OBVIOUS
  <2>2. ValueOf(m + (k + 1), words) = ValueOf(m + k, words) * Base + words[(m + k) + 1]
    BY <1>4, <2>1
  <2>3. ValueOf(k + 1, rest) = q * Base + rest[k + 1]
    BY <1>3
  <2>4. k + 1 \in 1 .. n /\ m + (k + 1) = (m + k) + 1
    OBVIOUS
  <2>5. rest[k + 1] = words[(m + k) + 1] /\ rest[k + 1] \in Nat
    BY <1>1, <2>4
  <2>6. ValueOf(m + k, words) = p * s + q
    BY <1>8
  <2>7. Size(k + 1) = s * Base /\ s \in Nat /\ Base \in Nat
    BY WordSizes
  <2>8. p \in Nat /\ q \in Nat
    BY <1>5, <1>6
  <2> HIDE DEF p, q, s
  <2>9. (p * s + q) * Base = p * (s * Base) + q * Base
    <3>1. \A x, y, z, w \in Nat : (x * y + z) * w = x * (y * w) + z * w
      OBVIOUS
    <3> QED
      BY <3>1, <2>7, <2>8
  <2>10. p * (s * Base) \in Nat /\ q * Base \in Nat
    BY <2>7, <2>8, Products
  <2> DEFINE x == p * (s * Base)  y == q * Base
  <2>11. ValueOf(m + (k + 1), words) = (x + y) + rest[k + 1]
    BY <2>2, <2>5, <2>6, <2>9
  <2>12. p * Size(k + 1) = x
    BY <2>7
  <2>13. x \in Nat /\ y \in Nat
    BY <2>10
  <2>14. ValueOf(k + 1, rest) = y + rest[k + 1]
    BY <2>3
  <2> HIDE DEF x, y
  <2>15. ValueOf(m + (k + 1), words) = x + (y + rest[k + 1])
    BY <2>5, <2>11, <2>13
  <2> QED
    BY <2>12, <2>14, <2>15 DEF p
<1> HIDE DEF Good
<1>9. n \in Good
  BY <1>7, <1>8, Rounds!NumbersInduce
<1> QED
  BY <1>9 DEF Good, rest

LEMMA WordsSplit ==
  ASSUME NEW m \in Nat, NEW n \in Nat, NEW words \in Words(m + n)
  PROVE  /\ From(words, 0, m) \in Words(m) /\ From(words, m, n) \in Words(n)
         /\ ValueOf(m + n, words) = ValueOf(m, From(words, 0, m)) * Size(n) + ValueOf(n, From(words, m, n))
         /\ ValueOf(m, words) = ValueOf(m, From(words, 0, m))
<1>0. m + n \in Nat
  OBVIOUS
<1>1. \A i \in 1 .. m + n : words[i] \in Nat /\ words[i] \in Word
  BY <1>0, WordsAreNumbers DEF Words
<1>2. From(words, 0, m) \in Words(m) /\ \A i \in 1 .. m : From(words, 0, m)[i] = words[i]
  BY <1>1 DEF From, Words
<1>3. From(words, m, n) \in Words(n)
  <2>1. \A i \in 1 .. n : words[m + i] \in Word
    BY <1>1
  <2> QED
    BY <2>1 DEF From, Words
<1>4. ValueOf(m, words) = ValueOf(m, From(words, 0, m))
  <2>1. \A i \in 1 .. m : From(words, 0, m)[i] = words[i] /\ words[i] \in Nat
    BY <1>1, <1>2
  <2> QED
    BY <2>1, ValueSame
<1>5. ValueOf(m + n, words) = ValueOf(m, words) * Size(n) + ValueOf(n, From(words, m, n))
  BY <1>1, PrefixAndRest
<1> QED
  BY <1>2, <1>3, <1>4, <1>5

LEMMA WordsJoin ==
  ASSUME NEW m \in Nat, NEW n \in Nat, NEW v \in Words(m), NEW w \in Words(n)
  PROVE  /\ v \o w \in Words(m + n)
         /\ ValueOf(m + n, v \o w) = ValueOf(m, v) * Size(n) + ValueOf(n, w)
<1>1. v \in Seq(Word) /\ Len(v) = m /\ w \in Seq(Word) /\ Len(w) = n
  BY DEF Words
<1> DEFINE joined == v \o w
<1>2. joined \in Seq(Word) /\ Len(joined) = m + n
  BY <1>1, ConcatProperties
<1>3. \A i \in 1 .. m + n : joined[i] = IF i <= m THEN v[i] ELSE w[i - m]
  BY <1>1, ConcatProperties
<1> HIDE DEF joined
<1>4. joined \in Words(m + n)
  BY <1>2 DEF Words
<1>5. \A i \in 1 .. m : joined[i] = v[i] /\ v[i] \in Nat
  <2>1. \A i \in 1 .. m : v[i] \in Nat
    BY WordsAreNumbers
  <2> QED
    BY <2>1, <1>3
<1>6. \A i \in 1 .. n : From(joined, m, n)[i] = w[i] /\ w[i] \in Nat
  <2>1. \A i \in 1 .. n : w[i] \in Nat
    BY WordsAreNumbers
  <2>2. ASSUME NEW i \in 1 .. n PROVE From(joined, m, n)[i] = w[i]
    <3>1. m + i \in 1 .. m + n /\ ~(m + i <= m) /\ (m + i) - m = i
      OBVIOUS
    <3>2. joined[m + i] = w[i]
      BY <1>3, <3>1
    <3> QED
      BY <3>2 DEF From
  <2> QED
    BY <2>1, <2>2
<1>7. ValueOf(m, joined) = ValueOf(m, v)
  BY <1>5, ValueSame
<1>8. ValueOf(n, From(joined, m, n)) = ValueOf(n, w)
  BY <1>6, ValueSame
<1>9. m + n \in Nat
  OBVIOUS
<1>10. \A i \in 1 .. m + n : joined[i] \in Nat
  BY <1>4, <1>9, WordsAreNumbers
<1>11. ValueOf(m + n, joined) = ValueOf(m, joined) * Size(n) + ValueOf(n, From(joined, m, n))
  BY <1>10, PrefixAndRest
<1> QED
  BY <1>4, <1>7, <1>8, <1>11 DEF joined

LEMMA ZeroWords ==
  ASSUME NEW n \in Nat
  PROVE  Zeros(n) \in Words(n) /\ ValueOf(n, Zeros(n)) = 0
<1>1. 0 \in Word /\ Base \in Nat
  BY WordSizes DEF Word
<1>2. Zeros(n) \in Words(n) /\ \A i \in 1 .. n : Zeros(n)[i] = 0
  BY <1>1 DEF Zeros, Words
<1> DEFINE zeros == Zeros(n)
           Good == {k \in Nat : k <= n => ValueOf(k, zeros) = 0}
<1>3. ValueOf(0, zeros) = 0 /\ \A k \in Nat : k < n => ValueOf(k + 1, zeros) = ValueOf(k, zeros) * Base + zeros[k + 1]
  <2>1. \A i \in 1 .. n : zeros[i] \in Nat
    BY <1>2
  <2> QED
    BY <2>1, ValueRounds
<1> HIDE DEF zeros
<1>4. 0 \in Good
  BY <1>3
<1>5. ASSUME NEW k \in Nat, k \in Good PROVE k + 1 \in Good
  BY <1>1, <1>2, <1>3, <1>5 DEF zeros
<1> HIDE DEF Good
<1>6. n \in Good
  BY <1>4, <1>5, Rounds!NumbersInduce
<1> QED
  BY <1>2, <1>6 DEF Good, zeros

LEMMA OneWord ==
  ASSUME NEW x \in Word
  PROVE  <<x>> \in Words(1) /\ ValueOf(1, <<x>>) = x /\ x \in Nat
<1>1. x \in Nat /\ Base \in Nat
  BY WordSizes DEF Word
<1>2. <<x>> \in Words(1)
  BY DEF Words
<1>3. ValueOf(0, <<x>>) = 0 /\ ValueOf(0 + 1, <<x>>) = ValueOf(0, <<x>>) * Base + <<x>>[0 + 1]
  <2>1. \A i \in 1 .. 1 : <<x>>[i] \in Nat
    BY <1>1
  <2> QED
    BY <2>1, ValueRounds
<1> QED
  BY <1>1, <1>2, <1>3

LEMMA TwoWords ==
  ASSUME NEW x \in Word, NEW y \in Word
  PROVE  <<x, y>> \in Words(2) /\ ValueOf(2, <<x, y>>) = x * Base + y
<1>1. /\ <<x>> \in Words(1) /\ ValueOf(1, <<x>>) = x
      /\ <<y>> \in Words(1) /\ ValueOf(1, <<y>>) = y
  BY OneWord
<1>2. /\ <<x>> \o <<y>> \in Words(1 + 1)
      /\ ValueOf(1 + 1, <<x>> \o <<y>>) = ValueOf(1, <<x>>) * Size(1) + ValueOf(1, <<y>>)
  BY <1>1, WordsJoin
<1>3. <<x>> \o <<y>> = <<x, y>>
  <2>1. <<x>> \in Seq(Word) /\ <<y>> \in Seq(Word) /\ Len(<<x>>) = 1 /\ Len(<<y>>) = 1
    OBVIOUS
  <2> DEFINE joined == <<x>> \o <<y>>
  <2>2. joined \in Seq(Word) /\ Len(joined) = 2 /\ joined[1] = x /\ joined[2] = y
    BY <2>1, ConcatProperties
  <2> HIDE DEF joined
  <2>3. joined = <<x, y>>
    BY <2>2
  <2> QED
    BY <2>3 DEF joined
<1>4. Size(0 + 1) = Size(0) * Base /\ Size(0) = 1 /\ Base \in Nat
  BY WordSizes
<1>5. Size(1) = Base /\ 1 + 1 = 2
  BY <1>4
<1> QED
  BY <1>1, <1>2, <1>3, <1>5, Zenon

------------------------------------------------------------------------------
(* Products.                                                               *)

LEMMA SumFits ==
  ASSUME NEW n \in Nat, NEW a \in Words(n), NEW b \in Words(n),
         ValueOf(n, a) + ValueOf(n, b) < Size(n)
  PROVE  /\ uintnwords_add_o(n, a, b) \in Words(n)
         /\ ValueOf(n, uintnwords_add_o(n, a, b)) = ValueOf(n, a) + ValueOf(n, b)
<1>1. ValueOf(n, a) + ValueOf(n, b) \in Nat
  BY ValueBounded
<1>2. Size(n) \in Nat \ {0}
  BY WordSizes
<1>3. (ValueOf(n, a) + ValueOf(n, b)) % Size(n) = ValueOf(n, a) + ValueOf(n, b)
  BY <1>1, <1>2, SmallQuotient
<1> QED
  BY <1>3, SumOfWords

LEMMA HalfSizes == HalfBase \in Nat \ {0} /\ HalfBase * HalfBase = Base
<1>1. WordBits \div 2 \in Nat /\ (WordBits \div 2) + (WordBits \div 2) = WordBits
  <2>1. WordBits \in Nat /\ WordBits % 2 = 0
    BY UintAssumption
  <2> QED
    BY <2>1
<1>2. HalfBase \in Nat \ {0}
  BY <1>1, PowerIsNumber DEF HalfBase
<1>3. Base = HalfBase * HalfBase
  BY <1>1, PowersMultiply DEF Base, HalfBase
<1> QED
  BY <1>2, <1>3

\* A word is its halves.
LEMMA Halves ==
  ASSUME NEW w \in Word
  PROVE  /\ w \div HalfBase \in 0 .. HalfBase - 1 /\ w % HalfBase \in 0 .. HalfBase - 1
         /\ w = (w \div HalfBase) * HalfBase + (w % HalfBase)
<1>1. w \in Nat /\ w < Base
  BY WordSizes DEF Word
<1> DEFINE q == w \div HalfBase  r == w % HalfBase  h == HalfBase
<1>2. h \in Nat \ {0} /\ h * h = Base
  BY HalfSizes
<1>3. q \in Nat /\ r \in 0 .. h - 1 /\ w = q * h + r
  BY <1>1, <1>2, Division
<1> HIDE DEF q, r, h
<1>4. q < h
  <2> SUFFICES ASSUME q >= h PROVE FALSE
    BY <1>2, <1>3
  <2>1. q * h = h * h + (q - h) * h /\ (q - h) * h \in Nat
    BY <1>2, <1>3
  <2> QED
    BY <1>1, <1>2, <1>3, <2>1
<1> QED
  BY <1>2, <1>3, <1>4 DEF q, r, h

LEMMA HalfProducts ==
  ASSUME NEW x \in 0 .. HalfBase - 1, NEW y \in 0 .. HalfBase - 1
  PROVE  (x * y) % Base = x * y /\ x * y \in Word
<1> DEFINE h == HalfBase
<1>1. h \in Nat \ {0} /\ h * h = Base
  BY HalfSizes
<1>2. x * y \in Nat /\ x * y < h * h
  <2>1. x \in Nat /\ y \in Nat /\ h - x \in Nat /\ h - y - 1 \in Nat /\ h - x # 0
    BY <1>1
  <2> HIDE DEF h
  <2>2. h * h = x * y + x * (h - y - 1) + x + (h - x) * h
    BY <1>1, <2>1
  <2>3. x * (h - y - 1) \in Nat /\ x * y \in Nat
    BY <2>1, Products
  <2>4. (h - x) * h = (h - x - 1) * h + h /\ (h - x - 1) * h \in Nat
    BY <1>1, <2>1
  <2> QED
    BY <1>1, <2>1, <2>2, <2>3, <2>4
<1>3. Base \in Nat \ {0}
  BY WordSizes
<1> QED
  BY <1>1, <1>2, <1>3, SmallQuotient DEF Word

\* A product of half words, half a word up, in two words.
LEMMA MiddleWords ==
  ASSUME NEW m \in Word
  PROVE  /\ <<m \div HalfBase, (m * HalfBase) % Base>> \in Words(2)
         /\ ValueOf(2, <<m \div HalfBase, (m * HalfBase) % Base>>) = m * HalfBase
<1> DEFINE q == m \div HalfBase  r == m % HalfBase  h == HalfBase
<1>1. h \in Nat \ {0} /\ h * h = Base /\ Base \in Nat \ {0}
  BY HalfSizes, WordSizes
<1>2. q \in 0 .. h - 1 /\ r \in 0 .. h - 1 /\ m = q * h + r
  BY Halves
<1> HIDE DEF q, r
<1>4. m * h = q * Base + r * h
  BY <1>1, <1>2
<1>5. r * h \in 0 .. Base - 1
  <2>1. h * h = r * h + (h - r) * h /\ h - r \in Nat \ {0}
    BY <1>1, <1>2
  <2>2. \A x, y \in Nat \ {0} : x * y \in Nat \ {0}
    OBVIOUS
  <2>3. (h - r) * h \in Nat \ {0} /\ r * h \in Nat
    BY <1>1, <1>2, <2>1, <2>2
  <2> QED
    BY <1>1, <2>1, <2>3
<1>6. m * h \in Nat
  BY <1>1, WordSizes DEF Word
<1>7. (m * h) % Base = r * h
  <2> DEFINE x == m * h  z == r * h
  <2>1. x = q * Base + z /\ z \in 0 .. Base - 1 /\ x \in Nat /\ q \in Int
    BY <1>2, <1>4, <1>5, <1>6
  <2> HIDE DEF x, z
  <2>2. z = x % Base
    BY <1>1, <2>1, DivisionIsUnique
  <2> QED
    BY <2>2 DEF x, z
<1>8. q \in Word /\ (m * h) % Base \in Word
  <2>1. h <= h * h
    <3>1. h * h = h + (h - 1) * h /\ (h - 1) * h \in Nat
      BY <1>1
    <3> QED
      BY <1>1, <3>1
  <2> QED
    BY <1>1, <1>2, <1>5, <1>7, <2>1 DEF Word
<1>9. /\ <<q, (m * h) % Base>> \in Words(2)
      /\ ValueOf(2, <<q, (m * h) % Base>>) = q * Base + ((m * h) % Base)
  BY <1>8, TwoWords
<1>10. ValueOf(2, <<q, (m * h) % Base>>) = m * h
  BY <1>4, <1>7, <1>9
<1> QED
  BY <1>9, <1>10 DEF q, h

LEMMA ProductOfTwoWords ==
  ASSUME NEW a \in Word, NEW b \in Word
  PROVE  MultiplyWord(a, b) \in Words(2) /\ ValueOf(2, MultiplyWord(a, b)) = a * b
<1> DEFINE h == HalfBase
           p == a \div h  q == a % h  r == b \div h  s == b % h
           middle(m) == <<m \div h, (m * h) % Base>>
           ends == <<(p * r) % Base, (q * s) % Base>>
           m1 == (p * s) % Base  m2 == (r * q) % Base
           first == uintnwords_add_o(2, ends, middle(m1))
           second == uintnwords_add_o(2, first, middle(m2))
<1>1. MultiplyWord(a, b) = second
  BY DEF MultiplyWord
<1>2. h \in Nat \ {0} /\ h * h = Base
  BY HalfSizes
<1>3. p \in 0 .. h - 1 /\ q \in 0 .. h - 1 /\ a = p * h + q
  BY Halves
<1>4. r \in 0 .. h - 1 /\ s \in 0 .. h - 1 /\ b = r * h + s
  BY Halves
<1> HIDE DEF p, q, r, s
<1>5. (p * r) % Base = p * r /\ p * r \in Word
  BY <1>3, <1>4, HalfProducts
<1>6. (q * s) % Base = q * s /\ q * s \in Word
  BY <1>3, <1>4, HalfProducts
<1>7. m1 = p * s /\ m1 \in Word
  BY <1>3, <1>4, HalfProducts
<1>8. m2 = r * q /\ m2 \in Word
  BY <1>3, <1>4, HalfProducts
<1>9. ends \in Words(2) /\ ValueOf(2, ends) = (p * r) * Base + q * s
  BY <1>5, <1>6, TwoWords
<1>10. middle(m1) \in Words(2) /\ ValueOf(2, middle(m1)) = (p * s) * h
  BY <1>7, MiddleWords
<1>11. middle(m2) \in Words(2) /\ ValueOf(2, middle(m2)) = (r * q) * h
  BY <1>8, MiddleWords
<1> DEFINE e == (p * r) * Base + q * s  x == (p * s) * h  y == (r * q) * h
<1>12. a * b = e + x + y
  <2>1. p \in Int /\ q \in Int /\ r \in Int /\ s \in Int /\ h \in Int
    BY <1>2, <1>3, <1>4
  <2> HIDE DEF h
  <2>2. (p * h + q) * (r * h + s) = (p * r) * (h * h) + q * s + (p * s) * h + (r * q) * h
    BY <2>1
  <2> QED
    BY <1>2, <1>3, <1>4, <2>2
<1>13. e \in Nat /\ x \in Nat /\ y \in Nat
  <2>1. p * r \in Nat /\ q * s \in Nat /\ p * s \in Nat /\ r * q \in Nat /\ Base \in Nat /\ h \in Nat
    BY <1>2, <1>3, <1>4, Products, WordSizes
  <2> HIDE DEF h
  <2>2. (p * r) * Base \in Nat /\ (p * s) * h \in Nat /\ (r * q) * h \in Nat
    BY <2>1, Products
  <2> QED
    BY <2>1, <2>2
<1>14. a * b < Size(2)
  <2>1. Size(2) = Base * Base
    <3>1. Size(0 + 1) = Size(0) * Base /\ Size(1 + 1) = Size(1) * Base /\ Size(0) = 1 /\ Base \in Nat
      BY WordSizes
    <3> QED
      BY <3>1
  <2>2. a \in Nat /\ b \in Nat /\ a < Base /\ b < Base /\ Base \in Nat
    BY WordSizes DEF Word
  <2>3. Base * Base = a * b + a * (Base - b) + (Base - a) * Base
    BY <2>2
  <2>4. a * (Base - b) \in Nat /\ a * b \in Nat
    BY <2>2, Products
  <2>5. (Base - a) * Base = Base + (Base - a - 1) * Base /\ (Base - a - 1) * Base \in Nat
    BY <2>2, Products
  <2> QED
    BY <2>1, <2>2, <2>3, <2>4, <2>5
<1> HIDE DEF ends, middle, m1, m2, e, x, y
<1>15. first \in Words(2) /\ ValueOf(2, first) = e + x
  <2>1. ValueOf(2, ends) = e /\ ValueOf(2, middle(m1)) = x
    BY <1>9, <1>10 DEF e, x
  <2>2. e + x < Size(2)
    <3>1. Size(2) \in Nat
      BY WordSizes
    <3> QED
      BY <1>12, <1>13, <1>14, <3>1
  <2> QED
    BY <1>9, <1>10, <2>1, <2>2, SumFits
<1> HIDE DEF first
<1>16. second \in Words(2) /\ ValueOf(2, second) = (e + x) + y
  <2>1. ValueOf(2, middle(m2)) = y
    BY <1>11 DEF y
  <2>2. (e + x) + y < Size(2)
    BY <1>12, <1>14
  <2> QED
    BY <1>11, <1>15, <2>1, <2>2, SumFits
<1> QED
  BY <1>1, <1>12, <1>16

\* Taking off p modulo s, as adding what p lacks of s.
LEMMA ComplementAdded ==
  ASSUME NEW s \in Nat \ {0}, NEW p \in Nat, NEW q \in Nat, p <= q, q < s
  PROVE  (q + ((s - p) % s)) % s = q - p
<1>1. CASE p = 0
  <2>1. s - p = 1 * s + 0 /\ 0 \in 0 .. s - 1 /\ s - p \in Nat
    BY <1>1
  <2>2. (s - p) % s = 0
    BY <2>1, DivisionIsUnique
  <2>3. q % s = q
    BY SmallQuotient
  <2> QED
    BY <1>1, <2>2, <2>3
<1>2. CASE p # 0
  <2>1. s - p \in Nat /\ s - p < s
    BY <1>2
  <2>2. (s - p) % s = s - p
    BY <2>1, SmallQuotient
  <2> DEFINE t == q + (s - p)  d == q - p
  <2>3. t = 1 * s + d /\ d \in 0 .. s - 1 /\ t \in Nat /\ 1 \in Int
    BY <2>1
  <2> HIDE DEF t, d
  <2>4. t % s = d
    BY <2>3, DivisionIsUnique
  <2> QED
    BY <2>2, <2>4 DEF t, d
<1> QED
  BY <1>1, <1>2

\* A smaller number taken off a larger, either way round.
LEMMA TakenOff ==
  ASSUME NEW n \in Nat, NEW y \in Words(n), NEW x \in Words(n), ValueOf(n, x) <= ValueOf(n, y)
  PROVE  /\ uintnwords_add_o(n, y, uintnwords_negate_o(n, x)) \in Words(n)
         /\ ValueOf(n, uintnwords_add_o(n, y, uintnwords_negate_o(n, x))) = ValueOf(n, y) - ValueOf(n, x)
         /\ uintnwords_add_o(n, uintnwords_negate_o(n, x), y) \in Words(n)
         /\ ValueOf(n, uintnwords_add_o(n, uintnwords_negate_o(n, x), y)) = ValueOf(n, y) - ValueOf(n, x)
<1> DEFINE p == ValueOf(n, x)  q == ValueOf(n, y)  s == Size(n)
           negated == uintnwords_negate_o(n, x)  r == (s - p) % s
<1>1. p \in Nat /\ q \in Nat /\ p < s /\ q < s /\ p <= q
  BY ValueBounded
<1>2. s \in Nat \ {0}
  BY WordSizes
<1>3. negated \in Words(n) /\ ValueOf(n, negated) = r
  BY NegatedWords
<1> HIDE DEF negated
<1>4. /\ uintnwords_add_o(n, negated, y) \in Words(n)
      /\ ValueOf(n, uintnwords_add_o(n, negated, y)) = (r + q) % s
      /\ uintnwords_add_o(n, y, negated) \in Words(n)
      /\ ValueOf(n, uintnwords_add_o(n, y, negated)) = (q + r) % s
  BY <1>3, SumOfWords
<1> HIDE DEF p, q, s
<1>5. (q + r) % s = q - p
  BY <1>1, <1>2, ComplementAdded
<1>6. r \in Nat
  <2>1. s - p \in Nat
    BY <1>1, <1>2
  <2> QED
    BY <1>2, <2>1, Division
<1> HIDE DEF r
<1>7. r + q = q + r
  BY <1>1, <1>6
<1> QED
  BY <1>4, <1>5, <1>7 DEF p, q, negated

\* |a - b|
LEMMA DifferenceOfWords ==
  ASSUME NEW n \in Nat, NEW a \in Words(n), NEW b \in Words(n)
  PROVE  /\ Difference(n, a, b) \in Words(n)
         /\ ValueOf(n, Difference(n, a, b)) =
              IF ValueOf(n, a) <= ValueOf(n, b) THEN ValueOf(n, b) - ValueOf(n, a)
              ELSE ValueOf(n, a) - ValueOf(n, b)
<1>1. ASSUME NEW x \in Words(n), NEW y \in Words(n), ValueOf(n, x) <= ValueOf(n, y)
      PROVE  /\ uintnwords_add_o(n, uintnwords_negate_o(n, x), y) \in Words(n)
             /\ ValueOf(n, uintnwords_add_o(n, uintnwords_negate_o(n, x), y))
                  = ValueOf(n, y) - ValueOf(n, x)
  BY <1>1, TakenOff
<1>2. uintnwords_le(n, a, b) <=> ValueOf(n, a) <= ValueOf(n, b)
  BY SameWordsSameValue
<1>3. ValueOf(n, a) \in Nat /\ ValueOf(n, b) \in Nat
  BY ValueBounded
<1>4. CASE ValueOf(n, a) <= ValueOf(n, b)
  <2>1. Difference(n, a, b) = uintnwords_add_o(n, uintnwords_negate_o(n, a), b)
    BY <1>2, <1>4 DEF Difference
  <2> QED
    BY <1>1, <1>4, <2>1
<1>5. CASE ~(ValueOf(n, a) <= ValueOf(n, b))
  <2>1. Difference(n, a, b) = uintnwords_add_o(n, uintnwords_negate_o(n, b), a)
    BY <1>2, <1>5 DEF Difference
  <2>2. ValueOf(n, b) <= ValueOf(n, a)
    BY <1>3, <1>5
  <2> QED
    BY <1>1, <1>5, <2>1, <2>2
<1> QED
  BY <1>4, <1>5

\* product has the products of all numbers of n words.
Multiplies(product, n) ==
  \A a, b \in Words(n) :
    /\ product[<<a, b>>] \in Words(2 * n)
    /\ ValueOf(2 * n, product[<<a, b>>]) = ValueOf(n, a) * ValueOf(n, b)

\* The product of the outer and inner halves, from that of the differences.
LEMMA MixedProducts ==
  ASSUME NEW a1 \in Nat, NEW a2 \in Nat, NEW b1 \in Nat, NEW b2 \in Nat
  PROVE  /\ a1 <= a2 /\ b1 <= b2 => a1 * b1 + a2 * b2 - (a2 - a1) * (b2 - b1) = a1 * b2 + a2 * b1
         /\ a1 > a2 /\ b1 > b2 => a1 * b1 + a2 * b2 - (a1 - a2) * (b1 - b2) = a1 * b2 + a2 * b1
         /\ a1 <= a2 /\ b1 > b2 => a1 * b1 + a2 * b2 + (a2 - a1) * (b1 - b2) = a1 * b2 + a2 * b1
         /\ a1 > a2 /\ b1 <= b2 => a1 * b1 + a2 * b2 + (a1 - a2) * (b2 - b1) = a1 * b2 + a2 * b1
OBVIOUS

LEMMA ProductBelow ==
  ASSUME NEW x \in Nat, NEW y \in Nat, NEW p \in Nat, NEW q \in Nat, x < p, y < q
  PROVE  x * y \in Nat /\ x * y < p * q
<1>1. p * q = x * y + x * (q - y) + (p - x - 1) * q + q
  OBVIOUS
<1>2. x * y \in Nat /\ x * (q - y) \in Nat /\ (p - x - 1) * q \in Nat
  BY Products
<1> QED
  BY <1>1, <1>2

\* Reducing a part of a sum first.
LEMMA SumReduced ==
  ASSUME NEW x \in Nat, NEW y \in Nat, NEW s \in Nat \ {0}
  PROVE  ((x % s) + y) % s = (x + y) % s
<1> DEFINE q == x \div s  r == x % s  p == (r + y) \div s  t == (r + y) % s
<1>1. q \in Nat /\ r \in Nat /\ x = q * s + r
  BY Division
<1> HIDE DEF q, r
<1>2. p \in Nat /\ t \in 0 .. s - 1 /\ r + y = p * s + t
  <2>1. r + y \in Nat
    BY <1>1
  <2> QED
    BY <2>1, Division
<1> HIDE DEF p, t
<1>3. x + y = (q + p) * s + t
  <2>1. (q + p) * s = q * s + p * s /\ q * s \in Nat /\ p * s \in Nat
    BY <1>1, <1>2, Products
  <2> QED
    BY <1>1, <1>2, <2>1
<1>4. x + y \in Nat /\ q + p \in Int
  BY <1>1, <1>2
<1>5. t = (x + y) % s
  BY <1>2, <1>3, <1>4, DivisionIsUnique
<1> QED
  BY <1>5 DEF t, r

\* Karatsuba: products of halves make products of the whole.
LEMMA HalvesMultiply ==
  ASSUME NEW S \in Nat \ {0}, NEW product, Multiplies(product, S),
         NEW a \in Words(2 * S), NEW b \in Words(2 * S)
  PROVE  /\ MultiplyHalves(product, S, a, b) \in Words(2 * (2 * S))
         /\ ValueOf(2 * (2 * S), MultiplyHalves(product, S, a, b)) = ValueOf(2 * S, a) * ValueOf(2 * S, b)
<1> DEFINE M == 2 * S
           a1 == From(a, 0, S)  a2 == From(a, S, S)
           b1 == From(b, 0, S)  b2 == From(b, S, S)
           d1 == Difference(S, a1, a2)  d2 == Difference(S, b1, b2)
           upper == product[<<a1, b1>>]
           lower == product[<<a2, b2>>]
           crossed == product[<<d1, d2>>]
           middle == <<0>> \o crossed
           negated == uintnwords_negate_o(M + 1, middle)
           signed == IF Negative(S, a1, a2, b1, b2) THEN negated ELSE middle
           half == uintnwords_add_o(M + 1, signed, <<0>> \o upper)
           sum == uintnwords_add_o(M + 1, half, <<0>> \o lower)
           ends == upper \o lower
           placed == Zeros(S - 1) \o sum \o Zeros(S)
           x1 == ValueOf(S, a1)  x2 == ValueOf(S, a2)
           y1 == ValueOf(S, b1)  y2 == ValueOf(S, b2)
           s == Size(S)  z == Size(M + 1)
<1>1. MultiplyHalves(product, S, a, b) = uintnwords_add_o(2 * M, ends, placed)
  BY DEF MultiplyHalves
<1>2. /\ S \in Nat /\ S - 1 \in Nat /\ M \in Nat /\ M = S + S /\ 2 * S = S + S /\ M + 1 = 1 + M
      /\ M + 1 \in Nat /\ 2 * M = M + M /\ (S - 1) + (M + 1) = S + M
      /\ (S + M) + S = 2 * M /\ S + M \in Nat
  OBVIOUS
<1>3. /\ a1 \in Words(S) /\ a2 \in Words(S) /\ ValueOf(2 * S, a) = x1 * s + x2
      /\ b1 \in Words(S) /\ b2 \in Words(S) /\ ValueOf(2 * S, b) = y1 * s + y2
  <2>1. a \in Words(S + S) /\ b \in Words(S + S)
    BY <1>2
  <2> QED
    BY <1>2, <2>1, WordsSplit
<1>4. s \in Nat \ {0} /\ Base \in Nat /\ Base >= 2 /\ z \in Nat \ {0}
  BY <1>2, WordSizes
<1>5. Size(M) = s * s /\ z = Size(M) * Base
  BY <1>2, SizesMultiply, WordSizes
<1>6. x1 \in Nat /\ x2 \in Nat /\ y1 \in Nat /\ y2 \in Nat /\ x1 < s /\ x2 < s /\ y1 < s /\ y2 < s
  BY <1>2, <1>3, ValueBounded
<1> HIDE DEF a1, a2, b1, b2
<1>7. d1 \in Words(S) /\ ValueOf(S, d1) = IF x1 <= x2 THEN x2 - x1 ELSE x1 - x2
  BY <1>2, <1>3, DifferenceOfWords
<1>8. d2 \in Words(S) /\ ValueOf(S, d2) = IF y1 <= y2 THEN y2 - y1 ELSE y1 - y2
  BY <1>2, <1>3, DifferenceOfWords
<1> HIDE DEF d1, d2
<1>9. /\ upper \in Words(M) /\ ValueOf(M, upper) = x1 * y1
      /\ lower \in Words(M) /\ ValueOf(M, lower) = x2 * y2
  BY <1>3 DEF Multiplies
<1>10. crossed \in Words(M) /\ ValueOf(M, crossed) = ValueOf(S, d1) * ValueOf(S, d2)
  BY <1>7, <1>8 DEF Multiplies
<1>11. Negative(S, a1, a2, b1, b2) <=> (x1 <= x2 <=> y1 <= y2)
  <2>1. uintnwords_le(S, a1, a2) <=> x1 <= x2
    BY <1>2, <1>3, SameWordsSameValue
  <2>2. uintnwords_le(S, b1, b2) <=> y1 <= y2
    BY <1>2, <1>3, SameWordsSameValue
  <2> QED
    BY <2>1, <2>2 DEF Negative
<1> HIDE DEF upper, lower, crossed, M
<1>12. ASSUME NEW w \in Words(M)
       PROVE  <<0>> \o w \in Words(M + 1) /\ ValueOf(M + 1, <<0>> \o w) = ValueOf(M, w)
  <2>1. 0 \in Word
    BY <1>4 DEF Word
  <2>2. <<0>> \in Words(1) /\ ValueOf(1, <<0>>) = 0
    BY <2>1, OneWord
  <2>3. <<0>> \o w \in Words(1 + M) /\ ValueOf(1 + M, <<0>> \o w) = ValueOf(1, <<0>>) * Size(M) + ValueOf(M, w)
    BY <1>2, <2>2, WordsJoin
  <2>4. ValueOf(M, w) \in Nat /\ Size(M) \in Nat
    BY <1>2, ValueBounded, WordSizes
  <2>5. ValueOf(1, <<0>>) * Size(M) + ValueOf(M, w) = ValueOf(M, w)
    BY <2>2, <2>4
  <2> QED
    BY <1>2, <2>3, <2>5, Zenon
\* What is in the middle: the products of the outer and inner halves.
<1> DEFINE e == ValueOf(S, d1) * ValueOf(S, d2)
           u == x1 * y1  l == x2 * y2  o == x1 * y2 + x2 * y1
<1>13. /\ u \in Nat /\ u < s * s /\ l \in Nat /\ l < s * s /\ e \in Nat /\ e < s * s
       /\ o \in Nat /\ o < 2 * (s * s)
  <2> HIDE DEF x1, x2, y1, y2, s
  <2>1. u \in Nat /\ u < s * s /\ l \in Nat /\ l < s * s
    BY <1>4, <1>6, ProductBelow
  <2>2. x1 * y2 \in Nat /\ x1 * y2 < s * s /\ x2 * y1 \in Nat /\ x2 * y1 < s * s
    BY <1>4, <1>6, ProductBelow
  <2>3. ValueOf(S, d1) \in Nat /\ ValueOf(S, d1) < s /\ ValueOf(S, d2) \in Nat /\ ValueOf(S, d2) < s
    BY <1>4, <1>6, <1>7, <1>8
  <2>4. e \in Nat /\ e < s * s
    BY <1>4, <2>3, ProductBelow
  <2>5. s * s \in Nat
    BY <1>4, Products
  <2> DEFINE t == s * s  p == x1 * y2  q == x2 * y1
  <2>6. p + q \in Nat /\ p + q < 2 * t
    <3>1. p \in Nat /\ p < t /\ q \in Nat /\ q < t /\ t \in Nat
      BY <2>2, <2>5
    <3> HIDE DEF p, q, t
    <3> QED
      BY <3>1
  <2> QED
    BY <2>1, <2>4, <2>6
<1>14. o = IF Negative(S, a1, a2, b1, b2) THEN u + l - e ELSE u + l + e
  <2> HIDE DEF x1, x2, y1, y2
  <2>1. CASE x1 <= x2 /\ y1 <= y2
    <3>1. e = (x2 - x1) * (y2 - y1)
      BY <1>7, <1>8, <2>1
    <3> QED
      BY <1>6, <1>11, <2>1, <3>1, MixedProducts
  <2>2. CASE x1 > x2 /\ y1 > y2
    <3>1. e = (x1 - x2) * (y1 - y2)
      BY <1>6, <1>7, <1>8, <2>2
    <3> QED
      BY <1>6, <1>11, <2>2, <3>1, MixedProducts
  <2>3. CASE x1 <= x2 /\ y1 > y2
    <3>1. e = (x2 - x1) * (y1 - y2)
      BY <1>6, <1>7, <1>8, <2>3
    <3> QED
      BY <1>6, <1>11, <2>3, <3>1, MixedProducts
  <2>4. CASE x1 > x2 /\ y1 <= y2
    <3>1. e = (x1 - x2) * (y2 - y1)
      BY <1>6, <1>7, <1>8, <2>4
    <3> QED
      BY <1>6, <1>11, <2>4, <3>1, MixedProducts
  <2> QED
    BY <1>6, <2>1, <2>2, <2>3, <2>4
<1>15. z >= 2 * (s * s)
  <2> DEFINE t == s * s
  <2>1. z = t * Base /\ t \in Nat
    BY <1>4, <1>5, Products
  <2> HIDE DEF t, z
  <2>2. t * Base = 2 * t + t * (Base - 2) /\ t * (Base - 2) \in Nat
    BY <1>4, <2>1, Products
  <2>3. z >= 2 * t
    BY <2>1, <2>2
  <2> QED
    BY <2>3 DEF t
<1>16. /\ middle \in Words(M + 1) /\ ValueOf(M + 1, middle) = e
       /\ <<0>> \o upper \in Words(M + 1) /\ ValueOf(M + 1, <<0>> \o upper) = u
       /\ <<0>> \o lower \in Words(M + 1) /\ ValueOf(M + 1, <<0>> \o lower) = l
  BY <1>9, <1>10, <1>12
<1> DEFINE v == ValueOf(M + 1, signed)
           tt == s * s
<1> HIDE DEF middle
<1>17. signed \in Words(M + 1) /\ v = IF Negative(S, a1, a2, b1, b2) THEN (z - e) % z ELSE e
  BY <1>2, <1>16, NegatedWords
<1> HIDE DEF signed
<1>18. half \in Words(M + 1) /\ ValueOf(M + 1, half) = (v + u) % z
  BY <1>2, <1>16, <1>17, SumOfWords
<1> HIDE DEF half
<1>19. sum \in Words(M + 1) /\ ValueOf(M + 1, sum) = (((v + u) % z) + l) % z
  BY <1>2, <1>16, <1>18, SumOfWords
<1> HIDE DEF sum
<1>20. tt \in Nat /\ u < tt /\ l < tt /\ e < tt /\ o < 2 * tt /\ z >= 2 * tt
  <2>1. tt \in Nat
    BY <1>4, Products
  <2> QED
    BY <2>1, <1>13, <1>15
<1>21. u \in Nat /\ l \in Nat /\ e \in Nat /\ o \in Nat
  BY <1>13
<1> HIDE DEF u, l, e, o, tt, z, v
<1>22. (((v + u) % z) + l) % z = o
  <2>1. v \in Nat
    BY <1>2, <1>17, ValueBounded DEF v
  <2>2. v + u \in Nat /\ (v + u) + l \in Nat
    BY <1>21, <2>1
  <2>3. (((v + u) % z) + l) % z = ((v + u) + l) % z
    BY <1>4, <1>21, <2>2, SumReduced
  <2>4. CASE ~Negative(S, a1, a2, b1, b2)
    <3>1. (v + u) + l = o
      BY <1>14, <1>17, <1>21, <2>4
    <3>2. o < z
      BY <1>4, <1>20, <1>21
    <3> QED
      BY <1>4, <1>21, <2>3, <3>1, <3>2, SmallQuotient
  <2>5. CASE Negative(S, a1, a2, b1, b2)
    <3>1. v = (z - e) % z /\ o = u + l - e
      BY <1>14, <1>17, <2>5
    <3>2. z - e \in Nat /\ u + l \in Nat
      BY <1>4, <1>20, <1>21
    <3>3. (v + (u + l)) % z = ((z - e) + (u + l)) % z
      BY <1>4, <3>1, <3>2, SumReduced
    <3> DEFINE t == (z - e) + (u + l)
    <3>4. t = 1 * z + o /\ o \in 0 .. z - 1 /\ t \in Nat /\ 1 \in Int
      BY <1>4, <1>20, <1>21, <3>1, <3>2
    <3>5. (v + u) + l = v + (u + l)
      BY <1>21, <2>1
    <3> HIDE DEF t
    <3>6. o = t % z
      BY <1>4, <3>4, DivisionIsUnique
    <3> QED
      BY <2>3, <3>3, <3>5, <3>6 DEF t
  <2> QED
    BY <2>4, <2>5
<1>23. sum \in Words(M + 1) /\ ValueOf(M + 1, sum) = o
  BY <1>19, <1>22
<1>24. ends \in Words(2 * M) /\ ValueOf(2 * M, ends) = u * Size(M) + l
  <2>1. ends \in Words(M + M) /\ ValueOf(M + M, ends) = ValueOf(M, upper) * Size(M) + ValueOf(M, lower)
    BY <1>2, <1>9, WordsJoin
  <2>2. ValueOf(M, upper) = u /\ ValueOf(M, lower) = l
    BY <1>9 DEF u, l
  <2> HIDE DEF ends
  <2> QED
    BY <1>2, <2>1, <2>2, Zenon
<1>25. placed \in Words(2 * M) /\ ValueOf(2 * M, placed) = o * s
  <2> DEFINE left == Zeros(S - 1) \o sum  zeros == Zeros(S)  front == Zeros(S - 1)
  <2>1. zeros \in Words(S) /\ ValueOf(S, zeros) = 0
    BY <1>2, ZeroWords
  <2>2. front \in Words(S - 1) /\ ValueOf(S - 1, front) = 0
    BY <1>2, ZeroWords
  <2>3. left \in Words((S - 1) + (M + 1))
        /\ ValueOf((S - 1) + (M + 1), left) = ValueOf(S - 1, front) * Size(M + 1) + ValueOf(M + 1, sum)
    BY <1>2, <1>23, <2>2, WordsJoin
  <2>4. left \in Words(S + M) /\ ValueOf(S + M, left) = 0 * z + o
    <3> HIDE DEF left, front
    <3> QED
      BY <1>2, <1>23, <2>2, <2>3, Zenon DEF z
  <2>5. 0 * z + o = o
    BY <1>4, <1>21
  <2>6. placed = left \o zeros
    OBVIOUS
  <2> HIDE DEF left, zeros
  <2>7. left \o zeros \in Words((S + M) + S)
        /\ ValueOf((S + M) + S, left \o zeros) = ValueOf(S + M, left) * Size(S) + ValueOf(S, zeros)
    BY <1>2, <2>1, <2>4, WordsJoin
  <2>8. o * s + 0 = o * s
    BY <1>4, <1>21
  <2> HIDE DEF placed
  <2> QED
    BY <1>2, <2>1, <2>4, <2>5, <2>6, <2>7, <2>8, Zenon DEF s
<1> HIDE DEF placed, ends
<1>26. (x1 * s + x2) * (y1 * s + y2) = (u * Size(M) + l) + o * s
  <2> HIDE DEF x1, x2, y1, y2, s
  <2>1. (x1 * s + x2) * (y1 * s + y2) = ((x1 * y1) * (s * s) + x2 * y2) + (x1 * y2 + x2 * y1) * s
    BY <1>4, <1>6
  <2> QED
    BY <1>5, <2>1 DEF u, l, o
<1>27. ValueOf(2 * S, a) * ValueOf(2 * S, b) = (u * Size(M) + l) + o * s
  BY <1>3, <1>26
<1>28. (u * Size(M) + l) + o * s < Size(2 * M)
  <2>1. ValueOf(M, a) \in Nat /\ ValueOf(M, a) < Size(M) /\ ValueOf(M, b) \in Nat /\ ValueOf(M, b) < Size(M)
    BY <1>2, ValueBounded DEF M
  <2>2. Size(2 * M) = Size(M) * Size(M) /\ Size(M) \in Nat
    BY <1>2, SizesMultiply, WordSizes
  <2>3. ValueOf(M, a) * ValueOf(M, b) < Size(M) * Size(M)
    BY <2>1, <2>2, ProductBelow
  <2> QED
    BY <1>27, <2>2, <2>3 DEF M
<1>29. uintnwords_add_o(2 * M, ends, placed) \in Words(2 * M)
       /\ ValueOf(2 * M, uintnwords_add_o(2 * M, ends, placed)) = (u * Size(M) + l) + o * s
  <2>1. 2 * M \in Nat
    BY <1>2
  <2> QED
    BY <1>24, <1>25, <1>28, <2>1, SumFits
<1> QED
  BY <1>1, <1>27, <1>29 DEF M

\* The tables of products, each from the one before it.
Pairs == Seq(Word) \X Seq(Word)
FirstProducts == [ab \in Pairs |-> MultiplyWord(ab[1][1], ab[2][1])]
NextProducts(f, k) == [ab \in Pairs |-> MultiplyHalves(f, IntegerPower(2, k - 1), ab[1], ab[2])]
ProductTables == INSTANCE FoldsAndLoops WITH Op <- NextProducts, Base <- 0, D <- Nat

IsProduct(product, n) ==
  product = [k \in 0 .. n |->
    [ab \in Pairs |->
       IF k = 0 THEN MultiplyWord(ab[1][1], ab[2][1])
       ELSE MultiplyHalves(product[k - 1], IntegerPower(2, k - 1), ab[1], ab[2])]]

LEMMA ProductGoes ==
  ASSUME NEW n \in Nat
  PROVE  \E product :
           /\ product[0] = FirstProducts
           /\ \A k \in 1 .. n : product[k] = NextProducts(product[k - 1], k)
           /\ \A a, b : uintfn_mult_o(n, a, b) = product[n][<<a, b>>]
<1> DEFINE product == CHOOSE product : IsProduct(product, n)
<1>1. \A a, b : uintfn_mult_o(n, a, b) = product[n][<<a, b>>]
  BY DEF uintfn_mult_o, IsProduct, Pairs
<1>2. PICK g : ProductTables!Goes(g, FirstProducts, n)
  BY ProductTables!LoopGoes
<1>3. IsProduct(g, n)
  <2>1. \A k \in 0 .. n : g[k] = IF k = 0 THEN FirstProducts ELSE NextProducts(g[k - 1], k)
    BY <1>2 DEF ProductTables!Goes
  <2>2. g = [k \in 0 .. n |-> g[k]]
    BY <1>2 DEF ProductTables!Goes
  <2>3. ASSUME NEW k \in 0 .. n
        PROVE  g[k] = [ab \in Pairs |->
                 IF k = 0 THEN MultiplyWord(ab[1][1], ab[2][1])
                 ELSE MultiplyHalves(g[k - 1], IntegerPower(2, k - 1), ab[1], ab[2])]
    <3>1. CASE k = 0
      BY <2>1, <3>1 DEF FirstProducts
    <3>2. CASE k # 0
      <4>1. g[k] = NextProducts(g[k - 1], k)
        BY <2>1, <3>2
      <4> QED
        BY <4>1, <3>2 DEF NextProducts
    <3> QED
      BY <3>1, <3>2
  <2> QED
    BY <2>2, <2>3 DEF IsProduct
<1>4. IsProduct(product, n)
  BY <1>3
<1> HIDE DEF product
<1>5. product[0] = FirstProducts
  BY <1>4 DEF IsProduct, FirstProducts
<1>6. ASSUME NEW k \in 1 .. n PROVE product[k] = NextProducts(product[k - 1], k)
  <2>1. k \in 0 .. n /\ k # 0
    OBVIOUS
  <2>2. product[k] = [ab \in Pairs |->
                 IF k = 0 THEN MultiplyWord(ab[1][1], ab[2][1])
                 ELSE MultiplyHalves(product[k - 1], IntegerPower(2, k - 1), ab[1], ab[2])]
    BY <1>4, <2>1 DEF IsProduct
  <2> QED
    BY <2>1, <2>2 DEF NextProducts
<1> QED
  BY <1>1, <1>5, <1>6

LEMMA WordsAreSequences ==
  ASSUME NEW n \in Nat
  PROVE  \A a, b \in Words(n) : <<a, b>> \in Pairs
<1>1. Words(n) \subseteq Seq(Word)
  BY SeqDef DEF Words
<1> QED
  BY <1>1 DEF Pairs

\* Numbers of 2^n words multiply.
LEMMA ProductOfWords ==
  ASSUME NEW n \in Nat, NEW N, N = IntegerPower(2, n), NEW a \in Words(N), NEW b \in Words(N)
  PROVE  /\ N \in Nat \ {0}
         /\ uintfn_mult_o(n, a, b) \in Words(2 * N)
         /\ ValueOf(2 * N, uintfn_mult_o(n, a, b)) = ValueOf(N, a) * ValueOf(N, b)
<1>1. PICK product : /\ product[0] = FirstProducts
                     /\ \A k \in 1 .. n : product[k] = NextProducts(product[k - 1], k)
                     /\ \A u, v : uintfn_mult_o(n, u, v) = product[n][<<u, v>>]
  BY ProductGoes
<1> DEFINE Good == {k \in Nat : k <= n => Multiplies(product[k], IntegerPower(2, k))}
<1>2. 0 \in Good
  <2>1. IntegerPower(2, 0) = 1
    BY IntegerPowerGoes
  <2>2. ASSUME NEW u \in Words(1), NEW v \in Words(1)
        PROVE  /\ product[0][<<u, v>>] \in Words(2)
               /\ ValueOf(2, product[0][<<u, v>>]) = ValueOf(1, u) * ValueOf(1, v)
    <3>1. u[1] \in Word /\ v[1] \in Word /\ u = <<u[1]>> /\ v = <<v[1]>>
      BY DEF Words
    <3>2. ValueOf(1, u) = u[1] /\ ValueOf(1, v) = v[1]
      <4>1. ValueOf(1, <<u[1]>>) = u[1] /\ ValueOf(1, <<v[1]>>) = v[1]
        BY <3>1, OneWord
      <4> QED
        BY <3>1, <4>1, Zenon
    <3>3. product[0][<<u, v>>] = MultiplyWord(u[1], v[1])
      <4>1. <<u, v>> \in Pairs /\ <<u, v>>[1] = u /\ <<u, v>>[2] = v
        BY WordsAreSequences
      <4> QED
        BY <1>1, <4>1 DEF FirstProducts
    <3> QED
      BY <3>1, <3>2, <3>3, ProductOfTwoWords
  <2>3. Multiplies(product[0], 1)
    <3>1. 2 * 1 = 2
      OBVIOUS
    <3> QED
      BY <2>2, <3>1, Zenon DEF Multiplies
  <2> QED
    BY <2>1, <2>3
<1>3. ASSUME NEW k \in Nat, k \in Good PROVE k + 1 \in Good
  <2> SUFFICES ASSUME k + 1 <= n PROVE Multiplies(product[k + 1], IntegerPower(2, k + 1))
    OBVIOUS
  <2> DEFINE S == IntegerPower(2, k)
  <2>1. S \in Nat \ {0} /\ IntegerPower(2, k + 1) = 2 * S
    <3>0. 2 \in Nat \ {0} /\ 2 \in Nat
      OBVIOUS
    <3>1. S \in Nat \ {0}
      BY <3>0, PowerIsNumber, Zenon
    <3>2. IntegerPower(2, k + 1) = S * 2
      BY <3>0, IntegerPowerGoes, Zenon
    <3> HIDE DEF S
    <3> QED
      BY <3>1, <3>2
  <2>2. Multiplies(product[k], S)
    BY <1>3
  <2>3. k + 1 \in 1 .. n /\ (k + 1) - 1 = k
    BY <1>3
  <2>4. product[k + 1] = NextProducts(product[k], k + 1)
    BY <1>1, <2>3
  <2> HIDE DEF S
  <2>5. ASSUME NEW u \in Words(2 * S), NEW v \in Words(2 * S)
        PROVE  /\ product[k + 1][<<u, v>>] \in Words(2 * (2 * S))
               /\ ValueOf(2 * (2 * S), product[k + 1][<<u, v>>]) = ValueOf(2 * S, u) * ValueOf(2 * S, v)
    <3>1. 2 * S \in Nat
      BY <2>1
    <3>2. <<u, v>> \in Pairs /\ <<u, v>>[1] = u /\ <<u, v>>[2] = v
      BY <3>1, WordsAreSequences
    <3>3. product[k + 1][<<u, v>>] = MultiplyHalves(product[k], S, u, v)
      BY <2>3, <2>4, <3>2 DEF NextProducts, S
    <3> QED
      BY <2>1, <2>2, <3>3, HalvesMultiply
  <2>6. Multiplies(product[k + 1], 2 * S)
    BY <2>5 DEF Multiplies
  <2> QED
    BY <2>1, <2>6
<1> HIDE DEF Good
<1>4. n \in Good
  BY <1>2, <1>3, Rounds!NumbersInduce
<1>5. Multiplies(product[n], N)
  BY <1>4 DEF Good
<1>6. N \in Nat \ {0}
  BY PowerIsNumber
<1>7. uintfn_mult_o(n, a, b) = product[n][<<a, b>>]
  BY <1>1
<1> QED
  BY <1>5, <1>6, <1>7, Zenon DEF Multiplies

\* The words of a number stand for it, as far as there is room.
LEMMA WordsOfNumber ==
  ASSUME NEW v \in Nat, NEW n \in Nat
  PROVE  WordsOf(v, n) \in Words(n) /\ ValueOf(n, WordsOf(v, n)) = v % Size(n)
<1> DEFINE w == WordsOf(v, n)
           Good == {k \in Nat : k <= n => ValueOf(k, w) = (v \div Size(n - k)) % Size(k)}
<1>1. ASSUME NEW i \in 1 .. n
      PROVE  w[i] = (v \div Size(n - i)) % Base /\ w[i] \in Word /\ w[i] \in Nat
  <2>1. n - i \in Nat
    OBVIOUS
  <2>2. Size(n - i) \in Nat \ {0} /\ Base \in Nat \ {0}
    BY <2>1, WordSizes
  <2>3. v \div Size(n - i) \in Nat
    BY <2>2, Division
  <2>4. (v \div Size(n - i)) % Base \in 0 .. Base - 1
    BY <2>2, <2>3, Division
  <2>5. w[i] = (v \div Size(n - i)) % Base
    BY DEF WordsOf
  <2> HIDE DEF w
  <2> QED
    BY <2>2, <2>4, <2>5 DEF Word
<1>2. w \in Words(n)
  <2>1. w = [i \in 1 .. n |-> w[i]]
    BY DEF WordsOf
  <2> HIDE DEF w
  <2> QED
    BY <1>1, <2>1 DEF Words
<1> HIDE DEF w
<1>0. /\ ValueOf(0, w) = 0
      /\ \A k \in Nat : k < n => ValueOf(k + 1, w) = ValueOf(k, w) * Base + w[k + 1]
  <2>1. \A i \in 1 .. n : w[i] \in Nat
    BY <1>1
  <2> QED
    BY <2>1, ValueRounds
<1>3. 0 \in Good
  <2>1. Size(n - 0) \in Nat \ {0} /\ Size(0) = 1
    BY WordSizes
  <2>2. v \div Size(n - 0) \in Nat
    BY <2>1, Division
  <2>3. (v \div Size(n - 0)) % 1 = 0
    BY <2>2
  <2> QED
    BY <1>0, <2>1, <2>3
<1>4. ASSUME NEW k \in Nat, k \in Good PROVE k + 1 \in Good
  <2> SUFFICES ASSUME k < n PROVE ValueOf(k + 1, w) = (v \div Size(n - (k + 1))) % Size(k + 1)
    OBVIOUS
  <2> DEFINE j == n - (k + 1)  s == Size(j)  t == Size(k)
             q == v \div s  r == v % s
             q2 == q \div Base  r2 == q % Base
             q3 == q2 \div t  r3 == q2 % t
  <2>1. j \in Nat /\ n - k = j + 1 /\ k + 1 \in 1 .. n /\ n - (k + 1) = j
    OBVIOUS
  <2>2. s \in Nat \ {0} /\ t \in Nat \ {0} /\ Size(j + 1) = s * Base /\ Size(k + 1) = t * Base
        /\ Base \in Nat \ {0}
    BY <2>1, WordSizes
  <2>3. w[k + 1] = r2
    BY <1>1, <2>1
  <2>4. ValueOf(k, w) = (v \div Size(j + 1)) % t
    BY <1>4, <2>1
  <2>5. ValueOf(k + 1, w) = ValueOf(k, w) * Base + w[k + 1]
    BY <1>0
  <2> HIDE DEF s, t, j
  <2>6. q \in Nat /\ r \in 0 .. s - 1 /\ v = q * s + r
    BY <2>2, Division
  <2> HIDE DEF q, r
  <2>7. q2 \in Nat /\ r2 \in 0 .. Base - 1 /\ q = q2 * Base + r2
    BY <2>2, <2>6, Division
  <2> HIDE DEF q2, r2
  <2>8. q3 \in Nat /\ r3 \in 0 .. t - 1 /\ q2 = q3 * t + r3
    BY <2>2, <2>7, Division
  <2> HIDE DEF q3, r3
  <2>9. v \div (s * Base) = q2
    <3> DEFINE y == s * Base  z == r2 * s + r
    <3>1. v = q2 * y + z
      BY <2>2, <2>6, <2>7
    <3>2. z \in 0 .. y - 1 /\ y \in Nat \ {0}
      <4>1. y = r2 * s + (Base - 1 - r2) * s + s
        BY <2>2, <2>7
      <4>2. r2 * s \in Nat /\ (Base - 1 - r2) * s \in Nat
        BY <2>2, <2>7, Products
      <4> QED
        BY <2>2, <2>6, <4>1, <4>2
    <3> HIDE DEF y, z
    <3> QED
      BY <2>7, <3>1, <3>2, DivisionIsUnique DEF y
  <2>10. q % (t * Base) = r3 * Base + r2
    <3> DEFINE y == t * Base  z == r3 * Base + r2
    <3>1. q = q3 * y + z
      BY <2>2, <2>7, <2>8
    <3>2. z \in 0 .. y - 1 /\ y \in Nat \ {0}
      <4>1. y = r3 * Base + (t - 1 - r3) * Base + Base
        BY <2>2, <2>8
      <4>2. r3 * Base \in Nat /\ (t - 1 - r3) * Base \in Nat
        BY <2>2, <2>8, Products
      <4> QED
        BY <2>2, <2>7, <4>1, <4>2
    <3> HIDE DEF y, z
    <3>3. q \in Nat /\ q3 \in Int
      BY <2>6, <2>8
    <3>4. z = q % y
      BY <3>1, <3>2, <3>3, DivisionIsUnique, Zenon
    <3> QED
      BY <3>4 DEF y, z
  <2>11. ValueOf(k, w) = r3
    BY <2>2, <2>4, <2>9 DEF r3
  <2> QED
    BY <2>1, <2>2, <2>3, <2>5, <2>10, <2>11 DEF q, s
<1> HIDE DEF Good
<1>5. n \in Good
  BY <1>3, <1>4, Rounds!NumbersInduce
<1>6. ValueOf(n, w) = (v \div Size(n - n)) % Size(n)
  BY <1>5 DEF Good
<1>7. Size(n - n) = 1 /\ v \div 1 = v
  BY WordSizes
<1> QED
  BY <1>2, <1>6, <1>7 DEF w

------------------------------------------------------------------------------
(* Remainders.                                                             *)

\* The estimate of a quotient, from a reciprocal that is rounded down.
LEMMA EstimatedQuotient ==
  ASSUME NEW N \in Nat \ {0}, NEW m \in Nat \ {0}, NEW R \in Nat, NEW s \in 0 .. m - 1,
         N = R * m + s,
         NEW a \in 0 .. N - 1, NEW q \in Nat, NEW t \in 0 .. N - 1, a * R = q * N + t
  PROVE  /\ q * m \in Nat /\ q * m <= a
         /\ a - q * m < 2 * m
<1> DEFINE x == a - q * m  y == m * t  z == a * s
<1>1. q * m \in Nat /\ x \in Int
  BY Products
<1>2. y \in Nat /\ z \in Nat /\ y < m * N /\ z < m * N
  <2>1. t \in Nat /\ s \in Nat /\ a \in Nat
    OBVIOUS
  <2>2. y \in Nat /\ z \in Nat /\ m * N \in Nat
    BY <2>1, Products
  <2>3. m * N = m * t + m * (N - t - 1) + m /\ m * (N - t - 1) \in Nat
    <3>1. N - t - 1 \in Nat
      OBVIOUS
    <3> QED
      BY <2>1, <3>1, Products
  <2>4. m * N = a * s + (N - a) * s + (m - s - 1) * N + N
        /\ (N - a) * s \in Nat /\ (m - s - 1) * N \in Nat
    <3>1. N - a \in Nat /\ m - s - 1 \in Nat
      OBVIOUS
    <3> QED
      BY <2>1, <3>1, Products
  <2> QED
    BY <2>2, <2>3, <2>4
<1>3. x * N = y + z
  <2>1. x * N = a * N - (q * N) * m
    OBVIOUS
  <2>2. a * N = a * (R * m + s)
    OBVIOUS
  <2>3. a * (R * m + s) = (a * R) * m + z
    OBVIOUS
  <2>4. (a * R) * m = (q * N + t) * m
    OBVIOUS
  <2>5. (q * N + t) * m = (q * N) * m + y
    OBVIOUS
  <2> DEFINE qnm == (q * N) * m  arm == (a * R) * m  an == a * N
  <2>6. qnm \in Int /\ arm \in Int /\ an \in Int
    OBVIOUS
  <2>7. x * N = an - qnm /\ an = arm + z /\ arm = qnm + y
    BY <2>1, <2>2, <2>3, <2>4, <2>5, Zenon
  <2> HIDE DEF qnm, arm, an, x, y, z
  <2> QED
    BY <1>1, <1>2, <2>6, <2>7
<1> HIDE DEF x, y, z
<1>4. x >= 0
  <2> SUFFICES ASSUME x < 0 PROVE FALSE
    BY <1>1
  <2>1. x * N <= -1 * N
    BY <1>1
  <2> QED
    BY <1>2, <1>3, <2>1
<1>5. x < 2 * m
  <2> SUFFICES ASSUME x >= 2 * m PROVE FALSE
    BY <1>1
  <2>1. x * N = (2 * m) * N + (x - 2 * m) * N /\ (x - 2 * m) * N \in Nat
    <3>1. x - 2 * m \in Nat
      BY <1>1
    <3> QED
      BY <1>1, <3>1, Products
  <2> DEFINE mn == m * N
  <2>2. (2 * m) * N = 2 * mn /\ mn \in Nat
    BY Products
  <2> HIDE DEF mn
  <2> QED
    BY <1>2, <1>3, <2>1, <2>2 DEF mn
<1> QED
  BY <1>1, <1>4, <1>5 DEF x

\* How many words a number has.
W == WordCount

LEMMA Counts ==
  /\ W \in Nat \ {0} /\ 2 * W \in Nat /\ 2 * W = W + W /\ IntegerPower(2, LogWords) = W
  /\ LogWords \in Nat /\ LogWords + 1 \in Nat /\ IntegerPower(2, LogWords + 1) = 2 * W
  /\ Size(W) \in Nat \ {0} /\ Size(2 * W) \in Nat \ {0} /\ Size(2 * W) = Size(W) * Size(W)
<1>1. LogWords \in Nat /\ LogWords + 1 \in Nat /\ 2 \in Nat \ {0} /\ 2 \in Nat
  BY UintAssumption
<1>2. W \in Nat \ {0}
  BY <1>1, PowerIsNumber DEF W, WordCount
<1>3. IntegerPower(2, LogWords + 1) = W * 2
  BY <1>1, IntegerPowerGoes DEF W, WordCount
<1>4. W * 2 = 2 * W /\ 2 * W \in Nat /\ 2 * W = W + W
  BY <1>2
<1>5. Size(W) \in Nat \ {0} /\ Size(2 * W) \in Nat \ {0}
  BY <1>2, <1>4, WordSizes
<1>6. Size(W + W) = Size(W) * Size(W)
  BY <1>2, SizesMultiply
<1> QED
  BY <1>1, <1>2, <1>3, <1>4, <1>5, <1>6 DEF W, WordCount

\* A modulus as the code keeps it.
LEMMA ModulusWords ==
  ASSUME NEW m \in Moduli
  PROVE  /\ m \in Nat /\ m >= 2 /\ m < Size(W)
         /\ Modulus(m).reciprocal \in Words(2 * W)
         /\ ValueOf(2 * W, Modulus(m).reciprocal) = Size(2 * W) \div m
         /\ promoted_modulus(Modulus(m)) \in Words(2 * W)
         /\ ValueOf(2 * W, promoted_modulus(Modulus(m))) = m
<1> DEFINE R == Size(2 * W) \div m
<1>1. m \in Nat \ {0} /\ m >= 2 /\ m < Size(W) /\ m \in Nat
  BY UintAssumption, Counts DEF W
<1>2. R \in Nat /\ R < Size(2 * W)
  <2> DEFINE N == Size(2 * W)  r == N % m
  <2>1. N \in Nat \ {0}
    BY Counts
  <2> HIDE DEF N
  <2>2. R \in Nat /\ r \in 0 .. m - 1 /\ N = R * m + r
    BY <1>1, <2>1, Division DEF N
  <2> HIDE DEF R, r
  <2>3. R * m = R * 2 + R * (m - 2) /\ R * (m - 2) \in Nat
    <3>1. m - 2 \in Nat
      BY <1>1
    <3> QED
      BY <1>1, <2>2, <3>1, Products
  <2> QED
    BY <2>1, <2>2, <2>3 DEF N
<1> HIDE DEF R
<1>3. WordsOf(R, 2 * W) \in Words(2 * W) /\ ValueOf(2 * W, WordsOf(R, 2 * W)) = R
  <2>1. ValueOf(2 * W, WordsOf(R, 2 * W)) = R % Size(2 * W) /\ WordsOf(R, 2 * W) \in Words(2 * W)
    BY <1>2, Counts, WordsOfNumber
  <2> QED
    BY <1>2, <2>1, Counts, SmallQuotient
<1>4. WordsOf(m, W) \in Words(W) /\ ValueOf(W, WordsOf(m, W)) = m
  <2>1. ValueOf(W, WordsOf(m, W)) = m % Size(W) /\ WordsOf(m, W) \in Words(W)
    BY <1>1, Counts, WordsOfNumber
  <2> QED
    BY <1>1, <2>1, Counts, SmallQuotient
<1>5. Modulus(m).reciprocal = WordsOf(R, 2 * W) /\ Modulus(m).modulus = WordsOf(m, W)
  BY DEF Modulus, R, W
<1>6. Zeros(W) \in Words(W) /\ ValueOf(W, Zeros(W)) = 0
  BY Counts, ZeroWords
<1>7. promoted_modulus(Modulus(m)) = Zeros(W) \o WordsOf(m, W)
  BY <1>5 DEF promoted_modulus, W
<1> DEFINE p == Zeros(W) \o WordsOf(m, W)
<1>8. p \in Words(W + W) /\ ValueOf(W + W, p) = ValueOf(W, Zeros(W)) * Size(W) + ValueOf(W, WordsOf(m, W))
  BY <1>4, <1>6, Counts, WordsJoin
<1>9. 0 * Size(W) + m = m
  BY <1>1, Counts
<1> HIDE DEF p
<1>10. p \in Words(2 * W) /\ ValueOf(2 * W, p) = m
  BY <1>4, <1>6, <1>8, <1>9, Counts, Zenon
<1> QED
  BY <1>1, <1>3, <1>5, <1>7, <1>10 DEF R, p

\* What the estimate of the quotient leaves.
LEMMA EstimateLeavesLittle ==
  ASSUME NEW m \in Moduli, NEW a \in Words(2 * W)
  PROVE  /\ RemainderEstimate(a, Modulus(m)) \in Words(2 * W)
         /\ \E q \in Nat : /\ q * m \in Nat
                           /\ ValueOf(2 * W, a) = q * m + ValueOf(2 * W, RemainderEstimate(a, Modulus(m)))
         /\ ValueOf(2 * W, RemainderEstimate(a, Modulus(m))) < 2 * m
<1> DEFINE n == 2 * W  N == Size(n)  modulus == Modulus(m)
           R == N \div m  s == N % m  v == ValueOf(n, a)
           first == uintfn_mult_o(LogWords + 1, a, modulus.reciprocal)
           quotient == From(first, 0, n)
           second == uintfn_mult_o(LogWords + 1, quotient, promoted_modulus(modulus))
           multiple == From(second, n, n)
           q == ValueOf(n, quotient)
           t == ValueOf(n, From(first, n, n))
<1>1. n \in Nat /\ N \in Nat \ {0} /\ LogWords + 1 \in Nat /\ n = IntegerPower(2, LogWords + 1) /\ 2 * n = n + n
  BY Counts
<1>2. m \in Nat \ {0} /\ modulus.reciprocal \in Words(n) /\ ValueOf(n, modulus.reciprocal) = R
      /\ promoted_modulus(modulus) \in Words(n) /\ ValueOf(n, promoted_modulus(modulus)) = m
  BY ModulusWords
<1>3. RemainderEstimate(a, modulus) = uintnwords_add_o(n, uintnwords_negate_o(n, multiple), a)
  BY DEF RemainderEstimate, W
<1> HIDE DEF modulus, n, N
<1>4. R \in Nat /\ s \in 0 .. m - 1 /\ N = R * m + s
  BY <1>1, <1>2, Division
<1> HIDE DEF R, s
<1>5. v \in 0 .. N - 1 /\ v \in Nat
  <2>1. a \in Words(n)
    BY DEF n
  <2> QED
    BY <1>1, <2>1, ValueBounded DEF N
<1>6. first \in Words(n + n) /\ ValueOf(n + n, first) = v * R
  <2>1. first \in Words(2 * n) /\ ValueOf(2 * n, first) = ValueOf(n, a) * ValueOf(n, modulus.reciprocal)
    BY <1>1, <1>2, ProductOfWords DEF n
  <2> HIDE DEF first
  <2> QED
    BY <1>1, <1>2, <2>1, Zenon
<1> HIDE DEF first
<1>7. /\ quotient \in Words(n) /\ From(first, n, n) \in Words(n)
      /\ ValueOf(n + n, first) = q * N + t
  BY <1>1, <1>6, WordsSplit DEF N
<1> HIDE DEF quotient
<1>8. q \in Nat /\ t \in 0 .. N - 1
  BY <1>1, <1>7, ValueBounded DEF N
<1> HIDE DEF q, t
<1>9. v * R = q * N + t
  BY <1>6, <1>7
<1>10. q * m \in Nat /\ q * m <= v /\ v - q * m < 2 * m
  <2> HIDE DEF v
  <2> QED
    BY <1>1, <1>2, <1>4, <1>5, <1>8, <1>9, EstimatedQuotient
<1>11. second \in Words(n + n) /\ ValueOf(n + n, second) = q * m
  <2>1. second \in Words(2 * n)
        /\ ValueOf(2 * n, second) = ValueOf(n, quotient) * ValueOf(n, promoted_modulus(modulus))
    BY <1>1, <1>2, <1>7, ProductOfWords
  <2> HIDE DEF second
  <2> QED
    BY <1>1, <1>2, <2>1, Zenon DEF q
<1> HIDE DEF second
<1>12. multiple \in Words(n) /\ ValueOf(n, multiple) = q * m
  <2> DEFINE upper == ValueOf(n, From(second, 0, n))  lower == ValueOf(n, multiple)  x == q * m
  <2>1. /\ multiple \in Words(n) /\ From(second, 0, n) \in Words(n)
        /\ ValueOf(n + n, second) = upper * N + lower
    BY <1>1, <1>11, WordsSplit DEF N
  <2>2. upper \in Nat /\ lower \in 0 .. N - 1
    BY <1>1, <2>1, ValueBounded DEF N
  <2> HIDE DEF upper, lower
  <2>0. x = upper * N + lower
    BY <1>11, <2>1, Zenon
  <2>3. x = upper * N + lower /\ x \in Nat /\ x < N
    <3>1. x \in Nat /\ x <= v
      BY <1>10
    <3> HIDE DEF x, v
    <3> QED
      BY <1>1, <1>5, <2>0, <3>1
  <2> HIDE DEF x
  <2>4. lower = x % N
    BY <1>1, <2>2, <2>3, DivisionIsUnique
  <2>5. x % N = x
    BY <1>1, <2>3, SmallQuotient
  <2> QED
    BY <2>1, <2>4, <2>5 DEF lower, x
<1> HIDE DEF multiple
<1> DEFINE left == uintnwords_add_o(n, uintnwords_negate_o(n, multiple), a)
<1>13. left \in Words(n) /\ ValueOf(n, left) = v - q * m
  <2>1. a \in Words(n) /\ ValueOf(n, multiple) <= ValueOf(n, a)
    BY <1>10, <1>12 DEF n
  <2>2. left \in Words(n) /\ ValueOf(n, left) = ValueOf(n, a) - ValueOf(n, multiple)
    BY <1>1, <1>12, <2>1, TakenOff
  <2> HIDE DEF left
  <2> QED
    BY <1>12, <2>2
<1> HIDE DEF left
<1>14. v = q * m + ValueOf(n, left)
  <2> HIDE DEF v
  <2> DEFINE x == q * m
  <2>1. x \in Nat /\ v \in Nat /\ ValueOf(n, left) = v - x
    BY <1>5, <1>10, <1>13
  <2> HIDE DEF x
  <2>2. v = x + ValueOf(n, left)
    BY <2>1
  <2> QED
    BY <2>2 DEF x
<1>15. RemainderEstimate(a, Modulus(m)) = left
  BY <1>3 DEF left, modulus
<1>16. left \in Words(2 * W)
  BY <1>13 DEF n
<1>17. ValueOf(2 * W, left) < 2 * m
  BY <1>10, <1>13 DEF n
<1>18. q \in Nat /\ q * m \in Nat /\ ValueOf(2 * W, a) = q * m + ValueOf(2 * W, left)
  BY <1>8, <1>10, <1>14 DEF n
<1> QED
  BY <1>15, <1>16, <1>17, <1>18

IsRest(rest, estimate, promoted, n) ==
  rest = [k \in 0 .. Size(n) |->
           IF k = 0 THEN estimate
           ELSE uintnwords_add_o(n, rest[k - 1], uintnwords_negate_o(n, promoted))]
\* The turns that the loop runs.
IsTurns(turns, rest, promoted, n) ==
  /\ turns \in 0 .. Size(n)
  /\ ~uintnwords_le(n, promoted, rest[turns])
  /\ \A j \in 0 .. turns - 1 : uintnwords_le(n, promoted, rest[j])

LEMMA TakeOffGoes ==
  ASSUME NEW estimate \in Words(2 * W), NEW promoted \in Words(2 * W)
  PROVE  \E rest :
           /\ rest \in [0 .. Size(2 * W) -> Words(2 * W)] /\ rest[0] = estimate
           /\ \A k \in 1 .. Size(2 * W) :
                rest[k] = uintnwords_add_o(2 * W, rest[k - 1], uintnwords_negate_o(2 * W, promoted))
           /\ TakeOff(estimate, promoted) = rest[CHOOSE turns : IsTurns(turns, rest, promoted, 2 * W)]
<1> DEFINE n == 2 * W  N == Size(n)
           negated == uintnwords_negate_o(n, promoted)
           rest == CHOOSE rest : IsRest(rest, estimate, promoted, n)
<1>1. n \in Nat /\ N \in Nat
  BY Counts
<1>2. TakeOff(estimate, promoted) = rest[CHOOSE turns : IsTurns(turns, rest, promoted, n)]
  BY DEF TakeOff, IsRest, IsTurns, W
<1>3. negated \in Words(n)
  BY <1>1, NegatedWords
<1> DEFINE F == [vj \in Words(n) \X (1 .. N) |-> uintnwords_add_o(n, vj[1], negated)]
<1>4. ASSUME NEW v \in Words(n), NEW j \in 1 .. N
      PROVE  F[<<v, j>>] = uintnwords_add_o(n, v, negated) /\ F[<<v, j>>] \in Words(n)
  <2>1. F[<<v, j>>] = uintnwords_add_o(n, v, negated)
    <3> HIDE DEF negated, n, N
    <3> QED
      OBVIOUS
  <2>2. uintnwords_add_o(n, v, negated) \in Words(n)
    BY <1>1, <1>3, SumOfWords
  <2> QED
    BY <2>1, <2>2, Zenon
<1> HIDE DEF F, n, N, negated
<1>5. estimate \in Words(n)
  BY DEF n
<1>6. PICK g : ByRounds(g, Words(n), estimate, N, F)
  BY <1>1, <1>4, <1>5, LoopOf
<1>7. ASSUME NEW k \in 0 .. N
      PROVE  g[k] = IF k = 0 THEN estimate ELSE uintnwords_add_o(n, g[k - 1], negated)
  <2>1. CASE k = 0
    BY <2>1, <1>6 DEF ByRounds
  <2>2. CASE k # 0
    <3>1. k \in 1 .. N /\ k - 1 \in 0 .. N
      BY <1>1, <2>2
    <3>2. g[k - 1] \in Words(n) /\ g[k] = F[<<g[k - 1], k>>]
      BY <3>1, <1>6 DEF ByRounds
    <3> QED
      BY <2>2, <3>1, <3>2, <1>4
  <2> QED
    BY <2>1, <2>2
<1>8. g = [k \in 0 .. N |-> g[k]] /\ g \in [0 .. N -> Words(n)]
  BY <1>6 DEF ByRounds
<1>9. IsRest(g, estimate, promoted, n)
  BY <1>7, <1>8 DEF IsRest, N, negated
<1>10. IsRest(rest, estimate, promoted, n)
  BY <1>9
<1> HIDE DEF rest
<1>11. \A k \in 0 .. N : rest[k] = IF k = 0 THEN estimate ELSE uintnwords_add_o(n, rest[k - 1], negated)
  BY <1>10 DEF IsRest, N, negated
<1>12. \A k \in 0 .. N : rest[k] = g[k]
  <2>1. rest[0] = g[0]
    BY <1>1, <1>7, <1>11
  <2>2. \A k \in 1 .. N : rest[k - 1] = g[k - 1] => rest[k] = g[k]
    <3>1. \A k \in 1 .. N : k \in 0 .. N /\ k # 0
      BY <1>1
    <3> QED
      BY <1>7, <1>11, <3>1
  <2>3. N \in Nat
    BY <1>1
  <2> HIDE DEF N, rest
  <2> QED
    BY <2>1, <2>2, <2>3, SameRounds
<1>13. rest = g
  BY <1>8, <1>10, <1>12 DEF IsRest, N
<1>14. rest[0] = estimate /\ \A k \in 1 .. N : rest[k] = uintnwords_add_o(n, rest[k - 1], negated)
  <2>1. \A k \in 1 .. N : k \in 0 .. N /\ k # 0
    BY <1>1
  <2> QED
    BY <1>1, <1>11, <2>1
<1> QED
  BY <1>2, <1>8, <1>13, <1>14 DEF n, N, negated

\* Taking the modulus off as long as it is not the larger leaves the remainder.
LEMMA TakenOffIsRemainder ==
  ASSUME NEW estimate \in Words(2 * W), NEW promoted \in Words(2 * W), NEW m \in Nat \ {0},
         ValueOf(2 * W, promoted) = m
  PROVE  /\ TakeOff(estimate, promoted) \in Words(2 * W)
         /\ ValueOf(2 * W, TakeOff(estimate, promoted)) = ValueOf(2 * W, estimate) % m
<1> DEFINE n == 2 * W  N == Size(n)  e == ValueOf(n, estimate)  d == e \div m  r == e % m
<1>0. n \in Nat /\ N \in Nat \ {0}
  BY Counts
<1> DEFINE negated == uintnwords_negate_o(n, promoted)
<1>1. PICK rest :
        /\ rest \in [0 .. N -> Words(n)] /\ rest[0] = estimate
        /\ \A k \in 1 .. N : rest[k] = uintnwords_add_o(n, rest[k - 1], negated)
        /\ TakeOff(estimate, promoted) = rest[CHOOSE turns : IsTurns(turns, rest, promoted, n)]
  BY TakeOffGoes
<1>2. e \in Nat /\ e < N
  BY <1>0, ValueBounded
<1>2a. estimate \in Words(n) /\ promoted \in Words(n) /\ ValueOf(n, promoted) = m
  OBVIOUS
<1> HIDE DEF n, N, e
<1>3. d \in Nat /\ r \in 0 .. m - 1 /\ e = d * m + r
  BY <1>2, Division
<1> HIDE DEF d, r
<1>4. d * m \in Nat /\ d <= e
  <2>1. d * m = d + d * (m - 1) /\ d * (m - 1) \in Nat
    <3>1. m - 1 \in Nat
      OBVIOUS
    <3> QED
      BY <1>3, <3>1, Products
  <2> QED
    BY <1>3, <2>1
<1>5. \A k \in 0 .. d : k \in 0 .. N /\ k \in Nat /\ k * m \in Nat /\ k * m <= d * m
  <2> SUFFICES ASSUME NEW k \in 0 .. d PROVE k \in 0 .. N /\ k \in Nat /\ k * m \in Nat /\ k * m <= d * m
    OBVIOUS
  <2>1. k \in 0 .. N /\ k \in Nat /\ d - k \in Nat
    BY <1>0, <1>2, <1>3, <1>4
  <2>2. d * m = k * m + (d - k) * m /\ k * m \in Nat /\ (d - k) * m \in Nat
    BY <1>3, <2>1, Products
  <2> QED
    BY <2>1, <2>2
<1> DEFINE Good == {k \in Nat : k <= d => ValueOf(n, rest[k]) = e - k * m}
<1>6. 0 \in Good
  <2>1. ValueOf(n, rest[0]) = e
    BY <1>1 DEF e
  <2> QED
    BY <1>2, <2>1
<1>7. ASSUME NEW k \in Nat, k \in Good PROVE k + 1 \in Good
  <2> SUFFICES ASSUME k + 1 <= d PROVE ValueOf(n, rest[k + 1]) = e - (k + 1) * m
    OBVIOUS
  <2>1. k \in 0 .. d /\ k + 1 \in 0 .. d /\ (k + 1) - 1 = k
    BY <1>3
  <2>2. k + 1 \in 1 .. N /\ k \in 0 .. N
    BY <1>0, <1>5, <2>1
  <2>3. rest[k] \in Words(n) /\ rest[k + 1] = uintnwords_add_o(n, rest[k], negated)
    BY <1>1, <2>1, <2>2
  <2>4. ValueOf(n, rest[k]) = e - k * m
    BY <1>7, <2>1
  <2>5. (k + 1) * m = k * m + m /\ (k + 1) * m <= d * m /\ k * m \in Nat
    BY <1>5, <2>1
  <2>6. m <= e - k * m
    BY <1>3, <1>4, <2>5
  <2>7. ValueOf(n, promoted) <= ValueOf(n, rest[k])
    BY <1>2a, <2>4, <2>6
  <2>8. ValueOf(n, rest[k + 1]) = ValueOf(n, rest[k]) - ValueOf(n, promoted)
    BY <1>0, <1>2a, <2>3, <2>7, TakenOff
  <2> QED
    BY <1>2, <1>2a, <2>4, <2>5, <2>8
<1> HIDE DEF Good
<1>8. Nat \subseteq Good
  BY <1>6, <1>7, Rounds!NumbersInduce
<1>9. \A k \in 0 .. d : rest[k] \in Words(n) /\ ValueOf(n, rest[k]) = e - k * m
  <2>1. \A k \in 0 .. d : k \in Nat /\ k <= d /\ k \in 0 .. N
    BY <1>3, <1>5
  <2>2. \A k \in 0 .. d : rest[k] \in Words(n)
    BY <1>1, <2>1
  <2> QED
    BY <1>8, <2>1, <2>2 DEF Good
<1> HIDE DEF negated
<1>10. \A k \in 0 .. d : uintnwords_le(n, promoted, rest[k]) <=> m <= e - k * m
  BY <1>0, <1>2a, <1>9, SameWordsSameValue
<1>11. ~uintnwords_le(n, promoted, rest[d]) /\ ValueOf(n, rest[d]) = r /\ rest[d] \in Words(n)
  <2>1. d \in 0 .. d
    BY <1>3
  <2>2. e - d * m = r /\ r < m
    BY <1>3, <1>4
  <2> QED
    BY <1>9, <1>10, <1>3, <2>1, <2>2
<1>12. \A k \in 0 .. d - 1 : uintnwords_le(n, promoted, rest[k])
  <2> SUFFICES ASSUME NEW k \in 0 .. d - 1 PROVE uintnwords_le(n, promoted, rest[k])
    OBVIOUS
  <2>1. k \in 0 .. d /\ k + 1 \in 0 .. d
    BY <1>3
  <2>2. (k + 1) * m = k * m + m /\ (k + 1) * m <= d * m /\ k * m \in Nat
    BY <1>5, <2>1
  <2>3. m <= e - k * m
    BY <1>3, <1>4, <2>2
  <2> QED
    BY <1>10, <2>1, <2>3
<1>13. IsTurns(d, rest, promoted, n)
  <2>1. d \in 0 .. N
    BY <1>3, <1>5
  <2> QED
    BY <1>11, <1>12, <2>1 DEF IsTurns, N
<1> DEFINE turns == CHOOSE turns : IsTurns(turns, rest, promoted, n)
<1>14. IsTurns(turns, rest, promoted, n)
  BY <1>13
<1> HIDE DEF turns
<1>15. turns \in Nat
  BY <1>0, <1>14 DEF IsTurns, N
<1>16. turns = d
  <2>1. ~(turns < d)
    <3>1. turns < d => turns \in 0 .. d - 1
      BY <1>3, <1>15
    <3> QED
      BY <1>12, <1>14, <3>1 DEF IsTurns
  <2>2. ~(d < turns)
    <3>1. d < turns => d \in 0 .. turns - 1
      BY <1>3, <1>15
    <3> QED
      BY <1>11, <1>14, <3>1 DEF IsTurns
  <2> QED
    BY <1>3, <1>15, <2>1, <2>2
<1> QED
  BY <1>1, <1>11, <1>16 DEF turns, n, r, e

LEMMA SameRemainder ==
  ASSUME NEW q \in Nat, NEW m \in Nat \ {0}, NEW x \in Nat
  PROVE  q * m + x \in Nat /\ (q * m + x) % m = x % m
<1> DEFINE p == x \div m  r == x % m  z == q * m
<1>1. p \in Nat /\ r \in 0 .. m - 1 /\ x = p * m + r
  BY Division
<1>2. z \in Nat
  BY Products
<1> HIDE DEF p, r
<1>3. z + x = (q + p) * m + r
  <2>1. (q + p) * m = q * m + p * m /\ p * m \in Nat
    BY <1>1, Products
  <2> QED
    BY <1>1, <1>2, <2>1
<1> HIDE DEF z
<1>4. z + x \in Nat /\ q + p \in Int
  BY <1>1, <1>2
<1>5. r = (z + x) % m
  BY <1>1, <1>3, <1>4, DivisionIsUnique
<1> QED
  BY <1>4, <1>5 DEF z, r

\* uint8192_mod_o gives the remainder.
LEMMA RemainderOfWords ==
  ASSUME NEW m \in Moduli, NEW a \in Words(2 * W)
  PROVE  /\ uint8192_mod_o(a, Modulus(m)) \in Words(W)
         /\ ValueOf(W, uint8192_mod_o(a, Modulus(m))) = ValueOf(2 * W, a) % m
<1> DEFINE estimate == RemainderEstimate(a, Modulus(m))  promoted == promoted_modulus(Modulus(m))
           v == ValueOf(2 * W, a)  e == ValueOf(2 * W, estimate)
           left == TakeOff(estimate, promoted)
           upper == ValueOf(W, From(left, 0, W))  lower == ValueOf(W, From(left, W, W))
<1>1. m \in Nat \ {0} /\ m < Size(W) /\ promoted \in Words(2 * W) /\ ValueOf(2 * W, promoted) = m
  BY ModulusWords
<1>2. estimate \in Words(2 * W) /\ \E q \in Nat : q * m \in Nat /\ v = q * m + e
  BY EstimateLeavesLittle
<1> HIDE DEF estimate, promoted
<1>3. e \in Nat
  BY <1>2, Counts, ValueBounded
<1>4. left \in Words(2 * W) /\ ValueOf(2 * W, left) = e % m
  BY <1>1, <1>2, TakenOffIsRemainder
<1> HIDE DEF left
<1>5. e % m = v % m
  <2>1. PICK q \in Nat : v = q * m + e
    BY <1>2
  <2> HIDE DEF e, v
  <2> QED
    BY <1>1, <1>3, <2>1, SameRemainder
<1>6. /\ From(left, 0, W) \in Words(W) /\ From(left, W, W) \in Words(W)
      /\ ValueOf(2 * W, left) = upper * Size(W) + lower
  <2>1. left \in Words(W + W)
    BY <1>4, Counts
  <2> QED
    BY <2>1, Counts, WordsSplit
<1>7. upper \in Nat /\ lower \in 0 .. Size(W) - 1
  BY <1>6, Counts, ValueBounded
<1> DEFINE x == e % m
<1>8. x \in Nat /\ x < Size(W) /\ x = upper * Size(W) + lower
  <2>1. x \in 0 .. m - 1
    BY <1>1, <1>3, Division
  <2> HIDE DEF e
  <2> QED
    BY <1>1, <1>4, <1>6, <2>1, Counts DEF e
<1> HIDE DEF x, upper, lower
<1>9. lower = x % Size(W) /\ x % Size(W) = x
  BY <1>7, <1>8, Counts, DivisionIsUnique, SmallQuotient
<1>10. uint8192_mod_o(a, Modulus(m)) = From(left, W, W)
  BY DEF uint8192_mod_o, left, estimate, promoted, W
<1> QED
  BY <1>5, <1>6, <1>9, <1>10 DEF lower, x, v

\* uint4096_multmod_o multiplies modulo m.
LEMMA ProductsModulo ==
  ASSUME NEW m \in Moduli, NEW a \in Words(W), NEW b \in Words(W)
  PROVE  /\ uint4096_multmod_o(a, b, Modulus(m)) \in Words(W)
         /\ ValueOf(W, uint4096_multmod_o(a, b, Modulus(m))) = (ValueOf(W, a) * ValueOf(W, b)) % m
<1> DEFINE p == uintfn_mult_o(LogWords, a, b)
<1>1. p \in Words(2 * W) /\ ValueOf(2 * W, p) = ValueOf(W, a) * ValueOf(W, b)
  BY Counts, ProductOfWords
<1>2. uint4096_multmod_o(a, b, Modulus(m)) = uint8192_mod_o(p, Modulus(m))
  BY DEF uint4096_multmod_o
<1> HIDE DEF p
<1> QED
  BY <1>1, <1>2, RemainderOfWords

------------------------------------------------------------------------------
(* Digits.                                                                 *)

LEMMA QuotientOfQuotient ==
  ASSUME NEW v \in Nat, NEW a \in Nat \ {0}, NEW b \in Nat \ {0}
  PROVE  (v \div a) \div b = v \div (a * b) /\ a * b \in Nat \ {0}
<1> DEFINE q == v \div a  r == v % a  p == q \div b  t == q % b  y == a * b  z == t * a + r
<1>1. q \in Nat /\ r \in 0 .. a - 1 /\ v = q * a + r
  BY Division
<1> HIDE DEF q, r
<1>2. p \in Nat /\ t \in 0 .. b - 1 /\ q = p * b + t
  BY <1>1, Division
<1> HIDE DEF p, t
<1>3. y \in Nat \ {0}
  OBVIOUS
<1>4. v = p * y + z
  BY <1>1, <1>2
<1>5. z \in 0 .. y - 1
  <2>1. y = t * a + (b - 1 - t) * a + a
    BY <1>2
  <2>2. t * a \in Nat /\ (b - 1 - t) * a \in Nat
    <3>1. t \in Nat /\ b - 1 - t \in Nat
      BY <1>2
    <3> QED
      BY <3>1, Products
  <2> QED
    BY <1>1, <2>1, <2>2
<1> HIDE DEF y, z
<1>6. p \in Int
  BY <1>2
<1>7. p = v \div y
  BY <1>3, <1>4, <1>5, <1>6, DivisionIsUnique, Zenon
<1> QED
  BY <1>3, <1>7 DEF y, p, q

\* Leaving out what is a multiple of the divisor.
LEMMA QuotientAdds ==
  ASSUME NEW q \in Nat, NEW b \in Nat \ {0}, NEW r \in Nat
  PROVE  q * b + r \in Nat /\ (q * b + r) \div b = q + (r \div b)
<1> DEFINE p == r \div b  t == r % b  x == q * b + r
<1>1. p \in Nat /\ t \in 0 .. b - 1 /\ r = p * b + t
  BY Division
<1> HIDE DEF p, t
<1>2. x = (q + p) * b + t
  BY <1>1
<1>3. x \in Nat
  BY Products
<1> HIDE DEF x
<1>4. q + p \in Int
  BY <1>1
<1>5. q + p = x \div b
  BY <1>1, <1>2, <1>3, <1>4, DivisionIsUnique, Zenon
<1> QED
  BY <1>3, <1>5 DEF x, p

\* The digits of a number: each is what it is without the higher ones.
LEMMA DigitKept ==
  ASSUME NEW base \in Nat \ {0}, NEW v \in Nat, NEW n \in Nat, NEW i \in Nat, i < n
  PROVE  ((v % IntegerPower(base, n)) \div IntegerPower(base, i)) % base
           = (v \div IntegerPower(base, i)) % base
<1> DEFINE bn == IntegerPower(base, n)  bi == IntegerPower(base, i)
           k == n - (i + 1)  bk == IntegerPower(base, k)
           q == v \div bn  r == v % bn  d == r \div bi
<1>1. k \in Nat /\ n = (i + 1) + k /\ i + 1 \in Nat
  OBVIOUS
<1>2. bn \in Nat \ {0} /\ bi \in Nat \ {0} /\ bk \in Nat \ {0}
  BY <1>1, PowerIsNumber
<1>3. bn = (bi * base) * bk
  <2>1. IntegerPower(base, (i + 1) + k) = IntegerPower(base, i + 1) * bk
    BY <1>1, PowersMultiply
  <2>2. IntegerPower(base, i + 1) = bi * base
    BY IntegerPowerGoes
  <2> QED
    BY <1>1, <2>1, <2>2
<1> HIDE DEF k, bn, bi, bk
<1>4. q \in Nat /\ r \in Nat /\ v = q * bn + r
  BY <1>2, Division
<1> HIDE DEF q, r
<1> DEFINE x == (q * bk) * base
<1>5. v = x * bi + r
  <2>1. q * ((bi * base) * bk) = x * bi
    BY <1>2, <1>4
  <2> QED
    BY <1>3, <1>4, <2>1
<1>6. q * bk \in Nat /\ x \in Nat
  BY <1>2, <1>4, Products
<1>7. d \in Nat
  BY <1>2, <1>4, Division
<1> HIDE DEF x, d
<1>8. v \div bi = x + d
  <2>1. (x * bi + r) \div bi = x + (r \div bi)
    BY <1>2, <1>4, <1>6, QuotientAdds, Zenon
  <2> QED
    BY <1>5, <2>1, Zenon DEF d
<1>9. (x + d) % base = d % base
  BY <1>6, <1>7, SameRemainder DEF x
<1> QED
  BY <1>8, <1>9 DEF d, r, bn, bi

LEMMA DigitAdds ==
  ASSUME NEW base \in Nat \ {0}, NEW v \in Nat, NEW k \in Nat
  PROVE  v % IntegerPower(base, k + 1)
           = (v % IntegerPower(base, k)) + ((v \div IntegerPower(base, k)) % base) * IntegerPower(base, k)
<1> DEFINE bk == IntegerPower(base, k)  q == v \div bk  r == v % bk  p == q \div base  d == q % base
           y == bk * base  z == d * bk + r
<1>1. bk \in Nat \ {0}
  BY PowerIsNumber
<1>2. IntegerPower(base, k + 1) = y
  BY IntegerPowerGoes
<1> HIDE DEF bk
<1>3. q \in Nat /\ r \in 0 .. bk - 1 /\ v = q * bk + r
  BY <1>1, Division
<1> HIDE DEF q, r
<1>4. p \in Nat /\ d \in 0 .. base - 1 /\ q = p * base + d
  BY <1>3, Division
<1> HIDE DEF p, d
<1>5. v = p * y + z
  BY <1>1, <1>3, <1>4
<1>6. y \in Nat \ {0} /\ z \in 0 .. y - 1
  <2>1. y = d * bk + (base - 1 - d) * bk + bk
    BY <1>1, <1>4
  <2>2. d * bk \in Nat /\ (base - 1 - d) * bk \in Nat
    <3>1. d \in Nat /\ base - 1 - d \in Nat
      BY <1>4
    <3> QED
      BY <1>1, <3>1, Products
  <2> QED
    BY <1>1, <1>3, <2>1, <2>2
<1>7. d * bk \in Nat /\ r \in Nat
  <2>1. d \in Nat /\ r \in Nat
    BY <1>3, <1>4
  <2> QED
    BY <1>1, <2>1, Products
<1> HIDE DEF y
<1>8. z = r + d * bk
  <2> DEFINE w == d * bk
  <2>1. w \in Nat
    BY <1>7
  <2> HIDE DEF w
  <2>2. w + r = r + w
    BY <1>7, <2>1
  <2> QED
    BY <2>2 DEF w
<1> HIDE DEF z
<1>9. p \in Int
  BY <1>4
<1>10. z = v % y
  BY <1>5, <1>6, <1>9, DivisionIsUnique, Zenon
<1> QED
  BY <1>2, <1>8, <1>10 DEF bk, q, r, d

LEMMA PowersGrow ==
  ASSUME NEW base \in Nat \ {0}, NEW i \in Nat, NEW n \in Nat, i <= n
  PROVE  IntegerPower(base, i) <= IntegerPower(base, n)
<1> DEFINE x == IntegerPower(base, i)  y == IntegerPower(base, n - i)
<1>1. n - i \in Nat /\ n = i + (n - i)
  OBVIOUS
<1>2. x \in Nat \ {0} /\ y \in Nat \ {0}
  BY <1>1, PowerIsNumber
<1>3. IntegerPower(base, n) = x * y
  BY <1>1, PowersMultiply
<1> HIDE DEF x, y
<1>4. x * y = x + x * (y - 1) /\ x * (y - 1) \in Nat
  <2>1. y - 1 \in Nat
    BY <1>2
  <2> QED
    BY <1>2, <2>1, Products
<1>5. x <= x * y
  BY <1>2, <1>4
<1> QED
  BY <1>3, <1>5 DEF x

\* Reducing a factor first.
LEMMA ProductReduced ==
  ASSUME NEW a \in Nat, NEW b \in Nat, NEW m \in Nat \ {0}
  PROVE  ((a % m) * b) % m = (a * b) % m /\ (b * (a % m)) % m = (b * a) % m
<1> DEFINE q == a \div m  r == a % m  x == r * b
<1>1. q \in Nat /\ r \in Nat /\ a = q * m + r
  BY Division
<1> HIDE DEF q, r
<1>2. a * b = (q * b) * m + x /\ q * b \in Nat /\ x \in Nat /\ b * r = x /\ b * a = a * b
  BY <1>1, Products
<1> HIDE DEF x
<1>3. ((q * b) * m + x) % m = x % m
  BY <1>2, SameRemainder
<1> QED
  BY <1>2, <1>3 DEF x, r

------------------------------------------------------------------------------
(* Powers modulo a number.                                                 *)

\* The same number modulo m.
Congruent(a, b, m) == a % m = b % m

LEMMA ResiduesMultiply ==
  ASSUME NEW m \in Nat \ {0}, NEW a \in Nat, NEW b \in Nat, NEW x \in Nat, NEW y \in Nat,
         Congruent(a, x, m), Congruent(b, y, m)
  PROVE  Congruent(a * b, x * y, m)
<1>0. a % m = x % m /\ b % m = y % m
  BY DEF Congruent
<1>1. (a * b) % m = ((a % m) * b) % m
  BY ProductReduced, Zenon
<1>2. ((x % m) * b) % m = (x * b) % m
  BY ProductReduced, Zenon
<1>3. (x * b) % m = (x * (b % m)) % m
  BY ProductReduced, Zenon
<1>4. (x * (y % m)) % m = (x * y) % m
  BY ProductReduced, Zenon
<1> QED
  BY <1>0, <1>1, <1>2, <1>3, <1>4, Zenon DEF Congruent

LEMMA ResidueOfResidue ==
  ASSUME NEW x \in Nat, NEW m \in Nat \ {0}
  PROVE  x % m \in Nat /\ (x % m) % m = x % m
<1>1. x % m \in 0 .. m - 1
  BY Division
<1>2. x % m \in Nat /\ x % m < m
  BY <1>1
<1> QED
  BY <1>2, SmallQuotient

\* Sizes as powers of 2.
LEMMA SizeIsPower ==
  ASSUME NEW n \in Nat
  PROVE  /\ WordBits * n \in Nat /\ Size(n) = IntegerPower(2, WordBits * n)
<1>1. WordBits \in Nat /\ 2 \in Nat \ {0}
  BY WordSizes
<1>2. IntegerPower(IntegerPower(2, WordBits), n) = IntegerPower(2, WordBits * n)
  BY <1>1, PowersOfPowers
<1> QED
  BY <1>1, <1>2, Products DEF Size, Base

LEMMA BitOfExponent ==
  ASSUME NEW y \in Nat, NEW i \in 0 .. W * WordBits - 1
  PROVE  Bit(WordsOf(y, W), i) = (y \div IntegerPower(2, i)) % 2
<1> DEFINE u == i \div WordBits  j == i % WordBits  c == y \div Size(u)
<1>1. WordBits \in Nat \ {0} /\ W \in Nat \ {0} /\ i \in Nat
  <2>1. WordBits \in Nat \ {0} /\ W \in Nat \ {0}
    BY UintAssumption, Counts
  <2>2. W * WordBits \in Nat
    BY <2>1, Products
  <2> QED
    BY <2>1, <2>2
<1>2. u \in Nat /\ j \in 0 .. WordBits - 1 /\ i = u * WordBits + j
  BY <1>1, Division
<1> HIDE DEF u, j
<1>3. u < W
  <2> SUFFICES ASSUME u >= W PROVE FALSE
    BY <1>1, <1>2
  <2>1. u * WordBits = W * WordBits + (u - W) * WordBits /\ (u - W) * WordBits \in Nat
        /\ W * WordBits \in Nat
    <3>1. u - W \in Nat
      BY <1>1, <1>2
    <3> QED
      BY <1>1, <1>2, <3>1, Products
  <2> QED
    BY <1>1, <1>2, <2>1
<1>4. W - u \in 1 .. W /\ W - (W - u) = u
  BY <1>1, <1>2, <1>3
<1>5. WordsOf(y, W)[W - u] = c % Base
  BY <1>4 DEF WordsOf
<1>6. Size(u) \in Nat \ {0} /\ c \in Nat
  <2>1. Size(u) \in Nat \ {0}
    BY <1>2, WordSizes
  <2> QED
    BY <2>1, Division
<1>7. Bit(WordsOf(y, W), i) = ((c % Base) \div IntegerPower(2, j)) % 2
  BY <1>5 DEF Bit, u, j, W
<1>8. ((c % Base) \div IntegerPower(2, j)) % 2 = (c \div IntegerPower(2, j)) % 2
  <2>1. j \in Nat /\ j < WordBits /\ 2 \in Nat \ {0} /\ WordBits \in Nat
    BY <1>1, <1>2
  <2> HIDE DEF c
  <2> QED
    BY <1>6, <2>1, DigitKept DEF Base
<1>9. c \div IntegerPower(2, j) = y \div (Size(u) * IntegerPower(2, j))
  <2>1. j \in Nat /\ 2 \in Nat \ {0}
    BY <1>2
  <2>2. IntegerPower(2, j) \in Nat \ {0}
    BY <2>1, PowerIsNumber
  <2> QED
    BY <1>6, <2>2, QuotientOfQuotient
<1>10. Size(u) * IntegerPower(2, j) = IntegerPower(2, i)
  <2>1. Size(u) = IntegerPower(2, WordBits * u) /\ WordBits * u \in Nat /\ j \in Nat /\ 2 \in Nat
    BY <1>2, SizeIsPower
  <2>2. IntegerPower(2, WordBits * u + j) = IntegerPower(2, WordBits * u) * IntegerPower(2, j)
    BY <2>1, PowersMultiply
  <2>3. WordBits * u + j = i
    BY <1>1, <1>2
  <2> QED
    BY <2>1, <2>2, <2>3, Zenon
<1> QED
  BY <1>7, <1>8, <1>9, <1>10

\* The highest bit: no number of bits fewer than max_bit holds the exponent's.
LEMMA HighestBit ==
  ASSUME NEW y \in Nat, y < Size(W)
  PROVE  /\ max_bit(WordsOf(y, W)) \in Nat /\ max_bit(WordsOf(y, W)) <= W * WordBits
         /\ y < IntegerPower(2, max_bit(WordsOf(y, W)))
<1> DEFINE top == W * WordBits  words == WordsOf(y, W)
           set == {i \in 0 .. top - 1 : Bit(words, i) = 1}
           bits == max_bit(words)
           highest == CHOOSE i \in set : \A j \in set : j <= i
<1>1. top \in Nat /\ Size(W) = IntegerPower(2, top)
  <2>1. W \in Nat /\ WordBits \in Nat
    BY Counts, WordSizes
  <2>2. WordBits * W = top
    BY <2>1
  <2> QED
    BY <2>1, <2>2, SizeIsPower
<1>2. bits = IF set = {} THEN 0 ELSE 1 + highest
  BY DEF max_bit, W
<1>3. \A i \in 0 .. top - 1 : Bit(words, i) = (y \div IntegerPower(2, i)) % 2
  BY BitOfExponent
<1> HIDE DEF top, words, bits
<1>4. ASSUME set # {} PROVE \E i \in set : \A j \in set : j <= i
  <2> DEFINE Above == {k \in Nat : \A i \in set : i < k}
  <2>1. top \in Above
    BY <1>1
  <2>2. PICK k \in Above : \A l \in Above : k <= l
    <3>1. Above \in SUBSET Nat /\ Above # {}
      BY <2>1
    <3> HIDE DEF Above
    <3> QED
      BY <3>1, Rounds!LeastNumber
  <2>3. k \in Nat /\ k # 0
    BY <1>1, <1>4, <2>2
  <2>4. k - 1 \in Nat /\ ~(k <= k - 1)
    BY <2>3
  <2>5. k - 1 \notin Above
    BY <2>2, <2>4
  <2>6. PICK i \in set : ~(i < k - 1)
    BY <2>4, <2>5
  <2>7. \A j \in set : j <= i
    BY <1>1, <2>2, <2>3, <2>6
  <2> QED
    BY <2>6, <2>7
<1>5. set # {} => highest \in set /\ \A j \in set : j <= highest
  BY <1>4
<1> HIDE DEF highest
<1>6. bits \in Nat /\ bits <= top /\ \A i \in 0 .. top - 1 : i >= bits => Bit(words, i) # 1
  <2>1. CASE set = {}
    BY <1>1, <1>2, <2>1
  <2>2. CASE set # {}
    <3>1. bits = 1 + highest /\ highest \in set /\ \A j \in set : j <= highest
      BY <1>2, <1>5, <2>2
    <3>2. highest \in 0 .. top - 1
      BY <3>1
    <3> QED
      BY <1>1, <3>1, <3>2
  <2> QED
    BY <2>1, <2>2
<1> HIDE DEF set
<1> DEFINE Good == {d \in Nat : d <= top - bits => y < IntegerPower(2, top - d)}
<1>7. 0 \in Good
  <2>1. top - 0 = top
    BY <1>1
  <2> QED
    BY <1>1, <2>1
<1>8. ASSUME NEW d \in Nat, d \in Good PROVE d + 1 \in Good
  <2> SUFFICES ASSUME d + 1 <= top - bits PROVE y < IntegerPower(2, top - (d + 1))
    OBVIOUS
  <2> DEFINE k == top - (d + 1)  p == IntegerPower(2, k)  q == y \div p  r == y % p
  <2>1. k \in 0 .. top - 1 /\ k >= bits /\ k \in Nat /\ top - d = k + 1 /\ d <= top - bits
    BY <1>1, <1>6
  <2>2. y < IntegerPower(2, k + 1)
    BY <1>8, <2>1
  <2>3. q % 2 # 1
    BY <1>3, <1>6, <2>1
  <2> HIDE DEF k
  <2>4. p \in Nat \ {0} /\ IntegerPower(2, k + 1) = p * 2
    <3>1. 2 \in Nat \ {0} /\ 2 \in Nat
      OBVIOUS
    <3> QED
      BY <2>1, <3>1, PowerIsNumber, IntegerPowerGoes
  <2> HIDE DEF p
  <2>5. q \in Nat /\ r \in 0 .. p - 1 /\ y = q * p + r
    BY <2>4, Division
  <2> HIDE DEF q, r
  <2>6. q < 2
    <3> SUFFICES ASSUME q >= 2 PROVE FALSE
      BY <2>5
    <3>1. q * p = 2 * p + (q - 2) * p /\ (q - 2) * p \in Nat
      <4>1. q - 2 \in Nat
        BY <2>5
      <4> QED
        BY <2>4, <2>5, <4>1, Products
    <3> QED
      BY <2>2, <2>4, <2>5, <3>1
  <2>7. q = 0
    BY <2>3, <2>5, <2>6
  <2>8. y < p
    BY <2>4, <2>5, <2>7
  <2> QED
    BY <2>8 DEF p, k
<1> HIDE DEF Good
<1>9. Nat \subseteq Good
  BY <1>7, <1>8, Rounds!NumbersInduce
<1>10. top - bits \in Nat /\ top - (top - bits) = bits
  BY <1>1, <1>6
<1>11. y < IntegerPower(2, bits)
  BY <1>9, <1>10 DEF Good
<1> QED
  BY <1>6, <1>11 DEF bits, words, top

LEMMA OneInWords == One \in Words(W) /\ ValueOf(W, One) = 1
<1> DEFINE z == Zeros(W - 1)
<1>1. W \in Nat \ {0} /\ W - 1 \in Nat /\ (W - 1) + 1 = W
  BY Counts
<1>2. z \in Words(W - 1) /\ ValueOf(W - 1, z) = 0
  BY <1>1, ZeroWords
<1>3. 1 \in Word
  BY WordSizes DEF Word
<1>4. <<1>> \in Words(1) /\ ValueOf(1, <<1>>) = 1
  BY <1>3, OneWord
<1>5. One = z \o <<1>>
  BY DEF One, W
<1> HIDE DEF z
<1>6. z \o <<1>> \in Words((W - 1) + 1)
      /\ ValueOf((W - 1) + 1, z \o <<1>>) = ValueOf(W - 1, z) * Size(1) + ValueOf(1, <<1>>)
  BY <1>1, <1>2, <1>4, WordsJoin
<1>7. Size(1) \in Nat /\ 0 * Size(1) + 1 = 1
  BY WordSizes
<1> QED
  BY <1>1, <1>2, <1>4, <1>5, <1>6, <1>7, Zenon

\* What repeated squaring keeps, and a turn of it.
States == [out : Words(W), base : Words(W)]
Squared(v, k, exponent, modulus) ==
  [out |-> IF Bit(exponent, k - 1) = 1 THEN uint4096_multmod_o(v.out, v.base, modulus) ELSE v.out,
   base |-> uint4096_multmod_o(v.base, v.base, modulus)]
IsSquaring(tmp, base, exponent, modulus) ==
  tmp = [k \in 0 .. max_bit(exponent) |->
    IF k = 0 THEN [out |-> One, base |-> base]
    ELSE [out |-> IF Bit(exponent, k - 1) = 1
                  THEN uint4096_multmod_o(tmp[k - 1].out, tmp[k - 1].base, modulus)
                  ELSE tmp[k - 1].out,
          base |-> uint4096_multmod_o(tmp[k - 1].base, tmp[k - 1].base, modulus)]]

LEMMA PowmodGoes ==
  ASSUME NEW m \in Moduli, NEW base \in Words(W), NEW exponent, max_bit(exponent) \in Nat
  PROVE  \E tmp :
           /\ tmp[0] = [out |-> One, base |-> base]
           /\ \A k \in 1 .. max_bit(exponent) : tmp[k] = Squared(tmp[k - 1], k, exponent, Modulus(m))
           /\ uint4096_powmod_o(base, exponent, Modulus(m)) = tmp[max_bit(exponent)].out
<1> DEFINE modulus == Modulus(m)  bits == max_bit(exponent)
           first == [out |-> One, base |-> base]
           tmp == CHOOSE tmp : IsSquaring(tmp, base, exponent, modulus)
           F == [vk \in States \X (1 .. bits) |-> Squared(vk[1], vk[2], exponent, modulus)]
<1>1. uint4096_powmod_o(base, exponent, modulus) = tmp[bits].out
  BY DEF uint4096_powmod_o, IsSquaring
<1>2. ASSUME NEW v \in States, NEW k \in 1 .. bits
      PROVE  F[<<v, k>>] = Squared(v, k, exponent, modulus) /\ F[<<v, k>>] \in States
  <2>1. F[<<v, k>>] = Squared(v, k, exponent, modulus)
    <3> HIDE DEF modulus, bits
    <3> QED
      OBVIOUS
  <2>2. v.out \in Words(W) /\ v.base \in Words(W)
    BY DEF States
  <2>3. uint4096_multmod_o(v.out, v.base, modulus) \in Words(W)
        /\ uint4096_multmod_o(v.base, v.base, modulus) \in Words(W)
    BY <2>2, ProductsModulo
  <2> HIDE DEF F, modulus
  <2>4. Squared(v, k, exponent, modulus) \in States
    BY <2>2, <2>3 DEF Squared, States
  <2> QED
    BY <2>1, <2>4, Zenon
<1>3. first \in States
  BY OneInWords DEF States
<1>4. bits \in Nat
  OBVIOUS
<1> HIDE DEF F, modulus, bits
<1>5. PICK g : ByRounds(g, States, first, bits, F)
  BY <1>2, <1>3, <1>4, LoopOf
<1>6. ASSUME NEW k \in 0 .. bits
      PROVE  g[k] = IF k = 0 THEN first ELSE Squared(g[k - 1], k, exponent, modulus)
  <2> HIDE DEF first
  <2>1. CASE k = 0
    BY <2>1, <1>5 DEF ByRounds
  <2>2. CASE k # 0
    <3>1. k \in 1 .. bits /\ k - 1 \in 0 .. bits
      BY <1>4, <2>2
    <3>2. g[k - 1] \in States /\ g[k] = F[<<g[k - 1], k>>]
      BY <3>1, <1>5 DEF ByRounds
    <3> QED
      BY <2>2, <3>1, <3>2, <1>2
  <2> QED
    BY <2>1, <2>2
<1>7. g = [k \in 0 .. bits |-> g[k]]
  BY <1>5 DEF ByRounds
<1>8. IsSquaring(g, base, exponent, modulus)
  BY <1>6, <1>7 DEF IsSquaring, bits, Squared
<1>9. IsSquaring(tmp, base, exponent, modulus)
  BY <1>8
<1> HIDE DEF tmp
<1>10. \A k \in 0 .. bits : tmp[k] = IF k = 0 THEN first ELSE Squared(tmp[k - 1], k, exponent, modulus)
  BY <1>9 DEF IsSquaring, bits, Squared
<1>11. tmp[0] = first /\ \A k \in 1 .. bits : tmp[k] = Squared(tmp[k - 1], k, exponent, modulus)
  <2>1. 0 \in 0 .. bits /\ \A k \in 1 .. bits : k \in 0 .. bits /\ k # 0
    BY <1>4
  <2> HIDE DEF first
  <2> QED
    BY <1>10, <2>1
<1> QED
  BY <1>1, <1>11 DEF bits, modulus

\* Repeated squaring gives the power.
LEMMA PowerModulo ==
  ASSUME NEW m \in Moduli, NEW x \in Nat, NEW y \in Nat, x < Size(W), y < Size(W)
  PROVE  /\ uint4096_powmod_o(WordsOf(x, W), WordsOf(y, W), Modulus(m)) \in Words(W)
         /\ ValueOf(W, uint4096_powmod_o(WordsOf(x, W), WordsOf(y, W), Modulus(m)))
              = IntegerPower(x, y) % m
<1> DEFINE wx == WordsOf(x, W)  wy == WordsOf(y, W)  bits == max_bit(wy)
           Two(k) == IntegerPower(2, k)  P(e) == IntegerPower(x, e)
<1>1. m \in Nat \ {0} /\ 1 < m
  BY ModulusWords
<1>2. W \in Nat /\ wx \in Words(W) /\ ValueOf(W, wx) = x
  <2>1. W \in Nat /\ Size(W) \in Nat \ {0}
    BY Counts
  <2>2. wx \in Words(W) /\ ValueOf(W, wx) = x % Size(W)
    BY <2>1, WordsOfNumber
  <2>3. x % Size(W) = x
    BY <2>1, SmallQuotient
  <2> HIDE DEF wx
  <2> QED
    BY <2>1, <2>2, <2>3
<1>3. bits \in Nat /\ bits <= W * WordBits /\ y < Two(bits)
  BY HighestBit
<1>4. \A k \in 0 .. bits - 1 : Bit(wy, k) = (y \div Two(k)) % 2
  <2>1. W * WordBits \in Nat
    BY Counts, WordSizes, Products
  <2>2. \A k \in 0 .. bits - 1 : k \in 0 .. W * WordBits - 1
    BY <1>3, <2>1
  <2> QED
    BY <2>2, BitOfExponent
<1>5. PICK tmp :
        /\ tmp[0] = [out |-> One, base |-> wx]
        /\ \A k \in 1 .. bits : tmp[k] = Squared(tmp[k - 1], k, wy, Modulus(m))
        /\ uint4096_powmod_o(wx, wy, Modulus(m)) = tmp[bits].out
  BY <1>2, <1>3, PowmodGoes
<1> HIDE DEF wx, wy, bits
<1>6. \A k \in Nat : Two(k) \in Nat \ {0} /\ Two(k + 1) = 2 * Two(k) /\ P(k) \in Nat
                     /\ P(k + 1) = P(k) * x /\ P(0) = 1 /\ Two(0) = 1 /\ Two(k) + Two(k) = Two(k + 1)
  <2> SUFFICES ASSUME NEW k \in Nat
               PROVE  Two(k) \in Nat \ {0} /\ Two(k + 1) = 2 * Two(k) /\ P(k) \in Nat
                      /\ P(k + 1) = P(k) * x /\ P(0) = 1 /\ Two(0) = 1 /\ Two(k) + Two(k) = Two(k + 1)
    OBVIOUS
  <2>1. 2 \in Nat /\ 2 \in Nat \ {0}
    OBVIOUS
  <2>2. Two(k) \in Nat \ {0} /\ Two(k + 1) = Two(k) * 2 /\ Two(0) = 1
    BY <2>1, PowerIsNumber, IntegerPowerGoes
  <2>3. P(k) \in Nat /\ P(k + 1) = P(k) * x /\ P(0) = 1
    BY PowersAreNumbers, IntegerPowerGoes
  <2> HIDE DEF Two
  <2> QED
    BY <2>2, <2>3
<1>7. \A i, j \in Nat : P(i + j) = P(i) * P(j)
  BY PowersMultiply
<1> DEFINE Holds(k) == /\ tmp[k].out \in Words(W) /\ tmp[k].base \in Words(W)
                       /\ ValueOf(W, tmp[k].out) = P(y % Two(k)) % m
                       /\ ValueOf(W, tmp[k].base) % m = P(Two(k)) % m
           Good == {k \in Nat : k <= bits => Holds(k)}
<1>8. 0 \in Good
  <2>1. tmp[0].out = One /\ tmp[0].base = wx
    BY <1>5
  <2>2. y % 1 = 0 /\ Two(0) = 1 /\ P(0) = 1
    BY <1>6
  <2>3. P(1) = x
    <3>1. P(0 + 1) = P(0) * x
      BY <1>6
    <3> HIDE DEF P
    <3>2. 0 + 1 = 1 /\ 1 * x = x
      OBVIOUS
    <3> QED
      BY <2>2, <3>1, <3>2
  <2>4. 1 % m = 1
    BY <1>1, SmallQuotient
  <2> HIDE DEF P, Two
  <2>5. P(y % Two(0)) % m = 1 /\ P(Two(0)) = x
    BY <2>2, <2>3, <2>4
  <2> QED
    BY <1>2, <2>1, <2>5, OneInWords
<1>9. ASSUME NEW k \in Nat, k \in Good PROVE k + 1 \in Good
  <2> SUFFICES ASSUME k + 1 <= bits PROVE Holds(k + 1)
    OBVIOUS
  <2> DEFINE O == ValueOf(W, tmp[k].out)  B == ValueOf(W, tmp[k].base)
             a == y % Two(k)  b == Two(k)  bit == (y \div b) % 2
  <2>1. Holds(k)
    BY <1>3, <1>9
  <2>2. k + 1 \in 1 .. bits /\ (k + 1) - 1 = k /\ k \in 0 .. bits - 1
    BY <1>3
  <2>3. tmp[k + 1] = Squared(tmp[k], k + 1, wy, Modulus(m))
    BY <1>5, <2>2
  <2>4. Bit(wy, k) = bit
    BY <1>4, <2>2
  <2>5. /\ tmp[k + 1].base = uint4096_multmod_o(tmp[k].base, tmp[k].base, Modulus(m))
        /\ tmp[k + 1].out = IF bit = 1 THEN uint4096_multmod_o(tmp[k].out, tmp[k].base, Modulus(m))
                            ELSE tmp[k].out
    BY <2>2, <2>3, <2>4 DEF Squared
  <2>6. O \in Nat /\ B \in Nat /\ O = P(a) % m /\ B % m = P(b) % m
    BY <1>2, <2>1, ValueBounded
  <2>7. b \in Nat \ {0} /\ a \in Nat /\ bit \in {0, 1} /\ P(a) \in Nat /\ P(b) \in Nat
    <3>1. b \in Nat \ {0}
      BY <1>6
    <3> HIDE DEF b, Two
    <3>2. y % b \in 0 .. b - 1 /\ y \div b \in Nat
      BY <3>1, Division
    <3>2a. y % b \in Nat
      BY <3>1, <3>2
    <3>2b. a \in Nat
      BY <3>2a, Zenon DEF b
    <3>3. bit \in {0, 1}
      BY <3>2
    <3> QED
      BY <1>6, <3>1, <3>2b, <3>3
  <2>8. y % Two(k + 1) = a + bit * b
    <3>1. 2 \in Nat \ {0}
      OBVIOUS
    <3> QED
      BY <3>1, DigitAdds
  <2>9. Two(k + 1) = b + b
    BY <1>6
  <2> HIDE DEF a, b, bit, O, B, P, Two
  <2>10. /\ tmp[k + 1].base \in Words(W)
         /\ ValueOf(W, tmp[k + 1].base) % m = P(Two(k + 1)) % m
    <3>1. tmp[k + 1].base \in Words(W) /\ ValueOf(W, tmp[k + 1].base) = (B * B) % m
      BY <2>1, <2>5, ProductsModulo DEF B
    <3>2. B * B \in Nat
      BY <2>6, Products
    <3>3. ((B * B) % m) % m = (B * B) % m
      BY <1>1, <3>2, ResidueOfResidue
    <3>4. (B * B) % m = (P(b) * P(b)) % m
      <4>1. m \in Nat \ {0} /\ B \in Nat /\ P(b) \in Nat /\ Congruent(B, P(b), m)
        BY <1>1, <2>6, <2>7 DEF Congruent
      <4>2. Congruent(B * B, P(b) * P(b), m)
        BY <4>1, ResiduesMultiply
      <4> QED
        BY <4>2 DEF Congruent
    <3>5. P(b) * P(b) = P(Two(k + 1))
      BY <1>7, <2>7, <2>9
    <3> QED
      BY <3>1, <3>3, <3>4, <3>5
  <2>11. /\ tmp[k + 1].out \in Words(W)
         /\ ValueOf(W, tmp[k + 1].out) = P(y % Two(k + 1)) % m
    <3>1. CASE bit = 0
      <4>1. tmp[k + 1].out = tmp[k].out
        BY <2>5, <3>1
      <4>2. y % Two(k + 1) = a
        BY <2>7, <2>8, <3>1
      <4> QED
        BY <2>1, <2>6, <4>1, <4>2 DEF O
    <3>2. CASE bit = 1
      <4>1. tmp[k + 1].out \in Words(W) /\ ValueOf(W, tmp[k + 1].out) = (O * B) % m
        BY <2>1, <2>5, <3>2, ProductsModulo DEF O, B
      <4>2. y % Two(k + 1) = a + b
        BY <2>7, <2>8, <3>2
      <4>3. O % m = P(a) % m
        BY <1>1, <2>6, <2>7, ResidueOfResidue
      <4>4. (O * B) % m = (P(a) * P(b)) % m
        <5>1. m \in Nat \ {0} /\ B \in Nat /\ P(b) \in Nat /\ Congruent(B, P(b), m)
              /\ O \in Nat /\ P(a) \in Nat /\ Congruent(O, P(a), m)
          BY <1>1, <2>6, <2>7, <4>3 DEF Congruent
        <5>2. Congruent(O * B, P(a) * P(b), m)
          BY <5>1, ResiduesMultiply
        <5> QED
          BY <5>2 DEF Congruent
      <4>5. P(a) * P(b) = P(a + b)
        BY <1>7, <2>7
      <4> QED
        BY <4>1, <4>2, <4>4, <4>5
    <3> QED
      BY <2>7, <3>1, <3>2
  <2> QED
    BY <2>10, <2>11
<1> HIDE DEF Good
<1>10. bits \in Good
  BY <1>3, <1>8, <1>9, Rounds!NumbersInduce
<1>11. Holds(bits)
  BY <1>3, <1>10 DEF Good
<1>12. y % Two(bits) = y
  <2>1. Two(bits) \in Nat \ {0}
    BY <1>3, <1>6
  <2> HIDE DEF Two
  <2> QED
    BY <1>3, <2>1, SmallQuotient
<1> HIDE DEF P, Two
<1> QED
  BY <1>5, <1>11, <1>12 DEF P, wx, wy

------------------------------------------------------------------------------
(* Logarithms.                                                             *)

\* The powers it runs through, and where it stops.
IsPowmod(powmod, base, modulus) ==
  powmod = [e \in 0 .. Size(W) |->
             IF e = 0 THEN One ELSE uint4096_multmod_o(powmod[e - 1], base, modulus)]
IsLogarithm(e, powmod, a) ==
  /\ e \in 0 .. Size(W)
  /\ uintnwords_cmp(W, powmod[e], a) = 0
  /\ \A d \in 0 .. e - 1 : uintnwords_cmp(W, powmod[d], a) # 0

\* The powers that uint4096_logmod runs through.
LEMMA LogmodGoes ==
  ASSUME NEW m \in Moduli, NEW base \in Words(W), NEW a
  PROVE  \E powmod :
           /\ \A e \in 0 .. Size(W) :
                /\ powmod[e] \in Words(W)
                /\ ValueOf(W, powmod[e]) = IntegerPower(ValueOf(W, base), e) % m
           /\ uint4096_logmod(base, a, Modulus(m)) = CHOOSE e : IsLogarithm(e, powmod, a)
<1> DEFINE modulus == Modulus(m)  N == Size(W)  x == ValueOf(W, base)  P(e) == IntegerPower(x, e)
           powmod == CHOOSE powmod : IsPowmod(powmod, base, modulus)
           F == [ve \in Words(W) \X (1 .. N) |-> uint4096_multmod_o(ve[1], base, modulus)]
<1>1. uint4096_logmod(base, a, modulus) = CHOOSE e : IsLogarithm(e, powmod, a)
  BY DEF uint4096_logmod, IsPowmod, IsLogarithm, W
<1>2. ASSUME NEW v \in Words(W), NEW e \in 1 .. N
      PROVE  F[<<v, e>>] = uint4096_multmod_o(v, base, modulus) /\ F[<<v, e>>] \in Words(W)
  <2>1. F[<<v, e>>] = uint4096_multmod_o(v, base, modulus)
    <3> HIDE DEF modulus, N
    <3> QED
      OBVIOUS
  <2>2. uint4096_multmod_o(v, base, modulus) \in Words(W)
    BY ProductsModulo
  <2> QED
    BY <2>1, <2>2, Zenon
<1>3. N \in Nat /\ One \in Words(W) /\ ValueOf(W, One) = 1
  BY Counts, OneInWords
<1>4. x \in Nat /\ m \in Nat \ {0} /\ 1 < m
  BY Counts, ValueBounded, ModulusWords
<1> HIDE DEF F, N
<1>5. PICK g : ByRounds(g, Words(W), One, N, F)
  BY <1>2, <1>3, LoopOf
<1>6. ASSUME NEW e \in 0 .. N
      PROVE  g[e] = IF e = 0 THEN One ELSE uint4096_multmod_o(g[e - 1], base, modulus)
  <2> HIDE DEF modulus
  <2>1. CASE e = 0
    BY <2>1, <1>5 DEF ByRounds
  <2>2. CASE e # 0
    <3>1. e \in 1 .. N /\ e - 1 \in 0 .. N
      BY <1>3, <2>2
    <3>2. g[e - 1] \in Words(W) /\ g[e] = F[<<g[e - 1], e>>]
      BY <3>1, <1>5 DEF ByRounds
    <3> QED
      BY <2>2, <3>1, <3>2, <1>2
  <2> QED
    BY <2>1, <2>2
<1>7. g = [e \in 0 .. N |-> g[e]]
  BY <1>5 DEF ByRounds
<1>8. IsPowmod(g, base, modulus)
  BY <1>6, <1>7 DEF IsPowmod, N
<1>9. IsPowmod(powmod, base, modulus)
  BY <1>8
<1> HIDE DEF powmod
<1>10. \A e \in 0 .. N : powmod[e] = IF e = 0 THEN One ELSE uint4096_multmod_o(powmod[e - 1], base, modulus)
  BY <1>9 DEF IsPowmod, N
<1> HIDE DEF modulus
<1> DEFINE Good == {e \in Nat : e <= N => powmod[e] \in Words(W) /\ ValueOf(W, powmod[e]) = P(e) % m}
<1>11. 0 \in Good
  <2>1. powmod[0] = One
    BY <1>3, <1>10
  <2>2. P(0) = 1 /\ 1 % m = 1
    BY <1>4, IntegerPowerGoes, SmallQuotient
  <2> HIDE DEF P
  <2> QED
    BY <1>3, <2>1, <2>2
<1>12. ASSUME NEW e \in Nat, e \in Good PROVE e + 1 \in Good
  <2> SUFFICES ASSUME e + 1 <= N
               PROVE  powmod[e + 1] \in Words(W) /\ ValueOf(W, powmod[e + 1]) = P(e + 1) % m
    OBVIOUS
  <2>1. powmod[e] \in Words(W) /\ ValueOf(W, powmod[e]) = P(e) % m
    BY <1>3, <1>12
  <2>2. e + 1 \in 0 .. N /\ e + 1 # 0 /\ (e + 1) - 1 = e
    BY <1>3
  <2>3. powmod[e + 1] = uint4096_multmod_o(powmod[e], base, modulus)
    BY <1>10, <2>2
  <2>4. /\ uint4096_multmod_o(powmod[e], base, modulus) \in Words(W)
        /\ ValueOf(W, uint4096_multmod_o(powmod[e], base, modulus)) = ((P(e) % m) * x) % m
    BY <2>1, ProductsModulo DEF modulus
  <2>5. P(e) \in Nat /\ P(e + 1) = P(e) * x
    BY <1>4, PowersAreNumbers, IntegerPowerGoes
  <2> HIDE DEF P, x
  <2>6. ((P(e) % m) * x) % m = (P(e) * x) % m
    BY <1>4, <2>5, ProductReduced
  <2> QED
    BY <2>3, <2>4, <2>5, <2>6
<1> HIDE DEF Good
<1>13. Nat \subseteq Good
  BY <1>11, <1>12, Rounds!NumbersInduce
<1>14. \A e \in 0 .. N : e \in Nat /\ e <= N
  BY <1>3
<1>15. \A e \in 0 .. N : powmod[e] \in Words(W) /\ ValueOf(W, powmod[e]) = P(e) % m
  BY <1>13, <1>14 DEF Good
<1> QED
  BY <1>1, <1>15 DEF N, modulus

LEMMA LogarithmModulo ==
  ASSUME NEW m \in Moduli, NEW x \in Nat, NEW y \in Nat, x < Size(W), y < Size(W),
         NEW a \in Words(W), ValueOf(W, a) = IntegerPower(x, y) % m
  PROVE  LET log == uint4096_logmod(WordsOf(x, W), a, Modulus(m))
         IN  /\ log \in Nat /\ log <= y
             /\ IntegerPower(x, log) % m = IntegerPower(x, y) % m
             /\ \A e \in 0 .. log - 1 : IntegerPower(x, e) % m # IntegerPower(x, y) % m
<1> DEFINE wx == WordsOf(x, W)  N == Size(W)  log == uint4096_logmod(wx, a, Modulus(m))
           P(e) == IntegerPower(x, e) % m
<1>1. W \in Nat /\ N \in Nat \ {0} /\ wx \in Words(W) /\ ValueOf(W, wx) = x
  <2>1. W \in Nat /\ N \in Nat \ {0}
    BY Counts
  <2>2. wx \in Words(W) /\ ValueOf(W, wx) = x % N
    BY <2>1, WordsOfNumber
  <2>3. x % N = x
    BY <2>1, SmallQuotient
  <2> HIDE DEF wx
  <2> QED
    BY <2>1, <2>2, <2>3
<1>2. PICK powmod :
        /\ \A e \in 0 .. N : /\ powmod[e] \in Words(W)
                             /\ ValueOf(W, powmod[e]) = IntegerPower(ValueOf(W, wx), e) % m
        /\ log = CHOOSE e : IsLogarithm(e, powmod, a)
  BY <1>1, LogmodGoes
<1> HIDE DEF wx, log
<1>3. \A e \in 0 .. N : powmod[e] \in Words(W) /\ ValueOf(W, powmod[e]) = P(e)
  BY <1>1, <1>2
<1> DEFINE same(e) == uintnwords_cmp(W, powmod[e], a) = 0
<1>4. \A e \in 0 .. N : same(e) <=> P(e) = P(y)
  BY <1>1, <1>3, SameWordsSameValue
<1> HIDE DEF P
<1>5. \A e \in 0 .. N : e \in Nat
  BY <1>1
<1> DEFINE Equal == {e \in 0 .. N : same(e)}
<1>6. y \in Equal /\ y \in 0 .. N
  <2>1. y \in 0 .. N
    BY <1>1 DEF N
  <2> QED
    BY <1>4, <2>1
<1>7. PICK least \in Equal : \A e \in Equal : least <= e
  <2>1. Equal \in SUBSET Nat /\ Equal # {}
    BY <1>5, <1>6
  <2> HIDE DEF Equal
  <2> QED
    BY <2>1, Rounds!LeastNumber
<1>8. IsLogarithm(least, powmod, a)
  <2>1. least \in 0 .. N /\ same(least) /\ least \in Nat
    BY <1>5, <1>7
  <2>2. \A d \in 0 .. least - 1 : d \in 0 .. N /\ ~(least <= d)
    BY <1>1, <2>1
  <2>3. \A d \in 0 .. least - 1 : ~same(d)
    BY <1>7, <2>2
  <2> QED
    BY <2>1, <2>3 DEF IsLogarithm, N
<1>9. IsLogarithm(log, powmod, a)
  BY <1>2, <1>8
<1>10. log \in 0 .. N /\ same(log) /\ \A d \in 0 .. log - 1 : ~same(d)
  BY <1>9 DEF IsLogarithm, N
<1> HIDE DEF same
<1>11. log \in Nat /\ log <= y
  <2>1. log \in Nat
    BY <1>1, <1>10
  <2>2. ~(y \in 0 .. log - 1)
    BY <1>4, <1>6, <1>10
  <2> QED
    BY <2>1, <2>2
<1>12. P(log) = P(y)
  BY <1>4, <1>10
<1>13. \A e \in 0 .. log - 1 : P(e) # P(y)
  <2>1. \A e \in 0 .. log - 1 : e \in 0 .. N
    BY <1>1, <1>10
  <2> QED
    BY <1>4, <1>10, <2>1
<1> QED
  BY <1>11, <1>12, <1>13 DEF P, log, wx

\* Powers, each the one before times x and reduced.
IsReduced(power, x, y, m) ==
  power = [e \in 0 .. y |-> IF e = 0 THEN 1 ELSE (power[e - 1] * x) % m]
LEMMA ReducedPowers ==
  ASSUME NEW x \in Nat, NEW y \in Nat, NEW m \in Nat \ {0}, 1 < m
  PROVE  \E power : IsReduced(power, x, y, m)
<1> DEFINE F == [ve \in Nat \X (1 .. y) |-> (ve[1] * x) % m]
<1>1. ASSUME NEW v \in Nat, NEW e \in 1 .. y PROVE F[<<v, e>>] = (v * x) % m /\ F[<<v, e>>] \in Nat
  <2>1. F[<<v, e>>] = (v * x) % m
    OBVIOUS
  <2>2. v * x \in Nat
    BY Products
  <2>3. (v * x) % m \in Nat
    BY <2>2, ResidueOfResidue
  <2> QED
    BY <2>1, <2>3
<1> HIDE DEF F
<1>2. 1 \in Nat
  OBVIOUS
<1>3. PICK g : ByRounds(g, Nat, 1, y, F)
  BY <1>1, <1>2, LoopOf
<1>4. ASSUME NEW e \in 0 .. y PROVE g[e] = IF e = 0 THEN 1 ELSE (g[e - 1] * x) % m
  <2>1. CASE e = 0
    BY <2>1, <1>3 DEF ByRounds
  <2>2. CASE e # 0
    <3>1. e \in 1 .. y /\ e - 1 \in 0 .. y
      BY <2>2
    <3>2. g[e - 1] \in Nat /\ g[e] = F[<<g[e - 1], e>>]
      BY <3>1, <1>3 DEF ByRounds
    <3> QED
      BY <2>2, <3>1, <3>2, <1>1
  <2> QED
    BY <2>1, <2>2
<1>5. g = [e \in 0 .. y |-> g[e]]
  BY <1>3 DEF ByRounds
<1> QED
  BY <1>4, <1>5 DEF IsReduced

LEMMA ReducedPowersArePowers ==
  ASSUME NEW x \in Nat, NEW y \in Nat, NEW m \in Nat \ {0}, 1 < m, NEW power, IsReduced(power, x, y, m)
  PROVE  \A e \in 0 .. y : power[e] = IntegerPower(x, e) % m
<1> DEFINE P(e) == IntegerPower(x, e)
           Good == {e \in Nat : e <= y => power[e] = P(e) % m}
<1>1. \A e \in 0 .. y : power[e] = IF e = 0 THEN 1 ELSE (power[e - 1] * x) % m
  BY DEF IsReduced
<1>2. 0 \in Good
  <2>1. power[0] = 1
    BY <1>1
  <2>2. P(0) = 1 /\ 1 % m = 1
    BY IntegerPowerGoes, SmallQuotient
  <2> HIDE DEF P
  <2> QED
    BY <2>1, <2>2
<1>3. ASSUME NEW e \in Nat, e \in Good PROVE e + 1 \in Good
  <2> SUFFICES ASSUME e + 1 <= y PROVE power[e + 1] = P(e + 1) % m
    OBVIOUS
  <2>1. e + 1 \in 0 .. y /\ e + 1 # 0 /\ (e + 1) - 1 = e
    OBVIOUS
  <2>2. power[e + 1] = (power[e] * x) % m
    BY <1>1, <2>1
  <2>3. power[e] = P(e) % m
    BY <1>3
  <2>4. P(e) \in Nat /\ P(e + 1) = P(e) * x
    BY PowersAreNumbers, IntegerPowerGoes
  <2> HIDE DEF P
  <2>5. ((P(e) % m) * x) % m = (P(e) * x) % m
    BY <2>4, ProductReduced
  <2> QED
    BY <2>2, <2>3, <2>4, <2>5
<1> HIDE DEF Good
<1>4. Nat \subseteq Good
  BY <1>2, <1>3, Rounds!NumbersInduce
<1>5. \A e \in 0 .. y : e \in Nat /\ e <= y
  OBVIOUS
<1> QED
  BY <1>4, <1>5 DEF Good

------------------------------------------------------------------------------
(* Bytes.                                                                  *)

\* How many values a byte has, and how many bytes a word.
Byte == IntegerPower(2, ByteBits)
K == BytesPerWord

LEMMA ByteSizes ==
  /\ Byte \in Nat \ {0} /\ K \in Nat \ {0} /\ ByteCount \in Nat /\ ByteCount = W * K
  /\ ByteBits \in Nat
  /\ Base = IntegerPower(Byte, K)
  /\ \A n \in Nat : n * K \in Nat /\ Size(n) = IntegerPower(Byte, n * K)
  /\ \A n \in Nat : ByteBits * n \in Nat /\ IntegerPower(2, ByteBits * n) = IntegerPower(Byte, n)
<1>1. ByteBits \in Nat \ {0} /\ WordBits \in Nat \ {0} /\ WordBits % ByteBits = 0 /\ 2 \in Nat \ {0}
      /\ W \in Nat
  BY UintAssumption, Counts
<1>2. K \in Nat /\ WordBits = K * ByteBits
  BY <1>1, Division DEF K, BytesPerWord
<1>3. K # 0
  BY <1>1, <1>2
<1>4. Byte \in Nat \ {0}
  BY <1>1, PowerIsNumber DEF Byte
<1>5. \A n \in Nat : ByteBits * n \in Nat /\ IntegerPower(2, ByteBits * n) = IntegerPower(Byte, n)
  BY <1>1, PowersOfPowers, Products DEF Byte
<1>6. Base = IntegerPower(Byte, K)
  <2>1. ByteBits * K = WordBits
    BY <1>1, <1>2
  <2> QED
    BY <1>2, <1>5, <2>1 DEF Base
<1>7. ASSUME NEW n \in Nat PROVE n * K \in Nat /\ Size(n) = IntegerPower(Byte, n * K)
  <2>1. K * n = n * K /\ n * K \in Nat
    BY <1>2, Products
  <2>2. IntegerPower(IntegerPower(Byte, K), n) = IntegerPower(Byte, K * n)
    BY <1>2, <1>4, PowersOfPowers
  <2> QED
    BY <1>6, <2>1, <2>2 DEF Size
<1>8. W * K \in Nat /\ ByteCount = W * K
  BY <1>1, <1>2, Products DEF ByteCount, W, K
<1> QED
  BY <1>1, <1>2, <1>3, <1>4, <1>5, <1>6, <1>7, <1>8

\* The bytes counted from the end, and how a word is put together from them.
PlacedByte(n, bytes, i) == IF i < n THEN bytes[n - i] ELSE 0
IsWordOfBytes(value, n, bytes, w) ==
  value = [k \in 0 .. BytesPerWord |->
    IF k = 0 THEN 0
    ELSE value[k - 1] + PlacedByte(n, bytes, (WordCount - w) * BytesPerWord + k - 1)
                        * IntegerPower(2, ByteBits * (k - 1))]

\* The bytes of a number.
AreBytesOf(bytes, n, v) == \A i \in 1 .. n : bytes[i] = (v \div IntegerPower(Byte, n - i)) % Byte

LEMMA BytesArePlaced ==
  ASSUME NEW v \in Nat, NEW n \in Nat, NEW bytes, AreBytesOf(bytes, n, v), NEW i \in Nat
  PROVE  /\ v % IntegerPower(Byte, n) \in Nat
         /\ PlacedByte(n, bytes, i) = ((v % IntegerPower(Byte, n)) \div IntegerPower(Byte, i)) % Byte
<1> DEFINE bn == IntegerPower(Byte, n)  bi == IntegerPower(Byte, i)  r == v % bn
<1>1. Byte \in Nat \ {0}
  BY ByteSizes
<1>2. bn \in Nat \ {0} /\ bi \in Nat \ {0}
  BY <1>1, PowerIsNumber
<1>3. r \in 0 .. bn - 1 /\ r \in Nat
  <2>1. r \in 0 .. bn - 1
    BY <1>2, Division
  <2> QED
    BY <1>2, <2>1
<1>4. CASE i < n
  <2>1. n - i \in 1 .. n /\ n - (n - i) = i
    BY <1>4
  <2>2. PlacedByte(n, bytes, i) = (v \div bi) % Byte
    BY <1>4, <2>1 DEF PlacedByte, AreBytesOf
  <2>3. (r \div bi) % Byte = (v \div bi) % Byte
    BY <1>1, <1>4, DigitKept
  <2> QED
    BY <1>3, <2>2, <2>3
<1>5. CASE ~(i < n)
  <2>1. bn <= bi
    BY <1>1, <1>5, PowersGrow
  <2> HIDE DEF bn, bi, r
  <2>2. r < bi
    BY <1>2, <1>3, <2>1
  <2>3. r \div bi = 0 /\ 0 % Byte = 0
    BY <1>1, <1>2, <1>3, <2>2, SmallQuotient
  <2>4. PlacedByte(n, bytes, i) = 0
    BY <1>5 DEF PlacedByte
  <2> QED
    BY <1>3, <2>3, <2>4 DEF bn, bi, r
<1> QED
  BY <1>4, <1>5

\* A word is put together from its bytes.
LEMMA WordOfBytes ==
  ASSUME NEW v \in Nat, NEW n \in Nat, NEW bytes, AreBytesOf(bytes, n, v), NEW w \in 1 .. W
  PROVE  /\ \E value : IsWordOfBytes(value, n, bytes, w)
         /\ \A value : IsWordOfBytes(value, n, bytes, w) =>
              value[BytesPerWord] = ((v % IntegerPower(Byte, n)) \div Size(W - w)) % Base
<1> DEFINE r == v % IntegerPower(Byte, n)  p == (W - w) * K  c == r \div IntegerPower(Byte, p)
           D(j) == (c \div IntegerPower(Byte, j)) % Byte
<1>1. /\ Byte \in Nat \ {0} /\ K \in Nat \ {0} /\ W - w \in Nat /\ p \in Nat
      /\ Size(W - w) = IntegerPower(Byte, p) /\ Base = IntegerPower(Byte, K)
  <2>1. W - w \in Nat
    BY Counts
  <2> QED
    BY <2>1, ByteSizes
<1>2. r \in Nat
  BY BytesArePlaced
<1>3. IntegerPower(Byte, p) \in Nat \ {0} /\ c \in Nat
  <2>1. IntegerPower(Byte, p) \in Nat \ {0}
    BY <1>1, PowerIsNumber
  <2> HIDE DEF p, r
  <2> QED
    BY <1>2, <2>1, Division
<1>4. \A j \in Nat : PlacedByte(n, bytes, p + j) = D(j)
  <2> SUFFICES ASSUME NEW j \in Nat PROVE PlacedByte(n, bytes, p + j) = D(j)
    OBVIOUS
  <2>1. p + j \in Nat
    BY <1>1
  <2>2. PlacedByte(n, bytes, p + j) = (r \div IntegerPower(Byte, p + j)) % Byte
    BY <2>1, BytesArePlaced
  <2> HIDE DEF p, r
  <2>3. IntegerPower(Byte, p + j) = IntegerPower(Byte, p) * IntegerPower(Byte, j)
    BY <1>1, PowersMultiply
  <2>4. IntegerPower(Byte, j) \in Nat \ {0}
    BY <1>1, PowerIsNumber
  <2>5. c \div IntegerPower(Byte, j) = r \div (IntegerPower(Byte, p) * IntegerPower(Byte, j))
    BY <1>2, <1>3, <2>4, QuotientOfQuotient
  <2> QED
    BY <2>2, <2>3, <2>5
<1> HIDE DEF r, c
<1>5. \A j \in Nat : D(j) \in Nat /\ IntegerPower(Byte, j) \in Nat \ {0}
                     /\ IntegerPower(2, ByteBits * j) = IntegerPower(Byte, j)
  <2> SUFFICES ASSUME NEW j \in Nat
               PROVE  D(j) \in Nat /\ IntegerPower(Byte, j) \in Nat \ {0}
                      /\ IntegerPower(2, ByteBits * j) = IntegerPower(Byte, j)
    OBVIOUS
  <2>1. IntegerPower(Byte, j) \in Nat \ {0} /\ IntegerPower(2, ByteBits * j) = IntegerPower(Byte, j)
    BY <1>1, PowerIsNumber, ByteSizes
  <2>2. c \div IntegerPower(Byte, j) \in Nat
    BY <1>3, <2>1, Division
  <2> QED
    BY <1>1, <2>1, <2>2, ResidueOfResidue
<1> HIDE DEF D
\* What the loop adds.
<1>6. ASSUME NEW k \in 1 .. K
      PROVE  /\ k - 1 \in Nat
             /\ PlacedByte(n, bytes, (WordCount - w) * BytesPerWord + k - 1) * IntegerPower(2, ByteBits * (k - 1))
                  = D(k - 1) * IntegerPower(Byte, k - 1)
  <2>1. k - 1 \in Nat /\ p + (k - 1) = (WordCount - w) * BytesPerWord + k - 1
    BY <1>1 DEF p, W, K
  <2> HIDE DEF p
  <2>2. PlacedByte(n, bytes, (WordCount - w) * BytesPerWord + k - 1) = D(k - 1)
    BY <1>4, <2>1
  <2>3. IntegerPower(2, ByteBits * (k - 1)) = IntegerPower(Byte, k - 1)
    BY <1>5, <2>1
  <2> QED
    BY <2>1, <2>2, <2>3
<1>7. \E value : IsWordOfBytes(value, n, bytes, w)
  <2> DEFINE F == [vk \in Nat \X (1 .. K) |-> vk[1] + D(vk[2] - 1) * IntegerPower(Byte, vk[2] - 1)]
  <2>1. ASSUME NEW x \in Nat, NEW k \in 1 .. K
        PROVE  F[<<x, k>>] = x + D(k - 1) * IntegerPower(Byte, k - 1) /\ F[<<x, k>>] \in Nat
    <3>1. F[<<x, k>>] = x + D(k - 1) * IntegerPower(Byte, k - 1)
      OBVIOUS
    <3>2. k - 1 \in Nat
      BY <1>1
    <3>3. D(k - 1) * IntegerPower(Byte, k - 1) \in Nat
      BY <1>5, <3>2, Products
    <3> QED
      BY <3>1, <3>3
  <2> HIDE DEF F
  <2>2. 0 \in Nat /\ K \in Nat
    BY <1>1
  <2>3. PICK g : ByRounds(g, Nat, 0, K, F)
    BY <2>1, <2>2, LoopOf
  <2>4. ASSUME NEW k \in 0 .. K
        PROVE  g[k] = IF k = 0 THEN 0
                      ELSE g[k - 1] + PlacedByte(n, bytes, (WordCount - w) * BytesPerWord + k - 1)
                                      * IntegerPower(2, ByteBits * (k - 1))
    <3>1. CASE k = 0
      BY <3>1, <2>3 DEF ByRounds
    <3>2. CASE k # 0
      <4>1. k \in 1 .. K /\ k - 1 \in 0 .. K
        BY <1>1, <3>2
      <4>2. g[k - 1] \in Nat /\ g[k] = F[<<g[k - 1], k>>]
        BY <4>1, <2>3 DEF ByRounds
      <4>3. g[k] = g[k - 1] + D(k - 1) * IntegerPower(Byte, k - 1)
        BY <2>1, <4>1, <4>2
      <4> QED
        BY <1>6, <3>2, <4>1, <4>3
    <3> QED
      BY <3>1, <3>2
  <2>5. g = [k \in 0 .. K |-> g[k]]
    BY <2>3 DEF ByRounds
  <2>6. IsWordOfBytes(g, n, bytes, w)
    BY <2>4, <2>5 DEF IsWordOfBytes, K
  <2> QED
    BY <2>6
<1>8. ASSUME NEW value, IsWordOfBytes(value, n, bytes, w)
      PROVE  value[BytesPerWord] = c % IntegerPower(Byte, K)
  <2>1. value[0] = 0
    <3>1. 0 \in 0 .. BytesPerWord
      BY <1>1 DEF K
    <3> QED
      BY <1>8, <3>1 DEF IsWordOfBytes
  <2>2. ASSUME NEW k \in 1 .. K PROVE value[k] = value[k - 1] + D(k - 1) * IntegerPower(Byte, k - 1)
    <3>1. k \in 0 .. BytesPerWord /\ k # 0
      BY <1>1 DEF K
    <3>2. value[k] = value[k - 1] + PlacedByte(n, bytes, (WordCount - w) * BytesPerWord + k - 1)
                                     * IntegerPower(2, ByteBits * (k - 1))
      BY <1>8, <3>1 DEF IsWordOfBytes
    <3> QED
      BY <1>6, <3>2
  <2> DEFINE Good == {k \in Nat : k <= K => value[k] = c % IntegerPower(Byte, k)}
  <2>3. 0 \in Good
    <3>1. IntegerPower(Byte, 0) = 1 /\ c % 1 = 0
      BY <1>1, <1>3, IntegerPowerGoes
    <3> QED
      BY <2>1, <3>1
  <2>4. ASSUME NEW k \in Nat, k \in Good PROVE k + 1 \in Good
    <3> SUFFICES ASSUME k + 1 <= K PROVE value[k + 1] = c % IntegerPower(Byte, k + 1)
      OBVIOUS
    <3>1. k + 1 \in 1 .. K /\ (k + 1) - 1 = k
      BY <1>1
    <3>2. value[k] = c % IntegerPower(Byte, k)
      BY <1>1, <2>4
    <3>3. value[k + 1] = value[k] + D(k) * IntegerPower(Byte, k)
      BY <2>2, <3>1
    <3>4. c % IntegerPower(Byte, k + 1) = (c % IntegerPower(Byte, k)) + D(k) * IntegerPower(Byte, k)
      BY <1>1, <1>3, DigitAdds DEF D
    <3> QED
      BY <3>2, <3>3, <3>4
  <2> HIDE DEF Good
  <2>5. K \in Good
    BY <1>1, <2>3, <2>4, Rounds!NumbersInduce
  <2>6. value[K] = c % IntegerPower(Byte, K)
    BY <1>1, <2>5 DEF Good
  <2> QED
    BY <2>6 DEF K
<1> QED
  BY <1>1, <1>7, <1>8 DEF c, r

LEMMA NumberOfBytes ==
  ASSUME NEW v \in Nat, NEW n \in Nat, n <= ByteCount, NEW bytes, AreBytesOf(bytes, n, v)
  PROVE  ValueOf(W, WordsOfBytes(n, bytes)) = v % IntegerPower(Byte, n)
<1> DEFINE r == v % IntegerPower(Byte, n)
           value(w) == CHOOSE value : IsWordOfBytes(value, n, bytes, w)
<1>1. WordsOfBytes(n, bytes) = [w \in 1 .. W |-> value(w)[BytesPerWord]]
  BY DEF WordsOfBytes, IsWordOfBytes, PlacedByte, W
<1>2. ASSUME NEW w \in 1 .. W PROVE value(w)[BytesPerWord] = (r \div Size(W - w)) % Base
  <2>1. IsWordOfBytes(value(w), n, bytes, w)
    BY WordOfBytes
  <2> HIDE DEF value
  <2> QED
    BY <2>1, WordOfBytes
<1>3. WordsOfBytes(n, bytes) = WordsOf(r, W)
  <2> HIDE DEF value, r
  <2> QED
    BY <1>1, <1>2 DEF WordsOf
<1>4. Byte \in Nat \ {0} /\ W \in Nat /\ ByteCount = W * K /\ Size(W) = IntegerPower(Byte, ByteCount)
      /\ ByteCount \in Nat
  BY Counts, ByteSizes
<1>5. IntegerPower(Byte, n) \in Nat \ {0} /\ IntegerPower(Byte, n) <= Size(W)
  BY <1>4, PowerIsNumber, PowersGrow
<1>6. r \in 0 .. IntegerPower(Byte, n) - 1
  BY <1>5, Division
<1> HIDE DEF r
<1>7. r \in Nat /\ r < Size(W) /\ Size(W) \in Nat \ {0}
  BY <1>5, <1>6, Counts
<1>8. ValueOf(W, WordsOf(r, W)) = r % Size(W)
  BY <1>4, <1>7, WordsOfNumber
<1>9. r % Size(W) = r
  BY <1>7, SmallQuotient
<1> QED
  BY <1>3, <1>8, <1>9 DEF r

\* Reading more bytes than there is room for reads the last.
LEMMA BytesReadBack ==
  ASSUME NEW v \in Nat, NEW n \in Nat
  PROVE  ValueOf(W, uint4096_zext_o(n, [i \in 1 .. n |->
             (v \div IntegerPower(2, ByteBits * (n - i))) % IntegerPower(2, ByteBits)]))
           = v % IntegerPower(2, ByteBits * (IF n < ByteCount THEN n ELSE ByteCount))
<1> DEFINE bytes == [i \in 1 .. n |-> (v \div IntegerPower(2, ByteBits * (n - i))) % IntegerPower(2, ByteBits)]
<1>1. \A j \in Nat : IntegerPower(2, ByteBits * j) = IntegerPower(Byte, j)
  BY ByteSizes
<1>2. ByteCount \in Nat
  BY ByteSizes
<1>3. AreBytesOf(bytes, n, v)
  <2> SUFFICES ASSUME NEW i \in 1 .. n PROVE bytes[i] = (v \div IntegerPower(Byte, n - i)) % Byte
    BY DEF AreBytesOf
  <2>1. n - i \in Nat
    OBVIOUS
  <2> QED
    BY <1>1, <2>1 DEF Byte
<1> HIDE DEF bytes
<1>4. CASE n > ByteCount
  <2> DEFINE last == From(bytes, n - ByteCount, ByteCount)
  <2>1. AreBytesOf(last, ByteCount, v)
    <3> SUFFICES ASSUME NEW i \in 1 .. ByteCount
                 PROVE  last[i] = (v \div IntegerPower(Byte, ByteCount - i)) % Byte
      BY DEF AreBytesOf
    <3>1. (n - ByteCount) + i \in 1 .. n /\ n - ((n - ByteCount) + i) = ByteCount - i
      BY <1>2, <1>4
    <3>2. last[i] = bytes[(n - ByteCount) + i]
      BY DEF From
    <3> HIDE DEF last
    <3>3. bytes[(n - ByteCount) + i] = (v \div IntegerPower(Byte, n - ((n - ByteCount) + i))) % Byte
      BY <1>3, <3>1 DEF AreBytesOf
    <3> QED
      BY <3>1, <3>2, <3>3
  <2>2. uint4096_zext_o(n, bytes) = WordsOfBytes(ByteCount, last)
    BY <1>4 DEF uint4096_zext_o
  <2> HIDE DEF last
  <2>3. ValueOf(W, WordsOfBytes(ByteCount, last)) = v % IntegerPower(Byte, ByteCount)
    BY <1>2, <2>1, NumberOfBytes
  <2>4. ~(n < ByteCount)
    BY <1>2, <1>4
  <2> QED
    BY <1>1, <1>2, <2>2, <2>3, <2>4 DEF bytes
<1>5. CASE ~(n > ByteCount)
  <2>1. uint4096_zext_o(n, bytes) = WordsOfBytes(n, bytes)
    BY <1>5 DEF uint4096_zext_o
  <2>2. n <= ByteCount
    BY <1>2, <1>5
  <2>3. ValueOf(W, WordsOfBytes(n, bytes)) = v % IntegerPower(Byte, n)
    BY <1>3, <2>2, NumberOfBytes
  <2>4. (IF n < ByteCount THEN n ELSE ByteCount) = n
    BY <1>2, <2>2
  <2> QED
    BY <1>1, <2>1, <2>3, <2>4 DEF bytes
<1> QED
  BY <1>4, <1>5

------------------------------------------------------------------------------
(* What the numbers promise.                                               *)

\* What is computed with.
OperandsAreNumbers == operands \in [a : 0 .. Size(2 * W) - 1, m : {0} \cup Moduli]

LEMMA NumbersStart == NumbersInit => OperandsAreNumbers
BY DEF NumbersInit, OperandsAreNumbers, W

LEMMA NumbersStep == OperandsAreNumbers /\ [ChooseModulus]_operands => OperandsAreNumbers'
BY DEF OperandsAreNumbers, ChooseModulus

LEMMA NumbersKeep == NumbersSpec => []OperandsAreNumbers
BY NumbersStart, NumbersStep, PTL DEF NumbersSpec

LEMMA NumberInWords ==
  ASSUME NEW n \in Nat, NEW v \in Nat, v < Size(n)
  PROVE  WordsOf(v, n) \in Words(n) /\ ValueOf(n, WordsOf(v, n)) = v
<1>1. Size(n) \in Nat \ {0}
  BY WordSizes
<1>2. WordsOf(v, n) \in Words(n) /\ ValueOf(n, WordsOf(v, n)) = v % Size(n)
  BY WordsOfNumber
<1> QED
  BY <1>1, <1>2, SmallQuotient

LEMMA ExactWords == OperandsAreNumbers => WordArithmeticIsExact
<1> SUFFICES ASSUME OperandsAreNumbers, operands.m # 0 PROVE WordArithmeticIsExact
  BY DEF WordArithmeticIsExact
<1> DEFINE m == operands.m  a == operands.a  size == Size(W)
           x == a \div size  y == a % size
           wx == WordsOf(x, W)  wy == WordsOf(y, W)
           power == CHOOSE power : IsReduced(power, x, y, m)
           powmod == uint4096_powmod_o(wx, wy, Modulus(m))
           logmod == uint4096_logmod(wx, WordsOf(power[y], W), Modulus(m))
           P(e) == IntegerPower(x, e) % m
<1>1. W \in Nat /\ 2 * W \in Nat /\ size \in Nat \ {0} /\ Size(2 * W) = size * size
      /\ Size(2 * W) \in Nat
  BY Counts
<1>2. m \in Moduli /\ a \in 0 .. Size(2 * W) - 1 /\ a \in Nat
  BY <1>1 DEF OperandsAreNumbers
<1>3. m \in Nat \ {0} /\ 1 < m
  BY <1>2, ModulusWords
<1>4. x \in Nat /\ y \in Nat /\ x < size /\ y < size
  <2> HIDE DEF a, size
  <2>1. x \in Nat /\ y \in 0 .. size - 1 /\ a = x * size + y
    BY <1>1, <1>2, Division
  <2> HIDE DEF x, y
  <2>2. x < size
    <3> SUFFICES ASSUME x >= size PROVE FALSE
      BY <1>1, <2>1
    <3>1. x * size = size * size + (x - size) * size /\ (x - size) * size \in Nat
      <4>1. x - size \in Nat
        BY <1>1, <2>1
      <4> QED
        BY <1>1, <2>1, <4>1, Products
    <3> DEFINE square == size * size
    <3>2. square \in Nat /\ a < square
      BY <1>1, <1>2
    <3> HIDE DEF square
    <3> QED
      BY <1>2, <2>1, <3>1, <3>2 DEF square
  <2> QED
    BY <1>1, <2>1, <2>2
<1>5. /\ wx \in Words(W) /\ ValueOf(W, wx) = x
      /\ wy \in Words(W) /\ ValueOf(W, wy) = y
  <2> HIDE DEF x, y
  <2> QED
    BY <1>1, <1>4, NumberInWords
<1>6. WordsOf(a, 2 * W) \in Words(2 * W) /\ ValueOf(2 * W, WordsOf(a, 2 * W)) = a
  <2> HIDE DEF a
  <2>1. a < Size(2 * W)
    BY <1>1, <1>2
  <2> QED
    BY <1>1, <1>2, <2>1, NumberInWords
<1>7. powmod \in Words(W) /\ ValueOf(W, powmod) = P(y)
  <2> HIDE DEF x, y, m
  <2> QED
    BY <1>2, <1>4, PowerModulo
<1>8. \A e \in 0 .. y : power[e] = P(e)
  <2> HIDE DEF x, y, m
  <2>1. IsReduced(power, x, y, m)
    BY <1>3, <1>4, ReducedPowers
  <2> HIDE DEF power
  <2> QED
    BY <1>3, <1>4, <2>1, ReducedPowersArePowers
<1>9. /\ logmod \in Nat /\ logmod <= y /\ P(logmod) = P(y)
      /\ \A e \in 0 .. logmod - 1 : P(e) # P(y)
  <2> DEFINE words == WordsOf(power[y], W)
  <2>1. y \in 0 .. y /\ power[y] = P(y)
    <3> HIDE DEF y, power, P
    <3> QED
      BY <1>4, <1>8
  <2>2. P(y) \in Nat /\ P(y) < size
    <3> HIDE DEF powmod, P
    <3> QED
      BY <1>1, <1>7, ValueBounded
  <2>3. words \in Words(W) /\ ValueOf(W, words) = P(y)
    <3> HIDE DEF power, y, P, size
    <3> QED
      BY <1>1, <2>1, <2>2, NumberInWords DEF size
  <2> HIDE DEF x, y, m, words
  <2> QED
    BY <1>2, <1>4, <2>3, LogarithmModulo DEF words
<1>10. ValueOf(W, uintnwords_add_o(W, wx, wy)) = (x + y) % size
  <2> HIDE DEF wx, wy, x, y
  <2> QED
    BY <1>1, <1>5, SumOfWords
<1>11. ValueOf(W, uintnwords_negate_o(W, wx)) = (size - x) % size
  <2> HIDE DEF wx, wy, x, y
  <2> QED
    BY <1>1, <1>5, NegatedWords
<1>12. uintnwords_le(W, wx, wy) <=> x <= y
  <2> HIDE DEF wx, wy, x, y
  <2> QED
    BY <1>1, <1>5, SameWordsSameValue
<1>13. ValueOf(2 * W, uintfn_mult_o(LogWords, wx, wy)) = x * y
  <2> HIDE DEF wx, wy, x, y
  <2> QED
    BY <1>5, Counts, ProductOfWords
<1>14. ValueOf(W, uint8192_mod_o(WordsOf(a, 2 * W), Modulus(m))) = a % m
  <2> HIDE DEF a, m
  <2> QED
    BY <1>2, <1>6, RemainderOfWords
<1>15. \A n \in 0 .. 2 * ByteCount :
         ValueOf(W, uint4096_zext_o(n, [i \in 1 .. n |->
             (a \div IntegerPower(2, ByteBits * (n - i))) % IntegerPower(2, ByteBits)]))
           = a % IntegerPower(2, ByteBits * (IF n < ByteCount THEN n ELSE ByteCount))
  <2>1. \A n \in 0 .. 2 * ByteCount : n \in Nat
    BY ByteSizes
  <2> HIDE DEF a
  <2> QED
    BY <1>2, <2>1, BytesReadBack
<1>16. power[logmod] = power[y] /\ power[y] = P(y) /\ \A e \in 0 .. logmod - 1 : power[e] # power[y]
  <2> HIDE DEF power, logmod, y, P
  <2>1. logmod \in 0 .. y /\ y \in 0 .. y /\ \A e \in 0 .. logmod - 1 : e \in 0 .. y
    BY <1>4, <1>9
  <2> QED
    BY <1>8, <1>9, <2>1
<1> HIDE DEF P
<1>17. ValueOf(W, powmod) = power[y]
  BY <1>7, <1>16
<1>18. \E e \in 0 .. y : e = logmod /\ power[e] = power[y] /\ \A d \in 0 .. e - 1 : power[d] # power[y]
  <2> HIDE DEF power, logmod, y
  <2> QED
    BY <1>4, <1>9, <1>16
<1> QED
  BY <1>10, <1>11, <1>12, <1>13, <1>14, <1>15, <1>17, <1>18
     DEF WordArithmeticIsExact, IsReduced, W

\* uint4096.c: whatever the size of a word, the number of words and the operands, the
\* arithmetic on words is that of the numbers, with Karatsuba's product, the remainder by
\* a reciprocal, repeated squaring, the search for a logarithm and the reading of bytes.
THEOREM WordsComputeTheNumbers == NumbersSpec => []WordArithmeticIsExact
BY NumbersKeep, ExactWords, PTL

LEMMA LittleIsLeft == OperandsAreNumbers => RemainderLoopRunsOnce
<1> SUFFICES ASSUME OperandsAreNumbers, operands.m # 0 PROVE RemainderLoopRunsOnce
  BY DEF RemainderLoopRunsOnce
<1> DEFINE m == operands.m  v == operands.a  a == WordsOf(v, 2 * W)
<1>1. m \in Moduli /\ v \in Nat /\ v < Size(2 * W) /\ 2 * W \in Nat
  BY Counts DEF OperandsAreNumbers
<1>2. a \in Words(2 * W)
  <2> HIDE DEF v
  <2> QED
    BY <1>1, NumberInWords
<1>3. ValueOf(2 * W, RemainderEstimate(a, Modulus(m))) < 2 * m
  <2> HIDE DEF a, m
  <2> QED
    BY <1>1, <1>2, EstimateLeavesLittle
<1> QED
  BY <1>3 DEF RemainderLoopRunsOnce, W

\* The comment at uint4096.c:178 holds for every modulus with the reciprocal that is its
\* own: what the estimated quotient leaves is less than twice the modulus.
THEOREM RemainderLoopRunsAtMostOnce == NumbersSpec => []RemainderLoopRunsOnce
BY NumbersKeep, LittleIsLeft, PTL
------------------------------------------------------------------------------
(* Messages in bytes: what is written is read back.                        *)

LEMMA AsSequence ==
  ASSUME NEW S, NEW n \in Nat, NEW s \in [1 .. n -> S]
  PROVE  s \in Seq(S) /\ Len(s) = n
OBVIOUS

\* The recursive function of NumberOf.
IsNumberOf(number, base, digits) ==
  number = [k \in 0 .. Len(digits) |-> IF k = 0 THEN 0 ELSE number[k - 1] * base + digits[k]]

LEMMA NumberOfGoes ==
  ASSUME NEW base \in Nat, NEW digits \in Seq(Nat), NEW g,
         g[0] = 0, \A k \in 1 .. Len(digits) : g[k] = g[k - 1] * base + digits[k]
  PROVE  NumberOf(base, digits) = g[Len(digits)]
<1> DEFINE n == Len(digits)
           number == CHOOSE number : IsNumberOf(number, base, digits)
           h == [k \in 0 .. n |-> g[k]]
<1>1. n \in Nat
  OBVIOUS
<1>2. IsNumberOf(h, base, digits)
  <2>1. ASSUME NEW k \in 0 .. n
        PROVE  h[k] = IF k = 0 THEN 0 ELSE h[k - 1] * base + digits[k]
    <3>1. CASE k = 0
      BY <3>1
    <3>2. CASE k # 0
      <4>1. k \in 1 .. n /\ k - 1 \in 0 .. n
        BY <1>1, <3>2
      <4> QED
        BY <3>2, <4>1
    <3> QED
      BY <3>1, <3>2
  <2>2. h = [k \in 0 .. n |-> h[k]]
    OBVIOUS
  <2> HIDE DEF h
  <2> QED
    BY <2>1, <2>2 DEF IsNumberOf
<1>3. IsNumberOf(number, base, digits)
  BY <1>2
<1>4. NumberOf(base, digits) = number[n]
  BY DEF NumberOf, IsNumberOf
<1> HIDE DEF number, h
<1>5. \A k \in 0 .. n : number[k] = IF k = 0 THEN 0 ELSE number[k - 1] * base + digits[k]
  BY <1>3 DEF IsNumberOf
<1>a. number[0] = g[0]
  BY <1>1, <1>5
<1>6. \A k \in 1 .. n : number[k - 1] = g[k - 1] => number[k] = g[k]
  BY <1>1, <1>5
<1> HIDE DEF n
<1>7. \A k \in 0 .. n : number[k] = g[k]
  BY <1>1, <1>a, <1>6, SameRounds, ZenonT(40)
<1> QED
  BY <1>1, <1>4, <1>7 DEF n

\* The digits of a number are the number, when they are enough of them.
LEMMA DigitsReadBack ==
  ASSUME NEW base \in Nat \ {0}, NEW v \in Nat, NEW n \in Nat, v < IntegerPower(base, n)
  PROVE  /\ Digits(base, v, n) \in Seq(0 .. base - 1) /\ Len(Digits(base, v, n)) = n
         /\ NumberOf(base, Digits(base, v, n)) = v
<1> DEFINE d == Digits(base, v, n)
           P(i) == IntegerPower(base, i)
           g == [k \in 0 .. n |-> v \div P(n - k)]
<1>0. \A i \in Nat : P(i) \in Nat \ {0} /\ P(i + 1) = P(i) * base /\ P(0) = 1
  BY PowerIsNumber, IntegerPowerGoes
<1> HIDE DEF P
<1>1. ASSUME NEW k \in 0 .. n
      PROVE  n - k \in Nat /\ v \div P(n - k) \in Nat
  <2>1. n - k \in Nat
    OBVIOUS
  <2> QED
    BY <1>0, <2>1, Division
<1>2. ASSUME NEW k \in 1 .. n
      PROVE  d[k] = (v \div P(n - k)) % base /\ d[k] \in 0 .. base - 1 /\ d[k] \in Nat
  <2>1. d[k] = (v \div P(n - k)) % base
    BY DEF Digits, P
  <2> HIDE DEF d
  <2> QED
    BY <1>1, <2>1, Division
<1>3. d \in [1 .. n -> 0 .. base - 1]
  <2>1. d = [k \in 1 .. n |-> d[k]]
    BY DEF Digits
  <2> HIDE DEF d
  <2> QED
    BY <1>2, <2>1
<1> HIDE DEF d
<1>4. d \in Seq(0 .. base - 1) /\ Len(d) = n
  BY <1>3, AsSequence
<1>5. d \in [1 .. n -> Nat]
  BY <1>3
<1>6. d \in Seq(Nat)
  BY <1>5, AsSequence
<1>7. g[0] = 0 /\ g[n] = v
  <2>1. v < P(n)
    BY DEF P
  <2>2. v \div P(n) = 0
    BY <1>0, <2>1, SmallQuotient
  <2>3. n - 0 = n /\ n - n = 0 /\ 0 \in 0 .. n /\ n \in 0 .. n
    OBVIOUS
  <2>4. v \div P(0) = v
    BY <1>0
  <2> QED
    BY <2>2, <2>3, <2>4
<1>8. ASSUME NEW k \in 1 .. n PROVE g[k] = g[k - 1] * base + d[k]
  <2> DEFINE i == n - k  q == v \div P(i)
  <2>1. i \in Nat /\ n - (k - 1) = i + 1 /\ k \in 0 .. n /\ k - 1 \in 0 .. n
    OBVIOUS
  <2>2. P(i) \in Nat \ {0} /\ P(i + 1) = P(i) * base
    BY <1>0, <2>1
  <2>3. g[k] = q /\ g[k - 1] = v \div (P(i) * base)
    BY <2>1, <2>2
  <2>4. q \div base = v \div (P(i) * base)
    BY <2>2, QuotientOfQuotient
  <2>5. q \in Nat
    BY <2>2, Division
  <2>6. d[k] = q % base
    BY <1>2
  <2> HIDE DEF q, g
  <2>7. q = (q \div base) * base + (q % base)
    BY <2>5, Division
  <2> QED
    BY <2>3, <2>4, <2>6, <2>7
<1> HIDE DEF g
<1>9. NumberOf(base, d) = g[Len(d)]
  BY <1>4, <1>6, <1>7, <1>8, NumberOfGoes
<1> QED
  BY <1>4, <1>7, <1>9 DEF d

LEMMA ReversedTwice ==
  ASSUME NEW S, NEW s \in Seq(S)
  PROVE  Reverse(s) \in Seq(S) /\ Len(Reverse(s)) = Len(s) /\ Reverse(Reverse(s)) = s
<1> DEFINE n == Len(s)  t == Reverse(s)  u == Reverse(t)
<1>1. n \in Nat /\ s \in [1 .. n -> S]
  BY LenProperties
<1>2. t \in [1 .. n -> S] /\ \A i \in 1 .. n : t[i] = s[(n - i) + 1]
  <2>1. \A i \in 1 .. n : (n - i) + 1 \in 1 .. n
    BY <1>1
  <2> QED
    BY <1>1, <2>1 DEF Reverse
<1> HIDE DEF t
<1>3. t \in Seq(S) /\ Len(t) = n
  BY <1>1, <1>2, AsSequence
<1>4. u = [i \in 1 .. n |-> t[(n - i) + 1]]
  BY <1>3 DEF Reverse
<1>5. \A i \in 1 .. n : u[i] = s[i]
  <2>1. \A i \in 1 .. n : (n - i) + 1 \in 1 .. n /\ (n - ((n - i) + 1)) + 1 = i
    BY <1>1
  <2> HIDE DEF u
  <2> QED
    BY <1>2, <1>4, <2>1
<1>6. u \in [1 .. n -> S]
  <2> HIDE DEF u
  <2>1. \A i \in 1 .. n : u[i] \in S
    BY <1>1, <1>5
  <2> QED
    BY <1>4, <2>1
<1> HIDE DEF u
<1>7. u \in Seq(S) /\ Len(u) = n
  BY <1>1, <1>6, AsSequence
<1>8. u = s
  BY <1>5, <1>7, SeqEqual
<1> QED
  BY <1>3, <1>8 DEF u, t

\* read_nth_byte and write_nth_byte undo each other, for what there are enough bytes for.
LEMMA BytesOfNumber ==
  ASSUME NEW v \in Nat, NEW n \in Nat, v < IntegerPower(ByteBase, n)
  PROVE  Bytes(v, n) \in Seq(Nat) /\ Len(Bytes(v, n)) = n /\ FromBytes(Bytes(v, n)) = v
<1> DEFINE d == Digits(ByteBase, v, n)
<1>1. ByteBase \in Nat \ {0}
  BY SerializationAssumption
<1>2. d \in Seq(0 .. ByteBase - 1) /\ Len(d) = n /\ NumberOf(ByteBase, d) = v
  BY <1>1, DigitsReadBack
<1> HIDE DEF d
<1>3. d \in Seq(Nat)
  <2>1. 0 .. ByteBase - 1 \subseteq Nat
    BY <1>1
  <2> QED
    BY <1>2, <2>1, SeqMonotonic
<1>4. Bytes(v, n) = Reverse(d)
  BY DEF Bytes, d
<1> QED
  BY <1>2, <1>3, <1>4, ReversedTwice DEF FromBytes

------------------------------------------------------------------------------
(* Sequences one behind the other.                                         *)

\* g[k]: the first k of the sequences.
Joins(g, S, seqs) ==
  /\ g \in [0 .. Len(seqs) -> Seq(S)]
  /\ g[0] = <<>>
  /\ \A k \in 1 .. Len(seqs) : g[k] = g[k - 1] \o seqs[k]

LEMMA JoinedExists ==
  ASSUME NEW S, NEW seqs \in Seq(Seq(S))
  PROVE  \E g : Joins(g, S, seqs)
<1> DEFINE n == Len(seqs)  F == [vj \in Seq(S) \X (1 .. n) |-> vj[1] \o seqs[vj[2]]]
<1>1. n \in Nat /\ \A j \in 1 .. n : seqs[j] \in Seq(S)
  OBVIOUS
<1>2. \A v \in Seq(S), j \in 1 .. n : F[<<v, j>>] = v \o seqs[j]
  OBVIOUS
<1> HIDE DEF F, n
<1>3. \A v \in Seq(S), j \in 1 .. n : F[<<v, j>>] \in Seq(S)
  BY <1>1, <1>2, ConcatProperties
<1>4. <<>> \in Seq(S)
  OBVIOUS
<1>5. PICK g : ByRounds(g, Seq(S), <<>>, n, F)
  BY <1>1, <1>3, <1>4, LoopOf
<1>6. g \in [0 .. n -> Seq(S)] /\ g[0] = <<>> /\ \A j \in 1 .. n : g[j] = F[<<g[j - 1], j>>]
  BY <1>5 DEF ByRounds
<1>7. \A j \in 1 .. n : g[j] = g[j - 1] \o seqs[j]
  <2>1. \A j \in 1 .. n : j - 1 \in 0 .. n
    BY <1>1
  <2> QED
    BY <1>2, <1>6, <2>1
<1> QED
  BY <1>6, <1>7 DEF Joins, n

\* c is a and b behind it.
Follow(a, b, c) ==
  /\ Len(a) \in Nat /\ Len(b) \in Nat /\ Len(c) = Len(a) + Len(b)
  /\ \A i \in 1 .. Len(a) : c[i] = a[i]
  /\ \A i \in 1 .. Len(b) : c[Len(a) + i] = b[i]

\* part is in whole, behind the first at.
Segment(whole, at, part) ==
  /\ at \in Nat /\ Len(part) \in Nat /\ Len(whole) \in Nat /\ at + Len(part) <= Len(whole)
  /\ \A i \in 1 .. Len(part) : whole[at + i] = part[i]

Starts(whole, part) ==
  /\ Len(part) \in Nat /\ Len(part) <= Len(whole)
  /\ \A i \in 1 .. Len(part) : whole[i] = part[i]

LEMMA JoinedOneMore ==
  ASSUME NEW S, NEW seqs \in Seq(Seq(S)), NEW g, Joins(g, S, seqs), NEW k \in 1 .. Len(seqs)
  PROVE  g[k - 1] \in Seq(S) /\ g[k] \in Seq(S) /\ seqs[k] \in Seq(S)
         /\ Follow(g[k - 1], seqs[k], g[k])
<1> DEFINE a == g[k - 1]  b == seqs[k]
<1>1. k - 1 \in 0 .. Len(seqs) /\ k \in 0 .. Len(seqs)
  OBVIOUS
<1>2. a \in Seq(S) /\ g[k] \in Seq(S) /\ g[k] = a \o b
  BY <1>1 DEF Joins
<1>3. b \in Seq(S)
  OBVIOUS
<1> HIDE DEF a, b
<1>4. /\ Len(a \o b) = Len(a) + Len(b) /\ Len(a) \in Nat /\ Len(b) \in Nat
      /\ \A i \in 1 .. Len(a) + Len(b) : (a \o b)[i] = IF i <= Len(a) THEN a[i] ELSE b[i - Len(a)]
  BY <1>2, <1>3, ConcatProperties, LenProperties
<1>5. \A i \in 1 .. Len(a) : (a \o b)[i] = a[i]
  BY <1>4
<1>6. ASSUME NEW i \in 1 .. Len(b) PROVE (a \o b)[Len(a) + i] = b[i]
  <2>1. Len(a) + i \in 1 .. Len(a) + Len(b) /\ ~(Len(a) + i <= Len(a)) /\ (Len(a) + i) - Len(a) = i
    BY <1>4
  <2> QED
    BY <1>4, <2>1
<1> QED
  BY <1>2, <1>3, <1>4, <1>5, <1>6 DEF a, b, Follow

\* What is there stays, whatever comes behind it.
LEMMA JoinedStays ==
  ASSUME NEW S, NEW seqs \in Seq(Seq(S)), NEW g, Joins(g, S, seqs),
         NEW k \in 0 .. Len(seqs), NEW m \in k .. Len(seqs)
  PROVE  g[k] \in Seq(S) /\ g[m] \in Seq(S) /\ Starts(g[m], g[k])
<1> DEFINE Good == {j \in Nat : k + j <= Len(seqs) => Starts(g[k + j], g[k])}
<1>0. Len(seqs) \in Nat /\ \A j \in 0 .. Len(seqs) : g[j] \in Seq(S) /\ Len(g[j]) \in Nat
  <2>1. \A j \in 0 .. Len(seqs) : g[j] \in Seq(S)
    BY DEF Joins
  <2> QED
    BY <2>1, LenProperties
<1>1. 0 \in Good
  <2>1. k + 0 = k /\ Len(g[k]) \in Nat
    BY <1>0
  <2> QED
    BY <2>1 DEF Starts
<1>2. ASSUME NEW j \in Nat, j \in Good PROVE j + 1 \in Good
  <2> SUFFICES ASSUME k + (j + 1) <= Len(seqs) PROVE Starts(g[k + (j + 1)], g[k])
    OBVIOUS
  <2> DEFINE h == k + (j + 1)  a == g[h - 1]  b == seqs[h]  c == g[h]  d == g[k]
  <2>1. h \in 1 .. Len(seqs) /\ h - 1 = k + j /\ k + j <= Len(seqs)
    BY <1>0
  <2>2. Starts(a, d)
    BY <1>2, <2>1
  <2> HIDE DEF h
  <2>3. Follow(a, b, c)
    BY <2>1, JoinedOneMore
  <2> HIDE DEF a, b, c, d
  <2>4. Starts(c, d)
    <3>1. /\ Len(a) \in Nat /\ Len(b) \in Nat /\ Len(d) \in Nat
          /\ Len(c) = Len(a) + Len(b) /\ Len(d) <= Len(a)
          /\ \A i \in 1 .. Len(a) : c[i] = a[i]
          /\ \A i \in 1 .. Len(d) : a[i] = d[i]
      BY <2>2, <2>3 DEF Starts, Follow
    <3>2. Len(d) <= Len(c) /\ \A i \in 1 .. Len(d) : i \in 1 .. Len(a)
      BY <3>1
    <3> QED
      BY <3>1, <3>2 DEF Starts
  <2> QED
    BY <2>4 DEF c, d, h
<1>3. m - k \in Nat /\ k + (m - k) = m /\ m <= Len(seqs)
  OBVIOUS
<1> HIDE DEF Good
<1>4. m - k \in Good
  BY <1>1, <1>2, <1>3, Rounds!NumbersInduce
<1>5. Starts(g[m], g[k])
  BY <1>3, <1>4 DEF Good
<1>6. m \in 0 .. Len(seqs)
  OBVIOUS
<1> QED
  BY <1>0, <1>5, <1>6

\* Where each of the sequences is in the end.
LEMMA JoinedPlaces ==
  ASSUME NEW S, NEW seqs \in Seq(Seq(S)), NEW g, Joins(g, S, seqs), NEW k \in 1 .. Len(seqs)
  PROVE  Segment(g[Len(seqs)], Len(g[k - 1]), seqs[k])
<1> DEFINE n == Len(seqs)  a == g[k - 1]  b == seqs[k]  c == g[k]  d == g[n]
<1>1. n \in Nat /\ k \in 0 .. n /\ n \in k .. n
  OBVIOUS
<1>2. Starts(d, c)
  <2> HIDE DEF c, d
  <2>1. Starts(g[n], g[k])
    BY <1>1, JoinedStays
  <2> QED
    BY <2>1 DEF c, d
<1>3. Follow(a, b, c)
  BY JoinedOneMore
<1>0. Len(d) \in Nat
  <2>1. n \in 0 .. n
    BY <1>1
  <2>2. d \in Seq(S)
    BY <2>1 DEF Joins
  <2> QED
    BY <2>2, LenProperties
<1> HIDE DEF a, b, c, d
<1>4. Segment(d, Len(a), b)
  <2>1. /\ Len(a) \in Nat /\ Len(b) \in Nat /\ Len(a) + Len(b) <= Len(d) /\ Len(c) = Len(a) + Len(b)
        /\ \A i \in 1 .. Len(b) : c[Len(a) + i] = b[i]
        /\ \A i \in 1 .. Len(c) : d[i] = c[i]
    BY <1>2, <1>3 DEF Starts, Follow
  <2>2. \A i \in 1 .. Len(b) : Len(a) + i \in 1 .. Len(c)
    BY <2>1
  <2> QED
    BY <1>0, <2>1, <2>2 DEF Segment
<1> QED
  BY <1>4 DEF a, b, d

\* As the recursive function of FlattenSeq.
IsFlatten(flatten, seqs) ==
  flatten = [i \in 1 .. Len(seqs) |-> IF i = 1 THEN seqs[i] ELSE flatten[i - 1] \o seqs[i]]

LEMMA FlattenIsJoined ==
  ASSUME NEW S, NEW seqs \in Seq(Seq(S)), NEW g, Joins(g, S, seqs)
  PROVE  FlattenSeq(seqs) = g[Len(seqs)] /\ FlattenSeq(seqs) \in Seq(S)
<1> DEFINE n == Len(seqs)
           flatten == CHOOSE flatten : IsFlatten(flatten, seqs)
           h == [i \in 1 .. n |-> g[i]]
<1>1. n \in Nat /\ \A i \in 1 .. n : seqs[i] \in Seq(S)
  OBVIOUS
<1>2. /\ g[0] = <<>>
      /\ \A k \in 1 .. n : g[k] = g[k - 1] \o seqs[k]
      /\ \A k \in 0 .. n : g[k] \in Seq(S)
  BY DEF Joins
<1>3. ASSUME n # 0 PROVE FlattenSeq(seqs) = g[n]
  <2> HIDE DEF n
  <2>1. ASSUME NEW i \in 1 .. n
        PROVE  h[i] = IF i = 1 THEN seqs[i] ELSE h[i - 1] \o seqs[i]
    <3>1. CASE i = 1
      <4>a. i - 1 = 0
        BY <3>1
      <4>0. g[i] = g[i - 1] \o seqs[i]
        BY <1>2
      <4>1. g[i] = <<>> \o seqs[i] /\ seqs[i] \in Seq(S)
        BY <1>1, <1>2, <4>0, <4>a
      <4>2. g[i] = seqs[i]
        BY <4>1, ConcatEmptySeq
      <4> QED
        BY <3>1, <4>2
    <3>2. CASE i # 1
      <4>0. g[i] = g[i - 1] \o seqs[i]
        BY <1>2
      <4>1. i - 1 \in 1 .. n /\ g[i] = g[i - 1] \o seqs[i]
        BY <1>1, <3>2, <4>0
      <4> QED
        BY <3>2, <4>1
    <3> QED
      BY <3>1, <3>2
  <2>2. h = [i \in 1 .. n |-> h[i]]
    OBVIOUS
  <2> HIDE DEF h
  <2>3. IsFlatten(h, seqs)
    BY <2>1, <2>2 DEF IsFlatten, n
  <2>4. IsFlatten(flatten, seqs)
    BY <2>3
  <2>5. FlattenSeq(seqs) = flatten[n]
    BY <1>3 DEF FlattenSeq, IsFlatten, n
  <2> HIDE DEF flatten
  <2>6. \A i \in 1 .. n : flatten[i] = IF i = 1 THEN seqs[i] ELSE flatten[i - 1] \o seqs[i]
    BY <2>4 DEF IsFlatten, n
  <2> DEFINE Good == {j \in Nat : j + 1 <= n => flatten[j + 1] = h[j + 1]}
  <2>7. 0 \in Good
    <3>1. 1 <= n => 1 \in 1 .. n
      BY <1>1
    <3> QED
      BY <2>1, <2>6, <3>1
  <2>8. ASSUME NEW j \in Nat, j \in Good PROVE j + 1 \in Good
    <3> SUFFICES ASSUME (j + 1) + 1 <= n PROVE flatten[(j + 1) + 1] = h[(j + 1) + 1]
      OBVIOUS
    <3>1. (j + 1) + 1 \in 1 .. n /\ ((j + 1) + 1) - 1 = j + 1 /\ (j + 1) + 1 # 1 /\ j + 1 <= n
      BY <1>1
    <3>2. flatten[j + 1] = h[j + 1]
      BY <2>8, <3>1
    <3>3. flatten[(j + 1) + 1] = flatten[j + 1] \o seqs[(j + 1) + 1]
      BY <2>6, <3>1
    <3>4. h[(j + 1) + 1] = h[j + 1] \o seqs[(j + 1) + 1]
      BY <2>1, <3>1
    <3> QED
      BY <3>2, <3>3, <3>4
  <2> HIDE DEF Good
  <2>9. n - 1 \in Nat /\ (n - 1) + 1 = n /\ n \in 1 .. n
    BY <1>1, <1>3
  <2>10. n - 1 \in Good
    BY <2>7, <2>8, <2>9, Rounds!NumbersInduce
  <2>11. flatten[n] = h[n]
    BY <2>9, <2>10 DEF Good
  <2> QED
    BY <2>5, <2>9, <2>11 DEF h
<1>4. ASSUME n = 0 PROVE FlattenSeq(seqs) = <<>>
  BY <1>4 DEF FlattenSeq
<1>5. g[n] \in Seq(S) /\ (n = 0 => g[n] = <<>>)
  BY <1>1, <1>2
<1> QED
  BY <1>3, <1>4, <1>5

LEMMA SegmentTaken ==
  ASSUME NEW S, NEW whole \in Seq(S), NEW part \in Seq(S), NEW at \in Nat, Segment(whole, at, part)
  PROVE  SubSeq(whole, at + 1, at + Len(part)) = part
<1> DEFINE n == Len(part)  taken == SubSeq(whole, at + 1, at + n)
<1>1. n \in Nat /\ at + n <= Len(whole) /\ \A i \in 1 .. n : whole[at + i] = part[i] /\ part[i] \in S
  BY DEF Segment
<1> HIDE DEF n
<1>2. \A i \in at + 1 .. at + n : whole[i] \in S
  <2>1. ASSUME NEW i \in at + 1 .. at + n PROVE whole[i] \in S
    <3>1. i - at \in 1 .. n /\ at + (i - at) = i
      BY <1>1
    <3> QED
      BY <1>1, <3>1
  <2> QED
    BY <2>1
<1>3. at + 1 \in Int /\ at + n \in Int
  BY <1>1
<1>4. /\ taken \in Seq(S)
      /\ Len(taken) = IF at + 1 <= at + n THEN (at + n) - (at + 1) + 1 ELSE 0
      /\ \A i \in 1 .. (at + n) - (at + 1) + 1 : taken[i] = whole[(at + 1) + i - 1]
  BY <1>2, <1>3, SubSeqProperties
<1> HIDE DEF taken
<1>5. Len(taken) = n
  BY <1>1, <1>4
<1>6. \A i \in 1 .. n : taken[i] = part[i]
  <2>1. ASSUME NEW i \in 1 .. n PROVE taken[i] = part[i]
    <3>1. i \in 1 .. (at + n) - (at + 1) + 1 /\ (at + 1) + i - 1 = at + i
      BY <1>1
    <3>2. taken[i] = whole[at + i]
      BY <1>4, <3>1
    <3> QED
      BY <1>1, <3>2
  <2> QED
    BY <2>1
<1>7. Len(part) = n /\ \A i \in 1 .. Len(taken) : taken[i] = part[i]
  BY <1>5, <1>6 DEF n
<1>8. taken = part
  BY <1>4, <1>5, <1>7, SeqEqual
<1> QED
  BY <1>8 DEF taken, n

------------------------------------------------------------------------------
(* Fields in bytes.                                                        *)

\* The types of fields, and the fields that a message can have.
Numeric == {"number", "hash", "padded"}
Types ==
  [type : {"bool", "int"}, size : Nat \ {0}]
    \cup UNION {{[type |-> c, size |-> ct * WordBytes] : ct \in Nat \ {0}} : c \in Numeric}
TheFields ==
  {f \in [type : Types, value : Nat] :
     /\ IsInt(f.type) => f.value < IntegerPower(ByteBase, f.type.size)
     /\ f.type.type = "hash" => f.value < QValue}

LEMMA Widths ==
  /\ ByteBase \in Nat \ {0} /\ ByteBase > 1 /\ WordBytes \in Nat \ {0} /\ WordBase \in Nat \ {0}
  /\ PWords \in Nat \ {0} /\ QWords \in Nat \ {0} /\ RsaWords \in Nat \ {0}
  /\ ShareWords \in Nat \ {0} /\ QValue \in Nat \ {0}
<1>1. ByteBase \in Nat \ {0} /\ ByteBase > 1 /\ WordBytes \in Nat \ {0}
  BY SerializationAssumption
<1>2. WordBase \in Nat \ {0}
  BY <1>1, PowerIsNumber DEF WordBase
<1> QED
  BY <1>1, <1>2, SerializationAssumption

LEMMA WordsFill ==
  ASSUME NEW ct \in Nat
  PROVE  (ct * WordBytes) \div WordBytes = ct /\ ct * WordBytes \in Nat
         /\ (ct # 0 => ct * WordBytes \in Nat \ {0})
<1> DEFINE x == ct * WordBytes
<1>1. WordBytes \in Nat \ {0} /\ x \in Nat
  BY Widths, Products
<1>2. x = ct * WordBytes + 0 /\ 0 \in 0 .. WordBytes - 1 /\ ct \in Int
  BY <1>1
<1>3. ct # 0 => x # 0
  BY <1>1
<1> HIDE DEF x
<1>4. ct = x \div WordBytes
  BY <1>1, <1>2, DivisionIsUnique, Zenon
<1> QED
  BY <1>1, <1>3, <1>4 DEF x

\* The words of a number, in bytes.
LEMMA ExportedWords ==
  ASSUME NEW v \in Nat, NEW ct \in Nat, v < IntegerPower(WordBase, ct)
  PROVE  /\ Exported(v, ct) \in Seq(Seq(Nat)) /\ Len(Exported(v, ct)) = ct
         /\ \A i \in 1 .. ct : /\ Exported(v, ct)[i] \in Seq(Nat)
                               /\ Len(Exported(v, ct)[i]) = WordBytes
                               /\ FromBytes(Exported(v, ct)[i]) = Digits(WordBase, v, ct)[i]
<1> DEFINE d == Digits(WordBase, v, ct)  e == Exported(v, ct)
<1>1. d \in Seq(0 .. WordBase - 1) /\ Len(d) = ct
  BY Widths, DigitsReadBack
<1>2. \A i \in 1 .. ct : e[i] = Bytes(d[i], WordBytes)
  BY DEF Exported
<1>3. e = [i \in 1 .. ct |-> e[i]]
  BY DEF Exported
<1> HIDE DEF d, e
<1>4. ASSUME NEW i \in 1 .. ct
      PROVE  e[i] \in Seq(Nat) /\ Len(e[i]) = WordBytes /\ FromBytes(e[i]) = d[i]
  <2>1. d[i] \in 0 .. WordBase - 1
    BY <1>1, ElementOfSeq
  <2>2. d[i] \in Nat /\ d[i] < WordBase /\ WordBytes \in Nat
    BY <2>1, Widths
  <2>3. d[i] < IntegerPower(ByteBase, WordBytes)
    BY <2>2 DEF WordBase
  <2> QED
    BY <1>2, <2>2, <2>3, BytesOfNumber
<1>5. e \in [1 .. ct -> Seq(Nat)]
  BY <1>3, <1>4
<1>6. e \in Seq(Seq(Nat)) /\ Len(e) = ct
  BY <1>5, AsSequence
<1> QED
  BY <1>4, <1>6 DEF d, e

LEMMA NumberInBytes ==
  ASSUME NEW v \in Nat, NEW ct \in Nat, v < IntegerPower(WordBase, ct)
  PROVE  /\ FlattenSeq(Exported(v, ct)) \in Seq(Nat)
         /\ Len(FlattenSeq(Exported(v, ct))) = ct * WordBytes
         /\ Imported(FlattenSeq(Exported(v, ct)), ct) = v
<1> DEFINE e == Exported(v, ct)  d == Digits(WordBase, v, ct)  b == FlattenSeq(e)
<1>1. e \in Seq(Seq(Nat)) /\ Len(e) = ct
  BY ExportedWords
<1>2. \A i \in 1 .. ct : e[i] \in Seq(Nat) /\ Len(e[i]) = WordBytes /\ FromBytes(e[i]) = d[i]
  BY ExportedWords
<1>3. d \in Seq(0 .. WordBase - 1) /\ Len(d) = ct /\ NumberOf(WordBase, d) = v
  BY Widths, DigitsReadBack
<1>0. Imported(b, ct)
        = NumberOf(WordBase, [i \in 1 .. ct |->
            FromBytes(SubSeq(b, (i - 1) * WordBytes + 1, i * WordBytes))])
  BY DEF Imported
<1> HIDE DEF d, e
<1>4. PICK g : Joins(g, Nat, e)
  BY <1>1, JoinedExists
<1>5. b = g[ct] /\ b \in Seq(Nat)
  BY <1>1, <1>4, FlattenIsJoined
<1> HIDE DEF b
<1>6. \A k \in 0 .. ct : Len(g[k]) = k * WordBytes
  <2> DEFINE Good == {k \in Nat : k <= ct => Len(g[k]) = k * WordBytes}
  <2>1. 0 \in Good
    <3>1. g[0] = <<>> /\ 0 * WordBytes = 0
      BY <1>4, Widths DEF Joins
    <3> QED
      BY <3>1
  <2>2. ASSUME NEW k \in Nat, k \in Good PROVE k + 1 \in Good
    <3> SUFFICES ASSUME k + 1 <= ct PROVE Len(g[k + 1]) = (k + 1) * WordBytes
      OBVIOUS
    <3> DEFINE h == k + 1
    <3>1. h \in 1 .. Len(e) /\ h - 1 = k /\ h \in 1 .. ct
      BY <1>1
    <3>2. (k + 1) * WordBytes = k * WordBytes + WordBytes /\ k * WordBytes \in Nat
      BY Widths, Products
    <3>3. Len(g[k]) = k * WordBytes
      BY <2>2
    <3> HIDE DEF h
    <3>4. Follow(g[h - 1], e[h], g[h])
      BY <1>1, <1>4, <3>1, JoinedOneMore
    <3>5. Len(g[h]) = Len(g[h - 1]) + Len(e[h])
      BY <3>4 DEF Follow
    <3>6. Len(e[h]) = WordBytes
      BY <1>2, <3>1
    <3> QED
      BY <3>1, <3>2, <3>3, <3>5, <3>6 DEF h
  <2> HIDE DEF Good
  <2>3. Nat \subseteq Good
    BY <2>1, <2>2, Rounds!NumbersInduce
  <2> QED
    BY <2>3 DEF Good
<1>7. ASSUME NEW i \in 1 .. ct
      PROVE  SubSeq(b, (i - 1) * WordBytes + 1, i * WordBytes) = e[i]
  <2> DEFINE at == (i - 1) * WordBytes
  <2>1. i - 1 \in 0 .. ct /\ i \in 1 .. Len(e) /\ Len(g[i - 1]) = at
    BY <1>1, <1>6
  <2>2. at \in Nat /\ i * WordBytes = at + WordBytes
    BY <2>1, Widths, Products
  <2> HIDE DEF at
  <2>3. Segment(g[Len(e)], Len(g[i - 1]), e[i])
    BY <1>1, <1>4, <2>1, JoinedPlaces
  <2>4. Segment(b, at, e[i])
    BY <1>1, <1>5, <2>1, <2>3
  <2>5. e[i] \in Seq(Nat) /\ Len(e[i]) = WordBytes
    BY <1>2
  <2>6. SubSeq(b, at + 1, at + Len(e[i])) = e[i]
    BY <1>5, <2>2, <2>4, <2>5, SegmentTaken
  <2> QED
    BY <2>2, <2>5, <2>6 DEF at
<1>8. [i \in 1 .. ct |-> FromBytes(SubSeq(b, (i - 1) * WordBytes + 1, i * WordBytes))] = d
  <2> DEFINE w == [i \in 1 .. ct |-> FromBytes(SubSeq(b, (i - 1) * WordBytes + 1, i * WordBytes))]
  <2>1. \A i \in 1 .. ct : w[i] = d[i]
    BY <1>2, <1>7
  <2>2. d = [i \in 1 .. ct |-> d[i]]
    BY <1>3, LenProperties
  <2>3. w = [i \in 1 .. ct |-> w[i]]
    OBVIOUS
  <2> HIDE DEF w
  <2>4. w = d
    BY <2>1, <2>2, <2>3
  <2> QED
    BY <2>4 DEF w
<1>9. Len(b) = ct * WordBytes
  BY <1>5, <1>6
<1> QED
  BY <1>0, <1>3, <1>5, <1>8, <1>9 DEF b, e

\* A type to read a field with: what is padded is read as any other number.
Reads(type, field) ==
  /\ type.size = field.type.size
  /\ \/ type = field.type
     \/ field.type.type = "padded" /\ type.type = "number"

LEMMA FieldTyped ==
  ASSUME NEW f \in TheFields
  PROVE  /\ f.value \in Nat /\ f.type.size \in Nat \ {0}
         /\ \/ /\ f.type.type \in {"bool", "int"} /\ IsInt(f.type)
               /\ f.value < IntegerPower(ByteBase, f.type.size)
            \/ /\ f.type.type \in Numeric /\ ~IsInt(f.type)
               /\ f.type.type = "hash" => f.value < QValue
               /\ \E ct \in Nat \ {0} : f.type.size = ct * WordBytes /\ WordsOfType(f.type) = ct
<1> DEFINE t == f.type
<1>1. t \in Types /\ f.value \in Nat
      /\ (IsInt(t) => f.value < IntegerPower(ByteBase, t.size))
      /\ (t.type = "hash" => f.value < QValue)
  BY DEF TheFields
<1> HIDE DEF t
<1>2. CASE t \in [type : {"bool", "int"}, size : Nat \ {0}]
  <2>1. t.type \in {"bool", "int"} /\ t.size \in Nat \ {0} /\ IsInt(t)
    BY <1>2 DEF IsInt
  <2> QED
    BY <1>1, <2>1 DEF t
<1>3. CASE t \notin [type : {"bool", "int"}, size : Nat \ {0}]
  <2>1. PICK c \in Numeric, ct \in Nat \ {0} : t = [type |-> c, size |-> ct * WordBytes]
    BY <1>1, <1>3 DEF Types
  <2>2. t.type = c /\ t.size = ct * WordBytes
    BY <2>1
  <2>3. ct \in Nat /\ ct # 0
    OBVIOUS
  <2>4. (ct * WordBytes) \div WordBytes = ct /\ ct * WordBytes \in Nat \ {0}
    BY <2>3, WordsFill
  <2>5. WordsOfType(t) = ct /\ t.size \in Nat \ {0}
    BY <2>2, <2>4 DEF WordsOfType
  <2>6. ~IsInt(t) /\ t.type \in Numeric
    BY <2>2 DEF IsInt, Numeric
  <2> QED
    BY <1>1, <2>2, <2>5, <2>6 DEF t
<1> QED
  BY <1>2, <1>3

\* A field that fits takes the bytes of its type and is decoded from them.
LEMMA FieldInBytes ==
  ASSUME NEW f \in TheFields, Fits(f)
  PROVE  /\ Encoded(f) \in Seq(Nat) /\ Len(Encoded(f)) = f.type.size
         /\ \A type : Reads(type, f) => Decoded(type, Encoded(f)) = f.value
<1> DEFINE t == f.type  v == f.value  n == t.size
<1>1. v \in Nat /\ n \in Nat \ {0}
  BY FieldTyped
<1>2. CASE IsInt(t)
  <2>1. t.type \in {"bool", "int"} /\ v < IntegerPower(ByteBase, n)
    BY <1>2, FieldTyped
  <2>2. Encoded(f) = Bytes(v, n)
    BY <1>2 DEF Encoded
  <2>3. Bytes(v, n) \in Seq(Nat) /\ Len(Bytes(v, n)) = n /\ FromBytes(Bytes(v, n)) = v
    BY <1>1, <2>1, BytesOfNumber
  <2>4. ASSUME NEW type, Reads(type, f) PROVE IsInt(type) /\ type.type # "hash"
    BY <1>2, <2>1, <2>4 DEF Reads, IsInt
  <2>5. ASSUME NEW type, Reads(type, f) PROVE Decoded(type, Encoded(f)) = v
    <3>1. Decoded(type, Bytes(v, n)) = FromBytes(Bytes(v, n))
      BY <2>4, <2>5 DEF Decoded
    <3> QED
      BY <2>2, <2>3, <3>1
  <2> QED
    BY <2>2, <2>3, <2>5
<1>3. CASE ~IsInt(t)
  <2>1. PICK ct \in Nat \ {0} : n = ct * WordBytes /\ WordsOfType(t) = ct
    BY <1>3, FieldTyped
  <2>2. t.type \in Numeric /\ (t.type = "hash" => v < QValue)
    BY <1>3, FieldTyped
  <2>3. v < IntegerPower(WordBase, ct)
    BY <1>3, <2>1 DEF Fits
  <2> DEFINE b == FlattenSeq(Exported(v, ct))
  <2>4. Encoded(f) = b
    BY <1>3, <2>1 DEF Encoded
  <2>5. b \in Seq(Nat) /\ Len(b) = ct * WordBytes /\ Imported(b, ct) = v
    BY <1>1, <2>3, NumberInBytes
  <2> HIDE DEF b
  <2>6. ASSUME NEW type, Reads(type, f) PROVE Decoded(type, b) = v
    <3>1. type.size = n /\ WordsOfType(type) = ct
      BY <2>1, <2>6 DEF Reads, WordsOfType
    <3>2. type.type \in Numeric /\ (type.type = "hash" => t.type = "hash")
      BY <2>2, <2>6 DEF Reads, Numeric
    <3>3. ~IsInt(type)
      BY <3>2 DEF IsInt, Numeric
    <3>4. CASE type.type = "hash"
      <4>1. Decoded(type, b) = v % QValue
        BY <2>5, <3>1, <3>3, <3>4 DEF Decoded
      <4>2. v % QValue = v
        BY <1>1, <2>2, <3>2, <3>4, Widths, SmallQuotient
      <4> QED
        BY <4>1, <4>2
    <3>5. CASE type.type # "hash"
      BY <2>5, <3>1, <3>3, <3>5 DEF Decoded
    <3> QED
      BY <3>4, <3>5
  <2> QED
    BY <2>1, <2>4, <2>5, <2>6
<1> QED
  BY <1>2, <1>3

------------------------------------------------------------------------------
(* Writing.                                                                *)

\* As the recursive functions of Written.
IsReserved(reserved, fields) ==
  reserved = [k \in 0 .. Len(fields) |->
    IF k = 0 THEN Reserving ELSE reserve(reserved[k - 1], fields[k].type.size)]
IsWritten(written, reserved, fields) ==
  written = [k \in 0 .. Len(fields) |->
    IF k = 0 THEN Serialize_allocate(reserved[Len(fields)]) ELSE write(written[k - 1], fields[k])]

StateSet == [status : {"RESERVING", "WRITING", "IO_ERROR"}, len : Nat, offset : Nat, buf : Seq(Nat)]

LEMMA StatesGo ==
  ASSUME NEW s \in StateSet, NEW f \in TheFields
  PROVE  /\ reserve(s, f.type.size) \in StateSet
         /\ Serialize_allocate(s) \in StateSet
         /\ write(s, f) \in StateSet
<1>1. f.type.size \in Nat
  BY FieldTyped
<1>2. reserve(s, f.type.size) \in StateSet
  BY <1>1 DEF reserve, StateSet
<1>3. Serialize_allocate(s) \in StateSet
  BY DEF Serialize_allocate, StateSet
<1>4. ASSUME NEW b \in Seq(Nat) PROVE put(s, b) \in StateSet
  <2>1. s.buf \o b \in Seq(Nat) /\ s.offset + Len(b) \in Nat
    <3>1. s.buf \in Seq(Nat) /\ s.offset \in Nat
      BY DEF StateSet
    <3> QED
      BY <3>1, ConcatProperties, LenProperties
  <2> QED
    BY <2>1 DEF put, StateSet
<1>5. CASE Fits(f)
  BY <1>2, <1>3, <1>4, <1>5, FieldInBytes DEF write
<1>6. CASE ~Fits(f)
  BY <1>2, <1>3, <1>6 DEF write, StateSet
<1> QED
  BY <1>5, <1>6

\* Round by round.
Writes(reserved, written, fields) ==
  /\ reserved[0] = Reserving
  /\ \A k \in 1 .. Len(fields) : reserved[k] = reserve(reserved[k - 1], fields[k].type.size)
  /\ written[0] = Serialize_allocate(reserved[Len(fields)])
  /\ \A k \in 1 .. Len(fields) : written[k] = write(written[k - 1], fields[k])
  /\ \A k \in 0 .. Len(fields) : written[k] \in StateSet

LEMMA WrittenGoes ==
  ASSUME NEW fields \in Seq(TheFields)
  PROVE  \E reserved, written :
           Writes(reserved, written, fields) /\ Written(fields) = written[Len(fields)]
<1> DEFINE n == Len(fields)
           reserved == CHOOSE reserved : IsReserved(reserved, fields)
           written == CHOOSE written : IsWritten(written, reserved, fields)
           R == [vj \in StateSet \X (1 .. n) |-> reserve(vj[1], fields[vj[2]].type.size)]
           F == [vj \in StateSet \X (1 .. n) |-> write(vj[1], fields[vj[2]])]
           start == Serialize_allocate(reserved[n])
<1>0. n \in Nat /\ \A j \in 1 .. n : fields[j] \in TheFields
  OBVIOUS
<1>a. Written(fields) = written[n]
  BY DEF Written, IsReserved, IsWritten
<1>1. \A v \in StateSet, j \in 1 .. n :
        R[<<v, j>>] = reserve(v, fields[j].type.size) /\ F[<<v, j>>] = write(v, fields[j])
  OBVIOUS
<1> HIDE DEF R, F, n
<1>2. \A v \in StateSet, j \in 1 .. n : R[<<v, j>>] \in StateSet /\ F[<<v, j>>] \in StateSet
  BY <1>0, <1>1, StatesGo
<1>3. Reserving \in StateSet
  BY DEF Reserving, StateSet
<1>4. PICK r : ByRounds(r, StateSet, Reserving, n, R)
  BY <1>0, <1>2, <1>3, LoopOf
<1>5. IsReserved(r, fields)
  <2>1. r \in [0 .. n -> StateSet] /\ r[0] = Reserving /\ \A j \in 1 .. n : r[j] = R[<<r[j - 1], j>>]
    BY <1>4 DEF ByRounds
  <2>2. ASSUME NEW k \in 0 .. n
        PROVE  r[k] = IF k = 0 THEN Reserving ELSE reserve(r[k - 1], fields[k].type.size)
    <3>1. CASE k = 0
      BY <2>1, <3>1
    <3>2. CASE k # 0
      <4>1. k \in 1 .. n /\ k - 1 \in 0 .. n
        BY <1>0, <3>2
      <4>2. r[k - 1] \in StateSet /\ r[k] = R[<<r[k - 1], k>>]
        BY <2>1, <4>1
      <4> QED
        BY <1>1, <3>2, <4>1, <4>2
    <3> QED
      BY <3>1, <3>2
  <2> QED
    BY <2>1, <2>2 DEF IsReserved, n
<1>6. IsReserved(reserved, fields)
  BY <1>5
<1> HIDE DEF reserved
<1>7. reserved[0] = Reserving
      /\ \A k \in 1 .. n : reserved[k] = reserve(reserved[k - 1], fields[k].type.size)
  <2>1. \A k \in 0 .. n : reserved[k]
          = IF k = 0 THEN Reserving ELSE reserve(reserved[k - 1], fields[k].type.size)
    BY <1>6 DEF IsReserved, n
  <2> QED
    BY <1>0, <2>1
<1>8. start \in StateSet
  <2> DEFINE Good == {k \in Nat : k <= n => reserved[k] \in StateSet}
  <2>1. 0 \in Good
    BY <1>3, <1>7
  <2>2. ASSUME NEW k \in Nat, k \in Good PROVE k + 1 \in Good
    <3> SUFFICES ASSUME k + 1 <= n PROVE reserved[k + 1] \in StateSet
      OBVIOUS
    <3>1. k + 1 \in 1 .. n /\ (k + 1) - 1 = k /\ reserved[k] \in StateSet
      BY <1>0, <2>2
    <3>2. reserved[k + 1] = reserve(reserved[k], fields[k + 1].type.size)
      BY <1>7, <3>1
    <3> QED
      BY <1>0, <3>1, <3>2, StatesGo
  <2> HIDE DEF Good
  <2>3. n \in Good
    BY <1>0, <2>1, <2>2, Rounds!NumbersInduce
  <2>4. reserved[n] \in StateSet
    BY <1>0, <2>3 DEF Good
  <2> QED
    BY <2>4 DEF Serialize_allocate, StateSet
<1>9. PICK w : ByRounds(w, StateSet, start, n, F)
  <2> HIDE DEF start
  <2> QED
    BY <1>0, <1>2, <1>8, LoopOf
<1>10. w \in [0 .. n -> StateSet] /\ w[0] = start /\ \A j \in 1 .. n : w[j] = F[<<w[j - 1], j>>]
  <2> HIDE DEF start
  <2> QED
    BY <1>9 DEF ByRounds
<1>11. IsWritten(w, reserved, fields)
  <2>2. ASSUME NEW k \in 0 .. n
        PROVE  w[k] = IF k = 0 THEN start ELSE write(w[k - 1], fields[k])
    <3> HIDE DEF start
    <3>1. CASE k = 0
      BY <1>10, <3>1
    <3>2. CASE k # 0
      <4>1. k \in 1 .. n /\ k - 1 \in 0 .. n
        BY <1>0, <3>2
      <4>2. w[k - 1] \in StateSet /\ w[k] = F[<<w[k - 1], k>>]
        BY <1>10, <4>1
      <4> QED
        BY <1>1, <3>2, <4>1, <4>2
    <3> QED
      BY <3>1, <3>2
  <2> QED
    BY <1>10, <2>2 DEF IsWritten, n
<1>12. IsWritten(written, reserved, fields)
  BY <1>11
<1> HIDE DEF written
<1>13. written[0] = start /\ \A k \in 1 .. n : written[k] = write(written[k - 1], fields[k])
  <2>1. \A k \in 0 .. n : written[k] = IF k = 0 THEN start ELSE write(written[k - 1], fields[k])
    BY <1>12 DEF IsWritten, n
  <2> HIDE DEF start
  <2> QED
    BY <1>0, <2>1
<1>14. \A k \in 0 .. n : written[k] \in StateSet
  <2> HIDE DEF start
  <2> DEFINE Good == {k \in Nat : k <= n => written[k] \in StateSet}
  <2>1. 0 \in Good
    BY <1>8, <1>13
  <2>2. ASSUME NEW k \in Nat, k \in Good PROVE k + 1 \in Good
    <3> SUFFICES ASSUME k + 1 <= n PROVE written[k + 1] \in StateSet
      OBVIOUS
    <3>1. k + 1 \in 1 .. n /\ (k + 1) - 1 = k /\ written[k] \in StateSet
      BY <1>0, <2>2
    <3>2. written[k + 1] = write(written[k], fields[k + 1])
      BY <1>13, <3>1
    <3> QED
      BY <1>0, <3>1, <3>2, StatesGo
  <2> HIDE DEF Good
  <2>3. Nat \subseteq Good
    BY <2>1, <2>2, Rounds!NumbersInduce
  <2> QED
    BY <2>3 DEF Good
<1>15. Writes(reserved, written, fields)
  BY <1>7, <1>13, <1>14 DEF Writes, n
<1> QED
  BY <1>15, <1>a DEF n

AllFit(fields) == \A i \in DOMAIN fields : Fits(fields[i])

\* A number that does not fit spoils all.
LEMMA WrittenWrong ==
  ASSUME NEW fields \in Seq(TheFields), ~AllFit(fields)
  PROVE  Written(fields).status = "IO_ERROR"
<1> DEFINE n == Len(fields)
<1>1. PICK reserved, written :
        Writes(reserved, written, fields) /\ Written(fields) = written[n]
  BY WrittenGoes
<1>2. n \in Nat /\ DOMAIN fields = 1 .. n /\ \A k \in 1 .. n : fields[k] \in TheFields
  OBVIOUS
<1>3. PICK j \in 1 .. n : ~Fits(fields[j])
  BY <1>2 DEF AllFit
<1>4. /\ \A k \in 1 .. n : written[k] = write(written[k - 1], fields[k])
      /\ \A k \in 0 .. n : written[k] \in StateSet
  BY <1>1 DEF Writes
<1> HIDE DEF n
<1> DEFINE Good == {k \in Nat : j + k <= n => written[j + k].status = "IO_ERROR"}
<1>5. 0 \in Good
  <2>1. written[j] = [written[j - 1] EXCEPT !.status = "IO_ERROR"]
    BY <1>3, <1>4 DEF write
  <2>2. j - 1 \in 0 .. n /\ j + 0 = j
    BY <1>2
  <2>3. written[j - 1] \in StateSet
    BY <1>4, <2>2
  <2>4. written[j].status = "IO_ERROR"
    BY <2>1, <2>3 DEF StateSet
  <2> QED
    BY <2>2, <2>4
<1>6. ASSUME NEW k \in Nat, k \in Good PROVE k + 1 \in Good
  <2> SUFFICES ASSUME j + (k + 1) <= n PROVE written[j + (k + 1)].status = "IO_ERROR"
    OBVIOUS
  <2> DEFINE h == j + (k + 1)
  <2>1. h \in 1 .. n /\ h - 1 = j + k /\ j + k <= n /\ j + k \in 0 .. n
    BY <1>2
  <2>2. written[j + k].status = "IO_ERROR" /\ written[j + k] \in StateSet
    BY <1>4, <1>6, <2>1
  <2> HIDE DEF h
  <2>3. written[h] = write(written[j + k], fields[h])
    BY <1>4, <2>1
  <2>4. written[h].status = "IO_ERROR"
    BY <2>2, <2>3 DEF write, put, StateSet
  <2> QED
    BY <2>4 DEF h
<1>7. n - j \in Nat /\ j + (n - j) = n
  BY <1>2
<1> HIDE DEF Good
<1>8. n - j \in Good
  BY <1>5, <1>6, <1>7, Rounds!NumbersInduce
<1>9. written[n].status = "IO_ERROR"
  BY <1>2, <1>7, <1>8 DEF Good
<1> QED
  BY <1>1, <1>9

\* The bytes of the fields.
AllEncoded(fields) == [k \in 1 .. Len(fields) |-> Encoded(fields[k])]

LEMMA EncodedFields ==
  ASSUME NEW fields \in Seq(TheFields), AllFit(fields)
  PROVE  /\ AllEncoded(fields) \in Seq(Seq(Nat)) /\ Len(AllEncoded(fields)) = Len(fields)
         /\ \A k \in 1 .. Len(fields) :
              /\ AllEncoded(fields)[k] = Encoded(fields[k])
              /\ Encoded(fields[k]) \in Seq(Nat)
              /\ Len(Encoded(fields[k])) = fields[k].type.size
              /\ fields[k].type.size \in Nat \ {0}
<1> DEFINE n == Len(fields)  e == AllEncoded(fields)
<1>1. n \in Nat /\ \A k \in 1 .. n : fields[k] \in TheFields /\ Fits(fields[k])
  BY DEF AllFit
<1>2. e = [k \in 1 .. n |-> e[k]] /\ \A k \in 1 .. n : e[k] = Encoded(fields[k])
  BY DEF AllEncoded
<1> HIDE DEF e, n
<1>3. \A k \in 1 .. n :
        /\ Encoded(fields[k]) \in Seq(Nat)
        /\ Len(Encoded(fields[k])) = fields[k].type.size
        /\ fields[k].type.size \in Nat \ {0}
  BY <1>1, FieldInBytes, FieldTyped
<1>4. e \in [1 .. n -> Seq(Nat)]
  BY <1>2, <1>3
<1>5. e \in Seq(Seq(Nat)) /\ Len(e) = n
  BY <1>1, <1>4, AsSequence
<1> QED
  BY <1>2, <1>3, <1>5 DEF e, n

\* Everything that was reserved is filled with the bytes of the fields.
LEMMA WrittenRight ==
  ASSUME NEW fields \in Seq(TheFields), AllFit(fields), Len(fields) # 0,
         NEW g, Joins(g, Nat, AllEncoded(fields))
  PROVE  Written(fields) = [status |-> "WRITING", len |-> Len(g[Len(fields)]),
                            offset |-> Len(g[Len(fields)]), buf |-> g[Len(fields)]]
<1> DEFINE n == Len(fields)  e == AllEncoded(fields)
           R(k) == [status |-> "RESERVING", len |-> Len(g[k]), offset |-> 0, buf |-> <<>>]
           S(k) == [status |-> "WRITING", len |-> Len(g[n]), offset |-> Len(g[k]), buf |-> g[k]]
<1>1. PICK reserved, written :
        Writes(reserved, written, fields) /\ Written(fields) = written[n]
  BY WrittenGoes
<1>2. n \in Nat /\ n # 0 /\ \A k \in 1 .. n : fields[k] \in TheFields /\ Fits(fields[k])
  BY DEF AllFit
<1>3. /\ reserved[0] = Reserving
      /\ \A k \in 1 .. n : reserved[k] = reserve(reserved[k - 1], fields[k].type.size)
      /\ written[0] = Serialize_allocate(reserved[n])
      /\ \A k \in 1 .. n : written[k] = write(written[k - 1], fields[k])
  BY <1>1 DEF Writes
<1>4. e \in Seq(Seq(Nat)) /\ Len(e) = n
  BY EncodedFields
<1>5. \A k \in 1 .. n : /\ e[k] = Encoded(fields[k]) /\ e[k] \in Seq(Nat)
                        /\ Len(e[k]) = fields[k].type.size /\ fields[k].type.size \in Nat \ {0}
  BY EncodedFields
<1>6. Joins(g, Nat, e)
  OBVIOUS
<1> HIDE DEF e, n
<1>7. g[0] = <<>> /\ \A k \in 0 .. n : g[k] \in Seq(Nat) /\ Len(g[k]) \in Nat
  BY <1>4, <1>6, LenProperties DEF Joins
<1>8. ASSUME NEW k \in 1 .. n
      PROVE  /\ g[k] = g[k - 1] \o e[k] /\ Len(g[k]) = Len(g[k - 1]) + Len(e[k])
             /\ k - 1 \in 0 .. n /\ Len(g[k - 1]) \in Nat
  <2>1. k - 1 \in 0 .. n /\ k \in 1 .. Len(e)
    BY <1>2, <1>4
  <2>2. Follow(g[k - 1], e[k], g[k])
    BY <1>4, <1>6, <2>1, JoinedOneMore
  <2>3. g[k] = g[k - 1] \o e[k]
    BY <1>6, <2>1 DEF Joins
  <2> QED
    BY <1>7, <2>1, <2>2, <2>3 DEF Follow
<1>9. reserved[n] = R(n)
  <2> DEFINE Good == {k \in Nat : k <= n => reserved[k] = R(k)}
  <2>1. 0 \in Good
    <3>1. Len(g[0]) = 0
      BY <1>7
    <3> QED
      BY <1>3, <3>1 DEF Reserving
  <2>2. ASSUME NEW k \in Nat, k \in Good PROVE k + 1 \in Good
    <3> SUFFICES ASSUME k + 1 <= n PROVE reserved[k + 1] = R(k + 1)
      OBVIOUS
    <3> DEFINE h == k + 1
    <3>1. h \in 1 .. n /\ h - 1 = k /\ reserved[k] = R(k)
      BY <1>2, <2>2
    <3> HIDE DEF h
    <3>2. reserved[h] = reserve(R(k), fields[h].type.size)
      BY <1>3, <3>1
    <3>3. Len(g[h]) = Len(g[k]) + fields[h].type.size
      BY <1>5, <1>8, <3>1
    <3>4. reserved[h] = R(h)
      BY <3>2, <3>3 DEF reserve
    <3> QED
      BY <3>4 DEF h
  <2> HIDE DEF Good
  <2>3. n \in Good
    BY <1>2, <2>1, <2>2, Rounds!NumbersInduce
  <2> HIDE DEF R
  <2> QED
    BY <1>2, <2>3 DEF Good
<1>10. Len(g[n]) > 0
  <2>1. n \in 1 .. n
    BY <1>2
  <2>2. Len(g[n]) = Len(g[n - 1]) + Len(e[n]) /\ Len(g[n - 1]) \in Nat /\ Len(e[n]) \in Nat \ {0}
    BY <1>5, <1>8, <2>1
  <2>3. \A x \in Nat, y \in Nat \ {0} : \A z : z = x + y => z > 0
    OBVIOUS
  <2> QED
    BY <2>2, <2>3
<1>11. written[0] = S(0)
  <2>1. g[0] = <<>> /\ Len(g[0]) = 0
    BY <1>7
  <2>2. written[0] = Serialize_allocate(R(n))
    BY <1>3, <1>9
  <2> QED
    BY <1>10, <2>1, <2>2 DEF Serialize_allocate
<1>12. written[n] = S(n)
  <2> DEFINE Good == {k \in Nat : k <= n => written[k] = S(k)}
  <2>1. 0 \in Good
    BY <1>11
  <2>2. ASSUME NEW k \in Nat, k \in Good PROVE k + 1 \in Good
    <3> SUFFICES ASSUME k + 1 <= n PROVE written[k + 1] = S(k + 1)
      OBVIOUS
    <3> DEFINE h == k + 1
    <3>1. h \in 1 .. n /\ h - 1 = k /\ written[k] = S(k)
      BY <1>2, <2>2
    <3> HIDE DEF h
    <3>2. written[h] = write(S(k), fields[h])
      BY <1>3, <3>1
    <3>3. write(S(k), fields[h]) = put(S(k), e[h])
      BY <1>2, <1>5, <3>1 DEF write
    <3>4. g[h] = g[k] \o e[h] /\ Len(g[h]) = Len(g[k]) + Len(e[h])
      BY <1>8, <3>1
    <3>5. put(S(k), e[h]) = S(h)
      BY <3>4 DEF put
    <3>6. written[h] = S(h)
      BY <3>2, <3>3, <3>5
    <3> QED
      BY <3>6 DEF h
  <2> HIDE DEF Good
  <2>3. n \in Good
    BY <1>2, <2>1, <2>2, Rounds!NumbersInduce
  <2> HIDE DEF S
  <2> QED
    BY <1>2, <2>3 DEF Good
<1> QED
  BY <1>1, <1>12 DEF n

------------------------------------------------------------------------------
(* Reading.                                                                *)

\* Where the fields are in a buffer that holds them one behind the other.
Laid(fields, buf, g) ==
  /\ fields \in Seq(TheFields) /\ AllFit(fields)
  /\ Joins(g, Nat, AllEncoded(fields)) /\ buf = g[Len(fields)]

\* The first k of the fields have been read.
ReadUpTo(fields, buf, g, k) ==
  [state |-> [status |-> "READING", len |-> Len(buf), offset |-> Len(g[k]), buf |-> buf],
   values |-> [i \in 1 .. k |-> fields[i].value]]

LEMMA ReadsOne ==
  ASSUME NEW fields, NEW buf, NEW g, Laid(fields, buf, g),
         NEW k \in 1 .. Len(fields), NEW type, Reads(type, fields[k])
  PROVE  More(ReadUpTo(fields, buf, g, k - 1), type) = ReadUpTo(fields, buf, g, k)
<1> DEFINE n == Len(fields)  e == AllEncoded(fields)  at == Len(g[k - 1])
           r == ReadUpTo(fields, buf, g, k - 1)
<1>1. fields \in Seq(TheFields) /\ AllFit(fields) /\ Joins(g, Nat, e) /\ buf = g[n]
  BY DEF Laid
<1>2. e \in Seq(Seq(Nat)) /\ Len(e) = n
  BY <1>1, EncodedFields
<1>3. /\ e[k] = Encoded(fields[k]) /\ e[k] \in Seq(Nat)
      /\ Len(e[k]) = fields[k].type.size /\ fields[k].type.size \in Nat \ {0}
  BY <1>1, EncodedFields
<1>4. n \in Nat /\ fields[k] \in TheFields /\ Fits(fields[k]) /\ k \in 1 .. n
  BY <1>1 DEF AllFit
<1> HIDE DEF e, n
<1>5. Segment(buf, at, e[k]) /\ at \in Nat
  <2>1. Segment(g[Len(e)], Len(g[k - 1]), e[k])
    BY <1>1, <1>2, <1>4, JoinedPlaces
  <2> QED
    BY <1>1, <1>2, <2>1 DEF Segment
<1>6. Len(g[k]) = at + Len(e[k])
  <2>1. Follow(g[k - 1], e[k], g[k])
    BY <1>1, <1>2, <1>4, JoinedOneMore
  <2> QED
    BY <2>1 DEF Follow
<1>7. buf \in Seq(Nat)
  <2>1. n \in 0 .. n
    BY <1>4
  <2> QED
    BY <1>1, <1>2, <2>1 DEF Joins
<1> HIDE DEF at
<1>8. type.size = Len(e[k])
  BY <1>3 DEF Reads
<1>9. SubSeq(buf, at + 1, at + type.size) = e[k]
  BY <1>3, <1>5, <1>7, <1>8, SegmentTaken
<1>10. r.state.status = "READING" /\ r.state.buf = buf /\ r.state.offset = at
       /\ r.values = [i \in 1 .. k - 1 |-> fields[i].value]
  BY DEF ReadUpTo, at
<1>11. read(r.state, type) = fields[k].value
  <2>1. next_bytes(r.state, type.size) = e[k]
    BY <1>9, <1>10 DEF next_bytes
  <2>2. Decoded(type, Encoded(fields[k])) = fields[k].value
    BY <1>4, FieldInBytes
  <2> QED
    BY <1>3, <2>1, <2>2 DEF read
<1>12. advance(r.state, type.size) = ReadUpTo(fields, buf, g, k).state
  <2>1. r.state = [status |-> "READING", len |-> Len(buf), offset |-> at, buf |-> buf]
    BY DEF ReadUpTo, at
  <2>2. ReadUpTo(fields, buf, g, k).state
          = [status |-> "READING", len |-> Len(buf), offset |-> at + type.size, buf |-> buf]
    BY <1>6, <1>8 DEF ReadUpTo
  <2> HIDE DEF r
  <2> QED
    BY <2>1, <2>2 DEF advance
<1>13. Append(r.values, fields[k].value) = [i \in 1 .. k |-> fields[i].value]
  <2> DEFINE v == [i \in 1 .. k - 1 |-> fields[i].value]  w == [i \in 1 .. k |-> fields[i].value]
             a == Append(v, fields[k].value)
  <2>1. \A i \in 1 .. n : fields[i].value \in Nat
    BY <1>1, FieldTyped DEF n
  <2>2. v \in [1 .. k - 1 -> Nat] /\ w \in [1 .. k -> Nat] /\ k - 1 \in Nat /\ k \in Nat
    BY <1>4, <2>1
  <2>3. \A i \in 1 .. k - 1 : v[i] = w[i]
    OBVIOUS
  <2>4. w[k] = fields[k].value
    OBVIOUS
  <2> HIDE DEF v, w, a
  <2>5. v \in Seq(Nat) /\ Len(v) = k - 1 /\ w \in Seq(Nat) /\ Len(w) = k
    BY <2>2, AsSequence
  <2>6. fields[k].value \in Nat
    BY <1>4, <2>1
  <2>7. /\ a \in Seq(Nat) /\ Len(a) = k
        /\ \A i \in 1 .. k - 1 : a[i] = v[i]
        /\ a[k] = fields[k].value
    BY <2>2, <2>5, <2>6, AppendProperties DEF a
  <2>8. \A i \in 1 .. k : a[i] = w[i]
    <3>1. \A i \in 1 .. k : i \in 1 .. k - 1 \/ i = k
      BY <1>4
    <3> QED
      BY <2>3, <2>4, <2>7, <3>1
  <2>9. a = w
    BY <2>5, <2>7, <2>8, SeqEqual
  <2> QED
    BY <1>10, <2>9 DEF a, v, w
<1> QED
  BY <1>11, <1>12, <1>13 DEF More, ReadUpTo

\* The fields from behind the k-th on can be read with these types.
AreRead(fields, k, types) ==
  /\ k \in Nat /\ Len(types) \in Nat /\ k + Len(types) <= Len(fields)
  /\ \A j \in 1 .. Len(types) : Reads(types[j], fields[k + j])

\* As the recursive functions of MoreOf and of Repeated.
IsMore(more, r, types) ==
  more = [k \in 0 .. Len(types) |-> IF k = 0 THEN r ELSE More(more[k - 1], types[k])]
IsRepeated(more, r, n, types) ==
  more = [k \in 0 .. n |-> IF k = 0 THEN r ELSE MoreOf(more[k - 1], types)]

LEMMA ReadsMany ==
  ASSUME NEW fields, NEW buf, NEW g, Laid(fields, buf, g), NEW k, NEW types, AreRead(fields, k, types)
  PROVE  MoreOf(ReadUpTo(fields, buf, g, k), types) = ReadUpTo(fields, buf, g, k + Len(types))
<1> DEFINE n == Len(types)  r == ReadUpTo(fields, buf, g, k)
           more == CHOOSE more : IsMore(more, r, types)
           h == [j \in 0 .. n |-> ReadUpTo(fields, buf, g, k + j)]
<1>1. MoreOf(r, types) = more[n]
  BY DEF MoreOf, IsMore
<1>2. k \in Nat /\ n \in Nat /\ k + n <= Len(fields) /\ \A j \in 1 .. n : Reads(types[j], fields[k + j])
  BY DEF AreRead
<1>3. fields \in Seq(TheFields)
  BY DEF Laid
<1> HIDE DEF r
<1>4. IsMore(h, r, types)
  <2>1. ASSUME NEW j \in 0 .. n
        PROVE  h[j] = IF j = 0 THEN r ELSE More(h[j - 1], types[j])
    <3>1. CASE j = 0
      <4>1. k + j = k
        BY <1>2, <3>1
      <4> QED
        BY <3>1, <4>1 DEF r
    <3>2. CASE j # 0
      <4> DEFINE m == k + j
      <4>1. j \in 1 .. n /\ j - 1 \in 0 .. n /\ m \in 1 .. Len(fields) /\ k + (j - 1) = m - 1
        BY <1>2, <1>3, <3>2
      <4>2. Reads(types[j], fields[m])
        BY <1>2, <4>1
      <4>3. h[j] = ReadUpTo(fields, buf, g, m) /\ h[j - 1] = ReadUpTo(fields, buf, g, m - 1)
        BY <4>1
      <4> HIDE DEF m, h
      <4>4. More(ReadUpTo(fields, buf, g, m - 1), types[j]) = ReadUpTo(fields, buf, g, m)
        BY <4>1, <4>2, ReadsOne
      <4> QED
        BY <3>2, <4>3, <4>4
    <3> QED
      BY <3>1, <3>2
  <2>2. h = [j \in 0 .. n |-> h[j]]
    OBVIOUS
  <2> HIDE DEF h
  <2> QED
    BY <2>1, <2>2 DEF IsMore
<1>5. IsMore(more, r, types)
  BY <1>4
<1> HIDE DEF more, h, n
<1>6. /\ \A j \in 0 .. n : more[j] = IF j = 0 THEN r ELSE More(more[j - 1], types[j])
      /\ \A j \in 0 .. n : h[j] = IF j = 0 THEN r ELSE More(h[j - 1], types[j])
  BY <1>4, <1>5 DEF IsMore, n
<1>7. more[0] = h[0]
  BY <1>2, <1>6
<1>8. \A j \in 1 .. n : more[j - 1] = h[j - 1] => more[j] = h[j]
  BY <1>2, <1>6
<1>9. \A j \in 0 .. n : more[j] = h[j]
  BY <1>2, <1>7, <1>8, SameRounds, ZenonT(40)
<1>10. more[n] = h[n]
  BY <1>2, <1>9
<1>11. h[n] = ReadUpTo(fields, buf, g, k + n)
  BY <1>2 DEF h
<1> QED
  BY <1>1, <1>10, <1>11 DEF n, r

\* The fields from behind the k-th on can be read with these types n times over.
Repeats(fields, k, n, types) ==
  /\ k \in Nat /\ n \in Nat /\ Len(types) \in Nat
  /\ \A i \in 1 .. n : AreRead(fields, k + (i - 1) * Len(types), types)
Behind(k, n, types) == k + n * Len(types)

LEMMA ReadsRepeatedly ==
  ASSUME NEW fields, NEW buf, NEW g, Laid(fields, buf, g), NEW k, NEW n, NEW types,
         Repeats(fields, k, n, types)
  PROVE  Repeated(ReadUpTo(fields, buf, g, k), n, types)
           = ReadUpTo(fields, buf, g, Behind(k, n, types))
<1> DEFINE c == Len(types)  r == ReadUpTo(fields, buf, g, k)
           more == CHOOSE more : IsRepeated(more, r, n, types)
           h == [j \in 0 .. n |-> ReadUpTo(fields, buf, g, k + j * c)]
<1>1. Repeated(r, n, types) = more[n]
  BY DEF Repeated, IsRepeated
<1>2. c \in Nat /\ k \in Nat /\ n \in Nat /\ \A i \in 1 .. n : AreRead(fields, k + (i - 1) * c, types)
  BY DEF Repeats
<1> HIDE DEF r
<1>3. IsRepeated(h, r, n, types)
  <2>1. ASSUME NEW j \in 0 .. n
        PROVE  h[j] = IF j = 0 THEN r ELSE MoreOf(h[j - 1], types)
    <3>1. CASE j = 0
      <4>1. k + j * c = k
        BY <1>2, <3>1
      <4> QED
        BY <3>1, <4>1 DEF r
    <3>2. CASE j # 0
      <4> DEFINE m == k + (j - 1) * c
      <4>1. j \in 1 .. n /\ j - 1 \in 0 .. n /\ k + j * c = m + c
        BY <1>2, <3>2
      <4>2. AreRead(fields, m, types)
        BY <1>2, <4>1
      <4>3. h[j] = ReadUpTo(fields, buf, g, m + c) /\ h[j - 1] = ReadUpTo(fields, buf, g, m)
        BY <4>1
      <4> HIDE DEF m, h
      <4>4. MoreOf(ReadUpTo(fields, buf, g, m), types) = ReadUpTo(fields, buf, g, m + c)
        BY <4>2, ReadsMany
      <4> QED
        BY <3>2, <4>3, <4>4
    <3> QED
      BY <3>1, <3>2
  <2>2. h = [j \in 0 .. n |-> h[j]]
    OBVIOUS
  <2> HIDE DEF h
  <2> QED
    BY <2>1, <2>2 DEF IsRepeated
<1>4. IsRepeated(more, r, n, types)
  BY <1>3
<1> HIDE DEF more, h, c
<1>5. /\ \A j \in 0 .. n : more[j] = IF j = 0 THEN r ELSE MoreOf(more[j - 1], types)
      /\ \A j \in 0 .. n : h[j] = IF j = 0 THEN r ELSE MoreOf(h[j - 1], types)
  BY <1>3, <1>4 DEF IsRepeated
<1>6. more[0] = h[0]
  BY <1>2, <1>5
<1>7. \A j \in 1 .. n : more[j - 1] = h[j - 1] => more[j] = h[j]
  BY <1>2, <1>5
<1>8. \A j \in 0 .. n : more[j] = h[j]
  BY <1>2, <1>6, <1>7, SameRounds, ZenonT(40)
<1>9. more[n] = h[n]
  BY <1>2, <1>8
<1>10. h[n] = ReadUpTo(fields, buf, g, k + n * c)
  BY <1>2 DEF h
<1> QED
  BY <1>1, <1>9, <1>10 DEF r, c, Behind

------------------------------------------------------------------------------
(* Parts of messages.                                                      *)

LEMMA SegmentOfAll ==
  ASSUME NEW S, NEW s \in Seq(S)
  PROVE  Segment(s, 0, s)
BY DEF Segment

LEMMA SegmentsFollow ==
  ASSUME NEW S, NEW a \in Seq(S), NEW b \in Seq(S), NEW whole, NEW k,
         Segment(whole, k, a \o b)
  PROVE  Segment(whole, k, a) /\ Segment(whole, k + Len(a), b) /\ Len(a \o b) = Len(a) + Len(b)
<1> DEFINE c == a \o b
<1>1. /\ Len(c) = Len(a) + Len(b) /\ Len(a) \in Nat /\ Len(b) \in Nat
      /\ \A i \in 1 .. Len(a) + Len(b) : c[i] = IF i <= Len(a) THEN a[i] ELSE b[i - Len(a)]
  BY ConcatProperties, LenProperties
<1>2. k \in Nat /\ Len(whole) \in Nat /\ k + Len(c) <= Len(whole)
      /\ \A i \in 1 .. Len(c) : whole[k + i] = c[i]
  BY DEF Segment
<1> HIDE DEF c
<1> DEFINE m == Len(a)  n == Len(b)  l == Len(whole)
<1>3. m \in Nat /\ n \in Nat /\ Len(c) = m + n /\ k + (m + n) <= l /\ k \in Nat
      /\ l \in Nat
      /\ (\A i \in 1 .. m + n : c[i] = IF i <= m THEN a[i] ELSE b[i - m])
      /\ \A i \in 1 .. m + n : whole[k + i] = c[i]
  BY <1>1, <1>2
<1> HIDE DEF m, n, l
<1>4. k + m <= l /\ \A i \in 1 .. m : whole[k + i] = a[i]
  <2>1. k + m <= l
    <3>1. \A x, y, z, u \in Nat : z + (x + y) <= u => z + x <= u
      OBVIOUS
    <3> QED
      BY <1>3, <3>1
  <2>2. \A i \in 1 .. m : i \in 1 .. m + n /\ i <= m
    BY <1>3
  <2> QED
    BY <1>3, <2>1, <2>2
<1>5. (k + m) + n <= l /\ \A i \in 1 .. n : whole[(k + m) + i] = b[i]
  <2>1. (k + m) + n = k + (m + n)
    BY <1>3
  <2>2. ASSUME NEW i \in 1 .. n PROVE whole[(k + m) + i] = b[i]
    <3>1. m + i \in 1 .. m + n /\ ~(m + i <= m) /\ (m + i) - m = i /\ (k + m) + i = k + (m + i)
      BY <1>3
    <3> QED
      BY <1>3, <3>1
  <2> QED
    BY <1>3, <2>1, <2>2
<1>6. k + m \in Nat
  BY <1>3
<1> QED
  BY <1>3, <1>4, <1>5, <1>6 DEF Segment, m, n, l, c

LEMMA SegmentIsRead ==
  ASSUME NEW fields, NEW k, NEW part, Segment(fields, k, part), NEW types, Len(types) = Len(part),
         \A j \in 1 .. Len(part) : Reads(types[j], part[j])
  PROVE  AreRead(fields, k, types)
BY DEF Segment, AreRead

\* One of several parts that are joined.
LEMMA SegmentOfJoined ==
  ASSUME NEW S, NEW seqs \in Seq(Seq(S)), NEW h, Joins(h, S, seqs), NEW whole, NEW k,
         Segment(whole, k, h[Len(seqs)]), NEW i \in 1 .. Len(seqs)
  PROVE  Segment(whole, k + Len(h[i - 1]), seqs[i])
<1> DEFINE d == h[Len(seqs)]  a == Len(h[i - 1])  b == seqs[i]  n == Len(b)
<1>1. Segment(d, a, b)
  BY JoinedPlaces
<1> HIDE DEF d, a, b
<1>2. a \in Nat /\ n \in Nat /\ a + n <= Len(d) /\ \A j \in 1 .. n : d[a + j] = b[j]
  BY <1>1 DEF Segment
<1>3. k \in Nat /\ Len(d) \in Nat /\ Len(whole) \in Nat /\ k + Len(d) <= Len(whole)
      /\ \A j \in 1 .. Len(d) : whole[k + j] = d[j]
  BY DEF Segment, d
<1> HIDE DEF n
<1>4. k + a \in Nat /\ (k + a) + n <= Len(whole)
  <2>1. \A x, y, z, u, w \in Nat : x + y <= z /\ u + z <= w => (u + x) + y <= w
    OBVIOUS
  <2> QED
    BY <1>2, <1>3, <2>1
<1>5. ASSUME NEW j \in 1 .. n PROVE whole[(k + a) + j] = b[j]
  <2>1. a + j \in 1 .. Len(d) /\ (k + a) + j = k + (a + j)
    BY <1>2, <1>3
  <2> QED
    BY <1>2, <1>3, <2>1
<1>6. Segment(whole, k + a, b)
  BY <1>2, <1>3, <1>4, <1>5 DEF Segment, n
<1> QED
  BY <1>6 DEF a, b

\* The number that was read last, and those before it.
LEMMA ValuesRead ==
  ASSUME NEW fields, NEW buf, NEW g, Laid(fields, buf, g), NEW k \in 0 .. Len(fields)
  PROVE  /\ \A i \in 1 .. k : Value(ReadUpTo(fields, buf, g, k), i) = fields[i].value
         /\ k # 0 => LastValue(ReadUpTo(fields, buf, g, k)) = fields[k].value
<1> DEFINE v == [i \in 1 .. k |-> fields[i].value]  r == ReadUpTo(fields, buf, g, k)
<1>1. r.values = v
  BY DEF ReadUpTo
<1>2. fields \in Seq(TheFields) /\ k \in Nat
  BY DEF Laid
<1>3. \A i \in 1 .. Len(fields) : fields[i].value \in Nat
  BY <1>2, FieldTyped
<1>4. v \in [1 .. k -> Nat]
  BY <1>2, <1>3
<1>5. \A i \in 1 .. k : v[i] = fields[i].value
  OBVIOUS
<1> HIDE DEF v, r
<1>6. Len(v) = k
  BY <1>2, <1>4, AsSequence
<1> QED
  BY <1>1, <1>2, <1>5, <1>6 DEF Value, LastValue, r

(***************************************************************************)
(* Fields and their types.                                                 *)
(***************************************************************************)
LEMMA FieldsOfTypes ==
  /\ \A ct \in Nat \ {0}, v \in Nat : Field(Uint64s(ct), v) \in TheFields
  /\ \A v \in Nat : Field(Uint256Pad, v) \in TheFields
  /\ \A v \in 0 .. QValue - 1 : Field(Hash, v) \in TheFields
  /\ \A v \in Unsigned(Uint32) : Field(Uint32, v) \in TheFields /\ v \in Nat
  /\ \A v \in Unsigned(Uint64) : Field(Uint64, v) \in TheFields /\ v \in Nat
  /\ \A v \in {0, 1} : Field(Bool, v) \in TheFields
<1>1. \A c \in Numeric, ct \in Nat \ {0} : [type |-> c, size |-> ct * WordBytes] \in Types
  BY DEF Types
<1>2. \A c \in {"bool", "int"}, n \in Nat \ {0} : [type |-> c, size |-> n] \in Types
  BY DEF Types
<1>3. QWords \in Nat \ {0} /\ QValue \in Nat /\ WordBytes \in Nat \ {0} /\ WordBytes \div 2 \in Nat \ {0}
      /\ ByteBase \in Nat \ {0} /\ ByteBase > 1
  <2>1. WordBytes % 2 = 0 /\ WordBytes \in Nat \ {0}
    BY SerializationAssumption
  <2>2. WordBytes \div 2 \in Nat \ {0}
    BY <2>1
  <2> QED
    BY <2>2, Widths
<1>4. \A ct \in Nat \ {0}, v \in Nat : Field(Uint64s(ct), v) \in TheFields
  BY <1>1 DEF Uint64s, Field, TheFields, Numeric, IsInt
<1>5. \A v \in Nat : Field(Uint256Pad, v) \in TheFields
  BY <1>1, <1>3 DEF Uint256Pad, Field, TheFields, Numeric, IsInt
<1>6. \A v \in 0 .. QValue - 1 : Field(Hash, v) \in TheFields
  BY <1>1, <1>3 DEF Hash, Field, TheFields, Numeric, IsInt
<1>7. \A n \in Nat : IntegerPower(ByteBase, n) \in Nat
  BY <1>3, PowersAreNumbers
<1>8. \A v \in Unsigned(Uint32) : Field(Uint32, v) \in TheFields /\ v \in Nat
  <2>1. ASSUME NEW v \in Unsigned(Uint32) PROVE v \in Nat /\ v < IntegerPower(ByteBase, Uint32.size)
    BY <1>3, <1>7 DEF Unsigned, Uint32
  <2> QED
    BY <1>2, <1>3, <2>1 DEF Uint32, Field, TheFields, IsInt
<1>9. \A v \in Unsigned(Uint64) : Field(Uint64, v) \in TheFields /\ v \in Nat
  <2>1. ASSUME NEW v \in Unsigned(Uint64) PROVE v \in Nat /\ v < IntegerPower(ByteBase, Uint64.size)
    BY <1>3, <1>7 DEF Unsigned, Uint64
  <2> QED
    BY <1>2, <1>3, <2>1 DEF Uint64, Field, TheFields, IsInt
<1>10. \A v \in {0, 1} : Field(Bool, v) \in TheFields
  <2>1. IntegerPower(ByteBase, 1) = ByteBase
    <3>1. IntegerPower(ByteBase, 0 + 1) = IntegerPower(ByteBase, 0) * ByteBase /\ IntegerPower(ByteBase, 0) = 1
      BY <1>3, IntegerPowerGoes
    <3> QED
      BY <1>3, <3>1
  <2> QED
    BY <1>2, <1>3, <2>1 DEF Bool, Field, TheFields, IsInt
<1> QED
  BY <1>4, <1>5, <1>6, <1>8, <1>9, <1>10

LEMMA OneField ==
  ASSUME NEW f \in TheFields
  PROVE  <<f>> \in Seq(TheFields) /\ Len(<<f>>) = 1 /\ <<f>>[1] = f
OBVIOUS

LEMMA EachIsFields ==
  ASSUME NEW type, NEW V, NEW values \in Seq(V), \A v \in V : Field(type, v) \in TheFields
  PROVE  /\ Each(type, values) \in Seq(TheFields) /\ Len(Each(type, values)) = Len(values)
         /\ \A i \in 1 .. Len(values) : Each(type, values)[i] = Field(type, values[i])
         /\ Len(values) \in Nat
<1> DEFINE n == Len(values)  e == Each(type, values)
<1>1. n \in Nat /\ \A i \in 1 .. n : values[i] \in V
  OBVIOUS
<1>2. e = [i \in 1 .. n |-> Field(type, values[i])]
  BY DEF Each
<1> HIDE DEF e, n
<1>3. e \in [1 .. n -> TheFields]
  BY <1>1, <1>2
<1>4. e \in Seq(TheFields) /\ Len(e) = n
  BY <1>1, <1>3, AsSequence
<1> QED
  BY <1>1, <1>2, <1>4 DEF e, n

LEMMA EachIsRead ==
  ASSUME NEW type, NEW V, NEW values \in Seq(V), \A v \in V : Field(type, v) \in TheFields,
         NEW fields, NEW k, Segment(fields, k, Each(type, values))
  PROVE  AreRead(fields, k, Times(Len(values), type)) /\ Len(Times(Len(values), type)) = Len(values)
<1> DEFINE n == Len(values)  e == Each(type, values)  t == Times(n, type)
<1>1. Len(e) = n /\ n \in Nat /\ \A i \in 1 .. n : e[i] = Field(type, values[i])
  BY EachIsFields
<1>2. Segment(fields, k, e)
  OBVIOUS
<1>3. t = [i \in 1 .. n |-> type]
  BY DEF Times
<1> HIDE DEF e, n, t
<1>4. t \in [1 .. n -> {type}]
  BY <1>3
<1>5. Len(t) = n
  BY <1>1, <1>4, AsSequence
<1>6. \A j \in 1 .. n : Reads(t[j], e[j])
  BY <1>1, <1>3 DEF Reads, Field
<1>7. AreRead(fields, k, t)
  BY <1>1, <1>2, <1>5, <1>6, SegmentIsRead
<1> QED
  BY <1>5, <1>7 DEF t, n

------------------------------------------------------------------------------
(* The parts that the messages are made of.                                *)

LEMMA OneIsRead ==
  ASSUME NEW fields, NEW buf, NEW g, Laid(fields, buf, g), NEW k, NEW f \in TheFields,
         Segment(fields, k, <<f>>), NEW type, Reads(type, f)
  PROVE  /\ More(ReadUpTo(fields, buf, g, k), type) = ReadUpTo(fields, buf, g, k + 1)
         /\ LastValue(ReadUpTo(fields, buf, g, k + 1)) = f.value
<1> DEFINE h == k + 1
<1>1. k \in Nat /\ Len(fields) \in Nat /\ k + 1 <= Len(fields) /\ fields[k + 1] = f
  <2>1. Len(<<f>>) = 1 /\ <<f>>[1] = f
    OBVIOUS
  <2> HIDE DEF h
  <2> QED
    BY <2>1 DEF Segment
<1>2. h \in 1 .. Len(fields) /\ h \in 0 .. Len(fields) /\ h - 1 = k /\ h # 0 /\ fields[h] = f
  BY <1>1
<1> HIDE DEF h
<1>3. More(ReadUpTo(fields, buf, g, h - 1), type) = ReadUpTo(fields, buf, g, h)
  BY <1>2, ReadsOne
<1>4. LastValue(ReadUpTo(fields, buf, g, h)) = f.value
  BY <1>2, ValuesRead
<1> QED
  BY <1>2, <1>3, <1>4 DEF h

LEMMA ManyAreRead ==
  ASSUME NEW fields, NEW buf, NEW g, Laid(fields, buf, g), NEW k, NEW type, NEW V,
         NEW values \in Seq(V), \A v \in V : Field(type, v) \in TheFields,
         Segment(fields, k, Each(type, values))
  PROVE  MoreOf(ReadUpTo(fields, buf, g, k), Times(Len(values), type))
           = ReadUpTo(fields, buf, g, k + Len(values))
<1> DEFINE t == Times(Len(values), type)
<1>1. AreRead(fields, k, t) /\ Len(t) = Len(values)
  BY EachIsRead
<1> HIDE DEF t
<1>2. MoreOf(ReadUpTo(fields, buf, g, k), t) = ReadUpTo(fields, buf, g, k + Len(t))
  BY <1>1, ReadsMany
<1> QED
  BY <1>1, <1>2 DEF t

\* How many there are, and then as many.
Counted(type, values) == <<Field(Uint32, Len(values))>> \o Each(type, values)

LEMMA CountedIsFields ==
  ASSUME NEW type, NEW V, NEW values \in Lists(V), \A v \in V : Field(type, v) \in TheFields
  PROVE  /\ values \in Seq(V) /\ Field(Uint32, Len(values)) \in TheFields
         /\ <<Field(Uint32, Len(values))>> \in Seq(TheFields)
         /\ Each(type, values) \in Seq(TheFields) /\ Len(Each(type, values)) = Len(values)
         /\ Counted(type, values) \in Seq(TheFields)
         /\ Len(Counted(type, values)) = 1 + Len(values) /\ Len(values) \in Nat
<1> DEFINE f == Field(Uint32, Len(values))  e == Each(type, values)
<1>1. values \in Seq(V) /\ Len(values) \in Unsigned(Uint32)
  BY DEF Lists
<1>2. f \in TheFields
  BY <1>1, FieldsOfTypes
<1>3. e \in Seq(TheFields) /\ Len(e) = Len(values) /\ Len(values) \in Nat
  BY <1>1, EachIsFields
<1> HIDE DEF f, e
<1>4. <<f>> \in Seq(TheFields) /\ Len(<<f>>) = 1
  BY <1>2, OneField
<1>5. <<f>> \o e \in Seq(TheFields) /\ Len(<<f>> \o e) = Len(<<f>>) + Len(e)
  BY <1>3, <1>4, ConcatProperties
<1> QED
  BY <1>1, <1>2, <1>3, <1>4, <1>5 DEF Counted, f, e

LEMMA CountedIsRead ==
  ASSUME NEW fields, NEW buf, NEW g, Laid(fields, buf, g), NEW k, NEW type, NEW V,
         NEW values \in Lists(V), \A v \in V : Field(type, v) \in TheFields,
         Segment(fields, k, Counted(type, values))
  PROVE  LET t == More(ReadUpTo(fields, buf, g, k), Uint32)
         IN  /\ LastValue(t) = Len(values)
             /\ MoreOf(t, Times(Len(values), type))
                  = ReadUpTo(fields, buf, g, k + Len(Counted(type, values)))
<1> DEFINE f == Field(Uint32, Len(values))  e == Each(type, values)
<1>1. /\ values \in Seq(V) /\ f \in TheFields /\ <<f>> \in Seq(TheFields)
      /\ e \in Seq(TheFields) /\ Len(e) = Len(values)
      /\ Len(Counted(type, values)) = 1 + Len(values) /\ Len(values) \in Nat
  BY CountedIsFields
<1>2. Segment(fields, k, <<f>> \o e)
  BY DEF Counted
<1>3. Reads(Uint32, f) /\ f.value = Len(values)
  BY DEF Reads, Field
<1> HIDE DEF f, e
<1>4. Segment(fields, k, <<f>>) /\ Segment(fields, k + 1, e)
  <2>1. Len(<<f>>) = 1
    OBVIOUS
  <2> QED
    BY <1>1, <1>2, <2>1, SegmentsFollow
<1>5. /\ More(ReadUpTo(fields, buf, g, k), Uint32) = ReadUpTo(fields, buf, g, k + 1)
      /\ LastValue(ReadUpTo(fields, buf, g, k + 1)) = Len(values)
  BY <1>1, <1>3, <1>4, OneIsRead
<1>6. MoreOf(ReadUpTo(fields, buf, g, k + 1), Times(Len(values), type))
        = ReadUpTo(fields, buf, g, (k + 1) + Len(values))
  BY <1>1, <1>4, ManyAreRead DEF e
<1>7. (k + 1) + Len(values) = k + (1 + Len(values))
  <2>1. k \in Nat
    BY <1>4 DEF Segment
  <2> QED
    BY <1>1, <2>1
<1> QED
  BY <1>1, <1>5, <1>6, <1>7

LEMMA TwoParts ==
  ASSUME NEW a \in Seq(TheFields), NEW b \in Seq(TheFields)
  PROVE  /\ a \o b \in Seq(TheFields) /\ Len(a \o b) = Len(a) + Len(b)
         /\ Len(a) \in Nat /\ Len(b) \in Nat
BY ConcatProperties, LenProperties

\* a is behind the k-th field, and then b.
Parted(fields, k, a, b) ==
  /\ Segment(fields, k, a) /\ Segment(fields, k + Len(a), b)
  /\ k + Len(a \o b) = (k + Len(a)) + Len(b) /\ k \in Nat

LEMMA TwoSegments ==
  ASSUME NEW a \in Seq(TheFields), NEW b \in Seq(TheFields), NEW fields, NEW k,
         Segment(fields, k, a \o b)
  PROVE  Parted(fields, k, a, b)
<1>1. Segment(fields, k, a) /\ Segment(fields, k + Len(a), b)
  BY SegmentsFollow
<1>2. k \in Nat
  BY DEF Segment
<1>3. Len(a \o b) = Len(a) + Len(b) /\ Len(a) \in Nat /\ Len(b) \in Nat
  BY TwoParts
<1>4. k + Len(a \o b) = (k + Len(a)) + Len(b)
  BY <1>2, <1>3
<1> QED
  BY <1>1, <1>2, <1>4 DEF Parted

LEMMA NumbersAreFields ==
  /\ \A v \in Unsigned(Uint4096) : Field(Uint4096, v) \in TheFields
  /\ \A v \in Unsigned(Uint256) : Field(Uint256, v) \in TheFields
  /\ \A v \in Unsigned(Uint256Pad) : Field(Uint256Pad, v) \in TheFields
  /\ \A v \in Unsigned(EncryptedKeyShare) : Field(EncryptedKeyShare, v) \in TheFields
  /\ \A ct \in {1, RsaWords, 2 * RsaWords} :
       \A v \in Unsigned(Uint64s(ct)) : Field(Uint64s(ct), v) \in TheFields
<1>1. {PWords, QWords, RsaWords, ShareWords, 1, 2 * RsaWords} \subseteq Nat \ {0}
  BY SerializationAssumption
<1>2. \A n \in Nat : IntegerPower(ByteBase, n) \in Nat
  BY Widths, PowersAreNumbers
<1>3. \A ct \in Nat \ {0} : ct * WordBytes \in Nat
  BY WordsFill
<1>4. \A type : type.size \in Nat => Unsigned(type) \subseteq Nat
  BY <1>2 DEF Unsigned
<1>5. \A ct \in Nat \ {0} : Unsigned(Uint64s(ct)) \subseteq Nat
  <2>1. \A ct \in Nat \ {0} : Uint64s(ct).size \in Nat
    BY <1>3 DEF Uint64s
  <2> QED
    BY <1>4, <2>1
<1>6. Unsigned(Uint256Pad) \subseteq Nat
  <2>1. Uint256Pad.size \in Nat
    BY <1>1, <1>3 DEF Uint256Pad
  <2> QED
    BY <1>4, <2>1
<1>7. \A ct \in Nat \ {0} :
        \A v \in Unsigned(Uint64s(ct)) : Field(Uint64s(ct), v) \in TheFields
  BY <1>5, FieldsOfTypes
<1>8. \A v \in Unsigned(Uint256Pad) : Field(Uint256Pad, v) \in TheFields
  BY <1>6, FieldsOfTypes
<1> QED
  BY <1>1, <1>7, <1>8 DEF Uint4096, Uint256, EncryptedKeyShare

LEMMA PrivateKeyIsRead ==
  ASSUME NEW key \in PrivateKeys
  PROVE  /\ private_key_fields(key) \in Seq(TheFields)
         /\ \A fields, buf, g, k :
              Laid(fields, buf, g) /\ Segment(fields, k, private_key_fields(key)) =>
                read_private_key(ReadUpTo(fields, buf, g, k))
                  = ReadUpTo(fields, buf, g, k + Len(private_key_fields(key)))
<1> DEFINE values == key.coefficients
<1>1. values \in Lists(Unsigned(Uint4096)) /\ private_key_fields(key) = Counted(Uint4096, values)
  BY DEF PrivateKeys, private_key_fields, Counted
<1> HIDE DEF values
<1>2. \A v \in Unsigned(Uint4096) : Field(Uint4096, v) \in TheFields
  BY NumbersAreFields
<1>3. private_key_fields(key) \in Seq(TheFields)
  BY <1>1, <1>2, CountedIsFields
<1>4. ASSUME NEW fields, NEW buf, NEW g, NEW k,
             Laid(fields, buf, g), Segment(fields, k, private_key_fields(key))
      PROVE  read_private_key(ReadUpTo(fields, buf, g, k))
               = ReadUpTo(fields, buf, g, k + Len(private_key_fields(key)))
  <2> DEFINE t == More(ReadUpTo(fields, buf, g, k), Uint32)
  <2>0. read_private_key(ReadUpTo(fields, buf, g, k)) = MoreOf(t, Times(LastValue(t), Uint4096))
    BY DEF read_private_key
  <2>1. LastValue(t) = Len(values)
        /\ MoreOf(t, Times(Len(values), Uint4096))
             = ReadUpTo(fields, buf, g, k + Len(Counted(Uint4096, values)))
    BY <1>1, <1>2, <1>4, CountedIsRead
  <2> HIDE DEF t
  <2> QED
    BY <1>1, <2>0, <2>1
<1> QED
  BY <1>3, <1>4

LEMMA SchnorrProofIsRead ==
  ASSUME NEW proof \in SchnorrProofs
  PROVE  /\ schnorr_proof_fields(proof) \in Seq(TheFields)
         /\ \A fields, buf, g, k :
              Laid(fields, buf, g) /\ Segment(fields, k, schnorr_proof_fields(proof)) =>
                read_schnorr_proof(ReadUpTo(fields, buf, g, k))
                  = ReadUpTo(fields, buf, g, k + Len(schnorr_proof_fields(proof)))
<1> DEFINE x == proof.commitments  y == proof.challenge_responses
           c == Field(Hash, proof.challenge)
           A == Counted(Uint4096, x)  B == <<c>>  C == Each(Uint256, y)
<1>1. /\ x \in Lists(Unsigned(Uint4096)) /\ y \in Lists(Unsigned(Uint256)) /\ Len(y) = Len(x)
      /\ proof.challenge \in 0 .. QValue - 1
      /\ schnorr_proof_fields(proof) = (A \o B) \o C
  BY DEF SchnorrProofs, schnorr_proof_fields, Counted
<1>2. /\ \A v \in Unsigned(Uint4096) : Field(Uint4096, v) \in TheFields
      /\ \A v \in Unsigned(Uint256) : Field(Uint256, v) \in TheFields
  BY NumbersAreFields
<1>3. c \in TheFields /\ Reads(Hash, c)
  BY <1>1, FieldsOfTypes DEF Reads, Field
<1>4. A \in Seq(TheFields)
  <2> HIDE DEF x, y, c
  <2> QED
    BY <1>1, <1>2, CountedIsFields
<1>5. C \in Seq(TheFields) /\ y \in Seq(Unsigned(Uint256)) /\ Len(C) = Len(y)
  <2> HIDE DEF x, y, c
  <2> QED
    BY <1>1, <1>2, CountedIsFields
<1> HIDE DEF x, y, c
<1>6. B \in Seq(TheFields) /\ Len(B) = 1
  BY <1>3, OneField
<1> HIDE DEF A, B, C
<1>7. A \o B \in Seq(TheFields) /\ (A \o B) \o C \in Seq(TheFields)
  BY <1>4, <1>5, <1>6, TwoParts
<1>8. ASSUME NEW fields, NEW buf, NEW g, NEW k,
             Laid(fields, buf, g), Segment(fields, k, (A \o B) \o C)
      PROVE  read_schnorr_proof(ReadUpTo(fields, buf, g, k))
               = ReadUpTo(fields, buf, g, k + Len((A \o B) \o C))
  <2> DEFINE r == ReadUpTo(fields, buf, g, k)  t == More(r, Uint32)
             a == k + Len(A)  b == k + Len(A \o B)
             D == A \o B
  <2>1. Segment(fields, k, D) /\ Segment(fields, b, C) /\ k + Len(D \o C) = b + Len(C)
    <3>1. D \in Seq(TheFields) /\ Segment(fields, k, D \o C)
      BY <1>7, <1>8
    <3> HIDE DEF D
    <3>2. Parted(fields, k, D, C)
      BY <1>5, <3>1, TwoSegments
    <3> QED
      BY <3>2 DEF D, Parted
  <2>2. Segment(fields, k, A) /\ Segment(fields, a, B) /\ b = a + 1
    <3>1. Segment(fields, k, A \o B)
      BY <2>1
    <3>2. Parted(fields, k, A, B)
      BY <1>4, <1>6, <3>1, TwoSegments
    <3> QED
      BY <1>6, <3>2 DEF Parted
  <2>3. LastValue(t) = Len(x) /\ MoreOf(t, Times(Len(x), Uint4096)) = ReadUpTo(fields, buf, g, a)
    BY <1>1, <1>2, <1>8, <2>2, CountedIsRead DEF A
  <2> HIDE DEF t, r, a, b, D
  <2>4. More(ReadUpTo(fields, buf, g, a), Hash) = ReadUpTo(fields, buf, g, b)
    BY <1>3, <1>8, <2>2, OneIsRead DEF B
  <2>5. MoreOf(ReadUpTo(fields, buf, g, b), Times(Len(y), Uint256))
          = ReadUpTo(fields, buf, g, b + Len(y))
    BY <1>2, <1>5, <1>8, <2>1, ManyAreRead DEF C
  <2>6. read_schnorr_proof(r)
          = MoreOf(More(MoreOf(t, Times(LastValue(t), Uint4096)), Hash), Times(LastValue(t), Uint256))
    BY DEF read_schnorr_proof, t
  <2>7. read_schnorr_proof(r) = ReadUpTo(fields, buf, g, b + Len(C))
    BY <1>1, <1>5, <2>3, <2>4, <2>5, <2>6
  <2> QED
    BY <2>1, <2>7 DEF r, D
<1> QED
  BY <1>1, <1>7, <1>8 DEF A, B, C

LEMMA PublicKeyIsRead ==
  ASSUME NEW key \in PublicKeys
  PROVE  /\ public_key_fields(key) \in Seq(TheFields)
         /\ \A fields, buf, g, k :
              Laid(fields, buf, g) /\ Segment(fields, k, public_key_fields(key)) =>
                read_public_key(ReadUpTo(fields, buf, g, k))
                  = ReadUpTo(fields, buf, g, k + Len(public_key_fields(key)))
<1> DEFINE x == key.coef_commitments  A == Counted(Uint4096, x)  B == schnorr_proof_fields(key.proof)
<1>1. x \in Lists(Unsigned(Uint4096)) /\ key.proof \in SchnorrProofs /\ public_key_fields(key) = A \o B
  BY DEF PublicKeys, public_key_fields, Counted
<1>2. \A v \in Unsigned(Uint4096) : Field(Uint4096, v) \in TheFields
  BY NumbersAreFields
<1> HIDE DEF x
<1>3. A \in Seq(TheFields)
  BY <1>1, <1>2, CountedIsFields
<1>4. B \in Seq(TheFields)
  BY <1>1, SchnorrProofIsRead
<1>5. A \o B \in Seq(TheFields)
  <2> HIDE DEF A, B
  <2> QED
    BY <1>3, <1>4, TwoParts
<1>6. ASSUME NEW fields, NEW buf, NEW g, NEW k,
             Laid(fields, buf, g), Segment(fields, k, A \o B)
      PROVE  read_public_key(ReadUpTo(fields, buf, g, k)) = ReadUpTo(fields, buf, g, k + Len(A \o B))
  <2> DEFINE r == ReadUpTo(fields, buf, g, k)  t == More(r, Uint32)  a == k + Len(A)
  <2>1. Segment(fields, k, A) /\ Segment(fields, a, B) /\ k + Len(A \o B) = a + Len(B)
    <3> HIDE DEF A, B
    <3>1. Parted(fields, k, A, B)
      BY <1>3, <1>4, <1>6, TwoSegments
    <3> QED
      BY <3>1 DEF Parted
  <2>2. LastValue(t) = Len(x) /\ MoreOf(t, Times(Len(x), Uint4096)) = ReadUpTo(fields, buf, g, a)
    BY <1>1, <1>2, <1>6, <2>1, CountedIsRead
  <2> HIDE DEF t, r, a, A
  <2>3. read_schnorr_proof(ReadUpTo(fields, buf, g, a)) = ReadUpTo(fields, buf, g, a + Len(B))
    BY <1>1, <1>6, <2>1, SchnorrProofIsRead
  <2>4. read_public_key(r) = read_schnorr_proof(MoreOf(t, Times(LastValue(t), Uint4096)))
    BY DEF read_public_key, t
  <2> QED
    BY <2>1, <2>2, <2>3, <2>4 DEF r
<1> QED
  BY <1>1, <1>5, <1>6

\* a is behind the k-th field, and then b, and then c.
PartedInThree(fields, k, a, b, c) ==
  /\ Segment(fields, k, a) /\ Segment(fields, k + Len(a), b)
  /\ Segment(fields, (k + Len(a)) + Len(b), c)
  /\ k + Len((a \o b) \o c) = ((k + Len(a)) + Len(b)) + Len(c) /\ k \in Nat

LEMMA ThreeSegments ==
  ASSUME NEW a \in Seq(TheFields), NEW b \in Seq(TheFields), NEW c \in Seq(TheFields),
         NEW fields, NEW k, Segment(fields, k, (a \o b) \o c)
  PROVE  PartedInThree(fields, k, a, b, c)
<1> DEFINE d == a \o b
<1>1. d \in Seq(TheFields)
  BY TwoParts
<1>2. Parted(fields, k, d, c)
  <2> HIDE DEF d
  <2>1. Segment(fields, k, d \o c)
    BY DEF d
  <2> QED
    BY <1>1, <2>1, TwoSegments
<1>3. Segment(fields, k, d)
  BY <1>2 DEF Parted
<1>4. Parted(fields, k, a, b)
  BY <1>3, TwoSegments
<1> QED
  BY <1>2, <1>4 DEF Parted, PartedInThree

LEMMA ThreeParts ==
  ASSUME NEW a \in Seq(TheFields), NEW b \in Seq(TheFields), NEW c \in Seq(TheFields)
  PROVE  /\ (a \o b) \o c \in Seq(TheFields)
         /\ Len((a \o b) \o c) = (Len(a) + Len(b)) + Len(c)
         /\ Len(a) \in Nat /\ Len(b) \in Nat /\ Len(c) \in Nat
<1>1. a \o b \in Seq(TheFields) /\ Len(a \o b) = Len(a) + Len(b) /\ Len(a) \in Nat /\ Len(b) \in Nat
  BY TwoParts
<1>2. (a \o b) \o c \in Seq(TheFields) /\ Len((a \o b) \o c) = Len(a \o b) + Len(c) /\ Len(c) \in Nat
  BY <1>1, TwoParts
<1> QED
  BY <1>1, <1>2

LEMMA PartIsRead ==
  ASSUME NEW fields, NEW buf, NEW g, Laid(fields, buf, g), NEW k, NEW part,
         Segment(fields, k, part), NEW types, Len(types) = Len(part),
         \A j \in 1 .. Len(part) : Reads(types[j], part[j])
  PROVE  MoreOf(ReadUpTo(fields, buf, g, k), types) = ReadUpTo(fields, buf, g, k + Len(part))
BY SegmentIsRead, ReadsMany

LEMMA RsaPublicKeyIsRead ==
  ASSUME NEW key \in RsaPublicKeys
  PROVE  /\ rsa_public_key_fields(key) \in Seq(TheFields)
         /\ \A fields, buf, g, k :
              Laid(fields, buf, g) /\ Segment(fields, k, rsa_public_key_fields(key)) =>
                read_rsa_public_key(ReadUpTo(fields, buf, g, k))
                  = ReadUpTo(fields, buf, g, k + Len(rsa_public_key_fields(key)))
<1> DEFINE a == Field(Uint64s(2 * RsaWords), key.n)  b == Field(Uint64s(1), key.e)
           part == <<a, b>>  types == <<Uint64s(2 * RsaWords), Uint64s(1)>>
<1>1. key.n \in Unsigned(Uint64s(2 * RsaWords)) /\ key.e \in Unsigned(Uint64s(1))
      /\ rsa_public_key_fields(key) = part
  BY DEF RsaPublicKeys, rsa_public_key_fields
<1>2. a \in TheFields /\ b \in TheFields
  BY <1>1, NumbersAreFields
<1>3. Reads(types[1], a) /\ Reads(types[2], b)
  BY DEF Reads, Field
<1> HIDE DEF a, b
<1>4. part \in Seq(TheFields) /\ Len(part) = 2 /\ Len(types) = 2
  BY <1>2
<1>5. \A j \in 1 .. 2 : Reads(types[j], part[j])
  BY <1>3
<1> HIDE DEF part, types
<1>6. ASSUME NEW fields, NEW buf, NEW g, NEW k, Laid(fields, buf, g), Segment(fields, k, part)
      PROVE  read_rsa_public_key(ReadUpTo(fields, buf, g, k))
               = ReadUpTo(fields, buf, g, k + Len(part))
  <2>1. MoreOf(ReadUpTo(fields, buf, g, k), types) = ReadUpTo(fields, buf, g, k + Len(part))
    <3>1. Len(types) = Len(part) /\ \A j \in 1 .. Len(part) : Reads(types[j], part[j])
      BY <1>4, <1>5
    <3> QED
      BY <1>6, <3>1, PartIsRead
  <2> QED
    BY <2>1 DEF read_rsa_public_key, types
<1> QED
  BY <1>1, <1>4, <1>6

LEMMA RsaPrivateKeyIsRead ==
  ASSUME NEW key \in RsaPrivateKeys
  PROVE  /\ rsa_private_key_fields(key) \in Seq(TheFields)
         /\ \A fields, buf, g, k :
              Laid(fields, buf, g) /\ Segment(fields, k, rsa_private_key_fields(key)) =>
                read_rsa_private_key(ReadUpTo(fields, buf, g, k))
                  = ReadUpTo(fields, buf, g, k + Len(rsa_private_key_fields(key)))
<1> DEFINE v == <<key.e, key.q, key.d, key.p, key.n>>  part == rsa_private_key_fields(key)
<1>1. \A i \in 1 .. 5 : v[i] \in Unsigned(RsaTypes[i])
  BY DEF RsaPrivateKeys, RsaTypes
<1>2. part = [i \in 1 .. 5 |-> Field(RsaTypes[i], v[i])]
  BY DEF rsa_private_key_fields
<1> HIDE DEF v, part
<1>3. \A i \in 1 .. 5 : \E ct \in {1, RsaWords, 2 * RsaWords} : RsaTypes[i] = Uint64s(ct)
  BY DEF RsaTypes
<1>4. Len(RsaTypes) = 5
  BY DEF RsaTypes
<1>5. ASSUME NEW i \in 1 .. 5 PROVE Field(RsaTypes[i], v[i]) \in TheFields
  BY <1>1, <1>3, NumbersAreFields
<1>6. part \in [1 .. 5 -> TheFields]
  BY <1>2, <1>5
<1>7. part \in Seq(TheFields) /\ Len(part) = 5
  BY <1>6, AsSequence
<1>8. \A j \in 1 .. 5 : Reads(RsaTypes[j], part[j])
  BY <1>2 DEF Reads, Field
<1>9. ASSUME NEW fields, NEW buf, NEW g, NEW k, Laid(fields, buf, g), Segment(fields, k, part)
      PROVE  read_rsa_private_key(ReadUpTo(fields, buf, g, k))
               = ReadUpTo(fields, buf, g, k + Len(part))
  <2>1. MoreOf(ReadUpTo(fields, buf, g, k), RsaTypes) = ReadUpTo(fields, buf, g, k + Len(part))
    <3>1. Len(RsaTypes) = Len(part) /\ \A j \in 1 .. Len(part) : Reads(RsaTypes[j], part[j])
      BY <1>4, <1>7, <1>8
    <3> QED
      BY <1>9, <3>1, PartIsRead
  <2> QED
    BY <2>1 DEF read_rsa_private_key
<1> QED
  BY <1>7, <1>9 DEF part

(***************************************************************************)
(* The key ceremony.                                                       *)
(***************************************************************************)
LEMMA KeyGeneratedIsRead ==
  ASSUME NEW m \in MessagesOf("key_generated")
  PROVE  /\ key_generated_fields(m) \in Seq(TheFields) /\ Len(key_generated_fields(m)) # 0
         /\ \A fields, buf, g, k :
              Laid(fields, buf, g) /\ Segment(fields, k, key_generated_fields(m)) =>
                read_key_generated(ReadUpTo(fields, buf, g, k))
                  = ReadUpTo(fields, buf, g, k + Len(key_generated_fields(m)))
<1> DEFINE f == Field(Uint32, m.trustee_index)  A == <<f>>
           B == public_key_fields(m.public_key)  C == rsa_public_key_fields(m.rsa_public_key)
<1>1. /\ m.trustee_index \in Unsigned(Uint32) /\ m.public_key \in PublicKeys
      /\ m.rsa_public_key \in RsaPublicKeys /\ key_generated_fields(m) = (A \o B) \o C
  <2>1. m \in [trustee_index : Unsigned(Uint32), public_key : PublicKeys,
               rsa_public_key : RsaPublicKeys]
    BY DEF MessagesOf
  <2> QED
    BY <2>1 DEF key_generated_fields
<1>2. f \in TheFields /\ Reads(Uint32, f)
  BY <1>1, FieldsOfTypes DEF Reads, Field
<1>3. B \in Seq(TheFields)
  BY <1>1, PublicKeyIsRead
<1>4. C \in Seq(TheFields)
  BY <1>1, RsaPublicKeyIsRead
<1> HIDE DEF f
<1>5. A \in Seq(TheFields) /\ Len(A) = 1
  BY <1>2, OneField
<1> HIDE DEF A, B, C
<1>6. (A \o B) \o C \in Seq(TheFields) /\ Len((A \o B) \o C) # 0
  <2>1. /\ (A \o B) \o C \in Seq(TheFields) /\ Len(B) \in Nat /\ Len(C) \in Nat
        /\ Len((A \o B) \o C) = (Len(A) + Len(B)) + Len(C)
    BY <1>3, <1>4, <1>5, ThreeParts
  <2> QED
    BY <1>5, <2>1
<1>7. ASSUME NEW fields, NEW buf, NEW g, NEW k,
             Laid(fields, buf, g), Segment(fields, k, (A \o B) \o C)
      PROVE  read_key_generated(ReadUpTo(fields, buf, g, k))
               = ReadUpTo(fields, buf, g, k + Len((A \o B) \o C))
  <2>1. PartedInThree(fields, k, A, B, C)
    BY <1>3, <1>4, <1>5, <1>7, ThreeSegments
  <2> DEFINE a == k + 1  b == a + Len(B)
  <2>2. /\ Segment(fields, k, A) /\ Segment(fields, a, B) /\ Segment(fields, b, C)
        /\ k + Len((A \o B) \o C) = b + Len(C)
    BY <1>5, <2>1 DEF PartedInThree
  <2>3. More(ReadUpTo(fields, buf, g, k), Uint32) = ReadUpTo(fields, buf, g, a)
    BY <1>2, <1>7, <2>2, OneIsRead DEF A
  <2> HIDE DEF a
  <2>4. read_public_key(ReadUpTo(fields, buf, g, a)) = ReadUpTo(fields, buf, g, b)
    BY <1>1, <1>7, <2>2, PublicKeyIsRead DEF B
  <2> HIDE DEF b
  <2>5. read_rsa_public_key(ReadUpTo(fields, buf, g, b)) = ReadUpTo(fields, buf, g, b + Len(C))
    BY <1>1, <1>7, <2>2, RsaPublicKeyIsRead DEF C
  <2> QED
    BY <2>2, <2>3, <2>4, <2>5 DEF read_key_generated
<1> QED
  BY <1>1, <1>6, <1>7

(***************************************************************************)
(* Parts of the same kind, one behind the other.                           *)
(***************************************************************************)

\* h[i]: how many fields there are before the part behind the i-th.
Places(h, fields, k, parts) ==
  /\ h \in [0 .. Len(parts) -> Nat] /\ h[0] = k
  /\ h[Len(parts)] = k + Len(FlattenSeq(parts))
  /\ \A i \in 1 .. Len(parts) : Segment(fields, h[i - 1], parts[i]) /\ h[i] = h[i - 1] + Len(parts[i])

LEMMA PartsPlaced ==
  ASSUME NEW parts \in Seq(Seq(TheFields)), NEW fields, NEW k, Segment(fields, k, FlattenSeq(parts))
  PROVE  \E h : Places(h, fields, k, parts)
<1> DEFINE n == Len(parts)  all == FlattenSeq(parts)
<1>1. PICK g : Joins(g, TheFields, parts)
  BY JoinedExists
<1>2. all = g[n]
  BY <1>1, FlattenIsJoined
<1>3. Segment(fields, k, g[n])
  BY <1>2
<1>4. n \in Nat /\ k \in Nat /\ \A i \in 0 .. n : Len(g[i]) \in Nat
  <2>1. \A i \in 0 .. n : g[i] \in Seq(TheFields)
    BY <1>1 DEF Joins
  <2>2. \A i \in 0 .. n : Len(g[i]) \in Nat
    BY <2>1, LenProperties
  <2>3. k \in Nat
    BY <1>3 DEF Segment
  <2>4. n \in Nat
    OBVIOUS
  <2> QED
    BY <2>2, <2>3, <2>4
<1> DEFINE h == [i \in 0 .. n |-> k + Len(g[i])]
<1>5. h \in [0 .. n -> Nat]
  BY <1>4
<1>6. h[0] = k
  <2>1. Len(g[0]) = 0 /\ 0 \in 0 .. n
    BY <1>1, <1>4 DEF Joins
  <2> QED
    BY <1>4, <2>1
<1>7. h[n] = k + Len(all)
  <2>1. n \in 0 .. n
    BY <1>4
  <2> HIDE DEF all
  <2> QED
    BY <1>2, <2>1
<1>8. ASSUME NEW i \in 1 .. n
      PROVE  Segment(fields, h[i - 1], parts[i]) /\ h[i] = h[i - 1] + Len(parts[i])
  <2>1. i \in 0 .. n /\ i - 1 \in 0 .. n /\ i \in 1 .. Len(parts)
    BY <1>4
  <2>2. h[i] = k + Len(g[i]) /\ h[i - 1] = k + Len(g[i - 1])
    BY <2>1
  <2> DEFINE a == g[i - 1]  b == parts[i]  c == g[i]
  <2>3. Follow(a, b, c)
    BY <1>1, <2>1, JoinedOneMore
  <2>4. Segment(fields, k + Len(a), b)
    BY <1>1, <1>3, <2>1, SegmentOfJoined
  <2> HIDE DEF h, a, b, c
  <2>5. Len(a) \in Nat /\ Len(b) \in Nat /\ Len(c) = Len(a) + Len(b)
    BY <2>3 DEF Follow
  <2>6. k + Len(c) = (k + Len(a)) + Len(b)
    BY <1>4, <2>5
  <2>7. h[i] = k + Len(c) /\ h[i - 1] = k + Len(a)
    BY <2>2 DEF a, c
  <2>8. Segment(fields, h[i - 1], b) /\ h[i] = h[i - 1] + Len(b)
    BY <2>4, <2>6, <2>7
  <2> QED
    BY <2>8 DEF b
<1> HIDE DEF h
<1>9. Places(h, fields, k, parts)
  BY <1>5, <1>6, <1>7, <1>8 DEF Places
<1> QED
  BY <1>9

LEMMA EvenPartsAreRead ==
  ASSUME NEW fields, NEW buf, NEW g, Laid(fields, buf, g), NEW k,
         NEW parts \in Seq(Seq(TheFields)), Segment(fields, k, FlattenSeq(parts)),
         NEW types, Len(types) \in Nat,
         \A i \in 1 .. Len(parts) :
           Len(types) = Len(parts[i]) /\ \A j \in 1 .. Len(parts[i]) : Reads(types[j], parts[i][j])
  PROVE  Repeated(ReadUpTo(fields, buf, g, k), Len(parts), types)
           = ReadUpTo(fields, buf, g, k + Len(FlattenSeq(parts)))
<1> DEFINE n == Len(parts)  c == Len(types)  l == Len(FlattenSeq(parts))
<1>1. PICK h : Places(h, fields, k, parts)
  BY PartsPlaced
<1>2. /\ h \in [0 .. n -> Nat] /\ h[0] = k /\ h[n] = k + l
      /\ \A i \in 1 .. n : Segment(fields, h[i - 1], parts[i]) /\ h[i] = h[i - 1] + Len(parts[i])
  BY <1>1 DEF Places
<1>3. n \in Nat /\ c \in Nat /\ \A i \in 1 .. n : Len(parts[i]) = c
  OBVIOUS
<1>4. k \in Nat
  BY DEF Segment
<1>5. ASSUME NEW i \in 1 .. n
      PROVE  AreRead(fields, h[i - 1], types)
  <2> DEFINE at == h[i - 1]  part == parts[i]
  <2>1. Segment(fields, at, part)
    BY <1>2
  <2>2. Len(types) = Len(part) /\ \A j \in 1 .. Len(part) : Reads(types[j], part[j])
    OBVIOUS
  <2> HIDE DEF at, part
  <2>3. AreRead(fields, at, types)
    BY <2>1, <2>2, SegmentIsRead
  <2> QED
    BY <2>3 DEF at
<1> HIDE DEF n, c, l
<1>6. \A i \in 0 .. n : h[i] = k + i * c
  <2> DEFINE Good == {i \in Nat : i <= n => h[i] = k + i * c}
  <2>1. 0 \in Good
    BY <1>2, <1>3, <1>4
  <2>2. ASSUME NEW i \in Nat, i \in Good PROVE i + 1 \in Good
    <3> SUFFICES ASSUME i + 1 <= n PROVE h[i + 1] = k + (i + 1) * c
      OBVIOUS
    <3>1. i + 1 \in 1 .. n /\ (i + 1) - 1 = i /\ h[i] = k + i * c
      BY <1>3, <2>2
    <3>2. h[i + 1] = h[i] + c
      BY <1>2, <1>3, <3>1
    <3>3. (i + 1) * c = i * c + c /\ i * c \in Nat
      BY <1>3
    <3> QED
      BY <1>3, <1>4, <3>1, <3>2, <3>3
  <2> HIDE DEF Good
  <2>3. ASSUME NEW i \in 0 .. n PROVE h[i] = k + i * c
    <3>1. i \in Nat /\ i <= n
      BY <1>3
    <3>2. i \in Good
      BY <2>1, <2>2, <3>1, Rounds!NumbersInduce
    <3> QED
      BY <3>1, <3>2 DEF Good
  <2> QED
    BY <2>3
<1>7. \A i \in 1 .. n : AreRead(fields, k + (i - 1) * c, types)
  <2>1. \A i \in 1 .. n : i - 1 \in 0 .. n
    BY <1>3
  <2> QED
    BY <1>5, <1>6, <2>1
<1>8. n \in 0 .. n
  BY <1>3
<1>9. k + n * c = k + l
  BY <1>2, <1>6, <1>8
<1>10. Repeats(fields, k, n, types) /\ Behind(k, n, types) = k + n * c
  BY <1>3, <1>4, <1>7 DEF Repeats, Behind, c
<1>11. Repeated(ReadUpTo(fields, buf, g, k), n, types)
         = ReadUpTo(fields, buf, g, Behind(k, n, types))
  BY <1>10, ReadsRepeatedly
<1> QED
  BY <1>9, <1>10, <1>11 DEF n, l

\* Two numbers one behind the other.
LEMMA PairIsFields ==
  ASSUME NEW a \in TheFields, NEW b \in TheFields
  PROVE  <<a, b>> \in Seq(TheFields) /\ Len(<<a, b>>) = 2
OBVIOUS

LEMMA PairIsRead ==
  ASSUME NEW a \in TheFields, NEW b \in TheFields, NEW s, NEW t, Reads(s, a), Reads(t, b),
         NEW fields, NEW buf, NEW g, Laid(fields, buf, g), NEW k, Segment(fields, k, <<a, b>>)
  PROVE  MoreOf(ReadUpTo(fields, buf, g, k), <<s, t>>) = ReadUpTo(fields, buf, g, k + 2)
<1> DEFINE part == <<a, b>>  types == <<s, t>>
<1>0. Len(types) = Len(part)
  OBVIOUS
<1>1. Len(part) = 2
  OBVIOUS
<1>2. \A j \in 1 .. 2 : Reads(types[j], part[j])
  OBVIOUS
<1> HIDE DEF part, types
<1>3. Segment(fields, k, part)
  BY DEF part
<1>4. \A j \in 1 .. Len(part) : Reads(types[j], part[j])
  BY <1>1, <1>2
<1>5. MoreOf(ReadUpTo(fields, buf, g, k), types) = ReadUpTo(fields, buf, g, k + Len(part))
  BY <1>0, <1>3, <1>4, PartIsRead
<1> QED
  BY <1>1, <1>5 DEF types

LEMMA SharesVerifiedIsRead ==
  ASSUME NEW m \in MessagesOf("shares_verified")
  PROVE  /\ shares_verified_fields(m) \in Seq(TheFields) /\ Len(shares_verified_fields(m)) # 0
         /\ \A fields, buf, g, k :
              Laid(fields, buf, g) /\ Segment(fields, k, shares_verified_fields(m)) =>
                read_shares_verified(ReadUpTo(fields, buf, g, k))
                  = ReadUpTo(fields, buf, g, k + Len(shares_verified_fields(m)))
<1> DEFINE a == Field(Uint32, m.trustee_index)  b == Field(Bool, m.verified)
<1>1. m.trustee_index \in Unsigned(Uint32) /\ m.verified \in {0, 1}
      /\ shares_verified_fields(m) = <<a, b>>
  <2>1. m \in [trustee_index : Unsigned(Uint32), verified : {0, 1}]
    BY DEF MessagesOf
  <2> QED
    BY <2>1 DEF shares_verified_fields
<1>2. a \in TheFields /\ b \in TheFields
  BY <1>1, FieldsOfTypes
<1>3. Reads(Uint32, a) /\ Reads(Bool, b)
  BY DEF Reads, Field
<1> HIDE DEF a, b
<1> QED
  BY <1>1, <1>2, <1>3, PairIsFields, PairIsRead DEF read_shares_verified

LEMMA JointPublicKeyIsRead ==
  ASSUME NEW m \in MessagesOf("joint_public_key")
  PROVE  /\ joint_public_key_fields(m) \in Seq(TheFields) /\ Len(joint_public_key_fields(m)) # 0
         /\ \A fields, buf, g, k :
              Laid(fields, buf, g) /\ Segment(fields, k, joint_public_key_fields(m)) =>
                read_joint_public_key(ReadUpTo(fields, buf, g, k))
                  = ReadUpTo(fields, buf, g, k + Len(joint_public_key_fields(m)))
<1> DEFINE a == Field(Uint32, m.num_trustees)  b == Field(Uint4096, m.public_key)
<1>1. m.num_trustees \in Unsigned(Uint32) /\ m.public_key \in Unsigned(Uint4096)
      /\ joint_public_key_fields(m) = <<a, b>>
  <2>1. m \in [num_trustees : Unsigned(Uint32), public_key : Unsigned(Uint4096)]
    BY DEF MessagesOf
  <2> QED
    BY <2>1 DEF joint_public_key_fields
<1>2. a \in TheFields /\ b \in TheFields
  BY <1>1, FieldsOfTypes, NumbersAreFields
<1>3. Reads(Uint32, a) /\ Reads(Uint4096, b)
  BY DEF Reads, Field
<1> HIDE DEF a, b
<1> QED
  BY <1>1, <1>2, <1>3, PairIsFields, PairIsRead DEF read_joint_public_key

LEMMA BallotIdentifierIsRead ==
  ASSUME NEW m \in MessagesOf("ballot_identifier")
  PROVE  /\ ballot_identifier_fields(m) \in Seq(TheFields) /\ Len(ballot_identifier_fields(m)) # 0
         /\ \A fields, buf, g, k :
              Laid(fields, buf, g) /\ Segment(fields, k, ballot_identifier_fields(m)) =>
                read_ballot_identifier(ReadUpTo(fields, buf, g, k))
                  = ReadUpTo(fields, buf, g, k + Len(ballot_identifier_fields(m)))
<1> DEFINE f == Field(Uint64, m)
<1>1. m \in Unsigned(Uint64) /\ ballot_identifier_fields(m) = <<f>>
  BY DEF MessagesOf, ballot_identifier_fields
<1>2. f \in TheFields /\ Reads(Uint64, f)
  BY <1>1, FieldsOfTypes DEF Reads, Field
<1> HIDE DEF f
<1>3. <<f>> \in Seq(TheFields) /\ Len(<<f>>) = 1
  BY <1>2, OneField
<1> QED
  BY <1>1, <1>2, <1>3, OneIsRead DEF read_ballot_identifier

LEMMA FragmentsRequestIsRead ==
  ASSUME NEW m \in MessagesOf("decryption_fragments_request")
  PROVE  /\ decryption_fragments_request_fields(m) \in Seq(TheFields)
         /\ Len(decryption_fragments_request_fields(m)) # 0
         /\ \A fields, buf, g, k :
              Laid(fields, buf, g) /\ Segment(fields, k, decryption_fragments_request_fields(m)) =>
                read_decryption_fragments_request(ReadUpTo(fields, buf, g, k))
                  = ReadUpTo(fields, buf, g, k + Len(decryption_fragments_request_fields(m)))
<1> DEFINE V == {0, 1}  values == m.requested
           F == decryption_fragments_request_fields(m)
<1>1. values \in Lists(V) /\ F = Counted(Bool, values)
  <2>1. m \in [requested : Lists({0, 1})]
    BY DEF MessagesOf
  <2> QED
    BY <2>1 DEF decryption_fragments_request_fields, Counted
<1> HIDE DEF values, F
<1>2. \A v \in V : Field(Bool, v) \in TheFields
  BY FieldsOfTypes
<1> HIDE DEF V
<1>3. F \in Seq(TheFields) /\ Len(F) # 0
  <2> DEFINE c == Counted(Bool, values)
  <2>1. c \in Seq(TheFields) /\ Len(c) = 1 + Len(values) /\ Len(values) \in Nat
    BY <1>1, <1>2, CountedIsFields
  <2> HIDE DEF c
  <2>2. Len(c) # 0
    BY <2>1
  <2> QED
    BY <1>1, <2>1, <2>2 DEF c
<1>4. ASSUME NEW fields, NEW buf, NEW g, NEW k, Laid(fields, buf, g), Segment(fields, k, F)
      PROVE  read_decryption_fragments_request(ReadUpTo(fields, buf, g, k))
               = ReadUpTo(fields, buf, g, k + Len(F))
  <2> DEFINE t == More(ReadUpTo(fields, buf, g, k), Uint32)
  <2>0. read_decryption_fragments_request(ReadUpTo(fields, buf, g, k))
          = MoreOf(t, Times(LastValue(t), Bool))
    BY DEF read_decryption_fragments_request
  <2>1. LastValue(t) = Len(values)
        /\ MoreOf(t, Times(Len(values), Bool))
             = ReadUpTo(fields, buf, g, k + Len(Counted(Bool, values)))
    BY <1>1, <1>2, <1>4, CountedIsRead
  <2> HIDE DEF t
  <2> QED
    BY <1>1, <2>0, <2>1
<1> QED
  BY <1>3, <1>4 DEF F

LEMMA SharesGeneratedIsRead ==
  ASSUME NEW m \in MessagesOf("shares_generated")
  PROVE  /\ shares_generated_fields(m) \in Seq(TheFields) /\ Len(shares_generated_fields(m)) # 0
         /\ \A fields, buf, g :
              Laid(fields, buf, g) /\ Segment(fields, 0, shares_generated_fields(m)) =>
                read_shares_generated(ReadUpTo(fields, buf, g, 0))
                  = ReadUpTo(fields, buf, g, 0 + Len(shares_generated_fields(m)))
<1> DEFINE x == m.shares  a == Field(Uint32, Len(x))  b == Field(Uint32, m.trustee_index)
           A == <<a, b>>  B == Each(EncryptedKeyShare, x)
<1>1. /\ m.trustee_index \in Unsigned(Uint32) /\ x \in Seq(Unsigned(EncryptedKeyShare)) /\ Len(x) \in Unsigned(Uint32)
      /\ shares_generated_fields(m) = A \o B
  <2>1. m \in [trustee_index : Unsigned(Uint32), shares : Lists(Unsigned(EncryptedKeyShare))]
    BY DEF MessagesOf
  <2> QED
    BY <2>1 DEF shares_generated_fields, Lists
<1>2. a \in TheFields /\ b \in TheFields /\ Len(x) \in Nat
  BY <1>1, FieldsOfTypes
<1>3. Reads(Uint32, a) /\ Reads(Uint32, b) /\ a.value = Len(x)
  BY DEF Reads, Field
<1>4. \A v \in Unsigned(EncryptedKeyShare) : Field(EncryptedKeyShare, v) \in TheFields
  BY NumbersAreFields
<1> HIDE DEF x
<1>5. B \in Seq(TheFields) /\ Len(B) = Len(x)
  BY <1>1, <1>4, EachIsFields
<1> HIDE DEF a, b
<1>6. A \in Seq(TheFields) /\ Len(A) = 2 /\ A[1] = a
  BY <1>2
<1> HIDE DEF A, B
<1>7. A \o B \in Seq(TheFields) /\ Len(A \o B) # 0
  <2>1. A \o B \in Seq(TheFields) /\ Len(A \o B) = Len(A) + Len(B)
    BY <1>5, <1>6, TwoParts
  <2> QED
    BY <1>2, <1>5, <1>6, <2>1
<1>8. ASSUME NEW fields, NEW buf, NEW g, Laid(fields, buf, g), Segment(fields, 0, A \o B)
      PROVE  read_shares_generated(ReadUpTo(fields, buf, g, 0))
               = ReadUpTo(fields, buf, g, 0 + Len(A \o B))
  <2> DEFINE r == ReadUpTo(fields, buf, g, 0)  s == MoreOf(r, <<Uint32, Uint32>>)  h == 2
  <2>1. Parted(fields, 0, A, B)
    BY <1>5, <1>6, <1>8, TwoSegments
  <2>2. Segment(fields, 0, A) /\ Segment(fields, h, B) /\ 0 + Len(A \o B) = h + Len(B)
    BY <1>6, <2>1 DEF Parted
  <2>3. s = ReadUpTo(fields, buf, g, h)
    <3>1. Segment(fields, 0, <<a, b>>)
      BY <2>2 DEF A
    <3>2. s = ReadUpTo(fields, buf, g, 0 + 2)
      BY <1>2, <1>3, <1>8, <3>1, PairIsRead
    <3> QED
      BY <3>2
  <2>4. Value(s, 1) = Len(x)
    <3>1. 2 \in 0 .. Len(fields) /\ fields[1] = a
      <4>1. Len(fields) \in Nat /\ 0 + 2 <= Len(fields) /\ \A i \in 1 .. 2 : fields[0 + i] = A[i]
        BY <1>6, <2>2 DEF Segment
      <4> QED
        BY <1>6, <4>1
    <3>2. Value(ReadUpTo(fields, buf, g, 2), 1) = fields[1].value
      BY <1>8, <3>1, ValuesRead
    <3> QED
      BY <1>3, <2>3, <3>1, <3>2
  <2> HIDE DEF h, s
  <2>5. MoreOf(ReadUpTo(fields, buf, g, h), Times(Len(x), EncryptedKeyShare))
          = ReadUpTo(fields, buf, g, h + Len(x))
    BY <1>1, <1>4, <1>8, <2>2, ManyAreRead DEF B
  <2>6. read_shares_generated(r) = MoreOf(s, Times(Value(s, 1), EncryptedKeyShare))
    BY DEF read_shares_generated, s
  <2> QED
    BY <1>5, <2>2, <2>3, <2>4, <2>5, <2>6
<1> QED
  BY <1>1, <1>7, <1>8

LEMMA AllSharesIsRead ==
  ASSUME NEW m \in MessagesOf("all_shares_received")
  PROVE  /\ all_shares_received_fields(m) \in Seq(TheFields)
         /\ Len(all_shares_received_fields(m)) # 0
         /\ \A fields, buf, g, k :
              Laid(fields, buf, g) /\ Segment(fields, k, all_shares_received_fields(m)) =>
                read_all_shares_received(ReadUpTo(fields, buf, g, k))
                  = ReadUpTo(fields, buf, g, k + Len(all_shares_received_fields(m)))
<1> DEFINE x == m.shares  n == Len(x)  f == Field(Uint32, n)  A == <<f>>
           parts == [i \in 1 .. n |-> Each(EncryptedKeyShare, x[i])]  B == FlattenSeq(parts)
           types == Times(n, EncryptedKeyShare)
<1>1. /\ n \in Unsigned(Uint32) /\ all_shares_received_fields(m) = A \o B
      /\ n \in Nat /\ \A i \in 1 .. n : x[i] \in Seq(Unsigned(EncryptedKeyShare)) /\ Len(x[i]) = n
  <2>1. m \in {s \in [shares : Lists(Seq(Unsigned(EncryptedKeyShare)))] : \A i \in 1 .. Len(s.shares) : Len(s.shares[i]) = Len(s.shares)}
    BY DEF MessagesOf
  <2>2. x \in Lists(Seq(Unsigned(EncryptedKeyShare))) /\ \A i \in 1 .. n : Len(x[i]) = n
    BY <2>1
  <2>3. x \in Seq(Seq(Unsigned(EncryptedKeyShare))) /\ n \in Unsigned(Uint32)
    BY <2>2 DEF Lists
  <2>4. n \in Nat /\ \A i \in 1 .. n : x[i] \in Seq(Unsigned(EncryptedKeyShare))
    <3> HIDE DEF x
    <3> QED
      BY <2>3
  <2> QED
    BY <2>2, <2>3, <2>4 DEF all_shares_received_fields
<1>2. f \in TheFields /\ Reads(Uint32, f) /\ f.value = n
  <2> HIDE DEF n
  <2> QED
    BY <1>1, FieldsOfTypes DEF Reads, Field
<1>3. \A v \in Unsigned(EncryptedKeyShare) : Field(EncryptedKeyShare, v) \in TheFields
  BY NumbersAreFields
<1> HIDE DEF x, n, f, types
<1>4. A \in Seq(TheFields) /\ Len(A) = 1
  BY <1>2, OneField
<1>5. types = [j \in 1 .. n |-> EncryptedKeyShare] /\ Len(types) = n
  <2>1. types = [j \in 1 .. n |-> EncryptedKeyShare]
    BY DEF types, Times
  <2>2. types \in [1 .. n -> {EncryptedKeyShare}]
    BY <2>1
  <2> QED
    BY <1>1, <2>1, <2>2, AsSequence
<1>6. ASSUME NEW i \in 1 .. n
      PROVE  /\ parts[i] \in Seq(TheFields) /\ Len(parts[i]) = n
             /\ \A j \in 1 .. n : Reads(types[j], parts[i][j])
  <2> DEFINE y == x[i]  e == Each(EncryptedKeyShare, y)
  <2>1. y \in Seq(Unsigned(EncryptedKeyShare)) /\ Len(y) = n /\ parts[i] = e
    BY <1>1
  <2> HIDE DEF y
  <2>2. /\ e \in Seq(TheFields) /\ Len(e) = Len(y)
        /\ \A j \in 1 .. Len(y) : e[j] = Field(EncryptedKeyShare, y[j])
    BY <1>3, <2>1, EachIsFields
  <2> HIDE DEF e, parts
  <2>3. \A j \in 1 .. n : Reads(types[j], e[j])
    BY <1>5, <2>1, <2>2 DEF Reads, Field
  <2> QED
    BY <2>1, <2>2, <2>3
<1>7. parts \in Seq(Seq(TheFields)) /\ Len(parts) = n
  <2>1. parts = [i \in 1 .. n |-> parts[i]]
    OBVIOUS
  <2> HIDE DEF parts
  <2>2. parts \in [1 .. n -> Seq(TheFields)]
    BY <1>6, <2>1
  <2> QED
    BY <1>1, <2>2, AsSequence
<1> HIDE DEF parts
<1>8. B \in Seq(TheFields)
  <2>1. PICK h : Joins(h, TheFields, parts)
    BY <1>7, JoinedExists
  <2> QED
    BY <1>7, <2>1, FlattenIsJoined
<1>9. A \o B \in Seq(TheFields) /\ Len(A \o B) # 0
  <2> HIDE DEF A, B
  <2>1. A \o B \in Seq(TheFields) /\ Len(A \o B) = Len(A) + Len(B) /\ Len(B) \in Nat
    BY <1>4, <1>8, TwoParts
  <2> QED
    BY <1>4, <2>1
<1>10. ASSUME NEW fields, NEW buf, NEW g, NEW k, Laid(fields, buf, g), Segment(fields, k, A \o B)
       PROVE  read_all_shares_received(ReadUpTo(fields, buf, g, k))
                = ReadUpTo(fields, buf, g, k + Len(A \o B))
  <2> DEFINE r == ReadUpTo(fields, buf, g, k)  t == More(r, Uint32)  h == k + 1
  <2>1. Segment(fields, k, A) /\ Segment(fields, h, B) /\ k + Len(A \o B) = h + Len(B)
    <3> HIDE DEF A, B
    <3>1. Parted(fields, k, A, B)
      BY <1>4, <1>8, <1>10, TwoSegments
    <3> QED
      BY <1>4, <3>1 DEF Parted
  <2>2. t = ReadUpTo(fields, buf, g, h) /\ LastValue(t) = n
    BY <1>2, <1>10, <2>1, OneIsRead
  <2>3. Len(types) \in Nat /\ \A i \in 1 .. Len(parts) :
          Len(types) = Len(parts[i]) /\ \A j \in 1 .. Len(parts[i]) : Reads(types[j], parts[i][j])
    BY <1>1, <1>5, <1>6, <1>7
  <2> HIDE DEF h, t
  <2>4. Repeated(ReadUpTo(fields, buf, g, h), Len(parts), types)
          = ReadUpTo(fields, buf, g, h + Len(FlattenSeq(parts)))
    <3>1. Segment(fields, h, FlattenSeq(parts))
      BY <2>1
    <3> QED
      BY <1>7, <1>10, <2>3, <3>1, EvenPartsAreRead
  <2>5. read_all_shares_received(r) = Repeated(t, LastValue(t), Times(LastValue(t), EncryptedKeyShare))
    BY DEF read_all_shares_received, t
  <2> HIDE DEF r
  <2>6. read_all_shares_received(r) = ReadUpTo(fields, buf, g, h + Len(B))
    BY <1>7, <2>2, <2>4, <2>5 DEF types
  <2> QED
    BY <2>1, <2>6 DEF r
<1> QED
  BY <1>1, <1>9, <1>10

LEMMA TrusteeStateIsRead ==
  ASSUME NEW m \in MessagesOf("trustee_state")
  PROVE  /\ trustee_state_fields(m) \in Seq(TheFields) /\ Len(trustee_state_fields(m)) # 0
         /\ \A fields, buf, g, k :
              Laid(fields, buf, g) /\ Segment(fields, k, trustee_state_fields(m)) =>
                read_trustee_state(ReadUpTo(fields, buf, g, k), Len(m.my_key_shares))
                  = ReadUpTo(fields, buf, g, k + Len(trustee_state_fields(m)))
<1> DEFINE f == Field(Uint32, m.index)  A == <<f>>  B == private_key_fields(m.private_key)
           C == rsa_private_key_fields(m.rsa_private_key)
           x == m.my_key_shares  D == Each(EncryptedKeyShare, x)  E == (A \o B) \o C
<1>1. /\ m.index \in Unsigned(Uint32) /\ m.private_key \in PrivateKeys
      /\ m.rsa_private_key \in RsaPrivateKeys /\ x \in Seq(Unsigned(EncryptedKeyShare))
      /\ trustee_state_fields(m) = E \o D
  <2>1. m \in [index : Unsigned(Uint32), private_key : PrivateKeys,
               rsa_private_key : RsaPrivateKeys, my_key_shares : Seq(Unsigned(EncryptedKeyShare))]
    BY DEF MessagesOf, PrivateKeys, RsaPrivateKeys
  <2> QED
    BY <2>1 DEF trustee_state_fields
<1>2. f \in TheFields /\ Reads(Uint32, f)
  BY <1>1, FieldsOfTypes DEF Reads, Field
<1>3. B \in Seq(TheFields)
  BY <1>1, PrivateKeyIsRead
<1>4. C \in Seq(TheFields)
  BY <1>1, RsaPrivateKeyIsRead
<1>5. \A v \in Unsigned(EncryptedKeyShare) : Field(EncryptedKeyShare, v) \in TheFields
  BY NumbersAreFields
<1> HIDE DEF f, x
<1>6. D \in Seq(TheFields) /\ Len(D) = Len(x)
  BY <1>1, <1>5, EachIsFields
<1>7. A \in Seq(TheFields) /\ Len(A) = 1
  BY <1>2, OneField
<1> HIDE DEF A, B, C, D
<1>8. E \in Seq(TheFields) /\ Len(E) # 0
  <2>1. /\ E \in Seq(TheFields) /\ Len(B) \in Nat /\ Len(C) \in Nat
        /\ Len(E) = (Len(A) + Len(B)) + Len(C)
    BY <1>3, <1>4, <1>7, ThreeParts
  <2> QED
    BY <1>7, <2>1
<1>9. E \o D \in Seq(TheFields) /\ Len(E \o D) # 0
  <2> HIDE DEF E
  <2>1. E \o D \in Seq(TheFields) /\ Len(E \o D) = Len(E) + Len(D) /\ Len(E) \in Nat /\ Len(D) \in Nat
    BY <1>6, <1>8, TwoParts
  <2> QED
    BY <1>8, <2>1
<1>10. ASSUME NEW fields, NEW buf, NEW g, NEW k, Laid(fields, buf, g), Segment(fields, k, E \o D)
       PROVE  read_trustee_state(ReadUpTo(fields, buf, g, k), Len(x))
                = ReadUpTo(fields, buf, g, k + Len(E \o D))
  <2>1. Parted(fields, k, E, D)
    <3> HIDE DEF E
    <3> QED
      BY <1>6, <1>8, <1>10, TwoSegments
  <2>2. Segment(fields, k, E)
    BY <2>1 DEF Parted
  <2>3. PartedInThree(fields, k, A, B, C)
    BY <1>3, <1>4, <1>7, <2>2, ThreeSegments
  <2> DEFINE a == k + 1  b == a + Len(B)  c == b + Len(C)
  <2>4. /\ Segment(fields, k, A) /\ Segment(fields, a, B) /\ Segment(fields, b, C)
        /\ k + Len(E) = c
    BY <1>7, <2>3 DEF PartedInThree
  <2>5. Segment(fields, c, D) /\ k + Len(E \o D) = c + Len(D)
    <3> HIDE DEF E, c
    <3> QED
      BY <2>1, <2>4 DEF Parted
  <2> HIDE DEF E
  <2>6. More(ReadUpTo(fields, buf, g, k), Uint32) = ReadUpTo(fields, buf, g, a)
    BY <1>2, <1>10, <2>4, OneIsRead DEF A
  <2> HIDE DEF a
  <2>7. read_private_key(ReadUpTo(fields, buf, g, a)) = ReadUpTo(fields, buf, g, b)
    BY <1>1, <1>10, <2>4, PrivateKeyIsRead DEF B
  <2> HIDE DEF b
  <2>8. read_rsa_private_key(ReadUpTo(fields, buf, g, b)) = ReadUpTo(fields, buf, g, c)
    BY <1>1, <1>10, <2>4, RsaPrivateKeyIsRead DEF C
  <2> HIDE DEF c
  <2>9. MoreOf(ReadUpTo(fields, buf, g, c), Times(Len(x), EncryptedKeyShare))
          = ReadUpTo(fields, buf, g, c + Len(x))
    BY <1>1, <1>5, <1>10, <2>5, ManyAreRead DEF D
  <2> QED
    BY <1>6, <2>5, <2>6, <2>7, <2>8, <2>9 DEF read_trustee_state
<1> QED
  BY <1>1, <1>9, <1>10 DEF x

LEMMA EncryptionsAreRead ==
  ASSUME NEW es \in Seq(Encryptions)
  PROVE  /\ encryptions_fields(es) \in Seq(TheFields)
         /\ \A fields, buf, g, k :
              Laid(fields, buf, g) /\ Segment(fields, k, encryptions_fields(es)) =>
                Repeated(ReadUpTo(fields, buf, g, k), Len(es), EncryptionTypes)
                  = ReadUpTo(fields, buf, g, k + Len(encryptions_fields(es)))
<1> DEFINE n == Len(es)  parts == [i \in 1 .. n |-> encryption_fields(es[i])]
           types == EncryptionTypes
<1>1. n \in Nat /\ encryptions_fields(es) = FlattenSeq(parts)
      /\ \A i \in 1 .. n : es[i] \in Encryptions
  BY DEF encryptions_fields
<1>2. Len(types) = 2 /\ types[1] = Uint4096 /\ types[2] = Uint4096
  BY DEF EncryptionTypes
<1>3. \A v \in Unsigned(Uint4096) : Field(Uint4096, v) \in TheFields
  BY NumbersAreFields
<1> HIDE DEF types
<1>4. ASSUME NEW i \in 1 .. n
      PROVE  /\ parts[i] \in Seq(TheFields) /\ Len(parts[i]) = 2
             /\ \A j \in 1 .. 2 : Reads(types[j], parts[i][j])
  <2> DEFINE y == <<es[i].nonce_encoding, es[i].message_encoding>>  e == Each(Uint4096, y)
  <2>1. es[i].nonce_encoding \in Unsigned(Uint4096) /\ es[i].message_encoding \in Unsigned(Uint4096)
    BY <1>1 DEF Encryptions
  <2>2. y \in Seq(Unsigned(Uint4096)) /\ Len(y) = 2
    BY <2>1
  <2>3. parts[i] = e
    BY DEF encryption_fields
  <2> HIDE DEF y, parts
  <2>4. e \in Seq(TheFields)
    BY <1>3, <2>2, EachIsFields
  <2>5. Len(e) = Len(y)
    BY <1>3, <2>2, EachIsFields
  <2>6. \A j \in 1 .. Len(y) : e[j] = Field(Uint4096, y[j])
    BY <1>3, <2>2, EachIsFields
  <2> HIDE DEF e
  <2>7. ASSUME NEW j \in 1 .. 2 PROVE Reads(types[j], e[j])
    <3>1. e[j] = Field(Uint4096, y[j]) /\ types[j] = Uint4096
      BY <1>2, <2>2, <2>6
    <3> QED
      BY <3>1 DEF Reads, Field
  <2>8. Len(e) = 2
    BY <2>2, <2>5
  <2> QED
    BY <2>3, <2>4, <2>7, <2>8
<1>5. parts \in Seq(Seq(TheFields)) /\ Len(parts) = n
  <2>1. parts = [i \in 1 .. n |-> parts[i]]
    OBVIOUS
  <2> HIDE DEF parts, n
  <2>2. parts \in [1 .. n -> Seq(TheFields)]
    BY <1>4, <2>1
  <2> QED
    BY <1>1, <2>2, AsSequence
<1> HIDE DEF parts, n
<1>6. FlattenSeq(parts) \in Seq(TheFields)
  <2>1. PICK h : Joins(h, TheFields, parts)
    BY <1>5, JoinedExists
  <2> QED
    BY <1>5, <2>1, FlattenIsJoined
<1>7. ASSUME NEW fields, NEW buf, NEW g, NEW k, Laid(fields, buf, g),
             Segment(fields, k, FlattenSeq(parts))
      PROVE  Repeated(ReadUpTo(fields, buf, g, k), n, types)
               = ReadUpTo(fields, buf, g, k + Len(FlattenSeq(parts)))
  <2>1. \A i \in 1 .. Len(parts) :
          Len(types) = Len(parts[i]) /\ \A j \in 1 .. Len(parts[i]) : Reads(types[j], parts[i][j])
    BY <1>2, <1>4, <1>5
  <2>2. Len(types) \in Nat
    BY <1>2
  <2>3. Repeated(ReadUpTo(fields, buf, g, k), Len(parts), types)
          = ReadUpTo(fields, buf, g, k + Len(FlattenSeq(parts)))
    BY <1>5, <1>7, <2>1, <2>2, EvenPartsAreRead
  <2> QED
    BY <1>5, <2>3
<1> QED
  BY <1>1, <1>6, <1>7 DEF n, types

\* Two numbers, the second of which tells how many encryptions are behind them.
LEMMA NumbersAndEncryptionsAreRead ==
  ASSUME NEW es \in Seq(Encryptions), NEW a \in TheFields, NEW b \in TheFields, b.value = Len(es),
         NEW s, NEW t, Reads(s, a), Reads(t, b)
  PROVE  LET part == <<a, b>> \o encryptions_fields(es)
         IN  /\ part \in Seq(TheFields) /\ Len(part) # 0
             /\ \A fields, buf, g, k : Laid(fields, buf, g) /\ Segment(fields, k, part) =>
                  LET r == MoreOf(ReadUpTo(fields, buf, g, k), <<s, t>>)
                  IN  Repeated(r, LastValue(r), EncryptionTypes)
                        = ReadUpTo(fields, buf, g, k + Len(part))
<1> DEFINE A == <<a, b>>  B == encryptions_fields(es)
<1>1. A \in Seq(TheFields) /\ Len(A) = 2 /\ A[2] = b
  OBVIOUS
<1>2. B \in Seq(TheFields)
  BY EncryptionsAreRead
<1> HIDE DEF A, B
<1>3. A \o B \in Seq(TheFields) /\ Len(A \o B) # 0
  <2>1. A \o B \in Seq(TheFields) /\ Len(A \o B) = Len(A) + Len(B) /\ Len(B) \in Nat
    BY <1>1, <1>2, TwoParts
  <2> QED
    BY <1>1, <2>1
<1>4. ASSUME NEW fields, NEW buf, NEW g, NEW k, Laid(fields, buf, g), Segment(fields, k, A \o B)
      PROVE  LET r == MoreOf(ReadUpTo(fields, buf, g, k), <<s, t>>)
             IN  Repeated(r, LastValue(r), EncryptionTypes) = ReadUpTo(fields, buf, g, k + Len(A \o B))
  <2> DEFINE r == MoreOf(ReadUpTo(fields, buf, g, k), <<s, t>>)  h == k + 2
  <2>1. Parted(fields, k, A, B)
    BY <1>1, <1>2, <1>4, TwoSegments
  <2>2. Segment(fields, k, A) /\ Segment(fields, h, B) /\ k + Len(A \o B) = h + Len(B)
    BY <1>1, <2>1 DEF Parted
  <2>3. r = ReadUpTo(fields, buf, g, h)
    <3>1. Segment(fields, k, <<a, b>>)
      BY <2>2 DEF A
    <3> QED
      BY <1>4, <3>1, PairIsRead
  <2>4. h \in 0 .. Len(fields) /\ h # 0 /\ fields[h] = b
    <3>1. k \in Nat /\ Len(fields) \in Nat /\ k + 2 <= Len(fields) /\ \A i \in 1 .. 2 : fields[k + i] = A[i]
      BY <1>1, <2>2 DEF Segment
    <3> QED
      BY <1>1, <3>1
  <2> HIDE DEF h, r
  <2>5. LastValue(ReadUpTo(fields, buf, g, h)) = fields[h].value
    BY <1>4, <2>4, ValuesRead
  <2>6. Repeated(ReadUpTo(fields, buf, g, h), Len(es), EncryptionTypes)
          = ReadUpTo(fields, buf, g, h + Len(B))
    BY <1>4, <2>2, EncryptionsAreRead DEF B
  <2>7. Repeated(r, LastValue(r), EncryptionTypes) = ReadUpTo(fields, buf, g, k + Len(A \o B))
    BY <2>2, <2>3, <2>4, <2>5, <2>6
  <2> QED
    BY <2>7 DEF r
<1> QED
  BY <1>3, <1>4 DEF A, B

LEMMA EncryptedBallotIsRead ==
  ASSUME NEW m \in MessagesOf("encrypted_ballot")
  PROVE  /\ encrypted_ballot_fields(m) \in Seq(TheFields) /\ Len(encrypted_ballot_fields(m)) # 0
         /\ \A fields, buf, g, k :
              Laid(fields, buf, g) /\ Segment(fields, k, encrypted_ballot_fields(m)) =>
                read_encrypted_ballot(ReadUpTo(fields, buf, g, k))
                  = ReadUpTo(fields, buf, g, k + Len(encrypted_ballot_fields(m)))
<1> DEFINE es == m.selections  a == Field(Uint64, m.id)  b == Field(Uint32, Len(es))
<1>1. /\ m.id \in Unsigned(Uint64) /\ es \in Seq(Encryptions) /\ Len(es) \in Unsigned(Uint32)
      /\ encrypted_ballot_fields(m) = <<a, b>> \o encryptions_fields(es)
  <2>1. m \in [id : Unsigned(Uint64), selections : Lists(Encryptions)]
    BY DEF MessagesOf
  <2> QED
    BY <2>1 DEF encrypted_ballot_fields, Lists
<1>2. a \in TheFields /\ b \in TheFields
  BY <1>1, FieldsOfTypes
<1>3. Reads(Uint64, a) /\ Reads(Uint32, b) /\ b.value = Len(es)
  BY DEF Reads, Field
<1> HIDE DEF a, b, es
<1> QED
  BY <1>1, <1>2, <1>3, NumbersAndEncryptionsAreRead DEF read_encrypted_ballot

LEMMA DecryptionShareIsRead ==
  ASSUME NEW m \in MessagesOf("decryption_share")
  PROVE  /\ decryption_share_fields(m) \in Seq(TheFields) /\ Len(decryption_share_fields(m)) # 0
         /\ \A fields, buf, g, k :
              Laid(fields, buf, g) /\ Segment(fields, k, decryption_share_fields(m)) =>
                read_decryption_share(ReadUpTo(fields, buf, g, k))
                  = ReadUpTo(fields, buf, g, k + Len(decryption_share_fields(m)))
<1> DEFINE es == m.tally_share  a == Field(Uint32, m.trustee_index)  b == Field(Uint64, Len(es))
<1>1. /\ m.trustee_index \in Unsigned(Uint32) /\ es \in Seq(Encryptions) /\ Len(es) \in Unsigned(Uint64)
      /\ decryption_share_fields(m) = <<a, b>> \o encryptions_fields(es)
  <2>1. m \in {d \in [trustee_index : Unsigned(Uint32), tally_share : Seq(Encryptions)] :
                 Len(d.tally_share) \in Unsigned(Uint64)}
    BY DEF MessagesOf
  <2> QED
    BY <2>1 DEF decryption_share_fields
<1>2. a \in TheFields /\ b \in TheFields
  BY <1>1, FieldsOfTypes
<1>3. Reads(Uint32, a) /\ Reads(Uint64, b) /\ b.value = Len(es)
  BY DEF Reads, Field
<1> HIDE DEF a, b, es
<1> QED
  BY <1>1, <1>2, <1>3, NumbersAndEncryptionsAreRead DEF read_decryption_share

\* As the recursive function of read_all_keys_received.
IsKeysRead(keys, r, n) ==
  keys = [k \in 0 .. n |-> IF k = 0 THEN r ELSE read_rsa_public_key(read_public_key(keys[k - 1]))]

KeysRead(r, n) == (CHOOSE keys : IsKeysRead(keys, r, n))[n]
PairsOfKeys(publics, rsas, n) ==
  FlattenSeq([i \in 1 .. n |-> public_key_fields(publics[i]) \o rsa_public_key_fields(rsas[i])])

LEMMA KeysAreRead ==
  ASSUME NEW n \in Nat, NEW publics, NEW rsas,
         \A i \in 1 .. n : publics[i] \in PublicKeys /\ rsas[i] \in RsaPublicKeys
  PROVE  /\ PairsOfKeys(publics, rsas, n) \in Seq(TheFields)
         /\ \A fields, buf, g, k :
              Laid(fields, buf, g) /\ Segment(fields, k, PairsOfKeys(publics, rsas, n)) =>
                KeysRead(ReadUpTo(fields, buf, g, k), n)
                  = ReadUpTo(fields, buf, g, k + Len(PairsOfKeys(publics, rsas, n)))
<1> DEFINE parts == [i \in 1 .. n |-> public_key_fields(publics[i]) \o rsa_public_key_fields(rsas[i])]
<1>1. ASSUME NEW i \in 1 .. n
      PROVE  /\ parts[i] = public_key_fields(publics[i]) \o rsa_public_key_fields(rsas[i])
             /\ public_key_fields(publics[i]) \in Seq(TheFields)
             /\ rsa_public_key_fields(rsas[i]) \in Seq(TheFields)
             /\ parts[i] \in Seq(TheFields)
  <2>1. parts[i] = public_key_fields(publics[i]) \o rsa_public_key_fields(rsas[i])
    OBVIOUS
  <2> HIDE DEF parts
  <2>2. public_key_fields(publics[i]) \in Seq(TheFields)
    BY PublicKeyIsRead
  <2>3. rsa_public_key_fields(rsas[i]) \in Seq(TheFields)
    BY RsaPublicKeyIsRead
  <2> QED
    BY <2>1, <2>2, <2>3, TwoParts
<1>2. parts \in Seq(Seq(TheFields)) /\ Len(parts) = n
  <2>1. parts = [i \in 1 .. n |-> parts[i]]
    OBVIOUS
  <2> HIDE DEF parts
  <2>2. parts \in [1 .. n -> Seq(TheFields)]
    BY <1>1, <2>1
  <2> QED
    BY <2>2, AsSequence
<1> HIDE DEF parts
<1>3. FlattenSeq(parts) \in Seq(TheFields)
  <2>1. PICK h : Joins(h, TheFields, parts)
    BY <1>2, JoinedExists
  <2> QED
    BY <1>2, <2>1, FlattenIsJoined
<1>4. ASSUME NEW fields, NEW buf, NEW g, NEW k, Laid(fields, buf, g),
             Segment(fields, k, FlattenSeq(parts))
      PROVE  KeysRead(ReadUpTo(fields, buf, g, k), n)
               = ReadUpTo(fields, buf, g, k + Len(FlattenSeq(parts)))
  <2> DEFINE r == ReadUpTo(fields, buf, g, k)  keys == CHOOSE keys : IsKeysRead(keys, r, n)
             l == Len(FlattenSeq(parts))
  <2>1. PICK at : Places(at, fields, k, parts)
    BY <1>2, <1>4, PartsPlaced
  <2>2. /\ at[0] = k /\ at[n] = k + l
        /\ \A i \in 1 .. n : Segment(fields, at[i - 1], parts[i]) /\ at[i] = at[i - 1] + Len(parts[i])
    BY <1>2, <2>1 DEF Places
  <2> HIDE DEF l
  <2> DEFINE h == [i \in 0 .. n |-> ReadUpTo(fields, buf, g, at[i])]
  <2>3. ASSUME NEW i \in 1 .. n
        PROVE  /\ i - 1 \in 0 .. n
               /\ read_rsa_public_key(read_public_key(ReadUpTo(fields, buf, g, at[i - 1])))
                    = ReadUpTo(fields, buf, g, at[i])
    <3> DEFINE j == at[i - 1]  A == public_key_fields(publics[i])  B == rsa_public_key_fields(rsas[i])
               p == publics[i]  q == rsas[i]  a == j + Len(A)
    <3>1. Segment(fields, j, A \o B) /\ at[i] = j + Len(A \o B)
      BY <1>1, <2>2
    <3>2. p \in PublicKeys /\ q \in RsaPublicKeys
      OBVIOUS
    <3>3. A \in Seq(TheFields) /\ B \in Seq(TheFields)
      BY <1>1
    <3> HIDE DEF j, p, q, A, B
    <3>4. Parted(fields, j, A, B)
      BY <3>1, <3>3, TwoSegments
    <3>5. Segment(fields, j, A) /\ Segment(fields, a, B) /\ at[i] = a + Len(B)
      BY <3>1, <3>4 DEF Parted
    <3>6. read_public_key(ReadUpTo(fields, buf, g, j)) = ReadUpTo(fields, buf, g, a)
      BY <1>4, <3>2, <3>5, PublicKeyIsRead DEF A, p
    <3> HIDE DEF a
    <3>7. read_rsa_public_key(ReadUpTo(fields, buf, g, a)) = ReadUpTo(fields, buf, g, a + Len(B))
      BY <1>4, <3>2, <3>5, RsaPublicKeyIsRead DEF B, q
    <3>8. i - 1 \in 0 .. n
      OBVIOUS
    <3> QED
      BY <3>5, <3>6, <3>7, <3>8 DEF j
  <2>4. IsKeysRead(h, r, n)
    <3>1. ASSUME NEW i \in 0 .. n
          PROVE  h[i] = IF i = 0 THEN r ELSE read_rsa_public_key(read_public_key(h[i - 1]))
      <4>1. CASE i = 0
        BY <2>2, <4>1
      <4>2. CASE i # 0
        <5>1. i \in 1 .. n
          BY <4>2
        <5>2. h[i] = ReadUpTo(fields, buf, g, at[i])
          OBVIOUS
        <5>3. h[i - 1] = ReadUpTo(fields, buf, g, at[i - 1])
          BY <2>3, <5>1
        <5> HIDE DEF h
        <5> QED
          BY <2>3, <4>2, <5>1, <5>2, <5>3
      <4> QED
        BY <4>1, <4>2
    <3>2. h = [i \in 0 .. n |-> h[i]]
      OBVIOUS
    <3> HIDE DEF h, r
    <3> QED
      BY <3>1, <3>2 DEF IsKeysRead
  <2>5. IsKeysRead(keys, r, n)
    BY <2>4
  <2> HIDE DEF keys, h, r
  <2>6. /\ \A i \in 0 .. n : keys[i] = IF i = 0 THEN r ELSE read_rsa_public_key(read_public_key(keys[i - 1]))
        /\ \A i \in 0 .. n : h[i] = IF i = 0 THEN r ELSE read_rsa_public_key(read_public_key(h[i - 1]))
    BY <2>4, <2>5 DEF IsKeysRead
  <2>7. keys[0] = h[0]
    BY <2>6
  <2>8. \A i \in 1 .. n : keys[i - 1] = h[i - 1] => keys[i] = h[i]
    BY <2>6
  <2>9. \A i \in 0 .. n : keys[i] = h[i]
    BY <2>7, <2>8, SameRounds, ZenonT(40)
  <2>10. keys[n] = h[n]
    BY <2>9
  <2>11. h[n] = ReadUpTo(fields, buf, g, at[n])
    BY DEF h
  <2> QED
    BY <2>2, <2>10, <2>11 DEF keys, r, l, KeysRead
<1> QED
  BY <1>3, <1>4 DEF parts, PairsOfKeys

LEMMA AllKeysIsRead ==
  ASSUME NEW m \in MessagesOf("all_keys_received")
  PROVE  /\ all_keys_received_fields(m) \in Seq(TheFields) /\ Len(all_keys_received_fields(m)) # 0
         /\ \A fields, buf, g, k :
              Laid(fields, buf, g) /\ Segment(fields, k, all_keys_received_fields(m)) =>
                read_all_keys_received(ReadUpTo(fields, buf, g, k))
                  = ReadUpTo(fields, buf, g, k + Len(all_keys_received_fields(m)))
<1> DEFINE x == m.public_keys  y == m.rsa_public_keys  n == Len(x)
           f == Field(Uint32, n)  A == <<f>>
           B == PairsOfKeys(x, y, n)
<1>1. /\ x \in Seq(PublicKeys) /\ n \in Unsigned(Uint32) /\ y \in Seq(RsaPublicKeys) /\ Len(y) = n
      /\ all_keys_received_fields(m) = A \o B
  <2>1. m \in {s \in [public_keys : Lists(PublicKeys), rsa_public_keys : Seq(RsaPublicKeys)] :
                 Len(s.rsa_public_keys) = Len(s.public_keys)}
    BY DEF MessagesOf
  <2>2. x \in Lists(PublicKeys) /\ y \in Seq(RsaPublicKeys) /\ Len(y) = n
    BY <2>1
  <2> QED
    BY <2>2 DEF all_keys_received_fields, Lists, PairsOfKeys
<1> HIDE DEF x, y
<1>2. n \in Nat /\ \A i \in 1 .. n : x[i] \in PublicKeys /\ y[i] \in RsaPublicKeys
  BY <1>1
<1>3. f \in TheFields /\ Reads(Uint32, f) /\ f.value = n
  <2> HIDE DEF n
  <2> QED
    BY <1>1, FieldsOfTypes DEF Reads, Field
<1> HIDE DEF n
<1>4. B \in Seq(TheFields)
  BY <1>2, KeysAreRead
<1> HIDE DEF f
<1>5. A \in Seq(TheFields) /\ Len(A) = 1
  BY <1>3, OneField
<1> HIDE DEF A, B
<1>6. A \o B \in Seq(TheFields) /\ Len(A \o B) # 0
  <2>1. A \o B \in Seq(TheFields) /\ Len(A \o B) = Len(A) + Len(B) /\ Len(B) \in Nat
    BY <1>4, <1>5, TwoParts
  <2> QED
    BY <1>5, <2>1
<1>7. ASSUME NEW fields, NEW buf, NEW g, NEW k, Laid(fields, buf, g), Segment(fields, k, A \o B)
      PROVE  read_all_keys_received(ReadUpTo(fields, buf, g, k))
               = ReadUpTo(fields, buf, g, k + Len(A \o B))
  <2> DEFINE r == ReadUpTo(fields, buf, g, k)  t == More(r, Uint32)  h == k + 1
  <2>1. Parted(fields, k, A, B)
    BY <1>4, <1>5, <1>7, TwoSegments
  <2>2. Segment(fields, k, A) /\ Segment(fields, h, B) /\ k + Len(A \o B) = h + Len(B)
    BY <1>5, <2>1 DEF Parted
  <2>3. t = ReadUpTo(fields, buf, g, h) /\ LastValue(t) = n
    BY <1>3, <1>7, <2>2, OneIsRead DEF A
  <2> HIDE DEF h, t
  <2>4. KeysRead(ReadUpTo(fields, buf, g, h), n) = ReadUpTo(fields, buf, g, h + Len(B))
    BY <1>2, <1>7, <2>2, KeysAreRead DEF B
  <2>5. read_all_keys_received(r) = KeysRead(t, LastValue(t))
    BY DEF read_all_keys_received, KeysRead, IsKeysRead, t
  <2> QED
    BY <2>2, <2>3, <2>4, <2>5 DEF r
<1> QED
  BY <1>1, <1>6, <1>7

LEMMA FragmentIsRead ==
  ASSUME NEW m, NEW i, m.requested[i] \in {0, 1},
         m.requested[i] = 1 => /\ m.partial_decryption_M[i] \in Seq(Unsigned(Uint4096))
                               /\ Len(m.partial_decryption_M[i]) = m.num_selections
  PROVE  /\ fragment_fields(m, i) \in Seq(TheFields)
         /\ \A fields, buf, g, k :
              Laid(fields, buf, g) /\ Segment(fields, k, fragment_fields(m, i)) =>
                read_fragment(ReadUpTo(fields, buf, g, k), m.num_selections)
                  = ReadUpTo(fields, buf, g, k + Len(fragment_fields(m, i)))
<1> DEFINE f == Field(Bool, m.requested[i])  A == <<f>>  x == m.partial_decryption_M[i]
           B == IF m.requested[i] = 1 THEN Each(Uint4096, x) ELSE <<>>
<1>1. fragment_fields(m, i) = A \o B
  BY DEF fragment_fields
<1>2. f \in TheFields /\ Reads(Bool, f) /\ f.value = m.requested[i]
  BY FieldsOfTypes DEF Reads, Field
<1>3. \A v \in Unsigned(Uint4096) : Field(Uint4096, v) \in TheFields
  BY NumbersAreFields
<1> HIDE DEF f, x
<1>4. A \in Seq(TheFields) /\ Len(A) = 1
  BY <1>2, OneField
<1>5. m.requested[i] = 1 =>
        /\ x \in Seq(Unsigned(Uint4096)) /\ Len(x) = m.num_selections /\ B = Each(Uint4096, x)
        /\ Each(Uint4096, x) \in Seq(TheFields) /\ Len(Each(Uint4096, x)) = Len(x)
  <2> SUFFICES ASSUME m.requested[i] = 1
               PROVE  /\ x \in Seq(Unsigned(Uint4096)) /\ Len(x) = m.num_selections /\ B = Each(Uint4096, x)
                      /\ Each(Uint4096, x) \in Seq(TheFields) /\ Len(Each(Uint4096, x)) = Len(x)
    OBVIOUS
  <2>1. x \in Seq(Unsigned(Uint4096)) /\ Len(x) = m.num_selections
    BY DEF x
  <2> DEFINE e == Each(Uint4096, x)
  <2>2. e \in Seq(TheFields) /\ Len(e) = Len(x)
    BY <1>3, <2>1, EachIsFields
  <2>3. B = e
    OBVIOUS
  <2> QED
    BY <2>1, <2>2, <2>3
<1>6. m.requested[i] # 1 => B = <<>> /\ B \in Seq(TheFields) /\ Len(B) = 0
  OBVIOUS
<1>7. B \in Seq(TheFields)
  <2>1. CASE m.requested[i] = 1
    BY <1>5, <2>1
  <2>2. CASE m.requested[i] # 1
    BY <1>6, <2>2
  <2> QED
    BY <2>1, <2>2
<1> HIDE DEF A, B
<1>8. A \o B \in Seq(TheFields)
  BY <1>4, <1>7, TwoParts
<1>9. ASSUME NEW fields, NEW buf, NEW g, NEW k, Laid(fields, buf, g), Segment(fields, k, A \o B)
      PROVE  read_fragment(ReadUpTo(fields, buf, g, k), m.num_selections)
               = ReadUpTo(fields, buf, g, k + Len(A \o B))
  <2> DEFINE r == ReadUpTo(fields, buf, g, k)  t == More(r, Bool)  h == k + 1
  <2>1. Parted(fields, k, A, B)
    BY <1>4, <1>7, <1>9, TwoSegments
  <2>2. Segment(fields, k, A) /\ Segment(fields, h, B) /\ k + Len(A \o B) = h + Len(B) /\ h \in Nat
    BY <1>4, <2>1 DEF Parted
  <2>3. t = ReadUpTo(fields, buf, g, h) /\ LastValue(t) = m.requested[i]
    BY <1>2, <1>9, <2>2, OneIsRead DEF A
  <2> HIDE DEF h, t
  <2>4. read_fragment(r, m.num_selections)
          = IF LastValue(t) = 1 THEN MoreOf(t, Times(m.num_selections, Uint4096)) ELSE t
    BY DEF read_fragment, t
  <2> HIDE DEF r
  <2>5. CASE m.requested[i] = 1
    <3>1. Segment(fields, h, Each(Uint4096, x)) /\ x \in Seq(Unsigned(Uint4096)) /\ Len(x) = m.num_selections
      BY <1>5, <2>2, <2>5
    <3>2. MoreOf(ReadUpTo(fields, buf, g, h), Times(Len(x), Uint4096))
            = ReadUpTo(fields, buf, g, h + Len(x))
      BY <1>3, <1>9, <3>1, ManyAreRead
    <3>3. Len(B) = Len(x)
      BY <1>5, <2>5
    <3> QED
      BY <2>2, <2>3, <2>4, <2>5, <3>1, <3>2, <3>3 DEF r
  <2>6. CASE m.requested[i] # 1
    <3>1. Len(B) = 0
      BY <1>6, <2>6
    <3>2. h + Len(B) = h
      BY <2>2, <3>1
    <3> QED
      BY <2>2, <2>3, <2>4, <2>6, <3>2 DEF r
  <2> QED
    BY <2>5, <2>6
<1> QED
  BY <1>1, <1>8, <1>9

\* As the recursive function of read_decryption_fragments.
IsFragmentsRead(fragments, r, n, num_selections) ==
  fragments = [k \in 0 .. n |->
    IF k = 0 THEN r ELSE read_fragment(fragments[k - 1], num_selections)]
FragmentsRead(r, n, num_selections) ==
  (CHOOSE fragments : IsFragmentsRead(fragments, r, n, num_selections))[n]
FragmentsOf(m, n) == FlattenSeq([i \in 1 .. n |-> fragment_fields(m, i)])

LEMMA FragmentsAreRead ==
  ASSUME NEW n \in Nat, NEW m,
         \A i \in 1 .. n :
           /\ m.requested[i] \in {0, 1}
           /\ m.requested[i] = 1 => /\ m.partial_decryption_M[i] \in Seq(Unsigned(Uint4096))
                                    /\ Len(m.partial_decryption_M[i]) = m.num_selections
  PROVE  /\ FragmentsOf(m, n) \in Seq(TheFields)
         /\ \A fields, buf, g, k :
              Laid(fields, buf, g) /\ Segment(fields, k, FragmentsOf(m, n)) =>
                FragmentsRead(ReadUpTo(fields, buf, g, k), n, m.num_selections)
                  = ReadUpTo(fields, buf, g, k + Len(FragmentsOf(m, n)))
<1> DEFINE parts == [i \in 1 .. n |-> fragment_fields(m, i)]  num == m.num_selections
<1>1. ASSUME NEW i \in 1 .. n
      PROVE  /\ parts[i] \in Seq(TheFields)
             /\ \A fields, buf, g, k :
                  Laid(fields, buf, g) /\ Segment(fields, k, parts[i]) =>
                    read_fragment(ReadUpTo(fields, buf, g, k), num)
                      = ReadUpTo(fields, buf, g, k + Len(parts[i]))
  <2> DEFINE part == fragment_fields(m, i)
  <2>1. parts[i] = part
    OBVIOUS
  <2>2. /\ part \in Seq(TheFields)
        /\ \A fields, buf, g, k :
             Laid(fields, buf, g) /\ Segment(fields, k, part) =>
               read_fragment(ReadUpTo(fields, buf, g, k), m.num_selections)
                 = ReadUpTo(fields, buf, g, k + Len(part))
    BY FragmentIsRead
  <2> HIDE DEF part, parts
  <2> QED
    BY <2>1, <2>2
<1> HIDE DEF num
<1>2. parts \in Seq(Seq(TheFields)) /\ Len(parts) = n
  <2>1. parts = [i \in 1 .. n |-> parts[i]]
    OBVIOUS
  <2> HIDE DEF parts
  <2>2. parts \in [1 .. n -> Seq(TheFields)]
    BY <1>1, <2>1
  <2> QED
    BY <2>2, AsSequence
<1> HIDE DEF parts
<1>3. FlattenSeq(parts) \in Seq(TheFields)
  <2>1. PICK h : Joins(h, TheFields, parts)
    BY <1>2, JoinedExists
  <2> QED
    BY <1>2, <2>1, FlattenIsJoined
<1>4. ASSUME NEW fields, NEW buf, NEW g, NEW k, Laid(fields, buf, g),
             Segment(fields, k, FlattenSeq(parts))
      PROVE  FragmentsRead(ReadUpTo(fields, buf, g, k), n, num)
               = ReadUpTo(fields, buf, g, k + Len(FlattenSeq(parts)))
  <2> DEFINE r == ReadUpTo(fields, buf, g, k)
             fragments == CHOOSE fragments : IsFragmentsRead(fragments, r, n, num)
             l == Len(FlattenSeq(parts))
  <2>1. PICK at : Places(at, fields, k, parts)
    BY <1>2, <1>4, PartsPlaced
  <2>2. /\ at[0] = k /\ at[n] = k + l
        /\ \A i \in 1 .. n : Segment(fields, at[i - 1], parts[i]) /\ at[i] = at[i - 1] + Len(parts[i])
    BY <1>2, <2>1 DEF Places
  <2> HIDE DEF l
  <2> DEFINE h == [i \in 0 .. n |-> ReadUpTo(fields, buf, g, at[i])]
  <2>3. ASSUME NEW i \in 1 .. n
        PROVE  /\ i - 1 \in 0 .. n
               /\ read_fragment(ReadUpTo(fields, buf, g, at[i - 1]), num)
                    = ReadUpTo(fields, buf, g, at[i])
    <3> DEFINE j == at[i - 1]  part == parts[i]
    <3>1. Segment(fields, j, part) /\ at[i] = j + Len(part) /\ i - 1 \in 0 .. n
      BY <2>2
    <3>2. \A z : Segment(fields, z, part) =>
            read_fragment(ReadUpTo(fields, buf, g, z), num) = ReadUpTo(fields, buf, g, z + Len(part))
      BY <1>1, <1>4
    <3> HIDE DEF j, part
    <3>3. read_fragment(ReadUpTo(fields, buf, g, j), num) = ReadUpTo(fields, buf, g, j + Len(part))
      BY <3>1, <3>2
    <3> QED
      BY <3>1, <3>3 DEF j
  <2>4. IsFragmentsRead(h, r, n, num)
    <3>1. ASSUME NEW i \in 0 .. n
          PROVE  h[i] = IF i = 0 THEN r ELSE read_fragment(h[i - 1], num)
      <4>1. CASE i = 0
        BY <2>2, <4>1
      <4>2. CASE i # 0
        <5>1. i \in 1 .. n
          BY <4>2
        <5>2. h[i] = ReadUpTo(fields, buf, g, at[i])
          OBVIOUS
        <5>3. h[i - 1] = ReadUpTo(fields, buf, g, at[i - 1])
          BY <2>3, <5>1
        <5> HIDE DEF h
        <5> QED
          BY <2>3, <4>2, <5>1, <5>2, <5>3
      <4> QED
        BY <4>1, <4>2
    <3>2. h = [i \in 0 .. n |-> h[i]]
      OBVIOUS
    <3> HIDE DEF h, r
    <3> QED
      BY <3>1, <3>2 DEF IsFragmentsRead
  <2>5. IsFragmentsRead(fragments, r, n, num)
    BY <2>4
  <2> HIDE DEF fragments, h, r
  <2>6. /\ \A i \in 0 .. n : fragments[i] = IF i = 0 THEN r ELSE read_fragment(fragments[i - 1], num)
        /\ \A i \in 0 .. n : h[i] = IF i = 0 THEN r ELSE read_fragment(h[i - 1], num)
    BY <2>4, <2>5 DEF IsFragmentsRead
  <2>7. fragments[0] = h[0]
    BY <2>6
  <2>8. \A i \in 1 .. n : fragments[i - 1] = h[i - 1] => fragments[i] = h[i]
    BY <2>6
  <2>9. \A i \in 0 .. n : fragments[i] = h[i]
    BY <2>7, <2>8, SameRounds, ZenonT(40)
  <2>10. fragments[n] = h[n]
    BY <2>9
  <2>11. h[n] = ReadUpTo(fields, buf, g, at[n])
    BY DEF h
  <2> QED
    BY <2>2, <2>10, <2>11 DEF fragments, r, l, FragmentsRead
<1> QED
  BY <1>3, <1>4 DEF parts, num, FragmentsOf

LEMMA DecryptionFragmentsIsRead ==
  ASSUME NEW m \in MessagesOf("decryption_fragments")
  PROVE  /\ decryption_fragments_fields(m) \in Seq(TheFields)
         /\ Len(decryption_fragments_fields(m)) # 0
         /\ \A fields, buf, g :
              Laid(fields, buf, g) /\ Segment(fields, 0, decryption_fragments_fields(m)) =>
                read_decryption_fragments(ReadUpTo(fields, buf, g, 0))
                  = ReadUpTo(fields, buf, g, 0 + Len(decryption_fragments_fields(m)))
<1> DEFINE x == m.requested  n == Len(x)  num == m.num_selections
           v == <<m.trustee_index, n, num>>  A == Each(Uint32, v)  B == FragmentsOf(m, n)
           f == Field(Uint256Pad, m.lagrange_coefficient)  C == <<f>>
           types == <<Uint32, Uint32, Uint32>>
<1>1. /\ m \in Fragments /\ decryption_fragments_fields(m) = (A \o B) \o C
  BY DEF MessagesOf, Fragments, decryption_fragments_fields, FragmentsOf
<1>2. /\ m.trustee_index \in Unsigned(Uint32) /\ num \in Unsigned(Uint32)
      /\ x \in Lists({0, 1}) /\ m.lagrange_coefficient \in Unsigned(Uint256Pad)
      /\ m.partial_decryption_M \in Seq(Seq(Unsigned(Uint4096))) /\ Len(m.partial_decryption_M) = n
      /\ \A i \in 1 .. n : x[i] = 1 => Len(m.partial_decryption_M[i]) = num
  BY <1>1 DEF Fragments
<1>3. n \in Unsigned(Uint32) /\ x \in Seq({0, 1})
  BY <1>2 DEF Lists
<1>4. n \in Nat /\ \A i \in 1 .. n :
        /\ m.requested[i] \in {0, 1}
        /\ m.requested[i] = 1 => /\ m.partial_decryption_M[i] \in Seq(Unsigned(Uint4096))
                                 /\ Len(m.partial_decryption_M[i]) = m.num_selections
  <2> DEFINE M == m.partial_decryption_M
  <2>1. n \in Nat /\ \A i \in 1 .. n : x[i] \in {0, 1}
    <3> HIDE DEF x
    <3> QED
      BY <1>3
  <2>2. \A i \in 1 .. n : M[i] \in Seq(Unsigned(Uint4096))
    <3>1. M \in Seq(Seq(Unsigned(Uint4096))) /\ Len(M) = n
      BY <1>2
    <3> HIDE DEF M, n
    <3> QED
      BY <3>1
  <2> QED
    BY <1>2, <2>1, <2>2
<1>5. B \in Seq(TheFields)
  <2> HIDE DEF n
  <2> QED
    BY <1>4, FragmentsAreRead
<1>6. f \in TheFields /\ Reads(Uint256, f)
  BY <1>2, NumbersAreFields DEF Reads, Field, Uint256, Uint256Pad, Uint64s
<1> HIDE DEF f
<1>7. C \in Seq(TheFields) /\ Len(C) = 1
  BY <1>6, OneField
<1>8. v \in Seq(Unsigned(Uint32)) /\ Len(v) = 3 /\ v[2] = n /\ v[3] = num
  <2> HIDE DEF n, num
  <2> QED
    BY <1>2, <1>3
<1>9. Len(types) = 3 /\ \A j \in 1 .. 3 : types[j] = Uint32
  OBVIOUS
<1> HIDE DEF v, x, n, num, types
<1>10. \A w \in Unsigned(Uint32) : Field(Uint32, w) \in TheFields
  BY FieldsOfTypes
<1>11. /\ A \in Seq(TheFields) /\ Len(A) = Len(v)
       /\ \A i \in 1 .. Len(v) : A[i] = Field(Uint32, v[i])
  BY <1>8, <1>10, EachIsFields
<1> HIDE DEF A, B, C
<1>12. /\ \A j \in 1 .. Len(A) : Reads(types[j], A[j])
       /\ Len(types) = Len(A)
  BY <1>8, <1>9, <1>11 DEF Reads, Field
<1>13. Len(A) = 3 /\ A[2].value = n /\ A[3].value = num
  BY <1>8, <1>11 DEF Field
<1>14. (A \o B) \o C \in Seq(TheFields) /\ Len((A \o B) \o C) # 0
  <2>1. /\ (A \o B) \o C \in Seq(TheFields) /\ Len(B) \in Nat
        /\ Len((A \o B) \o C) = (Len(A) + Len(B)) + Len(C)
    BY <1>5, <1>7, <1>11, ThreeParts
  <2> QED
    BY <1>7, <1>13, <2>1
<1>15. ASSUME NEW fields, NEW buf, NEW g, Laid(fields, buf, g), Segment(fields, 0, (A \o B) \o C)
       PROVE  read_decryption_fragments(ReadUpTo(fields, buf, g, 0))
                = ReadUpTo(fields, buf, g, 0 + Len((A \o B) \o C))
  <2> DEFINE r == ReadUpTo(fields, buf, g, 0)  s == MoreOf(r, types)  a == 3  b == a + Len(B)
  <2>1. PartedInThree(fields, 0, A, B, C)
    BY <1>5, <1>7, <1>11, <1>15, ThreeSegments
  <2>2. /\ Segment(fields, 0, A) /\ Segment(fields, a, B) /\ Segment(fields, b, C)
        /\ 0 + Len((A \o B) \o C) = b + 1
    BY <1>7, <1>13, <2>1 DEF PartedInThree
  <2>3. s = ReadUpTo(fields, buf, g, a)
    <3>1. s = ReadUpTo(fields, buf, g, 0 + Len(A))
      BY <1>12, <1>15, <2>2, PartIsRead
    <3> QED
      BY <1>13, <3>1
  <2>4. Value(s, 2) = n /\ Value(s, 3) = num
    <3>1. 3 \in 0 .. Len(fields) /\ fields[2] = A[2] /\ fields[3] = A[3]
      <4>1. Len(fields) \in Nat /\ 0 + 3 <= Len(fields) /\ \A i \in 1 .. 3 : fields[0 + i] = A[i]
        BY <1>13, <2>2 DEF Segment
      <4> QED
        BY <4>1
    <3>2. \A i \in 1 .. 3 : Value(ReadUpTo(fields, buf, g, 3), i) = fields[i].value
      BY <1>15, <3>1, ValuesRead
    <3>3. Value(ReadUpTo(fields, buf, g, 3), 2) = n /\ Value(ReadUpTo(fields, buf, g, 3), 3) = num
      BY <1>13, <3>1, <3>2
    <3> QED
      BY <2>3, <3>3
  <2> HIDE DEF a, s
  <2>5. FragmentsRead(ReadUpTo(fields, buf, g, a), n, num) = ReadUpTo(fields, buf, g, b)
    BY <1>4, <1>15, <2>2, FragmentsAreRead DEF B, num
  <2> HIDE DEF b
  <2>6. More(ReadUpTo(fields, buf, g, b), Uint256) = ReadUpTo(fields, buf, g, b + 1)
    BY <1>6, <1>15, <2>2, OneIsRead DEF C
  <2>7. read_decryption_fragments(r) = More(FragmentsRead(s, Value(s, 2), Value(s, 3)), Uint256)
    BY DEF read_decryption_fragments, FragmentsRead, IsFragmentsRead, s, types
  <2> QED
    BY <2>2, <2>3, <2>4, <2>5, <2>6, <2>7
<1> QED
  BY <1>1, <1>14, <1>15

------------------------------------------------------------------------------
(***************************************************************************)
(* All of it.                                                              *)
(***************************************************************************)

LEMMA MessageIsRead ==
  ASSUME NEW kind \in Kinds, NEW m \in MessagesOf(kind)
  PROVE  /\ Fields(kind, m) \in Seq(TheFields) /\ Len(Fields(kind, m)) # 0
         /\ \A fields, buf, g :
              Laid(fields, buf, g) /\ Segment(fields, 0, Fields(kind, m)) =>
                ReadBack(kind, m, ReadUpTo(fields, buf, g, 0))
                  = ReadUpTo(fields, buf, g, 0 + Len(Fields(kind, m)))
<1>1. CASE kind = "key_generated"
  BY <1>1, KeyGeneratedIsRead DEF Fields, ReadBack
<1>2. CASE kind = "all_keys_received"
  BY <1>2, AllKeysIsRead DEF Fields, ReadBack
<1>3. CASE kind = "shares_generated"
  BY <1>3, SharesGeneratedIsRead DEF Fields, ReadBack
<1>4. CASE kind = "all_shares_received"
  BY <1>4, AllSharesIsRead DEF Fields, ReadBack
<1>5. CASE kind = "shares_verified"
  BY <1>5, SharesVerifiedIsRead DEF Fields, ReadBack
<1>6. CASE kind = "trustee_state"
  BY <1>6, TrusteeStateIsRead DEF Fields, ReadBack
<1>7. CASE kind = "joint_public_key"
  BY <1>7, JointPublicKeyIsRead DEF Fields, ReadBack
<1>8. CASE kind = "ballot_identifier"
  BY <1>8, BallotIdentifierIsRead DEF Fields, ReadBack
<1>9. CASE kind = "encrypted_ballot"
  BY <1>9, EncryptedBallotIsRead DEF Fields, ReadBack
<1>10. CASE kind = "decryption_share"
  BY <1>10, DecryptionShareIsRead DEF Fields, ReadBack
<1>11. CASE kind = "decryption_fragments_request"
  BY <1>11, FragmentsRequestIsRead DEF Fields, ReadBack
<1>12. CASE kind = "decryption_fragments"
  BY <1>12, DecryptionFragmentsIsRead DEF Fields, ReadBack
<1> QED
  BY <1>1, <1>2, <1>3, <1>4, <1>5, <1>6, <1>7, <1>8, <1>9, <1>10, <1>11, <1>12 DEF Kinds

LEMMA MessageReadBack ==
  ASSUME NEW kind \in Kinds, NEW m \in MessagesOf(kind)
  PROVE  LET fields == Fields(kind, m)
             state == Written(fields)
             back == ReadBack(kind, m, Start(state.buf))
         IN  IF \A i \in DOMAIN fields : Fits(fields[i])
             THEN /\ state.status = "WRITING"
                  /\ state.offset = state.len
                  /\ back.values = [i \in DOMAIN fields |-> fields[i].value]
                  /\ back.state.offset = state.len
             ELSE state.status = "IO_ERROR"
<1> DEFINE fields == Fields(kind, m)  state == Written(fields)
           back == ReadBack(kind, m, Start(state.buf))  n == Len(fields)
<1>1. fields \in Seq(TheFields) /\ n # 0
  BY MessageIsRead
<1>2. ASSUME NEW whole, NEW buf, NEW g, Laid(whole, buf, g), Segment(whole, 0, fields)
      PROVE  ReadBack(kind, m, ReadUpTo(whole, buf, g, 0)) = ReadUpTo(whole, buf, g, 0 + n)
  BY <1>2, MessageIsRead
<1> HIDE DEF fields
<1>3. n \in Nat /\ DOMAIN fields = 1 .. n
  BY <1>1
<1>4. ASSUME AllFit(fields)
      PROVE  /\ state.status = "WRITING" /\ state.offset = state.len
             /\ back.values = [i \in DOMAIN fields |-> fields[i].value]
             /\ back.state.offset = state.len
  <2> DEFINE e == AllEncoded(fields)
  <2>1. e \in Seq(Seq(Nat)) /\ Len(e) = n
    BY <1>1, <1>4, EncodedFields
  <2>2. PICK g : Joins(g, Nat, e)
    <3> HIDE DEF e
    <3> QED
      BY <2>1, JoinedExists
  <2> DEFINE buf == g[n]
  <2>3. state = [status |-> "WRITING", len |-> Len(buf), offset |-> Len(buf), buf |-> buf]
    BY <1>1, <1>4, <2>2, WrittenRight
  <2>4. Laid(fields, buf, g)
    BY <1>1, <1>4, <2>2 DEF Laid
  <2>5. Segment(fields, 0, fields)
    BY <1>1, SegmentOfAll
  <2>6. Start(buf) = ReadUpTo(fields, buf, g, 0)
    <3>1. Len(g[0]) = 0
      BY <2>2 DEF Joins
    <3>2. [i \in 1 .. 0 |-> fields[i].value] = <<>>
      OBVIOUS
    <3> HIDE DEF buf
    <3> QED
      BY <3>1, <3>2 DEF Start, Reading, ReadUpTo
  <2>7. state.buf = buf /\ state.status = "WRITING" /\ state.offset = Len(buf) /\ state.len = Len(buf)
    BY <2>3
  <2> HIDE DEF buf, state
  <2>8. ReadBack(kind, m, ReadUpTo(fields, buf, g, 0)) = ReadUpTo(fields, buf, g, 0 + n)
    BY <1>2, <2>4, <2>5
  <2>9. 0 + n = n
    BY <1>3
  <2>10. back = ReadUpTo(fields, buf, g, n)
    BY <2>6, <2>7, <2>8, <2>9
  <2>11. back.values = [i \in 1 .. n |-> fields[i].value] /\ back.state.offset = Len(g[n])
    BY <2>10 DEF ReadUpTo
  <2>12. Len(g[n]) = Len(buf)
    BY DEF buf
  <2> QED
    BY <1>3, <2>7, <2>11, <2>12
<1>5. ASSUME ~AllFit(fields) PROVE state.status = "IO_ERROR"
  BY <1>1, <1>5, WrittenWrong
<1> HIDE DEF state, back
<1>6. IF \A i \in DOMAIN fields : Fits(fields[i])
      THEN /\ state.status = "WRITING" /\ state.offset = state.len
           /\ back.values = [i \in DOMAIN fields |-> fields[i].value]
           /\ back.state.offset = state.len
      ELSE state.status = "IO_ERROR"
  BY <1>4, <1>5 DEF AllFit
<1> QED
  BY <1>6 DEF fields, state, back

\* What is being written is a message of its kind.
MessagesTypeOK ==
  /\ message.kind \in Kinds
  /\ message.stage = "message" => message.content \in MessagesOf(message.kind)

\* src/electionguard/serialize: whatever the message, however many trustees, selections
\* and shares, and for words and fields of any size: what is written is read back field by
\* field, all of it and nothing more, and fills exactly the length that was reserved; a
\* message with a number that does not fill its words, and only such a one, is refused.
THEOREM MessagesAreReadBack == MessagesSpec => []MessagesReadBack
<1>1. MessagesInit => MessagesTypeOK
  BY DEF MessagesInit, MessagesTypeOK
<1>2. MessagesTypeOK /\ [ChooseMessage]_message => MessagesTypeOK'
  <2> SUFFICES ASSUME MessagesTypeOK, [ChooseMessage]_message PROVE MessagesTypeOK'
    OBVIOUS
  <2>1. CASE ChooseMessage
    <3>1. PICK m \in Contents[message.kind] :
            message' = [stage |-> "message", kind |-> message.kind, content |-> m]
      BY <2>1 DEF ChooseMessage
    <3>2. message.kind \in Kinds
      BY DEF MessagesTypeOK
    <3>3. m \in MessagesOf(message.kind)
      BY <3>1, <3>2, MessagesAssumption
    <3> QED
      BY <3>1, <3>2, <3>3 DEF MessagesTypeOK
  <2>2. CASE UNCHANGED message
    BY <2>2 DEF MessagesTypeOK
  <2> QED
    BY <2>1, <2>2
<1>3. MessagesTypeOK => MessagesReadBack
  <2> SUFFICES ASSUME MessagesTypeOK, message.stage = "message" PROVE MessagesReadBack
    BY DEF MessagesReadBack
  <2>1. message.kind \in Kinds /\ message.content \in MessagesOf(message.kind)
    BY DEF MessagesTypeOK
  <2> QED
    BY <2>1, MessageReadBack DEF MessagesReadBack
<1> QED
  BY <1>1, <1>2, <1>3, PTL DEF MessagesSpec

=============================================================================
