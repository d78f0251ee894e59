--------------------------- MODULE UintArithmetic ---------------------------
(***************************************************************************)
(* src/electionguard/uint4096.c: numbers as sequences of machine words,    *)
(* the most significant first.  A word has WordBits bits here instead of   *)
(* 64 and a number 2^LogWords words instead of 64; every operation wraps   *)
(* around where the machine's does.  As in the code n is how many words    *)
(* the operands have.  The state is what is computed with.                 *)
(***************************************************************************)
EXTENDS Powers, Sequences

CONSTANTS
  WordBits,   \* UINT4096_WORD_SIZE_BITS, even
  LogWords,   \* UINT4096_LOG2_WORD_COUNT
  ByteBits,   \* bits of a byte that is read from outside
  Moduli      \* the moduli that numbers are reduced by

WordCount == IntegerPower(2, LogWords)
Base == IntegerPower(2, WordBits)
HalfBase == IntegerPower(2, WordBits \div 2)
Word == 0 .. Base - 1
\* One more than the largest number of n words.
Size(n) == IntegerPower(Base, n)

ASSUME UintAssumption ==
  /\ WordBits \in Nat \ {0} /\ WordBits % 2 = 0
  /\ LogWords \in Nat \ {0}
  /\ ByteBits \in Nat \ {0} /\ WordBits % ByteBits = 0
  /\ Moduli \subseteq 2 .. Size(WordCount) - 1

VARIABLE operands   \* a number of 2 * WordCount words, or two numbers, and a modulus

\* The number that the first n words stand for, and the other way about.
ValueOf(n, words) ==
  LET value[k \in 0 .. n] == IF k = 0 THEN 0 ELSE value[k - 1] * Base + words[k]
  IN  value[n]
WordsOf(value, n) == [i \in 1 .. n |-> (value \div Size(n - i)) % Base]

Zeros(n) == [i \in 1 .. n |-> 0]
From(words, first, n) == [i \in 1 .. n |-> words[first + i]]

\* carry[k]: the carry out of the last k words.
uintnwords_add_o(n, a, b) ==
  LET carry[k \in 0 .. n] ==
        IF k = 0 THEN 0
        ELSE IF a[n + 1 - k] + b[n + 1 - k] + carry[k - 1] >= Base THEN 1 ELSE 0
  IN  [i \in 1 .. n |-> (a[i] + b[i] + carry[n - i]) % Base]

\* Up to the last word that does not wrap around.
uintnwords_succ_o(n, a) ==
  [i \in 1 .. n |-> IF \A j \in i + 1 .. n : a[j] = Base - 1 THEN (a[i] + 1) % Base ELSE a[i]]

uintnwords_negate_o(n, a) == uintnwords_succ_o(n, [i \in 1 .. n |-> Base - 1 - a[i]])

uintnwords_cmp(n, a, b) ==
  LET differ == {i \in 1 .. n : a[i] # b[i]}
      first == CHOOSE i \in differ : \A j \in differ : i <= j
  IN  IF differ = {} THEN 0 ELSE IF a[first] < b[first] THEN -1 ELSE 1
uintnwords_le(n, a, b) == uintnwords_cmp(n, a, b) <= 0

\* |a - b|, subtracting the smaller as the code does.
Difference(n, a, b) ==
  IF uintnwords_le(n, a, b)
  THEN uintnwords_add_o(n, uintnwords_negate_o(n, a), b)
  ELSE uintnwords_add_o(n, uintnwords_negate_o(n, b), a)

\* One word by one word: four products of half words.
MultiplyWord(a, b) ==
  LET upper(w) == w \div HalfBase
      lower(w) == w % HalfBase
      middle(m) == <<m \div HalfBase, (m * HalfBase) % Base>>
      ends == <<(upper(a) * upper(b)) % Base, (lower(a) * lower(b)) % Base>>
  IN  uintnwords_add_o(2,
        uintnwords_add_o(2, ends, middle((upper(a) * lower(b)) % Base)),
        middle((upper(b) * lower(a)) % Base))

\* The sign starts at -1 and turns for each pair whose first half is larger.
Negative(n, a1, a2, b1, b2) == uintnwords_le(n, a1, a2) <=> uintnwords_le(n, b1, b2)

\* Karatsuba: numbers of 2 * SMALL words, with product for numbers of SMALL.
MultiplyHalves(product, SMALL, a, b) ==
  LET MEDIUM == 2 * SMALL
      a1 == From(a, 0, SMALL)  a2 == From(a, SMALL, SMALL)
      b1 == From(b, 0, SMALL)  b2 == From(b, SMALL, SMALL)
      upper == product[<<a1, b1>>]
      lower == product[<<a2, b2>>]
      middle == <<0>> \o product[<<Difference(SMALL, a1, a2), Difference(SMALL, b1, b2)>>]
      signed == IF Negative(SMALL, a1, a2, b1, b2)
                THEN uintnwords_negate_o(MEDIUM + 1, middle) ELSE middle
      sum == uintnwords_add_o(MEDIUM + 1,
               uintnwords_add_o(MEDIUM + 1, signed, <<0>> \o upper), <<0>> \o lower)
  IN  uintnwords_add_o(2 * MEDIUM, upper \o lower, Zeros(SMALL - 1) \o sum \o Zeros(SMALL))

\* 2^n words by 2^n words.
uintfn_mult_o(n, a, b) ==
  LET product[k \in 0 .. n] ==
        [ab \in Seq(Word) \X Seq(Word) |->
           IF k = 0 THEN MultiplyWord(ab[1][1], ab[2][1])
           ELSE MultiplyHalves(product[k - 1], IntegerPower(2, k - 1), ab[1], ab[2])]
  IN  product[n][<<a, b>>]

\* modulus: the number and floor(2^8192 / number).
\* A bug: the reciprocal is one too small.
Modulus_short(m) ==
  [modulus |-> WordsOf(m, WordCount),
   reciprocal |-> WordsOf((Size(2 * WordCount) \div m) - 1, 2 * WordCount)]
Modulus(m) == [modulus |-> WordsOf(m, WordCount),
               reciprocal |-> WordsOf(Size(2 * WordCount) \div m, 2 * WordCount)]

promoted_modulus(modulus) == Zeros(WordCount) \o modulus.modulus

\* What is left of a after an estimate of its quotient is taken off, before the
\* loop that takes off the modulus itself.
RemainderEstimate(a, modulus) ==
  LET n == 2 * WordCount
      quotient == From(uintfn_mult_o(LogWords + 1, a, modulus.reciprocal), 0, n)
      multiple == From(uintfn_mult_o(LogWords + 1, quotient, promoted_modulus(modulus)), n, n)
  IN  uintnwords_add_o(n, uintnwords_negate_o(n, multiple), a)

\* The loop of uint8192_mod_o.  Every turn makes a number of 2 * WordCount words
\* smaller, so there are fewer turns than such numbers.
TakeOff(estimate, promoted) ==
  LET n == 2 * WordCount
      rest[k \in 0 .. Size(n)] ==
        IF k = 0 THEN estimate
        ELSE uintnwords_add_o(n, rest[k - 1], uintnwords_negate_o(n, promoted))
      turns == CHOOSE k \in 0 .. Size(n) :
                 /\ ~uintnwords_le(n, promoted, rest[k])
                 /\ \A j \in 0 .. k - 1 : uintnwords_le(n, promoted, rest[j])
  IN  rest[turns]

uint8192_mod_o(a, modulus) ==
  From(TakeOff(RemainderEstimate(a, modulus), promoted_modulus(modulus)), WordCount, WordCount)

uint4096_multmod_o(a, b, modulus) ==
  uint8192_mod_o(uintfn_mult_o(LogWords, a, b), modulus)

One == Zeros(WordCount - 1) \o <<1>>

\* Bit i of an exponent, and how many bits there are up to its highest one.
Bit(exponent, i) ==
  (exponent[WordCount - (i \div WordBits)] \div IntegerPower(2, i % WordBits)) % 2
max_bit(exponent) ==
  LET set == {i \in 0 .. WordCount * WordBits - 1 : Bit(exponent, i) = 1}
  IN  IF set = {} THEN 0 ELSE 1 + CHOOSE i \in set : \A j \in set : j <= i

\* Repeated squaring from the lowest bit.
uint4096_powmod_o(base, exponent, modulus) ==
  LET tmp[k \in 0 .. max_bit(exponent)] ==
        IF k = 0 THEN [out |-> One, base |-> base]
        ELSE [out |-> IF Bit(exponent, k - 1) = 1
                      THEN uint4096_multmod_o(tmp[k - 1].out, tmp[k - 1].base, modulus)
                      ELSE tmp[k - 1].out,
              base |-> uint4096_multmod_o(tmp[k - 1].base, tmp[k - 1].base, modulus)]
  IN  tmp[max_bit(exponent)].out

\* The first power of base that is a; there need not be one.
uint4096_logmod(base, a, modulus) ==
  LET powmod[e \in 0 .. Size(WordCount)] ==
        IF e = 0 THEN One ELSE uint4096_multmod_o(powmod[e - 1], base, modulus)
  IN  CHOOSE e \in 0 .. Size(WordCount) :
        /\ uintnwords_cmp(WordCount, powmod[e], a) = 0
        /\ \A d \in 0 .. e - 1 : uintnwords_cmp(WordCount, powmod[d], a) # 0

BytesPerWord == WordBits \div ByteBits
ByteCount == WordCount * BytesPerWord

\* Bytes, the most significant first, each put in its place in its word.
WordsOfBytes(n, bytes) ==
  LET byte(i) == IF i < n THEN bytes[n - i] ELSE 0   \* counted from the end
      word(w) ==
        LET value[k \in 0 .. BytesPerWord] ==
              IF k = 0 THEN 0
              ELSE value[k - 1] + byte((WordCount - w) * BytesPerWord + k - 1)
                                  * IntegerPower(2, ByteBits * (k - 1))
        IN  value[BytesPerWord]
  IN  [w \in 1 .. WordCount |-> word(w)]

\* A bug: of more bytes than there is room for the last are left out.
uint4096_zext_first(n, bytes) ==
  IF n > ByteCount THEN WordsOfBytes(ByteCount, bytes) ELSE WordsOfBytes(n, bytes)
\* Of more bytes than there is room for the first are left out.
uint4096_zext_o(n, bytes) ==
  IF n > ByteCount THEN WordsOfBytes(ByteCount, From(bytes, n - ByteCount, ByteCount))
  ELSE WordsOfBytes(n, bytes)

\* First a number, then what it is reduced by.
NumbersInit == operands \in [a : 0 .. Size(2 * WordCount) - 1, m : {0}]
ChooseModulus ==
  /\ operands.m = 0
  /\ \E m \in Moduli : operands' = [operands EXCEPT !.m = m]

NumbersSpec == NumbersInit /\ [][ChooseModulus]_operands

(* Properties **************************************************************)
\* uint4096.c: sum, product, comparison, remainder, power and logarithm of numbers
\* in words are those of the numbers, all wrapping around where they should, and so
\* is the number that bytes are read as.
WordArithmeticIsExact ==
  operands.m # 0 =>
    LET m == operands.m
        size == Size(WordCount)
        x == operands.a \div size
        y == operands.a % size
        wx == WordsOf(x, WordCount)
        wy == WordsOf(y, WordCount)
        power[e \in 0 .. y] == IF e = 0 THEN 1 ELSE (power[e - 1] * x) % m
    IN  /\ ValueOf(WordCount, uintnwords_add_o(WordCount, wx, wy)) = (x + y) % size
        /\ ValueOf(WordCount, uintnwords_negate_o(WordCount, wx)) = (size - x) % size
        /\ uintnwords_le(WordCount, wx, wy) <=> x <= y
        /\ ValueOf(2 * WordCount, uintfn_mult_o(LogWords, wx, wy)) = x * y
        /\ ValueOf(WordCount, uint8192_mod_o(WordsOf(operands.a, 2 * WordCount), Modulus(m)))
             = operands.a % m
        /\ ValueOf(WordCount, uint4096_powmod_o(wx, wy, Modulus(m))) = power[y]
        /\ \E e \in 0 .. y :
             /\ e = uint4096_logmod(wx, WordsOf(power[y], WordCount), Modulus(m))
             /\ power[e] = power[y]
             /\ \A d \in 0 .. e - 1 : power[d] # power[y]
        /\ \A n \in 0 .. 2 * ByteCount :
             ValueOf(WordCount, uint4096_zext_o(n, [i \in 1 .. n |->
                 (operands.a \div IntegerPower(2, ByteBits * (n - i))) % IntegerPower(2, ByteBits)]))
               = operands.a % IntegerPower(2, ByteBits * (IF n < ByteCount THEN n ELSE ByteCount))

\* The comment at uint4096.c:178: the loop that takes the modulus off what the
\* estimate of the quotient leaves runs at most once.
RemainderLoopRunsOnce ==
  operands.m # 0 =>
    LET a == WordsOf(operands.a, 2 * WordCount)
    IN  ValueOf(2 * WordCount, RemainderEstimate(a, Modulus(operands.m))) < 2 * operands.m

\* The comment at uint4096.c:22: "Violating this assumption", that the reciprocal is
\* that of the modulus, "is safe (you will still get the right answer) but slow".
\* Stated of a modulus that has the reciprocal of another, as p_4 (uint4096.c:329) has.
WrongReciprocalIsSafe ==
  operands.m # 0 =>
    \A old \in Moduli :
      LET modulus == [Modulus(operands.m) EXCEPT !.reciprocal = Modulus(old).reciprocal]
      IN  ValueOf(WordCount, uint8192_mod_o(WordsOf(operands.a, 2 * WordCount), modulus))
            = operands.a % operands.m

=============================================================================
