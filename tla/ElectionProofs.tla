---------------------------- MODULE ElectionProofs ----------------------------
(***************************************************************************)
(* The safety of the course of an election, for every number of            *)
(* selections, ballots, trustees and failing calls, and every threshold.   *)
(***************************************************************************)
EXTENDS Election, FiniteSetTheorems, SequenceTheorems, WellFoundedInduction,
        NaturalsInduction, TLAPS

(* The text of a file.                                                     *)

Tokens ==
  [kind : {"identifier", "tab", "number", "close", "newline"},
   of : Nat, at : Nat, whole : BOOLEAN]

LEMMA TokensAreRecords ==
  ASSUME NEW t \in Tokens
  PROVE  /\ Torn(t) \in Tokens /\ Torn(t).kind = t.kind
         /\ Torn(t).of = t.of /\ Torn(t).at = t.at
         /\ t.whole => t = Token(t.kind, t.of, t.at)
BY DEF Tokens, Torn, Token

LineLength == 3 * NumSelections + 3

LEMMA LineLengthNat == LineLength \in Nat /\ LineLength >= 6 /\ NumSelections \in Nat \ {0}
BY BallotFilesAssumption DEF LineLength

LEMMA NumbersAreTokens ==
  ASSUME NEW k \in Nat
  PROVE  /\ NumbersOf(k) \in Seq(Tokens)
         /\ Len(NumbersOf(k)) = 2 * NumSelections
         /\ \A j \in 1 .. 2 * NumSelections : NumbersOf(k)[j] = Token("number", k, j)
<1>1. \A j \in 1 .. 2 * NumSelections : Token("number", k, j) \in Tokens
  BY LineLengthNat DEF Token, Tokens
<1>2. NumbersOf(k) \in [1 .. 2 * NumSelections -> Tokens]
  BY <1>1 DEF NumbersOf
<1>3. 2 * NumSelections \in Nat
  BY LineLengthNat
<1> QED
  BY <1>2, <1>3 DEF NumbersOf

\* The tokens of a line one by one.
LEMMA LineTokens ==
  ASSUME NEW k \in Nat, NEW x \in Nat
  PROVE  /\ Line(k, x) \in Seq(Tokens)
         /\ Len(Line(k, x)) = LineLength
         /\ Line(k, x)[1] = Token("identifier", x, 0)
         /\ Line(k, x)[2] = Token("tab", 0, 0)
         /\ Line(k, x)[LineLength] = Token("newline", 0, 0)
         /\ \A p \in 1 .. 3 * NumSelections :
              Line(k, x)[p + 2] = IF p % 3 = 0 THEN Token("close", 0, 0)
                                  ELSE Token("number", k, p - p \div 3)
<1> DEFINE head == <<Token("identifier", x, 0), Token("tab", 0, 0)>>
           middle == [p \in 1 .. 3 * NumSelections |->
                        IF p % 3 = 0 THEN Token("close", 0, 0) ELSE NumbersOf(k)[p - p \div 3]]
           last == <<Token("newline", 0, 0)>>
<1>1. Line(k, x) = head \o middle \o last
  BY DEF Line
<1>2. head \in Seq(Tokens) /\ Len(head) = 2 /\ head[1] = Token("identifier", x, 0)
      /\ head[2] = Token("tab", 0, 0)
  BY DEF Token, Tokens
<1>3. last \in Seq(Tokens) /\ Len(last) = 1 /\ last[1] = Token("newline", 0, 0)
  BY DEF Token, Tokens
<1>4. \A p \in 1 .. 3 * NumSelections :
        p % 3 # 0 => p - p \div 3 \in 1 .. 2 * NumSelections
  BY LineLengthNat
<1>5. \A p \in 1 .. 3 * NumSelections :
        middle[p] = IF p % 3 = 0 THEN Token("close", 0, 0) ELSE Token("number", k, p - p \div 3)
  BY <1>4, NumbersAreTokens
<1>6. Token("close", 0, 0) \in Tokens
      /\ \A j \in 1 .. 2 * NumSelections : Token("number", k, j) \in Tokens
  BY LineLengthNat DEF Token, Tokens
<1>7. \A p \in 1 .. 3 * NumSelections : middle[p] \in Tokens
  BY <1>4, <1>5, <1>6
<1>8. middle \in [1 .. 3 * NumSelections -> Tokens]
  BY <1>7
<1> HIDE DEF middle, head, last
<1>9. 3 * NumSelections \in Nat
  BY LineLengthNat
<1>10. middle \in Seq(Tokens) /\ Len(middle) = 3 * NumSelections
  <2>1. DOMAIN middle = 1 .. 3 * NumSelections
    BY <1>8
  <2>2. middle \in Seq(Tokens)
    BY <1>8, <1>9
  <2> QED
    BY <2>1, <2>2, <1>9
<1> DEFINE front == head \o middle
<1>11. /\ front \in Seq(Tokens) /\ Len(front) = 3 * NumSelections + 2
       /\ \A p \in 1 .. 3 * NumSelections : front[p + 2] = middle[p]
       /\ front[1] = head[1] /\ front[2] = head[2]
  <2>1. /\ front \in Seq(Tokens) /\ Len(front) = Len(head) + Len(middle)
        /\ \A i \in 1 .. Len(head) + Len(middle) :
             front[i] = IF i <= Len(head) THEN head[i] ELSE middle[i - Len(head)]
    BY <1>2, <1>10, ConcatProperties
  <2>2. \A p \in 1 .. 3 * NumSelections :
          p + 2 \in 1 .. 2 + 3 * NumSelections /\ ~(p + 2 <= 2) /\ (p + 2) - 2 = p
    BY <1>9
  <2>3. \A p \in 1 .. 3 * NumSelections : front[p + 2] = middle[p]
    BY <2>1, <2>2, <1>2, <1>10
  <2> HIDE DEF front
  <2>4. front[1] = head[1] /\ front[2] = head[2]
    BY <2>1, <1>2, <1>10, <1>9
  <2> QED
    BY <2>1, <2>3, <2>4, <1>2, <1>10, <1>9
<1> HIDE DEF front
<1>12. /\ front \o last \in Seq(Tokens) /\ Len(front \o last) = LineLength
       /\ \A p \in 1 .. 3 * NumSelections + 2 : (front \o last)[p] = front[p]
       /\ (front \o last)[LineLength] = last[1]
  <2> DEFINE all == front \o last
  <2>1. /\ all \in Seq(Tokens) /\ Len(all) = Len(front) + Len(last)
        /\ \A i \in 1 .. Len(front) + Len(last) :
             all[i] = IF i <= Len(front) THEN front[i] ELSE last[i - Len(front)]
    BY <1>11, <1>3, ConcatProperties
  <2> HIDE DEF all
  <2>2. \A p \in 1 .. 3 * NumSelections + 2 : all[p] = front[p]
    BY <2>1, <1>11, <1>3, <1>9
  <2>3. all[LineLength] = last[1]
    <3>1. LineLength \in 1 .. Len(front) + Len(last) /\ ~(LineLength <= Len(front))
          /\ LineLength - Len(front) = 1
      BY <1>11, <1>3, <1>9 DEF LineLength
    <3> QED
      BY <2>1, <3>1
  <2>4. Len(all) = LineLength
    BY <2>1, <1>11, <1>3, <1>9 DEF LineLength
  <2> QED
    BY <2>1, <2>2, <2>3, <2>4 DEF all
<1>13. Line(k, x) = front \o last
  BY <1>1 DEF front
<1>14. \A p \in 1 .. 3 * NumSelections : p + 2 \in 1 .. 3 * NumSelections + 2
  BY <1>9
<1>15. 1 \in 1 .. 3 * NumSelections + 2 /\ 2 \in 1 .. 3 * NumSelections + 2
  BY <1>9
<1> QED
  BY <1>2, <1>3, <1>5, <1>11, <1>12, <1>13, <1>14, <1>15

\* Nothing is lost before the last token of what reaches the file of a line.
Beginning(part, line) ==
  /\ part \in Seq(Tokens) /\ Len(part) <= Len(line)
  /\ \A q \in 1 .. Len(part) :
       part[q].kind = line[q].kind /\ part[q].of = line[q].of /\ part[q].at = line[q].at
  /\ \A q \in 1 .. Len(part) - 1 : part[q] = line[q]

LEMMA WrittenIsBeginning ==
  ASSUME NEW line \in Seq(Tokens), NEW part \in Written(line) \cup {line}
  PROVE  Beginning(part, line)
<1>1. CASE part = line
  BY <1>1 DEF Beginning
<1>2. ASSUME NEW n \in 0 .. Len(line) - 1, part = SubSeq(line, 1, n)
      PROVE  Beginning(part, line)
  <2>1. part \in Seq(Tokens) /\ Len(part) = n /\ \A q \in 1 .. n : part[q] = line[q]
    BY <1>2
  <2> QED
    BY <2>1 DEF Beginning
<1>3. ASSUME NEW n \in 0 .. Len(line) - 1,
             part = Append(SubSeq(line, 1, n), Torn(line[n + 1]))
      PROVE  Beginning(part, line)
  <2> DEFINE front == SubSeq(line, 1, n)
             torn == Torn(line[n + 1])
  <2>1. front \in Seq(Tokens) /\ Len(front) = n /\ \A q \in 1 .. n : front[q] = line[q]
    OBVIOUS
  <2>2. n + 1 \in 1 .. Len(line) /\ line[n + 1] \in Tokens
    OBVIOUS
  <2>3. /\ torn \in Tokens /\ torn.kind = line[n + 1].kind
        /\ torn.of = line[n + 1].of /\ torn.at = line[n + 1].at
    BY <2>2, TokensAreRecords
  <2> HIDE DEF front, torn
  <2>4. part = Append(front, torn)
    BY <1>3 DEF front, torn
  <2>5. part \in Seq(Tokens) /\ Len(part) = n + 1 /\ part[n + 1] = torn
        /\ \A q \in 1 .. n : part[q] = line[q]
    BY <2>1, <2>3, <2>4
  <2> QED
    BY <2>2, <2>3, <2>5 DEF Beginning
<1> QED
  BY <1>1, <1>2, <1>3 DEF Written

\* Where a number stands: the first of a line after its identifier and a tab, the
\* second of a selection after the first, the next selection after a parenthesis.
NumberInPlace(text, ids, p) ==
  LET k == text[p].of
      j == text[p].at
  IN  /\ k \in 1 .. Len(ids) /\ j \in 1 .. 2 * NumSelections
      /\ j = 1 => /\ p > 2 /\ text[p - 1].kind = "tab"
                  /\ text[p - 2] = Token("identifier", ids[k], 0)
      /\ j % 2 = 0 => p > 1 /\ text[p - 1] = Token("number", k, j - 1)
      /\ j % 2 = 1 /\ j > 1 => /\ p > 2 /\ text[p - 1].kind = "close"
                               /\ text[p - 2] = Token("number", k, j - 1)

NumbersInPlace(text, ids) ==
  \A p \in 1 .. Len(text) : text[p].kind = "number" => NumberInPlace(text, ids, p)

LEMMA LineNumbersInPlace ==
  ASSUME NEW k \in Nat, NEW x \in Nat, NEW ids, k \in 1 .. Len(ids), ids[k] = x,
         NEW part, Beginning(part, Line(k, x))
  PROVE  NumbersInPlace(part, ids)
<1> DEFINE line == Line(k, x)
<1>1. /\ line \in Seq(Tokens) /\ Len(line) = LineLength
      /\ line[1] = Token("identifier", x, 0) /\ line[2] = Token("tab", 0, 0)
      /\ line[LineLength] = Token("newline", 0, 0)
      /\ \A p \in 1 .. 3 * NumSelections :
           line[p + 2] = IF p % 3 = 0 THEN Token("close", 0, 0)
                         ELSE Token("number", k, p - p \div 3)
  BY LineTokens
<1>2. Beginning(part, line)
  OBVIOUS
<1> HIDE DEF line
<1> SUFFICES ASSUME NEW q \in 1 .. Len(part), part[q].kind = "number"
             PROVE  NumberInPlace(part, ids, q)
  BY DEF NumbersInPlace
<1>3. q \in 1 .. LineLength /\ Len(part) \in Nat
  BY <1>1, <1>2, LineLengthNat DEF Beginning
<1>4. /\ line[q].kind = "number" /\ part[q].of = line[q].of /\ part[q].at = line[q].at
      /\ \A r \in 1 .. q - 1 : part[r] = line[r]
  BY <1>2, <1>3 DEF Beginning
<1>5. q # 1 /\ q # 2 /\ q # LineLength
  BY <1>1, <1>4 DEF Token
<1> DEFINE p == q - 2
<1>6. p \in 1 .. 3 * NumSelections /\ q = p + 2
  BY <1>3, <1>5, LineLengthNat DEF LineLength
<1> HIDE DEF p
<1>7. p % 3 # 0
  <2> SUFFICES ASSUME p % 3 = 0 PROVE FALSE
    OBVIOUS
  <2>1. line[q] = Token("close", 0, 0)
    BY <1>1, <1>6
  <2> QED
    BY <2>1, <1>4 DEF Token
<1>8. line[q] = Token("number", k, p - p \div 3)
  BY <1>1, <1>6, <1>7
<1>9. part[q].of = k /\ part[q].at = p - p \div 3
  BY <1>4, <1>8 DEF Token
<1>10. PICK a \in Nat : p = 3 * a + 1 \/ p = 3 * a + 2
  <2>1. p \div 3 \in Nat /\ p = 3 * (p \div 3) + (p % 3) /\ (p % 3) \in 0 .. 2
    BY <1>6
  <2> QED
    BY <2>1, <1>7
<1>11. CASE p = 3 * a + 1
  <2>1. p \div 3 = a /\ part[q].at = 2 * a + 1 /\ 2 * a + 1 \in 1 .. 2 * NumSelections
    <3>1. p \div 3 = a
      BY <1>11
    <3>2. p - a = 2 * a + 1 /\ 3 * a + 1 <= 3 * NumSelections
      BY <1>6, <1>11
    <3>3. 2 * a + 1 \in 1 .. 2 * NumSelections
      BY <3>2, LineLengthNat
    <3> QED
      BY <1>9, <3>1, <3>2, <3>3
  <2>2. CASE a = 0
    <3>1. q = 3
      BY <1>6, <1>11, <2>2
    <3>2. part[q - 1] = line[2] /\ part[q - 2] = line[1]
      BY <3>1, <1>4
    <3>3. part[q].at = 1 /\ part[q].of = k /\ 1 \in 1 .. 2 * NumSelections /\ 1 % 2 = 1
      BY <1>9, <2>1, <2>2
    <3>4. part[q - 1].kind = "tab" /\ part[q - 2] = Token("identifier", ids[k], 0)
      BY <1>1, <3>2 DEF Token
    <3> QED
      BY <3>1, <3>3, <3>4 DEF NumberInPlace
  <2>3. CASE a > 0
    <3>1. /\ 3 * a \in 1 .. 3 * NumSelections /\ (3 * a) % 3 = 0
          /\ 3 * a - 1 \in 1 .. 3 * NumSelections /\ (3 * a - 1) % 3 # 0
          /\ (3 * a - 1) \div 3 = a - 1
      <4>1. 3 * a \in 1 .. 3 * NumSelections /\ 3 * a - 1 \in 1 .. 3 * NumSelections
        BY <1>6, <1>11, <2>3, LineLengthNat
      <4>2. (3 * a) % 3 = 0
        OBVIOUS
      <4>3. (3 * a - 1) % 3 # 0 /\ (3 * a - 1) \div 3 = a - 1
        BY <2>3
      <4> QED
        BY <4>1, <4>2, <4>3
    <3>2. q - 1 = 3 * a + 2 /\ q - 2 = (3 * a - 1) + 2
      BY <1>6, <1>11
    <3>3. line[q - 1] = Token("close", 0, 0)
      BY <1>1, <3>1, <3>2
    <3>4. line[q - 2] = Token("number", k, (3 * a - 1) - (a - 1))
      BY <1>1, <3>1, <3>2
    <3>5. q - 1 \in 1 .. q - 1 /\ q - 2 \in 1 .. q - 1
      BY <3>2, <2>3
    <3>6. part[q - 1].kind = "close" /\ part[q - 2] = Token("number", k, 2 * a)
      <4>1. (3 * a - 1) - (a - 1) = 2 * a
        OBVIOUS
      <4>2. part[q - 1] = Token("close", 0, 0)
        BY <1>4, <3>3, <3>5
      <4>3. part[q - 2] = Token("number", k, 2 * a)
        BY <1>4, <3>4, <3>5, <4>1
      <4> QED
        BY <4>2, <4>3 DEF Token
    <3>7. (2 * a + 1) % 2 = 1 /\ 2 * a + 1 > 1 /\ (2 * a + 1) - 1 = 2 * a /\ q > 2
      BY <2>3, <3>2
    <3> QED
      BY <1>9, <2>1, <3>6, <3>7 DEF NumberInPlace
  <2> QED
    BY <2>2, <2>3
<1>12. CASE p = 3 * a + 2
  <2>1. p \div 3 = a /\ part[q].at = 2 * a + 2 /\ 2 * a + 2 \in 1 .. 2 * NumSelections
    <3>1. p \div 3 = a
      BY <1>12
    <3>2. p - a = 2 * a + 2 /\ 3 * a + 2 <= 3 * NumSelections
      BY <1>6, <1>12
    <3>3. 2 * a + 2 \in 1 .. 2 * NumSelections
      BY <3>2, LineLengthNat
    <3> QED
      BY <1>9, <3>1, <3>2, <3>3
  <2>2. 3 * a + 1 \in 1 .. 3 * NumSelections /\ (3 * a + 1) % 3 # 0 /\ (3 * a + 1) \div 3 = a
    <3>1. 3 * a + 1 \in 1 .. 3 * NumSelections
      BY <1>6, <1>12, LineLengthNat
    <3>2. (3 * a + 1) % 3 # 0 /\ (3 * a + 1) \div 3 = a
      OBVIOUS
    <3> QED
      BY <3>1, <3>2
  <2>3. q - 1 = (3 * a + 1) + 2 /\ q - 1 \in 1 .. q - 1
    BY <1>6, <1>12
  <2>4. part[q - 1] = Token("number", k, (3 * a + 1) - a)
    BY <1>1, <1>4, <2>2, <2>3
  <2>5. (2 * a + 2) % 2 = 0 /\ (2 * a + 2) - 1 = (3 * a + 1) - a /\ 2 * a + 2 # 1 /\ q > 1
    BY <2>3
  <2> QED
    BY <1>9, <2>1, <2>4, <2>5 DEF NumberInPlace
<1> QED
  BY <1>10, <1>11, <1>12

\* A line, or the beginning of one, can be put behind any text.
LEMMA AppendedInPlace ==
  ASSUME NEW text \in Seq(Tokens), NEW ids \in Seq(Nat), NumbersInPlace(text, ids),
         NEW x \in Nat,
         NEW part, Beginning(part, Line(Len(ids) + 1, x))
  PROVE  NumbersInPlace(text \o part, Append(ids, x))
<1> DEFINE k == Len(ids) + 1
           more == Append(ids, x)
           all == text \o part
<1>1. k \in Nat /\ more \in Seq(Nat) /\ Len(more) = k /\ more[k] = x
      /\ \A i \in 1 .. Len(ids) : more[i] = ids[i]
  OBVIOUS
<1>2. k \in 1 .. Len(more)
  BY <1>1
<1>3. part \in Seq(Tokens)
  BY DEF Beginning
<1>4. Len(all) = Len(text) + Len(part)
      /\ \A i \in 1 .. Len(text) + Len(part) :
           all[i] = IF i <= Len(text) THEN text[i] ELSE part[i - Len(text)]
  BY <1>3, ConcatProperties
<1>5. Len(text) \in Nat /\ Len(part) \in Nat /\ Len(ids) \in Nat
  BY <1>3
<1> HIDE DEF more, all
<1>6. NumbersInPlace(part, more)
  BY <1>1, <1>2, LineNumbersInPlace DEF k
<1>7. ASSUME NEW p \in 1 .. Len(all), all[p].kind = "number", p <= Len(text)
      PROVE  NumberInPlace(all, more, p)
  <2>1. all[p] = text[p] /\ p \in 1 .. Len(text) /\ text[p].kind = "number"
    BY <1>4, <1>7, <1>5
  <2>2. NumberInPlace(text, ids, p)
    BY <2>1 DEF NumbersInPlace
  <2>3. text[p].of \in 1 .. Len(ids) /\ text[p].of \in 1 .. Len(more)
        /\ more[text[p].of] = ids[text[p].of]
    <3>1. text[p].of \in 1 .. Len(ids)
      BY <2>2 DEF NumberInPlace
    <3>2. \A i \in 1 .. Len(ids) : i \in 1 .. Len(more) /\ more[i] = ids[i]
      BY <1>1, <1>5
    <3> QED
      BY <3>1, <3>2
  <2>4. /\ p > 1 => all[p - 1] = text[p - 1]
        /\ p > 2 => all[p - 2] = text[p - 2]
    <3>1. ASSUME NEW d \in 1 .. 2, p > d PROVE all[p - d] = text[p - d]
      <4>1. p - d \in 1 .. Len(text) + Len(part) /\ p - d <= Len(text)
        BY <1>5, <2>1, <3>1
      <4> QED
        BY <1>4, <4>1
    <3> QED
      BY <1>5, <2>1, <3>1
  <2> QED
    BY <2>1, <2>2, <2>3, <2>4 DEF NumberInPlace
<1>8. ASSUME NEW p \in 1 .. Len(all), all[p].kind = "number", ~(p <= Len(text))
      PROVE  NumberInPlace(all, more, p)
  <2> DEFINE q == p - Len(text)
  <2>1. q \in 1 .. Len(part) /\ all[p] = part[q]
    BY <1>4, <1>5, <1>8
  <2>2. part[q].kind = "number"
    BY <1>8, <2>1
  <2>3. NumberInPlace(part, more, q)
    BY <1>6, <2>1, <2>2 DEF NumbersInPlace
  <2>4. /\ q > 1 => p > 1 /\ all[p - 1] = part[q - 1]
        /\ q > 2 => p > 2 /\ all[p - 2] = part[q - 2]
    <3>1. ASSUME NEW d \in 1 .. 2, q > d PROVE p > d /\ all[p - d] = part[q - d]
      <4>1. p - d \in 1 .. Len(text) + Len(part) /\ ~(p - d <= Len(text))
            /\ (p - d) - Len(text) = q - d /\ p > d
        BY <1>4, <1>5, <1>8, <3>1
      <4> QED
        BY <4>1, <1>4
    <3> QED
      BY <3>1
  <2> DEFINE i == part[q].of
             j == part[q].at
  <2> HIDE DEF q
  <2>5. i \in 1 .. Len(more) /\ j \in 1 .. 2 * NumSelections
    BY <2>3 DEF NumberInPlace
  <2>6. j = 1 => /\ p > 2 /\ all[p - 1].kind = "tab"
                 /\ all[p - 2] = Token("identifier", more[i], 0)
    <3>1. j = 1 => /\ q > 2 /\ part[q - 1].kind = "tab"
                   /\ part[q - 2] = Token("identifier", more[i], 0)
      BY <2>3 DEF NumberInPlace
    <3>2. q > 2 => q > 1
      BY <2>1, <1>5
    <3> QED
      BY <3>1, <3>2, <2>4
  <2>7. j % 2 = 0 => p > 1 /\ all[p - 1] = Token("number", i, j - 1)
    BY <2>3, <2>4 DEF NumberInPlace
  <2>8. j % 2 = 1 /\ j > 1 => /\ p > 2 /\ all[p - 1].kind = "close"
                              /\ all[p - 2] = Token("number", i, j - 1)
    <3>1. j % 2 = 1 /\ j > 1 => /\ q > 2 /\ part[q - 1].kind = "close"
                                /\ part[q - 2] = Token("number", i, j - 1)
      BY <2>3 DEF NumberInPlace
    <3>2. q > 2 => q > 1
      BY <2>1, <1>5
    <3> QED
      BY <3>1, <3>2, <2>4
  <2> QED
    BY <2>1, <2>5, <2>6, <2>7, <2>8 DEF NumberInPlace
<1> QED
  BY <1>7, <1>8 DEF NumbersInPlace, all, more

------------------------------------------------------------------------------
(* Reading the file.                                                       *)

Text ==
  /\ file \in Seq(Tokens)
  /\ encryptions \in Seq(Nat)
  /\ NumbersInPlace(file, encryptions)

Readings ==
  [status : {"SUCCESS", "IO_ERROR", "END_OF_FILE"},
   pos : Nat \ {0}, identifier : Seq(Tokens), selections : Seq(Tokens)]

LEMMA KindAtToken ==
  ASSUME Text, NEW p \in Nat \ {0}
  PROVE  /\ KindAt(p) # "end" <=> p \in 1 .. Len(file)
         /\ p \in 1 .. Len(file) => file[p] \in Tokens /\ KindAt(p) = file[p].kind
<1>1. Len(file) \in Nat /\ \A i \in 1 .. Len(file) : file[i] \in Tokens
  BY DEF Text
<1>2. CASE p > Len(file)
  BY <1>1, <1>2 DEF KindAt
<1>3. CASE ~(p > Len(file))
  <2>1. p \in 1 .. Len(file) /\ KindAt(p) = file[p].kind /\ file[p] \in Tokens
    BY <1>1, <1>3 DEF KindAt
  <2>2. file[p].kind # "end"
    BY <2>1 DEF Tokens
  <2> QED
    BY <2>1, <2>2
<1> QED
  BY <1>2, <1>3

\* What was read are the first numbers of a ballot encrypted for x, and a number
\* that comes next is the next of them.
ReadsBallotOf(x, r, j) ==
  \E k \in Nat :
    /\ \A i \in 1 .. j : /\ r.selections[i].kind = "number"
                         /\ r.selections[i].of = k /\ r.selections[i].at = i
    /\ j > 0 => k \in 1 .. Len(encryptions) /\ encryptions[k] = x
    /\ KindAt(r.pos) = "number" =>
         /\ file[r.pos].of = k /\ file[r.pos].at = j + 1
         /\ k \in 1 .. Len(encryptions) /\ encryptions[k] = x

LEMMA ScanReads ==
  ASSUME Text, NEW j \in Nat \ {0}, NEW r \in Readings,
         r.status = "SUCCESS" => Len(r.selections) = j - 1
  PROVE  /\ Scan(r, j) \in Readings
         /\ Scan(r, j).identifier = r.identifier
         /\ Scan(r, j).status = "SUCCESS" =>
              /\ r.status = "SUCCESS" /\ KindAt(r.pos) = "number"
              /\ Len(Scan(r, j).selections) = j
              /\ Scan(r, j).selections[j] = file[r.pos]
              /\ \A i \in 1 .. j - 1 : Scan(r, j).selections[i] = r.selections[i]
              /\ Scan(r, j).pos =
                   IF j % 2 = 0 /\ KindAt(r.pos + 1) = "close" THEN r.pos + 2 ELSE r.pos + 1
<1>1. CASE r.status # "SUCCESS"
  BY <1>1 DEF Scan
<1>2. CASE r.status = "SUCCESS" /\ (KindAt(r.pos) # "number" \/ KindAt(r.pos + 1) = "end")
  <2>1. Scan(r, j) = [r EXCEPT !.status = "IO_ERROR"]
    BY <1>2 DEF Scan
  <2>2. Scan(r, j) \in Readings
    BY <2>1 DEF Readings
  <2>3. Scan(r, j).identifier = r.identifier /\ Scan(r, j).status = "IO_ERROR"
    BY <2>1 DEF Readings
  <2> QED
    BY <2>2, <2>3
<1>3. CASE r.status = "SUCCESS" /\ KindAt(r.pos) = "number" /\ KindAt(r.pos + 1) # "end"
  <2> DEFINE next == IF j % 2 = 0 /\ KindAt(r.pos + 1) = "close" THEN r.pos + 2 ELSE r.pos + 1
             sels == Append(r.selections, file[r.pos])
  <2>1. r.pos \in Nat \ {0} /\ r.selections \in Seq(Tokens) /\ Len(r.selections) = j - 1
    BY <1>3 DEF Readings
  <2>2. file[r.pos] \in Tokens
    BY <1>3, <2>1, KindAtToken
  <2>3. /\ sels \in Seq(Tokens) /\ Len(sels) = j /\ sels[j] = file[r.pos]
        /\ \A i \in 1 .. j - 1 : sels[i] = r.selections[i]
    BY <2>1, <2>2
  <2>4. next \in Nat \ {0}
    BY <2>1
  <2>5. Scan(r, j) = [r EXCEPT !.selections = sels, !.pos = next]
    BY <1>3 DEF Scan
  <2> HIDE DEF sels, next
  <2>6. /\ Scan(r, j) \in Readings /\ Scan(r, j).identifier = r.identifier
        /\ Scan(r, j).selections = sels /\ Scan(r, j).pos = next
    BY <2>3, <2>4, <2>5 DEF Readings
  <2> QED
    BY <1>3, <2>3, <2>6 DEF next
<1> QED
  BY <1>1, <1>2, <1>3

LEMMA ScanKeepsBallot ==
  ASSUME Text, NEW j \in Nat \ {0}, NEW r \in Readings, NEW x,
         r.status = "SUCCESS" => Len(r.selections) = j - 1,
         r.status = "SUCCESS" => ReadsBallotOf(x, r, j - 1),
         Scan(r, j).status = "SUCCESS"
  PROVE  ReadsBallotOf(x, Scan(r, j), j)
<1> DEFINE s == Scan(r, j)
           q == s.pos
<1>1. /\ s \in Readings /\ r.status = "SUCCESS" /\ KindAt(r.pos) = "number"
      /\ s.selections[j] = file[r.pos]
      /\ \A i \in 1 .. j - 1 : s.selections[i] = r.selections[i]
      /\ q = IF j % 2 = 0 /\ KindAt(r.pos + 1) = "close" THEN r.pos + 2 ELSE r.pos + 1
  BY ScanReads
<1> HIDE DEF s
<1>2. ReadsBallotOf(x, r, j - 1)
  BY <1>1
<1>3. PICK k \in Nat :
        /\ \A i \in 1 .. j - 1 : /\ r.selections[i].kind = "number"
                                 /\ r.selections[i].of = k /\ r.selections[i].at = i
        /\ file[r.pos].of = k /\ file[r.pos].at = (j - 1) + 1
        /\ k \in 1 .. Len(encryptions) /\ encryptions[k] = x
  BY <1>1, <1>2 DEF ReadsBallotOf
<1>4. r.pos \in Nat \ {0} /\ q \in Nat \ {0}
  BY <1>1 DEF Readings
<1>5. file[r.pos] \in Tokens /\ file[r.pos].kind = "number"
  BY <1>1, <1>4, KindAtToken
<1>6. \A i \in 1 .. j : /\ s.selections[i].kind = "number"
                       /\ s.selections[i].of = k /\ s.selections[i].at = i
  <2> SUFFICES ASSUME NEW i \in 1 .. j
               PROVE  /\ s.selections[i].kind = "number"
                      /\ s.selections[i].of = k /\ s.selections[i].at = i
    OBVIOUS
  <2>1. CASE i = j
    BY <1>1, <1>3, <1>5, <2>1
  <2>2. CASE i # j
    BY <1>1, <1>3, <2>2
  <2> QED
    BY <2>1, <2>2
<1>7. ASSUME KindAt(q) = "number"
      PROVE  file[q].of = k /\ file[q].at = j + 1
  <2>1. q \in 1 .. Len(file) /\ file[q].kind = "number" /\ file[q] \in Tokens
    BY <1>4, <1>7, KindAtToken
  <2>2. NumberInPlace(file, encryptions, q)
    BY <2>1 DEF Text, NumbersInPlace
  <2> DEFINE l == file[q].of
             m == file[q].at
  <2>3. /\ m \in Nat \ {0}
        /\ m = 1 => file[q - 1].kind = "tab"
        /\ m % 2 = 0 => file[q - 1] = Token("number", l, m - 1)
        /\ m % 2 = 1 /\ m > 1 => /\ file[q - 1].kind = "close"
                                 /\ file[q - 2] = Token("number", l, m - 1)
    BY <2>2 DEF NumberInPlace
  <2> HIDE DEF l, m
  <2>4. m % 2 = 0 \/ m % 2 = 1
    BY <2>3
  <2>5. CASE q = r.pos + 1
    <3>1. file[q - 1] = file[r.pos]
      BY <1>4, <2>5
    <3>2. m % 2 = 0
      BY <1>5, <2>3, <2>4, <3>1
    <3>3. file[r.pos] = Token("number", l, m - 1)
      BY <2>3, <3>1, <3>2
    <3> QED
      BY <1>3, <2>3, <3>3 DEF Token, l, m
  <2>6. CASE q = r.pos + 2 /\ KindAt(r.pos + 1) = "close"
    <3>1. file[q - 2] = file[r.pos] /\ file[q - 1] = file[r.pos + 1]
      BY <1>4, <2>6
    <3>2. file[r.pos + 1].kind = "close"
      BY <1>4, <2>6, KindAtToken
    <3>3. m % 2 = 1 /\ m > 1
      BY <2>3, <2>4, <3>1, <3>2 DEF Token
    <3>4. file[r.pos] = Token("number", l, m - 1)
      BY <2>3, <3>1, <3>3
    <3> QED
      BY <1>3, <2>3, <3>4 DEF Token, l, m
  <2> QED
    BY <1>1, <2>5, <2>6
<1> QED
  BY <1>3, <1>6, <1>7 DEF ReadsBallotOf, s

Scans == INSTANCE FoldsAndLoops WITH Op <- Scan, Base <- 0, D <- Nat

LEMMA IdentifierEnds ==
  ASSUME Text, NEW start \in 1 .. Len(file)
  PROVE  /\ IdentifierEnd(start) \in start .. Len(file) + 1
         /\ KindAt(IdentifierEnd(start)) # "identifier"
         /\ \A q \in start .. IdentifierEnd(start) - 1 : KindAt(q) = "identifier"
<1>1. Len(file) \in Nat
  BY DEF Text
<1> DEFINE others == {p \in start .. Len(file) + 1 : KindAt(p) # "identifier"}
<1>2. Len(file) + 1 \in others
  BY <1>1 DEF KindAt
<1>3. others \in SUBSET Nat /\ others # {}
  BY <1>1, <1>2
<1>4. PICK p \in others : \A q \in others : p <= q
  <2> HIDE DEF others
  <2> QED
    BY <1>3, Scans!LeastNumber
<1>5. /\ p \in start .. Len(file) + 1 /\ KindAt(p) # "identifier"
      /\ \A q \in start .. p - 1 : KindAt(q) = "identifier"
  BY <1>1, <1>4
<1> HIDE DEF others
<1> QED
  BY <1>5 DEF IdentifierEnd

LEMMA IdentifiedReads ==
  ASSUME Text, NEW start \in 1 .. Len(file)
  PROVE  /\ Identified(start) \in Readings
         /\ Identified(start).status = "SUCCESS"
         /\ Len(Identified(start).selections) = 0
<1> DEFINE end == IdentifierEnd(start)
<1>1. end \in start .. Len(file) + 1
  BY IdentifierEnds
<1> HIDE DEF end
<1>2. Len(file) \in Nat /\ file \in Seq(Tokens)
  BY DEF Text
<1>3. SubSeq(file, start, end - 1) \in Seq(Tokens)
  <2>1. \A i \in start .. end - 1 : i \in 1 .. Len(file)
    BY <1>1, <1>2
  <2> QED
    BY <1>1, <1>2, <2>1
<1>4. (IF KindAt(end) = "tab" THEN end + 1 ELSE end) \in Nat \ {0}
  BY <1>1, <1>2
<1>5. <<>> \in Seq(Tokens) /\ Len(<<>>) = 0
  OBVIOUS
<1>6. Identified(start) =
        [status |-> "SUCCESS", pos |-> IF KindAt(end) = "tab" THEN end + 1 ELSE end,
         identifier |-> SubSeq(file, start, end - 1), selections |-> <<>>]
  BY DEF Identified, end
<1> QED
  BY <1>3, <1>4, <1>5, <1>6 DEF Readings

LEMMA IdentifiedIsBeforeItsNumbers ==
  ASSUME Text, NEW start \in 1 .. Len(file), NEW x \in Nat,
         Identified(start).identifier = WholeIdentifier(x)
  PROVE  ReadsBallotOf(x, Identified(start), 0)
<1> DEFINE end == IdentifierEnd(start)
           q == Identified(start).pos
<1>1. end \in start .. Len(file) + 1 /\ KindAt(end) # "identifier"
  BY IdentifierEnds
<1>2. Len(file) \in Nat /\ file \in Seq(Tokens)
  BY DEF Text
<1>3. SubSeq(file, start, end - 1) = <<Token("identifier", x, 0)>>
  BY DEF Identified, WholeIdentifier
<1>4. q = IF KindAt(end) = "tab" THEN end + 1 ELSE end
  BY DEF Identified
<1> DEFINE one == <<Token("identifier", x, 0)>>
<1>11. Len(one) = 1 /\ one[1] = Token("identifier", x, 0)
  OBVIOUS
<1> HIDE DEF end, q, one
<1>12. SubSeq(file, start, end - 1) = one
  BY <1>3 DEF one
<1>5. end - 1 = start
  <2>1. Len(SubSeq(file, start, end - 1)) = 1
    BY <1>11, <1>12
  <2>2. \A i \in start .. end - 1 : i \in 1 .. Len(file)
    BY <1>1, <1>2
  <2>3. Len(SubSeq(file, start, end - 1)) = IF start <= end - 1 THEN (end - 1) - start + 1 ELSE 0
    BY <1>1, <1>2
  <2> QED
    BY <1>1, <1>2, <2>1, <2>3
<1>6. file[start] = Token("identifier", x, 0)
  <2>1. SubSeq(file, start, start)[1] = file[start]
    BY <1>2
  <2>2. SubSeq(file, start, start) = one
    BY <1>5, <1>12
  <2> QED
    BY <1>11, <2>1, <2>2
<1>7. q \in Nat \ {0}
  BY <1>1, <1>2, <1>4
<1>8. ASSUME KindAt(q) = "number"
      PROVE  /\ file[q].at = 1
             /\ file[q].of \in 1 .. Len(encryptions) /\ encryptions[file[q].of] = x
  <2>1. q \in 1 .. Len(file) /\ file[q].kind = "number" /\ file[q] \in Tokens
    BY <1>7, <1>8, KindAtToken
  <2>2. NumberInPlace(file, encryptions, q)
    BY <2>1 DEF Text, NumbersInPlace
  <2> DEFINE l == file[q].of
             m == file[q].at
  <2>3. /\ l \in 1 .. Len(encryptions) /\ m \in Nat \ {0}
        /\ m = 1 => /\ file[q - 1].kind = "tab"
                    /\ file[q - 2] = Token("identifier", encryptions[l], 0)
        /\ m % 2 = 0 => file[q - 1] = Token("number", l, m - 1)
        /\ m % 2 = 1 /\ m > 1 => file[q - 1].kind = "close"
    BY <2>2 DEF NumberInPlace
  <2> HIDE DEF l, m
  <2>4. m % 2 = 0 \/ m % 2 = 1
    BY <2>3
  <2>5. file[q - 1].kind # "number" /\ file[q - 1].kind # "close" => m = 1
    BY <2>3, <2>4 DEF Token
  <2>6. CASE q = end
    <3>1. file[q - 1].kind = "identifier"
      BY <1>5, <1>6, <2>6 DEF Token
    <3> QED
      BY <2>3, <2>5, <3>1
  <2>7. CASE q = end + 1 /\ KindAt(end) = "tab"
    <3>1. q - 1 = end /\ q - 2 = start /\ end \in Nat \ {0}
      BY <1>1, <1>2, <1>5, <2>7
    <3>2. file[end].kind = "tab"
      BY <2>7, <3>1, KindAtToken
    <3>3. m = 1
      BY <2>5, <3>1, <3>2
    <3>4. Token("identifier", encryptions[l], 0) = Token("identifier", x, 0)
      BY <1>6, <2>3, <3>1, <3>3
    <3> QED
      BY <2>3, <3>3, <3>4 DEF Token, l, m
  <2> QED
    BY <1>4, <2>6, <2>7
<1> DEFINE k == IF KindAt(q) = "number" THEN file[q].of ELSE 0
<1>9. k \in Nat /\ (KindAt(q) = "number" => k = file[q].of)
  BY <1>8
<1> HIDE DEF k
<1>10. \A i \in 1 .. 0 : FALSE
  OBVIOUS
<1> QED
  BY <1>8, <1>9, <1>10 DEF ReadsBallotOf, q

LEMMA ReadBallotIsScans ==
  ASSUME Text, NEW pos \in Nat \ {0}
  PROVE  /\ LineStart(pos) \in Nat \ {0}
         /\ LineStart(pos) \notin 1 .. Len(file) =>
              Voting_Coordinator_read_ballot(pos) =
                [status |-> "END_OF_FILE", pos |-> LineStart(pos),
                 identifier |-> <<>>, selections |-> <<>>]
         /\ LineStart(pos) \in 1 .. Len(file) =>
              Voting_Coordinator_read_ballot(pos) =
                Scans!Loop(Identified(LineStart(pos)), 2 * NumSelections)[2 * NumSelections]
<1>1. LineStart(pos) \in Nat \ {0}
  BY DEF LineStart
<1>2. KindAt(LineStart(pos)) # "end" <=> LineStart(pos) \in 1 .. Len(file)
  BY <1>1, KindAtToken
<1> DEFINE scanned ==
             CHOOSE g : g = [j \in 0 .. 2 * NumSelections |->
                               IF j = 0 THEN Identified(LineStart(pos)) ELSE Scan(g[j - 1], j)]
<1>3. scanned = Scans!Loop(Identified(LineStart(pos)), 2 * NumSelections)
  BY DEF Scans!Loop, Scans!Goes
<1>4. Voting_Coordinator_read_ballot(pos) =
        IF KindAt(LineStart(pos)) = "end"
        THEN [status |-> "END_OF_FILE", pos |-> LineStart(pos),
              identifier |-> <<>>, selections |-> <<>>]
        ELSE scanned[2 * NumSelections]
  BY DEF Voting_Coordinator_read_ballot
<1> HIDE DEF scanned
<1> QED
  BY <1>1, <1>2, <1>3, <1>4

\* A ballot that is read has the numbers of one that was encrypted for its
\* identifier, if it has one that is whole.
ReadAsEncrypted(r) ==
  /\ r.selections \in Seq(Tokens) /\ Len(r.selections) = 2 * NumSelections
  /\ \A x \in Nat : r.identifier = WholeIdentifier(x)
                     => ReadsBallotOf(x, r, 2 * NumSelections)

LEMMA BallotIsReadAsEncrypted ==
  ASSUME Text, NEW pos \in Nat \ {0}
  PROVE  /\ Voting_Coordinator_read_ballot(pos) \in Readings
         /\ Voting_Coordinator_read_ballot(pos).status = "SUCCESS"
              => ReadAsEncrypted(Voting_Coordinator_read_ballot(pos))
<1> DEFINE n == 2 * NumSelections
           start == LineStart(pos)
           result0 == Voting_Coordinator_read_ballot(pos)
<1>1. n \in Nat /\ start \in Nat \ {0}
  BY LineLengthNat, ReadBallotIsScans
<1>2. CASE start \notin 1 .. Len(file)
  <2>1. result0 = [status |-> "END_OF_FILE", pos |-> start,
                   identifier |-> <<>>, selections |-> <<>>]
    BY <1>2, ReadBallotIsScans
  <2>2. <<>> \in Seq(Tokens)
    OBVIOUS
  <2> QED
    BY <1>1, <2>1, <2>2 DEF Readings
<1>3. CASE start \in 1 .. Len(file)
  <2> DEFINE base == Identified(start)
             g == Scans!Loop(base, n)
             Kept(j, r) ==
               /\ r.identifier = base.identifier
               /\ r.status = "SUCCESS" =>
                    /\ Len(r.selections) = j
                    /\ \A x \in Nat : base.identifier = WholeIdentifier(x) => ReadsBallotOf(x, r, j)
             Holds == {z \in (0 .. n) \X Readings : Kept(z[1], z[2])}
  <2>1. result0 = g[n]
    BY <1>3, ReadBallotIsScans
  <2>2. <<0, base>> \in Holds
    <3>1. base \in Readings /\ Len(base.selections) = 0
      BY <1>3, IdentifiedReads
    <3>2. \A x \in Nat : base.identifier = WholeIdentifier(x) => ReadsBallotOf(x, base, 0)
      BY <1>3, IdentifiedIsBeforeItsNumbers
    <3> HIDE DEF base
    <3>3. Kept(0, base)
      BY <3>1, <3>2
    <3> HIDE DEF Kept
    <3> QED
      BY <3>1, <3>3, <1>1
  <2>3. ASSUME NEW j \in 1 .. n, <<j - 1, g[j - 1]>> \in Holds
        PROVE  <<j, Scan(g[j - 1], j)>> \in Holds
    <3> DEFINE r == g[j - 1]
    <3>1. r \in Readings /\ Kept(j - 1, r)
      <4> HIDE DEF Kept, r
      <4> QED
        BY <2>3 DEF r
    <3> HIDE DEF g, base, r
    <3>2. r.status = "SUCCESS" => Len(r.selections) = j - 1
      BY <3>1
    <3>3. /\ Scan(r, j) \in Readings /\ Scan(r, j).identifier = r.identifier
          /\ Scan(r, j).status = "SUCCESS" => Len(Scan(r, j).selections) = j
      BY <3>1, <3>2, <1>1, ScanReads
    <3>4. ASSUME Scan(r, j).status = "SUCCESS", NEW x \in Nat,
                 base.identifier = WholeIdentifier(x)
          PROVE  ReadsBallotOf(x, Scan(r, j), j)
      <4>1. r.status = "SUCCESS" => ReadsBallotOf(x, r, j - 1)
        BY <3>1, <3>4
      <4> QED
        BY <3>1, <3>2, <3>4, <4>1, <1>1, ScanKeepsBallot
    <3>5. Kept(j, Scan(r, j))
      BY <3>1, <3>3, <3>4
    <3> HIDE DEF Kept
    <3> QED
      BY <3>3, <3>5, <1>1 DEF r
  <2>4. <<n, g[n]>> \in Holds
    <3> HIDE DEF Holds, n, base
    <3> QED
      BY <2>2, <2>3, <1>1, Scans!LoopKeeps
  <2>5. result0 \in Readings /\ Kept(n, result0)
    <3> HIDE DEF Kept, n, g, result0
    <3> QED
      BY <2>1, <2>4
  <2> HIDE DEF g, base, result0, n
  <2>6. result0.status = "SUCCESS" => ReadAsEncrypted(result0)
    BY <2>5 DEF ReadAsEncrypted, Readings, n
  <2> QED
    BY <2>5, <2>6 DEF result0
<1> QED
  BY <1>2, <1>3

Imports == INSTANCE FoldsAndLoops WITH Op <- ImportNext, Base <- 0, D <- Nat

LoadedBallots == [identifier : Seq(Tokens), id : Nat, selections : Seq(Tokens)]
ImportResults ==
  [status : {"SUCCESS", "IO_ERROR", "END_OF_FILE"},
   pos : Nat \ {0}, ballots : Seq(LoadedBallots)]
NothingImported == [status |-> "SUCCESS", pos |-> 1, ballots |-> <<>>]

LEMMA ImportIsLoop ==
  ASSUME NEW number \in Nat
  PROVE  Voting_Coordinator_import_encrypted_ballots(number) =
           Imports!Loop(NothingImported, number)[number]
BY DEF Voting_Coordinator_import_encrypted_ballots, NothingImported,
       Imports!Loop, Imports!Goes

NumbersAreOf(selections, k) ==
  \A j \in 1 .. 2 * NumSelections :
    /\ selections[j].kind = "number" /\ selections[j].of = k /\ selections[j].at = j

\* The same of a ballot in memory.
AsEncrypted(b) ==
  /\ Len(b.selections) = 2 * NumSelections
  /\ \A x \in Nat : b.identifier = WholeIdentifier(x) =>
       \E k \in 1 .. Len(encryptions) : encryptions[k] = x /\ NumbersAreOf(b.selections, k)

LEMMA ImportNextReads ==
  ASSUME Text, NEW i \in Nat \ {0}, NEW acc \in ImportResults,
         \A m \in 1 .. Len(acc.ballots) : AsEncrypted(acc.ballots[m])
  PROVE  /\ ImportNext(acc, i) \in ImportResults
         /\ \A m \in 1 .. Len(ImportNext(acc, i).ballots) :
              AsEncrypted(ImportNext(acc, i).ballots[m])
<1> DEFINE r == Voting_Coordinator_read_ballot(acc.pos)
           new == [identifier |-> r.identifier, id |-> i - 1, selections |-> r.selections]
<1>1. CASE acc.status # "SUCCESS"
  BY <1>1 DEF ImportNext
<1>2. CASE acc.status = "SUCCESS"
  <2>1. acc.pos \in Nat \ {0} /\ acc.ballots \in Seq(LoadedBallots)
    BY DEF ImportResults
  <2>2. r \in Readings /\ (r.status = "SUCCESS" => ReadAsEncrypted(r))
    BY <2>1, BallotIsReadAsEncrypted
  <2>3. ImportNext(acc, i) =
          [status |-> r.status, pos |-> r.pos,
           ballots |-> IF r.status # "SUCCESS" THEN acc.ballots ELSE Append(acc.ballots, new)]
    BY <1>2 DEF ImportNext
  <2> HIDE DEF r
  <2>4. r.status \in {"SUCCESS", "IO_ERROR", "END_OF_FILE"} /\ r.pos \in Nat \ {0}
        /\ new \in LoadedBallots
    BY <2>2 DEF Readings, LoadedBallots
  <2>5. CASE r.status # "SUCCESS"
    <3>1. ImportNext(acc, i) = [status |-> r.status, pos |-> r.pos, ballots |-> acc.ballots]
      BY <2>3, <2>5
    <3> QED
      BY <2>1, <2>4, <3>1 DEF ImportResults
  <2>6. CASE r.status = "SUCCESS"
    <3>1. AsEncrypted(new)
      <4>1. /\ r.selections \in Seq(Tokens) /\ Len(r.selections) = 2 * NumSelections
            /\ \A x \in Nat : r.identifier = WholeIdentifier(x)
                              => ReadsBallotOf(x, r, 2 * NumSelections)
        BY <2>2, <2>6 DEF ReadAsEncrypted
      <4>2. ASSUME NEW x \in Nat, r.identifier = WholeIdentifier(x)
            PROVE  \E k \in 1 .. Len(encryptions) :
                     encryptions[k] = x /\ NumbersAreOf(r.selections, k)
        <5>1. 2 * NumSelections > 0
          BY LineLengthNat
        <5>2. ReadsBallotOf(x, r, 2 * NumSelections)
          BY <4>1, <4>2
        <5> QED
          BY <5>1, <5>2 DEF ReadsBallotOf, NumbersAreOf
      <4> QED
        BY <4>1, <4>2 DEF AsEncrypted
    <3> HIDE DEF new
    <3> DEFINE all == Append(acc.ballots, new)
    <3>2. all \in Seq(LoadedBallots) /\ Len(all) = Len(acc.ballots) + 1
          /\ all[Len(acc.ballots) + 1] = new
          /\ \A m \in 1 .. Len(acc.ballots) : all[m] = acc.ballots[m]
      BY <2>1, <2>4
    <3>3. ImportNext(acc, i) = [status |-> r.status, pos |-> r.pos, ballots |-> all]
      BY <2>3, <2>6
    <3> HIDE DEF all
    <3>4. \A m \in 1 .. Len(all) : AsEncrypted(all[m])
      <4> SUFFICES ASSUME NEW m \in 1 .. Len(all) PROVE AsEncrypted(all[m])
        OBVIOUS
      <4>1. m \in 1 .. Len(acc.ballots) \/ m = Len(acc.ballots) + 1
        BY <2>1, <3>2
      <4> QED
        BY <3>1, <3>2, <4>1
    <3> QED
      BY <2>4, <3>2, <3>3, <3>4 DEF ImportResults
  <2> QED
    BY <2>5, <2>6
<1> QED
  BY <1>1, <1>2

LEMMA ImportReads ==
  ASSUME Text, NEW number \in Nat
  PROVE  /\ Voting_Coordinator_import_encrypted_ballots(number) \in ImportResults
         /\ \A m \in 1 .. Len(Voting_Coordinator_import_encrypted_ballots(number).ballots) :
              AsEncrypted(Voting_Coordinator_import_encrypted_ballots(number).ballots[m])
<1> DEFINE g == Imports!Loop(NothingImported, number)
           Kept(acc) == \A m \in 1 .. Len(acc.ballots) : AsEncrypted(acc.ballots[m])
           Holds == {z \in (0 .. number) \X ImportResults : Kept(z[2])}
<1>1. <<0, NothingImported>> \in Holds
  <2>1. NothingImported \in ImportResults /\ Len(NothingImported.ballots) = 0
    <3>1. <<>> \in Seq(LoadedBallots) /\ Len(<<>>) = 0
      OBVIOUS
    <3> QED
      BY <3>1 DEF NothingImported, ImportResults
  <2>2. Kept(NothingImported)
    BY <2>1
  <2> HIDE DEF Kept
  <2> QED
    BY <2>1, <2>2
<1>2. ASSUME NEW j \in 1 .. number, <<j - 1, g[j - 1]>> \in Holds
      PROVE  <<j, ImportNext(g[j - 1], j)>> \in Holds
  <2> DEFINE acc == g[j - 1]
  <2>1. acc \in ImportResults /\ Kept(acc)
    <3> HIDE DEF Kept, acc
    <3> QED
      BY <1>2 DEF acc
  <2> HIDE DEF g, acc
  <2>2. ImportNext(acc, j) \in ImportResults /\ Kept(ImportNext(acc, j))
    BY <2>1, ImportNextReads
  <2> HIDE DEF Kept
  <2> QED
    BY <2>2 DEF acc
<1>3. <<number, g[number]>> \in Holds
  <2> HIDE DEF Holds
  <2> QED
    BY <1>1, <1>2, Imports!LoopKeeps
<1>4. g[number] \in ImportResults /\ Kept(g[number])
  <2> HIDE DEF Kept, g
  <2> QED
    BY <1>3
<1> QED
  BY <1>4, ImportIsLoop

------------------------------------------------------------------------------
(* The files and what is loaded from them.                                 *)

Receipts == [ballot : Nat, id : Nat]

ReceiptsInv ==
  /\ count \in Nat
  /\ receipts \in Seq(Receipts)
  /\ \A i \in 1 .. Len(receipts) : receipts[i].ballot \in 1 .. Len(encryptions)

LoadedInv ==
  /\ loaded \in [status : {"NONE", "SUCCESS", "UNDEFINED_ERROR"},
                 ballots : Seq(LoadedBallots), receipts : Nat]
  /\ \A i \in 1 .. Len(loaded.ballots) : AsEncrypted(loaded.ballots[i])

FilesInv == Text /\ ReceiptsInv /\ LoadedInv

LEMMA NothingLoaded == loaded' = NotLoaded => LoadedInv'
<1> SUFFICES ASSUME loaded' = NotLoaded PROVE LoadedInv'
  OBVIOUS
<1>1. <<>> \in Seq(LoadedBallots) /\ Len(<<>>) = 0
  OBVIOUS
<1>2. NotLoaded.ballots = <<>> /\ NotLoaded.status = "NONE" /\ NotLoaded.receipts = 0
  BY DEF NotLoaded
<1>3. NotLoaded \in [status : {"NONE", "SUCCESS", "UNDEFINED_ERROR"},
                    ballots : Seq(LoadedBallots), receipts : Nat]
  BY <1>1 DEF NotLoaded
<1>4. Len(NotLoaded.ballots) = 0
  BY <1>1, <1>2
<1>5. \A i \in 1 .. Len(NotLoaded.ballots) : FALSE
  BY <1>4
<1> QED
  BY <1>3, <1>5 DEF LoadedInv

\* A ballot that was encrypted stays so.
LEMMA EncryptionsGrow ==
  ASSUME FilesInv, NEW x \in Identifier, encryptions' = Append(encryptions, x)
  PROVE  /\ encryptions' \in Seq(Nat) /\ Len(encryptions') = Len(encryptions) + 1
         /\ encryptions'[Len(encryptions')] = x
         /\ \A k \in 1 .. Len(encryptions) :
              k \in 1 .. Len(encryptions') /\ encryptions'[k] = encryptions[k]
         /\ \A b : AsEncrypted(b) => AsEncrypted(b)'
         /\ UNCHANGED loaded => LoadedInv'
<1>1. encryptions \in Seq(Nat) /\ x \in Nat
  BY DEF FilesInv, Text, Identifier
<1>2. /\ encryptions' \in Seq(Nat) /\ Len(encryptions') = Len(encryptions) + 1
      /\ encryptions'[Len(encryptions')] = x
      /\ \A k \in 1 .. Len(encryptions) :
           k \in 1 .. Len(encryptions') /\ encryptions'[k] = encryptions[k]
  BY <1>1
<1>3. ASSUME NEW b, AsEncrypted(b) PROVE AsEncrypted(b)'
  BY <1>2, <1>3 DEF AsEncrypted
<1>4. UNCHANGED loaded => LoadedInv'
  BY <1>3 DEF FilesInv, LoadedInv
<1> QED
  BY <1>2, <1>3, <1>4

LEMMA TextGrows ==
  ASSUME FilesInv, NEW x \in Identifier, encryptions' = Append(encryptions, x),
         NEW part \in Written(Line(Len(encryptions'), x)) \cup {Line(Len(encryptions'), x)},
         file' = file \o part
  PROVE  Text'
<1>1. /\ file \in Seq(Tokens) /\ encryptions \in Seq(Nat) /\ NumbersInPlace(file, encryptions)
      /\ x \in Nat
  BY DEF FilesInv, Text, Identifier
<1>2. Len(encryptions') = Len(encryptions) + 1 /\ encryptions' \in Seq(Nat)
      /\ Len(encryptions') \in Nat
  BY EncryptionsGrow
<1>3. Line(Len(encryptions'), x) \in Seq(Tokens)
  BY <1>1, <1>2, LineTokens
<1>4. Beginning(part, Line(Len(encryptions'), x))
  BY <1>3, WrittenIsBeginning
<1>5. NumbersInPlace(file \o part, Append(encryptions, x))
  BY <1>1, <1>2, <1>4, AppendedInPlace
<1>6. part \in Seq(Tokens)
  BY <1>4 DEF Beginning
<1>7. file' \in Seq(Tokens)
  BY <1>1, <1>6, ConcatProperties
<1> QED
  BY <1>2, <1>5, <1>7 DEF Text

LEMMA TextStays ==
  ASSUME FilesInv, NEW x \in Identifier, encryptions' = Append(encryptions, x),
         file' = file
  PROVE  Text'
<1>1. file \in Seq(Tokens) /\ NumbersInPlace(file, encryptions)
  BY DEF FilesInv, Text
<1>2. /\ encryptions' \in Seq(Nat)
      /\ \A k \in 1 .. Len(encryptions) :
           k \in 1 .. Len(encryptions') /\ encryptions'[k] = encryptions[k]
  BY EncryptionsGrow
<1>3. ASSUME NEW p \in 1 .. Len(file), file[p].kind = "number"
      PROVE  NumberInPlace(file, encryptions', p)
  <2>1. NumberInPlace(file, encryptions, p)
    BY <1>1, <1>3 DEF NumbersInPlace
  <2> QED
    BY <1>2, <2>1 DEF NumberInPlace
<1>4. NumbersInPlace(file, encryptions')
  BY <1>3 DEF NumbersInPlace
<1> QED
  BY <1>1, <1>2, <1>4 DEF Text

LEMMA ReceiptsGrow ==
  ASSUME FilesInv, NEW x \in Identifier, encryptions' = Append(encryptions, x),
         count' = count + 1,
         \/ UNCHANGED receipts
         \/ receipts' = Append(receipts, [ballot |-> Len(encryptions'), id |-> count])
  PROVE  ReceiptsInv'
<1>1. count \in Nat /\ receipts \in Seq(Receipts)
      /\ \A i \in 1 .. Len(receipts) : receipts[i].ballot \in 1 .. Len(encryptions)
  BY DEF FilesInv, ReceiptsInv
<1>2. /\ Len(encryptions') \in Nat /\ Len(encryptions') = Len(encryptions) + 1
      /\ \A k \in 1 .. Len(encryptions) : k \in 1 .. Len(encryptions')
      /\ Len(encryptions') \in 1 .. Len(encryptions')
  <2>1. Len(encryptions) \in Nat
    BY DEF FilesInv, Text
  <2> QED
    BY <2>1, EncryptionsGrow
<1>3. CASE UNCHANGED receipts
  BY <1>1, <1>2, <1>3 DEF ReceiptsInv
<1>4. CASE receipts' = Append(receipts, [ballot |-> Len(encryptions'), id |-> count])
  <2> DEFINE new == [ballot |-> Len(encryptions'), id |-> count]
  <2>1. new \in Receipts /\ new.ballot = Len(encryptions')
    BY <1>1, <1>2 DEF Receipts
  <2> HIDE DEF new
  <2>2. /\ receipts' \in Seq(Receipts) /\ Len(receipts') = Len(receipts) + 1
        /\ receipts'[Len(receipts) + 1] = new
        /\ \A i \in 1 .. Len(receipts) : receipts'[i] = receipts[i]
    BY <1>1, <1>4, <2>1 DEF new
  <2>3. ASSUME NEW i \in 1 .. Len(receipts')
        PROVE  receipts'[i].ballot \in 1 .. Len(encryptions')
    <3>1. i \in 1 .. Len(receipts) \/ i = Len(receipts) + 1
      BY <1>1, <2>2
    <3> QED
      BY <1>1, <1>2, <2>1, <2>2, <3>1
  <2> QED
    BY <1>1, <2>2, <2>3 DEF ReceiptsInv
<1> QED
  BY <1>3, <1>4

LEMMA EncryptBallotKeeps ==
  ASSUME FilesInv, API_EncryptBallot
  PROVE  FilesInv'
<1>1. ASSUME NEW x \in Identifier, Encrypt(x), count' = count + 1,
             \/ UNCHANGED file
             \/ file' = file \o Line(Len(encryptions'), x)
             \/ file' \in {file \o part : part \in Written(Line(Len(encryptions'), x))},
             \/ UNCHANGED receipts
             \/ receipts' = Append(receipts, [ballot |-> Len(encryptions'), id |-> count])
      PROVE  FilesInv'
  <2>1. encryptions' = Append(encryptions, x) /\ UNCHANGED loaded
    BY <1>1 DEF Encrypt
  <2>2. LoadedInv'
    BY <2>1, EncryptionsGrow
  <2>3. ReceiptsInv'
    BY <1>1, <2>1, ReceiptsGrow
  <2>4. Text'
    <3>1. CASE UNCHANGED file
      BY <2>1, <3>1, TextStays
    <3>2. CASE file' = file \o Line(Len(encryptions'), x)
      BY <2>1, <3>2, TextGrows
    <3>3. CASE file' \in {file \o part : part \in Written(Line(Len(encryptions'), x))}
      BY <2>1, <3>3, TextGrows
    <3> QED
      BY <1>1, <3>1, <3>2, <3>3
  <2> QED
    BY <2>2, <2>3, <2>4 DEF FilesInv
<1>2. CASE EncryptBallot
  <2>1. NewReceipt = [ballot |-> Len(encryptions'), id |-> count]
    BY DEF NewReceipt
  <2>2. [NewReceipt EXCEPT !.id = Number(count)] = [ballot |-> Len(encryptions'), id |-> count]
    BY <2>1 DEF Number
  <2> QED
    BY <1>1, <1>2, <2>2 DEF EncryptBallot
<1>3. CASE EncryptBallot_not_opened
  BY <1>1, <1>3 DEF EncryptBallot_not_opened
<1>4. CASE EncryptBallot_lost_in_close
  BY <1>1, <1>4 DEF EncryptBallot_lost_in_close, NewReceipt
<1>5. CASE EncryptBallot_not_written
  BY <1>1, <1>5 DEF EncryptBallot_not_written
<1> QED
  BY <1>2, <1>3, <1>4, <1>5 DEF API_EncryptBallot

LEMMA SoftDeleteKeeps ==
  ASSUME FilesInv, EncryptBallot_soft_delete_file
  PROVE  FilesInv'
<1>1. /\ file' = <<>> \/ file' = file
      /\ receipts' = <<>> /\ loaded' = NotLoaded /\ UNCHANGED <<count, encryptions>>
  BY DEF EncryptBallot_soft_delete_file
<1>2. LoadedInv'
  BY <1>1, NothingLoaded
<1>3. ReceiptsInv'
  BY <1>1 DEF FilesInv, ReceiptsInv
<1>4. Text'
  <2>1. CASE file' = <<>>
    <3>1. file' \in Seq(Tokens) /\ Len(file') = 0
      BY <2>1
    <3> QED
      BY <1>1, <3>1 DEF FilesInv, Text, NumbersInPlace
  <2>2. CASE file' = file
    BY <1>1, <2>2 DEF FilesInv, Text
  <2> QED
    BY <1>1, <2>1, <2>2
<1> QED
  BY <1>2, <1>3, <1>4 DEF FilesInv

LEMMA LoadKeeps ==
  ASSUME FilesInv, LoadBallots
  PROVE  FilesInv'
<1>1. Text' /\ ReceiptsInv'
  BY DEF FilesInv, Text, ReceiptsInv, LoadBallots
<1>2. PICK number \in 1 .. MaxBallots + 1 :
        loaded' =
          [status |-> IF Voting_Coordinator_import_encrypted_ballots(number).status
                           \in {"SUCCESS", "END_OF_FILE"}
                      THEN "SUCCESS" ELSE "UNDEFINED_ERROR",
           ballots |-> Voting_Coordinator_import_encrypted_ballots(number).ballots,
           receipts |-> IF Len(receipts) < number THEN Len(receipts) ELSE number]
  BY DEF LoadBallots
<1> DEFINE read == Voting_Coordinator_import_encrypted_ballots(number)
           status == IF read.status \in {"SUCCESS", "END_OF_FILE"}
                     THEN "SUCCESS" ELSE "UNDEFINED_ERROR"
           receipted == IF Len(receipts) < number THEN Len(receipts) ELSE number
<1>3. number \in Nat /\ Len(receipts) \in Nat
  BY BallotFilesAssumption DEF FilesInv, ReceiptsInv
<1>4. read \in ImportResults /\ \A m \in 1 .. Len(read.ballots) : AsEncrypted(read.ballots[m])
  BY <1>3, ImportReads DEF FilesInv
<1>5. receipted \in Nat /\ status \in {"NONE", "SUCCESS", "UNDEFINED_ERROR"}
  BY <1>3
<1>6. loaded' = [status |-> status, ballots |-> read.ballots, receipts |-> receipted]
  BY <1>2
<1> HIDE DEF read, status, receipted
<1>7. read.ballots \in Seq(LoadedBallots)
  BY <1>4 DEF ImportResults
<1>8. loaded' \in [status : {"NONE", "SUCCESS", "UNDEFINED_ERROR"},
                  ballots : Seq(LoadedBallots), receipts : Nat]
      /\ loaded'.ballots = read.ballots
  BY <1>5, <1>6, <1>7
<1>9. ASSUME NEW m \in 1 .. Len(loaded'.ballots) PROVE AsEncrypted(loaded.ballots[m])'
  <2>1. UNCHANGED encryptions
    BY DEF LoadBallots
  <2>2. loaded'.ballots[m] = read.ballots[m] /\ AsEncrypted(read.ballots[m])
    BY <1>4, <1>8
  <2> QED
    BY <2>1, <2>2 DEF AsEncrypted
<1>10. LoadedInv'
  BY <1>8, <1>9 DEF LoadedInv
<1> QED
  BY <1>1, <1>10 DEF FilesInv

LEMMA FilesInvStep ==
  ASSUME FilesInv, [ElectionNext]_electionVars
  PROVE  FilesInv'
<1>1. ASSUME UNCHANGED <<file, count, encryptions, receipts, loaded>> PROVE FilesInv'
  <2>1. LoadedInv'
    BY <1>1 DEF FilesInv, LoadedInv, AsEncrypted
  <2>2. Text' /\ ReceiptsInv'
    BY <1>1 DEF FilesInv, Text, ReceiptsInv
  <2> QED
    BY <2>1, <2>2 DEF FilesInv
<1>2. ASSUME UNCHANGED <<file, encryptions, receipts>>, loaded' = NotLoaded,
             count' = count \/ count' = 0
      PROVE  FilesInv'
  <2>1. LoadedInv'
    BY <1>2, NothingLoaded
  <2>2. Text' /\ ReceiptsInv'
    BY <1>2 DEF FilesInv, Text, ReceiptsInv
  <2> QED
    BY <2>1, <2>2 DEF FilesInv
<1>3. CASE UNCHANGED electionVars
  BY <1>1, <1>3 DEF electionVars, fileVars
<1>4. CASE FilesStep
  BY <1>4, EncryptBallotKeeps, SoftDeleteKeeps, LoadKeeps DEF FilesStep
<1>5. CASE API_RecordBallots
  BY <1>2, <1>5 DEF API_RecordBallots
<1>6. CASE Tally
  BY <1>1, <1>6 DEF Tally, fileVars
<1>7. CASE TallyFails
  BY <1>1, <1>7 DEF TallyFails
<1>8. CASE Restart
  BY <1>2, <1>8 DEF Restart, FilesRestart
<1> QED
  BY <1>3, <1>4, <1>5, <1>6, <1>7, <1>8 DEF ElectionNext

LEMMA FilesInvInit == ElectionInit => FilesInv
<1> SUFFICES ASSUME ElectionInit PROVE FilesInv
  OBVIOUS
<1>1. file = <<>> /\ count = 0 /\ encryptions = <<>> /\ receipts = <<>> /\ loaded = NotLoaded
  BY DEF ElectionInit, FilesInit
<1>2. /\ <<>> \in Seq(Tokens) /\ <<>> \in Seq(Nat) /\ <<>> \in Seq(Receipts)
      /\ <<>> \in Seq(LoadedBallots) /\ Len(<<>>) = 0
  OBVIOUS
<1>3. Text /\ ReceiptsInv
  BY <1>1, <1>2 DEF Text, ReceiptsInv, NumbersInPlace
<1>4. LoadedInv
  <2>1. loaded = [status |-> "NONE", ballots |-> <<>>, receipts |-> 0]
    BY <1>1 DEF NotLoaded
  <2>2. loaded.ballots = <<>>
    BY <2>1
  <2>3. \A i \in 1 .. Len(loaded.ballots) : FALSE
    BY <1>2, <2>2
  <2> QED
    BY <1>2, <2>1, <2>3 DEF LoadedInv
<1> QED
  BY <1>3, <1>4 DEF FilesInv

LEMMA WholeNumbersAreTheBallots ==
  ASSUME NEW selections \in Seq(Tokens), Len(selections) = 2 * NumSelections,
         NEW k \in Nat, NumbersAreOf(selections, k),
         \A j \in 1 .. 2 * NumSelections : selections[j].whole
  PROVE  selections = NumbersOf(k)
<1>1. /\ NumbersOf(k) \in Seq(Tokens) /\ Len(NumbersOf(k)) = 2 * NumSelections
      /\ \A j \in 1 .. 2 * NumSelections : NumbersOf(k)[j] = Token("number", k, j)
  BY NumbersAreTokens
<1>2. ASSUME NEW j \in 1 .. 2 * NumSelections
      PROVE  selections[j] = Token("number", k, j)
  <2>1. selections[j] \in Tokens /\ selections[j].whole
    OBVIOUS
  <2>2. selections[j] = Token(selections[j].kind, selections[j].of, selections[j].at)
    BY <2>1, TokensAreRecords
  <2> QED
    BY <2>2 DEF NumbersAreOf
<1> QED
  BY <1>1, <1>2, SeqEqual

LEMMA IdentifiersKept == FilesInv => IdentifiersKeepTheirBallots
<1> SUFFICES ASSUME FilesInv, NEW i \in DOMAIN loaded.ballots, NEW x \in Identifier,
                    loaded.ballots[i].identifier = WholeIdentifier(x),
                    \A j \in DOMAIN loaded.ballots[i].selections :
                      loaded.ballots[i].selections[j].whole
             PROVE  \E k \in DOMAIN encryptions :
                      encryptions[k] = x /\ loaded.ballots[i].selections = NumbersOf(k)
  BY DEF IdentifiersKeepTheirBallots
<1> DEFINE b == loaded.ballots[i]
<1>1. loaded.ballots \in Seq(LoadedBallots)
  BY DEF FilesInv, LoadedInv
<1>2. i \in 1 .. Len(loaded.ballots) /\ b \in LoadedBallots
  BY <1>1
<1>3. AsEncrypted(b)
  BY <1>2 DEF FilesInv, LoadedInv
<1>4. b.selections \in Seq(Tokens)
  BY <1>2 DEF LoadedBallots
<1>5. x \in Nat
  BY DEF Identifier
<1> HIDE DEF b
<1>6. PICK k \in 1 .. Len(encryptions) : encryptions[k] = x /\ NumbersAreOf(b.selections, k)
  BY <1>3, <1>5 DEF AsEncrypted, b
<1>7. Len(b.selections) = 2 * NumSelections
  BY <1>3 DEF AsEncrypted
<1>8. \A j \in 1 .. 2 * NumSelections : b.selections[j].whole
  BY <1>4, <1>7 DEF b
<1>9. k \in Nat /\ k \in DOMAIN encryptions
  BY DEF FilesInv, Text
<1>10. b.selections = NumbersOf(k)
  BY <1>4, <1>6, <1>7, <1>8, <1>9, WholeNumbersAreTheBallots
<1> QED
  BY <1>6, <1>9, <1>10 DEF b

\* encrypt_ballot.c:216, coordinator.c:444.  Whatever calls fail and wherever they
\* leave the file, a ballot is not loaded under another one's identifier.
THEOREM BallotsKeepTheirIdentifiers == ElectionSpec => []IdentifiersKeepTheirBallots
<1>1. ElectionInit => FilesInv
  BY FilesInvInit
<1>2. FilesInv /\ [ElectionNext]_electionVars => FilesInv'
  BY FilesInvStep
<1>3. FilesInv => IdentifiersKeepTheirBallots
  BY IdentifiersKept
<1> QED
  BY <1>1, <1>2, <1>3, PTL DEF ElectionSpec

------------------------------------------------------------------------------
(* The record of the cast ballots.                                         *)

\* Ballots that differ, each on one line, are counted once each.
LEMMA VotesCountOnce ==
  ASSUME NEW rec, NEW n \in Nat, NEW Ids, NEW at \in [Ids -> 1 .. n], NEW ballot,
         \A x \in Ids : rec.lines[at[x]].cast /\ rec.lines[at[x]].ballot = ballot[x],
         \A i \in 1 .. n : rec.lines[i].cast => \E x \in Ids : i = at[x],
         \A x, y \in Ids : ballot[x] = ballot[y] => x = y
  PROVE  Votes(rec, n) = SetToBag({ballot[x] : x \in Ids})
<1> DEFINE castLines == {i \in 1 .. n : rec.lines[i].cast}
           ballots == {rec.lines[i].ballot : i \in castLines}
           with(b) == {i \in castLines : rec.lines[i].ballot = b}
<1>1. Votes(rec, n) = [b \in ballots |-> Cardinality(with(b))]
  BY DEF Votes
<1>2. \A i : i \in castLines <=> \E x \in Ids : i = at[x]
  OBVIOUS
<1>3. ballots = {ballot[x] : x \in Ids}
  <2> HIDE DEF castLines
  <2>1. ASSUME NEW i \in castLines PROVE \E x \in Ids : rec.lines[i].ballot = ballot[x]
    BY <1>2
  <2>2. ASSUME NEW x \in Ids PROVE at[x] \in castLines /\ rec.lines[at[x]].ballot = ballot[x]
    BY <1>2
  <2>3. ASSUME NEW b PROVE b \in ballots <=> \E x \in Ids : b = ballot[x]
    BY <2>1, <2>2
  <2> QED
    BY <2>3
<1>4. ASSUME NEW x \in Ids PROVE Cardinality(with(ballot[x])) = 1
  <2>1. at[x] \in castLines /\ rec.lines[at[x]].ballot = ballot[x]
    OBVIOUS
  <2>2. ASSUME NEW i \in castLines, rec.lines[i].ballot = ballot[x] PROVE i = at[x]
    <3>1. PICK y \in Ids : i = at[y]
      BY <1>2
    <3> QED
      BY <2>2, <3>1
  <2>3. with(ballot[x]) = {at[x]}
    <3> HIDE DEF castLines
    <3> QED
      BY <2>1, <2>2
  <2> QED
    BY <2>3, FS_Singleton
<1> HIDE DEF castLines, ballots, with
<1>5. \A b \in ballots : Cardinality(with(b)) = 1
  BY <1>3, <1>4
<1> QED
  BY <1>1, <1>3, <1>5 DEF SetToBag

LEMMA VotesOfCastLines ==
  ASSUME NEW rec, NEW n \in Nat
  PROVE  /\ Votes(rec, n) = [b \in DOMAIN Votes(rec, n) |-> Votes(rec, n)[b]]
         /\ \A b \in DOMAIN Votes(rec, n) : Votes(rec, n)[b] \in Nat
         /\ (\E i \in 1 .. n : rec.lines[i].cast) => DOMAIN Votes(rec, n) # {}
<1> DEFINE castLines == {i \in 1 .. n : rec.lines[i].cast}
           ballots == {rec.lines[i].ballot : i \in castLines}
           with(b) == {i \in castLines : rec.lines[i].ballot = b}
<1>1. Votes(rec, n) = [b \in ballots |-> Cardinality(with(b))]
  BY DEF Votes
<1>2. ASSUME NEW b PROVE IsFiniteSet(with(b))
  <2>1. with(b) \in SUBSET (1 .. n)
    OBVIOUS
  <2>2. IsFiniteSet(1 .. n)
    BY FS_Interval
  <2> QED
    BY <2>1, <2>2, FS_Subset
<1>3. \A b : Cardinality(with(b)) \in Nat
  BY <1>2, FS_CardinalityType
<1>4. (\E i \in 1 .. n : rec.lines[i].cast) => ballots # {}
  OBVIOUS
<1> HIDE DEF castLines, ballots, with
<1> QED
  BY <1>1, <1>3, <1>4

LEMMA AddedToNothing ==
  ASSUME NEW v, v = [b \in DOMAIN v |-> v[b]], \A b \in DOMAIN v : v[b] \in Nat
  PROVE  EmptyBag (+) v = v
<1>1. DOMAIN EmptyBag = {}
  BY DEF EmptyBag, SetToBag
<1>2. EmptyBag (+) v = [b \in DOMAIN v |-> 0 + v[b]]
  BY <1>1 DEF (+)
<1> QED
  BY <1>2

\* What a record that can be read counts: one ballot of every identifier cast.
VotesOfTheCast ==
  \E of \in [cast.identifiers -> 1 .. Len(encryptions)] :
    /\ \A x \in cast.identifiers : encryptions[of[x]] = x
    /\ Votes(record, record.announced) = SetToBag({NumbersOf(of[x]) : x \in cast.identifiers})

RecordInv ==
  /\ record.announced \in Nat
  /\ record.announced <= Len(record.lines) /\ ~cast.torn => VotesOfTheCast

Ballots == [identifier : Seq(Tokens), selections : Seq(Tokens)]

LEMMA WholeIdentifiers ==
  /\ \A x \in Nat : WholeIdentifier(x) \in Seq(Tokens)
  /\ \A x, y \in Nat : WholeIdentifier(x) = WholeIdentifier(y) => x = y
<1>1. ASSUME NEW x \in Nat
      PROVE  /\ WholeIdentifier(x) \in Seq(Tokens)
             /\ WholeIdentifier(x)[1] = Token("identifier", x, 0)
             /\ Token("identifier", x, 0).of = x
  <2>1. Token("identifier", x, 0) \in Tokens /\ Token("identifier", x, 0).of = x
    BY DEF Token, Tokens
  <2> QED
    BY <2>1 DEF WholeIdentifier
<1> QED
  BY <1>1

LEMMA BallotsToRecord ==
  ASSUME FilesInv, NEW ballots \in {InMemory, Imported}
  PROVE  /\ ballots \in Seq(Ballots)
         /\ \A i \in 1 .. Len(ballots) : AsEncrypted(ballots[i])
<1>1. CASE ballots = InMemory
  <2>1. receipts \in Seq(Receipts) /\ DOMAIN receipts = 1 .. Len(receipts)
        /\ Len(receipts) \in Nat
    BY DEF FilesInv, ReceiptsInv
  <2>2. ASSUME NEW i \in 1 .. Len(receipts)
        PROVE  InMemory[i] \in Ballots /\ AsEncrypted(InMemory[i])
    <3> DEFINE k == receipts[i].ballot
    <3>1. k \in 1 .. Len(encryptions) /\ encryptions[k] \in Nat /\ k \in Nat
      BY DEF FilesInv, ReceiptsInv, Text
    <3>2. InMemory[i] = [identifier |-> WholeIdentifier(encryptions[k]),
                         selections |-> NumbersOf(k)]
      BY <2>1 DEF InMemory
    <3> HIDE DEF k
    <3>3. /\ NumbersOf(k) \in Seq(Tokens) /\ Len(NumbersOf(k)) = 2 * NumSelections
          /\ \A j \in 1 .. 2 * NumSelections : NumbersOf(k)[j] = Token("number", k, j)
      BY <3>1, NumbersAreTokens
    <3>4. NumbersAreOf(NumbersOf(k), k)
      BY <3>3 DEF NumbersAreOf, Token
    <3>5. AsEncrypted(InMemory[i])
      <4>1. \A x \in Nat : WholeIdentifier(encryptions[k]) = WholeIdentifier(x) => encryptions[k] = x
        BY <3>1, WholeIdentifiers
      <4> QED
        BY <3>1, <3>2, <3>3, <3>4, <4>1 DEF AsEncrypted
    <3>6. WholeIdentifier(encryptions[k]) \in Seq(Tokens)
      BY <3>1, WholeIdentifiers
    <3>7. InMemory[i] \in Ballots
      BY <3>2, <3>3, <3>6 DEF Ballots
    <3> QED
      BY <3>5, <3>7
  <2>3. InMemory = [i \in 1 .. Len(receipts) |-> InMemory[i]]
    BY <2>1 DEF InMemory
  <2>4. InMemory \in [1 .. Len(receipts) -> Ballots]
    BY <2>2, <2>3
  <2>5. InMemory \in Seq(Ballots) /\ Len(InMemory) = Len(receipts)
    BY <2>1, <2>4
  <2> QED
    BY <1>1, <2>2, <2>5
<1>2. CASE ballots = Imported
  <2>1. loaded.ballots \in Seq(LoadedBallots) /\ DOMAIN loaded.ballots = 1 .. Len(loaded.ballots)
        /\ Len(loaded.ballots) \in Nat
    BY DEF FilesInv, LoadedInv
  <2>2. ASSUME NEW i \in 1 .. Len(loaded.ballots)
        PROVE  Imported[i] \in Ballots /\ AsEncrypted(Imported[i])
    <3>1. loaded.ballots[i] \in LoadedBallots /\ AsEncrypted(loaded.ballots[i])
      BY <2>1 DEF FilesInv, LoadedInv
    <3>2. Imported[i] = [identifier |-> loaded.ballots[i].identifier,
                         selections |-> loaded.ballots[i].selections]
      BY <2>1 DEF Imported
    <3> QED
      BY <3>1, <3>2 DEF LoadedBallots, Ballots, AsEncrypted
  <2>3. Imported = [i \in 1 .. Len(loaded.ballots) |-> Imported[i]]
    BY <2>1 DEF Imported
  <2>4. Imported \in [1 .. Len(loaded.ballots) -> Ballots]
    BY <2>2, <2>3
  <2>5. Imported \in Seq(Ballots) /\ Len(Imported) = Len(loaded.ballots)
    BY <2>1, <2>4
  <2> QED
    BY <1>2, <2>2, <2>5
<1> QED
  BY <1>1, <1>2

LEMMA RecordMade ==
  ASSUME FilesInv, API_RecordBallots
  PROVE  RecordInv'
<1>1. PICK ballots \in {b \in {InMemory} \union (IF loaded.status = "SUCCESS" THEN {Imported} ELSE {})
                       : b # <<>> /\ Distinct(b)} :
        \E castIds \in SUBSET {x \in Identifier :
                                \E i \in DOMAIN ballots :
                                  ballots[i].identifier = WholeIdentifier(x)},
           written \in {Len(ballots)}
                       \union (IF faults < MaxFaults THEN 0 .. Len(ballots) - 1 ELSE {}) :
             /\ record' =
                  [announced |-> Len(ballots),
                   lines |-> [i \in 1 .. written |->
                                [cast |-> \E x \in castIds :
                                            ballots[i].identifier = WholeIdentifier(x),
                                 ballot |-> ballots[i].selections]]]
             /\ cast' = [identifiers |-> castIds,
                         torn |-> \E i \in DOMAIN ballots, j \in 1 .. 2 * NumSelections :
                                    ~ballots[i].selections[j].whole]
  BY Zenon DEF API_RecordBallots
<1> DEFINE L == Len(ballots)
<1>2. /\ ballots \in Seq(Ballots) /\ \A i \in 1 .. L : AsEncrypted(ballots[i])
      /\ L \in Nat /\ DOMAIN ballots = 1 .. L
  <2>1. ballots \in {InMemory, Imported}
    OBVIOUS
  <2> QED
    BY <2>1, BallotsToRecord
<1>3. PICK castIds \in SUBSET {x \in Identifier :
                              \E i \in DOMAIN ballots :
                                ballots[i].identifier = WholeIdentifier(x)},
          written \in {Len(ballots)}
                       \union (IF faults < MaxFaults THEN 0 .. Len(ballots) - 1 ELSE {}) :
        /\ record' =
             [announced |-> L,
              lines |-> [i \in 1 .. written |->
                           [cast |-> \E x \in castIds : ballots[i].identifier = WholeIdentifier(x),
                            ballot |-> ballots[i].selections]]]
        /\ cast' = [identifiers |-> castIds,
                    torn |-> \E i \in DOMAIN ballots, j \in 1 .. 2 * NumSelections :
                               ~ballots[i].selections[j].whole]
  BY <1>1
<1>8. /\ castIds \in SUBSET Identifier
      /\ \A x \in castIds : \E i \in 1 .. L : ballots[i].identifier = WholeIdentifier(x)
      /\ written = L \/ written \in 0 .. L - 1
  <2> HIDE DEF L
  <2>1. written \in {L} \union (IF faults < MaxFaults THEN 0 .. L - 1 ELSE {})
    BY DEF L
  <2> QED
    BY <1>2, <2>1
<1> HIDE DEF L
<1>4. record'.announced = L /\ cast'.identifiers = castIds
  BY <1>3
<1>5. \A i, j \in 1 .. L : ballots[i].identifier = ballots[j].identifier => i = j
  BY <1>2 DEF Distinct
<1>6. UNCHANGED encryptions
  BY DEF API_RecordBallots
<1>7. ASSUME record'.announced <= Len(record'.lines), ~cast'.torn
      PROVE  VotesOfTheCast'
  <2>1. written \in Nat
    BY <1>2, <1>8
  <2>2. Len(record'.lines) = written
    BY <1>3, <2>1
  <2>3. written = L
    <3>1. L <= written
      BY <1>4, <1>7, <2>2
    <3> QED
      BY <1>2, <1>8, <2>1, <3>1
  <2>4. \A i \in 1 .. L :
          /\ record'.lines[i].cast <=>
               \E x \in castIds : ballots[i].identifier = WholeIdentifier(x)
          /\ record'.lines[i].ballot = ballots[i].selections
    BY <1>3, <2>3
  <2>5. \A i \in 1 .. L, j \in 1 .. 2 * NumSelections : ballots[i].selections[j].whole
    BY <1>2, <1>3, <1>7
  <2> DEFINE at == [x \in castIds |->
                      CHOOSE i \in 1 .. L : ballots[i].identifier = WholeIdentifier(x)]
             IsOf(x, k) == encryptions[k] = x /\ ballots[at[x]].selections = NumbersOf(k)
             of == [x \in castIds |-> CHOOSE k \in 1 .. Len(encryptions) : IsOf(x, k)]
             ballot == [x \in castIds |-> NumbersOf(of[x])]
  <2>6. ASSUME NEW x \in castIds
        PROVE  at[x] \in 1 .. L /\ ballots[at[x]].identifier = WholeIdentifier(x)
    BY <1>8
  <2> HIDE DEF at
  <2>7. ASSUME NEW x \in castIds
        PROVE  \E k \in 1 .. Len(encryptions) : IsOf(x, k)
    <3>1. x \in Nat
      BY <1>8 DEF Identifier
    <3>2. AsEncrypted(ballots[at[x]]) /\ ballots[at[x]] \in Ballots
      BY <1>2, <2>6
    <3>3. PICK k \in 1 .. Len(encryptions) :
            encryptions[k] = x /\ NumbersAreOf(ballots[at[x]].selections, k)
      BY <2>6, <3>1, <3>2 DEF AsEncrypted
    <3>4. ballots[at[x]].selections \in Seq(Tokens)
          /\ Len(ballots[at[x]].selections) = 2 * NumSelections /\ k \in Nat
      BY <3>2 DEF Ballots, AsEncrypted
    <3>5. \A j \in 1 .. 2 * NumSelections : ballots[at[x]].selections[j].whole
      BY <2>5, <2>6
    <3>6. ballots[at[x]].selections = NumbersOf(k)
      BY <3>3, <3>4, <3>5, WholeNumbersAreTheBallots
    <3> QED
      BY <3>3, <3>6
  <2> HIDE DEF IsOf
  <2>8. ASSUME NEW x \in castIds
        PROVE  of[x] \in 1 .. Len(encryptions) /\ IsOf(x, of[x])
    BY <2>7
  <2> HIDE DEF of
  <2>9. of \in [castIds -> 1 .. Len(encryptions)]
    BY <2>8 DEF of
  <2>10. at \in [castIds -> 1 .. L]
    BY <2>6 DEF at
  <2>11. \A x \in castIds : /\ record'.lines[at[x]].cast
                            /\ record'.lines[at[x]].ballot = ballot[x]
    BY <2>4, <2>6, <2>8 DEF IsOf
  <2>12. ASSUME NEW i \in 1 .. L, record'.lines[i].cast
         PROVE  \E x \in castIds : i = at[x]
    <3>1. PICK x \in castIds : ballots[i].identifier = WholeIdentifier(x)
      BY <2>4, <2>12
    <3>2. i = at[x]
      BY <1>5, <2>6, <3>1
    <3> QED
      BY <3>2
  <2>13. ASSUME NEW x \in castIds, NEW y \in castIds, ballot[x] = ballot[y]
         PROVE  x = y
    <3>1. of[x] \in Nat /\ of[y] \in Nat /\ NumbersOf(of[x]) = NumbersOf(of[y])
      BY <2>8, <2>13
    <3>2. 1 \in 1 .. 2 * NumSelections
      BY LineLengthNat
    <3>3. Token("number", of[x], 1) = Token("number", of[y], 1)
      BY <3>1, <3>2, NumbersAreTokens
    <3>4. of[x] = of[y]
      BY <3>3 DEF Token
    <3> QED
      BY <2>8, <3>4 DEF IsOf
  <2>14. Votes(record', L) = SetToBag({ballot[x] : x \in castIds})
    <3> HIDE DEF ballot
    <3>1. PICK rec : rec = record'
      OBVIOUS
    <3>2. L \in Nat
      BY <1>2
    <3>3. \A x \in castIds : rec.lines[at[x]].cast /\ rec.lines[at[x]].ballot = ballot[x]
      BY <3>1, <2>11
    <3>4. \A i \in 1 .. L : rec.lines[i].cast => \E x \in castIds : i = at[x]
      BY <3>1, <2>12
    <3>5. \A x, y \in castIds : ballot[x] = ballot[y] => x = y
      BY <2>13
    <3>6. Votes(rec, L) = SetToBag({ballot[x] : x \in castIds})
      BY <3>2, <3>3, <3>4, <3>5, <2>10, VotesCountOnce, SMTT(60)
    <3> QED
      BY <3>1, <3>6
  <2>15. {ballot[x] : x \in castIds} = {NumbersOf(of[x]) : x \in castIds}
    OBVIOUS
  <2>16. \A x \in castIds : encryptions[of[x]] = x
    BY <2>8 DEF IsOf
  <2>17. \E f \in [castIds -> 1 .. Len(encryptions)] :
           /\ \A x \in castIds : encryptions[f[x]] = x
           /\ Votes(record', L) = SetToBag({NumbersOf(f[x]) : x \in castIds})
    <3> HIDE DEF ballot
    <3> QED
      BY <2>9, <2>14, <2>15, <2>16, Zenon
  <2> QED
    BY <1>4, <1>6, <2>17, Zenon DEF VotesOfTheCast
<1> QED
  BY <1>2, <1>4, <1>7 DEF RecordInv

LEMMA RecordInvInit == ElectionInit => RecordInv
<1> SUFFICES ASSUME ElectionInit PROVE RecordInv
  OBVIOUS
<1>1. record = [announced |-> 1, lines |-> <<>>]
  BY DEF ElectionInit, NoRecord
<1>2. record.announced = 1 /\ Len(record.lines) = 0
  BY <1>1
<1> QED
  BY <1>2 DEF RecordInv

\* A ballot that is encrypted later changes nothing about a record.
LEMMA RecordInvStep ==
  ASSUME FilesInv, RecordInv, [ElectionNext]_electionVars
  PROVE  RecordInv'
<1>1. ASSUME UNCHANGED <<encryptions, record, cast>> PROVE RecordInv'
  BY <1>1 DEF RecordInv, VotesOfTheCast
<1>2. ASSUME NEW x \in Identifier, Encrypt(x), UNCHANGED <<record, cast>> PROVE RecordInv'
  <2>1. \A k \in 1 .. Len(encryptions) :
          k \in 1 .. Len(encryptions') /\ encryptions'[k] = encryptions[k]
    BY <1>2, EncryptionsGrow DEF Encrypt
  <2>2. ASSUME VotesOfTheCast PROVE VotesOfTheCast'
    <3>1. PICK of \in [cast.identifiers -> 1 .. Len(encryptions)] :
            /\ \A i \in cast.identifiers : encryptions[of[i]] = i
            /\ Votes(record, record.announced) =
                 SetToBag({NumbersOf(of[i]) : i \in cast.identifiers})
      BY <2>2 DEF VotesOfTheCast
    <3>2. of \in [cast.identifiers -> 1 .. Len(encryptions')]
          /\ \A i \in cast.identifiers : encryptions'[of[i]] = i
      BY <2>1, <3>1
    <3>3. record' = record /\ cast' = cast
      BY <1>2
    <3> QED
      BY <3>1, <3>2, <3>3 DEF VotesOfTheCast
  <2> QED
    BY <1>2, <2>2 DEF RecordInv
<1>3. CASE UNCHANGED electionVars
  BY <1>1, <1>3 DEF electionVars, fileVars
<1>4. CASE FilesStep
  <2>1. CASE API_EncryptBallot
    <3>1. \E x \in Identifier : Encrypt(x)
      BY <2>1 DEF API_EncryptBallot, EncryptBallot, EncryptBallot_not_opened,
                  EncryptBallot_lost_in_close, EncryptBallot_not_written
    <3> QED
      BY <1>2, <1>4, <3>1 DEF FilesStep
  <2>2. CASE EncryptBallot_soft_delete_file
    BY <1>1, <1>4, <2>2 DEF FilesStep, EncryptBallot_soft_delete_file
  <2>3. CASE LoadBallots
    BY <1>1, <1>4, <2>3 DEF FilesStep, LoadBallots
  <2> QED
    BY <1>4, <2>1, <2>2, <2>3 DEF FilesStep
<1>5. CASE API_RecordBallots
  BY <1>5, RecordMade
<1>6. CASE Tally
  BY <1>1, <1>6 DEF Tally, fileVars
<1>7. CASE TallyFails
  BY <1>1, <1>7 DEF TallyFails
<1>8. CASE Restart
  BY <1>1, <1>8 DEF Restart, FilesRestart
<1> QED
  BY <1>3, <1>4, <1>5, <1>6, <1>7, <1>8 DEF ElectionNext

------------------------------------------------------------------------------
(* The trustees that calls of API_TallyVotes leave to each other.          *)

LEMMA TrusteesAreNumbers ==
  /\ Trustee \subseteq Nat
  /\ \A given \in Given : given \subseteq Trustee /\ given # {}
<1>1. Trustee \subseteq Nat /\ Threshold \in Nat \ {0}
  BY TallyVotesAssumption DEF Trustee
<1>2. \A given \in Given : given \subseteq Trustee /\ given # {}
  BY <1>1, FS_EmptySet DEF Given
<1> QED
  BY <1>1, <1>2

\* A trustee whose state is given reads the record into an empty tally.
LEMMA GivenTrusteesTally ==
  ASSUME NEW given \in SUBSET Trustee, NEW t \in given, NEW v,
         v = [b \in DOMAIN v |-> v[b]], \A b \in DOMAIN v : v[b] \in Nat
  PROVE  Tallied(Stored(given), v)[t] = [present |-> TRUE, tally |-> v]
<1> DEFINE made == Stored(given)
<1>1. DOMAIN made = Trustee /\ made[t] = [present |-> TRUE, tally |-> EmptyBag]
  BY DEF Stored, Fresh
<1> HIDE DEF made
<1>2. Tallied(made, v)[t] = [present |-> TRUE, tally |-> EmptyBag (+) v]
  <2>1. Tallied(made, v)[t] =
          IF made[t].present THEN [present |-> TRUE, tally |-> made[t].tally (+) v] ELSE made[t]
    BY <1>1 DEF Tallied
  <2>2. made[t].present /\ made[t].tally = EmptyBag
    BY <1>1
  <2> QED
    BY <2>1, <2>2
<1>3. EmptyBag (+) v = v
  BY AddedToNothing
<1> QED
  BY <1>2, <1>3 DEF made

LEMMA OthersStayAbsent ==
  ASSUME NEW given \in SUBSET Trustee, NEW t \in Trustee \ given, NEW v,
         decryption_trustees[t] = Absent
  PROVE  Stored(given)[t] = Absent /\ Tallied(Stored(given), v)[t] = Absent
<1> DEFINE made == Stored(given)
<1>1. DOMAIN made = Trustee /\ made[t] = Absent
  BY DEF Stored
<1>2. ~Absent.present
  BY DEF Absent
<1> HIDE DEF made
<1>3. Tallied(made, v)[t] = Absent
  BY <1>1, <1>2 DEF Tallied
<1> QED
  BY <1>1, <1>3 DEF made

LEMMA OneTallyIsOfTheRecord ==
  ASSUME NEW given \in Given, NEW v,
         v = [b \in DOMAIN v |-> v[b]], \A b \in DOMAIN v : v[b] \in Nat,
         OneTally(Tallied(Stored(given), v))
  PROVE  FirstTally(Tallied(Stored(given), v)) = v
<1> DEFINE read == Tallied(Stored(given), v)
           first == CHOOSE t \in Present(read) : \A u \in Present(read) : t <= u
<1>1. PICK t0 \in given : t0 \in Trustee
  BY TrusteesAreNumbers
<1>2. read[t0] = [present |-> TRUE, tally |-> v]
  BY <1>1, TrusteesAreNumbers, GivenTrusteesTally
<1> HIDE DEF read
<1>3. t0 \in Present(read) /\ read[t0].tally = v
  BY <1>1, <1>2 DEF Present
<1>4. Present(read) \in SUBSET Nat /\ Present(read) # {}
  BY <1>3, TrusteesAreNumbers DEF Present
<1>5. \E t \in Present(read) : \A u \in Present(read) : t <= u
  BY <1>4, Scans!LeastNumber
<1>6. first \in Present(read)
  BY <1>5
<1> HIDE DEF first
<1>7. read[first].tally = read[t0].tally
  BY <1>3, <1>6 DEF OneTally, read
<1> QED
  BY <1>3, <1>7 DEF FirstTally, first, read

\* What a call of API_TallyVotes in which nothing else fails does.
LEMMA TallyVotesCall ==
  ASSUME RecordInv, API_TallyVotes(record)
  PROVE  \E given \in Given :
    LET v == Votes(record, LinesRead(record))
        made == Stored(given)
        read == Tallied(made, v)
        num == Cardinality(given)
        ok == Readable(record) /\ OneTally(read)
        opens == Cardinality(Present(read)) \in {Threshold, NumTrustees}
    IN  /\ Called(given)
        /\ result'.status = IF ~ok THEN "FALSE" ELSE IF opens THEN "TRUE" ELSE "RUNS"
        /\ result'.tally = IF ok /\ opens THEN FirstTally(read) ELSE EmptyBag
        /\ result'.proper =>
             /\ prefixOnly' /\ num \in {Threshold, NumTrustees} /\ Readable(record)
             /\ \E i \in 1 .. record.announced : record.lines[i].cast
        /\ ok /\ ~opens => result'.status = "RUNS"
        /\ ~(ok /\ ~opens) =>
             \E after :
               /\ decryption_trustees' = Cleaned(after, num)
               /\ \A t \in Trustee : after[t] \in {made[t], read[t]}
<1>1. PICK given \in Given :
    LET num == Cardinality(given)
        made == Stored(given)
        read == Tallied(made, Votes(record, LinesRead(record)))
        first == CHOOSE t \in Present(made) : \A u \in Present(made) : t <= u
        partly == [made EXCEPT ![first] = read[first]]
        ok == Readable(record) /\ OneTally(read)
        opens == Cardinality(Present(read)) \in {Threshold, NumTrustees}
        proper == /\ prefixOnly' /\ num \in {Threshold, NumTrustees}
                  /\ record.announced <= Len(record.lines)
                  /\ \E i \in 1 .. record.announced : record.lines[i].cast
    IN  /\ Called(given)
        /\ result' = [status |-> IF ~ok THEN "FALSE" ELSE IF opens THEN "TRUE" ELSE "RUNS",
                      tally |-> IF ok /\ opens THEN FirstTally(read) ELSE EmptyBag,
                      proper |-> proper]
        /\ decryption_trustees' =
             CASE ok /\ ~opens -> read
               [] ~Readable(record) -> Cleaned(partly, num)
               [] OTHER -> Cleaned(read, num)
  BY Zenon DEF API_TallyVotes
<1> DEFINE num == Cardinality(given)
           made == Stored(given)
           read == Tallied(made, Votes(record, LinesRead(record)))
           first == CHOOSE t \in Present(made) : \A u \in Present(made) : t <= u
           partly == [made EXCEPT ![first] = read[first]]
           ok == Readable(record) /\ OneTally(read)
           opens == Cardinality(Present(read)) \in {Threshold, NumTrustees}
           proper == /\ prefixOnly' /\ num \in {Threshold, NumTrustees}
                     /\ record.announced <= Len(record.lines)
                     /\ \E i \in 1 .. record.announced : record.lines[i].cast
<1>2. /\ Called(given)
      /\ result' = [status |-> IF ~ok THEN "FALSE" ELSE IF opens THEN "TRUE" ELSE "RUNS",
                    tally |-> IF ok /\ opens THEN FirstTally(read) ELSE EmptyBag,
                    proper |-> proper]
      /\ decryption_trustees' =
           CASE ok /\ ~opens -> read
             [] ~Readable(record) -> Cleaned(partly, num)
             [] OTHER -> Cleaned(read, num)
  BY <1>1
<1>3. DOMAIN made = Trustee
  BY DEF Stored
<1>4. ok => Readable(record)
  OBVIOUS
<1>5. proper => /\ prefixOnly' /\ num \in {Threshold, NumTrustees} /\ Readable(record)
                /\ \E i \in 1 .. record.announced : record.lines[i].cast
  BY DEF Readable
<1> HIDE DEF ok, opens, proper, read, made, first
<1>6. \A t \in Trustee : partly[t] \in {made[t], read[t]}
  BY <1>3
<1> HIDE DEF partly, num
<1>7. result'.status = IF ~ok THEN "FALSE" ELSE IF opens THEN "TRUE" ELSE "RUNS"
  BY <1>2
<1>8. result'.tally = IF ok /\ opens THEN FirstTally(read) ELSE EmptyBag
  BY <1>2
<1>9. result'.proper = proper
  BY <1>2, Zenon
<1>10. ASSUME ~(ok /\ ~opens)
       PROVE  \E after : /\ decryption_trustees' = Cleaned(after, num)
                         /\ \A t \in Trustee : after[t] \in {made[t], read[t]}
  <2>1. CASE ~Readable(record)
    <3>1. decryption_trustees' = Cleaned(partly, num)
      BY <1>2, <1>4, <2>1, Zenon
    <3> QED
      BY <1>6, <3>1
  <2>2. CASE Readable(record)
    <3>1. decryption_trustees' = Cleaned(read, num)
      BY <1>2, <1>10, <2>2, Zenon
    <3>2. \A t \in Trustee : read[t] \in {made[t], read[t]}
      OBVIOUS
    <3> QED
      BY <3>1, <3>2
  <2> QED
    BY <2>1, <2>2
<1> WITNESS given \in Given
<1> QED
  BY <1>2, <1>5, <1>7, <1>8, <1>9, <1>10 DEF ok, opens, read, made, num

LEMMA ResultIsOfTheRecord ==
  ASSUME RecordInv, API_TallyVotes(record), UNCHANGED <<cast, encryptions>>,
         encryptions \in Seq(Nat)
  PROVE  ResultIsOfTheCastBallots'
<1> DEFINE v == Votes(record, LinesRead(record))
<1>1. PICK given \in Given :
        LET read == Tallied(Stored(given), v)
            ok == Readable(record) /\ OneTally(read)
            opens == Cardinality(Present(read)) \in {Threshold, NumTrustees}
        IN  /\ result'.status = IF ~ok THEN "FALSE" ELSE IF opens THEN "TRUE" ELSE "RUNS"
            /\ result'.tally = IF ok /\ opens THEN FirstTally(read) ELSE EmptyBag
  BY TallyVotesCall
<1> DEFINE read == Tallied(Stored(given), v)
<1> SUFFICES ASSUME result'.status = "TRUE", ~cast.torn
             PROVE  \E of \in [cast.identifiers -> DOMAIN encryptions] :
                      /\ \A x \in cast.identifiers : encryptions[of[x]] = x
                      /\ result'.tally = SetToBag({NumbersOf(of[x]) : x \in cast.identifiers})
  BY DEF ResultIsOfTheCastBallots
<1>2. /\ Readable(record) /\ OneTally(read) /\ result'.tally = FirstTally(read)
  <2> DEFINE ok == Readable(record) /\ OneTally(read)
             opens == Cardinality(Present(read)) \in {Threshold, NumTrustees}
  <2>1. /\ result'.status = IF ~ok THEN "FALSE" ELSE IF opens THEN "TRUE" ELSE "RUNS"
        /\ result'.tally = IF ok /\ opens THEN FirstTally(read) ELSE EmptyBag
    BY <1>1
  <2>2. ok => Readable(record) /\ OneTally(read)
    OBVIOUS
  <2> HIDE DEF ok, opens, read
  <2>3. ok /\ opens
    BY <2>1
  <2> QED
    BY <2>1, <2>2, <2>3
<1>3. record.announced \in Nat /\ LinesRead(record) = record.announced
  BY <1>2 DEF RecordInv, Readable, LinesRead
<1>4. v = Votes(record, record.announced)
  BY <1>3
<1>5. v = [b \in DOMAIN v |-> v[b]] /\ \A b \in DOMAIN v : v[b] \in Nat
  BY <1>3, VotesOfCastLines
<1> HIDE DEF v
<1>6. FirstTally(read) = v
  BY <1>2, <1>5, OneTallyIsOfTheRecord
<1>7. VotesOfTheCast
  BY <1>2 DEF RecordInv, Readable
<1>8. DOMAIN encryptions = 1 .. Len(encryptions)
  OBVIOUS
<1>9. PICK of \in [cast.identifiers -> 1 .. Len(encryptions)] :
        /\ \A x \in cast.identifiers : encryptions[of[x]] = x
        /\ Votes(record, record.announced) =
             SetToBag({NumbersOf(of[x]) : x \in cast.identifiers})
  BY <1>7 DEF VotesOfTheCast
<1>10. of \in [cast.identifiers -> DOMAIN encryptions]
  BY <1>8, <1>9
<1>11. result'.tally = SetToBag({NumbersOf(of[x]) : x \in cast.identifiers})
  BY <1>2, <1>4, <1>6, <1>9
<1> QED
  BY <1>9, <1>10, <1>11

LEMMA ResultStep ==
  ASSUME FilesInv, RecordInv, ResultIsOfTheCastBallots, [ElectionNext]_electionVars
  PROVE  ResultIsOfTheCastBallots'
<1>1. encryptions \in Seq(Nat) /\ DOMAIN encryptions = 1 .. Len(encryptions)
  BY DEF FilesInv, Text
<1>2. ASSUME UNCHANGED <<encryptions, result, cast>> PROVE ResultIsOfTheCastBallots'
  BY <1>2 DEF ResultIsOfTheCastBallots
<1>3. ASSUME NEW x \in Identifier, Encrypt(x), UNCHANGED <<result, cast>>
      PROVE  ResultIsOfTheCastBallots'
  <2>1. /\ encryptions' \in Seq(Nat)
        /\ \A k \in 1 .. Len(encryptions) :
             k \in 1 .. Len(encryptions') /\ encryptions'[k] = encryptions[k]
    BY <1>3, EncryptionsGrow DEF Encrypt
  <2>2. DOMAIN encryptions' = 1 .. Len(encryptions')
    BY <2>1
  <2> SUFFICES ASSUME result.status = "TRUE", ~cast.torn
               PROVE  \E of \in [cast.identifiers -> DOMAIN encryptions'] :
                        /\ \A i \in cast.identifiers : encryptions'[of[i]] = i
                        /\ result.tally = SetToBag({NumbersOf(of[i]) : i \in cast.identifiers})
    BY <1>3 DEF ResultIsOfTheCastBallots
  <2>3. PICK of \in [cast.identifiers -> DOMAIN encryptions] :
          /\ \A i \in cast.identifiers : encryptions[of[i]] = i
          /\ result.tally = SetToBag({NumbersOf(of[i]) : i \in cast.identifiers})
    BY Zenon DEF ResultIsOfTheCastBallots
  <2>4. of \in [cast.identifiers -> DOMAIN encryptions']
        /\ \A i \in cast.identifiers : encryptions'[of[i]] = i
    BY <1>1, <2>1, <2>2, <2>3
  <2> QED
    BY <2>3, <2>4
<1>4. ASSUME result'.status # "TRUE" PROVE ResultIsOfTheCastBallots'
  BY <1>4 DEF ResultIsOfTheCastBallots
<1>5. NoResult.status # "TRUE" /\ [NoResult EXCEPT !.status = "FALSE"].status # "TRUE"
  BY DEF NoResult
<1>6. CASE UNCHANGED electionVars
  BY <1>2, <1>6 DEF electionVars, fileVars, tallyVars
<1>7. CASE FilesStep
  <2>1. CASE API_EncryptBallot
    <3>1. \E x \in Identifier : Encrypt(x)
      BY <2>1 DEF API_EncryptBallot, EncryptBallot, EncryptBallot_not_opened,
                  EncryptBallot_lost_in_close, EncryptBallot_not_written
    <3> QED
      BY <1>3, <1>7, <3>1 DEF FilesStep, tallyVars
  <2>2. CASE EncryptBallot_soft_delete_file
    BY <1>2, <1>7, <2>2 DEF FilesStep, EncryptBallot_soft_delete_file, tallyVars
  <2>3. CASE LoadBallots
    BY <1>2, <1>7, <2>3 DEF FilesStep, LoadBallots, tallyVars
  <2> QED
    BY <1>7, <2>1, <2>2, <2>3 DEF FilesStep
<1>8. CASE API_RecordBallots
  BY <1>4, <1>5, <1>8 DEF API_RecordBallots
<1>9. CASE Tally
  BY <1>1, <1>9, ResultIsOfTheRecord DEF Tally, fileVars
<1>10. CASE TallyFails
  BY <1>4, <1>5, <1>10 DEF TallyFails, API_TallyVotes_not_initialized, API_TallyVotes_not_read
<1>11. CASE Restart
  BY <1>4, <1>5, <1>11 DEF Restart, TallyRestart
<1> QED
  BY <1>6, <1>7, <1>8, <1>9, <1>10, <1>11 DEF ElectionNext

\* examples/api/main.c:347.  Whatever was lost of the files, wherever the ballots of
\* the record came from and whoever was left in the array of trustees, a tally that
\* API_TallyVotes reports counts one ballot of every identifier cast, and no other.
THEOREM ReportedTallyIsOfTheCast == ElectionSpec => []ResultIsOfTheCastBallots
<1> DEFINE Inv == FilesInv /\ RecordInv /\ ResultIsOfTheCastBallots
<1>1. ElectionInit => Inv
  <2>1. ElectionInit => ResultIsOfTheCastBallots
    BY DEF ElectionInit, TallyInit, NoResult, ResultIsOfTheCastBallots
  <2> QED
    BY <2>1, FilesInvInit, RecordInvInit
<1>2. Inv /\ [ElectionNext]_electionVars => Inv'
  BY FilesInvStep, RecordInvStep, ResultStep
<1>3. Inv => ResultIsOfTheCastBallots
  OBVIOUS
<1> QED
  BY <1>1, <1>2, <1>3, PTL DEF ElectionSpec

\* The array is empty between calls that were all for the first trustees.
TrusteesInv ==
  /\ prefixOnly /\ result.status # "RUNS" =>
       \A t \in Trustee : decryption_trustees[t] = Absent
  /\ FirstTrusteesAlwaysTally

LEMMA FirstTrusteesGiven ==
  ASSUME NEW given \in Given, TrusteesInv, Called(given), prefixOnly'
  PROVE  /\ Cardinality(given) \in Nat
         /\ \A t \in Trustee : t \in given <=> t < Cardinality(given)
         /\ \A t \in Trustee : decryption_trustees[t] = Absent
<1>1. prefixOnly /\ given = First(Cardinality(given)) /\ result.status # "RUNS"
  BY DEF Called
<1>2. IsFiniteSet(Trustee) /\ given \in SUBSET Trustee
  <2>1. 0 \in Int /\ NumTrustees - 1 \in Int
    BY TallyVotesAssumption
  <2> QED
    BY <2>1, FS_Interval DEF Trustee, Given
<1>3. Cardinality(given) \in Nat
  BY <1>2, FS_Subset, FS_CardinalityType
<1>4. \A t \in Trustee : t \in First(Cardinality(given)) <=> t < Cardinality(given)
  BY <1>3, TrusteesAreNumbers DEF First
<1> QED
  BY <1>1, <1>3, <1>4 DEF TrusteesInv

\* What is not cleaned away was not there.
LEMMA CleanedIsEmpty ==
  ASSUME NEW num, NEW after,
         \A t \in Trustee : ~(t < num) => after[t] = Absent,
         decryption_trustees' = Cleaned(after, num)
  PROVE  \A t \in Trustee : decryption_trustees'[t] = Absent
BY DEF Cleaned

LEMMA TallyKeepsTrustees ==
  ASSUME RecordInv, TrusteesInv, API_TallyVotes(record)
  PROVE  TrusteesInv'
<1> DEFINE v == Votes(record, LinesRead(record))
<1>1. PICK given \in Given :
    LET made == Stored(given)
        read == Tallied(made, v)
        num == Cardinality(given)
        ok == Readable(record) /\ OneTally(read)
        opens == Cardinality(Present(read)) \in {Threshold, NumTrustees}
    IN  /\ Called(given)
        /\ result'.status = IF ~ok THEN "FALSE" ELSE IF opens THEN "TRUE" ELSE "RUNS"
        /\ result'.proper =>
             /\ prefixOnly' /\ num \in {Threshold, NumTrustees} /\ Readable(record)
             /\ \E i \in 1 .. record.announced : record.lines[i].cast
        /\ ok /\ ~opens => result'.status = "RUNS"
        /\ ~(ok /\ ~opens) =>
             \E after :
               /\ decryption_trustees' = Cleaned(after, num)
               /\ \A t \in Trustee : after[t] \in {made[t], read[t]}
  BY TallyVotesCall
<1> DEFINE num == Cardinality(given)
           made == Stored(given)
           read == Tallied(made, v)
           ok == Readable(record) /\ OneTally(read)
           opens == Cardinality(Present(read)) \in {Threshold, NumTrustees}
<1>2. /\ Called(given)
      /\ result'.status = IF ~ok THEN "FALSE" ELSE IF opens THEN "TRUE" ELSE "RUNS"
      /\ result'.proper =>
           /\ prefixOnly' /\ num \in {Threshold, NumTrustees} /\ Readable(record)
           /\ \E i \in 1 .. record.announced : record.lines[i].cast
      /\ ok /\ ~opens => result'.status = "RUNS"
      /\ ~(ok /\ ~opens) =>
           \E after :
             /\ decryption_trustees' = Cleaned(after, num)
             /\ \A t \in Trustee : after[t] \in {made[t], read[t]}
  BY <1>1
<1>3. given \in SUBSET Trustee
  BY DEF Given
<1>4. ASSUME prefixOnly'
      PROVE  /\ num \in Nat /\ \A t \in Trustee : t \in given <=> t < num
             /\ \A t \in Trustee : ~(t < num) => made[t] = Absent /\ read[t] = Absent
  <2>1. /\ num \in Nat /\ \A t \in Trustee : t \in given <=> t < num
        /\ \A t \in Trustee : decryption_trustees[t] = Absent
    BY <1>2, <1>4, FirstTrusteesGiven
  <2> HIDE DEF num, v, made, read
  <2>2. ASSUME NEW t \in Trustee, ~(t < num) PROVE made[t] = Absent /\ read[t] = Absent
    <3>1. t \in Trustee \ given
      BY <2>1, <2>2
    <3> QED
      BY <1>3, <2>1, <3>1, OthersStayAbsent DEF made, read
  <2> QED
    BY <2>1, <2>2
<1>5. ASSUME prefixOnly', result'.status # "RUNS"
      PROVE  \A t \in Trustee : decryption_trustees'[t] = Absent
  <2> HIDE DEF num, made, read, ok, opens
  <2>1. PICK after : /\ decryption_trustees' = Cleaned(after, num)
                     /\ \A t \in Trustee : after[t] \in {made[t], read[t]}
    BY <1>2, <1>5
  <2>2. \A t \in Trustee : ~(t < num) => after[t] = Absent
    BY <1>4, <1>5, <2>1
  <2> QED
    BY <2>1, <2>2, CleanedIsEmpty
<1>6. ASSUME result'.proper PROVE result'.status = "TRUE"
  <2>1. /\ prefixOnly' /\ num \in {Threshold, NumTrustees} /\ Readable(record)
        /\ \E i \in 1 .. record.announced : record.lines[i].cast
    <3> HIDE DEF num
    <3> QED
      BY <1>2, <1>6
  <2>2. record.announced \in Nat /\ LinesRead(record) = record.announced
    BY <2>1 DEF RecordInv, Readable, LinesRead
  <2>3. /\ v = [b \in DOMAIN v |-> v[b]] /\ \A b \in DOMAIN v : v[b] \in Nat
        /\ DOMAIN v # {}
    BY <2>1, <2>2, VotesOfCastLines
  <2>4. v # EmptyBag
    BY <2>3 DEF EmptyBag, SetToBag
  <2> HIDE DEF v
  <2>5. \A t \in given : read[t] = [present |-> TRUE, tally |-> v]
    BY <1>3, <2>3, GivenTrusteesTally
  <2>6. ASSUME NEW t \in Trustee PROVE t \in Present(read) <=> t \in given
    <3>1. CASE t \in given
      BY <2>5, <3>1 DEF Present
    <3>2. CASE t \notin given
      <4>1. read[t] = Absent
        <5> HIDE DEF read, num, made
        <5> QED
          BY <1>4, <2>1, <3>2
      <4>2. ~Absent.present
        BY DEF Absent
      <4> QED
        BY <3>2, <4>1, <4>2 DEF Present
    <3> QED
      BY <3>1, <3>2
  <2>7. Present(read) = given
    <3>1. Present(read) \subseteq Trustee
      BY DEF Present
    <3> HIDE DEF read
    <3> QED
      BY <1>3, <2>6, <3>1
  <2>8. OneTally(read)
    <3>1. \A t \in given : read[t].tally = v
      BY <2>5
    <3> HIDE DEF read
    <3> QED
      BY <2>4, <2>7, <3>1 DEF OneTally
  <2>9. ok /\ opens
    BY <2>1, <2>7, <2>8
  <2> HIDE DEF ok, opens
  <2> QED
    BY <1>2, <2>9
<1> QED
  BY <1>5, <1>6 DEF TrusteesInv, FirstTrusteesAlwaysTally

LEMMA FailuresKeepTrustees ==
  ASSUME TrusteesInv, API_TallyVotes_not_initialized \/ API_TallyVotes_not_read(record)
  PROVE  TrusteesInv'
<1>1. result' = [NoResult EXCEPT !.status = "FALSE"]
  BY DEF API_TallyVotes_not_initialized, API_TallyVotes_not_read
<1>2. ~result'.proper
  BY <1>1 DEF NoResult
<1>3. ASSUME NEW given \in Given, Called(given), prefixOnly', NEW after,
             decryption_trustees' = Cleaned(after, Cardinality(given)),
             \A t \in Trustee \ given : decryption_trustees[t] = Absent => after[t] = Absent
      PROVE  \A t \in Trustee : decryption_trustees'[t] = Absent
  <2>1. /\ \A t \in Trustee : t \in given <=> t < Cardinality(given)
        /\ \A t \in Trustee : decryption_trustees[t] = Absent
    BY <1>3, FirstTrusteesGiven
  <2>2. \A t \in Trustee : ~(t < Cardinality(given)) => after[t] = Absent
    BY <1>3, <2>1
  <2> QED
    BY <1>3, <2>2, CleanedIsEmpty
<1>4. ASSUME API_TallyVotes_not_initialized, prefixOnly'
      PROVE  \A t \in Trustee : decryption_trustees'[t] = Absent
  <2>1. PICK given \in Given :
          /\ Called(given)
          /\ \E made \in SUBSET given :
               decryption_trustees' = Cleaned(Stored(made), Cardinality(given))
    BY <1>4 DEF API_TallyVotes_not_initialized
  <2>3. PICK made \in SUBSET given : decryption_trustees' = Cleaned(Stored(made), Cardinality(given))
    BY <2>1
  <2>2. \A t \in Trustee \ given :
          decryption_trustees[t] = Absent => Stored(made)[t] = Absent
    BY <2>3 DEF Stored
  <2> QED
    BY <1>3, <1>4, <2>1, <2>2, <2>3
<1>5. ASSUME API_TallyVotes_not_read(record), prefixOnly'
      PROVE  \A t \in Trustee : decryption_trustees'[t] = Absent
  <2>1. PICK given \in Given, n \in 0 .. LinesRead(record) - 1, failing \in Trustee :
          LET made == Stored(given)
              all == Tallied(made, Votes(record, LinesRead(record)))
              part == Tallied(made, Votes(record, n))
          IN  /\ Called(given)
              /\ decryption_trustees' =
                   Cleaned([t \in Trustee |-> IF t < failing THEN all[t]
                                              ELSE IF t = failing THEN part[t] ELSE made[t]],
                           Cardinality(given))
    BY <1>5 DEF API_TallyVotes_not_read, Present
  <2> DEFINE made == Stored(given)
             all == Tallied(made, Votes(record, LinesRead(record)))
             part == Tallied(made, Votes(record, n))
             after == [t \in Trustee |-> IF t < failing THEN all[t]
                                         ELSE IF t = failing THEN part[t] ELSE made[t]]
  <2>2. Called(given) /\ decryption_trustees' = Cleaned(after, Cardinality(given))
    BY <2>1
  <2>3. ASSUME NEW t \in Trustee \ given, decryption_trustees[t] = Absent
        PROVE  after[t] = Absent
    <3>1. made[t] = Absent /\ all[t] = Absent /\ part[t] = Absent
      BY <2>3, OthersStayAbsent DEF Given
    <3> HIDE DEF made, all, part
    <3> QED
      BY <3>1
  <2> HIDE DEF after
  <2> QED
    BY <1>3, <1>5, <2>2, <2>3
<1> QED
  BY <1>2, <1>4, <1>5 DEF TrusteesInv, FirstTrusteesAlwaysTally

LEMMA TrusteesInvStep ==
  ASSUME RecordInv, TrusteesInv, [ElectionNext]_electionVars
  PROVE  TrusteesInv'
<1>1. ASSUME UNCHANGED <<decryption_trustees, result, prefixOnly>> PROVE TrusteesInv'
  BY <1>1 DEF TrusteesInv, FirstTrusteesAlwaysTally
<1>2. NoResult.status # "RUNS" /\ ~NoResult.proper
  BY DEF NoResult
<1>3. CASE UNCHANGED electionVars
  BY <1>1, <1>3 DEF electionVars, tallyVars
<1>4. CASE FilesStep
  BY <1>1, <1>4 DEF FilesStep, tallyVars
<1>5. CASE API_RecordBallots
  BY <1>2, <1>5 DEF API_RecordBallots, TrusteesInv, FirstTrusteesAlwaysTally
<1>6. CASE Tally
  BY <1>6, TallyKeepsTrustees DEF Tally
<1>7. CASE TallyFails
  BY <1>7, FailuresKeepTrustees DEF TallyFails
<1>8. CASE Restart
  BY <1>2, <1>8 DEF Restart, TallyRestart, TrusteesInv, FirstTrusteesAlwaysTally
<1> QED
  BY <1>3, <1>4, <1>5, <1>6, <1>7, <1>8 DEF ElectionNext

\* tally_votes.c:23, 86.  The trustees that calls leave in the static array never
\* make a later call fail, as long as all calls were for the first trustees.
THEOREM TallyingWithTheFirstWorks == ElectionSpec => []FirstTrusteesAlwaysTally
<1> DEFINE Inv == FilesInv /\ RecordInv /\ TrusteesInv
<1>1. ElectionInit => Inv
  <2>1. ElectionInit => TrusteesInv
    BY DEF ElectionInit, TallyInit, NoResult, TrusteesInv, FirstTrusteesAlwaysTally
  <2> QED
    BY <2>1, FilesInvInit, RecordInvInit
<1>2. Inv /\ [ElectionNext]_electionVars => Inv'
  BY FilesInvStep, RecordInvStep, TrusteesInvStep
<1>3. Inv => FirstTrusteesAlwaysTally
  BY DEF TrusteesInv
<1> QED
  BY <1>1, <1>2, <1>3, PTL DEF ElectionSpec

------------------------------------------------------------------------------
(* A file to which nothing but whole lines was written loads back.         *)

\* Where number j stands in a line, and for the last one the newline.
Place(j) == IF j % 2 = 1 THEN 3 * ((j - 1) \div 2) + 3 ELSE 3 * (j \div 2) + 1

LEMMA Places ==
  ASSUME NEW j \in 1 .. 2 * NumSelections, NEW k \in Nat, NEW x \in Nat
  PROVE  /\ Place(j) \in 3 .. LineLength - 2
         /\ Line(k, x)[Place(j)] = Token("number", k, j)
         /\ j % 2 = 1 => Place(j + 1) = Place(j) + 1
         /\ j % 2 = 0 => /\ Place(j + 1) = Place(j) + 2
                         /\ Line(k, x)[Place(j) + 1] = Token("close", 0, 0)
<1>1. j % 2 = 0 \/ j % 2 = 1
  OBVIOUS
<1>2. \A p \in 1 .. 3 * NumSelections :
        Line(k, x)[p + 2] = IF p % 3 = 0 THEN Token("close", 0, 0)
                            ELSE Token("number", k, p - p \div 3)
  BY LineTokens
<1>3. CASE j % 2 = 1
  <2>1. PICK a \in Nat : j = 2 * a + 1
    <3>1. (j - 1) \div 2 \in Nat /\ j = 2 * ((j - 1) \div 2) + 1
      BY <1>3
    <3> QED
      BY <3>1
  <2>2. Place(j) = 3 * a + 3
    <3>1. (j - 1) \div 2 = a
      BY <2>1
    <3> QED
      BY <1>3, <3>1 DEF Place
  <2>3. Place(j + 1) = 3 * a + 4
    <3>1. (j + 1) \div 2 = a + 1 /\ (j + 1) % 2 = 0
      BY <2>1
    <3> QED
      BY <3>1 DEF Place
  <2>4. 3 * a + 1 \in 1 .. 3 * NumSelections
    BY <2>1, LineLengthNat
  <2>5. (3 * a + 1) % 3 # 0 /\ (3 * a + 1) \div 3 = a
    OBVIOUS
  <2>6. Line(k, x)[(3 * a + 1) + 2] = Token("number", k, (3 * a + 1) - a)
    BY <1>2, <2>4, <2>5
  <2>7. (3 * a + 1) + 2 = 3 * a + 3 /\ (3 * a + 1) - a = j
    BY <2>1
  <2>8. Place(j) \in 3 .. LineLength - 2
    BY <2>1, <2>2, LineLengthNat DEF LineLength
  <2> QED
    BY <1>3, <2>2, <2>3, <2>6, <2>7, <2>8
<1>4. CASE j % 2 = 0
  <2>1. PICK a \in Nat : j = 2 * a + 2
    <3>1. (j \div 2) - 1 \in Nat /\ j = 2 * ((j \div 2) - 1) + 2
      BY <1>4
    <3> QED
      BY <3>1
  <2>2. Place(j) = 3 * a + 4
    <3>1. j \div 2 = a + 1
      BY <2>1
    <3> QED
      BY <1>4, <3>1 DEF Place
  <2>3. Place(j + 1) = 3 * a + 6
    <3>1. (j + 1) % 2 = 1 /\ ((j + 1) - 1) \div 2 = a + 1
      BY <2>1
    <3> QED
      BY <3>1 DEF Place
  <2>4. 3 * a + 2 \in 1 .. 3 * NumSelections /\ 3 * a + 3 \in 1 .. 3 * NumSelections
    BY <2>1, LineLengthNat
  <2>5. (3 * a + 2) % 3 # 0 /\ (3 * a + 2) \div 3 = a /\ (3 * a + 3) % 3 = 0
    OBVIOUS
  <2>6. /\ Line(k, x)[(3 * a + 2) + 2] = Token("number", k, (3 * a + 2) - a)
        /\ Line(k, x)[(3 * a + 3) + 2] = Token("close", 0, 0)
    BY <1>2, <2>4, <2>5
  <2>7. (3 * a + 2) + 2 = 3 * a + 4 /\ (3 * a + 2) - a = j /\ (3 * a + 3) + 2 = (3 * a + 4) + 1
        /\ (3 * a + 4) + 2 = 3 * a + 6
    BY <2>1
  <2>8. Place(j) \in 3 .. LineLength - 2
    BY <2>1, <2>2, LineLengthNat DEF LineLength
  <2> QED
    BY <1>4, <2>2, <2>3, <2>6, <2>7, <2>8
<1> QED
  BY <1>1, <1>3, <1>4

LEMMA FirstAndLastPlace == Place(1) = 3 /\ Place(2 * NumSelections + 1) = LineLength
<1>1. Place(1) = 3
  BY DEF Place
<1>2. (2 * NumSelections + 1) % 2 = 1 /\ ((2 * NumSelections + 1) - 1) \div 2 = NumSelections
  BY LineLengthNat
<1> QED
  BY <1>1, <1>2 DEF Place, LineLength

\* The line of ballot k begins behind base.
LineAt(base, k) ==
  /\ base + LineLength <= Len(file)
  /\ \A p \in 1 .. LineLength : file[base + p] = Line(k, encryptions[k])[p]

LEMMA ScanReadsNumber ==
  ASSUME Text, NEW j \in Nat \ {0}, NEW r \in Readings,
         r.status = "SUCCESS", Len(r.selections) = j - 1,
         KindAt(r.pos) = "number", KindAt(r.pos + 1) # "end"
  PROVE  Scan(r, j).status = "SUCCESS"
<1> DEFINE next == IF j % 2 = 0 /\ KindAt(r.pos + 1) = "close" THEN r.pos + 2 ELSE r.pos + 1
           sels == Append(r.selections, file[r.pos])
<1>1. Scan(r, j) = [r EXCEPT !.selections = sels, !.pos = next]
  BY DEF Scan
<1> HIDE DEF sels, next
<1> QED
  BY <1>1 DEF Readings

LEMMA IdentifiedOfLine ==
  ASSUME Text, NEW base \in Nat, NEW k \in 1 .. Len(encryptions), LineAt(base, k)
  PROVE  /\ base + 1 \in 1 .. Len(file)
         /\ Identified(base + 1).identifier = WholeIdentifier(encryptions[k])
         /\ Identified(base + 1).pos = base + 3
<1> DEFINE start == base + 1
           end == IdentifierEnd(start)
           x == encryptions[k]
<1>1. k \in Nat /\ x \in Nat /\ file \in Seq(Tokens) /\ Len(file) \in Nat
  BY DEF Text
<1>2. start \in 1 .. Len(file) /\ start + 1 \in 1 .. Len(file)
  BY <1>1, LineLengthNat DEF LineAt
<1>3. file[start] = Token("identifier", x, 0) /\ file[start + 1] = Token("tab", 0, 0)
  <2>1. /\ Line(k, x)[1] = Token("identifier", x, 0)
        /\ Line(k, x)[2] = Token("tab", 0, 0)
    BY <1>1, LineTokens
  <2>2. 1 \in 1 .. LineLength /\ 2 \in 1 .. LineLength /\ (base + 1) + 1 = base + 2
    BY LineLengthNat
  <2>3. file[base + 1] = Line(k, x)[1] /\ file[base + 2] = Line(k, x)[2]
    BY <2>2 DEF LineAt
  <2> QED
    BY <2>1, <2>2, <2>3
<1>4. KindAt(start) = "identifier" /\ KindAt(start + 1) = "tab"
  <2>1. start \in Nat \ {0} /\ start + 1 \in Nat \ {0}
    OBVIOUS
  <2> QED
    BY <1>2, <1>3, <2>1, KindAtToken DEF Token
<1>5. /\ end \in start .. Len(file) + 1 /\ KindAt(end) # "identifier"
      /\ \A q \in start .. end - 1 : KindAt(q) = "identifier"
  BY <1>2, IdentifierEnds
<1> HIDE DEF end
<1>6. end = start + 1
  <2>1. end # start
    BY <1>4, <1>5
  <2>2. ASSUME end > start + 1 PROVE FALSE
    <3>1. start + 1 \in start .. end - 1
      BY <1>1, <1>5, <2>2
    <3> QED
      BY <1>4, <1>5, <3>1
  <2> QED
    BY <1>1, <1>5, <2>1, <2>2
<1>7. SubSeq(file, start, start) = WholeIdentifier(x)
  <2>1. /\ SubSeq(file, start, start) \in Seq(Tokens) /\ Len(SubSeq(file, start, start)) = 1
        /\ SubSeq(file, start, start)[1] = file[start]
    BY <1>1, <1>2
  <2> DEFINE one == <<Token("identifier", x, 0)>>
  <2>2. Len(one) = 1 /\ one[1] = Token("identifier", x, 0)
    OBVIOUS
  <2>3. one \in Seq(Tokens)
    BY <1>1, WholeIdentifiers DEF WholeIdentifier
  <2> HIDE DEF one
  <2>4. \A i \in 1 .. 1 : SubSeq(file, start, start)[i] = one[i]
    BY <1>3, <2>1, <2>2
  <2>5. SubSeq(file, start, start) = one
    BY <2>1, <2>2, <2>3, <2>4, SeqEqual
  <2> QED
    BY <2>5 DEF one, WholeIdentifier
<1>8. /\ Identified(start).identifier = SubSeq(file, start, end - 1)
      /\ Identified(start).pos = IF KindAt(end) = "tab" THEN end + 1 ELSE end
  BY DEF Identified, end
<1>9. end - 1 = start /\ end + 1 = base + 3
  BY <1>6
<1> QED
  BY <1>2, <1>4, <1>6, <1>7, <1>8, <1>9

\* The first j numbers of the line behind base were read.
LineRead(base, k, j, r) ==
  /\ r.status = "SUCCESS"
  /\ r.identifier = WholeIdentifier(encryptions[k])
  /\ Len(r.selections) = j
  /\ \A i \in 1 .. j : r.selections[i] = Token("number", k, i)
  /\ r.pos = base + Place(j + 1)

LEMMA NextNumberOfLine ==
  ASSUME Text, NEW base \in Nat, NEW k \in 1 .. Len(encryptions), LineAt(base, k),
         NEW j \in 1 .. 2 * NumSelections,
         NEW r \in Readings, LineRead(base, k, j - 1, r)
  PROVE  Scan(r, j) \in Readings /\ LineRead(base, k, j, Scan(r, j))
<1> DEFINE x == encryptions[k]
           P == Place(j)
<1>1. k \in Nat /\ x \in Nat /\ Len(file) \in Nat /\ j \in Nat \ {0} /\ (j - 1) + 1 = j
  BY LineLengthNat DEF Text
<1>2. /\ P \in 3 .. LineLength - 2 /\ Line(k, x)[P] = Token("number", k, j)
      /\ j % 2 = 1 => Place(j + 1) = P + 1
      /\ j % 2 = 0 => Place(j + 1) = P + 2 /\ Line(k, x)[P + 1] = Token("close", 0, 0)
  BY <1>1, Places
<1>3. /\ base + LineLength <= Len(file)
      /\ \A p \in 1 .. LineLength : file[base + p] = Line(k, x)[p]
  BY DEF LineAt
<1> HIDE DEF x, P
<1>4. r.pos = base + P
  BY <1>1 DEF LineRead, P
<1>5. /\ r.pos \in Nat \ {0} /\ r.pos \in 1 .. Len(file)
      /\ r.pos + 1 \in Nat \ {0} /\ r.pos + 1 \in 1 .. Len(file)
  BY <1>1, <1>2, <1>3, <1>4, LineLengthNat
<1>6. P \in 1 .. LineLength /\ P + 1 \in 1 .. LineLength /\ base + (P + 1) = r.pos + 1
  BY <1>1, <1>2, <1>4, LineLengthNat
<1>7. file[r.pos] = Token("number", k, j)
  BY <1>2, <1>3, <1>4, <1>6
<1>8. KindAt(r.pos) = "number" /\ KindAt(r.pos + 1) # "end"
  BY <1>5, <1>7, KindAtToken DEF Token
<1>9. j % 2 = 0 => KindAt(r.pos + 1) = "close"
  <2> SUFFICES ASSUME j % 2 = 0 PROVE KindAt(r.pos + 1) = "close"
    OBVIOUS
  <2>1. file[base + (P + 1)] = Token("close", 0, 0)
    BY <1>2, <1>3, <1>6
  <2>2. file[r.pos + 1].kind = "close"
    BY <1>6, <2>1 DEF Token
  <2> QED
    BY <1>5, <2>2, KindAtToken
<1>10. r.status = "SUCCESS" /\ Len(r.selections) = j - 1
  BY DEF LineRead
<1>11. /\ Scan(r, j) \in Readings /\ Scan(r, j).status = "SUCCESS"
       /\ Scan(r, j).identifier = r.identifier
       /\ Len(Scan(r, j).selections) = j
       /\ Scan(r, j).selections[j] = file[r.pos]
       /\ \A i \in 1 .. j - 1 : Scan(r, j).selections[i] = r.selections[i]
       /\ Scan(r, j).pos =
            IF j % 2 = 0 /\ KindAt(r.pos + 1) = "close" THEN r.pos + 2 ELSE r.pos + 1
  BY <1>1, <1>8, <1>10, ScanReads, ScanReadsNumber
<1>12. Scan(r, j).pos = base + Place(j + 1)
  <2>1. j % 2 = 0 \/ j % 2 = 1
    BY <1>1
  <2>2. CASE j % 2 = 0
    <3>1. Scan(r, j).pos = r.pos + 2 /\ Place(j + 1) = P + 2
      BY <1>2, <1>9, <1>11, <2>2
    <3> QED
      BY <1>2, <1>4, <3>1
  <2>3. CASE j % 2 = 1
    <3>1. Scan(r, j).pos = r.pos + 1 /\ Place(j + 1) = P + 1
      BY <1>2, <1>11, <2>3
    <3> QED
      BY <1>2, <1>4, <3>1
  <2> QED
    BY <2>1, <2>2, <2>3
<1>13. \A i \in 1 .. j : Scan(r, j).selections[i] = Token("number", k, i)
  <2> SUFFICES ASSUME NEW i \in 1 .. j PROVE Scan(r, j).selections[i] = Token("number", k, i)
    OBVIOUS
  <2>1. CASE i = j
    BY <1>7, <1>11, <2>1
  <2>2. CASE i # j
    <3>1. i \in 1 .. j - 1
      BY <1>1, <2>2
    <3> QED
      BY <1>11, <3>1 DEF LineRead
  <2> QED
    BY <2>1, <2>2
<1>14. r.identifier = WholeIdentifier(encryptions[k])
  BY DEF LineRead
<1> QED
  BY <1>11, <1>12, <1>13, <1>14 DEF LineRead

LEMMA LineIsRead ==
  ASSUME Text, NEW base \in Nat, NEW k \in 1 .. Len(encryptions), LineAt(base, k),
         NEW pos \in Nat \ {0}, LineStart(pos) = base + 1
  PROVE  LET r == Voting_Coordinator_read_ballot(pos)
         IN  /\ r \in Readings
             /\ r.status = "SUCCESS"
             /\ r.identifier = WholeIdentifier(encryptions[k])
             /\ r.selections = NumbersOf(k)
             /\ r.pos = base + LineLength
<1> DEFINE n == 2 * NumSelections
           first == Identified(base + 1)
           g == Scans!Loop(first, n)
           Holds == {z \in (0 .. n) \X Readings : LineRead(base, k, z[1], z[2])}
           r == Voting_Coordinator_read_ballot(pos)
<1>1. n \in Nat /\ k \in Nat
  BY LineLengthNat DEF Text
<1>2. /\ base + 1 \in 1 .. Len(file)
      /\ first.identifier = WholeIdentifier(encryptions[k]) /\ first.pos = base + 3
  BY IdentifiedOfLine
<1>3. first \in Readings /\ first.status = "SUCCESS" /\ Len(first.selections) = 0
  BY <1>2, IdentifiedReads
<1>4. r = g[n]
  BY <1>2, ReadBallotIsScans
<1> HIDE DEF first
<1>5. <<0, first>> \in Holds
  <2>1. LineRead(base, k, 0, first)
    BY <1>2, <1>3, FirstAndLastPlace DEF LineRead
  <2> QED
    BY <1>1, <1>3, <2>1
<1>6. ASSUME NEW j \in 1 .. n, <<j - 1, g[j - 1]>> \in Holds
      PROVE  <<j, Scan(g[j - 1], j)>> \in Holds
  <2> HIDE DEF g
  <2>1. g[j - 1] \in Readings /\ LineRead(base, k, j - 1, g[j - 1])
    BY <1>6
  <2>2. Scan(g[j - 1], j) \in Readings /\ LineRead(base, k, j, Scan(g[j - 1], j))
    BY <2>1, NextNumberOfLine
  <2>3. j \in 0 .. n
    BY <1>1
  <2> QED
    BY <2>2, <2>3
<1>7. <<n, g[n]>> \in Holds
  <2> HIDE DEF Holds, n
  <2> QED
    BY <1>1, <1>5, <1>6, Scans!LoopKeeps
<1>8. r \in Readings /\ LineRead(base, k, n, r)
  <2> HIDE DEF g, r, n
  <2> QED
    BY <1>4, <1>7
<1> HIDE DEF r
<1>9. r.selections = NumbersOf(k)
  <2>1. /\ r.selections \in Seq(Tokens) /\ Len(r.selections) = n
        /\ \A i \in 1 .. n : r.selections[i] = Token("number", k, i)
    BY <1>8 DEF LineRead, Readings
  <2>2. /\ NumbersOf(k) \in Seq(Tokens) /\ Len(NumbersOf(k)) = n
        /\ \A i \in 1 .. n : NumbersOf(k)[i] = Token("number", k, i)
    BY <1>1, NumbersAreTokens
  <2> HIDE DEF n
  <2> QED
    BY <2>1, <2>2, SeqEqual
<1>10. r.pos = base + LineLength
  BY <1>8, FirstAndLastPlace DEF LineRead
<1> QED
  BY <1>8, <1>9, <1>10 DEF LineRead, r

\* The length of the lines before line i.
Base(i) == (i - 1) * LineLength

LEMMA Bases ==
  /\ Base(1) = 0
  /\ \A i \in Nat \ {0} : Base(i) \in Nat /\ Base(i + 1) = Base(i) + LineLength
                          /\ (i > 1 => Base(i) >= 1)
<1>1. LineLength \in Nat /\ LineLength >= 6
  BY LineLengthNat
<1> DEFINE LL == LineLength
<1>2. Base(1) = 0
  BY <1>1 DEF Base
<1>3. ASSUME NEW i \in Nat \ {0}
      PROVE  Base(i) \in Nat /\ Base(i + 1) = Base(i) + LineLength
  <2>1. i - 1 \in Nat /\ (i + 1) - 1 = (i - 1) + 1
    OBVIOUS
  <2>2. (i - 1) * LineLength \in Nat
    BY <1>1, <2>1
  <2>3. \A a \in Nat : (a + 1) * LineLength = a * LineLength + LineLength
    BY <1>1
  <2> QED
    BY <2>1, <2>2, <2>3 DEF Base
<1>4. ASSUME NEW i \in Nat \ {0}, i > 1 PROVE Base(i) >= 1
  <2>1. i - 1 \in Nat \ {0} /\ (i - 1) + 1 = i
    BY <1>4
  <2>2. Base(i - 1) \in Nat /\ Base((i - 1) + 1) = Base(i - 1) + LineLength
    BY <1>3, <2>1
  <2> QED
    BY <1>1, <2>1, <2>2
<1> QED
  BY <1>2, <1>3, <1>4

WholeLines ==
  /\ Len(file) = Base(Len(receipts) + 1)
  /\ \A i \in 1 .. Len(receipts) : LineAt(Base(i), receipts[i].ballot)

ExportedBallot(i) ==
  [identifier |-> WholeIdentifier(encryptions[receipts[i].ballot]), id |-> i - 1,
   selections |-> NumbersOf(receipts[i].ballot)]

\* What i rounds of the import give of a file with n whole lines.
LinesImported(n, i, acc) ==
  /\ acc.status = IF i <= n THEN "SUCCESS" ELSE "END_OF_FILE"
  /\ Len(acc.ballots) = IF i <= n THEN i ELSE n
  /\ i <= n => acc.pos = IF i = 0 THEN 1 ELSE Base(i + 1)
  /\ \A q \in 1 .. Len(acc.ballots) : acc.ballots[q] = ExportedBallot(q)

LEMMA NextLineStarts ==
  ASSUME FilesInv, WholeLines, file # <<>>, NEW i \in 1 .. Len(receipts) + 1
  PROVE  /\ Len(receipts) \in Nat \ {0}
         /\ LineStart(IF i = 1 THEN 1 ELSE Base(i)) = Base(i) + 1
<1>1. Len(receipts) \in Nat /\ receipts \in Seq(Receipts)
      /\ encryptions \in Seq(Nat) /\ file \in Seq(Tokens) /\ Len(file) \in Nat \ {0}
      /\ \A m \in 1 .. Len(receipts) : receipts[m].ballot \in 1 .. Len(encryptions)
  BY EmptySeq DEF FilesInv, ReceiptsInv, Text
<1>2. Len(receipts) # 0
  BY <1>1, Bases DEF WholeLines
<1>3. ASSUME NEW m \in 1 .. Len(receipts)
      PROVE  /\ Base(m) \in Nat /\ Base(m) + LineLength <= Len(file)
             /\ file[Base(m) + 1].kind = "identifier"
             /\ file[Base(m) + LineLength].kind = "newline"
  <2> DEFINE k == receipts[m].ballot
  <2>0. m \in Nat \ {0}
    BY <1>1
  <2>5. LineAt(Base(m), k)
    BY DEF WholeLines
  <2>1. LineAt(Base(m), k) /\ Base(m) \in Nat
    BY <2>0, <2>5, Bases
  <2>2. k \in Nat /\ encryptions[k] \in Nat
    BY <1>1
  <2> HIDE DEF k
  <2>3. /\ Line(k, encryptions[k])[1] = Token("identifier", encryptions[k], 0)
        /\ Line(k, encryptions[k])[LineLength] = Token("newline", 0, 0)
    BY <2>2, LineTokens
  <2>4. 1 \in 1 .. LineLength /\ LineLength \in 1 .. LineLength
    BY LineLengthNat
  <2> QED
    BY <2>1, <2>3, <2>4 DEF LineAt, Token
<1>4. CASE i = 1
  <2>1. 1 \in 1 .. Len(receipts)
    BY <1>1, <1>2
  <2>2. Base(1) = 0 /\ file[Base(1) + 1].kind = "identifier"
    BY <1>3, <2>1, Bases
  <2>3. 1 \in Nat \ {0} /\ 1 \in 1 .. Len(file) /\ file[1].kind = "identifier"
    BY <1>1, <2>2
  <2>4. KindAt(1) = "identifier"
    BY <2>3, KindAtToken DEF FilesInv
  <2>5. LineStart(1) = 1
    BY <2>4 DEF LineStart
  <2> QED
    BY <1>1, <1>2, <1>4, <2>2, <2>5
<1>5. CASE i # 1
  <2>1. i - 1 \in 1 .. Len(receipts) /\ i - 1 \in Nat \ {0} /\ (i - 1) + 1 = i
    BY <1>1, <1>5
  <2>2. Base(i) = Base(i - 1) + LineLength /\ Base(i - 1) \in Nat
    BY <2>1, Bases
  <2>5. /\ Base(i - 1) + LineLength <= Len(file)
        /\ file[Base(i - 1) + LineLength].kind = "newline"
    BY <1>3, <2>1
  <2>3. file[Base(i)].kind = "newline" /\ Base(i) \in 1 .. Len(file)
    BY <1>1, <2>2, <2>5, LineLengthNat
  <2>4. KindAt(Base(i)) = "newline"
    <3>1. Base(i) \in Nat \ {0}
      BY <1>1, <2>3
    <3> QED
      BY <2>3, <3>1, KindAtToken DEF FilesInv
  <2> QED
    BY <1>1, <1>2, <1>5, <2>4 DEF LineStart
<1> QED
  BY <1>4, <1>5

LEMMA ImportNextLine ==
  ASSUME FilesInv, WholeLines, file # <<>>, NEW i \in Nat \ {0},
         NEW acc \in ImportResults, LinesImported(Len(receipts), i - 1, acc)
  PROVE  LinesImported(Len(receipts), i, ImportNext(acc, i))
<1> DEFINE n == Len(receipts)
           r == Voting_Coordinator_read_ballot(acc.pos)
           new == [identifier |-> r.identifier, id |-> i - 1, selections |-> r.selections]
<1>1. 1 \in 1 .. n + 1
  BY DEF FilesInv, ReceiptsInv
<1>2. n \in Nat \ {0}
  BY <1>1, NextLineStarts
<1>3. /\ acc.status = IF i - 1 <= n THEN "SUCCESS" ELSE "END_OF_FILE"
      /\ Len(acc.ballots) = IF i - 1 <= n THEN i - 1 ELSE n
      /\ i - 1 <= n => acc.pos = IF i - 1 = 0 THEN 1 ELSE Base((i - 1) + 1)
      /\ \A q \in 1 .. Len(acc.ballots) : acc.ballots[q] = ExportedBallot(q)
  BY DEF LinesImported
<1>4. acc.pos \in Nat \ {0} /\ acc.ballots \in Seq(LoadedBallots) /\ (i - 1) + 1 = i
  BY DEF ImportResults
<1>5. acc.status = "SUCCESS" =>
        ImportNext(acc, i) =
          [status |-> r.status, pos |-> r.pos,
           ballots |-> IF r.status # "SUCCESS" THEN acc.ballots ELSE Append(acc.ballots, new)]
  BY DEF ImportNext
<1>6. CASE i - 1 > n
  <2>1. acc.status = "END_OF_FILE" /\ Len(acc.ballots) = n /\ ~(i <= n) /\ ~(i - 1 <= n)
    BY <1>2, <1>3, <1>6
  <2>2. ImportNext(acc, i) = acc
    BY <2>1 DEF ImportNext
  <2>3. LinesImported(n, i, acc)
    <3> HIDE DEF n
    <3> QED
      BY <1>3, <2>1 DEF LinesImported
  <2> QED
    BY <2>2, <2>3
<1>7. ASSUME i - 1 <= n
      PROVE  /\ acc.status = "SUCCESS" /\ Len(acc.ballots) = i - 1 /\ i \in 1 .. n + 1
             /\ LineStart(acc.pos) = Base(i) + 1
  <2>1. i \in 1 .. n + 1 /\ acc.pos = IF i = 1 THEN 1 ELSE Base(i)
    BY <1>2, <1>3, <1>4, <1>7
  <2>2. LineStart(IF i = 1 THEN 1 ELSE Base(i)) = Base(i) + 1
    BY <2>1, NextLineStarts
  <2> QED
    BY <1>3, <1>7, <2>1, <2>2
<1>8. CASE i - 1 = n
  <2>1. /\ acc.status = "SUCCESS" /\ Len(acc.ballots) = n
        /\ LineStart(acc.pos) = Base(n + 1) + 1 /\ ~(i <= n)
    <3>1. i - 1 <= n /\ i = n + 1 /\ ~(i <= n)
      BY <1>2, <1>8
    <3> QED
      BY <1>7, <1>8, <3>1
  <2>2. LineStart(acc.pos) \notin 1 .. Len(file)
    BY <2>1 DEF WholeLines, FilesInv, Text
  <2>3. r.status = "END_OF_FILE"
    BY <1>4, <2>2, ReadBallotIsScans DEF FilesInv
  <2> HIDE DEF r
  <2>4. ImportNext(acc, i).status = "END_OF_FILE" /\ ImportNext(acc, i).ballots = acc.ballots
    BY <1>5, <2>1, <2>3
  <2> DEFINE next == ImportNext(acc, i)
  <2>5. next.status = "END_OF_FILE" /\ next.ballots = acc.ballots
    BY <2>4
  <2> HIDE DEF next
  <2>6. LinesImported(n, i, next)
    <3> HIDE DEF n
    <3>1. \A q \in 1 .. Len(next.ballots) : next.ballots[q] = ExportedBallot(q)
      BY <1>3, <2>5
    <3> QED
      BY <2>1, <2>5, <3>1 DEF LinesImported
  <2> QED
    BY <2>6 DEF next
<1>9. CASE i - 1 < n
  <2> DEFINE k == receipts[i].ballot
  <2>1. /\ acc.status = "SUCCESS" /\ Len(acc.ballots) = i - 1
        /\ LineStart(acc.pos) = Base(i) + 1 /\ i \in 1 .. n
    <3>1. i - 1 <= n /\ i \in 1 .. n
      BY <1>2, <1>9
    <3> QED
      BY <1>7, <3>1
  <2>2. k \in 1 .. Len(encryptions) /\ LineAt(Base(i), k) /\ Base(i) \in Nat
    BY <2>1, Bases DEF WholeLines, FilesInv, ReceiptsInv
  <2>3. /\ r \in Readings /\ r.status = "SUCCESS"
        /\ r.identifier = WholeIdentifier(encryptions[k]) /\ r.selections = NumbersOf(k)
        /\ r.pos = Base(i) + LineLength
    BY <1>4, <2>1, <2>2, LineIsRead DEF FilesInv
  <2> HIDE DEF r
  <2>4. new = ExportedBallot(i)
    BY <2>3 DEF ExportedBallot
  <2>5. new \in LoadedBallots
    BY <2>3 DEF Readings, LoadedBallots
  <2> HIDE DEF new
  <2> DEFINE all == Append(acc.ballots, new)
  <2>6. Len(all) = i /\ all[i] = new /\ \A q \in 1 .. i - 1 : all[q] = acc.ballots[q]
    BY <1>4, <2>1, <2>5
  <2>7. ImportNext(acc, i) = [status |-> r.status, pos |-> r.pos, ballots |-> all]
    BY <1>5, <2>1, <2>3
  <2> HIDE DEF all
  <2>8. ASSUME NEW q \in 1 .. i PROVE all[q] = ExportedBallot(q)
    <3>1. CASE q = i
      BY <2>4, <2>6, <3>1
    <3>2. CASE q # i
      <4>1. q \in 1 .. i - 1 /\ q \in 1 .. Len(acc.ballots)
        BY <2>1, <3>2
      <4> QED
        BY <1>3, <2>6, <4>1
    <3> QED
      BY <3>1, <3>2
  <2>9. r.pos = Base(i + 1) /\ i # 0 /\ i <= n
    BY <1>2, <2>1, <2>3, Bases
  <2> DEFINE next == ImportNext(acc, i)
  <2>10. /\ next.status = "SUCCESS" /\ next.pos = Base(i + 1) /\ next.ballots = all
    BY <2>3, <2>7, <2>9
  <2> HIDE DEF next
  <2>11. LinesImported(n, i, next)
    <3> HIDE DEF n
    <3> QED
      BY <2>6, <2>8, <2>9, <2>10 DEF LinesImported
  <2> QED
    BY <2>11 DEF next
<1> QED
  BY <1>2, <1>6, <1>8, <1>9

LEMMA WholeLinesImported ==
  ASSUME FilesInv, WholeLines, file # <<>>, NEW number \in Nat
  PROVE  /\ Voting_Coordinator_import_encrypted_ballots(number) \in ImportResults
         /\ LinesImported(Len(receipts), number,
                          Voting_Coordinator_import_encrypted_ballots(number))
<1> DEFINE n == Len(receipts)
           g == Imports!Loop(NothingImported, number)
           Kept(acc) == \A m \in 1 .. Len(acc.ballots) : AsEncrypted(acc.ballots[m])
           Holds == {z \in (0 .. number) \X ImportResults :
                       LinesImported(n, z[1], z[2]) /\ Kept(z[2])}
<1>1. n \in Nat
  BY DEF FilesInv, ReceiptsInv
<1>2. <<0, NothingImported>> \in Holds
  <2>1. /\ NothingImported \in ImportResults /\ Len(NothingImported.ballots) = 0
        /\ NothingImported.status = "SUCCESS" /\ NothingImported.pos = 1
    <3>1. <<>> \in Seq(LoadedBallots) /\ Len(<<>>) = 0
      OBVIOUS
    <3> QED
      BY <3>1 DEF NothingImported, ImportResults
  <2>2. LinesImported(n, 0, NothingImported)
    <3> HIDE DEF n
    <3> QED
      BY <1>1, <2>1 DEF LinesImported
  <2>3. Kept(NothingImported)
    BY <2>1
  <2> HIDE DEF Kept
  <2> QED
    BY <2>1, <2>2, <2>3
<1>3. ASSUME NEW j \in 1 .. number, <<j - 1, g[j - 1]>> \in Holds
      PROVE  <<j, ImportNext(g[j - 1], j)>> \in Holds
  <2> DEFINE acc == g[j - 1]
  <2>1. acc \in ImportResults /\ LinesImported(n, j - 1, acc) /\ Kept(acc)
    <3> HIDE DEF acc, Kept
    <3> QED
      BY <1>3 DEF acc
  <2> HIDE DEF g, acc
  <2>2. LinesImported(n, j, ImportNext(acc, j))
    BY <2>1, ImportNextLine
  <2>3. ImportNext(acc, j) \in ImportResults /\ Kept(ImportNext(acc, j))
    BY <2>1, ImportNextReads DEF FilesInv
  <2> HIDE DEF Kept
  <2> QED
    BY <2>2, <2>3 DEF acc
<1>4. <<number, g[number]>> \in Holds
  <2> HIDE DEF Holds
  <2> QED
    BY <1>2, <1>3, Imports!LoopKeeps
<1>5. g[number] \in ImportResults /\ LinesImported(n, number, g[number])
  <2> HIDE DEF g, Kept
  <2> QED
    BY <1>4
<1> QED
  BY <1>5, ImportIsLoop

------------------------------------------------------------------------------
(* As long as no call failed, the file has a line for each receipt, and    *)
(* what is loaded are the ballots of the first of them.                    *)

NumberedFromZero ==
  ~since.restarted /\ since.count = 0 =>
    count = Len(receipts) /\ \A i \in 1 .. Len(receipts) : receipts[i].id = i - 1

LinesInv ==
  /\ since \in [count : Nat, fault : BOOLEAN, restarted : BOOLEAN]
  /\ ~since.fault => WholeLines /\ NumberedFromZero

LoadsBackInv ==
  loaded.status # "NONE" /\ ~since.fault =>
    /\ loaded.status = "SUCCESS"
    /\ Len(loaded.ballots) = loaded.receipts
    /\ loaded.receipts \in 0 .. Len(receipts)
    /\ \A i \in 1 .. Len(loaded.ballots) : loaded.ballots[i] = ExportedBallot(i)

EveryLineInv == FilesInv /\ LinesInv /\ LoadsBackInv

LEMMA LineAdded ==
  ASSUME FilesInv, WholeLines, NEW x \in Identifier,
         encryptions' = Append(encryptions, x),
         file' = file \o Line(Len(encryptions'), x),
         NEW id \in Nat,
         receipts' = Append(receipts, [ballot |-> Len(encryptions'), id |-> id])
  PROVE  /\ WholeLines'
         /\ Len(receipts') = Len(receipts) + 1
         /\ receipts'[Len(receipts) + 1].id = id
         /\ \A i \in 1 .. Len(receipts) :
              receipts'[i] = receipts[i] /\ ExportedBallot(i)' = ExportedBallot(i)
<1>0. PICK k, n : k = Len(encryptions') /\ n = Len(receipts)
  OBVIOUS
<1> DEFINE new == [ballot |-> k, id |-> id]
           line == Line(k, x)
<1>1. /\ file \in Seq(Tokens) /\ encryptions \in Seq(Nat) /\ receipts \in Seq(Receipts)
      /\ \A i \in 1 .. n : receipts[i].ballot \in 1 .. Len(encryptions)
      /\ x \in Nat /\ n \in Nat
  BY <1>0 DEF FilesInv, Text, ReceiptsInv, Identifier
<1>2. /\ k \in Nat /\ encryptions'[k] = x
      /\ \A m \in 1 .. Len(encryptions) : encryptions'[m] = encryptions[m]
  BY <1>0, <1>1, EncryptionsGrow
<1>3. line \in Seq(Tokens) /\ Len(line) = LineLength /\ LineLength \in Nat
  BY <1>1, <1>2, LineTokens, LineLengthNat
<1>4. new \in Receipts /\ new.ballot = k /\ new.id = id
  BY <1>2 DEF Receipts
<1> HIDE DEF new, line
<1>5. receipts' = Append(receipts, new)
  BY <1>0 DEF new
<1>6. /\ Len(receipts') = n + 1 /\ receipts'[n + 1] = new
      /\ \A i \in 1 .. n : receipts'[i] = receipts[i]
  BY <1>0, <1>1, <1>4, <1>5
<1>7. file' = file \o line
  BY <1>0 DEF line
<1>8. /\ Len(file') = Len(file) + LineLength
      /\ \A p \in 1 .. Len(file) : file'[p] = file[p]
      /\ \A p \in 1 .. LineLength : file'[Len(file) + p] = line[p]
  <2>1. file \o line \in Seq(Tokens) /\ Len(file) \in Nat
    BY <1>1, <1>3
  <2>2. /\ Len(file \o line) = Len(file) + Len(line)
        /\ \A p \in 1 .. Len(file) + Len(line) :
             (file \o line)[p] = IF p <= Len(file) THEN file[p] ELSE line[p - Len(file)]
    BY <1>1, <1>3, ConcatProperties
  <2>3. ASSUME NEW p \in 1 .. LineLength PROVE (file \o line)[Len(file) + p] = line[p]
    <3>1. /\ Len(file) + p \in 1 .. Len(file) + Len(line)
          /\ ~(Len(file) + p <= Len(file)) /\ (Len(file) + p) - Len(file) = p
      BY <1>3, <2>1
    <3> QED
      BY <2>2, <3>1
  <2> QED
    BY <1>3, <1>7, <2>1, <2>2, <2>3
<1>9. Len(file) = Base(n + 1) /\ \A i \in 1 .. n : LineAt(Base(i), receipts[i].ballot)
  BY <1>0 DEF WholeLines
<1>10. Len(file') = Base((n + 1) + 1)
  <2>1. n + 1 \in Nat \ {0}
    BY <1>1
  <2> QED
    BY <1>8, <1>9, <2>1, Bases
<1>11. ASSUME NEW i \in 1 .. n PROVE LineAt(Base(i), receipts[i].ballot)'
  <2> DEFINE m == receipts[i].ballot
  <2>1. m \in 1 .. Len(encryptions) /\ encryptions'[m] = encryptions[m]
    BY <1>1, <1>2
  <2>2. LineAt(Base(i), m) /\ receipts'[i].ballot = m
    BY <1>6, <1>9
  <2>3. Base(i) \in Nat /\ Len(file) \in Nat
    <3>1. i \in Nat \ {0}
      BY <1>1
    <3>2. Base(i) \in Nat
      BY <3>1, Bases
    <3>3. Len(file) \in Nat
      BY <1>1
    <3> QED
      BY <3>2, <3>3
  <2> HIDE DEF m
  <2>4. Base(i) + LineLength <= Len(file)
        /\ \A p \in 1 .. LineLength : file[Base(i) + p] = Line(m, encryptions[m])[p]
    BY <2>2 DEF LineAt
  <2>5. ASSUME NEW p \in 1 .. LineLength
        PROVE  file'[Base(i) + p] = Line(m, encryptions'[m])[p]
    <3>1. Base(i) + p \in 1 .. Len(file)
      BY <1>3, <2>3, <2>4
    <3>2. file'[Base(i) + p] = file[Base(i) + p]
      BY <1>8, <3>1
    <3> QED
      BY <2>1, <2>4, <3>2
  <2>6. Base(i) + LineLength <= Len(file')
    BY <1>3, <1>8, <2>3, <2>4
  <2> QED
    BY <2>2, <2>5, <2>6 DEF LineAt
<1>12. LineAt(Base(n + 1), k)'
  BY <1>1, <1>2, <1>3, <1>8, <1>9 DEF LineAt, line
<1>13. WholeLines'
  <2>1. ASSUME NEW i \in 1 .. Len(receipts') PROVE LineAt(Base(i), receipts[i].ballot)'
    <3>1. i \in 1 .. n \/ i = n + 1
      BY <1>1, <1>6
    <3>2. CASE i \in 1 .. n
      BY <1>11, <3>2
    <3>3. CASE i = n + 1
      BY <1>4, <1>6, <1>12, <3>3
    <3> QED
      BY <3>1, <3>2, <3>3
  <2> QED
    BY <1>6, <1>10, <2>1 DEF WholeLines
<1>14. ASSUME NEW i \in 1 .. n PROVE ExportedBallot(i)' = ExportedBallot(i)
  <2>1. receipts'[i] = receipts[i] /\ encryptions'[receipts[i].ballot] = encryptions[receipts[i].ballot]
    BY <1>1, <1>2, <1>6
  <2> QED
    BY <2>1 DEF ExportedBallot
<1> QED
  BY <1>0, <1>4, <1>6, <1>13, <1>14

LEMMA EncryptKeepsLines ==
  ASSUME EveryLineInv, API_EncryptBallot
  PROVE  LinesInv' /\ LoadsBackInv'
<1>1. /\ since \in [count : Nat, fault : BOOLEAN, restarted : BOOLEAN]
      /\ ~since.fault => WholeLines /\ NumberedFromZero
  BY DEF EveryLineInv, LinesInv
<1>2. ASSUME Fault PROVE LinesInv' /\ LoadsBackInv'
  <2>1. since' = [since EXCEPT !.fault = TRUE]
    BY <1>2 DEF Fault
  <2>2. since' \in [count : Nat, fault : BOOLEAN, restarted : BOOLEAN] /\ since'.fault = TRUE
    BY <1>1, <2>1
  <2> QED
    BY <2>2 DEF LinesInv, LoadsBackInv
<1>3. CASE EncryptBallot
  <2>1. PICK x \in Identifier :
          /\ Encrypt(x) /\ count' = count + 1
          /\ file' = file \o Line(Len(encryptions'), x)
          /\ receipts' = Append(receipts, [NewReceipt EXCEPT !.id = Number(count)])
          /\ UNCHANGED since
    BY <1>3 DEF EncryptBallot
  <2>2. NewReceipt = [ballot |-> Len(encryptions'), id |-> count]
    BY DEF NewReceipt
  <2>3. receipts' = Append(receipts, [ballot |-> Len(encryptions'), id |-> count])
    BY <2>1, <2>2 DEF Number
  <2>4. encryptions' = Append(encryptions, x) /\ UNCHANGED loaded
    BY <2>1 DEF Encrypt
  <2>5. count \in Nat /\ Len(receipts) \in Nat
    BY DEF EveryLineInv, FilesInv, ReceiptsInv
  <2>6. CASE since.fault
    BY <1>1, <2>1, <2>6 DEF LinesInv, LoadsBackInv
  <2>7. CASE ~since.fault
    <3>1. WholeLines /\ NumberedFromZero
      BY <1>1, <2>7
    <3>2. /\ WholeLines'
          /\ Len(receipts') = Len(receipts) + 1
          /\ receipts'[Len(receipts) + 1].id = count
          /\ \A i \in 1 .. Len(receipts) :
               receipts'[i] = receipts[i] /\ ExportedBallot(i)' = ExportedBallot(i)
      BY <2>1, <2>3, <2>4, <2>5, <3>1, LineAdded DEF EveryLineInv
    <3>3. NumberedFromZero'
      <4> SUFFICES ASSUME ~since.restarted, since.count = 0
                   PROVE  /\ count' = Len(receipts')
                          /\ \A i \in 1 .. Len(receipts') : receipts'[i].id = i - 1
        BY <2>1 DEF NumberedFromZero
      <4>1. count = Len(receipts) /\ \A i \in 1 .. Len(receipts) : receipts[i].id = i - 1
        BY <3>1 DEF NumberedFromZero
      <4>2. ASSUME NEW i \in 1 .. Len(receipts') PROVE receipts'[i].id = i - 1
        <5>1. i \in 1 .. Len(receipts) \/ i = Len(receipts) + 1
          BY <2>5, <3>2
        <5>2. CASE i \in 1 .. Len(receipts)
          BY <3>2, <4>1, <5>2
        <5>3. CASE i = Len(receipts) + 1
          BY <2>5, <3>2, <4>1, <5>3
        <5> QED
          BY <5>1, <5>2, <5>3
      <4> QED
        BY <2>1, <3>2, <4>1, <4>2
    <3>4. LoadsBackInv'
      <4> SUFFICES ASSUME loaded.status # "NONE"
                   PROVE  /\ loaded.status = "SUCCESS"
                          /\ Len(loaded.ballots) = loaded.receipts
                          /\ loaded.receipts \in 0 .. Len(receipts')
                          /\ \A i \in 1 .. Len(loaded.ballots) :
                               loaded.ballots[i] = ExportedBallot(i)'
        BY <2>4 DEF LoadsBackInv
      <4>1. /\ loaded.status = "SUCCESS" /\ Len(loaded.ballots) = loaded.receipts
            /\ loaded.receipts \in 0 .. Len(receipts)
            /\ \A i \in 1 .. Len(loaded.ballots) : loaded.ballots[i] = ExportedBallot(i)
        BY <2>7 DEF EveryLineInv, LoadsBackInv
      <4>2. \A i \in 1 .. Len(loaded.ballots) : i \in 1 .. Len(receipts)
        BY <2>5, <4>1
      <4>3. loaded.receipts \in 0 .. Len(receipts')
        BY <2>5, <3>2, <4>1
      <4> QED
        BY <3>2, <4>1, <4>2, <4>3
    <3> QED
      BY <1>1, <2>1, <3>2, <3>3, <3>4 DEF LinesInv
  <2> QED
    BY <2>6, <2>7
<1>4. CASE EncryptBallot_not_opened
  BY <1>2, <1>4 DEF EncryptBallot_not_opened
<1>5. CASE EncryptBallot_lost_in_close
  BY <1>2, <1>5 DEF EncryptBallot_lost_in_close
<1>6. CASE EncryptBallot_not_written
  BY <1>2, <1>6 DEF EncryptBallot_not_written
<1> QED
  BY <1>3, <1>4, <1>5, <1>6 DEF API_EncryptBallot

LEMMA SoftDeleteKeepsLines ==
  ASSUME EveryLineInv, EncryptBallot_soft_delete_file
  PROVE  LinesInv' /\ LoadsBackInv'
<1>1. /\ receipts' = <<>> /\ loaded' = NotLoaded /\ count' = count
      /\ \/ file' = <<>> /\ since' = Begun(count)
         \/ since' = [since EXCEPT !.fault = TRUE]
  BY DEF EncryptBallot_soft_delete_file, Fault
<1>2. LoadsBackInv'
  BY <1>1 DEF LoadsBackInv, NotLoaded
<1>3. CASE since' = [since EXCEPT !.fault = TRUE]
  <2>1. since \in [count : Nat, fault : BOOLEAN, restarted : BOOLEAN]
    BY DEF EveryLineInv, LinesInv
  <2>2. since' \in [count : Nat, fault : BOOLEAN, restarted : BOOLEAN] /\ since'.fault = TRUE
    BY <1>3, <2>1
  <2> QED
    BY <1>2, <2>2 DEF LinesInv
<1>4. CASE file' = <<>> /\ since' = Begun(count)
  <2>1. count \in Nat /\ Len(receipts') = 0 /\ Len(file') = 0
    BY <1>1, <1>4 DEF EveryLineInv, FilesInv, ReceiptsInv
  <2>2. /\ since' \in [count : Nat, fault : BOOLEAN, restarted : BOOLEAN]
        /\ since'.count = count
    BY <1>4, <2>1 DEF Begun
  <2>3. WholeLines'
    BY <2>1, Bases DEF WholeLines
  <2>4. NumberedFromZero'
    BY <1>1, <2>1, <2>2 DEF NumberedFromZero
  <2> QED
    BY <1>2, <2>2, <2>3, <2>4 DEF LinesInv
<1> QED
  BY <1>1, <1>3, <1>4

LEMMA LoadKeepsLines ==
  ASSUME EveryLineInv, LoadBallots
  PROVE  LinesInv' /\ LoadsBackInv'
<1>1. UNCHANGED <<file, count, encryptions, receipts, since>> /\ file # <<>>
  BY DEF LoadBallots
<1>2. LinesInv'
  BY <1>1 DEF EveryLineInv, LinesInv, WholeLines, NumberedFromZero, LineAt
<1>3. CASE since.fault
  BY <1>1, <1>2, <1>3 DEF LoadsBackInv
<1>4. CASE ~since.fault
  <2>1. FilesInv /\ WholeLines
    BY <1>4 DEF EveryLineInv, LinesInv
  <2>2. PICK number \in 1 .. MaxBallots + 1 :
          loaded' =
            [status |-> IF Voting_Coordinator_import_encrypted_ballots(number).status
                             \in {"SUCCESS", "END_OF_FILE"}
                        THEN "SUCCESS" ELSE "UNDEFINED_ERROR",
             ballots |-> Voting_Coordinator_import_encrypted_ballots(number).ballots,
             receipts |-> IF Len(receipts) < number THEN Len(receipts) ELSE number]
    BY DEF LoadBallots
  <2> DEFINE read == Voting_Coordinator_import_encrypted_ballots(number)
             n == Len(receipts)
  <2>3. number \in Nat /\ n \in Nat
    BY <2>1, BallotFilesAssumption DEF FilesInv, ReceiptsInv
  <2>4. read \in ImportResults /\ LinesImported(n, number, read)
    BY <1>1, <2>1, <2>3, WholeLinesImported
  <2> HIDE DEF read, n
  <2>5. /\ read.status \in {"SUCCESS", "END_OF_FILE"}
        /\ Len(read.ballots) = IF number <= n THEN number ELSE n
        /\ \A q \in 1 .. Len(read.ballots) : read.ballots[q] = ExportedBallot(q)
    BY <2>4 DEF LinesImported
  <2>6. /\ loaded'.status = "SUCCESS" /\ loaded'.ballots = read.ballots
        /\ loaded'.receipts = IF n < number THEN n ELSE number
    BY <2>2, <2>5 DEF read, n
  <2>7. loaded'.receipts = Len(read.ballots) /\ loaded'.receipts \in 0 .. n
    BY <2>3, <2>5, <2>6
  <2>8. \A q : ExportedBallot(q)' = ExportedBallot(q)
    BY <1>1 DEF ExportedBallot
  <2>9. n = Len(receipts')
    BY <1>1 DEF n
  <2>10. LoadsBackInv'
    BY <2>5, <2>6, <2>7, <2>8, <2>9 DEF LoadsBackInv
  <2> QED
    BY <1>2, <2>10
<1> QED
  BY <1>3, <1>4

LEMMA EveryLineInvStep ==
  ASSUME EveryLineInv, [ElectionNext]_electionVars
  PROVE  EveryLineInv'
<1>1. FilesInv'
  BY FilesInvStep DEF EveryLineInv
<1>2. ASSUME UNCHANGED <<file, encryptions, receipts, count, since, loaded>>
      PROVE  LinesInv' /\ LoadsBackInv'
  BY <1>2 DEF EveryLineInv, LinesInv, LoadsBackInv, WholeLines, NumberedFromZero, LineAt,
              ExportedBallot
<1>3. ASSUME UNCHANGED <<file, encryptions, receipts>>, loaded' = NotLoaded,
             \/ UNCHANGED <<count, since>>
             \/ since' = [since EXCEPT !.restarted = TRUE]
      PROVE  LinesInv' /\ LoadsBackInv'
  <2>1. LoadsBackInv'
    BY <1>3 DEF LoadsBackInv, NotLoaded
  <2>2. WholeLines => WholeLines'
    BY <1>3 DEF WholeLines, LineAt
  <2>3. CASE UNCHANGED <<count, since>>
    BY <1>3, <2>1, <2>2, <2>3 DEF EveryLineInv, LinesInv, NumberedFromZero
  <2>4. CASE since' = [since EXCEPT !.restarted = TRUE]
    <3>1. since \in [count : Nat, fault : BOOLEAN, restarted : BOOLEAN]
          /\ (~since.fault => WholeLines)
      BY DEF EveryLineInv, LinesInv
    <3>2. /\ since' \in [count : Nat, fault : BOOLEAN, restarted : BOOLEAN]
          /\ since'.fault = since.fault /\ since'.restarted = TRUE
      BY <2>4, <3>1
    <3> QED
      BY <2>1, <2>2, <3>1, <3>2 DEF LinesInv, NumberedFromZero
  <2> QED
    BY <1>3, <2>3, <2>4
<1>4. CASE UNCHANGED electionVars
  BY <1>1, <1>2, <1>4 DEF electionVars, fileVars, EveryLineInv
<1>5. CASE FilesStep
  BY <1>1, <1>5, EncryptKeepsLines, SoftDeleteKeepsLines, LoadKeepsLines
     DEF FilesStep, EveryLineInv
<1>6. CASE API_RecordBallots
  BY <1>1, <1>3, <1>6 DEF API_RecordBallots, EveryLineInv
<1>7. CASE Tally
  BY <1>1, <1>2, <1>7 DEF Tally, fileVars, EveryLineInv
<1>8. CASE TallyFails
  BY <1>1, <1>2, <1>8 DEF TallyFails, EveryLineInv
<1>9. CASE Restart
  BY <1>1, <1>3, <1>9 DEF Restart, FilesRestart, EveryLineInv
<1> QED
  BY <1>4, <1>5, <1>6, <1>7, <1>8, <1>9 DEF ElectionNext

LEMMA EveryLineInvInit == ElectionInit => EveryLineInv
<1> SUFFICES ASSUME ElectionInit PROVE EveryLineInv
  OBVIOUS
<1>1. /\ file = <<>> /\ count = 0 /\ receipts = <<>> /\ loaded = NotLoaded
      /\ since = Begun(0)
  BY DEF ElectionInit, FilesInit
<1>2. Len(file) = 0 /\ Len(receipts) = 0
  BY <1>1
<1>3. WholeLines /\ NumberedFromZero
  BY <1>1, <1>2, Bases DEF WholeLines, NumberedFromZero
<1>4. since \in [count : Nat, fault : BOOLEAN, restarted : BOOLEAN]
  BY <1>1 DEF Begun
<1>5. LoadsBackInv
  BY <1>1 DEF LoadsBackInv, NotLoaded
<1> QED
  BY <1>3, <1>4, <1>5, FilesInvInit DEF EveryLineInv, LinesInv

LEMMA LoadedAreTheExported == EveryLineInv => FileLoadsBack
<1> SUFFICES ASSUME EveryLineInv, loaded.status # "NONE", ~since.fault PROVE FileLoadsBack
  BY DEF FileLoadsBack
<1>1. /\ loaded.status = "SUCCESS" /\ Len(loaded.ballots) = loaded.receipts
      /\ loaded.receipts \in 0 .. Len(receipts)
      /\ \A i \in 1 .. Len(loaded.ballots) : loaded.ballots[i] = ExportedBallot(i)
  BY DEF EveryLineInv, LoadsBackInv
<1>2. Len(receipts) \in Nat /\ loaded.ballots \in Seq(LoadedBallots)
  BY DEF EveryLineInv, FilesInv, ReceiptsInv, LoadedInv
<1>3. DOMAIN loaded.ballots = 1 .. Len(loaded.ballots)
  BY <1>2
<1>4. ASSUME NEW i \in DOMAIN loaded.ballots
      PROVE  /\ loaded.ballots[i].identifier = WholeIdentifier(encryptions[receipts[i].ballot])
             /\ loaded.ballots[i].selections = NumbersOf(receipts[i].ballot)
             /\ ~since.restarted /\ since.count = 0 => loaded.ballots[i].id = receipts[i].id
  <2>1. loaded.ballots[i] = ExportedBallot(i) /\ i \in 1 .. Len(receipts)
    BY <1>1, <1>2, <1>3
  <2>2. NumberedFromZero
    BY DEF EveryLineInv, LinesInv
  <2> QED
    BY <2>1, <2>2 DEF ExportedBallot, NumberedFromZero
<1> QED
  BY <1>1, <1>4 DEF FileLoadsBack, Messages_are_equal

\* examples/api/main.c:184.  However many ballots are exported, files renamed,
\* processes ended and calls made with any number to load: if no call failed since
\* the file was begun, what is loaded is what was exported.
THEOREM ExportedBallotsLoadBack == ElectionSpec => []FileLoadsBack
<1>1. ElectionInit => EveryLineInv
  BY EveryLineInvInit
<1>2. EveryLineInv /\ [ElectionNext]_electionVars => EveryLineInv'
  BY EveryLineInvStep
<1>3. EveryLineInv => FileLoadsBack
  BY LoadedAreTheExported
<1> QED
  BY <1>1, <1>2, <1>3, PTL DEF ElectionSpec

==============================================================================
