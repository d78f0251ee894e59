---------------------------- MODULE Serialization ----------------------------
(***************************************************************************)
(* src/electionguard/serialize: how the messages and the states that are   *)
(* handed on are written to bytes and read back.  The length is reserved,  *)
(* the buffer allocated and then written, or read, field by field; the     *)
(* status of the state decides whether a call does anything.  A message is *)
(* the list of its fields; a byte has ByteBase values, a word WordBytes    *)
(* bytes.                                                                  *)
(***************************************************************************)
EXTENDS Powers, SequencesExt

CONSTANTS
  ByteBase,    \* values of a byte
  WordBytes,   \* sizeof(uint64_t)
  PWords,      \* words of a number modulo p, 64
  QWords,      \* words of a number modulo q and of a hash, 4
  RsaWords,    \* words of a prime factor of an RSA key, 32
  ShareWords,  \* words of an encrypted key share, 12
  QValue       \* q, that a hash is reduced by when it is read

ASSUME SerializationAssumption ==
  /\ ByteBase \in Nat \ {0, 1}
  /\ {WordBytes, PWords, QWords, RsaWords, ShareWords, QValue} \subseteq Nat \ {0}
  /\ WordBytes % 2 = 0

WordBase == IntegerPower(ByteBase, WordBytes)

\* The types of fields, by the number of bytes they take.
Bool == [type |-> "bool", size |-> 1]
Uint32 == [type |-> "int", size |-> WordBytes \div 2]
Uint64 == [type |-> "int", size |-> WordBytes]
Uint64s(ct) == [type |-> "number", size |-> ct * WordBytes]
Uint4096 == Uint64s(PWords)
Uint256 == Uint64s(QWords)
Uint256Pad == [type |-> "padded", size |-> QWords * WordBytes]
Hash == [type |-> "hash", size |-> QWords * WordBytes]

Field(type, value) == [type |-> type, value |-> value]
Each(type, values) == [i \in 1 .. Len(values) |-> Field(type, values[i])]
Times(n, type) == [i \in 1 .. n |-> type]

(* The state ***************************************************************)
Reserving == [status |-> "RESERVING", len |-> 0, offset |-> 0, buf |-> <<>>]
Reading(buf) == [status |-> "READING", len |-> Len(buf), offset |-> 0, buf |-> buf]

reserve(state, size) ==
  IF state.status = "RESERVING" THEN [state EXCEPT !.len = @ + size] ELSE state

\* A state with nothing reserved is left as it was.
Serialize_allocate(state) ==
  IF state.status = "RESERVING" /\ state.len > 0
  THEN [state EXCEPT !.status = "WRITING", !.offset = 0] ELSE state

\* read_nth_byte and write_nth_byte: the lowest byte first.
Bytes(value, n) == Reverse(Digits(ByteBase, value, n))
FromBytes(bytes) == NumberOf(ByteBase, Reverse(bytes))

\* The bytes are put where the offset is, which nothing compares with the length.
put(state, bytes) ==
  IF state.status = "WRITING"
  THEN [state EXCEPT !.buf = @ \o bytes, !.offset = @ + Len(bytes)] ELSE state

\* The bytes from the offset on; none, and the number 0, when not reading.
next_bytes(state, n) ==
  IF state.status = "READING" THEN SubSeq(state.buf, state.offset + 1, state.offset + n)
  ELSE [i \in 1 .. n |-> 0]
advance(state, n) ==
  IF state.status = "READING" THEN [state EXCEPT !.offset = @ + n] ELSE state

(* Numbers *****************************************************************)
IsInt(type) == type.type \in {"bool", "int"}
WordsOfType(type) == type.size \div WordBytes

\* mpz_export gives the words of a number without leading zeros: exactly those of the
\* field there have to be, and for a padded one at most.
Fits(field) ==
  LET ct == WordsOfType(field.type)
  IN  \/ IsInt(field.type)
      \/ /\ field.value < IntegerPower(WordBase, ct)
         /\ field.type.type = "padded" \/ field.value >= IntegerPower(WordBase, ct - 1)

\* The words of a number, the highest first, and what is read from them.
Exported(value, ct) ==
  [i \in 1 .. ct |-> Bytes(Digits(WordBase, value, ct)[i], WordBytes)]
Imported(bytes, ct) ==
  NumberOf(WordBase,
           [i \in 1 .. ct |-> FromBytes(SubSeq(bytes, (i - 1) * WordBytes + 1, i * WordBytes))])

Encoded(field) ==
  IF IsInt(field.type) THEN Bytes(field.value, field.type.size)
  ELSE FlattenSeq(Exported(field.value, WordsOfType(field.type)))

\* A hash is read byte by byte and reduced, other numbers word by word.
Decoded(type, bytes) ==
  CASE IsInt(type) -> FromBytes(bytes)
    [] type.type = "hash" -> Imported(bytes, WordsOfType(type)) % QValue
    [] OTHER -> Imported(bytes, WordsOfType(type))

\* A number that does not fit is an error whatever the state was before.
write(state, field) ==
  IF Fits(field) THEN put(state, Encoded(field)) ELSE [state EXCEPT !.status = "IO_ERROR"]
read(state, type) == Decoded(type, next_bytes(state, type.size))

Written(fields) ==
  LET n == Len(fields)
      reserved[k \in 0 .. n] ==
        IF k = 0 THEN Reserving ELSE reserve(reserved[k - 1], fields[k].type.size)
      written[k \in 0 .. n] ==
        IF k = 0 THEN Serialize_allocate(reserved[n]) ELSE write(written[k - 1], fields[k])
  IN  written[n]

\* r: a state being read and the values read from it so far.
Start(buf) == [state |-> Reading(buf), values |-> <<>>]
More(r, type) == [state |-> advance(r.state, type.size),
                  values |-> Append(r.values, read(r.state, type))]
MoreOf(r, types) ==
  LET more[k \in 0 .. Len(types)] == IF k = 0 THEN r ELSE More(more[k - 1], types[k])
  IN  more[Len(types)]
\* The same types n times over.
Repeated(r, n, types) ==
  LET more[k \in 0 .. n] == IF k = 0 THEN r ELSE MoreOf(more[k - 1], types)
  IN  more[n]
=============================================================================
