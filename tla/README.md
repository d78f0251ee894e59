# ElectionGuard C: a TLA+ model of the election

This directory holds a formal model of the ElectionGuard C SDK: TLA+ modules for the
entities of an election, TLC configurations that check them on small instances, and
proofs, checked by TLAPS, that hold for every instance. File names such as
`keyceremony/coordinator.c` are relative to `src/electionguard/`, header names to
`include/electionguard/`.

Contents: 1 the system, 2 the modules, 3 what is checked, 4 what is proved,
5 where code and documentation disagree, 6 what is not modelled, 7 the plan.


## 1. The system

The SDK is a library of single-threaded C objects. It sends nothing and stores almost
nothing: a client calls the operations of each object, and carries the messages one
operation returns to the operation of another object that takes it. Concurrency is
therefore not in threads. It is in the order in which the client calls, in messages
that are lost, late or handed over twice, in calls that fail half way and are tried
again, and in objects that outlive the call they were made for.

An election has three phases, and the library one group of objects for each.

| component | state it keeps | operations |
|---|---|---|
| key ceremony coordinator (`keyceremony/coordinator.c`) | one array `seen` for all phases, the trustees' public keys, their key shares | receive_key_generated, all_keys_received, receive_shares_generated, all_shares_received, receive_shares_verified, publish_joint_key |
| key ceremony trustee (`keyceremony/trustee.c`) | its polynomial and RSA pair, its copy of everybody's public keys, the shares it accepted | generate_key, generate_shares, verify_shares, export_state |
| decryption coordinator (`decryption/coordinator.c`) | who announced, the tally of the first share, the product of what was received, who responded, fragments counted per missing trustee | receive_share, all_shares_received, receive_fragments, all_fragments_received |
| decryption trustee (`decryption/trustee.c`) | its exported state, its encrypted tally | new, tally_voting_record, compute_share, compute_fragments |
| voting coordinator (`voting/coordinator.c`) | one instance per process with a count of references, the buffer of the batch, the number of registered ballots | new, free, register_ballot, cast_ballot, spoil_ballot, clear_buffer, export_buffered_ballots, import |
| ballot collection (`voting/ballot_collection.c`) | a global hash table of ballots by external identifier | register, mark_cast, mark_spoiled, get, free |
| voting encrypter (`voting/encrypter.c`) | joint key, base hash, number of ballots it encrypted | encrypt_ballot |
| ballot file (`api/encrypt_ballot.c`, `api/load_ballots.c`) | a text file, appended to line by line; the count of encrypted ballots of the process | EncryptBallot, soft_delete_file, LoadBallots |
| tally (`api/tally_votes.c`) | a static array of trustees, stored by index, that outlives the call | TallyVotes |
| other API (`api/*.c`) | static handles that survive between calls | CreateElection, RecordBallots |
| serialization (`serialize/*.c`) | a reserve / allocate / write / read state machine | one set per message |
| cryptography (`crypto.c`, `bignum.c`, `rsa.c`) | none | key pairs, shares, encryption, proofs, Lagrange interpolation |
| long numbers (`uint4096.c`) | none | addition to exponentiation, on arrays of words |
| ballot trackers (`voting/tracker.c`) | none | the words and digits shown for a hash |

How they interact:

    trustee.generate_key -> coordinator -> all keys -> trustee.generate_shares
      -> coordinator -> all shares -> trustee.verify_shares -> coordinator
      -> joint key;     trustee.export_state -> trustee_state (kept by the client)
    encrypter(joint key) -> encrypted ballot -> voting coordinator
      -> register / cast / spoil -> voting record (a file)
    decryption trustee(trustee_state).tally_voting_record(voting record) -> share
      -> decryption coordinator -> requests -> fragments -> tally

What makes each correct, and what makes it hard:

* **Key ceremony.** The joint key must be a product of keys that the trustees still
  hold, and each trustee must hold shares of all the others that it can decrypt:
  otherwise nobody can ever open the tally. Hard: `seen` is one array for three phases
  and only the last caller to clear it says which phase it is for; a trustee may
  generate a key again after it sent the first; export_state may be called at any
  time; an error status is overwritten (`coordinator.c:270-276`).
* **Decryption.** What is published must be the tally of the record, with every
  missing trustee stood in for exactly once. Hard: fragments must be weighted for the
  very set of trustees whose fragments are combined; shares and fragments carry no
  phase; a reading of the record that fails leaves what it read in the tally.
* **Voting.** The record must have every registered ballot once, and a cast or spoiled
  ballot is final. Hard: batches that fail half way and are tried again; counts of the
  whole life next to buffers of one batch; an instance shared by two APIs.
* **The arithmetic of shares.** Any threshold of trustees recovers the key. Hard:
  indices from 0 for trustees and from 1 for points, differences modulo q.
* **Encryption and proofs.** Every proof passes for what it proves and for nothing
  else. Hard: a disjunctive proof is made for either branch with the roles of real and
  simulated half exchanged; sums of nonces and of encryptions must go together; a
  number that is drawn may be 0, q or above q; a number too short for its words is an
  error or is hashed differently.
* **Numbers, messages, trackers.** What is computed in words is the number modulo 2^4096;
  what was written is read back. Hard: carries, the estimate of a quotient, lengths that
  are reserved in one place and used in another.
* **The ballot file.** What is loaded was exported. Hard: the file is appended to
  whatever its last line is like, a `fclose` that fails goes unnoticed, literals of a
  `fscanf` format that are missing are not an error, and the count of ballots begins
  again with every process while the file goes on.
* **The whole election.** A result counts each ballot recorded as cast once, and nothing
  else. Hard: trustees that an earlier call left in the static array, with what they
  had read; processes that end between any two calls.

`PROJECT.json` lists these hazards with the line where each bites and the property
that would catch it.


## 2. The modules

Every operation of an object is an action. An operation that is rejected (a duplicate
index, too few trustees, a bad proof) returns before it assigns anything: it is a
stuttering step and has no action. Operations that are rejected *and* change state,
and there are several, have one.

### Key ceremony

* `KeyCeremonyMessages` - the values. generate_key draws a new polynomial and a new
  RSA pair, so one number, the *version*, stands for both; a share is the version of
  the polynomial it is a point of and of the RSA key it is encrypted to, and it is
  valid for a reader when both are what the reader expects. `NoKey` and `NoShare` are
  the zero numbers the `_new` functions leave behind; a message with one of them
  cannot be written (`serialize/crypto.c:15-42`).
* `KeyCeremonyCoordinator`, `KeyCeremonyTrustees` - the two structs, field by field.
* `KeyCeremony` - both, with a client and a network that keeps every message for ever:
  a message may be delivered any number of times, in any order, or never. The client
  makes the coordinator's three closing calls in the documented order (`phase`).
  `LateDelivery` says whether a message may reach the coordinator in a later phase
  than its own; `MallocMayFail` lets the reading of shares run out of memory. One
  thing is asked of the client: it does not make a trustee generate a key again after
  that trustee verified its shares.
* `KeyAgreement` - the abstract specification: every trustee endorses one list of keys
  and a list is agreed once all have endorsed it, for ever. `KeyCeremony` implements it
  under the mapping that a trustee endorses its copy of the public keys when it accepts
  its shares, and publishing the joint key agrees.
* `KeyCeremonyMC` - for TLC. `KeyCeremonyProofs` - the proofs.

### Decryption

* `ThresholdShares` - the pure arithmetic, in the exponents: computeTrusteePolynomial,
  product_1, product_2 and the Lagrange coefficient, over a small prime Q in the place
  of q. `ThresholdSharesMC` checks it against what it is for, for every polynomial, and
  states what the proof of a trustee's key and the check of a share promise.
* `FoldsAndLoops`, `Lagrange` - the mathematics under it, proved: folding a commutative,
  associative operation over a finite set, the recursive function that stands for a loop
  and how an invariant of the loop holds of its value, arithmetic modulo a prime, and
  Lagrange's interpolation with the weights the code computes.
* `DecryptionMessages` - a tally is how often each cast ballot was accumulated; a
  share or fragment multiplied into the product is a *factor* (whose key, by whom,
  weighted for which set, of which tally). `Opens` says that the factors of a product,
  with the arithmetic of `ThresholdShares`, add up to the exponent of every
  coefficient of every trustee's key: that dividing by the product leaves the votes.
* `DecryptionCoordinator`, `DecryptionTrustees` - the structs. Encryptions are the bag
  of factors multiplied into them, so a factor multiplied twice is seen.
  `ReceiveConfusedShare` is the rejection that changes state: the trustee is marked
  and the first selection's product multiplied before the message is found to differ.
* `Decryption` - both with the client (the calls of API_TallyVotes) and the network.
  `AnyQuorum` lets any number of trustees from the threshold up take part,
  `LateShares` delivers shares after the requests were made, `RetryInPlace` feeds the
  record again to a trustee whose reading failed. Trustees may be lost and made again
  from their state at any time. `DecryptionMC` - for TLC. `DecryptionProofs` - the proofs.

Read in the code and worth knowing: the coordinator never checks the Chaum-Pedersen
proofs it receives; fragments are not compared with what was requested; a trustee that
announced and is lost cannot be compensated for; API_TallyVotes calls
all_shares_received once per trustee and keeps the last answer, which is the same as
one call before any fragment is received.

### Voting

* `BallotCollection` - the hash table. Registering an identifier twice frees the entry
  that is in the table without unlinking it (`voting/coordinator.c:169`). From there on
  the behaviour is undefined: `dangling` becomes TRUE and every lookup may find any
  state or none.
* `VotingCoordinator` - the instance, its reference count, the buffer and the count of
  registered ballots.
* `Voting` - API_RecordBallots as one step per coordinator call, each able to fail, and
  the handle of API_LoadBallots. The ballots of a call are picked as it goes, so the
  model has every call a caller could make. `record` is the exported file: the number
  in its header and its lines. `Restart` is the end of the process: the two code paths
  that pass a NULL handle to clear_buffer and free memory that is not the heap's end in
  it. A failed allocation has the effect of a refusal and is one of those.
* `BallotBox` - the abstract specification, without batches, buffers or files: a ballot is
  registered once and then cast or spoiled, for good, and what is published is the box as
  it is at that moment or cannot be read. `Voting` implements it: the box is the table, its
  marks the abstract ones, and `Shown` is what a record shows. Registering a ballot again
  voids the box, after which anything may be published until a new one is set up.
* `VotingMC` - for TLC. `VotingProofs` - the proofs.

The export truncates the file first (`"w+"`), the header is the number of all ballots
registered in this life, the lines are this batch's, and the status of a line that
could not be written is overwritten by clear_buffer's (`coordinator.c:439`), so that a
record cut short is reported as a success. Trustees read to the announced number and
reject it.


### Cryptography, messages and numbers

* `Encryption` - exponential ElGamal and its four kinds of proof (key pair, selection,
  ballot, decryption), with the RSA encryption of shares, in the subgroup of order Q of
  the integers modulo a small prime P. A challenge is a digest of the numbers before it,
  and any exponent at all when one of them is too short to be written to the buffer that
  is hashed; what is claimed of a proof is claimed for every challenge. `Drawn` are the
  numbers the random source gives, `Short` those that do not fill their fixed number of
  words.
* `VotingEncrypter` - encrypt_ballot one selection at a time: the encryption, the sum
  and the nonce's sum it goes into, its proof and the check of it, and the status, which
  a later error replaces.
* `UintArithmetic` - uint4096.c on words of `WordBits` bits, carry by carry; a loop, and
  the recursion that divides the words of a product into halves, is a recursive function.
  Its state is what is computed with: the operands are chosen, then what they are reduced
  by. `Powers` has the powers and digits of whole numbers that several modules use.
* `Serialization`, `MessageLayouts` - the state of serialization with its status, the
  encodings of each type, and every message as the list of its fields. A reader that
  finds how many fields follow in a field before them does so here as well. The writers
  and readers are loops over the fields, as in the code. The state is one message: its
  kind and then its content, one of `Contents`, which are among `MessagesOf` that kind,
  the values of the code's structures. A number is not longer than its field there: the
  code exports it to a buffer of that size before it counts the words.
* `WordProofs` - the proofs about long numbers and messages.
* `Tracker` - what is displayed for a hash, and the tracker of the ballot registered last.
  A noun is its index in the table.
* `CryptographyMC` - for TLC. These are computations, not protocols, so a behaviour does
  one of them: shares of one polynomial, one ballot, one long number, one message or one
  tracker; the rest of the state is idle.
* `CryptographyProofs` - the proofs about shares, encryption, the encrypter and trackers.

### The whole election

* `BallotFiles` - API_EncryptBallot with the disk failing in its three places,
  soft_delete_file, API_LoadBallots and the import. The file is a sequence of tokens: an
  identifier, a tab, numbers, closing parentheses, a newline. `Written` is every
  beginning of a line that may reach the file, cut also inside an identifier or a number
  (`whole` is FALSE). What the reader does with a separator that is missing, with the end
  of the file in the middle of a ballot, and with an identifier that follows on another,
  is what `fscanf` does with them.
* `TallyVotes` - API_TallyVotes a whole call at a time, with the array of trustees. What
  the inside of a call does is `Decryption`'s matter; its outcome is taken from there:
  it opens when exactly the threshold or all of the trustees are present, and for any
  other number the search for the logarithm does not end (status `RUNS`), which is the
  finding `dec_quorum` seen from outside. `First` are the trustees a client that
  follows the example gives.
* `Election` - the two composed with the voting record: encrypt, load, record, tally, in
  the client's order, with `Restart` anywhere. Ballots are encrypted before the first is
  recorded, a process records one batch, and RecordBallots is one step: `Voting` has its
  parts and its failures between them. `Restart` also stands for the outcome of the
  places where the code frees what is not its own. `ElectionProofs` - the proofs.


## 3. What is checked

| run | instance | shows | states |
|---|---|---|---|
| kc_in_phase | 3 trustees, 2 keys each | TypeOK, AcceptedSharesOpen, TrusteesAgree, JointKeyBacked, ExportsBackJointKey, ImplementsAgreement | 85,251 |
| kc_progress | 4 trustees | CeremonyCompletes | 803 |
| kc_late_publish | 2 trustees | PublishedAfterVerification is violated | |
| shares | 4 trustees, threshold 3, order 7 modulo 29, 2 selections, words of 2 bits | SharesRecoverKey, KeyProofBindsKey, OnlyOwnSharePasses, HonestBallotVerifies, SelectionProofBindsMessage, BallotProofBindsCount, DecryptionProofBindsShare, AnyQuorumCountsSelections, WordArithmeticIsExact, RemainderLoopRunsOnce, MessagesReadBack, TrackersLookDifferent | 5,707 |
| reciprocal | words of 2 bits, 2 moduli | WrongReciprocalIsSafe is violated | |
| dec | 3 trustees, threshold 2, 3 ballots, 2 selections | TypeOK, PublishedTallyIsRecord, CompleteTallyOpens, EachMissingCompensatedOnce | 105,996 |
| dec_progress | 3 trustees, threshold 2 | TallyIsPublished | 3,417 |
| dec_quorum | 3 trustees, threshold 1 | AnyQuorumDecrypts is violated | |
| dec_late | 3 trustees, threshold 2 | LateSharesAreHarmless is violated | |
| voting | 4 ballots, box 3, buffer 2 | TypeOK, HandlesAreLive, ReadableRecordIsComplete, BallotsAreFinal, NeverRecordedTwice, ImplementsBallotBox | 50,182 |
| voting_batches | 2 ballots | ExportedRecordIsReadable is violated | |
| election | 1 selection, 2 encryptions, 4 trustees, threshold 2, 2 failing calls | FileLoadsBack, IdentifiersKeepTheirBallots, FirstTrusteesAlwaysTally, ResultIsOfTheCastBallots | 400,269 |

Why the bounds are enough:

* *3 trustees, 2 keys* (`MaxKeys`): a share can be stale for its maker, its reader, or
  both, while a third trustee goes on; a second regeneration is a third version that is
  as stale as the second. The proofs of section 4 need no bound.
* *Threshold 2 of 3*: there is a trustee missing, one that stands in and one more.
  Two selections show what a confused share does to the first only. The record has two
  cast ballots and a spoiled one, so a partial reading may have read one, none or both;
  `MaxTally` = 2 lets a ballot be accumulated twice, `MaxFaults` = 3 lets every trustee
  fail once, or one of them three times. Q = 101 makes it unlikely that a wrong
  exponent happens to be right; `shares` is exhaustive in Q = 7 instead.
* *Box 3, buffer 2, 4 ballots*: the buffer fills before the box, the box within a second
  batch, and one more ballot is refused. `MaxRegistered` = 3 bounds a number that, by the
  code, only grows, at the size of the box, which is also what the code allows as long
  as nothing was registered twice. Ballots are interchangeable: symmetry is used in the
  voting run, which checks no liveness.

* *Order 7 modulo 29*: every coefficient, nonce and challenge of the order is tried, so
  that the exceptions the proofs have (a challenge that is 0) are met and stated, and
  every polynomial that shares out the joint key. `Drawn` has 0, 1, a number below Q, Q
  itself and P - 1. With two selections a sum differs from its last term. 1 is short, as
  it is in the code.
* *Words of 2 bits, two to a number*: every pair of numbers is added, compared and
  multiplied and every product reduced, by moduli that fill their words and by ones that
  do not. A word is divided into halves, a number into halves of words.
* *Bytes of 4 values, words of 2 bytes*: messages have one, two or three elements of
  each kind, numbers that just fill their words and that just fail to. Numbers
  modulo p have 3 words, numbers modulo q, shares and the factors of RSA keys 2.
* *2 encryptions, 2 failures*: a line torn, the next one appended to it, and a failure
  of the tally; or both lines torn. *4 trustees, threshold 2*: three of them present is
  the number for which the tally does not open, and an array can hold it when a call
  asked for two. `MaxTally` = 2: a trustee that was left with a ballot counts it again.

Fairness (`kc_progress`, `dec_progress`) is weak fairness of each call. The loops of
API_CreateElection and API_TallyVotes make each of these calls for every trustee, and a
distributed client repeats a call until it succeeds. It is not claimed for failures:
readings that fail and trustees that are lost happen at most `MaxFaults` times and need
not happen. In `dec_progress` a trustee whose reading failed is made again; without that
assumption an election waits for ever for a trustee that announced. In `kc_progress`
each trustee generates one key: a second one after the broadcast stops the ceremony for
good, which is why the safety runs do not check deadlock. The decryption safety runs do
not either: the protocol ends. `election` does not, for the search for the logarithm
is the end of a behaviour in which it does not return, and `shares` does not, for a
computation ends. Both progress runs and the voting runs do check it.

Two properties have exceptions, and both are the code's. `IdentifiersKeepTheirBallots`
and `ResultIsOfTheCastBallots` leave out a line that was cut within the last word of a
number: what is left of the number is a number, and nothing tells it from another.
`HonestBallotVerifies` leaves out a ballot with a number that does not fill its words:
it cannot be written, or the hash of it is taken over words that were not filled.

Mutants: for each property of a passing run PROJECT.json names a definition and a
plausible bug in it (`A bug: ...` in the module) that the run detects.


## 4. What is proved

`KeyCeremonyProofs` proves, for every number of trustees and every bound on keys:

| theorem | states |
|---|---|
| CeremonyTypeCorrect | Spec => []TypeOK |
| CeremonyInvariant | Spec => []CeremonyInv |
| AcceptedSharesAlwaysOpen, TrusteesAlwaysAgree | even with late messages, what a trustee accepted opens under its key, and all accepted one list |
| InPhaseInvariant | ~LateDelivery /\ Spec => []SafeInv |
| JointKeyAlwaysBacked, ExportsAlwaysBackJointKey | with messages in their phase, the joint key is backed by every trustee's state and every exported state backs it |
| CeremonyImplementsAgreement | with messages in their phase, KeyCeremony implements KeyAgreement |

Assumptions: `KeyCeremonyAssumption` (at least one trustee and one key),
`ClientAssumption` (the two switches are Booleans). TLC evaluates both in every run of
the ceremony. The cryptography is assumed to be what `KeyCeremonyMessages` makes of it:
a share made for other keys does not verify.

The argument. None of the properties is inductive: that a joint key is backed says
nothing of the shares still under way that a trustee could accept next. `CeremonyInv`
adds what is missing:

1. `OneKeyList`: the client leaves the first phase once, so one list is broadcast.
2. `SharesMadeAfterList`: a share under way of a trustee's *present* polynomial was
   made after the trustee received that list; a share of an older polynomial has a
   smaller version, and generating a key again makes all shares older.
3. `VerifiedHoldsList`: hence, at verify_shares, a trustee finds its own share of its
   present polynomial only if it had received the list, so what it accepts is exactly
   what that list asks for, and stays so, for it generates no further key.

Messages may be late in all of this. That a joint key is published only after
verification needs `InPhaseInv`: in the last phase `seen[i]` means that i verified. It
does not hold when messages are late, which is the first finding below.

`VotingProofs` proves, for every set of ballots, every size of box and buffer, and with
every call and every write able to fail:

| theorem | states |
|---|---|
| HandlesAlwaysLive | Spec => []HandlesAreLive |
| VotingTypeCorrect | Spec => []TypeOK: the box and the buffer keep their limits |
| BallotsAlwaysFinal | Spec => BallotsAreFinal |
| ReadableRecordAlwaysComplete | Spec => []ReadableRecordIsComplete |
| NeverRecordedTwiceHolds | Spec => NeverRecordedTwice |
| VotingImplementsBallotBox | Voting implements BallotBox |

Assumptions: `BallotsAssumption`, `SelectionsAssumption`, and the module's
`ClientAssumption`. The argument. Every action of the voting coordinator does one of six
things to the table, the buffer and the record (`Registers`, `Marks`, `Clears`,
`Exports`, `Frees`, `Leaves`; `WholeSteps` and `Recovers` show it), and the invariants
are proved of those six:

1. `Held`: the reference count is the handles held, written without the set.
2. `BoxCounted`: registered_num_ballots is the size of the table and every ballot's index
   is below it. This is what relates the header of a record to its lines.
3. `BufferOnce`: the buffer lists ballots of the table that are in no record yet, each
   once. Hence two exports never share a ballot, and the lines of a record are as many as
   the ballots in it.
4. `RecordComplete`: a readable record has the ballots with an index below its header.
   When it is exported it has as many lines as the table has ballots, so all of them.

The refinement goes by the same six: `Registers` is the abstract Register, `Marks` is Cast
or Spoil, `Exports` is Publish (by 2 and 3 a record that can be read has a line for every
ballot, with the mark the table has), `Frees` is SetUp, and the other two are stutters. The
one step into freed memory is RegisterAgain.

Nothing is promised, or needed, once freed memory is in the table: `RecordInv` is
`~dangling => ...`, and the type invariant holds regardless.

`DecryptionProofs` proves, for every number of trustees, threshold, record and number of
faults:

| theorem | states |
|---|---|
| DecryptionTypeCorrect | Spec => []TypeOK |
| PublishedTallyAlwaysRecord | Spec => []PublishedTallyIsRecord: for any quorum and with late shares |
| MissingAlwaysCompensatedOnce | ~LateShares: Spec => []EachMissingCompensatedOnce |
| CompleteTallyAlwaysOpens | ~LateShares and ~AnyQuorum: Spec => []CompleteTallyOpens |

Assumptions: `ThresholdAssumption`, `RecordAssumption`, `ClientAssumption`. The argument:

1. `TypeInv`: a missing trustee never has more fragments than trustees have answered,
   which bounds the counter, and only participants are asked and announced.
2. `RecordTallyInv`: a trustee that was not fed twice has accumulated nothing or the whole
   record whenever it can compute a share, and of nothing no share can be written.
   What all_fragments_received publishes is the tally of a share, since a tally with no
   share at all is never complete (`CompleteIsInitialized`).
3. `AskedOnce`: with shares in their phase the trustees that announced are the
   participants from the first request on, so asking again asks the same, and every
   answer is about the same missing trustees.
4. `CountsAnswers`, `FactorsAreAnswers`: the counter of a missing trustee is the number
   of trustees that answered for it, and the product holds exactly one factor for each of
   them. When the counter is the threshold, so is the number of factors
   (`FragmentsMatchAnswers`, by a bijection).

5. `OpensInv`: without a second reading every factor is of the tally of the record
   (`ProductOfRecord`), so what counts for the key of a trustee that announced is its own
   share, once, and for that of a missing one the weighted fragments of exactly Threshold
   trustees (`QuorumInv`: those that announced are the threshold or all). That these add
   up to the key is `WeightedSharesAddUp` of `Lagrange`.

Without `~LateShares` the third is false, which is the finding `dec_late`; without
`~AnyQuorum` so is the fifth, which is the finding `dec_quorum`.

`Lagrange` proves `WeightedSharesAddUp`: for every prime Q above the number of trustees,
every polynomial of degree below Threshold and every set of at least Threshold trustees,
the points of the polynomial, each multiplied with the weight of product_1 and product_2,
add up to coefficient 0. There is no division in the argument: the weights of a set of
trustees have the *moments* of 0 (the sum of weight times point to the power e is 1 for
e = 0 and 0 for the other e below the size of the set, `MomentsAreThoseOfZero`), by
induction on the set: `MomentStep` relates the moments of a set to those of the set
without one trustee, and taking out either of two trustees determines the moments 0 and
1 (`TwoTrustees`). The induction is over a set of sets (`SetInduction` of `FoldsAndLoops`)
and not over a predicate, so that the provers can cite it.

`CryptographyProofs` proves, for every pair of primes P and Q, generator of order Q,
number of trustees, threshold, length of a ballot and whatever is drawn:

| theorem | states |
|---|---|
| QuorumRecoversKey | Spec => []SharesRecoverKey |
| KeyProofsBind | Spec => []KeyProofBindsKey |
| OnlyTheOwnShareEverPasses | Spec => []OnlyOwnSharePasses |
| HonestBallotsVerify | EncrypterSpec => []HonestBallotVerifies |
| SelectionProofsBind | EncrypterSpec => []SelectionProofBindsMessage |
| BallotProofsBind | EncrypterSpec => []BallotProofBindsCount |
| DecryptionProofsBind | EncrypterSpec => []DecryptionProofBindsShare |
| AnyQuorumCounts | EncrypterSpec => []AnyQuorumCountsSelections |
| TrackersTellTheBallot | TrackerSpec => []TrackersLookDifferent |

`Spec` is that of `ThresholdSharesMC`, `EncrypterSpec` that of `VotingEncrypter` and
`TrackerSpec` that of `Tracker`: those that the behaviours of `CryptographySpec` choose
between. Assumptions:
`ThresholdAssumption` and `GroupAssumption` (Q and P are prime and Q divides P - 1),
`GeneratorAssumption` (the generator's order is Q), `ShortAssumption` (1 is short and no
short number is P or more), `RsaAssumption` (RSA gives back what it encrypted; nothing
else is assumed of it) and `EncrypterAssumption` (a ballot has fewer selections than Q,
which is a number of 256 bits), and for trackers `TrackerAssumption` (there are digits
for 16 values). TLC evaluates them all. The argument:

1. Multiplication modulo P obeys the laws that `Lagrange` proves for any prime (`ModP`),
   and a power, which is computed by a loop, adds exponents (`PowerAdds`).
2. Hence E(a), the generator to the power a, turns addition modulo Q into multiplication
   modulo P (`ExponentsAdd`, `ExponentsMultiply`), also for draws that are not reduced
   (`ExponentsReduce`), and differs for different a (`ExponentsDiffer`: were E(d) = 1 for
   some d below Q, then E of everything would be, for Q is prime).
3. Every number the program sends is some E(a), so that every check of a proof is one
   equation between exponents (`ProofEquation`). It holds for what the proof was made for,
   and for another value only if a multiple of the challenge is 0, that is, if the
   challenge is: Q has no divisors of zero.
4. `EncrypterInv` is the inductive invariant of the encrypter. `SumsInv` says that the
   tally of the ballot is an encryption of the number of selections met so far and that
   aggregate_nonce is its nonce, `VerdictInv` that no check has failed. The properties of
   the returned ballot need them at every selection.
5. What comes out of any quorum's partial decryptions is then E(key times nonce), by
   `WeightedSharesAddUp`, and dividing by it leaves E(number of selections).
6. Each four bytes of a hash are eight symbols at a known place of what is displayed
   (`FlattenPlaces`), the noun is a number in which the first byte and half of the second
   can be told apart (`SameParts`), and the digits differ (`CharsDiffer`).

`ElectionProofs` proves, for every number of selections, ballots, trustees and failing
calls and every threshold:

| theorem | states |
|---|---|
| BallotsKeepTheirIdentifiers | ElectionSpec => []IdentifiersKeepTheirBallots |
| ExportedBallotsLoadBack | ElectionSpec => []FileLoadsBack |
| ReportedTallyIsOfTheCast | ElectionSpec => []ResultIsOfTheCastBallots |
| TallyingWithTheFirstWorks | ElectionSpec => []FirstTrusteesAlwaysTally |

Assumptions: `BallotFilesAssumption` and `TallyVotesAssumption` (sizes are positive). The
argument:

1. `Text`: wherever lines were cut and whatever was appended to what was left of them,
   each number in the file stands behind the number before it of the same ballot, and the
   first number of a ballot directly behind the whole identifier of that ballot and a
   tab (`NumbersInPlace`). Appending any beginning of a line keeps this.
2. `ScanReads`, `BallotIsReadAsEncrypted`: a reader that skips what it does not find
   still takes the numbers of a ballot in the file's order, so the numbers it gathers
   under an identifier are that ballot's or its line was cut within its last number. The
   reader is a loop, and this is the loop's invariant (`LoopKeeps` of `FoldsAndLoops`).
3. `RecordInv`: a record that can be read counts one ballot of each identifier cast, since
   the ballots of a call have different identifiers.
4. A result is that tally added to what the trustees had: `OneTally` makes all of them
   equal, and one of them is new in the call and had nothing (`OneTallyIsOfTheRecord`).
5. `TrusteesInv`: calls for the first trustees leave the array empty, for the clean-up
   covers exactly those.
6. `LinesInv`: as long as no call failed the file is the lines of the receipts one after
   the other, and reading line after line takes them off one by one
   (`WholeLinesImported`).

`WordProofs` proves of long numbers, for every even number of bits in a word, every number of words that
is a power of two, every modulus from 2 on and every operand:

| theorem | states |
|---|---|
| WordsComputeTheNumbers | NumbersSpec => []WordArithmeticIsExact |
| RemainderLoopRunsAtMostOnce | NumbersSpec => []RemainderLoopRunsOnce |

Assumption: `UintAssumption`. The moduli have their own reciprocals, which is what the
code assumes without checking it; without that both are false, which is the finding
`reciprocal`. The invariant of the specification, `OperandsAreNumbers`, only says what the
operands are; the work is in what the operations compute:

1. Words stand for a number below a power of the base, each number for exactly one
   sequence of words; taking words from the middle divides and reduces, and joining two
   sequences shifts and adds.
2. A carry is 0 or 1 and the sum with its carries is the sum of the numbers, wrapped
   around. Negation is the complement and one more, so that adding it subtracts, and the
   first word that differs decides a comparison.
3. The product of two words is that of its four halves. For longer numbers it is
   Karatsuba's identity (`MixedProducts`): the product of the two differences, with its
   sign, added to the two outer products, is the sum of the mixed products. It is computed
   wrapped around, and its value fits, so that nothing was lost. The recursion is
   over the logarithm of the number of words.
4. `EstimatedQuotient`: let N be 2^8192, r and t the quotient and the rest of N by the
   modulus m, q the estimate, the quotient of a r by N, and s its rest. Then
   (a - q m) N = m s + a t, which is below 2 m N: what is left of a is below 2 m, and the
   loop takes off m at most once.
5. After k rounds of repeated squaring `out` is congruent to x to the lower k bits of the
   exponent and `base` to x to the power 2^k; the bits above max_bit are 0.
6. The first power that is a is found since there is one; bytes are the digits of the
   number they are read as, some number of them to a word.

`WordProofs` also proves, for every number of trustees, shares, selections and keys, every
number of bytes in a word and of words in each kind of number, and every value of a byte:

| theorem | states |
|---|---|
| MessagesAreReadBack | MessagesSpec => []MessagesReadBack |

Assumptions: `SerializationAssumption` (sizes are positive, a word has an even number of
bytes, as half of it is a uint32_t) and `MessagesAssumption` (what is written are values
of the code's structures; TLC evaluates it for the instance). The invariant,
`MessagesTypeOK`, says that the message is one of its kind. The argument:

1. The digits of a number below a power of the base read back as that number
   (`DigitsReadBack`), for the bytes of a word and for the words of a number, and the
   words of a number that fits are those mpz_export gives (`FieldInBytes`).
2. Sequences laid one behind the other are found again at the sum of the lengths before
   them (`JoinedPlaces`, `SegmentTaken`), so what is written after each field is the
   encodings of the fields so far and the offset is their length (`WrittenRight`); a field
   that does not fit leaves the state an error for good (`WrittenWrong`).
3. A reader that stands where a list of fields begins reads their values and stands behind
   them (`PartIsRead`). This is shown of one field, of a number of fields of one type, also
   where their number is read from the field before, and of parts one behind the other
   (`EvenPartsAreRead`); for lists of keys, and of fragments that may or may not be there,
   it is the invariant of the reader's loop (`KeysAreRead`, `FragmentsAreRead`).
4. Every message is made of such parts, in the order in which its reader takes them:
   one lemma each, from `PrivateKeyIsRead` to `DecryptionFragmentsIsRead`.

Only model-checked:

* Liveness (`CeremonyCompletes`, `TallyIsPublished`): the provers have neither fairness
  nor ENABLED.

Everything else that a passing run checks is stated by a theorem.


## 5. Where code and documentation disagree

* `kc_late_publish`: publish_joint_key is documented to assert a shares_verified message
  of every trustee (`keyceremony/coordinator.h:117`). It asserts that `seen` is set, and
  a late message of an earlier phase sets it.
* `dec_quorum`: "a group of at least k of the trustees jointly decrypt"
  (`README.rst:36` of the headers). With more than k and fewer than n trustees,
  fragments are weighted for all that announced but asked of the first k only.
* `dec_late`: messages are to "enforce an ordering on operations" (`README.rst:15`). A
  share that arrives after the fragments that stand in for it were requested is accepted
  and counted beside them.
* `voting_batches`: the export is "for use when decrypting"
  (`api/record_ballots.h:20`). The header of a second batch counts the first one's
  ballots and the trustees cannot read the file.
* `reciprocal`: a modulus with a wrong reciprocal is "safe (you will still get the right
  answer) but slow" (`uint4096.c:22`). That holds if the reciprocal is too small. If it is
  too large the subtraction of the estimated multiple wraps around and the remainder is
  wrong. The default modulus of the repository is such a one: `p_4` (`uint4096.c:329`) has
  the modulus of `p_array` and the reciprocal of `old_p_array` (`bignum.c:10`), which is
  smaller. The program multiplies with GMP and only compares with this modulus.


## 6. What is not modelled

* The hash function (vendored): a challenge or a tracker is some number, whichever the
  hash would give. The hash table of ballots (vendored) is a function by identifier.
* The table of nouns, which is data; the log; the names of files and directories, which
  are unique to the second only. An input or output that fails is a failure of the
  operation that made it. The base hash, which is a constant of the election.
* The release of memory (request_present of `tally_votes.c:80`, which the cleanup reads
  uninitialized after an early failure, among it), except where freeing too much or too
  early changes what a later call does (the hash table, the static trustees, NULL handles).
* The writing of a number that is longer than its field: it would be exported to a buffer
  of the field's size before its words are counted. The code reduces what it computes.
* A random source that cannot be read. Key generation then fails; encryption and the
  proofs do not look at the status.
* API_LoadBallots with a range that does not begin at 0. The second argument is then a
  byte offset into the file and an index at once (`voting/coordinator.c:679`), which can
  land anywhere in a line. The client's ranges begin at 0.
* Identifiers that begin with a hexadecimal digit, which `fscanf` reads as a number when
  the line before them is short, and identifiers longer than their buffer.
* In `Decryption`, num_tallies is the same for all trustees; in `Voting`, identifiers
  outlive the table. Both are what the APIs do.
* In the runs of the protocols a message is a value: that its bytes read back is
  `MessagesReadBack`. That zero numbers cannot be written, which decides the outcome of
  several calls, is in the protocols too. One consequence: the share of a tally with no
  cast ballot is 1, too short for its field, so an election without cast ballots ends in
  SERIALIZE_ERROR.


## 7. The plan

Done: key ceremony, decryption, voting, the arithmetic of shares, encryption and its
proofs, trackers, the ballot file and the whole election are modelled, checked and
proved, and so are long numbers and messages.

Left: that `Decryption` has the outcomes `TallyVotes` takes from it, as a refinement;
ranges of API_LoadBallots that do not begin at 0; the names of files.
