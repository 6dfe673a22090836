----------------------------- MODULE FinalWord -----------------------------
(***************************************************************************)
(* The arithmetic of the final word (bip39-last-word/src/lib.rs): eleven   *)
(* word indices and seven bits make 128 bits of entropy, and the final     *)
(* word is the seven bits with a checksum of the entropy.                  *)
(*                                                                         *)
(* A shift by w bits is a multiplication by 2^w, and `or' with bits that   *)
(* are clear an addition; the constants are the numbers of values.  A word *)
(* is its index.  Results are Ok or an error with the code's fields;       *)
(* positions count from 0 as in the code, sequences from 1.                *)
(***************************************************************************)
EXTENDS Integers, Sequences, FiniteSets

CONSTANTS
    PrefixWordCount,           \* PREFIX_WORD_COUNT, 11
    WordListSize,              \* WORD_LIST_SIZE, 2048
    EntropyValues,             \* MAX_ENTROPY_BITS + 1, 128
    ChecksumValues,            \* of CHECKSUM_BITS, 16
    ByteValues, EntropyBytes,  \* 256 and 16
    Checksum(_)                \* the first bits of a byte sequence's SHA-256

\* The powers of base: Powers(base)[n] is base ^ n.
Powers(base) ==
    LET power[n \in Nat] == IF n = 0 THEN 1 ELSE power[n - 1] * base
    IN  power

EntropySize == Powers(WordListSize)[PrefixWordCount] * EntropyValues
Entropies == [1 .. EntropyBytes -> 0 .. ByteValues - 1]

ASSUME FinalWordAssumption ==
    /\ {PrefixWordCount, EntropyValues, ChecksumValues, ByteValues, EntropyBytes}
          \subseteq Nat \ {0}
    /\ WordListSize = EntropyValues * ChecksumValues
    /\ EntropySize = Powers(ByteValues)[EntropyBytes]
    /\ \A bytes \in Entropies : Checksum(bytes) \in 0 .. ChecksumValues - 1

VARIABLES
    word_indices,              \* the caller's eleven indices, of type u16
    entropy_bits               \* the caller's bits, of type u8

inputs == <<word_indices, entropy_bits>>

\* one value of each type that is out of range
Indices == [1 .. PrefixWordCount -> 0 .. WordListSize]
EntropyBits == 0 .. EntropyValues

Ok(result) == [ok |-> TRUE, value |-> result]
InvalidWordIndex(position, index) == [ok |-> FALSE, position |-> position, index |-> index]
InvalidEntropyBits(bits) == [ok |-> FALSE, bits |-> bits]

-----------------------------------------------------------------------------
entropy_prefix(indices) ==
    LET folded[n \in 0 .. PrefixWordCount] ==
            IF n = 0 THEN Ok(0)
            ELSE IF ~folded[n - 1].ok THEN folded[n - 1]
            ELSE IF indices[n] >= WordListSize THEN InvalidWordIndex(n - 1, indices[n])
            ELSE Ok(folded[n - 1].value * WordListSize + indices[n])
    IN  folded[PrefixWordCount]

\* Fault: the integer is too narrow by a bit.
entropy_too_narrow(prefix, bits) == ((prefix * EntropyValues) % (EntropySize \div 2)) + bits

\* in a u128, which entropy fills exactly
entropy(prefix, bits) == ((prefix * EntropyValues) % EntropySize) + bits

to_be_bytes(number) ==
    [k \in 1 .. EntropyBytes |-> (number \div Powers(ByteValues)[EntropyBytes - k]) % ByteValues]

\* Fault: the bits are shifted too far.
final_word_index_shifted(prefix, bits) ==
    bits * ChecksumValues * 2 + Checksum(to_be_bytes(entropy(prefix, bits)))

\* Fault: the checksum is that of the bytes after the leading zeros.
final_word_index_variable_width(prefix, bits) ==
    LET bytes == to_be_bytes(entropy(prefix, bits))
        first == CHOOSE k \in 1 .. EntropyBytes + 1 :
                    /\ \A j \in 1 .. k - 1 : bytes[j] = 0
                    /\ k <= EntropyBytes => bytes[k] # 0
    IN  bits * ChecksumValues + Checksum(SubSeq(bytes, first, EntropyBytes))

final_word_index(prefix, bits) ==
    bits * ChecksumValues + Checksum(to_be_bytes(entropy(prefix, bits)))

\* every final word by its bits
candidates_from_indices(indices) ==
    LET prefix == entropy_prefix(indices)
    IN  IF prefix.ok
        THEN Ok([bits \in 0 .. EntropyValues - 1 |-> final_word_index(prefix.value, bits)])
        ELSE prefix

word_index_for_entropy_bits(table, bits) ==
    IF bits \in DOMAIN table THEN Ok(table[bits]) ELSE InvalidEntropyBits(bits)

\* Fault: one value too many passes.
validate_entropy_bits_inclusive(bits) == bits <= EntropyValues

validate_entropy_bits(bits) == bits < EntropyValues

word_for_index_in(index) ==
    IF index < WordListSize THEN Ok(index) ELSE InvalidWordIndex(PrefixWordCount, index)

word_for_entropy_bits_in(indices, bits) ==
    LET prefix == entropy_prefix(indices)
    IN  IF ~prefix.ok THEN prefix
        ELSE IF ~validate_entropy_bits(bits) THEN InvalidEntropyBits(bits)
        ELSE word_for_index_in(final_word_index(prefix.value, bits))

entropy_from_indices(indices, bits) ==
    LET prefix == entropy_prefix(indices)
    IN  IF ~prefix.ok THEN prefix
        ELSE IF ~validate_entropy_bits(bits) THEN InvalidEntropyBits(bits)
        ELSE Ok(to_be_bytes(entropy(prefix.value, bits)))

-----------------------------------------------------------------------------
(***************************************************************************)
(* BIP39 itself: a mnemonic is the entropy followed by its checksum, cut   *)
(* into words.                                                             *)
(***************************************************************************)
NumberOf(digits, base) ==
    LET value[n \in 0 .. Len(digits)] ==
            IF n = 0 THEN 0 ELSE value[n - 1] * base + digits[n]
    IN  value[Len(digits)]

IsMnemonic(words) ==
    LET number == NumberOf(words, WordListSize)
    IN  Checksum(to_be_bytes(number \div ChecksumValues)) = number % ChecksumValues

\* seed_from_entropy makes the mnemonic that the seed is derived from
from_entropy(bytes) ==
    LET number == NumberOf(bytes, ByteValues) * ChecksumValues + Checksum(bytes)
    IN  [n \in 1 .. PrefixWordCount + 1 |->
            (number \div Powers(WordListSize)[(PrefixWordCount + 1) - n]) % WordListSize]

-----------------------------------------------------------------------------
\* The caller: any words, any bits.
Init == word_indices = [n \in 1 .. PrefixWordCount |-> 0] /\ entropy_bits = 0

ChangeWord ==
    /\ \E n \in 1 .. PrefixWordCount, index \in 0 .. WordListSize :
          word_indices' = [word_indices EXCEPT ![n] = index]
    /\ UNCHANGED entropy_bits

ChangeBits == entropy_bits' \in EntropyBits /\ UNCHANGED word_indices

Next == ChangeWord \/ ChangeBits

FinalWordSpec == Init /\ [][Next]_inputs

candidates == candidates_from_indices(word_indices)
final_word == word_for_entropy_bits_in(word_indices, entropy_bits)
final_entropy == entropy_from_indices(word_indices, entropy_bits)

-----------------------------------------------------------------------------
(***************************************************************************)
(* Properties.                                                             *)
(***************************************************************************)
\* The type invariant: the inputs are of their types, and every candidate is a
\* word of the list, which the table of candidates does not check.
FinalWordTypeOK ==
    /\ word_indices \in Indices
    /\ entropy_bits \in EntropyBits
    /\ candidates.ok => candidates.value \in [0 .. EntropyValues - 1 -> 0 .. WordListSize - 1]

\* The candidates are exactly the words that complete the prefix to a BIP39
\* mnemonic, each once.
CandidatesAreTheFinalWords ==
    LET words == {candidates.value[bits] : bits \in 0 .. EntropyValues - 1}
    IN  candidates.ok =>
            /\ words = {word \in 0 .. WordListSize - 1 : IsMnemonic(Append(word_indices, word))}
            /\ Cardinality(words) = EntropyValues

\* The direct calculation and the table give the same word or the same error.
DirectAgreesWithTable ==
    final_word = IF candidates.ok
                 THEN word_index_for_entropy_bits(candidates.value, entropy_bits)
                 ELSE candidates

\* The seed behind the addresses is that of the mnemonic on the screen: the
\* entropy, made apart from the final word, encodes to the same words.
SeedIsOfTheseWords ==
    /\ final_entropy.ok <=> final_word.ok
    /\ final_entropy.ok =>
          from_entropy(final_entropy.value) = Append(word_indices, final_word.value)
=============================================================================
