------------------------------- MODULE Crypt -------------------------------
(***************************************************************************)
(* Common::Cryptography::Crypt, the block ciphers of the game's protocol:  *)
(* RC5 on half words and on words, RC6 on words, each leaving to the       *)
(* smaller one what does not fill a block of its own.                      *)
(*                                                                         *)
(* The code's bytes have 8 bits and its ciphers 12 and 40 rounds; here     *)
(* both are parameters, and a half word has 2 bytes, a word 4.  Constants  *)
(* of the code count modulo the words of the model.  A rotation by 0 shifts *)
(* a 32-bit word by 32, which is undefined; compilers make it a rotation.  *)
(***************************************************************************)
EXTENDS Integers, SequencesExt, Bitwise

CONSTANTS
  ByteBits,    \* 8
  RC5Rounds,   \* 12
  RC6Rounds,   \* 40
  Keys         \* the keys in use: 0 is the default one

HalfBits == 2 * ByteBits
WordBits == 4 * ByteBits
Byte == 0 .. 2^ByteBits - 1
Word == 0 .. 2^WordBits - 1

ASSUME CryptAssumption ==
  /\ {ByteBits, RC5Rounds, RC6Rounds} \subseteq Nat \ {0}
  /\ 0 \in Keys /\ Keys \subseteq Word

\* Little-endian: the number that some bytes are, and the n bytes of a number.
NumberOf(bytes) ==
  LET from[i \in 1 .. Len(bytes) + 1] ==
        IF i > Len(bytes) THEN 0 ELSE bytes[i] + 2^ByteBits * from[i + 1]
  IN  from[1]
BytesOf(number, n) == [i \in 1 .. n |-> (number \div 2^(ByteBits * (i - 1))) % 2^ByteBits]

\* XOR, by halves of a word.
HalfXor == [x, y \in 0 .. 2^HalfBits - 1 |-> x ^^ y]
XorWords(x, y) ==
  LET H == 2^HalfBits IN HalfXor[x % H, y % H] + H * HalfXor[x \div H, y \div H]

Rotl(x, by, bits) ==
  LET n == by % bits IN ((x * 2^n) % 2^bits) + (x \div 2^(bits - n))
Rotr(x, by, bits) == Rotl(x, bits - (by % bits), bits)

----------------------------------------------------------------------------
(* The keys of the rounds *)

RC5Secret == <<61, 99, 197, 163, 109, 154, 219, 165, 209, 178, 122, 23, 182, 86, 44, 186>>
RC6Secret ==
  <<118, 183, 75, 152, 76, 91, 213, 227, 193, 146, 51, 106, 123, 230, 204, 235,
    23, 154, 119, 188, 49, 93, 231, 57, 169, 50, 84, 136, 102, 211, 206, 67>>

\* The bytes of the user's key are added as signed chars.
Signed(byte) == IF 2 * byte < 2^ByteBits THEN byte ELSE byte - 2^ByteBits

\* L: the secret with the key added, as words.  (Three of the words start uninitialised;
\* the four shifts drop what was there.)
KeyWords(secret, key) ==
  LET Sum(w, n) == secret[4 * w + n] + Signed(BytesOf(key, 4)[5 - n])
      upTo[w \in 0 .. Len(secret) \div 4] ==
        IF w = 0 THEN << >>
        ELSE Append(upTo[w - 1],
                    NumberOf([n \in 1 .. 4 |-> Sum(w - 1, n)]) % 2^WordBits)
  IN  upTo[Len(secret) \div 4]

\* Three times over all round keys, each mixed with a word of the key.
MixedKey(s, i) == Rotl((s.keys[i] + s.a + s.b) % 2^WordBits, 3, WordBits)
MixedWord(s, j, a) == Rotl((s.words[j] + a + s.b) % 2^WordBits, a + s.b, WordBits)
MixedWith(s, i, j, a, b) ==
  [keys |-> [s.keys EXCEPT ![i] = a], words |-> [s.words EXCEPT ![j] = b], a |-> a, b |-> b]
Mixed(roundKeys, keyWords, stride) ==
  LET size == Len(roundKeys)
      Step(s, i, j) == MixedWith(s, i, j, MixedKey(s, i), MixedWord(s, j, MixedKey(s, i)))
      after[k \in 0 .. 3 * size] ==
        IF k = 0 THEN [keys |-> roundKeys, words |-> keyWords, a |-> 0, b |-> 0]
        ELSE Step(after[k - 1], (((k - 1) * stride) % size) + 1, ((k - 1) % Len(keyWords)) + 1)
  IN  after[3 * size].keys

\* The words before the mixing: 0x5163 + i * 0x79b9 (for RC6 with higher bits of their own).
Arithmetic(n) ==
  LET upTo[i \in 0 .. n] ==
        IF i = 0 THEN << >> ELSE Append(upTo[i - 1], (20835 + (i - 1) * 31161) % 2^WordBits)
  IN  upTo[n]

RC5KeySetup ==
  [key \in Keys |->
     Mixed(Arithmetic(2 * RC5Rounds + 2), KeyWords(RC5Secret, key), RC5Rounds + 1)]
RC6KeySetup ==
  [key \in Keys |-> Mixed(Arithmetic(2 * RC6Rounds + 4), KeyWords(RC6Secret, key), 1)]

----------------------------------------------------------------------------
(* Blocks: sequences of two or four numbers of so many bits.  S are the keys of the rounds. *)

Whitened(block, key) == [i \in DOMAIN block |-> XorWords(block[i], key)]

RC5Round(ab, s1, s2, bits) ==
  LET a == (Rotl(XorWords(ab[1], ab[2]), ab[2], bits) + s1) % 2^bits
  IN  <<a, (Rotl(XorWords(ab[2], a), a, bits) + s2) % 2^bits>>
RC5RoundBack(ab, s1, s2, bits) ==
  LET b == XorWords(Rotr((ab[2] - s2) % 2^bits, ab[1], bits), ab[1])
  IN  <<XorWords(Rotr((ab[1] - s1) % 2^bits, b, bits), b), b>>

RC5EncryptBlock(block, key, S, bits) ==
  LET after[i \in 0 .. RC5Rounds] ==
        IF i = 0 THEN <<(block[1] + S[1]) % 2^bits, (block[2] + S[2]) % 2^bits>>
        ELSE RC5Round(after[i - 1], S[2 * i + 1], S[2 * i + 2], bits)
  IN  Whitened(after[RC5Rounds], key % 2^bits)

RC5DecryptBlock(block, key, S, bits) ==
  LET before[i \in 1 .. RC5Rounds + 1] ==
        IF i = RC5Rounds + 1 THEN Whitened(block, key % 2^bits)
        ELSE RC5RoundBack(before[i + 1], S[2 * i + 1], S[2 * i + 2], bits)
      first == before[1]
  IN  <<(first[1] - S[1]) % 2^bits, (first[2] - S[2]) % 2^bits>>

\* ROTL32(x * (2 * x + 1), 5)
Square(x) == Rotl((x * (2 * x + 1)) % 2^WordBits, 5, WordBits)

\* Adds n1 to the first and n3 to the third number, or n2 and n4 to the others.
Shifted(block, n1, n2, n3, n4) ==
  <<(block[1] + n1) % 2^WordBits, (block[2] + n2) % 2^WordBits,
    (block[3] + n3) % 2^WordBits, (block[4] + n4) % 2^WordBits>>

RC6Round(abcd, t, u, s1, s2) ==
  <<abcd[2], (Rotl(XorWords(abcd[3], u), t, WordBits) + s2) % 2^WordBits, abcd[4],
    (Rotl(XorWords(abcd[1], t), u, WordBits) + s1) % 2^WordBits>>
RC6RoundBack(abcd, t, u, s1, s2) ==
  <<XorWords(Rotr((abcd[4] - s1) % 2^WordBits, u, WordBits), t), abcd[1],
    XorWords(Rotr((abcd[2] - s2) % 2^WordBits, t, WordBits), u), abcd[3]>>

RC6EncryptBlock(block, key, S) ==
  LET after[i \in 0 .. RC6Rounds] ==
        IF i = 0 THEN Shifted(block, 0, S[1], 0, S[2])
        ELSE LET Round(abcd) == RC6Round(abcd, Square(abcd[2]), Square(abcd[4]),
                                         S[2 * i + 1], S[2 * i + 2])
             IN  Round(after[i - 1])
  IN  Whitened(Shifted(after[RC6Rounds], S[2 * RC6Rounds + 3], 0, S[2 * RC6Rounds + 4], 0), key)

\* mutant: the keys of a round are swapped
RC6DecryptBlockSwapped(block, key, S) ==
  LET before[i \in 1 .. RC6Rounds + 1] ==
        IF i = RC6Rounds + 1
          THEN Shifted(Whitened(block, key), -S[2 * RC6Rounds + 3], 0, -S[2 * RC6Rounds + 4], 0)
        ELSE LET Round(abcd) == RC6RoundBack(abcd, Square(abcd[1]), Square(abcd[3]),
                                             S[2 * i + 2], S[2 * i + 1])
             IN  Round(before[i + 1])
  IN  Shifted(before[1], 0, -S[1], 0, -S[2])

RC6DecryptBlock(block, key, S) ==
  LET before[i \in 1 .. RC6Rounds + 1] ==
        IF i = RC6Rounds + 1
          THEN Shifted(Whitened(block, key), -S[2 * RC6Rounds + 3], 0, -S[2 * RC6Rounds + 4], 0)
        ELSE LET Round(abcd) == RC6RoundBack(abcd, Square(abcd[1]), Square(abcd[3]),
                                             S[2 * i + 1], S[2 * i + 2])
             IN  Round(before[i + 1])
  IN  Shifted(before[1], 0, -S[1], 0, -S[2])

----------------------------------------------------------------------------
(* Data: sequences of bytes *)

\* The blocks of n numbers of so many bytes go through Cipher, what is left through Rest.
InBlocks(data, n, bytes, Cipher(_), Rest(_)) ==
  LET size == n * bytes
      Block(k) == FlattenSeq([i \in 1 .. n |-> <<NumberOf(
                    SubSeq(data, size * k + bytes * (i - 1) + 1, size * k + bytes * i))>>])
      Bytes(numbers) == FlattenSeq([i \in 1 .. n |-> BytesOf(numbers[i], bytes)])
      from[k \in 0 .. Len(data) \div size] ==
        IF k = Len(data) \div size THEN Rest(SubSeq(data, size * k + 1, Len(data)))
        ELSE Bytes(Cipher(Block(k))) \o from[k + 1]
  IN  from[0]

Untouched(data) == data

RC5Encrypt32(data, key) ==
  InBlocks(data, 2, 2, LAMBDA block : RC5EncryptBlock(block, key, RC5KeySetup[key], HalfBits),
           Untouched)
RC5Decrypt32(data, key) ==
  InBlocks(data, 2, 2, LAMBDA block : RC5DecryptBlock(block, key, RC5KeySetup[key], HalfBits),
           Untouched)

RC5Encrypt64(data, key) ==
  InBlocks(data, 2, 4, LAMBDA block : RC5EncryptBlock(block, key, RC5KeySetup[key], WordBits),
           LAMBDA rest : RC5Encrypt32(rest, key))
RC5Decrypt64(data, key) ==
  InBlocks(data, 2, 4, LAMBDA block : RC5DecryptBlock(block, key, RC5KeySetup[key], WordBits),
           LAMBDA rest : RC5Decrypt32(rest, key))

RC6Encrypt128(data, key) ==
  InBlocks(data, 4, 4, LAMBDA block : RC6EncryptBlock(block, key, RC6KeySetup[key]),
           LAMBDA rest : RC5Encrypt64(rest, key))
RC6Decrypt128(data, key) ==
  InBlocks(data, 4, 4, LAMBDA block : RC6DecryptBlock(block, key, RC6KeySetup[key]),
           LAMBDA rest : RC5Decrypt64(rest, key))
=============================================================================
