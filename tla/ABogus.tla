------------------------------- MODULE ABogus -------------------------------
(***************************************************************************)
(* A signature of lib/a_bogus_core.js, from the facts it is about to the   *)
(* characters that go into the URL: generate_rc4_bb_str lays out a block,  *)
(* rc4_encrypt hides it, result_encrypt writes it with an alphabet.  The   *)
(* three work on JavaScript strings as if each character were a byte.      *)
(* They are not all: b[24] and b[49] are the time divided by 2^32, which   *)
(* is above 255 today.                                                     *)
(*                                                                         *)
(* The server's side, which is not in the repository, is the receiver: it  *)
(* reads the letters back and calls rc4_encrypt again.  The digests that a *)
(* block quotes are those of module SM3.                                   *)
(***************************************************************************)
EXTENDS Integers, Sequences

CONSTANTS
  N,          \* values of a byte, 256
  D,          \* letters of the alphabet, 64
  BitXor(_, _),  \* ^ on characters
  Keys,       \* keys of rc4_encrypt
  Agents,     \* user agents, the other string that is encrypted
  Randoms,   \* answers of generate_random_str
  Facts       \* what blocks are about

\* A byte is four digits of some base, a letter three: two bits at a time.
ASSUME ByteAssumption ==
  /\ N \in Nat \ {0} /\ N % 2 = 0 /\ D \in Nat \ {0}
  /\ \E q \in 1 .. D : N = q * q * q * q /\ D = q * q * q
Octet == 0 .. N - 1
\* No character has more than nine bits: times before the year 2039.
Char == 0 .. 2 * N - 1
Wide(c) == c >= N

\* What ^ does bit by bit.
ASSUME XorAssumption ==
  \A x, y \in Char :
    /\ BitXor(x, y) \in Char /\ BitXor(x, y) = BitXor(y, x)
    /\ BitXor(x, 0) = x /\ BitXor(x, BitXor(x, y)) = y
    /\ \A z \in Char : BitXor(x, BitXor(y, z)) = BitXor(BitXor(x, y), z)
    /\ BitXor(x, y) % N = BitXor(x % N, y % N)
    /\ BitXor(x, y) \div 2 = BitXor(x \div 2, y \div 2)
    /\ Wide(BitXor(x, y)) <=> (Wide(x) <=> ~Wide(y))
ASSUME KeysAssumption == Keys \subseteq Seq(Nat) \ {<<>>}
ASSUME StringsAssumption == Agents \cup Randoms \subseteq Seq(Char)

VARIABLES
  side,    \* "sender" or "receiver"
  pc,      \* "mix", "stream", "write", "sent", "read"
  plain,   \* what the sender encrypts
  sealed,  \* plain is a block
  prefix,  \* what goes before it into the string
  key, input,                    \* the arguments of rc4_encrypt
  s, i, j, cipher,               \* its locals
  text,                          \* the argument of result_encrypt
  n, lound, long, result         \* its locals; n is its i
args == <<side, plain, sealed, prefix, key, input>>
rc4 == <<s, i, j, cipher>>
writer == <<text, n, lound, long, result>>
vars == <<pc, args, rc4, writer>>

-----------------------------------------------------------------------------
(***************************************************************************)
(* The block.  Facts: the start and the end of the hashing, each with the  *)
(* lower four bytes, highest first, and `high`, the rest of the number;    *)
(* three Arguments, the page's and the application's number, likewise four *)
(* bytes each; two bytes of each digest; the window's sizes as a string.   *)
(***************************************************************************)
\* b[18] .. b[71]; the gaps, and what is only kept as a number, are 0.
Fields(x) ==
  <<44 % N, 0>>
    \o x.start.low \o <<x.start.high, x.start.high \div N>>
    \o x.args[1]
    \o <<x.args[2][3], x.args[2][4], x.args[2][1], x.args[2][2]>>
    \o x.args[3]
    \o x.digests
    \o x.end.low \o <<3, x.end.high, x.end.high \div N>>
    \o <<0>> \o x.page
    \o <<0, x.aid[4], x.aid[3], x.aid[2], x.aid[1]>>
    \o <<0, 0, 0, 0, Len(x.window) % N, (Len(x.window) \div N) % N>>
    \o <<0, 0, 0, 0, 0>>
\* The times are later than 2004, so that their high parts have nine bits.
ASSUME FactsAssumption ==
  \A x \in Facts :
    /\ \A time \in {x.start, x.end} :
         /\ time.low \in [1 .. 4 -> Octet]
         /\ time.high \in Char /\ Wide(time.high)
    /\ x.args \in [1 .. 3 -> [1 .. 4 -> Octet]]
    /\ x.digests \in [1 .. 6 -> Octet]
    /\ x.page \in [1 .. 4 -> Octet] /\ x.aid \in [1 .. 4 -> Octet]
    /\ x.window \in Seq(Octet)
b(x) == LET at == Fields(x) IN [m \in 18 .. 71 |-> at[m - 17]]

\* The array bb, by the places in b, and the terms of b[72].
Order == <<18, 20, 52, 26, 30, 34, 58, 38, 40, 53, 42, 21, 27, 54, 55, 31,
           35, 57, 39, 41, 43, 22, 28, 32, 60, 36, 23, 29, 33, 37, 44, 45,
           59, 46, 47, 48, 49, 50, 24, 25, 65, 66, 70, 71>>
\* (mutant) Without b[49].
TermsOfBytes ==
  <<18, 20, 26, 30, 38, 40, 42, 21, 27, 31, 35, 39, 41, 43, 22,
    28, 32, 36, 23, 29, 33, 37, 44, 45, 46, 47, 48, 50, 24,
    25, 52, 53, 54, 55, 57, 58, 59, 60, 65, 66, 70, 71>>
Terms == <<18, 20, 26, 30, 38, 40, 42, 21, 27, 31, 35, 39, 41, 43, 22,
           28, 32, 36, 23, 29, 33, 37, 44, 45, 46, 47, 48, 49, 50, 24,
           25, 52, 53, 54, 55, 57, 58, 59, 60, 65, 66, 70, 71>>

XorAll(q) ==
  LET x[m \in 0 .. Len(q)] == IF m = 0 THEN 0 ELSE BitXor(x[m - 1], q[m])
  IN  x[Len(q)]
Picked(x, places) == [m \in DOMAIN places |-> b(x)[places[m]]]
Block(x) == Picked(x, Order) \o x.window \o <<XorAll(Picked(x, Terms))>>

-----------------------------------------------------------------------------
(***************************************************************************)
(* rc4_encrypt(input, key)                                                 *)
(***************************************************************************)
Fresh == [m \in 0 .. N - 1 |-> m]
\* (mutant) Swapped without the temporary.
SwapWithoutTemp(a, c) == [s EXCEPT ![a] = s[c]]
Swap(a, c) == [s EXCEPT ![a] = s[c], ![c] = s[a]]

Init ==
  /\ side = "sender" /\ pc = "mix"
  /\ sealed \in BOOLEAN
  /\ plain \in IF sealed THEN {Block(x) : x \in Facts} ELSE Agents
  /\ prefix \in IF sealed THEN Randoms ELSE {<<>>}
  /\ key \in Keys
  /\ input = plain
  /\ s = Fresh /\ i = 0 /\ j = 0 /\ cipher = <<>>
  /\ text = <<>> /\ n = 0 /\ lound = 0 /\ long = 0 /\ result = <<>>

\* The second loop: the key into s.
Mix ==
  /\ pc = "mix"
  /\ IF i < N
     THEN /\ j' = (j + s[i] + key[(i % Len(key)) + 1]) % N
          /\ s' = Swap(i, j')
          /\ i' = i + 1
          /\ UNCHANGED pc
     ELSE i' = 0 /\ j' = 0 /\ pc' = "stream" /\ UNCHANGED s
  /\ UNCHANGED <<args, cipher, writer>>

\* The third loop: a character of the input.
Stream ==
  /\ pc = "stream" /\ Len(cipher) < Len(input)
  /\ i' = (i + 1) % N
  /\ j' = (j + s[i']) % N
  /\ s' = Swap(i', j')
  /\ cipher' = Append(cipher,
       BitXor(s'[(s'[i'] + s'[j']) % N], input[Len(cipher) + 1]))
  /\ UNCHANGED <<pc, args, writer>>

-----------------------------------------------------------------------------
(***************************************************************************)
(* result_encrypt(text), letters by their numbers.  Reading a character    *)
(* past the end gives NaN, which the shifts take for 0.                    *)
(***************************************************************************)
CodeAt(t, m) == IF m + 1 \in DOMAIN t THEN t[m + 1] ELSE 0

\* A byte of `a << 16 | b << 8 | c`: the ninth bit of the character after
\* it falls onto its lowest bit.  That of the first is masked out.
Onto(c, next) ==
  IF Wide(next) /\ c % 2 = 0 THEN (c % N) + 1 ELSE c % N

\* (mutant) The last two characters in the wrong order.
get_long_int_swapped(t, round) ==
  LET c(m) == CodeAt(t, 3 * round + m)
  IN  Onto(c(0), c(2)) * N * N + Onto(c(2), c(1)) * N + (c(1) % N)

get_long_int(t, round) ==
  LET c(m) == CodeAt(t, 3 * round + m)
  IN  Onto(c(0), c(1)) * N * N + Onto(c(1), c(2)) * N + (c(2) % N)

\* The cipher is complete: the string to be written is put together.
StartWriting ==
  /\ pc = "stream" /\ Len(cipher) = Len(input) /\ side = "sender"
  /\ text' = prefix \o cipher
  /\ n' = 0 /\ lound' = 0 /\ long' = get_long_int(text', 0) /\ result' = <<>>
  /\ pc' = "write"
  /\ UNCHANGED <<args, rc4>>

\* What the three shifts and the mask leave of four letters.
Letters == <<D * D * D, D * D, D, 1>>

\* (mutant) The letters are not masked.
WriteUnmasked ==
  /\ pc = "write"
  /\ IF 3 * n < 4 * Len(text)
     THEN /\ IF n \div 4 # lound
             THEN lound' = lound + 1 /\ long' = get_long_int(text, lound')
             ELSE UNCHANGED <<lound, long>>
          /\ result' = Append(result, long' \div Letters[(n % 4) + 1])
          /\ n' = n + 1
          /\ UNCHANGED pc
     ELSE pc' = "sent" /\ UNCHANGED <<n, lound, long, result>>
  /\ UNCHANGED <<args, rc4, text>>

\* A turn of `for (i = 0; i < long_str.length / 3 * 4; i++)`.
Write ==
  /\ pc = "write"
  /\ IF 3 * n < 4 * Len(text)
     THEN /\ IF n \div 4 # lound
             THEN lound' = lound + 1 /\ long' = get_long_int(text, lound')
             ELSE UNCHANGED <<lound, long>>
          /\ result' = Append(result, (long' \div Letters[(n % 4) + 1]) % D)
          /\ n' = n + 1
          /\ UNCHANGED pc
     ELSE pc' = "sent" /\ UNCHANGED <<n, lound, long, result>>
  /\ UNCHANGED <<args, rc4, text>>

-----------------------------------------------------------------------------
(***************************************************************************)
(* The receiver.  Four letters are three bytes.                            *)
(***************************************************************************)
Letter(m) == IF m + 1 \in DOMAIN result THEN result[m + 1] ELSE 0
Word(g) ==
  Letter(4 * g) * (D * D * D) + Letter(4 * g + 1) * (D * D)
    + Letter(4 * g + 2) * D + Letter(4 * g + 3)
Byte(m) == (Word(m \div 3) \div <<N * N, N, 1>>[(m % 3) + 1]) % N

Receive ==
  /\ pc = "sent"
  /\ side' = "receiver"
  /\ input' = [m \in 1 .. (3 * Len(result)) \div 4 - Len(prefix) |->
                 Byte(Len(prefix) + m - 1)]
  /\ s' = Fresh /\ i' = 0 /\ j' = 0 /\ cipher' = <<>>
  /\ pc' = "mix"
  /\ UNCHANGED <<plain, sealed, prefix, key, writer>>

FinishReading ==
  /\ pc = "stream" /\ Len(cipher) = Len(input) /\ side = "receiver"
  /\ pc' = "read"
  /\ UNCHANGED <<args, rc4, writer>>

Done == pc = "read" /\ UNCHANGED vars

Next == Mix \/ Stream \/ StartWriting \/ Write \/ Receive \/ FinishReading \/ Done
Spec == Init /\ [][Next]_vars

-----------------------------------------------------------------------------
TypeOK ==
  /\ side \in {"sender", "receiver"}
  /\ pc \in {"mix", "stream", "write", "sent", "read"}
  /\ sealed \in BOOLEAN /\ key \in Keys
  /\ plain \in Seq(Char) /\ prefix \in Seq(Char) /\ input \in Seq(Char)
  /\ cipher \in Seq(Char) /\ text \in Seq(Char)
  /\ s \in [0 .. N - 1 -> 0 .. N - 1] /\ i \in 0 .. N /\ j \in 0 .. N - 1
  /\ n \in Nat /\ lound \in Nat /\ long \in Nat
  /\ result \in Seq(0 .. D - 1)

(***************************************************************************)
(* Swapping never loses a number of s: each value of a byte is at one      *)
(* place, so the stream can take each, whatever the key and the text.      *)
(***************************************************************************)
EveryByteIsSomewhere == \A v \in 0 .. N - 1 : \E m \in 0 .. N - 1 : s[m] = v

(***************************************************************************)
(* The receiver reads what the sender encrypted, byte by byte, although    *)
(* some characters are wider than a byte.  Such a character loses its      *)
(* ninth bit, and spoils at most the lowest bit of the byte before it, and *)
(* that only inside a group of three.                                      *)
(***************************************************************************)
SpoiledBy(m) == m \in DOMAIN plain /\ Wide(plain[m]) /\ (Len(prefix) + m) % 3 # 1
ReceiverReads ==
  pc = "read" =>
    /\ Len(cipher) = Len(plain)
    /\ \A m \in DOMAIN plain :
         IF SpoiledBy(m + 1)
         THEN cipher[m] \div 2 = (plain[m] % N) \div 2
         ELSE cipher[m] = plain[m] % N

(***************************************************************************)
(* The last character, which b[72] makes of the others, is a byte though   *)
(* some of its terms are not, and a change of any byte of bb would change  *)
(* it, but of the sixth, b[34], which the expression for b[72] leaves out. *)
(***************************************************************************)
SealFits ==
  sealed =>
    LET seal == plain[Len(plain)]
    IN  /\ seal < N
        /\ XorAll(SubSeq(plain, 1, Len(Order)) \o <<seal>>) = plain[6]
=============================================================================
