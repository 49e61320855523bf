-------------------------------- MODULE SM3 --------------------------------
(***************************************************************************)
(* The SM3 object of lib/a_bogus_core.js (lib/dy_ab.js 10125-10289 is the  *)
(* same class): how `write` cuts what it is given into blocks and `sum`    *)
(* pads the rest.  One object serves the five digests of a signature, so   *)
(* what a `sum` leaves behind is where the next one starts.                *)
(*                                                                         *)
(* The compression function is abstract: the registers are determined by   *)
(* the bytes that went into them, and `absorbed` is those bytes.  Its      *)
(* guard `t < 64` compares an array with a number, which is false for any  *)
(* array of bytes it can be called with; nothing but the callers keeps a   *)
(* short block out.                                                        *)
(***************************************************************************)
EXTENDS Integers, Sequences

CONSTANTS
  Block,      \* bytes of a block, 64
  LenBytes,   \* bytes of the length at the end of the padding, 8
  Inputs,     \* what write and sum are called with: sequences of bytes
  MaxCalls    \* bound: calls of write and sum

ASSUME BlockAssumption ==
  /\ LenBytes \in Nat \ {0}
  /\ Block \in Nat /\ LenBytes < Block
ASSUME InputsAssumption == Inputs \subseteq Seq(0 .. 255)
ASSUME CallsAssumption == MaxCalls \in Nat

Byte == 0 .. 255

VARIABLES
  absorbed,  \* what the registers stand for: the bytes compressed so far
  chunk,     \* this.chunk
  size,      \* this.size
  pc,        \* "idle", "write" (its loop), "fill", "drain" (the loop of sum)
  arg, f,    \* the locals of write and sum
  summing,   \* write was called by sum
  msg,       \* ghost: the bytes written since the last reset
  digest,    \* the last answer of sum, by the bytes it stands for
  asked,     \* ghost: the message that answer was asked for
  calls
vars == <<absorbed, chunk, size, pc, arg, f, summing, msg, digest, asked, calls>>

Least(a, b) == IF a < b THEN a ELSE b

\* (mutant) The size stays.
ResetRegisters == absorbed' = <<>> /\ chunk' = <<>> /\ size' = size

\* reset()
Reset == absorbed' = <<>> /\ chunk' = <<>> /\ size' = 0

Init ==
  /\ absorbed = <<>> /\ chunk = <<>> /\ size = 0
  /\ pc = "idle" /\ arg = <<>> /\ f = 0 /\ summing = FALSE
  /\ msg = <<>> /\ digest = <<>> /\ asked = <<>> /\ calls = 0

\* (mutant) A chunk that is just filled is not compressed.
BeginLazily(a, held, n) ==
  /\ arg' = a
  /\ size' = n + Len(a)
  /\ f' = Block - Len(held)
  /\ IF Len(a) <= Block - Len(held)
     THEN /\ chunk' = held \o a
          /\ pc' = IF summing' THEN "fill" ELSE "idle"
     ELSE /\ chunk' = held \o SubSeq(a, 1, Block - Len(held))
          /\ pc' = "write"

\* The head of write(a): into the chunk, as much as fits.  held and n are
\* the chunk and the size it finds.
Begin(a, held, n) ==
  /\ arg' = a
  /\ size' = n + Len(a)
  /\ f' = Block - Len(held)
  /\ IF Len(a) < Block - Len(held)
     THEN /\ chunk' = held \o a
          /\ pc' = IF summing' THEN "fill" ELSE "idle"
     ELSE /\ chunk' = held \o SubSeq(a, 1, Block - Len(held))
          /\ pc' = "write"

Write(a) ==
  /\ pc = "idle" /\ calls < MaxCalls
  /\ calls' = calls + 1
  /\ summing' = FALSE
  /\ msg' = msg \o a
  /\ Begin(a, chunk, size)
  /\ UNCHANGED <<absorbed, digest, asked>>

\* sum(e): no message, or an empty string, ends what was written before; any
\* other message starts anew.
Sum(e) ==
  /\ pc = "idle" /\ calls < MaxCalls
  /\ calls' = calls + 1
  /\ summing' = TRUE
  /\ IF e = <<>>
     THEN /\ pc' = "fill"
          /\ UNCHANGED <<absorbed, chunk, size, arg, f, msg>>
     ELSE /\ absorbed' = <<>>
          /\ msg' = e
          /\ Begin(e, <<>>, 0)
  /\ UNCHANGED <<digest, asked>>

\* (mutant) The next chunk begins a byte late.
WriteLoopLate ==
  /\ pc = "write"
  /\ IF Len(chunk) >= Block
     THEN /\ absorbed' = absorbed \o chunk
          /\ chunk' = IF f < Len(arg)
                      THEN SubSeq(arg, f + 2, Least(f + 1 + Block, Len(arg)))
                      ELSE <<>>
          /\ f' = f + Block
          /\ UNCHANGED pc
     ELSE /\ pc' = IF summing THEN "fill" ELSE "idle"
          /\ UNCHANGED <<absorbed, chunk, f>>
  /\ UNCHANGED <<size, arg, summing, msg, digest, asked, calls>>

\* The loop of write: `for (...; chunk.length >= 64; )`.
WriteLoop ==
  /\ pc = "write"
  /\ IF Len(chunk) >= Block
     THEN /\ absorbed' = absorbed \o chunk
          /\ chunk' = IF f < Len(arg)
                      THEN SubSeq(arg, f + 1, Least(f + Block, Len(arg)))
                      ELSE <<>>
          /\ f' = f + Block
          /\ UNCHANGED pc
     ELSE /\ pc' = IF summing THEN "fill" ELSE "idle"
          /\ UNCHANGED <<absorbed, chunk, f>>
  /\ UNCHANGED <<size, arg, summing, msg, digest, asked, calls>>

Zeros(n) == [k \in 1 .. n |-> 0]
\* (mutant) The last byte is not masked.
LengthUnmasked(n) == [k \in 1 .. LenBytes |-> (8 * n) \div (256 ^ (LenBytes - k))]

\* 8 * size, most significant byte first.
Length(n) == [k \in 1 .. LenBytes |-> ((8 * n) \div (256 ^ (LenBytes - k))) % 256]

\* (mutant) No second block for the length.
FillOneBlock ==
  /\ pc = "fill"
  /\ LET g == (Len(chunk) + 1) % Block
     IN  chunk' = chunk \o <<128>> \o Zeros(Block - LenBytes - g) \o Length(size)
  /\ f' = 0
  /\ pc' = "drain"
  /\ UNCHANGED <<absorbed, size, arg, summing, msg, digest, asked, calls>>

\* _fill(): 128, zeros up to the length field, the length.
Fill ==
  /\ pc = "fill"
  /\ LET g == (Len(chunk) + 1) % Block
         from == IF Block - g < LenBytes THEN g - Block ELSE g
     IN  chunk' = chunk \o <<128>> \o Zeros(Block - LenBytes - from) \o Length(size)
  /\ f' = 0
  /\ pc' = "drain"
  /\ UNCHANGED <<absorbed, size, arg, summing, msg, digest, asked, calls>>

\* The loop of sum, and what follows it: the digest is taken, the object reset.
Drain ==
  /\ pc = "drain"
  /\ IF f < Len(chunk)
     THEN /\ absorbed' = absorbed \o SubSeq(chunk, f + 1, Least(f + Block, Len(chunk)))
          /\ f' = f + Block
          /\ UNCHANGED <<chunk, size, pc, msg, digest, asked>>
     ELSE /\ digest' = absorbed
          /\ asked' = msg
          /\ Reset
          /\ msg' = <<>>
          /\ pc' = "idle"
          /\ UNCHANGED f
  /\ UNCHANGED <<arg, summing, calls>>

Done == pc = "idle" /\ calls = MaxCalls /\ UNCHANGED vars

Next == \/ \E a \in Inputs : Write(a) \/ Sum(a)
        \/ WriteLoop \/ Fill \/ Drain \/ Done
Spec == Init /\ [][Next]_vars

-----------------------------------------------------------------------------
TypeOK ==
  /\ absorbed \in Seq(Byte) /\ chunk \in Seq(Byte) /\ arg \in Seq(Byte)
  /\ msg \in Seq(Byte) /\ digest \in Seq(Byte) /\ asked \in Seq(Byte)
  /\ size \in Nat /\ f \in Nat /\ calls \in 0 .. MaxCalls
  /\ pc \in {"idle", "write", "fill", "drain"} /\ summing \in BOOLEAN

\* What write has not taken yet.
Rest == IF pc = "write" /\ f < Len(arg) THEN SubSeq(arg, f + 1, Len(arg)) ELSE <<>>

(***************************************************************************)
(* Every byte written since the last reset is compressed, in the chunk, or *)
(* still to be taken by the write that runs: none twice, none lost, in     *)
(* order, however the calls cut the message.                               *)
(***************************************************************************)
NothingIsLost == pc # "drain" => absorbed \o chunk \o Rest = msg

(***************************************************************************)
(* A call of write or sum finds room in the chunk: `64 - chunk.length` is  *)
(* never zero or less.                                                     *)
(***************************************************************************)
ChunkHasRoom == pc = "idle" => Len(chunk) < Block

(***************************************************************************)
(* Every block that is compressed is a whole one; the guard in _compress   *)
(* would let a short one pass.                                             *)
(***************************************************************************)
BlocksAreWhole ==
  [][absorbed' # absorbed => absorbed' = <<>>
                             \/ Len(absorbed') = Len(absorbed) + Block]_vars

(***************************************************************************)
(* A digest is the one of the message it was asked for, padded as SM3 asks *)
(* (GB/T 32905, 4.2): a one bit, the fewest zeros, the length in bits.     *)
(***************************************************************************)
Padded(m) ==
  LET k == CHOOSE z \in 0 .. Block - 1 :
             (Len(m) + 1 + z + LenBytes) % Block = 0
  IN  m \o <<128>> \o Zeros(k) \o Length(Len(m))
DigestIsOfTheMessage == digest # <<>> => digest = Padded(asked)
=============================================================================
