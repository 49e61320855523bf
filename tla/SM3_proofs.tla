----------------------------- MODULE SM3_proofs -----------------------------
(***************************************************************************)
(* The SM3 object for every size of a block and of the length field, every *)
(* set of messages and every number of calls: nothing is lost between the  *)
(* calls, every block is whole, every digest is of the padded message.     *)
(***************************************************************************)
EXTENDS SM3, SequenceTheorems, TLAPS

-----------------------------------------------------------------------------
(* Numbers *)

LEMMA Sizes ==
  /\ Block \in Nat /\ LenBytes \in Nat
  /\ 0 < LenBytes /\ LenBytes < Block
BY BlockAssumption

\* Multiples of the block are a block apart.
LEMMA MultiplesApart ==
  ASSUME NEW p \in Nat, NEW q \in Nat, p < q
  PROVE  p * Block + Block <= q * Block
<1>1. (q - p - 1) * Block >= 0
  BY Sizes
<1> QED
  BY <1>1, Sizes

LEMMA WholeIsMultiple ==
  ASSUME NEW x \in Nat
  PROVE  x % Block = 0 <=> \E q \in Nat : x = q * Block
<1>1. ASSUME x % Block = 0 PROVE \E q \in Nat : x = q * Block
  <2>1. x = Block * (x \div Block) + (x % Block)
    BY Sizes
  <2>2. x \div Block \in Nat
    BY Sizes
  <2>3. x = (x \div Block) * Block
    BY <1>1, <2>1, <2>2, Sizes
  <2> QED
    BY <2>2, <2>3
<1>2. ASSUME NEW q \in Nat, x = q * Block PROVE x % Block = 0
  BY <1>2, Sizes
<1> QED
  BY <1>1, <1>2

\* Only one number of zeros fills a block up.
LEMMA OneFilling ==
  ASSUME NEW x \in Nat, NEW y \in 0 .. Block - 1, NEW z \in 0 .. Block - 1,
         (x + y) % Block = 0, (x + z) % Block = 0
  PROVE  y = z
<1>1. x + y \in Nat /\ x + z \in Nat
  BY Sizes
<1>2. PICK p \in Nat : x + y = p * Block
  BY <1>1, WholeIsMultiple
<1>3. PICK q \in Nat : x + z = q * Block
  BY <1>1, WholeIsMultiple
<1>4. ~(p < q)
  BY <1>2, <1>3, MultiplesApart, Sizes
<1>5. ~(q < p)
  BY <1>2, <1>3, MultiplesApart, Sizes
<1> QED
  BY <1>2, <1>3, <1>4, <1>5

-----------------------------------------------------------------------------
(* Sequences of bytes *)

LEMMA Pieces ==
  ASSUME NEW s \in Seq(Byte), NEW k \in 0 .. Len(s), NEW l \in k .. Len(s)
  PROVE  /\ SubSeq(s, k + 1, l) \in Seq(Byte)
         /\ Len(SubSeq(s, k + 1, l)) = l - k
         /\ SubSeq(s, k + 1, l) \o SubSeq(s, l + 1, Len(s)) = SubSeq(s, k + 1, Len(s))
<1>1. k + 1 \in 1 .. Len(s) + 1 /\ l \in (k + 1) - 1 .. Len(s) /\ Len(s) \in l .. Len(s)
  OBVIOUS
<1>2. SubSeq(s, k + 1, l) \o SubSeq(s, l + 1, Len(s)) = SubSeq(s, k + 1, Len(s))
  BY <1>1, ConcatAdjacentSubSeq
<1>3. \A m \in k + 1 .. l : s[m] \in Byte
  OBVIOUS
<1>4. SubSeq(s, k + 1, l) \in Seq(Byte) /\ Len(SubSeq(s, k + 1, l)) = l - k
  BY <1>3, SubSeqProperties
<1> QED
  BY <1>2, <1>4

LEMMA AllOfIt ==
  ASSUME NEW s \in Seq(Byte) PROVE SubSeq(s, 1, Len(s)) = s
BY SubSeqFull

LEMMA NothingOfIt ==
  ASSUME NEW s \in Seq(Byte), NEW k \in Nat, Len(s) <= k
  PROVE  SubSeq(s, k + 1, Len(s)) = <<>>
BY SubSeqEmpty

LEMMA Joined ==
  ASSUME NEW s \in Seq(Byte), NEW t \in Seq(Byte)
  PROVE  /\ s \o t \in Seq(Byte) /\ Len(s \o t) = Len(s) + Len(t)
         /\ s \o <<>> = s /\ <<>> \o t = t
         /\ Len(s) \in Nat /\ Len(t) \in Nat
BY ConcatProperties, ConcatEmptySeq

LEMMA Regrouped ==
  ASSUME NEW s \in Seq(Byte), NEW t \in Seq(Byte), NEW u \in Seq(Byte)
  PROVE  (s \o t) \o u = s \o (t \o u)
BY ConcatAssociative

LEMMA ZerosAreBytes ==
  ASSUME NEW n \in Nat PROVE Zeros(n) \in Seq(Byte) /\ Len(Zeros(n)) = n
BY DEF Zeros, Byte

LEMMA LengthIsBytes ==
  ASSUME NEW n \in Nat
  PROVE  Length(n) \in Seq(Byte) /\ Len(Length(n)) = LenBytes
<1>1. \A k \in 1 .. LenBytes :
        ((8 * n) \div (256 ^ (LenBytes - k))) % 256 \in Byte
  BY Sizes DEF Byte
<1> QED
  BY <1>1, Sizes DEF Length

-----------------------------------------------------------------------------
(***************************************************************************)
(* The padding.  The message is whole blocks and what is left in the       *)
(* chunk, so what fills the chunk up fills the message up.                 *)
(***************************************************************************)

\* The zeros of _fill, from how many bytes the chunk holds.
ZerosFor(held) ==
  LET g == (held + 1) % Block
  IN  Block - LenBytes - IF Block - g < LenBytes THEN g - Block ELSE g

LEMMA FillsUp ==
  ASSUME NEW held \in 0 .. Block - 1
  PROVE  /\ ZerosFor(held) \in 0 .. Block - 1
         /\ \E q \in Nat : held + 1 + ZerosFor(held) + LenBytes = q * Block
<1>1. CASE held + 1 = Block
  <2>1. (held + 1) % Block = 0
    BY <1>1, Sizes
  <2>2. ZerosFor(held) = Block - LenBytes
    BY <2>1, Sizes DEF ZerosFor
  <2>3. held + 1 + ZerosFor(held) + LenBytes = 2 * Block
    BY <1>1, <2>2, Sizes
  <2> QED
    BY <2>2, <2>3, Sizes
<1>2. CASE held + 1 < Block
  <2>1. (held + 1) % Block = held + 1
    BY <1>2, Sizes
  <2>2. CASE Block - (held + 1) < LenBytes
    <3>1. ZerosFor(held) = 2 * Block - LenBytes - (held + 1)
      BY <2>1, <2>2, Sizes DEF ZerosFor
    <3>2. held + 1 + ZerosFor(held) + LenBytes = 2 * Block
      BY <3>1, Sizes
    <3> QED
      BY <2>2, <3>1, <3>2, Sizes
  <2>3. CASE ~(Block - (held + 1) < LenBytes)
    <3>1. ZerosFor(held) = Block - LenBytes - (held + 1)
      BY <2>1, <2>3, Sizes DEF ZerosFor
    <3>2. held + 1 + ZerosFor(held) + LenBytes = 1 * Block
      BY <3>1, Sizes
    <3> QED
      BY <2>3, <3>1, <3>2, Sizes
  <2> QED
    BY <2>2, <2>3
<1> QED
  BY <1>1, <1>2, Sizes

LEMMA FillIsPadding ==
  ASSUME NEW m \in Seq(Byte), NEW held \in 0 .. Block - 1, NEW p \in Nat,
         Len(m) = p * Block + held
  PROVE  Padded(m) = m \o <<128>> \o Zeros(ZerosFor(held)) \o Length(Len(m))
<1> DEFINE z == ZerosFor(held)
           x == Len(m) + 1 + LenBytes
           fits(k) == (Len(m) + 1 + k + LenBytes) % Block = 0
<1>1. z \in 0 .. Block - 1
  BY FillsUp
<1>2. PICK q \in Nat : held + 1 + z + LenBytes = q * Block
  BY FillsUp
<1> HIDE DEF z
<1>3. Len(m) \in Nat /\ x \in Nat
  BY Sizes
<1>4. p + q \in Nat /\ Len(m) + 1 + z + LenBytes = (p + q) * Block
  BY <1>1, <1>2, Sizes
<1>5. fits(z)
  <2>1. Len(m) + 1 + z + LenBytes \in Nat
    BY <1>1, <1>3, Sizes
  <2> QED
    BY <1>4, <2>1, WholeIsMultiple
<1>6. \A k \in 0 .. Block - 1 : fits(k) => k = z
  <2> SUFFICES ASSUME NEW k \in 0 .. Block - 1, fits(k) PROVE k = z
    OBVIOUS
  <2>1. x + k = Len(m) + 1 + k + LenBytes /\ x + z = Len(m) + 1 + z + LenBytes
    BY <1>1, <1>3, Sizes
  <2> HIDE DEF x
  <2> QED
    BY <1>1, <1>3, <1>5, <2>1, OneFilling
<1> DEFINE chosen == CHOOSE k \in 0 .. Block - 1 : fits(k)
<1>7. chosen = z
  <2> HIDE DEF fits
  <2> QED
    BY <1>1, <1>5, <1>6
<1>8. Padded(m) = m \o <<128>> \o Zeros(chosen) \o Length(Len(m))
  BY DEF Padded
<1> QED
  BY <1>7, <1>8 DEF z
-----------------------------------------------------------------------------
(***************************************************************************)
(* The inductive invariant.  Outside the loop of sum the message is what   *)
(* is absorbed, in the chunk and still to be taken; inside it the chunk    *)
(* holds the rest of the padded message, in whole blocks.                  *)
(***************************************************************************)
WholeBlocks == \E q \in Nat : Len(absorbed) = q * Block
Taking ==
  pc # "drain" =>
    /\ absorbed \o chunk \o Rest = msg
    /\ size = Len(msg)
    /\ pc \in {"idle", "fill"} => Len(chunk) < Block
    /\ pc = "write" => Len(chunk) <= Block
    /\ pc = "write" /\ Len(chunk) < Block => Len(arg) <= f
Draining ==
  pc = "drain" =>
    /\ f <= Len(chunk)
    /\ \E q \in Nat : Len(chunk) - f = q * Block
    /\ absorbed \o SubSeq(chunk, f + 1, Len(chunk)) = Padded(msg)
SM3Inv == TypeOK /\ WholeBlocks /\ Taking /\ Draining /\ DigestIsOfTheMessage

LEMMA SM3Init == Init => SM3Inv
<1> SUFFICES ASSUME Init PROVE SM3Inv
  OBVIOUS
<1>1. TypeOK
  <2>1. <<>> \in Seq(Byte) /\ 0 \in 0 .. MaxCalls
    BY CallsAssumption
  <2> QED
    BY <2>1 DEF Init, TypeOK
<1>2. WholeBlocks
  <2>1. Len(absorbed) = 0 * Block
    BY Sizes DEF Init
  <2> QED
    BY <2>1 DEF WholeBlocks
<1>3. Taking
  <2>1. absorbed = <<>> /\ chunk = <<>> /\ Rest = <<>> /\ msg = <<>>
    BY DEF Init, Rest
  <2>2. absorbed \o chunk \o Rest = msg
    BY <2>1
  <2> QED
    BY <2>1, <2>2, Sizes DEF Init, Taking
<1>4. Draining /\ DigestIsOfTheMessage
  BY DEF Init, Draining, DigestIsOfTheMessage
<1> QED
  BY <1>1, <1>2, <1>3, <1>4 DEF SM3Inv

\* The head of write keeps the account, whatever was absorbed before.
LEMMA BeginTakes ==
  ASSUME SM3Inv, NEW a \in Seq(Byte), NEW held \in Seq(Byte), NEW n \in Nat,
         NEW x \in Seq(Byte), NEW m \in Seq(Byte),
         Len(held) < Block, Begin(a, held, n), summing' \in BOOLEAN,
         absorbed' = x, msg' = m \o a, x \o held = m, n = Len(m)
  PROVE  /\ arg' \in Seq(Byte) /\ chunk' \in Seq(Byte)
         /\ size' \in Nat /\ f' \in Nat
         /\ pc' \in {"idle", "write", "fill"}
         /\ Taking'
<1> DEFINE k == Block - Len(held)
<1>1. /\ arg' = a /\ size' = n + Len(a) /\ f' = k /\ k \in Nat /\ 0 < k
      /\ Len(held) \in Nat /\ Len(a) \in Nat
  BY Sizes DEF Begin
<1>2. size' = Len(msg') /\ msg' \in Seq(Byte)
  BY <1>1, Joined
<1>3. CASE Len(a) < k
  <2>1. chunk' = held \o a /\ pc' \in {"idle", "fill"}
    BY <1>3 DEF Begin
  <2>2. chunk' \in Seq(Byte) /\ Len(chunk') < Block
    BY <1>1, <1>3, <2>1, Joined, Sizes
  <2>3. Rest' = <<>>
    BY <2>1 DEF Rest
  <2>4. x \o (held \o a) = m \o a
    BY Regrouped
  <2>5. absorbed' \o chunk' \o Rest' = msg'
    <3>1. x \o chunk' \in Seq(Byte)
      BY <2>2, Joined
    <3> QED
      BY <2>1, <2>3, <2>4, <3>1, Joined
  <2> QED
    BY <1>1, <1>2, <2>1, <2>2, <2>5 DEF Taking
<1>4. CASE ~(Len(a) < k)
  <2> DEFINE taken == SubSeq(a, 1, k)
             left == SubSeq(a, k + 1, Len(a))
  <2>1. chunk' = held \o taken /\ pc' = "write"
    BY <1>4 DEF Begin
  <2>2. /\ taken \in Seq(Byte) /\ Len(taken) = k /\ left \in Seq(Byte)
        /\ taken \o left = a
    <3>1. 0 \in 0 .. Len(a) /\ k \in 0 .. Len(a) /\ Len(a) \in k .. Len(a)
      BY <1>1, <1>4
    <3> HIDE DEF k
    <3>2. /\ SubSeq(a, 0 + 1, k) \in Seq(Byte)
          /\ Len(SubSeq(a, 0 + 1, k)) = k - 0
          /\ SubSeq(a, 0 + 1, k) \o left = SubSeq(a, 0 + 1, Len(a))
      BY <3>1, Pieces
    <3>3. left \in Seq(Byte)
      BY <3>1, Pieces
    <3>4. SubSeq(a, 0 + 1, k) = taken /\ k - 0 = k /\ SubSeq(a, 0 + 1, Len(a)) = a
      <4>1. 0 + 1 = 1 /\ k - 0 = k
        BY <1>1
      <4> QED
        BY <4>1, AllOfIt
    <3> HIDE DEF taken, left
    <3> QED
      BY <3>2, <3>3, <3>4
  <2>3. chunk' \in Seq(Byte) /\ Len(chunk') = Block
    <3> HIDE DEF taken
    <3>1. chunk' \in Seq(Byte) /\ Len(chunk') = Len(held) + Len(taken)
      BY <2>1, <2>2, Joined
    <3> QED
      BY <1>1, <2>2, <3>1, Sizes
  <2>4. Rest' = left
    <3>1. CASE k < Len(a)
      BY <1>1, <2>1, <3>1 DEF Rest
    <3>2. CASE ~(k < Len(a))
      <4>1. Rest' = <<>>
        BY <1>1, <2>1, <3>2 DEF Rest
      <4>2. left = <<>>
        BY <1>1, <3>2, NothingOfIt
      <4> QED
        BY <4>1, <4>2
    <3> QED
      BY <3>1, <3>2
  <2>5. absorbed' \o chunk' \o Rest' = msg'
    <3> HIDE DEF taken, left
    <3>1. x \o (held \o taken) = m \o taken
      <4>1. (x \o held) \o taken = x \o (held \o taken)
        <5>1. x \in Seq(Byte) /\ held \in Seq(Byte) /\ taken \in Seq(Byte)
          BY <2>2
        <5> QED
          BY ONLY SMTT(20), <5>1, Regrouped
      <4> QED
        BY <4>1
    <3>2. (m \o taken) \o left = m \o (taken \o left)
      BY ZenonT(30), <2>2, Regrouped
    <3> QED
      BY <2>1, <2>2, <2>4, <3>1, <3>2
  <2>6. Len(chunk') = Block /\ pc' = "write"
    BY <2>1, <2>3
  <2> HIDE DEF k, taken, left
  <2>7. Taking'
    BY <1>2, <2>5, <2>6, Sizes DEF Taking
  <2> QED
    BY <1>1, <2>1, <2>3, <2>7
<1> QED
  BY <1>3, <1>4
-----------------------------------------------------------------------------
LEMMA SM3Write ==
  ASSUME SM3Inv, NEW a \in Inputs, Write(a) PROVE SM3Inv'
<1> USE DEF SM3Inv
<1>1. a \in Seq(Byte)
  BY InputsAssumption DEF Byte
<1>2. /\ pc = "idle" /\ Begin(a, chunk, size) /\ summing' = FALSE /\ msg' = msg \o a
      /\ calls' = calls + 1 /\ calls < MaxCalls
      /\ UNCHANGED <<absorbed, digest, asked>>
  BY DEF Write
<1>3. /\ chunk \in Seq(Byte) /\ absorbed \in Seq(Byte) /\ msg \in Seq(Byte)
      /\ size \in Nat /\ Len(chunk) < Block /\ size = Len(msg)
      /\ absorbed \o chunk = msg
  <2>1. Rest = <<>>
    BY <1>2 DEF Rest
  <2>2. absorbed \o chunk \in Seq(Byte)
    BY Joined DEF TypeOK
  <2>3. absorbed \o chunk \o Rest = msg
    BY <1>2 DEF Taking
  <2>4. absorbed \o chunk = msg
    BY <2>1, <2>2, <2>3, Joined
  <2> QED
    BY <1>2, <2>4 DEF Taking, TypeOK
<1>4. /\ arg' \in Seq(Byte) /\ chunk' \in Seq(Byte) /\ size' \in Nat /\ f' \in Nat
      /\ pc' \in {"idle", "write", "fill"} /\ Taking'
  BY <1>1, <1>2, <1>3, BeginTakes
<1>5. TypeOK'
  <2>1. msg' \in Seq(Byte)
    BY <1>1, <1>2, <1>3, Joined
  <2>2. calls' \in 0 .. MaxCalls
    BY <1>2, CallsAssumption DEF TypeOK
  <2> QED
    BY <1>2, <1>4, <2>1, <2>2 DEF TypeOK
<1>6. WholeBlocks' /\ Draining' /\ DigestIsOfTheMessage'
  BY <1>2, <1>4 DEF WholeBlocks, Draining, DigestIsOfTheMessage
<1> QED
  BY <1>4, <1>5, <1>6

LEMMA SM3Sum ==
  ASSUME SM3Inv, NEW e \in Inputs, Sum(e) PROVE SM3Inv'
<1> USE DEF SM3Inv
<1>1. e \in Seq(Byte)
  BY InputsAssumption DEF Byte
<1>2. /\ pc = "idle" /\ summing' = TRUE /\ calls' = calls + 1 /\ calls < MaxCalls
      /\ UNCHANGED <<digest, asked>>
  BY DEF Sum
<1>3. calls' \in 0 .. MaxCalls
  BY <1>2, CallsAssumption DEF TypeOK
<1>4. CASE e = <<>>
  <2>1. pc' = "fill" /\ UNCHANGED <<absorbed, chunk, size, arg, f, msg>>
    BY <1>4 DEF Sum
  <2>2. Rest' = Rest
    BY <1>2, <2>1 DEF Rest
  <2>3. TypeOK'
    BY <1>2, <1>3, <2>1 DEF TypeOK
  <2>4. Taking'
    BY <1>2, <2>1, <2>2 DEF Taking
  <2> QED
    BY <1>2, <2>1, <2>3, <2>4 DEF WholeBlocks, Draining, DigestIsOfTheMessage
<1>5. CASE e # <<>>
  <2>1. absorbed' = <<>> /\ msg' = e /\ Begin(e, <<>>, 0)
    BY <1>5 DEF Sum
  <2>2. /\ <<>> \in Seq(Byte) /\ Len(<<>>) = 0 /\ 0 < Block
        /\ <<>> \o <<>> = <<>> /\ <<>> \o e = e
    BY <1>1, Sizes, Joined
  <2>3. /\ arg' \in Seq(Byte) /\ chunk' \in Seq(Byte) /\ size' \in Nat /\ f' \in Nat
        /\ pc' \in {"idle", "write", "fill"} /\ Taking'
    BY <1>1, <1>2, <2>1, <2>2, BeginTakes
  <2>4. TypeOK'
    BY <1>1, <1>2, <1>3, <2>1, <2>2, <2>3 DEF TypeOK
  <2>5. WholeBlocks'
    <3>1. Len(absorbed') = 0 * Block
      BY <2>1, Sizes
    <3> QED
      BY <3>1 DEF WholeBlocks
  <2> QED
    BY <1>2, <2>3, <2>4, <2>5 DEF Draining, DigestIsOfTheMessage
<1> QED
  BY <1>4, <1>5
LEMMA SM3WriteLoop ==
  ASSUME SM3Inv, WriteLoop PROVE SM3Inv'
<1> USE DEF SM3Inv
<1>1. /\ pc = "write" /\ UNCHANGED <<size, arg, summing, msg, digest, asked, calls>>
      /\ absorbed \in Seq(Byte) /\ chunk \in Seq(Byte) /\ arg \in Seq(Byte)
      /\ f \in Nat /\ Len(chunk) \in Nat /\ Len(arg) \in Nat
  BY DEF WriteLoop, TypeOK
<1>2. /\ absorbed \o chunk \o Rest = msg /\ size = Len(msg) /\ Len(chunk) <= Block
      /\ Len(chunk) < Block => Len(arg) <= f
  BY <1>1 DEF Taking
<1>3. CASE Len(chunk) >= Block
  <2> DEFINE l == Least(f + Block, Len(arg))
             next == IF f < Len(arg) THEN SubSeq(arg, f + 1, l) ELSE <<>>
  <2>1. /\ absorbed' = absorbed \o chunk /\ chunk' = next /\ f' = f + Block
        /\ pc' = "write" /\ Len(chunk) = Block
    BY <1>1, <1>2, <1>3, Sizes DEF WriteLoop
  <2>2. /\ next \in Seq(Byte) /\ Len(next) <= Block
        /\ Len(next) < Block => Len(arg) <= f + Block
        /\ Rest' \in Seq(Byte) /\ next \o Rest' = Rest
    <3>1. CASE f < Len(arg)
      <4>1. f \in 0 .. Len(arg) /\ l \in f .. Len(arg) /\ f + Block \in Nat
        BY <1>1, <3>1, Sizes DEF Least
      <4>2. l = f + Block \/ (l = Len(arg) /\ l < f + Block)
        BY <1>1, Sizes DEF Least
      <4>3. /\ SubSeq(arg, f + 1, l) \in Seq(Byte)
            /\ Len(SubSeq(arg, f + 1, l)) = l - f
            /\ SubSeq(arg, f + 1, l) \o SubSeq(arg, l + 1, Len(arg))
                 = SubSeq(arg, f + 1, Len(arg))
        BY <1>1, <4>1, Pieces
      <4>4. SubSeq(arg, l + 1, Len(arg)) \in Seq(Byte)
        BY <1>1, <4>1, SubSeqProperties
      <4>5. Rest = SubSeq(arg, f + 1, Len(arg))
        BY <1>1, <3>1 DEF Rest
      <4>6. Rest' = SubSeq(arg, l + 1, Len(arg))
        <5>1. CASE f + Block < Len(arg)
          <6>1. l = f + Block
            BY <1>1, <5>1, Sizes DEF Least
          <6> QED
            BY <1>1, <2>1, <5>1, <6>1 DEF Rest
        <5>2. CASE ~(f + Block < Len(arg))
          <6>1. l = Len(arg)
            BY <1>1, <5>2, Sizes DEF Least
          <6>2. SubSeq(arg, l + 1, Len(arg)) = <<>>
            BY <1>1, <6>1, NothingOfIt
          <6> QED
            BY <1>1, <2>1, <5>2, <6>2 DEF Rest
        <5> QED
          BY <5>1, <5>2
      <4>7. Len(SubSeq(arg, f + 1, l)) <= Block
        BY <1>1, <4>1, <4>2, <4>3, Sizes
      <4>8. Len(SubSeq(arg, f + 1, l)) < Block => Len(arg) <= f + Block
        BY <1>1, <4>1, <4>2, <4>3, Sizes
      <4>9. next = SubSeq(arg, f + 1, l)
        BY <3>1
      <4> HIDE DEF l, next
      <4> QED
        BY <4>3, <4>4, <4>5, <4>6, <4>7, <4>8, <4>9
    <3>2. CASE ~(f < Len(arg))
      <4>1. next = <<>> /\ Rest = <<>>
        BY <1>1, <3>2 DEF Rest
      <4>2. Rest' = <<>>
        BY <1>1, <2>1, <3>2, Sizes DEF Rest
      <4>3. Len(<<>>) = 0 /\ <<>> \in Seq(Byte) /\ <<>> \o <<>> = <<>>
        OBVIOUS
      <4>4. 0 <= Block /\ Len(arg) <= f + Block
        BY <1>1, <3>2, Sizes
      <4> HIDE DEF l, next
      <4> QED
        BY <4>1, <4>2, <4>3, <4>4
    <3> QED
      BY <3>1, <3>2
  <2> HIDE DEF l, next
  <2>3. absorbed' \in Seq(Byte) /\ Len(absorbed') = Len(absorbed) + Block
    BY <1>1, <2>1, Joined
  <2>4. absorbed' \o chunk' \o Rest' = msg
    <3>1. (absorbed' \o next) \o Rest' = absorbed' \o (next \o Rest')
      BY <2>2, <2>3, Regrouped
    <3> QED
      BY <1>2, <2>1, <2>2, <3>1
  <2>5. TypeOK'
    BY <1>1, <2>1, <2>2, <2>3, Sizes DEF TypeOK
  <2>6. WholeBlocks'
    <3>1. PICK q \in Nat : Len(absorbed) = q * Block
      BY DEF WholeBlocks
    <3>2. q + 1 \in Nat /\ Len(absorbed') = (q + 1) * Block
      BY <2>3, <3>1, Sizes
    <3> QED
      BY <3>2 DEF WholeBlocks
  <2>7. Taking'
    BY <1>1, <1>2, <2>1, <2>2, <2>4 DEF Taking
  <2> QED
    BY <1>1, <2>1, <2>5, <2>6, <2>7 DEF Draining, DigestIsOfTheMessage
<1>4. CASE ~(Len(chunk) >= Block)
  <2>1. pc' \in {"idle", "fill"} /\ UNCHANGED <<absorbed, chunk, f>>
    BY <1>4 DEF WriteLoop
  <2>2. Rest = <<>> /\ Rest' = <<>> /\ Len(chunk) < Block
    BY <1>1, <1>2, <1>4, <2>1, Sizes DEF Rest
  <2>3. TypeOK'
    BY <1>1, <2>1 DEF TypeOK
  <2>4. Taking'
    BY <1>1, <1>2, <2>1, <2>2 DEF Taking
  <2> QED
    BY <1>1, <2>1, <2>3, <2>4 DEF WholeBlocks, Draining, DigestIsOfTheMessage
<1> QED
  BY <1>3, <1>4

\* What fills the chunk up makes the padded message of what was written.
LEMMA SM3Fill ==
  ASSUME SM3Inv, Fill PROVE SM3Inv'
<1> USE DEF SM3Inv
<1> DEFINE held == Len(chunk)
           z == ZerosFor(held)
           pad == <<128>> \o Zeros(z) \o Length(size)
<1>1. /\ pc = "fill" /\ pc' = "drain" /\ f' = 0
      /\ chunk' = chunk \o <<128>> \o Zeros(z) \o Length(size)
      /\ UNCHANGED <<absorbed, size, arg, summing, msg, digest, asked, calls>>
  BY DEF Fill, ZerosFor
<1>2. /\ absorbed \in Seq(Byte) /\ chunk \in Seq(Byte) /\ msg \in Seq(Byte)
      /\ size \in Nat /\ size = Len(msg) /\ held \in 0 .. Block - 1
  BY <1>1, Sizes DEF Taking, TypeOK
<1>3. absorbed \o chunk = msg
  <2>1. Rest = <<>> /\ absorbed \o chunk \in Seq(Byte)
    BY <1>1, <1>2, Joined DEF Rest
  <2>2. absorbed \o chunk \o Rest = msg
    BY <1>1 DEF Taking
  <2> QED
    BY <2>1, <2>2, Joined
<1>4. PICK p \in Nat : Len(absorbed) = p * Block
  BY DEF WholeBlocks
<1>5. Len(msg) = p * Block + held
  BY <1>2, <1>3, <1>4, Joined
<1>6. Padded(msg) = msg \o <<128>> \o Zeros(z) \o Length(Len(msg))
  BY <1>2, <1>5, FillIsPadding
<1>7. z \in 0 .. Block - 1 /\ \E q \in Nat : held + 1 + z + LenBytes = q * Block
  BY <1>2, FillsUp
<1> HIDE DEF z
<1>8. /\ <<128>> \in Seq(Byte) /\ Len(<<128>>) = 1
      /\ Zeros(z) \in Seq(Byte) /\ Len(Zeros(z)) = z
      /\ Length(size) \in Seq(Byte) /\ Len(Length(size)) = LenBytes
  <2>1. z \in Nat /\ <<128>> \in Seq(Byte)
    BY <1>7, Sizes DEF Byte
  <2> QED
    BY <1>2, <2>1, ZerosAreBytes, LengthIsBytes
<1>9. /\ chunk \o <<128>> \in Seq(Byte) /\ Len(chunk \o <<128>>) = held + 1
      /\ chunk \o <<128>> \o Zeros(z) \in Seq(Byte)
      /\ Len(chunk \o <<128>> \o Zeros(z)) = held + 1 + z
      /\ chunk' \in Seq(Byte) /\ Len(chunk') = held + 1 + z + LenBytes
  <2>1. chunk \o <<128>> \in Seq(Byte) /\ Len(chunk \o <<128>>) = held + 1
    BY <1>2, <1>8, Joined
  <2>2. /\ chunk \o <<128>> \o Zeros(z) \in Seq(Byte)
        /\ Len(chunk \o <<128>> \o Zeros(z)) = held + 1 + z
    BY <1>8, <2>1, Joined
  <2> QED
    BY <1>1, <1>8, <2>1, <2>2, Joined
<1>types. /\ absorbed \in Seq(Byte) /\ chunk \in Seq(Byte) /\ <<128>> \in Seq(Byte)
          /\ Zeros(z) \in Seq(Byte) /\ Length(size) \in Seq(Byte)
          /\ chunk \o <<128>> \in Seq(Byte)
          /\ chunk \o <<128>> \o Zeros(z) \in Seq(Byte)
  BY <1>2, <1>8, <1>9
<1>10. absorbed \o chunk' = Padded(msg)
  <2>1. absorbed \o (chunk \o <<128>>) = msg \o <<128>>
    <3>1. (absorbed \o chunk) \o <<128>> = absorbed \o (chunk \o <<128>>)
      BY ONLY SMTT(20), <1>types, Regrouped
    <3> QED
      BY <1>3, <3>1
  <2>2. absorbed \o (chunk \o <<128>> \o Zeros(z)) = msg \o <<128>> \o Zeros(z)
    <3>1. (absorbed \o (chunk \o <<128>>)) \o Zeros(z)
            = absorbed \o ((chunk \o <<128>>) \o Zeros(z))
      BY ONLY SMTT(20), <1>types, Regrouped
    <3> QED
      BY <2>1, <3>1
  <2>3. (absorbed \o (chunk \o <<128>> \o Zeros(z))) \o Length(size)
          = absorbed \o ((chunk \o <<128>> \o Zeros(z)) \o Length(size))
    <3> DEFINE body == chunk \o <<128>> \o Zeros(z)
               end == Length(size)
    <3>1. absorbed \in Seq(Byte) /\ body \in Seq(Byte) /\ end \in Seq(Byte)
      BY <1>types
    <3> HIDE DEF body, end
    <3>2. (absorbed \o body) \o end = absorbed \o (body \o end)
      BY ONLY <3>1, Regrouped
    <3> QED
      BY <3>2 DEF body, end
  <2> QED
    BY <1>1, <1>2, <1>6, <2>2, <2>3
<1>11. TypeOK'
  BY <1>1, <1>9 DEF TypeOK
<1>12. Draining'
  <2>1. SubSeq(chunk', 0 + 1, Len(chunk')) = chunk' /\ Len(chunk') \in Nat
    BY <1>9, AllOfIt
  <2>2. \E q \in Nat : Len(chunk') - 0 = q * Block
    BY <1>7, <1>9, <2>1
  <2>3. Padded(msg)' = Padded(msg)
    BY <1>1 DEF Padded, Zeros, Length
  <2>4. absorbed' \o SubSeq(chunk', f' + 1, Len(chunk')) = Padded(msg)'
    BY <1>1, <1>10, <2>1, <2>3
  <2>5. f' <= Len(chunk') /\ \E q \in Nat : Len(chunk') - f' = q * Block
    BY <1>1, <2>1, <2>2
  <2> QED
    BY <2>4, <2>5 DEF Draining
<1> QED
  BY <1>1, <1>11, <1>12 DEF WholeBlocks, Taking, DigestIsOfTheMessage
LEMMA SM3Drain ==
  ASSUME SM3Inv, Drain
  PROVE  /\ SM3Inv'
         /\ absorbed' # absorbed =>
              absorbed' = <<>> \/ Len(absorbed') = Len(absorbed) + Block
<1> USE DEF SM3Inv
<1>1. /\ pc = "drain" /\ UNCHANGED <<arg, summing, calls>>
      /\ absorbed \in Seq(Byte) /\ chunk \in Seq(Byte)
      /\ f \in Nat /\ Len(chunk) \in Nat
  BY DEF Drain, TypeOK
<1>2. /\ f <= Len(chunk)
      /\ absorbed \o SubSeq(chunk, f + 1, Len(chunk)) = Padded(msg)
  BY <1>1 DEF Draining
<1>3. CASE f < Len(chunk)
  <2> DEFINE l == Least(f + Block, Len(chunk))
             block == SubSeq(chunk, f + 1, l)
             left == SubSeq(chunk, l + 1, Len(chunk))
  <2>1. /\ absorbed' = absorbed \o block /\ f' = f + Block
        /\ UNCHANGED <<chunk, size, pc, msg, digest, asked>>
    BY <1>3 DEF Drain
  <2>2. PICK q \in Nat : Len(chunk) - f = q * Block
    BY <1>1 DEF Draining
  <2>3. q # 0
    BY <1>1, <1>3, <2>2, Sizes
  <2>4. q - 1 \in Nat /\ (q - 1) * Block = q * Block - Block /\ (q - 1) * Block >= 0
    BY <2>3, Sizes
  <2>5. l = f + Block /\ l \in f .. Len(chunk) /\ f \in 0 .. Len(chunk)
    BY <1>1, <1>3, <2>2, <2>4, Sizes DEF Least
  <2>6. /\ block \in Seq(Byte) /\ Len(block) = Block
        /\ block \o left = SubSeq(chunk, f + 1, Len(chunk))
    <3> HIDE DEF l
    <3>1. /\ SubSeq(chunk, f + 1, l) \in Seq(Byte)
          /\ Len(SubSeq(chunk, f + 1, l)) = l - f
          /\ SubSeq(chunk, f + 1, l) \o SubSeq(chunk, l + 1, Len(chunk))
               = SubSeq(chunk, f + 1, Len(chunk))
      BY <1>1, <2>5, Pieces
    <3>2. l - f = Block
      BY <1>1, <2>5, Sizes
    <3> QED
      BY <3>1, <3>2
  <2>7. left \in Seq(Byte)
    <3> HIDE DEF l
    <3> QED
      BY <1>1, <2>5, SubSeqProperties
  <2>8. absorbed' \in Seq(Byte) /\ Len(absorbed') = Len(absorbed) + Block
    <3> HIDE DEF block
    <3> QED
      BY <1>1, <2>1, <2>6, Joined
  <2>9. TypeOK'
    BY <1>1, <2>1, <2>8, Sizes DEF TypeOK
  <2>10. WholeBlocks'
    <3>1. PICK p \in Nat : Len(absorbed) = p * Block
      BY DEF WholeBlocks
    <3>2. p + 1 \in Nat /\ Len(absorbed') = (p + 1) * Block
      BY <2>8, <3>1, Sizes
    <3> QED
      BY <3>2 DEF WholeBlocks
  <2>11. Draining'
    <3>1. absorbed' \o left = Padded(msg)
      <4> HIDE DEF block, left
      <4>1. (absorbed \o block) \o left = absorbed \o (block \o left)
        <5>1. absorbed \in Seq(Byte) /\ block \in Seq(Byte) /\ left \in Seq(Byte)
          BY <1>1, <2>6, <2>7
        <5> QED
          BY ONLY <5>1, Regrouped
      <4> QED
        BY <1>2, <2>1, <2>6, <4>1
    <3>2. Padded(msg)' = Padded(msg)
      BY <2>1 DEF Padded, Zeros, Length
    <3>3. absorbed' \o SubSeq(chunk', f' + 1, Len(chunk')) = Padded(msg)'
      BY <2>1, <2>5, <3>1, <3>2
    <3>4. f' <= Len(chunk') /\ Len(chunk') - f' = (q - 1) * Block
      BY <1>1, <2>1, <2>2, <2>4, <2>5, Sizes
    <3>5. \E p \in Nat : Len(chunk') - f' = p * Block
      BY <2>4, <3>4
    <3> QED
      BY <3>3, <3>4, <3>5 DEF Draining
  <2> QED
    BY <1>1, <2>1, <2>8, <2>9, <2>10, <2>11 DEF Taking, DigestIsOfTheMessage,
       Padded, Zeros, Length
<1>4. CASE ~(f < Len(chunk))
  <2>1. /\ digest' = absorbed /\ asked' = msg /\ absorbed' = <<>> /\ chunk' = <<>>
        /\ size' = 0 /\ msg' = <<>> /\ pc' = "idle" /\ f' = f
    BY <1>4 DEF Drain, Reset
  <2>2. absorbed = Padded(msg)
    <3>1. SubSeq(chunk, f + 1, Len(chunk)) = <<>>
      BY <1>1, <1>4, NothingOfIt
    <3> QED
      BY <1>1, <1>2, <3>1, Joined
  <2>3. /\ <<>> \in Seq(Byte) /\ Len(<<>>) = 0 /\ <<>> \o <<>> = <<>>
        /\ 0 < Block /\ 0 \in Nat
    BY Sizes
  <2>4. TypeOK'
    BY <1>1, <2>1, <2>3 DEF TypeOK
  <2>5. WholeBlocks'
    <3>1. Len(absorbed') = 0 * Block
      BY <2>1, Sizes
    <3> QED
      BY <3>1 DEF WholeBlocks
  <2>6. Taking'
    <3>1. Rest' = <<>>
      BY <2>1 DEF Rest
    <3> QED
      BY <2>1, <2>3, <3>1 DEF Taking
  <2>7. DigestIsOfTheMessage'
    <3>1. Padded(asked)' = Padded(msg)
      BY <2>1 DEF Padded, Zeros, Length
    <3>2. digest' = Padded(asked)'
      BY <2>1, <2>2, <3>1
    <3> QED
      BY <3>2 DEF DigestIsOfTheMessage
  <2> QED
    BY <2>1, <2>4, <2>5, <2>6, <2>7 DEF Draining
<1> QED
  BY <1>3, <1>4

LEMMA SM3Next == SM3Inv /\ [Next]_vars => SM3Inv'
<1> SUFFICES ASSUME SM3Inv, [Next]_vars PROVE SM3Inv'
  OBVIOUS
<1>1. ASSUME NEW a \in Inputs, Write(a) \/ Sum(a) PROVE SM3Inv'
  BY <1>1, SM3Write, SM3Sum
<1>2. CASE WriteLoop
  BY <1>2, SM3WriteLoop
<1>3. CASE Fill
  BY <1>3, SM3Fill
<1>4. CASE Drain
  BY <1>4, SM3Drain
<1>5. CASE Done \/ UNCHANGED vars
  <2>1. UNCHANGED vars
    BY <1>5 DEF Done
  <2>2. Padded(asked)' = Padded(asked) /\ Padded(msg)' = Padded(msg) /\ Rest' = Rest
    BY <2>1 DEF vars, Padded, Zeros, Length, Rest
  <2>3. TypeOK' /\ WholeBlocks'
    BY <2>1 DEF vars, SM3Inv, TypeOK, WholeBlocks
  <2>4. Taking' /\ Draining' /\ DigestIsOfTheMessage'
    BY <2>1, <2>2 DEF vars, SM3Inv, Taking, Draining, DigestIsOfTheMessage
  <2> QED
    BY <2>3, <2>4 DEF SM3Inv
<1> QED
  BY <1>1, <1>2, <1>3, <1>4, <1>5 DEF Next

LEMMA SM3Always == Spec => []SM3Inv
BY SM3Init, SM3Next, PTL DEF Spec

-----------------------------------------------------------------------------
(* The object stays of its type: chunk and registers only ever hold bytes. *)
THEOREM SM3TypeCorrect == Spec => []TypeOK
<1>1. SM3Inv => TypeOK
  BY DEF SM3Inv
<1> QED
  BY SM3Always, <1>1, PTL

(***************************************************************************)
(* write takes each byte once and in order, however the message is cut     *)
(* into calls and whatever the size of a block.                            *)
(***************************************************************************)
THEOREM WriteLosesNothing == Spec => []NothingIsLost
<1>1. SM3Inv => NothingIsLost
  BY DEF SM3Inv, Taking, NothingIsLost
<1> QED
  BY SM3Always, <1>1, PTL

(* Between calls the chunk is never full: write always has room to begin. *)
THEOREM RoomBetweenCalls == Spec => []ChunkHasRoom
<1>1. SM3Inv => ChunkHasRoom
  BY DEF SM3Inv, Taking, ChunkHasRoom
<1> QED
  BY SM3Always, <1>1, PTL

(***************************************************************************)
(* The digests: what sum compresses is the message it was asked for,       *)
(* padded to the standard, for every message and after every earlier call. *)
(***************************************************************************)
THEOREM SumPadsToTheStandard == Spec => []DigestIsOfTheMessage
<1>1. SM3Inv => DigestIsOfTheMessage
  BY DEF SM3Inv
<1> QED
  BY SM3Always, <1>1, PTL

(* No step compresses part of a block. *)
THEOREM CompressTakesBlocks == Spec => BlocksAreWhole
<1> DEFINE A == absorbed' # absorbed => absorbed' = <<>>
                                        \/ Len(absorbed') = Len(absorbed) + Block
<1>1. SM3Inv /\ [Next]_vars => [A]_vars
  <2> SUFFICES ASSUME SM3Inv, Next PROVE A
    OBVIOUS
  <2>1. ASSUME NEW a \in Inputs, Write(a) \/ Sum(a) PROVE A
    BY <2>1 DEF Write, Sum
  <2>2. CASE WriteLoop
    <3>1. CASE Len(chunk) >= Block
      <4>1. absorbed' = absorbed \o chunk /\ pc = "write"
        BY <2>2, <3>1 DEF WriteLoop
      <4>2. /\ absorbed \in Seq(Byte) /\ chunk \in Seq(Byte)
            /\ Len(chunk) \in Nat /\ Len(chunk) <= Block
        BY <4>1 DEF SM3Inv, TypeOK, Taking
      <4>3. Len(chunk) = Block
        BY <3>1, <4>2, Sizes
      <4> QED
        BY <4>1, <4>2, <4>3, Joined
    <3>2. CASE ~(Len(chunk) >= Block)
      BY <2>2, <3>2 DEF WriteLoop
    <3> QED
      BY <3>1, <3>2
  <2>3. CASE Fill \/ Done
    BY <2>3 DEF Fill, Done, vars
  <2>4. CASE Drain
    BY <2>4, SM3Drain
  <2> QED
    BY <2>1, <2>2, <2>3, <2>4 DEF Next
<1>2. Spec => [][Next]_vars
  BY PTL DEF Spec
<1> QED
  BY SM3Always, <1>1, <1>2, PTL DEF BlocksAreWhole
=============================================================================
