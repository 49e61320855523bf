---------------------------- MODULE ABogus_proofs ----------------------------
(***************************************************************************)
(* What the signature of ABogus keeps for every size of a byte, every key, *)
(* every random string and all facts: its types, the list of rc4_encrypt,  *)
(* what the receiver reads, and the last character of a block.             *)
(***************************************************************************)
EXTENDS ABogus, SequenceTheorems, WellFoundedInduction, TLAPS

(***************************************************************************)
(* Numbers: a set of them has a least one, and division is unique.         *)
(***************************************************************************)
LEMMA LeastNumber ==
  ASSUME NEW S, S \subseteq Nat, S # {}
  PROVE  \E x \in S : \A y \in S : x <= y
<1> DEFINE R == OpToRel(<, Nat)
<1>1. PICK x \in S : \A y \in S : <<y, x>> \notin R
  <2>1. IsWellFoundedOn(R, Nat)
    BY NatLessThanWellFounded
  <2> HIDE DEF R
  <2> QED
    BY <2>1, WFMin
<1>2. \A y, z \in Nat : y < z => <<y, z>> \in R
  BY DEF OpToRel
<1> HIDE DEF R
<1>3. ASSUME NEW y \in S PROVE x <= y
  <2>1. x \in Nat /\ y \in Nat
    OBVIOUS
  <2>2. ~(y < x)
    BY <1>1, <1>2, <2>1
  <2> QED
    BY <2>1, <2>2
<1> QED
  BY <1>3

(***************************************************************************)
(* XorAll                                                                  *)
(***************************************************************************)
LEMMA CharIsNat == /\ N \in Nat /\ N >= 2 /\ 0 \in Char /\ Octet \subseteq Char
                   /\ \A c \in Char : c \in Nat /\ c % N \in Octet
BY ByteAssumption DEF Char, Octet

LEMMA Xor ==
  ASSUME NEW x \in Char, NEW y \in Char
  PROVE  BitXor(x, y) \in Char
BY XorAssumption

\* x is what the function in XorAll computes for q, up to the place k.
XorsUpTo(q, k, x) ==
  x = [m \in 0 .. k |-> IF m = 0 THEN 0 ELSE BitXor(x[m - 1], q[m])]

\* Its values are characters.
LEMMA XorsAreChars ==
  ASSUME NEW q \in Seq(Char), NEW k \in 0 .. Len(q), NEW x, XorsUpTo(q, k, x)
  PROVE  /\ x \in [0 .. k -> Char] /\ x[0] = 0
         /\ \A m \in 1 .. k : x[m] = BitXor(x[m - 1], q[m])
<1>1. /\ k \in Nat /\ DOMAIN x = 0 .. k
      /\ x[0] = 0
      /\ \A m \in 1 .. k : x[m] = BitXor(x[m - 1], q[m]) /\ q[m] \in Char
  BY DEF XorsUpTo
<1> DEFINE Bad == {m \in 0 .. k : x[m] \notin Char}
<1>2. CASE Bad = {}
  <2>1. x = [m \in 0 .. k |-> x[m]]
    BY DEF XorsUpTo
  <2> QED
    BY <1>1, <1>2, <2>1
<1>3. CASE Bad # {}
  <2>1. PICK m \in Bad : \A l \in Bad : m <= l
    <3>1. Bad \subseteq Nat
      OBVIOUS
    <3> QED
      BY <1>3, <3>1, LeastNumber
  <2>2. m \in 1 .. k
    BY <1>1, <2>1, CharIsNat
  <2>3. m - 1 \in 0 .. k /\ m - 1 \notin Bad
    BY <2>1, <2>2
  <2>4. x[m - 1] \in Char
    BY <2>3
  <2>5. x[m] \in Char
    BY <1>1, <2>2, <2>4, Xor
  <2> QED
    BY <2>1, <2>5
<1> QED
  BY <1>2, <1>3

LEMMA XorsExist ==
  ASSUME NEW q \in Seq(Char), NEW k \in 0 .. Len(q)
  PROVE  \E x : XorsUpTo(q, k, x)
<1> DEFINE Bad == {l \in 0 .. k : ~ \E x : XorsUpTo(q, l, x)}
<1>1. SUFFICES ASSUME Bad # {} PROVE FALSE
  <2>1. k \in 0 .. k
    OBVIOUS
  <2> QED
    BY <2>1
<1>2. PICK l \in Bad : \A m \in Bad : l <= m
  <2>1. Bad \subseteq Nat
    OBVIOUS
  <2> QED
    BY <1>1, <2>1, LeastNumber
<1>3. CASE l = 0
  <2>1. XorsUpTo(q, 0, [m \in 0 .. 0 |-> 0])
    BY DEF XorsUpTo
  <2> QED
    BY <1>2, <1>3, <2>1
<1>4. CASE l # 0
  <2>1. l \in 1 .. k /\ l - 1 \in 0 .. k /\ l - 1 \notin Bad
    BY <1>2, <1>4
  <2>2. PICK x : XorsUpTo(q, l - 1, x)
    BY <2>1
  <2>3. DOMAIN x = 0 .. l - 1
    BY <2>2 DEF XorsUpTo
  <2> DEFINE y == [m \in 0 .. l |-> IF m = l THEN BitXor(x[l - 1], q[l]) ELSE x[m]]
  <2>4. ASSUME NEW m \in 0 .. l
        PROVE  y[m] = IF m = 0 THEN 0 ELSE BitXor(y[m - 1], q[m])
    <3>1. CASE m = l
      BY <2>1, <3>1
    <3>2. CASE m # l
      <4>1. m \in 0 .. l - 1 /\ y[m] = x[m]
        BY <2>1, <3>2
      <4>2. x[m] = IF m = 0 THEN 0 ELSE BitXor(x[m - 1], q[m])
        BY <2>2, <4>1 DEF XorsUpTo
      <4>3. m # 0 => y[m - 1] = x[m - 1]
        BY <2>1, <4>1
      <4> QED
        BY <4>1, <4>2, <4>3
    <3> QED
      BY <3>1, <3>2
  <2>5. y = [m \in 0 .. l |-> IF m = 0 THEN 0 ELSE BitXor(y[m - 1], q[m])]
    <3>1. y = [m \in 0 .. l |-> y[m]]
      OBVIOUS
    <3> HIDE DEF y
    <3> QED
      BY <2>4, <3>1
  <2> HIDE DEF y
  <2>6. XorsUpTo(q, l, y)
    BY <2>5 DEF XorsUpTo
  <2> QED
    BY <1>2, <2>6
<1> QED
  BY <1>3, <1>4

\* The last of the numbers that begin with 0 and take in one character each.
LEMMA XorAllIs ==
  ASSUME NEW q \in Seq(Char)
  PROVE  \E x \in [0 .. Len(q) -> Char] :
           /\ x[0] = 0 /\ XorAll(q) = x[Len(q)]
           /\ \A m \in 1 .. Len(q) : x[m] = BitXor(x[m - 1], q[m])
<1>1. Len(q) \in 0 .. Len(q)
  OBVIOUS
<1>2. PICK x : x = CHOOSE y : XorsUpTo(q, Len(q), y)
  OBVIOUS
<1>3. XorsUpTo(q, Len(q), x)
  BY <1>1, <1>2, XorsExist, Zenon
<1>4. XorAll(q) = x[Len(q)]
  BY <1>2 DEF XorAll, XorsUpTo
<1> QED
  BY <1>1, <1>3, <1>4, XorsAreChars


Places == 0 .. N - 1

(* The list s *)

\* A swap rearranges: what was at a place is at one of the two, or stays.
LEMMA SwapKeepsAll ==
  ASSUME NEW f \in [Places -> Places], NEW a \in Places, NEW c \in Places,
         \A v \in Places : \E m \in Places : f[m] = v
  PROVE  LET t == [f EXCEPT ![a] = f[c], ![c] = f[a]]
         IN  /\ t \in [Places -> Places]
             /\ \A v \in Places : \E m \in Places : t[m] = v
<1> DEFINE t == [f EXCEPT ![a] = f[c], ![c] = f[a]]
<1>1. t \in [Places -> Places]
  OBVIOUS
<1>2. /\ t[c] = f[a]
      /\ t[a] = f[c]
      /\ \A m \in Places \ {a, c} : t[m] = f[m]
  OBVIOUS
<1>3. ASSUME NEW v \in Places PROVE \E m \in Places : t[m] = v
  <2>1. PICK m \in Places : f[m] = v
    OBVIOUS
  <2>2. CASE m = a
    BY <1>2, <2>1, <2>2
  <2>3. CASE m = c
    BY <1>2, <2>1, <2>3
  <2>4. CASE m \notin {a, c}
    BY <1>2, <2>1, <2>4
  <2> QED
    BY <2>2, <2>3, <2>4
<1> QED
  BY <1>1, <1>3

LEMMA SomeByte == N \in Nat /\ N > 0
BY ByteAssumption

\* Remainders are places.
LEMMA RemainderIsPlace ==
  ASSUME NEW x \in Nat PROVE x % N \in Places
BY SomeByte DEF Places

RC4Inv ==
  /\ s \in [Places -> Places] /\ EveryByteIsSomewhere
  /\ i \in 0 .. N /\ j \in Places
  /\ pc \in {"mix", "stream", "write", "sent", "read"}
  /\ pc = "stream" => i \in Places
  /\ key \in Keys

LEMMA FreshHasAll ==
  /\ Fresh \in [Places -> Places]
  /\ \A v \in Places : \E m \in Places : Fresh[m] = v
  /\ 0 \in Places /\ 0 \in 0 .. N
BY ByteAssumption DEF Fresh, Places

LEMMA RC4Init == Init => RC4Inv
<1> SUFFICES ASSUME Init PROVE RC4Inv
  OBVIOUS
<1>1. s = Fresh /\ i = 0 /\ j = 0 /\ pc = "mix" /\ key \in Keys
  BY DEF Init
<1> QED
  BY <1>1, FreshHasAll DEF RC4Inv, EveryByteIsSomewhere, Places

LEMMA RC4Next == RC4Inv /\ [Next]_vars => RC4Inv'
<1> SUFFICES ASSUME RC4Inv, [Next]_vars PROVE RC4Inv'
  OBVIOUS
<1> USE DEF RC4Inv
<1>1. CASE Mix
  <2>1. CASE i < N
    <3>1. /\ j' = (j + s[i] + key[(i % Len(key)) + 1]) % N
          /\ s' = Swap(i, j') /\ i' = i + 1
          /\ UNCHANGED <<pc, key>>
      BY <1>1, <2>1 DEF Mix, args
    <3>2. i \in Places
      BY <2>1, SomeByte DEF Places
    <3>3. key[(i % Len(key)) + 1] \in Nat
      <4>1. key \in Seq(Nat) /\ Len(key) \in Nat /\ Len(key) > 0
        BY KeysAssumption
      <4>2. i % Len(key) \in 0 .. Len(key) - 1
        BY <3>2, <4>1, SomeByte DEF Places
      <4> QED
        BY <4>1, <4>2
    <3>4. j' \in Places
      <4>1. j \in Nat /\ s[i] \in Nat
        BY <3>2, SomeByte DEF Places
      <4>2. j + s[i] + key[(i % Len(key)) + 1] \in Nat
        BY <3>3, <4>1
      <4> QED
        BY <3>1, <4>2, RemainderIsPlace
    <3>5. /\ s' \in [Places -> Places]
          /\ \A v \in Places : \E m \in Places : s'[m] = v
      <4>1. \A v \in Places : \E m \in Places : s[m] = v
        BY DEF EveryByteIsSomewhere, Places
      <4>2. s' = [s EXCEPT ![i] = s[j'], ![j'] = s[i]]
        BY <3>1 DEF Swap
      <4>3. s \in [Places -> Places]
        OBVIOUS
      <4> HIDE DEF RC4Inv
      <4> QED
        BY ONLY SMTT(20), <3>2, <3>4, <4>1, <4>2, <4>3, SwapKeepsAll
    <3>6. i' \in 0 .. N
      BY <3>1, <3>2, SomeByte DEF Places
    <3>7. EveryByteIsSomewhere'
      BY <3>5 DEF EveryByteIsSomewhere, Places
    <3>8. pc' = "mix"
      BY <1>1, <3>1 DEF Mix
    <3> QED
      BY <3>1, <3>4, <3>5, <3>6, <3>7, <3>8
  <2>2. CASE ~(i < N)
    BY <1>1, <2>2, ByteAssumption, FreshHasAll
    DEF Mix, EveryByteIsSomewhere, args, Places
  <2> QED
    BY <2>1, <2>2
<1>2. CASE Stream
  <2>1. /\ i' = (i + 1) % N /\ j' = (j + s[i']) % N /\ s' = Swap(i', j')
        /\ UNCHANGED <<pc, key>>
    BY <1>2 DEF Stream, args
  <2>2. i' \in Places
    BY <2>1, RemainderIsPlace
  <2>3. j' \in Places
    BY SMTT(20), <2>1, <2>2, RemainderIsPlace DEF Places
  <2>4. /\ s' \in [Places -> Places]
        /\ \A v \in Places : \E m \in Places : s'[m] = v
    <3>1. \A v \in Places : \E m \in Places : s[m] = v
      BY DEF EveryByteIsSomewhere, Places
    <3>2. s' = [s EXCEPT ![i'] = s[j'], ![j'] = s[i']]
      BY <2>1 DEF Swap
    <3>3. s \in [Places -> Places]
      OBVIOUS
    <3> QED
      BY ONLY SMTT(20), <2>2, <2>3, <3>1, <3>2, <3>3, SwapKeepsAll
  <2>5. i' \in 0 .. N
    BY <2>2, SomeByte DEF Places
  <2>6. EveryByteIsSomewhere'
    BY <2>4 DEF EveryByteIsSomewhere, Places
  <2> QED
    BY <2>1, <2>2, <2>3, <2>4, <2>5, <2>6
<1>3. CASE Receive
  BY <1>3, FreshHasAll DEF Receive, EveryByteIsSomewhere, Places
<1>4. CASE StartWriting \/ Write \/ FinishReading
  BY <1>4 DEF StartWriting, Write, FinishReading, args, rc4, EveryByteIsSomewhere
<1>5. CASE Done \/ UNCHANGED vars
  BY <1>5 DEF Done, vars, args, rc4, EveryByteIsSomewhere
<1> QED
  BY <1>1, <1>2, <1>3, <1>4, <1>5 DEF Next

(***************************************************************************)
(* The list s of rc4_encrypt holds every byte at every moment, for every   *)
(* key and every string: the stream of one key can take each of them.      *)
(***************************************************************************)
THEOREM EveryByteStays == Spec => []EveryByteIsSomewhere
<1>1. RC4Inv => EveryByteIsSomewhere
  BY DEF RC4Inv
<1> QED
  BY RC4Init, RC4Next, <1>1, PTL DEF Spec

-----------------------------------------------------------------------------
(***************************************************************************)
(* Types: what a block is made of, and what the two functions make of it.  *)
(***************************************************************************)
LEMMA Division ==
  ASSUME NEW a \in Nat, NEW d \in Nat, d > 0
  PROVE  a \div d \in Nat /\ a % d \in 0 .. d - 1
OBVIOUS

\* Division with remainder has one result.
LEMMA DivisionIs ==
  ASSUME NEW d \in Nat, d > 0, NEW q \in Nat, NEW r \in 0 .. d - 1,
         NEW a \in Nat, a = d * q + r
  PROVE  a \div d = q /\ a % d = r
<1>1. PICK k \in Nat : k = a \div d
  BY Division
<1>2. PICK l \in 0 .. d - 1 : l = a % d
  BY Division
<1>3. a = d * k + l
  BY <1>1, <1>2
<1>4. \A e \in Nat : e >= 1 => d * e >= d
  <2>1. \A e \in Nat : d * (e + 1) = d * e + d /\ d * e \in Nat
    OBVIOUS
  <2>2. \A e \in Nat : e >= 1 => e - 1 \in Nat /\ (e - 1) + 1 = e
    OBVIOUS
  <2> QED
    BY <2>1, <2>2
<1>5. CASE q < k
  <2>1. PICK e \in Nat : e >= 1 /\ k = q + e
    BY <1>5, k - q \in Nat
  <2>2. d * k = d * q + d * e
    BY <2>1
  <2>3. d * e >= d /\ d * e \in Nat /\ d * q \in Nat
    BY <1>4, <2>1
  <2> QED
    BY <1>3, <2>2, <2>3
<1>6. CASE k < q
  <2>1. PICK e \in Nat : e >= 1 /\ q = k + e
    BY <1>6, q - k \in Nat
  <2>2. d * q = d * k + d * e
    BY <2>1
  <2>3. d * e >= d /\ d * e \in Nat /\ d * k \in Nat
    BY <1>4, <2>1
  <2> QED
    BY <1>3, <2>2, <2>3
<1>7. CASE k = q
  <2>1. d * k \in Nat
    BY <1>7
  <2>2. l = r
    BY <1>3, <1>7, <2>1
  <2> QED
    BY <1>1, <1>2, <1>7, <2>2
<1> QED
  BY <1>5, <1>6, <1>7

LEMMA Even == ASSUME NEW a \in Nat, a % 2 = 0 PROVE \E h \in Nat : a = 2 * h
<1>1. a = 2 * (a \div 2) + (a % 2) /\ a \div 2 \in Nat
  BY Division, 2 \in Nat, 2 > 0
<1> QED
  BY <1>1

LEMMA OctetTimes ==
  ASSUME NEW a \in Nat, NEW c \in Nat
  PROVE  a * c \in Nat
OBVIOUS

LEMMA Concat ==
  ASSUME NEW p \in Seq(Char), NEW q \in Seq(Char), NEW k \in Nat, NEW l \in Nat,
         k = Len(p), l = Len(q)
  PROVE  /\ p \o q \in Seq(Char) /\ Len(p \o q) = k + l
         /\ \A m \in 1 .. k : (p \o q)[m] = p[m]
         /\ \A m \in 1 .. l : (p \o q)[k + m] = q[m]
<1>1. /\ p \o q \in Seq(Char) /\ Len(p \o q) = k + l
      /\ \A m \in 1 .. k + l : (p \o q)[m] = IF m <= k THEN p[m] ELSE q[m - k]
  BY ConcatProperties
<1>2. ASSUME NEW m \in 1 .. k PROVE (p \o q)[m] = p[m]
  BY <1>1
<1>3. ASSUME NEW m \in 1 .. l PROVE (p \o q)[k + m] = q[m]
  <2>1. k + m \in 1 .. k + l /\ ~(k + m <= k) /\ (k + m) - k = m
    OBVIOUS
  <2> QED
    BY <1>1, <2>1
<1> QED
  BY <1>1, <1>2, <1>3

\* Strings of so many characters; those at the places in wide have nine bits.
Striped(l, wide) ==
  {q \in Seq(Char) : Len(q) = l /\ \A m \in 1 .. l : Wide(q[m]) <=> m \in wide}
Narrow(l) == Striped(l, {})

LEMMA Joined ==
  ASSUME NEW k \in Nat, NEW l \in Nat, NEW v, NEW u, NEW w,
         NEW p \in Striped(k, v), NEW q \in Striped(l, u),
         \A m \in 1 .. k : m \in w <=> m \in v,
         \A m \in 1 .. l : k + m \in w <=> m \in u
  PROVE  p \o q \in Striped(k + l, w)
<1>1. p \in Seq(Char) /\ q \in Seq(Char) /\ Len(p) = k /\ Len(q) = l
  BY DEF Striped
<1>2. /\ p \o q \in Seq(Char) /\ Len(p \o q) = k + l
      /\ \A m \in 1 .. k : (p \o q)[m] = p[m]
      /\ \A m \in 1 .. l : (p \o q)[k + m] = q[m]
  <2>1. PICK f \in Seq(Char), g \in Seq(Char) :
          f = p /\ g = q /\ k = Len(f) /\ l = Len(g)
    BY <1>1
  <2>2. /\ f \o g \in Seq(Char) /\ Len(f \o g) = k + l
        /\ \A m \in 1 .. k : (f \o g)[m] = f[m]
        /\ \A m \in 1 .. l : (f \o g)[k + m] = g[m]
    BY <2>1, Concat
  <2> QED
    BY <2>1, <2>2
<1>3. PICK r : r = p \o q
  OBVIOUS
<1>4. ASSUME NEW m \in 1 .. k + l PROVE Wide(r[m]) <=> m \in w
  <2>1. CASE m <= k
    <3>1. m \in 1 .. k
      BY <2>1
    <3>2. Wide(p[m]) <=> m \in v
      BY <3>1 DEF Striped
    <3> QED
      BY <1>2, <1>3, <3>1, <3>2
  <2>2. CASE ~(m <= k)
    <3>1. PICK j0 \in 1 .. l : m = k + j0
      <4>1. m - k \in 1 .. l /\ m = k + (m - k)
        BY <2>2
      <4> QED
        BY <4>1
    <3>2. Wide(q[j0]) <=> j0 \in u
      BY DEF Striped
    <3> QED
      BY <1>2, <1>3, <3>1, <3>2
  <2> QED
    BY <2>1, <2>2
<1> QED
  BY <1>2, <1>3, <1>4 DEF Striped

LEMMA JoinedNarrow ==
  ASSUME NEW k \in Nat, NEW l \in Nat, NEW v \in SUBSET (1 .. k),
         NEW p \in Striped(k, v), NEW q \in Narrow(l)
  PROVE  p \o q \in Striped(k + l, v)
<1>1. \A m \in 1 .. l : k + m \notin v
  OBVIOUS
<1> QED
  BY <1>1, Joined DEF Narrow

LEMMA OctetsAreNarrow ==
  ASSUME NEW k \in Nat, NEW f \in [1 .. k -> Octet]
  PROVE  f \in Narrow(k)
<1>1. f \in [1 .. k -> Char]
  BY CharIsNat
<1>2. f \in Seq(Char) /\ Len(f) = k
  BY <1>1
<1>3. \A m \in 1 .. k : ~Wide(f[m])
  BY CharIsNat DEF Wide, Octet
<1> QED
  BY <1>2, <1>3 DEF Narrow, Striped

LEMMA SmallChars ==
  /\ 44 % N \in Octet /\ 3 \in Octet /\ 0 \in Octet
  /\ \A c \in Char : c \div N \in Octet
  /\ \A l \in Nat : l % N \in Octet /\ (l \div N) % N \in Octet
<1>1. 44 % N \in Octet /\ 0 \in Octet
  BY CharIsNat DEF Octet
<1>2. 3 \in Octet
  <2>1. PICK q \in Nat \ {0} : N = q * q * q * q
    BY ByteAssumption
  <2>2. q # 1
    BY <2>1, CharIsNat
  <2>3. q * q \in Nat /\ q * q >= 4
    BY <2>1, <2>2
  <2>4. N = (q * q) * (q * q)
    BY <2>1
  <2>5. \A y \in Nat : y >= 4 => y * y > 3
    OBVIOUS
  <2> QED
    BY <2>3, <2>4, <2>5, CharIsNat DEF Octet
<1>3. ASSUME NEW c \in Char PROVE c \div N \in Octet
  <2>1. c \in Nat /\ c < 2 * N
    BY CharIsNat DEF Char
  <2>2. c \div N \in Nat /\ c \div N <= 1
    BY <2>1, CharIsNat
  <2> QED
    BY <2>2, CharIsNat DEF Octet
<1>4. ASSUME NEW l \in Nat PROVE l % N \in Octet /\ (l \div N) % N \in Octet
  <2>1. N > 0 /\ N \in Nat
    BY CharIsNat
  <2>2. l \div N \in Nat
    BY <2>1, Division
  <2> QED
    BY <2>1, <2>2, Division DEF Octet
<1> QED
  BY <1>1, <1>2, <1>3, <1>4

\* The places of a block's 54 fields that have nine bits.
LEMMA FieldsAreStriped ==
  ASSUME NEW x \in Facts
  PROVE  Fields(x) \in Striped(54, {7, 32})
<1>1. /\ x.start.low \in [1 .. 4 -> Octet] /\ x.start.high \in Char /\ Wide(x.start.high)
      /\ x.end.low \in [1 .. 4 -> Octet] /\ x.end.high \in Char /\ Wide(x.end.high)
      /\ x.args \in [1 .. 3 -> [1 .. 4 -> Octet]]
      /\ x.digests \in [1 .. 6 -> Octet]
      /\ x.page \in [1 .. 4 -> Octet] /\ x.aid \in [1 .. 4 -> Octet]
      /\ x.window \in Seq(Octet)
  BY FactsAssumption
<1>2. PICK l : l = Len(x.window)
  OBVIOUS
<1>3. l \in Nat
  <2>1. PICK w \in Seq(Octet) : w = x.window
    BY <1>1
  <2> QED
    BY <1>2, <2>1, LenProperties
<1>4. \A c1, c2 \in Octet : <<c1, c2>> \in Narrow(2)
  <2>1. \A c1, c2 \in Octet : <<c1, c2>> \in [1 .. 2 -> Octet]
    OBVIOUS
  <2> QED
    BY <2>1, OctetsAreNarrow
<1>5. \A c1, c2, c3, c4 \in Octet : <<c1, c2, c3, c4>> \in Narrow(4)
  <2>1. \A c1, c2, c3, c4 \in Octet : <<c1, c2, c3, c4>> \in [1 .. 4 -> Octet]
    OBVIOUS
  <2> QED
    BY <2>1, OctetsAreNarrow
<1>6. \A c1, c2, c3, c4, c5 \in Octet : <<c1, c2, c3, c4, c5>> \in Narrow(5)
  <2>1. \A c1, c2, c3, c4, c5 \in Octet : <<c1, c2, c3, c4, c5>> \in [1 .. 5 -> Octet]
    OBVIOUS
  <2> QED
    BY <2>1, OctetsAreNarrow
<1>7. \A c1, c2, c3, c4, c5, c6 \in Octet : <<c1, c2, c3, c4, c5, c6>> \in Narrow(6)
  <2>1. \A c1, c2, c3, c4, c5, c6 \in Octet : <<c1, c2, c3, c4, c5, c6>> \in [1 .. 6 -> Octet]
    OBVIOUS
  <2> QED
    BY <2>1, OctetsAreNarrow
<1>8. \A c1 \in Octet : <<c1>> \in Narrow(1)
  <2>1. \A c1 \in Octet : <<c1>> \in [1 .. 1 -> Octet]
    OBVIOUS
  <2> QED
    BY <2>1, OctetsAreNarrow
<1>9. /\ <<x.start.high, x.start.high \div N>> \in Striped(2, {1})
      /\ <<3, x.end.high, x.end.high \div N>> \in Striped(3, {2})
  <2>1. \A c \in Char, e \in Octet : Wide(c) => <<c, e>> \in Striped(2, {1})
    <3>1. ASSUME NEW c \in Char, NEW e \in Octet, Wide(c)
          PROVE  <<c, e>> \in Striped(2, {1})
      <4>1. ~Wide(e) /\ e \in Char
        BY CharIsNat DEF Wide, Octet
      <4> QED
        BY <3>1, <4>1 DEF Striped
    <3> QED
      BY <3>1
  <2>2. \A c \in Char, d, e \in Octet : Wide(c) => <<d, c, e>> \in Striped(3, {2})
    <3>1. ASSUME NEW c \in Char, NEW d \in Octet, NEW e \in Octet, Wide(c)
          PROVE  <<d, c, e>> \in Striped(3, {2})
      <4>1. ~Wide(e) /\ e \in Char /\ ~Wide(d) /\ d \in Char
        BY CharIsNat DEF Wide, Octet
      <4> QED
        BY <3>1, <4>1 DEF Striped
    <3> QED
      BY <3>1
  <2> QED
    BY <1>1, <2>1, <2>2, SmallChars
<1>10. /\ x.args[2] \in [1 .. 4 -> Octet]
       /\ x.args[1] \in Narrow(4) /\ x.args[3] \in Narrow(4)
       /\ x.start.low \in Narrow(4) /\ x.end.low \in Narrow(4)
       /\ x.digests \in Narrow(6) /\ x.page \in Narrow(4)
  <2>1. \A f \in [1 .. 4 -> Octet] : f \in Narrow(4)
    BY OctetsAreNarrow
  <2>2. \A f \in [1 .. 6 -> Octet] : f \in Narrow(6)
    BY OctetsAreNarrow
  <2>3. \A m \in 1 .. 3 : x.args[m] \in [1 .. 4 -> Octet]
    BY <1>1
  <2> QED
    BY <1>1, <2>1, <2>2, <2>3
<1>11. /\ x.args[2][1] \in Octet /\ x.args[2][2] \in Octet
       /\ x.args[2][3] \in Octet /\ x.args[2][4] \in Octet
       /\ x.aid[1] \in Octet /\ x.aid[2] \in Octet
       /\ x.aid[3] \in Octet /\ x.aid[4] \in Octet
  BY <1>1, <1>10
<1>12. /\ <<44 % N, 0>> \in Narrow(2)
       /\ <<x.args[2][3], x.args[2][4], x.args[2][1], x.args[2][2]>> \in Narrow(4)
       /\ <<0>> \in Narrow(1)
       /\ <<0, x.aid[4], x.aid[3], x.aid[2], x.aid[1]>> \in Narrow(5)
       /\ <<0, 0, 0, 0, l % N, (l \div N) % N>> \in Narrow(6)
       /\ <<0, 0, 0, 0, 0>> \in Narrow(5)
  BY <1>3, <1>4, <1>5, <1>6, <1>7, <1>8, <1>11, SmallChars, Zenon
<1>13. PICK p1 \in Narrow(2) : p1 = <<44 % N, 0>>
  BY <1>12, Zenon
<1>14. PICK p2 \in Narrow(4) : p2 = x.start.low
  BY <1>10, Zenon
<1>15. PICK p3 \in Striped(2, {1}) : p3 = <<x.start.high, x.start.high \div N>>
  BY <1>9, Zenon
<1>16. PICK p4 \in Narrow(4) : p4 = x.args[1]
  BY <1>10, Zenon
<1>17. PICK p5 \in Narrow(4) : p5 = <<x.args[2][3], x.args[2][4], x.args[2][1], x.args[2][2]>>
  BY <1>12, Zenon
<1>18. PICK p6 \in Narrow(4) : p6 = x.args[3]
  BY <1>10, Zenon
<1>19. PICK p7 \in Narrow(6) : p7 = x.digests
  BY <1>10, Zenon
<1>20. PICK p8 \in Narrow(4) : p8 = x.end.low
  BY <1>10, Zenon
<1>21. PICK p9 \in Striped(3, {2}) : p9 = <<3, x.end.high, x.end.high \div N>>
  BY <1>9, Zenon
<1>22. PICK p10 \in Narrow(1) : p10 = <<0>>
  BY <1>12, Zenon
<1>23. PICK p11 \in Narrow(4) : p11 = x.page
  BY <1>10, Zenon
<1>24. PICK p12 \in Narrow(5) : p12 = <<0, x.aid[4], x.aid[3], x.aid[2], x.aid[1]>>
  BY <1>12, Zenon
<1>25. PICK p13 \in Narrow(6) : p13 = <<0, 0, 0, 0, Len(x.window) % N, (Len(x.window) \div N) % N>>
  BY <1>12, <1>2, Zenon
<1>26. PICK p14 \in Narrow(5) : p14 = <<0, 0, 0, 0, 0>>
  BY <1>12, Zenon
<1>27. PICK all : all = p1 \o p2 \o p3 \o p4 \o p5 \o p6 \o p7 \o p8 \o p9 \o p10
                    \o p11 \o p12 \o p13 \o p14
  OBVIOUS
<1>28. all \in Striped(54, {7, 32})
  <2>1. PICK q : q = p1 \o p2 \o p3 \o p4 \o p5
    OBVIOUS
  <2>2. q \in Striped(16, {7})
    <3>1. p1 \in Striped(2, {})
      BY DEF Narrow
    <3>2. p1 \o p2 \in Striped(2 + 4, {})
      BY <3>1, JoinedNarrow
    <3>3. p1 \o p2 \o p3 \in Striped(6 + 2, {7})
      <4>1. PICK y \in Striped(6, {}) : y = p1 \o p2
        BY <3>2, 2 + 4 = 6, Zenon
      <4>2. /\ \A m \in 1 .. 6 : m \in {7} <=> m \in {}
            /\ \A m \in 1 .. 2 : 6 + m \in {7} <=> m \in {1}
        OBVIOUS
      <4>3. y \o p3 \in Striped(6 + 2, {7})
        BY <4>2, Joined
      <4> QED
        BY <4>1, <4>3
    <3>4. p1 \o p2 \o p3 \o p4 \in Striped(8 + 4, {7})
      BY <3>3, JoinedNarrow
    <3>5. q \in Striped(12 + 4, {7})
      BY SMTT(30), <2>1, <3>4, JoinedNarrow
    <3> QED
      BY <3>5
  <2>3. PICK r : r = q \o p6 \o p7 \o p8 \o p9
    OBVIOUS
  <2>4. r \in Striped(33, {7, 32})
    <3>1. q \o p6 \in Striped(16 + 4, {7})
      BY <2>2, JoinedNarrow
    <3>2. q \o p6 \o p7 \in Striped(20 + 6, {7})
      BY <3>1, JoinedNarrow
    <3>3. q \o p6 \o p7 \o p8 \in Striped(26 + 4, {7})
      BY <3>2, JoinedNarrow
    <3>4. PICK y \in Striped(30, {7}) : y = q \o p6 \o p7 \o p8
      BY <3>3, 26 + 4 = 30, Zenon
    <3>5. /\ \A m \in 1 .. 30 : m \in {7, 32} <=> m \in {7}
          /\ \A m \in 1 .. 3 : 30 + m \in {7, 32} <=> m \in {2}
      OBVIOUS
    <3>6. y \o p9 \in Striped(30 + 3, {7, 32})
      BY <3>5, Joined
    <3> QED
      BY <2>3, <3>4, <3>6
  <2>5. r \o p10 \in Striped(33 + 1, {7, 32})
    BY <2>4, JoinedNarrow
  <2>6. r \o p10 \o p11 \in Striped(34 + 4, {7, 32})
    BY <2>5, JoinedNarrow
  <2>7. r \o p10 \o p11 \o p12 \in Striped(38 + 5, {7, 32})
    BY <2>6, JoinedNarrow
  <2>8. r \o p10 \o p11 \o p12 \o p13 \in Striped(43 + 6, {7, 32})
    BY <2>7, JoinedNarrow
  <2>9. r \o p10 \o p11 \o p12 \o p13 \o p14 \in Striped(49 + 5, {7, 32})
    BY <2>8, JoinedNarrow
  <2> QED
    BY <1>27, <2>1, <2>3, <2>9
<1>29. Fields(x) = all
  BY <1>13, <1>14, <1>15, <1>16, <1>17, <1>18, <1>19, <1>20, <1>21, <1>22, <1>23, <1>24, <1>25, <1>26, <1>27,
     Zenon DEF Fields
<1> QED
  BY <1>28, <1>29

LEMMA BytesOfBlock ==
  ASSUME NEW x \in Facts
  PROVE  /\ b(x) \in [18 .. 71 -> Char]
         /\ \A m \in 18 .. 71 : Wide(b(x)[m]) <=> m \in {24, 49}
<1>1. PICK f : f = Fields(x)
  OBVIOUS
<1>2. /\ f \in Seq(Char) /\ Len(f) = 54
      /\ \A l \in 1 .. 54 : Wide(f[l]) <=> l \in {7, 32}
  BY <1>1, FieldsAreStriped DEF Striped
<1>3. b(x) = [m \in 18 .. 71 |-> f[m - 17]]
  BY <1>1 DEF b
<1>4. ASSUME NEW m \in 18 .. 71
      PROVE  f[m - 17] \in Char /\ (Wide(f[m - 17]) <=> m \in {24, 49})
  <2>1. m - 17 \in 1 .. 54 /\ (m - 17 \in {7, 32} <=> m \in {24, 49})
    OBVIOUS
  <2>2. \A l \in 1 .. 54 : f[l] \in Char
    BY <1>2, ElementOfSeq
  <2> QED
    BY ZenonT(30), <1>2, <2>1, <2>2
<1> QED
  BY <1>3, <1>4

LEMMA OrderIsPlaces == Order \in Seq(18 .. 71) /\ Len(Order) = 44
BY DEF Order

LEMMA TermsArePlaces == Terms \in Seq(18 .. 71) /\ Len(Terms) = 43
BY DEF Terms

LEMMA PickedIsString ==
  ASSUME NEW x \in Facts, NEW places \in Seq(18 .. 71)
  PROVE  /\ Picked(x, places) \in Seq(Char)
         /\ Len(Picked(x, places)) = Len(places)
         /\ \A m \in 1 .. Len(places) : Picked(x, places)[m] = b(x)[places[m]]
<1>1. PICK l \in Nat : l = Len(places) /\ DOMAIN places = 1 .. l
  OBVIOUS
<1>2. \A m \in 1 .. l : b(x)[places[m]] \in Char
  <2>1. \A m \in 1 .. l : places[m] \in 18 .. 71
    BY <1>1, ElementOfSeq
  <2>2. \A m \in 18 .. 71 : b(x)[m] \in Char
    BY ZenonT(30), BytesOfBlock
  <2> QED
    BY <2>1, <2>2
<1>3. Picked(x, places) = [m \in 1 .. l |-> b(x)[places[m]]]
  BY <1>1 DEF Picked
<1>4. Picked(x, places) \in [1 .. l -> Char]
  BY <1>2, <1>3
<1> QED
  BY <1>1, <1>3, <1>4

\* What a block is: 44 bytes, the window and the seal.
LEMMA BlockIs ==
  ASSUME NEW x \in Facts
  PROVE  /\ Picked(x, Order) \in Seq(Char) /\ Len(Picked(x, Order)) = 44
         /\ x.window \in Seq(Char)
         /\ XorAll(Picked(x, Terms)) \in Char
         /\ Block(x) \in Seq(Char)
         /\ Len(Block(x)) = 44 + Len(x.window) + 1
         /\ Block(x)[Len(Block(x))] = XorAll(Picked(x, Terms))
         /\ \A m \in 1 .. 44 : Block(x)[m] = Picked(x, Order)[m]
<1>1. PICK p : p = Picked(x, Order)
  OBVIOUS
<1>2. PICK w : w = x.window
  OBVIOUS
<1>3. PICK seal : seal = XorAll(Picked(x, Terms))
  OBVIOUS
<1>4. p \in Seq(Char) /\ Len(p) = 44
  BY <1>1, PickedIsString, OrderIsPlaces
<1>5. w \in Seq(Char) /\ Len(w) \in Nat
  <2>1. w \in Seq(Octet)
    BY <1>2, FactsAssumption
  <2> QED
    BY <2>1, CharIsNat
<1>6. seal \in Char
  <2>1. Picked(x, Terms) \in Seq(Char) /\ Len(Picked(x, Terms)) = 43
    BY PickedIsString, TermsArePlaces
  <2>2. PICK q \in Seq(Char) : q = Picked(x, Terms) /\ Len(q) = 43
    BY <2>1
  <2>3. XorAll(q) \in Char
    <3>1. PICK y \in [0 .. Len(q) -> Char] : XorAll(q) = y[Len(q)]
      BY XorAllIs
    <3>2. Len(q) \in 0 .. Len(q)
      BY <2>2
    <3> QED
      BY <3>1, <3>2
  <2> QED
    BY <1>3, <2>2, <2>3
<1>7. p \o w \o <<seal>> \in Seq(Char)
  BY <1>4, <1>5, <1>6
<1>8. /\ p \o w \in Seq(Char) /\ Len(p \o w) = 44 + Len(w)
      /\ \A m \in 1 .. 44 : (p \o w)[m] = p[m]
  <2>1. PICK k \in Nat : k = 44 /\ k = Len(p)
    BY <1>4
  <2>2. PICK l \in Nat : l = Len(w)
    BY <1>5
  <2>3. /\ p \o w \in Seq(Char) /\ Len(p \o w) = k + l
        /\ \A m \in 1 .. k : (p \o w)[m] = p[m]
    <3>1. p \in Seq(Char) /\ w \in Seq(Char) /\ k = Len(p) /\ l = Len(w)
      BY <1>4, <1>5, <2>1, <2>2
    <3> QED
      BY ONLY <3>1, k \in Nat, l \in Nat, Concat
  <2> QED
    BY <2>1, <2>2, <2>3, Zenon
<1>9. PICK v \in Seq(Char) : v = p \o w /\ Len(v) = 44 + Len(w)
  BY <1>8
<1>10. /\ Len(v \o <<seal>>) = 44 + Len(w) + 1
       /\ (v \o <<seal>>)[44 + Len(w) + 1] = seal
       /\ \A m \in 1 .. 44 : (v \o <<seal>>)[m] = v[m]
  <2>1. PICK q \in Seq(Char) : q = <<seal>> /\ Len(q) = 1 /\ q[1] = seal
    <3>1. <<seal>> \in Seq(Char) /\ Len(<<seal>>) = 1 /\ <<seal>>[1] = seal
      BY <1>6
    <3> QED
      BY <3>1, Zenon
  <2>2. PICK k \in Nat : k = 44 + Len(w)
    BY <1>5
  <2>3. /\ Len(v \o q) = k + 1 /\ (v \o q)[k + 1] = seal
        /\ \A m \in 1 .. k : (v \o q)[m] = v[m]
    <3>1. k = Len(v) /\ 1 = Len(q) /\ 1 \in Nat /\ 1 \in 1 .. 1
      BY <1>9, <2>1, <2>2
    <3> QED
      BY <2>1, <3>1, Concat
  <2>4. \A m \in 1 .. 44 : m \in 1 .. k
    BY <1>5, <2>2
  <2> QED
    BY <2>1, <2>2, <2>3, <2>4
<1>11. Block(x) = v \o <<seal>>
  BY <1>1, <1>2, <1>3, <1>9 DEF Block
<1> QED
  BY <1>1, <1>2, <1>3, <1>4, <1>5, <1>6, <1>7, <1>8, <1>9, <1>10, <1>11

-----------------------------------------------------------------------------
Kinds ==
  /\ side \in {"sender", "receiver"} /\ sealed \in BOOLEAN
  /\ plain \in Seq(Char) /\ prefix \in Seq(Char) /\ input \in Seq(Char)
  /\ cipher \in Seq(Char) /\ text \in Seq(Char)
  /\ n \in Nat /\ lound \in Nat /\ long \in Nat
  /\ result \in Seq(0 .. D - 1)

LEMMA SomeLetter == D \in Nat /\ D > 0
BY ByteAssumption

LEMMA CodeIsChar ==
  ASSUME NEW t \in Seq(Char), NEW m \in Nat
  PROVE  CodeAt(t, m) \in Char
<1>1. CASE m + 1 \in DOMAIN t
  BY <1>1 DEF CodeAt
<1>2. CASE m + 1 \notin DOMAIN t
  BY <1>2, CharIsNat DEF CodeAt
<1> QED
  BY <1>1, <1>2

LEMMA OntoIsOctet ==
  ASSUME NEW c \in Char, NEW next
  PROVE  Onto(c, next) \in Octet
<1>1. c % N \in Octet /\ c \in Nat /\ N \in Nat /\ N >= 2 /\ N % 2 = 0
  BY CharIsNat, ByteAssumption
<1>2. CASE Wide(next) /\ c % 2 = 0
  <2>1. Onto(c, next) = (c % N) + 1
    BY <1>2 DEF Onto
  <2>2. PICK h \in Nat : N = 2 * h
    BY <1>1, Even
  <2>3. c < 2 * N
    BY <1>1 DEF Char
  <2>4. c % N = c \/ c % N = c - N
    <3>1. CASE c < N
      <4>1. c \in 0 .. N - 1 /\ c = N * 0 + c
        BY <1>1, <3>1
      <4> QED
        BY <1>1, <4>1, DivisionIs
    <3>2. CASE ~(c < N)
      <4>1. c - N \in 0 .. N - 1 /\ c = N * 1 + (c - N)
        BY <1>1, <2>3, <3>2
      <4> QED
        BY <1>1, <4>1, DivisionIs
    <3> QED
      BY <3>1, <3>2
  <2>5. PICK g \in Nat : c = 2 * g
    BY <1>1, <1>2, Even
  <2>6. c % N # N - 1
    BY <2>2, <2>4, <2>5
  <2> QED
    BY <1>1, <2>1, <2>6 DEF Octet
<1>3. CASE ~(Wide(next) /\ c % 2 = 0)
  BY <1>1, <1>3, Zenon DEF Onto
<1> QED
  BY <1>2, <1>3

LEMMA LongIsNat ==
  ASSUME NEW t \in Seq(Char), NEW round \in Nat
  PROVE  get_long_int(t, round) \in Nat
<1>1. /\ CodeAt(t, 3 * round + 0) \in Char
      /\ CodeAt(t, 3 * round + 1) \in Char
      /\ CodeAt(t, 3 * round + 2) \in Char
  BY CodeIsChar
<1>2. PICK a \in Octet :
        a = Onto(CodeAt(t, 3 * round + 0), CodeAt(t, 3 * round + 1))
  BY <1>1, OntoIsOctet
<1>3. PICK c \in Octet :
        c = Onto(CodeAt(t, 3 * round + 1), CodeAt(t, 3 * round + 2))
  BY <1>1, OntoIsOctet
<1>4. PICK d \in Octet : d = CodeAt(t, 3 * round + 2) % N
  BY <1>1, CharIsNat
<1>5. get_long_int(t, round) = a * N * N + c * N + d
  BY <1>2, <1>3, <1>4, Zenon DEF get_long_int
<1>6. a \in Nat /\ c \in Nat /\ d \in Nat /\ N \in Nat
  BY CharIsNat DEF Octet
<1>7. a * N \in Nat /\ a * N * N \in Nat /\ c * N \in Nat
  BY <1>6, OctetTimes
<1> QED
  BY <1>5, <1>6, <1>7

LEMMA LettersArePositive ==
  \A l \in 1 .. 4 : Letters[l] \in Nat /\ Letters[l] > 0
<1>1. /\ D \in Nat /\ D > 0 /\ D * D \in Nat /\ D * D > 0
      /\ D * D * D \in Nat /\ D * D * D > 0
  BY SomeLetter
<1> QED
  BY <1>1 DEF Letters

LEMMA LetterIsNat ==
  ASSUME result \in Seq(0 .. D - 1), NEW m \in Nat
  PROVE  Letter(m) \in Nat
<1>1. CASE m + 1 \in DOMAIN result
  BY <1>1, SomeLetter DEF Letter
<1>2. CASE m + 1 \notin DOMAIN result
  BY <1>2 DEF Letter
<1> QED
  BY <1>1, <1>2

LEMMA WordIsNat ==
  ASSUME result \in Seq(0 .. D - 1), NEW g \in Nat
  PROVE  Word(g) \in Nat
<1>1. /\ Letter(4 * g) \in Nat /\ Letter(4 * g + 1) \in Nat
      /\ Letter(4 * g + 2) \in Nat /\ Letter(4 * g + 3) \in Nat
  BY LetterIsNat
<1>2. D \in Nat /\ D * D \in Nat /\ D * D * D \in Nat
  BY SomeLetter, OctetTimes
<1>3. /\ Letter(4 * g) * (D * D * D) \in Nat /\ Letter(4 * g + 1) * (D * D) \in Nat
      /\ Letter(4 * g + 2) * D \in Nat
  BY <1>1, <1>2, OctetTimes
<1> QED
  BY SMTT(20), <1>1, <1>3 DEF Word

LEMMA ByteIsOctet ==
  ASSUME result \in Seq(0 .. D - 1), NEW m \in Nat
  PROVE  Byte(m) \in Octet
<1>1. m \div 3 \in Nat /\ (m % 3) + 1 \in 1 .. 3
  OBVIOUS
<1>2. N \in Nat /\ N > 0 /\ N * N \in Nat /\ N * N > 0
  BY CharIsNat
<1>3. PICK d \in Nat : d > 0 /\ d = <<N * N, N, 1>>[(m % 3) + 1]
  BY <1>1, <1>2
<1>4. PICK w \in Nat : w = Word(m \div 3)
  BY <1>1, WordIsNat
<1>5. Byte(m) = (w \div d) % N
  BY <1>3, <1>4 DEF Byte
<1>6. w \div d \in Nat
  BY <1>3, <1>4, Division
<1> QED
  BY <1>2, <1>5, <1>6, Division DEF Octet

LEMMA KindsInit == Init => Kinds
<1> SUFFICES ASSUME Init PROVE Kinds
  OBVIOUS
<1>1. plain \in Seq(Char)
  <2>1. CASE sealed
    <3>1. PICK x \in Facts : plain = Block(x)
      BY <2>1 DEF Init
    <3> QED
      BY <3>1, BlockIs
  <2>2. CASE ~sealed
    BY <2>2, StringsAssumption DEF Init
  <2> QED
    BY <2>1, <2>2
<1>2. prefix \in Seq(Char)
  <2>1. <<>> \in Seq(Char)
    OBVIOUS
  <2> QED
    BY <2>1, StringsAssumption DEF Init
<1> QED
  BY <1>1, <1>2 DEF Init, Kinds

LEMMA KindsNext == ASSUME RC4Inv, RC4Inv', Kinds, [Next]_vars PROVE Kinds'
<1>1. CASE Mix
  BY <1>1 DEF Mix, args, writer, Kinds
<1>2. CASE Stream
  <2>1. cipher' \in Seq(Char)
    <3>1. s'[(s'[i'] + s'[j']) % N] \in Char
      <4>1. s' \in [Places -> Places] /\ j' \in Places /\ i' \in Places
        BY <1>2, SomeByte, RemainderIsPlace DEF Stream, RC4Inv, Places
      <4>2. s'[i'] + s'[j'] \in Nat
        BY SMTT(20), <4>1, SomeByte DEF Places
      <4>3. (s'[i'] + s'[j']) % N \in Places
        BY <4>2, RemainderIsPlace
      <4> QED
        BY <4>1, <4>3, CharIsNat DEF Places, Octet
    <3>2. input[Len(cipher) + 1] \in Char
      <4>1. Len(cipher) \in Nat /\ Len(cipher) < Len(input)
        <5>1. cipher \in Seq(Char)
          BY DEF Kinds
        <5>2. Len(cipher) < Len(input)
          BY <1>2 DEF Stream
        <5> QED
          BY <5>1, <5>2, LenProperties
      <4>2. Len(cipher) + 1 \in 1 .. Len(input)
        BY <4>1 DEF Kinds
      <4> QED
        BY <4>2, ElementOfSeq DEF Kinds
    <3>3. PICK c \in Char :
            c = BitXor(s'[(s'[i'] + s'[j']) % N], input[Len(cipher) + 1])
      BY <3>1, <3>2, Xor
    <3>4. cipher' = Append(cipher, c)
      BY <1>2, <3>3 DEF Stream
    <3> QED
      BY <3>4 DEF Kinds
  <2> QED
    BY <1>2, <2>1 DEF Stream, args, writer, Kinds
<1>3. CASE StartWriting
  <2>1. text' \in Seq(Char)
    BY <1>3, ConcatProperties DEF StartWriting, Kinds
  <2>2. long' \in Nat
    BY <1>3, <2>1, LongIsNat DEF StartWriting
  <2> QED
    BY <1>3, <2>1, <2>2 DEF StartWriting, args, rc4, Kinds
<1>4. CASE Write
  <2>1. UNCHANGED <<args, rc4, text>>
    BY <1>4 DEF Write
  <2>2. CASE 3 * n < 4 * Len(text)
    <3>1. lound' \in Nat /\ long' \in Nat
      <4>1. lound \in Nat /\ long \in Nat /\ text \in Seq(Char) /\ lound + 1 \in Nat
        BY DEF Kinds
      <4>2. \/ lound' = lound /\ long' = long
            \/ lound' = lound + 1 /\ long' = get_long_int(text, lound')
        BY <1>4, <2>2 DEF Write
      <4> QED
        BY <4>1, <4>2, LongIsNat
    <3>2. (long' \div Letters[(n % 4) + 1]) % D \in 0 .. D - 1
      <4>1. (n % 4) + 1 \in 1 .. 4
        BY DEF Kinds
      <4>2. PICK d \in Nat : d > 0 /\ d = Letters[(n % 4) + 1]
        BY <4>1, LettersArePositive
      <4>3. long' \div d \in Nat
        BY <3>1, <4>2, Division
      <4> QED
        BY <4>2, <4>3, Division, SomeLetter
    <3>3. PICK letter \in 0 .. D - 1 : result' = Append(result, letter)
      BY <1>4, <2>2, <3>2 DEF Write
    <3>4. result' \in Seq(0 .. D - 1)
      BY <3>3, AppendProperties DEF Kinds
    <3>5. n' \in Nat
      BY <1>4, <2>2 DEF Write, Kinds
    <3> QED
      BY <2>1, <3>1, <3>4, <3>5 DEF args, rc4, Kinds
  <2>3. CASE ~(3 * n < 4 * Len(text))
    BY <1>4, <2>1, <2>3 DEF Write, args, rc4, Kinds
  <2> QED
    BY <2>2, <2>3
<1>5. CASE Receive
  <2>1. input' \in Seq(Char)
    <3>1. PICK k \in Int : k = (3 * Len(result)) \div 4 - Len(prefix)
      <4>1. Len(result) \in Nat /\ Len(prefix) \in Nat
        BY LenProperties DEF Kinds
      <4>2. (3 * Len(result)) \div 4 \in Nat
        BY <4>1, Division
      <4> QED
        BY <4>1, <4>2
    <3>2. input' = [m \in 1 .. k |-> Byte(Len(prefix) + m - 1)]
      BY <1>5, <3>1 DEF Receive
    <3>3. ASSUME NEW m \in 1 .. k PROVE Byte(Len(prefix) + m - 1) \in Char
      <4>1. Len(prefix) + m - 1 \in Nat
        BY DEF Kinds
      <4> QED
        BY <4>1, ByteIsOctet, CharIsNat DEF Kinds
    <3>4. PICK l \in Nat : 1 .. k = 1 .. l
      <4>1. CASE k \in Nat
        BY <4>1
      <4>2. CASE k \notin Nat
        <5>1. 1 .. k = 1 .. 0
          BY <4>2
        <5> QED
          BY <5>1
      <4> QED
        BY <4>1, <4>2
    <3>5. input' \in [1 .. l -> Char]
      BY <3>2, <3>3, <3>4
    <3> QED
      BY <3>5
  <2>2. <<>> \in Seq(Char)
    OBVIOUS
  <2> QED
    BY <1>5, <2>1, <2>2 DEF Receive, writer, Kinds
<1>6. CASE FinishReading \/ Done \/ UNCHANGED vars
  BY <1>6 DEF FinishReading, Done, vars, args, rc4, writer, Kinds
<1> QED
  BY <1>1, <1>2, <1>3, <1>4, <1>5, <1>6 DEF Next

(***************************************************************************)
(* Characters stay characters: whatever the sizes of a byte and of a       *)
(* letter, whatever is encrypted, no number grows past what the strings of *)
(* the code can hold, and a letter is one of the alphabet.                 *)
(***************************************************************************)
THEOREM SignatureTypes == Spec => []TypeOK
<1>1. RC4Inv /\ RC4Inv' /\ Kinds /\ [Next]_vars => Kinds'
  BY KindsNext
<1>2. RC4Inv /\ Kinds => TypeOK
  BY DEF RC4Inv, Kinds, TypeOK, Places
<1> QED
  BY RC4Init, RC4Next, KindsInit, <1>1, <1>2, PTL DEF Spec

-----------------------------------------------------------------------------
(***************************************************************************)
(* Letters: four digits of a number are the number.                        *)
(***************************************************************************)
LEMMA Bigger ==
  ASSUME NEW d \in Nat, NEW a \in Nat, NEW c \in Nat, a <= c
  PROVE  d * a <= d * c /\ d * a \in Nat /\ d * c \in Nat
<1>1. PICK e \in Nat : c = a + e
  BY c - a \in Nat
<1>2. d * c = d * a + d * e
  BY <1>1
<1>3. d * e \in Nat /\ d * a \in Nat /\ d * c \in Nat
  BY <1>1, OctetTimes
<1> QED
  BY <1>2, <1>3

\* Two digits of a base d make a number below its square.
LEMMA TwoDigits ==
  ASSUME NEW d \in Nat, d > 0, NEW e \in Nat, e > 0,
         NEW a \in 0 .. d - 1, NEW c \in 0 .. e - 1
  PROVE  e * a + c \in 0 .. d * e - 1
<1>1. e * a <= e * (d - 1) /\ e * a \in Nat
  BY Bigger
<1>2. e * (d - 1) = d * e - e /\ d * e \in Nat
  BY OctetTimes
<1> QED
  BY <1>1, <1>2

Digit(w, k) == (w \div Letters[k]) % D

LEMMA DigitsOf ==
  ASSUME NEW w \in Nat, w < D * D * D * D
  PROVE  /\ \A k \in 1 .. 4 : Digit(w, k) \in Nat
         /\ w = Digit(w, 1) * (D * D * D) + Digit(w, 2) * (D * D)
                  + Digit(w, 3) * D + Digit(w, 4)
<1>1. PICK d \in Nat : d = D /\ d > 0
  BY SomeLetter
<1>2. PICK q1 \in Nat, r0 \in 0 .. d - 1 : w = d * q1 + r0
  BY <1>1, Division, w = d * (w \div d) + (w % d)
<1>3. PICK q2 \in Nat, r1 \in 0 .. d - 1 : q1 = d * q2 + r1
  BY <1>1, Division, q1 = d * (q1 \div d) + (q1 % d)
<1>4. PICK q3 \in Nat, r2 \in 0 .. d - 1 : q2 = d * q3 + r2
  BY <1>1, Division, q2 = d * (q2 \div d) + (q2 % d)
<1>5. PICK e \in Nat : e = d * d /\ e > 0
  BY <1>1
<1>6. PICK f \in Nat : f = d * e /\ f > 0
  BY <1>1, <1>5
<1>7. PICK r01 \in 0 .. e - 1 : r01 = d * r1 + r0
  BY <1>1, <1>5, TwoDigits
<1>8. w = e * q2 + r01
  <2>1. d * q1 = e * q2 + d * r1
    BY <1>3, <1>5
  <2>2. d * r1 \in Nat /\ e * q2 \in Nat
    BY OctetTimes
  <2> QED
    BY <1>2, <1>7, <2>1, <2>2
<1>9. PICK r012 \in 0 .. f - 1 : r012 = e * r2 + r01
  BY <1>1, <1>5, <1>6, TwoDigits
<1>10. w = f * q3 + r012
  <2>1. e * q2 = f * q3 + e * r2
    BY <1>4, <1>5, <1>6
  <2>2. e * r2 \in Nat /\ f * q3 \in Nat
    BY OctetTimes
  <2> QED
    BY <1>8, <1>9, <2>1, <2>2
<1>11. q3 < d
  <2>1. w < f * d
    BY <1>1, <1>5, <1>6
  <2>2. ASSUME d <= q3 PROVE FALSE
    <3>1. f * d <= f * q3 /\ f * d \in Nat /\ f * q3 \in Nat
      BY <2>2, Bigger
    <3> QED
      BY <1>10, <2>1, <3>1
  <2> QED
    BY <2>2
<1>12. /\ Letters[1] = f /\ Letters[2] = e /\ Letters[3] = d /\ Letters[4] = 1
  BY <1>1, <1>5, <1>6 DEF Letters
<1>13. Digit(w, 4) = r0
  <2>1. w \div 1 = w
    OBVIOUS
  <2>2. w % d = r0
    BY <1>1, <1>2, DivisionIs
  <2> QED
    BY <1>1, <1>12, <2>1, <2>2 DEF Digit
<1>14. Digit(w, 3) = r1
  <2>1. w \div d = q1
    BY <1>1, <1>2, DivisionIs
  <2>2. q1 % d = r1
    BY <1>1, <1>3, DivisionIs
  <2> QED
    BY <1>1, <1>12, <2>1, <2>2 DEF Digit
<1>15. Digit(w, 2) = r2
  <2>1. w \div e = q2
    BY <1>5, <1>8, DivisionIs
  <2>2. q2 % d = r2
    BY <1>1, <1>4, DivisionIs
  <2> QED
    BY <1>1, <1>12, <2>1, <2>2 DEF Digit
<1>16. Digit(w, 1) = q3
  <2>1. w \div f = q3
    BY <1>6, <1>10, DivisionIs
  <2>2. q3 % d = q3
    <3>1. q3 \in 0 .. d - 1 /\ q3 = d * 0 + q3
      BY <1>11
    <3> QED
      BY <1>1, <3>1, DivisionIs
  <2> QED
    BY <1>1, <1>12, <2>1, <2>2 DEF Digit
<1>17. w = q3 * f + r2 * e + r1 * d + r0
  <2>1. f * q3 = q3 * f /\ e * r2 = r2 * e /\ d * r1 = r1 * d
    OBVIOUS
  <2>2. f * q3 \in Nat /\ e * r2 \in Nat /\ d * r1 \in Nat
    BY OctetTimes
  <2> QED
    BY <1>7, <1>9, <1>10, <2>1, <2>2
<1>18. D * D * D = f /\ D * D = e
  BY <1>1, <1>5, <1>6
<1>19. w = Digit(w, 1) * f + Digit(w, 2) * e + Digit(w, 3) * d + Digit(w, 4)
  BY <1>13, <1>14, <1>15, <1>16, <1>17, Zenon
<1>20. \A k \in 1 .. 4 : Digit(w, k) \in Nat
  BY <1>13, <1>14, <1>15, <1>16
<1> QED
  BY <1>1, <1>18, <1>19, <1>20, Zenon

LEMMA BytesAndLetters ==
  /\ N * N * N = D * D * D * D
  /\ \E q \in Nat : N = q * D /\ N * N = q * q * D * D
<1>1. PICK q \in 1 .. D : N = q * q * q * q /\ D = q * q * q
  BY ByteAssumption
<1>2. q \in Nat
  BY <1>1, SomeLetter
<1>3. PICK d \in Nat : d = D /\ d = q * q * q
  BY <1>1, SomeLetter
<1>4. PICK c \in Nat : c = N /\ c = q * d
  BY <1>1, <1>2, <1>3, CharIsNat
<1>5. c * c = q * q * d * d
  BY <1>2, <1>4
<1>6. c * c * c = d * d * d * d
  <2>1. c * c * c = (q * d) * (q * d) * (q * d)
    BY <1>4
  <2>2. (q * d) * (q * d) * (q * d) = (q * q * q) * (d * d * d)
    BY <1>2
  <2>3. (q * q * q) * (d * d * d) = d * d * d * d
    BY <1>2, <1>3
  <2> QED
    BY <2>1, <2>2, <2>3
<1> QED
  BY <1>2, <1>3, <1>4, <1>5, <1>6

\* The number of three bytes.
LEMMA BytesOf ==
  ASSUME NEW b0 \in Octet, NEW b1 \in Octet, NEW b2 \in Octet, NEW w,
         w = b0 * N * N + b1 * N + b2
  PROVE  /\ w \in Nat /\ w < D * D * D * D
         /\ (w \div (N * N)) % N = b0
         /\ (w \div N) % N = b1
         /\ (w \div 1) % N = b2
         /\ b2 = 0 => Digit(w, 4) = 0
         /\ b1 = 0 /\ b2 = 0 => Digit(w, 3) = 0
<1>1. PICK c \in Nat : c = N /\ c > 0
  BY CharIsNat
<1>2. PICK e \in Nat : e = c * c /\ e > 0
  BY <1>1
<1>3. b0 \in 0 .. c - 1 /\ b1 \in 0 .. c - 1 /\ b2 \in 0 .. c - 1
  BY <1>1 DEF Octet
<1>4. PICK b12 \in 0 .. e - 1 : b12 = c * b1 + b2
  BY <1>1, <1>2, <1>3, TwoDigits
<1>5. PICK b01 \in Nat : b01 = c * b0 + b1
  BY <1>1, <1>3, OctetTimes
<1>6. w = e * b0 + b12
  <2>1. b0 * c * c = e * b0 /\ b1 * c = c * b1
    BY <1>1, <1>2, <1>3
  <2> QED
    BY <1>1, <1>2, <1>3, <1>4, <2>1
<1>7. w = c * b01 + b2
  <2>1. e * b0 = c * (c * b0)
    BY <1>2, <1>3
  <2>2. c * b01 = c * (c * b0) + c * b1
    BY <1>3, <1>5
  <2>3. c * b1 \in Nat /\ e * b0 \in Nat
    BY <1>3, OctetTimes
  <2> QED
    BY <1>3, <1>4, <1>6, <2>1, <2>2, <2>3
<1>8. w \in Nat /\ w < D * D * D * D
  <2>1. w \in Nat
    BY <1>3, <1>6, OctetTimes
  <2>2. w \in 0 .. c * e - 1
    BY <1>2, <1>3, <1>6, TwoDigits
  <2>3. c * e = D * D * D * D
    BY <1>1, <1>2, BytesAndLetters
  <2> QED
    BY <2>1, <2>2, <2>3
<1>9. (w \div e) % c = b0
  <2>1. w \div e = b0
    BY <1>2, <1>3, <1>4, <1>6, <1>8, DivisionIs
  <2>2. b0 = c * 0 + b0
    BY <1>3
  <2>3. b0 % c = b0
    BY <1>1, <1>3, <2>2, DivisionIs
  <2> QED
    BY <2>1, <2>3
<1>10. (w \div c) % c = b1
  <2>1. w \div c = b01
    BY <1>1, <1>3, <1>5, <1>7, <1>8, DivisionIs
  <2>2. b01 % c = b1
    BY <1>1, <1>3, <1>5, DivisionIs
  <2> QED
    BY <2>1, <2>2
<1>11. (w \div 1) % c = b2
  <2>1. w \div 1 = w
    BY <1>8
  <2>2. w % c = b2
    <3>1. /\ c \in Nat /\ c > 0 /\ b01 \in Nat /\ b2 \in 0 .. c - 1 /\ w \in Nat
          /\ w = c * b01 + b2
      BY <1>1, <1>3, <1>5, <1>7, <1>8
    <3> QED
      BY ONLY <3>1, DivisionIs
  <2> QED
    BY <2>1, <2>2
<1>12. PICK d \in Nat, q \in Nat : d = D /\ d > 0 /\ c = q * d /\ e = q * q * d * d
  BY <1>1, <1>2, SomeLetter, BytesAndLetters
<1>13. Letters[3] = d /\ Letters[4] = 1
  BY <1>12 DEF Letters
<1>14. ASSUME b2 = 0 PROVE Digit(w, 4) = 0
  <2>1. PICK h \in Nat : h = q * b01
    BY OctetTimes
  <2>2. w = d * h + 0
    <3>1. w = c * b01
      BY <1>1, <1>5, <1>7, <1>14
    <3>2. c * b01 = d * h
      BY ONLY <1>5, <1>12, <2>1, b01 \in Nat, d \in Nat, q \in Nat, h \in Nat
    <3> QED
      BY <2>1, <3>1, <3>2, OctetTimes
  <2>3. w % d = 0
    <3>1. d \in Nat /\ d > 0 /\ h \in Nat /\ 0 \in 0 .. d - 1 /\ w \in Nat
      BY <1>8, <1>12
    <3> QED
      BY ONLY <2>2, <3>1, DivisionIs
  <2>4. w \div 1 = w
    BY <1>8
  <2> QED
    BY <1>12, <1>13, <2>3, <2>4 DEF Digit
<1>15. ASSUME b1 = 0, b2 = 0 PROVE Digit(w, 3) = 0
  <2>1. PICK h \in Nat : h = q * q * b0
    BY <1>3, OctetTimes
  <2>2. PICK k \in Nat : k = d * h
    BY OctetTimes
  <2>3. w = d * k + 0
    <3>1. b12 = 0
      BY <1>4, <1>15
    <3>2. e * b0 = d * k
      <4>1. b0 \in Nat
        BY <1>3
      <4> QED
        BY ONLY <4>1, <1>12, <2>1, <2>2, d \in Nat, q \in Nat, h \in Nat, k \in Nat
    <3> QED
      BY <1>6, <2>2, <3>1, <3>2, OctetTimes
  <2>4. w \div d = k
    BY <1>8, <1>12, <2>2, <2>3, DivisionIs
  <2>5. k % d = 0
    <3>1. k = d * h + 0
      BY <2>2
    <3>2. d \in Nat /\ d > 0 /\ h \in Nat /\ k \in Nat /\ 0 \in 0 .. d - 1
      BY <1>12
    <3> QED
      BY ONLY <3>1, <3>2, DivisionIs
  <2> QED
    BY <1>12, <1>13, <2>4, <2>5 DEF Digit
<1> QED
  BY <1>1, <1>2, <1>8, <1>9, <1>10, <1>11, <1>14, <1>15

-----------------------------------------------------------------------------
(***************************************************************************)
(* What the receiver reads.                                                *)
(***************************************************************************)

\* The byte at the place m (from 0) of the string t, as the letters have it.
OctetAt(t, m) ==
  IF m % 3 = 2 THEN CodeAt(t, m) % N ELSE Onto(CodeAt(t, m), CodeAt(t, m + 1))

LEMMA OctetAtIsOctet ==
  ASSUME NEW t \in Seq(Char), NEW m \in Nat
  PROVE  OctetAt(t, m) \in Octet
BY CodeIsChar, OntoIsOctet, CharIsNat DEF OctetAt

LEMMA LongIs ==
  ASSUME NEW t \in Seq(Char), NEW g \in Nat
  PROVE  get_long_int(t, g) = OctetAt(t, 3 * g) * N * N + OctetAt(t, 3 * g + 1) * N
                                + OctetAt(t, 3 * g + 2)
<1>1. (3 * g) % 3 = 0 /\ (3 * g + 1) % 3 = 1 /\ (3 * g + 2) % 3 = 2
  OBVIOUS
<1>2. 3 * g + 0 = 3 * g /\ (3 * g) + 1 = 3 * g + 1 /\ (3 * g + 1) + 1 = 3 * g + 2
  OBVIOUS
<1>3. /\ OctetAt(t, 3 * g) = Onto(CodeAt(t, 3 * g), CodeAt(t, 3 * g + 1))
      /\ OctetAt(t, 3 * g + 1) = Onto(CodeAt(t, 3 * g + 1), CodeAt(t, 3 * g + 2))
      /\ OctetAt(t, 3 * g + 2) = CodeAt(t, 3 * g + 2) % N
  BY <1>1, <1>2 DEF OctetAt
<1> QED
  BY <1>2, <1>3, Zenon DEF get_long_int

\* The letters written so far are those of the text.
LettersRight ==
  \A l \in 1 .. Len(result) :
    result[l] = Digit(get_long_int(text, (l - 1) \div 4), ((l - 1) % 4) + 1)

\* All of them are.
Complete == 4 * Len(text) <= 3 * Len(result) /\ 3 * Len(result) < 4 * Len(text) + 3

\* Past the end of the text there is nothing.
LEMMA NothingBehind ==
  ASSUME NEW t \in Seq(Char), NEW m \in Nat, m >= Len(t)
  PROVE  CodeAt(t, m) = 0 /\ OctetAt(t, m) = 0
<1>1. CodeAt(t, m) = 0 /\ CodeAt(t, m + 1) = 0
  BY DEF CodeAt
<1>2. ~Wide(0) /\ 0 % N = 0
  <2>1. 0 = N * 0 + 0 /\ 0 \in 0 .. N - 1
    BY CharIsNat
  <2> QED
    BY <2>1, CharIsNat, DivisionIs DEF Wide
<1> QED
  BY <1>1, <1>2 DEF OctetAt, Onto

LEMMA WordIs ==
  ASSUME text \in Seq(Char), result \in Seq(0 .. D - 1), LettersRight, Complete,
         NEW g \in Nat, 3 * g < Len(text)
  PROVE  Word(g) = get_long_int(text, g)
<1>1. PICK w : w = get_long_int(text, g)
  OBVIOUS
<1>2. PICK b0 \in Octet, b1 \in Octet, b2 \in Octet :
        /\ b0 = OctetAt(text, 3 * g) /\ b1 = OctetAt(text, 3 * g + 1)
        /\ b2 = OctetAt(text, 3 * g + 2)
  <2>1. 3 * g \in Nat /\ 3 * g + 1 \in Nat /\ 3 * g + 2 \in Nat
    OBVIOUS
  <2> QED
    BY <2>1, OctetAtIsOctet
<1>3. w = b0 * N * N + b1 * N + b2
  BY <1>1, <1>2, LongIs
<1>4. /\ w \in Nat /\ w < D * D * D * D
      /\ b2 = 0 => Digit(w, 4) = 0
      /\ b1 = 0 /\ b2 = 0 => Digit(w, 3) = 0
  BY ONLY <1>3, b0 \in Octet, b1 \in Octet, b2 \in Octet, BytesOf
<1>5. Len(text) \in Nat /\ Len(result) \in Nat /\ DOMAIN result = 1 .. Len(result)
  BY LenProperties
<1>6. 4 * Len(text) <= 3 * Len(result) /\ 3 * Len(result) < 4 * Len(text) + 3
  BY DEF Complete
<1>7. ASSUME NEW k \in 0 .. 3, 4 * g + k + 1 \in DOMAIN result
      PROVE  Letter(4 * g + k) = Digit(w, k + 1)
  <2>1. PICK l \in Nat : l = 4 * g + k
    OBVIOUS
  <2>2. l \div 4 = g /\ l % 4 = k
    BY <2>1, DivisionIs
  <2>3. l + 1 \in 1 .. Len(result) /\ (l + 1) - 1 = l
    BY <1>5, <1>7, <2>1
  <2>4. result[l + 1] = Digit(get_long_int(text, l \div 4), (l % 4) + 1)
    BY <2>3 DEF LettersRight
  <2>5. Letter(l) = result[l + 1]
    BY <1>7, <2>1 DEF Letter
  <2> QED
    BY <1>1, <2>1, <2>2, <2>4, <2>5
<1>8. ASSUME NEW k \in 0 .. 3, 4 * g + k + 1 \notin DOMAIN result
      PROVE  Letter(4 * g + k) = Digit(w, k + 1)
  <2>1. Letter(4 * g + k) = 0
    BY <1>8 DEF Letter
  <2>2. Len(result) <= 4 * g + k
    BY <1>5, <1>8
  <2>3. k \in {2, 3}
    BY <1>5, <1>6, <2>2
  <2>4. CASE k = 2
    <3>1. Len(text) <= 3 * g + 1
      BY <1>5, <1>6, <2>2, <2>4
    <3>2. b1 = 0 /\ b2 = 0
      <4>1. 3 * g + 1 \in Nat /\ 3 * g + 2 \in Nat /\ Len(text) <= 3 * g + 2
        BY <1>5, <3>1
      <4> QED
        BY <1>2, <3>1, <4>1, NothingBehind
    <3> QED
      BY <1>4, <2>1, <2>4, <3>2
  <2>5. CASE k = 3
    <3>1. Len(text) <= 3 * g + 2
      BY <1>5, <1>6, <2>2, <2>5
    <3>2. b2 = 0
      BY <1>2, <1>5, <3>1, NothingBehind
    <3> QED
      BY <1>4, <2>1, <2>5, <3>2
  <2> QED
    BY <2>3, <2>4, <2>5
<1>9. \A k \in 0 .. 3 : Letter(4 * g + k) = Digit(w, k + 1)
  BY <1>7, <1>8
<1>10. /\ Letter(4 * g) = Digit(w, 1) /\ Letter(4 * g + 1) = Digit(w, 2)
       /\ Letter(4 * g + 2) = Digit(w, 3) /\ Letter(4 * g + 3) = Digit(w, 4)
  <2>1. Letter(4 * g + 0) = Digit(w, 0 + 1) /\ Letter(4 * g + 1) = Digit(w, 1 + 1)
        /\ Letter(4 * g + 2) = Digit(w, 2 + 1) /\ Letter(4 * g + 3) = Digit(w, 3 + 1)
    BY <1>9
  <2>2. 4 * g + 0 = 4 * g /\ 0 + 1 = 1 /\ 1 + 1 = 2 /\ 2 + 1 = 3 /\ 3 + 1 = 4
    OBVIOUS
  <2> QED
    BY <2>1, <2>2
<1>11. w = Digit(w, 1) * (D * D * D) + Digit(w, 2) * (D * D) + Digit(w, 3) * D
             + Digit(w, 4)
  BY <1>4, DigitsOf
<1> QED
  BY <1>1, <1>10, <1>11, Zenon DEF Word

LEMMA ByteIs ==
  ASSUME text \in Seq(Char), result \in Seq(0 .. D - 1), LettersRight, Complete,
         NEW m \in Nat, m < Len(text)
  PROVE  Byte(m) = OctetAt(text, m)
<1>1. PICK g \in Nat, k \in 0 .. 2 : m = 3 * g + k
  BY m = 3 * (m \div 3) + (m % 3), Division
<1>2. m \div 3 = g /\ m % 3 = k
  BY <1>1, DivisionIs
<1>3. 3 * g < Len(text)
  BY <1>1
<1>4. PICK w : w = Word(g)
  OBVIOUS
<1>5. PICK b0 \in Octet, b1 \in Octet, b2 \in Octet :
        /\ b0 = OctetAt(text, 3 * g) /\ b1 = OctetAt(text, 3 * g + 1)
        /\ b2 = OctetAt(text, 3 * g + 2)
  <2>1. 3 * g \in Nat /\ 3 * g + 1 \in Nat /\ 3 * g + 2 \in Nat
    OBVIOUS
  <2> QED
    BY <2>1, OctetAtIsOctet
<1>6. w = b0 * N * N + b1 * N + b2
  BY <1>3, <1>4, <1>5, WordIs, LongIs
<1>7. /\ (w \div (N * N)) % N = b0 /\ (w \div N) % N = b1 /\ (w \div 1) % N = b2
  BY ONLY <1>6, b0 \in Octet, b1 \in Octet, b2 \in Octet, BytesOf
<1>8. Byte(m) = (w \div <<N * N, N, 1>>[k + 1]) % N
  BY <1>2, <1>4, Zenon DEF Byte
<1>9. CASE k = 0
  <2>1. <<N * N, N, 1>>[k + 1] = N * N /\ m = 3 * g
    BY <1>1, <1>9
  <2> QED
    BY <1>5, <1>7, <1>8, <2>1, Zenon
<1>10. CASE k = 1
  <2>1. <<N * N, N, 1>>[k + 1] = N /\ m = 3 * g + 1
    BY <1>1, <1>10
  <2> QED
    BY <1>5, <1>7, <1>8, <2>1, Zenon
<1>11. CASE k = 2
  <2>1. <<N * N, N, 1>>[k + 1] = 1 /\ m = 3 * g + 2
    BY <1>1, <1>11
  <2> QED
    BY <1>5, <1>7, <1>8, <2>1, Zenon
<1> QED
  BY <1>9, <1>10, <1>11

-----------------------------------------------------------------------------
(***************************************************************************)
(* What the sender has written.                                            *)
(***************************************************************************)
WriteInv ==
  /\ n = Len(result) /\ LettersRight
  /\ pc = "write" =>
       /\ long = get_long_int(text, lound)
       /\ lound = IF n = 0 THEN 0 ELSE (n - 1) \div 4
       /\ 3 * n < 4 * Len(text) + 3
  /\ pc = "sent" \/ side = "receiver" => Complete

LEMMA WriteInit == Init => WriteInv
<1> SUFFICES ASSUME Init PROVE WriteInv
  OBVIOUS
<1>1. n = 0 /\ result = <<>> /\ pc = "mix" /\ side = "sender"
  BY DEF Init
<1> QED
  BY <1>1 DEF WriteInv, LettersRight

LEMMA NothingWritten ==
  ASSUME WriteInv, UNCHANGED <<text, n, lound, long, result, side>>,
         pc' = "write" => pc = "write",
         pc' = "sent" => pc = "sent"
  PROVE  WriteInv'
BY DEF WriteInv, LettersRight, Complete

LEMMA TurnOfWrite ==
  ASSUME Kinds, WriteInv, Write, 3 * n < 4 * Len(text)
  PROVE  WriteInv'
<1>1. /\ n \in Nat /\ lound \in Nat /\ result \in Seq(0 .. D - 1)
      /\ text \in Seq(Char) /\ Len(text) \in Nat /\ n = Len(result)
  BY LenProperties DEF Kinds, WriteInv
<1>2. pc = "write" /\ UNCHANGED <<pc, side, text>>
  BY DEF Write, args
<1>3. n \div 4 \in Nat
  BY <1>1, Division
<1>4. lound = (IF n = 0 THEN 0 ELSE (n - 1) \div 4) /\ long = get_long_int(text, lound)
  BY <1>2 DEF WriteInv
<1>5. n \div 4 = lound \/ n \div 4 = lound + 1
  BY <1>1, <1>4
<1>6. lound' = n \div 4 /\ long' = get_long_int(text, lound')
  BY <1>4, <1>5 DEF Write
<1>7. result' = Append(result, Digit(long', (n % 4) + 1)) /\ n' = n + 1
  BY DEF Write, Digit
<1>8. PICK letter : letter = Digit(long', (n % 4) + 1)
  OBVIOUS
<1>9. /\ Len(result') = n + 1 /\ result'[n + 1] = letter
      /\ \A l \in 1 .. n : result'[l] = result[l]
  BY <1>1, <1>7, <1>8
<1>10. LettersRight'
  <2> SUFFICES ASSUME NEW l \in 1 .. n + 1
               PROVE  result'[l] = Digit(get_long_int(text, (l - 1) \div 4), ((l - 1) % 4) + 1)
    BY <1>2, <1>9 DEF LettersRight
  <2>1. CASE l = n + 1
    <3>1. l - 1 = n
      BY <1>1, <2>1
    <3> QED
      BY <1>6, <1>8, <1>9, <2>1, <3>1
  <2>2. CASE l # n + 1
    <3>1. l \in 1 .. n
      BY <1>1, <2>2
    <3> QED
      BY <1>1, <1>9, <3>1 DEF WriteInv, LettersRight
  <2> QED
    BY <2>1, <2>2
<1>11. lound' = IF n' = 0 THEN 0 ELSE (n' - 1) \div 4
  <2>1. n' # 0 /\ n' - 1 = n
    BY <1>1, <1>7
  <2> QED
    BY <1>6, <2>1
<1>12. 3 * n' < 4 * Len(text') + 3
  BY <1>1, <1>2, <1>7
<1>13. ~(pc' = "sent" \/ side' = "receiver") \/ Complete'
  <2>1. CASE side = "receiver"
    <3>1. 4 * Len(text) <= 3 * Len(result)
      BY <2>1 DEF WriteInv, Complete
    <3> QED
      BY <1>1, <3>1
  <2>2. CASE side # "receiver"
    BY <1>2, <2>2
  <2> QED
    BY <2>1, <2>2
<1>14. n' = Len(result')
  BY <1>7, <1>9
<1>15. long' = get_long_int(text', lound')
  BY <1>2, <1>6
<1> QED
  BY <1>10, <1>11, <1>12, <1>13, <1>14, <1>15 DEF WriteInv

LEMMA WriteNext == ASSUME Kinds, WriteInv, [Next]_vars PROVE WriteInv'
<1>1. CASE Mix \/ Stream \/ FinishReading
  BY <1>1, NothingWritten DEF Mix, Stream, FinishReading, args, writer
<1>2. CASE Done \/ UNCHANGED vars
  BY <1>2, NothingWritten DEF Done, vars, args, writer
<1>3. CASE StartWriting
  <2>1. /\ n' = 0 /\ result' = <<>> /\ lound' = 0 /\ pc' = "write"
        /\ long' = get_long_int(text', 0) /\ side' = "sender"
    BY <1>3 DEF StartWriting, args
  <2>2. text' \in Seq(Char)
    BY <1>3, ConcatProperties DEF StartWriting, Kinds
  <2>3. Len(text') \in Nat /\ Len(result') = 0
    BY <2>1, <2>2, LenProperties
  <2> QED
    BY <2>1, <2>3 DEF WriteInv, LettersRight
<1>4. CASE Write
  <2>1. CASE 3 * n < 4 * Len(text)
    BY <1>4, <2>1, TurnOfWrite
  <2>2. CASE ~(3 * n < 4 * Len(text))
    <3>1. pc = "write" /\ pc' = "sent" /\ UNCHANGED <<side, n, lound, long, result, text>>
      BY <1>4, <2>2 DEF Write, args
    <3>2. n \in Nat /\ Len(text) \in Nat /\ n = Len(result)
      BY LenProperties DEF Kinds, WriteInv
    <3>3. Complete
      BY <2>2, <3>1, <3>2 DEF WriteInv, Complete
    <3> QED
      BY <3>1, <3>3 DEF WriteInv, LettersRight, Complete
  <2> QED
    BY <2>1, <2>2
<1>5. CASE Receive
  <2>1. /\ pc = "sent" /\ pc' = "mix" /\ side' = "receiver"
        /\ UNCHANGED <<text, n, lound, long, result>>
    BY <1>5 DEF Receive, writer
  <2> QED
    BY <2>1 DEF WriteInv, LettersRight, Complete
<1> QED
  BY <1>1, <1>2, <1>3, <1>4, <1>5 DEF Next
-----------------------------------------------------------------------------
(***************************************************************************)
(* The sender and the receiver go through the same states of rc4_encrypt:  *)
(* a tape h of them, counted in turns of the two loops, is laid down by    *)
(* the first and played again by the second.                               *)
(***************************************************************************)
Start == [pc |-> "mix", s |-> Fresh, i |-> 0, j |-> 0]
Now == [pc |-> pc, s |-> s, i |-> i, j |-> j]
Swapped(q, a, c) == [q EXCEPT ![a] = q[c], ![c] = q[a]]
Mixed(st) ==
  LET to == (st.j + st.s[st.i] + key[(st.i % Len(key)) + 1]) % N
  IN  [pc |-> "mix", s |-> Swapped(st.s, st.i, to), i |-> st.i + 1, j |-> to]
Streamed(st) ==
  LET at == (st.i + 1) % N
      to == (st.j + st.s[at]) % N
  IN  [pc |-> "stream", s |-> Swapped(st.s, at, to), i |-> at, j |-> to]
Turn(st) ==
  IF st.pc = "stream" THEN Streamed(st)
  ELSE IF st.i < N THEN Mixed(st)
  ELSE [pc |-> "stream", s |-> st.s, i |-> 0, j |-> 0]

Position == IF pc = "mix" THEN i ELSE N + 1 + Len(cipher)
KeyByte(st) == st.s[(st.s[st.i] + st.s[st.j]) % N]

Tape(h, l) == h[0] = Start /\ \A m \in 0 .. l - 1 : h[m + 1] = Turn(h[m])
\* c is what the tape makes of plain.
Hides(h, c) ==
  \A m \in 1 .. Len(c) : /\ KeyByte(h[N + 1 + m]) \in Octet
                         /\ c[m] = BitXor(KeyByte(h[N + 1 + m]), plain[m])

Encrypting == side = "sender" /\ pc \in {"mix", "stream"}
Laying(h) ==
  /\ input = plain /\ Tape(h, Position) /\ h[Position] = Now
  /\ Hides(h, cipher) /\ Len(cipher) <= Len(plain)
  /\ pc = "mix" => cipher = <<>>
Laid(h, c) ==
  /\ Tape(h, N + 1 + Len(plain)) /\ Hides(h, c)
  /\ c \in Seq(Char) /\ Len(c) = Len(plain) /\ text = prefix \o c
Playing(h) ==
  /\ Len(input) = Len(plain)
  /\ \A m \in 1 .. Len(plain) : input[m] = OctetAt(text, Len(prefix) + m - 1)
  /\ Len(cipher) <= Len(plain)
  /\ \A m \in 1 .. Len(cipher) : cipher[m] = BitXor(KeyByte(h[N + 1 + m]), input[m])
  /\ pc \in {"mix", "stream"} => h[Position] = Now
  /\ pc = "mix" => cipher = <<>>
  /\ pc = "read" => Len(cipher) = Len(input)
ReadInv ==
  /\ pc = "read" => side = "receiver"
  /\ Encrypting => \E h : Laying(h)
  /\ ~Encrypting => \E h, c : Laid(h, c) /\ (side = "receiver" => Playing(h))

LEMMA ReadInit == ASSUME Kinds, Init PROVE ReadInv
<1>1. /\ side = "sender" /\ pc = "mix" /\ input = plain /\ s = Fresh
      /\ i = 0 /\ j = 0 /\ cipher = <<>>
  BY DEF Init
<1>2. Len(plain) \in Nat /\ Len(cipher) = 0
  BY <1>1, LenProperties DEF Kinds
<1>3. Position = 0 /\ Now = Start
  BY <1>1 DEF Position, Now, Start
<1>4. PICK h : h = [m \in {0} |-> Start]
  OBVIOUS
<1>5. Laying(h)
  BY <1>1, <1>2, <1>3, <1>4 DEF Laying, Tape, Hides
<1> QED
  BY <1>1, <1>5 DEF ReadInv, Encrypting

\* A turn of either loop is a turn of the tape.
LEMMA TurnOfMix ==
  ASSUME RC4Inv, Mix, cipher = <<>>
  PROVE  Now' = Turn(Now) /\ Position' = Position + 1
<1>1. /\ pc = "mix" /\ UNCHANGED <<args, cipher, writer>> /\ N \in Nat /\ i \in 0 .. N
  BY CharIsNat DEF Mix, RC4Inv
<1>2. CASE i < N
  <2>1. /\ pc' = "mix" /\ i' = i + 1
        /\ j' = (j + s[i] + key[(i % Len(key)) + 1]) % N
        /\ s' = Swapped(s, i, j')
    BY <1>1, <1>2, Zenon DEF Mix, Swap, Swapped
  <2>2. Turn(Now) = Mixed(Now)
    BY <1>1, <1>2 DEF Turn, Now
  <2>3. Now' = Mixed(Now)
    BY <2>1 DEF Mixed, Now
  <2> QED
    BY <1>1, <2>1, <2>2, <2>3 DEF Position
<1>3. CASE ~(i < N)
  <2>1. pc' = "stream" /\ i' = 0 /\ j' = 0 /\ s' = s /\ cipher' = cipher /\ i = N
    BY <1>1, <1>3 DEF Mix
  <2>2. Turn(Now) = [pc |-> "stream", s |-> s, i |-> 0, j |-> 0]
    BY <1>1, <1>3 DEF Turn, Now
  <2>3. Now' = Turn(Now)
    BY <2>1, <2>2 DEF Now
  <2>4. Len(<<>>) = 0
    OBVIOUS
  <2> QED
    BY <1>1, <2>1, <2>3 DEF Position
<1> QED
  BY <1>2, <1>3

LEMMA TurnOfStream ==
  ASSUME RC4Inv, RC4Inv', Kinds, Stream
  PROVE  /\ Now' = Turn(Now)
         /\ KeyByte(Now') \in Octet
         /\ cipher' = Append(cipher, BitXor(KeyByte(Now'), input[Len(cipher) + 1]))
         /\ Len(cipher') = Len(cipher) + 1 /\ Len(cipher) \in Nat
         /\ cipher'[Len(cipher) + 1] = BitXor(KeyByte(Now'), input[Len(cipher) + 1])
         /\ \A m \in 1 .. Len(cipher) : cipher'[m] = cipher[m]
         /\ Position = N + 1 + Len(cipher) /\ Position' = Position + 1
<1>1. /\ pc = "stream" /\ pc' = "stream" /\ i' = (i + 1) % N
      /\ j' = (j + s[i']) % N /\ s' = Swapped(s, i', j')
  BY Zenon DEF Stream, Swap, Swapped
<1>2. Now' = Turn(Now)
  <2>1. Turn(Now) = Streamed(Now)
    BY <1>1 DEF Turn, Now
  <2>2. Now' = Streamed(Now)
    BY <1>1 DEF Streamed, Now
  <2> QED
    BY <2>1, <2>2
<1>3. KeyByte(Now') = s'[(s'[i'] + s'[j']) % N]
  BY DEF KeyByte, Now
<1>4. KeyByte(Now') \in Octet
  <2>1. s' \in [Places -> Places] /\ j' \in Places /\ i' \in Places
    BY ONLY <1>1, RC4Inv' DEF RC4Inv
  <2>2. s'[i'] + s'[j'] \in Nat
    <3>1. s'[i'] \in Places /\ s'[j'] \in Places
      BY <2>1
    <3>2. \A a, c \in Places : a + c \in Nat
      BY SomeByte DEF Places
    <3> QED
      BY <3>1, <3>2
  <2>3. (s'[i'] + s'[j']) % N \in Places
    BY <2>2, RemainderIsPlace
  <2> QED
    BY <1>3, <2>1, <2>3 DEF Places, Octet
<1>5. cipher' = Append(cipher, BitXor(KeyByte(Now'), input[Len(cipher) + 1]))
  BY <1>3, Zenon DEF Stream
<1>6. PICK c : c = BitXor(KeyByte(Now'), input[Len(cipher) + 1])
  OBVIOUS
<1>7. /\ Len(cipher') = Len(cipher) + 1 /\ Len(cipher) \in Nat
      /\ cipher'[Len(cipher) + 1] = c
      /\ \A m \in 1 .. Len(cipher) : cipher'[m] = cipher[m]
  BY <1>5, <1>6 DEF Kinds
<1>8. Position = N + 1 + Len(cipher) /\ Position' = Position + 1
  BY <1>1, <1>7, CharIsNat DEF Position
<1> QED
  BY <1>2, <1>4, <1>5, <1>6, <1>7, <1>8

LEMMA PositionIsNat ==
  ASSUME RC4Inv, Kinds
  PROVE  Position \in Nat /\ Len(cipher) \in Nat /\ Len(plain) \in Nat
BY CharIsNat, LenProperties DEF Position, RC4Inv, Kinds

LEMMA TapeGrows ==
  ASSUME NEW h, NEW p \in Nat, Tape(h, p)
  PROVE  \E g : /\ Tape(g, p + 1) /\ g[p + 1] = Turn(h[p])
                /\ \A m \in 0 .. p : g[m] = h[m]
<1>1. PICK g : g = [m \in 0 .. p + 1 |-> IF m = p + 1 THEN Turn(h[p]) ELSE h[m]]
  OBVIOUS
<1>2. \A m \in 0 .. p : g[m] = h[m]
  BY <1>1
<1>3. g[p + 1] = Turn(h[p])
  BY <1>1
<1>4. g[0] = Start
  BY <1>2 DEF Tape
<1>5. ASSUME NEW m \in 0 .. (p + 1) - 1 PROVE g[m + 1] = Turn(g[m])
  <2>1. CASE m = p
    BY <1>2, <1>3, <2>1
  <2>2. CASE m # p
    <3>1. m \in 0 .. p - 1 /\ m \in 0 .. p /\ m + 1 \in 0 .. p
      BY <2>2
    <3>2. h[m + 1] = Turn(h[m])
      BY <3>1 DEF Tape
    <3> QED
      BY <1>2, <3>1, <3>2
  <2> QED
    BY <2>1, <2>2
<1>6. Tape(g, p + 1)
  BY <1>4, <1>5 DEF Tape
<1> QED
  BY <1>2, <1>3, <1>6

LEMMA TapeStays ==
  ASSUME UNCHANGED key, NEW h, NEW l, Tape(h, l)
  PROVE  Tape(h, l)'
BY DEF Tape, Turn, Mixed, Streamed, Start, Fresh

LEMMA HidesStays ==
  ASSUME UNCHANGED plain, NEW h, NEW c, Hides(h, c)
  PROVE  Hides(h, c)'
BY DEF Hides, KeyByte

\* While the sender encrypts.
LEMMA LayingNext ==
  ASSUME RC4Inv, RC4Inv', Kinds, Encrypting, NEW h, Laying(h), Mix \/ Stream
  PROVE  \E g : Laying(g)'
<1>1. /\ UNCHANGED <<side, plain, key, input>> /\ pc \in {"mix", "stream"}
  BY DEF Encrypting, Mix, Stream, args
<1>2. Position \in Nat /\ Len(cipher) \in Nat /\ Len(plain) \in Nat /\ N \in Nat
  BY PositionIsNat, CharIsNat
<1>3. PICK l : l = Position + 1
  OBVIOUS
<1>4. PICK g : /\ Tape(g, l) /\ g[l] = Turn(h[Position])
               /\ \A m \in 0 .. Position : g[m] = h[m]
  <2>1. PICK p \in Nat : p = Position /\ Tape(h, p)
    BY <1>2 DEF Laying
  <2>2. PICK g : /\ Tape(g, p + 1) /\ g[p + 1] = Turn(h[p])
                 /\ \A m \in 0 .. p : g[m] = h[m]
    BY ONLY <2>1, TapeGrows
  <2>3. l = p + 1
    BY <1>3, <2>1
  <2> QED
    BY <2>1, <2>2, <2>3, Zenon
<1>5. Tape(g, l)'
  BY <1>1, <1>4, TapeStays
<1>6. CASE Mix
  <2>1. /\ pc = "mix" /\ cipher = <<>> /\ cipher' = cipher
    BY <1>6 DEF Laying, Mix
  <2>2. Now' = Turn(Now) /\ Position' = l
    BY <1>3, <1>6, <2>1, TurnOfMix
  <2>3. g[l] = Now'
    BY <1>4, <2>2 DEF Laying
  <2>4. Hides(g, cipher)'
    <3>1. Len(cipher') = 0
      BY <2>1
    <3> QED
      BY <3>1 DEF Hides
  <2> QED
    BY <1>1, <1>5, <2>1, <2>2, <2>3, <2>4 DEF Laying
<1>7. CASE Stream
  <2>1. /\ Now' = Turn(Now) /\ KeyByte(Now') \in Octet
        /\ Len(cipher') = Len(cipher) + 1
        /\ cipher'[Len(cipher) + 1] = BitXor(KeyByte(Now'), input[Len(cipher) + 1])
        /\ \A m \in 1 .. Len(cipher) : cipher'[m] = cipher[m]
        /\ Position = N + 1 + Len(cipher) /\ Position' = l
    BY <1>3, <1>7, TurnOfStream
  <2>2. g[l] = Now'
    BY <1>4, <2>1 DEF Laying
  <2>3. Len(cipher') <= Len(plain) /\ pc' = "stream"
    <3>1. Len(cipher) < Len(plain) /\ pc' = "stream"
      BY <1>7 DEF Stream, Laying
    <3> QED
      BY <1>2, <2>1, <3>1
  <2>4. ASSUME NEW m \in 1 .. Len(cipher')
        PROVE  /\ KeyByte(g[N + 1 + m]) \in Octet
               /\ cipher'[m] = BitXor(KeyByte(g[N + 1 + m]), plain[m])
    <3>1. CASE m = Len(cipher) + 1
      <4>1. N + 1 + m = l
        BY <1>2, <1>3, <2>1, <3>1
      <4> QED
        BY <2>1, <2>2, <3>1, <4>1 DEF Laying
    <3>2. CASE m # Len(cipher) + 1
      <4>1. m \in 1 .. Len(cipher) /\ N + 1 + m \in 0 .. Position
        BY <1>2, <2>1, <3>2
      <4>2. g[N + 1 + m] = h[N + 1 + m]
        BY <1>4, <4>1
      <4> QED
        BY <2>1, <4>1, <4>2 DEF Laying, Hides
    <3> QED
      BY <3>1, <3>2
  <2>5. Hides(g, cipher)'
    BY <1>1, <2>4 DEF Hides, KeyByte
  <2> QED
    BY <1>1, <1>5, <2>1, <2>2, <2>3, <2>5 DEF Laying
<1> QED
  BY <1>6, <1>7

\* While the receiver decrypts.
LEMMA PlayingTurn ==
  ASSUME RC4Inv, RC4Inv', Kinds, side = "receiver",
         NEW h, NEW c, Laid(h, c), Playing(h), Mix \/ Stream
  PROVE  Playing(h)'
<1>1. /\ UNCHANGED <<side, plain, prefix, key, input, text>> /\ pc \in {"mix", "stream"}
  BY DEF Mix, Stream, args, writer
<1>2. Position \in Nat /\ Len(cipher) \in Nat /\ Len(plain) \in Nat /\ N \in Nat
  BY PositionIsNat, CharIsNat
<1>3. /\ Len(input) = Len(plain)
      /\ \A m \in 1 .. Len(plain) : input[m] = OctetAt(text, Len(prefix) + m - 1)
      /\ \A m \in 1 .. Len(cipher) : cipher[m] = BitXor(KeyByte(h[N + 1 + m]), input[m])
      /\ h[Position] = Now
  BY <1>1 DEF Playing
<1>4. \A m \in 0 .. (N + 1 + Len(plain)) - 1 : h[m + 1] = Turn(h[m])
  BY DEF Laid, Tape
<1>5. \A m \in 1 .. Len(plain') : input'[m] = OctetAt(text', Len(prefix') + m - 1)
  BY <1>1, <1>3
<1>6. CASE Mix
  <2>1. pc = "mix" /\ cipher = <<>> /\ cipher' = cipher /\ pc' # "read"
    BY <1>6 DEF Playing, Mix
  <2>2. Now' = Turn(Now) /\ Position' = Position + 1
    BY <1>6, <2>1, TurnOfMix
  <2>3. Position \in 0 .. (N + 1 + Len(plain)) - 1
    <3>1. Position <= N
      BY <1>2, <2>1 DEF Position, RC4Inv
    <3> QED
      BY <1>2, <3>1
  <2>4. h[Position'] = Now'
    BY <1>3, <1>4, <2>2, <2>3
  <2>5. Len(cipher') = 0 /\ Len(cipher') <= Len(plain')
    BY <1>1, <1>2, <2>1
  <2> QED
    BY <1>1, <1>3, <1>5, <2>1, <2>4, <2>5 DEF Playing
<1>7. CASE Stream
  <2>1. /\ Now' = Turn(Now) /\ Len(cipher') = Len(cipher) + 1
        /\ cipher'[Len(cipher) + 1] = BitXor(KeyByte(Now'), input[Len(cipher) + 1])
        /\ \A m \in 1 .. Len(cipher) : cipher'[m] = cipher[m]
        /\ Position = N + 1 + Len(cipher) /\ Position' = Position + 1
    BY <1>7, TurnOfStream
  <2>2. Len(cipher) < Len(plain) /\ pc' = "stream"
    BY <1>3, <1>7 DEF Stream
  <2>3. Position \in 0 .. (N + 1 + Len(plain)) - 1
    BY <1>2, <2>1, <2>2
  <2>4. h[Position'] = Now'
    BY <1>3, <1>4, <2>1, <2>3
  <2>5. Len(cipher') <= Len(plain')
    BY <1>1, <1>2, <2>1, <2>2
  <2>6. ASSUME NEW m \in 1 .. Len(cipher')
        PROVE  cipher'[m] = BitXor(KeyByte(h[N + 1 + m]), input'[m])
    <3>1. CASE m = Len(cipher) + 1
      <4>1. N + 1 + m = Position'
        BY <1>2, <2>1, <3>1
      <4> QED
        BY <1>1, <2>1, <2>4, <3>1, <4>1
    <3>2. CASE m # Len(cipher) + 1
      <4>1. m \in 1 .. Len(cipher)
        BY <1>2, <2>1, <3>2
      <4> QED
        BY <1>1, <1>3, <2>1, <4>1
    <3> QED
      BY <3>1, <3>2
  <2> QED
    BY <1>1, <1>3, <1>5, <2>2, <2>4, <2>5, <2>6 DEF Playing, KeyByte
<1> QED
  BY <1>6, <1>7

\* When the receiver has the bytes.
LEMMA PlayingStarts ==
  ASSUME Kinds, Kinds', WriteInv, NEW h, NEW c, Laid(h, c), Receive
  PROVE  Playing(h)'
<1>1. /\ UNCHANGED <<plain, prefix, key, text>> /\ pc' = "mix" /\ pc = "sent"
      /\ s' = Fresh /\ i' = 0 /\ j' = 0 /\ cipher' = <<>>
      /\ input' = [m \in 1 .. (3 * Len(result)) \div 4 - Len(prefix) |->
                     Byte(Len(prefix) + m - 1)]
  BY DEF Receive, writer
<1>2. /\ Len(plain) \in Nat /\ Len(prefix) \in Nat /\ Len(text) \in Nat
      /\ Len(result) \in Nat /\ Len(cipher') = 0 /\ N \in Nat
  BY <1>1, LenProperties, CharIsNat DEF Kinds
<1>3. Len(text) = Len(prefix) + Len(plain)
  <2>1. c \in Seq(Char) /\ Len(c) = Len(plain) /\ text = prefix \o c
    BY DEF Laid
  <2>2. Len(prefix \o c) = Len(prefix) + Len(c)
    <3>1. prefix \in Seq(Char) /\ Len(c) \in Nat
      BY <1>2, <2>1 DEF Kinds
    <3>2. PICK p, k, l : p = prefix /\ k = Len(p) /\ l = Len(c)
      OBVIOUS
    <3>3. p \in Seq(Char) /\ c \in Seq(Char) /\ k \in Nat /\ l \in Nat
      BY <1>2, <2>1, <3>1, <3>2
    <3>4. Len(p \o c) = k + l
      BY ONLY <3>2, <3>3, Concat
    <3> QED
      BY <3>2, <3>4
  <2> QED
    BY <2>1, <2>2
<1>4. LettersRight /\ Complete
  BY <1>1 DEF WriteInv
<1>5. (3 * Len(result)) \div 4 = Len(text)
  <2>1. PICK k \in Nat : 3 * Len(result) = 4 * Len(text) + k /\ k \in 0 .. 4 - 1
    <3>1. 3 * Len(result) - 4 * Len(text) \in 0 .. 4 - 1
      BY <1>2, <1>4 DEF Complete
    <3> QED
      BY <1>2, <3>1
  <2>2. 3 * Len(result) \in Nat
    BY <1>2
  <2> QED
    BY <1>2, <2>1, <2>2, DivisionIs
<1>6. (3 * Len(result)) \div 4 - Len(prefix) = Len(plain)
  BY <1>2, <1>3, <1>5
<1>7. input' = [m \in 1 .. Len(plain) |-> Byte(Len(prefix) + m - 1)]
  BY <1>1, <1>6
<1>8. Len(input') = Len(plain')
  <2>1. PICK k \in Nat, l \in Nat : k = Len(input') /\ l = Len(plain)
    BY <1>2, LenProperties DEF Kinds
  <2>2. DOMAIN input' = 1 .. k
    BY <2>1, LenProperties DEF Kinds
  <2>3. DOMAIN input' = 1 .. l
    BY <1>7, <2>1
  <2>4. k \in 1 .. l \/ k = 0
    BY <2>2, <2>3
  <2>5. l \in 1 .. k \/ l = 0
    BY <2>2, <2>3
  <2>6. k = l
    BY <2>4, <2>5
  <2> QED
    BY <1>1, <2>1, <2>6
<1>9. ASSUME NEW m \in 1 .. Len(plain)
      PROVE  input'[m] = OctetAt(text, Len(prefix) + m - 1)
  <2>1. Len(prefix) + m - 1 \in Nat /\ Len(prefix) + m - 1 < Len(text)
    BY <1>2, <1>3
  <2> QED
    BY <1>4, <1>7, <2>1, ByteIs DEF Kinds
<1>10. \A m \in 1 .. Len(plain') : input'[m] = OctetAt(text', Len(prefix') + m - 1)
  BY <1>1, <1>9
<1>11. h[Position'] = Now'
  <2>1. Position' = 0 /\ Now' = Start
    BY <1>1 DEF Position, Now, Start
  <2> QED
    BY <2>1 DEF Laid, Tape
<1>12. \A m \in 1 .. Len(cipher') : cipher'[m] = BitXor(KeyByte(h[N + 1 + m]), input'[m])
  BY <1>2
<1>13. Len(cipher') <= Len(plain') /\ pc' # "read"
  BY <1>1, <1>2
<1> QED
  BY <1>1, <1>8, <1>10, <1>11, <1>12, <1>13 DEF Playing, KeyByte

LEMMA LaidStays ==
  ASSUME UNCHANGED <<plain, prefix, key, text>>, NEW h, NEW c, Laid(h, c)
  PROVE  Laid(h, c)'
<1>1. PICK l : l = N + 1 + Len(plain)
  OBVIOUS
<1>2. Tape(h, l)'
  BY <1>1, TapeStays DEF Laid
<1>3. Hides(h, c)'
  BY HidesStays DEF Laid
<1> QED
  BY <1>1, <1>2, <1>3 DEF Laid

LEMMA ReadNext ==
  ASSUME RC4Inv, RC4Inv', Kinds, Kinds', WriteInv, ReadInv, [Next]_vars
  PROVE  ReadInv'
<1>1. CASE Encrypting /\ (Mix \/ Stream)
  <2>1. PICK h : Laying(h)
    BY <1>1 DEF ReadInv
  <2>2. \E g : Laying(g)'
    BY <1>1, <2>1, LayingNext
  <2>3. Encrypting' /\ pc' # "read"
    BY <1>1 DEF Encrypting, Mix, Stream, args
  <2> QED
    BY <2>2, <2>3 DEF ReadInv
<1>2. CASE StartWriting
  <2>1. /\ UNCHANGED <<side, plain, prefix, key>> /\ text' = prefix \o cipher
        /\ pc = "stream" /\ pc' = "write" /\ side = "sender" /\ Len(cipher) = Len(input)
    BY <1>2 DEF StartWriting, args
  <2>2. Encrypting /\ ~Encrypting'
    BY <2>1 DEF Encrypting
  <2>3. PICK h : Laying(h)
    BY <2>2 DEF ReadInv
  <2>4. Len(cipher) = Len(plain) /\ Position = N + 1 + Len(plain)
    BY <2>1, <2>3 DEF Laying, Position
  <2>5. PICK l : l = N + 1 + Len(plain)
    OBVIOUS
  <2>6. Tape(h, l)'
    BY <2>1, <2>3, <2>4, <2>5, TapeStays DEF Laying
  <2>7. PICK c : c = cipher
    OBVIOUS
  <2>8. Hides(h, c)'
    BY <2>1, <2>3, <2>7, HidesStays DEF Laying
  <2>9. Laid(h, c)'
    BY <2>1, <2>4, <2>5, <2>6, <2>7, <2>8 DEF Laid, Kinds
  <2> QED
    BY <2>1, <2>2, <2>9 DEF ReadInv
<1>3. CASE ~Encrypting /\ ~StartWriting
  <2>1. PICK h, c : Laid(h, c) /\ (side = "receiver" => Playing(h))
    BY <1>3 DEF ReadInv
  <2>2. UNCHANGED <<plain, prefix, key, text>>
    BY <1>3 DEF Next, Mix, Stream, Write, Receive, FinishReading, Done, vars, args, writer
  <2>3. Laid(h, c)'
    BY <2>1, <2>2, LaidStays
  <2>4. CASE Mix \/ Stream
    <3>1. side = "receiver" /\ side' = "receiver" /\ pc' # "read"
      BY <1>3, <2>4 DEF Encrypting, Mix, Stream, args, Kinds
    <3>2. Playing(h)'
      BY <2>1, <2>4, <3>1, PlayingTurn
    <3> QED
      BY <2>3, <3>1, <3>2 DEF ReadInv, Encrypting
  <2>5. CASE Receive
    <3>1. side' = "receiver" /\ pc' = "mix"
      BY <2>5 DEF Receive
    <3>2. Playing(h)'
      BY <2>1, <2>5, PlayingStarts
    <3> QED
      BY <2>3, <3>1, <3>2 DEF ReadInv, Encrypting
  <2>6. CASE FinishReading
    <3>1. /\ side = "receiver" /\ side' = "receiver" /\ pc' = "read"
          /\ UNCHANGED <<plain, prefix, input, text, cipher>> /\ Len(cipher) = Len(input)
      BY <2>6 DEF FinishReading, args, rc4, writer
    <3>2. Playing(h)'
      BY <2>1, <3>1 DEF Playing, KeyByte
    <3> QED
      BY <2>3, <3>1, <3>2 DEF ReadInv, Encrypting
  <2>7. CASE Write
    <3>1. /\ UNCHANGED <<side, plain, prefix, input, text, cipher>>
          /\ pc = "write" /\ pc' \in {"write", "sent"}
      BY <2>7 DEF Write, args, rc4
    <3>2. Playing(h) => Playing(h)'
      BY <3>1 DEF Playing, KeyByte
    <3> QED
      BY <2>1, <2>3, <3>1, <3>2 DEF ReadInv, Encrypting
  <2>8. CASE Done \/ UNCHANGED vars
    <3>1. UNCHANGED <<side, plain, prefix, input, text, cipher, pc, s, i, j>>
      BY <2>8 DEF Done, vars, args, rc4, writer
    <3>2. Playing(h) => Playing(h)'
      BY <3>1 DEF Playing, KeyByte, Position, Now
    <3> QED
      BY <1>3, <2>1, <2>3, <3>1, <3>2 DEF ReadInv, Encrypting
  <2> QED
    BY <1>3, <2>4, <2>5, <2>6, <2>7, <2>8 DEF Next
<1>4. CASE Encrypting /\ UNCHANGED vars
  <2>1. UNCHANGED <<side, plain, key, input, text, cipher, pc, s, i, j>>
    BY <1>4 DEF vars, args, rc4, writer
  <2>2. PICK h : Laying(h)
    BY <1>4 DEF ReadInv
  <2>3. PICK l : l = Position
    OBVIOUS
  <2>4. l = Position' /\ Now' = Now
    BY <2>1, <2>3 DEF Position, Now
  <2>5. Tape(h, l)'
    BY <2>1, <2>2, <2>3, TapeStays DEF Laying
  <2>6. PICK c : c = cipher
    OBVIOUS
  <2>7. Hides(h, c)'
    BY <2>1, <2>2, <2>6, HidesStays DEF Laying
  <2>8. Laying(h)'
    BY <2>1, <2>2, <2>3, <2>4, <2>5, <2>6, <2>7 DEF Laying
  <2>9. Encrypting' /\ pc' # "read"
    BY <1>4, <2>1 DEF Encrypting
  <2> QED
    BY <2>8, <2>9 DEF ReadInv
<1>5. CASE Encrypting /\ (Write \/ Receive \/ FinishReading \/ Done)
  BY <1>5 DEF Encrypting, Write, Receive, FinishReading, Done
<1> QED
  BY <1>1, <1>2, <1>3, <1>4, <1>5 DEF Next

-----------------------------------------------------------------------------
(***************************************************************************)
(* Hidden and shown again with the same byte.                              *)
(***************************************************************************)
LEMMA ShownAgain ==
  ASSUME NEW k \in Octet, NEW p \in Char
  PROVE  /\ BitXor(k, BitXor(k, p) % N) = p % N
         /\ Wide(BitXor(k, p)) <=> Wide(p)
<1>1. k \in Char /\ BitXor(k, p) \in Char /\ ~Wide(k)
  BY CharIsNat, XorAssumption DEF Wide, Octet
<1>2. k % N = k
  <2>1. k = N * 0 + k /\ k \in Nat /\ k \in 0 .. N - 1
    BY CharIsNat DEF Octet
  <2> QED
    BY <2>1, CharIsNat, DivisionIs
<1>3. BitXor(k, BitXor(k, p)) % N = BitXor(k % N, BitXor(k, p) % N)
  BY <1>1, XorAssumption
<1>4. BitXor(k, BitXor(k, p)) = p
  BY <1>1, XorAssumption
<1> QED
  BY <1>1, <1>2, <1>3, <1>4, XorAssumption

\* A bit that falls onto the lowest one changes no other.
LEMMA SpoiledOnlyBelow ==
  ASSUME NEW c \in Char, NEW w \in Char
  PROVE  /\ Onto(c, w) \div 2 = (c % N) \div 2
         /\ ~Wide(w) => Onto(c, w) = c % N
<1>1. CASE Wide(w) /\ c % 2 = 0
  <2>1. PICK e : e = c % N
    OBVIOUS
  <2>2. e \in Nat /\ e % 2 = 0
    <3>1. PICK h \in Nat : N = 2 * h
      BY ByteAssumption, Even
    <3>2. PICK g \in Nat : c = 2 * g
      BY <1>1, CharIsNat, Even
    <3>3. PICK x \in Nat : c = N * x + e
      <4>1. N \in Nat /\ N > 0 /\ c \in Nat
        BY CharIsNat
      <4>2. c \div N \in Nat /\ c = N * (c \div N) + (c % N)
        BY <4>1, Division
      <4> QED
        BY <2>1, <4>2
    <3>4. e \in Nat
      BY <2>1, CharIsNat DEF Octet
    <3>5. PICK y \in Nat : y = h * x
      OBVIOUS
    <3>6. N * x = 2 * y
      BY <3>1, <3>5
    <3>7. e = 2 * (g - y)
      BY <3>2, <3>3, <3>4, <3>5, <3>6
    <3> QED
      BY ONLY <3>4, <3>7, g \in Nat, y \in Nat
  <2>3. (e + 1) \div 2 = e \div 2
    BY <2>2
  <2> QED
    BY <1>1, <2>1, <2>3 DEF Onto
<1>2. CASE ~(Wide(w) /\ c % 2 = 0)
  BY <1>2 DEF Onto
<1> QED
  BY <1>1, <1>2

LEMMA HalvesShown ==
  ASSUME NEW k \in Octet, NEW p \in Char, NEW y \in Octet,
         y \div 2 = (BitXor(k, p) % N) \div 2
  PROVE  BitXor(k, y) \div 2 = (p % N) \div 2
<1>1. PICK x \in Octet : x = BitXor(k, p) % N
  BY CharIsNat, XorAssumption
<1>2. k \in Char /\ x \in Char /\ y \in Char
  BY CharIsNat
<1>3. BitXor(k, y) \div 2 = BitXor(k \div 2, y \div 2)
  BY <1>2, XorAssumption
<1>4. BitXor(k, x) \div 2 = BitXor(k \div 2, x \div 2)
  BY <1>2, XorAssumption
<1> QED
  BY <1>1, <1>3, <1>4, ShownAgain

LEMMA ReadRight == ASSUME Kinds, ReadInv PROVE ReceiverReads
<1> SUFFICES ASSUME pc = "read"
             PROVE  /\ Len(cipher) = Len(plain)
                    /\ \A m \in DOMAIN plain :
                         IF SpoiledBy(m + 1)
                         THEN cipher[m] \div 2 = (plain[m] % N) \div 2
                         ELSE cipher[m] = plain[m] % N
  BY DEF ReceiverReads
<1>1. side = "receiver" /\ ~Encrypting
  BY DEF ReadInv, Encrypting
<1>2. PICK h, c : Laid(h, c) /\ Playing(h)
  BY <1>1 DEF ReadInv
<1>3. /\ Len(cipher) = Len(plain)
      /\ \A m \in 1 .. Len(plain) : input[m] = OctetAt(text, Len(prefix) + m - 1)
      /\ \A m \in 1 .. Len(plain) : cipher[m] = BitXor(KeyByte(h[N + 1 + m]), input[m])
  BY <1>2 DEF Playing
<1>4. /\ c \in Seq(Char) /\ Len(c) = Len(plain) /\ text = prefix \o c
      /\ \A m \in 1 .. Len(plain) :
           /\ KeyByte(h[N + 1 + m]) \in Octet
           /\ c[m] = BitXor(KeyByte(h[N + 1 + m]), plain[m])
  BY <1>2 DEF Laid, Hides
<1>5. PICK q : q = prefix
  OBVIOUS
<1>6. PICK r \in Nat, l \in Nat : q = prefix /\ r = Len(q) /\ r = Len(prefix) /\ l = Len(plain)
  BY <1>5, LenProperties DEF Kinds
<1>7. /\ q \in Seq(Char) /\ DOMAIN plain = 1 .. l /\ Len(text) = r + l
      /\ \A m \in 1 .. l : text[r + m] = c[m] /\ plain[m] \in Char /\ c[m] \in Char
      /\ text \in Seq(Char) /\ DOMAIN text = 1 .. Len(text)
  <2>1. q \in Seq(Char) /\ c \in Seq(Char) /\ r = Len(q) /\ l = Len(c)
    BY <1>4, <1>6 DEF Kinds
  <2>2. Len(q \o c) = r + l /\ \A m \in 1 .. l : (q \o c)[r + m] = c[m]
    BY ONLY <2>1, r \in Nat, l \in Nat, Concat
  <2>3. DOMAIN plain = 1 .. l /\ \A m \in 1 .. l : plain[m] \in Char /\ c[m] \in Char
    BY <1>4, <1>6, <2>1, LenProperties, ElementOfSeq DEF Kinds
  <2>4. text \in Seq(Char) /\ DOMAIN text = 1 .. Len(text)
    BY LenProperties DEF Kinds
  <2> QED
    BY <1>4, <1>6, <2>1, <2>2, <2>3, <2>4
<1>8. ASSUME NEW m \in 1 .. l
      PROVE  IF SpoiledBy(m + 1)
             THEN cipher[m] \div 2 = (plain[m] % N) \div 2
             ELSE cipher[m] = plain[m] % N
  <2>1. PICK k \in Octet, p \in Char :
          /\ k = KeyByte(h[N + 1 + m]) /\ p = plain[m] /\ c[m] = BitXor(k, p)
    BY <1>4, <1>6, <1>7
  <2>2. PICK at \in Nat : at = r + m - 1
    <3>1. m \in Nat /\ m >= 1
      OBVIOUS
    <3> QED
      BY <3>1
  <2>3. CodeAt(text, at) = c[m]
    <3>1. at + 1 = r + m /\ r + m \in 1 .. Len(text)
      BY <1>6, <1>7, <2>2
    <3> QED
      BY <1>7, <3>1 DEF CodeAt
  <2>4. PICK w \in Char : w = CodeAt(text, at + 1)
    BY <1>7, <2>2, CodeIsChar
  <2>5. cipher[m] = BitXor(k, OctetAt(text, at))
    BY <1>3, <1>6, <2>1, <2>2
  <2>6. CASE at % 3 = 2
    <3>1. OctetAt(text, at) = c[m] % N
      BY <2>3, <2>6 DEF OctetAt
    <3>2. cipher[m] = p % N
      BY <2>1, <2>5, <3>1, ShownAgain
    <3>3. ~SpoiledBy(m + 1)
      <4>1. Len(prefix) + (m + 1) = at + 2 /\ (at + 2) % 3 = 1
        BY <1>6, <2>2, <2>6
      <4> QED
        BY <4>1 DEF SpoiledBy
    <3> QED
      BY <2>1, <3>2, <3>3
  <2>7. CASE at % 3 # 2
    <3>1. OctetAt(text, at) = Onto(c[m], w)
      BY <2>3, <2>4, <2>7 DEF OctetAt
    <3>2. PICK y \in Octet : y = Onto(c[m], w)
      BY <1>7, <2>4, OntoIsOctet
    <3>3. y \div 2 = (BitXor(k, p) % N) \div 2 /\ (~Wide(w) => y = BitXor(k, p) % N)
      BY <1>7, <2>1, <2>4, <3>2, SpoiledOnlyBelow
    <3>4. cipher[m] \div 2 = (p % N) \div 2
      BY <2>5, <3>1, <3>2, <3>3, HalvesShown
    <3>5. ~Wide(w) => cipher[m] = p % N
      BY <2>5, <3>1, <3>2, <3>3, ShownAgain
    <3>6. Wide(w) => SpoiledBy(m + 1)
      <4> SUFFICES ASSUME Wide(w) PROVE SpoiledBy(m + 1)
        OBVIOUS
      <4>1. m + 1 \in 1 .. l
        <5>1. CASE m = l
          <6>1. at + 1 >= Len(text)
            BY <1>6, <1>7, <2>2, <5>1
          <6>2. w = 0
            BY <1>7, <2>2, <2>4, <6>1, NothingBehind
          <6> QED
            BY <6>2, CharIsNat DEF Wide
        <5> QED
          BY <1>6, <5>1
      <4>2. w = c[m + 1]
        <5>1. (at + 1) + 1 = r + (m + 1) /\ r + (m + 1) \in 1 .. Len(text)
          BY <1>6, <1>7, <2>2, <4>1
        <5>2. (at + 1) + 1 \in DOMAIN text
          BY <1>7, <5>1
        <5>3. w = text[(at + 1) + 1]
          BY <2>4, <5>2, Zenon DEF CodeAt
        <5>4. text[r + (m + 1)] = c[m + 1]
          BY <1>7, <4>1
        <5> QED
          BY <5>1, <5>3, <5>4, Zenon
      <4>3. Wide(plain[m + 1])
        <5>1. /\ KeyByte(h[N + 1 + (m + 1)]) \in Octet /\ plain[m + 1] \in Char
              /\ c[m + 1] = BitXor(KeyByte(h[N + 1 + (m + 1)]), plain[m + 1])
          BY <1>4, <1>6, <1>7, <4>1
        <5> QED
          BY <4>2, <5>1, ShownAgain
      <4>4. (Len(prefix) + (m + 1)) % 3 # 1
        BY <1>6, <2>2, <2>7
      <4> QED
        BY <1>7, <4>1, <4>3, <4>4 DEF SpoiledBy
    <3> QED
      BY <2>1, <3>4, <3>5, <3>6
  <2> QED
    BY <2>6, <2>7
<1> QED
  BY <1>3, <1>7, <1>8

(***************************************************************************)
(* The receiver reads what was encrypted, but for the lowest bit of a      *)
(* character before a wide one: the sender's tape of rc4_encrypt is played *)
(* again, the letters give every byte back, and ^ undoes itself.           *)
(***************************************************************************)
THEOREM WhatIsRead == Spec => []ReceiverReads
<1>1. Init => RC4Inv /\ Kinds /\ WriteInv /\ ReadInv
  BY RC4Init, KindsInit, WriteInit, ReadInit
<1>2. RC4Inv /\ Kinds /\ WriteInv /\ ReadInv /\ [Next]_vars
        => (RC4Inv /\ Kinds /\ WriteInv /\ ReadInv)'
  BY RC4Next, KindsNext, WriteNext, ReadNext
<1>3. Kinds /\ ReadInv => ReceiverReads
  BY ReadRight
<1> QED
  BY <1>1, <1>2, <1>3, PTL DEF Spec

-----------------------------------------------------------------------------
(***************************************************************************)
(* The seal: characters may be taken into XorAll in any order.             *)
(***************************************************************************)
LEMMA XorMoves ==
  ASSUME NEW x \in Char, NEW y \in Char, NEW z \in Char
  PROVE  BitXor(BitXor(x, y), z) = BitXor(BitXor(x, z), y)
<1>1. BitXor(BitXor(x, y), z) = BitXor(x, BitXor(y, z))
  BY XorAssumption
<1>2. BitXor(BitXor(x, z), y) = BitXor(x, BitXor(z, y))
  BY XorAssumption
<1>3. BitXor(y, z) = BitXor(z, y)
  BY XorAssumption
<1> QED
  BY <1>1, <1>2, <1>3

\* r is q without its k-th character.
Without(q, k, r) ==
  /\ Len(r) = Len(q) - 1
  /\ \A m \in 1 .. k - 1 : r[m] = q[m]
  /\ \A m \in k .. Len(q) - 1 : r[m] = q[m + 1]

LEMMA TakenOut ==
  ASSUME NEW q \in Seq(Char), NEW r \in Seq(Char), NEW k \in 1 .. Len(q),
         Without(q, k, r)
  PROVE  XorAll(q) = BitXor(XorAll(r), q[k])
<1>1. PICK l \in Nat : l = Len(q) /\ l - 1 = Len(r)
  BY DEF Without
<1>2. PICK x \in [0 .. l -> Char] :
        /\ x[0] = 0 /\ XorAll(q) = x[l]
        /\ \A m \in 1 .. l : x[m] = BitXor(x[m - 1], q[m])
  BY <1>1, XorAllIs
<1>3. PICK y \in [0 .. l - 1 -> Char] :
        /\ y[0] = 0 /\ XorAll(r) = y[l - 1]
        /\ \A m \in 1 .. l - 1 : y[m] = BitXor(y[m - 1], r[m])
  BY ZenonT(30), <1>1, XorAllIs
<1>4. \A m \in 1 .. l : q[m] \in Char
  BY <1>1, ElementOfSeq
<1>5. /\ k \in 1 .. l
      /\ \A m \in 1 .. k - 1 : r[m] = q[m]
      /\ \A m \in k .. l - 1 : r[m] = q[m + 1]
  BY <1>1 DEF Without
<1> DEFINE Same(m) == IF m < k THEN x[m] = y[m] ELSE x[m] = BitXor(y[m - 1], q[k])
           Bad == {m \in 0 .. l : ~Same(m)}
<1>6. CASE Bad = {}
  <2>1. l \in 0 .. l /\ ~(l < k)
    BY <1>5
  <2>2. Same(l)
    BY <1>6, <2>1
  <2> QED
    BY <1>2, <1>3, <2>1, <2>2
<1>7. CASE Bad # {}
  <2>1. PICK m \in Bad : \A j0 \in Bad : m <= j0
    <3>1. Bad \subseteq Nat
      OBVIOUS
    <3> QED
      BY <1>7, <3>1, LeastNumber
  <2>2. m \in 1 .. l
    BY <1>2, <1>3, <1>5, <2>1
  <2>3. Same(m - 1)
    <3>1. m - 1 \in 0 .. l /\ m - 1 \notin Bad
      BY <2>1, <2>2
    <3> QED
      BY <3>1
  <2>4. x[m] = BitXor(x[m - 1], q[m])
    BY <1>2, <2>2
  <2>5. CASE m < k
    <3>1. m \in 1 .. k - 1 /\ m \in 1 .. l - 1 /\ m - 1 < k
      BY <1>5, <2>2, <2>5
    <3>2. x[m - 1] = y[m - 1] /\ y[m] = BitXor(y[m - 1], r[m]) /\ r[m] = q[m]
      BY <1>3, <1>5, <2>3, <3>1
    <3> QED
      BY <2>1, <2>4, <2>5, <3>2
  <2>6. CASE m = k
    <3>1. x[m - 1] = y[m - 1] /\ ~(m < k)
      BY <1>5, <2>2, <2>3, <2>6
    <3> QED
      BY <2>1, <2>4, <2>6, <3>1
  <2>7. CASE m > k
    <3>1. /\ ~(m - 1 < k) /\ ~(m < k) /\ m - 1 \in k .. l - 1 /\ m - 1 \in 1 .. l - 1
          /\ (m - 1) + 1 = m /\ (m - 1) - 1 \in 0 .. l - 1 /\ m \in 1 .. l
      BY <1>5, <2>2, <2>7
    <3>2. x[m - 1] = BitXor(y[(m - 1) - 1], q[k])
      BY <2>3, <3>1
    <3>3. y[m - 1] = BitXor(y[(m - 1) - 1], q[m])
      BY <1>3, <1>5, <3>1
    <3>4. y[(m - 1) - 1] \in Char /\ q[k] \in Char /\ q[m] \in Char
      BY <1>3, <1>4, <1>5, <3>1
    <3>5. BitXor(BitXor(y[(m - 1) - 1], q[k]), q[m])
            = BitXor(BitXor(y[(m - 1) - 1], q[m]), q[k])
      BY <3>4, XorMoves
    <3>6. x[m] = BitXor(y[m - 1], q[k])
      BY <2>4, <3>2, <3>3, <3>5
    <3> QED
      BY <2>1, <3>1, <3>6
  <2> QED
    BY <1>5, <2>2, <2>5, <2>6, <2>7
<1> QED
  BY <1>6, <1>7

\* The places of l characters, there and back.
Rearranged(l, q, r, to, back) ==
  /\ to \in [1 .. l -> 1 .. l] /\ back \in [1 .. l -> 1 .. l]
  /\ \A m \in 1 .. l : r[m] = q[to[m]] /\ back[to[m]] = m /\ to[back[m]] = m

\* Without the last character of q, wherever it is in r.
LEMMA OneFewer ==
  ASSUME NEW l \in Nat \ {0}, NEW q \in Seq(Char), NEW r \in Seq(Char),
         Len(q) = l, Len(r) = l, NEW to, NEW back, Rearranged(l, q, r, to, back)
  PROVE  \E q1, r1 \in Seq(Char) : \E to1, back1 : \E k \in 1 .. l :
           /\ Without(q, l, q1) /\ Without(r, k, r1) /\ r[k] = q[l]
           /\ Rearranged(l - 1, q1, r1, to1, back1)
<1>1. /\ to \in [1 .. l -> 1 .. l] /\ back \in [1 .. l -> 1 .. l]
      /\ \A m \in 1 .. l : r[m] = q[to[m]] /\ back[to[m]] = m /\ to[back[m]] = m
      /\ \A m \in 1 .. l : q[m] \in Char /\ r[m] \in Char
  BY ElementOfSeq DEF Rearranged
<1>2. PICK k \in 1 .. l : k = back[l] /\ to[k] = l /\ r[k] = q[l]
  <2>1. l \in 1 .. l
    OBVIOUS
  <2> QED
    BY <1>1, <2>1
<1> DEFINE Over(m) == IF m < k THEN m ELSE m + 1
           Back(m) == IF m < k THEN m ELSE m - 1
           q1 == [m \in 1 .. l - 1 |-> q[m]]
           r1 == [m \in 1 .. l - 1 |-> r[Over(m)]]
           to1 == [m \in 1 .. l - 1 |-> to[Over(m)]]
           back1 == [m \in 1 .. l - 1 |-> Back(back[m])]
<1>3. ASSUME NEW m \in 1 .. l - 1
      PROVE  /\ Over(m) \in 1 .. l /\ Over(m) # k /\ m \in 1 .. l /\ m # l
             /\ Back(Over(m)) = m
  OBVIOUS
<1>4. ASSUME NEW m \in 1 .. l, m # k
      PROVE  Back(m) \in 1 .. l - 1 /\ Over(Back(m)) = m
  BY <1>4
<1> HIDE DEF Over, Back
<1>5. ASSUME NEW m \in 1 .. l - 1
      PROVE  /\ to[Over(m)] \in 1 .. l - 1
             /\ back[m] \in 1 .. l /\ back[m] # k
  <2>1. to[Over(m)] \in 1 .. l /\ back[to[Over(m)]] = Over(m)
    BY <1>1, <1>3
  <2>2. to[Over(m)] # l
    BY <1>2, <1>3, <2>1
  <2>3. back[m] \in 1 .. l /\ to[back[m]] = m /\ m # l
    BY <1>1, <1>3
  <2>4. back[m] # k
    BY <1>2, <2>3
  <2> QED
    BY <2>1, <2>2, <2>3, <2>4
<1>6. q1 \in Seq(Char) /\ Len(q1) = l - 1 /\ r1 \in Seq(Char) /\ Len(r1) = l - 1
  <2>1. q1 \in [1 .. l - 1 -> Char] /\ r1 \in [1 .. l - 1 -> Char]
    BY <1>1, <1>3
  <2>2. \A f \in [1 .. l - 1 -> Char] : f \in Seq(Char) /\ Len(f) = l - 1
    OBVIOUS
  <2> QED
    BY <2>1, <2>2
<1>7. Without(q, l, q1)
  BY <1>6 DEF Without
<1>8. Without(r, k, r1)
  BY <1>6 DEF Without, Over
<1>9. to1 \in [1 .. l - 1 -> 1 .. l - 1] /\ back1 \in [1 .. l - 1 -> 1 .. l - 1]
  BY <1>4, <1>5
<1>10. ASSUME NEW m \in 1 .. l - 1
       PROVE  r1[m] = q1[to1[m]] /\ back1[to1[m]] = m /\ to1[back1[m]] = m
  <2>1. to1[m] = to[Over(m)] /\ to1[m] \in 1 .. l - 1 /\ r1[m] = r[Over(m)]
    BY <1>5
  <2>2. r[Over(m)] = q[to[Over(m)]] /\ back[to[Over(m)]] = Over(m)
    BY <1>1, <1>3
  <2>3. back1[to1[m]] = Back(Over(m))
    BY <2>1, <2>2
  <2>4. back1[m] = Back(back[m]) /\ Back(back[m]) \in 1 .. l - 1
        /\ Over(Back(back[m])) = back[m]
    BY <1>4, <1>5
  <2>5. to1[back1[m]] = to[back[m]]
    BY <2>4
  <2>6. to[back[m]] = m
    BY <1>1, <1>3
  <2> QED
    BY <1>3, <2>1, <2>2, <2>3, <2>5, <2>6
<1>11. Rearranged(l - 1, q1, r1, to1, back1)
  BY <1>9, <1>10 DEF Rearranged
<1> HIDE DEF q1, r1, to1, back1
<1> QED
  BY <1>2, <1>6, <1>7, <1>8, <1>11

LEMMA AnyOrder ==
  ASSUME NEW c \in Nat, NEW q \in Seq(Char), NEW r \in Seq(Char),
         Len(q) = c, Len(r) = c, NEW to, NEW back, Rearranged(c, q, r, to, back)
  PROVE  XorAll(q) = XorAll(r)
<1> DEFINE Alike(l) ==
             \A f, g \in Seq(Char) : \A go, come :
               Len(f) = l /\ Len(g) = l /\ Rearranged(l, f, g, go, come)
                 => XorAll(f) = XorAll(g)
           Bad == {l \in Nat : ~Alike(l)}
<1>1. CASE Bad = {}
  <2>1. Alike(c)
    BY <1>1
  <2> HIDE DEF Bad
  <2> QED
    BY <2>1
<1>2. CASE Bad # {}
  <2>1. PICK l \in Bad : \A m \in Bad : l <= m
    <3>1. Bad \subseteq Nat
      OBVIOUS
    <3> HIDE DEF Bad
    <3> QED
      BY <1>2, <3>1, LeastNumber
  <2>2. l \in Nat /\ ~Alike(l)
    BY <2>1
  <2>3. l # 0 => l - 1 \in Nat /\ Alike(l - 1)
    <3>1. l # 0 => l - 1 \in Nat /\ l - 1 \notin Bad
      BY <2>1, <2>2
    <3> QED
      BY <3>1
  <2>4. PICK f \in Seq(Char), g \in Seq(Char) : \E go, come :
          /\ Len(f) = l /\ Len(g) = l /\ Rearranged(l, f, g, go, come)
          /\ XorAll(f) # XorAll(g)
    BY <2>2
  <2>5. PICK go, come : /\ Len(f) = l /\ Len(g) = l /\ Rearranged(l, f, g, go, come)
                        /\ XorAll(f) # XorAll(g)
    BY <2>4
  <2>6. CASE l = 0
    <3>1. XorAll(f) = 0 /\ XorAll(g) = 0
      BY <2>5, <2>6, XorAllIs
    <3> QED
      BY <2>5, <3>1
  <2>7. CASE l # 0
    <3>1. l \in Nat \ {0}
      BY <2>2, <2>7
    <3>2. PICK f1 \in Seq(Char), g1 \in Seq(Char) : \E go1, come1 : \E k \in 1 .. l :
            /\ Without(f, l, f1) /\ Without(g, k, g1) /\ g[k] = f[l]
            /\ Rearranged(l - 1, f1, g1, go1, come1)
      BY <2>5, <3>1, OneFewer
    <3>3. PICK go1, come1, k :
            /\ k \in 1 .. l
            /\ Without(f, l, f1) /\ Without(g, k, g1) /\ g[k] = f[l]
            /\ Rearranged(l - 1, f1, g1, go1, come1)
      BY <3>2
    <3>4. Len(f1) = l - 1 /\ Len(g1) = l - 1 /\ l \in 1 .. Len(f) /\ k \in 1 .. Len(g)
      BY <2>5, <3>1, <3>3 DEF Without
    <3>5. XorAll(f1) = XorAll(g1)
      BY <2>3, <2>7, <3>3, <3>4
    <3>6. XorAll(f) = BitXor(XorAll(f1), f[l])
      BY <3>3, <3>4, TakenOut
    <3>7. XorAll(g) = BitXor(XorAll(g1), g[k])
      BY <3>3, <3>4, TakenOut
    <3> QED
      BY <2>5, <3>3, <3>5, <3>6, <3>7
  <2> QED
    BY <2>6, <2>7
<1> QED
  BY <1>1, <1>2

\* Two characters of nine bits make one of eight.
LEMMA TwoWide ==
  ASSUME NEW q \in Seq(Char), NEW a \in 1 .. Len(q), NEW c \in 1 .. Len(q), a < c,
         \A m \in 1 .. Len(q) : Wide(q[m]) <=> m \in {a, c}
  PROVE  XorAll(q) \in Octet
<1>1. PICK l \in Nat : l = Len(q)
  OBVIOUS
<1>2. PICK x \in [0 .. l -> Char] :
        /\ x[0] = 0 /\ XorAll(q) = x[l]
        /\ \A m \in 1 .. l : x[m] = BitXor(x[m - 1], q[m])
  BY <1>1, XorAllIs
<1>3. /\ a \in 1 .. l /\ c \in 1 .. l
      /\ \A m \in 1 .. l : q[m] \in Char /\ (Wide(q[m]) <=> m \in {a, c})
  BY <1>1, ElementOfSeq
<1> DEFINE Bad == {m \in 0 .. l : ~(Wide(x[m]) <=> m \in a .. c - 1)}
<1>4. CASE Bad = {}
  <2>1. l \in 0 .. l /\ l \notin a .. c - 1
    BY <1>3
  <2>2. ~Wide(x[l]) /\ x[l] \in Char
    BY <1>2, <1>4, <2>1
  <2> QED
    BY <1>2, <2>2, CharIsNat DEF Wide, Octet
<1>5. CASE Bad # {}
  <2>1. PICK m \in Bad : \A j0 \in Bad : m <= j0
    <3>1. Bad \subseteq Nat
      OBVIOUS
    <3> QED
      BY <1>5, <3>1, LeastNumber
  <2>2. m # 0
    <3>1. ~Wide(x[0]) /\ 0 \notin a .. c - 1
      BY <1>2, <1>3, CharIsNat DEF Wide
    <3> QED
      BY <2>1, <3>1
  <2>3. m \in 1 .. l /\ m - 1 \in 0 .. l
    BY <2>1, <2>2
  <2>4. Wide(x[m - 1]) <=> m - 1 \in a .. c - 1
    <3>1. m - 1 \notin Bad
      BY <2>1, <2>3
    <3> QED
      BY <2>3, <3>1
  <2>5. Wide(x[m]) <=> (Wide(x[m - 1]) <=> ~Wide(q[m]))
    <3>1. x[m - 1] \in Char /\ q[m] \in Char /\ x[m] = BitXor(x[m - 1], q[m])
      BY <1>2, <1>3, <2>3
    <3>2. \A y, z \in Char : Wide(BitXor(y, z)) <=> (Wide(y) <=> ~Wide(z))
      BY XorAssumption
    <3>3. PICK y \in Char, z \in Char :
            y = x[m - 1] /\ z = q[m] /\ x[m] = BitXor(y, z)
      BY <3>1
    <3>4. Wide(BitXor(y, z)) <=> (Wide(y) <=> ~Wide(z))
      BY <3>2
    <3> QED
      BY <3>3, <3>4, Zenon
  <2>6. m \in a .. c - 1 <=> (m - 1 \in a .. c - 1 <=> m \notin {a, c})
    BY <1>3, <2>3
  <2> QED
    BY <1>3, <2>1, <2>3, <2>4, <2>5, <2>6
<1> QED
  BY <1>4, <1>5

\* The places of the array bb but for b[34], and where each is in Terms.
Rest ==
  <<18, 20, 52, 26, 30, 58, 38, 40, 53, 42, 21, 27, 54, 55, 31, 35,
    57, 39, 41, 43, 22, 28, 32, 60, 36, 23, 29, 33, 37, 44, 45, 59,
    46, 47, 48, 49, 50, 24, 25, 65, 66, 70, 71>>
ToRest ==
  <<1, 2, 4, 5, 7, 8, 10, 11, 12, 15, 16, 18, 19, 20, 21, 22, 23, 25,
    26, 27, 28, 29, 30, 31, 33, 34, 35, 36, 37, 38, 39, 3, 9, 13, 14,
    17, 6, 32, 24, 40, 41, 42, 43>>
ToTerms ==
  <<1, 2, 32, 3, 4, 37, 5, 6, 33, 7, 8, 9, 34, 35, 10, 11, 36, 12, 13,
    14, 15, 16, 17, 39, 18, 19, 20, 21, 22, 23, 24, 38, 25, 26, 27,
    28, 29, 30, 31, 40, 41, 42, 43>>

\* c characters, one of Order's the sixth; in Terms as in Rest.
Spots == 18 .. 71
OrderIs(c) ==
  /\ Order \in Seq(Spots) /\ Len(Order) = c + 1
  /\ Rest \in Seq(Spots) /\ Len(Rest) = c
  /\ \A m \in 1 .. 6 - 1 : Rest[m] = Order[m]
  /\ \A m \in 6 .. (c + 1) - 1 : Rest[m] = Order[m + 1]
TermsAre(c) ==
  /\ Terms \in Seq(Spots) /\ Len(Terms) = c
  /\ ToRest \in [1 .. c -> 1 .. c] /\ ToTerms \in [1 .. c -> 1 .. c]
  /\ \A m \in 1 .. c :
       /\ Terms[m] = Rest[ToRest[m]]
       /\ ToTerms[ToRest[m]] = m /\ ToRest[ToTerms[m]] = m
       /\ Terms[m] \in {24, 49} <=> m \in {28, 30}

LEMMA PlacesMatch == \E c \in Nat : c = 43 /\ OrderIs(c) /\ TermsAre(c)
<1>1. OrderIs(43)
  BY DEF OrderIs, Spots, Rest, Order
<1>2. TermsAre(43)
  BY DEF TermsAre, Spots, Terms, Rest, ToRest, ToTerms
<1> QED
  BY <1>1, <1>2

LEMMA PickedAt ==
  ASSUME NEW x \in Facts, NEW places \in Seq(Spots), NEW c \in Nat, c = Len(places)
  PROVE  \E p \in Seq(Char) :
           /\ p = Picked(x, places) /\ Len(p) = c
           /\ \A m \in 1 .. c : p[m] = b(x)[places[m]] /\ places[m] \in Spots
<1>1. PICK p : p = Picked(x, places)
  OBVIOUS
<1>2. p \in Seq(Char) /\ Len(p) = c /\ \A m \in 1 .. c : p[m] = b(x)[places[m]]
  <2>1. places \in Seq(18 .. 71)
    BY Zenon DEF Spots
  <2>2. /\ Picked(x, places) \in Seq(Char)
        /\ Len(Picked(x, places)) = Len(places)
        /\ \A m \in 1 .. Len(places) : Picked(x, places)[m] = b(x)[places[m]]
    BY <2>1, PickedIsString, Zenon
  <2> QED
    BY <1>1, <2>2, c = Len(places), Zenon
<1>3. \A m \in 1 .. c : places[m] \in Spots
  BY ElementOfSeq
<1> QED
  BY <1>1, <1>2, <1>3

\* The seal makes all the bytes but one come to nothing.
LEMMA SealIs ==
  ASSUME NEW x \in Facts
  PROVE  LET seal == XorAll(Picked(x, Terms))
         IN  /\ seal \in Octet
             /\ XorAll(Picked(x, Order)) = BitXor(seal, Picked(x, Order)[6])
<1>1. PICK c \in Nat : c = 43 /\ OrderIs(c) /\ TermsAre(c)
  BY PlacesMatch
<1>2. /\ 28 \in 1 .. c /\ 30 \in 1 .. c /\ 6 \in 1 .. c + 1
      /\ \A m \in 1 .. 6 - 1 : m \in 1 .. c /\ m \in 1 .. c + 1
      /\ \A m \in 6 .. (c + 1) - 1 : m \in 1 .. c /\ m + 1 \in 1 .. c + 1
  BY <1>1
<1>3. Order \in Seq(Spots) /\ Len(Order) = c + 1 /\ Rest \in Seq(Spots) /\ Len(Rest) = c
  BY <1>1 DEF OrderIs
<1>4. /\ \A m \in 1 .. 6 - 1 : Rest[m] = Order[m]
      /\ \A m \in 6 .. (c + 1) - 1 : Rest[m] = Order[m + 1]
  BY <1>1, Zenon DEF OrderIs
<1>5. Terms \in Seq(Spots) /\ Len(Terms) = c
  BY <1>1 DEF TermsAre
<1>6. /\ ToRest \in [1 .. c -> 1 .. c] /\ ToTerms \in [1 .. c -> 1 .. c]
      /\ \A m \in 1 .. c : ToTerms[ToRest[m]] = m /\ ToRest[ToTerms[m]] = m
  BY <1>1, Zenon DEF TermsAre
<1>7. \A m \in 1 .. c : Terms[m] = Rest[ToRest[m]]
  BY <1>1, Zenon DEF TermsAre
<1>8. \A m \in 1 .. c : Terms[m] \in {24, 49} <=> m \in {28, 30}
  BY <1>1, Zenon DEF TermsAre
<1>9. PICK t \in Seq(Char) :
        /\ t = Picked(x, Terms) /\ Len(t) = c
        /\ \A m \in 1 .. c : t[m] = b(x)[Terms[m]] /\ Terms[m] \in Spots
  BY <1>5, PickedAt
<1>10. PICK p \in Seq(Char) :
        /\ p = Picked(x, Order) /\ Len(p) = c + 1
        /\ \A m \in 1 .. c + 1 : p[m] = b(x)[Order[m]]
  BY <1>3, PickedAt
<1>11. PICK r \in Seq(Char) :
        /\ r = Picked(x, Rest) /\ Len(r) = c
        /\ \A m \in 1 .. c : r[m] = b(x)[Rest[m]]
  BY <1>3, PickedAt
<1>12. XorAll(t) \in Octet
  <2>1. \A m \in 1 .. c : Wide(t[m]) <=> m \in {28, 30}
    <3>1. \A m \in Spots : Wide(b(x)[m]) <=> m \in {24, 49}
      BY BytesOfBlock, Zenon DEF Spots
    <3> QED
      BY <1>9, <1>8, <3>1, ZenonT(40)
  <2>2. PICK y, z : y = 28 /\ z = 30
    OBVIOUS
  <2>3. y \in 1 .. Len(t) /\ z \in 1 .. Len(t) /\ y < z
    BY <1>2, <1>9, <2>2
  <2>4. \A m \in 1 .. Len(t) : Wide(t[m]) <=> m \in {y, z}
    BY <1>9, <2>1, <2>2
  <2> QED
    BY <2>3, <2>4, TwoWide
<1>13. XorAll(p) = BitXor(XorAll(r), p[6])
  <2>1. Without(p, 6, r)
    <3>1. \A m \in 1 .. 6 - 1 : r[m] = p[m]
      BY <1>2, <1>10, <1>11, <1>4
    <3>2. \A m \in 6 .. (c + 1) - 1 : r[m] = p[m + 1]
      BY <1>2, <1>10, <1>11, <1>4
    <3>3. Len(r) = Len(p) - 1
      BY <1>10, <1>11
    <3> QED
      BY <1>10, <3>1, <3>2, <3>3 DEF Without
  <2>2. 6 \in 1 .. Len(p)
    BY <1>2, <1>10
  <2> QED
    BY <2>1, <2>2, TakenOut
<1>14. XorAll(r) = XorAll(t)
  <2>1. \A m \in 1 .. c : t[m] = r[ToRest[m]]
    <3>1. \A m \in 1 .. c : ToRest[m] \in 1 .. c
      BY <1>6
    <3>2. ASSUME NEW m \in 1 .. c PROVE t[m] = r[ToRest[m]]
      <4>1. t[m] = b(x)[Terms[m]] /\ Terms[m] = Rest[ToRest[m]]
        BY <1>9, <1>7
      <4>2. r[ToRest[m]] = b(x)[Rest[ToRest[m]]]
        BY <1>11, <3>1
      <4> QED
        BY <4>1, <4>2, Zenon
    <3> QED
      BY <3>2
  <2>2. Rearranged(c, r, t, ToRest, ToTerms)
    BY <1>6, <2>1 DEF Rearranged
  <2> QED
    BY <1>9, <1>11, <2>2, AnyOrder
<1> QED
  BY <1>9, <1>10, <1>12, <1>13, <1>14, Zenon

SealInv == sealed => \E x \in Facts : plain = Block(x)

LEMMA SealHolds == ASSUME SealInv PROVE SealFits
<1> SUFFICES ASSUME sealed
             PROVE  /\ plain[Len(plain)] < N
                    /\ XorAll(SubSeq(plain, 1, Len(Order)) \o <<plain[Len(plain)]>>)
                         = plain[6]
  BY DEF SealFits
<1>1. PICK x \in Facts : plain = Block(x)
  BY DEF SealInv
<1>2. PICK c \in Nat : c = 44
  OBVIOUS
<1>3. PICK p \in Seq(Char) :
        p = Picked(x, Order) /\ Len(p) = c /\ \A m \in 1 .. c : p[m] = plain[m]
  <2>1. /\ Picked(x, Order) \in Seq(Char) /\ Len(Picked(x, Order)) = c
        /\ \A m \in 1 .. c : Block(x)[m] = Picked(x, Order)[m]
    BY <1>2, BlockIs
  <2> QED
    BY <1>1, <2>1
<1>4. PICK seal \in Octet :
        seal = XorAll(Picked(x, Terms)) /\ XorAll(p) = BitXor(seal, p[6])
  BY <1>3, SealIs
<1>5. plain[Len(plain)] = seal
  BY <1>1, <1>4, BlockIs, Zenon
<1>6. PICK u \in Seq(Char) :
        u = SubSeq(plain, 1, c) /\ Len(u) = c /\ \A m \in 1 .. c : u[m] = p[m]
  <2>1. plain \in Seq(Char) /\ Len(plain) = 44 + Len(x.window) + 1
    BY <1>1, BlockIs
  <2>2. Len(x.window) \in Nat
    BY BlockIs, LenProperties
  <2>3. c <= Len(plain)
    BY <1>2, <2>1, <2>2
  <2>4. /\ SubSeq(plain, 1, c) \in Seq(Char) /\ Len(SubSeq(plain, 1, c)) = c
        /\ \A m \in 1 .. c : SubSeq(plain, 1, c)[m] = plain[m]
    BY <2>1, <2>3
  <2> QED
    BY ZenonT(30), <1>3, <2>4
<1>7. PICK e \in Seq(Char) : e = <<seal>> /\ Len(e) = 1 /\ e[1] = seal
  <2>1. seal \in Char
    BY CharIsNat
  <2>2. <<seal>> \in Seq(Char) /\ Len(<<seal>>) = 1 /\ <<seal>>[1] = seal
    BY <2>1
  <2> QED
    BY <2>2, Zenon
<1>8. PICK z \in Seq(Char) :
        /\ z = u \o e /\ Len(z) = c + 1 /\ z[c + 1] = seal
        /\ \A m \in 1 .. c : z[m] = p[m]
  <2>1. /\ u \o e \in Seq(Char) /\ Len(u \o e) = c + 1
        /\ \A m \in 1 .. c : (u \o e)[m] = u[m]
        /\ \A m \in 1 .. 1 : (u \o e)[c + m] = e[m]
    <3>1. PICK k \in Nat : k = 1
      OBVIOUS
    <3>2. c = Len(u) /\ k = Len(e)
      BY <1>6, <1>7, <3>1
    <3>3. /\ u \o e \in Seq(Char) /\ Len(u \o e) = c + k
          /\ \A m \in 1 .. c : (u \o e)[m] = u[m]
          /\ \A m \in 1 .. k : (u \o e)[c + m] = e[m]
      BY ONLY <3>2, c \in Nat, k \in Nat, u \in Seq(Char), e \in Seq(Char), Concat
    <3> QED
      BY <3>1, <3>3
  <2>2. PICK z : z = u \o e
    OBVIOUS
  <2>3. /\ z \in Seq(Char) /\ Len(z) = c + 1 /\ z[c + 1] = e[1]
        /\ \A m \in 1 .. c : z[m] = u[m]
    BY <2>1, <2>2
  <2> QED
    BY SMTT(20), <1>6, <1>7, <2>2, <2>3
<1>9. XorAll(z) = BitXor(XorAll(p), seal)
  <2>1. (c + 1) - 1 = c /\ c + 1 \in 1 .. c + 1 /\ \A m \in c + 1 .. c : FALSE
    OBVIOUS
  <2>2. Without(z, c + 1, p)
    BY <1>3, <1>8, <2>1 DEF Without
  <2> QED
    BY <1>8, <2>1, <2>2, TakenOut
<1>10. p[6] \in Char /\ p[6] = plain[6]
  <2>1. 6 \in 1 .. c
    BY <1>2
  <2> QED
    BY <1>3, <2>1, ElementOfSeq
<1>11. BitXor(BitXor(seal, p[6]), seal) = p[6]
  <2>1. seal \in Char /\ BitXor(seal, p[6]) \in Char
    BY <1>10, CharIsNat, Xor
  <2>2. BitXor(BitXor(seal, p[6]), seal) = BitXor(seal, BitXor(seal, p[6]))
    BY <2>1, XorAssumption
  <2>3. BitXor(seal, BitXor(seal, p[6])) = p[6]
    BY <1>10, <2>1, XorAssumption
  <2> QED
    BY <2>2, <2>3
<1>12. SubSeq(plain, 1, Len(Order)) \o <<plain[Len(plain)]>> = z
  BY <1>2, <1>5, <1>6, <1>7, <1>8, OrderIsPlaces, Zenon
<1>13. plain[Len(plain)] < N
  BY <1>5, CharIsNat DEF Octet
<1> QED
  BY <1>4, <1>9, <1>10, <1>11, <1>12, <1>13, Zenon

(***************************************************************************)
(* The last character of a block is a byte whatever the times in it are,   *)
(* and brings all of the 44 bytes but b[34] together to nothing.           *)
(***************************************************************************)
THEOREM SealIsRight == Spec => []SealFits
<1>1. Init => SealInv
  BY DEF Init, SealInv
<1>2. SealInv /\ [Next]_vars => SealInv'
  BY DEF SealInv, Next, Mix, Stream, StartWriting, Write, Receive, FinishReading, Done,
         vars, args
<1>3. SealInv => SealFits
  BY SealHolds
<1> QED
  BY <1>1, <1>2, <1>3, PTL DEF Spec
=============================================================================
