-------------------------- MODULE ChatStore_proofs --------------------------
(***************************************************************************)
(* The message store: a row that has Douyin's message is at most written   *)
(* over by another own message of the same text, and no message of the     *)
(* peer is handed on twice, for any number of threads, texts, messages and *)
(* restarts, any claim window and any part of a conversation in an answer. *)
(***************************************************************************)
EXTENDS ChatStore, FiniteSetTheorems, SequenceTheorems,
        WellFoundedInduction, TLAPS

-----------------------------------------------------------------------------
(* The inductive invariant. *)

Sent == [me : BOOLEAN, text : Texts, at : 0 .. MaxTime]
Pending == [key : Nat, text : Texts, at : 0 .. MaxTime]

\* What a thread with the locals l asks about is there; the placeholders it
\* read are in use until it writes, and not longer.
Locals(l) ==
  /\ l.answer \subseteq 1 .. Len(server)
  /\ l.pc \in {"send", "floor", "append"} => l.text \in Texts
  /\ l.floor <= 0
  /\ l.pc # "write" => l.pending = {}

\* A row that was a placeholder when somebody read it as p still is, or it has
\* been claimed since, by an own message of the same text.
StillOwn(p) ==
  /\ p.key \in DOMAIN rows
  /\ rows[p.key].text = p.text
  /\ rows[p.key].id > 0 => server[rows[p.key].id].me
PendingOK(l) == \A p \in l.pending : StillOwn(p)

\* A row with Douyin's message has its text.
RowsAreSent ==
  \A k \in DOMAIN rows :
    /\ rows[k].id <= Len(server)
    /\ rows[k].id > 0 => server[rows[k].id].text = rows[k].text

\* What a poll is about to hand on was new: stored by this poll, handed on by
\* nobody, and in no other poll's hands.
Peers(l) == {m \in l.answer : m \notin l.known /\ ~server[m].me}
HandedIsStored ==
  \A m \in DOMAIN handed :
    handed[m] \in {0, 1} /\ (handed[m] = 1 => Stored(m) /\ ~server[m].me)
InHands ==
  \A t \in Threads : At(t, "hand") =>
    \A m \in Peers(threads[t]) : Stored(m) /\ handed[m] = 0
Apart ==
  \A s, t \in Threads : s # t /\ At(s, "hand") /\ At(t, "hand") =>
    Peers(threads[s]) \cap Peers(threads[t]) = {}

ChatInv ==
  /\ TypeOK /\ RowsAreSent
  /\ HandedIsStored /\ InHands /\ Apart
  /\ \A t \in Threads : Locals(threads[t]) /\ PendingOK(threads[t])

LEMMA Bounds == /\ MaxMessages \in Nat /\ MaxTime \in Nat /\ MaxRestarts \in Nat
                /\ Window \in Nat
BY ChatBoundsAssumption, WindowAssumption

-----------------------------------------------------------------------------
(* Least elements. *)

LEMMA LeastNumber ==
  ASSUME NEW S, S \subseteq Nat, S # {}
  PROVE  \E x \in S : \A y \in S : x <= y
<1> DEFINE R == OpToRel(<, Nat)
<1>1. PICK x \in S : \A y \in S : <<y, x>> \notin R
  <2>1. IsWellFoundedOn(R, Nat)
    BY NatLessThanWellFounded
  <2> HIDE DEF R
  <2> QED
    BY <2>1, WFMin
<1>2. \A y, z \in Nat : y < z => <<y, z>> \in R
  BY DEF OpToRel
<1> HIDE DEF R
<1>3. ASSUME NEW y \in S PROVE x <= y
  <2>1. x \in Nat /\ y \in Nat
    OBVIOUS
  <2>2. ~(y < x)
    BY <1>1, <1>2, <2>1
  <2> QED
    BY <2>1, <2>2
<1> QED
  BY <1>3

LEMMA OldestIsThere ==
  ASSUME NEW S, S # {}, \A p \in S : p.key \in Nat
  PROVE  /\ Oldest(S) \in S
         /\ \A q \in S : Oldest(S).key <= q.key
<1>1. PICK k \in {p.key : p \in S} : \A y \in {p.key : p \in S} : k <= y
  <2>1. {p.key : p \in S} # {} /\ {p.key : p \in S} \subseteq Nat
    OBVIOUS
  <2> QED
    BY <2>1, LeastNumber
<1>2. PICK p \in S : p.key = k
  BY <1>1
<1>3. \A q \in S : p.key <= q.key
  BY <1>1, <1>2
<1> QED
  BY <1>2, <1>3 DEF Oldest

\* The ids of some rows have a lowest one.
LEMMA LowestIsThere ==
  ASSUME NEW n \in Nat, NEW f, NEW K, K \subseteq 1 .. n, K # {},
         \A k \in K : f[k] \in Int
  PROVE  \E k \in K : \A l \in K : f[k] <= f[l]
<1> DEFINE Upto(m) == {k \in K : k <= m}
           Bad == {m \in 0 .. n : Upto(m) # {}
                     /\ ~ \E k \in Upto(m) : \A l \in Upto(m) : f[k] <= f[l]}
<1>1. \A k \in K : k \in Nat /\ 1 <= k /\ k <= n
  OBVIOUS
<1>2. Bad = {}
  <2>1. SUFFICES ASSUME Bad # {} PROVE FALSE
    OBVIOUS
  <2>2. PICK m \in Bad : \A y \in Bad : m <= y
    <3>1. Bad \subseteq Nat
      OBVIOUS
    <3> HIDE DEF Bad
    <3> QED
      BY <2>1, <3>1, LeastNumber
  <2>3. /\ m \in 0 .. n /\ Upto(m) # {}
        /\ ~ \E k \in Upto(m) : \A l \in Upto(m) : f[k] <= f[l]
    OBVIOUS
  <2>10. m # 0 /\ m - 1 \in 0 .. n
    <3>1. PICK k \in K : k <= m
      BY <2>3
    <3> QED
      BY <1>1, <2>3, <3>1
  <2>4. m - 1 \notin Bad
    <3>1. m - 1 \in Bad => m <= m - 1
      BY <2>2
    <3>2. ~(m <= m - 1)
      BY <2>3
    <3> QED
      BY <3>1, <3>2
  <2>5. Upto(m) \subseteq Upto(m - 1) \cup {m}
    <3>1. \A k \in K : k <= m => k <= m - 1 \/ k = m
      BY <1>1, <2>3
    <3> QED
      BY <3>1
  <2>6. m \in K
    <3>1. SUFFICES ASSUME m \notin K PROVE FALSE
      OBVIOUS
    <3>2. Upto(m) = Upto(m - 1)
      <4>1. \A k \in K : k <= m <=> k <= m - 1
        BY <2>10, <3>1
      <4> QED
        BY <4>1
    <3> QED
      BY <2>3, <2>10, <2>4, <3>2
  <2>7. m \in Upto(m)
    BY <2>6
  <2>8. CASE Upto(m - 1) = {}
    <3>1. Upto(m) = {m} /\ f[m] <= f[m]
      BY <2>5, <2>6, <2>7, <2>8
    <3> QED
      BY <2>3, <3>1
  <2>9. CASE Upto(m - 1) # {}
    <3>1. PICK k \in Upto(m - 1) : \A l \in Upto(m - 1) : f[k] <= f[l]
      BY <2>10, <2>4, <2>9
    <3>2. k \in Upto(m) /\ f[k] \in Int /\ f[m] \in Int
      BY <2>3, <2>6, <2>10
    <3>3. \E x \in {k, m} : \A l \in Upto(m) : f[x] <= f[l]
      <4>1. CASE f[k] <= f[m]
        BY <2>5, <3>1, <4>1
      <4>2. CASE f[m] < f[k]
        <5>1. ASSUME NEW l \in Upto(m) PROVE f[m] <= f[l]
          <6>1. f[l] \in Int
            OBVIOUS
          <6> QED
            BY <2>5, <3>1, <3>2, <4>2, <6>1
        <5> QED
          BY <5>1
      <4> QED
        BY <3>2, <4>1, <4>2
    <3> QED
      BY <2>3, <2>7, <3>2, <3>3
  <2> QED
    BY <2>8, <2>9
<1>3. n \in 0 .. n
  OBVIOUS
<1>4. Upto(n) = K
  <2>1. \A k \in K : k \in Upto(n)
    BY <1>1
  <2> QED
    BY <2>1
<1> QED
  BY <1>2, <1>3, <1>4

LEMMA RowIsRow ==
  ASSUME rows \in Seq(Row)
  PROVE  /\ Len(rows) \in Nat /\ DOMAIN rows = 1 .. Len(rows)
         /\ \A k \in DOMAIN rows : rows[k] \in Row
BY LenProperties, ElementOfSeq

LEMMA FloorIsNegative ==
  ASSUME rows \in Seq(Row)
  PROVE  LowestPlaceholder \in Int /\ LowestPlaceholder <= 0
<1> DEFINE own == {k \in DOMAIN rows : rows[k].id < 0}
           ids == {rows[k].id : k \in own}
           id == [k \in DOMAIN rows |-> rows[k].id]
<1>1. \A k \in DOMAIN rows : rows[k].id \in Int
  BY RowIsRow DEF Row
<1>2. CASE ids = {}
  BY <1>2 DEF LowestPlaceholder, Floor
<1>3. CASE ids # {}
  <2>1. own # {} /\ own \subseteq 1 .. Len(rows) /\ Len(rows) \in Nat
    BY <1>3
  <2>2. \A k \in own : id[k] \in Int /\ id[k] = rows[k].id
    BY <1>1
  <2>3. PICK k \in own : \A l \in own : id[k] <= id[l]
    <3> HIDE DEF own, id
    <3> QED
      BY <2>1, <2>2, LowestIsThere
  <2>4. rows[k].id \in ids /\ \A x \in ids : rows[k].id <= x
    BY <2>3
  <2>5. Floor(ids) \in ids
    <3> HIDE DEF ids
    <3> QED
      BY <1>3, <2>4 DEF Floor
  <2>6. LowestPlaceholder = Floor(ids)
    BY DEF LowestPlaceholder
  <2> QED
    BY <1>1, <2>5, <2>6
<1> QED
  BY <1>2, <1>3

-----------------------------------------------------------------------------
(* What the types say, in the form the provers need. *)

LEMMA RowFacts ==
  ASSUME rows \in Seq(Row)
  PROVE  /\ Len(rows) \in Nat /\ DOMAIN rows = 1 .. Len(rows)
         /\ \A k \in DOMAIN rows : /\ rows[k].id \in Int /\ rows[k].id # 0
                                   /\ rows[k].text \in Texts
                                   /\ rows[k].at \in 0 .. MaxTime
BY RowIsRow DEF Row

LEMMA ServerFacts ==
  ASSUME server \in Seq(Sent)
  PROVE  /\ Len(server) \in Nat /\ DOMAIN server = 1 .. Len(server)
         /\ \A m \in 1 .. Len(server) : /\ server[m] \in Sent
                                        /\ server[m].me \in BOOLEAN
                                        /\ server[m].text \in Texts
                                        /\ server[m].at \in 0 .. MaxTime
<1>1. /\ Len(server) \in Nat /\ DOMAIN server = 1 .. Len(server)
      /\ \A m \in 1 .. Len(server) : server[m] \in Sent
  BY LenProperties, ElementOfSeq
<1> QED
  BY <1>1 DEF Sent

LEMMA ThreadFacts ==
  ASSUME NEW l \in Thread
  PROVE  /\ l.answer \subseteq Nat /\ l.known \subseteq Nat
         /\ l.text \in Texts \cup {""} /\ l.floor \in Int
         /\ l.pending \subseteq Pending
         /\ \A p \in l.pending : /\ p.key \in Nat /\ p.text \in Texts
                                 /\ p.at \in 0 .. MaxTime
<1>1. /\ l.answer \subseteq Nat /\ l.known \subseteq Nat
      /\ l.text \in Texts \cup {""} /\ l.floor \in Int
      /\ l.pending \subseteq Pending
  BY DEF Thread, Pending
<1> QED
  BY <1>1 DEF Pending

LEMMA InvFacts ==
  ASSUME ChatInv
  PROVE  /\ rows \in Seq(Row) /\ UniqueIds(rows) /\ server \in Seq(Sent)
         /\ Len(server) <= MaxMessages
         /\ \A t \in Threads : threads[t] \in Thread
BY DEF ChatInv, TypeOK, Sent

-----------------------------------------------------------------------------
(* Claims. *)

\* What message m finds, and what of it has its text.
Found(t, c, m) ==
  {p \in threads[t].pending : \A x \in Fresh(t) : x < m => c[x] # p.key}
Wanted(t, c, m) == {p \in Found(t, c, m) : p.text = server[m].text}

LEMMA PendingKeys ==
  ASSUME ChatInv, NEW t \in Threads, NEW p \in threads[t].pending
  PROVE  p.key \in Nat /\ p.key # 0 /\ p.key \in DOMAIN rows
<1>1. p.key \in DOMAIN rows
  BY DEF ChatInv, PendingOK, StillOwn
<1> QED
  BY <1>1, InvFacts, RowFacts

LEMMA FreshFacts ==
  ASSUME ChatInv, NEW t \in Threads, NEW m \in Fresh(t)
  PROVE  /\ m \in 1 .. Len(server) /\ m \in Nat /\ m \notin threads[t].known
         /\ m \in threads[t].answer /\ m > 0 /\ Len(server) \in Nat
<1>1. threads[t].answer \subseteq 1 .. Len(server) /\ Len(server) \in Nat
  BY InvFacts, ServerFacts DEF ChatInv, Locals
<1> QED
  BY <1>1 DEF Fresh

LEMMA ClaimIs ==
  ASSUME NEW t, NEW c \in Claims(t), NEW m \in Fresh(t)
  PROVE  c[m] = IF /\ server[m].me /\ Wanted(t, c, m) # {}
                   /\ Near(m, Oldest(Wanted(t, c, m)))
                THEN Oldest(Wanted(t, c, m)).key ELSE 0
BY DEF Claims, Claimed, Wanted, Found

\* A message that claims something claims the oldest it wants.
LEMMA Claimer ==
  ASSUME ChatInv, NEW t \in Threads, NEW c \in Claims(t), NEW m \in Fresh(t),
         c[m] # 0
  PROVE  /\ server[m].me /\ c[m] \in DOMAIN rows
         /\ \E p \in Wanted(t, c, m) :
              /\ p \in threads[t].pending /\ p.key = c[m] /\ Near(m, p)
              /\ p.text = server[m].text
              /\ \A q \in Wanted(t, c, m) : p.key <= q.key
<1> DEFINE W == Wanted(t, c, m)
<1>1. server[m].me /\ W # {} /\ Near(m, Oldest(W)) /\ c[m] = Oldest(W).key
  BY ClaimIs
<1>2. \A p \in W : p \in threads[t].pending /\ p.text = server[m].text
  BY DEF Wanted, Found
<1>3. \A p \in W : p.key \in Nat /\ p.key \in DOMAIN rows
  BY <1>2, PendingKeys
<1>4. Oldest(W) \in W /\ \A q \in W : Oldest(W).key <= q.key
  <2> HIDE DEF W
  <2> QED
    BY <1>1, <1>3, OldestIsThere
<1> QED
  BY <1>1, <1>2, <1>3, <1>4

LEMMA ClaimsDiffer ==
  ASSUME ChatInv, NEW t \in Threads, NEW c \in Claims(t),
         NEW x \in Fresh(t), NEW m \in Fresh(t), x # m, c[m] # 0
  PROVE  c[x] # c[m]
<1>1. x \in Nat /\ m \in Nat
  BY FreshFacts
<1>2. ASSUME NEW y \in Fresh(t), NEW z \in Fresh(t), y < z, c[z] # 0
      PROVE  c[y] # c[z]
  <2>1. PICK p \in Wanted(t, c, z) : p.key = c[z]
    BY <1>2, Claimer
  <2> QED
    BY <1>2, <2>1 DEF Wanted, Found
<1>3. CASE x < m
  BY <1>2, <1>3
<1>4. CASE m < x
  BY <1>2, <1>4
<1> QED
  BY <1>1, <1>3, <1>4

-----------------------------------------------------------------------------
(* What the transaction of a synchronisation leaves. *)

LEMMA WrittenRows ==
  ASSUME ChatInv, NEW t \in Threads, NEW c \in Claims(t),
         NEW new \in InOrder({m \in Fresh(t) : c[m] = 0})
  PROVE  LET W == Written(t, c, new)
         IN  /\ Len(new) \in Nat /\ DOMAIN new = 1 .. Len(new)
             /\ W \in Seq(Row) /\ Len(W) = Len(rows) + Len(new)
             /\ DOMAIN W = 1 .. (Len(rows) + Len(new))
             /\ \A m \in Fresh(t) : c[m] # 0 => W[c[m]] = Real(m)
             /\ \A k \in DOMAIN rows : (\A m \in Fresh(t) : c[m] # k) => W[k] = rows[k]
             /\ \A l \in DOMAIN new : new[l] \in Fresh(t) /\ W[Len(rows) + l] = Real(new[l])
             /\ \A m \in Fresh(t) : c[m] = 0 => \E l \in DOMAIN new : new[l] = m
<1> DEFINE N == {m \in Fresh(t) : c[m] = 0}
           old == [k \in DOMAIN rows |->
                     IF \E m \in Fresh(t) : c[m] = k
                     THEN Real(CHOOSE m \in Fresh(t) : c[m] = k) ELSE rows[k]]
           more == [l \in DOMAIN new |-> Real(new[l])]
<1>1. Cardinality(N) \in Nat
  <2>1. Len(server) \in Nat
    BY InvFacts, ServerFacts
  <2>2. IsFiniteSet(1 .. Len(server))
    BY <2>1, FS_Interval
  <2>3. N \in SUBSET (1 .. Len(server))
    BY FreshFacts
  <2> HIDE DEF N
  <2> QED
    BY <2>2, <2>3, FS_Subset, FS_CardinalityType
<1>2. /\ new \in [1 .. Cardinality(N) -> N]
      /\ \A m \in N : \E l \in DOMAIN new : new[l] = m
  BY DEF InOrder
<1>3. new \in Seq(N) /\ Len(new) \in Nat /\ DOMAIN new = 1 .. Len(new)
  <2> HIDE DEF N
  <2> QED
    BY <1>1, <1>2
<1>4. \A m \in Fresh(t) : Real(m) \in Row
  <2>1. ASSUME NEW m \in Fresh(t) PROVE Real(m) \in Row
    <3>1. m \in 1 .. Len(server) /\ m \in Nat /\ m # 0
      BY FreshFacts
    <3> QED
      BY <3>1, InvFacts, ServerFacts DEF Real, Row
  <2> QED
    BY <2>1
<1>5. /\ rows \in Seq(Row) /\ Len(rows) \in Nat /\ DOMAIN rows = 1 .. Len(rows)
      /\ \A k \in DOMAIN rows : rows[k] \in Row
  BY InvFacts, RowIsRow
<1>6. \A k \in DOMAIN rows : old[k] \in Row
  BY <1>4, <1>5
<1>7. old \in Seq(Row) /\ Len(old) = Len(rows)
  <2>1. old \in [1 .. Len(rows) -> Row]
    BY <1>5, <1>6
  <2> HIDE DEF old
  <2> QED
    BY <1>5, <2>1
<1>8. more \in Seq(Row) /\ Len(more) = Len(new)
  <2>1. more \in [1 .. Len(new) -> Row]
    BY <1>2, <1>3, <1>4
  <2> HIDE DEF more
  <2> QED
    BY <1>3, <2>1
<1>9. Written(t, c, new) = old \o more
  BY DEF Written
<1> DEFINE W == Written(t, c, new)
<1>10. /\ W \in Seq(Row) /\ Len(W) = Len(rows) + Len(new)
       /\ DOMAIN W = 1 .. (Len(rows) + Len(new))
       /\ \A i \in 1 .. Len(rows) + Len(new) :
            W[i] = IF i <= Len(rows) THEN old[i] ELSE more[i - Len(rows)]
  <2> HIDE DEF old, more
  <2>2. /\ old \o more \in Seq(Row) /\ Len(old \o more) = Len(old) + Len(more)
        /\ \A i \in 1 .. Len(old) + Len(more) :
            (old \o more)[i] = IF i <= Len(old) THEN old[i] ELSE more[i - Len(old)]
    BY <1>7, <1>8, ConcatProperties
  <2>1. /\ W \in Seq(Row) /\ Len(W) = Len(rows) + Len(new)
        /\ \A i \in 1 .. Len(rows) + Len(new) :
            W[i] = IF i <= Len(rows) THEN old[i] ELSE more[i - Len(rows)]
    BY <1>7, <1>8, <1>9, <2>2
  <2> HIDE DEF W
  <2> QED
    BY <2>1, LenProperties
<1>11. \A k \in DOMAIN rows : W[k] = old[k]
  <2> HIDE DEF W, old, more
  <2> QED
    BY <1>3, <1>5, <1>10
<1>12. \A m \in Fresh(t) : c[m] # 0 => W[c[m]] = Real(m)
  <2>1. ASSUME NEW m \in Fresh(t), c[m] # 0 PROVE W[c[m]] = Real(m)
    <3>1. c[m] \in DOMAIN rows
      BY <2>1, Claimer
    <3>2. (CHOOSE x \in Fresh(t) : c[x] = c[m]) = m
      BY <2>1, ClaimsDiffer
    <3> QED
      BY <1>11, <3>1, <3>2
  <2> QED
    BY <2>1
<1>13. \A k \in DOMAIN rows : (\A m \in Fresh(t) : c[m] # k) => W[k] = rows[k]
  BY <1>11
<1>14. \A l \in DOMAIN new : new[l] \in Fresh(t) /\ W[Len(rows) + l] = Real(new[l])
  <2>1. ASSUME NEW l \in DOMAIN new PROVE new[l] \in Fresh(t) /\ W[Len(rows) + l] = Real(new[l])
    <3>1. new[l] \in Fresh(t) /\ more[l] = Real(new[l])
      BY <1>2
    <3>2. /\ Len(rows) + l \in 1 .. Len(rows) + Len(new)
          /\ ~(Len(rows) + l <= Len(rows)) /\ (Len(rows) + l) - Len(rows) = l
      BY <1>3, <1>5
    <3>3. W[Len(rows) + l] = more[l]
      <4> HIDE DEF W, old, more
      <4> QED
        BY <1>10, <3>2
    <3> QED
      BY <3>1, <3>3
  <2> QED
    BY <2>1
<1>15. \A m \in Fresh(t) : c[m] = 0 => \E l \in DOMAIN new : new[l] = m
  BY <1>2
<1> QED
  BY <1>3, <1>10, <1>12, <1>13, <1>14, <1>15

\* The same without the sequence of the new ones: W is what t writes.
Wrote(t, c, W) ==
  /\ W \in Seq(Row) /\ DOMAIN rows \subseteq DOMAIN W
  /\ \A m \in Fresh(t) : c[m] # 0 => W[c[m]] = Real(m)
  /\ \A k \in DOMAIN rows : (\A m \in Fresh(t) : c[m] # k) => W[k] = rows[k]
  /\ \A k \in DOMAIN W \ DOMAIN rows : \E m \in Fresh(t) : c[m] = 0 /\ W[k] = Real(m)
  /\ \A m \in Fresh(t) :
       c[m] = 0 => \E k \in DOMAIN W \ DOMAIN rows : W[k] = Real(m)

LEMMA WritesWrote ==
  ASSUME ChatInv, NEW t \in Threads, NEW c \in Claims(t),
         NEW new \in InOrder({m \in Fresh(t) : c[m] = 0})
  PROVE  Wrote(t, c, Written(t, c, new))
<1> DEFINE W == Written(t, c, new)
           N == {m \in Fresh(t) : c[m] = 0}
<1>1. /\ Len(new) \in Nat /\ DOMAIN new = 1 .. Len(new)
      /\ W \in Seq(Row) /\ Len(W) = Len(rows) + Len(new)
      /\ DOMAIN W = 1 .. (Len(rows) + Len(new))
      /\ \A m \in Fresh(t) : c[m] # 0 => W[c[m]] = Real(m)
      /\ \A k \in DOMAIN rows : (\A m \in Fresh(t) : c[m] # k) => W[k] = rows[k]
      /\ \A l \in DOMAIN new : new[l] \in Fresh(t) /\ W[Len(rows) + l] = Real(new[l])
      /\ \A m \in Fresh(t) : c[m] = 0 => \E l \in DOMAIN new : new[l] = m
  BY WrittenRows
<1>2. Len(rows) \in Nat /\ DOMAIN rows = 1 .. Len(rows)
  BY InvFacts, RowIsRow
<1>3. \A l \in DOMAIN new : c[new[l]] = 0
  BY DEF InOrder
<1> HIDE DEF W, N
<1>4. DOMAIN rows \subseteq DOMAIN W
  BY <1>1, <1>2
<1>5. ASSUME NEW k \in DOMAIN W \ DOMAIN rows
      PROVE  \E m \in Fresh(t) : c[m] = 0 /\ W[k] = Real(m)
  <2>1. k - Len(rows) \in DOMAIN new /\ Len(rows) + (k - Len(rows)) = k
    BY <1>1, <1>2
  <2> QED
    BY <1>1, <1>3, <2>1
<1>6. ASSUME NEW m \in Fresh(t), c[m] = 0
      PROVE  \E k \in DOMAIN W \ DOMAIN rows : W[k] = Real(m)
  <2>1. PICK l \in DOMAIN new : new[l] = m
    BY <1>1, <1>6
  <2>2. Len(rows) + l \in DOMAIN W \ DOMAIN rows
    BY <1>1, <1>2
  <2> QED
    BY <1>1, <2>1, <2>2
<1>7. Wrote(t, c, W)
  BY <1>1, <1>4, <1>5, <1>6 DEF Wrote
<1> QED
  BY <1>7 DEF W

\* Every message that was new has its row then.
LEMMA AllAreWritten ==
  ASSUME ChatInv, NEW t \in Threads, NEW c \in Claims(t), NEW W, Wrote(t, c, W),
         NEW m \in Fresh(t)
  PROVE  \E k \in DOMAIN W : W[k].id = m
<1>1. Real(m).id = m
  BY DEF Real
<1>2. CASE c[m] = 0
  BY <1>1, <1>2 DEF Wrote
<1>3. CASE c[m] # 0
  BY <1>1, <1>3, Claimer DEF Wrote
<1> QED
  BY <1>2, <1>3

\* What is in a row that is claimed: nothing of Douyin's yet, or an own message
\* of the claimer's text.
LEMMA ClaimedRow ==
  ASSUME ChatInv, NEW t \in Threads, NEW c \in Claims(t), NEW m \in Fresh(t),
         c[m] # 0
  PROVE  /\ c[m] \in DOMAIN rows /\ rows[c[m]].text = server[m].text
         /\ rows[c[m]].id > 0 => server[rows[c[m]].id].me
<1>1. PICK p \in threads[t].pending : p.key = c[m] /\ p.text = server[m].text
  BY Claimer
<1>2. StillOwn(p)
  BY DEF ChatInv, PendingOK
<1> QED
  BY <1>1, <1>2 DEF StillOwn

\* No id is given twice: a message that is in a row of another is written over
\* by an earlier one, or the transaction fails.
LEMMA UniqueAfter ==
  ASSUME ChatInv, NEW t \in Threads, NEW c \in Claims(t),
         NEW new \in InOrder({m \in Fresh(t) : c[m] = 0}), NoneIsThere(t, c)
  PROVE  UniqueIds(Written(t, c, new))
<1> DEFINE N == {m \in Fresh(t) : c[m] = 0}
<1>1. PICK W : W = Written(t, c, new)
  OBVIOUS
<1>2. /\ Len(new) \in Nat /\ DOMAIN new = 1 .. Len(new)
      /\ DOMAIN W = 1 .. (Len(rows) + Len(new))
      /\ \A m \in Fresh(t) : c[m] # 0 => W[c[m]] = Real(m)
      /\ \A k \in DOMAIN rows : (\A m \in Fresh(t) : c[m] # k) => W[k] = rows[k]
      /\ \A l \in DOMAIN new : new[l] \in Fresh(t) /\ W[Len(rows) + l] = Real(new[l])
  BY <1>1, WrittenRows
<1>3. Len(rows) \in Nat /\ DOMAIN rows = 1 .. Len(rows)
  BY InvFacts, RowIsRow
<1>4. \A m : Real(m).id = m
  BY DEF Real
<1>5. \A k, l \in DOMAIN new : c[new[k]] = 0 /\ (new[k] = new[l] => k = l)
  <2>1. \A k, l \in DOMAIN new : k < l => new[k] < new[l]
    BY DEF InOrder
  <2>2. new \in [1 .. Cardinality(N) -> N]
    BY DEF InOrder
  <2>3. \A k \in DOMAIN new : new[k] \in Nat /\ c[new[k]] = 0
    BY <2>2, FreshFacts
  <2>4. ASSUME NEW k \in DOMAIN new, NEW l \in DOMAIN new, new[k] = new[l]
        PROVE  k = l
    <3>1. k \in Int /\ l \in Int
      BY <1>2
    <3>2. ~(k < l)
      BY <2>1, <2>3, <2>4
    <3>3. ~(l < k)
      BY <2>1, <2>3, <2>4
    <3> QED
      BY <3>1, <3>2, <3>3
  <2> QED
    BY <2>3, <2>4
\* The message that is written into row k, if one is.
<1>6. \A k \in DOMAIN W :
        \/ /\ k \in DOMAIN rows /\ W[k] = rows[k]
           /\ \A m \in Fresh(t) : c[m] # k
        \/ /\ k \in DOMAIN rows
           /\ \E m \in Fresh(t) : c[m] = k /\ c[m] # 0 /\ W[k].id = m
        \/ /\ k \notin DOMAIN rows
           /\ \E m \in Fresh(t), l \in DOMAIN new :
                c[m] = 0 /\ new[l] = m /\ k = Len(rows) + l /\ W[k].id = m
  <2>1. ASSUME NEW k \in DOMAIN rows, NEW m \in Fresh(t), c[m] = k
        PROVE  c[m] # 0 /\ W[k].id = m
    BY <1>2, <1>3, <1>4, <2>1
  <2>2. ASSUME NEW k \in DOMAIN W, k \notin DOMAIN rows
        PROVE  \E m \in Fresh(t), l \in DOMAIN new :
                 c[m] = 0 /\ new[l] = m /\ k = Len(rows) + l /\ W[k].id = m
    <3>1. k - Len(rows) \in DOMAIN new /\ k = Len(rows) + (k - Len(rows))
      BY <1>2, <1>3, <2>2
    <3> QED
      BY <1>2, <1>4, <1>5, <3>1
  <2> QED
    BY <1>2, <2>1, <2>2
<1>7. \A k \in DOMAIN rows, m \in Fresh(t) :
        (\A x \in Fresh(t) : c[x] # k) => rows[k].id # m
  BY DEF NoneIsThere
<1>8. \A x, y \in Fresh(t) : c[x] # 0 /\ c[x] = c[y] => x = y
  BY ClaimsDiffer
<1>9. ASSUME NEW k \in DOMAIN W, NEW l \in DOMAIN W, W[k].id = W[l].id
      PROVE  k = l
  <2>1. CASE k \in DOMAIN rows /\ W[k] = rows[k] /\ \A m \in Fresh(t) : c[m] # k
    <3>1. \A m \in Fresh(t) : W[l].id # m
      BY <1>7, <1>9, <2>1
    <3>2. l \in DOMAIN rows /\ W[l] = rows[l]
      BY <1>6, <3>1
    <3> QED
      BY <1>9, <2>1, <3>2, InvFacts DEF UniqueIds
  <2>2. CASE k \in DOMAIN rows /\ \E m \in Fresh(t) : c[m] = k /\ c[m] # 0 /\ W[k].id = m
    <3>1. PICK m \in Fresh(t) : c[m] = k /\ c[m] # 0 /\ W[k].id = m
      BY <2>2
    <3>2. \/ \E x \in Fresh(t) : c[x] = l /\ W[l].id = x
          \/ \E x \in Fresh(t) : c[x] = 0 /\ W[l].id = x
      BY <1>6, <1>7, <1>9, <3>1
    <3> QED
      BY <1>9, <3>1, <3>2
  <2>3. CASE \E m \in Fresh(t), i \in DOMAIN new :
               c[m] = 0 /\ new[i] = m /\ k = Len(rows) + i /\ W[k].id = m
    <3>1. PICK m \in Fresh(t), i \in DOMAIN new :
            c[m] = 0 /\ new[i] = m /\ k = Len(rows) + i /\ W[k].id = m
      BY <2>3
    <3>2. \E j \in DOMAIN new : new[j] = m /\ l = Len(rows) + j
      BY <1>6, <1>7, <1>9, <3>1
    <3> QED
      BY <1>5, <3>1, <3>2
  <2> QED
    BY <1>6, <2>1, <2>2, <2>3
<1> QED
  BY <1>1, <1>9 DEF UniqueIds

-----------------------------------------------------------------------------
(* How the parts of the invariant survive a step. *)

\* Douyin keeps what it has.
SentStays ==
  /\ server' \in Seq(Sent) /\ Len(server') <= MaxMessages
  /\ Len(server) <= Len(server')
  /\ \A m \in 1 .. Len(server) : server'[m] = server[m]
\* The store keeps what it has of the peer.
StoredStays ==
  \A m \in 1 .. Len(server) : ~server[m].me /\ Stored(m) => Stored(m)'

LEMMA AppendedIsSent ==
  ASSUME ChatInv, NEW x \in Sent, Len(server) < MaxMessages,
         server' = Append(server, x)
  PROVE  SentStays
<1>1. server \in Seq(Sent) /\ Len(server) \in Nat
  BY InvFacts, ServerFacts
<1>2. /\ server' \in Seq(Sent) /\ Len(server') = Len(server) + 1
      /\ \A m \in 1 .. Len(server) : server'[m] = server[m]
  BY <1>1, AppendProperties
<1> QED
  BY <1>1, <1>2, Bounds DEF SentStays

LEMMA SameIsSent ==
  ASSUME ChatInv, server' = server
  PROVE  SentStays
<1>1. server \in Seq(Sent) /\ Len(server) \in Nat /\ Len(server) <= MaxMessages
  BY InvFacts, ServerFacts
<1> QED
  BY <1>1 DEF SentStays

LEMMA LocalsStay ==
  ASSUME ChatInv, SentStays, NEW l \in Thread, Locals(l)
  PROVE  Locals(l)'
<1>1. /\ Len(server) \in Nat /\ Len(server') \in Nat /\ Len(server) <= Len(server')
      /\ l.answer \subseteq 1 .. Len(server)
  BY InvFacts, ServerFacts, LenProperties DEF Locals, SentStays
<1>2. l.answer \subseteq 1 .. Len(server')
  BY <1>1
<1> QED
  BY <1>2 DEF Locals

LEMMA PendingStays ==
  ASSUME ChatInv, SentStays, UNCHANGED rows, NEW l \in Thread, PendingOK(l)
  PROVE  PendingOK(l)'
<1>1. ASSUME NEW p \in l.pending PROVE StillOwn(p)'
  <2>1. StillOwn(p)
    BY DEF PendingOK
  <2>2. CASE ~(rows[p.key].id > 0)
    BY <2>1, <2>2 DEF StillOwn
  <2>3. CASE rows[p.key].id > 0
    <3>1. rows[p.key].id \in 1 .. Len(server)
      <4>1. rows[p.key].id \in Int /\ rows[p.key].id <= Len(server) /\ Len(server) \in Nat
        BY <2>1, InvFacts, RowFacts, ServerFacts DEF StillOwn, ChatInv, RowsAreSent
      <4> QED
        BY <2>3, <4>1
    <3>2. server'[rows[p.key].id] = server[rows[p.key].id]
      BY <3>1 DEF SentStays
    <3> QED
      BY <2>1, <2>3, <3>2 DEF StillOwn
  <2> QED
    BY <2>2, <2>3
<1> QED
  BY <1>1 DEF PendingOK

LEMMA NothingPending ==
  ASSUME NEW l, l.pending = {}
  PROVE  PendingOK(l)
BY DEF PendingOK

LEMMA PeersStay ==
  ASSUME ChatInv, SentStays, NEW l \in Thread, Locals(l)
  PROVE  Peers(l)' = Peers(l) /\ Peers(l) \subseteq 1 .. Len(server)
BY DEF SentStays, Peers, Locals

LEMMA HandedStays ==
  ASSUME ChatInv, SentStays, StoredStays, UNCHANGED handed
  PROVE  HandedIsStored'
<1>1. ASSUME NEW m \in DOMAIN handed, handed[m] = 1
      PROVE  Stored(m) /\ ~server[m].me /\ m \in 1 .. Len(server)
  <2>1. Stored(m) /\ ~server[m].me /\ m \in 1 .. MaxMessages
    BY <1>1 DEF ChatInv, HandedIsStored, TypeOK
  <2>2. m <= Len(server) /\ Len(server) \in Nat
    BY <2>1, InvFacts, ServerFacts DEF Stored, ChatInv, RowsAreSent
  <2> QED
    BY <2>1, <2>2, Bounds
<1> QED
  BY <1>1 DEF HandedIsStored, ChatInv, StoredStays, SentStays

\* No thread comes to hand anything on.
LEMMA HandsStay ==
  ASSUME ChatInv, SentStays, StoredStays, UNCHANGED handed,
         \A s \in Threads : threads'[s] = threads[s] \/ threads'[s].pc # "hand"
  PROVE  HandedIsStored' /\ InHands' /\ Apart'
<1>1. HandedIsStored'
  BY HandedStays
<1>2. \A s \in Threads : At(s, "hand")' =>
        /\ At(s, "hand") /\ Peers(threads[s])' = Peers(threads[s])
        /\ Peers(threads[s]) \subseteq 1 .. Len(server)
  <2>1. ASSUME NEW s \in Threads, At(s, "hand")'
        PROVE  /\ At(s, "hand") /\ Peers(threads[s])' = Peers(threads[s])
               /\ Peers(threads[s]) \subseteq 1 .. Len(server)
    <3>1. PICK l : l = threads[s]
      OBVIOUS
    <3>2. l \in Thread /\ Locals(l) /\ threads'[s] = l /\ l.pc = "hand"
      BY <2>1, <3>1, InvFacts DEF At, ChatInv
    <3>3. Peers(l)' = Peers(l) /\ Peers(l) \subseteq 1 .. Len(server)
      BY <3>2, PeersStay
    <3> QED
      BY <3>1, <3>2, <3>3 DEF At, Peers
  <2> QED
    BY <2>1
<1>3. InHands'
  <2>1. ASSUME NEW s \in Threads, At(s, "hand")', NEW m \in Peers(threads[s])'
        PROVE  Stored(m)' /\ handed'[m] = 0
    <3>1. /\ m \in Peers(threads[s]) /\ m \in 1 .. Len(server) /\ At(s, "hand")
          /\ ~server[m].me
      BY <1>2, <2>1 DEF Peers
    <3> QED
      BY <3>1 DEF ChatInv, InHands, StoredStays
  <2> QED
    BY <2>1 DEF InHands
<1>4. Apart'
  <2>1. ASSUME NEW s \in Threads, NEW u \in Threads, s # u, At(s, "hand")', At(u, "hand")'
        PROVE  Peers(threads[s])' \cap Peers(threads[u])' = {}
    <3>1. Peers(threads[s]) \cap Peers(threads[u]) = {}
      BY <1>2, <2>1 DEF ChatInv, Apart
    <3> QED
      BY <1>2, <2>1, <3>1
  <2> QED
    BY <2>1 DEF Apart
<1> QED
  BY <1>1, <1>3, <1>4

-----------------------------------------------------------------------------
(* Steps that leave the rows alone. *)

LEMMA RowsUntouched ==
  ASSUME ChatInv, SentStays, UNCHANGED <<rows, handed>>,
         now' \in 0 .. MaxTime, restarts' \in 0 .. MaxRestarts,
         threads' \in [Threads -> Thread],
         \A s \in Threads :
           \/ threads'[s] = threads[s]
           \/ threads'[s].pc # "hand" /\ Locals(threads[s])' /\ PendingOK(threads[s])'
  PROVE  ChatInv'
<1>1. StoredStays
  BY DEF StoredStays, Stored
<1>2. TypeOK'
  BY DEF ChatInv, TypeOK, SentStays, UniqueIds, Sent
<1>3. RowsAreSent'
  <2>1. Len(server) \in Nat /\ Len(server') \in Nat /\ Len(server) <= Len(server')
    BY InvFacts, ServerFacts, LenProperties DEF SentStays
  <2>2. ASSUME NEW k \in DOMAIN rows
        PROVE  /\ rows[k].id <= Len(server')
               /\ rows[k].id > 0 => server'[rows[k].id].text = rows[k].text
    <3>1. /\ rows[k].id \in Int /\ rows[k].id <= Len(server)
          /\ rows[k].id > 0 => server[rows[k].id].text = rows[k].text
      BY InvFacts, RowFacts DEF ChatInv, RowsAreSent
    <3>2. rows[k].id > 0 => rows[k].id \in 1 .. Len(server)
      BY <2>1, <3>1
    <3> QED
      BY <2>1, <3>1, <3>2 DEF SentStays
  <2> QED
    BY <2>2 DEF RowsAreSent
<1>4. HandedIsStored' /\ InHands' /\ Apart'
  BY <1>1, HandsStay
<1>5. ASSUME NEW s \in Threads
      PROVE  Locals(threads[s])' /\ PendingOK(threads[s])'
  <2>1. CASE threads'[s] = threads[s]
    <3>1. PICK l : l = threads[s]
      OBVIOUS
    <3>2. l \in Thread /\ Locals(l) /\ PendingOK(l)
      BY <3>1, InvFacts DEF ChatInv
    <3>3. Locals(l)' /\ PendingOK(l)'
      BY <3>2, LocalsStay, PendingStays
    <3>4. l = threads'[s]
      BY <2>1, <3>1
    <3> QED
      BY <3>3, <3>4
  <2> QED
    BY <2>1
<1> QED
  BY <1>2, <1>3, <1>4, <1>5 DEF ChatInv

LEMMA ThreadMoves ==
  ASSUME ChatInv, SentStays, UNCHANGED <<rows, handed, now, restarts>>,
         NEW t \in Threads, NEW f \in Thread, SetThread(t, f),
         f.pc # "hand", Locals(f)', PendingOK(f)'
  PROVE  ChatInv'
<1>1. threads \in [Threads -> Thread] /\ now \in 0 .. MaxTime
      /\ restarts \in 0 .. MaxRestarts
  BY DEF ChatInv, TypeOK
<1>2. threads' \in [Threads -> Thread] /\ threads'[t] = f
      /\ \A s \in Threads : s # t => threads'[s] = threads[s]
  BY <1>1 DEF SetThread
<1>3. Locals(threads[t])' /\ PendingOK(threads[t])'
  BY <1>2
<1> QED
  BY <1>1, <1>2, <1>3, RowsUntouched

\* A thread that has looked at nothing yet.
LEMMA BlankIsOK ==
  ASSUME NEW f \in Thread, f.answer = {}, f.known = {}, f.pending = {}, f.floor = 0,
         f.pc = "send" => f.text \in Texts, f.pc \in {"idle", "send"},
         Len(server) \in Nat
  PROVE  Locals(f) /\ PendingOK(f)
BY DEF Locals, PendingOK

LEMMA IdleIsBlank ==
  /\ Idle \in Thread /\ Idle.answer = {} /\ Idle.known = {} /\ Idle.pending = {}
  /\ Idle.floor = 0 /\ Idle.pc = "idle"
BY DEF Idle, Thread

LEMMA AfterIsBlank ==
  ASSUME ChatInv, NEW t \in Threads
  PROVE  /\ After(t) \in Thread /\ After(t).answer = {} /\ After(t).known = {}
         /\ After(t).pending = {} /\ After(t).floor = 0
         /\ After(t).pc \in {"idle", "send"}
         /\ After(t).pc = "send" => After(t).text \in Texts
<1>1. threads[t].text \in Texts \cup {""}
  BY InvFacts, ThreadFacts
<1>2. CASE threads[t].text = ""
  BY <1>2, IdleIsBlank DEF After
<1>3. CASE threads[t].text # ""
  <2>1. PICK f : f = [pc |-> "send", answer |-> {}, known |-> {}, pending |-> {},
                      text |-> threads[t].text, floor |-> 0]
    OBVIOUS
  <2>2. After(t) = f
    <3>1. After(t) = [Idle EXCEPT !.pc = "send", !.text = threads[t].text]
      BY <1>3 DEF After
    <3> QED
      BY <2>1, <3>1, Zenon DEF Idle
  <2>3. threads[t].text \in Texts
    BY <1>1, <1>3
  <2>5. {} \in SUBSET Nat /\ {} \in SUBSET Pending /\ 0 \in Nat /\ 0 \in Int
    OBVIOUS
  <2>4. f \in Thread
    BY <2>1, <2>3, <2>5 DEF Thread, Pending
  <2> QED
    BY <2>1, <2>2, <2>3, <2>4
<1> QED
  BY <1>2, <1>3

LEMMA LenServer == ASSUME ChatInv, SentStays PROVE Len(server) \in Nat /\ Len(server') \in Nat
BY InvFacts, ServerFacts, LenProperties DEF SentStays

\* A thread starts again, or goes on to the send, with nothing in mind.
LEMMA GoesBlank ==
  ASSUME ChatInv, SentStays, UNCHANGED <<rows, handed, now, restarts>>,
         NEW t \in Threads, SetThread(t, After(t)) \/ SetThread(t, Idle)
  PROVE  ChatInv'
<1>1. PICK f \in Thread :
         /\ SetThread(t, f)
         /\ f.answer = {} /\ f.known = {} /\ f.pending = {} /\ f.floor = 0
         /\ f.pc \in {"idle", "send"}
         /\ f.pc = "send" => f.text \in Texts
  BY AfterIsBlank, IdleIsBlank
<1>2. Locals(f)' /\ PendingOK(f)'
  BY <1>1, LenServer DEF Locals, PendingOK
<1> QED
  BY <1>1, <1>2, ThreadMoves

\* What a thread may want to say: "" is nothing.
TextOrNone == Texts \cup {""}

LEMMA AnswersAreSent ==
  /\ InitAnswers \subseteq SUBSET (1 .. Len(server))
  /\ HistoryAnswers \subseteq SUBSET (1 .. Len(server))
<1>1. \A n, c : Newest(n, MessagesOf(c)) \subseteq 1 .. Len(server)
  BY DEF Newest, MessagesOf
<1> QED
  BY <1>1 DEF InitAnswers, HistoryAnswers

\* Somebody asks Douyin.
Asks(t) == \E said \in TextOrNone, answer \in SUBSET (1 .. Len(server)) :
             Begins(t, said, answer)

LEMMA PollsAsk == ASSUME NEW p \in Pollers, Polls(p) PROVE Asks(p)
<1>1. "" \in TextOrNone
  BY DEF TextOrNone
<1> QED
  BY <1>1, AnswersAreSent DEF Polls, Asks

LEMMA VisitsAsk == ASSUME NEW t \in Others, Visits(t) \/ Backfills(t) PROVE Asks(t)
<1>1. "" \in TextOrNone
  BY DEF TextOrNone
<1>2. CASE Visits(t)
  BY <1>2, AnswersAreSent DEF Visits, Asks, TextOrNone
<1>3. CASE Backfills(t)
  BY <1>1, <1>3, AnswersAreSent DEF Backfills, Asks
<1> QED
  BY <1>2, <1>3

LEMMA AsksStep ==
  ASSUME ChatInv, NEW t \in Threads, Asks(t)
  PROVE  ChatInv'
<1>1. PICK said \in TextOrNone, answer \in SUBSET (1 .. Len(server)) :
        Begins(t, said, answer)
  BY DEF Asks
<1>2. PICK f : f = [Idle EXCEPT !.pc = "known", !.answer = answer, !.text = said]
  OBVIOUS
<1>3. f = [pc |-> "known", answer |-> answer, known |-> {}, pending |-> {},
            text |-> said, floor |-> 0]
  BY <1>2, Zenon DEF Idle
<1>4. /\ f \in Thread /\ f.pc = "known" /\ f.answer = answer /\ f.known = {}
      /\ f.pending = {} /\ f.floor = 0
  <2>1. {} \in SUBSET Nat /\ {} \in SUBSET Pending /\ 0 \in Int
    OBVIOUS
  <2>2. answer \in SUBSET Nat
    <3>1. Len(server) \in Nat
      BY InvFacts, ServerFacts
    <3> QED
      BY <3>1
  <2> QED
    BY <1>3, <2>1, <2>2 DEF Thread, Pending, TextOrNone
<1>5. SetThread(t, f) /\ UNCHANGED <<server, rows, handed, now, restarts>>
  BY <1>1, <1>2 DEF Begins
<1>6. Locals(f)'
  BY <1>4, <1>5 DEF Locals
<1>7. PendingOK(f)'
  BY <1>4 DEF PendingOK
<1> QED
  BY <1>4, <1>5, <1>6, <1>7, SameIsSent, ThreadMoves

LEMMA ReadsKnownStep ==
  ASSUME ChatInv, NEW t \in Threads, ReadsKnown(t)
  PROVE  ChatInv'
<1> DEFINE known == {m \in threads[t].answer : Stored(m)}
           fresh == threads[t].answer \ known
           next == IF \E m \in fresh : server[m].me THEN "pending" ELSE "write"
<1>1. /\ UNCHANGED <<server, rows, handed, now, restarts>>
      /\ SetThread(t, IF fresh = {} THEN After(t)
                      ELSE [threads[t] EXCEPT !.known = known, !.pc = next])
      /\ threads[t].pc = "known"
  BY DEF ReadsKnown, At
<1>2. /\ threads[t] \in Thread /\ threads[t].answer \subseteq Nat /\ Locals(threads[t])
      /\ known \subseteq threads[t].answer /\ next \in {"pending", "write"}
  BY InvFacts, ThreadFacts DEF ChatInv
<1> HIDE DEF known, next
<1>3. CASE fresh = {}
  <2>1. SetThread(t, After(t))
    BY <1>1, <1>3
  <2> QED
    BY <1>1, <2>1, SameIsSent, GoesBlank
<1>4. CASE fresh # {}
  <2>1. PICK f : f = [threads[t] EXCEPT !.known = known, !.pc = next]
    OBVIOUS
  <2>6. /\ f.pc = next /\ f.answer = threads[t].answer /\ f.known = known
        /\ f.pending = threads[t].pending /\ f.floor = threads[t].floor
        /\ f.text = threads[t].text
        /\ f = [pc |-> f.pc, answer |-> f.answer, known |-> f.known, pending |-> f.pending,
               text |-> f.text, floor |-> f.floor]
    BY <1>2, <2>1 DEF Thread
  <2>7. known \subseteq Nat
    BY <1>2
  <2>2. /\ f \in Thread /\ f.pc = next /\ f.answer = threads[t].answer /\ f.known = known
        /\ f.pending = threads[t].pending /\ f.floor = threads[t].floor
    BY <1>2, <2>6, <2>7 DEF Thread
  <2>3. SetThread(t, f) /\ f.pending = {}
    BY <1>1, <1>2, <1>4, <2>1, <2>2 DEF Locals
  <2>4. Locals(f)' /\ PendingOK(f)'
    BY <1>1, <1>2, <2>2, <2>3 DEF Locals, PendingOK
  <2>5. f.pc # "hand"
    BY <1>2, <2>2
  <2> QED
    BY <1>1, <2>2, <2>3, <2>4, <2>5, SameIsSent, ThreadMoves
<1> QED
  BY <1>3, <1>4

LEMMA ReadsPendingStep ==
  ASSUME ChatInv, NEW t \in Threads, ReadsPending(t)
  PROVE  ChatInv'
<1>1. /\ UNCHANGED <<server, rows, handed, now, restarts>>
      /\ SetThread(t, [threads[t] EXCEPT !.pending = Placeholders, !.pc = "write"])
      /\ threads[t].pc = "pending"
  BY DEF ReadsPending, At
<1>2. threads[t] \in Thread /\ Locals(threads[t])
  BY InvFacts DEF ChatInv
<1>3. /\ DOMAIN rows = 1 .. Len(rows) /\ Len(rows) \in Nat
      /\ \A k \in DOMAIN rows : /\ rows[k].id \in Int /\ rows[k].text \in Texts
                                /\ rows[k].at \in 0 .. MaxTime
  BY InvFacts, RowFacts
<1>4. \A p \in Placeholders :
        /\ p.key \in DOMAIN rows /\ rows[p.key].id < 0
        /\ p.text = rows[p.key].text /\ p.at = rows[p.key].at
        /\ p = [key |-> p.key, text |-> rows[p.key].text, at |-> rows[p.key].at]
  BY DEF Placeholders
<1>5. Placeholders \subseteq Pending
  BY <1>3 DEF Placeholders, Pending
<1>7. PICK P : P = Placeholders
  OBVIOUS
<1>8. PICK f : f = [threads[t] EXCEPT !.pending = P, !.pc = "write"]
  OBVIOUS
<1>9. /\ f \in Thread /\ f.pc = "write" /\ f.pending = P /\ f.answer = threads[t].answer
      /\ f.known = threads[t].known /\ f.floor = threads[t].floor
  BY <1>2, <1>5, <1>7, <1>8 DEF Thread, Pending
<1>10. PendingOK(f)'
  <2>1. \A p \in P : StillOwn(p)'
    BY <1>1, <1>3, <1>4, <1>7 DEF StillOwn
  <2> QED
    BY <1>9, <2>1 DEF PendingOK
<1>11. Locals(f)'
  BY <1>1, <1>2, <1>9 DEF Locals
<1>12. SetThread(t, f)
  BY <1>1, <1>7, <1>8
<1> QED
  BY <1>1, <1>9, <1>10, <1>11, <1>12, SameIsSent, ThreadMoves

LEMMA ReadsFloorStep ==
  ASSUME ChatInv, NEW t \in Threads, ReadsFloor(t)
  PROVE  ChatInv'
<1>1. /\ UNCHANGED <<server, rows, handed, now, restarts>>
      /\ SetThread(t, [threads[t] EXCEPT !.pc = "append", !.floor = LowestPlaceholder])
      /\ threads[t].pc = "floor"
  BY DEF ReadsFloor, At
<1>2. PICK low \in Int : low = LowestPlaceholder /\ low <= 0
  BY InvFacts, FloorIsNegative
<1>3. PICK l : l = threads[t]
  OBVIOUS
<1>4. l \in Thread /\ Locals(l) /\ l.pc = "floor"
  BY <1>1, <1>3, InvFacts DEF ChatInv
<1>5. PICK f : f = [l EXCEPT !.pc = "append", !.floor = low]
  OBVIOUS
<1>6. /\ f.pc = "append" /\ f.answer = l.answer /\ f.known = l.known
      /\ f.pending = l.pending /\ f.text = l.text /\ f.floor = low
      /\ f = [pc |-> f.pc, answer |-> f.answer, known |-> f.known, pending |-> f.pending,
              text |-> f.text, floor |-> f.floor]
  BY <1>4, <1>5 DEF Thread
<1>7. f \in Thread
  BY <1>2, <1>4, <1>6 DEF Thread
<1>8. f.pending = {} /\ SetThread(t, f)
  BY <1>1, <1>2, <1>3, <1>4, <1>5, <1>6 DEF Locals
<1>9. PendingOK(f)'
  BY <1>8 DEF PendingOK
<1>10. Locals(f)'
  BY <1>1, <1>2, <1>4, <1>6, <1>8 DEF Locals
<1> QED
  BY <1>1, <1>6, <1>7, <1>8, <1>9, <1>10, SameIsSent, ThreadMoves

LEMMA DeliverIsSent ==
  ASSUME ChatInv, NEW me \in BOOLEAN, NEW said \in Texts, Deliver(me, said)
  PROVE  SentStays
<1>1. Message(me, said) \in Sent
  BY DEF Message, Sent, ChatInv, TypeOK
<1> QED
  BY <1>1, AppendedIsSent DEF Deliver

LEMMA NobodyMoves ==
  ASSUME ChatInv, SentStays, UNCHANGED <<rows, handed, threads, restarts>>,
         now' \in 0 .. MaxTime
  PROVE  ChatInv'
<1>1. threads' \in [Threads -> Thread] /\ restarts' \in 0 .. MaxRestarts
  BY DEF ChatInv, TypeOK
<1> QED
  BY <1>1, RowsUntouched

LEMMA ArrivesStep == ASSUME ChatInv, Arrives PROVE ChatInv'
<1>1. SentStays
  BY DeliverIsSent DEF Arrives
<1>2. UNCHANGED <<rows, handed, threads, restarts>> /\ now' \in 0 .. MaxTime
  BY DEF Arrives, ChatInv, TypeOK
<1> QED
  BY <1>1, <1>2, NobodyMoves

LEMMA TickStep == ASSUME ChatInv, Tick PROVE ChatInv'
<1>1. now \in 0 .. MaxTime
  BY DEF ChatInv, TypeOK
<1>2. now' \in 0 .. MaxTime
  BY <1>1, Bounds DEF Tick
<1>3. server' = server /\ UNCHANGED <<rows, handed, threads, restarts>>
  BY DEF Tick
<1> QED
  BY <1>2, <1>3, SameIsSent, NobodyMoves

LEMMA RestartsStep == ASSUME ChatInv, Restarts PROVE ChatInv'
<1>1. /\ UNCHANGED <<server, rows, handed, now>>
      /\ restarts < MaxRestarts /\ restarts' = restarts + 1
      /\ threads' = [t \in Threads |-> Idle]
  BY DEF Restarts
<1>2. now' \in 0 .. MaxTime /\ restarts \in 0 .. MaxRestarts
  BY <1>1 DEF ChatInv, TypeOK
<1>3. restarts' \in 0 .. MaxRestarts
  BY <1>1, <1>2, Bounds
<1>4. SentStays
  BY <1>1, SameIsSent
<1>5. PICK f : f = Idle
  OBVIOUS
<1>6. f \in Thread /\ f.pc # "hand"
  BY <1>5, IdleIsBlank
<1>7. Locals(f)' /\ PendingOK(f)'
  <2>1. /\ f.answer = {} /\ f.known = {} /\ f.pending = {} /\ f.floor = 0
        /\ f.pc = "idle" /\ Len(server') \in Nat
    BY <1>4, <1>5, LenServer, IdleIsBlank
  <2> QED
    BY <2>1 DEF Locals, PendingOK
<1>8. threads' \in [Threads -> Thread]
  BY <1>1, <1>5, <1>6
<1>9. \A s \in Threads :
        threads'[s].pc # "hand" /\ Locals(threads[s])' /\ PendingOK(threads[s])'
  BY <1>1, <1>5, <1>6, <1>7
<1> QED
  BY <1>1, <1>2, <1>3, <1>4, <1>8, <1>9, RowsUntouched

LEMMA SendFailsStep ==
  ASSUME ChatInv, NEW t \in Threads, SendFails(t)
  PROVE  ChatInv'
<1>1. threads[t].text \in Texts
  BY DEF SendFails, At, ChatInv, Locals
<1>2. SentStays
  BY <1>1, SameIsSent, DeliverIsSent DEF SendFails
<1>3. SetThread(t, Idle) /\ UNCHANGED <<rows, handed, now, restarts>>
  BY DEF SendFails
<1> QED
  BY <1>2, <1>3, GoesBlank

LEMMA SendOkStep ==
  ASSUME ChatInv, NEW t \in Threads, SendOk(t)
  PROVE  ChatInv'
<1>1. threads[t].text \in Texts
  BY DEF SendOk, At, ChatInv, Locals
<1>2. SentStays
  BY <1>1, DeliverIsSent DEF SendOk
<1>3. /\ SetThread(t, [threads[t] EXCEPT !.pc = "floor"])
      /\ UNCHANGED <<rows, handed, now, restarts>>
      /\ threads[t].pc = "send"
  BY DEF SendOk, At
<1>4. PICK l : l = threads[t]
  OBVIOUS
<1>5. l \in Thread /\ Locals(l) /\ l.pc = "send" /\ l.text \in Texts
  BY <1>1, <1>3, <1>4, InvFacts DEF ChatInv
<1>6. PICK f : f = [l EXCEPT !.pc = "floor"]
  OBVIOUS
<1>7. /\ f \in Thread /\ f.pc = "floor" /\ f.answer = l.answer /\ f.known = l.known
      /\ f.pending = l.pending /\ f.text = l.text /\ f.floor = l.floor
  BY <1>5, <1>6 DEF Thread
<1>8. f.pending = {} /\ SetThread(t, f)
  BY <1>3, <1>4, <1>5, <1>6, <1>7 DEF Locals
<1>9. PendingOK(f)'
  BY <1>8 DEF PendingOK
<1>10. Locals(f)'
  <2>1. Locals(l)'
    BY <1>2, <1>5, LocalsStay
  <2> QED
    BY <1>5, <1>7, <1>8, <2>1 DEF Locals
<1> QED
  BY <1>2, <1>3, <1>7, <1>8, <1>9, <1>10, ThreadMoves

LEMMA HandsStep ==
  ASSUME ChatInv, NEW t \in Threads, Hands(t)
  PROVE  ChatInv'
<1>1. /\ UNCHANGED <<server, rows, now, restarts>> /\ SetThread(t, Idle)
      /\ threads[t].pc = "hand"
      /\ handed' = [m \in DOMAIN handed |->
                      IF m \in Fresh(t) /\ ~server[m].me
                      THEN handed[m] + 1 ELSE handed[m]]
  BY DEF Hands, At
<1>2. /\ handed \in [1 .. MaxMessages -> Nat] /\ threads \in [Threads -> Thread]
      /\ now \in 0 .. MaxTime /\ restarts \in 0 .. MaxRestarts
  BY DEF ChatInv, TypeOK
<1>3. Peers(threads[t]) = {m \in Fresh(t) : ~server[m].me}
  BY DEF Peers, Fresh
<1>4. \A m \in DOMAIN handed :
        handed'[m] = IF m \in Peers(threads[t]) THEN handed[m] + 1 ELSE handed[m]
  BY <1>1, <1>3
<1>5. \A m \in DOMAIN handed : m \in Peers(threads[t]) => Stored(m) /\ handed[m] = 0
  BY <1>1 DEF ChatInv, InHands, At
<1>6. DOMAIN handed' = DOMAIN handed /\ DOMAIN handed = 1 .. MaxMessages
  BY <1>1, <1>2
<1>7. HandedIsStored'
  BY <1>1, <1>4, <1>5, <1>6 DEF HandedIsStored, Stored, ChatInv, Peers
<1>8. handed' \in [1 .. MaxMessages -> Nat]
  BY <1>1, <1>2
<1>9. /\ threads' = [threads EXCEPT ![t] = Idle]
      /\ threads' \in [Threads -> Thread]
      /\ \A s \in Threads : s # t => threads'[s] = threads[s]
      /\ threads'[t] = Idle
  BY <1>1, <1>2, IdleIsBlank DEF SetThread
<1>10. \A s \in Threads : At(s, "hand")' =>
         s # t /\ At(s, "hand") /\ Peers(threads[s])' = Peers(threads[s])
  BY <1>1, <1>9, IdleIsBlank DEF At, Peers
<1>11. InHands'
  <2>1. ASSUME NEW s \in Threads, At(s, "hand")', NEW m \in Peers(threads[s])'
        PROVE  Stored(m)' /\ handed'[m] = 0
    <3>1. s # t /\ At(s, "hand") /\ m \in Peers(threads[s])
      BY <1>10, <2>1
    <3>2. Stored(m) /\ handed[m] = 0 /\ m \notin Peers(threads[t])
      BY <1>1, <3>1 DEF ChatInv, InHands, Apart, At
    <3>3. m \in DOMAIN handed
      <4>1. m \in 1 .. Len(server) /\ Len(server) \in Nat /\ Len(server) <= MaxMessages
        BY <3>1, InvFacts, ServerFacts DEF Peers, ChatInv, Locals
      <4> QED
        BY <1>6, <4>1, Bounds
    <3> QED
      BY <1>1, <1>4, <3>2, <3>3 DEF Stored
  <2> QED
    BY <2>1 DEF InHands
<1>12. Apart'
  BY <1>10 DEF ChatInv, Apart
<1>13. TypeOK' /\ RowsAreSent'
  BY <1>1, <1>8, <1>9 DEF ChatInv, TypeOK, RowsAreSent, UniqueIds
<1>14. ASSUME NEW s \in Threads
       PROVE  Locals(threads[s])' /\ PendingOK(threads[s])'
  <2>1. PICK l : l = threads'[s]
    OBVIOUS
  <2>2. Locals(l) /\ PendingOK(l) /\ l \in Thread
    <3>1. CASE s = t
      <4>1. l = Idle /\ Len(server) \in Nat
        BY <1>9, <2>1, <3>1, InvFacts, ServerFacts
      <4> QED
        BY <4>1, IdleIsBlank, BlankIsOK
    <3>2. CASE s # t
      BY <1>9, <2>1, <3>2, InvFacts DEF ChatInv
    <3> QED
      BY <3>1, <3>2
  <2>3. SentStays
    BY <1>1, SameIsSent
  <2>4. Locals(l)' /\ PendingOK(l)'
    BY <1>1, <2>2, <2>3, LocalsStay, PendingStays
  <2> QED
    BY <2>1, <2>4
<1> QED
  BY <1>7, <1>11, <1>12, <1>13, <1>14 DEF ChatInv

-----------------------------------------------------------------------------
(* Steps that change the rows. *)

LEMMA RowsChange ==
  ASSUME ChatInv, UNCHANGED <<server, handed, now, restarts>>,
         rows' \in Seq(Row), UniqueIds(rows)', RowsAreSent',
         HandedIsStored', InHands', Apart',
         \A l \in Thread : PendingOK(l) => PendingOK(l)',
         NEW t \in Threads, NEW f \in Thread, SetThread(t, f),
         Locals(f)', PendingOK(f)'
  PROVE  ChatInv'
<1>1. threads' \in [Threads -> Thread] /\ threads'[t] = f
      /\ \A s \in Threads : s # t => threads'[s] = threads[s]
  BY DEF SetThread, ChatInv, TypeOK
<1>2. TypeOK'
  BY <1>1 DEF ChatInv, TypeOK
<1>3. ASSUME NEW s \in Threads
      PROVE  Locals(threads[s])' /\ PendingOK(threads[s])'
  <2>1. PICK l : l = threads'[s]
    OBVIOUS
  <2>2. CASE s = t
    BY <1>1, <2>2
  <2>3. CASE s # t
    <3>1. Locals(l) /\ PendingOK(l) /\ l \in Thread
      BY <1>1, <2>1, <2>3, InvFacts DEF ChatInv
    <3>2. Locals(l)'
      BY <3>1, SameIsSent, LocalsStay
    <3>3. PendingOK(l)'
      BY <3>1
    <3> QED
      BY <2>1, <3>2, <3>3
  <2> QED
    BY <2>2, <2>3
<1> QED
  BY <1>2, <1>3 DEF ChatInv

LEMMA AppendsStep ==
  ASSUME ChatInv, NEW t \in Threads, Appends(t)
  PROVE  ChatInv'
<1>1. PICK id : id = threads[t].floor - 1
  OBVIOUS
<1>2. PICK row : row = [id |-> id, text |-> threads[t].text, at |-> now]
  OBVIOUS
<1>3. /\ UNCHANGED <<server, handed, now, restarts>> /\ SetThread(t, Idle)
      /\ threads[t].pc = "append"
      /\ rows' = IF Stored(id) THEN rows ELSE Append(rows, row)
  BY <1>1, <1>2 DEF Appends, At
<1>4. SentStays
  BY <1>3, SameIsSent
<1>5. CASE Stored(id)
  BY <1>3, <1>4, <1>5, GoesBlank
<1>6. CASE ~Stored(id)
  <2>1. id \in Int /\ id < 0 /\ threads[t].text \in Texts /\ now \in 0 .. MaxTime
    <3>1. threads[t].floor \in Int /\ threads[t].floor <= 0 /\ threads[t].text \in Texts
      BY <1>3, InvFacts, ThreadFacts DEF ChatInv, Locals
    <3> QED
      BY <1>1, <3>1 DEF ChatInv, TypeOK
  <2>2. row \in Row /\ row.id = id
    BY <1>2, <2>1 DEF Row
  <2>3. /\ rows \in Seq(Row) /\ Len(rows) \in Nat /\ DOMAIN rows = 1 .. Len(rows)
        /\ \A k \in DOMAIN rows : rows[k].id \in Int
    BY InvFacts, RowFacts
  <2>4. /\ rows' \in Seq(Row) /\ Len(rows') = Len(rows) + 1
        /\ \A k \in DOMAIN rows : rows'[k] = rows[k]
        /\ rows'[Len(rows) + 1] = row
    <3>1. rows' = Append(rows, row)
      BY <1>3, <1>6
    <3> QED
      BY <2>2, <2>3, <3>1, AppendProperties
  <2>5. DOMAIN rows' = 1 .. (Len(rows) + 1)
    BY <2>4, LenProperties
  <2>6. \A k \in DOMAIN rows' : \/ k \in DOMAIN rows /\ rows'[k] = rows[k]
                                \/ k = Len(rows) + 1 /\ rows'[k].id = id
    <3>1. \A k \in 1 .. (Len(rows) + 1) : k \in 1 .. Len(rows) \/ k = Len(rows) + 1
      BY <2>3
    <3> QED
      BY <2>2, <2>3, <2>4, <2>5, <3>1
  <2>7. \A k \in DOMAIN rows : k \in DOMAIN rows' /\ rows'[k] = rows[k]
    BY <2>3, <2>4, <2>5
  <2>8. UniqueIds(rows)'
    <3>1. \A k \in DOMAIN rows : rows[k].id # id
      BY <1>6 DEF Stored
    <3>2. UniqueIds(rows)
      BY InvFacts
    <3>3. ASSUME NEW k \in DOMAIN rows', NEW l \in DOMAIN rows', rows'[k].id = rows'[l].id
          PROVE  k = l
      BY <2>6, <3>1, <3>2, <3>3 DEF UniqueIds
    <3> QED
      BY <3>3 DEF UniqueIds
  <2>9. Len(server) \in Nat
    BY InvFacts, ServerFacts
  <2>12. StoredStays
    BY <2>7 DEF StoredStays, Stored
  <2>13. RowsAreSent'
    <3>1. id <= Len(server) /\ ~(id > 0)
      BY <2>1, <2>9
    <3> QED
      BY <1>3, <2>6, <3>1 DEF ChatInv, RowsAreSent
  <2>15. HandedIsStored' /\ InHands' /\ Apart'
    <3>1. threads \in [Threads -> Thread]
      BY DEF ChatInv, TypeOK
    <3>2. \A s \in Threads : threads'[s] = threads[s] \/ threads'[s].pc # "hand"
      BY <1>3, <3>1, IdleIsBlank DEF SetThread
    <3> QED
      BY <1>3, <1>4, <2>12, <3>2, HandsStay
  <2>16. ASSUME NEW l \in Thread, PendingOK(l) PROVE PendingOK(l)'
    <3>1. \A p \in l.pending : StillOwn(p)'
      BY <1>3, <2>7, <2>16 DEF PendingOK, StillOwn
    <3> QED
      BY <3>1 DEF PendingOK
  <2>17. PICK f : f = Idle
    OBVIOUS
  <2>18. Locals(f)' /\ PendingOK(f)' /\ f \in Thread
    <3>1. /\ f.answer = {} /\ f.known = {} /\ f.pending = {} /\ f.floor = 0
          /\ f.pc = "idle" /\ Len(server') \in Nat /\ f \in Thread
      BY <1>3, <2>9, <2>17, IdleIsBlank
    <3> QED
      BY <3>1 DEF Locals, PendingOK
  <2> QED
    BY <1>3, <2>4, <2>8, <2>13, <2>15, <2>16, <2>17, <2>18, RowsChange
<1> QED
  BY <1>5, <1>6

-----------------------------------------------------------------------------
(* The commit of a synchronisation. *)

\* Thread t has written W: what is stored then.
Committed(t, c, W) ==
  /\ ChatInv /\ c \in Claims(t) /\ Wrote(t, c, W) /\ UniqueIds(W) /\ NoneIsThere(t, c)
  /\ rows' = W /\ UNCHANGED <<server, handed, now, restarts>>
  /\ At(t, "write")

\* How a row looks afterwards: a claim writes an own message of its text.
LEMMA RowAfter ==
  ASSUME NEW t \in Threads, NEW c, NEW W, Committed(t, c, W), NEW k \in DOMAIN rows
  PROVE  /\ k \in DOMAIN rows'
         /\ \/ rows'[k] = rows[k]
            \/ \E m \in Fresh(t) :
                 /\ c[m] = k /\ rows'[k].id = m /\ rows'[k].text = rows[k].text
                 /\ server[m].me /\ server[m].text = rows[k].text
                 /\ rows[k].id > 0 => server[rows[k].id].me
<1>1. ChatInv /\ c \in Claims(t) /\ Wrote(t, c, W) /\ rows' = W
  BY DEF Committed
<1>2. k # 0 /\ k \in DOMAIN rows'
  BY <1>1, InvFacts, RowFacts DEF Wrote
<1>3. CASE \A m \in Fresh(t) : c[m] # k
  BY <1>1, <1>2, <1>3 DEF Wrote
<1>4. CASE \E m \in Fresh(t) : c[m] = k
  <2>1. PICK m \in Fresh(t) : c[m] = k
    BY <1>4
  <2>2. W[k] = Real(m)
    BY <1>1, <1>2, <2>1 DEF Wrote
  <2>3. /\ server[m].me /\ rows[k].text = server[m].text
        /\ rows[k].id > 0 => server[rows[k].id].me
    BY <1>1, <1>2, <2>1, Claimer, ClaimedRow
  <2> QED
    BY <1>1, <1>2, <2>1, <2>2, <2>3 DEF Real
<1> QED
  BY <1>3, <1>4

LEMMA StoredAfter ==
  ASSUME NEW t \in Threads, NEW c, NEW W, Committed(t, c, W),
         NEW m \in Nat, m > 0, ~server[m].me
  PROVE  Stored(m)' <=> Stored(m) \/ m \in Fresh(t)
<1>1. ChatInv /\ c \in Claims(t) /\ Wrote(t, c, W) /\ rows' = W
  BY DEF Committed
<1>2. ASSUME Stored(m) PROVE Stored(m)'
  <2>1. PICK k \in DOMAIN rows : rows[k].id = m
    BY <1>2 DEF Stored
  <2>2. k \in DOMAIN rows' /\ rows'[k] = rows[k]
    BY <2>1, RowAfter
  <2> QED
    BY <2>1, <2>2 DEF Stored
<1>3. ASSUME m \in Fresh(t) PROVE Stored(m)'
  <2>1. PICK k \in DOMAIN W : W[k].id = m
    BY <1>1, <1>3, AllAreWritten
  <2> QED
    BY <1>1, <2>1 DEF Stored
<1>4. ASSUME Stored(m)', m \notin Fresh(t) PROVE Stored(m)
  <2>1. PICK k \in DOMAIN W : W[k].id = m
    BY <1>1, <1>4 DEF Stored
  <2>2. k \in DOMAIN rows
    <3>1. SUFFICES ASSUME k \notin DOMAIN rows PROVE FALSE
      OBVIOUS
    <3>2. PICK x \in Fresh(t) : W[k] = Real(x)
      BY <1>1, <3>1 DEF Wrote
    <3> QED
      BY <1>4, <2>1, <3>2 DEF Real
  <2>3. rows'[k] = rows[k]
    BY <1>1, <1>4, <2>1, <2>2, RowAfter
  <2> QED
    BY <1>1, <2>1, <2>2, <2>3 DEF Stored
<1> QED
  BY <1>2, <1>3, <1>4

LEMMA CommitPending ==
  ASSUME NEW t \in Threads, NEW c, NEW W, Committed(t, c, W),
         NEW l \in Thread, PendingOK(l)
  PROVE  PendingOK(l)'
<1>1. ASSUME NEW p \in l.pending PROVE StillOwn(p)'
  <2>1. StillOwn(p) /\ server' = server
    BY DEF PendingOK, Committed
  <2>2. PICK k \in DOMAIN rows : k = p.key
    BY <2>1 DEF StillOwn
  <2> QED
    BY <2>1, <2>2, RowAfter DEF StillOwn
<1> QED
  BY <1>1 DEF PendingOK

\* A message of the peer that this synchronisation stored was not there.
LEMMA PeersWereNew ==
  ASSUME NEW t \in Threads, NEW c, NEW W, Committed(t, c, W),
         NEW m \in Peers(threads[t])
  PROVE  ~Stored(m) /\ m \in Fresh(t) /\ m \in Nat /\ m > 0
<1>1. ChatInv /\ c \in Claims(t) /\ NoneIsThere(t, c)
  BY DEF Committed
<1>2. m \in Fresh(t) /\ ~server[m].me
  BY DEF Peers, Fresh
<1>3. m \in Nat /\ m > 0
  BY <1>1, <1>2, FreshFacts
<1>4. ASSUME Stored(m) PROVE FALSE
  <2>1. PICK k \in DOMAIN rows : rows[k].id = m
    BY <1>4 DEF Stored
  <2>2. k # 0
    BY <1>1, InvFacts, RowFacts
  <2>3. PICK x \in Fresh(t) : c[x] = k
    BY <1>1, <1>2, <2>1 DEF NoneIsThere
  <2>4. server[m].me
    BY <1>1, <1>3, <2>1, <2>2, <2>3, ClaimedRow
  <2> QED
    BY <1>2, <2>4
<1> QED
  BY <1>2, <1>3, <1>4

LEMMA CommitHands ==
  ASSUME NEW t \in Threads, NEW c, NEW W, Committed(t, c, W), StoredStays,
         threads \in [Threads -> Thread],
         NEW f \in Thread, SetThread(t, f),
         \/ f.answer = threads[t].answer /\ f.known = threads[t].known
         \/ f.pc # "hand"
  PROVE  HandedIsStored' /\ InHands' /\ Apart'
<1>1. ChatInv /\ UNCHANGED <<server, handed>>
  BY DEF Committed
<1>2. threads'[t] = f /\ \A s \in Threads : s # t => threads'[s] = threads[s]
  BY DEF SetThread
<1>3. \A s \in Threads : At(s, "hand")' =>
        Peers(threads[s])' = Peers(threads[s])
  BY <1>1, <1>2 DEF At, Peers
<1>4. \A s \in Threads : At(s, "hand")' => s = t \/ At(s, "hand")
  BY <1>2 DEF At
<1>5. ASSUME NEW s \in Threads, At(s, "hand")', NEW m \in Peers(threads[s])
      PROVE  /\ Stored(m)' /\ handed[m] = 0
             /\ s # t => Stored(m)
             /\ s = t => ~Stored(m)
  <2>1. /\ Len(server) \in Nat /\ m \in 1 .. Len(server) /\ m \in 1 .. MaxMessages
        /\ m \in Nat /\ m > 0 /\ ~server[m].me
    <3>1. /\ m \in 1 .. Len(server) /\ Len(server) \in Nat /\ ~server[m].me
          /\ Len(server) <= MaxMessages
      BY <1>1, InvFacts, ServerFacts DEF Peers, ChatInv, Locals
    <3> QED
      BY <3>1, Bounds
  <2>2. CASE s = t
    <3>1. ~Stored(m) /\ m \in Fresh(t)
      BY <2>2, PeersWereNew
    <3>2. Stored(m)'
      BY <2>1, <3>1, StoredAfter
    <3>3. handed[m] = 0
      BY <1>1, <2>1, <3>1 DEF ChatInv, HandedIsStored, TypeOK
    <3> QED
      BY <2>2, <3>1, <3>2, <3>3
  <2>3. CASE s # t
    <3>1. Stored(m) /\ handed[m] = 0
      BY <1>1, <1>4, <1>5, <2>3 DEF ChatInv, InHands
    <3> QED
      BY <2>1, <2>3, <3>1 DEF StoredStays
  <2> QED
    BY <2>2, <2>3
<1>6. InHands'
  BY <1>1, <1>3, <1>5 DEF InHands
<1>7. Apart'
  <2>1. ASSUME NEW s \in Threads, NEW u \in Threads, s # u, At(s, "hand")', At(u, "hand")'
        PROVE  Peers(threads[s]) \cap Peers(threads[u]) = {}
    <3>1. CASE s # t /\ u # t
      BY <1>1, <1>4, <2>1, <3>1 DEF ChatInv, Apart
    <3>2. CASE s = t \/ u = t
      BY <1>5, <2>1, <3>2
    <3> QED
      BY <3>1, <3>2
  <2> QED
    BY <1>3, <2>1 DEF Apart
<1> QED
  BY <1>1, <1>6, <1>7, SameIsSent, HandedStays

LEMMA CommitStep ==
  ASSUME NEW t \in Threads, NEW c, NEW W, Committed(t, c, W), WriteDone(t)
  PROVE  ChatInv'
<1>1. /\ ChatInv /\ c \in Claims(t) /\ Wrote(t, c, W) /\ UniqueIds(W) /\ rows' = W
      /\ UNCHANGED <<server, handed, now, restarts>> /\ threads[t].pc = "write"
  BY DEF Committed, At
<1>2. /\ threads \in [Threads -> Thread] /\ threads[t] \in Thread
      /\ Locals(threads[t]) /\ Len(server) \in Nat
  BY <1>1, InvFacts, ServerFacts, ThreadFacts DEF ChatInv, TypeOK
<1>3. PICK f \in Thread :
        /\ SetThread(t, f) /\ f.pending = {} /\ f.floor <= 0
        /\ f.pc # "pending" /\ f.pc # "write" /\ f.pc # "floor" /\ f.pc # "append"
        /\ f.pc = "send" => f.text \in Texts
        /\ \/ f.answer = threads[t].answer /\ f.known = threads[t].known
           \/ f.pc # "hand" /\ f.answer = {} /\ f.known = {}
  <2>1. CASE t \in Pollers
    <3>1. PICK l : l = threads[t]
      OBVIOUS
    <3>2. PICK f : f = [l EXCEPT !.pc = "hand", !.pending = {}]
      OBVIOUS
    <3>3. /\ f.pc = "hand" /\ f.answer = l.answer /\ f.known = l.known
          /\ f.pending = {} /\ f.text = l.text /\ f.floor = l.floor
          /\ f = [pc |-> f.pc, answer |-> f.answer, known |-> f.known, pending |-> f.pending,
                  text |-> f.text, floor |-> f.floor]
      BY <1>2, <3>1, <3>2 DEF Thread
    <3>4. {} \in SUBSET Pending
      OBVIOUS
    <3>5. f \in Thread
      BY <1>2, <3>1, <3>3, <3>4 DEF Thread, Pending
    <3>6. f.floor <= 0
      BY <1>2, <3>1, <3>3 DEF Locals
    <3>7. SetThread(t, f)
      BY <2>1, <3>1, <3>2 DEF WriteDone
    <3> QED
      BY <3>1, <3>3, <3>5, <3>6, <3>7
  <2>2. CASE t \notin Pollers
    <3>1. PICK f : f = After(t)
      OBVIOUS
    <3>2. SetThread(t, f)
      BY <2>2, <3>1 DEF WriteDone
    <3> QED
      BY <1>1, <3>1, <3>2, AfterIsBlank
  <2> QED
    BY <2>1, <2>2
<1>4. StoredStays
  <2>1. \A m \in 1 .. Len(server) : m \in Nat /\ m > 0
    BY <1>2
  <2> QED
    BY <2>1, StoredAfter DEF StoredStays
<1>5. \A m \in Fresh(t) : m <= Len(server) /\ m \in Int /\ m > 0
  BY <1>1, FreshFacts
<1>6. RowsAreSent'
  <2>1. ASSUME NEW k \in DOMAIN rows'
        PROVE  /\ rows'[k].id <= Len(server)
               /\ rows'[k].id > 0 => server[rows'[k].id].text = rows'[k].text
    <3>1. CASE k \in DOMAIN rows
      BY <1>1, <1>5, <3>1, RowAfter DEF ChatInv, RowsAreSent
    <3>2. CASE k \notin DOMAIN rows
      <4>1. PICK m \in Fresh(t) : W[k] = Real(m)
        BY <1>1, <3>2 DEF Wrote
      <4>2. rows'[k].id = m /\ rows'[k].text = server[m].text
        BY <1>1, <4>1 DEF Real
      <4> QED
        BY <1>5, <4>2
    <3> QED
      BY <3>1, <3>2
  <2> QED
    BY <1>1, <2>1 DEF RowsAreSent
<1>8. HandedIsStored' /\ InHands' /\ Apart'
  BY <1>2, <1>3, <1>4, CommitHands
<1>9. PendingOK(f)'
  BY <1>3 DEF PendingOK
<1>10. Locals(f)'
  <2>1. f.answer \subseteq 1 .. Len(server')
    BY <1>1, <1>2, <1>3 DEF Locals
  <2> QED
    BY <1>3, <2>1 DEF Locals
<1>11. rows' \in Seq(Row) /\ UniqueIds(rows)'
  BY <1>1 DEF Wrote, UniqueIds
<1>12. \A l \in Thread : PendingOK(l) => PendingOK(l)'
  BY CommitPending
<1> QED
  BY <1>1, <1>3, <1>6, <1>8, <1>9, <1>10, <1>11, <1>12, RowsChange

\* A synchronisation commits what it has, or changes nothing.
LEMMA WritesCommits ==
  ASSUME ChatInv, NEW t \in Threads, Writes(t)
  PROVE  \/ \E c, W : Committed(t, c, W) /\ WriteDone(t)
         \/ UNCHANGED <<server, rows, handed, now, restarts>> /\ SetThread(t, After(t))
<1>1. PICK c \in Claims(t) : \E new \in InOrder({m \in Fresh(t) : c[m] = 0}) :
        IF NoneIsThere(t, c)
        THEN rows' = Written(t, c, new) /\ WriteDone(t)
        ELSE SetThread(t, After(t)) /\ UNCHANGED rows
  BY DEF Writes
<1>2. PICK new \in InOrder({m \in Fresh(t) : c[m] = 0}) :
        IF NoneIsThere(t, c)
        THEN rows' = Written(t, c, new) /\ WriteDone(t)
        ELSE SetThread(t, After(t)) /\ UNCHANGED rows
  BY <1>1
<1>3. PICK W : W = Written(t, c, new)
  OBVIOUS
<1>4. At(t, "write") /\ UNCHANGED <<server, handed, now, restarts>>
  BY DEF Writes
<1>5. CASE NoneIsThere(t, c)
  <2>1. rows' = W /\ WriteDone(t)
    BY <1>2, <1>3, <1>5
  <2>2. Wrote(t, c, W) /\ UniqueIds(W)
    BY <1>3, <1>5, WritesWrote, UniqueAfter
  <2> QED
    BY <1>4, <1>5, <2>1, <2>2 DEF Committed
<1>6. CASE ~NoneIsThere(t, c)
  BY <1>2, <1>4, <1>6
<1> QED
  BY <1>5, <1>6

LEMMA WritesStep ==
  ASSUME ChatInv, NEW t \in Threads, Writes(t)
  PROVE  ChatInv'
<1>1. CASE \E c, W : Committed(t, c, W) /\ WriteDone(t)
  BY <1>1, CommitStep
<1>2. CASE UNCHANGED <<server, rows, handed, now, restarts>> /\ SetThread(t, After(t))
  BY <1>2, SameIsSent, GoesBlank
<1> QED
  BY <1>1, <1>2, WritesCommits

-----------------------------------------------------------------------------
(* The theorems. *)

LEMMA ChatInit == Init => ChatInv
<1> SUFFICES ASSUME Init PROVE ChatInv
  OBVIOUS
<1>1. /\ server = <<>> /\ rows = <<>> /\ threads = [t \in Threads |-> Idle]
      /\ handed = [m \in 1 .. MaxMessages |-> 0] /\ now = 0 /\ restarts = 0
  BY DEF Init
<1>2. /\ rows \in Seq(Row) /\ server \in Seq(Sent) /\ Len(server) = 0
      /\ DOMAIN rows = {}
  BY <1>1
<1>3. TypeOK
  <2>1. threads \in [Threads -> Thread]
    BY <1>1, IdleIsBlank
  <2>2. UniqueIds(rows)
    BY <1>2 DEF UniqueIds
  <2>3. now \in 0 .. MaxTime /\ restarts \in 0 .. MaxRestarts /\ 0 <= MaxMessages
    BY <1>1, Bounds
  <2> QED
    BY <1>1, <1>2, <2>1, <2>2, <2>3 DEF TypeOK, Sent
<1>4. RowsAreSent
  BY <1>2 DEF RowsAreSent
<1>5. HandedIsStored
  BY <1>1 DEF HandedIsStored
<1>6. InHands /\ Apart
  BY <1>1, IdleIsBlank DEF InHands, Apart, At
<1>7. \A t \in Threads : Locals(threads[t]) /\ PendingOK(threads[t])
  <2>1. Locals(Idle) /\ PendingOK(Idle)
    <3>1. Len(server) \in Nat
      BY <1>2
    <3> QED
      BY <3>1, IdleIsBlank, BlankIsOK
  <2> QED
    BY <1>1, <2>1
<1> QED
  BY <1>3, <1>4, <1>5, <1>6, <1>7 DEF ChatInv

LEMMA ChatStep == ASSUME ChatInv, [ChatNext]_chatVars PROVE ChatInv'
<1>1. CASE \E p \in Pollers : Polls(p)
  BY <1>1, PollsAsk, AsksStep DEF Threads
<1>2. CASE \E p \in Pollers : Hands(p)
  BY <1>2, HandsStep DEF Threads
<1>3. CASE \E t \in Others : Visits(t) \/ Backfills(t)
  BY <1>3, VisitsAsk, AsksStep DEF Threads
<1>4. CASE \E t \in Others : Sends(t)
  BY <1>4, SendFailsStep, SendOkStep, ReadsFloorStep, AppendsStep DEF Sends, Threads
<1>5. CASE \E t \in Threads : Sync(t)
  BY <1>5, ReadsKnownStep, ReadsPendingStep, WritesStep DEF Sync
<1>6. CASE Arrives \/ Tick \/ Restarts
  BY <1>6, ArrivesStep, TickStep, RestartsStep
<1>7. CASE UNCHANGED chatVars
  <2>1. UNCHANGED <<server, rows, threads, handed, now, restarts>>
    BY <1>7 DEF chatVars
  <2>2. SentStays /\ now' \in 0 .. MaxTime
    BY <2>1, SameIsSent DEF ChatInv, TypeOK
  <2> QED
    BY <2>1, <2>2, NobodyMoves
<1> QED
  BY <1>1, <1>2, <1>3, <1>4, <1>5, <1>6, <1>7 DEF ChatNext

THEOREM ChatInvariant == ChatSpec => []ChatInv
BY ChatInit, ChatStep, PTL DEF ChatSpec

(***************************************************************************)
(* The rows and the threads are what the code takes them for: one row per  *)
(* id and account, no row with the id 0, and a thread that is sending has  *)
(* something to say.                                                       *)
(***************************************************************************)
THEOREM ChatTypes == ChatSpec => []TypeOK
<1>1. ChatInv => TypeOK
  BY DEF ChatInv
<1> QED
  BY ChatInvariant, <1>1, PTL

(***************************************************************************)
(* Nobody hands a message of the peer on twice, whatever threads poll.     *)
(* A poll hands on what its own commit brought in (InHands), the unique    *)
(* ids let one commit bring a message in (PeersWereNew), and what is       *)
(* stored is not new to anybody later.                                     *)
(***************************************************************************)
THEOREM PeersAreHandedOnce == ChatSpec => []HandedOnce
<1>1. ChatInv => HandedOnce
  BY DEF ChatInv, HandedIsStored, HandedOnce
<1> QED
  BY ChatInvariant, <1>1, PTL

\* What may happen to a row that has Douyin's message.
KeptOrReplaced(k) ==
  /\ k \in DOMAIN rows'
  /\ \/ rows'[k].id = rows[k].id
     \/ /\ rows'[k].id > 0
        /\ \A m \in {rows[k].id, rows'[k].id} :
             server[m].me /\ server[m].text = rows[k].text

LEMMA StepKeepsRows ==
  ASSUME ChatInv, [ChatNext]_chatVars, NEW k \in DOMAIN rows, rows[k].id > 0
  PROVE  KeptOrReplaced(k)
<1>1. CASE UNCHANGED rows
  BY <1>1 DEF KeptOrReplaced
<1>2. CASE \E t \in Threads : Writes(t)
  <2>1. PICK t \in Threads : Writes(t)
    BY <1>2
  <2>2. ASSUME NEW c, NEW W, Committed(t, c, W)
        PROVE  KeptOrReplaced(k)
    <3>1. CASE rows'[k] = rows[k] /\ k \in DOMAIN rows'
      BY <3>1 DEF KeptOrReplaced
    <3>2. CASE rows'[k] # rows[k]
      <4>1. PICK m \in Fresh(t) :
              /\ rows'[k].id = m /\ server[m].me /\ server[m].text = rows[k].text
              /\ server[rows[k].id].me
        BY <2>2, <3>2, RowAfter
      <4>2. server[rows[k].id].text = rows[k].text /\ m > 0
        BY FreshFacts DEF ChatInv, RowsAreSent
      <4>3. k \in DOMAIN rows'
        BY <2>2, RowAfter
      <4> QED
        BY <4>1, <4>2, <4>3 DEF KeptOrReplaced
    <3> QED
      BY <2>2, <3>1, <3>2, RowAfter
  <2> QED
    BY <1>1, <2>1, <2>2, WritesCommits
<1>3. CASE \E t \in Others : Appends(t)
  <2>1. PICK t \in Others : Appends(t)
    BY <1>3
  <2>2. PICK row : row = [id |-> threads[t].floor - 1, text |-> threads[t].text, at |-> now]
    OBVIOUS
  <2>3. rows' = rows \/ rows' = Append(rows, row)
    BY <2>1, <2>2 DEF Appends
  <2>4. rows \in Seq(Row) /\ Len(rows) \in Nat /\ DOMAIN rows = 1 .. Len(rows)
    BY InvFacts, RowFacts
  <2>5. CASE rows' = Append(rows, row)
    <3>1. k \in 1 .. Len(rows) /\ k # Len(rows) + 1
      BY <2>4
    <3>2. DOMAIN rows' = 1 .. (Len(rows) + 1) /\ rows'[k] = rows[k]
      BY <2>4, <2>5, <3>1
    <3> QED
      BY <2>4, <3>1, <3>2 DEF KeptOrReplaced
  <2> QED
    BY <1>1, <2>3, <2>5
<1>4. CASE UNCHANGED chatVars
  BY <1>1, <1>4 DEF chatVars
<1>5. CASE \/ \E p \in Pollers : Polls(p) \/ Hands(p)
           \/ \E t \in Others : Visits(t) \/ Backfills(t) \/ SendFails(t) \/ SendOk(t) \/ ReadsFloor(t)
           \/ \E t \in Threads : ReadsKnown(t) \/ ReadsPending(t)
           \/ Arrives \/ Tick \/ Restarts
  <2>1. UNCHANGED rows
    BY <1>5
    DEF Polls, Begins, Hands, Visits, Backfills, SendFails, SendOk, ReadsFloor, ReadsKnown,
        ReadsPending, Arrives, Tick, Restarts
  <2> QED
    BY <1>1, <2>1
<1> QED
  BY <1>2, <1>3, <1>4, <1>5 DEF ChatNext, Sends, Sync

(***************************************************************************)
(* Whatever parts of the conversations the answers have, and however many  *)
(* synchronisations look at the store at once, the only message that is    *)
(* ever written over is one of the user's that came into its row by a      *)
(* claim, and it makes room for another of the same text: a row that was   *)
(* a placeholder when somebody looked can only have been claimed since     *)
(* (PendingOK), and a claim is by an own message of its text.              *)
(***************************************************************************)
THEOREM RowsAreReplacedByTwins == ChatSpec => OnlyATwinReplaces
<1>1. ChatInv /\ [ChatNext]_chatVars =>
        [\A k \in DOMAIN rows : rows[k].id > 0 =>
           /\ k \in DOMAIN rows'
           /\ \/ rows'[k].id = rows[k].id
              \/ /\ rows'[k].id > 0
                 /\ \A m \in {rows[k].id, rows'[k].id} :
                      server[m].me /\ server[m].text = rows[k].text]_chatVars
  BY StepKeepsRows DEF KeptOrReplaced
<1> QED
  BY ChatInvariant, <1>1, PTL DEF ChatSpec, OnlyATwinReplaces

-----------------------------------------------------------------------------
(***************************************************************************)
(* What handing on at most once costs.  A message of the peer is missed    *)
(* when it is stored, was not handed on, and is in no poll's hands: a send *)
(* or another visit has stored it (_ensure_active, trigger.py:218), or a   *)
(* backfill (trigger.py:372), or the process ended between the commit and  *)
(* the broadcast.                                                          *)
(***************************************************************************)
Missed(m) ==
  /\ ~server[m].me /\ Stored(m) /\ handed[m] = 0
  /\ \A p \in Threads : At(p, "hand") => m \notin Fresh(p)
MissedStaysMissed ==
  [][\A m \in 1 .. Len(server) : Missed(m) => Missed(m)']_chatVars

\* The steps that hand nothing on and bring nothing in.
Besides ==
  \/ \E p \in Pollers : Polls(p)
  \/ \E t \in Others : Visits(t) \/ Backfills(t) \/ Sends(t)
  \/ \E t \in Threads : ReadsKnown(t) \/ ReadsPending(t)
  \/ Arrives \/ Tick \/ Restarts \/ UNCHANGED chatVars

\* Nobody gets anything into its hands by moving on to f.
LEMMA OneMoves ==
  ASSUME ChatInv, NEW t \in Threads, NEW f, SetThread(t, f), f.pc # "hand"
  PROVE  \A s \in Threads : threads'[s] = threads[s] \/ threads'[s].pc # "hand"
BY DEF SetThread, ChatInv, TypeOK

LEMMA AfterIsNoHand ==
  ASSUME NEW t \in Threads PROVE After(t).pc # "hand"
BY DEF After, Idle

LEMMA BesidesHands ==
  ASSUME ChatInv, Besides
  PROVE  /\ UNCHANGED handed
         /\ \A s \in Threads : threads'[s] = threads[s] \/ threads'[s].pc # "hand"
<1>1. ASSUME NEW t \in Threads, Asks(t)
      PROVE  /\ UNCHANGED handed
             /\ \A s \in Threads : threads'[s] = threads[s] \/ threads'[s].pc # "hand"
  <2>1. PICK said, answer : Begins(t, said, answer)
    BY <1>1 DEF Asks
  <2> DEFINE f == [Idle EXCEPT !.pc = "known", !.answer = answer, !.text = said]
  <2>2. SetThread(t, f) /\ UNCHANGED handed
    BY <2>1 DEF Begins
  <2>3. f.pc = "known"
    BY DEF Idle
  <2> HIDE DEF f
  <2> QED
    BY <2>2, <2>3, OneMoves
<1>2. ASSUME NEW t \in Threads, ReadsKnown(t) \/ ReadsPending(t)
      PROVE  /\ UNCHANGED handed
             /\ \A s \in Threads : threads'[s] = threads[s] \/ threads'[s].pc # "hand"
  <2>1. threads[t] \in Thread
    BY InvFacts
  <2>2. CASE ReadsKnown(t)
    <3> DEFINE known == {m \in threads[t].answer : Stored(m)}
               pc == IF \E m \in threads[t].answer \ known : server[m].me
                     THEN "pending" ELSE "write"
    <3>1. \/ SetThread(t, After(t))
          \/ SetThread(t, [threads[t] EXCEPT !.known = known, !.pc = pc])
      BY <2>2 DEF ReadsKnown
    <3>2. [threads[t] EXCEPT !.known = known, !.pc = pc].pc # "hand"
      <4> HIDE DEF known
      <4> QED
        BY <2>1 DEF Thread
    <3> HIDE DEF pc, known
    <3> QED
      BY <2>2, <3>1, <3>2, AfterIsNoHand, OneMoves DEF ReadsKnown
  <2>3. CASE ReadsPending(t)
    <3> DEFINE f == [threads[t] EXCEPT !.pending = Placeholders, !.pc = "write"]
    <3>1. SetThread(t, f) /\ UNCHANGED handed
      BY <2>3 DEF ReadsPending
    <3>2. f.pc = "write"
      BY <2>1 DEF Thread
    <3> HIDE DEF f
    <3> QED
      BY <3>1, <3>2, OneMoves
  <2> QED
    BY <1>2, <2>2, <2>3
<1>3. ASSUME NEW t \in Others, Sends(t)
      PROVE  /\ UNCHANGED handed
             /\ \A s \in Threads : threads'[s] = threads[s] \/ threads'[s].pc # "hand"
  <2>1. t \in Threads /\ threads[t] \in Thread
    BY InvFacts DEF Threads
  <2> DEFINE sent == [threads[t] EXCEPT !.pc = "floor"]
             found == [threads[t] EXCEPT !.pc = "append", !.floor = LowestPlaceholder]
  <2>2. SetThread(t, Idle) \/ SetThread(t, sent) \/ SetThread(t, found)
    BY <1>3 DEF Sends, SendFails, SendOk, ReadsFloor, Appends
  <2>3. sent.pc = "floor" /\ found.pc = "append" /\ Idle.pc = "idle"
    BY <2>1, IdleIsBlank DEF Thread
  <2>4. UNCHANGED handed
    BY <1>3 DEF Sends, SendFails, SendOk, ReadsFloor, Appends
  <2> HIDE DEF sent, found
  <2> QED
    BY <2>1, <2>2, <2>3, <2>4, OneMoves
<1>4. CASE Restarts
  BY <1>4, IdleIsBlank DEF Restarts
<1>5. CASE Arrives \/ Tick \/ UNCHANGED chatVars
  BY <1>5 DEF Arrives, Tick, chatVars
<1> QED
  BY <1>1, <1>2, <1>3, <1>4, <1>5, PollsAsk, VisitsAsk DEF Besides, Threads

\* What Douyin has stays as it is.
LEMMA SameMessage ==
  ASSUME ChatInv, [ChatNext]_chatVars, NEW m \in 1 .. Len(server)
  PROVE  server'[m] = server[m]
<1>1. server \in Seq(Sent) /\ Len(server) \in Nat
  BY InvFacts, ServerFacts
<1>2. CASE UNCHANGED server
  BY <1>2
<1>3. CASE \E me, text : Deliver(me, text)
  <2>1. PICK x : server' = Append(server, x)
    BY <1>3 DEF Deliver
  <2> QED
    BY <1>1, <2>1
<1>4. CASE \/ \E p \in Pollers : Polls(p) \/ Hands(p)
           \/ \E t \in Others : Visits(t) \/ Backfills(t) \/ ReadsFloor(t) \/ Appends(t)
           \/ \E t \in Threads : Sync(t)
           \/ Tick \/ Restarts \/ UNCHANGED chatVars
  <2>1. UNCHANGED server
    BY <1>4
    DEF Polls, Begins, Hands, Visits, Backfills, ReadsFloor, Appends, Sync, ReadsKnown,
        ReadsPending, Writes, Tick, Restarts, chatVars
  <2> QED
    BY <1>2, <2>1
<1>5. CASE Arrives \/ \E t \in Others : SendFails(t) \/ SendOk(t)
  <2>1. UNCHANGED server \/ \E me, text : Deliver(me, text)
    BY <1>5 DEF Arrives, SendFails, SendOk
  <2> QED
    BY <1>2, <1>3, <2>1
<1> QED
  BY <1>4, <1>5 DEF ChatNext, Sends

LEMMA MissedStep ==
  ASSUME ChatInv, [ChatNext]_chatVars, NEW m \in 1 .. Len(server), Missed(m)
  PROVE  Missed(m)'
<1>1. ~server[m].me /\ Stored(m) /\ handed[m] = 0
      /\ \A p \in Threads : At(p, "hand") => m \notin Fresh(p)
  BY DEF Missed
<1>2. m \in Nat /\ m > 0 /\ m \in 1 .. MaxMessages
  <2>1. Len(server) \in Nat /\ Len(server) <= MaxMessages
    BY InvFacts, ServerFacts
  <2> QED
    BY <2>1, Bounds
<1>3. ~server'[m].me
  BY <1>1, SameMessage
<1>4. Stored(m)'
  <2>1. PICK k \in DOMAIN rows : rows[k].id = m
    BY <1>1 DEF Stored
  <2>2. k \in DOMAIN rows' /\ rows'[k].id = m
    BY <1>1, <1>2, <2>1, StepKeepsRows DEF KeptOrReplaced
  <2> QED
    BY <2>2 DEF Stored
<1>5. SUFFICES /\ handed'[m] = 0
               /\ \A p \in Threads : At(p, "hand")' => m \notin Fresh(p)'
  BY <1>3, <1>4 DEF Missed
<1>6. threads \in [Threads -> Thread] /\ DOMAIN handed = 1 .. MaxMessages
  BY DEF ChatInv, TypeOK
<1>7. CASE \E p \in Pollers : Hands(p)
  <2>1. PICK p \in Pollers : Hands(p)
    BY <1>7
  <2>2. /\ At(p, "hand") /\ SetThread(p, Idle) /\ p \in Threads
        /\ handed' = [x \in DOMAIN handed |->
                        IF x \in Fresh(p) /\ ~server[x].me
                        THEN handed[x] + 1 ELSE handed[x]]
    BY <2>1 DEF Hands, Threads
  <2>3. m \notin Fresh(p)
    BY <1>1, <2>2
  <2>4. handed'[m] = 0
    BY <1>1, <1>2, <1>6, <2>2, <2>3
  <2>5. \A s \in Threads : threads'[s] = threads[s] \/ threads'[s].pc # "hand"
    BY <2>2, IdleIsBlank, OneMoves
  <2> QED
    BY <1>1, <2>4, <2>5 DEF At, Fresh
<1>8. CASE \E t \in Threads : Writes(t)
  <2>1. PICK t \in Threads : Writes(t)
    BY <1>8
  <2>2. CASE \E c, W : Committed(t, c, W) /\ WriteDone(t)
    <3>1. PICK c, W : Committed(t, c, W) /\ WriteDone(t)
      BY <2>2
    <3>2. UNCHANGED <<server, handed>>
      BY <3>1 DEF Committed
    <3>3. m \notin Fresh(t)
      <4>1. m \in Fresh(t) => m \in Peers(threads[t])
        BY <1>1 DEF Peers, Fresh
      <4> QED
        BY <1>1, <3>1, <4>1, PeersWereNew
    <3>4. \A s \in Threads : s # t => threads'[s] = threads[s]
      BY <1>6, <3>1 DEF WriteDone, SetThread
    <3>5. \/ threads'[t].answer = threads[t].answer /\ threads'[t].known = threads[t].known
          \/ threads'[t].pc # "hand"
      <4>1. threads[t] \in Thread
        BY <1>6
      <4>2. CASE t \in Pollers
        <5> DEFINE l == threads[t]
                   f == [l EXCEPT !.pc = "hand", !.pending = {}]
        <5>1. threads'[t] = f
          BY <1>6, <3>1, <4>2 DEF WriteDone, SetThread
        <5>2. f.answer = l.answer /\ f.known = l.known
          BY <4>1 DEF Thread
        <5> QED
          BY <5>1, <5>2
      <4>3. CASE t \notin Pollers
        <5>1. threads'[t] = After(t)
          BY <1>6, <3>1, <4>3 DEF WriteDone, SetThread
        <5> QED
          BY <5>1, AfterIsNoHand
      <4> QED
        BY <4>2, <4>3
    <3>6. \A s \in Threads : At(s, "hand")' => m \notin Fresh(s)'
      <4>1. ASSUME NEW s \in Threads, At(s, "hand")' PROVE m \notin Fresh(s)'
        <5>1. CASE s = t
          BY <3>3, <3>5, <4>1, <5>1 DEF At, Fresh
        <5>2. CASE s # t
          BY <1>1, <3>4, <4>1, <5>2 DEF At, Fresh
        <5> QED
          BY <5>1, <5>2
      <4> QED
        BY <4>1
    <3> QED
      BY <1>1, <3>2, <3>6
  <2>3. CASE /\ UNCHANGED <<server, rows, handed, now, restarts>>
             /\ SetThread(t, After(t))
    <3>1. \A s \in Threads : threads'[s] = threads[s] \/ threads'[s].pc # "hand"
      BY <2>3, AfterIsNoHand, OneMoves
    <3> QED
      BY <1>1, <2>3, <3>1 DEF At, Fresh
  <2> QED
    BY <2>1, <2>2, <2>3, WritesCommits
<1>9. CASE Besides
  <2>1. /\ UNCHANGED handed
        /\ \A s \in Threads : threads'[s] = threads[s] \/ threads'[s].pc # "hand"
    BY <1>9, BesidesHands
  <2> QED
    BY <1>1, <2>1 DEF At, Fresh
<1> QED
  BY <1>7, <1>8, <1>9 DEF ChatNext, Besides, Sync

(***************************************************************************)
(* A missed message stays missed: what another visit has stored before     *)
(* any poll saw it is never broadcast and never given to the AI worker,    *)
(* however often the account is polled afterwards.  It is the price of     *)
(* PeersAreHandedOnce: a poll hands on what its own commit brings in.      *)
(***************************************************************************)
THEOREM MissedMessagesStayMissed == ChatSpec => MissedStaysMissed
<1>1. ChatInv /\ [ChatNext]_chatVars =>
        [\A m \in 1 .. Len(server) : Missed(m) => Missed(m)']_chatVars
  BY MissedStep
<1> QED
  BY ChatInvariant, <1>1, PTL DEF ChatSpec, MissedStaysMissed

-----------------------------------------------------------------------------
(* The refinement of PeerInbox. *)

InStore == {m \in Arrived : Stored(m)}
InTheHands == [t \in Threads |-> IF At(t, "hand") THEN Fresh(t) \cap Arrived ELSE {}]
Given == {m \in DOMAIN handed : handed[m] > 0}
InboxStep == [Inbox!Next]_<<Arrived, InStore, InTheHands, Given>>

LEMMA InboxStutters ==
  ASSUME UNCHANGED <<Arrived, InStore, InTheHands, Given>> PROVE InboxStep
BY DEF InboxStep

LEMMA InboxArrives ==
  ASSUME NEW m \in 1 .. MaxMessages, m \notin Arrived,
         Arrived' = Arrived \cup {m}, UNCHANGED <<InStore, InTheHands, Given>>
  PROVE  InboxStep
BY DEF InboxStep, Inbox!Next, Inbox!Arrives, InStore, InTheHands, Given

LEMMA InboxBringsIn ==
  ASSUME NEW t \in Threads, NEW new \in SUBSET (Arrived \ InStore),
         InStore' = InStore \cup new,
         \/ InTheHands[t] = {} /\ InTheHands' = [InTheHands EXCEPT ![t] = new]
         \/ UNCHANGED InTheHands,
         UNCHANGED <<Arrived, Given>>
  PROVE  InboxStep
<1>1. Inbox!BringsIn(t)
  BY DEF Inbox!BringsIn, InStore, InTheHands, Given
<1> QED
  BY <1>1 DEF InboxStep, Inbox!Next

LEMMA InboxHandsOn ==
  ASSUME NEW t \in Threads, InTheHands[t] \cap Given = {},
         Given' = Given \cup InTheHands[t], InTheHands' = [InTheHands EXCEPT ![t] = {}],
         UNCHANGED <<Arrived, InStore>>
  PROVE  InboxStep
<1>1. Inbox!HandsOn(t)
  BY DEF Inbox!HandsOn, InStore, InTheHands, Given
<1> QED
  BY <1>1 DEF InboxStep, Inbox!Next

LEMMA InboxForgets ==
  ASSUME InTheHands' = [t \in Threads |-> {}], UNCHANGED <<Arrived, InStore, Given>>
  PROVE  InboxStep
BY DEF InboxStep, Inbox!Next, Inbox!ForgetsAll, InStore, InTheHands, Given

LEMMA ArrivedFacts ==
  ASSUME ChatInv
  PROVE  /\ Len(server) \in Nat /\ Len(server) <= MaxMessages
         /\ \A m \in Arrived : /\ m \in Nat /\ m > 0 /\ m <= Len(server)
                               /\ m \in 1 .. Len(server) /\ ~server[m].me
<1>1. Len(server) \in Nat /\ Len(server) <= MaxMessages
  BY InvFacts, ServerFacts
<1> QED
  BY <1>1 DEF Arrived

\* What a thread is going to hand on, and after a step.
LEMMA HandIsPeers ==
  ASSUME ChatInv, NEW t \in Threads
  PROVE  /\ InTheHands[t] = IF At(t, "hand") THEN Peers(threads[t]) ELSE {}
         /\ Fresh(t) \cap Arrived = Peers(threads[t])
<1>1. threads[t].answer \subseteq 1 .. Len(server)
  BY DEF ChatInv, Locals
<1>2. Fresh(t) \cap Arrived = Peers(threads[t])
  BY <1>1 DEF Fresh, Arrived, Peers
<1> QED
  BY <1>2 DEF InTheHands

LEMMA HandIsPeersThen ==
  ASSUME ChatInv', NEW t \in Threads
  PROVE  InTheHands'[t] = IF At(t, "hand")' THEN Peers(threads[t])' ELSE {}
<1>1. threads'[t].answer \subseteq 1 .. Len(server')
  BY DEF ChatInv, Locals
<1>2. (Fresh(t) \cap Arrived)' = Peers(threads[t])'
  BY <1>1 DEF Fresh, Arrived, Peers
<1> QED
  BY <1>2 DEF InTheHands

LEMMA SentAlways ==
  ASSUME ChatInv, [ChatNext]_chatVars
  PROVE  SentStays
<1>1. CASE UNCHANGED server
  BY <1>1, SameIsSent
<1>2. CASE Arrives
  BY <1>2, DeliverIsSent DEF Arrives
<1>3. ASSUME NEW t \in Others, SendFails(t) \/ SendOk(t)
      PROVE  SentStays
  <2>1. threads[t].text \in Texts
    BY <1>3 DEF SendFails, SendOk, At, ChatInv, Locals, Threads
  <2> QED
    BY <1>1, <1>3, <2>1, DeliverIsSent DEF SendFails, SendOk
<1>4. CASE \/ \E p \in Pollers : Polls(p) \/ Hands(p)
           \/ \E t \in Others : Visits(t) \/ Backfills(t) \/ ReadsFloor(t) \/ Appends(t)
           \/ \E t \in Threads : Sync(t)
           \/ Tick \/ Restarts \/ UNCHANGED chatVars
  <2>1. UNCHANGED server
    BY <1>4
    DEF Polls, Begins, Hands, Visits, Backfills, ReadsFloor, Appends, Sync, ReadsKnown,
        ReadsPending, Writes, Tick, Restarts, chatVars
  <2> QED
    BY <1>1, <2>1
<1> QED
  BY <1>2, <1>3, <1>4 DEF ChatNext, Sends

\* The steps that neither bring in nor hand on nor forget anything.
Quiet ==
  \/ \E p \in Pollers : Polls(p)
  \/ \E t \in Others : Visits(t) \/ Backfills(t) \/ Sends(t)
  \/ \E t \in Threads : ReadsKnown(t) \/ ReadsPending(t)
  \/ Arrives \/ Tick \/ UNCHANGED chatVars

\* Only handing on takes a thread out of "hand".
LEMMA HandsWait ==
  ASSUME ChatInv, Quiet \/ \E t \in Threads : Writes(t)
  PROVE  \A s \in Threads : At(s, "hand") => threads'[s] = threads[s]
<1>1. ASSUME NEW t \in Threads, NEW f, SetThread(t, f), ~At(t, "hand")
      PROVE  \A s \in Threads : At(s, "hand") => threads'[s] = threads[s]
  BY <1>1 DEF SetThread, At, ChatInv, TypeOK
<1>2. ASSUME NEW t \in Threads, Asks(t)
      PROVE  \A s \in Threads : At(s, "hand") => threads'[s] = threads[s]
  <2>1. ~At(t, "hand") /\ \E f : SetThread(t, f)
    BY <1>2 DEF Asks, Begins, At
  <2> QED
    BY <1>1, <2>1
<1>3. ASSUME NEW t \in Threads, ReadsKnown(t) \/ ReadsPending(t) \/ Writes(t)
      PROVE  \A s \in Threads : At(s, "hand") => threads'[s] = threads[s]
  <2>1. ~At(t, "hand")
    BY <1>3 DEF ReadsKnown, ReadsPending, Writes, At
  <2>2. CASE ReadsKnown(t)
    <3>1. \E f : SetThread(t, f)
      BY <2>2 DEF ReadsKnown
    <3> QED
      BY <1>1, <2>1, <3>1
  <2>3. CASE ReadsPending(t)
    <3>1. \E f : SetThread(t, f)
      BY <2>3 DEF ReadsPending
    <3> QED
      BY <1>1, <2>1, <3>1
  <2>4. CASE Writes(t)
    <3>1. WriteDone(t) \/ SetThread(t, After(t))
      BY <2>4, WritesCommits
    <3>2. \E f : SetThread(t, f)
      BY <3>1 DEF WriteDone
    <3> QED
      BY <1>1, <2>1, <3>2
  <2> QED
    BY <1>3, <2>2, <2>3, <2>4
<1>4. ASSUME NEW t \in Others, Sends(t)
      PROVE  \A s \in Threads : At(s, "hand") => threads'[s] = threads[s]
  <2>1. t \in Threads /\ ~At(t, "hand")
    BY <1>4 DEF Sends, SendFails, SendOk, ReadsFloor, Appends, At, Threads
  <2>2. \E f : SetThread(t, f)
    BY <1>4 DEF Sends, SendFails, SendOk, ReadsFloor, Appends
  <2> QED
    BY <1>1, <2>1, <2>2
<1>5. CASE Arrives \/ Tick \/ UNCHANGED chatVars
  BY <1>5 DEF Arrives, Tick, chatVars
<1> QED
  BY <1>2, <1>3, <1>4, <1>5, PollsAsk, VisitsAsk DEF Quiet, Threads

\* A thread that was not handing on, and is not, or has not moved.
LEMMA HandKept ==
  ASSUME ChatInv, ChatInv', SentStays, NEW t \in Threads,
         \/ threads'[t] = threads[t]
         \/ ~At(t, "hand") /\ ~At(t, "hand")'
  PROVE  InTheHands'[t] = InTheHands[t]
<1>1. CASE ~At(t, "hand") /\ ~At(t, "hand")'
  BY <1>1, HandIsPeers, HandIsPeersThen
<1>2. CASE threads'[t] = threads[t]
  <2>1. PICK l : l = threads[t]
    OBVIOUS
  <2>2. l \in Thread /\ Locals(l)
    BY <2>1, InvFacts DEF ChatInv
  <2>3. Peers(l)' = Peers(l)
    BY <2>2, PeersStay
  <2>4. Peers(threads[t])' = Peers(threads[t])
    <3>1. Peers(threads[t])' = Peers(l)'
      BY <1>2, <2>1 DEF Peers
    <3> QED
      BY <2>1, <2>3, <3>1
  <2>5. At(t, "hand")' <=> At(t, "hand")
    BY <1>2 DEF At
  <2> QED
    BY <2>4, <2>5, HandIsPeers, HandIsPeersThen
<1> QED
  BY <1>1, <1>2

LEMMA HandsAlike ==
  ASSUME \A t \in Threads : InTheHands'[t] = InTheHands[t]
  PROVE  UNCHANGED InTheHands
BY DEF InTheHands

LEMMA QuietHands ==
  ASSUME ChatInv, ChatInv', SentStays, Quiet
  PROVE  UNCHANGED InTheHands /\ UNCHANGED Given
<1>1. Besides
  BY DEF Quiet, Besides
<1>2. ASSUME NEW t \in Threads PROVE InTheHands'[t] = InTheHands[t]
  <2>1. \/ threads'[t] = threads[t]
        \/ ~At(t, "hand") /\ ~At(t, "hand")'
    BY <1>1, BesidesHands, HandsWait DEF At
  <2> QED
    BY <2>1, HandKept
<1>3. UNCHANGED handed
  BY <1>1, BesidesHands
<1> QED
  BY <1>2, <1>3, HandsAlike DEF Given

\* A message that arrives is new, and not stored.
LEMMA ArrivalGrows ==
  ASSUME ChatInv, ChatInv', NEW me, NEW said, Deliver(me, said),
         UNCHANGED <<rows, InTheHands, Given>>
  PROVE  InboxStep
<1>1. /\ Len(server) \in Nat /\ Len(server) <= MaxMessages
      /\ \A m \in Arrived : m \in Nat /\ m <= Len(server)
  BY ArrivedFacts
<1>2. /\ Len(server) < MaxMessages /\ Len(server') = Len(server) + 1
      /\ \A m \in 1 .. Len(server) : server'[m] = server[m]
  <2>1. Len(server) < MaxMessages /\ server' = Append(server, Message(me, said))
    BY DEF Deliver
  <2> QED
    BY <2>1, InvFacts, AppendProperties
<1>3. PICK n : n = Len(server) + 1
  OBVIOUS
<1>4. n \in 1 .. MaxMessages /\ n \notin Arrived
  BY <1>1, <1>2, <1>3, Bounds
<1>5. 1 .. Len(server') = (1 .. Len(server)) \cup {n} /\ n \notin 1 .. Len(server)
  BY <1>1, <1>2, <1>3
<1>6. Arrived' = IF server'[n].me THEN Arrived ELSE Arrived \cup {n}
  <2>1. \A m \in 1 .. Len(server) : ~server'[m].me <=> ~server[m].me
    BY <1>2
  <2>2. Arrived' = {m \in 1 .. Len(server') : ~server'[m].me}
    BY DEF Arrived
  <2>3. \A m : m \in Arrived' <=> m \in Arrived \/ (m = n /\ ~server'[n].me)
    BY <1>5, <2>1, <2>2, Zenon DEF Arrived
  <2>4. CASE server'[n].me
    BY <2>3, <2>4, Zenon
  <2>5. CASE ~server'[n].me
    BY <2>3, <2>5, Zenon
  <2> QED
    BY <2>4, <2>5
<1>7. ~Stored(n)
  <2>1. SUFFICES ASSUME NEW k \in DOMAIN rows, rows[k].id = n PROVE FALSE
    BY DEF Stored
  <2>2. rows[k].id <= Len(server)
    BY DEF ChatInv, RowsAreSent
  <2> QED
    BY <1>1, <1>3, <2>1, <2>2
<1>8. UNCHANGED InStore
  <2>1. \A m : Stored(m)' <=> Stored(m)
    BY DEF Stored
  <2>2. InStore' = {m \in Arrived' : Stored(m)}
    BY <2>1 DEF InStore
  <2> QED
    BY <1>6, <1>7, <2>2 DEF InStore
<1>9. CASE server'[n].me
  BY <1>6, <1>8, <1>9, InboxStutters
<1>10. CASE ~server'[n].me
  BY <1>4, <1>6, <1>8, <1>10, InboxArrives
<1> QED
  BY <1>9, <1>10

\* A placeholder has a number that no message has.
LEMMA PlaceholderOnly ==
  ASSUME ChatInv, NEW t \in Threads, Appends(t), NEW m \in Nat
  PROVE  Stored(m)' <=> Stored(m)
<1>1. PICK row : row = [id |-> threads[t].floor - 1, text |-> threads[t].text, at |-> now]
  OBVIOUS
<1>2. row.id < 0 /\ row.id \in Int
  <2>1. threads[t].floor \in Int /\ threads[t].floor <= 0
    BY InvFacts, ThreadFacts DEF ChatInv, Locals
  <2> QED
    BY <1>1, <2>1
<1>3. rows' = rows \/ rows' = Append(rows, row)
  BY <1>1 DEF Appends
<1>4. rows \in Seq(Row) /\ Len(rows) \in Nat /\ DOMAIN rows = 1 .. Len(rows)
  BY InvFacts, RowFacts
<1>5. CASE rows' = rows
  BY <1>5 DEF Stored
<1>6. CASE rows' = Append(rows, row)
  <2>1. /\ DOMAIN rows' = (1 .. Len(rows)) \cup {Len(rows) + 1}
        /\ \A k \in 1 .. Len(rows) : rows'[k] = rows[k]
        /\ rows'[Len(rows) + 1] = row
    <3>1. /\ DOMAIN rows' = 1 .. (Len(rows) + 1)
          /\ \A k \in 1 .. Len(rows) : rows'[k] = rows[k]
          /\ rows'[Len(rows) + 1] = row
      BY <1>4, <1>6
    <3> QED
      BY <1>4, <3>1
  <2>2. row.id # m
    BY <1>2
  <2> QED
    BY <1>4, <2>1, <2>2 DEF Stored
<1> QED
  BY <1>3, <1>5, <1>6

LEMMA StoreAlike ==
  ASSUME ChatInv, UNCHANGED server, \A m \in Nat : Stored(m)' <=> Stored(m)
  PROVE  UNCHANGED <<Arrived, InStore>>
<1>1. UNCHANGED Arrived
  BY DEF Arrived
<1>2. \A m \in Arrived : Stored(m)' <=> Stored(m)
  BY ArrivedFacts
<1> QED
  BY <1>1, <1>2 DEF InStore

LEMMA QuietIsStep ==
  ASSUME ChatInv, ChatInv', [ChatNext]_chatVars, Quiet
  PROVE  InboxStep
<1>1. UNCHANGED <<InTheHands, Given>>
  BY SentAlways, QuietHands
<1>2. CASE UNCHANGED <<server, rows>>
  <2>1. \A m \in Nat : Stored(m)' <=> Stored(m)
    BY <1>2 DEF Stored
  <2> QED
    BY <1>1, <1>2, <2>1, StoreAlike, InboxStutters
<1>3. CASE \E me, said : Deliver(me, said) /\ UNCHANGED rows
  BY <1>1, <1>3, ArrivalGrows
<1>4. CASE \E t \in Others : Appends(t)
  <2>1. PICK t \in Threads : Appends(t)
    BY <1>4 DEF Threads
  <2>2. UNCHANGED server /\ \A m \in Nat : Stored(m)' <=> Stored(m)
    <3>1. UNCHANGED server
      BY <2>1 DEF Appends
    <3> QED
      BY <2>1, <3>1, PlaceholderOnly
  <2> QED
    BY <1>1, <2>2, StoreAlike, InboxStutters
<1>5. CASE \/ \E p \in Pollers : Polls(p)
           \/ \E t \in Others : Visits(t) \/ Backfills(t) \/ ReadsFloor(t)
           \/ \E t \in Threads : ReadsKnown(t) \/ ReadsPending(t)
           \/ Tick \/ UNCHANGED chatVars
  <2>1. UNCHANGED <<server, rows>>
    BY <1>5
    DEF Polls, Visits, Backfills, Begins, ReadsFloor, ReadsKnown, ReadsPending, Tick, chatVars
  <2> QED
    BY <1>2, <2>1
<1>6. CASE Arrives \/ \E t \in Others : SendFails(t) \/ SendOk(t)
  <2>1. UNCHANGED rows /\ (UNCHANGED server \/ \E me, said : Deliver(me, said))
    BY <1>6 DEF Arrives, SendFails, SendOk
  <2> QED
    BY <1>2, <1>3, <2>1
<1> QED
  BY <1>4, <1>5, <1>6 DEF Quiet, Sends

LEMMA HandsIsStep ==
  ASSUME ChatInv, ChatInv', NEW p \in Pollers, Hands(p)
  PROVE  InboxStep
<1>1. /\ p \in Threads /\ At(p, "hand") /\ UNCHANGED <<server, rows>>
      /\ threads \in [Threads -> Thread] /\ DOMAIN handed = 1 .. MaxMessages
      /\ \A m \in DOMAIN handed : handed[m] \in {0, 1}
      /\ DOMAIN handed' = DOMAIN handed
  BY DEF Hands, Threads, ChatInv, TypeOK, HandedIsStored
<1>2. /\ threads'[p] = Idle
      /\ \A s \in Threads : s # p => threads'[s] = threads[s]
  BY <1>1 DEF Hands, SetThread
<1>3. InTheHands[p] = Peers(threads[p]) /\ Fresh(p) \cap Arrived = Peers(threads[p])
  BY <1>1, HandIsPeers
<1>4. \A m \in InTheHands[p] : /\ m \in Arrived /\ m \in Fresh(p) /\ m \in DOMAIN handed
                           /\ handed[m] = 0
  <2>1. ASSUME NEW m \in InTheHands[p]
        PROVE  /\ m \in Arrived /\ m \in Fresh(p) /\ m \in DOMAIN handed
               /\ handed[m] = 0
    <3>1. m \in Arrived /\ m \in Fresh(p)
      BY <1>3
    <3>2. m \in 1 .. MaxMessages
      BY <3>1, ArrivedFacts, Bounds
    <3>3. handed[m] = 0
      BY <1>1, <1>3 DEF ChatInv, InHands
    <3> QED
      BY <1>1, <3>1, <3>2, <3>3
  <2> QED
    BY <2>1
<1>5. InTheHands[p] \cap Given = {}
  BY <1>4 DEF Given
<1>6. Given' = Given \cup InTheHands[p]
  <2>1. \A m \in DOMAIN handed :
          handed'[m] = IF m \in InTheHands[p] THEN handed[m] + 1 ELSE handed[m]
    <3>1. \A m \in DOMAIN handed : m \in InTheHands[p] <=> m \in Fresh(p) /\ ~server[m].me
      <4>1. \A m \in Fresh(p) : m \in 1 .. Len(server)
        BY <1>1, FreshFacts
      <4>2. \A m \in Fresh(p) : m \in Arrived <=> ~server[m].me
        BY <4>1 DEF Arrived
      <4> QED
        BY <1>3, <4>2
    <3> QED
      BY <3>1 DEF Hands
  <2>2. \A m \in DOMAIN handed : handed'[m] > 0 <=> handed[m] > 0 \/ m \in InTheHands[p]
    BY <1>1, <1>4, <2>1
  <2> QED
    BY <1>1, <1>4, <2>2 DEF Given
<1>7. InTheHands' = [InTheHands EXCEPT ![p] = {}]
  <2>1. SentStays
    BY <1>1, SameIsSent
  <2>2. \A s \in Threads : s # p => InTheHands'[s] = InTheHands[s]
    BY <1>2, <2>1, HandKept
  <2>3. InTheHands'[p] = {}
    <3>1. ~At(p, "hand")'
      BY <1>2, IdleIsBlank DEF At
    <3> QED
      BY <1>1, <3>1, HandIsPeersThen
  <2> QED
    BY <2>2, <2>3 DEF InTheHands
<1>8. UNCHANGED <<Arrived, InStore>>
  <2>1. \A m \in Nat : Stored(m)' <=> Stored(m)
    BY <1>1 DEF Stored
  <2> QED
    BY <1>1, <2>1, StoreAlike
<1> QED
  BY <1>1, <1>5, <1>6, <1>7, <1>8, InboxHandsOn

LEMMA RestartIsStep == ASSUME ChatInv, ChatInv', Restarts PROVE InboxStep
<1>1. UNCHANGED <<server, rows, handed>> /\ \A t \in Threads : threads'[t] = Idle
  BY DEF Restarts
<1>2. InTheHands' = [t \in Threads |-> {}]
  <2>1. \A t \in Threads : InTheHands'[t] = {}
    <3>1. \A t \in Threads : ~At(t, "hand")'
      BY <1>1, IdleIsBlank DEF At
    <3> QED
      BY <3>1, HandIsPeersThen
  <2> QED
    BY <2>1 DEF InTheHands
<1>3. UNCHANGED <<Arrived, InStore, Given>>
  <2>1. \A m \in Nat : Stored(m)' <=> Stored(m)
    BY <1>1 DEF Stored
  <2> QED
    BY <1>1, <2>1, StoreAlike DEF Given
<1> QED
  BY <1>2, <1>3, InboxForgets

\* What a commit brings in of the peer: what its thread found new.
LEMMA CommitStores ==
  ASSUME NEW t \in Threads, NEW c, NEW W, Committed(t, c, W)
  PROVE  /\ UNCHANGED Arrived
         /\ Peers(threads[t]) \in SUBSET (Arrived \ InStore)
         /\ InStore' = InStore \cup Peers(threads[t])
<1>1. ChatInv /\ UNCHANGED server
  BY DEF Committed
<1>2. UNCHANGED Arrived
  BY <1>1 DEF Arrived
<1>3. Peers(threads[t]) \subseteq Arrived
  BY <1>1, HandIsPeers
<1>4. \A m \in Peers(threads[t]) : ~Stored(m)
  BY PeersWereNew
<1>5. ASSUME NEW m \in Arrived
      PROVE  Stored(m)' <=> Stored(m) \/ m \in Peers(threads[t])
  <2>1. m \in Nat /\ m > 0 /\ ~server[m].me
    BY <1>1, ArrivedFacts
  <2>2. Stored(m)' <=> Stored(m) \/ m \in Fresh(t)
    BY <2>1, StoredAfter
  <2>3. m \in Peers(threads[t]) <=> m \in Fresh(t)
    BY <2>1 DEF Peers, Fresh
  <2> QED
    BY <2>2, <2>3
<1> QED
  BY <1>2, <1>3, <1>4, <1>5 DEF InStore

LEMMA CommitIsStep ==
  ASSUME ChatInv', NEW t \in Threads, NEW c, NEW W, Committed(t, c, W), WriteDone(t)
  PROVE  InboxStep
<1>1. /\ ChatInv /\ UNCHANGED <<server, handed>> /\ At(t, "write")
      /\ threads \in [Threads -> Thread]
  BY DEF Committed, ChatInv, TypeOK
<1>2. \A s \in Threads : s # t => InTheHands'[s] = InTheHands[s]
  <2>1. \A s \in Threads : s # t => threads'[s] = threads[s]
    BY <1>1 DEF WriteDone, SetThread
  <2> QED
    BY <1>1, <2>1, SameIsSent, HandKept
<1>3. InTheHands[t] = {}
  BY <1>1, HandIsPeers DEF At
<1>4. \/ t \in Pollers /\ InTheHands'[t] = Peers(threads[t])
      \/ InTheHands'[t] = {}
  <2>1. CASE t \in Pollers
    <3> DEFINE l == threads[t]
               f == [l EXCEPT !.pc = "hand", !.pending = {}]
    <3>1. threads'[t] = f
      BY <1>1, <2>1 DEF WriteDone, SetThread
    <3>2. f.answer = l.answer /\ f.known = l.known /\ f.pc = "hand"
      BY <1>1 DEF Thread
    <3>3. At(t, "hand")' /\ threads'[t].answer = threads[t].answer
          /\ threads'[t].known = threads[t].known
      BY <3>1, <3>2 DEF At
    <3>4. Peers(threads[t])' = Peers(threads[t])
      BY <1>1, <3>3 DEF Peers
    <3> QED
      BY <2>1, <3>3, <3>4, HandIsPeersThen
  <2>2. CASE t \notin Pollers
    <3>1. threads'[t] = After(t)
      BY <1>1, <2>2 DEF WriteDone, SetThread
    <3>2. ~At(t, "hand")'
      BY <3>1, AfterIsNoHand DEF At
    <3> QED
      BY <3>2, HandIsPeersThen
  <2> QED
    BY <2>1, <2>2
<1>5. /\ UNCHANGED Arrived
      /\ Peers(threads[t]) \in SUBSET (Arrived \ InStore)
      /\ InStore' = InStore \cup Peers(threads[t])
  BY CommitStores
<1>6. \/ InTheHands' = [InTheHands EXCEPT ![t] = Peers(threads[t])]
      \/ UNCHANGED InTheHands
  <2>1. CASE InTheHands'[t] = Peers(threads[t])
    BY <1>2, <2>1 DEF InTheHands
  <2>2. CASE InTheHands'[t] = {}
    <3>1. \A s \in Threads : InTheHands'[s] = InTheHands[s]
      BY <1>2, <1>3, <2>2
    <3> QED
      BY <3>1, HandsAlike
  <2> QED
    BY <1>4, <2>1, <2>2
<1>7. UNCHANGED Given
  BY <1>1 DEF Given
<1> QED
  BY <1>3, <1>5, <1>6, <1>7, InboxBringsIn

LEMMA WritesIsStep ==
  ASSUME ChatInv, ChatInv', NEW t \in Threads, Writes(t)
  PROVE  InboxStep
<1>1. CASE \E c, W : Committed(t, c, W) /\ WriteDone(t)
  BY <1>1, CommitIsStep
<1>2. CASE /\ UNCHANGED <<server, rows, handed, now, restarts>>
           /\ SetThread(t, After(t))
  <2>1. \A s \in Threads : threads'[s] = threads[s] \/ threads'[s].pc # "hand"
    BY <1>2, AfterIsNoHand, OneMoves
  <2>2. \A s \in Threads : InTheHands'[s] = InTheHands[s]
    <3>1. ASSUME NEW s \in Threads PROVE InTheHands'[s] = InTheHands[s]
      <4>1. \/ threads'[s] = threads[s]
            \/ ~At(s, "hand") /\ ~At(s, "hand")'
        BY <2>1, HandsWait DEF At
      <4> QED
        BY <1>2, <4>1, SameIsSent, HandKept
    <3> QED
      BY <3>1
  <2>3. \A m \in Nat : Stored(m)' <=> Stored(m)
    BY <1>2 DEF Stored
  <2>4. UNCHANGED Given
    BY <1>2 DEF Given
  <2> QED
    BY <1>2, <2>2, <2>3, <2>4, HandsAlike, StoreAlike, InboxStutters
<1> QED
  BY <1>1, <1>2, WritesCommits

LEMMA StepIsInboxStep == ASSUME ChatInv, [ChatNext]_chatVars PROVE InboxStep
<1>1. ChatInv'
  BY ChatStep
<1>2. CASE Quiet
  BY <1>1, <1>2, QuietIsStep
<1>3. CASE \E p \in Pollers : Hands(p)
  BY <1>1, <1>3, HandsIsStep
<1>4. CASE \E t \in Threads : Writes(t)
  BY <1>1, <1>4, WritesIsStep
<1>5. CASE Restarts
  BY <1>1, <1>5, RestartIsStep
<1> QED
  BY <1>2, <1>3, <1>4, <1>5 DEF ChatNext, Quiet, Sync

LEMMA InboxInit == Init => Inbox!Init
<1> SUFFICES ASSUME Init PROVE Inbox!Init
  OBVIOUS
<1>1. /\ server = <<>> /\ threads = [t \in Threads |-> Idle]
      /\ handed = [m \in 1 .. MaxMessages |-> 0]
  BY DEF Init
<1>2. Arrived = {}
  <2>1. Len(server) = 0
    BY <1>1
  <2> QED
    BY <2>1 DEF Arrived
<1>3. {m \in DOMAIN handed : handed[m] > 0} = {}
  BY <1>1
<1>4. \A t \in Threads : ~At(t, "hand")
  BY <1>1, IdleIsBlank DEF At
<1> QED
  BY <1>2, <1>3, <1>4 DEF Inbox!Init

(***************************************************************************)
(* ChatStore implements PeerInbox, whatever part of what has arrived an    *)
(* answer has and whatever gaps that leaves: a commit brings in of the     *)
(* peer's messages what its thread found new, none of which was there      *)
(* (CommitStores), that is exactly what its poll hands on, and nothing     *)
(* else puts a message into anybody's hands.  What another thread brought  *)
(* in is therefore handed on by nobody.                                    *)
(***************************************************************************)
THEOREM ChatImplementsInbox == ChatSpec => ImplementsInbox
<1>1. ChatInv /\ [ChatNext]_chatVars => [Inbox!Next]_(Inbox!inbox)
  BY StepIsInboxStep DEF InboxStep, Inbox!inbox, InStore, InTheHands, Given
<1> QED
  BY ChatInvariant, InboxInit, <1>1, PTL DEF ChatSpec, ImplementsInbox, Inbox!Spec
=============================================================================
