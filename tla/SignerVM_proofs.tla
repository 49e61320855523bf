-------------------------- MODULE SignerVM_proofs --------------------------
(***************************************************************************)
(* The interpreter for every program: whatever it throws, calls and        *)
(* returns, no activation touches the operands of those that wait for it.  *)
(***************************************************************************)
EXTENDS SignerStacks, SequenceTheorems, WellFoundedInduction, TLAPS

-----------------------------------------------------------------------------
(***************************************************************************)
(* How activations and the array nest.  The operands that a handler        *)
(* remembers are among those of its expression, and those of an inner      *)
(* handler are not fewer; what an activation owns ends where the next one  *)
(* begins.                                                                 *)
(***************************************************************************)
HandlersNest(f) ==
  \A h \in DOMAIN f.hs :
    /\ Len(f.hs[h].ops) <= Len(f.ops)
    /\ \A g \in 1 .. h : Len(f.hs[g].ops) <= Len(f.hs[h].ops)
Owns(f, st) == Len(f.base) + Len(f.ops) <= Len(st)
Nested(fs, st) ==
  /\ fs \in Seq(Frame) /\ st \in Seq(Value)
  /\ \A a \in DOMAIN fs : HandlersNest(fs[a]) /\ Below(fs[a].base, st)
  /\ \A a, c \in DOMAIN fs : a < c => Owns(fs[a], fs[c].base)
  /\ \A a \in DOMAIN fs : a = Len(fs) => Owns(fs[a], st)

LEMMA PartIsLess ==
  \A x, y, z \in Nat : x + y <= z => x <= z
OBVIOUS

LEMMA PartsGrow ==
  \A x, y, z, u, v \in Nat : x + y <= z /\ z + u <= v => x + y <= v
OBVIOUS

\* The lengths of what a frame holds.
LEMMA FrameFacts ==
  ASSUME NEW f \in Frame
  PROVE  /\ f.pc \in Nat /\ f.scope \in Nat /\ f.hs \in Seq(Handler)
         /\ f.ops \in Seq(Value) /\ f.base \in Seq(Value)
         /\ Len(f.hs) \in Nat /\ Len(f.ops) \in Nat /\ Len(f.base) \in Nat
         /\ DOMAIN f.hs = 1 .. Len(f.hs)
         /\ \A h \in DOMAIN f.hs : /\ f.hs[h] \in Handler
                                   /\ f.hs[h].ops \in Seq(Value)
                                   /\ Len(f.hs[h].ops) \in Nat
<1>1. /\ f.pc \in Nat /\ f.scope \in Nat /\ f.hs \in Seq(Handler)
      /\ f.ops \in Seq(Value) /\ f.base \in Seq(Value)
  BY DEF Frame
<1>2. /\ Len(f.hs) \in Nat /\ Len(f.ops) \in Nat /\ Len(f.base) \in Nat
      /\ DOMAIN f.hs = 1 .. Len(f.hs)
      /\ \A h \in DOMAIN f.hs : f.hs[h] \in Handler
  BY <1>1
<1>3. ASSUME NEW h \in Handler PROVE h.ops \in Seq(Value) /\ Len(h.ops) \in Nat
  <2>1. h.ops \in Seq(Value)
    BY DEF Handler
  <2> QED
    BY <2>1
<1> QED
  BY <1>1, <1>2, <1>3

LEMMA FrameLengths ==
  ASSUME NEW f \in Frame
  PROVE  /\ Len(f.base) \in Nat /\ Len(f.ops) \in Nat
         /\ DOMAIN f.base = 1 .. Len(f.base)
         /\ f.base \in Seq(Value) /\ f.ops \in Seq(Value)
<1>1. f.base \in Seq(Value) /\ f.ops \in Seq(Value)
  BY FrameFacts
<1> QED
  BY <1>1

LEMMA CutFacts ==
  ASSUME NEW S, NEW s \in Seq(S), NEW n \in 0 .. Len(s)
  PROVE  /\ Cut(s, n) \in Seq(S) /\ Len(Cut(s, n)) = Len(s) - n
         /\ \A k \in 1 .. Len(s) - n : Cut(s, n)[k] = s[k]
BY SubSeqProperties DEF Cut

LEMMA ConcatFacts ==
  ASSUME NEW S, NEW s \in Seq(S), NEW t \in Seq(S)
  PROVE  /\ s \o t \in Seq(S) /\ Len(s \o t) = Len(s) + Len(t)
         /\ \A k \in 1 .. Len(s) : (s \o t)[k] = s[k]
BY ConcatProperties

\* What an activation owns lies below all that begin after it.
LEMMA BasesGrow ==
  ASSUME NEW fs, NEW st, Nested(fs, st),
         NEW a \in DOMAIN fs, NEW c \in DOMAIN fs, a <= c
  PROVE  Len(fs[a].base) <= Len(fs[c].base)
<1>1. fs[a] \in Frame /\ fs[c] \in Frame /\ a \in Nat /\ c \in Nat
  BY DEF Nested
<1>2. CASE a = c
  BY <1>1, <1>2, FrameFacts
<1>3. CASE a < c
  <2>1. Len(fs[a].base) + Len(fs[a].ops) <= Len(fs[c].base)
    BY <1>3 DEF Nested, Owns
  <2>2. /\ Len(fs[a].base) \in Nat /\ Len(fs[a].ops) \in Nat
        /\ Len(fs[c].base) \in Nat
    BY <1>1, FrameFacts
  <2> QED
    BY ONLY <2>1, <2>2, PartIsLess
<1> QED
  BY <1>1, <1>2, <1>3

(***************************************************************************)
(* An activation resumes: those after it are gone, it continues with       *)
(* another frame, and of the array only what lies below it need be left.   *)
(***************************************************************************)
LEMMA Resume ==
  ASSUME NEW fs, NEW st, Nested(fs, st), NEW a \in DOMAIN fs,
         NEW g \in Frame, g.base = fs[a].base, HandlersNest(g),
         NEW s2 \in Seq(Value), Owns(g, s2),
         \A k \in DOMAIN g.base : s2[k] = st[k]
  PROVE  Nested(Append(SubSeq(fs, 1, a - 1), g), s2)
<1> DEFINE rs == Append(SubSeq(fs, 1, a - 1), g)
<1>1. fs \in Seq(Frame) /\ Len(fs) \in Nat /\ a \in 1 .. Len(fs)
  BY DEF Nested
<1>2. /\ SubSeq(fs, 1, a - 1) \in Seq(Frame) /\ Len(SubSeq(fs, 1, a - 1)) = a - 1
      /\ \A k \in 1 .. a - 1 : SubSeq(fs, 1, a - 1)[k] = fs[k]
  BY <1>1, SubSeqProperties
<1>3. /\ rs \in Seq(Frame) /\ Len(rs) = a /\ DOMAIN rs = 1 .. a
      /\ rs[a] = g /\ \A k \in 1 .. a - 1 : rs[k] = fs[k]
  BY <1>1, <1>2, AppendProperties
<1> HIDE DEF rs
<1>lengths. /\ Len(g.base) \in Nat /\ Len(g.ops) \in Nat /\ Len(s2) \in Nat
            /\ Len(g.base) <= Len(s2)
  <2>1. Len(g.base) \in Nat /\ Len(g.ops) \in Nat /\ Len(s2) \in Nat
    <3>1. g \in Frame /\ s2 \in Seq(Value)
      OBVIOUS
    <3> QED
      BY ONLY <3>1, FrameLengths
  <2>2. Len(g.base) + Len(g.ops) <= Len(s2)
    BY DEF Owns
  <2> QED
    BY ONLY <2>1, <2>2, PartIsLess
<1>4. ASSUME NEW k \in DOMAIN rs
      PROVE HandlersNest(rs[k]) /\ Below(rs[k].base, s2)
  <2>1. CASE k = a
    <3>1. \A m \in DOMAIN g.base : s2[m] = g.base[m]
      BY DEF Nested, Below
    <3>2. rs[k] = g /\ Len(g.base) <= Len(s2) /\ HandlersNest(g)
      BY <1>3, <1>lengths, <2>1
    <3> QED
      BY ONLY <3>1, <3>2 DEF Below
  <2>2. CASE k < a
    <3>1. rs[k] = fs[k] /\ k \in DOMAIN fs /\ a \in DOMAIN fs /\ k <= a
      BY <1>1, <1>3, <2>2
    <3>2. HandlersNest(fs[k]) /\ Below(fs[k].base, st) /\ fs[k] \in Frame /\ fs[a] \in Frame
      BY <3>1 DEF Nested
    <3>3. Len(fs[k].base) <= Len(g.base)
      BY <3>1, BasesGrow
    <3>4. Len(fs[k].base) \in Nat /\ Len(g.base) \in Nat /\ Len(g.base) <= Len(s2)
      BY <3>2, <1>lengths, FrameFacts
    <3>5. DOMAIN fs[k].base = 1 .. Len(fs[k].base) /\ DOMAIN g.base = 1 .. Len(g.base)
      BY <3>2, FrameFacts
    <3>6. \A m \in DOMAIN fs[k].base : s2[m] = fs[k].base[m]
      BY <3>2, <3>3, <3>4, <3>5 DEF Below
    <3> QED
      <4>1. Len(fs[k].base) <= Len(s2)
        BY <1>lengths, <3>3, <3>4
      <4> QED
        BY <3>1, <3>2, <3>6, <4>1 DEF Below
  <2> QED
    BY <1>1, <1>3, <2>1, <2>2
<1>5. ASSUME NEW k \in DOMAIN rs, NEW c \in DOMAIN rs, k < c
      PROVE Owns(rs[k], rs[c].base)
  <2>1. k \in DOMAIN fs /\ c \in DOMAIN fs /\ rs[k] = fs[k]
    BY <1>1, <1>3, <1>5
  <2>2. rs[c].base = fs[c].base
    <3>1. CASE c = a
      BY <1>3, <3>1
    <3>2. CASE c # a
      BY <1>1, <1>3, <3>2
    <3> QED
      BY <3>1, <3>2
  <2> QED
    BY <1>5, <2>1, <2>2 DEF Nested
<1>6. \A k \in DOMAIN rs : k = Len(rs) => Owns(rs[k], s2)
  BY <1>3
<1>7. Nested(rs, s2)
  BY <1>3, <1>4, <1>5, <1>6 DEF Nested
<1> QED
  BY <1>7 DEF rs

\* An activation begins on top of all the others.
LEMMA Begin ==
  ASSUME NEW fs, NEW st, Nested(fs, st), NEW pc \in Nat, NEW scope \in Nat
  PROVE  Nested(Append(fs, Activation(pc, scope, st)), st)
<1> DEFINE g == Activation(pc, scope, st)
           rs == Append(fs, g)
<1>1. fs \in Seq(Frame) /\ Len(fs) \in Nat /\ st \in Seq(Value) /\ Len(st) \in Nat
  BY DEF Nested
<1>2. /\ g \in Frame /\ g.base = st /\ g.ops = <<>> /\ g.hs = <<>>
  BY <1>1 DEF Activation, Frame
<1>3. HandlersNest(g) /\ Below(g.base, st) /\ Owns(g, st)
  BY <1>1, <1>2 DEF HandlersNest, Below, Owns
<1> HIDE DEF g
<1>4. /\ rs \in Seq(Frame) /\ Len(rs) = Len(fs) + 1 /\ DOMAIN rs = 1 .. Len(fs) + 1
      /\ rs[Len(fs) + 1] = g /\ \A k \in DOMAIN fs : rs[k] = fs[k]
      /\ DOMAIN fs = 1 .. Len(fs)
  BY <1>1, <1>2, AppendProperties
<1> HIDE DEF rs
<1>5. ASSUME NEW k \in DOMAIN fs PROVE Owns(fs[k], st)
  <2>1. fs[k] \in Frame /\ fs[Len(fs)] \in Frame /\ Len(fs) \in DOMAIN fs
    BY <1>1, <1>4
  <2>2. CASE k = Len(fs)
    BY <2>2 DEF Nested
  <2>3. CASE k # Len(fs)
    <3>1. Owns(fs[k], fs[Len(fs)].base) /\ Owns(fs[Len(fs)], st)
      BY <1>1, <1>4, <2>1, <2>3 DEF Nested
    <3>2. /\ Len(fs[Len(fs)].base) \in Nat /\ Len(fs[Len(fs)].ops) \in Nat
          /\ Len(fs[k].base) \in Nat /\ Len(fs[k].ops) \in Nat
      BY <2>1, FrameFacts
    <3>3. /\ Len(fs[k].base) + Len(fs[k].ops) <= Len(fs[Len(fs)].base)
          /\ Len(fs[Len(fs)].base) + Len(fs[Len(fs)].ops) <= Len(st)
      BY <3>1 DEF Owns
    <3>4. Len(st) \in Nat
      BY <1>1
    <3>5. Len(fs[k].base) + Len(fs[k].ops) <= Len(st)
      BY ONLY <3>2, <3>3, <3>4, PartsGrow
    <3> QED
      BY <3>5 DEF Owns
  <2> QED
    BY <2>2, <2>3
<1>6. \A k \in DOMAIN rs : HandlersNest(rs[k]) /\ Below(rs[k].base, st)
  BY <1>1, <1>3, <1>4 DEF Nested
<1>7. \A k, c \in DOMAIN rs : k < c => Owns(rs[k], rs[c].base)
  <2> SUFFICES ASSUME NEW k \in DOMAIN rs, NEW c \in DOMAIN rs, k < c
               PROVE Owns(rs[k], rs[c].base)
    OBVIOUS
  <2>1. k \in DOMAIN fs
    BY <1>1, <1>4
  <2>2. CASE c \in DOMAIN fs
    BY <1>4, <2>1, <2>2 DEF Nested
  <2>3. CASE c \notin DOMAIN fs
    BY <1>1, <1>2, <1>4, <1>5, <2>1, <2>3
  <2> QED
    BY <2>2, <2>3
<1>8. \A k \in DOMAIN rs : k = Len(rs) => Owns(rs[k], st)
  BY <1>3, <1>4
<1>9. Nested(rs, st)
  BY <1>1, <1>4, <1>6, <1>7, <1>8 DEF Nested
<1> QED
  BY <1>9 DEF rs, g
-----------------------------------------------------------------------------
(***************************************************************************)
(* A step of the current activation: it replaces operands of its own, and  *)
(* none that a handler of it remembers.                                    *)
(***************************************************************************)
Top(fs) == fs[Len(fs)]
Spare(f, n) ==
  n <= Len(f.ops) /\ \A h \in DOMAIN f.hs : Len(f.hs[h].ops) <= Len(f.ops) - n

LEMMA TopFrame ==
  ASSUME NEW fs, NEW st, Nested(fs, st), fs # <<>>
  PROVE  /\ fs \in Seq(Frame) /\ st \in Seq(Value) /\ Len(st) \in Nat
         /\ Len(fs) \in DOMAIN fs /\ Top(fs) \in Frame
         /\ HandlersNest(Top(fs)) /\ Below(Top(fs).base, st) /\ Owns(Top(fs), st)
         /\ Len(Top(fs).base) + Len(Top(fs).ops) <= Len(st)
         /\ Len(Top(fs).ops) <= Len(st)
<1>1. fs \in Seq(Frame) /\ st \in Seq(Value) /\ Len(st) \in Nat /\ Len(fs) \in DOMAIN fs
  BY DEF Nested
<1>2. Top(fs) \in Frame
  BY <1>1 DEF Top
<1>3. HandlersNest(Top(fs)) /\ Below(Top(fs).base, st) /\ Owns(Top(fs), st)
  BY <1>1 DEF Nested, Top
<1>4. Len(Top(fs).base) + Len(Top(fs).ops) <= Len(st)
  BY <1>3 DEF Owns
<1>5. Len(Top(fs).base) \in Nat /\ Len(Top(fs).ops) \in Nat
  BY <1>2, FrameLengths
<1>6. \A x, y, z \in Nat : x + y <= z => y <= z
  OBVIOUS
<1>7. Len(Top(fs).ops) <= Len(st)
  BY ONLY <1>1, <1>4, <1>5, <1>6
<1> QED
  BY <1>1, <1>2, <1>3, <1>4, <1>7

LEMMA ReplaceTop ==
  ASSUME NEW fs \in Seq(Frame), fs # <<>>, NEW g \in Frame
  PROVE  [fs EXCEPT ![Len(fs)] = g] = Append(SubSeq(fs, 1, Len(fs) - 1), g)
<1> DEFINE n == Len(fs)
           below == SubSeq(fs, 1, n - 1)
           r == [fs EXCEPT ![n] = g]
           q == Append(below, g)
<1>1. n \in Nat /\ n > 0 /\ DOMAIN fs = 1 .. n
  OBVIOUS
<1>2. /\ below \in Seq(Frame) /\ Len(below) = n - 1
      /\ \A k \in 1 .. n - 1 : below[k] = fs[k]
  BY <1>1, SubSeqProperties
<1>3. /\ q \in Seq(Frame) /\ Len(q) = n /\ q[n] = g
      /\ \A k \in 1 .. n - 1 : q[k] = fs[k]
  <2> HIDE DEF below, n
  <2>1. /\ q \in Seq(Frame) /\ Len(q) = Len(below) + 1 /\ q[Len(below) + 1] = g
        /\ \A k \in 1 .. Len(below) : q[k] = below[k]
    BY <1>2, AppendProperties
  <2> HIDE DEF q
  <2>2. (n - 1) + 1 = n
    BY <1>1
  <2> QED
    BY <1>2, <2>1, <2>2
<1>4. /\ r \in Seq(Frame) /\ Len(r) = n /\ r[n] = g
      /\ \A k \in 1 .. n - 1 : r[k] = fs[k]
  <2>1. r \in [1 .. n -> Frame] /\ \A k \in 1 .. n : r[k] = IF k = n THEN g ELSE fs[k]
    BY <1>1
  <2> HIDE DEF r, n
  <2> QED
    BY <1>1, <2>1
<1> HIDE DEF n, r, q, below
<1>5. \A k \in 1 .. n : r[k] = q[k]
  BY <1>1, <1>3, <1>4
<1>6. r = q
  BY <1>3, <1>4, <1>5, SeqEqual
<1> QED
  BY <1>6 DEF n, r, q, below

\* Replacing the frame of the current activation by one that owns no more.
LEMMA GoOn ==
  ASSUME NEW fs, NEW st, Nested(fs, st), fs # <<>>,
         NEW g \in Frame, g.base = Top(fs).base, HandlersNest(g),
         NEW s2 \in Seq(Value), Owns(g, s2),
         \A k \in DOMAIN g.base : s2[k] = st[k]
  PROVE  Nested([fs EXCEPT ![Len(fs)] = g], s2)
<1>1. fs \in Seq(Frame) /\ Len(fs) \in DOMAIN fs
  BY TopFrame
<1>2. Nested(Append(SubSeq(fs, 1, Len(fs) - 1), g), s2)
  BY <1>1, Resume DEF Top
<1> QED
  BY <1>1, <1>2, ReplaceTop

LEMMA StepNests ==
  ASSUME NEW fs, NEW st, Nested(fs, st), fs # <<>>,
         NEW n \in Nat, NEW new \in Seq(Value), NEW pc \in Nat, Spare(Top(fs), n)
  PROVE  Nested([fs EXCEPT ![Len(fs)] =
                   [Top(fs) EXCEPT !.pc = pc, !.ops = Cut(Top(fs).ops, n) \o new]],
                Cut(st, n) \o new)
<1> DEFINE f == Top(fs)
           g == [f EXCEPT !.pc = pc, !.ops = Cut(f.ops, n) \o new]
           s2 == Cut(st, n) \o new
<1>1. /\ f \in Frame /\ st \in Seq(Value) /\ Len(st) \in Nat /\ HandlersNest(f)
      /\ Len(f.base) + Len(f.ops) <= Len(st) /\ Len(f.ops) <= Len(st)
  BY TopFrame
<1>2. /\ f.ops \in Seq(Value) /\ f.base \in Seq(Value) /\ DOMAIN f.base = 1 .. Len(f.base)
      /\ Len(f.ops) \in Nat /\ Len(f.base) \in Nat /\ Len(new) \in Nat
  BY <1>1, FrameLengths
<1>3. n \in 0 .. Len(f.ops) /\ n \in 0 .. Len(st)
  BY <1>1, <1>2 DEF Spare
<1>4. /\ Cut(f.ops, n) \in Seq(Value) /\ Len(Cut(f.ops, n)) = Len(f.ops) - n
      /\ Cut(st, n) \in Seq(Value) /\ Len(Cut(st, n)) = Len(st) - n
      /\ \A k \in 1 .. Len(st) - n : Cut(st, n)[k] = st[k]
  BY <1>1, <1>2, <1>3, CutFacts
<1>5. /\ Cut(f.ops, n) \o new \in Seq(Value)
      /\ Len(Cut(f.ops, n) \o new) = Len(f.ops) - n + Len(new)
      /\ s2 \in Seq(Value) /\ Len(s2) = Len(st) - n + Len(new)
      /\ \A k \in 1 .. Len(st) - n : s2[k] = st[k]
  <2> DEFINE o == Cut(f.ops, n)
             c == Cut(st, n)
  <2>1. /\ o \in Seq(Value) /\ Len(o) = Len(f.ops) - n
        /\ c \in Seq(Value) /\ Len(c) = Len(st) - n
        /\ \A k \in 1 .. Len(st) - n : c[k] = st[k]
    BY <1>4
  <2> HIDE DEF o, c
  <2>2. o \o new \in Seq(Value) /\ Len(o \o new) = Len(o) + Len(new)
    BY ONLY <2>1, new \in Seq(Value), ConcatFacts
  <2>3. /\ c \o new \in Seq(Value) /\ Len(c \o new) = Len(c) + Len(new)
        /\ \A k \in 1 .. Len(c) : (c \o new)[k] = c[k]
    BY ONLY <2>1, new \in Seq(Value), ConcatFacts
  <2>4. \A k \in 1 .. Len(st) - n : (c \o new)[k] = st[k]
    BY ONLY <2>1, <2>3
  <2> QED
    BY <2>1, <2>2, <2>3, <2>4 DEF o, c
<1> HIDE DEF f
<1>6. /\ g \in Frame /\ g.base = f.base /\ g.hs = f.hs
      /\ g.ops = Cut(f.ops, n) \o new
  BY <1>1, <1>5 DEF Frame
<1> HIDE DEF g, s2
<1>7. HandlersNest(g)
  <2>1. \A h \in DOMAIN f.hs : Len(f.hs[h].ops) \in Nat
    BY <1>1, FrameFacts
  <2>2. \A h \in DOMAIN f.hs : Len(f.hs[h].ops) <= Len(f.ops) - n
    BY DEF Spare, f
  <2>3. \A h \in DOMAIN f.hs : Len(f.hs[h].ops) <= Len(g.ops)
    <3>1. Len(g.ops) = Len(f.ops) - n + Len(new)
      BY <1>5, <1>6
    <3> QED
      BY ONLY <1>2, <1>3, <2>1, <2>2, <3>1
  <2> QED
    BY ONLY <1>1, <1>6, <2>3 DEF HandlersNest
<1>8. Owns(g, s2)
  <2>1. Len(g.base) + Len(g.ops) <= Len(s2)
    <3>1. /\ Len(g.base) = Len(f.base) /\ Len(g.ops) = Len(f.ops) - n + Len(new)
          /\ Len(s2) = Len(st) - n + Len(new)
      BY <1>5, <1>6 DEF s2
    <3>2. \A b, o, s, m, w \in Nat : b + o <= s => b + (o - m + w) <= s - m + w
      OBVIOUS
    <3> QED
      BY ONLY ZenonT(30), <1>1, <1>2, <3>1, <3>2, n \in Nat
  <2> QED
    BY <2>1 DEF Owns
<1>9. \A k \in DOMAIN g.base : s2[k] = st[k]
  <2>1. Len(f.base) <= Len(st) - n
    <3>1. \A b, o, s, m \in Nat : b + o <= s /\ m <= o => b <= s - m
      OBVIOUS
    <3>2. n \in Nat /\ n <= Len(f.ops)
      BY <1>3
    <3> QED
      BY ONLY <1>1, <1>2, <3>1, <3>2
  <2>2. DOMAIN g.base \subseteq 1 .. Len(st) - n
    <3>1. n \in Nat
      OBVIOUS
    <3> QED
      BY ONLY <1>1, <1>2, <1>6, <2>1, <3>1
  <2>3. \A k \in 1 .. Len(st) - n : s2[k] = st[k]
    BY <1>5 DEF s2
  <2> QED
    BY ONLY <2>2, <2>3
<1>10. s2 \in Seq(Value) /\ g.base = Top(fs).base
  BY <1>5, <1>6 DEF s2, f
<1>11. Nested([fs EXCEPT ![Len(fs)] = g], s2)
  BY <1>6, <1>7, <1>8, <1>9, <1>10, GoOn
<1> QED
  BY <1>11 DEF g, s2, f
-----------------------------------------------------------------------------
(* Values and scopes *)

ScopeObject == [p : Nat, slots : [Slots -> Value]]

LEMMA ValueFacts ==
  /\ \A v \in Value : v.n \in Nat /\ v.arity \in Nat /\ v.scope \in Nat
  /\ \A k \in Kinds, n \in Nat : Plain(k, n) \in Value
  /\ \A n, arity, scope \in Nat : Closure(n, arity, scope) \in Value
  /\ \A scope \in Nat : [Plain("scope", 0) EXCEPT !.scope = scope] \in Value
  /\ Nil \in Value
BY DEF Value, Kinds, Plain, Closure, Nil

LEMMA SlotsStayValues ==
  ASSUME NEW ss \in Seq(ScopeObject), NEW id, NEW slot, NEW v \in Value
  PROVE  [ss EXCEPT ![id].slots[slot] = v] \in Seq(ScopeObject)
<1> DEFINE new == [ss[id] EXCEPT !.slots[slot] = v]
           r == [ss EXCEPT ![id].slots[slot] = v]
<1>1. CASE id \in 1 .. Len(ss)
  <2>1. ss[id] \in ScopeObject
    BY <1>1
  <2>2. new \in ScopeObject
    BY <2>1 DEF ScopeObject
  <2>3. r = [ss EXCEPT ![id] = new]
    OBVIOUS
  <2> HIDE DEF new, r
  <2>4. [ss EXCEPT ![id] = new] \in Seq(ScopeObject)
    BY <1>1, <2>2, ExceptSeq
  <2> QED
    BY <2>3, <2>4 DEF r
<1>2. CASE id \notin 1 .. Len(ss)
  <2>1. DOMAIN ss = 1 .. Len(ss) /\ \A k \in DOMAIN ss : r[k] = ss[k]
    BY <1>2
  <2>2. r = ss
    BY <1>2, <2>1
  <2> QED
    BY <2>2
<1> QED
  BY <1>1, <1>2

LEMMA CalledIsScope ==
  ASSUME NEW c \in Value, NEW args, \A k \in DOMAIN args : args[k] \in Value
  PROVE  Called(c, args) \in ScopeObject
<1>1. c.scope \in Nat /\ Plain("obj", c.n) \in Value /\ Nil \in Value
  BY ValueFacts DEF Kinds
<1>2. ASSUME NEW s \in Slots
      PROVE  (CASE s = 0 -> Plain("obj", c.n)
                [] s \in 1 .. c.arity /\ s \in DOMAIN args -> args[s]
                [] OTHER -> Nil) \in Value
  <2>1. CASE s = 0
    BY <1>1, <2>1
  <2>2. CASE s # 0 /\ s \in 1 .. c.arity /\ s \in DOMAIN args
    BY <1>1, <2>2
  <2>3. CASE s # 0 /\ ~(s \in 1 .. c.arity /\ s \in DOMAIN args)
    BY <1>1, <2>3
  <2> QED
    BY <2>1, <2>2, <2>3
<1> QED
  BY <1>1, <1>2 DEF Called, ScopeObject

LEMMA ClosuresAreValues ==
  ASSUME NEW s, \A k \in DOMAIN s : s[k] \in Value
  PROVE  Closures(s) \subseteq Value
BY DEF Closures

-----------------------------------------------------------------------------
(***************************************************************************)
(* The inductive invariant, and what it says of the current activation.    *)
(***************************************************************************)
VMInv ==
  /\ Nested(frames, stack)
  /\ img \in Images
  /\ scopes \in Seq(ScopeObject)
  /\ given \subseteq Value
  /\ calls \in 0 .. MaxCalls

LEMMA Current ==
  ASSUME VMInv, frames # <<>>
  PROVE  /\ F = Top(frames) /\ F \in Frame /\ HandlersNest(F) /\ Owns(F, stack)
         /\ Below(F.base, stack)
         /\ F.pc \in Nat /\ F.scope \in Nat
         /\ F.hs \in Seq(Handler) /\ F.ops \in Seq(Value) /\ F.base \in Seq(Value)
         /\ stack \in Seq(Value) /\ Len(stack) \in Nat
         /\ frames \in Seq(Frame) /\ Len(frames) \in DOMAIN frames
         /\ \A k \in 1 .. Len(stack) : Nth(k) \in Value
<1>1. F = Top(frames)
  BY DEF F, Top
<1>2. /\ frames \in Seq(Frame) /\ stack \in Seq(Value) /\ Len(stack) \in Nat
      /\ Len(frames) \in DOMAIN frames /\ F \in Frame
      /\ HandlersNest(F) /\ Below(F.base, stack) /\ Owns(F, stack)
  BY <1>1, TopFrame DEF VMInv
<1>3. /\ F.pc \in Nat /\ F.scope \in Nat
      /\ F.hs \in Seq(Handler) /\ F.ops \in Seq(Value) /\ F.base \in Seq(Value)
  BY <1>2, FrameFacts
<1>4. \A k \in 1 .. Len(stack) : Nth(k) \in Value
  BY <1>2 DEF Nth
<1> QED
  BY <1>1, <1>2, <1>3, <1>4

\* An instruction may take what Has grants it.
LEMMA Granted ==
  ASSUME VMInv, frames # <<>>
  PROVE  \A n \in Nat : Has(n) => Spare(F, n) /\ n <= Len(F.ops) /\ n <= Len(stack)
<1> SUFFICES ASSUME NEW n \in Nat, Has(n)
             PROVE Spare(F, n) /\ n <= Len(F.ops) /\ n <= Len(stack)
  OBVIOUS
<1>1. /\ F \in Frame /\ HandlersNest(F) /\ F.hs \in Seq(Handler)
      /\ Len(F.ops) <= Len(stack) /\ Len(stack) \in Nat
  BY Current, TopFrame DEF VMInv
<1>2. /\ Len(F.ops) \in Nat /\ DOMAIN F.hs = 1 .. Len(F.hs) /\ Len(F.hs) \in Nat
      /\ \A h \in DOMAIN F.hs : Len(F.hs[h].ops) \in Nat
  BY <1>1, FrameFacts
<1>3. CASE F.hs = <<>>
  <2>1. n <= Len(F.ops)
    BY <1>2, <1>3 DEF Has, Own
  <2> QED
    BY <1>1, <1>2, <1>3, <2>1 DEF Spare
<1>4. CASE F.hs # <<>>
  <2> DEFINE last == Len(F.hs)
  <2>1. last \in DOMAIN F.hs
    BY <1>1, <1>2, <1>4
  <2>2. n <= Len(F.ops) - Len(F.hs[last].ops)
    BY <1>4 DEF Has, Own
  <2>3. \A h \in DOMAIN F.hs : Len(F.hs[h].ops) <= Len(F.hs[last].ops)
    <3>1. \A h \in DOMAIN F.hs : h \in 1 .. last
      BY <1>2
    <3> QED
      BY <1>1, <2>1, <3>1 DEF HandlersNest
  <2>4. Len(F.hs[last].ops) \in Nat
    BY <1>2, <2>1
  <2> HIDE DEF last
  <2>5. n <= Len(F.ops) /\ \A h \in DOMAIN F.hs : Len(F.hs[h].ops) <= Len(F.ops) - n
    <3>1. \A m, o, l \in Nat : m <= o - l => m <= o
      OBVIOUS
    <3>2. \A m, o, l, k \in Nat : m <= o - l /\ k <= l => k <= o - m
      OBVIOUS
    <3>3. n \in Nat
      OBVIOUS
    <3>4. n <= Len(F.ops)
      BY ONLY <1>2, <2>2, <2>4, <3>1, <3>3
    <3>5. \A h \in DOMAIN F.hs : Len(F.hs[h].ops) <= Len(F.ops) - n
      BY ONLY SMTT(20), <1>2, <2>2, <2>3, <2>4, <3>2, <3>3
    <3> QED
      BY <3>4, <3>5
  <2>6. \A m, o, s \in Nat : m <= o /\ o <= s => m <= s
    OBVIOUS
  <2> QED
    BY <1>1, <1>2, <2>5, <2>6 DEF Spare
<1> QED
  BY <1>3, <1>4

LEMMA OwnIsNat ==
  ASSUME VMInv, frames # <<>> PROVE Own \in Nat
<1>1. F \in Frame /\ HandlersNest(F) /\ F.hs \in Seq(Handler)
  BY Current
<1>2. /\ Len(F.ops) \in Nat /\ DOMAIN F.hs = 1 .. Len(F.hs) /\ Len(F.hs) \in Nat
      /\ \A h \in DOMAIN F.hs : Len(F.hs[h].ops) \in Nat
  BY <1>1, FrameFacts
<1>3. CASE F.hs = <<>>
  BY <1>2, <1>3 DEF Own
<1>4. CASE F.hs # <<>>
  <2>1. Len(F.hs) \in DOMAIN F.hs
    BY <1>1, <1>2, <1>4
  <2>2. /\ Len(F.hs[Len(F.hs)].ops) <= Len(F.ops)
        /\ Len(F.hs[Len(F.hs)].ops) \in Nat
    BY <1>1, <1>2, <2>1 DEF HandlersNest
  <2>3. Own = Len(F.ops) - Len(F.hs[Len(F.hs)].ops)
    BY <1>4 DEF Own
  <2>4. \A m, n \in Nat : m <= n => n - m \in Nat
    OBVIOUS
  <2> QED
    BY <1>2, <2>2, <2>3, <2>4
<1> QED
  BY <1>3, <1>4

LEMMA TakesNothing ==
  ASSUME VMInv, frames # <<>> PROVE Has(0)
BY OwnIsNat DEF Has

LEMMA StepKeeps ==
  ASSUME VMInv, frames # <<>>
  PROVE  \A n \in Nat, new \in Seq(Value), pc \in Nat :
           Has(n) /\ Step(n, new, pc) => Nested(frames', stack')
<1> SUFFICES ASSUME NEW n \in Nat, NEW new \in Seq(Value), NEW pc \in Nat,
                    Has(n), Step(n, new, pc)
             PROVE  Nested(frames', stack')
  OBVIOUS
<1>1. F = Top(frames) /\ Nested(frames, stack) /\ Spare(F, n)
  BY Current, Granted DEF VMInv
<1>2. /\ stack' = Cut(stack, n) \o new
      /\ frames' = [frames EXCEPT ![Len(frames)] =
                      [Top(frames) EXCEPT !.pc = pc, !.ops = Cut(Top(frames).ops, n) \o new]]
  BY <1>1 DEF Step, SetTop
<1>3. Nested([frames EXCEPT ![Len(frames)] =
                [Top(frames) EXCEPT !.pc = pc, !.ops = Cut(Top(frames).ops, n) \o new]],
             Cut(stack, n) \o new)
  BY <1>1, StepNests
<1> QED
  BY <1>2, <1>3
-----------------------------------------------------------------------------
(* Instructions *)

LEMMA Instruction ==
  ASSUME VMInv, NEW ops, At(ops)
  PROVE  /\ frames # <<>> /\ Op \in ops /\ F.pc \in Nat /\ F.pc + 1 \in Nat
         /\ Op \in WithOperand => I[2] \in Nat
         /\ Op \in OfSlots => I[3] \in Slots /\ I[3] \in Nat
<1>1. frames # <<>> /\ F.pc \in DOMAIN img.code /\ Op \in ops
  BY DEF At
<1>2. F.pc \in Nat /\ F.pc + 1 \in Nat
  BY <1>1, Current
<1>3. img.code \in Seq(Seq(Nat)) /\ WellFormed(img.copy, I)
  BY <1>1, ImagesAssumption DEF VMInv, I
<1>4. I \in Seq(Nat)
  BY <1>1, <1>3 DEF I
<1>5. Len(I) \in Nat /\ \A k \in 1 .. Len(I) : I[k] \in Nat
  BY <1>4
<1>6. /\ Op \in WithOperand => Len(I) >= 2
      /\ Op \in OfSlots => Len(I) >= 3 /\ I[3] \in Slots
  BY <1>3 DEF WellFormed, Op
<1> QED
  BY <1>1, <1>2, <1>5, <1>6

LEMMA OneValue ==
  \A v \in Value : <<v>> \in Seq(Value) /\ Len(<<v>>) = 1
OBVIOUS

LEMMA TwoValues ==
  \A v, w \in Value : <<v, w>> \in Seq(Value)
OBVIOUS

LEMMA AnswerIsValue ==
  ASSUME F.pc \in Nat, Op \in WithOperand => I[2] \in Nat
  PROVE  Answer \in Value
<1>1. \A k \in Kinds, n \in Nat : Plain(k, n) \in Value
  BY ValueFacts
<1>2. {"obj", "any", "prim", "nil"} \subseteq Kinds
  BY DEF Kinds
<1>3. Nil \in Value
  BY ValueFacts
<1>4. CASE Op \in {2, 8, 56}
  BY <1>3, <1>4 DEF Answer
<1>5. CASE Op \in {3, 4, 5}
  BY <1>1, <1>2, <1>5 DEF Answer, WithOperand
<1>6. CASE Op = 13
  BY <1>1, <1>2, <1>6 DEF Answer
<1>7. CASE Op \in {11, 18, 19}
  BY <1>1, <1>2, <1>7 DEF Answer
<1>8. CASE Op \notin {2, 8, 56, 3, 4, 5, 13, 11, 18, 19}
  BY <1>1, <1>2, <1>8 DEF Answer
<1> QED
  BY <1>4, <1>5, <1>6, <1>7, <1>8

\* How many operands an instruction takes, with and without an exception.
LEMMA TakesWhatItNeeds ==
  ASSUME Op \in CanThrow, Op \in WithOperand => I[2] \in Nat
  PROVE  Needs \in Nat /\ Taken \in Nat /\ Taken <= Needs
<1>1. CASE Op \in Computes
  <2>1. Arity(Op) \in {1, 2}
    BY DEF Arity
  <2>2. Op \notin {21, 22, 53} \cup Invokes /\ Op \notin Writes /\ Op # 67 /\ Op # 68
    BY <1>1 DEF Computes, Reads, Coercions, Tests, Pure, Invokes, Writes
  <2>3. Needs = Arity(Op)
    BY <1>1, <2>2 DEF Needs
  <2>4. CASE Op = 33
    <3>1. Taken = 2 /\ Arity(Op) = 2
      BY <2>2, <2>4 DEF Taken, Arity, Unary, Invokes
    <3> QED
      BY <2>3, <3>1
  <2>5. CASE Op # 33
    <3>1. Taken = Arity(Op) - 1
      BY <1>1, <2>2, <2>5 DEF Taken
    <3> QED
      BY <2>1, <2>3, <3>1
  <2> QED
    BY <2>4, <2>5
<1>2. CASE Op \in Writes
  <2>1. Op \in {14, 21, 22, 53} /\ Op \notin Computes
    BY <1>2 DEF Writes, Computes, Reads, Coercions, Tests, Pure
  <2>2. Needs = IF Op \in {22, 53} THEN 3 ELSE 2
    BY <1>2, <2>1 DEF Needs
  <2>3. CASE Op \in {21, 22}
    <3>1. Taken = Needs
      BY <2>1, <2>3 DEF Taken
    <3> QED
      BY <2>2, <3>1
  <2>4. CASE Op = 53
    <3>1. Taken = 2
      BY <2>1, <2>4 DEF Taken, Invokes
    <3> QED
      BY <2>2, <2>4, <3>1
  <2>5. CASE Op = 14
    BY <2>1, <2>2, <2>5 DEF Taken, Invokes
  <2> QED
    BY <2>1, <2>3, <2>4, <2>5
<1>3. CASE Op \in Invokes
  <2>1. Op \in {67, 68} /\ Op \notin Computes /\ Op \notin Writes /\ I[2] \in Nat
    BY <1>3 DEF Invokes, Writes, Computes, Reads, Coercions, Tests, Pure, WithOperand
  <2>2. Needs = IF Op = 67 THEN I[2] + 2 ELSE I[2] + 1
    BY <2>1 DEF Needs
  <2>3. Taken = Needs
    BY <1>3, <2>1 DEF Taken
  <2> QED
    BY <2>1, <2>2, <2>3
<1>4. CASE Op = 64
  <2>1. Op \notin Computes /\ Op \notin Writes /\ Op \notin Invokes
    BY <1>4 DEF Invokes, Writes, Computes, Reads, Coercions, Tests, Pure
  <2>2. Needs = 1 /\ Taken = 1
    BY <1>4, <2>1 DEF Needs, Taken
  <2> QED
    BY <2>2
<1> QED
  BY <1>1, <1>2, <1>3, <1>4 DEF CanThrow
-----------------------------------------------------------------------------
(***************************************************************************)
(* Instructions that replace operands and go on.                           *)
(***************************************************************************)

\* What is left to show of an action that makes a step.
LEMMA StepPreserves ==
  ASSUME VMInv, frames # <<>>, Nested(frames', stack'),
         UNCHANGED <<img, calls>>,
         scopes' \in Seq(ScopeObject), given' \subseteq Value
  PROVE  VMInv'
BY DEF VMInv, Nested

LEMMA NoValues == <<>> \in Seq(Value)
OBVIOUS

\* The operands an instruction has are values.
LEMMA OperandIsValue ==
  ASSUME VMInv, frames # <<>>
  PROVE  \A n \in Nat : Has(n) => \A k \in 1 .. n : Nth(k) \in Value
<1> SUFFICES ASSUME NEW n \in Nat, Has(n), NEW k \in 1 .. n PROVE Nth(k) \in Value
  OBVIOUS
<1>1. n <= Len(stack) /\ Len(stack) \in Nat
  BY Granted, Current
<1>2. k \in 1 .. Len(stack)
  BY <1>1
<1> QED
  BY <1>2, Current

\* So are the arguments of a call.
LEMMA ArgumentsAreValues ==
  ASSUME VMInv, frames # <<>>, Op \in Invokes, Has(Needs),
         Op \in WithOperand => I[2] \in Nat
  PROVE  SubSeq(stack, Len(stack) - I[2] + 1, Len(stack)) \in Seq(Value)
<1>1. I[2] \in Nat /\ Needs \in Nat
  BY TakesWhatItNeeds DEF CanThrow, Invokes, WithOperand
<1>2. I[2] <= Needs
  <2>1. Op \in {67, 68} /\ Op \notin Computes /\ Op \notin Writes
    BY DEF Invokes, Writes, Computes, Reads, Coercions, Tests, Pure
  <2>2. Needs = IF Op = 67 THEN I[2] + 2 ELSE I[2] + 1
    BY <2>1 DEF Needs
  <2> QED
    BY <1>1, <2>2
<1>3. stack \in Seq(Value) /\ Len(stack) \in Nat /\ Needs <= Len(stack)
  BY <1>1, Current, Granted
<1>4. \A k \in Len(stack) - I[2] + 1 .. Len(stack) : stack[k] \in Value
  <2>1. Len(stack) - I[2] + 1 >= 1
    BY <1>1, <1>2, <1>3
  <2> QED
    BY <1>1, <1>3, <2>1
<1> QED
  BY <1>1, <1>3, <1>4, SubSeqProperties

LEMMA VMPushConstant == ASSUME VMInv, PushConstant PROVE VMInv'
<1>1. At(Constants) /\ Step(0, <<Answer>>, F.pc + 1) /\ Quiet
  BY DEF PushConstant
<1>2. frames # <<>> /\ F.pc + 1 \in Nat /\ Answer \in Value
  BY <1>1, Instruction, AnswerIsValue
<1>3. <<Answer>> \in Seq(Value) /\ Has(0)
  BY <1>2, OneValue, TakesNothing
<1>4. Nested(frames', stack')
  BY <1>1, <1>2, <1>3, StepKeeps
<1> QED
  BY <1>1, <1>2, <1>4, StepPreserves DEF Quiet, VMInv

LEMMA VMMakeArray == ASSUME VMInv, MakeArray PROVE VMInv'
<1>1. At({12}) /\ Has(I[2]) /\ Step(I[2], <<Plain("obj", F.pc)>>, F.pc + 1) /\ Quiet
  BY DEF MakeArray
<1>2. frames # <<>> /\ F.pc \in Nat /\ F.pc + 1 \in Nat /\ I[2] \in Nat
  BY <1>1, Instruction DEF WithOperand
<1>3. Plain("obj", F.pc) \in Value
  BY <1>2, ValueFacts DEF Kinds
<1>4. Nested(frames', stack')
  BY <1>1, <1>2, <1>3, OneValue, StepKeeps
<1> QED
  BY <1>1, <1>2, <1>4, StepPreserves DEF Quiet, VMInv

LEMMA VMCompute == ASSUME VMInv, Compute PROVE VMInv'
<1>1. /\ At(Computes) /\ Has(Needs) /\ Step(Needs, <<Answer>>, F.pc + 1)
      /\ UNCHANGED <<img, given, calls>>
      /\ \/ UNCHANGED scopes
         \/ SetSlot(Subject.scope, Nth(1).n, Plain("prim", F.pc))
  BY DEF Compute
<1>2. /\ frames # <<>> /\ F.pc \in Nat /\ F.pc + 1 \in Nat /\ Op \in Computes
      /\ Op \in WithOperand => I[2] \in Nat
  BY <1>1, Instruction
<1>3. Needs \in Nat
  BY <1>2, TakesWhatItNeeds DEF CanThrow
<1>4. Answer \in Value /\ Plain("prim", F.pc) \in Value
  BY <1>2, AnswerIsValue, ValueFacts DEF Kinds
<1>5. Nested(frames', stack')
  BY <1>1, <1>2, <1>3, <1>4, OneValue, StepKeeps
<1>6. scopes' \in Seq(ScopeObject)
  <2>1. CASE UNCHANGED scopes
    BY <2>1 DEF VMInv
  <2>2. CASE SetSlot(Subject.scope, Nth(1).n, Plain("prim", F.pc))
    BY <1>4, <2>2, SlotsStayValues DEF VMInv, SetSlot
  <2> QED
    BY <1>1, <2>1, <2>2
<1> QED
  BY <1>1, <1>2, <1>5, <1>6, StepPreserves DEF VMInv

LEMMA VMLoad == ASSUME VMInv, Load PROVE VMInv'
<1> DEFINE v == scopes[Up(I[2])].slots[I[3]]
<1>1. /\ At({17}) /\ Up(I[2]) \in DOMAIN scopes
      /\ Step(0, <<v>>, F.pc + 1) /\ Quiet
  BY DEF Load
<1>2. frames # <<>> /\ F.pc + 1 \in Nat /\ I[3] \in Slots
  BY <1>1, Instruction DEF OfSlots
<1>3. v \in Value
  <2>1. scopes[Up(I[2])] \in ScopeObject
    BY <1>1 DEF VMInv
  <2>2. scopes[Up(I[2])].slots \in [Slots -> Value]
    BY <2>1 DEF ScopeObject
  <2> QED
    BY <1>2, <2>2
<1> HIDE DEF v
<1>4. Nested(frames', stack')
  BY <1>1, <1>2, <1>3, OneValue, TakesNothing, StepKeeps
<1> QED
  BY <1>1, <1>2, <1>4, StepPreserves DEF Quiet, VMInv

LEMMA VMStore == ASSUME VMInv, Store PROVE VMInv'
<1>1. /\ At({20}) /\ Has(1) /\ Step(1, <<>>, F.pc + 1)
      /\ SetSlot(Up(I[2]), I[3], Nth(1))
      /\ given' \subseteq given \cup Closures(<<Nth(1)>>)
      /\ UNCHANGED <<img, calls>>
  BY DEF Store
<1>2. frames # <<>> /\ F.pc + 1 \in Nat
  BY <1>1, Instruction
<1>3. Nth(1) \in Value
  BY <1>1, <1>2, OperandIsValue
<1>4. Nested(frames', stack')
  BY <1>1, <1>2, NoValues, StepKeeps
<1>5. scopes' \in Seq(ScopeObject)
  BY <1>1, <1>3, SlotsStayValues DEF VMInv, SetSlot
<1>6. given' \subseteq Value
  <2>1. Closures(<<Nth(1)>>) \subseteq Value
    BY <1>3, ClosuresAreValues
  <2> QED
    BY <1>1, <2>1 DEF VMInv
<1> QED
  BY <1>1, <1>2, <1>4, <1>5, <1>6, StepPreserves

LEMMA VMPushRef == ASSUME VMInv, PushRef PROVE VMInv'
<1> DEFINE v == [Plain("scope", 0) EXCEPT !.scope = Up(I[2])]
           w == Plain("prim", I[3])
<1>1. /\ At({23}) /\ Up(I[2]) \in DOMAIN scopes
      /\ Step(0, <<v, w>>, F.pc + 1) /\ Quiet
  BY DEF PushRef
<1>2. frames # <<>> /\ F.pc + 1 \in Nat /\ I[3] \in Nat
  BY <1>1, Instruction DEF OfSlots
<1>3. Up(I[2]) \in Nat
  BY <1>1 DEF VMInv
<1>4. v \in Value /\ w \in Value
  BY <1>2, <1>3, ValueFacts DEF Kinds
<1> HIDE DEF v, w
<1>5. Nested(frames', stack')
  BY <1>1, <1>2, <1>4, TwoValues, TakesNothing, StepKeeps
<1> QED
  BY <1>1, <1>2, <1>5, StepPreserves DEF Quiet, VMInv

LEMMA VMWrite == ASSUME VMInv, Write PROVE VMInv'
<1> DEFINE n == CASE Op = 14 -> 1 [] Op \in {21, 53} -> 2 [] OTHER -> 3
<1>1. /\ At(Writes) /\ Has(Needs) /\ Step(n, <<>>, F.pc + 1)
      /\ UNCHANGED <<img, given, calls>>
      /\ \/ UNCHANGED scopes
         \/ Op \in {22, 53} /\ SetSlot(Subject.scope, Nth(1).n, Nth(3))
  BY DEF Write
<1>2. /\ frames # <<>> /\ F.pc + 1 \in Nat /\ Op \in Writes
      /\ Op \in WithOperand => I[2] \in Nat
  BY <1>1, Instruction
<1>3. Op \in {14, 21, 22, 53} /\ Op \notin Computes
  BY <1>2 DEF Writes, Computes, Reads, Coercions, Tests, Pure
<1>4. Needs = IF Op \in {22, 53} THEN 3 ELSE 2
  BY <1>2, <1>3 DEF Needs
<1>5. n \in Nat /\ Has(n)
  <2>1. n \in Nat /\ n <= Needs /\ Needs \in Nat
    BY <1>3, <1>4
  <2>2. Own \in Nat
    BY <1>2, OwnIsNat
  <2> HIDE DEF n
  <2> QED
    BY <1>1, <2>1, <2>2 DEF Has
<1> HIDE DEF n
<1>6. Nested(frames', stack')
  BY <1>1, <1>2, <1>5, NoValues, StepKeeps
<1>7. scopes' \in Seq(ScopeObject)
  <2>1. CASE UNCHANGED scopes
    BY <2>1 DEF VMInv
  <2>2. CASE Op \in {22, 53} /\ SetSlot(Subject.scope, Nth(1).n, Nth(3))
    <3>1. Has(3)
      BY <1>1, <1>4, <2>2
    <3>2. Nth(3) \in Value
      BY <1>2, <3>1, OperandIsValue
    <3> QED
      BY ZenonT(40), <2>2, <3>2, SlotsStayValues DEF VMInv, SetSlot
  <2> QED
    BY <1>1, <2>1, <2>2
<1> QED
  BY <1>1, <1>2, <1>6, <1>7, StepPreserves DEF VMInv

LEMMA VMMakeClosure == ASSUME VMInv, MakeClosure PROVE VMInv'
<1> DEFINE named == Closure(Nth(1).n, I[2], Len(scopes) + 1)
           plain == Closure(Nth(1).n, I[2], F.scope)
           own == [p |-> F.scope,
                   slots |-> [s \in Slots |-> IF s = 0 THEN named ELSE Nil]]
<1>1. /\ At({59, 60}) /\ Has(1) /\ UNCHANGED <<img, given, calls>>
      /\ \/ Step(1, <<named>>, F.pc + 1) /\ scopes' = Append(scopes, own)
         \/ Step(1, <<plain>>, F.pc + 1) /\ UNCHANGED scopes
  BY DEF MakeClosure
<1>2. frames # <<>> /\ F.pc + 1 \in Nat /\ I[2] \in Nat
  BY <1>1, Instruction DEF WithOperand
<1>3. /\ Nth(1) \in Value /\ Nth(1).n \in Nat /\ F.scope \in Nat
      /\ Len(scopes) + 1 \in Nat /\ scopes \in Seq(ScopeObject)
  <2>1. Nth(1) \in Value
    BY <1>1, <1>2, OperandIsValue
  <2>2. F.scope \in Nat
    BY <1>2, Current
  <2>3. scopes \in Seq(ScopeObject)
    BY DEF VMInv
  <2> QED
    BY <2>1, <2>2, <2>3, ValueFacts
<1>4. named \in Value /\ plain \in Value
  BY <1>2, <1>3, ValueFacts
<1> HIDE DEF named, plain
<1>5. own \in ScopeObject
  BY <1>3, <1>4, ValueFacts DEF ScopeObject
<1> HIDE DEF own
<1>6. Nested(frames', stack')
  BY <1>1, <1>2, <1>4, OneValue, StepKeeps
<1>7. scopes' \in Seq(ScopeObject)
  BY <1>1, <1>3, <1>5, AppendProperties
<1> QED
  BY <1>1, <1>2, <1>6, <1>7, StepPreserves DEF VMInv

LEMMA VMJump == ASSUME VMInv, Jump PROVE VMInv'
<1>1. At({69}) /\ Step(0, <<>>, I[2]) /\ Quiet
  BY DEF Jump
<1>2. frames # <<>> /\ I[2] \in Nat
  BY <1>1, Instruction DEF WithOperand
<1>3. Nested(frames', stack')
  BY <1>1, <1>2, NoValues, TakesNothing, StepKeeps
<1> QED
  BY <1>1, <1>2, <1>3, StepPreserves DEF Quiet, VMInv

LEMMA VMBranch == ASSUME VMInv, Branch PROVE VMInv'
<1>1. /\ At(Jumps) /\ Has(IF Op = 72 THEN 2 ELSE 1) /\ Quiet
      /\ \E n \in {0, 1, 2}, pc \in {I[2], F.pc + 1} :
           (n = 2 => Op = 72) /\ Step(n, <<>>, pc)
  <2>1. PICK t : CASE Op = 51 -> IF t THEN Step(1, <<>>, F.pc + 1) ELSE Step(0, <<>>, I[2])
                   [] Op = 52 -> IF t THEN Step(0, <<>>, I[2]) ELSE Step(1, <<>>, F.pc + 1)
                   [] Op = 71 -> Step(1, <<>>, IF t THEN F.pc + 1 ELSE I[2])
                   [] Op = 72 -> IF t THEN Step(2, <<>>, I[2]) ELSE Step(1, <<>>, F.pc + 1)
    BY DEF Branch
  <2>2. At(Jumps) /\ Has(IF Op = 72 THEN 2 ELSE 1) /\ Quiet
    BY DEF Branch
  <2>3. Op \in {51, 52, 71, 72}
    BY <2>2 DEF At, Jumps
  <2>4. CASE Op = 51
    BY <2>1, <2>2, <2>4
  <2>5. CASE Op = 52
    BY <2>1, <2>2, <2>5
  <2>6. CASE Op = 71
    BY <2>1, <2>2, <2>6
  <2>7. CASE Op = 72
    BY <2>1, <2>2, <2>7
  <2> QED
    BY <2>3, <2>4, <2>5, <2>6, <2>7
<1>2. /\ frames # <<>> /\ I[2] \in Nat /\ F.pc + 1 \in Nat
  BY <1>1, Instruction DEF WithOperand, Jumps
<1>3. PICK n \in {0, 1, 2}, pc \in {I[2], F.pc + 1} :
        (n = 2 => Op = 72) /\ Step(n, <<>>, pc)
  BY <1>1
<1>4. n \in Nat /\ pc \in Nat /\ Has(n)
  <2>1. Own \in Nat
    BY <1>2, OwnIsNat
  <2> QED
    BY <1>1, <1>2, <1>3, <2>1 DEF Has
<1>5. Nested(frames', stack')
  BY <1>2, <1>3, <1>4, NoValues, StepKeeps
<1> QED
  BY <1>1, <1>2, <1>5, StepPreserves DEF Quiet, VMInv

LEMMA VMPop == ASSUME VMInv, Pop PROVE VMInv'
<1>1. At({73}) /\ Has(1) /\ Step(1, <<>>, F.pc + 1) /\ Quiet
  BY DEF Pop
<1>2. frames # <<>> /\ F.pc + 1 \in Nat
  BY <1>1, Instruction
<1>3. Nested(frames', stack')
  BY <1>1, <1>2, NoValues, StepKeeps
<1> QED
  BY <1>1, <1>2, <1>3, StepPreserves DEF Quiet, VMInv

LEMMA VMDup == ASSUME VMInv, Dup PROVE VMInv'
<1>1. At({74}) /\ Has(1) /\ Step(0, <<Nth(1)>>, F.pc + 1) /\ Quiet
  BY DEF Dup
<1>2. frames # <<>> /\ F.pc + 1 \in Nat
  BY <1>1, Instruction
<1>3. Nth(1) \in Value
  BY <1>1, <1>2, OperandIsValue
<1>4. Nested(frames', stack')
  BY <1>1, <1>2, <1>3, OneValue, TakesNothing, StepKeeps
<1> QED
  BY <1>1, <1>2, <1>4, StepPreserves DEF Quiet, VMInv

LEMMA VMForIn == ASSUME VMInv, ForIn PROVE VMInv'
<1>1. /\ At({75}) /\ Has(1) /\ Step(1, <<>>, F.pc + 1)
      /\ SetSlot(F.scope, I[2], Plain("obj", F.pc)) /\ UNCHANGED <<img, given, calls>>
  BY DEF ForIn
<1>2. frames # <<>> /\ F.pc \in Nat /\ F.pc + 1 \in Nat
  BY <1>1, Instruction
<1>3. Plain("obj", F.pc) \in Value
  BY <1>2, ValueFacts DEF Kinds
<1>4. Nested(frames', stack')
  BY <1>1, <1>2, NoValues, StepKeeps
<1>5. scopes' \in Seq(ScopeObject)
  BY <1>1, <1>3, SlotsStayValues DEF VMInv, SetSlot
<1> QED
  BY <1>1, <1>2, <1>4, <1>5, StepPreserves DEF VMInv

LEMMA VMNextKey == ASSUME VMInv, NextKey PROVE VMInv'
<1>1. /\ At({76}) /\ Has(2) /\ Step(2, <<Plain("prim", F.pc)>>, F.pc + 1)
      /\ \/ SetSlot(Nth(2).scope, Nth(1).n, Plain("prim", F.pc))
         \/ UNCHANGED scopes
      /\ UNCHANGED <<img, given, calls>>
  BY DEF NextKey
<1>2. frames # <<>> /\ F.pc \in Nat /\ F.pc + 1 \in Nat
  BY <1>1, Instruction
<1>3. Plain("prim", F.pc) \in Value
  BY <1>2, ValueFacts DEF Kinds
<1>4. Nested(frames', stack')
  BY <1>1, <1>2, <1>3, OneValue, StepKeeps
<1>5. scopes' \in Seq(ScopeObject)
  <2>1. CASE UNCHANGED scopes
    BY <2>1 DEF VMInv
  <2>2. CASE SetSlot(Nth(2).scope, Nth(1).n, Plain("prim", F.pc))
    BY <1>3, <2>2, SlotsStayValues DEF VMInv, SetSlot
  <2> QED
    BY <1>1, <2>1, <2>2
<1> QED
  BY <1>1, <1>2, <1>4, <1>5, StepPreserves DEF VMInv

LEMMA VMCallHost == ASSUME VMInv, CallHost PROVE VMInv'
<1> DEFINE args == SubSeq(stack, Len(stack) - I[2] + 1, Len(stack))
<1>1. /\ At(Invokes) /\ Has(Needs) /\ Step(Needs, <<Plain("any", F.pc)>>, F.pc + 1)
      /\ given' = given \cup Closures(args)
      /\ UNCHANGED <<img, scopes, calls>>
  BY DEF CallHost
<1>2. /\ frames # <<>> /\ F.pc \in Nat /\ F.pc + 1 \in Nat /\ Op \in Invokes
      /\ Op \in WithOperand => I[2] \in Nat
  BY <1>1, Instruction
<1>3. Plain("any", F.pc) \in Value
  BY <1>2, ValueFacts DEF Kinds
<1>4. Needs \in Nat
  BY <1>2, TakesWhatItNeeds DEF CanThrow
<1>5. Nested(frames', stack')
  BY <1>1, <1>2, <1>3, <1>4, OneValue, StepKeeps
<1>6. args \in Seq(Value)
  BY <1>1, <1>2, ArgumentsAreValues
<1> HIDE DEF args
<1>7. given' \subseteq Value
  <2>1. Closures(args) \subseteq Value
    BY <1>6, ClosuresAreValues
  <2> QED
    BY <1>1, <2>1 DEF VMInv
<1> QED
  BY <1>1, <1>2, <1>5, <1>7, StepPreserves DEF VMInv
-----------------------------------------------------------------------------
(* Handlers *)

LEMMA HandlerSteps ==
  ASSUME VMInv, frames # <<>>,
         NEW g \in Frame, g.base = F.base, g.ops = F.ops, HandlersNest(g)
  PROVE  Nested([frames EXCEPT ![Len(frames)] = g], stack)
<1>1. /\ F = Top(frames) /\ Nested(frames, stack) /\ Owns(F, stack)
      /\ Below(F.base, stack) /\ stack \in Seq(Value)
  BY Current DEF VMInv
<1>2. Owns(g, stack) /\ \A k \in DOMAIN g.base : stack[k] = stack[k]
  BY <1>1 DEF Owns
<1>3. g.base = Top(frames).base
  BY <1>1
<1> QED
  BY <1>1, <1>2, <1>3, GoOn

LEMMA VMEnterTry == ASSUME VMInv, EnterTry PROVE VMInv'
<1> DEFINE h == [live |-> TRUE, exit |-> 0, catch |-> F.pc + 1, ops |-> F.ops]
           g == [F EXCEPT !.pc = I[2], !.hs = Append(F.hs, h)]
<1>1. /\ At({62}) /\ frames' = [frames EXCEPT ![Len(frames)] = g]
      /\ UNCHANGED stack /\ Quiet
  BY DEF EnterTry, SetTop
<1>2. frames # <<>> /\ I[2] \in Nat /\ F.pc + 1 \in Nat
  BY <1>1, Instruction DEF WithOperand
<1>3. /\ F \in Frame /\ F.hs \in Seq(Handler) /\ F.ops \in Seq(Value) /\ HandlersNest(F)
  BY <1>2, Current
<1>4. h \in Handler /\ h.ops = F.ops
  BY <1>2, <1>3 DEF Handler
<1> HIDE DEF h
<1>5. /\ Append(F.hs, h) \in Seq(Handler) /\ Len(F.hs) \in Nat
      /\ DOMAIN F.hs = 1 .. Len(F.hs) /\ DOMAIN Append(F.hs, h) = 1 .. Len(F.hs) + 1
      /\ \A k \in 1 .. Len(F.hs) : Append(F.hs, h)[k] = F.hs[k]
      /\ Append(F.hs, h)[Len(F.hs) + 1] = h
  BY <1>3, <1>4, AppendProperties
<1>6. g \in Frame /\ g.base = F.base /\ g.ops = F.ops /\ g.hs = Append(F.hs, h)
  BY <1>2, <1>3, <1>5 DEF Frame
<1> HIDE DEF g
<1>7. HandlersNest(g)
  <2>1. Len(F.ops) \in Nat
    BY <1>3
  <2>2. DOMAIN g.hs = 1 .. Len(F.hs) + 1
    BY <1>5, <1>6
  <2>3. \A k \in 1 .. Len(F.hs) : g.hs[k] = F.hs[k] /\ k \in DOMAIN F.hs
    BY <1>5, <1>6
  <2>4. g.hs[Len(F.hs) + 1].ops = g.ops /\ g.ops = F.ops
    BY <1>4, <1>5, <1>6
  <2>5. ASSUME NEW k \in 1 .. Len(F.hs)
        PROVE  /\ Len(F.hs[k].ops) <= Len(F.ops)
               /\ \A m \in 1 .. k : Len(F.hs[m].ops) <= Len(F.hs[k].ops)
    BY <1>3, <2>3 DEF HandlersNest
  <2>6. ASSUME NEW k \in DOMAIN g.hs PROVE Len(g.hs[k].ops) <= Len(g.ops)
    <3>1. CASE k = Len(F.hs) + 1
      BY <2>1, <2>4, <3>1
    <3>2. CASE k # Len(F.hs) + 1
      <4>1. k \in 1 .. Len(F.hs)
        BY <1>5, <2>2, <3>2
      <4> QED
        BY <2>3, <2>4, <2>5, <4>1
    <3> QED
      BY <3>1, <3>2
  <2>7. ASSUME NEW k \in DOMAIN g.hs, NEW m \in 1 .. k
        PROVE Len(g.hs[m].ops) <= Len(g.hs[k].ops)
    <3>1. m \in DOMAIN g.hs
      BY <1>5, <2>2
    <3>2. CASE k = Len(F.hs) + 1
      BY <2>4, <2>6, <3>1, <3>2
    <3>3. CASE k # Len(F.hs) + 1
      <4>1. k \in 1 .. Len(F.hs) /\ m \in 1 .. Len(F.hs)
        BY <1>5, <2>2, <3>3
      <4> QED
        BY <2>3, <2>5, <4>1
    <3> QED
      BY <3>2, <3>3
  <2> QED
    BY ONLY <2>6, <2>7 DEF HandlersNest
<1>8. Nested(frames', stack')
  BY <1>1, <1>2, <1>6, <1>7, HandlerSteps
<1> QED
  BY <1>1, <1>2, <1>8, StepPreserves DEF Quiet, VMInv

LEMMA VMSetExit == ASSUME VMInv, SetExit PROVE VMInv'
<1> DEFINE n == Len(F.hs)
           h == [F.hs[n] EXCEPT !.exit = I[2]]
           hs2 == [F.hs EXCEPT ![n] = h]
           g == [F EXCEPT !.pc = F.pc + 1, !.hs = hs2]
<1>1. /\ At({61}) /\ F.hs # <<>>
      /\ frames' = [frames EXCEPT ![Len(frames)] =
                      [F EXCEPT !.pc = @ + 1, !.hs[Len(F.hs)].exit = I[2]]]
      /\ UNCHANGED stack /\ Quiet
  BY DEF SetExit, SetTop
<1>2. frames # <<>> /\ I[2] \in Nat /\ F.pc + 1 \in Nat
  BY <1>1, Instruction DEF WithOperand
<1>3. /\ F \in Frame /\ F.hs \in Seq(Handler) /\ HandlersNest(F)
  BY <1>2, Current
<1>4. n \in 1 .. n /\ n \in Nat /\ DOMAIN F.hs = 1 .. n
  BY <1>1, <1>3
<1>5. h \in Handler /\ h.ops = F.hs[n].ops
  <2>1. F.hs[n] \in Handler
    BY <1>3, <1>4
  <2> QED
    BY <1>2, <2>1 DEF Handler
<1>6. [F EXCEPT !.pc = @ + 1, !.hs[Len(F.hs)].exit = I[2]] = g
  BY <1>3 DEF Frame
<1> HIDE DEF h, n
<1>7. /\ hs2 \in Seq(Handler) /\ Len(hs2) = n /\ DOMAIN hs2 = 1 .. n
      /\ \A k \in 1 .. n : hs2[k] = IF k = n THEN h ELSE F.hs[k]
  <2>1. F.hs \in Seq(Handler) /\ n = Len(F.hs)
    BY <1>3 DEF n
  <2> QED
    BY <1>4, <1>5, <2>1, ExceptSeq
<1> HIDE DEF hs2
<1>8. g \in Frame /\ g.base = F.base /\ g.ops = F.ops /\ g.hs = hs2
  BY <1>2, <1>3, <1>7 DEF Frame
<1> HIDE DEF g
<1>9. HandlersNest(g)
  <2>1. \A k \in 1 .. n : g.hs[k].ops = F.hs[k].ops
    BY <1>5, <1>7, <1>8
  <2>2. DOMAIN g.hs = 1 .. n
    BY <1>7, <1>8
  <2>3. ASSUME NEW k \in 1 .. n
        PROVE  /\ Len(F.hs[k].ops) <= Len(F.ops)
               /\ \A m \in 1 .. k : m \in 1 .. n /\ Len(F.hs[m].ops) <= Len(F.hs[k].ops)
    BY <1>3, <1>4 DEF HandlersNest
  <2> QED
    BY <1>8, <2>1, <2>2, <2>3 DEF HandlersNest
<1>10. Nested(frames', stack')
  BY <1>1, <1>2, <1>6, <1>8, <1>9, HandlerSteps
<1> QED
  BY <1>1, <1>2, <1>10, StepPreserves DEF Quiet, VMInv

\* Dropping the inner handlers keeps the others nested.
LEMMA FewerHandlers ==
  ASSUME NEW f \in Frame, HandlersNest(f), NEW n \in 0 .. Len(f.hs), NEW g,
         g.hs = SubSeq(f.hs, 1, n), g.ops = f.ops
  PROVE  HandlersNest(g) /\ g.hs \in Seq(Handler) /\ Len(g.hs) = n
         /\ \A k \in 1 .. n : g.hs[k] = f.hs[k]
<1>1. f.hs \in Seq(Handler) /\ Len(f.hs) \in Nat /\ DOMAIN f.hs = 1 .. Len(f.hs)
  BY FrameFacts
<1>2. /\ g.hs \in Seq(Handler) /\ Len(g.hs) = n
      /\ \A k \in 1 .. n : g.hs[k] = f.hs[k]
  BY <1>1, SubSeqProperties
<1>3. DOMAIN g.hs = 1 .. n
  BY <1>2
<1>4. ASSUME NEW k \in 1 .. n
      PROVE  /\ Len(f.hs[k].ops) <= Len(f.ops)
             /\ \A m \in 1 .. k : m \in 1 .. n /\ Len(f.hs[m].ops) <= Len(f.hs[k].ops)
  <2>1. k \in DOMAIN f.hs /\ \A m \in 1 .. k : m \in 1 .. n
    BY <1>1
  <2> QED
    BY <2>1 DEF HandlersNest
<1> QED
  BY <1>2, <1>3, <1>4 DEF HandlersNest

LEMMA VMLeaveTry == ASSUME VMInv, LeaveTry PROVE VMInv'
<1> DEFINE n == Len(F.hs)
           g == [F EXCEPT !.pc = F.hs[n].exit, !.hs = SubSeq(F.hs, 1, n - 1)]
<1>1. /\ At({65}) /\ F.hs # <<>> /\ frames' = [frames EXCEPT ![Len(frames)] = g]
      /\ UNCHANGED stack /\ Quiet
  BY DEF LeaveTry, SetTop, Cut
<1>2. frames # <<>>
  BY <1>1, Instruction
<1>3. /\ F \in Frame /\ F.hs \in Seq(Handler) /\ HandlersNest(F)
  BY <1>2, Current
<1>4. n \in 1 .. n /\ n \in Nat /\ n - 1 \in 0 .. n
  BY <1>1, <1>3
<1>5. F.hs[n].exit \in Nat /\ SubSeq(F.hs, 1, n - 1) \in Seq(Handler)
  <2>1. F.hs[n] \in Handler
    BY <1>3, <1>4
  <2>2. \A k \in 1 .. n - 1 : F.hs[k] \in Handler
    BY <1>3, <1>4
  <2> QED
    BY <1>4, <2>1, <2>2, SubSeqProperties DEF Handler
<1>6. g \in Frame /\ g.base = F.base /\ g.ops = F.ops /\ g.hs = SubSeq(F.hs, 1, n - 1)
  BY <1>3, <1>5 DEF Frame
<1> HIDE DEF g
<1>7. HandlersNest(g)
  BY <1>3, <1>4, <1>6, FewerHandlers
<1>8. Nested(frames', stack')
  BY <1>1, <1>2, <1>6, <1>7, HandlerSteps
<1> QED
  BY <1>1, <1>2, <1>8, StepPreserves DEF Quiet, VMInv
-----------------------------------------------------------------------------
(***************************************************************************)
(* Calls, returns and exceptions.                                          *)
(***************************************************************************)
LEMMA VMCallInline == ASSUME VMInv, CallInline PROVE VMInv'
<1> DEFINE c == Subject
           args == SubSeq(stack, Len(stack) - I[2] + 1, Len(stack))
           rest == Cut(stack, Needs)
           id == Len(scopes) + 1
           caller == [F EXCEPT !.pc = F.pc + 1, !.ops = Cut(F.ops, Needs) \o <<>>]
           fs == [frames EXCEPT ![Len(frames)] = caller]
<1>1. /\ At({67}) /\ Has(Needs)
      /\ stack' = rest /\ scopes' = Append(scopes, Called(c, args))
      /\ frames' = Append([frames EXCEPT ![Len(frames)].pc = @ + 1,
                                         ![Len(frames)].ops = Cut(@, Needs)],
                          Activation(c.n, id, rest))
      /\ UNCHANGED <<img, given, calls>>
  BY DEF CallInline
<1>2. /\ frames # <<>> /\ F.pc + 1 \in Nat /\ Op = 67 /\ I[2] \in Nat
  BY <1>1, Instruction DEF WithOperand
<1>3. Needs = I[2] + 2 /\ Needs \in Nat
  BY <1>2 DEF Needs, Computes, Reads, Coercions, Tests, Pure, Writes
<1>4. /\ F = Top(frames) /\ F \in Frame /\ F.ops \in Seq(Value)
      /\ frames \in Seq(Frame) /\ Len(frames) \in DOMAIN frames
      /\ stack \in Seq(Value) /\ Len(stack) \in Nat /\ Nested(frames, stack)
  BY <1>2, Current DEF VMInv
<1>5. /\ Spare(F, Needs) /\ Needs \in 0 .. Len(F.ops) /\ Needs \in 0 .. Len(stack)
  BY SMTT(20), <1>1, <1>2, <1>3, Granted, Current
<1>6. c \in Value /\ c.n \in Nat
  <2>1. I[2] + 1 \in 1 .. Needs
    BY <1>2, <1>3
  <2>2. c = Nth(I[2] + 1)
    BY <1>2 DEF Subject, Reads
  <2>3. Nth(I[2] + 1) \in Value
    BY <1>1, <1>2, <1>3, <2>1, OperandIsValue
  <2> QED
    BY <2>2, <2>3, ValueFacts
<1>7. args \in Seq(Value)
  BY <1>1, <1>2, ArgumentsAreValues DEF Invokes
<1>8. scopes \in Seq(ScopeObject) /\ id \in Nat
  BY DEF VMInv
<1>9. /\ Cut(F.ops, Needs) \in Seq(Value) /\ rest \in Seq(Value)
      /\ Cut(F.ops, Needs) \o <<>> = Cut(F.ops, Needs) /\ rest \o <<>> = rest
  <2>1. Cut(F.ops, Needs) \in Seq(Value) /\ rest \in Seq(Value)
    BY <1>4, <1>5, CutFacts
  <2> QED
    BY <2>1, ConcatEmptySeq
<1>10. Nested(fs, rest)
  <2>1. Nested([frames EXCEPT ![Len(frames)] =
                 [Top(frames) EXCEPT !.pc = F.pc + 1,
                                     !.ops = Cut(Top(frames).ops, Needs) \o <<>>]],
               Cut(stack, Needs) \o <<>>)
    BY <1>2, <1>3, <1>4, <1>5, NoValues, StepNests
  <2> QED
    BY <1>4, <1>9, <2>1
<1>11. [frames EXCEPT ![Len(frames)].pc = @ + 1, ![Len(frames)].ops = Cut(@, Needs)] = fs
  <2> DEFINE n == Len(frames)
             o == Cut(F.ops, Needs)
  <2>1. F = frames[n] /\ caller = [F EXCEPT !.pc = F.pc + 1, !.ops = o]
    BY <1>9 DEF F
  <2>2. [frames EXCEPT ![n].pc = @ + 1, ![n].ops = Cut(@, Needs)]
          = [frames EXCEPT ![n] = [frames[n] EXCEPT !.pc = frames[n].pc + 1,
                                       !.ops = Cut(frames[n].ops, Needs)]]
    BY <1>4 DEF Frame
  <2> QED
    BY <2>1, <2>2
<1> HIDE DEF fs, rest, args, c, id
<1>12. Nested(Append(fs, Activation(c.n, id, rest)), rest)
  BY <1>6, <1>8, <1>10, Begin
<1>13. Nested(frames', stack')
  BY <1>1, <1>11, <1>12 DEF fs, rest, c, id
<1>14. scopes' \in Seq(ScopeObject)
  <2>1. Called(c, args) \in ScopeObject
    BY <1>6, <1>7, CalledIsScope
  <2>2. scopes' = Append(scopes, Called(c, args))
    BY <1>1 DEF c, args
  <2> QED
    BY <1>8, <2>1, <2>2, AppendProperties
<1> QED
  BY <1>1, <1>2, <1>13, <1>14, StepPreserves DEF VMInv

\* Out of the interpreter: nothing is left of the call.
LEMMA NothingNests == Nested(<<>>, <<>>)
BY DEF Nested

LEMMA VMReturn == ASSUME VMInv, Return PROVE VMInv'
<1>1. /\ At({66}) /\ Has(1) /\ UNCHANGED <<img, scopes, calls>>
  BY DEF Return
<1>2. frames # <<>>
  BY <1>1, Instruction
<1>3. Nth(1) \in Value
  BY <1>1, <1>2, OperandIsValue
<1>4. CASE Len(frames) > 1
  <2> DEFINE n == Len(frames)
             f == frames[n - 1]
             v == Nth(1)
             g == [f EXCEPT !.ops = Append(f.ops, v)]
             s2 == Cut(stack, 1) \o <<v>>
  <2>1. /\ stack' = s2 /\ frames' = Append(Cut(frames, 2), g) /\ UNCHANGED given
    BY <1>4 DEF Return
  <2>2. /\ frames \in Seq(Frame) /\ n \in DOMAIN frames /\ n \in Nat /\ n > 1
        /\ DOMAIN frames = 1 .. n /\ F = frames[n]
        /\ stack \in Seq(Value) /\ Len(stack) \in Nat /\ Owns(F, stack)
        /\ Nested(frames, stack) /\ F \in Frame
    BY <1>2, <1>4, Current DEF VMInv, F
  <2>3. n - 1 \in DOMAIN frames /\ n - 1 < n /\ f \in Frame /\ HandlersNest(f)
        /\ Below(f.base, stack) /\ Owns(f, F.base)
    BY <2>2 DEF Nested
  <2>4. /\ 1 <= Len(F.ops) /\ 1 <= Len(stack)
    BY <1>1, <1>2, Granted
  <2>5. /\ Len(f.base) + Len(f.ops) <= Len(F.base)
        /\ Len(F.base) + Len(F.ops) <= Len(stack)
    BY <2>2, <2>3 DEF Owns
  <2>6. /\ Len(f.base) \in Nat /\ Len(f.ops) \in Nat /\ DOMAIN f.base = 1 .. Len(f.base)
        /\ f.ops \in Seq(Value)
        /\ Len(F.base) \in Nat /\ Len(F.ops) \in Nat
    BY <2>2, <2>3, FrameLengths
  <2>7. Len(f.base) + (Len(f.ops) + 1) <= Len(stack)
    <3>1. \A b, o, m, p, s \in Nat :
            b + o <= m /\ m + p <= s /\ 1 <= p => b + (o + 1) <= s
      OBVIOUS
    <3> QED
      BY ONLY <2>2, <2>4, <2>5, <2>6, <3>1
  <2>8. /\ Cut(stack, 1) \in Seq(Value) /\ Len(Cut(stack, 1)) = Len(stack) - 1
        /\ \A k \in 1 .. Len(stack) - 1 : Cut(stack, 1)[k] = stack[k]
    BY <2>2, <2>4, CutFacts
  <2> HIDE DEF v
  <2>9. /\ s2 \in Seq(Value) /\ Len(s2) = Len(stack)
        /\ \A k \in 1 .. Len(stack) - 1 : s2[k] = stack[k]
    <3> DEFINE o == Cut(stack, 1)
    <3>1. v \in Value /\ <<v>> \in Seq(Value) /\ Len(<<v>>) = 1
      BY <1>3 DEF v
    <3>2. o \in Seq(Value) /\ Len(o) = Len(stack) - 1
      BY <2>8
    <3> HIDE DEF o
    <3>3. /\ o \o <<v>> \in Seq(Value) /\ Len(o \o <<v>>) = Len(o) + Len(<<v>>)
          /\ \A k \in 1 .. Len(o) : (o \o <<v>>)[k] = o[k]
      BY ONLY <3>1, <3>2, ConcatFacts
    <3>4. Len(o) + Len(<<v>>) = Len(stack)
      BY ONLY <2>2, <3>1, <3>2
    <3> QED
      BY <2>8, <3>2, <3>3, <3>4 DEF o
  <2>10. /\ Append(f.ops, v) \in Seq(Value) /\ Len(Append(f.ops, v)) = Len(f.ops) + 1
    BY <1>3, <2>6, AppendProperties DEF v
  <2>11. /\ g \in Frame /\ g.base = f.base /\ g.hs = f.hs /\ g.ops = Append(f.ops, v)
    BY <2>3, <2>10 DEF Frame
  <2> HIDE DEF g, s2, f
  <2>12. HandlersNest(g)
    <3>1. \A h \in DOMAIN f.hs : Len(f.hs[h].ops) \in Nat
      BY <2>3, FrameFacts
    <3>2. Len(g.ops) = Len(f.ops) + 1
      BY <2>10, <2>11
    <3>3. \A h \in DOMAIN f.hs : Len(f.hs[h].ops) <= Len(f.ops)
      BY <2>3 DEF HandlersNest
    <3>4. \A h \in DOMAIN f.hs : Len(f.hs[h].ops) <= Len(g.ops)
      BY ONLY <2>6, <3>1, <3>2, <3>3
    <3> QED
      BY ONLY <2>3, <2>11, <3>4 DEF HandlersNest
  <2>13. Owns(g, s2)
    <3>1. Len(g.base) + Len(g.ops) <= Len(s2)
      BY <2>7, <2>9, <2>10, <2>11
    <3> QED
      BY <3>1 DEF Owns
  <2>14. \A k \in DOMAIN g.base : s2[k] = stack[k]
    <3>1. Len(f.base) <= Len(stack) - 1
      <4>1. \A b, o, s \in Nat : b + (o + 1) <= s => b <= s - 1
        OBVIOUS
      <4> QED
        BY ONLY <2>2, <2>6, <2>7, <4>1
    <3>2. \A k \in DOMAIN g.base : k \in 1 .. Len(stack) - 1
      BY ONLY <2>2, <2>6, <2>11, <3>1
    <3> QED
      BY <2>9, <3>2
  <2>15. Nested(Append(SubSeq(frames, 1, (n - 1) - 1), g), s2)
    BY <2>2, <2>3, <2>9, <2>11, <2>12, <2>13, <2>14, Resume DEF f
  <2>16. Cut(frames, 2) = SubSeq(frames, 1, (n - 1) - 1)
    <3>1. Len(frames) - 2 = (n - 1) - 1
      BY <2>2
    <3> QED
      BY <3>1 DEF Cut
  <2>17. Nested(frames', stack')
    BY <2>1, <2>15, <2>16 DEF g, s2, v, f
  <2> QED
    BY <1>1, <1>2, <2>1, <2>17, StepPreserves DEF VMInv
<1>5. CASE ~(Len(frames) > 1)
  <2>1. /\ frames' = <<>> /\ stack' = <<>> /\ given' = given \cup Closures(<<Nth(1)>>)
    BY <1>5 DEF Return
  <2>2. Closures(<<Nth(1)>>) \subseteq Value
    BY <1>3, ClosuresAreValues
  <2>3. Nested(frames', stack')
    BY <2>1, NothingNests
  <2> QED
    BY <1>1, <1>2, <2>1, <2>2, <2>3, StepPreserves DEF VMInv
<1> QED
  BY <1>4, <1>5
\* A set of places has a last one.
LEMMA GreatestIsThere ==
  ASSUME NEW n \in Nat, NEW S, S \subseteq 1 .. n, S # {}
  PROVE  Greatest(S) \in S /\ \A y \in S : y <= Greatest(S)
<1> DEFINE T == {n - y : y \in S}
           R == OpToRel(<, Nat)
<1>1. T \subseteq Nat /\ T # {}
  <2>1. \A y \in S : n - y \in Nat
    OBVIOUS
  <2>2. PICK y \in S : TRUE
    OBVIOUS
  <2>3. n - y \in T
    BY <2>2
  <2> QED
    BY <2>1, <2>3
<1>2. PICK x \in T : \A y \in T : <<y, x>> \notin R
  <2>1. IsWellFoundedOn(R, Nat)
    BY NatLessThanWellFounded
  <2> HIDE DEF T, R
  <2> QED
    BY <1>1, <2>1, WFMin
<1>3. \A y, z \in Nat : y < z => <<y, z>> \in R
  BY DEF OpToRel
<1>4. PICK m \in S : x = n - m
  OBVIOUS
<1>5. ASSUME NEW y \in S PROVE y <= m
  <2>1. n - y \in T /\ n - y \in Nat /\ n - m \in Nat
    OBVIOUS
  <2> HIDE DEF T, R
  <2>2. ~(n - y < n - m)
    BY <1>2, <1>3, <1>4, <2>1
  <2> QED
    BY <2>1, <2>2
<1> QED
  BY <1>5 DEF Greatest
(***************************************************************************)
(* An exception resumes at a handler.  What the expression had when the    *)
(* try began is below what is left: of this activation because Has grants  *)
(* only what came after it, of a caller because its operands end where     *)
(* this activation began.                                                  *)
(***************************************************************************)
LEMMA CatchNests ==
  ASSUME NEW fs, NEW st, Nested(fs, st), NEW a \in DOMAIN fs, fs # <<>>,
         NEW n \in Nat, Spare(Top(fs), n), NEW m \in 0 .. n,
         NEW h \in DOMAIN fs[a].hs, NEW e \in Value,
         NEW g \in Frame, g.base = fs[a].base,
         g.ops = Append(fs[a].hs[h].ops, e), HandlersNest(g)
  PROVE  Nested(Append(SubSeq(fs, 1, a - 1), g), Append(Cut(st, m), e))
<1> DEFINE s2 == Append(Cut(st, m), e)
           f == fs[a]
           t == Top(fs)
<1>1. /\ fs \in Seq(Frame) /\ DOMAIN fs = 1 .. Len(fs) /\ Len(fs) \in DOMAIN fs
      /\ st \in Seq(Value) /\ Len(st) \in Nat
      /\ f \in Frame /\ HandlersNest(f)
      /\ t \in Frame /\ Len(t.base) + Len(t.ops) <= Len(st)
  <2>1. /\ fs \in Seq(Frame) /\ Len(fs) \in DOMAIN fs
        /\ st \in Seq(Value) /\ Len(st) \in Nat
        /\ t \in Frame /\ Len(t.base) + Len(t.ops) <= Len(st)
    BY TopFrame
  <2> HIDE DEF t
  <2>2. DOMAIN fs = 1 .. Len(fs) /\ f \in Frame
    BY <2>1
  <2>3. HandlersNest(f)
    BY DEF Nested
  <2> QED
    BY <2>1, <2>2, <2>3
<1>2. /\ Len(f.base) \in Nat /\ Len(f.ops) \in Nat /\ DOMAIN f.base = 1 .. Len(f.base)
      /\ Len(t.base) \in Nat /\ Len(t.ops) \in Nat
  BY <1>1, FrameLengths
<1>3. /\ f.hs[h].ops \in Seq(Value) /\ Len(f.hs[h].ops) \in Nat
      /\ Len(f.hs[h].ops) <= Len(f.ops)
  <2>1. f.hs[h].ops \in Seq(Value) /\ Len(f.hs[h].ops) \in Nat
    BY <1>1, FrameFacts
  <2> QED
    BY <1>1, <2>1 DEF HandlersNest
<1>4. n <= Len(t.ops) /\ m \in Nat /\ m <= n /\ n \in Nat
  BY DEF Spare
<1>5. Len(f.base) + Len(f.hs[h].ops) <= Len(st) - m
  <2>1. CASE a = Len(fs)
    <3>1. f = t
      BY <2>1 DEF Top
    <3>2. Len(t.hs[h].ops) <= Len(t.ops) - n
      BY <3>1 DEF Spare
    <3>3. \A b, l, o, s, x, y \in Nat :
            l <= o - x /\ y <= x /\ b + o <= s => b + l <= s - y
      OBVIOUS
    <3>4. Len(t.hs[h].ops) \in Nat
      BY <1>3, <3>1
    <3>5. Len(t.base) + Len(t.hs[h].ops) <= Len(st) - m
      <4> HIDE DEF t, f
      <4> QED
        BY ONLY <1>1, <1>2, <1>4, <3>2, <3>3, <3>4
    <3> QED
      BY <3>1, <3>5
  <2>2. CASE a # Len(fs)
    <3>1. a < Len(fs)
      BY <1>1, <2>2
    <3>2. Len(f.base) + Len(f.ops) <= Len(t.base)
      BY <1>1, <3>1 DEF Nested, Owns, Top
    <3>3. \A b, l, o, c, p, s, x, y \in Nat :
            l <= o /\ b + o <= c /\ c + p <= s /\ x <= p /\ y <= x => b + l <= s - y
      OBVIOUS
    <3> HIDE DEF t, f
    <3> QED
      BY ONLY <1>1, <1>2, <1>3, <1>4, <3>2, <3>3
  <2> QED
    BY <2>1, <2>2
<1>6. m \in 0 .. Len(st)
  <2>1. \A b, o, s, x, y \in Nat : b + o <= s /\ x <= o /\ y <= x => y <= s
    OBVIOUS
  <2>2. m <= Len(st)
    <3> HIDE DEF t, f
    <3> QED
      BY ONLY <1>1, <1>2, <1>4, <2>1
  <2> QED
    BY <1>1, <1>4, <2>2
<1>7. /\ s2 \in Seq(Value) /\ Len(s2) = Len(st) - m + 1
      /\ \A k \in 1 .. Len(st) - m : s2[k] = st[k]
  <2> DEFINE o == Cut(st, m)
  <2>1. /\ o \in Seq(Value) /\ Len(o) = Len(st) - m
        /\ \A k \in 1 .. Len(st) - m : o[k] = st[k]
    BY <1>1, <1>6, CutFacts
  <2> HIDE DEF o
  <2>2. /\ Append(o, e) \in Seq(Value) /\ Len(Append(o, e)) = Len(o) + 1
        /\ \A k \in 1 .. Len(o) : Append(o, e)[k] = o[k]
    BY ONLY <2>1, e \in Value, AppendProperties
  <2>3. \A k \in 1 .. Len(st) - m : Append(o, e)[k] = st[k]
    BY ONLY <2>1, <2>2
  <2> QED
    BY <2>1, <2>2, <2>3 DEF o
<1>8. Len(g.ops) = Len(f.hs[h].ops) + 1
  BY <1>3, AppendProperties
<1> HIDE DEF s2, f, t
<1>9. Owns(g, s2)
  <2>1. Len(g.base) = Len(f.base)
    BY DEF f
  <2>2. \A b, l, s, y \in Nat : b + l <= s - y => b + (l + 1) <= s - y + 1
    OBVIOUS
  <2>3. Len(g.base) + Len(g.ops) <= Len(s2)
    BY ONLY <1>1, <1>2, <1>3, <1>4, <1>5, <1>7, <1>8, <2>1, <2>2
  <2> QED
    BY <2>3 DEF Owns
<1>10. \A k \in DOMAIN g.base : s2[k] = st[k]
  <2>1. \A b, l, s, y \in Nat : b + l <= s - y => b <= s - y
    OBVIOUS
  <2>2. Len(f.base) <= Len(st) - m
    BY ONLY <1>1, <1>2, <1>3, <1>4, <1>5, <2>1
  <2>3. DOMAIN g.base = 1 .. Len(f.base)
    BY <1>2 DEF f
  <2>4. \A k \in DOMAIN g.base : k \in 1 .. Len(st) - m
    BY ONLY <1>1, <1>2, <1>4, <2>2, <2>3
  <2> QED
    BY ONLY <1>7, <2>4
<1>11. Nested(Append(SubSeq(fs, 1, a - 1), g), s2)
  BY <1>7, <1>9, <1>10, Resume
<1> QED
  BY <1>11 DEF s2
LEMMA VMThrow == ASSUME VMInv, Throw PROVE VMInv'
<1>1. At(CanThrow) /\ Has(Needs) /\ Quiet
  BY DEF Throw
<1>2. /\ frames # <<>> /\ F.pc \in Nat /\ Op \in CanThrow
      /\ Op \in WithOperand => I[2] \in Nat
  BY <1>1, Instruction
<1>3. CASE Catchers # {}
  <2> DEFINE a == Greatest(Catchers)
             h == Greatest(LiveHandlers(a))
             f == frames[a]
             e == Plain("any", F.pc)
             dead == [f.hs[h] EXCEPT !.live = FALSE]
             hs2 == Append(SubSeq(f.hs, 1, h - 1), dead)
             g == [f EXCEPT !.pc = f.hs[h].catch, !.hs = hs2,
                            !.ops = Append(f.hs[h].ops, e)]
  <2>1. /\ stack' = Append(Cut(stack, Taken), e)
        /\ frames' = Append(SubSeq(frames, 1, a - 1), g)
    BY <1>3 DEF Throw, Catch
  <2>2. /\ frames \in Seq(Frame) /\ Len(frames) \in Nat /\ DOMAIN frames = 1 .. Len(frames)
        /\ Nested(frames, stack) /\ F = Top(frames)
    BY <1>2, Current DEF VMInv
  <2>3. a \in Catchers
    <3>1. Catchers \subseteq 1 .. Len(frames)
      BY <2>2 DEF Catchers
    <3> QED
      BY <1>3, <2>2, <3>1, GreatestIsThere
  <2> HIDE DEF a
  <2>4. a \in DOMAIN frames /\ f \in Frame /\ HandlersNest(f) /\ LiveHandlers(a) # {}
    BY <2>2, <2>3 DEF Catchers, Nested
  <2>5. /\ f.hs \in Seq(Handler) /\ Len(f.hs) \in Nat /\ DOMAIN f.hs = 1 .. Len(f.hs)
        /\ f.ops \in Seq(Value)
    BY <2>4, FrameFacts
  <2>6. h \in LiveHandlers(a)
    <3>1. LiveHandlers(a) \subseteq 1 .. Len(f.hs)
      BY <2>5 DEF LiveHandlers
    <3> QED
      BY <2>4, <2>5, <3>1, GreatestIsThere
  <2> HIDE DEF h
  <2>7. h \in DOMAIN f.hs /\ f.hs[h] \in Handler /\ h \in 1 .. Len(f.hs)
    BY <2>5, <2>6 DEF LiveHandlers
  <2>8. /\ f.hs[h].catch \in Nat /\ f.hs[h].ops \in Seq(Value)
        /\ dead \in Handler /\ dead.ops = f.hs[h].ops
    BY <2>7 DEF Handler
  <2>9. e \in Value
    BY <1>2, ValueFacts DEF Kinds
  <2> HIDE DEF dead, e
  <2>10. Append(f.hs[h].ops, e) \in Seq(Value)
         /\ Len(Append(f.hs[h].ops, e)) = Len(f.hs[h].ops) + 1
    BY <2>8, <2>9, AppendProperties
  <2>11. /\ SubSeq(f.hs, 1, h - 1) \in Seq(Handler) /\ Len(SubSeq(f.hs, 1, h - 1)) = h - 1
         /\ \A k \in 1 .. h - 1 : SubSeq(f.hs, 1, h - 1)[k] = f.hs[k]
    BY <2>5, <2>7, SubSeqProperties
  <2>12. /\ hs2 \in Seq(Handler) /\ DOMAIN hs2 = 1 .. h /\ hs2[h] = dead
         /\ \A k \in 1 .. h - 1 : hs2[k] = f.hs[k]
    <3> DEFINE inner == SubSeq(f.hs, 1, h - 1)
    <3>1. /\ inner \in Seq(Handler) /\ Len(inner) = h - 1 /\ h \in Nat
          /\ \A k \in 1 .. h - 1 : inner[k] = f.hs[k]
      BY <2>5, <2>7, <2>11
    <3> HIDE DEF inner
    <3>2. /\ Append(inner, dead) \in Seq(Handler)
          /\ Len(Append(inner, dead)) = Len(inner) + 1
          /\ \A k \in 1 .. Len(inner) : Append(inner, dead)[k] = inner[k]
          /\ Append(inner, dead)[Len(inner) + 1] = dead
      BY ONLY <2>8, <3>1, AppendProperties
    <3>3. Len(inner) + 1 = h
      BY ONLY <3>1
    <3> QED
      BY <3>1, <3>2, <3>3 DEF inner
  <2> HIDE DEF hs2
  <2>13. /\ g \in Frame /\ g.base = f.base /\ g.hs = hs2
         /\ g.ops = Append(f.hs[h].ops, e)
    BY <2>4, <2>8, <2>10, <2>12 DEF Frame
  <2> HIDE DEF g
  <2>14. HandlersNest(g)
    <3>1. \A k \in 1 .. h : g.hs[k].ops = f.hs[k].ops
      <4>1. ASSUME NEW k \in 1 .. h PROVE g.hs[k].ops = f.hs[k].ops
        <5>1. CASE k = h
          BY <2>8, <2>12, <2>13, <5>1
        <5>2. CASE k # h
          <6>1. k \in 1 .. h - 1
            BY <2>7, <5>2
          <6> QED
            BY <2>12, <2>13, <6>1
        <5> QED
          BY <5>1, <5>2
      <4> QED
        BY <4>1
    <3>2. DOMAIN g.hs = 1 .. h
      BY <2>12, <2>13
    <3>3. \A k \in 1 .. h : \A m \in 1 .. k : m \in 1 .. h /\ k \in DOMAIN f.hs /\ m \in DOMAIN f.hs
      BY <2>5, <2>7
    <3>4. \A k \in 1 .. h : \A m \in 1 .. k : Len(f.hs[m].ops) <= Len(f.hs[k].ops)
      BY <2>4, <3>3 DEF HandlersNest
    <3>5. \A k \in 1 .. h : Len(f.hs[k].ops) <= Len(f.hs[h].ops) /\ Len(f.hs[k].ops) \in Nat
      <4>1. \A k \in 1 .. h : Len(f.hs[k].ops) <= Len(f.hs[h].ops)
        BY <2>4, <2>7 DEF HandlersNest
      <4>2. \A k \in 1 .. h : Len(f.hs[k].ops) \in Nat
        BY <2>4, <2>5, <2>7, FrameFacts
      <4> QED
        BY <4>1, <4>2
    <3>6. Len(g.ops) = Len(f.hs[h].ops) + 1 /\ Len(f.hs[h].ops) \in Nat
      BY <2>8, <2>10, <2>13
    <3>7. \A k \in 1 .. h : Len(g.hs[k].ops) <= Len(g.ops)
      <4>1. \A x, l \in Nat : x <= l => x <= l + 1
        OBVIOUS
      <4>2. \A k \in 1 .. h : Len(f.hs[k].ops) <= Len(g.ops)
        BY ONLY <3>5, <3>6, <4>1
      <4> QED
        BY ONLY <3>1, <4>2
    <3>8. \A k \in 1 .. h : \A m \in 1 .. k : Len(g.hs[m].ops) <= Len(g.hs[k].ops)
      BY ONLY <3>1, <3>3, <3>4
    <3> QED
      BY ONLY <3>2, <3>7, <3>8 DEF HandlersNest
  <2>15. Needs \in Nat /\ Spare(Top(frames), Needs) /\ Taken \in 0 .. Needs
    <3>1. Needs \in Nat /\ Taken \in Nat /\ Taken <= Needs
      BY <1>2, TakesWhatItNeeds
    <3>2. Spare(F, Needs)
      BY <1>1, <1>2, <3>1, Granted
    <3> QED
      BY <2>2, <3>1, <3>2
  <2>16. Nested(Append(SubSeq(frames, 1, a - 1), g), Append(Cut(stack, Taken), e))
    BY <1>2, <2>2, <2>4, <2>7, <2>9, <2>13, <2>14, <2>15, CatchNests DEF f
  <2>17. Nested(frames', stack')
    BY <2>1, <2>16 DEF g, hs2, dead, e, h
  <2> QED
    BY <1>1, <1>2, <2>17, StepPreserves DEF Quiet, VMInv
<1>4. CASE ~(Catchers # {})
  <2>1. frames' = <<>> /\ stack' = <<>>
    BY <1>4 DEF Throw
  <2>2. Nested(frames', stack')
    BY <2>1, NothingNests
  <2> QED
    BY <1>1, <1>2, <2>2, StepPreserves DEF Quiet, VMInv
<1> QED
  BY <1>3, <1>4
-----------------------------------------------------------------------------
(* The host, and the specification *)

LEMMA VMHostCalls == ASSUME VMInv, HostCalls PROVE VMInv'
<1>1. PICK c \in given :
        /\ scopes' = Append(scopes, Called(c, [s \in 1 .. c.arity |-> Plain("any", c.n)]))
        /\ frames' = <<Activation(c.n, Len(scopes) + 1, <<>>)>>
  BY DEF HostCalls
<1>2. frames = <<>> /\ stack' = <<>> /\ calls' = calls + 1 /\ calls < MaxCalls
      /\ UNCHANGED <<img, given>>
  BY DEF HostCalls
<1>3. c \in Value /\ c.n \in Nat /\ Plain("any", c.n) \in Value
  <2>1. c \in Value
    BY DEF VMInv
  <2> QED
    BY <2>1, ValueFacts DEF Kinds
<1>4. scopes \in Seq(ScopeObject) /\ Len(scopes) + 1 \in Nat
  BY DEF VMInv
<1>5. scopes' \in Seq(ScopeObject)
  <2> DEFINE args == [s \in 1 .. c.arity |-> Plain("any", c.n)]
  <2>1. \A k \in DOMAIN args : args[k] \in Value
    BY <1>3
  <2>2. scopes' = Append(scopes, Called(c, args))
    BY <1>1
  <2> HIDE DEF args
  <2>3. Called(c, args) \in ScopeObject
    BY <1>3, <2>1, CalledIsScope
  <2> QED
    BY <1>4, <2>2, <2>3, AppendProperties
<1>6. Nested(frames', stack')
  <2> DEFINE g == Activation(c.n, Len(scopes) + 1, <<>>)
  <2>1. Nested(Append(<<>>, g), <<>>)
    BY <1>3, <1>4, NothingNests, Begin
  <2>2. frames' = <<g>>
    BY <1>1
  <2> HIDE DEF g
  <2>3. Append(<<>>, g) = <<g>>
    OBVIOUS
  <2> QED
    BY <1>2, <2>1, <2>2, <2>3
<1>7. calls' \in 0 .. MaxCalls
  BY <1>2, BoundsAssumption DEF VMInv
<1> QED
  BY <1>2, <1>5, <1>6, <1>7 DEF VMInv, Nested

LEMMA VMInit == Init => VMInv
<1> SUFFICES ASSUME Init PROVE VMInv
  OBVIOUS
<1>1. img \in Images /\ scopes = img.scopes /\ given = img.given
      /\ frames = <<>> /\ stack = <<>> /\ calls = 0
  BY DEF Init
<1>2. img.scopes \in Seq(ScopeObject) /\ img.given \subseteq Value
  BY <1>1, ImagesAssumption DEF ScopeObject
<1>3. 0 \in 0 .. MaxCalls
  BY BoundsAssumption
<1> QED
  BY <1>1, <1>2, <1>3, NothingNests DEF VMInv

LEMMA VMNext == VMInv /\ [Next]_vars => VMInv'
<1> SUFFICES ASSUME VMInv, [Next]_vars PROVE VMInv'
  OBVIOUS
<1>1. CASE Execute
  BY <1>1, VMPushConstant, VMMakeArray, VMCompute, VMLoad, VMStore, VMPushRef,
     VMWrite, VMMakeClosure, VMJump, VMBranch, VMPop, VMDup, VMForIn, VMNextKey,
     VMEnterTry, VMSetExit, VMLeaveTry, VMCallInline, VMCallHost, VMReturn, VMThrow
  DEF Execute
<1>2. CASE HostCalls
  BY <1>2, VMHostCalls
<1>3. CASE Finished \/ UNCHANGED vars
  <2>1. UNCHANGED vars
    BY <1>3 DEF Finished
  <2> QED
    BY <2>1 DEF vars, VMInv, Nested
<1> QED
  BY <1>1, <1>2, <1>3 DEF Next

LEMMA VMAlways == FairSpec => []VMInv
BY VMInit, VMNext, PTL DEF FairSpec, Spec

(* The interpreter's registers stay of their types in every program.       *)
THEOREM VMTypeCorrect == FairSpec => []TypeOK
<1>1. VMInv => TypeOK
  BY DEF VMInv, TypeOK, Nested, ScopeObject
<1> QED
  BY VMAlways, <1>1, PTL

(***************************************************************************)
(* Activations share one array and nobody resets its top, and still none   *)
(* touches the operands of those that wait for it: in every well-formed    *)
(* program, after any number of exceptions thrown in the middle of an      *)
(* expression.                                                             *)
(***************************************************************************)
THEOREM OperandsOfCallersStay == FairSpec => []CallersOperandsStay
<1>1. VMInv => CallersOperandsStay
  BY DEF VMInv, Nested, CallersOperandsStay
<1> QED
  BY VMAlways, <1>1, PTL

-----------------------------------------------------------------------------
(***************************************************************************)
(* Verified programs.  What a shape says of the array: the kinds of its    *)
(* topmost values, and that every closure anywhere begins at an entry.     *)
(***************************************************************************)
IsA(m, v, kind) ==
  /\ kind \in {"entry", "data"} => v.kind # "fn"
  /\ kind = "entry" => v.n \in Entries(m)
Opens(m, v) == v.n \in Entries(m)
Known(m, v) == v.kind = "fn" => Opens(m, v)
Showing(m, st, kinds) ==
  \A j \in DOMAIN kinds : IsA(m, st[Len(st) - Len(kinds) + j], kinds[j])

\* A handler remembers no operands, its catch body finds the exception and
\* nothing else, and its statement ends where one try fewer is open.
HandlersShaped(m, hs) ==
  \A h \in DOMAIN hs :
    /\ hs[h].ops = <<>>
    /\ hs[h].catch \in DOMAIN Typing[m]
    /\ Typing[m][hs[h].catch].tries = h
    /\ Len(Typing[m][hs[h].catch].kinds) = 1
    /\ Typing[m][hs[h].catch].kinds[1] # "entry"
ExitsShaped(m, hs, n) ==
  \A h \in 1 .. n : /\ hs[h].exit \in DOMAIN Typing[m]
                    /\ Typing[m][hs[h].exit].tries = h - 1
                    /\ Typing[m][hs[h].exit].kinds = <<>>

\* An activation that waits for a result, and the one that runs.
Waiting(m, f) ==
  /\ f.pc \in DOMAIN Typing[m]
  /\ Len(f.hs) = Typing[m][f.pc].tries
  /\ Len(f.ops) + 1 = Len(Typing[m][f.pc].kinds)
  /\ \A j \in DOMAIN Typing[m][f.pc].kinds : Typing[m][f.pc].kinds[j] = "anything"
  /\ HandlersShaped(m, f.hs) /\ ExitsShaped(m, f.hs, Len(f.hs))
Unset(m, f) == IF OpAt(m, f.pc) = 61 THEN 1 ELSE 0
Running(m, f, st) ==
  /\ f.pc \in DOMAIN Typing[m]
  /\ Len(f.hs) = Typing[m][f.pc].tries
  /\ Len(f.ops) = Len(Typing[m][f.pc].kinds)
  /\ Showing(m, st, Typing[m][f.pc].kinds)
  /\ HandlersShaped(m, f.hs) /\ ExitsShaped(m, f.hs, Len(f.hs) - Unset(m, f))
Shaped(m, fs, st) ==
  /\ fs # <<>> => Running(m, Top(fs), st)
  /\ \A a \in DOMAIN fs : a # Len(fs) => Waiting(m, fs[a])

KnownIn(m, s) == \A k \in DOMAIN s : Known(m, s[k])
KnownScopes(m, ss) == \A id \in DOMAIN ss : \A s \in Slots : Known(m, ss[id].slots[s])
KnownValues ==
  /\ KnownIn(img, stack)
  /\ KnownScopes(img, scopes)
  /\ \A v \in given : Opens(img, v)
ShapesHold == KnownValues /\ Shaped(img, frames, stack)

\* What the verifier has checked of an instruction that is reached.
LEMMA Checked ==
  ASSUME NEW m \in Images, NEW k \in DOMAIN Typing[m]
  PROVE  /\ k \in DOMAIN m.code
         /\ Typing[m][k].tries \in Nat
         /\ Typing[m][k].kinds \in Seq(OperandKinds)
         /\ Wants(m, k) <= Len(Typing[m][k].kinds)
         /\ WellPlaced(m, k, Typing[m][k])
         /\ \A e \in Edges(m, k, Typing[m][k]) :
              e.to \in DOMAIN Typing[m] /\ Fits(e, Typing[m][e.to])
BY VerifiedAssumption DEF Verified

LEMMA EntriesAreChecked ==
  ASSUME NEW m \in Images, NEW n \in Entries(m)
  PROVE  n \in DOMAIN Typing[m] /\ Typing[m][n] = Start
BY VerifiedAssumption DEF Verified

LEMMA FittingKinds ==
  ASSUME NEW m, NEW v, NEW a, NEW b, IsA(m, v, a), FitsKind(a, b)
  PROVE  IsA(m, v, b)
BY DEF IsA, FitsKind

\* A shape that another fits says no more of the array.
LEMMA FittingShows ==
  ASSUME NEW m, NEW st, NEW e, NEW s, Fits(e, s),
         e.kinds \in Seq(OperandKinds), s.kinds \in Seq(OperandKinds),
         Showing(m, st, e.kinds)
  PROVE  Showing(m, st, s.kinds)
<1>1. Len(e.kinds) = Len(s.kinds) /\ DOMAIN e.kinds = DOMAIN s.kinds
  BY DEF Fits
<1>2. ASSUME NEW j \in DOMAIN s.kinds
      PROVE  IsA(m, st[Len(st) - Len(s.kinds) + j], s.kinds[j])
  <2>1. FitsKind(e.kinds[j], s.kinds[j])
    BY <1>2 DEF Fits
  <2>2. IsA(m, st[Len(st) - Len(s.kinds) + j], e.kinds[j])
    BY <1>1, <1>2 DEF Showing
  <2> QED
    BY <2>1, <2>2, FittingKinds
<1> QED
  BY <1>2 DEF Showing

LEMMA CutShows ==
  ASSUME NEW m, NEW st \in Seq(Value), NEW kinds \in Seq(OperandKinds),
         Len(kinds) <= Len(st), NEW n \in 0 .. Len(kinds), Showing(m, st, kinds)
  PROVE  Showing(m, Cut(st, n), Cut(kinds, n))
<1>1. n \in 0 .. Len(st) /\ Len(st) \in Nat /\ Len(kinds) \in Nat /\ n \in Nat
  OBVIOUS
<1>2. /\ Cut(st, n) \in Seq(Value) /\ Len(Cut(st, n)) = Len(st) - n
      /\ \A k \in 1 .. Len(st) - n : Cut(st, n)[k] = st[k]
  BY <1>1, CutFacts
<1>3. /\ Cut(kinds, n) \in Seq(OperandKinds) /\ Len(Cut(kinds, n)) = Len(kinds) - n
      /\ \A k \in 1 .. Len(kinds) - n : Cut(kinds, n)[k] = kinds[k]
  BY CutFacts
<1>4. ASSUME NEW j \in DOMAIN Cut(kinds, n)
      PROVE  IsA(m, Cut(st, n)[Len(Cut(st, n)) - Len(Cut(kinds, n)) + j], Cut(kinds, n)[j])
  <2> DEFINE p == Len(st) - Len(kinds) + j
  <2>1. j \in 1 .. Len(kinds) - n /\ j \in DOMAIN kinds
    BY <1>1, <1>3, <1>4
  <2>2. p \in 1 .. Len(st) - n /\ Len(Cut(st, n)) - Len(Cut(kinds, n)) + j = p
    BY <1>1, <1>2, <1>3, <2>1
  <2>3. IsA(m, st[p], kinds[j])
    BY <2>1 DEF Showing
  <2>4. Cut(st, n)[p] = st[p] /\ Cut(kinds, n)[j] = kinds[j]
    BY <1>2, <1>3, <2>1, <2>2
  <2> QED
    BY <2>2, <2>3, <2>4
<1> QED
  BY <1>4 DEF Showing

LEMMA PushShows ==
  ASSUME NEW m, NEW st \in Seq(Value), NEW kinds \in Seq(OperandKinds),
         Len(kinds) <= Len(st), Showing(m, st, kinds),
         NEW new \in Seq(Value), NEW gives \in Seq(OperandKinds),
         Len(new) = Len(gives), Showing(m, new, gives)
  PROVE  Showing(m, st \o new, kinds \o gives)
<1>1. /\ Len(st) \in Nat /\ Len(kinds) \in Nat /\ Len(new) \in Nat
      /\ DOMAIN gives = 1 .. Len(new)
  OBVIOUS
<1>2. /\ st \o new \in Seq(Value) /\ Len(st \o new) = Len(st) + Len(new)
      /\ \A i \in 1 .. Len(st) + Len(new) :
           (st \o new)[i] = IF i <= Len(st) THEN st[i] ELSE new[i - Len(st)]
  BY ConcatProperties
<1>3. /\ kinds \o gives \in Seq(OperandKinds)
      /\ Len(kinds \o gives) = Len(kinds) + Len(new)
      /\ \A i \in 1 .. Len(kinds) + Len(new) :
           (kinds \o gives)[i] = IF i <= Len(kinds) THEN kinds[i] ELSE gives[i - Len(kinds)]
  BY ConcatProperties
<1>4. ASSUME NEW j \in DOMAIN (kinds \o gives)
      PROVE  IsA(m, (st \o new)[Len(st \o new) - Len(kinds \o gives) + j],
                 (kinds \o gives)[j])
  <2> DEFINE p == Len(st) - Len(kinds) + j
  <2>1. j \in 1 .. Len(kinds) + Len(new)
    BY <1>3, <1>4
  <2>2. p \in 1 .. Len(st) + Len(new) /\ Len(st \o new) - Len(kinds \o gives) + j = p
    BY <1>1, <1>2, <1>3, <2>1
  <2>3. CASE j <= Len(kinds)
    <3>1. j \in DOMAIN kinds /\ p <= Len(st)
      BY <1>1, <2>1, <2>3
    <3>2. IsA(m, st[p], kinds[j])
      BY <3>1 DEF Showing
    <3>3. (st \o new)[p] = st[p] /\ (kinds \o gives)[j] = kinds[j]
      BY <1>2, <1>3, <2>1, <2>2, <2>3, <3>1
    <3> QED
      BY <2>2, <3>2, <3>3
  <2>4. CASE ~(j <= Len(kinds))
    <3> DEFINE i == j - Len(kinds)
    <3>1. /\ i \in DOMAIN gives /\ ~(p <= Len(st)) /\ p - Len(st) = i
          /\ Len(new) - Len(gives) + i = i
      BY <1>1, <2>1, <2>4
    <3>2. IsA(m, new[i], gives[i])
      BY <3>1 DEF Showing
    <3>3. (st \o new)[p] = new[i] /\ (kinds \o gives)[j] = gives[i]
      BY <1>2, <1>3, <2>1, <2>2, <2>4, <3>1
    <3> QED
      BY <2>2, <3>2, <3>3
  <2> QED
    BY <2>3, <2>4
<1> QED
  BY <1>4 DEF Showing

\* The activation that goes on, and those below it.
LEMMA ShapedResume ==
  ASSUME NEW m, NEW fs \in Seq(Frame), NEW st, Shaped(m, fs, st),
         NEW a \in DOMAIN fs, NEW g \in Frame, NEW s2, Running(m, g, s2)
  PROVE  Shaped(m, Append(SubSeq(fs, 1, a - 1), g), s2)
<1> DEFINE below == SubSeq(fs, 1, a - 1)
           rs == Append(below, g)
<1>1. a \in Nat /\ a \in 1 .. Len(fs) /\ Len(fs) \in Nat
  OBVIOUS
<1>2. /\ below \in Seq(Frame) /\ Len(below) = a - 1
      /\ \A k \in 1 .. a - 1 : below[k] = fs[k]
  BY <1>1, SubSeqProperties
<1> HIDE DEF below
<1>3. /\ rs \in Seq(Frame) /\ Len(rs) = a /\ DOMAIN rs = 1 .. a /\ rs[a] = g
      /\ \A k \in 1 .. a - 1 : rs[k] = fs[k]
  <2>1. /\ rs \in Seq(Frame) /\ Len(rs) = Len(below) + 1
        /\ rs[Len(below) + 1] = g
        /\ \A k \in 1 .. Len(below) : rs[k] = below[k]
    BY <1>2, AppendProperties
  <2> QED
    BY <1>1, <1>2, <2>1
<1> HIDE DEF rs
<1>4. Running(m, Top(rs), s2)
  BY <1>3 DEF Top
<1>5. ASSUME NEW k \in DOMAIN rs, k # Len(rs) PROVE Waiting(m, rs[k])
  <2>1. k \in 1 .. a - 1 /\ k \in DOMAIN fs /\ k # Len(fs)
    BY <1>1, <1>3, <1>5
  <2> QED
    BY <1>3, <2>1 DEF Shaped
<1> QED
  BY <1>4, <1>5 DEF Shaped, rs, below

LEMMA ShapedGoesOn ==
  ASSUME NEW m, NEW fs \in Seq(Frame), fs # <<>>, NEW st, Shaped(m, fs, st),
         NEW g \in Frame, NEW s2, Running(m, g, s2)
  PROVE  Shaped(m, [fs EXCEPT ![Len(fs)] = g], s2)
<1>1. Len(fs) \in DOMAIN fs
  OBVIOUS
<1>2. Shaped(m, Append(SubSeq(fs, 1, Len(fs) - 1), g), s2)
  BY <1>1, ShapedResume
<1> QED
  BY <1>2, ReplaceTop

\* What is known where an activation runs.
LEMMA Here ==
  ASSUME VMInv, ShapesHold, frames # <<>>
  PROVE  /\ img \in Images /\ F.pc \in DOMAIN Typing[img] /\ F.pc \in DOMAIN img.code
         /\ Op = OpAt(img, F.pc) /\ I = img.code[F.pc]
         /\ Running(img, F, stack)
         /\ Typing[img][F.pc].tries \in Nat
         /\ Typing[img][F.pc].kinds \in Seq(OperandKinds)
         /\ Len(F.ops) = Len(Typing[img][F.pc].kinds)
         /\ Len(F.hs) = Typing[img][F.pc].tries
         /\ Wants(img, F.pc) <= Len(F.ops)
         /\ WellPlaced(img, F.pc, Typing[img][F.pc])
<1>1. Running(img, F, stack) /\ img \in Images
  BY Current DEF ShapesHold, Shaped, VMInv
<1>2. F.pc \in DOMAIN Typing[img]
  BY <1>1 DEF Running
<1> QED
  BY <1>1, <1>2, Checked DEF Running, Op, I, OpAt

\* With no operands remembered by a handler, an activation owns all it has.
LEMMA OwnsAll ==
  ASSUME VMInv, ShapesHold, frames # <<>>
  PROVE  Own = Len(F.ops)
<1>1. F.hs \in Seq(Handler) /\ HandlersShaped(img, F.hs) /\ Len(F.ops) \in Nat
  BY Here, Current DEF Running
<1>2. CASE F.hs = <<>>
  BY <1>1, <1>2 DEF Own
<1>3. CASE F.hs # <<>>
  <2>1. Len(F.hs) \in DOMAIN F.hs
    BY <1>1, <1>3
  <2>2. F.hs[Len(F.hs)].ops = <<>>
    BY <1>1, <2>1 DEF HandlersShaped
  <2> QED
    BY <1>1, <1>3, <2>2 DEF Own
<1> QED
  BY <1>2, <1>3

LEMMA KnownConcat ==
  ASSUME NEW m, NEW s \in Seq(Value), NEW t \in Seq(Value),
         KnownIn(m, s), KnownIn(m, t)
  PROVE  KnownIn(m, s \o t)
<1>1. /\ Len(s \o t) = Len(s) + Len(t) /\ s \o t \in Seq(Value)
      /\ Len(s) \in Nat /\ Len(t) \in Nat
      /\ \A i \in 1 .. Len(s) + Len(t) :
           (s \o t)[i] = IF i <= Len(s) THEN s[i] ELSE t[i - Len(s)]
  BY ConcatProperties
<1>2. ASSUME NEW k \in DOMAIN (s \o t) PROVE Known(m, (s \o t)[k])
  <2>1. k \in 1 .. Len(s) + Len(t)
    BY <1>1
  <2>2. CASE k <= Len(s)
    <3>1. k \in DOMAIN s
      BY <1>1, <2>1, <2>2
    <3> QED
      BY <1>1, <2>1, <2>2, <3>1 DEF KnownIn
  <2>3. CASE ~(k <= Len(s))
    <3>1. k - Len(s) \in DOMAIN t
      BY <1>1, <2>1, <2>3
    <3> QED
      BY <1>1, <2>1, <2>3, <3>1 DEF KnownIn
  <2> QED
    BY <2>2, <2>3
<1> QED
  BY <1>2 DEF KnownIn

LEMMA KnownCut ==
  ASSUME NEW m, NEW s \in Seq(Value), NEW n \in 0 .. Len(s), KnownIn(m, s)
  PROVE  KnownIn(m, Cut(s, n))
<1>1. /\ Cut(s, n) \in Seq(Value) /\ Len(Cut(s, n)) = Len(s) - n
      /\ \A k \in 1 .. Len(s) - n : Cut(s, n)[k] = s[k]
  BY CutFacts
<1>2. \A k \in DOMAIN Cut(s, n) : k \in 1 .. Len(s) - n /\ k \in DOMAIN s
  BY <1>1
<1> QED
  BY <1>1, <1>2 DEF KnownIn

LEMMA KnownOne ==
  ASSUME NEW m, NEW v, Known(m, v) PROVE KnownIn(m, <<v>>)
BY DEF KnownIn

LEMMA KnownNone == \A m : KnownIn(m, <<>>)
BY DEF KnownIn

\* Values that are no closures.
LEMMA PlainIsKnown ==
  ASSUME NEW m, NEW k, NEW n, k # "fn"
  PROVE  Known(m, Plain(k, n)) /\ IsA(m, Plain(k, n), "data")
BY DEF Known, IsA, Plain

LEMMA NilIsKnown == \A m : Known(m, Nil) /\ IsA(m, Nil, "data")
BY PlainIsKnown DEF Nil

LEMMA ShowsOne ==
  ASSUME NEW m, NEW v, NEW kind, IsA(m, v, kind)
  PROVE  Showing(m, <<v>>, <<kind>>)
BY DEF Showing

LEMMA ShowsNone == \A m : Showing(m, <<>>, <<>>)
BY DEF Showing

\* The operands that an instruction has on top are known.
LEMMA TopIsKnown ==
  ASSUME VMInv, ShapesHold, frames # <<>>
  PROVE  /\ \A n \in Nat : Has(n) => \A k \in 1 .. n : Known(img, Nth(k))
         /\ \A k \in 1 .. Len(stack) : Known(img, Nth(k))
<1>1. stack \in Seq(Value) /\ Len(stack) \in Nat
  BY Current
<1>2. \A k \in 1 .. Len(stack) : Len(stack) + 1 - k \in DOMAIN stack
  BY <1>1
<1>3. \A k \in 1 .. Len(stack) : Known(img, Nth(k))
  BY <1>2 DEF ShapesHold, KnownValues, KnownIn, Nth
<1>4. \A n \in Nat : Has(n) => n <= Len(stack)
  BY Granted
<1> QED
  BY <1>1, <1>3, <1>4

\* Where the instructions go on, one group at a time.
LEMMA ConstantEdges ==
  ASSUME NEW m, NEW k, NEW s, OpAt(m, k) \in Constants
  PROVE  Edges(m, k, s) =
           {Edge(s, k + 1, 0, IF OpAt(m, k) \in {3, 4, 5} /\ m.code[k][2] \in Entries(m)
                              THEN <<"entry">> ELSE <<"data">>)}
<1>1. /\ OpAt(m, k) \notin Computes
      /\ OpAt(m, k) \notin {12, 14, 17, 20, 21, 22, 23, 51, 52, 53, 59, 60, 61, 62,
                          67, 68, 69, 71, 72, 73, 74, 75, 76}
  BY DEF Constants, Computes, Reads, Coercions, Tests, Pure
<1> QED
  BY <1>1 DEF Edges

LEMMA ArrayEdge ==
  ASSUME NEW m, NEW k, NEW s, OpAt(m, k) = 12
  PROVE  Edges(m, k, s) = {Edge(s, k + 1, m.code[k][2], <<"data">>)}
BY DEF Edges, Constants, Computes, Reads, Coercions, Tests, Pure

LEMMA ComputeEdge ==
  ASSUME NEW m, NEW k, NEW s, OpAt(m, k) \in Computes
  PROVE  Edges(m, k, s) = {Edge(s, k + 1, Arity(OpAt(m, k)), <<"data">>)}
<1>1. /\ OpAt(m, k) \notin Constants
      /\ OpAt(m, k) \notin {12, 14, 17, 20, 21, 22, 23, 51, 52, 53, 59, 60, 61, 62,
                          67, 68, 69, 71, 72, 73, 74, 75, 76}
  BY DEF Constants, Computes, Reads, Coercions, Tests, Pure
<1> QED
  BY <1>1 DEF Edges

LEMMA LoadEdge ==
  ASSUME NEW m, NEW k, NEW s, OpAt(m, k) = 17
  PROVE  Edges(m, k, s) = {Edge(s, k + 1, 0, <<"anything">>)}
BY DEF Edges, Constants, Computes, Reads, Coercions, Tests, Pure

LEMMA PushRefEdge ==
  ASSUME NEW m, NEW k, NEW s, OpAt(m, k) = 23
  PROVE  Edges(m, k, s) = {Edge(s, k + 1, 0, <<"data", "data">>)}
BY DEF Edges, Constants, Computes, Reads, Coercions, Tests, Pure

LEMMA PopEdge ==
  ASSUME NEW m, NEW k, NEW s, OpAt(m, k) \in {14, 20, 73, 75}
  PROVE  Edges(m, k, s) = {Edge(s, k + 1, 1, <<>>)}
<1>1. OpAt(m, k) \notin Constants /\ OpAt(m, k) \notin Computes
  BY DEF Constants, Computes, Reads, Coercions, Tests, Pure
<1>2. CASE OpAt(m, k) = 14
  BY <1>1, <1>2 DEF Edges
<1>3. CASE OpAt(m, k) = 20
  BY <1>1, <1>3 DEF Edges
<1>4. CASE OpAt(m, k) = 73
  BY <1>1, <1>4 DEF Edges
<1>5. CASE OpAt(m, k) = 75
  BY <1>1, <1>5 DEF Edges
<1> QED
  BY <1>2, <1>3, <1>4, <1>5

LEMMA PopTwoEdge ==
  ASSUME NEW m, NEW k, NEW s, OpAt(m, k) \in {21, 53}
  PROVE  Edges(m, k, s) = {Edge(s, k + 1, 2, <<>>)}
<1>1. OpAt(m, k) \notin Constants /\ OpAt(m, k) \notin Computes
  BY DEF Constants, Computes, Reads, Coercions, Tests, Pure
<1> QED
  BY <1>1 DEF Edges

LEMMA PopThreeEdge ==
  ASSUME NEW m, NEW k, NEW s, OpAt(m, k) = 22
  PROVE  Edges(m, k, s) = {Edge(s, k + 1, 3, <<>>)}
BY DEF Edges, Constants, Computes, Reads, Coercions, Tests, Pure

LEMMA ClosureEdge ==
  ASSUME NEW m, NEW k, NEW s, OpAt(m, k) \in {59, 60}
  PROVE  Edges(m, k, s) = {Edge(s, k + 1, 1, <<"anything">>)}
<1>1. OpAt(m, k) \notin Constants /\ OpAt(m, k) \notin Computes
  BY DEF Constants, Computes, Reads, Coercions, Tests, Pure
<1> QED
  BY <1>1 DEF Edges

LEMMA DupEdge ==
  ASSUME NEW m, NEW k, NEW s, OpAt(m, k) = 74
  PROVE  Edges(m, k, s) = {Edge(s, k + 1, 0, <<s.kinds[Len(s.kinds)]>>)}
BY DEF Edges, Constants, Computes, Reads, Coercions, Tests, Pure

LEMMA NextKeyEdge ==
  ASSUME NEW m, NEW k, NEW s, OpAt(m, k) = 76
  PROVE  Edges(m, k, s) = {Edge(s, k + 1, 2, <<"data">>)}
BY DEF Edges, Constants, Computes, Reads, Coercions, Tests, Pure

LEMMA HostCallEdge ==
  ASSUME NEW m, NEW k, NEW s, OpAt(m, k) = 68
  PROVE  Edges(m, k, s) = {Edge(s, k + 1, m.code[k][2] + 1, <<"data">>)}
BY DEF Edges, Constants, Computes, Reads, Coercions, Tests, Pure

LEMMA JumpEdge ==
  ASSUME NEW m, NEW k, NEW s, OpAt(m, k) = 69
  PROVE  Edges(m, k, s) = {Edge(s, m.code[k][2], 0, <<>>)}
BY DEF Edges, Constants, Computes, Reads, Coercions, Tests, Pure

LEMMA AndOrEdges ==
  ASSUME NEW m, NEW k, NEW s, OpAt(m, k) \in {51, 52}
  PROVE  Edges(m, k, s) = {Edge(s, k + 1, 1, <<>>), Edge(s, m.code[k][2], 0, <<>>)}
<1>1. OpAt(m, k) \notin Constants /\ OpAt(m, k) \notin Computes
  BY DEF Constants, Computes, Reads, Coercions, Tests, Pure
<1> QED
  BY <1>1 DEF Edges

LEMMA IfNotEdges ==
  ASSUME NEW m, NEW k, NEW s, OpAt(m, k) = 71
  PROVE  Edges(m, k, s) = {Edge(s, k + 1, 1, <<>>), Edge(s, m.code[k][2], 1, <<>>)}
BY DEF Edges, Constants, Computes, Reads, Coercions, Tests, Pure

LEMMA CaseEdges ==
  ASSUME NEW m, NEW k, NEW s, OpAt(m, k) = 72
  PROVE  Edges(m, k, s) = {Edge(s, k + 1, 1, <<>>), Edge(s, m.code[k][2], 2, <<>>)}
BY DEF Edges, Constants, Computes, Reads, Coercions, Tests, Pure

LEMMA CallEdge ==
  ASSUME NEW m, NEW k, NEW s, OpAt(m, k) = 67
  PROVE  Edges(m, k, s) =
           {IF MayInline(m, k, s) THEN AfterCall(s, k + 1, m.code[k][2] + 2)
            ELSE Edge(s, k + 1, m.code[k][2] + 2, <<"data">>)}
BY DEF Edges, Constants, Computes, Reads, Coercions, Tests, Pure

LEMMA TryEdges ==
  ASSUME NEW m, NEW k, NEW s, OpAt(m, k) = 62
  PROVE  Edges(m, k, s) =
           {[to |-> m.code[k][2], tries |-> s.tries + 1, kinds |-> <<>>],
            [to |-> k + 1, tries |-> s.tries + 1, kinds |-> <<"data">>]}
BY DEF Edges, Constants, Computes, Reads, Coercions, Tests, Pure

LEMMA ExitEdges ==
  ASSUME NEW m, NEW k, NEW s, OpAt(m, k) = 61
  PROVE  Edges(m, k, s) =
           {Edge(s, k + 1, 0, <<>>),
            [to |-> m.code[k][2], tries |-> s.tries - 1, kinds |-> <<>>]}
BY DEF Edges, Constants, Computes, Reads, Coercions, Tests, Pure

\* An instruction goes on along an edge: its n topmost operands are replaced
\* by values of the kinds that the edge says.
LEMMA AlongKeeps ==
  ASSUME VMInv, ShapesHold, frames # <<>>, UNCHANGED img,
         KnownScopes(img, scopes'), \A v \in given' : Opens(img, v),
         NEW n \in Nat, Has(n), NEW new \in Seq(Value), KnownIn(img, new),
         NEW e \in Edges(img, F.pc, Typing[img][F.pc]), Op # 61,
         Step(n, new, e.to),
         e.tries = Typing[img][F.pc].tries, e.kinds \in Seq(OperandKinds),
         Len(e.kinds) = Len(F.ops) - n + Len(new),
         Showing(img, Cut(stack, n) \o new, e.kinds)
  PROVE  ShapesHold'
<1> DEFINE s2 == Cut(stack, n) \o new
           o2 == Cut(F.ops, n) \o new
           g == [F EXCEPT !.pc = e.to, !.ops = o2]
           s == Typing[img][e.to]
<1>1. stack' = s2 /\ frames' = [frames EXCEPT ![Len(frames)] = g]
  BY DEF Step, SetTop
<1>2. /\ F \in Frame /\ F.ops \in Seq(Value) /\ Len(F.ops) \in Nat /\ F.hs \in Seq(Handler)
      /\ stack \in Seq(Value) /\ Len(stack) \in Nat /\ frames \in Seq(Frame)
      /\ n <= Len(F.ops) /\ n <= Len(stack)
  BY Current, Granted
<1>3. /\ Cut(stack, n) \in Seq(Value) /\ Cut(F.ops, n) \in Seq(Value)
      /\ Len(Cut(F.ops, n)) = Len(F.ops) - n
  BY <1>2, CutFacts
<1>4. o2 \in Seq(Value) /\ Len(o2) = Len(F.ops) - n + Len(new)
  <2> DEFINE rest == Cut(F.ops, n)
  <2>1. rest \in Seq(Value) /\ Len(rest) = Len(F.ops) - n
    BY <1>3
  <2> HIDE DEF rest
  <2>2. rest \o new \in Seq(Value) /\ Len(rest \o new) = Len(rest) + Len(new)
    BY <2>1, ConcatFacts
  <2> QED
    BY <2>1, <2>2 DEF rest
<1>5. /\ img \in Images /\ F.pc \in DOMAIN Typing[img] /\ Running(img, F, stack)
      /\ Op = OpAt(img, F.pc)
  BY Here
<1>6. e.to \in DOMAIN Typing[img] /\ Fits(e, s)
  BY <1>5, Checked
<1>7. s.kinds \in Seq(OperandKinds) /\ s.tries \in Nat /\ e.to \in Nat
  <2>1. e.to \in DOMAIN img.code /\ img.code \in Seq(Seq(Nat))
    BY <1>5, <1>6, Checked, ImagesAssumption
  <2>2. e.to \in Nat
    BY <2>1
  <2> QED
    BY <1>5, <1>6, <2>2, Checked
<1> HIDE DEF s2, o2, s
<1>8. /\ g \in Frame /\ g.pc = e.to /\ g.ops = o2 /\ g.hs = F.hs
  BY <1>2, <1>4, <1>7 DEF Frame
<1>9. Showing(img, s2, s.kinds)
  BY <1>6, <1>7, FittingShows DEF s2
<1>10. Len(g.hs) = s.tries /\ Len(g.ops) = Len(s.kinds)
  <2>1. Len(F.hs) = Typing[img][F.pc].tries
    BY <1>5 DEF Running
  <2>2. e.tries = s.tries /\ Len(e.kinds) = Len(s.kinds)
    BY <1>6 DEF Fits
  <2> QED
    BY <1>4, <1>8, <2>1, <2>2
<1>11. HandlersShaped(img, g.hs) /\ ExitsShaped(img, g.hs, Len(g.hs) - Unset(img, g))
  <2>1. HandlersShaped(img, F.hs) /\ ExitsShaped(img, F.hs, Len(F.hs) - Unset(img, F))
    BY <1>5 DEF Running
  <2>2. Unset(img, F) = 0 /\ Unset(img, g) \in {0, 1} /\ Len(F.hs) \in Nat
    BY <1>2, <1>5 DEF Unset
  <2>3. \A h \in 1 .. Len(F.hs) - Unset(img, g) : h \in 1 .. Len(F.hs) - Unset(img, F)
    BY <2>2
  <2> QED
    BY <1>8, <2>1, <2>3 DEF ExitsShaped
<1> HIDE DEF g
<1>12. Running(img, g, s2)
  BY <1>6, <1>8, <1>9, <1>10, <1>11 DEF Running, s
<1>13. Shaped(img, frames', stack')
  <2>1. Shaped(img, frames, stack)
    BY DEF ShapesHold
  <2>2. Shaped(img, [frames EXCEPT ![Len(frames)] = g], s2)
    BY <1>2, <1>8, <1>12, <2>1, ShapedGoesOn
  <2> QED
    BY <1>1, <2>2 DEF g
<1>14. KnownIn(img, stack')
  <2>1. KnownIn(img, Cut(stack, n))
    BY <1>2, KnownCut DEF ShapesHold, KnownValues
  <2> QED
    BY <1>1, <1>3, <2>1, KnownConcat DEF s2
<1> QED
  BY <1>13, <1>14 DEF ShapesHold, KnownValues

LEMMA EdgeKeeps ==
  ASSUME VMInv, ShapesHold, frames # <<>>, UNCHANGED img,
         KnownScopes(img, scopes'), \A v \in given' : Opens(img, v),
         NEW n \in Nat, Has(n), NEW new \in Seq(Value), KnownIn(img, new),
         NEW gives \in Seq(OperandKinds), Len(gives) = Len(new),
         Showing(img, new, gives), NEW pc, Step(n, new, pc), Op # 61,
         Edge(Typing[img][F.pc], pc, n, gives) \in Edges(img, F.pc, Typing[img][F.pc])
  PROVE  ShapesHold'
<1> DEFINE s == Typing[img][F.pc]
           e == Edge(s, pc, n, gives)
<1>1. /\ s.kinds \in Seq(OperandKinds) /\ Len(F.ops) = Len(s.kinds) /\ Len(s.kinds) \in Nat
      /\ Showing(img, stack, s.kinds)
  BY Here DEF Running
<1>2. /\ n <= Len(F.ops) /\ n <= Len(stack) /\ stack \in Seq(Value)
      /\ Len(F.ops) <= Len(stack) /\ Len(stack) \in Nat
  BY Current, Granted, TopFrame DEF VMInv
<1>3. e.to = pc /\ e.tries = s.tries /\ e.kinds = Cut(s.kinds, n) \o gives
  BY DEF Edge
<1>4. /\ Cut(s.kinds, n) \in Seq(OperandKinds) /\ Len(Cut(s.kinds, n)) = Len(s.kinds) - n
      /\ Cut(stack, n) \in Seq(Value) /\ Len(Cut(stack, n)) = Len(stack) - n
  <2>1. n \in 0 .. Len(s.kinds) /\ n \in 0 .. Len(stack)
    BY <1>1, <1>2
  <2> QED
    BY <1>1, <1>2, <2>1, CutFacts
<1>5. /\ e.kinds \in Seq(OperandKinds) /\ Len(e.kinds) = Len(F.ops) - n + Len(new)
  <2> DEFINE rest == Cut(s.kinds, n)
  <2>1. rest \in Seq(OperandKinds) /\ Len(rest) = Len(F.ops) - n
    BY <1>1, <1>4
  <2> HIDE DEF rest
  <2>2. rest \o gives \in Seq(OperandKinds) /\ Len(rest \o gives) = Len(rest) + Len(gives)
    BY <2>1, ConcatFacts
  <2> QED
    BY <1>3, <2>1, <2>2 DEF rest
<1>6. Showing(img, Cut(stack, n), Cut(s.kinds, n))
  BY <1>1, <1>2, CutShows
<1>7. Showing(img, Cut(stack, n) \o new, e.kinds)
  <2>1. Len(Cut(s.kinds, n)) <= Len(Cut(stack, n))
    BY <1>1, <1>2, <1>4
  <2> QED
    BY <1>3, <1>4, <1>6, <2>1, PushShows
<1> HIDE DEF e
<1>8. e \in Edges(img, F.pc, Typing[img][F.pc]) /\ Step(n, new, e.to)
  BY <1>3 DEF e
<1> QED
  BY <1>3, <1>5, <1>7, <1>8, AlongKeeps

\* Scopes and the host keep to entries as well.
LEMMA KnownSlots ==
  ASSUME NEW m, NEW ss \in Seq(ScopeObject), KnownScopes(m, ss),
         NEW id, NEW slot, NEW v, Known(m, v)
  PROVE  KnownScopes(m, [ss EXCEPT ![id].slots[slot] = v])
<1> DEFINE r == [ss EXCEPT ![id].slots[slot] = v]
<1>1. ASSUME NEW k \in DOMAIN r, NEW s \in Slots PROVE Known(m, r[k].slots[s])
  <2>0. k \in DOMAIN ss
    BY <1>1
  <2>1. k \in DOMAIN ss /\ ss[k] \in ScopeObject /\ DOMAIN ss[k].slots = Slots
    <3>1. ss[k] \in ScopeObject
      BY <2>0
    <3>2. ss[k].slots \in [Slots -> Value]
      BY <3>1 DEF ScopeObject
    <3> QED
      BY <2>0, <3>1, <3>2
  <2>2. Known(m, ss[k].slots[s])
    BY <1>1, <2>1 DEF KnownScopes
  <2>3. CASE k = id /\ s = slot
    <3>1. r[k].slots[s] = v
      BY <2>1, <2>3 DEF ScopeObject
    <3> QED
      BY <3>1
  <2>4. CASE ~(k = id /\ s = slot)
    <3>1. r[k].slots[s] = ss[k].slots[s]
      BY <2>1, <2>4 DEF ScopeObject
    <3> QED
      BY <2>2, <3>1
  <2> QED
    BY <2>3, <2>4
<1> QED
  BY <1>1 DEF KnownScopes

LEMMA KnownAppend ==
  ASSUME NEW m, NEW ss \in Seq(ScopeObject), KnownScopes(m, ss),
         NEW o \in ScopeObject, \A s \in Slots : Known(m, o.slots[s])
  PROVE  KnownScopes(m, Append(ss, o))
<1>1. /\ Append(ss, o) \in Seq(ScopeObject) /\ Len(Append(ss, o)) = Len(ss) + 1
      /\ \A k \in 1 .. Len(ss) : Append(ss, o)[k] = ss[k]
      /\ Append(ss, o)[Len(ss) + 1] = o
  BY AppendProperties
<1>2. \A k \in DOMAIN Append(ss, o) : k \in 1 .. Len(ss) \/ k = Len(ss) + 1
  BY <1>1
<1> QED
  BY <1>1, <1>2 DEF KnownScopes

LEMMA QuietKeeps ==
  ASSUME ShapesHold, Quiet
  PROVE  /\ UNCHANGED img
         /\ KnownScopes(img, scopes')
         /\ \A v \in given' : Opens(img, v)
BY DEF Quiet, ShapesHold, KnownValues

LEMMA SlotKeeps ==
  ASSUME VMInv, ShapesHold, NEW id, NEW slot, NEW v, Known(img, v),
         SetSlot(id, slot, v) \/ UNCHANGED scopes
  PROVE  KnownScopes(img, scopes')
<1>1. scopes \in Seq(ScopeObject) /\ KnownScopes(img, scopes)
  BY DEF VMInv, ShapesHold, KnownValues
<1>2. CASE SetSlot(id, slot, v)
  <2>1. KnownScopes(img, [scopes EXCEPT ![id].slots[slot] = v])
    BY <1>1, KnownSlots
  <2> QED
    BY <1>2, <2>1 DEF SetSlot
<1>3. CASE UNCHANGED scopes
  BY <1>1, <1>3
<1> QED
  BY <1>2, <1>3

LEMMA KindsExist ==
  /\ "entry" \in OperandKinds /\ "data" \in OperandKinds /\ "anything" \in OperandKinds
  /\ \A kind \in OperandKinds : <<kind>> \in Seq(OperandKinds) /\ Len(<<kind>>) = 1
  /\ <<>> \in Seq(OperandKinds) /\ Len(<<>>) = 0
  /\ <<"data", "data">> \in Seq(OperandKinds) /\ Len(<<"data", "data">>) = 2
BY DEF OperandKinds

\* One value is pushed, or none.
LEMMA PushKeeps ==
  ASSUME VMInv, ShapesHold, frames # <<>>, UNCHANGED img,
         KnownScopes(img, scopes'), \A v \in given' : Opens(img, v),
         NEW n \in Nat, Has(n), NEW v \in Value, Known(img, v),
         NEW kind \in OperandKinds, IsA(img, v, kind),
         NEW pc, Step(n, <<v>>, pc), Op # 61,
         Edge(Typing[img][F.pc], pc, n, <<kind>>) \in Edges(img, F.pc, Typing[img][F.pc])
  PROVE  ShapesHold'
<1>1. <<v>> \in Seq(Value) /\ Len(<<v>>) = 1 /\ KnownIn(img, <<v>>)
  BY OneValue, KnownOne
<1>2. /\ <<kind>> \in Seq(OperandKinds) /\ Len(<<kind>>) = 1
      /\ Showing(img, <<v>>, <<kind>>)
  BY KindsExist, ShowsOne
<1> QED
  BY <1>1, <1>2, EdgeKeeps

LEMMA PopKeeps ==
  ASSUME VMInv, ShapesHold, frames # <<>>, UNCHANGED img,
         KnownScopes(img, scopes'), \A v \in given' : Opens(img, v),
         NEW n \in Nat, Has(n), NEW pc, Step(n, <<>>, pc), Op # 61,
         Edge(Typing[img][F.pc], pc, n, <<>>) \in Edges(img, F.pc, Typing[img][F.pc])
  PROVE  ShapesHold'
<1>1. KnownIn(img, <<>>) /\ Showing(img, <<>>, <<>>)
  BY KnownNone, ShowsNone
<1>2. <<>> \in Seq(Value) /\ <<>> \in Seq(OperandKinds) /\ Len(<<>>) = Len(<<>>)
  BY NoValues, KindsExist
<1> QED
  BY <1>1, <1>2, EdgeKeeps

LEMMA ShapesPushConstant == ASSUME VMInv, ShapesHold, PushConstant PROVE ShapesHold'
<1> DEFINE kind == IF OpAt(img, F.pc) \in {3, 4, 5} /\ img.code[F.pc][2] \in Entries(img)
                   THEN "entry" ELSE "data"
<1>1. At(Constants) /\ Step(0, <<Answer>>, F.pc + 1) /\ Quiet
  BY DEF PushConstant
<1>2. frames # <<>> /\ Answer \in Value /\ Has(0) /\ Op \in Constants
  BY <1>1, Instruction, AnswerIsValue, TakesNothing
<1>3. Op = OpAt(img, F.pc) /\ I = img.code[F.pc]
  BY <1>2, Here
<1>4. Edges(img, F.pc, Typing[img][F.pc]) = {Edge(Typing[img][F.pc], F.pc + 1, 0, <<kind>>)}
  BY <1>2, <1>3, ConstantEdges
<1>5. Known(img, Answer) /\ IsA(img, Answer, kind)
  <2>1. CASE Op \in {3, 4, 5}
    <3>1. Answer = Plain("prim", I[2])
      BY <2>1 DEF Answer
    <3>2. Answer.n = I[2] /\ Answer.kind = "prim"
      BY <3>1 DEF Plain
    <3> QED
      BY <1>3, <3>2 DEF Known, IsA
  <2>2. CASE Op \notin {3, 4, 5}
    <3>1. Op \in {0, 1, 2, 7, 8, 11, 13}
      BY <1>2, <2>2 DEF Constants
    <3>2. Answer \in {Nil, Plain("obj", F.pc), Plain("any", F.pc), Plain("prim", F.pc)}
      BY <3>1 DEF Answer
    <3>3. Known(img, Answer) /\ IsA(img, Answer, "data")
      BY <3>2, PlainIsKnown, NilIsKnown
    <3> QED
      BY <1>3, <2>2, <3>3
  <2> QED
    BY <2>1, <2>2
<1>6. kind \in OperandKinds /\ Op # 61
  BY <1>2 DEF OperandKinds, Constants
<1> HIDE DEF kind
<1> QED
  BY <1>1, <1>2, <1>4, <1>5, <1>6, QuietKeeps, PushKeeps

LEMMA ShapesMakeArray == ASSUME VMInv, ShapesHold, MakeArray PROVE ShapesHold'
<1>1. At({12}) /\ Has(I[2]) /\ Step(I[2], <<Plain("obj", F.pc)>>, F.pc + 1) /\ Quiet
  BY DEF MakeArray
<1>2. frames # <<>> /\ F.pc \in Nat /\ I[2] \in Nat /\ Op = 12
  BY <1>1, Instruction DEF WithOperand
<1>3. Op = OpAt(img, F.pc) /\ I = img.code[F.pc]
  BY <1>2, Here
<1>4. Edges(img, F.pc, Typing[img][F.pc]) =
        {Edge(Typing[img][F.pc], F.pc + 1, I[2], <<"data">>)}
  <2>1. OpAt(img, F.pc) = 12
    BY <1>2, <1>3
  <2>2. Edges(img, F.pc, Typing[img][F.pc]) =
          {Edge(Typing[img][F.pc], F.pc + 1, img.code[F.pc][2], <<"data">>)}
    BY <2>1, ArrayEdge
  <2> QED
    BY <1>3, <2>2
<1>5. /\ Plain("obj", F.pc) \in Value /\ Known(img, Plain("obj", F.pc))
      /\ IsA(img, Plain("obj", F.pc), "data")
  BY <1>2, ValueFacts, PlainIsKnown DEF Kinds
<1> QED
  BY <1>1, <1>2, <1>4, <1>5, KindsExist, QuietKeeps, PushKeeps

LEMMA ShapesCompute == ASSUME VMInv, ShapesHold, Compute PROVE ShapesHold'
<1>1. /\ At(Computes) /\ Has(Needs) /\ Step(Needs, <<Answer>>, F.pc + 1)
      /\ UNCHANGED <<img, given, calls>>
      /\ \/ SetSlot(Subject.scope, Nth(1).n, Plain("prim", F.pc))
         \/ UNCHANGED scopes
  BY DEF Compute
<1>2. /\ frames # <<>> /\ F.pc \in Nat /\ Op \in Computes
      /\ Op \in WithOperand => I[2] \in Nat
  BY <1>1, Instruction
<1>3. Op = OpAt(img, F.pc) /\ I = img.code[F.pc]
  BY <1>2, Here
<1>4. Needs = Arity(Op) /\ Needs \in Nat
  <2>1. Needs = Arity(Op)
    <3>1. Op \notin Writes /\ Op # 67 /\ Op # 68
      BY <1>2 DEF Computes, Reads, Coercions, Tests, Pure, Writes
    <3> QED
      BY <1>2, <3>1 DEF Needs
  <2> QED
    BY <2>1 DEF Arity
<1>5. Edges(img, F.pc, Typing[img][F.pc]) =
        {Edge(Typing[img][F.pc], F.pc + 1, Needs, <<"data">>)}
  <2>1. OpAt(img, F.pc) \in Computes
    BY <1>2, <1>3
  <2>2. Edges(img, F.pc, Typing[img][F.pc]) =
          {Edge(Typing[img][F.pc], F.pc + 1, Arity(OpAt(img, F.pc)), <<"data">>)}
    BY <2>1, ComputeEdge
  <2> QED
    BY <1>3, <1>4, <2>2
<1>6. /\ Answer \in Value /\ Known(img, Answer) /\ IsA(img, Answer, "data")
  <2>1. Op \notin {3, 4, 5}
    BY <1>2 DEF Computes, Reads, Coercions, Tests, Pure
  <2>2. Answer \in {Nil, Plain("obj", F.pc), Plain("any", F.pc), Plain("prim", F.pc)}
    BY <2>1 DEF Answer
  <2>3. Known(img, Answer) /\ IsA(img, Answer, "data")
    BY <2>2, PlainIsKnown, NilIsKnown
  <2> QED
    BY <1>2, <2>3, AnswerIsValue
<1>7. Op # 61
  BY <1>2 DEF Computes, Reads, Coercions, Tests, Pure
<1>8. KnownScopes(img, scopes')
  BY <1>1, PlainIsKnown, SlotKeeps
<1>9. \A v \in given' : Opens(img, v)
  BY <1>1 DEF ShapesHold, KnownValues
<1> QED
  BY <1>1, <1>2, <1>4, <1>5, <1>6, <1>7, <1>8, <1>9, KindsExist, PushKeeps

\* An operand is what the shape says of it.
LEMMA TopShows ==
  ASSUME VMInv, ShapesHold, frames # <<>>
  PROVE  \A n \in 1 .. Len(F.ops) :
           LET kinds == Typing[img][F.pc].kinds
           IN  IsA(img, Nth(n), kinds[Len(kinds) + 1 - n])
<1> DEFINE kinds == Typing[img][F.pc].kinds
<1>1. /\ kinds \in Seq(OperandKinds) /\ Len(F.ops) = Len(kinds) /\ Showing(img, stack, kinds)
      /\ Len(stack) \in Nat /\ Len(kinds) \in Nat /\ DOMAIN kinds = 1 .. Len(kinds)
  BY Here, Current DEF Running
<1> HIDE DEF kinds
<1>2. ASSUME NEW n \in 1 .. Len(F.ops) PROVE IsA(img, Nth(n), kinds[Len(kinds) + 1 - n])
  <2> DEFINE j == Len(kinds) + 1 - n
  <2>1. j \in DOMAIN kinds /\ Len(stack) - Len(kinds) + j = Len(stack) + 1 - n
    BY <1>1
  <2>2. IsA(img, stack[Len(stack) - Len(kinds) + j], kinds[j])
    BY <1>1, <2>1 DEF Showing
  <2> QED
    BY <2>1, <2>2 DEF Nth
<1> QED
  BY <1>2 DEF kinds

LEMMA AnythingIs == \A m, v : IsA(m, v, "anything")
BY DEF IsA

LEMMA GivenKeeps ==
  ASSUME ShapesHold, NEW s, KnownIn(img, s), given' \subseteq given \cup Closures(s)
  PROVE  \A v \in given' : Opens(img, v)
<1>1. \A v \in given : Opens(img, v)
  BY DEF ShapesHold, KnownValues
<1>2. \A v \in Closures(s) : Opens(img, v)
  BY DEF Closures, KnownIn, Known
<1> QED
  BY <1>1, <1>2

LEMMA ShapesLoad == ASSUME VMInv, ShapesHold, Load PROVE ShapesHold'
<1> DEFINE v == scopes[Up(I[2])].slots[I[3]]
<1>1. /\ At({17}) /\ Up(I[2]) \in DOMAIN scopes
      /\ Step(0, <<v>>, F.pc + 1) /\ Quiet
  BY DEF Load
<1>2. frames # <<>> /\ Op = 17 /\ I[3] \in Slots /\ Has(0)
  BY <1>1, Instruction, TakesNothing DEF OfSlots
<1>3. v \in Value /\ Known(img, v) /\ IsA(img, v, "anything")
  <2>1. scopes[Up(I[2])] \in ScopeObject
    BY <1>1 DEF VMInv
  <2>2. scopes[Up(I[2])].slots \in [Slots -> Value]
    BY <2>1 DEF ScopeObject
  <2>3. Known(img, v)
    BY <1>1, <1>2 DEF ShapesHold, KnownValues, KnownScopes
  <2> QED
    BY <1>2, <2>2, <2>3, AnythingIs
<1> HIDE DEF v
<1>4. Edges(img, F.pc, Typing[img][F.pc]) =
        {Edge(Typing[img][F.pc], F.pc + 1, 0, <<"anything">>)}
  <2>1. OpAt(img, F.pc) = 17
    BY <1>2, Here
  <2> QED
    BY <2>1, LoadEdge
<1> QED
  BY <1>1, <1>2, <1>3, <1>4, KindsExist, QuietKeeps, PushKeeps

LEMMA ShapesStore == ASSUME VMInv, ShapesHold, Store PROVE ShapesHold'
<1>1. /\ At({20}) /\ Has(1) /\ Step(1, <<>>, F.pc + 1)
      /\ SetSlot(Up(I[2]), I[3], Nth(1))
      /\ given' \subseteq given \cup Closures(<<Nth(1)>>)
      /\ UNCHANGED <<img, calls>>
  BY DEF Store
<1>2. frames # <<>> /\ Op = 20
  BY <1>1, Instruction
<1>3. Known(img, Nth(1))
  BY <1>1, <1>2, TopIsKnown
<1>4. KnownScopes(img, scopes')
  BY <1>1, <1>3, SlotKeeps
<1>5. \A v \in given' : Opens(img, v)
  BY <1>1, <1>3, KnownOne, GivenKeeps
<1>6. Edges(img, F.pc, Typing[img][F.pc]) = {Edge(Typing[img][F.pc], F.pc + 1, 1, <<>>)}
  <2>1. OpAt(img, F.pc) \in {14, 20, 73, 75}
    BY <1>2, Here
  <2> QED
    BY <2>1, PopEdge
<1> QED
  BY <1>1, <1>2, <1>4, <1>5, <1>6, PopKeeps

LEMMA ShapesPushRef == ASSUME VMInv, ShapesHold, PushRef PROVE ShapesHold'
<1> DEFINE v == [Plain("scope", 0) EXCEPT !.scope = Up(I[2])]
           w == Plain("prim", I[3])
<1>1. /\ At({23}) /\ Up(I[2]) \in DOMAIN scopes
      /\ Step(0, <<v, w>>, F.pc + 1) /\ Quiet
  BY DEF PushRef
<1>2. frames # <<>> /\ Op = 23 /\ I[3] \in Nat /\ Has(0)
  BY <1>1, Instruction, TakesNothing DEF OfSlots
<1>3. Up(I[2]) \in Nat
  BY <1>1 DEF VMInv
<1>4. v \in Value /\ w \in Value
  BY <1>2, <1>3, ValueFacts DEF Kinds
<1>5. /\ Known(img, v) /\ Known(img, w) /\ IsA(img, v, "data") /\ IsA(img, w, "data")
  BY DEF Known, IsA, Plain
<1> HIDE DEF v, w
<1>6. /\ <<v, w>> \in Seq(Value) /\ Len(<<v, w>>) = 2
      /\ KnownIn(img, <<v, w>>) /\ Showing(img, <<v, w>>, <<"data", "data">>)
  <2>1. <<v, w>> \in Seq(Value) /\ Len(<<v, w>>) = 2
    BY <1>4, TwoValues
  <2>2. KnownIn(img, <<v, w>>)
    BY <1>5 DEF KnownIn
  <2>3. Showing(img, <<v, w>>, <<"data", "data">>)
    BY <1>5 DEF Showing
  <2> QED
    BY <2>1, <2>2, <2>3
<1>7. Edges(img, F.pc, Typing[img][F.pc]) =
        {Edge(Typing[img][F.pc], F.pc + 1, 0, <<"data", "data">>)}
  <2>1. OpAt(img, F.pc) = 23
    BY <1>2, Here
  <2> QED
    BY <2>1, PushRefEdge
<1>8. <<"data", "data">> \in Seq(OperandKinds) /\ Len(<<"data", "data">>) = Len(<<v, w>>)
  BY <1>6, KindsExist
<1>9. Edge(Typing[img][F.pc], F.pc + 1, 0, <<"data", "data">>)
        \in Edges(img, F.pc, Typing[img][F.pc]) /\ Op # 61
  BY <1>2, <1>7
<1>10. UNCHANGED img /\ KnownScopes(img, scopes') /\ \A x \in given' : Opens(img, x)
  BY <1>1, QuietKeeps
<1> QED
  BY <1>1, <1>2, <1>6, <1>8, <1>9, <1>10, EdgeKeeps

LEMMA ShapesWrite == ASSUME VMInv, ShapesHold, Write PROVE ShapesHold'
<1> DEFINE n == CASE Op = 14 -> 1 [] Op \in {21, 53} -> 2 [] OTHER -> 3
<1>1. /\ At(Writes) /\ Has(Needs) /\ Step(n, <<>>, F.pc + 1)
      /\ UNCHANGED <<img, given, calls>>
      /\ \/ UNCHANGED scopes
         \/ Op \in {22, 53} /\ SetSlot(Subject.scope, Nth(1).n, Nth(3))
  BY DEF Write
<1>2. frames # <<>> /\ Op \in Writes /\ Op = OpAt(img, F.pc)
  BY <1>1, Instruction, Here
<1>3. Op \in {14, 21, 22, 53} /\ Op \notin Computes
  <2>1. Op \in Writes
    BY <1>2
  <2> QED
    BY ONLY <2>1 DEF Writes, Computes, Reads, Coercions, Tests, Pure
<1>4. Needs = IF Op \in {22, 53} THEN 3 ELSE 2
  BY <1>2, <1>3 DEF Needs
<1>5. n \in Nat /\ Has(n)
  <2>1. n \in Nat /\ n <= Needs /\ Needs \in Nat
    BY <1>3, <1>4
  <2>2. Own \in Nat
    BY <1>2, OwnIsNat
  <2> HIDE DEF n
  <2> QED
    BY <1>1, <2>1, <2>2 DEF Has
<1>6. Edges(img, F.pc, Typing[img][F.pc]) = {Edge(Typing[img][F.pc], F.pc + 1, n, <<>>)}
  <2>1. CASE Op = 14
    <3>1. OpAt(img, F.pc) \in {14, 20, 73, 75} /\ n = 1
      BY <1>2, <2>1
    <3> QED
      BY <3>1, PopEdge
  <2>2. CASE Op \in {21, 53}
    <3>1. OpAt(img, F.pc) \in {21, 53} /\ n = 2
      BY <1>2, <2>2
    <3> QED
      BY <3>1, PopTwoEdge
  <2>3. CASE Op = 22
    <3>1. OpAt(img, F.pc) = 22 /\ n = 3
      BY <1>2, <2>3
    <3> QED
      BY <3>1, PopThreeEdge
  <2> QED
    BY <1>3, <2>1, <2>2, <2>3
<1> HIDE DEF n
<1>7. KnownScopes(img, scopes')
  <2>1. CASE UNCHANGED scopes
    BY <2>1 DEF ShapesHold, KnownValues
  <2>2. CASE Op \in {22, 53} /\ SetSlot(Subject.scope, Nth(1).n, Nth(3))
    <3>1. Has(3)
      BY <1>1, <1>4, <2>2
    <3>2. Known(img, Nth(3))
      BY <1>2, <3>1, TopIsKnown
    <3> QED
      BY <2>2, <3>2, SlotKeeps
  <2> QED
    BY <1>1, <2>1, <2>2
<1>8. \A v \in given' : Opens(img, v)
  BY <1>1 DEF ShapesHold, KnownValues
<1>9. Op # 61
  BY <1>3
<1> QED
  BY <1>1, <1>2, <1>5, <1>6, <1>7, <1>8, <1>9, PopKeeps

LEMMA ShapesMakeClosure == ASSUME VMInv, ShapesHold, MakeClosure PROVE ShapesHold'
<1> DEFINE named == Closure(Nth(1).n, I[2], Len(scopes) + 1)
           plain == Closure(Nth(1).n, I[2], F.scope)
           own == [p |-> F.scope,
                   slots |-> [s \in Slots |-> IF s = 0 THEN named ELSE Nil]]
<1>1. /\ At({59, 60}) /\ Has(1) /\ UNCHANGED <<img, given, calls>>
      /\ \/ Step(1, <<named>>, F.pc + 1) /\ scopes' = Append(scopes, own)
         \/ Step(1, <<plain>>, F.pc + 1) /\ UNCHANGED scopes
  BY DEF MakeClosure
<1>2. frames # <<>> /\ Op \in {59, 60} /\ I[2] \in Nat /\ Op = OpAt(img, F.pc)
  BY <1>1, Instruction, Here DEF WithOperand
<1>3. /\ Nth(1) \in Value /\ Nth(1).n \in Nat /\ F.scope \in Nat
      /\ Len(scopes) + 1 \in Nat /\ scopes \in Seq(ScopeObject)
  <2>1. Nth(1) \in Value
    BY <1>1, <1>2, OperandIsValue
  <2>2. F.scope \in Nat
    BY <1>2, Current
  <2>3. scopes \in Seq(ScopeObject)
    BY DEF VMInv
  <2> QED
    BY <2>1, <2>2, <2>3, ValueFacts
<1>4. Nth(1).n \in Entries(img)
  <2> DEFINE kinds == Typing[img][F.pc].kinds
  <2>1. WellPlaced(img, F.pc, Typing[img][F.pc]) /\ kinds \in Seq(OperandKinds)
    BY <1>2, Here
  <2>2. kinds # <<>> /\ kinds[Len(kinds)] = "entry"
    BY <1>2, <2>1 DEF WellPlaced
  <2>3. /\ 1 \in 1 .. Len(F.ops) /\ Len(kinds) + 1 - 1 = Len(kinds)
    <3>1. Len(F.ops) = Len(kinds)
      BY <1>2, Here
    <3> QED
      BY <2>1, <2>2, <3>1
  <2>4. IsA(img, Nth(1), kinds[Len(kinds) + 1 - 1])
    BY <1>2, <2>3, TopShows
  <2> HIDE DEF kinds
  <2>5. IsA(img, Nth(1), "entry")
    BY <2>2, <2>3, <2>4
  <2> QED
    BY <2>5 DEF IsA
<1>5. /\ named \in Value /\ plain \in Value
      /\ Known(img, named) /\ Known(img, plain)
  <2>1. named \in Value /\ plain \in Value
    BY <1>2, <1>3, ValueFacts
  <2> QED
    BY <1>4, <2>1 DEF Known, Opens, Closure
<1> HIDE DEF named, plain
<1>6. own \in ScopeObject /\ \A s \in Slots : Known(img, own.slots[s])
  <2>1. own \in ScopeObject
    BY <1>3, <1>5, ValueFacts DEF ScopeObject
  <2> QED
    BY <1>5, <2>1, NilIsKnown
<1> HIDE DEF own
<1>7. KnownScopes(img, scopes')
  <2>1. KnownScopes(img, scopes)
    BY DEF ShapesHold, KnownValues
  <2>2. KnownScopes(img, Append(scopes, own))
    BY <1>3, <1>6, <2>1, KnownAppend
  <2> QED
    BY <1>1, <2>1, <2>2
<1>8. Edges(img, F.pc, Typing[img][F.pc]) =
        {Edge(Typing[img][F.pc], F.pc + 1, 1, <<"anything">>)}
  <2>1. OpAt(img, F.pc) \in {59, 60}
    BY <1>2
  <2> QED
    BY <2>1, ClosureEdge
<1>9. \A v \in given' : Opens(img, v)
  BY <1>1 DEF ShapesHold, KnownValues
<1>10. Op # 61 /\ UNCHANGED img /\ Has(1) /\ 1 \in Nat
  BY <1>1, <1>2
<1>11. \/ Step(1, <<named>>, F.pc + 1)
       \/ Step(1, <<plain>>, F.pc + 1)
  BY <1>1
<1>12. Edge(Typing[img][F.pc], F.pc + 1, 1, <<"anything">>)
         \in Edges(img, F.pc, Typing[img][F.pc])
  BY <1>8
<1>13. CASE Step(1, <<named>>, F.pc + 1)
  BY <1>2, <1>5, <1>7, <1>9, <1>10, <1>12, <1>13, AnythingIs, KindsExist, PushKeeps
<1>14. CASE Step(1, <<plain>>, F.pc + 1)
  BY <1>2, <1>5, <1>7, <1>9, <1>10, <1>12, <1>14, AnythingIs, KindsExist, PushKeeps
<1> QED
  BY <1>11, <1>13, <1>14

LEMMA ShapesJump == ASSUME VMInv, ShapesHold, Jump PROVE ShapesHold'
<1>1. At({69}) /\ Step(0, <<>>, I[2]) /\ Quiet
  BY DEF Jump
<1>2. frames # <<>> /\ Op = 69 /\ Has(0)
  BY <1>1, Instruction, TakesNothing
<1>3. OpAt(img, F.pc) = 69 /\ I = img.code[F.pc]
  BY <1>2, Here
<1>4. Edges(img, F.pc, Typing[img][F.pc]) = {Edge(Typing[img][F.pc], I[2], 0, <<>>)}
  BY <1>3, JumpEdge
<1> QED
  BY <1>1, <1>2, <1>4, QuietKeeps, PopKeeps

LEMMA ShapesBranch == ASSUME VMInv, ShapesHold, Branch PROVE ShapesHold'
<1>1. At(Jumps) /\ Has(IF Op = 72 THEN 2 ELSE 1) /\ Quiet
  BY DEF Branch
<1>2. frames # <<>> /\ Op \in {51, 52, 71, 72}
  BY <1>1, Instruction DEF Jumps
<1>3. Op = OpAt(img, F.pc) /\ I = img.code[F.pc]
  BY <1>2, Here
<1>4. PICK t \in BOOLEAN :
        CASE Op = 51 -> IF t THEN Step(1, <<>>, F.pc + 1) ELSE Step(0, <<>>, I[2])
          [] Op = 52 -> IF t THEN Step(0, <<>>, I[2]) ELSE Step(1, <<>>, F.pc + 1)
          [] Op = 71 -> Step(1, <<>>, IF t THEN F.pc + 1 ELSE I[2])
          [] Op = 72 -> IF t THEN Step(2, <<>>, I[2]) ELSE Step(1, <<>>, F.pc + 1)
  BY DEF Branch, Truths
<1> DEFINE s == Typing[img][F.pc]
           Goes(n, pc) == Step(n, <<>>, pc) /\ Edge(s, pc, n, <<>>) \in Edges(img, F.pc, s)
<1>5. \/ Goes(1, F.pc + 1) \/ Goes(0, I[2]) \/ Goes(1, I[2])
      \/ Op = 72 /\ Goes(2, I[2])
  <2>1. CASE Op \in {51, 52}
    <3>1. /\ Edge(s, F.pc + 1, 1, <<>>) \in Edges(img, F.pc, s)
          /\ Edge(s, I[2], 0, <<>>) \in Edges(img, F.pc, s)
      <4>1. OpAt(img, F.pc) \in {51, 52}
        BY <1>3, <2>1
      <4>2. Edges(img, F.pc, s) =
              {Edge(s, F.pc + 1, 1, <<>>), Edge(s, img.code[F.pc][2], 0, <<>>)}
        BY <4>1, AndOrEdges
      <4>3. img.code[F.pc][2] = I[2]
        BY <1>3
      <4> QED
        BY <4>2, <4>3
    <3>2. Step(1, <<>>, F.pc + 1) \/ Step(0, <<>>, I[2])
      <4>1. CASE Op = 51
        BY <1>4, <4>1
      <4>2. CASE Op = 52
        BY <1>4, <4>2
      <4> QED
        BY <2>1, <4>1, <4>2
    <3> QED
      BY <3>1, <3>2
  <2>2. CASE Op = 71
    <3>1. Edges(img, F.pc, s) = {Edge(s, F.pc + 1, 1, <<>>), Edge(s, I[2], 1, <<>>)}
      <4>1. OpAt(img, F.pc) = 71
        BY <1>3, <2>2
      <4>2. Edges(img, F.pc, s) =
              {Edge(s, F.pc + 1, 1, <<>>), Edge(s, img.code[F.pc][2], 1, <<>>)}
        BY <4>1, IfNotEdges
      <4> QED
        BY <1>3, <4>2
    <3>2. Step(1, <<>>, F.pc + 1) \/ Step(1, <<>>, I[2])
      BY <1>4, <2>2
    <3> QED
      BY <3>1, <3>2
  <2>3. CASE Op = 72
    <3>1. Edges(img, F.pc, s) = {Edge(s, F.pc + 1, 1, <<>>), Edge(s, I[2], 2, <<>>)}
      <4>1. OpAt(img, F.pc) = 72
        BY <1>3, <2>3
      <4>2. Edges(img, F.pc, s) =
              {Edge(s, F.pc + 1, 1, <<>>), Edge(s, img.code[F.pc][2], 2, <<>>)}
        BY <4>1, CaseEdges
      <4> QED
        BY <1>3, <4>2
    <3>2. Step(1, <<>>, F.pc + 1) \/ Step(2, <<>>, I[2])
      BY <1>4, <2>3
    <3> QED
      BY <2>3, <3>1, <3>2
  <2> QED
    BY <1>2, <2>1, <2>2, <2>3
<1>6. /\ Has(0) /\ Has(1)
      /\ Op = 72 => Has(2)
  <2>1. Own \in Nat
    BY <1>2, OwnIsNat
  <2> QED
    BY <1>1, <2>1 DEF Has
<1>7. /\ UNCHANGED img /\ KnownScopes(img, scopes') /\ \A v \in given' : Opens(img, v)
      /\ Op # 61
  BY <1>1, <1>2, QuietKeeps
<1>8. 0 \in Nat /\ 1 \in Nat /\ 2 \in Nat
  OBVIOUS
<1>9. CASE Goes(1, F.pc + 1)
  BY <1>2, <1>6, <1>7, <1>8, <1>9, PopKeeps
<1>10. CASE Goes(0, I[2])
  BY <1>2, <1>6, <1>7, <1>8, <1>10, PopKeeps
<1>11. CASE Goes(1, I[2])
  BY <1>2, <1>6, <1>7, <1>8, <1>11, PopKeeps
<1>12. CASE Op = 72 /\ Goes(2, I[2])
  BY <1>2, <1>6, <1>7, <1>8, <1>12, PopKeeps
<1> QED
  BY <1>5, <1>9, <1>10, <1>11, <1>12

LEMMA ShapesPop == ASSUME VMInv, ShapesHold, Pop PROVE ShapesHold'
<1>1. At({73}) /\ Has(1) /\ Step(1, <<>>, F.pc + 1) /\ Quiet
  BY DEF Pop
<1>2. frames # <<>> /\ Op = 73
  BY <1>1, Instruction
<1>3. Edges(img, F.pc, Typing[img][F.pc]) = {Edge(Typing[img][F.pc], F.pc + 1, 1, <<>>)}
  <2>1. OpAt(img, F.pc) \in {14, 20, 73, 75}
    BY <1>2, Here
  <2> QED
    BY <2>1, PopEdge
<1> QED
  BY <1>1, <1>2, <1>3, QuietKeeps, PopKeeps

LEMMA ShapesDup == ASSUME VMInv, ShapesHold, Dup PROVE ShapesHold'
<1> DEFINE kinds == Typing[img][F.pc].kinds
           kind == kinds[Len(kinds)]
<1>1. At({74}) /\ Has(1) /\ Step(0, <<Nth(1)>>, F.pc + 1) /\ Quiet
  BY DEF Dup
<1>2. frames # <<>> /\ Op = 74
  BY <1>1, Instruction
<1>3. Nth(1) \in Value /\ Known(img, Nth(1)) /\ Has(0)
  BY <1>1, <1>2, OperandIsValue, TopIsKnown, TakesNothing
<1>4. Edges(img, F.pc, Typing[img][F.pc]) =
        {Edge(Typing[img][F.pc], F.pc + 1, 0, <<kind>>)}
  <2>1. OpAt(img, F.pc) = 74
    BY <1>2, Here
  <2> QED
    BY <2>1, DupEdge
<1>5. kind \in OperandKinds /\ IsA(img, Nth(1), kind)
  <2>1. kinds \in Seq(OperandKinds) /\ Len(F.ops) = Len(kinds) /\ Len(kinds) \in Nat
    BY <1>2, Here
  <2>2. 1 \in 1 .. Len(F.ops) /\ Len(kinds) + 1 - 1 = Len(kinds)
    <3>1. 1 <= Len(F.ops)
      BY <1>1, <1>2, Granted
    <3> QED
      BY <2>1, <3>1
  <2>3. IsA(img, Nth(1), kinds[Len(kinds) + 1 - 1])
    BY <1>2, <2>2, TopShows
  <2> HIDE DEF kinds
  <2>4. Len(kinds) \in DOMAIN kinds
    BY <2>1, <2>2
  <2> QED
    BY <2>1, <2>2, <2>3, <2>4
<1> HIDE DEF kind
<1> QED
  BY <1>1, <1>2, <1>3, <1>4, <1>5, QuietKeeps, PushKeeps

LEMMA ShapesForIn == ASSUME VMInv, ShapesHold, ForIn PROVE ShapesHold'
<1>1. /\ At({75}) /\ Has(1) /\ Step(1, <<>>, F.pc + 1)
      /\ SetSlot(F.scope, I[2], Plain("obj", F.pc)) /\ UNCHANGED <<img, given, calls>>
  BY DEF ForIn
<1>2. frames # <<>> /\ Op = 75
  BY <1>1, Instruction
<1>3. KnownScopes(img, scopes')
  BY <1>1, PlainIsKnown, SlotKeeps
<1>4. \A v \in given' : Opens(img, v)
  BY <1>1 DEF ShapesHold, KnownValues
<1>5. Edges(img, F.pc, Typing[img][F.pc]) = {Edge(Typing[img][F.pc], F.pc + 1, 1, <<>>)}
  <2>1. OpAt(img, F.pc) \in {14, 20, 73, 75}
    BY <1>2, Here
  <2> QED
    BY <2>1, PopEdge
<1> QED
  BY <1>1, <1>2, <1>3, <1>4, <1>5, PopKeeps

LEMMA ShapesNextKey == ASSUME VMInv, ShapesHold, NextKey PROVE ShapesHold'
<1>1. /\ At({76}) /\ Has(2) /\ Step(2, <<Plain("prim", F.pc)>>, F.pc + 1)
      /\ \/ SetSlot(Nth(2).scope, Nth(1).n, Plain("prim", F.pc))
         \/ UNCHANGED scopes
      /\ UNCHANGED <<img, given, calls>>
  BY DEF NextKey
<1>2. frames # <<>> /\ F.pc \in Nat /\ Op = 76
  BY <1>1, Instruction
<1>3. /\ Plain("prim", F.pc) \in Value /\ Known(img, Plain("prim", F.pc))
      /\ IsA(img, Plain("prim", F.pc), "data")
  BY <1>2, ValueFacts, PlainIsKnown DEF Kinds
<1>4. KnownScopes(img, scopes')
  BY <1>1, <1>3, SlotKeeps
<1>5. \A v \in given' : Opens(img, v)
  BY <1>1 DEF ShapesHold, KnownValues
<1>6. Edges(img, F.pc, Typing[img][F.pc]) =
        {Edge(Typing[img][F.pc], F.pc + 1, 2, <<"data">>)}
  <2>1. OpAt(img, F.pc) = 76
    BY <1>2, Here
  <2> QED
    BY <2>1, NextKeyEdge
<1> QED
  BY <1>1, <1>2, <1>3, <1>4, <1>5, <1>6, KindsExist, PushKeeps

\* What a call passes on is known, and the callee is the operand below it.
LEMMA CallFacts ==
  ASSUME VMInv, ShapesHold, At({67, 68}), Has(Needs)
  PROVE  /\ frames # <<>> /\ Op \in {67, 68} /\ Op \in Invokes
         /\ F.pc \in Nat /\ F.pc + 1 \in Nat /\ I[2] \in Nat
         /\ Needs = IF Op = 67 THEN I[2] + 2 ELSE I[2] + 1
         /\ Needs \in Nat
         /\ Subject = Nth(I[2] + 1) /\ I[2] + 1 \in 1 .. Len(F.ops)
         /\ KnownIn(img, SubSeq(stack, Len(stack) - I[2] + 1, Len(stack)))
<1> DEFINE n == Len(stack)
           i == I[2]
           args == SubSeq(stack, n - i + 1, n)
<1>1. /\ frames # <<>> /\ Op \in {67, 68} /\ F.pc \in Nat /\ F.pc + 1 \in Nat
      /\ Op \in WithOperand => I[2] \in Nat
  BY Instruction
<1>2. I[2] \in Nat
  BY <1>1 DEF WithOperand
<1>3. Needs = IF Op = 67 THEN I[2] + 2 ELSE I[2] + 1
  <2>1. Op \notin Computes /\ Op \notin Writes
    BY <1>1 DEF Writes, Computes, Reads, Coercions, Tests, Pure
  <2> QED
    BY <1>1, <2>1 DEF Needs
<1>4. Needs \in Nat /\ i <= Needs /\ i + 1 <= Needs /\ i \in Nat
  BY <1>1, <1>2, <1>3
<1>5. n \in Nat /\ stack \in Seq(Value) /\ Needs <= n /\ Needs <= Len(F.ops)
      /\ Len(F.ops) \in Nat
  BY <1>1, <1>4, Current, Granted
<1>6. Subject = Nth(I[2] + 1) /\ I[2] + 1 \in 1 .. Len(F.ops)
  <2>1. Subject = Nth(I[2] + 1)
    BY <1>1 DEF Subject, Reads
  <2> QED
    BY <1>4, <1>5, <2>1
<1>7. KnownIn(img, stack)
  BY DEF ShapesHold, KnownValues
<1> HIDE DEF n, i
<1>8. n - i + 1 \in 1 .. n + 1 /\ i <= n
  BY <1>4, <1>5
<1>9. /\ \A k \in n - i + 1 .. n : stack[k] \in Value
      /\ \A k \in n - i + 1 .. n : k \in DOMAIN stack
  BY <1>5, <1>8 DEF n
<1>10. /\ args \in Seq(Value)
       /\ Len(args) = i
       /\ \A k \in 1 .. i : args[k] = stack[n - i + 1 + k - 1]
  <2>1. /\ args \in Seq(Value)
        /\ Len(args) = IF n - i + 1 <= n THEN n - (n - i + 1) + 1 ELSE 0
        /\ \A k \in 1 .. n - (n - i + 1) + 1 : args[k] = stack[n - i + 1 + k - 1]
    BY <1>4, <1>5, <1>8, <1>9, SubSeqProperties
  <2> HIDE DEF args
  <2>2. n - (n - i + 1) + 1 = i /\ ~(n - i + 1 <= n) => i = 0
    BY <1>4, <1>5
  <2> QED
    BY <1>4, <1>5, <2>1, <2>2
<1> HIDE DEF args
<1>11. \A k \in DOMAIN args : k \in 1 .. i /\ n - i + 1 + k - 1 \in DOMAIN stack
  BY <1>4, <1>5, <1>8, <1>9, <1>10
<1>12. KnownIn(img, args)
  BY <1>7, <1>10, <1>11 DEF KnownIn
<1> QED
  BY <1>1, <1>2, <1>3, <1>4, <1>6, <1>12 DEF n, i, args, Invokes

LEMMA BlurredKinds ==
  ASSUME NEW kinds \in Seq(OperandKinds)
  PROVE  /\ Blurred(kinds) \in Seq(OperandKinds) /\ Len(Blurred(kinds)) = Len(kinds)
         /\ \A j \in DOMAIN Blurred(kinds) : Blurred(kinds)[j] = "anything"
         /\ \A m, st : Showing(m, st, Blurred(kinds))
<1>1. /\ DOMAIN Blurred(kinds) = 1 .. Len(kinds) /\ Len(kinds) \in Nat
      /\ \A j \in DOMAIN Blurred(kinds) : Blurred(kinds)[j] = "anything"
  BY DEF Blurred
<1>2. Blurred(kinds) \in [1 .. Len(kinds) -> OperandKinds]
  BY KindsExist DEF Blurred
<1>3. Blurred(kinds) \in Seq(OperandKinds) /\ Len(Blurred(kinds)) = Len(kinds)
  BY <1>1, <1>2
<1> QED
  BY <1>1, <1>3, AnythingIs DEF Showing

\* What a call that may enter a closure leaves on top.
LEMMA AfterCallKinds ==
  ASSUME NEW kinds \in Seq(OperandKinds), NEW n \in 0 .. Len(kinds)
  PROVE  LET after == Blurred(Cut(kinds, n) \o <<"data">>)
         IN  /\ after \in Seq(OperandKinds) /\ Len(after) = Len(kinds) - n + 1
             /\ \A j \in DOMAIN after : after[j] = "anything"
             /\ \A m, st : Showing(m, st, after)
<1> DEFINE rest == Cut(kinds, n)
<1>1. rest \in Seq(OperandKinds) /\ Len(rest) = Len(kinds) - n
  BY CutFacts
<1> HIDE DEF rest
<1>2. <<"data">> \in Seq(OperandKinds) /\ Len(<<"data">>) = 1
  BY KindsExist
<1>3. /\ rest \o <<"data">> \in Seq(OperandKinds)
      /\ Len(rest \o <<"data">>) = Len(kinds) - n + 1
  BY <1>1, <1>2, ConcatFacts
<1>4. LET after == Blurred(rest \o <<"data">>)
      IN  /\ after \in Seq(OperandKinds) /\ Len(after) = Len(kinds) - n + 1
          /\ \A j \in DOMAIN after : after[j] = "anything"
          /\ \A m, st : Showing(m, st, after)
  BY <1>3, BlurredKinds
<1> QED
  BY <1>4 DEF rest

LEMMA ShapesCallHost == ASSUME VMInv, ShapesHold, CallHost PROVE ShapesHold'
<1> DEFINE v == Plain("any", F.pc)
           s == Typing[img][F.pc]
           args == SubSeq(stack, Len(stack) - I[2] + 1, Len(stack))
<1>1. /\ At({67, 68}) /\ Has(Needs) /\ Step(Needs, <<v>>, F.pc + 1)
      /\ given' \subseteq given \cup Closures(args) /\ UNCHANGED <<img, scopes, calls>>
  BY DEF CallHost, Invokes
<1>2. /\ frames # <<>> /\ Op \in {67, 68} /\ F.pc \in Nat /\ Needs \in Nat
      /\ Needs = (IF Op = 67 THEN I[2] + 2 ELSE I[2] + 1) /\ KnownIn(img, args)
  BY <1>1, CallFacts
<1>3. \A x \in given' : Opens(img, x)
  BY <1>1, <1>2, GivenKeeps
<1> HIDE DEF args
<1>4. v \in Value /\ Known(img, v) /\ IsA(img, v, "data")
  BY <1>2, ValueFacts, PlainIsKnown DEF Kinds
<1> HIDE DEF v
<1>5. /\ Op = OpAt(img, F.pc) /\ I = img.code[F.pc] /\ s.kinds \in Seq(OperandKinds)
      /\ Len(F.ops) = Len(s.kinds)
  BY <1>2, Here
<1>6. UNCHANGED img /\ Op # 61 /\ KnownScopes(img, scopes')
  BY <1>1, <1>2 DEF ShapesHold, KnownValues
<1>7. CASE Op = 67 /\ MayInline(img, F.pc, s)
  <2> DEFINE e == AfterCall(s, F.pc + 1, Needs)
  <2>1. e \in Edges(img, F.pc, s)
    <3>1. OpAt(img, F.pc) = 67
      BY <1>5, <1>7
    <3>2. Edges(img, F.pc, s) = {AfterCall(s, F.pc + 1, img.code[F.pc][2] + 2)}
      BY <1>7, <3>1, CallEdge
    <3>3. Needs = img.code[F.pc][2] + 2
      BY <1>2, <1>5, <1>7
    <3> QED
      BY <3>2, <3>3
  <2>2. Needs \in 0 .. Len(s.kinds) /\ Len(F.ops) \in Nat
    <3>1. Needs <= Len(F.ops) /\ F.ops \in Seq(Value)
      BY <1>1, <1>2, Granted, Current
    <3> QED
      BY <1>2, <1>5, <3>1
  <2>3. /\ e.to = F.pc + 1 /\ e.tries = s.tries
        /\ e.kinds \in Seq(OperandKinds) /\ Len(e.kinds) = Len(s.kinds) - Needs + 1
        /\ Showing(img, Cut(stack, Needs) \o <<v>>, e.kinds)
    <3> DEFINE kinds == s.kinds
    <3>1. /\ e.to = F.pc + 1 /\ e.tries = s.tries
          /\ e.kinds = Blurred(Cut(kinds, Needs) \o <<"data">>)
      BY DEF AfterCall
    <3>2. kinds \in Seq(OperandKinds) /\ Needs \in 0 .. Len(kinds)
      BY <1>5, <2>2
    <3> HIDE DEF kinds, e
    <3>3. /\ e.kinds \in Seq(OperandKinds) /\ Len(e.kinds) = Len(kinds) - Needs + 1
          /\ Showing(img, Cut(stack, Needs) \o <<v>>, e.kinds)
      BY <3>1, <3>2, AfterCallKinds
    <3> QED
      BY <3>1, <3>3 DEF kinds
  <2> HIDE DEF e
  <2>4. <<v>> \in Seq(Value) /\ Len(<<v>>) = 1 /\ KnownIn(img, <<v>>)
    BY <1>4, OneValue, KnownOne
  <2>5. Step(Needs, <<v>>, e.to)
    BY <1>1, <2>3
  <2>6. Len(e.kinds) = Len(F.ops) - Needs + Len(<<v>>)
    BY <1>5, <2>3, <2>4
  <2> QED
    BY <1>1, <1>2, <1>3, <1>6, <2>1, <2>3, <2>4, <2>5, <2>6, AlongKeeps
<1>8. CASE ~(Op = 67 /\ MayInline(img, F.pc, s))
  <2>1. Edges(img, F.pc, s) = {Edge(s, F.pc + 1, Needs, <<"data">>)}
    <3>1. CASE Op = 67
      <4>1. OpAt(img, F.pc) = 67
        BY <1>5, <3>1
      <4>2. Edges(img, F.pc, s) = {Edge(s, F.pc + 1, img.code[F.pc][2] + 2, <<"data">>)}
        BY <1>8, <3>1, <4>1, CallEdge
      <4> QED
        BY <1>2, <1>5, <3>1, <4>2
    <3>2. CASE Op = 68
      <4>1. OpAt(img, F.pc) = 68
        BY <1>5, <3>2
      <4>2. Edges(img, F.pc, s) = {Edge(s, F.pc + 1, img.code[F.pc][2] + 1, <<"data">>)}
        BY <4>1, HostCallEdge
      <4> QED
        BY <1>2, <1>5, <3>2, <4>2
    <3> QED
      BY <1>2, <3>1, <3>2
  <2> QED
    BY <1>1, <1>2, <1>3, <1>4, <1>6, <2>1, KindsExist, PushKeeps
<1> QED
  BY <1>7, <1>8

\* A closure called from bytecode begins where the verifier knows it to.
LEMMA ShapesBegin ==
  ASSUME NEW m \in Images, NEW fs \in Seq(Frame),
         \A a \in DOMAIN fs : Waiting(m, fs[a]),
         NEW n \in Entries(m), NEW scope \in Nat, NEW st, st \in Seq(Value), n \in Nat
  PROVE  Shaped(m, Append(fs, Activation(n, scope, st)), st)
<1> DEFINE g == Activation(n, scope, st)
           rs == Append(fs, g)
<1>1. /\ g \in Frame /\ g.pc = n /\ g.hs = <<>> /\ g.ops = <<>>
  BY DEF Activation, Frame
<1> HIDE DEF g
<1>2. n \in DOMAIN Typing[m] /\ Typing[m][n] = Start
  BY EntriesAreChecked
<1>3. Running(m, g, st)
  <2>1. Len(g.hs) = 0 /\ Len(g.ops) = 0 /\ Start.tries = 0 /\ Start.kinds = <<>>
    BY <1>1 DEF Start
  <2>2. HandlersShaped(m, g.hs)
    BY <1>1 DEF HandlersShaped
  <2>3. ExitsShaped(m, g.hs, Len(g.hs) - Unset(m, g))
    <3>1. 1 .. Len(g.hs) - Unset(m, g) = {}
      BY <2>1 DEF Unset
    <3> QED
      BY <3>1 DEF ExitsShaped
  <2>4. Showing(m, st, <<>>)
    BY DEF Showing
  <2> QED
    BY <1>1, <1>2, <2>1, <2>2, <2>3, <2>4 DEF Running
<1>4. /\ rs \in Seq(Frame) /\ Len(rs) = Len(fs) + 1 /\ rs[Len(fs) + 1] = g
      /\ \A k \in 1 .. Len(fs) : rs[k] = fs[k]
      /\ Len(fs) \in Nat
  BY <1>1, AppendProperties
<1> HIDE DEF rs
<1>5. Running(m, Top(rs), st)
  BY <1>3, <1>4 DEF Top
<1>6. ASSUME NEW a \in DOMAIN rs, a # Len(rs) PROVE Waiting(m, rs[a])
  <2>1. a \in 1 .. Len(fs) /\ a \in DOMAIN fs
    BY <1>4, <1>6
  <2> QED
    BY <1>4, <2>1
<1> QED
  BY <1>5, <1>6 DEF Shaped, rs, g

\* The scope of a call holds what it passes on.
LEMMA CalledIsKnown ==
  ASSUME NEW m, NEW c, NEW args, KnownIn(m, args)
  PROVE  \A s \in Slots : Known(m, Called(c, args).slots[s])
<1> SUFFICES ASSUME NEW s \in Slots PROVE Known(m, Called(c, args).slots[s])
  OBVIOUS
<1>1. Called(c, args).slots[s] =
        CASE s = 0 -> Plain("obj", c.n)
          [] s \in 1 .. c.arity /\ s \in DOMAIN args -> args[s]
          [] OTHER -> Nil
  BY DEF Called
<1>2. CASE s = 0
  <2>1. Called(c, args).slots[s] = Plain("obj", c.n)
    BY <1>1, <1>2
  <2> QED
    BY <2>1, PlainIsKnown
<1>3. CASE s # 0 /\ s \in 1 .. c.arity /\ s \in DOMAIN args
  <2>1. Called(c, args).slots[s] = args[s]
    BY <1>1, <1>3
  <2> QED
    BY <1>3, <2>1 DEF KnownIn
<1>4. CASE s # 0 /\ ~(s \in 1 .. c.arity /\ s \in DOMAIN args)
  <2>1. Called(c, args).slots[s] = Nil
    BY <1>1, <1>4
  <2> QED
    BY <2>1, NilIsKnown
<1> QED
  BY <1>2, <1>3, <1>4

\* The verifier has seen that this callee may be a closure of the program.
LEMMA CalleeMayBeInlined ==
  ASSUME VMInv, ShapesHold, CallInline
  PROVE  MayInline(img, F.pc, Typing[img][F.pc])
<1> DEFINE c == Subject
           kinds == Typing[img][F.pc].kinds
           i == I[2]
<1>1. /\ At({67}) /\ Has(Needs) /\ c.kind = "fn"
  BY DEF CallInline, Inlined
<1>2. /\ frames # <<>> /\ Op = 67 /\ i \in Nat /\ c = Nth(i + 1)
      /\ i + 1 \in 1 .. Len(F.ops)
  <2>1. At({67, 68}) /\ Op = 67
    BY <1>1 DEF At
  <2> QED
    BY <1>1, <2>1, CallFacts
<1>3. /\ I = img.code[F.pc] /\ kinds \in Seq(OperandKinds) /\ Len(F.ops) = Len(kinds)
  BY <1>2, Here
<1>4. IsA(img, c, kinds[Len(kinds) + 1 - (i + 1)])
  BY <1>2, TopShows
<1> HIDE DEF kinds, i, c
<1>5. /\ Len(kinds) + 1 - (i + 1) = Len(kinds) - i
      /\ Len(kinds) - i \in DOMAIN kinds
  BY <1>2, <1>3
<1>6. kinds[Len(kinds) - i] \in OperandKinds \ {"entry", "data"}
  BY <1>1, <1>3, <1>4, <1>5 DEF IsA
<1>7. kinds[Len(kinds) - img.code[F.pc][2]] = "anything"
  BY <1>3, <1>6 DEF OperandKinds, i
<1> QED
  BY <1>7 DEF MayInline, kinds

LEMMA ShapesCallInline == ASSUME VMInv, ShapesHold, CallInline PROVE ShapesHold'
<1> DEFINE c == Subject
           args == SubSeq(stack, Len(stack) - I[2] + 1, Len(stack))
           rest == Cut(stack, Needs)
           o == Cut(F.ops, Needs)
           id == Len(scopes) + 1
           caller == [F EXCEPT !.pc = F.pc + 1, !.ops = o]
           fs == [frames EXCEPT ![Len(frames)] = caller]
           s == Typing[img][F.pc]
           s2 == Typing[img][F.pc + 1]
<1>1. /\ At({67}) /\ Has(Needs) /\ c.kind = "fn"
      /\ stack' = rest /\ scopes' = Append(scopes, Called(c, args))
      /\ frames' = Append([frames EXCEPT ![Len(frames)].pc = @ + 1,
                                         ![Len(frames)].ops = Cut(@, Needs)],
                          Activation(c.n, id, rest))
      /\ UNCHANGED <<img, given, calls>>
  BY DEF CallInline, Inlined
<1>2. /\ frames # <<>> /\ Op = 67 /\ F.pc + 1 \in Nat /\ I[2] \in Nat
      /\ Needs = I[2] + 2 /\ Needs \in Nat /\ c = Nth(I[2] + 1)
      /\ I[2] + 1 \in 1 .. Len(F.ops) /\ KnownIn(img, args)
  <2>1. At({67, 68}) /\ Op = 67
    BY <1>1 DEF At
  <2> QED
    BY <1>1, <2>1, CallFacts
<1>3. /\ F = Top(frames) /\ F \in Frame /\ F.ops \in Seq(Value) /\ F.hs \in Seq(Handler)
      /\ frames \in Seq(Frame) /\ Len(frames) \in DOMAIN frames
      /\ stack \in Seq(Value) /\ Len(stack) \in Nat
      /\ \A k \in 1 .. Len(stack) : Nth(k) \in Value
  BY <1>2, Current
<1>4. Needs \in 0 .. Len(F.ops) /\ Needs \in 0 .. Len(stack) /\ Len(F.ops) \in Nat
  BY <1>1, <1>2, <1>3, Granted
<1>5. /\ img \in Images /\ F.pc \in DOMAIN Typing[img] /\ Op = OpAt(img, F.pc)
      /\ I = img.code[F.pc] /\ Running(img, F, stack) /\ s.kinds \in Seq(OperandKinds)
      /\ Len(F.ops) = Len(s.kinds) /\ Len(F.hs) = s.tries
  BY <1>2, Here
<1>6. c \in Value /\ c.n \in Nat /\ c.n \in Entries(img)
  <2>1. Known(img, c) /\ c \in Value
    <3>1. I[2] + 1 \in 1 .. Len(stack)
      BY <1>2, <1>3, <1>4
    <3> QED
      BY <1>2, <1>3, <3>1, TopIsKnown
  <2> QED
    BY <1>1, <2>1, ValueFacts DEF Known, Opens
<1>7. MayInline(img, F.pc, s)
  BY CalleeMayBeInlined
<1>8. AfterCall(s, F.pc + 1, Needs) \in Edges(img, F.pc, s)
  <2>1. OpAt(img, F.pc) = 67
    BY <1>2, <1>5
  <2>2. Edges(img, F.pc, s) = {AfterCall(s, F.pc + 1, img.code[F.pc][2] + 2)}
    BY <1>7, <2>1, CallEdge
  <2> QED
    BY <1>2, <1>5, <2>2
<1>9. /\ F.pc + 1 \in DOMAIN Typing[img]
      /\ s2.tries = s.tries /\ Len(s2.kinds) = Len(s.kinds) - Needs + 1
      /\ \A j \in DOMAIN s2.kinds : s2.kinds[j] = "anything"
  <2> DEFINE e == AfterCall(s, F.pc + 1, Needs)
  <2>1. /\ e.to = F.pc + 1 /\ e.tries = s.tries
        /\ e.kinds \in Seq(OperandKinds) /\ Len(e.kinds) = Len(s.kinds) - Needs + 1
        /\ \A j \in DOMAIN e.kinds : e.kinds[j] = "anything"
    <3> DEFINE kinds == s.kinds
    <3>1. /\ e.to = F.pc + 1 /\ e.tries = s.tries
          /\ e.kinds = Blurred(Cut(kinds, Needs) \o <<"data">>)
      BY DEF AfterCall
    <3>2. kinds \in Seq(OperandKinds) /\ Needs \in 0 .. Len(kinds)
      BY <1>4, <1>5
    <3> HIDE DEF kinds, e
    <3>3. /\ e.kinds \in Seq(OperandKinds) /\ Len(e.kinds) = Len(kinds) - Needs + 1
          /\ \A j \in DOMAIN e.kinds : e.kinds[j] = "anything"
      BY <3>1, <3>2, AfterCallKinds
    <3> QED
      BY <3>1, <3>3 DEF kinds
  <2>2. e.to \in DOMAIN Typing[img] /\ Fits(e, Typing[img][e.to])
    BY <1>5, <1>8, Checked
  <2> HIDE DEF e
  <2>3. F.pc + 1 \in DOMAIN Typing[img] /\ Fits(e, s2)
    BY <2>1, <2>2
  <2>4. s2.kinds \in Seq(OperandKinds)
    BY <1>5, <2>3, Checked
  <2>5. e.tries = s2.tries /\ Len(e.kinds) = Len(s2.kinds)
        /\ \A j \in DOMAIN s2.kinds : FitsKind(e.kinds[j], s2.kinds[j])
    BY <2>3 DEF Fits
  <2>6. DOMAIN s2.kinds = DOMAIN e.kinds
    BY <2>1, <2>4, <2>5
  <2> QED
    BY <2>1, <2>3, <2>5, <2>6 DEF FitsKind
<1>10. o \in Seq(Value) /\ Len(o) = Len(F.ops) - Needs /\ rest \in Seq(Value)
  BY <1>3, <1>4, CutFacts
<1> HIDE DEF s, s2, o, rest, args, c, id
<1>11. caller \in Frame /\ caller.pc = F.pc + 1 /\ caller.ops = o /\ caller.hs = F.hs
  BY <1>2, <1>3, <1>10 DEF Frame
<1> HIDE DEF caller
<1>12. Waiting(img, caller)
  <2>1. /\ HandlersShaped(img, F.hs) /\ ExitsShaped(img, F.hs, Len(F.hs) - Unset(img, F))
    BY <1>5 DEF Running
  <2>2. Unset(img, F) = 0
    BY <1>2, <1>5 DEF Unset
  <2>3. Len(F.hs) - 0 = Len(F.hs)
    BY <1>3
  <2>4. ExitsShaped(img, F.hs, Len(F.hs))
    BY <2>1, <2>2, <2>3
  <2>5. Len(caller.ops) + 1 = Len(s2.kinds)
    BY <1>4, <1>5, <1>9, <1>10, <1>11
  <2> QED
    BY <1>5, <1>9, <1>11, <2>1, <2>4, <2>5 DEF Waiting, s2
<1>13. fs \in Seq(Frame) /\ \A a \in DOMAIN fs : Waiting(img, fs[a])
  <2>1. \A a \in DOMAIN frames : a # Len(frames) => Waiting(img, frames[a])
    BY DEF ShapesHold, Shaped
  <2> QED
    BY <1>3, <1>11, <1>12, <2>1
<1>14. [frames EXCEPT ![Len(frames)].pc = @ + 1, ![Len(frames)].ops = Cut(@, Needs)] = fs
  <2> DEFINE n == Len(frames)
  <2>1. F = frames[n] /\ caller = [F EXCEPT !.pc = F.pc + 1, !.ops = Cut(F.ops, Needs)]
    BY DEF F, caller, o
  <2>2. [frames EXCEPT ![n].pc = @ + 1, ![n].ops = Cut(@, Needs)]
          = [frames EXCEPT ![n] = [frames[n] EXCEPT !.pc = frames[n].pc + 1,
                                       !.ops = Cut(frames[n].ops, Needs)]]
    BY <1>3 DEF Frame
  <2> QED
    BY <2>1, <2>2
<1> HIDE DEF fs
<1>15. id \in Nat /\ scopes \in Seq(ScopeObject) /\ KnownScopes(img, scopes)
  BY DEF VMInv, id, ShapesHold, KnownValues
<1>16. Shaped(img, frames', stack')
  <2>1. Shaped(img, Append(fs, Activation(c.n, id, rest)), rest)
    BY <1>5, <1>6, <1>10, <1>13, <1>15, ShapesBegin
  <2> QED
    BY <1>1, <1>14, <2>1 DEF rest, c, id
<1>17. KnownIn(img, stack')
  <2>1. KnownIn(img, Cut(stack, Needs))
    BY <1>3, <1>4, KnownCut DEF ShapesHold, KnownValues
  <2> QED
    BY <1>1, <2>1 DEF rest
<1>18. KnownScopes(img, scopes')
  <2>1. Called(c, args) \in ScopeObject
    <3>1. \A k \in DOMAIN args : args[k] \in Value
      <4>1. args \in Seq(Value)
        <5>1. Op \in Invokes
          BY <1>2 DEF Invokes
        <5> QED
          BY <1>1, <1>2, <5>1, ArgumentsAreValues DEF args
      <4> QED
        BY <4>1
    <3> QED
      BY <1>6, <3>1, CalledIsScope
  <2>2. KnownScopes(img, Append(scopes, Called(c, args)))
    BY <1>2, <1>15, <2>1, CalledIsKnown, KnownAppend
  <2> QED
    BY <1>1, <2>2 DEF c, args
<1> QED
  BY <1>1, <1>16, <1>17, <1>18 DEF ShapesHold, KnownValues

\* A step that only moves the activation and changes its handlers.
LEMMA HandlersChange ==
  ASSUME VMInv, ShapesHold, frames # <<>>, NEW g \in Frame,
         frames' = [frames EXCEPT ![Len(frames)] = g], UNCHANGED stack, Quiet,
         Running(img, g, stack)
  PROVE  ShapesHold'
<1>1. Shaped(img, [frames EXCEPT ![Len(frames)] = g], stack)
  BY Current, ShapedGoesOn DEF ShapesHold
<1> QED
  BY <1>1 DEF Quiet, ShapesHold, KnownValues

\* No kinds, no operands.
LEMMA NoKindsNoOperands ==
  ASSUME VMInv, ShapesHold, frames # <<>>, Typing[img][F.pc].kinds = <<>>
  PROVE  F.ops = <<>>
<1>1. Len(F.ops) = 0 /\ F.ops \in Seq(Value)
  BY Here, Current
<1> QED
  BY <1>1

LEMMA ShapesEnterTry == ASSUME VMInv, ShapesHold, EnterTry PROVE ShapesHold'
<1> DEFINE h == [live |-> TRUE, exit |-> 0, catch |-> F.pc + 1, ops |-> F.ops]
           hs2 == Append(F.hs, h)
           g == [F EXCEPT !.pc = I[2], !.hs = hs2]
           s == Typing[img][F.pc]
           t == Typing[img][I[2]]
           b == Typing[img][F.pc + 1]
           n == Len(F.hs)
<1>1. /\ At({62}) /\ frames' = [frames EXCEPT ![Len(frames)] = g]
      /\ UNCHANGED stack /\ Quiet
  BY DEF EnterTry, SetTop
<1>2. frames # <<>> /\ Op = 62 /\ I[2] \in Nat /\ F.pc + 1 \in Nat
  BY <1>1, Instruction DEF WithOperand
<1>3. /\ F \in Frame /\ F.hs \in Seq(Handler) /\ F.ops \in Seq(Value)
  BY <1>2, Current
<1>4. /\ img \in Images /\ F.pc \in DOMAIN Typing[img] /\ OpAt(img, F.pc) = 62
      /\ I = img.code[F.pc] /\ Running(img, F, stack) /\ n = s.tries
      /\ WellPlaced(img, F.pc, s) /\ s.tries \in Nat
  BY <1>2, Here
<1>5. s.kinds = <<>> /\ OpAt(img, I[2]) = 61 /\ F.ops = <<>>
  <2>1. s.kinds = <<>> /\ OpAt(img, img.code[F.pc][2]) = 61
    BY <1>4 DEF WellPlaced
  <2> QED
    BY <1>2, <1>4, <2>1, NoKindsNoOperands
<1>6. Edges(img, F.pc, s) = {[to |-> I[2], tries |-> n + 1, kinds |-> <<>>],
                             [to |-> F.pc + 1, tries |-> n + 1, kinds |-> <<"data">>]}
  <2>1. Edges(img, F.pc, s) =
          {[to |-> img.code[F.pc][2], tries |-> s.tries + 1, kinds |-> <<>>],
           [to |-> F.pc + 1, tries |-> s.tries + 1, kinds |-> <<"data">>]}
    BY <1>4, TryEdges
  <2> QED
    BY <1>4, <2>1
<1>7. \A e \in Edges(img, F.pc, s) :
        e.to \in DOMAIN Typing[img] /\ Fits(e, Typing[img][e.to])
  BY <1>4, Checked
<1> HIDE DEF s
<1>8. I[2] \in DOMAIN Typing[img] /\ t.tries = n + 1 /\ Len(t.kinds) = 0
      /\ t.kinds \in Seq(OperandKinds)
  <2> DEFINE e == [to |-> I[2], tries |-> n + 1, kinds |-> <<>>]
  <2>1. e.to \in DOMAIN Typing[img] /\ Fits(e, Typing[img][e.to])
    BY <1>6, <1>7
  <2>2. I[2] \in DOMAIN Typing[img] /\ Fits(e, t)
    BY <2>1
  <2>3. n + 1 = t.tries /\ Len(t.kinds) = 0
    BY <2>2 DEF Fits
  <2> QED
    BY <1>4, <2>2, <2>3, Checked
<1>9. /\ F.pc + 1 \in DOMAIN Typing[img] /\ b.tries = n + 1 /\ Len(b.kinds) = 1
      /\ b.kinds[1] # "entry"
  <2> DEFINE e == [to |-> F.pc + 1, tries |-> n + 1, kinds |-> <<"data">>]
  <2>1. e.to \in DOMAIN Typing[img] /\ Fits(e, Typing[img][e.to])
    BY <1>6, <1>7
  <2>2. F.pc + 1 \in DOMAIN Typing[img] /\ Fits(e, b)
    BY <2>1
  <2>3. b.kinds \in Seq(OperandKinds)
    BY <1>4, <2>2, Checked
  <2>4. n + 1 = b.tries /\ Len(b.kinds) = 1
        /\ \A j \in DOMAIN b.kinds : FitsKind(e.kinds[j], b.kinds[j])
    BY <2>2 DEF Fits
  <2>5. 1 \in DOMAIN b.kinds
    BY <2>3, <2>4
  <2>6. FitsKind("data", b.kinds[1])
    BY <2>4, <2>5
  <2> QED
    BY <2>2, <2>4, <2>6 DEF FitsKind
<1>10. /\ h \in Handler /\ h.ops = <<>> /\ h.catch = F.pc + 1
  BY <1>2, <1>3, <1>5 DEF Handler
<1> HIDE DEF h
<1>11. /\ hs2 \in Seq(Handler) /\ n \in Nat /\ Len(hs2) = n + 1
       /\ DOMAIN hs2 = 1 .. n + 1 /\ DOMAIN F.hs = 1 .. n
       /\ \A k \in 1 .. n : hs2[k] = F.hs[k]
       /\ hs2[n + 1] = h
  BY <1>3, <1>10, AppendProperties
<1> HIDE DEF hs2, n
<1>12. g \in Frame /\ g.pc = I[2] /\ g.hs = hs2 /\ g.ops = <<>>
  BY <1>2, <1>3, <1>5, <1>11 DEF Frame
<1> HIDE DEF g
<1>13. HandlersShaped(img, F.hs) /\ ExitsShaped(img, F.hs, n)
  <2>1. HandlersShaped(img, F.hs) /\ ExitsShaped(img, F.hs, Len(F.hs) - Unset(img, F))
    BY <1>4 DEF Running
  <2>2. Len(F.hs) - Unset(img, F) = n
    BY <1>4, <1>11 DEF Unset, n
  <2> QED
    BY <2>1, <2>2
<1>14. HandlersShaped(img, hs2)
  <2>1. ASSUME NEW k \in DOMAIN hs2
        PROVE  /\ hs2[k].ops = <<>>
               /\ hs2[k].catch \in DOMAIN Typing[img]
               /\ Typing[img][hs2[k].catch].tries = k
               /\ Len(Typing[img][hs2[k].catch].kinds) = 1
               /\ Typing[img][hs2[k].catch].kinds[1] # "entry"
    <3>1. CASE k = n + 1
      BY <1>9, <1>10, <1>11, <3>1
    <3>2. CASE k # n + 1
      <4>1. k \in 1 .. n /\ k \in DOMAIN F.hs
        BY <1>11, <3>2
      <4> QED
        BY <1>11, <1>13, <4>1 DEF HandlersShaped
    <3> QED
      BY <3>1, <3>2
  <2> QED
    BY <2>1 DEF HandlersShaped
<1>15. ExitsShaped(img, g.hs, Len(g.hs) - Unset(img, g))
  <2>1. Len(g.hs) - Unset(img, g) = n
    BY <1>5, <1>11, <1>12 DEF Unset
  <2>2. ExitsShaped(img, hs2, n)
    BY <1>11, <1>13 DEF ExitsShaped
  <2> QED
    BY <1>12, <2>1, <2>2
<1>16. Showing(img, stack, t.kinds)
  <2>1. DOMAIN t.kinds = {}
    BY <1>8
  <2> QED
    BY <2>1 DEF Showing
<1>17. Running(img, g, stack)
  BY <1>8, <1>11, <1>12, <1>14, <1>15, <1>16 DEF Running
<1>18. frames' = [frames EXCEPT ![Len(frames)] = g]
  BY <1>1 DEF g, hs2, h
<1> QED
  BY <1>1, <1>2, <1>12, <1>17, <1>18, HandlersChange

LEMMA ShapesSetExit == ASSUME VMInv, ShapesHold, SetExit PROVE ShapesHold'
<1> DEFINE n == Len(F.hs)
           h == [F.hs[n] EXCEPT !.exit = I[2]]
           hs2 == [F.hs EXCEPT ![n] = h]
           g == [F EXCEPT !.pc = F.pc + 1, !.hs = hs2]
           s == Typing[img][F.pc]
           b == Typing[img][F.pc + 1]
           x == Typing[img][I[2]]
<1>1. /\ At({61}) /\ F.hs # <<>>
      /\ frames' = [frames EXCEPT ![Len(frames)] =
                      [F EXCEPT !.pc = @ + 1, !.hs[Len(F.hs)].exit = I[2]]]
      /\ UNCHANGED stack /\ Quiet
  BY DEF SetExit, SetTop
<1>2. frames # <<>> /\ Op = 61 /\ I[2] \in Nat /\ F.pc + 1 \in Nat
  BY <1>1, Instruction DEF WithOperand
<1>3. /\ F \in Frame /\ F.hs \in Seq(Handler) /\ F.ops \in Seq(Value)
  BY <1>2, Current
<1>4. /\ img \in Images /\ F.pc \in DOMAIN Typing[img] /\ OpAt(img, F.pc) = 61
      /\ I = img.code[F.pc] /\ Running(img, F, stack) /\ n = s.tries
      /\ s.tries \in Nat /\ s.kinds \in Seq(OperandKinds)
      /\ Len(F.ops) = Len(s.kinds)
  BY <1>2, Here
<1>5. Edges(img, F.pc, s) =
        {Edge(s, F.pc + 1, 0, <<>>), [to |-> I[2], tries |-> n - 1, kinds |-> <<>>]}
  <2>1. Edges(img, F.pc, s) =
          {Edge(s, F.pc + 1, 0, <<>>),
           [to |-> img.code[F.pc][2], tries |-> s.tries - 1, kinds |-> <<>>]}
    BY <1>4, ExitEdges
  <2> QED
    BY <1>4, <2>1
<1>6. \A e \in Edges(img, F.pc, s) :
        e.to \in DOMAIN Typing[img] /\ Fits(e, Typing[img][e.to])
  BY <1>4, Checked
<1>7. Cut(s.kinds, 0) \o <<>> = s.kinds
  <2>1. Cut(s.kinds, 0) = s.kinds
    <3> DEFINE kinds == s.kinds
               c == Cut(kinds, 0)
    <3>1. kinds \in Seq(OperandKinds) /\ Len(kinds) \in Nat /\ 0 \in 0 .. Len(kinds)
      BY <1>4
    <3> HIDE DEF kinds
    <3>2. /\ c \in Seq(OperandKinds) /\ Len(c) = Len(kinds)
          /\ \A k \in 1 .. Len(kinds) : c[k] = kinds[k]
      <4>1. /\ c \in Seq(OperandKinds) /\ Len(c) = Len(kinds) - 0
            /\ \A k \in 1 .. Len(kinds) - 0 : c[k] = kinds[k]
        BY <3>1, CutFacts
      <4> QED
        BY <3>1, <4>1
    <3> HIDE DEF c
    <3>3. c = kinds
      BY <3>1, <3>2, SeqEqual
    <3> QED
      BY <3>3 DEF c, kinds
  <2> QED
    BY <1>4, <2>1, ConcatEmptySeq
<1>8. /\ F.pc + 1 \in DOMAIN Typing[img] /\ b.tries = n /\ Len(F.ops) = Len(b.kinds)
      /\ Showing(img, stack, b.kinds)
  <2> DEFINE e == Edge(s, F.pc + 1, 0, <<>>)
  <2>1. e.to = F.pc + 1 /\ e.tries = n /\ e.kinds = s.kinds
    BY <1>4, <1>7 DEF Edge
  <2>2. e.to \in DOMAIN Typing[img] /\ Fits(e, Typing[img][e.to])
    BY <1>5, <1>6
  <2> HIDE DEF e
  <2>3. F.pc + 1 \in DOMAIN Typing[img] /\ Fits(e, b)
    BY <2>1, <2>2
  <2>4. b.kinds \in Seq(OperandKinds)
    BY <1>4, <2>3, Checked
  <2>5. Showing(img, stack, e.kinds) /\ e.kinds \in Seq(OperandKinds)
    BY <1>4, <2>1 DEF Running
  <2>6. Showing(img, stack, b.kinds)
    BY <2>3, <2>4, <2>5, FittingShows
  <2>7. e.tries = b.tries /\ Len(e.kinds) = Len(b.kinds)
    BY <2>3 DEF Fits
  <2> QED
    BY <1>4, <2>1, <2>3, <2>6, <2>7
<1>9. I[2] \in DOMAIN Typing[img] /\ x.tries = n - 1 /\ x.kinds = <<>>
  <2> DEFINE e == [to |-> I[2], tries |-> n - 1, kinds |-> <<>>]
  <2>1. e.to \in DOMAIN Typing[img] /\ Fits(e, Typing[img][e.to])
    BY <1>5, <1>6
  <2>2. I[2] \in DOMAIN Typing[img] /\ Fits(e, x)
    BY <2>1
  <2>3. n - 1 = x.tries /\ Len(x.kinds) = 0
    BY <2>2 DEF Fits
  <2>4. x.kinds \in Seq(OperandKinds)
    BY <1>4, <2>2, Checked
  <2> QED
    BY <2>2, <2>3, <2>4
<1>10. n \in 1 .. n /\ n \in Nat /\ DOMAIN F.hs = 1 .. n
  BY <1>1, <1>3
<1>11. h \in Handler /\ h.ops = F.hs[n].ops /\ h.catch = F.hs[n].catch /\ h.exit = I[2]
  <2>1. F.hs[n] \in Handler
    BY <1>3, <1>10
  <2> QED
    BY <1>2, <2>1 DEF Handler
<1>12. [F EXCEPT !.pc = @ + 1, !.hs[Len(F.hs)].exit = I[2]] = g
  BY <1>3 DEF Frame
<1>13. HandlersShaped(img, F.hs) /\ ExitsShaped(img, F.hs, n - 1)
  BY <1>4 DEF Running, Unset
<1> HIDE DEF h, n, s, b, x
<1>14. /\ hs2 \in Seq(Handler) /\ Len(hs2) = n /\ DOMAIN hs2 = 1 .. n
       /\ \A k \in 1 .. n : hs2[k] = IF k = n THEN h ELSE F.hs[k]
  <2>1. F.hs \in Seq(Handler) /\ n = Len(F.hs)
    BY <1>3 DEF n
  <2> QED
    BY <1>10, <1>11, <2>1, ExceptSeq
<1> HIDE DEF hs2
<1>15. g \in Frame /\ g.pc = F.pc + 1 /\ g.ops = F.ops /\ g.hs = hs2
  BY <1>2, <1>3, <1>14 DEF Frame
<1> HIDE DEF g
<1>16. HandlersShaped(img, hs2)
  <2>1. \A k \in DOMAIN hs2 : /\ k \in DOMAIN F.hs
                              /\ hs2[k].ops = F.hs[k].ops
                              /\ hs2[k].catch = F.hs[k].catch
    BY <1>10, <1>11, <1>14
  <2> QED
    BY <1>13, <2>1 DEF HandlersShaped
<1>17. ExitsShaped(img, hs2, n)
  <2>1. ASSUME NEW k \in 1 .. n
        PROVE  /\ hs2[k].exit \in DOMAIN Typing[img]
               /\ Typing[img][hs2[k].exit].tries = k - 1
               /\ Typing[img][hs2[k].exit].kinds = <<>>
    <3>1. CASE k = n
      BY <1>9, <1>11, <1>14, <3>1 DEF x
    <3>2. CASE k # n
      <4>1. k \in 1 .. n - 1
        BY <1>10, <3>2
      <4> QED
        BY <1>13, <1>14, <3>2, <4>1 DEF ExitsShaped
    <3> QED
      BY <3>1, <3>2
  <2> QED
    BY <2>1 DEF ExitsShaped
<1>18. ExitsShaped(img, g.hs, Len(g.hs) - Unset(img, g))
  <2>1. \A k \in 1 .. Len(g.hs) - Unset(img, g) : k \in 1 .. n
    BY <1>10, <1>14, <1>15 DEF Unset
  <2> QED
    BY <1>15, <1>17, <2>1 DEF ExitsShaped
<1>19. Running(img, g, stack)
  BY <1>8, <1>14, <1>15, <1>16, <1>18 DEF Running, b
<1>20. frames' = [frames EXCEPT ![Len(frames)] = g]
  BY <1>1, <1>12 DEF g, hs2, h, n
<1> QED
  BY <1>1, <1>2, <1>15, <1>19, <1>20, HandlersChange

\* With the inner handlers dropped the others are as they were.
LEMMA FewerShaped ==
  ASSUME NEW m, NEW hs \in Seq(Handler), NEW n \in 0 .. Len(hs), NEW k \in Nat,
         HandlersShaped(m, hs), ExitsShaped(m, hs, Len(hs) - k), n <= Len(hs) - k
  PROVE  /\ SubSeq(hs, 1, n) \in Seq(Handler) /\ Len(SubSeq(hs, 1, n)) = n
         /\ \A h \in 1 .. n : SubSeq(hs, 1, n)[h] = hs[h]
         /\ HandlersShaped(m, SubSeq(hs, 1, n)) /\ ExitsShaped(m, SubSeq(hs, 1, n), n)
<1> DEFINE r == SubSeq(hs, 1, n)
<1>1. /\ r \in Seq(Handler) /\ Len(r) = n /\ DOMAIN r = 1 .. n
      /\ \A h \in 1 .. n : r[h] = hs[h]
  <2>1. \A h \in 1 .. n : hs[h] \in Handler
    OBVIOUS
  <2>2. /\ r \in Seq(Handler) /\ Len(r) = IF 1 <= n THEN n - 1 + 1 ELSE 0
        /\ \A h \in 1 .. n - 1 + 1 : r[h] = hs[1 + h - 1]
    BY <2>1, SubSeqProperties
  <2> HIDE DEF r
  <2>3. n \in Nat /\ n - 1 + 1 = n /\ \A h \in 1 .. n : 1 + h - 1 = h
    OBVIOUS
  <2>4. Len(r) = n /\ \A h \in 1 .. n : r[h] = hs[h]
    BY <2>2, <2>3
  <2>5. DOMAIN r = 1 .. Len(r)
    BY <2>2
  <2> QED
    BY <2>2, <2>4, <2>5
<1> HIDE DEF r
<1>2. \A h \in 1 .. n : h \in DOMAIN hs /\ h \in 1 .. Len(hs) - k
  OBVIOUS
<1>3. HandlersShaped(m, r)
  BY <1>1, <1>2 DEF HandlersShaped
<1>4. ExitsShaped(m, r, n)
  BY <1>1, <1>2 DEF ExitsShaped
<1> QED
  BY <1>1, <1>3, <1>4 DEF r

LEMMA ShapesLeaveTry == ASSUME VMInv, ShapesHold, LeaveTry PROVE ShapesHold'
<1> DEFINE n == Len(F.hs)
           hs2 == SubSeq(F.hs, 1, n - 1)
           x == F.hs[n].exit
           g == [F EXCEPT !.pc = x, !.hs = hs2]
<1>1. /\ At({65}) /\ F.hs # <<>> /\ frames' = [frames EXCEPT ![Len(frames)] = g]
      /\ UNCHANGED stack /\ Quiet
  BY DEF LeaveTry, SetTop, Cut
<1>2. frames # <<>> /\ Op = 65
  BY <1>1, Instruction
<1>3. /\ F \in Frame /\ F.hs \in Seq(Handler) /\ F.ops \in Seq(Value)
  BY <1>2, Current
<1>4. /\ img \in Images /\ OpAt(img, F.pc) = 65 /\ Running(img, F, stack)
      /\ WellPlaced(img, F.pc, Typing[img][F.pc])
  BY <1>2, Here
<1>5. F.ops = <<>>
  BY <1>2, <1>4, NoKindsNoOperands DEF WellPlaced
<1>6. n \in 1 .. n /\ n \in Nat /\ n - 1 \in 0 .. n
  BY <1>1, <1>3
<1>7. HandlersShaped(img, F.hs) /\ ExitsShaped(img, F.hs, n - 0)
  BY <1>4 DEF Running, Unset
<1>8. /\ x \in DOMAIN Typing[img] /\ Typing[img][x].tries = n - 1
      /\ Typing[img][x].kinds = <<>> /\ x \in Nat
  <2>1. n \in 1 .. n - 0 /\ F.hs[n] \in Handler
    BY <1>3, <1>6
  <2>2. x \in Nat
    BY <2>1 DEF Handler
  <2> HIDE DEF n
  <2> QED
    BY <1>7, <2>1, <2>2 DEF ExitsShaped
<1>9. /\ hs2 \in Seq(Handler) /\ Len(hs2) = n - 1
      /\ HandlersShaped(img, hs2) /\ ExitsShaped(img, hs2, n - 1)
  <2>1. n - 1 <= n - 0
    BY <1>6
  <2> QED
    BY <1>3, <1>6, <1>7, <2>1, FewerShaped
<1> HIDE DEF x, hs2
<1>10. g \in Frame /\ g.pc = x /\ g.hs = hs2 /\ g.ops = <<>>
  BY <1>3, <1>5, <1>8, <1>9 DEF Frame
<1> HIDE DEF g, n
<1>11. ExitsShaped(img, g.hs, Len(g.hs) - Unset(img, g))
  <2>1. \A k \in 1 .. Len(g.hs) - Unset(img, g) : k \in 1 .. n - 1
    BY <1>6, <1>9, <1>10 DEF Unset
  <2> QED
    BY <1>9, <1>10, <2>1 DEF ExitsShaped
<1>12. Running(img, g, stack)
  <2>1. Showing(img, stack, <<>>) /\ Len(g.ops) = 0
    BY <1>10 DEF Showing
  <2> QED
    BY <1>8, <1>9, <1>10, <1>11, <2>1 DEF Running
<1>13. frames' = [frames EXCEPT ![Len(frames)] = g]
  BY <1>1 DEF g, hs2, x, n
<1> QED
  BY <1>1, <1>2, <1>10, <1>12, <1>13, HandlersChange

\* A result: the caller waits for one operand, of which nothing is known.
LEMMA ShapesReturn == ASSUME VMInv, ShapesHold, Return PROVE ShapesHold'
<1>1. At({66}) /\ Has(1) /\ UNCHANGED <<img, scopes, calls>>
  BY DEF Return
<1>2. frames # <<>>
  BY <1>1, Instruction
<1>3. Nth(1) \in Value /\ Known(img, Nth(1)) /\ 1 <= Len(stack)
  BY <1>1, <1>2, OperandIsValue, TopIsKnown, Granted
<1>4. /\ frames \in Seq(Frame) /\ stack \in Seq(Value) /\ Len(stack) \in Nat
      /\ Len(frames) \in DOMAIN frames
  BY <1>2, Current
<1>5. CASE Len(frames) > 1
  <2> DEFINE n == Len(frames)
             f == frames[n - 1]
             v == Nth(1)
             g == [f EXCEPT !.ops = Append(f.ops, v)]
             s2 == Cut(stack, 1) \o <<v>>
             s == Typing[img][f.pc]
  <2>1. /\ stack' = s2 /\ frames' = Append(Cut(frames, 2), g) /\ UNCHANGED given
    BY <1>5 DEF Return
  <2>2. n \in Nat /\ n > 1 /\ n - 1 \in DOMAIN frames /\ n - 1 # n /\ f \in Frame
    BY <1>4, <1>5
  <2>3. Waiting(img, f)
    BY <2>2 DEF ShapesHold, Shaped
  <2>4. f.ops \in Seq(Value) /\ f.hs \in Seq(Handler)
    BY <2>2, FrameFacts
  <2> HIDE DEF v
  <2>5. Append(f.ops, v) \in Seq(Value) /\ Len(Append(f.ops, v)) = Len(f.ops) + 1
    BY <1>3, <2>4, AppendProperties DEF v
  <2> HIDE DEF f
  <2>6. g \in Frame /\ g.pc = f.pc /\ g.hs = f.hs /\ Len(g.ops) = Len(f.ops) + 1
    BY <2>2, <2>5 DEF Frame
  <2> HIDE DEF g, s2
  <2>7. Running(img, g, s2)
    <3>1. /\ f.pc \in DOMAIN Typing[img] /\ Len(f.hs) = s.tries
          /\ Len(f.ops) + 1 = Len(s.kinds)
          /\ \A j \in DOMAIN s.kinds : s.kinds[j] = "anything"
          /\ HandlersShaped(img, f.hs) /\ ExitsShaped(img, f.hs, Len(f.hs))
      BY <2>3 DEF Waiting
    <3>2. Showing(img, s2, s.kinds)
      BY <3>1, AnythingIs DEF Showing
    <3>3. \A k \in 1 .. Len(f.hs) - Unset(img, g) : k \in 1 .. Len(f.hs)
      BY <2>4 DEF Unset
    <3>4. ExitsShaped(img, g.hs, Len(g.hs) - Unset(img, g))
      BY <2>6, <3>1, <3>3 DEF ExitsShaped
    <3> QED
      BY <2>6, <3>1, <3>2, <3>4 DEF Running
  <2>8. Cut(frames, 2) = SubSeq(frames, 1, (n - 1) - 1)
    BY <2>2 DEF Cut
  <2>9. Shaped(img, frames', stack')
    <3>1. Shaped(img, Append(SubSeq(frames, 1, (n - 1) - 1), g), s2)
      BY <1>4, <2>2, <2>6, <2>7, ShapedResume DEF ShapesHold
    <3> QED
      BY <2>1, <2>8, <3>1 DEF g, s2
  <2>10. KnownIn(img, stack')
    <3>1. 1 \in 0 .. Len(stack)
      BY <1>3, <1>4
    <3>2. Cut(stack, 1) \in Seq(Value) /\ KnownIn(img, Cut(stack, 1))
      BY <1>4, <3>1, CutFacts, KnownCut DEF ShapesHold, KnownValues
    <3>3. <<v>> \in Seq(Value) /\ KnownIn(img, <<v>>)
      BY <1>3, OneValue, KnownOne DEF v
    <3> QED
      BY <2>1, <3>2, <3>3, KnownConcat DEF s2
  <2> QED
    BY <1>1, <2>1, <2>9, <2>10 DEF ShapesHold, KnownValues
<1>6. CASE ~(Len(frames) > 1)
  <2>1. frames' = <<>> /\ stack' = <<>> /\ given' \subseteq given \cup Closures(<<Nth(1)>>)
    BY <1>6 DEF Return
  <2>2. \A v \in given' : Opens(img, v)
    BY <1>3, <2>1, KnownOne, GivenKeeps
  <2>3. Shaped(img, <<>>, <<>>) /\ KnownIn(img, <<>>)
    BY DEF Shaped, KnownIn
  <2> QED
    BY <1>1, <2>1, <2>2, <2>3 DEF ShapesHold, KnownValues
<1> QED
  BY <1>5, <1>6

\* An exception: the catch body finds it and nothing else.
LEMMA ShapesThrow == ASSUME VMInv, ShapesHold, Throw PROVE ShapesHold'
<1>1. At(CanThrow) /\ Has(Needs) /\ Quiet
  BY DEF Throw
<1>2. /\ frames # <<>> /\ F.pc \in Nat /\ Op \in CanThrow
      /\ Op \in WithOperand => I[2] \in Nat
  BY <1>1, Instruction
<1>3. Op # 61
  BY <1>2 DEF CanThrow, Computes, Reads, Coercions, Tests, Pure, Writes, Invokes
<1>4. CASE Catchers # {}
  <2> DEFINE a == Greatest(Catchers)
             h == Greatest(LiveHandlers(a))
             f == frames[a]
             e == Plain("any", F.pc)
             rest == Cut(stack, Taken)
             s2 == Append(rest, e)
             dead == [f.hs[h] EXCEPT !.live = FALSE]
             inner == SubSeq(f.hs, 1, h - 1)
             hs2 == Append(inner, dead)
             c == f.hs[h].catch
             g == [f EXCEPT !.pc = c, !.hs = hs2, !.ops = Append(f.hs[h].ops, e)]
             s == Typing[img][c]
  <2>1. stack' = s2 /\ frames' = Append(SubSeq(frames, 1, a - 1), g)
    BY <1>4 DEF Throw, Catch
  <2>2. /\ frames \in Seq(Frame) /\ Len(frames) \in Nat /\ DOMAIN frames = 1 .. Len(frames)
        /\ F = Top(frames) /\ img \in Images /\ F.hs \in Seq(Handler)
        /\ stack \in Seq(Value) /\ Len(stack) \in Nat
    BY <1>2, Current DEF VMInv
  <2>3. a \in Catchers
    <3>1. Catchers \subseteq 1 .. Len(frames)
      BY <2>2 DEF Catchers
    <3> QED
      BY <1>4, <2>2, <3>1, GreatestIsThere
  <2> HIDE DEF a
  <2>4. a \in DOMAIN frames /\ f \in Frame /\ LiveHandlers(a) # {}
    BY <2>2, <2>3 DEF Catchers
  <2>5. /\ f.hs \in Seq(Handler) /\ Len(f.hs) \in Nat /\ DOMAIN f.hs = 1 .. Len(f.hs)
    BY <2>4, FrameFacts
  <2>6. h \in LiveHandlers(a)
    <3>1. LiveHandlers(a) \subseteq 1 .. Len(f.hs)
      BY <2>5 DEF LiveHandlers
    <3> QED
      BY <2>4, <2>5, <3>1, GreatestIsThere
  <2> HIDE DEF h
  <2>7. /\ h \in DOMAIN f.hs /\ f.hs[h] \in Handler /\ h \in 1 .. Len(f.hs)
    BY <2>5, <2>6 DEF LiveHandlers
  <2>8. HandlersShaped(img, f.hs) /\ ExitsShaped(img, f.hs, Len(f.hs) - 0)
    <3>1. CASE a = Len(frames)
      <4>1. f = F /\ Running(img, F, stack) /\ Op = OpAt(img, F.pc)
        BY <1>2, <2>2, <3>1, Here DEF Top
      <4>2. Unset(img, F) = 0
        BY <1>3, <4>1 DEF Unset
      <4> HIDE DEF f
      <4> QED
        BY <4>1, <4>2 DEF Running
    <3>2. CASE a # Len(frames)
      <4>1. Waiting(img, f)
        BY <2>4, <3>2 DEF ShapesHold, Shaped
      <4>2. Len(f.hs) - 0 = Len(f.hs)
        BY <2>5
      <4> HIDE DEF f
      <4> QED
        BY <4>1, <4>2 DEF Waiting
    <3> QED
      BY <3>1, <3>2
  <2> HIDE DEF f
  <2>9. /\ f.hs[h].ops = <<>> /\ c \in DOMAIN Typing[img] /\ s.tries = h
        /\ Len(s.kinds) = 1 /\ s.kinds[1] # "entry"
    BY <2>7, <2>8 DEF HandlersShaped
  <2>10. dead \in Handler /\ dead.ops = <<>> /\ dead.exit = f.hs[h].exit /\ dead.catch = c
         /\ c \in Nat
    BY <2>7, <2>9 DEF Handler
  <2>11. e \in Value /\ Known(img, e) /\ IsA(img, e, "data")
    BY <1>2, ValueFacts, PlainIsKnown DEF Kinds
  <2> HIDE DEF dead, e
  <2>12. /\ inner \in Seq(Handler) /\ Len(inner) = h - 1
         /\ \A k \in 1 .. h - 1 : inner[k] = f.hs[k]
    <3>1. h - 1 \in 0 .. Len(f.hs) /\ h - 1 <= Len(f.hs) - 0
      BY <2>5, <2>7
    <3> QED
      BY <2>5, <2>8, <3>1, FewerShaped
  <2> HIDE DEF inner
  <2>13. /\ hs2 \in Seq(Handler) /\ DOMAIN hs2 = 1 .. h /\ hs2[h] = dead /\ Len(hs2) = h
         /\ \A k \in 1 .. h - 1 : hs2[k] = f.hs[k]
    <3>1. /\ hs2 \in Seq(Handler) /\ Len(hs2) = Len(inner) + 1
          /\ \A k \in 1 .. Len(inner) : hs2[k] = inner[k]
          /\ hs2[Len(inner) + 1] = dead
      BY ONLY <2>10, <2>12, AppendProperties
    <3>2. Len(inner) + 1 = h /\ h \in Nat
      BY ONLY <2>5, <2>7, <2>12
    <3> QED
      BY <2>12, <3>1, <3>2
  <2> HIDE DEF hs2
  <2>14. Append(f.hs[h].ops, e) = <<e>> /\ <<e>> \in Seq(Value) /\ Len(<<e>>) = 1
    BY <2>9, <2>11, OneValue
  <2>15. /\ g \in Frame /\ g.pc = c /\ g.hs = hs2 /\ g.ops = <<e>>
    BY <2>4, <2>10, <2>13, <2>14 DEF Frame
  <2> HIDE DEF g, c
  <2>16. /\ \A k \in 1 .. h : /\ k \in DOMAIN f.hs /\ k \in 1 .. Len(f.hs) - 0
                              /\ hs2[k].ops = <<>>
                              /\ hs2[k].catch = f.hs[k].catch
                              /\ hs2[k].exit = f.hs[k].exit
    <3>1. ASSUME NEW k \in 1 .. h
          PROVE  /\ k \in DOMAIN f.hs /\ k \in 1 .. Len(f.hs) - 0
                 /\ hs2[k].ops = <<>>
                 /\ hs2[k].catch = f.hs[k].catch
                 /\ hs2[k].exit = f.hs[k].exit
      <4>1. k \in DOMAIN f.hs /\ k \in 1 .. Len(f.hs) - 0
        BY <2>5, <2>7
      <4>2. f.hs[k].ops = <<>>
        BY <2>8, <4>1 DEF HandlersShaped
      <4>3. CASE k = h
        BY <2>10, <2>13, <4>1, <4>3 DEF c
      <4>4. CASE k # h
        <5>1. k \in 1 .. h - 1
          BY <2>7, <4>4
        <5> QED
          BY <2>13, <4>1, <4>2, <5>1
      <4> QED
        BY <4>3, <4>4
    <3> QED
      BY <3>1
  <2>17. HandlersShaped(img, hs2)
    BY <2>8, <2>13, <2>16 DEF HandlersShaped
  <2>18. ExitsShaped(img, g.hs, Len(g.hs) - Unset(img, g))
    <3>1. \A k \in 1 .. Len(g.hs) - Unset(img, g) : k \in 1 .. h
      BY <2>5, <2>7, <2>13, <2>15 DEF Unset
    <3> QED
      BY <2>8, <2>15, <2>16, <3>1 DEF ExitsShaped
  <2>19. /\ rest \in Seq(Value) /\ KnownIn(img, rest) /\ s2 \in Seq(Value)
         /\ s2[Len(s2)] = e /\ Len(s2) \in Nat /\ KnownIn(img, s2)
    <3>1. Needs \in Nat /\ Taken \in Nat /\ Taken <= Needs
      BY <1>2, TakesWhatItNeeds
    <3>2. Needs <= Len(stack)
      BY <1>1, <1>2, <3>1, Granted
    <3>3. Taken \in 0 .. Len(stack)
      BY <2>2, <3>1, <3>2
    <3>4. rest \in Seq(Value) /\ KnownIn(img, rest)
      BY <2>2, <3>3, CutFacts, KnownCut DEF ShapesHold, KnownValues
    <3> HIDE DEF rest
    <3>5. /\ s2 \in Seq(Value) /\ Len(s2) = Len(rest) + 1 /\ s2[Len(rest) + 1] = e
          /\ \A k \in 1 .. Len(rest) : s2[k] = rest[k]
      BY <2>11, <3>4, AppendProperties
    <3> HIDE DEF s2
    <3>6. \A k \in DOMAIN s2 : k \in DOMAIN rest \/ k = Len(rest) + 1
      BY <3>4, <3>5
    <3>7. \A k \in DOMAIN rest : k \in 1 .. Len(rest)
      BY <3>4
    <3>8. KnownIn(img, s2)
      BY <2>11, <3>4, <3>5, <3>6, <3>7 DEF KnownIn
    <3> QED
      BY <3>4, <3>5, <3>8
  <2> HIDE DEF rest, s2
  <2>20. Showing(img, s2, s.kinds)
    <3>1. s.kinds \in Seq(OperandKinds)
      BY <2>2, <2>9, Checked
    <3>2. s.kinds[1] \in {"data", "anything"} /\ DOMAIN s.kinds = {1}
      <4>1. DOMAIN s.kinds = 1 .. 1
        BY <2>9, <3>1
      <4> QED
        BY <2>9, <3>1, <4>1 DEF OperandKinds
    <3>3. IsA(img, e, s.kinds[1])
      BY <2>11, <3>2, AnythingIs
    <3>4. Len(s2) - 1 + 1 = Len(s2)
      BY <2>19
    <3> HIDE DEF s
    <3> QED
      BY <2>9, <2>19, <3>2, <3>3, <3>4 DEF Showing
  <2>21. Running(img, g, s2)
    BY <2>9, <2>13, <2>14, <2>15, <2>17, <2>18, <2>20 DEF Running
  <2>22. Shaped(img, frames', stack')
    <3>1. Shaped(img, frames, stack)
      BY DEF ShapesHold
    <3>2. Shaped(img, Append(SubSeq(frames, 1, a - 1), g), s2)
      BY <2>2, <2>4, <2>15, <2>21, <3>1, ShapedResume
    <3> QED
      BY <2>1, <3>2 DEF g, hs2, inner, dead, c, e, f, h, a, s2, rest
  <2>23. KnownIn(img, stack')
    BY <2>1, <2>19 DEF s2, rest, e
  <2> QED
    BY <1>1, <2>22, <2>23 DEF Quiet, ShapesHold, KnownValues
<1>5. CASE ~(Catchers # {})
  <2>1. frames' = <<>> /\ stack' = <<>>
    BY <1>5 DEF Throw
  <2>2. Shaped(img, <<>>, <<>>) /\ KnownIn(img, <<>>)
    BY DEF Shaped, KnownIn
  <2> QED
    BY <1>1, <2>1, <2>2 DEF Quiet, ShapesHold, KnownValues
<1> QED
  BY <1>4, <1>5

LEMMA ShapesHostCalls == ASSUME VMInv, ShapesHold, HostCalls PROVE ShapesHold'
<1>1. PICK c \in given :
        /\ scopes' = Append(scopes, Called(c, [s \in 1 .. c.arity |-> Plain("any", c.n)]))
        /\ frames' = <<Activation(c.n, Len(scopes) + 1, <<>>)>>
  BY DEF HostCalls
<1>2. stack' = <<>> /\ UNCHANGED <<img, given>>
  BY DEF HostCalls
<1>3. c \in Value /\ c.n \in Nat /\ Plain("any", c.n) \in Value /\ c.n \in Entries(img)
  <2>1. c \in Value /\ Opens(img, c)
    BY DEF VMInv, ShapesHold, KnownValues
  <2> QED
    BY <2>1, ValueFacts DEF Kinds, Opens
<1>4. /\ scopes \in Seq(ScopeObject) /\ Len(scopes) + 1 \in Nat /\ img \in Images
      /\ KnownScopes(img, scopes)
  BY DEF VMInv, ShapesHold, KnownValues
<1>5. KnownScopes(img, scopes')
  <2> DEFINE args == [s \in 1 .. c.arity |-> Plain("any", c.n)]
  <2>1. (\A k \in DOMAIN args : args[k] \in Value) /\ KnownIn(img, args)
    BY <1>3, PlainIsKnown DEF KnownIn
  <2>2. scopes' = Append(scopes, Called(c, args))
    BY <1>1
  <2> HIDE DEF args
  <2>3. Called(c, args) \in ScopeObject /\ \A s \in Slots : Known(img, Called(c, args).slots[s])
    BY <1>3, <2>1, CalledIsScope, CalledIsKnown
  <2> QED
    BY <1>4, <2>2, <2>3, KnownAppend
<1>6. Shaped(img, frames', stack')
  <2> DEFINE g == Activation(c.n, Len(scopes) + 1, <<>>)
             none == <<>>
  <2>1. none \in Seq(Frame) /\ \A k \in DOMAIN none : Waiting(img, none[k])
    OBVIOUS
  <2>2. <<>> \in Seq(Value)
    OBVIOUS
  <2> HIDE DEF none
  <2>3. Shaped(img, Append(none, g), <<>>)
    BY <1>3, <1>4, <2>1, <2>2, ShapesBegin
  <2>4. frames' = <<g>>
    BY <1>1
  <2> HIDE DEF g
  <2>5. Append(none, g) = <<g>>
    BY DEF none
  <2> QED
    BY <1>2, <2>3, <2>4, <2>5
<1>7. KnownIn(img, stack')
  BY <1>2, KnownNone
<1> QED
  BY <1>2, <1>5, <1>6, <1>7 DEF ShapesHold, KnownValues

LEMMA ShapesInit == Init => ShapesHold
<1> SUFFICES ASSUME Init PROVE ShapesHold
  OBVIOUS
<1>1. img \in Images /\ scopes = img.scopes /\ given = img.given
      /\ frames = <<>> /\ stack = <<>>
  BY DEF Init
<1>2. ASSUME NEW id \in DOMAIN img.scopes, NEW s \in Slots
      PROVE  Known(img, img.scopes[id].slots[s])
  BY DEF Known, Opens, Entries, Slotted
<1>3. \A v \in img.given : Opens(img, v)
  BY DEF Opens, Entries
<1>4. Shaped(img, <<>>, <<>>) /\ KnownIn(img, <<>>)
  BY DEF Shaped, KnownIn
<1> QED
  BY <1>1, <1>2, <1>3, <1>4 DEF ShapesHold, KnownValues, KnownScopes

LEMMA ShapesNext == VMInv /\ ShapesHold /\ [Next]_vars => ShapesHold'
<1> SUFFICES ASSUME VMInv, ShapesHold, [Next]_vars PROVE ShapesHold'
  OBVIOUS
<1>1. CASE Execute
  BY <1>1, ShapesPushConstant, ShapesMakeArray, ShapesCompute, ShapesLoad, ShapesStore,
     ShapesPushRef, ShapesWrite, ShapesMakeClosure, ShapesJump, ShapesBranch, ShapesPop,
     ShapesDup, ShapesForIn, ShapesNextKey, ShapesEnterTry, ShapesSetExit,
     ShapesLeaveTry, ShapesCallInline, ShapesCallHost, ShapesReturn, ShapesThrow
  DEF Execute
<1>2. CASE HostCalls
  BY <1>2, ShapesHostCalls
<1>3. CASE Finished \/ UNCHANGED vars
  <2>1. UNCHANGED vars
    BY <1>3 DEF Finished
  <2> QED
    BY <2>1 DEF vars, ShapesHold, KnownValues
<1> QED
  BY <1>1, <1>2, <1>3 DEF Next

LEMMA ShapesAlways == FairSpec => [](VMInv /\ ShapesHold)
<1>1. Init => VMInv /\ ShapesHold
  BY VMInit, ShapesInit
<1>2. VMInv /\ ShapesHold /\ [Next]_vars => (VMInv /\ ShapesHold)'
  BY VMNext, ShapesNext
<1> QED
  BY <1>1, <1>2, PTL DEF FairSpec, Spec

(***************************************************************************)
(* A verified program never lacks an operand: whatever it throws, calls    *)
(* and returns, every instruction finds in the expression of its own       *)
(* activation, above the innermost open try, what it reads from the array, *)
(* and opcodes 61 and 65 find the handler that they change or drop.        *)
(***************************************************************************)
THEOREM OperandsNeverLack == FairSpec => []OperandsAreThere
<1>1. ASSUME VMInv, ShapesHold PROVE OperandsAreThere
  <2> SUFFICES ASSUME frames # <<>>
               PROVE  /\ F.pc \in DOMAIN img.code
                      /\ Has(Wants(img, F.pc))
                      /\ Op \in {61, 65} => F.hs # <<>>
                      /\ Op = 62 /\ F.hs # <<>> => F.hs[Len(F.hs)].exit # 0
    BY DEF OperandsAreThere
  <2>1. /\ img \in Images /\ F.pc \in DOMAIN img.code /\ Op = OpAt(img, F.pc)
        /\ Running(img, F, stack) /\ Wants(img, F.pc) <= Len(F.ops)
        /\ Len(F.hs) = Typing[img][F.pc].tries
        /\ WellPlaced(img, F.pc, Typing[img][F.pc])
    BY <1>1, Here
  <2>2. Has(Wants(img, F.pc))
    BY <1>1, <2>1, OwnsAll DEF Has
  <2>3. Op \in {61, 65} => F.hs # <<>>
    <3>1. Op \in {61, 65} => Len(F.hs) > 0
      BY <2>1 DEF WellPlaced
    <3> QED
      BY <3>1
  <2>4. ASSUME Op = 62, F.hs # <<>> PROVE F.hs[Len(F.hs)].exit # 0
    <3> DEFINE n == Len(F.hs)
    <3>1. F.hs \in Seq(Handler) /\ n \in Nat /\ n \in 1 .. n - 0
      <4>1. F.hs \in Seq(Handler)
        BY <1>1, Current
      <4> QED
        BY <2>4, <4>1
    <3>2. ExitsShaped(img, F.hs, n - 0)
      BY <2>1, <2>4 DEF Running, Unset
    <3> HIDE DEF n
    <3>3. F.hs[n].exit \in DOMAIN Typing[img]
      BY <3>1, <3>2 DEF ExitsShaped
    <3>4. F.hs[n].exit \in DOMAIN img.code /\ img.code \in Seq(Seq(Nat))
      BY <2>1, <3>3, Checked, ImagesAssumption
    <3> QED
      BY <3>4 DEF n
  <2> QED
    BY <2>1, <2>2, <2>3, <2>4
<1> QED
  BY <1>1, ShapesAlways, PTL

-----------------------------------------------------------------------------
(***************************************************************************)
(* What the array shows.  The operands of the current expression are its   *)
(* last, and those of a waiting expression were the last when the next     *)
(* activation began.                                                       *)
(***************************************************************************)
Ends(st, ops) ==
  Len(ops) <= Len(st) /\ \A j \in DOMAIN ops : st[Len(st) - Len(ops) + j] = ops[j]
Aligned(fs, st) ==
  /\ fs # <<>> => Ends(st, Top(fs).ops)
  /\ \A a \in 1 .. Len(fs) - 1 : Ends(fs[a + 1].base, fs[a].ops)
AlignedNow == Aligned(frames, stack)

LEMMA EndsCut ==
  ASSUME NEW st \in Seq(Value), NEW ops \in Seq(Value), Ends(st, ops),
         NEW n \in 0 .. Len(ops)
  PROVE  /\ Ends(Cut(st, n), Cut(ops, n))
         /\ Cut(st, n) \in Seq(Value) /\ Cut(ops, n) \in Seq(Value)
         /\ Len(Cut(ops, n)) = Len(ops) - n
<1>1. /\ Len(ops) <= Len(st) /\ Len(st) \in Nat /\ Len(ops) \in Nat /\ n \in Nat
      /\ DOMAIN ops = 1 .. Len(ops)
  BY DEF Ends
<1>2. n \in 0 .. Len(st)
  BY <1>1
<1>3. /\ Cut(st, n) \in Seq(Value) /\ Len(Cut(st, n)) = Len(st) - n
      /\ \A k \in 1 .. Len(st) - n : Cut(st, n)[k] = st[k]
  BY <1>2, CutFacts
<1>4. /\ Cut(ops, n) \in Seq(Value) /\ Len(Cut(ops, n)) = Len(ops) - n
      /\ \A k \in 1 .. Len(ops) - n : Cut(ops, n)[k] = ops[k]
  BY CutFacts
<1>5. ASSUME NEW j \in DOMAIN Cut(ops, n)
      PROVE  Cut(st, n)[Len(Cut(st, n)) - Len(Cut(ops, n)) + j] = Cut(ops, n)[j]
  <2> DEFINE p == Len(st) - Len(ops) + j
  <2>1. j \in 1 .. Len(ops) - n /\ j \in DOMAIN ops
    BY <1>1, <1>4, <1>5
  <2>2. p \in 1 .. Len(st) - n /\ Len(Cut(st, n)) - Len(Cut(ops, n)) + j = p
    BY <1>1, <1>3, <1>4, <2>1
  <2>3. st[p] = ops[j]
    BY <2>1 DEF Ends
  <2> QED
    BY <1>3, <1>4, <2>1, <2>2, <2>3
<1>6. Len(Cut(ops, n)) <= Len(Cut(st, n))
  BY <1>1, <1>3, <1>4
<1> QED
  BY <1>3, <1>4, <1>5, <1>6 DEF Ends

LEMMA EndsPush ==
  ASSUME NEW st \in Seq(Value), NEW ops \in Seq(Value), Ends(st, ops),
         NEW new \in Seq(Value)
  PROVE  Ends(st \o new, ops \o new)
<1>1. /\ Len(ops) <= Len(st) /\ Len(st) \in Nat /\ Len(ops) \in Nat /\ Len(new) \in Nat
      /\ DOMAIN ops = 1 .. Len(ops)
  BY DEF Ends
<1>2. /\ st \o new \in Seq(Value) /\ Len(st \o new) = Len(st) + Len(new)
      /\ \A i \in 1 .. Len(st) + Len(new) :
           (st \o new)[i] = IF i <= Len(st) THEN st[i] ELSE new[i - Len(st)]
  BY ConcatProperties
<1>3. /\ ops \o new \in Seq(Value) /\ Len(ops \o new) = Len(ops) + Len(new)
      /\ \A i \in 1 .. Len(ops) + Len(new) :
           (ops \o new)[i] = IF i <= Len(ops) THEN ops[i] ELSE new[i - Len(ops)]
  BY ConcatProperties
<1>4. ASSUME NEW j \in DOMAIN (ops \o new)
      PROVE  (st \o new)[Len(st \o new) - Len(ops \o new) + j] = (ops \o new)[j]
  <2> DEFINE p == Len(st) - Len(ops) + j
  <2>1. j \in 1 .. Len(ops) + Len(new)
    BY <1>3, <1>4
  <2>2. p \in 1 .. Len(st) + Len(new) /\ Len(st \o new) - Len(ops \o new) + j = p
    BY <1>1, <1>2, <1>3, <2>1
  <2>3. CASE j <= Len(ops)
    <3>1. j \in DOMAIN ops /\ p <= Len(st)
      BY <1>1, <2>1, <2>3
    <3>2. st[p] = ops[j]
      BY <3>1 DEF Ends
    <3>3. (st \o new)[p] = st[p] /\ (ops \o new)[j] = ops[j]
      BY <1>2, <1>3, <2>1, <2>2, <2>3, <3>1
    <3> QED
      BY <2>2, <3>2, <3>3
  <2>4. CASE ~(j <= Len(ops))
    <3>1. ~(p <= Len(st)) /\ p - Len(st) = j - Len(ops)
      BY <1>1, <2>1, <2>4
    <3>2. (st \o new)[p] = new[j - Len(ops)] /\ (ops \o new)[j] = new[j - Len(ops)]
      BY <1>2, <1>3, <2>1, <2>2, <2>4, <3>1
    <3> QED
      BY <2>2, <3>2
  <2> QED
    BY <2>3, <2>4
<1>5. Len(ops \o new) <= Len(st \o new)
  BY <1>1, <1>2, <1>3
<1> QED
  BY <1>4, <1>5 DEF Ends

LEMMA EndsEmpty == \A st \in Seq(Value) : Ends(st, <<>>)
BY DEF Ends

\* One value on top of anything.
LEMMA EndsOne ==
  ASSUME NEW st \in Seq(Value), NEW v \in Value
  PROVE  Ends(Append(st, v), <<v>>) /\ Append(st, v) \in Seq(Value)
<1>1. /\ Append(st, v) \in Seq(Value) /\ Len(Append(st, v)) = Len(st) + 1
      /\ Append(st, v)[Len(st) + 1] = v /\ Len(st) \in Nat
  BY AppendProperties
<1>2. Len(<<v>>) = 1 /\ DOMAIN <<v>> = {1} /\ <<v>>[1] = v
  OBVIOUS
<1>3. Len(Append(st, v)) - 1 + 1 = Len(st) + 1 /\ 1 <= Len(Append(st, v))
  BY <1>1
<1> QED
  BY <1>1, <1>2, <1>3 DEF Ends

LEMMA AlignedResume ==
  ASSUME NEW fs \in Seq(Frame), NEW st, Aligned(fs, st), NEW a \in DOMAIN fs,
         NEW g \in Frame, g.base = fs[a].base, NEW s2, Ends(s2, g.ops)
  PROVE  Aligned(Append(SubSeq(fs, 1, a - 1), g), s2)
<1> DEFINE below == SubSeq(fs, 1, a - 1)
           rs == Append(below, g)
<1>1. a \in Nat /\ a \in 1 .. Len(fs) /\ Len(fs) \in Nat
  OBVIOUS
<1>2. /\ below \in Seq(Frame) /\ Len(below) = a - 1
      /\ \A k \in 1 .. a - 1 : below[k] = fs[k]
  BY <1>1, SubSeqProperties
<1> HIDE DEF below
<1>3. /\ rs \in Seq(Frame) /\ Len(rs) = a /\ DOMAIN rs = 1 .. a /\ rs[a] = g
      /\ \A k \in 1 .. a - 1 : rs[k] = fs[k]
  <2>1. /\ rs \in Seq(Frame) /\ Len(rs) = Len(below) + 1
        /\ rs[Len(below) + 1] = g
        /\ \A k \in 1 .. Len(below) : rs[k] = below[k]
    BY <1>2, AppendProperties
  <2> QED
    BY <1>1, <1>2, <2>1
<1> HIDE DEF rs
<1>4. Ends(s2, Top(rs).ops)
  BY <1>3 DEF Top
<1>5. ASSUME NEW k \in 1 .. Len(rs) - 1 PROVE Ends(rs[k + 1].base, rs[k].ops)
  <2>1. k \in 1 .. a - 1 /\ k \in 1 .. Len(fs) - 1 /\ k + 1 \in 1 .. a
    BY <1>1, <1>3
  <2>2. rs[k + 1].base = fs[k + 1].base
    <3>1. CASE k + 1 = a
      BY <1>3, <3>1
    <3>2. CASE k + 1 # a
      <4>1. k + 1 \in 1 .. a - 1
        BY <1>1, <2>1, <3>2
      <4> QED
        BY <1>3, <4>1
    <3> QED
      BY <3>1, <3>2
  <2> QED
    BY <1>3, <2>1, <2>2 DEF Aligned
<1> QED
  BY <1>4, <1>5 DEF Aligned, rs, below

LEMMA AlignedGoesOn ==
  ASSUME VMInv, AlignedNow, frames # <<>>, NEW g \in Frame, g.base = F.base,
         frames' = [frames EXCEPT ![Len(frames)] = g], Ends(stack', g.ops)
  PROVE  AlignedNow'
<1>1. /\ frames \in Seq(Frame) /\ Len(frames) \in DOMAIN frames
      /\ F = frames[Len(frames)]
  BY Current DEF Top
<1>2. Aligned(Append(SubSeq(frames, 1, Len(frames) - 1), g), stack')
  BY <1>1, AlignedResume DEF AlignedNow
<1>3. frames' = Append(SubSeq(frames, 1, Len(frames) - 1), g)
  BY <1>1, ReplaceTop
<1> QED
  BY <1>2, <1>3 DEF AlignedNow

\* An instruction takes its operands from the array and the expression alike.
LEMMA AlignedStep ==
  ASSUME VMInv, AlignedNow, frames # <<>>, NEW n \in Nat, Has(n),
         NEW new \in Seq(Value), NEW pc \in Nat, Step(n, new, pc)
  PROVE  AlignedNow'
<1> DEFINE o2 == Cut(F.ops, n) \o new
           g == [F EXCEPT !.pc = pc, !.ops = o2]
<1>1. stack' = Cut(stack, n) \o new /\ frames' = [frames EXCEPT ![Len(frames)] = g]
  BY DEF Step, SetTop
<1>2. /\ F \in Frame /\ F.ops \in Seq(Value) /\ stack \in Seq(Value) /\ n \in 0 .. Len(F.ops)
      /\ F = Top(frames)
  <2>1. F \in Frame /\ F.ops \in Seq(Value) /\ stack \in Seq(Value) /\ n <= Len(F.ops)
        /\ F = Top(frames)
    BY Current, Granted
  <2> QED
    BY <2>1
<1>3. Ends(stack, F.ops)
  BY <1>2 DEF AlignedNow, Aligned
<1>4. /\ Ends(Cut(stack, n), Cut(F.ops, n))
      /\ Cut(stack, n) \in Seq(Value) /\ Cut(F.ops, n) \in Seq(Value)
  BY <1>2, <1>3, EndsCut
<1>5. Ends(stack', o2) /\ o2 \in Seq(Value)
  BY <1>1, <1>4, EndsPush, ConcatFacts
<1> HIDE DEF o2
<1>6. g \in Frame /\ g.base = F.base /\ g.ops = o2
  BY <1>2, <1>5 DEF Frame
<1> HIDE DEF g
<1> QED
  BY <1>1, <1>5, <1>6, AlignedGoesOn DEF g

\* The actions that replace operands and go on.
Stepping == \E n \in Nat, new \in Seq(Value), pc \in Nat : Has(n) /\ Step(n, new, pc)
Ordinary ==
  \/ PushConstant \/ MakeArray \/ Compute \/ Load \/ Store \/ PushRef
  \/ Write \/ MakeClosure \/ Jump \/ Branch \/ Pop \/ Dup \/ ForIn \/ NextKey
  \/ CallHost

LEMMA OrdinarySteps == ASSUME VMInv, Ordinary PROVE frames # <<>> /\ Stepping
<1> USE DEF Stepping
<1>1. CASE PushConstant
  <2>1. At(Constants) /\ Step(0, <<Answer>>, F.pc + 1)
    BY <1>1 DEF PushConstant
  <2> QED
    BY <2>1, Instruction, AnswerIsValue, OneValue, TakesNothing
<1>2. CASE MakeArray
  <2>1. At({12}) /\ Has(I[2]) /\ Step(I[2], <<Plain("obj", F.pc)>>, F.pc + 1)
    BY <1>2 DEF MakeArray
  <2>2. frames # <<>> /\ F.pc \in Nat /\ F.pc + 1 \in Nat /\ I[2] \in Nat
    BY <2>1, Instruction DEF WithOperand
  <2>3. Plain("obj", F.pc) \in Value
    BY <2>2, ValueFacts DEF Kinds
  <2> QED
    BY <2>1, <2>2, <2>3, OneValue
<1>3. CASE Compute
  <2>1. At(Computes) /\ Has(Needs) /\ Step(Needs, <<Answer>>, F.pc + 1)
    BY <1>3 DEF Compute
  <2>2. /\ frames # <<>> /\ F.pc \in Nat /\ F.pc + 1 \in Nat /\ Op \in Computes
        /\ Op \in WithOperand => I[2] \in Nat
    BY <2>1, Instruction
  <2>3. Needs \in Nat
    BY <2>2, TakesWhatItNeeds DEF CanThrow
  <2>4. <<Answer>> \in Seq(Value)
    BY <2>2, AnswerIsValue, OneValue
  <2> QED
    BY <2>1, <2>2, <2>3, <2>4
<1>4. CASE Load
  <2> DEFINE v == scopes[Up(I[2])].slots[I[3]]
  <2>1. At({17}) /\ Up(I[2]) \in DOMAIN scopes /\ Step(0, <<v>>, F.pc + 1)
    BY <1>4 DEF Load
  <2>2. frames # <<>> /\ F.pc + 1 \in Nat /\ I[3] \in Slots
    BY <2>1, Instruction DEF OfSlots
  <2>3. v \in Value
    <3>1. scopes[Up(I[2])] \in ScopeObject
      BY <2>1 DEF VMInv
    <3>2. scopes[Up(I[2])].slots \in [Slots -> Value]
      BY <3>1 DEF ScopeObject
    <3> QED
      BY <2>2, <3>2
  <2> HIDE DEF v
  <2> QED
    BY <2>1, <2>2, <2>3, OneValue, TakesNothing
<1>5. CASE Store
  <2>1. At({20}) /\ Has(1) /\ Step(1, <<>>, F.pc + 1)
    BY <1>5 DEF Store
  <2> QED
    BY <2>1, Instruction, NoValues
<1>6. CASE PushRef
  <2> DEFINE v == [Plain("scope", 0) EXCEPT !.scope = Up(I[2])]
             w == Plain("prim", I[3])
  <2>1. At({23}) /\ Up(I[2]) \in DOMAIN scopes /\ Step(0, <<v, w>>, F.pc + 1)
    BY <1>6 DEF PushRef
  <2>2. frames # <<>> /\ F.pc + 1 \in Nat /\ I[3] \in Nat
    BY <2>1, Instruction DEF OfSlots
  <2>3. Up(I[2]) \in Nat
    BY <2>1 DEF VMInv
  <2>4. v \in Value /\ w \in Value
    BY <2>2, <2>3, ValueFacts DEF Kinds
  <2> HIDE DEF v, w
  <2> QED
    BY <2>1, <2>2, <2>4, TwoValues, TakesNothing
<1>7. CASE Write
  <2> DEFINE n == CASE Op = 14 -> 1 [] Op \in {21, 53} -> 2 [] OTHER -> 3
  <2>1. At(Writes) /\ Has(Needs) /\ Step(n, <<>>, F.pc + 1)
    BY <1>7 DEF Write
  <2>2. frames # <<>> /\ F.pc + 1 \in Nat /\ Op \in Writes
    BY <2>1, Instruction
  <2>3. Op \in {14, 21, 22, 53} /\ Op \notin Computes
    <3>1. Op \in Writes
      BY <2>2
    <3> QED
      BY ONLY <3>1 DEF Writes, Computes, Reads, Coercions, Tests, Pure
  <2>4. Needs = IF Op \in {22, 53} THEN 3 ELSE 2
    BY <2>2, <2>3 DEF Needs
  <2>5. n \in Nat /\ n <= Needs /\ Needs \in Nat
    BY <2>3, <2>4
  <2>6. Own \in Nat
    BY <2>2, OwnIsNat
  <2> HIDE DEF n
  <2>7. Has(n)
    BY <2>1, <2>5, <2>6 DEF Has
  <2> QED
    BY <2>1, <2>2, <2>5, <2>7, NoValues
<1>8. CASE MakeClosure
  <2> DEFINE named == Closure(Nth(1).n, I[2], Len(scopes) + 1)
             plain == Closure(Nth(1).n, I[2], F.scope)
  <2>1. /\ At({59, 60}) /\ Has(1)
        /\ Step(1, <<named>>, F.pc + 1) \/ Step(1, <<plain>>, F.pc + 1)
    BY <1>8 DEF MakeClosure
  <2>2. frames # <<>> /\ F.pc + 1 \in Nat /\ I[2] \in Nat
    BY <2>1, Instruction DEF WithOperand
  <2>3. Nth(1) \in Value /\ F.scope \in Nat /\ Len(scopes) + 1 \in Nat
    <3>1. Nth(1) \in Value
      BY <2>1, <2>2, OperandIsValue
    <3>2. F.scope \in Nat
      BY <2>2, Current
    <3>3. scopes \in Seq(ScopeObject)
      BY DEF VMInv
    <3> QED
      BY <3>1, <3>2, <3>3
  <2>4. named \in Value /\ plain \in Value
    BY <2>2, <2>3, ValueFacts
  <2> HIDE DEF named, plain
  <2>5. <<named>> \in Seq(Value) /\ <<plain>> \in Seq(Value)
    BY <2>4, OneValue
  <2> QED
    BY <2>1, <2>2, <2>5
<1>9. CASE Jump
  <2>1. At({69}) /\ Step(0, <<>>, I[2])
    BY <1>9 DEF Jump
  <2>2. frames # <<>> /\ I[2] \in Nat
    BY <2>1, Instruction DEF WithOperand
  <2> QED
    BY <2>1, <2>2, NoValues, TakesNothing
<1>10. CASE Branch
  <2>1. At(Jumps) /\ Has(IF Op = 72 THEN 2 ELSE 1)
    BY <1>10 DEF Branch
  <2>2. frames # <<>> /\ Op \in {51, 52, 71, 72} /\ I[2] \in Nat /\ F.pc + 1 \in Nat
    BY <2>1, Instruction DEF Jumps, WithOperand
  <2>3. PICK t \in BOOLEAN :
          CASE Op = 51 -> IF t THEN Step(1, <<>>, F.pc + 1) ELSE Step(0, <<>>, I[2])
            [] Op = 52 -> IF t THEN Step(0, <<>>, I[2]) ELSE Step(1, <<>>, F.pc + 1)
            [] Op = 71 -> Step(1, <<>>, IF t THEN F.pc + 1 ELSE I[2])
            [] Op = 72 -> IF t THEN Step(2, <<>>, I[2]) ELSE Step(1, <<>>, F.pc + 1)
    BY <1>10 DEF Branch, Truths
  <2>4. Own \in Nat
    BY <2>2, OwnIsNat
  <2>5. /\ Has(0) /\ Has(1)
        /\ Op = 72 => Has(2)
    BY <2>1, <2>4 DEF Has
  <2>6. \/ Step(1, <<>>, F.pc + 1) \/ Step(0, <<>>, I[2]) \/ Step(1, <<>>, I[2])
        \/ Op = 72 /\ Step(2, <<>>, I[2])
    <3>1. CASE Op = 51
      BY <2>3, <3>1
    <3>2. CASE Op = 52
      BY <2>3, <3>2
    <3>3. CASE Op = 71
      BY <2>3, <3>3
    <3>4. CASE Op = 72
      BY <2>3, <3>4
    <3> QED
      BY <2>2, <3>1, <3>2, <3>3, <3>4
  <2>7. <<>> \in Seq(Value) /\ 0 \in Nat /\ 1 \in Nat /\ 2 \in Nat
    BY NoValues
  <2>8. CASE Step(1, <<>>, F.pc + 1)
    BY <2>2, <2>5, <2>7, <2>8
  <2>9. CASE Step(0, <<>>, I[2])
    BY <2>2, <2>5, <2>7, <2>9
  <2>10. CASE Step(1, <<>>, I[2])
    BY <2>2, <2>5, <2>7, <2>10
  <2>11. CASE Op = 72 /\ Step(2, <<>>, I[2])
    BY <2>2, <2>5, <2>7, <2>11
  <2> QED
    BY <2>6, <2>8, <2>9, <2>10, <2>11
<1>11. CASE Pop
  <2>1. At({73}) /\ Has(1) /\ Step(1, <<>>, F.pc + 1)
    BY <1>11 DEF Pop
  <2> QED
    BY <2>1, Instruction, NoValues
<1>12. CASE Dup
  <2>1. At({74}) /\ Has(1) /\ Step(0, <<Nth(1)>>, F.pc + 1)
    BY <1>12 DEF Dup
  <2>2. frames # <<>> /\ F.pc + 1 \in Nat
    BY <2>1, Instruction
  <2>3. Nth(1) \in Value /\ Has(0)
    BY <2>1, <2>2, OperandIsValue, TakesNothing
  <2> QED
    BY <2>1, <2>2, <2>3, OneValue
<1>13. CASE ForIn
  <2>1. At({75}) /\ Has(1) /\ Step(1, <<>>, F.pc + 1)
    BY <1>13 DEF ForIn
  <2> QED
    BY <2>1, Instruction, NoValues
<1>14. CASE NextKey
  <2>1. At({76}) /\ Has(2) /\ Step(2, <<Plain("prim", F.pc)>>, F.pc + 1)
    BY <1>14 DEF NextKey
  <2>2. frames # <<>> /\ F.pc \in Nat /\ F.pc + 1 \in Nat
    BY <2>1, Instruction
  <2>3. Plain("prim", F.pc) \in Value
    BY <2>2, ValueFacts DEF Kinds
  <2> QED
    BY <2>1, <2>2, <2>3, OneValue
<1>15. CASE CallHost
  <2>1. At(Invokes) /\ Has(Needs) /\ Step(Needs, <<Plain("any", F.pc)>>, F.pc + 1)
    BY <1>15 DEF CallHost
  <2>2. /\ frames # <<>> /\ F.pc \in Nat /\ F.pc + 1 \in Nat /\ Op \in Invokes
        /\ Op \in WithOperand => I[2] \in Nat
    BY <2>1, Instruction
  <2>3. Plain("any", F.pc) \in Value
    BY <2>2, ValueFacts DEF Kinds
  <2>4. Needs \in Nat
    BY <2>2, TakesWhatItNeeds DEF CanThrow
  <2> QED
    BY <2>1, <2>2, <2>3, <2>4, OneValue
<1> QED
  BY <1>1, <1>2, <1>3, <1>4, <1>5, <1>6, <1>7, <1>8, <1>9, <1>10, <1>11, <1>12,
     <1>13, <1>14, <1>15 DEF Ordinary

\* The actions that touch the handlers only.
LEMMA HandlerActions ==
  ASSUME VMInv, EnterTry \/ SetExit \/ LeaveTry
  PROVE  /\ frames # <<>> /\ UNCHANGED stack
         /\ \E g \in Frame : /\ g.base = F.base /\ g.ops = F.ops
                             /\ frames' = [frames EXCEPT ![Len(frames)] = g]
<1>1. CASE EnterTry
  <2> DEFINE g == [F EXCEPT !.pc = I[2],
                     !.hs = Append(@, [live |-> TRUE, exit |-> 0, catch |-> F.pc + 1,
                                       ops |-> F.ops])]
  <2>1. At({62}) /\ UNCHANGED stack /\ frames' = [frames EXCEPT ![Len(frames)] = g]
    BY <1>1 DEF EnterTry, SetTop
  <2>2. frames # <<>> /\ I[2] \in Nat /\ F.pc + 1 \in Nat
    BY <2>1, Instruction DEF WithOperand
  <2>3. F \in Frame /\ F.hs \in Seq(Handler) /\ F.ops \in Seq(Value)
    BY <2>2, Current
  <2>4. [live |-> TRUE, exit |-> 0, catch |-> F.pc + 1, ops |-> F.ops] \in Handler
    BY <2>2, <2>3 DEF Handler
  <2>5. g \in Frame /\ g.base = F.base /\ g.ops = F.ops
    BY <2>2, <2>3, <2>4, AppendProperties DEF Frame
  <2> QED
    BY <2>1, <2>2, <2>5
<1>2. CASE SetExit
  <2> DEFINE g == [F EXCEPT !.pc = @ + 1, !.hs[Len(F.hs)].exit = I[2]]
  <2>1. At({61}) /\ UNCHANGED stack /\ frames' = [frames EXCEPT ![Len(frames)] = g]
    BY <1>2 DEF SetExit, SetTop
  <2>2. frames # <<>>
    BY <2>1, Instruction
  <2>3. VMInv'
    BY <1>2, VMSetExit
  <2>4. /\ frames \in Seq(Frame) /\ Len(frames) \in DOMAIN frames /\ F \in Frame
        /\ frames' \in Seq(Frame)
    BY <2>2, <2>3, Current DEF VMInv, Nested
  <2>5. g = frames'[Len(frames)] /\ Len(frames) \in DOMAIN frames'
    BY <2>1, <2>4
  <2>6. g \in Frame
    BY <2>4, <2>5
  <2>7. g.base = F.base /\ g.ops = F.ops
    BY <2>4 DEF Frame
  <2> QED
    BY <2>1, <2>2, <2>6, <2>7
<1>3. CASE LeaveTry
  <2> DEFINE g == [F EXCEPT !.pc = F.hs[Len(F.hs)].exit, !.hs = Cut(@, 1)]
  <2>1. At({65}) /\ UNCHANGED stack /\ frames' = [frames EXCEPT ![Len(frames)] = g]
    BY <1>3 DEF LeaveTry, SetTop
  <2>2. frames # <<>>
    BY <2>1, Instruction
  <2>3. VMInv'
    BY <1>3, VMLeaveTry
  <2>4. /\ frames \in Seq(Frame) /\ Len(frames) \in DOMAIN frames /\ F \in Frame
        /\ frames' \in Seq(Frame)
    BY <2>2, <2>3, Current DEF VMInv, Nested
  <2>5. g = frames'[Len(frames)] /\ Len(frames) \in DOMAIN frames'
    BY <2>1, <2>4
  <2>6. g \in Frame
    BY <2>4, <2>5
  <2>7. g.base = F.base /\ g.ops = F.ops
    BY <2>4 DEF Frame
  <2> QED
    BY <2>1, <2>2, <2>6, <2>7
<1> QED
  BY <1>1, <1>2, <1>3

LEMMA AlignedHandlers ==
  ASSUME VMInv, AlignedNow, EnterTry \/ SetExit \/ LeaveTry
  PROVE  AlignedNow'
<1>1. /\ frames # <<>> /\ UNCHANGED stack
      /\ \E g \in Frame : /\ g.base = F.base /\ g.ops = F.ops
                          /\ frames' = [frames EXCEPT ![Len(frames)] = g]
  BY HandlerActions
<1>2. PICK g \in Frame : /\ g.base = F.base /\ g.ops = F.ops
                         /\ frames' = [frames EXCEPT ![Len(frames)] = g]
  BY <1>1
<1>3. Ends(stack, F.ops)
  BY <1>1, Current DEF AlignedNow, Aligned
<1> QED
  BY <1>1, <1>2, <1>3, AlignedGoesOn

\* An activation that begins has no operands; those below it are shown.
LEMMA AlignedBegin ==
  ASSUME NEW fs \in Seq(Frame), fs # <<>>, NEW st \in Seq(Value), Aligned(fs, st),
         NEW g \in Frame, g.base = st, g.ops = <<>>
  PROVE  Aligned(Append(fs, g), st)
<1> DEFINE rs == Append(fs, g)
           n == Len(fs)
<1>1. /\ rs \in Seq(Frame) /\ Len(rs) = n + 1 /\ rs[n + 1] = g
      /\ \A k \in 1 .. n : rs[k] = fs[k]
      /\ n \in Nat /\ n > 0
  BY AppendProperties
<1>2. Ends(st, fs[n].ops) /\ \A a \in 1 .. n - 1 : Ends(fs[a + 1].base, fs[a].ops)
  BY DEF Aligned, Top
<1> HIDE DEF rs, n
<1>3. Ends(st, Top(rs).ops)
  <2>1. Top(rs).ops = <<>>
    BY <1>1 DEF Top
  <2> QED
    BY <2>1, EndsEmpty
<1>4. ASSUME NEW a \in 1 .. Len(rs) - 1 PROVE Ends(rs[a + 1].base, rs[a].ops)
  <2>1. a \in 1 .. n
    BY <1>1
  <2>2. CASE a = n
    <3>1. rs[a + 1] = g /\ rs[a] = fs[n]
      BY <1>1, <2>1, <2>2
    <3> QED
      BY <1>2, <3>1
  <2>3. CASE a # n
    <3>1. a \in 1 .. n - 1 /\ a + 1 \in 1 .. n
      BY <1>1, <2>1, <2>3
    <3>2. rs[a + 1] = fs[a + 1] /\ rs[a] = fs[a]
      BY <1>1, <2>1, <3>1
    <3> QED
      BY <1>2, <3>1, <3>2
  <2> QED
    BY <2>2, <2>3
<1> QED
  BY <1>3, <1>4 DEF Aligned, rs

\* What a call of a closure makes of the caller and of the array.
LEMMA CallLeaves ==
  ASSUME VMInv, CallInline
  PROVE  /\ frames # <<>> /\ Op = 67 /\ Needs = I[2] + 2
         /\ Needs \in 0 .. Len(F.ops) /\ Needs \in 0 .. Len(stack)
         /\ stack' = Cut(stack, Needs)
         /\ \E n, id \in Nat, f \in Frame :
              /\ f.base = F.base /\ f.ops = Cut(F.ops, Needs)
              /\ frames' = Append([frames EXCEPT ![Len(frames)] = f],
                                  Activation(n, id, Cut(stack, Needs)))
<1> DEFINE c == Subject
           rest == Cut(stack, Needs)
           o == Cut(F.ops, Needs)
           id == Len(scopes) + 1
           caller == [F EXCEPT !.pc = F.pc + 1, !.ops = o]
<1>1. /\ At({67}) /\ Has(Needs) /\ stack' = rest
      /\ frames' = Append([frames EXCEPT ![Len(frames)].pc = @ + 1,
                                         ![Len(frames)].ops = Cut(@, Needs)],
                          Activation(c.n, id, rest))
  BY DEF CallInline
<1>2. /\ frames # <<>> /\ Op = 67 /\ F.pc + 1 \in Nat /\ I[2] \in Nat
  BY <1>1, Instruction DEF WithOperand
<1>3. Needs = I[2] + 2 /\ Needs \in Nat
  BY <1>2 DEF Needs, Computes, Reads, Coercions, Tests, Pure, Writes
<1>4. /\ F \in Frame /\ F.ops \in Seq(Value)
      /\ frames \in Seq(Frame) /\ Len(frames) \in DOMAIN frames
      /\ stack \in Seq(Value) /\ Len(stack) \in Nat
  BY <1>2, Current
<1>5. Needs \in 0 .. Len(F.ops) /\ Needs \in 0 .. Len(stack)
  BY SMTT(20), <1>1, <1>2, <1>3, Granted, Current
<1>6. c.n \in Nat
  <2>1. I[2] + 1 \in 1 .. Needs
    BY <1>2, <1>3
  <2>2. c = Nth(I[2] + 1)
    BY <1>2 DEF Subject, Reads
  <2>3. Nth(I[2] + 1) \in Value
    BY <1>1, <1>2, <1>3, <2>1, OperandIsValue
  <2> QED
    BY <2>2, <2>3, ValueFacts
<1>7. id \in Nat
  BY DEF VMInv
<1>8. o \in Seq(Value)
  BY <1>4, <1>5, CutFacts
<1>9. [frames EXCEPT ![Len(frames)].pc = @ + 1, ![Len(frames)].ops = Cut(@, Needs)]
        = [frames EXCEPT ![Len(frames)] = caller]
  <2> DEFINE n == Len(frames)
  <2>1. F = frames[n] /\ caller = [F EXCEPT !.pc = F.pc + 1, !.ops = Cut(F.ops, Needs)]
    BY DEF F
  <2>2. [frames EXCEPT ![n].pc = @ + 1, ![n].ops = Cut(@, Needs)]
          = [frames EXCEPT ![n] = [frames[n] EXCEPT !.pc = frames[n].pc + 1,
                                       !.ops = Cut(frames[n].ops, Needs)]]
    BY <1>4 DEF Frame
  <2> QED
    BY <2>1, <2>2
<1> HIDE DEF o
<1>10. caller \in Frame /\ caller.base = F.base /\ caller.ops = o
  BY <1>2, <1>4, <1>8 DEF Frame
<1> HIDE DEF caller, c, id, rest
<1>11. frames' = Append([frames EXCEPT ![Len(frames)] = caller], Activation(c.n, id, rest))
  BY <1>1, <1>9 DEF c, id, rest
<1> QED
  BY <1>1, <1>2, <1>3, <1>5, <1>6, <1>7, <1>10, <1>11 DEF o, rest

LEMMA AlignedCallInline == ASSUME VMInv, AlignedNow, CallInline PROVE AlignedNow'
<1> DEFINE rest == Cut(stack, Needs)
           n == Len(frames)
<1>1. /\ frames # <<>> /\ Needs \in 0 .. Len(F.ops) /\ stack' = rest
      /\ \E pc, id \in Nat, f \in Frame :
           /\ f.base = F.base /\ f.ops = Cut(F.ops, Needs)
           /\ frames' = Append([frames EXCEPT ![n] = f], Activation(pc, id, rest))
  BY CallLeaves
<1>2. PICK pc, id \in Nat, f \in Frame :
        /\ f.base = F.base /\ f.ops = Cut(F.ops, Needs)
        /\ frames' = Append([frames EXCEPT ![n] = f], Activation(pc, id, rest))
  BY <1>1
<1>3. /\ F = frames[n] /\ F = Top(frames) /\ F.ops \in Seq(Value)
      /\ frames \in Seq(Frame) /\ n \in DOMAIN frames /\ n \in Nat
      /\ stack \in Seq(Value)
  BY <1>1, Current DEF Top
<1>4. Ends(stack, F.ops)
  BY <1>1, <1>3 DEF AlignedNow, Aligned
<1>5. Ends(rest, f.ops) /\ rest \in Seq(Value)
  BY <1>1, <1>2, <1>3, <1>4, EndsCut
<1> DEFINE fs == Append(SubSeq(frames, 1, n - 1), f)
           g == Activation(pc, id, rest)
<1>6. Aligned(fs, rest) /\ fs = [frames EXCEPT ![n] = f]
  BY <1>1, <1>2, <1>3, <1>5, AlignedResume, ReplaceTop DEF AlignedNow
<1>7. fs \in Seq(Frame) /\ fs # <<>>
  <2>1. [frames EXCEPT ![n] = f] \in Seq(Frame) /\ Len([frames EXCEPT ![n] = f]) = n
    BY <1>3
  <2> HIDE DEF fs
  <2> QED
    BY <1>3, <1>6, <2>1
<1>8. g \in Frame /\ g.base = rest /\ g.ops = <<>>
  BY <1>5 DEF Activation, Frame
<1> HIDE DEF fs, g, rest, n
<1>9. Aligned(Append(fs, g), rest)
  BY <1>5, <1>6, <1>7, <1>8, AlignedBegin
<1> QED
  BY <1>1, <1>2, <1>6, <1>9 DEF AlignedNow, g

\* A result is pushed above what the callee found, when it has left nothing.
LEMMA AlignedReturn ==
  ASSUME VMInv, AlignedNow, ReturnsAreTidy, Return
  PROVE  AlignedNow'
<1>1. At({66}) /\ Has(1)
  BY DEF Return
<1>2. frames # <<>>
  BY <1>1, Instruction
<1>3. CASE Len(frames) > 1
  <2> DEFINE n == Len(frames)
             f == frames[n - 1]
             v == Nth(1)
             g == [f EXCEPT !.ops = Append(f.ops, v)]
             rest == Cut(stack, 1)
  <2>1. stack' = rest \o <<v>> /\ frames' = Append(Cut(frames, 2), g)
    BY <1>3 DEF Return
  <2>2. /\ frames \in Seq(Frame) /\ n \in DOMAIN frames /\ n \in Nat /\ n > 1
        /\ DOMAIN frames = 1 .. n /\ F = frames[n]
        /\ stack \in Seq(Value) /\ Len(stack) \in Nat
        /\ F.base \in Seq(Value) /\ Below(F.base, stack)
    BY <1>2, <1>3, Current DEF F
  <2>3. n - 1 \in DOMAIN frames /\ f \in Frame /\ f.ops \in Seq(Value)
    <3>1. n - 1 \in DOMAIN frames /\ f \in Frame
      BY <2>2
    <3> QED
      BY <3>1, FrameFacts
  <2>4. v \in Value /\ 1 \in 0 .. Len(stack)
    <3>1. v \in Value
      BY <1>1, <1>2, OperandIsValue
    <3>2. 1 <= Len(stack)
      BY <1>1, <1>2, Granted
    <3> QED
      BY <2>2, <3>1, <3>2
  <2>5. /\ rest \in Seq(Value) /\ Len(rest) = Len(stack) - 1
        /\ \A k \in 1 .. Len(stack) - 1 : rest[k] = stack[k]
    BY <2>2, <2>4, CutFacts
  <2>6. Ends(F.base, f.ops)
    <3>1. n - 1 \in 1 .. n - 1 /\ (n - 1) + 1 = n
      BY <2>2
    <3> QED
      BY <2>2, <3>1 DEF AlignedNow, Aligned
  <2> HIDE DEF rest, v, f
  <2>7. Ends(rest, f.ops)
    <3>1. CASE f.ops = <<>>
      BY <2>5, <3>1, EndsEmpty
    <3>2. CASE f.ops # <<>>
      <4>1. Len(stack) = Len(F.base) + 1
        BY <1>1, <1>3, <3>2 DEF ReturnsAreTidy, f
      <4>2. Len(rest) = Len(F.base) /\ \A k \in 1 .. Len(F.base) : rest[k] = F.base[k]
        BY <2>2, <2>5, <4>1 DEF Below
      <4>3. rest = F.base
        <5> DEFINE b == F.base
        <5>1. /\ rest \in Seq(Value) /\ b \in Seq(Value) /\ Len(rest) = Len(b)
              /\ \A k \in 1 .. Len(b) : rest[k] = b[k]
          BY <2>2, <2>5, <4>2
        <5> HIDE DEF b
        <5>2. rest = b
          BY ONLY <5>1
        <5> QED
          BY <5>2 DEF b
      <4> QED
        BY <2>6, <4>3
    <3> QED
      BY <3>1, <3>2
  <2>8. <<v>> \in Seq(Value) /\ Append(f.ops, v) = f.ops \o <<v>>
    BY <2>3, <2>4, OneValue
  <2>9. Ends(rest \o <<v>>, Append(f.ops, v)) /\ Append(f.ops, v) \in Seq(Value)
    BY <2>3, <2>4, <2>5, <2>7, <2>8, EndsPush, AppendProperties
  <2>10. g \in Frame /\ g.base = f.base /\ g.ops = Append(f.ops, v)
    BY <2>3, <2>9 DEF Frame
  <2> HIDE DEF g
  <2>11. Aligned(Append(SubSeq(frames, 1, (n - 1) - 1), g), rest \o <<v>>)
    BY <2>2, <2>3, <2>9, <2>10, AlignedResume DEF AlignedNow, f
  <2>12. Cut(frames, 2) = SubSeq(frames, 1, (n - 1) - 1)
    <3>1. Len(frames) - 2 = (n - 1) - 1
      BY <2>2
    <3> QED
      BY <3>1 DEF Cut
  <2> QED
    BY <2>1, <2>11, <2>12 DEF AlignedNow, g, v, f, rest
<1>4. CASE ~(Len(frames) > 1)
  <2>1. frames' = <<>>
    BY <1>4 DEF Return
  <2> QED
    BY <2>1 DEF AlignedNow, Aligned
<1> QED
  BY <1>3, <1>4

LEMMA AlignedThrow == ASSUME VMInv, ShapesHold, AlignedNow, Throw PROVE AlignedNow'
<1>1. At(CanThrow) /\ Has(Needs)
  BY DEF Throw
<1>2. /\ frames # <<>> /\ F.pc \in Nat /\ Op \in CanThrow
      /\ Op \in WithOperand => I[2] \in Nat
  BY <1>1, Instruction
<1>3. CASE Catchers # {}
  <2> DEFINE a == Greatest(Catchers)
             h == Greatest(LiveHandlers(a))
             f == frames[a]
             e == Plain("any", F.pc)
             hs2 == Append(SubSeq(f.hs, 1, h - 1), [f.hs[h] EXCEPT !.live = FALSE])
             g == [f EXCEPT !.pc = f.hs[h].catch, !.hs = hs2,
                            !.ops = Append(f.hs[h].ops, e)]
             rest == Cut(stack, Taken)
  <2>1. /\ stack' = Append(rest, e)
        /\ frames' = Append(SubSeq(frames, 1, a - 1), g)
    BY <1>3 DEF Throw, Catch
  <2>2. /\ frames \in Seq(Frame) /\ Len(frames) \in Nat /\ DOMAIN frames = 1 .. Len(frames)
        /\ stack \in Seq(Value) /\ Len(stack) \in Nat /\ F = Top(frames)
    BY <1>2, Current
  <2>3. a \in Catchers
    <3>1. Catchers \subseteq 1 .. Len(frames)
      BY <2>2 DEF Catchers
    <3> QED
      BY <1>3, <2>2, <3>1, GreatestIsThere
  <2> HIDE DEF a
  <2>4. a \in DOMAIN frames /\ f \in Frame /\ LiveHandlers(a) # {}
    BY <2>2, <2>3 DEF Catchers
  <2>5. /\ f.hs \in Seq(Handler) /\ Len(f.hs) \in Nat /\ DOMAIN f.hs = 1 .. Len(f.hs)
    BY <2>4, FrameFacts
  <2>6. h \in LiveHandlers(a)
    <3>1. LiveHandlers(a) \subseteq 1 .. Len(f.hs)
      BY <2>5 DEF LiveHandlers
    <3> QED
      BY <2>4, <2>5, <3>1, GreatestIsThere
  <2> HIDE DEF h
  <2>7. h \in DOMAIN f.hs /\ f.hs[h] \in Handler /\ h \in 1 .. Len(f.hs)
    BY <2>5, <2>6 DEF LiveHandlers
  <2>8. HandlersShaped(img, f.hs)
    <3>1. CASE a = Len(frames)
      <4>1. f = F
        BY <2>2, <3>1 DEF Top
      <4> QED
        BY <1>2, <4>1, Here DEF Running
    <3>2. CASE a # Len(frames)
      <4>1. Waiting(img, f)
        BY <2>4, <3>2 DEF ShapesHold, Shaped
      <4> QED
        BY <4>1 DEF Waiting
    <3> QED
      BY <3>1, <3>2
  <2>9. f.hs[h].ops = <<>> /\ f.hs[h].catch \in Nat
    BY <2>7, <2>8 DEF HandlersShaped, Handler
  <2>10. e \in Value
    BY <1>2, ValueFacts DEF Kinds
  <2>11. hs2 \in Seq(Handler)
    <3>1. [f.hs[h] EXCEPT !.live = FALSE] \in Handler
      BY <2>7 DEF Handler
    <3>2. SubSeq(f.hs, 1, h - 1) \in Seq(Handler)
      BY <2>5, <2>7, SubSeqProperties
    <3> QED
      BY <3>1, <3>2, AppendProperties
  <2> HIDE DEF hs2, e
  <2>12. Append(f.hs[h].ops, e) = <<e>> /\ <<e>> \in Seq(Value)
    BY <2>9, <2>10, OneValue
  <2>13. g \in Frame /\ g.base = f.base /\ g.ops = <<e>>
    BY <2>4, <2>9, <2>11, <2>12 DEF Frame
  <2>14. rest \in Seq(Value)
    <3>1. Needs \in Nat /\ Taken \in Nat /\ Taken <= Needs
      BY <1>2, TakesWhatItNeeds
    <3>2. Needs <= Len(stack)
      BY <1>1, <1>2, <3>1, Granted
    <3>3. Taken \in 0 .. Len(stack)
      BY <2>2, <3>1, <3>2
    <3> QED
      BY <2>2, <3>3, CutFacts
  <2> HIDE DEF g, rest
  <2>15. Ends(Append(rest, e), g.ops)
    BY <2>10, <2>13, <2>14, EndsOne
  <2>16. Aligned(Append(SubSeq(frames, 1, a - 1), g), Append(rest, e))
    BY <2>2, <2>4, <2>13, <2>15, AlignedResume DEF AlignedNow
  <2> QED
    BY <2>1, <2>16 DEF AlignedNow, g, hs2, e, rest, h
<1>4. CASE ~(Catchers # {})
  <2>1. frames' = <<>>
    BY <1>4 DEF Throw
  <2> QED
    BY <2>1 DEF AlignedNow, Aligned
<1> QED
  BY <1>3, <1>4

LEMMA AlignedNext ==
  ASSUME VMInv, ShapesHold, AlignedNow, ReturnsAreTidy, [Next]_vars
  PROVE  AlignedNow'
<1>1. CASE Ordinary
  <2>1. frames # <<>> /\ Stepping
    BY <1>1, OrdinarySteps
  <2>2. PICK n \in Nat, new \in Seq(Value), pc \in Nat : Has(n) /\ Step(n, new, pc)
    BY <2>1 DEF Stepping
  <2> QED
    BY <2>1, <2>2, AlignedStep
<1>2. CASE EnterTry \/ SetExit \/ LeaveTry
  BY <1>2, AlignedHandlers
<1>3. CASE CallInline
  BY <1>3, AlignedCallInline
<1>4. CASE Return
  BY <1>4, AlignedReturn
<1>5. CASE Throw
  BY <1>5, AlignedThrow
<1>6. CASE HostCalls
  <2>1. stack' = <<>> /\ \E n, id : frames' = <<Activation(n, id, <<>>)>>
    BY <1>6 DEF HostCalls
  <2>2. Len(frames') = 1 /\ Top(frames').ops = <<>> /\ Ends(stack', <<>>)
    <3>1. PICK n, id : frames' = <<Activation(n, id, <<>>)>>
      BY <2>1
    <3>2. Len(frames') = 1 /\ Top(frames') = Activation(n, id, <<>>)
      BY <3>1 DEF Top
    <3>3. Top(frames').ops = <<>>
      BY <3>2 DEF Activation
    <3>4. Ends(stack', <<>>)
      BY <2>1 DEF Ends
    <3> QED
      BY <3>2, <3>3, <3>4
  <2>3. 1 .. Len(frames') - 1 = {}
    BY <2>2
  <2> QED
    BY <2>2, <2>3 DEF AlignedNow, Aligned
<1>7. CASE Finished \/ UNCHANGED vars
  <2>1. UNCHANGED vars
    BY <1>7 DEF Finished
  <2> QED
    BY <2>1 DEF vars, AlignedNow
<1> QED
  BY <1>1, <1>2, <1>3, <1>4, <1>5, <1>6, <1>7 DEF Next, Execute, Ordinary

\* The invariant is the property.
LEMMA AlignedIsShown ==
  ASSUME VMInv, AlignedNow PROVE OperandsAreTheExpressions
<1> SUFFICES ASSUME frames # <<>>
             PROVE  /\ Len(F.ops) <= Len(stack)
                    /\ F.ops = SubSeq(stack, Len(stack) - Len(F.ops) + 1, Len(stack))
  BY DEF OperandsAreTheExpressions
<1> DEFINE o == F.ops
           last == SubSeq(stack, Len(stack) - Len(o) + 1, Len(stack))
<1>1. /\ o \in Seq(Value) /\ stack \in Seq(Value) /\ Ends(stack, o)
  BY Current DEF AlignedNow, Aligned
<1> HIDE DEF o
<1>2. /\ Len(o) \in Nat /\ Len(stack) \in Nat /\ Len(o) <= Len(stack)
      /\ DOMAIN o = 1 .. Len(o) /\ \A j \in 1 .. Len(o) : stack[Len(stack) - Len(o) + j] = o[j]
  BY <1>1 DEF Ends
<1>3. /\ last \in Seq(Value) /\ Len(last) = Len(o)
      /\ \A j \in 1 .. Len(o) : last[j] = stack[Len(stack) - Len(o) + j]
  <2> DEFINE m == Len(stack) - Len(o) + 1
  <2>1. m \in 1 .. Len(stack) + 1
    BY <1>2
  <2>2. /\ last \in Seq(Value)
        /\ Len(last) = IF m <= Len(stack) THEN Len(stack) - m + 1 ELSE 0
        /\ \A j \in 1 .. Len(stack) - m + 1 : last[j] = stack[m + j - 1]
    BY <1>1, <1>2, <2>1, SubSeqProperties
  <2>3. Len(stack) - m + 1 = Len(o) /\ \A j \in Nat : m + j - 1 = Len(stack) - Len(o) + j
    BY <1>2
  <2>4. ~(m <= Len(stack)) => Len(o) = 0
    BY <1>2
  <2> HIDE DEF m, last
  <2> QED
    BY <2>2, <2>3, <2>4
<1> HIDE DEF last
<1>4. last = o
  BY <1>1, <1>2, <1>3, SeqEqual
<1> QED
  BY <1>2, <1>4 DEF o, last

(***************************************************************************)
(* What an exception leaves behind does no harm as long as no activation   *)
(* returns above it into an expression that has operands waiting: then     *)
(* every program computes with the operands of its own expressions (opcode *)
(* 66, which pushes its result wherever d stands, is the only instruction  *)
(* that could bring another's to the top).                                 *)
(***************************************************************************)
THEOREM LeftoversDoNoHarm ==
  FairSpec /\ []ReturnsAreTidy => []OperandsAreTheExpressions
<1>1. Init => AlignedNow
  BY DEF Init, AlignedNow, Aligned
<1>2. VMInv /\ ShapesHold /\ ReturnsAreTidy /\ AlignedNow /\ [Next]_vars => AlignedNow'
  BY AlignedNext
<1>3. VMInv /\ AlignedNow => OperandsAreTheExpressions
  BY AlignedIsShown
<1> QED
  BY <1>1, <1>2, <1>3, ShapesAlways, PTL DEF FairSpec, Spec

-----------------------------------------------------------------------------
(***************************************************************************)
(* Flat programs.  Their waiting activations have no operands, so what a   *)
(* callee leaves behind lies below nothing that is still to be used.       *)
(***************************************************************************)
Idle(fs) == \A a \in 1 .. Len(fs) - 1 : fs[a].ops = <<>>
FlatStays == Flat(img) => Idle(frames) /\ AlignedNow

LEMMA IdleBelow ==
  ASSUME NEW fs \in Seq(Frame), Idle(fs), NEW a \in DOMAIN fs, NEW g
  PROVE  Idle(Append(SubSeq(fs, 1, a - 1), g))
<1> DEFINE S == Frame \cup {g}
           below == SubSeq(fs, 1, a - 1)
           rs == Append(below, g)
<1>1. fs \in Seq(S) /\ a \in 1 .. Len(fs) /\ Len(fs) \in Nat
  OBVIOUS
<1> HIDE DEF S
<1>2. /\ below \in Seq(S) /\ Len(below) = a - 1
      /\ \A k \in 1 .. a - 1 : below[k] = fs[k]
  BY <1>1, SubSeqProperties
<1> HIDE DEF below
<1>3. Len(rs) = Len(below) + 1 /\ \A k \in 1 .. Len(below) : rs[k] = below[k]
  BY <1>2, AppendProperties DEF S
<1> HIDE DEF rs
<1>4. ASSUME NEW k \in 1 .. Len(rs) - 1 PROVE rs[k].ops = <<>>
  <2>1. k \in 1 .. a - 1 /\ k \in 1 .. Len(fs) - 1
    BY <1>1, <1>2, <1>3
  <2> QED
    BY <1>2, <1>3, <2>1 DEF Idle
<1> QED
  BY <1>4 DEF Idle, rs, below

LEMMA IdleTop ==
  ASSUME NEW fs \in Seq(Frame), fs # <<>>, Idle(fs), NEW g
  PROVE  Idle([fs EXCEPT ![Len(fs)] = g])
<1> DEFINE S == Frame \cup {g}
           n == Len(fs)
           rs == [fs EXCEPT ![n] = g]
<1>1. fs \in Seq(S) /\ n \in Nat /\ n \in 1 .. Len(fs) /\ g \in S /\ n = Len(fs)
  <2>1. n \in Nat /\ n > 0
    OBVIOUS
  <2> QED
    BY <2>1
<1> HIDE DEF S, n
<1>2. Len(rs) = Len(fs) /\ \A k \in 1 .. Len(fs) : rs[k] = IF k = n THEN g ELSE fs[k]
  BY ONLY <1>1, ExceptSeq
<1> HIDE DEF rs
<1>3. ASSUME NEW k \in 1 .. Len(rs) - 1 PROVE rs[k].ops = <<>>
  <2>1. k \in 1 .. Len(fs) - 1 /\ k \in 1 .. Len(fs) /\ k # n
    BY <1>1, <1>2
  <2> QED
    BY <1>2, <2>1 DEF Idle
<1> QED
  BY <1>3 DEF Idle, rs, n

LEMMA IdleGoesOn ==
  ASSUME VMInv, frames # <<>>, Idle(frames),
         NEW g, frames' = [frames EXCEPT ![Len(frames)] = g]
  PROVE  Idle(frames')
<1>1. frames \in Seq(Frame)
  BY Current
<1>2. Idle([frames EXCEPT ![Len(frames)] = g])
  BY <1>1, IdleTop
<1> QED
  BY <1>2

\* A flat program calls its closures when it has nothing but the operands of
\* the call.
LEMMA IdleCallInline ==
  ASSUME VMInv, ShapesHold, Flat(img), Idle(frames), CallInline
  PROVE  Idle(frames')
<1> DEFINE n == Len(frames)
           rest == Cut(stack, Needs)
           kinds == Typing[img][F.pc].kinds
<1>1. /\ frames # <<>> /\ Op = 67 /\ Needs = I[2] + 2
      /\ Needs \in 0 .. Len(F.ops)
      /\ \E pc, id \in Nat, f \in Frame :
           /\ f.base = F.base /\ f.ops = Cut(F.ops, Needs)
           /\ frames' = Append([frames EXCEPT ![n] = f], Activation(pc, id, rest))
  BY CallLeaves
<1>2. PICK pc, id \in Nat, f \in Frame :
        /\ f.base = F.base /\ f.ops = Cut(F.ops, Needs)
        /\ frames' = Append([frames EXCEPT ![n] = f], Activation(pc, id, rest))
  BY <1>1
<1>3. /\ F.pc \in DOMAIN Typing[img] /\ Op = OpAt(img, F.pc) /\ I = img.code[F.pc]
      /\ Len(F.ops) = Len(kinds)
  BY <1>1, Here
<1>4. MayInline(img, F.pc, Typing[img][F.pc])
  BY CalleeMayBeInlined
<1>5. Len(kinds) = I[2] + 2
  <2>1. \/ Len(Typing[img][F.pc].kinds) = img.code[F.pc][2] + 2
        \/ ~MayInline(img, F.pc, Typing[img][F.pc])
    BY <1>1, <1>3 DEF Flat
  <2> QED
    BY <1>3, <1>4, <2>1
<1>6. F.ops \in Seq(Value) /\ frames \in Seq(Frame) /\ n \in Nat /\ DOMAIN frames = 1 .. n
  BY <1>1, Current
<1> HIDE DEF kinds, rest
<1>7. f.ops = <<>>
  <2>1. Len(F.ops) = Needs
    BY <1>1, <1>3, <1>5
  <2>2. Cut(F.ops, Needs) \in Seq(Value) /\ Len(Cut(F.ops, Needs)) = Len(F.ops) - Needs
    BY <1>1, <1>6, CutFacts
  <2>3. Len(Cut(F.ops, Needs)) = 0
    BY <1>1, <2>1, <2>2
  <2> QED
    BY <1>2, <2>2, <2>3
<1> DEFINE fs == [frames EXCEPT ![n] = f]
           g == Activation(pc, id, rest)
<1>8. /\ fs \in Seq(Frame) /\ Len(fs) = n
      /\ \A k \in 1 .. n : k # n => fs[k] = frames[k]
      /\ n \in 1 .. n => fs[n] = f
  <2>1. n \in 1 .. n
    <3>1. n > 0
      BY <1>1, <1>6
    <3> QED
      BY <1>6, <3>1
  <2> HIDE DEF rest
  <2>2. /\ fs \in Seq(Frame) /\ Len(fs) = n
        /\ \A k \in 1 .. n : fs[k] = IF k = n THEN f ELSE frames[k]
    BY <1>6, <2>1, ExceptSeq
  <2> HIDE DEF fs
  <2> QED
    BY <2>2
<1> HIDE DEF fs, g
<1>9. \A k \in 1 .. n : fs[k].ops = <<>>
  <2>1. ASSUME NEW k \in 1 .. n PROVE fs[k].ops = <<>>
    <3>1. CASE k = n
      BY <1>7, <1>8, <3>1
    <3>2. CASE k # n
      <4> HIDE DEF n
      <4>1. k \in 1 .. n - 1
        BY ONLY <1>6, <3>2, k \in 1 .. n
      <4>2. frames[k].ops = <<>>
        BY <4>1 DEF Idle, n
      <4> QED
        BY <1>8, <3>2, <4>2
    <3> QED
      BY <3>1, <3>2
  <2> QED
    BY <2>1
<1> HIDE DEF n
<1>10. frames' = Append(fs, g)
  BY <1>2 DEF fs, g
<1>11. Len(frames') = n + 1 /\ \A k \in 1 .. n : frames'[k] = fs[k]
  <2>1. fs \in Seq(Frame \cup {g}) /\ g \in Frame \cup {g}
    BY <1>8
  <2> QED
    BY <1>8, <1>10, <2>1, AppendProperties
<1>12. 1 .. Len(frames') - 1 = 1 .. n
  BY <1>6, <1>11
<1> QED
  BY <1>9, <1>11, <1>12 DEF Idle

LEMMA IdleReturn ==
  ASSUME VMInv, Idle(frames), Return PROVE Idle(frames')
<1>1. frames # <<>>
  BY Instruction DEF Return
<1>2. CASE Len(frames) > 1
  <2> DEFINE n == Len(frames)
             g == [frames[n - 1] EXCEPT !.ops = Append(@, Nth(1))]
  <2>1. frames' = Append(Cut(frames, 2), g)
    BY <1>2 DEF Return
  <2>2. frames \in Seq(Frame) /\ n \in Nat /\ n - 1 \in DOMAIN frames
    BY <1>1, <1>2, Current
  <2>3. Cut(frames, 2) = SubSeq(frames, 1, (n - 1) - 1)
    <3>1. Len(frames) - 2 = (n - 1) - 1
      BY <2>2
    <3> QED
      BY <3>1 DEF Cut
  <2> HIDE DEF g
  <2> QED
    BY <2>1, <2>2, <2>3, IdleBelow
<1>3. CASE ~(Len(frames) > 1)
  BY <1>3 DEF Return, Idle
<1> QED
  BY <1>2, <1>3

LEMMA IdleThrow ==
  ASSUME VMInv, Idle(frames), Throw PROVE Idle(frames')
<1>1. frames # <<>>
  BY Instruction DEF Throw
<1>2. CASE Catchers # {}
  <2> DEFINE a == Greatest(Catchers)
  <2>1. PICK g : frames' = Append(SubSeq(frames, 1, a - 1), g)
    BY <1>2 DEF Throw, Catch
  <2>2. frames \in Seq(Frame) /\ Len(frames) \in Nat /\ Catchers \subseteq 1 .. Len(frames)
    BY <1>1, Current DEF Catchers
  <2>3. a \in DOMAIN frames
    BY <1>2, <2>2, GreatestIsThere DEF Catchers
  <2> HIDE DEF a
  <2> QED
    BY <2>1, <2>2, <2>3, IdleBelow
<1>3. CASE ~(Catchers # {})
  BY <1>3 DEF Throw, Idle
<1> QED
  BY <1>2, <1>3

LEMMA ImageStays == ASSUME [Next]_vars PROVE img' = img
BY DEF Next, Execute, HostCalls, Finished, vars, Quiet, PushConstant, MakeArray,
       Compute, Load, Store, PushRef, Write, MakeClosure, Jump, Branch, Pop, Dup,
       ForIn, NextKey, EnterTry, SetExit, LeaveTry, CallInline, CallHost, Return, Throw

LEMMA IdleNext ==
  ASSUME VMInv, ShapesHold, Flat(img), Idle(frames), [Next]_vars
  PROVE  Idle(frames')
<1>1. CASE Ordinary
  <2>1. frames # <<>> /\ Stepping
    BY <1>1, OrdinarySteps
  <2>2. PICK g : frames' = [frames EXCEPT ![Len(frames)] = g]
    BY <2>1 DEF Stepping, Step, SetTop
  <2> QED
    BY <2>1, <2>2, IdleGoesOn
<1>2. CASE EnterTry \/ SetExit \/ LeaveTry
  <2>1. frames # <<>> /\ \E g \in Frame : frames' = [frames EXCEPT ![Len(frames)] = g]
    BY <1>2, HandlerActions
  <2> QED
    BY <2>1, IdleGoesOn
<1>3. CASE CallInline
  BY <1>3, IdleCallInline
<1>4. CASE Return
  BY <1>4, IdleReturn
<1>5. CASE Throw
  BY <1>5, IdleThrow
<1>6. CASE HostCalls
  BY <1>6 DEF HostCalls, Idle
<1>7. CASE Finished \/ UNCHANGED vars
  BY <1>7 DEF Finished, vars
<1> QED
  BY <1>1, <1>2, <1>3, <1>4, <1>5, <1>6, <1>7 DEF Next, Execute, Ordinary

(***************************************************************************)
(* In a program that never calls a closure of its own in the middle of an  *)
(* expression the array always shows the operands of the expression that   *)
(* is evaluated, whatever throws and wherever it is caught: the shared     *)
(* array of dy_ab.js is as good as a stack per activation.                 *)
(***************************************************************************)
THEOREM FlatPrograms ==
  FairSpec => [](Flat(img) => OperandsAreTheExpressions)
<1>1. Init => FlatStays
  BY DEF Init, FlatStays, AlignedNow, Aligned, Idle
<1>2. VMInv /\ ShapesHold /\ FlatStays /\ [Next]_vars => FlatStays'
  <2> SUFFICES ASSUME VMInv, ShapesHold, FlatStays, [Next]_vars, Flat(img)'
               PROVE  Idle(frames)' /\ AlignedNow'
    BY DEF FlatStays
  <2>1. Flat(img) /\ Idle(frames) /\ AlignedNow
    BY ImageStays DEF FlatStays
  <2>2. Idle(frames')
    BY <2>1, IdleNext
  <2>3. ReturnsAreTidy
    <3> SUFFICES ASSUME At({66}), Len(frames) > 1 PROVE frames[Len(frames) - 1].ops = <<>>
      BY DEF ReturnsAreTidy
    <3>1. frames # <<>>
      BY DEF At
    <3>2. Len(frames) \in Nat
      BY <3>1, Current
    <3>3. Len(frames) - 1 \in 1 .. Len(frames) - 1
      BY <3>2
    <3> QED
      BY <2>1, <3>3 DEF Idle
  <2>4. AlignedNow'
    BY <2>1, <2>3, AlignedNext
  <2> QED
    BY <2>2, <2>4
<1>3. VMInv /\ FlatStays => (Flat(img) => OperandsAreTheExpressions)
  BY AlignedIsShown DEF FlatStays
<1> QED
  BY <1>1, <1>2, <1>3, ShapesAlways, PTL DEF FairSpec, Spec
=============================================================================
