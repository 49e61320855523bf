---------------------------- MODULE SignerStacks ----------------------------
(***************************************************************************)
(* A verifier for the programs of SignerVM: what is on top of the operand  *)
(* array at each instruction, how many tries are open there, and that no   *)
(* instruction finds less than it needs.  The interpreter checks nothing   *)
(* of this when it runs (dy_ab.js reads p[d] and m[m.length - 1] as they   *)
(* are), so it is the programs that have to be right.  The module is no    *)
(* part of the machine: SignerVM_proofs shows what a verified program      *)
(* keeps when it is run.                                                   *)
(***************************************************************************)
EXTENDS SignerVM

\* The operands that matter: a number that is the entry of a closure, what
\* is no closure, and anything.
OperandKinds == {"entry", "data", "anything"}
Start == [tries |-> 0, kinds |-> <<>>]

OpAt(m, k) == Leaf(m.copy, m.code[k][1])

\* Where the closures of a program begin: those that exist when it starts,
\* and the numbers that its instructions 59 and 60 find.
Slotted(m) == UNION {{m.scopes[id].slots[s] : s \in Slots} : id \in DOMAIN m.scopes}
Made(m) == {k \in DOMAIN m.code :
              /\ OpAt(m, k) = 5
              /\ k + 1 \in DOMAIN m.code /\ OpAt(m, k + 1) \in {59, 60}}
Entries(m) == {v.n : v \in m.given \cup {w \in Slotted(m) : w.kind = "fn"}}
              \cup {m.code[k][2] : k \in Made(m)}

\* Operands an instruction looks at.
Wants(m, k) ==
  LET op == OpAt(m, k)
  IN  CASE op \in Computes -> Arity(op)
        [] op \in {22, 53} -> 3
        [] op \in {14, 21, 72, 76} -> 2
        [] op = 12 -> m.code[k][2]
        [] op = 67 -> m.code[k][2] + 2
        [] op = 68 -> m.code[k][2] + 1
        [] op \in {20, 51, 52, 59, 60, 64, 66, 71, 73, 74, 75} -> 1
        [] OTHER -> 0

\* Whether the callee of an instruction 67 may be a closure of the program.
MayInline(m, k, s) == s.kinds[Len(s.kinds) - m.code[k][2]] = "anything"
Blurred(kinds) == [j \in DOMAIN kinds |-> "anything"]

\* Where an instruction goes on from a shape, and with which shape: n operands
\* are replaced.  What an activation leaves behind comes to lie between its
\* caller's operands and its result: after such a call no kind is known.
Edge(s, pc, n, new) ==
  [to |-> pc, tries |-> s.tries, kinds |-> Cut(s.kinds, n) \o new]
AfterCall(s, pc, n) ==
  [to |-> pc, tries |-> s.tries, kinds |-> Blurred(Cut(s.kinds, n) \o <<"data">>)]
Edges(m, k, s) ==
  LET op == OpAt(m, k)
      i == m.code[k]
  IN  CASE op \in Constants ->
             {Edge(s, k + 1, 0, IF op \in {3, 4, 5} /\ i[2] \in Entries(m)
                                THEN <<"entry">> ELSE <<"data">>)}
        [] op = 12 -> {Edge(s, k + 1, i[2], <<"data">>)}
        [] op \in Computes -> {Edge(s, k + 1, Arity(op), <<"data">>)}
        [] op = 17 -> {Edge(s, k + 1, 0, <<"anything">>)}
        [] op = 23 -> {Edge(s, k + 1, 0, <<"data", "data">>)}
        [] op \in {14, 20, 73, 75} -> {Edge(s, k + 1, 1, <<>>)}
        [] op \in {21, 53} -> {Edge(s, k + 1, 2, <<>>)}
        [] op = 22 -> {Edge(s, k + 1, 3, <<>>)}
        [] op \in {59, 60} -> {Edge(s, k + 1, 1, <<"anything">>)}
        [] op = 69 -> {Edge(s, i[2], 0, <<>>)}
        [] op \in {51, 52} -> {Edge(s, k + 1, 1, <<>>), Edge(s, i[2], 0, <<>>)}
        [] op = 71 -> {Edge(s, k + 1, 1, <<>>), Edge(s, i[2], 1, <<>>)}
        [] op = 72 -> {Edge(s, k + 1, 1, <<>>), Edge(s, i[2], 2, <<>>)}
        [] op = 74 -> {Edge(s, k + 1, 0, <<s.kinds[Len(s.kinds)]>>)}
        [] op = 76 -> {Edge(s, k + 1, 2, <<"data">>)}
        [] op = 67 -> {IF MayInline(m, k, s) THEN AfterCall(s, k + 1, i[2] + 2)
                       ELSE Edge(s, k + 1, i[2] + 2, <<"data">>)}
        [] op = 68 -> {Edge(s, k + 1, i[2] + 1, <<"data">>)}
        [] op = 62 -> {[to |-> i[2], tries |-> s.tries + 1, kinds |-> <<>>],
                       [to |-> k + 1, tries |-> s.tries + 1, kinds |-> <<"data">>]}
        [] op = 61 -> {Edge(s, k + 1, 0, <<>>),
                       [to |-> i[2], tries |-> s.tries - 1, kinds |-> <<>>]}
        [] OTHER -> {}

\* A try begins and ends between expressions, its statement is entered at
\* an instruction 61, and a closure is made of an entry.
WellPlaced(m, k, s) ==
  LET op == OpAt(m, k)
  IN  /\ op \in {62, 65} => s.kinds = <<>>
      /\ op = 62 => m.code[k][2] \in DOMAIN m.code /\ OpAt(m, m.code[k][2]) = 61
      /\ op \in {61, 65} => s.tries > 0
      /\ op \in {59, 60} => s.kinds # <<>> /\ s.kinds[Len(s.kinds)] = "entry"

FitsKind(a, b) == b = a \/ b = "anything" \/ (a = "entry" /\ b = "data")
Fits(e, s) ==
  /\ e.tries = s.tries
  /\ Len(e.kinds) = Len(s.kinds)
  /\ \A j \in DOMAIN s.kinds : FitsKind(e.kinds[j], s.kinds[j])

\* s gives a shape to instructions of m so that none that can be reached
\* lacks one, and each finds what it needs.
Verified(m, s) ==
  /\ DOMAIN s \subseteq DOMAIN m.code
  /\ \A n \in Entries(m) : n \in DOMAIN s /\ s[n] = Start
  /\ \A k \in DOMAIN s :
       /\ s[k].tries \in Nat
       /\ s[k].kinds \in Seq(OperandKinds)
       /\ Wants(m, k) <= Len(s[k].kinds)
       /\ WellPlaced(m, k, s[k])
       /\ \A e \in Edges(m, k, s[k]) : e.to \in DOMAIN s /\ Fits(e, s[e.to])

(***************************************************************************)
(* The shapes of a program, from its first instruction to its last: that   *)
(* of an entry, or of an edge from an earlier instruction; where jumps     *)
(* meet the kinds are given up.  found[k] is empty for an instruction that *)
(* nothing reaches; first and last halve the program, which keeps the      *)
(* recursion shallow.                                                      *)
(***************************************************************************)
Shape == [tries : Nat, kinds : Seq(OperandKinds)]
Shapes(m) ==
  LET entries == Entries(m)
      targets == {m.code[k][2] : k \in {j \in DOMAIN m.code :
                                           OpAt(m, j) \in Jumps \cup {69}}}
      Named(j) == {m.code[j][n] : n \in 2 .. Len(m.code[j])} \cup {j + 1}
      Into(k, found) ==
        {e \in UNION {UNION {Edges(m, j, s) : s \in found[j]} :
                        j \in {i \in 1 .. k - 1 : k \in Named(i)}} : e.to = k}
      Through(e) == [tries |-> e.tries,
                     kinds |-> IF e.to \in targets THEN Blurred(e.kinds) ELSE e.kinds]
      ShapesAt(k, found) ==
        IF k \in entries THEN {Start} ELSE {Through(e) : e \in Into(k, found)}
      upto[first \in Nat, last \in Nat, found \in Seq(SUBSET Shape)] ==
        IF first = last THEN Append(found, ShapesAt(first, found))
        ELSE LET middle == (first + last) \div 2
             IN  upto[middle + 1, last, upto[first, middle, found]]
      all == IF m.code = <<>> THEN <<>> ELSE upto[1, Len(m.code), <<>>]
  IN  [k \in {j \in DOMAIN all : all[j] # {}} |-> CHOOSE s \in all[k] : TRUE]

Typing == [m \in Images |-> Shapes(m)]
ASSUME VerifiedAssumption == \A m \in Images : Verified(m, Typing[m])

-----------------------------------------------------------------------------
(***************************************************************************)
(* Every instruction finds the operands and the open try that it uses: the *)
(* guards that say so in SignerVM cut nothing off, and the interpreter     *)
(* needs none.                                                             *)
(***************************************************************************)
OperandsAreThere ==
  frames # <<>> =>
    /\ F.pc \in DOMAIN img.code
    /\ Has(Wants(img, F.pc))
    /\ Op \in {61, 65} => F.hs # <<>>
    /\ Op = 62 /\ F.hs # <<>> => F.hs[Len(F.hs)].exit # 0

(***************************************************************************)
(* A return into an expression that has operands waiting finds nothing but *)
(* its result above them.                                                  *)
(***************************************************************************)
ReturnsAreTidy ==
  At({66}) /\ Len(frames) > 1 /\ frames[Len(frames) - 1].ops # <<>>
    => Len(stack) = Len(F.base) + 1

\* No closure of a flat program is called in the middle of an expression.
Flat(m) ==
  \A k \in DOMAIN Typing[m] :
    OpAt(m, k) = 67 => \/ Len(Typing[m][k].kinds) = m.code[k][2] + 2
                       \/ ~MayInline(m, k, Typing[m][k])
=============================================================================
