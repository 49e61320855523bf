----------------------------- MODULE MCSignerVM -----------------------------
(* The interpreter with programs of the signer. *)
EXTENDS SignerPrograms, SignerStacks

\* The host calls what a program exports; the other copies only load theirs.
Programs == {Program5595, Program7968, Program8533, Program8754,
             Program7535Step, Program7535Loops, Program8977}
MCImages ==
  Programs \cup {[copy |-> c, code |-> <<>>, scopes |-> <<>>, given |-> {}] :
                   c \in Copies}

(***************************************************************************)
(* A copy loads its program, and its tree, which was cut down to the       *)
(* opcodes of that program, executes each of them and no neighbour.        *)
(***************************************************************************)
EachOpcodeHasItsLeaf(c) == Loads(c) /\ \A op \in c.code : Leaf(c, op) = op
ASSUME LeavesAssumption == \A c \in Copies : EachOpcodeHasItsLeaf(c)

\* The programs that call their own closures with no operand waiting; the
\* other two call them inside an object literal.
ASSUME FlatAssumption ==
  \A p \in {Program5595, Program8754, Program7535Step, Program7535Loops,
            Program8977} : Flat(p)
=============================================================================
