------------------------------ MODULE SignerVM ------------------------------
(***************************************************************************)
(* The bytecode interpreter of the request signer, lib/dy_ab.js.           *)
(*                                                                         *)
(* The file holds 26 copies of one interpreter, `function e(r,t,n,a,f)`,   *)
(* each with a program of its own.  A call from bytecode to a closure of   *)
(* the same copy is not a JavaScript call: the interpreter saves pc,       *)
(* scope and handlers in the list `v` and goes on in the same loop with    *)
(* the same operand array `p` and the same top `d`.  Neither a return nor  *)
(* an exception resets `d`.  An exception caught in the middle of an       *)
(* expression therefore leaves the operands of that expression behind,     *)
(* and what the array shows is what the program means only if nobody       *)
(* reaches below them.                                                     *)
(*                                                                         *)
(* `stack` is p[0..d].  A frame carries, beside what the code saves, two   *)
(* ghosts: `ops`, the operands of the expression this activation is        *)
(* evaluating, as a machine with a stack per activation would hold them,   *)
(* and `base`, what the array held when the activation began.              *)
(*                                                                         *)
(* Not modelled: `finally` (opcode 63, handlers of kind 2 and 3, the       *)
(* completion record `h`): no program of the file contains one, so `h` is  *)
(* always [0, null].                                                       *)
(***************************************************************************)
EXTENDS Naturals, Sequences, FiniteSets

CONSTANTS
  Images,    \* [copy, code, scopes, given]: a copy of the interpreter and
             \* its program; an instruction is <<opcode, operands>>, a jump
             \* names the instruction it goes to
  MaxSlot,   \* scopes have the slots 0..MaxSlot
  MaxCalls   \* bound: how often the host calls a closure of the program

Slots == 0 .. MaxSlot

(***************************************************************************)
(* Values.  "nil" is null or undefined, "ext" an object or function of the *)
(* stub environment that is there for certain (dy_ab.js 1-60), "any" what  *)
(* a property read or a host call may answer, "obj" an object made by the  *)
(* program, "prim" a number, string or boolean, "fn" a closure (u._v: its  *)
(* entry n, its arity, its scope), "scope" a scope pushed by opcode 23.    *)
(* For the others n is the number, or the place the value comes from.      *)
(***************************************************************************)
Kinds == {"nil", "ext", "any", "obj", "prim", "fn", "scope"}
Value == [kind : Kinds, n : Nat, arity : Nat, scope : Nat]
Plain(k, n) == [kind |-> k, n |-> n, arity |-> 0, scope |-> 0]
Nil == Plain("nil", 0)

ASSUME BoundsAssumption == MaxSlot \in Nat /\ MaxCalls \in Nat

VARIABLES
  img,      \* the program this interpreter runs
  frames,   \* `v` and the current activation, which is the last
  stack,    \* p[0..d]
  scopes,   \* scope objects: parent and slots; scopes[1] is the outer scope
  given,    \* closures the host has: it may call them
  calls     \* calls the host has made
vars == <<img, frames, stack, scopes, given, calls>>

Handler == [live : BOOLEAN, exit : Nat, catch : Nat, ops : Seq(Value)]
Frame == [pc : Nat, scope : Nat, hs : Seq(Handler),
          ops : Seq(Value), base : Seq(Value)]

-----------------------------------------------------------------------------
\* The dispatch tree: `if (y < 40) if (y < 21) ...`.  The instruction that a
\* copy executes for an opcode is at the last bound not above it.
Leaf(c, op) == c.leaf[Cardinality({k \in DOMAIN c.from : c.from[k] <= op})]
\* The loader throws "mhe" or "ve" at a header it does not know, and starts
\* at the entry.
Loads(c) == /\ c.head[1] = 1213091658 /\ c.head[2] = 1077891651
            /\ c.head[3] = 0
            /\ c.head[4] < c.head[5]

\* What a program consists of: instructions with their operands, slots that
\* scopes have, and outer scopes of values.
WithOperand == {3, 4, 5, 12, 17, 20, 23, 51, 52, 59, 60, 61, 62,
                67, 68, 69, 71, 72, 75}
OfSlots == {17, 20, 23}
WellFormed(c, i) ==
  LET op == Leaf(c, i[1])
  IN  /\ op \in WithOperand => Len(i) >= 2
      /\ op \in OfSlots => Len(i) >= 3 /\ i[3] \in Slots
ASSUME ImagesAssumption ==
  \A m \in Images :
    /\ m.code \in Seq(Seq(Nat))
    /\ \A k \in DOMAIN m.code : WellFormed(m.copy, m.code[k])
    /\ m.scopes \in Seq([p : Nat, slots : [Slots -> Value]])
    /\ m.given \subseteq Value

F == frames[Len(frames)]
I == img.code[F.pc]
Op == Leaf(img.copy, I[1])
Cut(s, n) == SubSeq(s, 1, Len(s) - n)
Nth(n) == stack[Len(stack) + 1 - n]        \* the n-th operand from the top

\* The operands of the expression, counted from where the innermost try began.
Own == Len(F.ops) - IF F.hs = <<>> THEN 0 ELSE Len(F.hs[Len(F.hs)].ops)
Has(n) == n <= Own
At(ops) == frames # <<>> /\ F.pc \in DOMAIN img.code /\ Op \in ops

SetTop(f) == frames' = [frames EXCEPT ![Len(frames)] = f]

\* n operands are replaced by `new` and the activation goes on at pc.
Step(n, new, pc) ==
  /\ stack' = Cut(stack, n) \o new
  /\ SetTop([F EXCEPT !.pc = pc, !.ops = Cut(F.ops, n) \o new])

Activation(pc, scope, base) ==
  [pc |-> pc, scope |-> scope, hs |-> <<>>, ops |-> <<>>, base |-> base]
SetSlot(id, slot, v) ==
  scopes' = [scopes EXCEPT ![id].slots[slot] = v]
Closure(n, arity, scope) ==
  [kind |-> "fn", n |-> n, arity |-> arity, scope |-> scope]
Closures(s) == {v \in {s[k] : k \in DOMAIN s} : v.kind = "fn"}

\* The scope l levels up: `for (b = g; s > 0; --s) b = b.p`.
Up(l) == LET at[k \in 0 .. l] == IF k = 0 THEN F.scope
                                 ELSE IF at[k - 1] \in DOMAIN scopes
                                      THEN scopes[at[k - 1]].p ELSE 0
         IN  at[l]
-----------------------------------------------------------------------------
(***************************************************************************)
(* Opcodes, by what they do with operands.                                 *)
(***************************************************************************)
Constants == {0, 1, 2, 3, 4, 5, 7, 8, 11, 13}
Reads == {18, 19, 33}
Coercions == {24, 25, 26, 27, 28, 29, 30, 35, 36, 39, 40, 41, 42,
              43, 44, 46, 47, 48, 49}
Tests == {54, 55}
Pure == {37, 38, 50, 56, 58}
Unary == {18, 29, 30, 48, 50, 56, 58}
Computes == Reads \cup Coercions \cup Tests \cup Pure
Writes == {14, 21, 22, 53}
Invokes == {67, 68}
Jumps == {51, 52, 71, 72}
CanThrow == Computes \cup Writes \cup Invokes \cup {64}

Arity(op) == IF op \in Unary THEN 1 ELSE 2

\* Operands an instruction looks at, the callee and `this` included.
Needs == CASE Op \in Computes -> Arity(Op)
           [] Op \in Writes -> IF Op \in {22, 53} THEN 3 ELSE 2
           [] Op = 67 -> I[2] + 2
           [] Op = 68 -> I[2] + 1
           [] OTHER -> 1

\* (mutant) `this` is read, not taken, before the call.
TakenButThis == CASE Op \in {21, 22} -> Needs
                  [] Op = 67 -> Needs - 1
                  [] Op \in {33, 53} -> 2
                  [] Op \in Computes \ {33} -> Arity(Op) - 1
                  [] OTHER -> 1

\* Operands that have left the array when the host's exception comes.
Taken == CASE Op \in {21, 22} \cup Invokes -> Needs
           [] Op \in {33, 53} -> 2
           [] Op \in Computes \ {33} -> Arity(Op) - 1
           [] OTHER -> 1

\* The object of a read or a write, the callee of a call.
Subject == CASE Op \in Reads -> Nth(Arity(Op))
             [] Op \in {14, 22, 53} -> Nth(2)
             [] Op = 21 -> Nth(1)
             [] OTHER -> Nth(I[2] + 1)

Inlined == Op = 67 /\ Subject.kind = "fn"                 \* s._u === e

\* The host throws for certain, or it may.
MustThrow ==
  \/ Op = 64
  \/ Op \in Reads \cup Writes /\ Subject.kind = "nil"
  \/ Op \in Tests /\ Nth(1).kind \in {"nil", "prim"}
  \/ Op \in Invokes /\ Subject.kind \in {"nil", "prim", "obj", "scope"}
MayThrow ==
  \/ MustThrow
  \/ Op \in Reads \cup Writes /\ Subject.kind = "any"
  \/ Op \in Coercions /\ \E k \in 1 .. Arity(Op) : Nth(k).kind = "any"
  \/ Op \in Tests /\ Nth(1).kind = "any"
  \/ Op \in Invokes /\ ~Inlined

Answer ==
  CASE Op \in {2, 8, 56} -> Nil
    [] Op \in {3, 4, 5} -> Plain("prim", I[2])
    [] Op = 13 -> Plain("obj", F.pc)
    [] Op \in {11, 18, 19} -> Plain("any", F.pc)
    [] OTHER -> Plain("prim", F.pc)

Truths(v) == CASE v.kind = "nil" -> {FALSE}
               [] v.kind \in {"any", "prim"} -> BOOLEAN
               [] OTHER -> {TRUE}
-----------------------------------------------------------------------------
Init ==
  /\ img \in Images
  /\ scopes = img.scopes
  /\ given = img.given
  /\ frames = <<>>
  /\ stack = <<>>
  /\ calls = 0

\* (mutant) The arguments without the array before them.
CalledPlainly(c, args) ==
  [p |-> c.scope,
   slots |-> [s \in 0 .. Len(args) |->
                IF s \in DOMAIN args THEN args[s] ELSE Nil]]

\* A scope for a call: the arguments array and min(arity, count) of them.
Called(c, args) ==
  [p |-> c.scope,
   slots |-> [s \in Slots |->
                CASE s = 0 -> Plain("obj", c.n)
                  [] s \in 1 .. c.arity /\ s \in DOMAIN args -> args[s]
                  [] OTHER -> Nil]]

\* The host calls a closure: `(0, e._u)(r[0], arguments, r[1], r[2], this)`
\* starts the interpreter anew, with an array of its own.
HostCalls ==
  /\ frames = <<>>
  /\ calls < MaxCalls
  /\ \E c \in given :
       /\ scopes' = Append(scopes,
                           Called(c, [s \in 1 .. c.arity |-> Plain("any", c.n)]))
       /\ frames' = <<Activation(c.n, Len(scopes) + 1, <<>>)>>
  /\ stack' = <<>>
  /\ calls' = calls + 1
  /\ UNCHANGED <<img, given>>

Quiet == UNCHANGED <<img, scopes, given, calls>>

\* Opcodes 0-8, 11, 13: p[++d] = ...
PushConstant == At(Constants) /\ Step(0, <<Answer>>, F.pc + 1) /\ Quiet

\* Opcode 12: the last n operands become an array.
MakeArray ==
  /\ At({12}) /\ Has(I[2])
  /\ Step(I[2], <<Plain("obj", F.pc)>>, F.pc + 1)
  /\ Quiet

\* Reads, arithmetic, comparisons; x++ also writes, a slot when x is one.
Compute ==
  /\ At(Computes) /\ Has(Needs) /\ ~MustThrow
  /\ Step(Needs, <<Answer>>, F.pc + 1)
  /\ IF Op = 33 /\ Subject.kind = "scope"
     THEN SetSlot(Subject.scope, Nth(1).n, Plain("prim", F.pc))
     ELSE UNCHANGED scopes
  /\ UNCHANGED <<img, given, calls>>

\* Opcodes 17, 20 and 23: a slot of the scope I[2] levels up.
Load ==
  /\ At({17}) /\ Up(I[2]) \in DOMAIN scopes
  /\ Step(0, <<scopes[Up(I[2])].slots[I[3]]>>, F.pc + 1)
  /\ Quiet

Store ==
  /\ At({20}) /\ Has(1) /\ Up(I[2]) \in DOMAIN scopes
  /\ Step(1, <<>>, F.pc + 1)
  /\ SetSlot(Up(I[2]), I[3], Nth(1))
  /\ given' = given \cup IF Up(I[2]) = 1 THEN Closures(<<Nth(1)>>) ELSE {}
  /\ UNCHANGED <<img, calls>>

PushRef ==
  /\ At({23}) /\ Up(I[2]) \in DOMAIN scopes
  /\ Step(0, <<[Plain("scope", 0) EXCEPT !.scope = Up(I[2])],
               Plain("prim", I[3])>>, F.pc + 1)
  /\ Quiet

\* Opcodes 14 and 53 leave the object or the value, 21 and 22 nothing.
Write ==
  /\ At(Writes) /\ Has(Needs) /\ ~MustThrow
  /\ Step(CASE Op = 14 -> 1 [] Op \in {21, 53} -> 2 [] OTHER -> 3,
          <<>>, F.pc + 1)
  /\ IF Op \in {22, 53} /\ Subject.kind = "scope"
     THEN SetSlot(Subject.scope, Nth(1).n, Nth(3))
     ELSE UNCHANGED scopes
  /\ UNCHANGED <<img, given, calls>>

\* Opcode 59, and 60 whose closure has a scope with its own name in slot 0.
MakeClosure ==
  /\ At({59, 60}) /\ Has(1)
  /\ LET named == Closure(Nth(1).n, I[2], Len(scopes) + 1)
         plain == Closure(Nth(1).n, I[2], F.scope)
     IN  IF Op = 60
         THEN /\ Step(1, <<named>>, F.pc + 1)
              /\ scopes' = Append(scopes,
                   [p |-> F.scope,
                    slots |-> [s \in Slots |-> IF s = 0 THEN named ELSE Nil]])
         ELSE Step(1, <<plain>>, F.pc + 1) /\ UNCHANGED scopes
  /\ UNCHANGED <<img, given, calls>>

Jump == At({69}) /\ Step(0, <<>>, I[2]) /\ Quiet

\* Opcodes 51 (&&), 52 (||), 71 (if not) and 72 (a case of a switch).
Branch ==
  /\ At(Jumps) /\ Has(IF Op = 72 THEN 2 ELSE 1)
  /\ \E t \in IF Op = 72 THEN BOOLEAN ELSE Truths(Nth(1)) :
       CASE Op = 51 -> IF t THEN Step(1, <<>>, F.pc + 1) ELSE Step(0, <<>>, I[2])
         [] Op = 52 -> IF t THEN Step(0, <<>>, I[2]) ELSE Step(1, <<>>, F.pc + 1)
         [] Op = 71 -> Step(1, <<>>, IF t THEN F.pc + 1 ELSE I[2])
         [] Op = 72 -> IF t THEN Step(2, <<>>, I[2]) ELSE Step(1, <<>>, F.pc + 1)
  /\ Quiet

Pop == At({73}) /\ Has(1) /\ Step(1, <<>>, F.pc + 1) /\ Quiet
Dup == At({74}) /\ Has(1) /\ Step(0, <<Nth(1)>>, F.pc + 1) /\ Quiet

\* Opcode 75: the keys of an object go into a slot of this scope.
ForIn ==
  /\ At({75}) /\ Has(1)
  /\ Step(1, <<>>, F.pc + 1)
  /\ SetSlot(F.scope, I[2], Plain("obj", F.pc))
  /\ UNCHANGED <<img, given, calls>>

\* Opcode 76: the next key is stored through a reference, or there is none.
NextKey ==
  /\ At({76}) /\ Has(2)
  /\ Step(2, <<Plain("prim", F.pc)>>, F.pc + 1)
  /\ \/ Nth(2).kind = "scope" /\ SetSlot(Nth(2).scope, Nth(1).n, Plain("prim", F.pc))
     \/ UNCHANGED scopes
  /\ UNCHANGED <<img, given, calls>>

\* Opcode 62: m.push([1, 0, r]); the catch body follows, I[2] is past it.
EnterTry ==
  /\ At({62})
  /\ F.hs # <<>> => F.hs[Len(F.hs)].exit # 0
  /\ SetTop([F EXCEPT !.pc = I[2],
               !.hs = Append(@, [live |-> TRUE, exit |-> 0, catch |-> F.pc + 1,
                                 ops |-> F.ops])])
  /\ UNCHANGED stack /\ Quiet

\* Opcode 61: where the statement ends.
SetExit ==
  /\ At({61}) /\ F.hs # <<>>
  /\ SetTop([F EXCEPT !.pc = @ + 1, !.hs[Len(F.hs)].exit = I[2]])
  /\ UNCHANGED stack /\ Quiet

\* Opcode 65: the end of a try body or of a catch body.
LeaveTry ==
  /\ At({65}) /\ F.hs # <<>>
  /\ SetTop([F EXCEPT !.pc = F.hs[Len(F.hs)].exit, !.hs = Cut(@, 1)])
  /\ UNCHANGED stack /\ Quiet

\* Opcode 67, callee of this copy: the activation is saved, the array is kept.
CallInline ==
  /\ At({67}) /\ Has(Needs) /\ Inlined
  /\ LET c == Subject
         args == SubSeq(stack, Len(stack) - I[2] + 1, Len(stack))
         rest == Cut(stack, Needs)
     IN  /\ stack' = rest
         /\ scopes' = Append(scopes, Called(c, args))
         /\ frames' = Append([frames EXCEPT ![Len(frames)].pc = @ + 1,
                                            ![Len(frames)].ops = Cut(@, Needs)],
                             Activation(c.n, Len(scopes) + 1, rest))
  /\ UNCHANGED <<img, given, calls>>

\* Opcodes 67 and 68, any other callee: JavaScript calls it and answers.
CallHost ==
  /\ At(Invokes) /\ Has(Needs) /\ ~Inlined /\ ~MustThrow
  /\ Step(Needs, <<Plain("any", F.pc)>>, F.pc + 1)
  /\ given' = given \cup Closures(SubSeq(stack, Len(stack) - I[2] + 1, Len(stack)))
  /\ UNCHANGED <<img, scopes, calls>>

\* Opcode 66: to the caller's frame, or out of the interpreter.
Return ==
  /\ At({66}) /\ Has(1)
  /\ IF Len(frames) > 1
     THEN LET caller == frames[Len(frames) - 1]
          IN  /\ stack' = Cut(stack, 1) \o <<Nth(1)>>
              /\ frames' = Append(Cut(frames, 2),
                                  [caller EXCEPT !.ops = Append(@, Nth(1))])
              /\ UNCHANGED given
     ELSE /\ frames' = <<>>
          /\ stack' = <<>>
          /\ given' = given \cup Closures(<<Nth(1)>>)
  /\ UNCHANGED <<img, scopes, calls>>

\* The innermost live handler of the innermost activation that has one.  The
\* handlers above it are dropped, and so are the activations; the operands of
\* the interrupted expression are not.
LiveHandlers(a) == {h \in DOMAIN frames[a].hs : frames[a].hs[h].live}
Catchers == {a \in DOMAIN frames : LiveHandlers(a) # {}}
Greatest(S) == CHOOSE x \in S : \A y \in S : y <= x

\* (mutant) A catch clears the array.
CatchClears(a, h) ==
  LET f == frames[a]
      e == Plain("any", F.pc)
  IN  /\ stack' = <<e>>
      /\ frames' = Append(SubSeq(frames, 1, a - 1),
           [f EXCEPT !.pc = f.hs[h].catch,
                     !.hs = Append(SubSeq(@, 1, h - 1),
                                   [f.hs[h] EXCEPT !.live = FALSE]),
                     !.ops = Append(f.hs[h].ops, e)])

\* (mutant) The handler stays live: `c[0] = 0` is missing.
CatchAgain(a, h) ==
  LET f == frames[a]
      e == Plain("any", F.pc)
  IN  /\ stack' = Append(Cut(stack, Taken), e)
      /\ frames' = Append(SubSeq(frames, 1, a - 1),
           [f EXCEPT !.pc = f.hs[h].catch,
                     !.hs = SubSeq(@, 1, h),
                     !.ops = Append(f.hs[h].ops, e)])

Catch(a, h) ==
  LET f == frames[a]
      e == Plain("any", F.pc)
  IN  /\ stack' = Append(Cut(stack, Taken), e)
      /\ frames' = Append(SubSeq(frames, 1, a - 1),
           [f EXCEPT !.pc = f.hs[h].catch,
                     !.hs = Append(SubSeq(@, 1, h - 1),
                                   [f.hs[h] EXCEPT !.live = FALSE]),
                     !.ops = Append(f.hs[h].ops, e)])

Throw ==
  /\ At(CanThrow) /\ Has(Needs) /\ MayThrow
  /\ IF Catchers # {}
     THEN LET a == Greatest(Catchers) IN Catch(a, Greatest(LiveHandlers(a)))
     ELSE frames' = <<>> /\ stack' = <<>>
  /\ Quiet

Execute ==
  \/ PushConstant \/ MakeArray \/ Compute \/ Load \/ Store \/ PushRef
  \/ Write \/ MakeClosure \/ Jump \/ Branch \/ Pop \/ Dup \/ ForIn \/ NextKey
  \/ EnterTry \/ SetExit \/ LeaveTry
  \/ CallInline \/ CallHost \/ Return \/ Throw

\* The host has made its calls, or has nothing to call.
Finished == frames = <<>> /\ (calls = MaxCalls \/ given = {}) /\ UNCHANGED vars

Next == HostCalls \/ Execute \/ Finished
Spec == Init /\ [][Next]_vars
\* The loop `for (;;)` does not stop between two instructions.
FairSpec == Spec /\ WF_vars(Execute)

-----------------------------------------------------------------------------
TypeOK ==
  /\ img \in Images
  /\ frames \in Seq(Frame)
  /\ stack \in Seq(Value)
  /\ scopes \in Seq([p : Nat, slots : [Slots -> Value]])
  /\ given \subseteq Value
  /\ calls \in 0 .. MaxCalls

(***************************************************************************)
(* The array shows the operands of the expression that is evaluated: a     *)
(* program computes what it would with a stack per activation that an      *)
(* exception unwinds.  The code that would break it is the result of       *)
(* opcode 66, pushed above whatever the callee has left behind.            *)
(***************************************************************************)
OperandsAreTheExpressions ==
  frames # <<>> =>
    /\ Len(F.ops) <= Len(stack)
    /\ F.ops = SubSeq(stack, Len(stack) - Len(F.ops) + 1, Len(stack))

(***************************************************************************)
(* No activation touches the operands of those that wait for it: what the  *)
(* array held when it began is still below it, whatever it throws.         *)
(***************************************************************************)
Below(b, s) == Len(b) <= Len(s) /\ \A k \in DOMAIN b : s[k] = b[k]
CallersOperandsStay == \A a \in DOMAIN frames : Below(frames[a].base, stack)

(***************************************************************************)
(* A program without a backward jump comes to its end although every read  *)
(* and every call of it may throw: `c[0] = 0` keeps an exception thrown in *)
(* a catch body from entering that body again.                             *)
(***************************************************************************)
LoopFree == \A k \in DOMAIN img.code :
              img.code[k][1] \in Jumps \cup {61, 62, 69} => img.code[k][2] > k
EveryCallEnds == (frames # <<>> /\ LoopFree) ~> (frames = <<>>)
=============================================================================
