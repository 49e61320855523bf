--------------------------- MODULE SignerPrograms ---------------------------
(***************************************************************************)
(* Programs of the signer, decoded from the hexadecimal strings of         *)
(* lib/dy_ab.js: four whole ones, and functions of two others with the     *)
(* scopes they were made in.  <<opcode, operands>>; jumps and closures     *)
(* name instructions by their position here, and constant strings are left *)
(* out.  A scope is given with the slots that hold objects of the          *)
(* environment the file defines for itself (lines 1-60) or of JavaScript.  *)
(***************************************************************************)
EXTENDS SignerVM, SignerCopies

Ext == Plain("ext", 0)
Scope(p, ext) ==
  [p |-> p, slots |-> [s \in Slots |-> IF s \in ext THEN Ext ELSE Nil]]

\* 5595: is the canvas native, are the plugins (fn 17: a try around calls).
Program5595 ==
  [copy |-> Copy5595,
   code |-> <<
    <<17,0,1>>, <<58>>, <<7>>, <<38>>, <<52,16>>, <<17,0,1>>, <<74>>, <<18>>,
    <<67,0>>, <<74>>, <<18>>, <<7>>, <<67,1>>, <<3,0>>, <<40>>, <<66>>,
    <<62,22>>, <<20,0,2>>, <<0>>, <<66>>, <<65>>, <<61,38>>, <<17,2,0>>,
    <<74>>, <<18>>, <<7>>, <<67,1>>, <<20,0,1>>, <<2>>, <<17,1,1>>,
    <<17,0,1>>, <<18>>, <<67,1>>, <<71,37>>, <<0>>, <<66>>, <<65>>, <<2>>,
    <<17,1,1>>, <<17,2,1>>, <<18>>, <<67,1>>, <<52,54>>, <<17,2,2>>, <<58>>,
    <<7>>, <<38>>, <<51,54>>, <<17,2,1>>, <<18>>, <<17,2,2>>, <<55>>, <<50>>,
    <<52,65>>, <<17,2,3>>, <<58>>, <<7>>, <<38>>, <<51,65>>, <<17,2,1>>,
    <<18>>, <<17,2,3>>, <<55>>, <<50>>, <<66>>, <<5,1>>, <<59,1>>,
    <<20,0,1>>, <<5,17>>, <<59,0>>, <<20,1,4>>, <<8>>, <<66>> >>,
   scopes |-> <<Scope(0, {0, 1})>>,
   given |-> {Closure(66, 0, 1)}]

\* 7968: `typeof` codes of three properties of `document`, in one object
\* literal whose values are inlined calls of a function with a try.
Program7968 ==
  [copy |-> Copy7968,
   code |-> <<
    <<7>>, <<73>>, <<7>>, <<17,2,0>>, <<58>>, <<35>>, <<51,13>>, <<7>>,
    <<17,2,0>>, <<18>>, <<58>>, <<35>>, <<71,17>>, <<5,27>>, <<59,1>>,
    <<69,19>>, <<5,30>>, <<59,1>>, <<23,1,1>>, <<53>>, <<73>>, <<2>>,
    <<17,1,1>>, <<17,0,1>>, <<67,1>>, <<66>>, <<17,0,1>>, <<58>>, <<66>>,
    <<17,0,1>>, <<51,36>>, <<7>>, <<17,3,0>>, <<58>>, <<35>>, <<51,41>>,
    <<17,0,1>>, <<18>>, <<17,3,0>>, <<37>>, <<51,46>>, <<17,0,1>>,
    <<17,3,0>>, <<18>>, <<38>>, <<71,49>>, <<7>>, <<69,51>>, <<17,0,1>>,
    <<58>>, <<66>>, <<13>>, <<20,0,3>>, <<62,59>>, <<20,0,5>>, <<4,404>>,
    <<66>>, <<65>>, <<61,65>>, <<17,0,1>>, <<17,0,2>>, <<19>>, <<20,0,3>>,
    <<65>>, <<17,2,1>>, <<18>>, <<18>>, <<74>>, <<18>>, <<17,0,3>>, <<67,1>>,
    <<20,0,4>>, <<17,0,4>>, <<7>>, <<37>>, <<71,85>>, <<17,0,3>>, <<0>>,
    <<37>>, <<71,83>>, <<3,1>>, <<69,84>>, <<3,2>>, <<66>>, <<17,0,4>>,
    <<7>>, <<37>>, <<71,91>>, <<3,3>>, <<66>>, <<17,0,4>>, <<7>>, <<37>>,
    <<71,97>>, <<3,4>>, <<66>>, <<17,0,4>>, <<7>>, <<37>>, <<71,103>>,
    <<3,5>>, <<66>>, <<17,0,4>>, <<7>>, <<37>>, <<71,115>>, <<17,0,3>>,
    <<7>>, <<37>>, <<71,113>>, <<3,7>>, <<69,114>>, <<3,8>>, <<66>>,
    <<17,0,4>>, <<7>>, <<37>>, <<71,128>>, <<17,0,3>>, <<18>>, <<3,0>>,
    <<37>>, <<71,126>>, <<3,9>>, <<69,127>>, <<3,10>>, <<66>>, <<17,0,4>>,
    <<7>>, <<37>>, <<71,134>>, <<3,11>>, <<66>>, <<17,0,4>>, <<7>>, <<37>>,
    <<71,140>>, <<3,12>>, <<66>>, <<17,0,4>>, <<7>>, <<37>>, <<71,146>>,
    <<3,13>>, <<66>>, <<2>>, <<17,1,1>>, <<17,0,3>>, <<67,1>>, <<7>>, <<37>>,
    <<71,155>>, <<3,99>>, <<66>>, <<3,1>>, <<29>>, <<66>>, <<13>>, <<2>>,
    <<17,2,3>>, <<17,2,2>>, <<7>>, <<67,2>>, <<14>>, <<17,2,2>>, <<18>>,
    <<7>>, <<24>>, <<14>>, <<17,2,2>>, <<18>>, <<7>>, <<24>>, <<14>>,
    <<17,2,2>>, <<18>>, <<7>>, <<24>>, <<14>>, <<2>>, <<17,2,3>>, <<17,2,2>>,
    <<7>>, <<67,2>>, <<14>>, <<2>>, <<17,2,3>>, <<17,2,2>>, <<7>>, <<67,2>>,
    <<14>>, <<66>>, <<5,1>>, <<59,1>>, <<20,0,1>>, <<5,52>>, <<59,2>>,
    <<20,1,3>>, <<5,158>>, <<59,0>>, <<20,1,4>>, <<8>>, <<66>> >>,
   scopes |-> <<Scope(0, {0, 1, 2})>>,
   given |-> {Closure(193, 0, 1)}]

\* 8533: the collector of `navigator`, with two inlined calls of functions
\* that catch.
Program8533 ==
  [copy |-> Copy8533,
   code |-> <<
    <<62,6>>, <<20,0,1>>, <<3,2>>, <<66>>, <<65>>, <<61,16>>, <<17,2,0>>,
    <<74>>, <<18>>, <<7>>, <<67,1>>, <<73>>, <<3,1>>, <<66>>, <<65>>, <<8>>,
    <<66>>, <<62,23>>, <<20,0,1>>, <<3,2>>, <<66>>, <<65>>, <<61,33>>, <<7>>,
    <<17,2,1>>, <<54>>, <<71,30>>, <<3,1>>, <<69,31>>, <<3,2>>, <<66>>,
    <<65>>, <<8>>, <<66>>, <<13>>, <<17,2,2>>, <<18>>, <<7>>, <<24>>, <<14>>,
    <<17,2,2>>, <<18>>, <<7>>, <<24>>, <<14>>, <<17,2,2>>, <<18>>, <<7>>,
    <<24>>, <<14>>, <<17,2,2>>, <<18>>, <<7>>, <<24>>, <<14>>, <<2>>,
    <<17,2,4>>, <<17,2,2>>, <<7>>, <<67,2>>, <<14>>, <<17,2,2>>, <<18>>,
    <<7>>, <<24>>, <<14>>, <<2>>, <<17,2,4>>, <<17,2,2>>, <<7>>, <<67,2>>,
    <<14>>, <<17,2,2>>, <<18>>, <<7>>, <<24>>, <<14>>, <<2>>, <<17,2,4>>,
    <<17,2,2>>, <<7>>, <<67,2>>, <<14>>, <<17,2,2>>, <<18>>, <<7>>, <<24>>,
    <<14>>, <<17,2,2>>, <<18>>, <<7>>, <<24>>, <<14>>, <<17,2,2>>, <<18>>,
    <<71,104>>, <<17,2,3>>, <<74>>, <<18>>, <<17,2,2>>, <<18>>, <<67,1>>,
    <<69,106>>, <<3,1>>, <<29>>, <<14>>, <<17,2,2>>, <<18>>, <<7>>, <<24>>,
    <<14>>, <<17,2,2>>, <<18>>, <<7>>, <<24>>, <<14>>, <<17,2,2>>, <<18>>,
    <<71,127>>, <<17,2,3>>, <<74>>, <<18>>, <<17,2,2>>, <<18>>, <<67,1>>,
    <<69,129>>, <<3,1>>, <<29>>, <<14>>, <<17,2,2>>, <<18>>, <<7>>, <<24>>,
    <<14>>, <<17,2,2>>, <<18>>, <<7>>, <<24>>, <<14>>, <<17,2,2>>, <<18>>,
    <<7>>, <<24>>, <<14>>, <<17,2,2>>, <<18>>, <<7>>, <<24>>, <<14>>,
    <<17,2,2>>, <<18>>, <<7>>, <<24>>, <<14>>, <<2>>, <<17,2,4>>, <<17,2,2>>,
    <<7>>, <<67,2>>, <<14>>, <<2>>, <<17,2,4>>, <<17,2,2>>, <<7>>, <<67,2>>,
    <<14>>, <<17,2,2>>, <<18>>, <<7>>, <<24>>, <<14>>, <<2>>, <<17,1,1>>,
    <<67,0>>, <<14>>, <<2>>, <<17,1,2>>, <<67,0>>, <<14>>, <<17,2,2>>,
    <<18>>, <<7>>, <<24>>, <<14>>, <<17,2,2>>, <<18>>, <<7>>, <<24>>, <<14>>,
    <<17,2,2>>, <<18>>, <<7>>, <<24>>, <<14>>, <<2>>, <<17,2,4>>, <<17,2,2>>,
    <<7>>, <<67,2>>, <<14>>, <<17,2,2>>, <<18>>, <<7>>, <<24>>, <<14>>,
    <<66>>, <<5,1>>, <<59,0>>, <<20,0,1>>, <<5,18>>, <<59,0>>, <<20,0,2>>,
    <<5,35>>, <<59,0>>, <<20,1,5>>, <<8>>, <<66>> >>,
   scopes |-> <<Scope(0, {0, 1, 2, 3, 4})>>,
   given |-> {Closure(207, 0, 1)}]

\* 8754: the plugin list: two loops and a long expression inside a try.
Program8754 ==
  [copy |-> Copy8754,
   code |-> <<
    <<12,0>>, <<20,0,1>>, <<62,6>>, <<20,0,6>>, <<65>>, <<61,81>>,
    <<17,2,0>>, <<18>>, <<51,13>>, <<17,2,0>>, <<18>>, <<18>>, <<71,80>>,
    <<3,0>>, <<20,0,2>>, <<17,0,2>>, <<17,2,0>>, <<18>>, <<18>>, <<39>>,
    <<71,80>>, <<17,2,0>>, <<18>>, <<74>>, <<18>>, <<17,0,2>>, <<67,1>>,
    <<20,0,3>>, <<17,0,3>>, <<51,33>>, <<17,0,3>>, <<18>>, <<71,76>>,
    <<3,0>>, <<20,0,4>>, <<17,0,4>>, <<17,0,3>>, <<18>>, <<39>>, <<71,76>>,
    <<17,0,3>>, <<74>>, <<18>>, <<17,0,4>>, <<67,1>>, <<20,0,5>>, <<17,0,5>>,
    <<71,72>>, <<17,0,1>>, <<74>>, <<18>>, <<7>>, <<74>>, <<18>>, <<17,0,3>>,
    <<18>>, <<7>>, <<67,2>>, <<74>>, <<18>>, <<17,0,5>>, <<18>>, <<7>>,
    <<67,2>>, <<74>>, <<18>>, <<17,0,5>>, <<18>>, <<67,1>>, <<67,1>>, <<73>>,
    <<23,0,4>>, <<33>>, <<73>>, <<69,36>>, <<23,0,2>>, <<33>>, <<73>>,
    <<69,16>>, <<65>>, <<13>>, <<17,0,1>>, <<14>>, <<7>>, <<14>>, <<66>>,
    <<5,1>>, <<59,0>>, <<20,1,1>>, <<8>>, <<66>> >>,
   scopes |-> <<Scope(0, {0})>>,
   given |-> {Closure(87, 0, 1)}]

\* 7535: asyncGeneratorStep and the functions of _asyncToGenerator: a promise,
\* `_next` and `_throw`, which inline the step.
Program7535Step ==
  [copy |-> Copy7535,
   code |-> <<
    <<62,11>>, <<20,0,10>>, <<2>>, <<17,0,3>>, <<17,0,10>>, <<67,1>>, <<73>>,
    <<8>>, <<66>>, <<65>>, <<61,23>>, <<17,0,1>>, <<74>>, <<17,0,6>>, <<19>>,
    <<17,0,7>>, <<67,1>>, <<20,0,8>>, <<17,0,8>>, <<18>>, <<20,0,9>>, <<65>>,
    <<17,0,8>>, <<18>>, <<71,32>>, <<2>>, <<17,0,2>>, <<17,0,9>>, <<67,1>>,
    <<73>>, <<69,43>>, <<17,2,5>>, <<74>>, <<18>>, <<17,0,9>>, <<67,1>>,
    <<74>>, <<18>>, <<17,0,4>>, <<17,0,5>>, <<67,2>>, <<73>>, <<8>>, <<66>>,
    <<11>>, <<20,0,1>>, <<17,0,0>>, <<20,0,2>>, <<17,3,5>>, <<5,54>>,
    <<59,2>>, <<68,1>>, <<66>>, <<5,74>>, <<59,1>>, <<20,0,4>>, <<5,87>>,
    <<59,1>>, <<20,0,5>>, <<17,2,1>>, <<74>>, <<18>>, <<17,1,1>>, <<17,1,2>>,
    <<67,2>>, <<20,0,3>>, <<2>>, <<17,0,4>>, <<8>>, <<67,1>>, <<73>>, <<8>>,
    <<66>>, <<2>>, <<17,4,3>>, <<17,1,3>>, <<17,1,1>>, <<17,1,2>>,
    <<17,1,4>>, <<17,1,5>>, <<7>>, <<17,0,1>>, <<67,7>>, <<73>>, <<8>>,
    <<66>>, <<2>>, <<17,4,3>>, <<17,1,3>>, <<17,1,1>>, <<17,1,2>>,
    <<17,1,4>>, <<17,1,5>>, <<7>>, <<17,0,1>>, <<67,7>>, <<73>>, <<8>>,
    <<66>> >>,
   scopes |-> << Scope(0, {1, 5}), [Scope(1, {}) EXCEPT !.slots[3] = Closure(1, 7, 2)],
                Scope(2, {1}) >>,
   given |-> {Closure(45, 0, 3)}]

\* 7535: the key iterator of the generator runtime (for-in and a closure with
\* a name) and the generator body of the battery collector (a switch).
Program7535Loops ==
  [copy |-> Copy7535,
   code |-> <<
    <<2>>, <<17,3,1>>, <<17,0,1>>, <<67,1>>, <<20,0,2>>, <<12,0>>,
    <<20,0,3>>, <<17,0,2>>, <<75,5>>, <<23,0,4>>, <<76,5>>, <<71,20>>,
    <<17,0,3>>, <<74>>, <<18>>, <<17,0,4>>, <<67,1>>, <<73>>, <<69,10>>,
    <<17,0,3>>, <<74>>, <<18>>, <<67,0>>, <<73>>, <<5,28>>, <<60,0>>, <<66>>,
    <<17,2,3>>, <<18>>, <<71,54>>, <<17,2,3>>, <<74>>, <<18>>, <<67,0>>,
    <<20,0,1>>, <<17,0,1>>, <<17,2,2>>, <<54>>, <<71,53>>, <<17,0,1>>,
    <<17,1,0>>, <<7>>, <<53>>, <<73>>, <<3,1>>, <<50>>, <<17,1,0>>, <<7>>,
    <<53>>, <<73>>, <<17,1,0>>, <<66>>, <<69,28>>, <<3,0>>, <<50>>,
    <<17,1,0>>, <<7>>, <<53>>, <<73>>, <<17,1,0>>, <<66>>, <<3,1>>,
    <<71,152>>, <<17,0,1>>, <<18>>, <<17,0,1>>, <<7>>, <<53>>, <<3,0>>,
    <<72,81>>, <<3,3>>, <<72,92>>, <<3,7>>, <<72,128>>, <<3,10>>, <<72,146>>,
    <<7>>, <<72,146>>, <<73>>, <<69,151>>, <<3,0>>, <<17,0,1>>, <<21>>,
    <<3,3>>, <<17,0,1>>, <<21>>, <<17,6,6>>, <<74>>, <<18>>, <<67,0>>,
    <<66>>, <<17,0,1>>, <<18>>, <<20,2,1>>, <<17,0,1>>, <<74>>, <<18>>,
    <<7>>, <<13>>, <<17,2,1>>, <<18>>, <<71,105>>, <<3,1>>, <<69,106>>,
    <<3,2>>, <<14>>, <<17,2,1>>, <<18>>, <<7>>, <<24>>, <<14>>, <<17,2,1>>,
    <<18>>, <<7>>, <<24>>, <<14>>, <<17,6,7>>, <<74>>, <<18>>, <<17,2,1>>,
    <<18>>, <<3,100>>, <<26>>, <<67,1>>, <<14>>, <<67,2>>, <<66>>, <<3,7>>,
    <<17,0,1>>, <<21>>, <<17,0,1>>, <<74>>, <<7>>, <<19>>, <<3,0>>, <<67,1>>,
    <<17,0,1>>, <<21>>, <<17,0,1>>, <<74>>, <<18>>, <<7>>, <<13>>, <<67,2>>,
    <<66>>, <<17,0,1>>, <<74>>, <<18>>, <<67,0>>, <<66>>, <<69,62>>, <<8>>,
    <<66>> >>,
   scopes |-> << Scope(0, {1, 6, 7}), Scope(1, {}), Scope(2, {}), Scope(2, {}),
                Scope(4, {}), Scope(5, {}), Scope(6, {}) >>,
   given |-> {Closure(1, 1, 3), Closure(62, 1, 7)}]

\* 8977: defineProperty with toPropertyKey and toPrimitive, which throws.
Program8977 ==
  [copy |-> Copy8977,
   code |-> <<
    <<7>>, <<73>>, <<7>>, <<17,2,0>>, <<58>>, <<35>>, <<51,13>>, <<7>>,
    <<17,2,0>>, <<18>>, <<58>>, <<35>>, <<71,17>>, <<5,27>>, <<59,1>>,
    <<69,19>>, <<5,30>>, <<59,1>>, <<23,1,1>>, <<53>>, <<73>>, <<2>>,
    <<17,1,1>>, <<17,0,1>>, <<67,1>>, <<66>>, <<17,0,1>>, <<58>>, <<66>>,
    <<17,0,1>>, <<51,36>>, <<7>>, <<17,3,0>>, <<58>>, <<35>>, <<51,41>>,
    <<17,0,1>>, <<18>>, <<17,3,0>>, <<37>>, <<51,46>>, <<17,0,1>>,
    <<17,3,0>>, <<18>>, <<38>>, <<71,49>>, <<7>>, <<69,51>>, <<17,0,1>>,
    <<58>>, <<66>>, <<2>>, <<17,1,5>>, <<17,0,2>>, <<67,1>>, <<20,0,2>>,
    <<17,0,2>>, <<17,0,1>>, <<54>>, <<71,78>>, <<17,2,1>>, <<74>>, <<18>>,
    <<17,0,1>>, <<17,0,2>>, <<13>>, <<17,0,3>>, <<14>>, <<0>>, <<14>>, <<0>>,
    <<14>>, <<0>>, <<14>>, <<67,3>>, <<73>>, <<69,82>>, <<17,0,3>>,
    <<17,0,1>>, <<17,0,2>>, <<22>>, <<17,0,1>>, <<66>>, <<2>>, <<17,1,6>>,
    <<17,0,1>>, <<7>>, <<67,2>>, <<20,0,2>>, <<2>>, <<17,1,1>>, <<17,0,2>>,
    <<67,1>>, <<7>>, <<37>>, <<71,99>>, <<17,0,2>>, <<69,103>>, <<2>>,
    <<17,2,2>>, <<17,0,2>>, <<67,1>>, <<66>>, <<2>>, <<17,1,1>>, <<17,0,1>>,
    <<67,1>>, <<7>>, <<38>>, <<52,114>>, <<17,0,1>>, <<2>>, <<37>>,
    <<71,117>>, <<17,0,1>>, <<66>>, <<17,0,1>>, <<17,2,0>>, <<18>>, <<19>>,
    <<20,0,3>>, <<17,0,3>>, <<8>>, <<38>>, <<71,148>>, <<17,0,3>>, <<74>>,
    <<18>>, <<17,0,1>>, <<17,0,2>>, <<52,133>>, <<7>>, <<67,2>>, <<20,0,4>>,
    <<2>>, <<17,1,1>>, <<17,0,4>>, <<67,1>>, <<7>>, <<38>>, <<71,144>>,
    <<17,0,4>>, <<66>>, <<17,2,3>>, <<7>>, <<68,1>>, <<64>>, <<2>>,
    <<17,0,2>>, <<7>>, <<37>>, <<71,155>>, <<17,2,2>>, <<69,156>>,
    <<17,2,4>>, <<17,0,1>>, <<67,1>>, <<66>> >>,
   scopes |-> << Scope(0, {0, 1, 2, 3, 4}),
                [Scope(1, {}) EXCEPT !.slots[1] = Closure(1, 1, 2),
                                     !.slots[5] = Closure(84, 1, 2),
                                     !.slots[6] = Closure(104, 2, 2)] >>,
   given |-> {Closure(52, 3, 2)}]
=============================================================================
