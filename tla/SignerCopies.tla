---------------------------- MODULE SignerCopies ----------------------------
(***************************************************************************)
(* The 26 copies of the bytecode interpreter in lib/dy_ab.js, named by the *)
(* line they begin at.  A copy is a loader, a dispatch tree over the       *)
(* opcode, the unwinding of exceptions, and a program in hexadecimal.  The *)
(* trees are pruned: a copy tests only the opcodes its own program uses    *)
(* and sends every other opcode to the instruction of a neighbour.  A tree *)
(* belongs to its program, then, and one compared to a wrong bound runs a  *)
(* wrong instruction without any error.                                    *)
(*                                                                         *)
(*   head  the loader's words: two magic numbers, version, entry, size     *)
(*   from  the tree, as the opcodes at which the leaf changes ...          *)
(*   leaf  ... and the opcode whose instruction that leaf holds            *)
(*   code  the opcodes that occur in the program, decoded from its string  *)
(*                                                                         *)
(* What the instructions do is the same in every copy: module SignerVM.    *)
(***************************************************************************)

\* Browser shells that embed Chromium.
Copy4715 ==
  [head |-> <<1213091658, 1077891651, 0, 42, 54>>,
   from |-> <<0, 5, 6, 17, 18, 20, 21, 52, 59, 60>>,
   leaf |-> <<8, 5, 8, 17, 18, 20, 50, 52, 59, 66>>,
   code |-> {5, 8, 17, 18, 20, 50, 52, 59, 66}]

\* Window sizes that betray developer tools.
Copy5236 ==
  [head |-> <<1213091658, 1077891651, 0, 98, 120>>,
   from |-> <<0, 1, 2, 4, 5, 8, 9, 18, 19, 25, 26, 52, 53, 66, 67, 71, 72>>,
   leaf |-> <<2, 1, 2, 4, 5, 8, 17, 18, 20, 25, 41, 52, 59, 66, 67, 71, 74>>,
   code |-> {1, 2, 4, 5, 8, 17, 18, 20, 25, 41, 52, 59, 66, 67, 71, 74}]

\* Tags of the prototypes.
Copy5410 ==
  [head |-> <<1213091658, 1077891651, 0, 194, 216>>,
   from |-> <<0, 1, 2, 5, 6, 8, 9, 18, 20, 21, 38, 39, 52, 53, 59, 60, 67,
              71, 72>>,
   leaf |-> <<2, 1, 2, 5, 7, 8, 17, 18, 20, 37, 38, 51, 52, 58, 59, 66, 67,
              71, 74>>,
   code |-> {1, 2, 5, 7, 8, 17, 18, 20, 37, 38, 51, 52, 58, 59, 66, 67, 71,
             74}]

\* Is the canvas native.
Copy5595 ==
  [head |-> <<1213091658, 1077891651, 0, 141, 163>>,
   from |-> <<0, 2, 3, 5, 7, 8, 17, 18, 19, 38, 40, 41, 51, 52, 53, 58, 59,
              60, 62, 65, 66, 67, 71, 72>>,
   leaf |-> <<0, 2, 3, 5, 7, 8, 17, 18, 20, 38, 40, 50, 51, 52, 55, 58, 59,
              61, 62, 65, 66, 67, 71, 74>>,
   code |-> {0, 2, 3, 5, 7, 8, 17, 18, 20, 38, 40, 50, 51, 52, 55, 58, 59,
             61, 62, 65, 66, 67, 71, 74}]

\* Storage quota of a private window.
Copy5810 ==
  [head |-> <<1213091658, 1077891651, 0, 370, 416>>,
   from |-> <<0, 1, 2, 3, 5, 6, 7, 8, 9, 18, 20, 21, 39, 42, 43, 51, 52, 53,
              59, 66, 67, 71, 73, 74>>,
   leaf |-> <<0, 1, 2, 3, 5, 6, 7, 8, 17, 18, 20, 37, 39, 42, 50, 51, 52, 58,
              59, 66, 67, 71, 73, 74>>,
   code |-> {0, 1, 2, 3, 5, 6, 7, 8, 17, 18, 20, 37, 39, 42, 50, 51, 52, 58,
             59, 66, 67, 71, 73, 74}]

\* User agent against platform.
Copy5995 ==
  [head |-> <<1213091658, 1077891651, 0, 222, 234>>,
   from |-> <<0, 5, 6, 17, 18, 19, 50, 51, 52, 59, 60, 67, 68>>,
   leaf |-> <<2, 5, 8, 17, 18, 20, 50, 51, 52, 59, 66, 67, 74>>,
   code |-> {2, 5, 8, 17, 18, 20, 50, 51, 52, 59, 66, 67, 74}]

\* Is the page a local one.
Copy6162 ==
  [head |-> <<1213091658, 1077891651, 0, 62, 74>>,
   from |-> <<0, 7, 8, 17, 18, 19, 52, 59, 60, 67, 68, 69>>,
   leaf |-> <<5, 7, 8, 17, 18, 20, 52, 59, 66, 67, 68, 74>>,
   code |-> {5, 7, 8, 17, 18, 20, 52, 59, 66, 67, 68, 74}]

\* Is this Node.
Copy6334 ==
  [head |-> <<1213091658, 1077891651, 0, 203, 225>>,
   from |-> <<0, 2, 3, 7, 8, 9, 18, 20, 21, 35, 37, 38, 51, 52, 53, 58, 59,
              66, 67, 68, 71, 73, 74>>,
   leaf |-> <<5, 2, 5, 7, 8, 17, 18, 20, 23, 35, 37, 38, 51, 52, 53, 58, 59,
              66, 67, 69, 71, 73, 74>>,
   code |-> {2, 5, 7, 8, 17, 18, 20, 23, 35, 37, 38, 51, 52, 53, 58, 59, 66,
             67, 69, 71, 73, 74}]

\* PhantomJS and Nightmare.
Copy6524 ==
  [head |-> <<1213091658, 1077891651, 0, 100, 112>>,
   from |-> <<0, 7, 8, 17, 18, 20, 21, 50, 51, 52, 55, 56, 59, 60>>,
   leaf |-> <<5, 7, 8, 17, 18, 20, 38, 50, 51, 52, 55, 58, 59, 66>>,
   code |-> {5, 7, 8, 17, 18, 20, 38, 50, 51, 52, 55, 58, 59, 66}]

\* Headless and driven browsers.
Copy6684 ==
  [head |-> <<1213091658, 1077891651, 0, 360, 432>>,
   from |-> <<0, 1, 2, 3, 4, 5, 6, 8, 12, 13, 18, 19, 23, 24, 38, 42, 43, 51,
              52, 53, 54, 58, 59, 60, 67, 68, 71, 72>>,
   leaf |-> <<0, 1, 2, 3, 4, 5, 7, 8, 12, 17, 18, 20, 23, 37, 38, 42, 50, 51,
              52, 53, 56, 58, 59, 66, 67, 69, 71, 74>>,
   code |-> {0, 1, 2, 3, 4, 5, 7, 8, 12, 17, 18, 20, 23, 37, 38, 42, 50, 51,
             52, 53, 56, 58, 59, 66, 67, 69, 71, 74}]

\* The detectors' answers as bits.
Copy6979 ==
  [head |-> <<1213091658, 1077891651, 0, 206, 218>>,
   from |-> <<0, 2, 3, 5, 6, 17, 18, 23, 24, 43, 44, 53, 54, 66, 67, 69, 71,
              72>>,
   leaf |-> <<3, 2, 3, 5, 8, 17, 20, 23, 30, 43, 47, 53, 59, 66, 67, 69, 71,
              73>>,
   code |-> {2, 3, 5, 8, 17, 20, 23, 30, 43, 47, 53, 59, 66, 67, 69, 71, 73}]

\* The event tracker.
Copy7172 ==
  [head |-> <<1213091658, 1077891651, 0, 2753, 3113>>,
   from |-> <<0, 1, 2, 3, 4, 5, 6, 7, 8, 9, 12, 13, 14, 15, 18, 19, 20, 21,
              22, 23, 24, 25, 26, 27, 28, 31, 32, 35, 36, 38, 39, 40, 41, 42,
              43, 44, 50, 51, 52, 53, 54, 55, 56, 58, 59, 60, 61, 62, 64, 65,
              66, 67, 68, 69, 70, 71, 73, 74>>,
   leaf |-> <<0, 1, 2, 3, 4, 5, 6, 7, 8, 11, 12, 13, 14, 17, 18, 19, 20, 21,
              22, 23, 24, 25, 26, 27, 28, 31, 33, 35, 37, 38, 39, 40, 41, 42,
              43, 47, 50, 51, 52, 53, 54, 55, 56, 58, 59, 60, 61, 62, 64, 65,
              66, 67, 68, 69, 70, 71, 73, 74>>,
   code |-> {0, 1, 2, 3, 4, 5, 6, 7, 8, 11, 12, 13, 14, 17, 18, 19, 20, 21,
             22, 23, 24, 25, 26, 27, 28, 31, 33, 35, 37, 38, 39, 40, 41, 42,
             43, 47, 50, 51, 52, 53, 54, 55, 56, 58, 59, 60, 61, 62, 64, 65,
             66, 67, 68, 69, 70, 71, 73, 74}]

\* Generator runtime and battery collector.
Copy7535 ==
  [head |-> <<1213091658, 1077891651, 0, 4971, 5033>>,
   from |-> <<0, 3, 4, 7, 8, 9, 12, 13, 14, 17, 18, 19, 20, 21, 22, 23, 24,
              25, 26, 27, 30, 31, 32, 35, 36, 38, 39, 40, 42, 43, 51, 52, 53,
              54, 55, 56, 57, 58, 59, 60, 61, 62, 63, 65, 66, 67, 68, 69, 71,
              72, 73, 74, 75, 76>>,
   leaf |-> <<2, 3, 5, 7, 8, 11, 12, 13, 14, 17, 18, 19, 20, 21, 22, 23, 24,
              25, 26, 29, 30, 31, 32, 35, 37, 38, 39, 40, 42, 50, 51, 52, 53,
              54, 55, 56, 57, 58, 59, 60, 61, 62, 64, 65, 66, 67, 68, 69, 71,
              72, 73, 74, 75, 76>>,
   code |-> {2, 3, 5, 7, 8, 11, 12, 13, 14, 17, 18, 19, 20, 21, 22, 23, 24,
             25, 26, 29, 30, 31, 32, 35, 37, 38, 39, 40, 42, 50, 51, 52, 53,
             54, 55, 56, 57, 58, 59, 60, 61, 62, 64, 65, 66, 67, 68, 69, 71,
             72, 73, 74, 75, 76}]

\* An empty collector.
Copy7848 ==
  [head |-> <<1213091658, 1077891651, 0, 2, 14>>,
   from |-> <<0, 5, 6, 20, 59, 60>>,
   leaf |-> <<8, 5, 8, 20, 59, 66>>,
   code |-> {5, 8, 20, 59, 66}]

\* Collector of document.
Copy7968 ==
  [head |-> <<1213091658, 1077891651, 0, 441, 473>>,
   from |-> <<0, 1, 3, 4, 5, 6, 8, 9, 14, 15, 18, 19, 20, 21, 24, 25, 35, 36,
              38, 39, 53, 54, 59, 60, 62, 63, 66, 67, 69, 70, 73, 74>>,
   leaf |-> <<0, 2, 3, 4, 5, 7, 8, 13, 14, 17, 18, 19, 20, 23, 24, 29, 35,
              37, 38, 51, 53, 58, 59, 61, 62, 65, 66, 67, 69, 71, 73, 74>>,
   code |-> {0, 2, 3, 4, 5, 7, 8, 13, 14, 17, 18, 19, 20, 23, 24, 29, 35, 37,
             38, 51, 53, 58, 59, 61, 62, 65, 66, 67, 69, 71, 73, 74}]

\* Generator runtime and collectors.
Copy8202 ==
  [head |-> <<1213091658, 1077891651, 0, 6274, 6585>>,
   from |-> <<0, 2, 3, 5, 6, 8, 9, 12, 13, 14, 17, 18, 19, 20, 21, 22, 23,
              24, 25, 27, 28, 30, 31, 32, 33, 35, 36, 38, 39, 40, 41, 42, 43,
              44, 50, 51, 52, 53, 54, 55, 56, 57, 58, 59, 60, 61, 62, 64, 65,
              66, 67, 68, 69, 71, 72, 73, 74, 75, 76>>,
   leaf |-> <<1, 2, 3, 5, 7, 8, 11, 12, 13, 14, 17, 18, 19, 20, 21, 22, 23,
              24, 25, 27, 29, 30, 31, 32, 33, 35, 37, 38, 39, 40, 41, 42, 43,
              47, 50, 51, 52, 53, 54, 55, 56, 57, 58, 59, 60, 61, 62, 64, 65,
              66, 67, 68, 69, 71, 72, 73, 74, 75, 76>>,
   code |-> {1, 2, 3, 5, 7, 8, 11, 12, 13, 14, 17, 18, 19, 20, 21, 22, 23,
             24, 25, 27, 29, 30, 31, 32, 33, 35, 37, 38, 39, 40, 41, 42, 43,
             47, 50, 51, 52, 53, 54, 55, 56, 57, 58, 59, 60, 61, 62, 64, 65,
             66, 67, 68, 69, 71, 72, 73, 74, 75, 76}]

\* Collector of navigator.
Copy8533 ==
  [head |-> <<1213091658, 1077891651, 0, 502, 534>>,
   from |-> <<0, 2, 3, 5, 7, 8, 13, 14, 15, 18, 20, 21, 29, 54, 55, 61, 62,
              63, 66, 67, 68, 71, 73, 74>>,
   leaf |-> <<3, 2, 3, 5, 7, 8, 13, 14, 17, 18, 20, 24, 29, 54, 59, 61, 62,
              65, 66, 67, 69, 71, 73, 74>>,
   code |-> {2, 3, 5, 7, 8, 13, 14, 17, 18, 20, 24, 29, 54, 59, 61, 62, 65,
             66, 67, 69, 71, 73, 74}]

\* Collector of plugins.
Copy8754 ==
  [head |-> <<1213091658, 1077891651, 0, 216, 228>>,
   from |-> <<0, 5, 6, 8, 12, 13, 14, 17, 18, 20, 23, 24, 39, 51, 52, 61, 62,
              63, 66, 67, 68, 71, 73, 74>>,
   leaf |-> <<3, 5, 7, 8, 12, 13, 14, 17, 18, 20, 23, 33, 39, 51, 59, 61, 62,
              65, 66, 67, 69, 71, 73, 74>>,
   code |-> {3, 5, 7, 8, 12, 13, 14, 17, 18, 20, 23, 33, 39, 51, 59, 61, 62,
             65, 66, 67, 69, 71, 73, 74}]

\* Object helpers and collector of window.
Copy8977 ==
  [head |-> <<1213091658, 1077891651, 0, 1117, 1199>>,
   from |-> <<0, 1, 3, 4, 7, 8, 13, 14, 15, 18, 19, 20, 22, 23, 28, 29, 33,
              35, 36, 37, 38, 39, 44, 45, 51, 52, 53, 54, 55, 58, 59, 64, 66,
              67, 68, 69, 71, 73, 74>>,
   leaf |-> <<0, 2, 3, 5, 7, 8, 13, 14, 17, 18, 19, 20, 22, 23, 28, 29, 33,
              35, 36, 37, 38, 39, 44, 50, 51, 52, 53, 54, 56, 58, 59, 64, 66,
              67, 68, 69, 71, 73, 74>>,
   code |-> {0, 2, 3, 5, 7, 8, 13, 14, 17, 18, 19, 20, 22, 23, 28, 29, 33,
             35, 36, 37, 38, 39, 44, 50, 51, 52, 53, 54, 56, 58, 59, 64, 66,
             67, 68, 69, 71, 73, 74}]

\* Collector of WebGL.
Copy9212 ==
  [head |-> <<1213091658, 1077891651, 0, 520, 532>>,
   from |-> <<0, 3, 4, 7, 8, 9, 14, 17, 18, 20, 21, 23, 24, 38, 50, 51, 53,
              54, 59, 60, 62, 65, 66, 67, 68, 71, 72>>,
   leaf |-> <<2, 3, 5, 7, 8, 13, 14, 17, 18, 20, 21, 23, 37, 38, 50, 51, 53,
              56, 59, 61, 62, 65, 66, 67, 69, 71, 74>>,
   code |-> {2, 3, 5, 7, 8, 13, 14, 17, 18, 20, 21, 23, 37, 38, 50, 51, 53,
             56, 59, 61, 62, 65, 66, 67, 69, 71, 74}]

\* Collector of window and Math.
Copy9436 ==
  [head |-> <<1213091658, 1077891651, 0, 291, 303>>,
   from |-> <<0, 2, 3, 5, 7, 8, 13, 14, 15, 18, 20, 21, 29, 30, 52, 53, 54,
              59, 66, 67, 69, 71, 72>>,
   leaf |-> <<3, 2, 3, 5, 7, 8, 13, 14, 17, 18, 20, 23, 29, 37, 52, 53, 56,
              59, 66, 67, 69, 71, 74>>,
   code |-> {2, 3, 5, 7, 8, 13, 14, 17, 18, 20, 23, 29, 37, 52, 53, 56, 59,
             66, 67, 69, 71, 74}]

\* An empty program.
Copy9624 ==
  [head |-> <<1213091658, 1077891651, 0, 0, 2>>,
   from |-> <<0, 8, 9>>,
   leaf |-> <<66, 8, 66>>,
   code |-> {8, 66}]

\* The stream cipher.
Copy9718 ==
  [head |-> <<1213091658, 1077891651, 0, 304, 316>>,
   from |-> <<0, 4, 5, 7, 8, 9, 17, 18, 19, 20, 22, 23, 24, 28, 29, 39, 49,
              50, 59, 66, 67, 69, 70, 73, 74>>,
   leaf |-> <<3, 4, 5, 7, 8, 12, 17, 18, 19, 20, 22, 23, 24, 28, 33, 39, 49,
              53, 59, 66, 67, 69, 71, 73, 74>>,
   code |-> {3, 4, 5, 7, 8, 12, 17, 18, 19, 20, 22, 23, 24, 28, 33, 39, 49,
             53, 59, 66, 67, 69, 71, 73, 74}]

\* The base-64 encoder.
Copy9906 ==
  [head |-> <<1213091658, 1077891651, 0, 576, 598>>,
   from |-> <<0, 3, 4, 5, 6, 8, 9, 17, 18, 19, 20, 22, 23, 24, 25, 26, 27,
              41, 42, 43, 44, 46, 47, 53, 54, 66, 67, 69, 70, 73, 74>>,
   leaf |-> <<2, 3, 4, 5, 7, 8, 13, 17, 18, 19, 20, 22, 23, 24, 25, 26, 33,
              41, 42, 43, 44, 46, 47, 53, 59, 66, 67, 69, 71, 73, 74>>,
   code |-> {2, 3, 4, 5, 7, 8, 13, 17, 18, 19, 20, 22, 23, 24, 25, 26, 33,
             41, 42, 43, 44, 46, 47, 53, 59, 66, 67, 69, 71, 73, 74}]

\* The signature builder.
Copy10325 ==
  [head |-> <<1213091658, 1077891651, 0, 2996, 3184>>,
   from |-> <<0, 1, 2, 3, 4, 5, 7, 8, 9, 13, 14, 15, 18, 19, 20, 22, 23, 24,
              26, 27, 28, 29, 30, 35, 36, 37, 38, 39, 41, 44, 45, 47, 48, 49,
              50, 51, 52, 53, 54, 55, 58, 59, 60, 66, 67, 68, 69, 70, 73, 74>>,
   leaf |-> <<0, 1, 2, 3, 4, 5, 7, 8, 12, 13, 14, 17, 18, 19, 20, 22, 23, 24,
              26, 27, 28, 29, 33, 35, 36, 37, 38, 39, 41, 44, 46, 47, 48, 49,
              50, 51, 52, 53, 54, 56, 58, 59, 64, 66, 67, 68, 69, 71, 73, 74>>,
   code |-> {0, 1, 2, 3, 4, 5, 7, 8, 12, 13, 14, 17, 18, 19, 20, 22, 23, 24,
             26, 27, 28, 29, 33, 35, 36, 37, 38, 39, 41, 44, 46, 47, 48, 49,
             50, 51, 52, 53, 54, 56, 58, 59, 64, 66, 67, 68, 69, 71, 73, 74}]

\* The entry points.
Copy10597 ==
  [head |-> <<1213091658, 1077891651, 0, 9267, 9667>>,
   from |-> <<0, 1, 2, 3, 4, 5, 6, 8, 9, 12, 13, 14, 15, 18, 19, 20, 21, 22,
              23, 24, 25, 26, 29, 30, 31, 32, 33, 34, 36, 37, 38, 39, 40, 41,
              42, 50, 51, 52, 53, 54, 55, 56, 57, 58, 59, 60, 61, 62, 64, 65,
              66, 67, 68, 69, 71, 72, 73, 74, 75, 76>>,
   leaf |-> <<0, 1, 2, 3, 4, 5, 7, 8, 11, 12, 13, 14, 17, 18, 19, 20, 21, 22,
              23, 24, 25, 26, 29, 30, 31, 32, 33, 35, 36, 37, 38, 39, 40, 41,
              42, 50, 51, 52, 53, 54, 55, 56, 57, 58, 59, 60, 61, 62, 64, 65,
              66, 67, 68, 69, 71, 72, 73, 74, 75, 76>>,
   code |-> {0, 1, 2, 3, 4, 5, 7, 8, 11, 12, 13, 14, 17, 18, 19, 20, 21, 22,
             23, 24, 25, 26, 29, 30, 31, 32, 33, 35, 36, 37, 38, 39, 40, 41,
             42, 50, 51, 52, 53, 54, 55, 56, 57, 58, 59, 60, 61, 62, 64, 65,
             66, 67, 68, 69, 71, 72, 73, 74, 75, 76}]

Copies == {
  Copy4715, Copy5236, Copy5410, Copy5595, Copy5810, Copy5995,
  Copy6162, Copy6334, Copy6524, Copy6684, Copy6979, Copy7172,
  Copy7535, Copy7848, Copy7968, Copy8202, Copy8533, Copy8754,
  Copy8977, Copy9212, Copy9436, Copy9624, Copy9718, Copy9906,
  Copy10325, Copy10597}
=============================================================================
