------------------------------ MODULE MCABogus ------------------------------
(* ABogus with bytes of four bits and an alphabet of eight letters. *)
EXTENDS ABogus, SequencesExt, Bitwise

MCXor(x, y) == x ^^ y
MCKeys == {<<0, 1, 14>>, <<9>>}
\* Every string of up to three characters of these, one bit wider included.
MCAgents == BoundedSeq({0, 6, 15, 16, 27}, 3)
MCRandoms == {<<>>, <<9, 4>>, <<3, 12, 5>>}

\* The times are above N to the fourth, as they are today; the hashing may
\* cross a multiple of it.
Time(low, high) == [low |-> low, high |-> high]
Window == <<1, 5, 3>>
MCFacts ==
  [start : {Time(<<15, 15, 7, 9>>, 25)},
   end : {Time(<<15, 15, 8, 0>>, 25), Time(<<0, 0, 0, 2>>, 26)},
   args : {<< <<0, 0, 0, 0>>, <<0, 0, 0, 1>>, <<a, 0, 0, 14>> >> : a \in {0, 3}},
   digests : {<<10, 2, 13, 13, 7, 8>>},
   page : {<<0, 0, 8, 1>>}, aid : {<<0, 0, 2, 15>>},
   window : {Window, Window \o <<2>>, <<>>}]
=============================================================================
