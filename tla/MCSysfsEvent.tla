----------------------------- MODULE MCSysfsEvent -----------------------------
(* Words of four bits and terms of every sort, the good ones overlapping.      *)
EXTENDS SysfsEvent

Range(a, b) == [lo |-> a, hi |-> b]

Term(target, ranges, singles, value) ==
  [target |-> target, ranges |-> ranges, singles |-> singles,
   numeric |-> TRUE, value |-> value]

MCWidth == 4

Good ==
  { Term("config",  {Range(0, 3)}, {}, {0}),
    Term("config",  {Range(0, 0), Range(2, 3)}, {}, {0, 2}),
    Term("config1", {Range(1, 2)}, {}, {1}),
    Term("other",   {Range(1, 3)}, {}, {0}) }

Bad ==
  { Term("unreadable", {}, {}, {0}),
    Term("nocolon",    {}, {}, {0}),
    Term("config",     {Range(2, 4)}, {}, {2}),
    Term("config1",    {Range(0, 3)}, {}, {3}),
    [Term("nocolon",   {}, {}, {0}) EXCEPT !.numeric = FALSE] }

MCTerms == Good \cup Bad

SingleTerms == Good \cup {Term("config", {}, {2}, {0})}
=============================================================================
