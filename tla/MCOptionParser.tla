--------------------------- MODULE MCOptionParser ---------------------------
(* Tables with and without an entry for unknown options, which is asked    *)
(* first or last; arguments of every form that the parser tells apart:     *)
(* the empty one, none, "-" and "--", groups, attached, missing and empty  *)
(* arguments of options, abbreviations of one or two names, unknown names  *)
(* and an empty one.                                                       *)
EXTENDS OptionParser

D(i, t, s, l, c) == [index |-> i, type |-> t, shortopt |-> s, longopt |-> l, check_arg |-> c]

Options ==
    << D(1, 0, {"a"}, <<"a", "a">>, "None"),
       D(1, 1, {}, <<"a", "b">>, "None"),
       D(2, 0, {"b"}, <<"b">>, "Required"),
       D(3, 0, {"o"}, << >>, "Optional") >>

Collecting == <<D(0, 0, {}, << >>, "None")>> \o Options
Refusing   == Append(Options, D(0, 0, {}, << >>, "Unknown"))
Taking     ==
    << D(1, 0, {"a"}, <<"a", "a">>, "None"), D(3, 0, {"p"}, <<"a", "b">>, "Any"),
       D(2, 0, {"b"}, <<"b">>, "NonEmpty") >>

AllTables == {Collecting, Refusing, Taking}

Arguments ==
    { << >>, <<"x">>, <<"-">>, <<"-", "-">>,
      <<"-", "a">>, <<"-", "a", "b">>, <<"-", "b">>, <<"-", "o", "x">>, <<"-", "z", "p">>,
      <<"-", "-", "a">>, <<"-", "-", "b", "=">>, <<"-", "-", "=", "x">> }

AllVectors == BoundedSeq(Arguments, 3)
AllDefaults == {<< >>, << <<"x">>, <<"-", "b">>, <<"y">> >>}

P(sg, g, m, s, c, b) ==
    [stats_gnu |-> sg, gnu |-> g, min_abbr_len |-> m, single_minus_longopt |-> s,
     counted |-> c, bufmax |-> b]

AllSettings ==
    { P(TRUE, TRUE, 1, TRUE, FALSE, -1), P(TRUE, FALSE, 0, FALSE, TRUE, -1),
      P(FALSE, FALSE, 2, TRUE, TRUE, 2) }
=============================================================================
