----------------------------- MODULE MCINIReader -----------------------------
(* ShortFiles have up to three lines of every form that the parser tells   *)
(* apart; EntryFiles up to four, with entries that differ only in case or  *)
(* in where the "=" is; NumberFiles have values that are numbers only in   *)
(* front.                                                                  *)
EXTENDS INIReader

AllCharacters ==
    {" ", "\n", ";", "#", "=", ":", "[", "]", "-", "1", "BOM", "n", "N", "m", "v", "w", "s", "t"}

LowerCase(c) == IF c = "N" THEN "n" ELSE c

ShortLines ==
    { <<"\n">>,
      <<";", "n", "\n">>,
      <<" ", "#", "=", "\n">>,
      <<"BOM", "n", "=", "v", "\n">>,
      <<"n", "=", "v", "\n">>,
      <<"n", " ", ":", " ", ";", "v", "\n">>,
      <<"n", "=", "v", " ", ";", "v", "\n">>,
      <<"m", "=", ";", "v", "\n">>,
      <<" ", "=", "v", "\n">>,
      <<" ", "v", " ", "\n">>,
      <<"n", "v", "\n">>,
      <<"[", "s", "]", "\n">>,
      <<"[", "n", "=", "s", "n", "]", "\n">>,
      <<" ", "[", "t", "]", "\n">>,
      <<"[", "s", " ", ";", "]", "\n">> }

ShortFiles == BoundedSeq(ShortLines, 3)

Entries ==
    { <<"n", "=", "v", "\n">>,
      <<"N", "=", "\n">>,
      <<"n", "n", ":", "w", "\n">>,
      <<" ", "w", "\n">>,
      <<"n", "\n">>,
      <<"[", "n", "]", "\n">>,
      <<"[", "n", "=", "s", "]", "\n">>,
      <<"[", "n", "s", "]", "\n">> }

EntryFiles == BoundedSeq(Entries, 4)

AllFiles == ShortFiles \cup EntryFiles

Numbers ==
    { <<"n", "=", "1", "\n">>, <<"n", "=", "-", "1", "v", "\n">>, <<"n", "=", "v", "\n">>,
      <<" ", "1", "\n">> }

NumberFiles == BoundedSeq(Numbers, 2)
=============================================================================
