----------------------------- MODULE MCIniParser -----------------------------
(* Files of up to three lines with a name that is longer than its buffer.  *)
(* The buffers are scaled down: a name of two characters fits, one of      *)
(* three does not.                                                         *)
EXTENDS IniParser, SequencesExt

AllCharacters == {" ", "\n", "=", "n", "m", "v"}

LongNames == { <<"n", "m", "n", "=", "v", "\n">>, <<" ", "v", "\n">>, <<"n", "\n">> }

LongNameFiles == BoundedSeq(LongNames, 3)
=============================================================================
