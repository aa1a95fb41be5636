------------------------------- MODULE Lists -------------------------------
(***************************************************************************)
(* The three operators on sequences that the parts of the page use, named  *)
(* as in SequencesExt and Functions.  Page instantiates eleven parts, and  *)
(* the provers would read all of those modules again for each of them.     *)
(***************************************************************************)
EXTENDS Naturals, Sequences

ToSet(s) == {s[i] : i \in DOMAIN s}

IsInjective(s) == \A i, j \in DOMAIN s : s[i] = s[j] => i = j

RemoveAt(s, i) == SubSeq(s, 1, i - 1) \o SubSeq(s, i + 1, Len(s))
=============================================================================
