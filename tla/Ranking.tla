------------------------------- MODULE Ranking -------------------------------
(* Sorting by a score and taking the first few, as Nodamem does everywhere: *)
(* sort_by on the score alone, so what compares equal may come in any order *)
(* the input has it in.                                                     *)
EXTENDS Integers, Sequences, SequencesExt

Lower(a, b)  == IF a < b THEN a ELSE b
Higher(a, b) == IF a < b THEN b ELSE a
Clamp(x, low, high) == Lower(Higher(x, low), high)

(* Taking k of S: any k elements that no other one exceeds. *)
Top(S, k, score) ==
  {T \in SUBSET S : /\ Cardinality(T) = Lower(k, Cardinality(S))
                    /\ \A t \in T, s \in S \ T : score[t] >= score[s]}

(* All of S, the highest score first. *)
Sorted(S, score) ==
  {s \in SetToSeqs(S) : \A i, j \in DOMAIN s : i < j => score[s[i]] >= score[s[j]]}
=============================================================================
