---- MODULE Selection ----
(* What the list comprehensions, filters and extend of the code give, written   *)
(* with recursive functions so that proofs can be made about it (SeqFacts).     *)
EXTENDS Integers, Sequences

(* SelectSeq: the elements of a sequence that are in a set, in their order. *)
Selected(s, S) ==
  LET upTo[n \in 0..Len(s)] ==
        IF n = 0 THEN <<>>
        ELSE IF s[n] \in S THEN Append(upTo[n - 1], s[n]) ELSE upTo[n - 1]
  IN upTo[Len(s)]

(* FlattenSeq: the sequences of a sequence, one behind the other. *)
Joined(ss) ==
  LET upTo[n \in 0..Len(ss)] == IF n = 0 THEN <<>> ELSE upTo[n - 1] \o ss[n]
  IN upTo[Len(ss)]
====
