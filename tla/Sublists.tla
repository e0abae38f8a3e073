-------------------------------- MODULE Sublists --------------------------------
(***************************************************************************)
(* Array.prototype.filter with a set for the condition: a recursive        *)
(* function, about which, unlike SelectSeq with its operator, theorems can *)
(* be proved (SublistProofs).                                              *)
(***************************************************************************)
EXTENDS Naturals, Sequences

\* What a sequence has.
Elements(seq) == {seq[i] : i \in 1..Len(seq)}

\* The elements of seq that are in S, in their order.
Only(seq, S) ==
  LET kept[n \in 0..Len(seq)] ==
        IF n = 0 THEN <<>>
        ELSE IF seq[n] \in S THEN Append(kept[n - 1], seq[n]) ELSE kept[n - 1]
  IN kept[Len(seq)]

\* All but the element e.
Without(seq, e) == Only(seq, Elements(seq) \ {e})

\* All but the first e: splice at the place that findIndex tells.
WithoutFirst(seq, e) ==
  IF e \notin Elements(seq) THEN seq
  ELSE [i \in 1..(Len(seq) - 1) |->
          IF \E j \in 1..i : seq[j] = e THEN seq[i + 1] ELSE seq[i]]
===============================================================================
