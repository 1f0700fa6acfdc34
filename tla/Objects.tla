------------------------------ MODULE Objects ------------------------------
(***************************************************************************)
(* JSON objects as yyjson keeps them: the sequence of the members          *)
(* <<key, value>> in the order of the text; two may have the same key.     *)
(***************************************************************************)
EXTENDS Naturals, Sequences, SequencesExt

(* The members of o at the indices inds, in their order.                    *)
Keep(o, inds) ==
  LET kept[n \in 0..Len(o)] ==
        IF n = 0 THEN <<>>
        ELSE IF n \in inds THEN Append(kept[n - 1], o[n]) ELSE kept[n - 1]
  IN  kept[Len(o)]

Has(o, k)    == \E i \in DOMAIN o : o[i][1] = k
Once(o, k)   == \A i, j \in DOMAIN o : o[i][1] = k /\ o[j][1] = k => i = j
Find(o, k)   == SelectInSeq(o, LAMBDA m : m[1] = k)      \* the first with the key
Drop(o, k)   == Keep(o, {i \in DOMAIN o : o[i][1] # k})
Put(o, k, v) ==
  IF Has(o, k)
    THEN SubSeq(o, 1, Find(o, k) - 1) \o <<<<k, v>>>>
         \o Drop(SubSeq(o, Find(o, k) + 1, Len(o)), k)
    ELSE Append(o, <<k, v>>)
=============================================================================
