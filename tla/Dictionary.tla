----------------------------- MODULE Dictionary -----------------------------
(* What a db_hashmap promises: a finite map from keys to values, in which a *)
(* key that is present is not inserted again.                               *)
CONSTANTS Key, Val, Missing

VARIABLE content

Init == content = [k \in Key |-> Missing]

Insert(k, v) == /\ content[k] = Missing
                /\ content' = [content EXCEPT ![k] = v]

Remove(k) == content' = [content EXCEPT ![k] = Missing]

Next == \E k \in Key : Remove(k) \/ \E v \in Val : Insert(k, v)

Spec == Init /\ [][Next]_content
=============================================================================
