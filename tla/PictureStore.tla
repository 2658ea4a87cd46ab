---------------------------- MODULE PictureStore ----------------------------
(***************************************************************************)
(* What the picture parameters of CPQControl promise, without indexes,     *)
(* fall back or loops: independent cells, one per source, timing and mode, *)
(* that are never lost once written, changed one at a time, restored a     *)
(* scope at a time or overwritten by one value in a row of sources.        *)
(***************************************************************************)
EXTENDS Integers

CONSTANTS
    Place,           \* the triples <<source, timing, mode>>
    Cell,            \* the places with a cell of their own
    Value, None,     \* contents, and no content yet
    Reach,           \* the sources a copy reaches
    Restored(_, _)   \* the database's value for a cell, given its content

VARIABLE store

Init == store \in [Cell -> Value \cup {None}]

Used == {x \in Cell : store[x] # None}

Save(x, v) == store' = [store EXCEPT ![x] = v]

\* A restore reaches every used cell of its scope and no other.
Scopes == {{x} : x \in Cell} \cup {{x \in Cell : x[1] = s} : s \in {y[1] : y \in Cell}}
              \cup {Cell}
Restore(S) ==
    store' = [x \in Cell |-> IF x \in S \cap Used THEN Restored(x, store[x]) ELSE store[x]]

\* A copy reaches the used cells of one timing and mode on the sources of
\* Reach, but not the source it comes from.
CopyFrom(p, v) ==
    store' = [y \in Cell |-> IF /\ y \in Used /\ y[1] \in Reach \ {p[1]}
                                /\ y[2] = p[2] /\ y[3] = p[3]
                             THEN v ELSE store[y]]

Next == \/ \E x \in Cell, v \in Value : Save(x, v)
        \/ \E p \in Place, v \in Value : CopyFrom(p, v)
        \/ \E S \in Scopes : Restore(S)
Spec == Init /\ [][Next]_store
=============================================================================
