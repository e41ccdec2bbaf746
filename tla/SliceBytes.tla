----------------------------- MODULE SliceBytes -----------------------------
(***************************************************************************)
(* Slices of an expert tensor and the bytes a set of them occupies.        *)
(*                                                                         *)
(* A slice stands for the key <<layer, expert, offset, length>> of         *)
(* ExpertCache::Key; Length gives its last component.  The size of a set   *)
(* of slices is the cardinality of the set of bytes they name, so that     *)
(* adding or removing a slice is adding or removing a finite set.          *)
(***************************************************************************)
EXTENDS Integers, Sequences, FiniteSets

CONSTANTS
    Slices,     \* the keys callers ask for
    Length      \* Length[s]: how many bytes slice s covers

Members(q) == {q[i] : i \in DOMAIN q}

BytesOf(S) == UNION {{s} \X (1 .. Length[s]) : s \in S}

Bytes(S) == Cardinality(BytesOf(S))

\* The sequence q with its i-th element moved to the front.
ToFront(q, i) ==
    [j \in 1 .. Len(q) |-> IF j = 1 THEN q[i]
                           ELSE IF j <= i THEN q[j - 1] ELSE q[j]]

\* The sequence q without its last element.
DropLast(q) == SubSeq(q, 1, Len(q) - 1)

NoDuplicates(q) == \A i, j \in DOMAIN q : q[i] = q[j] => i = j
=============================================================================
