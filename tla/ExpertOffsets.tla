---------------------------- MODULE ExpertOffsets ----------------------------
(***************************************************************************)
(* tools/gguf_expert_offsets.py: where the experts of a merged expert      *)
(* tensor lie in a GGUF file.  A tensor is the range of bytes              *)
(* [offset, bytes]; the experts are its outermost dimension.               *)
(***************************************************************************)
EXTENDS Integers

CONSTANT NExpert    \* the model's expert_count

ASSUME NExpertAssumption == NExpert \in Nat \ {0}

Tensor == [offset : Nat, bytes : Nat]

\* The expert axis is whole in a tensor of these many bytes.
Divisible(t) == t.bytes % NExpert = 0

ExpertBytes(t) == t.bytes \div NExpert

Slice(t, id) == [offset |-> t.offset + id * ExpertBytes(t), length |-> ExpertBytes(t)]

\* Mutant: the file is refused when no tensor divides.
RefusedIfAll(T) == \A t \in T : ~Divisible(t)

\* One tensor that does not divide refuses the whole file.
Refused(T) == \E t \in T : ~Divisible(t)

Extract(T) == [t \in T |-> [id \in 0 .. NExpert - 1 |-> Slice(t, id)]]

InSlice(b, s) == s.offset <= b /\ b < s.offset + s.length

InTensor(b, t) == t.offset <= b /\ b < t.offset + t.bytes

\* Every byte of the tensor is in the slice of exactly one expert, and no slice
\* reaches out of the tensor.
Tiles(t, slices) ==
    /\ \A b \in t.offset .. t.offset + t.bytes - 1 :
          \E id \in DOMAIN slices : InSlice(b, slices[id])
    /\ \A id \in DOMAIN slices :
          \A b \in slices[id].offset .. slices[id].offset + slices[id].length - 1 :
             /\ InTensor(b, t)
             /\ \A other \in DOMAIN slices : InSlice(b, slices[other]) => other = id
=============================================================================
