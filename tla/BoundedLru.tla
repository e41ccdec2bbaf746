----------------------------- MODULE BoundedLru -----------------------------
(***************************************************************************)
(* What ExpertCache promises about the slices it keeps, without threads,   *)
(* files, queues or counters: a byte-bounded set of slices ordered by      *)
(* recency.  One slice is wanted at a time; room is made for it from the   *)
(* cold end, only while it does not fit, and nothing else happens to the   *)
(* cache until its turn is over.                                           *)
(***************************************************************************)
EXTENDS SliceBytes

CONSTANT NoSlice

VARIABLES
    budget,     \* how many bytes may be kept
    cached,     \* the slices kept, most recently used first
    wanted      \* the slice being loaded, or NoSlice

vars == <<budget, cached, wanted>>

Init == budget = 0 /\ cached = << >> /\ wanted = NoSlice

Fits(s) == Bytes(Members(cached)) + Length[s] <= budget

Want ==
    /\ wanted = NoSlice /\ wanted' \in Slices
    /\ UNCHANGED <<budget, cached>>

\* The wanted slice is kept already: it becomes the most recently used.
Use ==
    /\ \E i \in DOMAIN cached : cached[i] = wanted /\ cached' = ToFront(cached, i)
    /\ wanted' = NoSlice
    /\ UNCHANGED budget

\* The coldest slice leaves because the wanted one, which the budget can hold,
\* does not fit.
MakeRoom ==
    /\ wanted \in Slices \ Members(cached)
    /\ Length[wanted] <= budget
    /\ ~Fits(wanted)
    /\ cached # << >>
    /\ cached' = DropLast(cached)
    /\ UNCHANGED <<budget, wanted>>

Admit ==
    /\ wanted \in Slices \ Members(cached)
    /\ Fits(wanted)
    /\ cached' = <<wanted>> \o cached
    /\ wanted' = NoSlice
    /\ UNCHANGED budget

\* The wanted slice cannot be read, or is not to be kept.
GiveUp ==
    /\ wanted \in Slices /\ wanted' = NoSlice
    /\ UNCHANGED <<budget, cached>>

Flush ==
    /\ wanted = NoSlice
    /\ cached' = << >>
    /\ UNCHANGED <<budget, wanted>>

\* Only an empty cache is given a new budget.
Rebudget ==
    /\ wanted = NoSlice /\ cached = << >>
    /\ budget' \in Nat
    /\ UNCHANGED <<cached, wanted>>

Next == Want \/ Use \/ MakeRoom \/ Admit \/ GiveUp \/ Flush \/ Rebudget

Spec == Init /\ [][Next]_vars
=============================================================================
