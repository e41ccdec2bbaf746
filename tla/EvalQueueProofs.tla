--------------------------- MODULE EvalQueueProofs ---------------------------
(***************************************************************************)
(* Theorems about EvalQueue, for any number of models and cases.  Those    *)
(* about the manifest and the tables are of queues whose models have       *)
(* artifacts of their own (StemsDiffer); what becomes of complete reports  *)
(* is proved of queues with namesakes too.                                 *)
(*                                                                         *)
(* The inductive invariant follows a file write through its two steps: what *)
(* is pending (Writing), what is on disk once nothing is (Settled), and     *)
(* what the later steps leave of it (Done, Tables, OnManifest).             *)
(***************************************************************************)
EXTENDS EvalQueue, SequenceTheorems, TLAPS

N == Len(Queue)
J(j) == Json(Queue[j])
C(j) == Csv(Queue[j])

StemsDiffer == \A j, k \in 1 .. N : Stem[Queue[j]] = Stem[Queue[k]] => j = k

-----------------------------------------------------------------------------
(* Data.                                                                    *)

LEMMA QueueLength == N \in Nat /\ N > 0 /\ Queue \in [1 .. N -> DOMAIN Stem]
<1>1. Queue \in Seq(DOMAIN Stem) /\ Queue # << >>
  BY StemAssumption, QueueAssumption
<1> QED BY <1>1, LenProperties, EmptySeq DEF N

LEMMA FilesApart ==
    ASSUME StemsDiffer
    PROVE  /\ Manifest \in Files
           /\ \A j \in 1 .. N : J(j) \in Files /\ C(j) \in Files
           /\ \A j \in 1 .. N : J(j) # Manifest /\ C(j) # Manifest
           /\ \A j, k \in 1 .. N : J(j) # C(k)
           /\ \A j, k \in 1 .. N : J(j) = J(k) => j = k
           /\ \A j, k \in 1 .. N : C(j) = C(k) => j = k
<1>1. \A j \in 1 .. N : Stem[Queue[j]] \in Stems
  BY DEF Stems, Named, N
<1>2. \A s, t : <<"json", s>> # <<"csv", t>> /\ <<"manifest">> # <<"json", s>>
                /\ <<"manifest">> # <<"csv", s>>
  OBVIOUS
<1>3. \A s, t : (<<"json", s>> = <<"json", t>> => s = t) /\ (<<"csv", s>> = <<"csv", t>> => s = t)
  OBVIOUS
<1> QED BY <1>1, <1>2, <1>3 DEF Manifest, Files, J, C, Json, Csv, StemsDiffer

LEMMA CasesAreSequences ==
    \A d : d \in CaseResults <=> d \in Seq(Results) /\ Len(d) <= NCases
<1>1. \A d : d \in CaseResults <=> \E m \in 0 .. NCases : d \in [1 .. m -> Results]
  BY DEF CaseResults, BoundedSeq, SeqOf
<1>2. ASSUME NEW d, NEW m \in 0 .. NCases, d \in [1 .. m -> Results]
      PROVE  d \in Seq(Results) /\ Len(d) <= NCases
  BY <1>2, QueueAssumption
<1>3. ASSUME NEW d \in Seq(Results), Len(d) <= NCases
      PROVE  Len(d) \in 0 .. NCases /\ d \in [1 .. Len(d) -> Results]
  BY <1>3, QueueAssumption
<1> QED BY <1>1, <1>2, <1>3

LEMMA PrefixRules ==
    /\ \A d \in Seq(Results) : IsPrefix(d, d)
    /\ \A d \in Seq(Results), r \in Results : IsPrefix(d, Append(d, r))
<1>1. ASSUME NEW d \in Seq(Results), NEW r \in Results PROVE IsPrefix(d, Append(d, r))
  <2>1. /\ Len(d) \in Nat /\ Len(Append(d, r)) = Len(d) + 1
        /\ \A i \in 1 .. Len(d) : Append(d, r)[i] = d[i]
    BY LenProperties, AppendProperties
  <2>2. SubSeq(d, 1, Len(d)) = SubSeq(Append(d, r), 1, Len(d))
    BY <2>1
  <2> QED BY <2>1, <2>2 DEF IsPrefix
<1>2. \A d \in Seq(Results) : IsPrefix(d, d)
  BY DEF IsPrefix
<1> QED BY <1>1, <1>2

-----------------------------------------------------------------------------
(* The inductive invariant.                                                 *)

Place ==
    /\ pc \in {"idle", "cool", "load", "case", "fresh", "select", "finish", "end",
               "ended", "killed"}
    /\ current \in 1 .. N + 1
    /\ pc = "idle" => current = 1
    /\ pc \in {"load", "case", "fresh", "select", "finish"} => current <= N
    /\ outcomes \in Seq(Outcome) /\ Len(outcomes) = current - 1
    /\ details \in Seq(Results) /\ Len(details) <= NCases
    /\ pc \in {"fresh", "select"} => Len(details) < NCases
    /\ pc = "finish" => Len(details) = NCases

\* Before the report of the current model is rewritten, it is not a complete one, and
\* the table beside it is a part of the new one.
WritesBoth(complete) ==
    /\ pending = Artifacts(Model, details, complete)
    /\ ~(Written(J(current)) /\ disk[J(current)].complete)
    /\ Written(C(current)) => IsPrefix(disk[C(current)], details)

WritesTable(complete) ==
    /\ pending = << Write(C(current), details) >>
    /\ disk[J(current)] = [complete |-> complete, details |-> details]

Writing ==
    \/ pending = << >>
    \/ pc = "cool" /\ pending = QueueManifest("running", outcomes)
    \/ pc = "end" /\ pending = QueueManifest("cancelled", outcomes)
    \/ pc = "end" /\ pending = QueueManifest("completed", outcomes) /\ current = N + 1
    \/ pc = "case" /\ (WritesBoth(FALSE) \/ WritesTable(FALSE))
    \/ pc = "finish" /\ (WritesBoth(TRUE) \/ WritesTable(TRUE))

\* With no write under way, the artifacts of the current model are those of `details`.
Settled ==
    pending = << >> =>
        /\ pc \in {"case", "fresh", "select"} =>
              disk[J(current)] = [complete |-> FALSE, details |-> details]
        /\ pc = "finish" => disk[J(current)] = [complete |-> TRUE, details |-> details]
        /\ pc \in {"case", "fresh", "select", "finish"} => disk[C(current)] = details

Untouched ==
    \A j \in 1 .. N : (j > current \/ (j = current /\ pc \in {"idle", "cool", "load"})) =>
        disk[J(j)] = Absent /\ disk[C(j)] = Absent

Done ==
    \A j \in 1 .. current - 1 :
        /\ outcomes[j].model = Queue[j]
        /\ outcomes[j].status = "completed" =>
              /\ disk[C(j)] \in Seq(Results) /\ Len(disk[C(j)]) = NCases
              /\ disk[J(j)] = [complete |-> TRUE, details |-> disk[C(j)]]

\* The manifest on disk is one of an earlier moment.
OnManifest ==
    Written(Manifest) =>
        /\ disk[Manifest].state \in {"running", "completed", "cancelled"}
        /\ disk[Manifest].outcomes \in Seq(Outcome)
        /\ Len(disk[Manifest].outcomes) <= Len(outcomes)
        /\ \A i \in 1 .. Len(disk[Manifest].outcomes) :
              disk[Manifest].outcomes[i] = outcomes[i]
        /\ disk[Manifest].state = "completed" => Len(disk[Manifest].outcomes) = N
        /\ disk[Manifest].state # "running" =>
              pending = << >> /\ pc \in {"end", "ended", "killed"}

Tables ==
    \A j \in 1 .. N : Written(J(j)) /\ Written(C(j)) => IsPrefix(disk[C(j)], disk[J(j)].details)

DiskTypes ==
    /\ DOMAIN disk = Files
    /\ \A j \in 1 .. N : /\ disk[J(j)] \in {Absent, Torn} \cup Report
                         /\ disk[C(j)] \in {Absent, Torn} \cup CaseResults

QueueInv ==
    /\ Place /\ Writing /\ Settled /\ Untouched /\ Done
    /\ OnManifest /\ Tables /\ DiskTypes

LEMMA InitQueue == ASSUME StemsDiffer, Init PROVE QueueInv
<1>1. pc = "idle" /\ current = 1 /\ outcomes = << >> /\ details = << >> /\ pending = << >>
  BY DEF Init
<1>2. DOMAIN disk = Files /\ \A f \in Files : disk[f] = Absent
  BY DEF Init
<1>3. N \in Nat /\ N > 0
  BY QueueLength
<1>4. << >> \in Seq(Outcome) /\ << >> \in Seq(Results) /\ Len(<< >>) = 0
  BY EmptySeq
<1>5. Place
  BY <1>1, <1>3, <1>4, QueueAssumption DEF Place
<1>6. Writing /\ Settled /\ Done
  BY <1>1 DEF Writing, Settled, Done
<1>7. Untouched /\ OnManifest /\ Tables /\ DiskTypes
  BY <1>2, FilesApart DEF Untouched, OnManifest, Tables, DiskTypes, Written
<1> QED BY <1>5, <1>6, <1>7 DEF QueueInv

-----------------------------------------------------------------------------
(* The two steps of a write.                                                *)

\* What a write under way is of.
LEMMA PendingFile ==
    ASSUME StemsDiffer, QueueInv, pending # << >>
    PROVE  /\ pending[1].file \in Files
           /\ \/ /\ pending[1].file = Manifest
                 /\ pc \in {"cool", "end"}
                 /\ Tail(pending) = << >>
                 /\ \E s \in {"running", "completed", "cancelled"} :
                       /\ pending[1].content = [state |-> s, outcomes |-> outcomes]
                       /\ s = "running" <=> pc = "cool"
                       /\ s = "completed" => current = N + 1
              \/ /\ current \in 1 .. N /\ pending[1].file = J(current)
                 /\ \E c \in BOOLEAN :
                       /\ (c /\ pc = "finish") \/ (~c /\ pc = "case")
                       /\ WritesBoth(c)
                       /\ pending[1].content = [complete |-> c, details |-> details]
                       /\ Tail(pending) = << Write(C(current), details) >>
              \/ /\ current \in 1 .. N /\ pending[1].file = C(current)
                 /\ pending[1].content = details
                 /\ Tail(pending) = << >>
                 /\ \E c \in BOOLEAN :
                       /\ (c /\ pc = "finish") \/ (~c /\ pc = "case")
                       /\ WritesTable(c)
<1>1. N \in Nat /\ current \in 1 .. N + 1 /\ (pc \in {"case", "finish"} => current \in 1 .. N)
  BY QueueLength DEF QueueInv, Place
<1>2. Writing
  BY DEF QueueInv
<1>3. CASE \E s \in {"running", "cancelled", "completed"} :
              /\ pending = QueueManifest(s, outcomes) /\ pc \in {"cool", "end"}
              /\ s = "running" <=> pc = "cool"
              /\ s = "completed" => current = N + 1
  <2>1. PICK s \in {"running", "cancelled", "completed"} :
              /\ pending = QueueManifest(s, outcomes) /\ pc \in {"cool", "end"}
              /\ s = "running" <=> pc = "cool"
              /\ s = "completed" => current = N + 1
    BY <1>3
  <2>2. /\ pending[1].file = Manifest /\ Tail(pending) = << >>
        /\ pending[1].content = [state |-> s, outcomes |-> outcomes]
    BY <2>1 DEF QueueManifest, Write
  <2> QED BY <2>1, <2>2, FilesApart
<1>4. ASSUME NEW c \in BOOLEAN, (c /\ pc = "finish") \/ (~c /\ pc = "case"), WritesBoth(c)
      PROVE  /\ current \in 1 .. N /\ pending[1].file = J(current) /\ J(current) \in Files
             /\ pending[1].content = [complete |-> c, details |-> details]
             /\ Tail(pending) = << Write(C(current), details) >>
  BY <1>1, <1>4, FilesApart DEF WritesBoth, Artifacts, Write, J, C, Model
<1>5. ASSUME NEW c \in BOOLEAN, (c /\ pc = "finish") \/ (~c /\ pc = "case"), WritesTable(c)
      PROVE  /\ current \in 1 .. N /\ pending[1].file = C(current) /\ C(current) \in Files
             /\ pending[1].content = details
             /\ Tail(pending) = << >>
  BY <1>1, <1>5, FilesApart DEF WritesTable, Write
<1>6. CASE \E c \in BOOLEAN : ((c /\ pc = "finish") \/ (~c /\ pc = "case")) /\ WritesBoth(c)
  BY <1>4, <1>6
<1>7. CASE \E c \in BOOLEAN : ((c /\ pc = "finish") \/ (~c /\ pc = "case")) /\ WritesTable(c)
  BY <1>5, <1>7
<1> QED BY <1>2, <1>3, <1>6, <1>7 DEF Writing

\* A step of a write leaves every other file alone.
LEMMA OneFile ==
    ASSUME StemsDiffer, QueueInv, pending # << >>, DOMAIN disk' = Files,
           \A g \in Files : g # pending[1].file => disk'[g] = disk[g],
           UNCHANGED <<pc, current, outcomes, details>>
    PROVE  /\ Place' /\ Untouched' /\ Done'
           /\ \A g \in Files : g # pending[1].file => (Written(g)' <=> Written(g))
           /\ \A j \in 1 .. N : J(j)' = J(j) /\ C(j)' = C(j)
<1> DEFINE f == pending[1].file
<1>1. f = Manifest \/ (current \in 1 .. N /\ pc \in {"case", "finish"} /\ f \in {J(current), C(current)})
  BY PendingFile
<1>2. \A g \in Files : g # f => (disk'[g] = disk[g] /\ (Written(g)' <=> Written(g)))
  BY DEF Written
<1>3. \A j \in 1 .. N : J(j)' = J(j) /\ C(j)' = C(j)
  BY DEF J, C, Json, Csv
<1>4. N \in Nat /\ current \in 1 .. N + 1
  BY QueueLength DEF QueueInv, Place
<1> HIDE DEF f
<1>5. Place'
  BY DEF QueueInv, Place
<1>6. Untouched'
  <2> SUFFICES ASSUME NEW j \in 1 .. N, j > current \/ (j = current /\ pc \in {"idle", "cool", "load"})
               PROVE  disk'[J(j)] = Absent /\ disk'[C(j)] = Absent
    BY <1>3 DEF Untouched
  <2>1. J(j) # f /\ C(j) # f
    BY <1>1, <1>4, FilesApart
  <2>2. disk[J(j)] = Absent /\ disk[C(j)] = Absent
    BY DEF QueueInv, Untouched
  <2> QED BY <2>1, <2>2, <1>2, FilesApart
<1>7. Done'
  <2> SUFFICES ASSUME NEW j \in 1 .. current - 1
               PROVE  disk'[J(j)] = disk[J(j)] /\ disk'[C(j)] = disk[C(j)]
    BY DEF QueueInv, Done
  <2>1. j \in 1 .. N /\ j # current
    BY <1>4
  <2>2. J(j) # f /\ C(j) # f
    BY <1>1, <2>1, FilesApart
  <2> QED BY <2>1, <2>2, <1>2, FilesApart
<1> QED BY <1>2, <1>3, <1>5, <1>6, <1>7 DEF f

LEMMA OpenKeeps == ASSUME StemsDiffer, QueueInv, FileOpens PROVE QueueInv'
<1> DEFINE f == pending[1].file
<1>1. /\ pending # << >>
      /\ disk' = [disk EXCEPT ![f] = Torn]
      /\ UNCHANGED <<pc, current, outcomes, details, pending>>
  BY DEF FileOpens, Quiet
<1>2. f \in Files
  BY <1>1, PendingFile
<1>3. DOMAIN disk' = Files /\ \A g \in Files : disk'[g] = IF g = f THEN Torn ELSE disk[g]
  BY <1>1, <1>2 DEF QueueInv, DiskTypes
<1>4. /\ Place' /\ Untouched' /\ Done'
      /\ \A g \in Files : g # f => (disk'[g] = disk[g] /\ (Written(g)' <=> Written(g)))
      /\ \A j \in 1 .. N : J(j)' = J(j) /\ C(j)' = C(j)
  BY <1>1, <1>3, OneFile
<1>5. \A g \in Files : g # f => (disk'[g] = disk[g] /\ (Written(g)' <=> Written(g)))
  BY <1>4
<1>6. \A g \in Files : g = f => (disk'[g] = Torn /\ ~Written(g)')
  BY <1>3 DEF Written
<1>7. \A j \in 1 .. N : J(j)' = J(j) /\ C(j)' = C(j)
  BY <1>4
<1> HIDE DEF f
<1>8. Writing'
  <2>1. ASSUME NEW c \in BOOLEAN, WritesBoth(c), current \in 1 .. N PROVE WritesBoth(c)'
    <3>1. f = J(current) /\ C(current) # f
      BY <2>1, <1>1, FilesApart DEF f, WritesBoth, Artifacts, Write, J, Model
    <3>2. disk'[C(current)] = disk[C(current)] /\ (Written(C(current))' <=> Written(C(current)))
      BY <2>1, <3>1, <1>5, <1>1, FilesApart
    <3>3. ~Written(J(current))'
      BY <2>1, <3>1, <1>6, <1>1, FilesApart
    <3> QED BY <2>1, <3>2, <3>3, <1>1 DEF WritesBoth, Artifacts, Write, Model, Json, Csv
  <2>2. ASSUME NEW c \in BOOLEAN, WritesTable(c), current \in 1 .. N PROVE WritesTable(c)'
    <3>1. f = C(current) /\ J(current) # f
      BY <2>2, <1>1, FilesApart DEF f, WritesTable, Write
    <3>2. disk'[J(current)] = disk[J(current)]
      BY <2>2, <3>1, <1>5, <1>1, FilesApart
    <3> QED BY <2>2, <3>2, <1>1 DEF WritesTable, Write, C, Csv
  <2>3. pc \in {"case", "finish"} => current \in 1 .. N
    BY QueueLength DEF QueueInv, Place
  <2>4. Writing
    BY DEF QueueInv
  <2> QED BY <1>1, <2>1, <2>2, <2>3, <2>4 DEF Writing, QueueManifest, Write
<1>9. Settled'
  BY <1>1 DEF Settled
<1>10. OnManifest'
  <2>1. CASE f = Manifest
    BY <2>1, <1>6, FilesApart DEF OnManifest
  <2>2. CASE f # Manifest
    <3>1. disk'[Manifest] = disk[Manifest] /\ (Written(Manifest)' <=> Written(Manifest))
      BY <2>2, <1>5, FilesApart
    <3> QED BY <3>1, <1>1 DEF QueueInv, OnManifest
  <2> QED BY <2>1, <2>2
<1>11. Tables'
  <2> SUFFICES ASSUME NEW j \in 1 .. N, Written(J(j))', Written(C(j))'
               PROVE  IsPrefix(disk'[C(j)], disk'[J(j)].details)
    BY <1>7 DEF Tables
  <2>1. J(j) # f /\ C(j) # f
    BY <1>6, FilesApart
  <2>2. /\ disk'[J(j)] = disk[J(j)] /\ disk'[C(j)] = disk[C(j)]
        /\ Written(J(j)) /\ Written(C(j))
    BY <2>1, <1>5, FilesApart
  <2>3. IsPrefix(disk[C(j)], disk[J(j)].details)
    BY <2>2 DEF QueueInv, Tables
  <2> QED BY <2>2, <2>3
<1>12. DiskTypes'
  BY <1>3, <1>7, FilesApart DEF QueueInv, DiskTypes
<1> QED BY <1>4, <1>8, <1>9, <1>10, <1>11, <1>12 DEF QueueInv

LEMMA FillKeeps == ASSUME StemsDiffer, QueueInv, FileFills PROVE QueueInv'
<1> DEFINE f == pending[1].file
           v == pending[1].content
<1>1. /\ pending # << >>
      /\ disk[f] = Torn
      /\ disk' = [disk EXCEPT ![f] = v]
      /\ pending' = Tail(pending)
      /\ UNCHANGED <<pc, current, outcomes, details>>
  BY DEF FileFills, Quiet
<1>2. f \in Files
  BY <1>1, PendingFile
<1>3. DOMAIN disk' = Files /\ disk'[f] = v /\ \A g \in Files : g # f => disk'[g] = disk[g]
  BY <1>1, <1>2 DEF QueueInv, DiskTypes
<1>4. /\ Place' /\ Untouched' /\ Done'
      /\ \A g \in Files : g # f => (Written(g)' <=> Written(g))
      /\ \A j \in 1 .. N : J(j)' = J(j) /\ C(j)' = C(j)
  BY <1>1, <1>3, OneFile
<1>5. details \in Seq(Results) /\ details \in CaseResults /\ N \in Nat /\ current \in 1 .. N + 1
  BY CasesAreSequences, QueueLength DEF QueueInv, Place
<1>6. \A j \in 1 .. N : J(j) \in Files /\ C(j) \in Files
  BY FilesApart
<1> HIDE DEF f, v
<1>7. ASSUME f # Manifest, pc \in {"case", "finish"} PROVE OnManifest'
  <2>1. disk'[Manifest] = disk[Manifest] /\ (Written(Manifest)' <=> Written(Manifest))
    BY <1>3, <1>4, <1>7, FilesApart
  <2> QED BY <2>1, <1>1, <1>7 DEF QueueInv, OnManifest
<1>8. ASSUME NEW k \in 1 .. N, f \in {J(k), C(k)},
             Written(J(k))' /\ Written(C(k))' => IsPrefix(disk'[C(k)], disk'[J(k)].details)
      PROVE  Tables'
  <2> SUFFICES ASSUME NEW j \in 1 .. N, j # k, Written(J(j))', Written(C(j))'
               PROVE  IsPrefix(disk'[C(j)], disk'[J(j)].details)
    BY <1>4, <1>8 DEF Tables
  <2>1. J(j) # f /\ C(j) # f
    BY <1>8, FilesApart
  <2>2. /\ disk'[J(j)] = disk[J(j)] /\ disk'[C(j)] = disk[C(j)]
        /\ Written(J(j)) /\ Written(C(j))
    BY <2>1, <1>3, <1>4, <1>6
  <2>3. IsPrefix(disk[C(j)], disk[J(j)].details)
    BY <2>2 DEF QueueInv, Tables
  <2> QED BY <2>2, <2>3
<1>9. CASE /\ f = Manifest /\ pc \in {"cool", "end"} /\ pending' = << >>
           /\ \E s \in {"running", "completed", "cancelled"} :
                 /\ v = [state |-> s, outcomes |-> outcomes]
                 /\ s = "running" <=> pc = "cool"
                 /\ s = "completed" => current = N + 1
  <2>1. Writing' /\ Settled'
    BY <1>1, <1>9 DEF Writing, Settled
  <2>2. \A j \in 1 .. N : /\ disk'[J(j)] = disk[J(j)] /\ disk'[C(j)] = disk[C(j)]
                          /\ (Written(J(j))' <=> Written(J(j))) /\ (Written(C(j))' <=> Written(C(j)))
    BY <1>3, <1>4, <1>9, FilesApart
  <2>3. Tables' /\ DiskTypes'
    BY <2>2, <1>3, <1>4 DEF QueueInv, Tables, DiskTypes
  <2>4. OnManifest'
    <3>1. outcomes \in Seq(Outcome) /\ Len(outcomes) = current - 1
      BY DEF QueueInv, Place
    <3>2. PICK s \in {"running", "completed", "cancelled"} :
             /\ v = [state |-> s, outcomes |-> outcomes]
             /\ s = "running" <=> pc = "cool"
             /\ s = "completed" => current = N + 1
      BY <1>9
    <3>3. disk'[Manifest].state = s /\ disk'[Manifest].outcomes = outcomes
      BY <3>2, <1>3, <1>9
    <3>4. Len(outcomes) \in Nat
      BY <3>1, LenProperties
    <3> QED BY <3>1, <3>2, <3>3, <3>4, <1>1, <1>5, <1>9 DEF OnManifest
  <2> QED BY <2>1, <2>3, <2>4, <1>4 DEF QueueInv
<1>10. ASSUME current \in 1 .. N, f = J(current), NEW c \in BOOLEAN,
              (c /\ pc = "finish") \/ (~c /\ pc = "case"),
              WritesBoth(c), v = [complete |-> c, details |-> details],
              pending' = << Write(C(current), details) >>
       PROVE  QueueInv'
  <2>1. disk'[J(current)] = v /\ disk'[C(current)] = disk[C(current)]
        /\ (Written(C(current))' <=> Written(C(current)))
    BY <1>1, <1>3, <1>4, <1>6, <1>10, FilesApart
  <2>2. WritesTable(c)'
    BY <2>1, <1>1, <1>4, <1>10 DEF WritesTable, Write
  <2>3. Writing'
    <3>1. CASE c
      BY <2>2, <3>1, <1>1, <1>10 DEF Writing
    <3>2. CASE ~c
      BY <2>2, <3>2, <1>1, <1>10 DEF Writing
    <3> QED BY <3>1, <3>2
  <2>4. Settled'
    BY <1>10 DEF Settled
  <2>5. Tables'
    <3>1. Written(C(current)) => IsPrefix(disk[C(current)], details)
      BY <1>10 DEF WritesBoth
    <3>2. disk'[J(current)].details = details
      BY <2>1, <1>10
    <3>3. PICK k \in 1 .. N : k = current
      BY <1>10
    <3>4. disk'[C(k)] = disk[C(k)] /\ disk'[J(k)].details = details
          /\ (Written(C(k))' <=> Written(C(k)))
      BY <3>2, <3>3, <2>1, <1>1
    <3>5. Written(C(k))' => IsPrefix(disk'[C(k)], disk'[J(k)].details)
      BY <3>1, <3>3, <3>4
    <3> QED BY <3>3, <3>5, <1>8, <1>10
  <2>6. DiskTypes'
    <3>1. v \in Report
      BY <1>5, <1>10 DEF Report
    <3>2. ASSUME NEW j \in 1 .. N
          PROVE  disk'[J(j)] \in {Absent, Torn} \cup Report /\ disk'[C(j)] = disk[C(j)]
      <4>1. C(j) # f
        BY <1>10, FilesApart
      <4>2. CASE j = current
        BY <4>1, <4>2, <3>1, <2>1, <1>3, <1>6
      <4>3. CASE j # current
        BY <4>1, <4>3, <1>3, <1>6, <1>10, FilesApart DEF QueueInv, DiskTypes
      <4> QED BY <4>2, <4>3
    <3> QED BY <3>2, <1>3, <1>4 DEF QueueInv, DiskTypes
  <2>7. OnManifest'
    BY <1>7, <1>10, FilesApart
  <2> QED BY <2>3, <2>4, <2>5, <2>6, <2>7, <1>4 DEF QueueInv
<1>11. ASSUME current \in 1 .. N, f = C(current), v = details, pending' = << >>,
              NEW c \in BOOLEAN, (c /\ pc = "finish") \/ (~c /\ pc = "case"),
              WritesTable(c)
       PROVE  QueueInv'
  <2>1. disk'[C(current)] = details /\ disk'[J(current)] = disk[J(current)]
    BY <1>3, <1>6, <1>11, FilesApart
  <2>2. disk[J(current)] = [complete |-> c, details |-> details]
    BY <1>11 DEF WritesTable
  <2>3. Writing'
    BY <1>11 DEF Writing
  <2>4. Settled'
    <3>1. CASE c
      <4>1. disk[J(current)] = [complete |-> TRUE, details |-> details]
        BY <2>2, <3>1
      <4> QED BY <2>1, <4>1, <3>1, <1>1, <1>4, <1>11 DEF Settled
    <3>2. CASE ~c
      <4>1. disk[J(current)] = [complete |-> FALSE, details |-> details]
        BY <2>2, <3>2
      <4> QED BY <2>1, <4>1, <3>2, <1>1, <1>4, <1>11 DEF Settled
    <3> QED BY <3>1, <3>2
  <2>5. Tables'
    <3>1. IsPrefix(disk'[C(current)], disk'[J(current)].details)
      BY <2>1, <2>2, <1>5, PrefixRules
    <3> QED BY <3>1, <1>8, <1>11
  <2>6. DiskTypes'
    <3>1. ASSUME NEW j \in 1 .. N
          PROVE  disk'[C(j)] \in {Absent, Torn} \cup CaseResults /\ disk'[J(j)] = disk[J(j)]
      <4>1. J(j) # f
        BY <1>11, FilesApart
      <4>2. CASE j = current
        BY <4>1, <4>2, <2>1, <1>3, <1>5, <1>6
      <4>3. CASE j # current
        BY <4>1, <4>3, <1>3, <1>6, <1>11, FilesApart DEF QueueInv, DiskTypes
      <4> QED BY <4>2, <4>3
    <3> QED BY <3>1, <1>3, <1>4 DEF QueueInv, DiskTypes
  <2>7. OnManifest'
    BY <1>7, <1>11, FilesApart
  <2> QED BY <2>3, <2>4, <2>5, <2>6, <2>7, <1>4 DEF QueueInv
<1> QED BY <1>1, <1>9, <1>10, <1>11, PendingFile DEF f, v

-----------------------------------------------------------------------------
(* The steps that write nothing to the disk.                                *)

LEMMA DiskSame ==
    ASSUME QueueInv, disk' = disk
    PROVE  Tables' /\ DiskTypes' /\ (\A f \in Files : Written(f)' <=> Written(f))
<1>1. \A j \in 1 .. N : J(j)' = J(j) /\ C(j)' = C(j)
  BY DEF J, C, Json, Csv
<1>2. \A f \in Files : Written(f)' <=> Written(f)
  BY DEF Written
<1>3. Tables'
  BY <1>1 DEF QueueInv, Tables, Written
<1>4. DiskTypes'
  BY <1>1 DEF QueueInv, DiskTypes
<1> QED BY <1>2, <1>3, <1>4

\* The manifest on disk stays one of an earlier moment while the queue goes on.
LEMMA ManifestSame ==
    ASSUME QueueInv, disk' = disk, outcomes' = outcomes,
           \/ pc \notin {"end", "ended", "killed"}
           \/ pending' = << >> /\ pc' \in {"end", "ended", "killed"}
    PROVE  OnManifest'
<1>1. Written(Manifest)' <=> Written(Manifest)
  BY DEF Written, Manifest
<1> QED BY <1>1 DEF QueueInv, OnManifest, Manifest

\* What the step does not touch is where it was.
LEMMA PlaceSame ==
    ASSUME QueueInv, disk' = disk, UNCHANGED <<current, outcomes>>,
           pc' \in {"idle", "cool", "load"} => pc \in {"idle", "cool", "load"}
    PROVE  Untouched' /\ Done' /\ \A j \in 1 .. N : J(j)' = J(j) /\ C(j)' = C(j)
<1>1. \A j \in 1 .. N : J(j)' = J(j) /\ C(j)' = C(j)
  BY DEF J, C, Json, Csv
<1>2. N \in Nat /\ current \in 1 .. N + 1
  BY QueueLength DEF QueueInv, Place
<1>3. Untouched'
  BY <1>1 DEF QueueInv, Untouched
<1>4. Done'
  BY <1>1, <1>2 DEF QueueInv, Done, J, C, Json, Csv
<1> QED BY <1>1, <1>3, <1>4

\* The artifacts of the current model are about to be rewritten.
LEMMA ArtifactsKeep ==
    ASSUME StemsDiffer, QueueInv, Loads \/ Selects \/ Completes
    PROVE  QueueInv'
<1>1. /\ pending = << >> /\ disk' = disk /\ UNCHANGED <<current, outcomes>>
      /\ pc \in {"load", "select", "case"} /\ pc' \in {"case", "finish"}
  BY DEF Loads, Selects, Completes, Goes, Quiet
<1>2. N \in Nat /\ current \in 1 .. N /\ details \in Seq(Results) /\ Len(details) <= NCases
      /\ (pc = "select" => Len(details) < NCases)
  BY <1>1, QueueLength DEF QueueInv, Place
<1>3. Tables' /\ DiskTypes' /\ OnManifest' /\ Untouched' /\ Done'
      /\ (\A j \in 1 .. N : J(j)' = J(j) /\ C(j)' = C(j))
  BY <1>1, DiskSame, ManifestSame, PlaceSame
<1>4. details' \in Seq(Results) /\ Len(details') <= NCases
      /\ (pc' = "finish" => Len(details') = NCases)
      /\ \/ pc' = "case" /\ pending' = Artifacts(Model, details', FALSE)
         \/ pc' = "finish" /\ pending' = Artifacts(Model, details', TRUE)
  <2>1. CASE Loads
    BY <2>1, EmptySeq, QueueAssumption DEF Loads, Goes
  <2>2. CASE Selects
    BY <2>2, <1>2, AppendProperties, QueueAssumption DEF Selects
  <2>3. CASE Completes
    BY <2>3, <1>2 DEF Completes
  <2> QED BY <2>1, <2>2, <2>3
<1>5. /\ ~(Written(J(current)) /\ disk[J(current)].complete)
      /\ Written(C(current)) => IsPrefix(disk[C(current)], details')
  <2>1. CASE Loads
    <3>1. disk[J(current)] = Absent /\ disk[C(current)] = Absent
      BY <2>1, <1>2 DEF QueueInv, Untouched, Loads
    <3> QED BY <3>1 DEF Written
  <2>2. CASE Selects \/ Completes
    <3>1. disk[J(current)] = [complete |-> FALSE, details |-> details] /\ disk[C(current)] = details
      BY <2>2, <1>1 DEF QueueInv, Settled, Selects, Completes
    <3>2. IsPrefix(details, details')
      BY <2>2, <1>2, PrefixRules DEF Selects, Completes
    <3> QED BY <3>1, <3>2
  <2> QED BY <2>1, <2>2
<1>6. ASSUME NEW c \in BOOLEAN, pending' = Artifacts(Model, details', c) PROVE WritesBoth(c)'
  <2>1. J(current)' = J(current) /\ C(current)' = C(current) /\ Model' = Model
    BY <1>1 DEF J, C, Json, Csv, Model
  <2>2. Artifacts(Model, details, c)' = Artifacts(Model, details', c)
    BY <2>1 DEF Artifacts, Write, Json, Csv
  <2>3. (Written(J(current))' <=> Written(J(current))) /\ (Written(C(current))' <=> Written(C(current)))
    BY <1>1, <2>1 DEF Written
  <2> QED BY <1>1, <1>5, <1>6, <2>1, <2>2, <2>3 DEF WritesBoth
<1>7. Writing'
  BY <1>4, <1>6 DEF Writing
<1>8. Settled'
  BY <1>4 DEF Settled, Artifacts
<1>9. Place'
  BY <1>1, <1>2, <1>4 DEF QueueInv, Place
<1> QED BY <1>3, <1>7, <1>8, <1>9 DEF QueueInv

\* The manifest is about to be written.
LEMMA ManifestsKeep ==
    ASSUME StemsDiffer, QueueInv, Start \/ TimesOut \/ CancelTakesHold \/ QueueCompletes
    PROVE  QueueInv'
<1>1. /\ pending = << >> /\ disk' = disk /\ UNCHANGED <<current, outcomes, details>>
      /\ pc \in {"idle", "cool", "load", "case", "fresh", "finish"} /\ pc' \in {"cool", "end"}
  <2>1. pc = "idle" => pending = << >>
    BY DEF QueueInv, Writing
  <2> QED BY <2>1 DEF Start, TimesOut, CancelTakesHold, QueueCompletes, QueueStops, Quiet, AwaitingCool
<1>2. N \in Nat /\ current \in 1 .. N + 1
  BY QueueLength DEF QueueInv, Place
<1>3. pc' = "cool" => pc = "idle"
  BY DEF Start, TimesOut, CancelTakesHold, QueueCompletes, QueueStops
<1>4. Tables' /\ DiskTypes' /\ OnManifest' /\ Untouched' /\ Done'
  BY <1>1, <1>3, DiskSame, ManifestSame, PlaceSame
<1>5. Writing'
  <2>1. CASE Start
    <3>1. outcomes \in Seq(Outcome) /\ Len(outcomes) = 0
      BY <2>1 DEF Start, QueueInv, Place
    <3>2. outcomes = << >>
      BY <3>1, EmptySeq
    <3> QED BY <2>1, <3>2, <1>1 DEF Start, Writing, QueueManifest, Write, Manifest
  <2>2. CASE TimesOut \/ CancelTakesHold
    BY <2>2, <1>1 DEF TimesOut, CancelTakesHold, QueueStops, Writing, QueueManifest, Write, Manifest
  <2>3. CASE QueueCompletes
    <3>1. current = N + 1
      BY <2>3, <1>2 DEF QueueCompletes, Tried, N
    <3> QED BY <2>3, <3>1, <1>1 DEF QueueCompletes, Writing, QueueManifest, Write, Manifest, N
  <2> QED BY <2>1, <2>2, <2>3
<1>6. Settled'
  BY <1>1 DEF Settled
<1>7. Place'
  BY <1>1 DEF QueueInv, Place
<1> QED BY <1>4, <1>5, <1>6, <1>7 DEF QueueInv

\* The queue goes on to the next step with nothing written.
LEMMA StepsKeep ==
    ASSUME StemsDiffer, QueueInv, Cools \/ Freshens
    PROVE  QueueInv'
<1>1. /\ pending = << >> /\ pending' = << >> /\ disk' = disk
      /\ UNCHANGED <<current, outcomes, details>>
  BY DEF Cools, Freshens, Goes, Quiet
<1>2. \/ pc = "cool" /\ pc' = "load" /\ current # N + 1
      \/ pc = "case" /\ pc' = "fresh" /\ Len(details) < NCases
      \/ pc = "fresh" /\ pc' = "select"
  <2>1. N \in Nat /\ current \in 1 .. N + 1
    BY QueueLength DEF QueueInv, Place
  <2> QED BY <2>1 DEF Cools, Freshens, Goes, Tried, N
<1>3. N \in Nat /\ current \in 1 .. N + 1
  BY QueueLength DEF QueueInv, Place
<1>4. /\ Tables' /\ DiskTypes' /\ OnManifest' /\ Untouched' /\ Done'
      /\ \A j \in 1 .. N : J(j)' = J(j) /\ C(j)' = C(j)
  BY <1>1, <1>2, DiskSame, ManifestSame, PlaceSame
<1>5. Place'
  BY <1>1, <1>2, <1>3 DEF QueueInv, Place
<1>6. Writing'
  BY <1>1 DEF Writing
<1>7. Settled'
  <2>1. CASE pc' = "load"
    BY <2>1 DEF Settled
  <2>2. CASE pc \in {"case", "fresh"} /\ pc' \in {"fresh", "select"}
    <3>1. current \in 1 .. N
      BY <2>2, <1>3 DEF QueueInv, Place
    <3> QED BY <2>2, <3>1, <1>1, <1>4 DEF QueueInv, Settled
  <2> QED BY <1>2, <2>1, <2>2
<1> QED BY <1>4, <1>5, <1>6, <1>7 DEF QueueInv

\* Nothing but the readings of the phone and of the button changes.
LEMMA SignalsKeep ==
    ASSUME QueueInv, UNCHANGED <<pc, current, outcomes, details, pending, disk>>
    PROVE  QueueInv'
<1>1. \A j : J(j)' = J(j) /\ C(j)' = C(j)
  BY DEF J, C, Json, Csv
<1>2. Tables' /\ DiskTypes'
  BY DiskSame
<1>3. Place'
  BY DEF QueueInv, Place
<1>4. Settled' /\ Untouched' /\ Done'
  BY <1>1 DEF QueueInv, Settled, Untouched, Done, J, C, Json, Csv
<1>5. OnManifest'
  BY DEF QueueInv, OnManifest, Written, Manifest
<1>6. \A c \in BOOLEAN : (WritesBoth(c) => WritesBoth(c)') /\ (WritesTable(c) => WritesTable(c)')
  BY <1>1 DEF WritesBoth, WritesTable, Artifacts, Write, Written, Model, J, C, Json, Csv
<1>7. Writing'
  BY <1>6 DEF QueueInv, Writing, QueueManifest, Write, Manifest
<1> QED BY <1>2, <1>3, <1>4, <1>5, <1>7 DEF QueueInv

\* The queue is over, or the application has died.
LEMMA EndsKeep ==
    ASSUME QueueInv, disk' = disk, UNCHANGED <<current, outcomes, details>>,
           pending' = << >>, pc' \in {"ended", "killed"}
    PROVE  QueueInv'
<1>1. Tables' /\ DiskTypes' /\ OnManifest' /\ Untouched' /\ Done'
  BY DiskSame, ManifestSame, PlaceSame
<1>2. Place' /\ Writing' /\ Settled'
  BY DEF QueueInv, Place, Writing, Settled
<1> QED BY <1>1, <1>2 DEF QueueInv

\* A model is done with.
LEMMA ModelEndsKeeps ==
    ASSUME StemsDiffer, QueueInv, NEW s \in {"completed", "failed"}, ModelEnds(s),
           pc \in {"load", "fresh", "case", "finish"},
           s = "completed" => pc = "finish" /\ pending = << >>
    PROVE  QueueInv'
<1>1. /\ pc' = "cool" /\ current' = current + 1 /\ details' = << >> /\ disk' = disk
      /\ outcomes' = Append(outcomes, [model |-> Model, status |-> s])
      /\ pending' = QueueManifest("running", outcomes')
  BY DEF ModelEnds
<1>2. /\ N \in Nat /\ current \in 1 .. N
      /\ outcomes \in Seq(Outcome) /\ Len(outcomes) = current - 1
  BY QueueLength DEF QueueInv, Place
<1>3. [model |-> Model, status |-> s] \in Outcome
  BY <1>2 DEF Outcome, Model, Named, N
<1>4. /\ outcomes' \in Seq(Outcome) /\ Len(outcomes') = current
      /\ \A i \in 1 .. current - 1 : outcomes'[i] = outcomes[i]
      /\ outcomes'[current] = [model |-> Model, status |-> s]
  BY <1>1, <1>2, <1>3, AppendProperties
<1>5. Tables' /\ DiskTypes' /\ (Written(Manifest)' <=> Written(Manifest))
  BY <1>1, DiskSame DEF Written, Manifest
<1>6. \A j : J(j)' = J(j) /\ C(j)' = C(j)
  BY DEF J, C, Json, Csv
<1>7. Place'
  BY <1>1, <1>2, <1>4, EmptySeq, QueueAssumption DEF Place
<1>8. Writing'
  BY <1>1 DEF Writing, QueueManifest, Write, Manifest
<1>9. Settled'
  BY <1>1 DEF Settled
<1>10. Untouched'
  BY <1>1, <1>2, <1>6 DEF QueueInv, Untouched
<1>11. Done'
  <2> SUFFICES ASSUME NEW j \in 1 .. current
               PROVE  /\ outcomes'[j].model = Queue[j]
                      /\ outcomes'[j].status = "completed" =>
                            /\ disk[C(j)] \in Seq(Results) /\ Len(disk[C(j)]) = NCases
                            /\ disk[J(j)] = [complete |-> TRUE, details |-> disk[C(j)]]
    BY <1>1, <1>2, <1>6 DEF Done
  <2>1. CASE j = current
    <3>1. outcomes'[j].model = Queue[j] /\ outcomes'[j].status = s
      BY <2>1, <1>4 DEF Model
    <3>2. CASE s = "completed"
      <4>1. /\ disk[J(current)] = [complete |-> TRUE, details |-> details]
            /\ disk[C(current)] = details /\ details \in Seq(Results) /\ Len(details) = NCases
        BY <3>2 DEF QueueInv, Settled, Place
      <4> QED BY <2>1, <3>1, <4>1
    <3> QED BY <3>1, <3>2
  <2>2. CASE j # current
    BY <2>2, <1>2, <1>4 DEF QueueInv, Done
  <2> QED BY <2>1, <2>2
<1>12. OnManifest'
  <2> SUFFICES ASSUME Written(Manifest) PROVE OnManifest'
    BY <1>5 DEF OnManifest
  <2>1. /\ disk[Manifest].state = "running"
        /\ disk[Manifest].outcomes \in Seq(Outcome)
        /\ Len(disk[Manifest].outcomes) <= current - 1
        /\ \A i \in 1 .. Len(disk[Manifest].outcomes) : disk[Manifest].outcomes[i] = outcomes[i]
    BY <1>2 DEF QueueInv, OnManifest
  <2>2. Len(disk[Manifest].outcomes) \in Nat
    BY <2>1, LenProperties
  <2> QED BY <1>1, <1>2, <1>4, <2>1, <2>2 DEF OnManifest, Manifest
<1> QED BY <1>5, <1>7, <1>8, <1>9, <1>10, <1>11, <1>12 DEF QueueInv

-----------------------------------------------------------------------------
(* What Cancel interrupts.                                                  *)

\* If anything was interrupted, it was the last of `d`.
LastAlone(d) == \A k \in 1 .. Len(d) : d[k] = "interrupted" => k = Len(d)

Interrupted(j) == Written(J(j)) /\ ~Uninterrupted(disk[J(j)].details)

\* Once a case is interrupted no other begins, of this model or of a later one.
Cut ==
    /\ LastAlone(details)
    /\ pc \in {"fresh", "select"} => Uninterrupted(details)
    /\ Uninterrupted(details) \/ cancelled
    /\ \A j \in 1 .. N : Interrupted(j) =>
          /\ cancelled /\ LastAlone(disk[J(j)].details)
          /\ j < current => pc \in {"cool", "end", "ended", "killed"}
          /\ \A k \in 1 .. N : k > j => disk[J(k)] = Absent

\* No model is listed as completed that has an interrupted case.
DoneWhole ==
    \A j \in 1 .. current - 1 :
        outcomes[j].status = "completed" => Uninterrupted(disk[J(j)].details)

\* Whatever is interrupted is the end of a report and the end of the results.
InterruptionEndsResults ==
    \A i, j \in 1 .. Len(Queue) :
        LET report == disk[Json(Queue[i])] IN
        Written(Json(Queue[i])) =>
            \A k \in 1 .. Len(report.details) : report.details[k] = "interrupted" =>
                /\ cancelled /\ k = Len(report.details)
                /\ j > i => disk[Json(Queue[j])] = Absent

\* What a step does to a report: only that of the current model is torn or filled,
\* and only with the cases there are.
LEMMA ReportsChange ==
    ASSUME StemsDiffer, QueueInv, [Next]_vars, NEW j \in 1 .. N, disk'[J(j)] # disk[J(j)]
    PROVE  /\ j = current /\ pc \in {"case", "finish"}
           /\ UNCHANGED <<pc, current, outcomes, details, cancelled>>
           /\ \/ disk'[J(j)] = Torn
              \/ \E c \in BOOLEAN : /\ c <=> pc = "finish"
                                   /\ disk'[J(j)] = [complete |-> c, details |-> details]
<1>1. FileOpens \/ FileFills
  BY DEF Next, Step, vars, WriteFails, Start, Cools, Loads, Freshens, Selects, Completes,
         ModelCompletes, ModelFails, TimesOut, CancelTakesHold, QueueCompletes, Ends, Cancel,
         TemperatureChanges, Killed, ModelEnds, QueueStops, Goes
<1> DEFINE f == pending[1].file
           v == pending[1].content
<1>2. /\ pending # << >> /\ UNCHANGED <<pc, current, outcomes, details, cancelled>>
      /\ disk' = [disk EXCEPT ![f] = Torn] \/ disk' = [disk EXCEPT ![f] = v]
  BY <1>1 DEF FileOpens, FileFills, Quiet
<1>3. J(j) = f /\ (disk'[J(j)] = Torn \/ disk'[J(j)] = v)
  BY <1>2, FilesApart DEF QueueInv, DiskTypes
<1> HIDE DEF f, v
<1>4. /\ j = current /\ pc \in {"case", "finish"}
      /\ \E c \in BOOLEAN : (c <=> pc = "finish") /\ v = [complete |-> c, details |-> details]
  <2>1. current \in 1 .. N /\ f = J(current)
        /\ \E c \in BOOLEAN : /\ (c /\ pc = "finish") \/ (~c /\ pc = "case")
                             /\ v = [complete |-> c, details |-> details]
    BY <1>2, <1>3, PendingFile, FilesApart DEF f, v
  <2> QED BY <1>3, <2>1, FilesApart
<1> QED BY <1>2, <1>3, <1>4

\* No step but Selects adds to the cases.
LEMMA CasesChange ==
    ASSUME [Next]_vars, details' # details, details' # << >>
    PROVE  /\ pc = "select" /\ pc' = "case" /\ UNCHANGED <<current, outcomes, disk, cancelled>>
           /\ \E r \in Results : (r = "interrupted" => cancelled) /\ details' = Append(details, r)
  BY DEF Next, Step, vars, FileOpens, FileFills, WriteFails, Start, Cools, Loads, Freshens, Selects,
         Completes, ModelCompletes, ModelFails, TimesOut, CancelTakesHold, QueueCompletes, Ends,
         Cancel, TemperatureChanges, Killed, ModelEnds, QueueStops, Goes

\* The user's Cancel stays pressed, and nothing is begun after it.
LEMMA NothingBegins ==
    ASSUME [Next]_vars, cancelled
    PROVE  /\ cancelled'
           /\ pc' \in {"load", "fresh", "select"} => pc = pc'
           /\ pc' = "case" => pc \in {"case", "select"}
           /\ pc' = "finish" => pc \in {"case", "finish"}
           /\ pc' # "idle" \/ pc = "idle"
  BY DEF Next, Step, vars, FileOpens, FileFills, WriteFails, Start, Cools, Loads, Freshens, Selects,
         Completes, ModelCompletes, ModelFails, TimesOut, CancelTakesHold, QueueCompletes, Ends,
         Cancel, TemperatureChanges, Killed, ModelEnds, QueueStops, Goes

\* One case more.
LEMMA OneCaseMore ==
    ASSUME NEW d \in Seq(Results), NEW r \in Results, Uninterrupted(d)
    PROVE  /\ LastAlone(Append(d, r)) /\ Len(Append(d, r)) = Len(d) + 1
           /\ r # "interrupted" => Uninterrupted(Append(d, r))
<1>1. /\ Len(d) \in Nat /\ Len(Append(d, r)) = Len(d) + 1
      /\ \A i \in 1 .. Len(d) : Append(d, r)[i] = d[i]
      /\ Append(d, r)[Len(d) + 1] = r
  BY LenProperties, AppendProperties
<1>2. ASSUME NEW k \in 1 .. Len(d) + 1, k # Len(d) + 1 PROVE Append(d, r)[k] # "interrupted"
  BY <1>1, <1>2 DEF Uninterrupted
<1> QED BY <1>1, <1>2 DEF LastAlone, Uninterrupted

LEMMA NoCases == Uninterrupted(<< >>) /\ LastAlone(<< >>)
  BY EmptySeq DEF Uninterrupted, LastAlone

\* Once Cancel is pressed, a queue that is between two models begins none.
LEMMA NoModelBegins ==
    ASSUME [Next]_vars, cancelled, pc \in {"cool", "end", "ended", "killed"}
    PROVE  pc' \in {"cool", "end", "ended", "killed"}
  BY DEF Next, Step, vars, FileOpens, FileFills, WriteFails, Start, Cools, Loads, Freshens, Selects,
         Completes, ModelCompletes, ModelFails, TimesOut, CancelTakesHold, QueueCompletes, Ends,
         Cancel, TemperatureChanges, Killed, ModelEnds, QueueStops, Goes

\* The queue goes to its next model by way of the cooldown.
LEMMA CurrentChanges ==
    ASSUME [Next]_vars, current' # current
    PROVE  pc' = "cool"
  BY DEF Next, Step, vars, FileOpens, FileFills, WriteFails, Start, Cools, Loads, Freshens, Selects,
         Completes, ModelCompletes, ModelFails, TimesOut, CancelTakesHold, QueueCompletes, Ends,
         Cancel, TemperatureChanges, Killed, ModelEnds, QueueStops, Goes

LEMMA CutKeeps == ASSUME StemsDiffer, QueueInv, Cut, [Next]_vars PROVE Cut'
<1>1. N \in Nat /\ current \in 1 .. N + 1 /\ details \in Seq(Results)
  BY QueueLength DEF QueueInv, Place
<1>2. LastAlone(details)' /\ (pc \in {"fresh", "select"} => Uninterrupted(details))'
      /\ (Uninterrupted(details) \/ cancelled)'
  <2>1. CASE details' = details
    <3>1. (pc \in {"fresh", "select"} => Uninterrupted(details))'
      <4>1. CASE cancelled
        BY <2>1, <4>1, NothingBegins DEF Cut, Uninterrupted
      <4>2. CASE ~cancelled
        BY <2>1, <4>2 DEF Cut, Uninterrupted
      <4> QED BY <4>1, <4>2
    <3>2. (Uninterrupted(details) \/ cancelled)'
      BY <2>1, NothingBegins DEF Cut, Uninterrupted
    <3> QED BY <2>1, <3>1, <3>2 DEF Cut, LastAlone
  <2>2. CASE details' = << >>
    BY <2>2, NoCases DEF LastAlone, Uninterrupted
  <2>3. CASE details' # details /\ details' # << >>
    <3>1. Uninterrupted(details)
      BY <2>3, CasesChange DEF Cut
    <3>2. PICK r \in Results : (r = "interrupted" => cancelled) /\ details' = Append(details, r)
      BY <2>3, CasesChange
    <3>3. LastAlone(Append(details, r)) /\ (r # "interrupted" => Uninterrupted(Append(details, r)))
      BY <1>1, <3>1, OneCaseMore
    <3> QED BY <2>3, <3>2, <3>3, CasesChange DEF LastAlone, Uninterrupted
  <2> QED BY <2>1, <2>2, <2>3
<1>3. ASSUME NEW j \in 1 .. N, Interrupted(j)'
      PROVE  /\ (cancelled /\ LastAlone(disk[J(j)].details))'
             /\ (j < current)' => pc' \in {"cool", "end", "ended", "killed"}
             /\ \A k \in 1 .. N : k > j => disk'[J(k)] = Absent
  <2>1. J(j)' = J(j) /\ \A k \in 1 .. N : J(k)' = J(k)
    BY DEF J, Json
  <2>2. CASE disk'[J(j)] = disk[J(j)]
    <3>1. Interrupted(j)
      BY <1>3, <2>1, <2>2 DEF Interrupted, Written, Uninterrupted
    <3>2. /\ cancelled /\ LastAlone(disk[J(j)].details)
          /\ j < current => pc \in {"cool", "end", "ended", "killed"}
          /\ \A k \in 1 .. N : k > j => disk[J(k)] = Absent
      BY <3>1 DEF Cut
    <3>3. cancelled' /\ LastAlone(disk[J(j)].details)'
      BY <2>1, <2>2, <3>2, NothingBegins DEF LastAlone
    <3>4. ASSUME NEW k \in 1 .. N, k > j PROVE disk'[J(k)] = Absent
      <4>1. SUFFICES ASSUME disk'[J(k)] # disk[J(k)] PROVE FALSE
        BY <3>2, <3>4
      <4> QED BY <3>2, <3>4, <4>1, ReportsChange
    <3>5. ASSUME (j < current)' PROVE pc' \in {"cool", "end", "ended", "killed"}
      <4>1. j <= current
        <5>1. SUFFICES ASSUME j > current PROVE FALSE
          BY <1>1
        <5>2. disk[J(j)] = Absent
          BY <5>1 DEF QueueInv, Untouched
        <5> QED BY <3>1, <5>2 DEF Interrupted, Written
      <4>2. CASE j < current
        <5>1. pc \in {"cool", "end", "ended", "killed"}
          BY <3>2, <4>2
        <5> QED BY <5>1, <3>2, NoModelBegins
      <4>3. CASE j = current
        <5>1. current' # current
          BY <3>5, <4>3, <1>1
        <5> QED BY <5>1, CurrentChanges
      <4> QED BY <4>1, <4>2, <4>3, <1>1
    <3> QED BY <3>3, <3>4, <3>5
  <2>3. CASE disk'[J(j)] # disk[J(j)]
    <3>1. /\ j = current /\ pc \in {"case", "finish"}
          /\ UNCHANGED <<pc, current, details, cancelled>>
          /\ disk'[J(j)] = Torn \/ \E c \in BOOLEAN : disk'[J(j)] = [complete |-> c, details |-> details]
      BY <2>3, ReportsChange
    <3>2. disk'[J(j)].details = details /\ ~Uninterrupted(details)
      <4>1. disk'[J(j)] # Torn
        BY <1>3, <2>1 DEF Interrupted, Written
      <4>2. PICK c \in BOOLEAN : disk'[J(j)] = [complete |-> c, details |-> details]
        BY <3>1, <4>1
      <4>3. disk'[J(j)].details = details
        BY <4>2
      <4> QED BY <1>3, <2>1, <4>3 DEF Interrupted, Uninterrupted
    <3>3. (cancelled /\ LastAlone(disk[J(j)].details))'
      BY <2>1, <3>1, <3>2 DEF Cut, LastAlone
    <3>4. ASSUME NEW k \in 1 .. N, k > j PROVE disk'[J(k)] = Absent
      <4>1. disk[J(k)] = Absent
        BY <3>1, <3>4 DEF QueueInv, Untouched
      <4>2. k # current
        BY <3>1, <3>4
      <4> QED BY <4>1, <4>2, ReportsChange
    <3> QED BY <3>1, <3>3, <3>4
  <2> QED BY <2>2, <2>3
<1>4. \A j \in 1 .. N : J(j)' = J(j)
  BY DEF J, Json
<1> QED BY <1>2, <1>3, <1>4 DEF Cut

-----------------------------------------------------------------------------
(* The theorems.                                                            *)

LEMMA NextKeeps == ASSUME StemsDiffer, QueueInv, [Next]_vars PROVE QueueInv'
<1>1. CASE FileOpens
  BY <1>1, OpenKeeps
<1>2. CASE FileFills
  BY <1>2, FillKeeps
<1>3. CASE Loads \/ Selects \/ Completes
  BY <1>3, ArtifactsKeep
<1>4. CASE Start \/ TimesOut \/ CancelTakesHold \/ QueueCompletes
  BY <1>4, ManifestsKeep
<1>5. CASE Cools \/ Freshens
  BY <1>5, StepsKeep
<1>6. CASE ModelCompletes
  BY <1>6, ModelEndsKeeps DEF ModelCompletes, Quiet
<1>7. CASE ModelFails
  BY <1>7, ModelEndsKeeps DEF ModelFails
<1>8. CASE WriteFails
  <2>1. pending # << >>
    BY <1>8 DEF WriteFails, Quiet
  <2>2. CASE pending[1].file = Manifest
    BY <1>8, <2>2, EndsKeep DEF WriteFails
  <2>3. CASE pending[1].file # Manifest
    <3>1. ModelEnds("failed")
      BY <1>8, <2>3 DEF WriteFails
    <3>2. pc \in {"case", "finish"}
      BY <2>1, <2>3, PendingFile
    <3> QED BY <3>1, <3>2, ModelEndsKeeps
  <2> QED BY <2>2, <2>3
<1>9. CASE Ends
  BY <1>9, EndsKeep DEF Ends, Quiet
<1>10. CASE Killed
  BY <1>10, EndsKeep DEF Killed
<1>11. CASE Cancel \/ TemperatureChanges \/ UNCHANGED vars
  BY <1>11, SignalsKeep DEF Cancel, TemperatureChanges, vars
<1> QED BY <1>1, <1>2, <1>3, <1>4, <1>5, <1>6, <1>7, <1>8, <1>9, <1>10, <1>11 DEF Next, Step

LEMMA InitCut == ASSUME Init PROVE Cut /\ DoneWhole
<1>1. details = << >> /\ current = 1 /\ pc = "idle"
  BY DEF Init
<1>2. ASSUME NEW j \in 1 .. N PROVE ~Interrupted(j)
  <2>1. J(j) \in Files
    BY DEF J, Json, Files, Stems, Named, N
  <2> QED BY <2>1 DEF Interrupted, Written, Init
<1> QED BY <1>1, <1>2, NoCases DEF Cut, DoneWhole

LEMMA DoneWholeKeeps == ASSUME StemsDiffer, QueueInv, Cut, DoneWhole, [Next]_vars PROVE DoneWhole'
<1>1. N \in Nat /\ current \in 1 .. N + 1 /\ outcomes \in Seq(Outcome) /\ Len(outcomes) = current - 1
  BY QueueLength DEF QueueInv, Place
<1>2. \A j \in 1 .. N : J(j)' = J(j)
  BY DEF J, Json
<1>3. CASE current' = current /\ outcomes' = outcomes
  <2> SUFFICES ASSUME NEW j \in 1 .. current - 1, outcomes[j].status = "completed"
               PROVE  Uninterrupted(disk[J(j)].details)'
    BY <1>3 DEF DoneWhole
  <2>1. j \in 1 .. N /\ j # current
    BY <1>1
  <2>2. disk'[J(j)] = disk[J(j)]
    BY <2>1, ReportsChange
  <2> QED BY <1>2, <2>1, <2>2 DEF DoneWhole, Uninterrupted
<1>4. CASE \E s \in {"completed", "failed"} :
             ModelEnds(s) /\ (s = "completed" => ModelCompletes)
  <2>1. PICK s \in {"completed", "failed"} : ModelEnds(s) /\ (s = "completed" => ModelCompletes)
    BY <1>4
  <2>2. /\ current' = current + 1 /\ disk' = disk
        /\ outcomes' = Append(outcomes, [model |-> Model, status |-> s])
    BY <2>1 DEF ModelEnds
  <2>3. current \in 1 .. N
    BY <1>1, <2>2, NextKeeps, QueueLength DEF QueueInv, Place
  <2>4. [model |-> Model, status |-> s] \in Outcome
    BY <2>1, <2>3 DEF Outcome, Model, Named, N
  <2>5. /\ \A i \in 1 .. current - 1 : outcomes'[i] = outcomes[i]
        /\ outcomes'[current].status = s
    BY <1>1, <2>2, <2>4, AppendProperties
  <2> SUFFICES ASSUME NEW j \in 1 .. current, outcomes'[j].status = "completed"
               PROVE  Uninterrupted(disk[J(j)].details)'
    BY <1>1, <2>2 DEF DoneWhole
  <2>6. CASE j = current
    <3>1. Quiet /\ pc = "finish" /\ ~cancelled
      BY <2>1, <2>5, <2>6 DEF ModelCompletes
    <3>2. disk[J(j)].details = details /\ Uninterrupted(details)
      BY <2>6, <3>1 DEF QueueInv, Settled, Quiet, Cut
    <3> QED BY <1>2, <2>2, <2>3, <2>6, <3>2 DEF Uninterrupted
  <2>7. CASE j # current
    <3>1. j \in 1 .. current - 1 /\ j \in 1 .. N
      BY <1>1, <2>7
    <3> QED BY <1>2, <2>2, <2>5, <3>1 DEF DoneWhole, Uninterrupted
  <2> QED BY <2>6, <2>7
<1>5. \/ current' = current /\ outcomes' = outcomes
      \/ \E s \in {"completed", "failed"} : ModelEnds(s) /\ (s = "completed" => ModelCompletes)
  BY DEF Next, Step, vars, FileOpens, FileFills, WriteFails, Start, Cools, Loads, Freshens, Selects,
         Completes, ModelCompletes, ModelFails, TimesOut, CancelTakesHold, QueueCompletes, Ends,
         Cancel, TemperatureChanges, Killed, QueueStops, Goes
<1> QED BY <1>3, <1>4, <1>5

LEMMA QueueInvariant == ASSUME StemsDiffer PROVE Spec => [](QueueInv /\ Cut /\ DoneWhole)
<1>1. Init => QueueInv /\ Cut /\ DoneWhole
  BY InitQueue, InitCut
<1>2. QueueInv /\ Cut /\ DoneWhole /\ [Next]_vars => (QueueInv /\ Cut /\ DoneWhole)'
  BY NextKeeps, CutKeeps, DoneWholeKeeps
<1> QED BY <1>1, <1>2, PTL DEF Spec

Signals == cancelled \in BOOLEAN /\ hot \in BOOLEAN

LEMMA SignalTypes == Spec => []Signals
<1>1. Init => Signals
  BY Zenon DEF Init, Signals
<1>2. Signals /\ [Next]_vars => Signals'
  <2> SUFFICES ASSUME Signals, [Next]_vars PROVE Signals'
    OBVIOUS
  <2>1. \/ UNCHANGED <<cancelled, hot>>
        \/ cancelled' = TRUE /\ hot' = hot
        \/ cancelled' = cancelled /\ hot' = ~hot
    BY DEF Next, Step, vars, FileOpens, FileFills, WriteFails, Start, Cools, Loads, Freshens,
                Selects, Completes, ModelCompletes, ModelFails, TimesOut, CancelTakesHold,
                QueueCompletes, Ends, Cancel, TemperatureChanges, Killed, ModelEnds, QueueStops, Goes
  <2> QED BY <2>1, Zenon DEF Signals
<1> QED BY <1>1, <1>2, PTL DEF Spec

\* Every model of the queue is somewhere in it.
LEMMA NamedIndex == \A m \in Named : \E j \in 1 .. N : m = Queue[j] /\ Json(m) = J(j) /\ Csv(m) = C(j)
  BY DEF Named, N, J, C

\* EvalQueue: every file has the form its writer gives it, torn or not, and the queue's
\* position and outcomes fit each other, at any number of models and cases.
THEOREM QueueTypes == ASSUME StemsDiffer PROVE Spec => []TypeOK
<1>1. QueueInv /\ Signals => TypeOK
  <2> SUFFICES ASSUME QueueInv, Signals PROVE TypeOK
    OBVIOUS
  <2>1. details \in CaseResults
    BY CasesAreSequences DEF QueueInv, Place
  <2>2. \A i \in 1 .. Len(pending) : pending[i].file \in Files
    <3>1. CASE pending = << >>
      BY <3>1, EmptySeq
    <3>2. CASE pending # << >>
      <4>1. pending[1].file \in Files /\ current \in 1 .. N + 1 /\ N \in Nat
        BY <3>2, PendingFile, QueueLength DEF QueueInv, Place
      <4>2. Len(pending) = 1 \/ (pc \in {"case", "finish"} /\ Len(pending) = 2 /\ pending[2].file = C(current))
        BY <3>2 DEF QueueInv, Writing, QueueManifest, WritesBoth, WritesTable, Artifacts, Write, C, Model
      <4>3. pc \in {"case", "finish"} => C(current) \in Files
        BY <4>1, FilesApart DEF QueueInv, Place
      <4> QED BY <4>1, <4>2, <4>3
    <3> QED BY <3>1, <3>2
  <2>3. disk[Manifest] \in {Absent, Torn} \/
          /\ disk[Manifest].state \in {"running", "completed", "cancelled"}
          /\ disk[Manifest].outcomes \in Seq(Outcome)
    BY DEF QueueInv, OnManifest, Written
  <2>4. \A m \in Named :
          /\ disk[Json(m)] \in {Absent, Torn} \cup Report
          /\ disk[Csv(m)] \in {Absent, Torn} \cup CaseResults
    BY NamedIndex DEF QueueInv, DiskTypes
  <2> QED BY <2>1, <2>2, <2>3, <2>4 DEF QueueInv, Place, DiskTypes, Signals, TypeOK, N
<1> QED BY <1>1, QueueInvariant, SignalTypes, PTL

\* EvalQueue: wherever the application is killed or a write fails, a model that the
\* manifest lists as completed has a complete report of all cases and the same table.
THEOREM ManifestsAreHonest == ASSUME StemsDiffer PROVE Spec => []ManifestHonest
<1>1. ASSUME QueueInv, DoneWhole PROVE ManifestHonest
  <2> SUFFICES ASSUME Written(Manifest) PROVE ManifestHonest
    BY DEF ManifestHonest
  <2>1. /\ disk[Manifest].state = "completed" => Len(disk[Manifest].outcomes) = N
        /\ disk[Manifest].outcomes \in Seq(Outcome)
        /\ Len(disk[Manifest].outcomes) <= current - 1
        /\ \A i \in 1 .. Len(disk[Manifest].outcomes) : disk[Manifest].outcomes[i] = outcomes[i]
    BY <1>1 DEF QueueInv, OnManifest, Place
  <2>2. Len(disk[Manifest].outcomes) \in Nat /\ N \in Nat /\ current \in 1 .. N + 1
    BY <1>1, <2>1, LenProperties, QueueLength DEF QueueInv, Place
  <2>3. ASSUME NEW i \in 1 .. Len(disk[Manifest].outcomes)
        PROVE  LET o == disk[Manifest].outcomes[i] IN
               /\ o.model = Queue[i]
               /\ o.status = "completed" /\ Alone(i) =>
                     /\ Written(Json(o.model)) /\ disk[Json(o.model)].complete
                     /\ Len(disk[Json(o.model)].details) = NCases
                     /\ Uninterrupted(disk[Json(o.model)].details)
                     /\ disk[Csv(o.model)] = disk[Json(o.model)].details
    <3>1. disk[Manifest].outcomes[i] = outcomes[i] /\ i \in 1 .. current - 1 /\ i \in 1 .. N
      <4>1. Len(disk[Manifest].outcomes) <= current - 1
        BY <2>1
      <4>2. disk[Manifest].outcomes[i] = outcomes[i]
        BY <2>1
      <4> QED BY <2>2, <4>1, <4>2
    <3>3. outcomes[i].model = Queue[i]
      BY <1>1, <3>1 DEF QueueInv, Done
    <3>2. ASSUME outcomes[i].status = "completed"
          PROVE  /\ Written(J(i)) /\ disk[J(i)].complete
                 /\ Len(disk[J(i)].details) = NCases
                 /\ Uninterrupted(disk[J(i)].details)
                 /\ disk[C(i)] = disk[J(i)].details
      <4>1. /\ disk[C(i)] \in Seq(Results) /\ Len(disk[C(i)]) = NCases
            /\ disk[J(i)] = [complete |-> TRUE, details |-> disk[C(i)]]
        BY <1>1, <3>1, <3>2 DEF QueueInv, Done
      <4>2. disk[C(i)] \in CaseResults
        BY <4>1, CasesAreSequences, QueueAssumption
      <4>3. disk[J(i)] \in Report
        BY <4>1, <4>2 DEF Report
      <4>4. Written(J(i))
        BY <4>3, MarkersAreNoArtifacts DEF Written
      <4>5. Uninterrupted(disk[J(i)].details)
        BY <1>1, <3>1, <3>2 DEF DoneWhole
      <4> QED BY <4>1, <4>4, <4>5
    <3> QED BY <3>1, <3>2, <3>3 DEF J, C
  <2> QED BY <2>1, <2>3 DEF ManifestHonest, N
<1> QED BY <1>1, QueueInvariant, PTL

\* EvalQueue: a row of a table is a case of the report beside it.
THEOREM TablesFollow == ASSUME StemsDiffer PROVE Spec => []TableFollowsReport
<1>1. QueueInv => TableFollowsReport
  BY DEF QueueInv, Tables, TableFollowsReport, J, C, N
<1> QED BY <1>1, QueueInvariant, PTL

\* EvalQueue: once the manifest on disk says that the queue is over, no file changes.
THEOREM EndedIsFinal == ASSUME StemsDiffer PROVE Spec => EndedManifestIsFinal
<1>1. ASSUME QueueInv, [Next]_vars, Written(Manifest), disk[Manifest].state # "running"
      PROVE  disk' = disk
  <2>1. pending = << >>
    BY <1>1 DEF QueueInv, OnManifest
  <2> QED BY <1>1, <2>1
          DEF Next, Step, vars, FileOpens, FileFills, WriteFails, Start, Cools, Loads, Freshens,
              Selects, Completes, ModelCompletes, ModelFails, TimesOut, CancelTakesHold, Quiet,
              QueueCompletes, Ends, Cancel, TemperatureChanges, Killed, ModelEnds, QueueStops, Goes
<1>2. QueueInv /\ [Next]_vars
         => [Written(Manifest) /\ disk[Manifest].state # "running" => disk' = disk]_vars
  BY <1>1
<1> QED BY <1>2, QueueInvariant, PTL DEF Spec, EndedManifestIsFinal

\* EvalQueue: a case that Cancel interrupted is the last of its report, and no later
\* model of the queue has a report, in whatever state it is left on disk.
THEOREM InterruptionsAreLast == ASSUME StemsDiffer PROVE Spec => []InterruptionEndsResults
<1>1. ASSUME QueueInv, Cut PROVE InterruptionEndsResults
  <2> SUFFICES ASSUME NEW i \in 1 .. N, NEW j \in 1 .. N, Written(J(i)),
                      NEW k \in 1 .. Len(disk[J(i)].details), disk[J(i)].details[k] = "interrupted"
               PROVE  /\ cancelled /\ k = Len(disk[J(i)].details)
                      /\ j > i => disk[J(j)] = Absent
    BY DEF InterruptionEndsResults, J, N
  <2>1. Interrupted(i)
    BY DEF Interrupted, Uninterrupted
  <2> QED BY <1>1, <2>1 DEF Cut, LastAlone
<1> QED BY <1>1, QueueInvariant, PTL

-----------------------------------------------------------------------------
(* Queues in which two models may have the same artifact files.             *)

\* What is written is the manifest, or an artifact of the model under test.
WritesOwn ==
    /\ current \in 1 .. N + 1 /\ DOMAIN disk = Files
    /\ pc = "idle" => current = 1
    /\ pc \in {"load", "case", "fresh", "select", "finish"} => current <= N
    /\ pending # << >> =>
          \/ pending[1].file = Manifest /\ Tail(pending) = << >>
          \/ /\ current <= N /\ pc \in {"case", "finish"}
             /\ \/ pending = Artifacts(Model, details, pc = "finish")
                \/ pending = << Write(Csv(Model), details) >>

Before(m) == \E k \in 1 .. current - 1 : Stem[Queue[k]] = Stem[m]

\* The report of m is of the model under test, and not about to be rewritten.
Just(m) ==
    /\ current <= N /\ Stem[Model] = Stem[m]
    /\ pc \in {"finish", "end", "ended", "killed"}
    /\ pending # << >> => pending[1].file # Json(m)

\* A complete report is one of a model that has been tried, or of the last one.
CompleteOf ==
    \A m \in Named : Written(Json(m)) /\ disk[Json(m)].complete => Before(m) \/ Just(m)

LEMMA NamesApart ==
    /\ Manifest \in Files
    /\ \A m \in Named : /\ Json(m) \in Files /\ Csv(m) \in Files
                        /\ Json(m) # Manifest
                        /\ \A n \in Named : Json(m) # Csv(n)
                        /\ \A n \in Named : Json(m) = Json(n) => Stem[m] = Stem[n]
<1>1. \A s, t : <<"json", s>> # <<"csv", t>> /\ <<"manifest">> # <<"json", s>>
  OBVIOUS
<1>2. \A s, t : <<"json", s>> = <<"json", t>> => s = t
  OBVIOUS
<1> QED BY <1>1, <1>2 DEF Manifest, Files, Json, Csv, Stems

LEMMA UnderTest ==
    ASSUME current \in 1 .. N + 1, current <= N PROVE current \in 1 .. N /\ Model \in Named
<1>1. N \in Nat
  BY QueueLength
<1>2. current \in 1 .. N
  BY <1>1
<1> QED BY <1>2 DEF Model, Named, N

LEMMA OwnOpens ==
    ASSUME WritesOwn, CompleteOf, FileOpens PROVE WritesOwn' /\ CompleteOf'
<1> DEFINE f == pending[1].file
<1>1. /\ disk' = [disk EXCEPT ![f] = Torn]
      /\ UNCHANGED <<pc, current, outcomes, details, pending>>
  BY DEF FileOpens
<1> HIDE DEF f
<1>2. WritesOwn'
  <2>1. DOMAIN disk' = Files
    BY <1>1 DEF WritesOwn
  <2>2. Artifacts(Model, details, pc = "finish")' = Artifacts(Model, details, pc = "finish")
        /\ (<< Write(Csv(Model), details) >>)' = << Write(Csv(Model), details) >>
    BY <1>1 DEF Artifacts, Write, Model, Csv, Json
  <2> QED BY <2>1, <2>2, <1>1 DEF WritesOwn
<1>3. ASSUME NEW m \in Named, Written(Json(m))', disk'[Json(m)].complete
      PROVE  Before(m)' \/ Just(m)'
  <2>1. Json(m) \in DOMAIN disk /\ Json(m)' = Json(m)
    BY NamesApart DEF WritesOwn, Json
  <2>2. Json(m) # f /\ disk'[Json(m)] = disk[Json(m)] /\ Written(Json(m))
    BY <1>1, <1>3, <2>1 DEF Written
  <2>3. Before(m) \/ Just(m)
    BY <1>3, <2>2 DEF CompleteOf
  <2> QED BY <2>1, <2>3, <1>1 DEF Before, Just, Model
<1> QED BY <1>2, <1>3 DEF CompleteOf, Json

LEMMA OwnFills ==
    ASSUME WritesOwn, CompleteOf, FileFills PROVE WritesOwn' /\ CompleteOf'
<1> DEFINE f == pending[1].file
           v == pending[1].content
<1>1. /\ disk' = [disk EXCEPT ![f] = v] /\ pending # << >> /\ pending' = Tail(pending)
      /\ UNCHANGED <<pc, current, outcomes, details>>
  BY DEF FileFills, Quiet
<1>2. \/ f = Manifest /\ pending' = << >>
      \/ /\ current <= N /\ pc \in {"case", "finish"}
         /\ \/ /\ f = Json(Model) /\ v.complete = (pc = "finish")
               /\ pending' = << Write(Csv(Model), details) >>
            \/ f = Csv(Model) /\ pending' = << >>
  <2>1. CASE f = Manifest /\ Tail(pending) = << >>
    BY <1>1, <2>1
  <2>2. CASE pending = Artifacts(Model, details, pc = "finish")
    <3>1. f = Json(Model) /\ v.complete = (pc = "finish")
      BY <2>2 DEF Artifacts, Write
    <3>2. pending' = << Write(Csv(Model), details) >>
      BY <1>1, <2>2 DEF Artifacts
    <3>3. Json(Model) # Manifest
      BY DEF Json, Manifest
    <3> QED BY <3>1, <3>2, <3>3, <1>1 DEF WritesOwn
  <2>3. CASE pending = << Write(Csv(Model), details) >>
    <3>1. f = Csv(Model) /\ pending' = << >> /\ Csv(Model) # Manifest
      BY <1>1, <2>3 DEF Write, Csv, Manifest
    <3> QED BY <3>1, <1>1 DEF WritesOwn
  <2> QED BY <1>1, <2>1, <2>2, <2>3 DEF WritesOwn
<1> HIDE DEF f, v
<1>3. WritesOwn'
  <2>1. DOMAIN disk' = Files /\ current' \in 1 .. N + 1
    BY <1>1 DEF WritesOwn
  <2>2. pending' # << >> => /\ current <= N /\ pc \in {"case", "finish"}
                            /\ pending' = << Write(Csv(Model), details) >>
    BY <1>2
  <2> QED BY <2>1, <2>2, <1>1 DEF WritesOwn, Write, Model, Csv
<1>4. pending' # << >> => current <= N /\ pending'[1].file = Csv(Model)
  BY <1>2 DEF Write
<1>5. ASSUME NEW m \in Named, Written(Json(m))', disk'[Json(m)].complete
      PROVE  Before(m)' \/ Just(m)'
  <2>1. Json(m) \in DOMAIN disk /\ Json(m)' = Json(m) /\ Json(m) # Manifest
    BY NamesApart DEF WritesOwn, Json
  <2>2. pending' # << >> => pending'[1].file # Json(m)
    BY <1>4, NamesApart, UnderTest DEF WritesOwn
  <2>3. CASE Json(m) = f
    <3>1. current <= N /\ Json(m) = Json(Model) /\ v.complete = (pc = "finish")
      BY <1>2, <2>1, <2>3, NamesApart, UnderTest DEF WritesOwn
    <3>2. Stem[Model] = Stem[m]
      BY <3>1, NamesApart, UnderTest DEF WritesOwn
    <3>3. disk'[Json(m)] = v
      BY <1>1, <2>1, <2>3
    <3>4. pc = "finish"
      BY <3>1, <3>3, <1>5
    <3> QED BY <3>1, <3>2, <3>4, <2>1, <2>2, <1>1 DEF Just, Model
  <2>4. CASE Json(m) # f
    <3>1. disk'[Json(m)] = disk[Json(m)] /\ Written(Json(m))
      BY <1>1, <1>5, <2>1, <2>4 DEF Written
    <3>2. Before(m) \/ Just(m)
      BY <1>5, <3>1 DEF CompleteOf
    <3> QED BY <3>2, <2>1, <2>2, <1>1 DEF Before, Just, Model
  <2> QED BY <2>3, <2>4
<1> QED BY <1>3, <1>5 DEF CompleteOf, Json

LEMMA OthersKeep ==
    ASSUME WritesOwn, CompleteOf, [Next]_vars, ~ (FileOpens \/ FileFills)
    PROVE  disk' = disk /\ WritesOwn' /\ CompleteOf'
<1>1. disk' = disk
  BY DEF Next, Step, vars, WriteFails, Start, Cools, Loads, Freshens, Selects, Completes,
         ModelCompletes, ModelFails, TimesOut, CancelTakesHold, QueueCompletes, Ends, Cancel,
         TemperatureChanges, Killed, ModelEnds, QueueStops, Goes
<1>2. /\ \A m : Json(m)' = Json(m) /\ (Written(Json(m))' <=> Written(Json(m)))
      /\ DOMAIN disk' = Files
  BY <1>1 DEF WritesOwn, Written, Json
<1>3. N \in Nat /\ N > 0 /\ current \in 1 .. N + 1
  BY QueueLength DEF WritesOwn
<1>4. ASSUME current' = current, \A m \in Named : Just(m) => Just(m)' PROVE CompleteOf'
  BY <1>1, <1>2, <1>4 DEF CompleteOf, Before
<1>5. CASE \E s \in {"completed", "failed"} : ModelEnds(s) /\ current <= N
  <2>1. /\ current' = current + 1 /\ current \in 1 .. N
        /\ pending' = QueueManifest("running", outcomes') /\ pc' = "cool"
    BY <1>3, <1>5 DEF ModelEnds
  <2>2. WritesOwn'
    BY <2>1, <1>2, <1>3 DEF WritesOwn, QueueManifest, Write
  <2>3. ASSUME NEW m \in Named, Before(m) \/ Just(m) PROVE Before(m)'
    BY <2>1, <2>3, <1>3 DEF Before, Just, Model
  <2> QED BY <2>2, <2>3, <1>1, <1>2 DEF CompleteOf
<1>6. CASE Cancel \/ TemperatureChanges \/ UNCHANGED vars
  <2>1. UNCHANGED <<pc, current, details, pending>>
    BY <1>6 DEF Cancel, TemperatureChanges, vars
  <2>4. Artifacts(Model, details, pc = "finish")' = Artifacts(Model, details, pc = "finish")
        /\ (<< Write(Csv(Model), details) >>)' = << Write(Csv(Model), details) >>
    BY <2>1 DEF Artifacts, Write, Model, Csv, Json
  <2>2. WritesOwn'
    BY <2>1, <2>4, <1>2 DEF WritesOwn
  <2>3. \A m \in Named : Just(m) => Just(m)'
    BY <2>1, <1>2 DEF Just, Model
  <2> QED BY <1>1, <1>4, <2>1, <2>2, <2>3
<1>7. CASE \/ pc' = "killed" /\ pending' = << >> /\ current' = current
           \/ Ends \/ Cools \/ Freshens
  <2>1. /\ current' = current /\ pending' = << >> /\ pc' # "idle"
        /\ pc' \in {"load", "fresh", "select"} => current <= N
        /\ pc' \in {"load", "fresh", "select", "ended", "killed"}
        /\ pc' \in {"ended", "killed"} \/ pc \in {"cool", "case", "fresh"}
    BY <1>3, <1>7 DEF Ends, Cools, Freshens, Goes, Quiet, Tried, WritesOwn, N
  <2>2. WritesOwn'
    BY <2>1, <1>2, <1>3 DEF WritesOwn
  <2>3. \A m \in Named : Just(m) => Just(m)'
    BY <2>1, <1>2 DEF Just, Model
  <2> QED BY <1>1, <1>4, <2>1, <2>2, <2>3
<1>8. CASE Start \/ TimesOut \/ CancelTakesHold \/ QueueCompletes
  <2>1. /\ current' = current /\ \E s, os : pending' = QueueManifest(s, os)
        /\ pc' = "end" \/ (pc' = "cool" /\ pc = "idle")
    BY <1>8 DEF Start, TimesOut, CancelTakesHold, QueueCompletes, QueueStops,
                QueueManifest
  <2>2. pending'[1].file = Manifest /\ Tail(pending') = << >>
    BY <2>1 DEF QueueManifest, Write
  <2>3. WritesOwn'
    BY <2>1, <2>2, <1>2, <1>3 DEF WritesOwn, Manifest
  <2>4. \A m \in Named : Just(m) => Just(m)'
    BY <2>1, <2>2, <1>2, NamesApart DEF Just, Model
  <2> QED BY <1>1, <1>4, <2>1, <2>3, <2>4
<1>9. CASE Loads \/ Selects \/ Completes
  <2>1. /\ current' = current /\ current <= N
        /\ pc \in {"load", "select", "case"} /\ pc' \in {"case", "finish"}
    BY <1>9 DEF Loads, Selects, Completes, Goes, WritesOwn
  <2>2. pending' = Artifacts(Model, details', pc' = "finish")
    <3>1. CASE Loads
      BY <3>1 DEF Loads, Goes
    <3>2. CASE Selects
      BY <3>2 DEF Selects
    <3>3. CASE Completes
      BY <3>3 DEF Completes
    <3> QED BY <1>9, <3>1, <3>2, <3>3
  <2>3. WritesOwn'
    BY <2>1, <2>2, <1>2, <1>3 DEF WritesOwn, Artifacts, Write, Model, Csv, Json
  <2>4. \A m \in Named : Just(m) => Just(m)'
    BY <2>1 DEF Just
  <2> QED BY <1>1, <1>4, <2>1, <2>3, <2>4
<1>10. CASE WriteFails
  <2>1. CASE pending[1].file = Manifest
    BY <1>7, <1>10, <2>1 DEF WriteFails
  <2>2. CASE pending[1].file # Manifest
    BY <1>5, <1>10, <2>2 DEF WriteFails, WritesOwn, Quiet
  <2> QED BY <2>1, <2>2
<1>11. CASE ModelCompletes \/ ModelFails
  BY <1>5, <1>11 DEF ModelCompletes, ModelFails, WritesOwn
<1>12. CASE Killed
  BY <1>7, <1>12 DEF Killed
<1> QED BY <1>1, <1>6, <1>7, <1>8, <1>9, <1>10, <1>11, <1>12 DEF Next, Step

LEMMA OwnRuns == Spec => [](WritesOwn /\ CompleteOf)
<1>1. ASSUME Init PROVE WritesOwn /\ CompleteOf
  <2>1. N \in Nat /\ N > 0 /\ pc = "idle" /\ current = 1 /\ pending = << >>
        /\ disk = [f \in Files |-> Absent]
    BY <1>1, QueueLength DEF Init
  <2>2. \A m \in Named : ~Written(Json(m))
    BY <2>1, NamesApart DEF Written
  <2> QED BY <2>1, <2>2 DEF WritesOwn, CompleteOf
<1>2. WritesOwn /\ CompleteOf /\ [Next]_vars => (WritesOwn /\ CompleteOf)'
  BY OwnOpens, OwnFills, OthersKeep
<1> QED BY <1>1, <1>2, PTL DEF Spec

\* EvalQueue: for any queue, namesakes included, a complete report is truncated or
\* rewritten only by a later model of the same file stem.  A queue whose stems differ
\* keeps every complete report to its end, through failures, Cancel and death.
THEOREM CompleteStays == Spec => OnlyNamesakesOverwrite
<1>1. ASSUME WritesOwn, CompleteOf, [Next]_vars, NEW m \in Named,
             Written(Json(m)), disk[Json(m)].complete, disk'[Json(m)] # disk[Json(m)]
      PROVE  ~Tried /\ Stem[Model] = Stem[m] /\ Before(m)
  <2> DEFINE f == pending[1].file
  <2>1. FileOpens \/ FileFills
    BY <1>1, OthersKeep
  <2>2. /\ pending # << >>
        /\ \E v : disk' = [disk EXCEPT ![f] = v]
    BY <2>1 DEF FileOpens, FileFills, Quiet
  <2>3. pending # << >> => \/ f = Manifest
                           \/ current <= N /\ (f = Json(Model) \/ f = Csv(Model))
    BY <1>1 DEF WritesOwn, Artifacts, Write
  <2> HIDE DEF f
  <2>4. f = Json(m)
    BY <2>2, <1>1
  <2>5. current <= N /\ Stem[Model] = Stem[m]
    BY <2>2, <2>3, <2>4, <1>1, NamesApart, UnderTest DEF WritesOwn
  <2>6. ~Just(m)
    BY <2>2, <2>4 DEF Just, f
  <2>7. ~Tried
    BY <2>5, <1>1, QueueLength DEF Tried, WritesOwn, N
  <2> QED BY <2>5, <2>6, <2>7, <1>1 DEF CompleteOf
<1>2. WritesOwn /\ CompleteOf /\ [Next]_vars
         => [\A m \in Named :
               Written(Json(m)) /\ disk[Json(m)].complete /\ disk'[Json(m)] # disk[Json(m)]
                  => /\ ~Tried /\ Stem[Model] = Stem[m]
                     /\ \E k \in 1 .. current - 1 : Stem[Queue[k]] = Stem[m]]_vars
  BY <1>1 DEF Before
<1> QED BY <1>2, OwnRuns, PTL DEF Spec, OnlyNamesakesOverwrite

-----------------------------------------------------------------------------
(* How far the disagreements with the documentation reach.                  *)

\* A manifest that says "cancelled", on disk or on its way there.
Blamed ==
    /\ OnlyUserCancels
    /\ pending = QueueManifest("cancelled", outcomes) => cancelled

\* A manifest under way that says "cancelled" is that of a queue that stops.
LEMMA WritingManifest ==
    ASSUME StemsDiffer, QueueInv, pending # << >>, pending[1].file = Manifest,
           pending[1].content.state = "cancelled"
    PROVE  pending = QueueManifest("cancelled", outcomes)
<1>1. J(current) # Manifest /\ C(current) # Manifest
  BY DEF J, C, Json, Csv, Manifest
<1>2. ASSUME NEW c \in BOOLEAN PROVE ~WritesBoth(c) /\ ~WritesTable(c)
  BY <1>1 DEF WritesBoth, WritesTable, Artifacts, Write, J, Model
<1>3. \A s : pending = QueueManifest(s, outcomes) => s = "cancelled"
  BY DEF QueueManifest, Write
<1> QED BY <1>2, <1>3 DEF QueueInv, Writing

\* What the other steps hand to the files.
LEMMA WritesBegin ==
    ASSUME [Next]_vars, ~ (FileOpens \/ FileFills)
    PROVE  /\ disk' = disk
           /\ \/ pending' = pending /\ outcomes' = outcomes
              \/ pending' = << >>
              \/ \E os : pending' = QueueManifest("running", os)
              \/ \E os : pending' = QueueManifest("completed", os)
              \/ TimesOut \/ cancelled
              \/ \E m, d, c : pending' = Artifacts(m, d, c)
  BY DEF Next, Step, vars, WriteFails, Start, Cools, Loads, Freshens, Selects, Completes,
         ModelCompletes, ModelFails, CancelTakesHold, QueueCompletes, Ends, Cancel,
         TemperatureChanges, Killed, ModelEnds, QueueStops, TimesOut, Goes

LEMMA BlamedKeeps ==
    ASSUME StemsDiffer, QueueInv, Blamed, [Next]_vars, TimesOut => cancelled PROVE Blamed'
<1>1. cancelled => cancelled'
  BY NothingBegins
<1>2. CASE ~ (FileOpens \/ FileFills)
  <2>1. OnlyUserCancels'
    BY <1>1, <1>2, WritesBegin DEF Blamed, OnlyUserCancels, Written, Manifest
  <2>2. ASSUME pending' = QueueManifest("cancelled", outcomes'), ~cancelled PROVE FALSE
    <3>1. pending' # pending \/ outcomes' # outcomes
      BY <2>2 DEF Blamed
    <3>2. \A os : /\ QueueManifest("cancelled", outcomes') # QueueManifest("running", os)
                  /\ QueueManifest("cancelled", outcomes') # QueueManifest("completed", os)
                  /\ QueueManifest("cancelled", outcomes') # << >>
      BY DEF QueueManifest, Write
    <3>3. \A m, d, c : Artifacts(m, d, c) # QueueManifest("cancelled", outcomes')
      BY DEF Artifacts, QueueManifest, Write
    <3> QED BY <1>2, <2>2, <3>1, <3>2, <3>3, WritesBegin
  <2> QED BY <1>1, <2>1, <2>2 DEF Blamed
<1>3. CASE FileOpens \/ FileFills
  <2> DEFINE f == pending[1].file
             v == pending[1].content
  <2>1. /\ pending # << >> /\ UNCHANGED <<outcomes, cancelled>>
        /\ \/ disk' = [disk EXCEPT ![f] = Torn] /\ pending' = pending
           \/ disk' = [disk EXCEPT ![f] = v] /\ pending' = Tail(pending)
    BY <1>3 DEF FileOpens, FileFills, Quiet
  <2>2. Manifest \in Files /\ f \in Files /\ DOMAIN disk = Files
    BY <2>1, PendingFile, FilesApart DEF QueueInv, DiskTypes
  <2> HIDE DEF f, v
  <2>3. CASE f # Manifest
    <3>1. disk'[Manifest] = disk[Manifest]
      BY <2>1, <2>2, <2>3
    <3>2. Tail(pending) # QueueManifest("cancelled", outcomes)
      <4>1. Tail(pending) = << >> \/ Tail(pending) = << Write(C(current), details) >>
        BY <2>1, PendingFile DEF f, v
      <4>2. C(current) # Manifest
        BY DEF C, Csv, Manifest
      <4> QED BY <4>1, <4>2 DEF QueueManifest, Write
    <3> QED BY <2>1, <3>1, <3>2 DEF Blamed, OnlyUserCancels, Written, Manifest
  <2>4. CASE f = Manifest
    <3>1. Tail(pending) = << >>
      BY <2>1, <2>4, PendingFile, FilesApart DEF f, v
    <3>2. disk'[Manifest] = Torn \/ disk'[Manifest] = v
      BY <2>1, <2>2, <2>4
    <3>3. (v.state = "cancelled" => cancelled)
      BY <2>1, <2>4, WritingManifest DEF Blamed, f, v
    <3>4. OnlyUserCancels'
      BY <2>1, <3>2, <3>3 DEF OnlyUserCancels, Written, Manifest
    <3>5. QueueManifest("cancelled", outcomes') # << >>
      BY DEF QueueManifest
    <3>6. pending' = pending \/ pending' = << >>
      BY <2>1, <3>1
    <3>7. pending' = QueueManifest("cancelled", outcomes') => cancelled'
      BY <2>1, <3>5, <3>6 DEF Blamed
    <3> QED BY <3>4, <3>7 DEF Blamed
  <2> QED BY <2>3, <2>4
<1> QED BY <1>2, <1>3

\* EvalQueue: a queue whose timeouts expire only once Cancel was pressed is reported as
\* cancelled only when the user cancelled it: nothing but withTimeout makes the finding.
THEOREM OnlyTimeoutsCancel ==
    ASSUME StemsDiffer PROVE Spec /\ [][TimesOut => cancelled]_vars => []OnlyUserCancels
<1>1. ASSUME StemsDiffer, Init PROVE Blamed
  BY <1>1, FilesApart DEF Init, Blamed, OnlyUserCancels, Written, QueueManifest
<1>2. QueueInv /\ Blamed /\ [Next]_vars /\ [TimesOut => cancelled]_vars => Blamed'
  <2>1. ASSUME Blamed, UNCHANGED vars PROVE Blamed'
    BY <2>1 DEF vars, Blamed, OnlyUserCancels, Written, Manifest
  <2> QED BY <2>1, BlamedKeeps
<1>3. Blamed => OnlyUserCancels
  BY DEF Blamed
<1> QED BY <1>1, <1>2, <1>3, QueueInvariant, PTL DEF Spec

\* Cancel is not pressed while the last case of a model is answered.
CancelsEarlier == [][Cancel => ~(pc = "select" /\ Len(details) = NCases - 1)]_vars

\* The last case of a report begins and ends without a Cancel.
Spared ==
    /\ pc = "select" /\ Len(details) = NCases - 1 => ~cancelled
    /\ Len(details) = NCases => Uninterrupted(details)
    /\ \A j \in 1 .. N : Written(J(j)) /\ disk[J(j)].complete => Uninterrupted(disk[J(j)].details)

LEMMA SelectsOnce == ASSUME [Next]_vars, pc' = "select" PROVE details' = details
  BY DEF Next, Step, vars, FileOpens, FileFills, WriteFails, Start, Cools, Loads, Freshens, Selects,
         Completes, ModelCompletes, ModelFails, TimesOut, CancelTakesHold, QueueCompletes, Ends,
         Cancel, TemperatureChanges, Killed, ModelEnds, QueueStops, Goes

LEMMA PressesCancel ==
    ASSUME [Next]_vars, ~cancelled, cancelled'
    PROVE  Cancel /\ UNCHANGED <<pc, details>>
  BY DEF Next, Step, vars, FileOpens, FileFills, WriteFails, Start, Cools, Loads, Freshens, Selects,
         Completes, ModelCompletes, ModelFails, TimesOut, CancelTakesHold, QueueCompletes, Ends,
         Cancel, TemperatureChanges, Killed, ModelEnds, QueueStops, Goes

LEMMA SparedKeeps ==
    ASSUME StemsDiffer, QueueInv, Cut, Spared, [Next]_vars,
           Cancel => ~(pc = "select" /\ Len(details) = NCases - 1)
    PROVE  Spared'
<1>1. details \in Seq(Results) /\ NCases \in Nat \ {0}
  BY QueueAssumption DEF QueueInv, Place
<1>2. (pc = "select" /\ Len(details) = NCases - 1 => ~cancelled)'
  <2> SUFFICES ASSUME pc' = "select", Len(details') = NCases - 1, cancelled' PROVE FALSE
    OBVIOUS
  <2>1. details' = details
    BY SelectsOnce
  <2>2. CASE cancelled
    BY <2>1, <2>2, NothingBegins DEF Spared
  <2>3. CASE ~cancelled
    BY <2>1, <2>3, PressesCancel
  <2> QED BY <2>2, <2>3
<1>3. (Len(details) = NCases => Uninterrupted(details))'
  <2>1. CASE details' = details
    BY <2>1 DEF Spared, Uninterrupted
  <2>2. CASE details' = << >>
    BY <2>2, NoCases DEF Uninterrupted
  <2>3. CASE details' # details /\ details' # << >>
    <3>1. Uninterrupted(details) /\ pc = "select"
      BY <2>3, CasesChange DEF Cut
    <3>2. PICK r \in Results : (r = "interrupted" => cancelled) /\ details' = Append(details, r)
      BY <2>3, CasesChange
    <3>3. Len(details') = Len(details) + 1 /\ (r # "interrupted" => Uninterrupted(Append(details, r)))
      BY <1>1, <3>1, <3>2, OneCaseMore
    <3>4. Len(details') = NCases => r # "interrupted"
      BY <1>1, <3>1, <3>2, <3>3, LenProperties DEF Spared
    <3> QED BY <3>2, <3>3, <3>4 DEF Uninterrupted
  <2> QED BY <2>1, <2>2, <2>3
<1>4. ASSUME NEW j \in 1 .. N, (Written(J(j)) /\ disk[J(j)].complete)'
      PROVE  Uninterrupted(disk[J(j)].details)'
  <2>1. J(j)' = J(j)
    BY DEF J, Json
  <2>2. CASE disk'[J(j)] = disk[J(j)]
    BY <1>4, <2>1, <2>2 DEF Spared, Written, Uninterrupted
  <2>3. CASE disk'[J(j)] # disk[J(j)]
    <3>1. disk'[J(j)] # Torn
      BY <1>4, <2>1 DEF Written
    <3>2. PICK c \in BOOLEAN : /\ c <=> pc = "finish"
                              /\ disk'[J(j)] = [complete |-> c, details |-> details]
      BY <2>3, <3>1, ReportsChange
    <3>3. pc = "finish" /\ disk'[J(j)].details = details
      BY <1>4, <2>1, <3>2
    <3>4. Uninterrupted(details)
      BY <3>3 DEF QueueInv, Place, Spared
    <3> QED BY <2>1, <3>3, <3>4 DEF Uninterrupted
  <2> QED BY <2>2, <2>3
<1>5. \A j \in 1 .. N : J(j)' = J(j)
  BY DEF J, Json
<1> QED BY <1>2, <1>3, <1>4, <1>5 DEF Spared

\* EvalQueue: only a Cancel that falls in the last case of a model makes a report that
\* says it is complete although a case was interrupted.
THEOREM OnlyTheLastCaseMisleads ==
    ASSUME StemsDiffer PROVE Spec /\ CancelsEarlier => []NoMisleadingReport
<1>1. ASSUME Init PROVE Spared
  <2>1. \A j \in 1 .. N : ~Written(J(j))
    BY <1>1, FilesApart DEF Init, Written
  <2> QED BY <1>1, <2>1, NoCases DEF Init, Spared
<1>2. ASSUME QueueInv, Cut, Spared, [Next]_vars,
             [Cancel => ~(pc = "select" /\ Len(details) = NCases - 1)]_vars
      PROVE  Spared'
  <2>1. CASE UNCHANGED vars
    BY <1>2, <2>1 DEF vars, Spared, Written, Uninterrupted, J, Json
  <2> QED BY <1>2, <2>1, SparedKeeps
<1>3. Spared => NoMisleadingReport
  BY NamedIndex DEF Spared, NoMisleadingReport
<1>4. QueueInv /\ Cut /\ Spared /\ [Next]_vars
        /\ [Cancel => ~(pc = "select" /\ Len(details) = NCases - 1)]_vars => Spared'
  BY <1>2
<1> QED BY <1>1, <1>3, <1>4, QueueInvariant, PTL DEF Spec, CancelsEarlier
=============================================================================
