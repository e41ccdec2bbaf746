------------------------- MODULE ExpertCacheProofs -------------------------
(***************************************************************************)
(* Theorems about ExpertCache, for every set of slices, files, budgets and *)
(* callers and every number of calls.                                      *)
(*                                                                         *)
(* ThreadInv relates the places where the prefetch thread, the controller  *)
(* and the owner of the mutex are; CacheInv, which is inductive relative   *)
(* to it, relates the list, the map, the running count and the statistics. *)
(***************************************************************************)
EXTENDS ExpertCache, FiniteSetTheorems, SequenceTheorems, TLAPS

-----------------------------------------------------------------------------
(* Lemmas about the operators of SliceBytes.                                *)

\* What a hit does to the list: the same elements, as often, in another order.
LEMMA ToFrontProperties ==
    ASSUME NEW S, NEW q \in Seq(S), NEW i \in DOMAIN q
    PROVE  /\ ToFront(q, i) \in Seq(S)
           /\ Len(ToFront(q, i)) = Len(q)
           /\ Members(ToFront(q, i)) = Members(q)
           /\ NoDuplicates(q) => NoDuplicates(ToFront(q, i))
<1> DEFINE r == ToFront(q, i)
           n == Len(q)
<1>1. n \in Nat /\ DOMAIN q = 1 .. n /\ \A j \in 1 .. n : q[j] \in S
  BY LenProperties, ElementOfSeq
<1>2. r = [j \in 1 .. n |-> IF j = 1 THEN q[i]
                            ELSE IF j <= i THEN q[j - 1] ELSE q[j]]
  BY DEF ToFront
<1>3. r \in [1 .. n -> S]
  BY <1>1, <1>2
<1>4. r \in Seq(S) /\ Len(r) = n /\ DOMAIN r = 1 .. n
  BY <1>1, <1>3
<1>5. \A j \in 1 .. n : r[j] \in Members(q)
  BY <1>1, <1>2 DEF Members
<1>6. ASSUME NEW j \in 1 .. n PROVE q[j] \in Members(r)
  <2>1. CASE j = i
    BY <1>1, <1>2, <1>4, <2>1, r[1] = q[i] DEF Members
  <2>2. CASE j < i
    BY <1>1, <1>2, <1>4, <2>2, j + 1 \in 1 .. n, r[j + 1] = q[j] DEF Members
  <2>3. CASE j > i
    BY <1>1, <1>2, <1>4, <2>3, r[j] = q[j] DEF Members
  <2> QED BY <1>1, <2>1, <2>2, <2>3
<1>7. Members(r) = Members(q)
  BY <1>1, <1>4, <1>5, <1>6 DEF Members
<1>8. NoDuplicates(q) => NoDuplicates(r)
  BY <1>1, <1>2, <1>4 DEF NoDuplicates
<1> QED BY <1>4, <1>7, <1>8

\* What evicting the coldest item does to the list.
LEMMA DropLastProperties ==
    ASSUME NEW S, NEW q \in Seq(S), q # << >>
    PROVE  /\ Len(q) \in Nat \ {0}
           /\ q[Len(q)] \in S
           /\ DropLast(q) \in Seq(S)
           /\ Len(DropLast(q)) = Len(q) - 1
           /\ NoDuplicates(q) =>
                /\ NoDuplicates(DropLast(q))
                /\ Members(DropLast(q)) = Members(q) \ {q[Len(q)]}
<1> DEFINE n == Len(q)
           r == DropLast(q)
<1>1. n \in Nat \ {0} /\ DOMAIN q = 1 .. n /\ \A j \in 1 .. n : q[j] \in S
  BY LenProperties, ElementOfSeq, EmptySeq
<1>2. /\ r \in Seq(S) /\ Len(r) = n - 1
      /\ \A j \in 1 .. n - 1 : r[j] = q[j]
  BY <1>1, SubSeqProperties DEF DropLast
<1>3. DOMAIN r = 1 .. n - 1
  BY <1>1, <1>2, LenProperties
<1>4. ASSUME NoDuplicates(q)
      PROVE  NoDuplicates(r) /\ Members(r) = Members(q) \ {q[n]}
  <2>1. NoDuplicates(r)
    BY <1>1, <1>2, <1>3, <1>4 DEF NoDuplicates
  <2>2. \A j \in 1 .. n - 1 : q[j] # q[n]
    BY <1>1, <1>4 DEF NoDuplicates
  <2>3. Members(q) = {q[j] : j \in 1 .. n} /\ Members(r) = {r[j] : j \in 1 .. n - 1}
    BY <1>1, <1>3 DEF Members
  <2>4. 1 .. n = (1 .. n - 1) \cup {n} /\ n \notin 1 .. n - 1
    BY <1>1
  <2> QED BY <1>2, <2>1, <2>2, <2>3, <2>4
<1> QED BY <1>1, <1>2, <1>4

\* What keeping a new item does to the list.
LEMMA PushFrontProperties ==
    ASSUME NEW S, NEW q \in Seq(S), NEW s \in S
    PROVE  /\ <<s>> \o q \in Seq(S)
           /\ Len(<<s>> \o q) = Len(q) + 1
           /\ Members(<<s>> \o q) = Members(q) \cup {s}
           /\ NoDuplicates(q) /\ s \notin Members(q) => NoDuplicates(<<s>> \o q)
<1> DEFINE n == Len(q)
           r == <<s>> \o q
<1>1. n \in Nat /\ DOMAIN q = 1 .. n /\ \A j \in 1 .. n : q[j] \in S
  BY LenProperties, ElementOfSeq
<1>2. /\ r \in Seq(S) /\ Len(r) = n + 1 /\ r[1] = s
      /\ \A j \in 1 .. n : r[j + 1] = q[j]
  <2>1. <<s>> \in Seq(S) /\ Len(<<s>>) = 1 /\ <<s>>[1] = s
    OBVIOUS
  <2>2. /\ r \in Seq(S) /\ Len(r) = 1 + n
        /\ \A j \in 1 .. 1 + n : r[j] = IF j <= 1 THEN <<s>>[j] ELSE q[j - 1]
    BY <2>1, ConcatProperties
  <2> QED BY <1>1, <2>1, <2>2
<1>3. DOMAIN r = 1 .. n + 1
  BY <1>1, <1>2, LenProperties
<1>4. \A k \in 1 .. n + 1 : k = 1 \/ \E j \in 1 .. n : k = j + 1
  <2> TAKE k \in 1 .. n + 1
  <2>1. CASE k = 1 BY <2>1
  <2>2. CASE k # 1
    BY <1>1, <2>2, k - 1 \in 1 .. n, k = (k - 1) + 1
  <2> QED BY <2>1, <2>2
<1>5. Members(r) = Members(q) \cup {s}
  <2>1. Members(r) \subseteq Members(q) \cup {s}
    BY <1>1, <1>2, <1>3, <1>4 DEF Members
  <2>2. \A j \in 1 .. n : j + 1 \in 1 .. n + 1
    BY <1>1
  <2>3. 1 \in 1 .. n + 1
    BY <1>1
  <2>4. \A j \in 1 .. n : q[j] \in Members(r)
    BY <1>2, <1>3, <2>2 DEF Members
  <2>5. s \in Members(r)
    BY <1>2, <1>3, <2>3 DEF Members
  <2>6. \A x \in Members(q) : \E j \in 1 .. n : x = q[j]
    BY <1>1 DEF Members
  <2> QED BY <2>1, <2>4, <2>5, <2>6
<1>6. NoDuplicates(q) /\ s \notin Members(q) => NoDuplicates(r)
  BY <1>1, <1>2, <1>3, <1>4 DEF NoDuplicates, Members
<1> QED BY <1>2, <1>5, <1>6

\* A slice occupies as many bytes as it is long, and shares none of them.
LEMMA OneSliceBytes ==
    ASSUME NEW s \in Slices, NEW S
    PROVE  /\ IsFiniteSet({s} \X (1 .. Length[s]))
           /\ Cardinality({s} \X (1 .. Length[s])) = Length[s]
           /\ s \notin S => BytesOf(S) \cap ({s} \X (1 .. Length[s])) = {}
<1>1. Length[s] \in Nat
  BY SliceAssumption
<1>2. IsFiniteSet({s}) /\ Cardinality({s}) = 1
  BY FS_Singleton
<1>3. IsFiniteSet(1 .. Length[s]) /\ Cardinality(1 .. Length[s]) = Length[s]
  BY <1>1, FS_Interval
<1>4. /\ IsFiniteSet({s} \X (1 .. Length[s]))
      /\ Cardinality({s} \X (1 .. Length[s])) = 1 * Length[s]
  BY <1>2, <1>3, FS_Product
<1>5. s \notin S => BytesOf(S) \cap ({s} \X (1 .. Length[s])) = {}
  BY DEF BytesOf
<1> QED BY <1>1, <1>4, <1>5

\* Adding a slice to a set that does not have it adds its length.
LEMMA BytesOfOneMore ==
    ASSUME NEW S, NEW s \in Slices, s \notin S, IsFiniteSet(BytesOf(S))
    PROVE  /\ IsFiniteSet(BytesOf(S \cup {s}))
           /\ Bytes(S \cup {s}) = Bytes(S) + Length[s]
<1> DEFINE T == {s} \X (1 .. Length[s])
<1>1. BytesOf(S \cup {s}) = BytesOf(S) \cup T
  BY DEF BytesOf
<1>2. IsFiniteSet(T) /\ Cardinality(T) = Length[s] /\ BytesOf(S) \cap T = {}
  BY OneSliceBytes
<1>3. /\ IsFiniteSet(BytesOf(S) \cup T)
      /\ Cardinality(BytesOf(S) \cup T) =
            Cardinality(BytesOf(S)) + Cardinality(T) - Cardinality({})
  BY <1>2, FS_Union
<1>4. Cardinality(BytesOf(S)) \in Nat /\ Cardinality({}) = 0 /\ Length[s] \in Nat
  BY FS_CardinalityType, FS_EmptySet, SliceAssumption
<1>5. /\ Bytes(S \cup {s}) = Cardinality(BytesOf(S) \cup T)
      /\ Bytes(S) = Cardinality(BytesOf(S))
  BY <1>1 DEF Bytes
<1>6. IsFiniteSet(BytesOf(S \cup {s}))
  BY <1>1, <1>3
<1> HIDE DEF T
<1> QED BY <1>2, <1>3, <1>4, <1>5, <1>6

\* Removing a slice from a set that has it subtracts its length.
LEMMA BytesOfOneLess ==
    ASSUME NEW S, NEW s \in Slices, s \in S, IsFiniteSet(BytesOf(S))
    PROVE  /\ IsFiniteSet(BytesOf(S \ {s}))
           /\ Bytes(S \ {s}) = Bytes(S) - Length[s]
           /\ Bytes(S \ {s}) \in Nat
<1>1. BytesOf(S \ {s}) \subseteq BytesOf(S)
  BY DEF BytesOf
<1>2. IsFiniteSet(BytesOf(S \ {s}))
  BY <1>1, FS_Subset
<1>3. (S \ {s}) \cup {s} = S
  OBVIOUS
<1>4. Bytes(S) = Bytes(S \ {s}) + Length[s]
  BY <1>2, <1>3, BytesOfOneMore
<1>5. Bytes(S \ {s}) \in Nat /\ Length[s] \in Nat
  BY <1>2, FS_CardinalityType, SliceAssumption DEF Bytes
<1> QED BY <1>2, <1>4, <1>5

\* The empty list holds no bytes.
LEMMA NoBytes ==
    /\ Members(<< >>) = {} /\ NoDuplicates(<< >>)
    /\ IsFiniteSet(BytesOf({})) /\ Bytes({}) = 0
BY FS_EmptySet DEF Members, NoDuplicates, BytesOf, Bytes

-----------------------------------------------------------------------------
(* Where the threads are.  resident \in Nat needs the accounting of CacheInv, *)
(* so this part types it as an integer.                                       *)

TypeBase ==
    /\ fd \in Files \cup {NoFile}
    /\ budget \in Nat /\ resident \in Int
    /\ lru \in Seq(Slices)
    /\ index \in [Slices -> Files \cup {NoFile}]
    /\ pageWarm \in BOOLEAN /\ stopping \in BOOLEAN /\ opening \in BOOLEAN
    /\ stats \in [hits : Nat, misses : Nat, evictions : Nat, bytesRead : Nat]
    /\ requests \in Seq(Slices) /\ Len(requests) <= QueueLimit
    /\ active \in {0, 1}
    /\ worker \in WorkerStates /\ ctl \in CtlStates
    /\ held \in Slices \cup {NoSlice} /\ loading \in Slices \cup {NoSlice}
    /\ owner \in Clients \cup {Worker, Nobody}
    /\ waiter \in [Clients -> WaiterStates]
    /\ calls \in 0 .. MaxCalls

ThreadInv ==
    /\ ActiveMatchesWorker
    /\ owner = Worker <=> worker = "loading"
    /\ owner # Nobody <=> loading \in Slices
    /\ worker \in {"busy", "loading", "loaded"} <=> held \in Slices
    /\ ctl \in {"release", "openFile"} => worker = "none"
    /\ ctl = "openFile" => fd = NoFile
    /\ fd = NoFile => worker = "none"

Base == TypeBase /\ ThreadInv

\* Every variable group is unfolded and the assumptions are at hand.
LEMMA InitBase == Init => Base
<1> USE SliceAssumption, FileAssumption, BoundAssumption, ThreadAssumption
<1> SUFFICES ASSUME Init PROVE Base
  OBVIOUS
<1>1. TypeBase
  <2>1. << >> \in Seq(Slices) /\ Len(<< >>) <= QueueLimit
    BY EmptySeq
  <2>2. index \in [Slices -> Files \cup {NoFile}]
    BY DEF Init
  <2>3. waiter \in [Clients -> WaiterStates]
    BY DEF Init, WaiterStates
  <2>4. NoStats \in [hits : Nat, misses : Nat, evictions : Nat, bytesRead : Nat]
    BY DEF NoStats
  <2>5. worker \in WorkerStates /\ ctl \in CtlStates /\ calls \in 0 .. MaxCalls
    BY DEF Init, WorkerStates, CtlStates
  <2>6. /\ fd \in Files \cup {NoFile} /\ budget \in Nat /\ resident \in Int
        /\ active \in {0, 1} /\ owner \in Clients \cup {Worker, Nobody}
        /\ held \in Slices \cup {NoSlice} /\ loading \in Slices \cup {NoSlice}
    BY DEF Init
  <2>8. pageWarm \in BOOLEAN /\ stopping \in BOOLEAN /\ opening \in BOOLEAN
    BY Zenon DEF Init
  <2>7. lru = << >> /\ requests = << >> /\ stats = NoStats
    BY DEF Init
  <2> QED BY <2>1, <2>2, <2>3, <2>4, <2>5, <2>6, <2>7, <2>8 DEF TypeBase
<1>2. ThreadInv
  BY DEF Init, ThreadInv, ActiveMatchesWorker
<1> QED BY <1>1, <1>2 DEF Base

\* The client calls keep types and thread positions.
LEMMA ClientsKeepBase ==
    ASSUME Base, NEW c \in Clients, ClientCalls(c) \/ WakeUp(c) \/ TimeOut(c)
    PROVE  Base'
<1> USE SliceAssumption, FileAssumption, BoundAssumption, ThreadAssumption
<1> USE DEF Base, TypeBase, ThreadInv, ActiveMatchesWorker, WorkerStates, CtlStates,
            WaiterStates, cacheVars, fileVars, queueVars, workerVars, mutexVars,
            ctlVars, Call, MutexFree
<1>1. ASSUME NEW s \in Slices, Prefetch(c, s) PROVE Base'
  <2>1. requests' \in Seq(Slices) /\ Len(requests') <= QueueLimit
    BY <1>1, AppendProperties DEF Prefetch, QueueHasRoom
  <2>2. worker' = worker \/ (worker = "asleep" /\ worker' = "ready")
    BY <1>1 DEF Prefetch, Wake
  <2>3. calls' \in 0 .. MaxCalls
    BY <1>1 DEF Prefetch
  <2> QED BY <1>1, <2>1, <2>2, <2>3 DEF Prefetch
<1>2. ASSUME NEW s \in Slices, BeginLoad(c, s) PROVE Base'
  BY <1>2 DEF BeginLoad
<1>3. ASSUME NEW enabled \in BOOLEAN, SetPageWarm(c, enabled) PROVE Base'
  <2>1. /\ lru' \in Seq(Slices) /\ resident' \in Int
        /\ index' \in [Slices -> Files \cup {NoFile}]
    <3>1. CASE enabled
      BY <1>3, <3>1, EmptySeq DEF SetPageWarm, Empty
    <3>2. CASE ~enabled
      BY <1>3, <3>2 DEF SetPageWarm
    <3> QED BY <3>1, <3>2
  <2> QED BY <1>3, <2>1 DEF SetPageWarm
<1>4. ASSUME Clear(c) PROVE Base'
  BY <1>4 DEF Clear, Empty
<1>5. ASSUME BeginWait(c) PROVE Base'
  BY <1>5 DEF BeginWait, Waits
<1>6. ASSUME WakeUp(c) PROVE Base'
  BY <1>6 DEF WakeUp, Waits
<1>7. ASSUME TimeOut(c) PROVE Base'
  BY <1>7 DEF TimeOut, Waits
<1> QED BY <1>1, <1>2, <1>3, <1>4, <1>5, <1>6, <1>7 DEF ClientCalls

\* So do the steps inside load().
LEMMA LoadKeepsBase == ASSUME Base, LoadSteps PROVE Base'
<1> USE SliceAssumption, FileAssumption, BoundAssumption, ThreadAssumption
<1>0. /\ stats \in [hits : Nat, misses : Nat, evictions : Nat, bytesRead : Nat]
      /\ stats.hits + 1 \in Nat /\ stats.misses + 1 \in Nat
      /\ stats.evictions + 1 \in Nat
      /\ \A n \in Nat : stats.bytesRead + n \in Nat
  <2>1. stats \in [hits : Nat, misses : Nat, evictions : Nat, bytesRead : Nat]
    BY DEF Base, TypeBase
  <2> QED BY <2>1
<1>1. ~MutexFree => loading \in Slices /\ Length[loading] \in Nat
  BY DEF Base, ThreadInv, MutexFree
<1>2. ASSUME Leave PROVE ThreadInv'
  BY <1>2 DEF Leave, Base, TypeBase, ThreadInv, ActiveMatchesWorker, WorkerStates,
     fileVars, ctlVars, queueVars
<1>3. ASSUME Leave, resident' \in Int, lru' \in Seq(Slices),
             index' \in [Slices -> Files \cup {NoFile}],
             stats' \in [hits : Nat, misses : Nat, evictions : Nat, bytesRead : Nat]
      PROVE  TypeBase'
  BY <1>3 DEF Leave, Base, TypeBase, WorkerStates, fileVars, ctlVars, queueVars
<1>4. ASSUME NEW n \in Nat, Miss(n)
      PROVE  stats' \in [hits : Nat, misses : Nat, evictions : Nat, bytesRead : Nat]
  BY <1>0, <1>4 DEF Miss
<1>5. ASSUME LoadRejected PROVE Base'
  BY <1>2, <1>3, <1>5 DEF LoadRejected, Base, TypeBase, cacheVars
<1>6. ASSUME LoadWarmsPages PROVE Base'
  BY <1>1, <1>2, <1>3, <1>4, <1>6 DEF LoadWarmsPages, Base, TypeBase, cacheVars
<1>7. ASSUME LoadHit PROVE Base'
  <2>1. lru' \in Seq(Slices)
    BY <1>7, ToFrontProperties DEF LoadHit, Base, TypeBase
  <2>2. stats' \in [hits : Nat, misses : Nat, evictions : Nat, bytesRead : Nat]
    BY <1>0, <1>7 DEF LoadHit
  <2>3. Leave /\ resident' \in Int /\ index' \in [Slices -> Files \cup {NoFile}]
    BY <1>7 DEF LoadHit, Base, TypeBase
  <2> QED BY <1>2, <1>3, <2>1, <2>2, <2>3 DEF Base
<1>8. ASSUME LoadTooBig PROVE Base'
  BY <1>2, <1>3, <1>4, <1>8 DEF LoadTooBig, Base, TypeBase, cacheVars
<1>9. ASSUME LoadEvicts PROVE Base'
  <2>1. lru' \in Seq(Slices) /\ lru[Len(lru)] \in Slices
    BY <1>9, DropLastProperties DEF LoadEvicts, MustEvict, Base, TypeBase
  <2>2. TypeBase'
    <3>1. stats' \in [hits : Nat, misses : Nat, evictions : Nat, bytesRead : Nat]
      BY <1>0, <1>9 DEF LoadEvicts
    <3>2. resident' \in Int
      <4>1. Length[lru[Len(lru)]] \in Nat /\ resident \in Int
        BY <2>1 DEF Base, TypeBase
      <4> QED BY <1>9, <4>1 DEF LoadEvicts
    <3>3. index' \in [Slices -> Files \cup {NoFile}]
      BY <1>9, <2>1 DEF LoadEvicts, Base, TypeBase
    <3> QED BY <1>9, <2>1, <3>1, <3>2, <3>3 DEF LoadEvicts, Base, TypeBase, fileVars,
            queueVars, workerVars, mutexVars, ctlVars
  <2>3. ThreadInv'
    BY <1>9 DEF LoadEvicts, Base, ThreadInv, ActiveMatchesWorker, fileVars, queueVars,
       workerVars, mutexVars, ctlVars
  <2> QED BY <2>2, <2>3 DEF Base
<1>10. ASSUME LoadFails PROVE Base'
  BY <1>2, <1>3, <1>4, <1>10 DEF LoadFails, Base, TypeBase, cacheVars
<1>11. ASSUME LoadKeeps PROVE Base'
  <2>1. loading \in Slices /\ Length[loading] \in Nat
    BY <1>1, <1>11 DEF LoadKeeps, Missing
  <2>2. lru' \in Seq(Slices)
    BY <1>11, <2>1, PushFrontProperties DEF LoadKeeps, Base, TypeBase
  <2>3. Leave /\ Miss(Length[loading]) /\ resident' \in Int
    BY <1>11, <2>1 DEF LoadKeeps, Base, TypeBase
  <2>4. index' \in [Slices -> Files \cup {NoFile}]
    BY <1>11, <2>1 DEF LoadKeeps, Base, TypeBase
  <2> QED BY <1>2, <1>3, <1>4, <2>1, <2>2, <2>3, <2>4 DEF Base
<1> QED BY <1>5, <1>6, <1>7, <1>8, <1>9, <1>10, <1>11 DEF LoadSteps

\* So do the steps of the prefetch thread.
LEMMA WorkerKeepsBase == ASSUME Base, WorkerSteps PROVE Base'
<1> USE SliceAssumption, FileAssumption, BoundAssumption, ThreadAssumption
<1> USE DEF Base, TypeBase, ThreadInv, ActiveMatchesWorker, WorkerStates, CtlStates,
            WaiterStates, cacheVars, fileVars, queueVars, mutexVars,
            ctlVars, MutexFree
<1>1. CASE WorkerSleeps
  BY <1>1 DEF WorkerSleeps
<1>2. CASE WorkerExits
  BY <1>2 DEF WorkerExits
<1>3. CASE WorkerTakes
  <2>1. /\ held' \in Slices /\ requests' \in Seq(Slices)
        /\ Len(requests') <= QueueLimit
    BY <1>3, HeadTailProperties, LenProperties DEF WorkerTakes
  <2> QED BY <1>3, <2>1 DEF WorkerTakes
<1>4. CASE WorkerLoads
  BY <1>4 DEF WorkerLoads
<1>5. CASE WorkerFinishes
  BY <1>5 DEF WorkerFinishes
<1>6. CASE WorkerNotifies
  BY <1>6 DEF WorkerNotifies
<1> QED BY <1>1, <1>2, <1>3, <1>4, <1>5, <1>6 DEF WorkerSteps

\* So do the steps of close() and open().
LEMMA ControllerKeepsBase ==
    ASSUME Base, CloseSteps \/ OpenSteps \/ \E forOpen \in BOOLEAN : BeginClose(forOpen)
    PROVE  Base'
<1> USE SliceAssumption, FileAssumption, BoundAssumption, ThreadAssumption
<1> USE DEF Base, TypeBase, ThreadInv, ActiveMatchesWorker, WorkerStates, CtlStates,
            cacheVars, fileVars, queueVars, workerVars, mutexVars,
            ctlVars, MutexFree
<1>1. ASSUME NEW forOpen \in BOOLEAN, BeginClose(forOpen) PROVE Base'
  BY <1>1 DEF BeginClose
<1>2. CASE NotifyWorker
  BY <1>2 DEF NotifyWorker, Wake
<1>3. CASE JoinWorker
  BY <1>3 DEF JoinWorker
<1>4. CASE Release
  BY <1>4 DEF Release, Empty
<1>5. ASSUME NEW b \in Budgets, NEW f \in Files, OpenFile(f, b) PROVE Base'
  BY <1>5 DEF OpenFile, NoStats
<1>6. ASSUME NEW b \in Budgets, OpenFails(b) PROVE Base'
  BY <1>6 DEF OpenFails, NoStats
<1> QED BY <1>1, <1>2, <1>3, <1>4, <1>5, <1>6 DEF CloseSteps, OpenSteps

LEMMA NextKeepsBase == ASSUME Base, [Next]_vars PROVE Base'
<1>1. CASE UNCHANGED vars
  BY <1>1 DEF vars, Base, TypeBase, ThreadInv, ActiveMatchesWorker, cacheVars, fileVars,
     queueVars, workerVars, mutexVars, ctlVars
<1>2. CASE Next
  BY <1>2, ClientsKeepBase, LoadKeepsBase, WorkerKeepsBase, ControllerKeepsBase
  DEF Next
<1> QED BY <1>1, <1>2

-----------------------------------------------------------------------------
(* What is in the cache.  FiniteBytes lets the lemmas on cardinalities be      *)
(* used on the bytes that are held.                                            *)

FiniteBytes == IsFiniteSet(BytesOf(Members(lru)))

CacheInv ==
    /\ IndexMatchesLru
    /\ CachedFromOpenFile
    /\ fd = NoFile => lru = << >>
    /\ FiniteBytes
    /\ ResidentAccounting
    /\ WithinBudget
    /\ TelemetryCoherent

\* An empty cache satisfies CacheInv whatever the file, the budget and the
\* statistics are.
LEMMA EmptyCacheInv ==
    ASSUME lru = << >>, resident = 0, index = [s \in Slices |-> NoFile], budget \in Nat,
           stats \in [hits : Nat, misses : Nat, evictions : Nat, bytesRead : Nat],
           stats.evictions <= stats.misses
    PROVE  CacheInv
<1>1. IndexMatchesLru /\ CachedFromOpenFile
  BY NoBytes DEF IndexMatchesLru, CachedFromOpenFile
<1>2. FiniteBytes /\ ResidentAccounting /\ WithinBudget
  <2>1. Bytes(Members(lru)) = 0 /\ IsFiniteSet(BytesOf(Members(lru)))
    BY NoBytes
  <2>2. resident = 0 /\ resident <= budget
    OBVIOUS
  <2> QED BY <2>1, <2>2 DEF FiniteBytes, ResidentAccounting, WithinBudget
<1>3. TelemetryCoherent
  BY EmptySeq DEF TelemetryCoherent
<1> QED BY <1>1, <1>2, <1>3 DEF CacheInv

\* A step that touches neither the items, the file, the budget nor the
\* statistics keeps CacheInv.
LEMMA CacheUntouched ==
    ASSUME CacheInv, UNCHANGED <<cacheVars, fileVars, stats>>
    PROVE  CacheInv'
BY DEF CacheInv, IndexMatchesLru, CachedFromOpenFile, FiniteBytes, ResidentAccounting,
       WithinBudget, TelemetryCoherent, cacheVars, fileVars

\* A step that only counts a miss, or only counts bytes read, keeps CacheInv.
LEMMA MissKeepsCacheInv ==
    ASSUME Base, CacheInv, NEW n \in Nat, Miss(n), UNCHANGED <<cacheVars, fileVars>>
    PROVE  CacheInv'
<1>1. stats \in [hits : Nat, misses : Nat, evictions : Nat, bytesRead : Nat]
  BY DEF Base, TypeBase
<1>2. /\ stats'.misses = stats.misses + 1 /\ stats'.evictions = stats.evictions
      /\ stats'.bytesRead = stats.bytesRead + n
  BY <1>1 DEF Miss
<1>3. Len(lru) \in Nat /\ resident \in Int
  BY LenProperties DEF Base, TypeBase
<1>4. TelemetryCoherent'
  BY <1>1, <1>2, <1>3 DEF CacheInv, TelemetryCoherent, cacheVars
<1> QED BY <1>4 DEF CacheInv, IndexMatchesLru, CachedFromOpenFile, FiniteBytes,
           ResidentAccounting, WithinBudget, cacheVars, fileVars

\* A hit reorders the list and counts a hit.
LEMMA HitKeepsCacheInv == ASSUME Base, CacheInv, LoadHit PROVE CacheInv'
<1>1. PICK i \in DOMAIN lru : lru[i] = loading /\ lru' = ToFront(lru, i)
  BY DEF LoadHit
<1>2. /\ Len(lru') = Len(lru) /\ Members(lru') = Members(lru)
      /\ NoDuplicates(lru) => NoDuplicates(lru')
  BY <1>1, ToFrontProperties DEF Base, TypeBase
<1>3. /\ fd' = fd /\ budget' = budget /\ index' = index /\ resident' = resident
      /\ lru # << >>
  BY <1>1 DEF LoadHit, Leave, fileVars
<1>4. /\ stats'.misses = stats.misses /\ stats'.evictions = stats.evictions
      /\ stats'.bytesRead = stats.bytesRead
  <2>1. stats \in [hits : Nat, misses : Nat, evictions : Nat, bytesRead : Nat]
    BY DEF Base, TypeBase
  <2> QED BY <2>1 DEF LoadHit
<1> QED BY <1>2, <1>3, <1>4 DEF CacheInv, IndexMatchesLru, CachedFromOpenFile,
           FiniteBytes, ResidentAccounting, WithinBudget, TelemetryCoherent

\* One turn of the eviction loop removes one slice and its length.
LEMMA EvictionKeepsCacheInv == ASSUME Base, CacheInv, LoadEvicts PROVE CacheInv'
<1> DEFINE last == lru[Len(lru)]
<1>1. lru \in Seq(Slices) /\ lru # << >>
  BY DEF Base, TypeBase, LoadEvicts, MustEvict
<1>2. /\ last \in Slices /\ Len(lru) \in Nat \ {0} /\ lru' = DropLast(lru)
      /\ Len(lru') = Len(lru) - 1
      /\ NoDuplicates(lru') /\ Members(lru') = Members(lru) \ {last}
  BY <1>1, DropLastProperties DEF LoadEvicts, CacheInv, IndexMatchesLru
<1>3. last \in Members(lru)
  BY <1>1, <1>2, LenProperties DEF Members
<1>4. /\ fd' = fd /\ budget' = budget /\ resident' = resident - Length[last]
      /\ index' = [index EXCEPT ![last] = NoFile]
  BY DEF LoadEvicts, fileVars
<1>5. IndexMatchesLru' /\ CachedFromOpenFile'
  <2>1. index \in [Slices -> Files \cup {NoFile}]
    BY DEF Base, TypeBase
  <2> QED BY <1>2, <1>4, <2>1 DEF CacheInv, IndexMatchesLru, CachedFromOpenFile
<1>6. /\ IsFiniteSet(BytesOf(Members(lru')))
      /\ Bytes(Members(lru')) = Bytes(Members(lru)) - Length[last]
  BY <1>2, <1>3, BytesOfOneLess DEF CacheInv, FiniteBytes
<1>7. FiniteBytes' /\ ResidentAccounting'
  BY <1>4, <1>6 DEF CacheInv, FiniteBytes, ResidentAccounting
<1>8. Length[last] \in Nat /\ resident \in Int /\ budget \in Nat
  BY <1>2, SliceAssumption DEF Base, TypeBase
<1>9. WithinBudget'
  BY <1>4, <1>8 DEF CacheInv, WithinBudget
<1>10. TelemetryCoherent'
  <2>1. stats \in [hits : Nat, misses : Nat, evictions : Nat, bytesRead : Nat]
    BY DEF Base, TypeBase
  <2>2. /\ stats'.misses = stats.misses /\ stats'.bytesRead = stats.bytesRead
        /\ stats'.evictions = stats.evictions + 1
    BY <2>1 DEF LoadEvicts
  <2>3. Len(lru) + stats.evictions <= stats.misses /\ resident <= stats.bytesRead
    BY DEF CacheInv, TelemetryCoherent
  <2>4. /\ Len(lru') + stats'.evictions <= stats'.misses
        /\ resident' <= stats'.bytesRead
    <3>1. /\ stats.evictions \in Nat /\ stats.misses \in Nat
          /\ stats.bytesRead \in Nat /\ Length[last] \in Nat
      BY <1>8, <2>1
    <3>2. Len(lru') = Len(lru) - 1 /\ resident' = resident - Length[last]
      BY <1>2, <1>4
    <3> HIDE DEF last
    <3> QED BY <1>2, <1>8, <2>2, <2>3, <3>1, <3>2
  <2> QED BY <2>4 DEF TelemetryCoherent
<1>11. (fd = NoFile => lru = << >>)'
  BY <1>1, <1>4 DEF CacheInv
<1> QED BY <1>5, <1>7, <1>9, <1>10, <1>11 DEF CacheInv

\* A kept slice fits: the loop ended because it fits beside what is left, or
\* because nothing is left and its length alone is within the budget.
LEMMA KeepingKeepsCacheInv == ASSUME Base, CacheInv, LoadKeeps PROVE CacheInv'
<1>1. /\ loading \in Slices /\ Length[loading] \in Nat
      /\ lru \in Seq(Slices) /\ resident \in Int /\ budget \in Nat /\ fd # NoFile
      /\ index \in [Slices -> Files \cup {NoFile}]
  BY SliceAssumption DEF LoadKeeps, Missing, InRange, MutexFree, Base, TypeBase, ThreadInv
<1>2. loading \notin Members(lru) /\ NoDuplicates(lru)
  BY <1>1 DEF LoadKeeps, Missing, CacheInv, IndexMatchesLru
<1>3. /\ Len(lru') = Len(lru) + 1 /\ Members(lru') = Members(lru) \cup {loading}
      /\ NoDuplicates(lru')
  BY <1>1, <1>2, PushFrontProperties DEF LoadKeeps
<1>4. /\ fd' = fd /\ budget' = budget /\ resident' = resident + Length[loading]
      /\ index' = [index EXCEPT ![loading] = fd]
  BY DEF LoadKeeps, Leave, fileVars
<1>5. IndexMatchesLru' /\ CachedFromOpenFile'
  BY <1>1, <1>3, <1>4 DEF CacheInv, IndexMatchesLru, CachedFromOpenFile
<1>6. /\ IsFiniteSet(BytesOf(Members(lru')))
      /\ Bytes(Members(lru')) = Bytes(Members(lru)) + Length[loading]
  BY <1>1, <1>2, <1>3, BytesOfOneMore DEF CacheInv, FiniteBytes
<1>7. FiniteBytes' /\ ResidentAccounting'
  BY <1>4, <1>6 DEF CacheInv, FiniteBytes, ResidentAccounting
<1>8. WithinBudget'
  <2>1. Length[loading] <= budget
    BY <1>1 DEF LoadKeeps, TooBig
  <2>2. CASE lru = << >>
    <3>1. resident = 0
      BY <2>2, NoBytes DEF CacheInv, ResidentAccounting
    <3> QED BY <1>1, <1>4, <2>1, <3>1 DEF WithinBudget
  <2>3. CASE lru # << >>
    BY <1>1, <1>4, <2>3 DEF LoadKeeps, MustEvict, WithinBudget
  <2> QED BY <2>2, <2>3
<1>9. TelemetryCoherent'
  <2>1. stats \in [hits : Nat, misses : Nat, evictions : Nat, bytesRead : Nat]
    BY DEF Base, TypeBase
  <2>2. /\ stats'.misses = stats.misses + 1 /\ stats'.evictions = stats.evictions
        /\ stats'.bytesRead = stats.bytesRead + Length[loading]
    BY <2>1 DEF LoadKeeps, Miss
  <2>3. Len(lru) \in Nat
    BY <1>1, LenProperties
  <2>4. Len(lru) + stats.evictions <= stats.misses /\ resident <= stats.bytesRead
    BY DEF CacheInv, TelemetryCoherent
  <2>5. /\ Len(lru') + stats'.evictions <= stats'.misses
        /\ resident' <= stats'.bytesRead
    BY <1>1, <1>3, <1>4, <2>1, <2>2, <2>3, <2>4
  <2> QED BY <2>5 DEF TelemetryCoherent
<1> QED BY <1>1, <1>4, <1>5, <1>7, <1>8, <1>9 DEF CacheInv

LEMMA InitCacheInv == Init => CacheInv
<1> SUFFICES ASSUME Init PROVE CacheInv
  OBVIOUS
<1>1. /\ NoStats \in [hits : Nat, misses : Nat, evictions : Nat, bytesRead : Nat]
      /\ NoStats.evictions <= NoStats.misses
  BY DEF NoStats
<1> QED BY <1>1, EmptyCacheInv DEF Init

\* clear(), a switch to page_warm and close() empty the cache.
LEMMA EmptyingKeepsCacheInv ==
    ASSUME Base, CacheInv, Empty, UNCHANGED <<budget, stats>>
    PROVE  CacheInv'
<1>1. /\ budget \in Nat
      /\ stats \in [hits : Nat, misses : Nat, evictions : Nat, bytesRead : Nat]
  BY DEF Base, TypeBase
<1>2. stats.evictions <= stats.misses /\ stats.bytesRead \in Nat
  <2>1. Len(lru) \in Nat /\ Len(lru) + stats.evictions <= stats.misses
    BY LenProperties DEF Base, TypeBase, CacheInv, TelemetryCoherent
  <2> QED BY <1>1, <2>1
<1>3. IndexMatchesLru' /\ CachedFromOpenFile' /\ (fd = NoFile => lru = << >>)'
  BY NoBytes DEF Empty, IndexMatchesLru, CachedFromOpenFile
<1>4. FiniteBytes' /\ ResidentAccounting' /\ WithinBudget'
  <2>1. lru' = << >> /\ resident' = 0 /\ resident' <= budget'
    BY <1>1 DEF Empty
  <2>2. Bytes(Members(lru')) = 0 /\ IsFiniteSet(BytesOf(Members(lru')))
    BY <2>1, NoBytes
  <2> QED BY <2>1, <2>2 DEF FiniteBytes, ResidentAccounting, WithinBudget
<1>5. TelemetryCoherent'
  BY <1>1, <1>2, EmptySeq DEF Empty, TelemetryCoherent
<1> QED BY <1>3, <1>4, <1>5 DEF CacheInv

\* open() gives an empty cache another file or none, another budget and
\* statistics from zero.
LEMMA OpeningKeepsCacheInv == ASSUME Base, CacheInv, OpenSteps PROVE CacheInv'
<1>1. PICK b \in Budgets : OpenFails(b) \/ \E f \in Files : OpenFile(f, b)
  BY DEF OpenSteps
<1>2. /\ budget' = b /\ stats' = NoStats /\ b \in Nat /\ fd = NoFile
      /\ UNCHANGED cacheVars
  BY <1>1, BoundAssumption DEF OpenFails, OpenFile, Base, ThreadInv
<1>3. /\ lru = << >> /\ resident = 0 /\ \A s \in Slices : index[s] = NoFile
  BY <1>2, NoBytes DEF CacheInv, CachedFromOpenFile, ResidentAccounting
<1>4. IndexMatchesLru' /\ CachedFromOpenFile' /\ (fd = NoFile => lru = << >>)'
  BY <1>2, <1>3 DEF CacheInv, IndexMatchesLru, CachedFromOpenFile, cacheVars
<1>5. FiniteBytes' /\ ResidentAccounting' /\ WithinBudget'
  <2>1. lru' = << >> /\ resident' = 0 /\ resident' <= budget'
    BY <1>2, <1>3 DEF cacheVars
  <2>2. Bytes(Members(lru')) = 0 /\ IsFiniteSet(BytesOf(Members(lru')))
    BY <2>1, NoBytes
  <2> QED BY <2>1, <2>2 DEF FiniteBytes, ResidentAccounting, WithinBudget
<1>6. TelemetryCoherent'
  BY <1>2, <1>3, EmptySeq DEF TelemetryCoherent, cacheVars, NoStats
<1> QED BY <1>4, <1>5, <1>6 DEF CacheInv

LEMMA NextKeepsCacheInv == ASSUME Base, CacheInv, [Next]_vars PROVE CacheInv'
<1>1. CASE UNCHANGED vars
  BY <1>1, CacheUntouched DEF vars
<1>2. CASE LoadSteps
  <2>1. ~MutexFree => Length[loading] \in Nat
    BY SliceAssumption DEF Base, ThreadInv, MutexFree
  <2>2. CASE LoadRejected
    BY <2>2, CacheUntouched DEF LoadRejected, Leave
  <2>3. CASE LoadWarmsPages
    BY <2>1, <2>3, MissKeepsCacheInv DEF LoadWarmsPages, Leave
  <2>4. CASE LoadTooBig
    BY <2>4, MissKeepsCacheInv DEF LoadTooBig, Leave
  <2>5. CASE LoadFails
    BY <2>5, MissKeepsCacheInv DEF LoadFails, Leave
  <2> QED BY <1>2, <2>2, <2>3, <2>4, <2>5, HitKeepsCacheInv, EvictionKeepsCacheInv,
            KeepingKeepsCacheInv DEF LoadSteps
<1>3. CASE WorkerSteps
  BY <1>3, CacheUntouched DEF WorkerSteps, WorkerSleeps, WorkerExits, WorkerTakes,
     WorkerLoads, WorkerFinishes, WorkerNotifies
<1>4. CASE CloseSteps
  <2>1. CASE NotifyWorker \/ JoinWorker
    BY <2>1, CacheUntouched DEF NotifyWorker, JoinWorker
  <2>2. CASE Release
    BY <2>2, EmptyingKeepsCacheInv DEF Release
  <2> QED BY <1>4, <2>1, <2>2 DEF CloseSteps
<1>5. CASE OpenSteps
  BY <1>5, OpeningKeepsCacheInv
<1>6. ASSUME NEW forOpen \in BOOLEAN, BeginClose(forOpen) PROVE CacheInv'
  BY <1>6, CacheUntouched DEF BeginClose
<1>7. ASSUME NEW c \in Clients, ClientCalls(c) \/ WakeUp(c) \/ TimeOut(c)
      PROVE  CacheInv'
  <2>1. ASSUME NEW s \in Slices, Prefetch(c, s) \/ BeginLoad(c, s) PROVE CacheInv'
    BY <2>1, CacheUntouched DEF Prefetch, BeginLoad
  <2>2. ASSUME NEW enabled \in BOOLEAN, SetPageWarm(c, enabled) PROVE CacheInv'
    <3>1. CASE enabled
      BY <2>2, <3>1, EmptyingKeepsCacheInv DEF SetPageWarm, fileVars
    <3>2. CASE ~enabled
      BY <2>2, <3>2, CacheUntouched DEF SetPageWarm
    <3> QED BY <3>1, <3>2
  <2>3. CASE Clear(c)
    BY <2>3, EmptyingKeepsCacheInv DEF Clear, fileVars
  <2>4. CASE BeginWait(c) \/ WakeUp(c) \/ TimeOut(c)
    BY <2>4, CacheUntouched DEF BeginWait, WakeUp, TimeOut, Waits
  <2> QED BY <1>7, <2>1, <2>2, <2>3, <2>4 DEF ClientCalls
<1> QED BY <1>1, <1>2, <1>3, <1>4, <1>5, <1>6, <1>7 DEF Next

-----------------------------------------------------------------------------
(* The theorems.                                                             *)

LEMMA Invariance == Spec => [](Base /\ CacheInv)
<1>1. Init => Base /\ CacheInv
  BY InitBase, InitCacheInv
<1>2. Base /\ CacheInv /\ [Next]_vars => Base' /\ CacheInv'
  BY NextKeepsBase, NextKeepsCacheInv
<1> QED BY <1>1, <1>2, PTL DEF Spec

\* ExpertCache: the list and the map name the same items, each once, after any
\* interleaving of loads, clears, mode switches, closings and openings.
THEOREM CacheConsistent == Spec => []IndexMatchesLru
<1>1. Base /\ CacheInv => IndexMatchesLru
  BY DEF CacheInv
<1> QED BY <1>1, Invariance, PTL

\* ExpertCache: a load that raced with close() and open() leaves no bytes of the
\* file that was open before.
THEOREM KeptFromOpenFile == Spec => []CachedFromOpenFile
<1>1. Base /\ CacheInv => CachedFromOpenFile
  BY DEF CacheInv
<1> QED BY <1>1, Invariance, PTL

\* ExpertCache: once the file is closed the prefetch thread has been joined and
\* nothing is kept; this is what makes the next open() start from an empty cache.
THEOREM ClosedIsEmpty == Spec => []ClosedHoldsNothing
<1>1. Base /\ CacheInv => ClosedHoldsNothing
  BY DEF Base, ThreadInv, CacheInv, ClosedHoldsNothing
<1> QED BY <1>1, Invariance, PTL

\* ExpertCache: resident_bytes is exact whatever the slices' lengths and the
\* interleaving of loads, clears and reopenings.
THEOREM AccountingExact == Spec => []ResidentAccounting
<1>1. Base /\ CacheInv => ResidentAccounting
  BY DEF CacheInv
<1> QED BY <1>1, Invariance, PTL

\* ExpertCache: the kept bytes are never above the budget, at any point of the
\* eviction loop and across reopenings with another budget.
THEOREM CacheBounded == Spec => []WithinBudget
<1>1. Base /\ CacheInv => WithinBudget
  BY DEF CacheInv
<1> QED BY <1>1, Invariance, PTL

\* ExpertCache: every variable keeps its type; resident_bytes, an unsigned
\* counter, never goes below zero; the deque never exceeds its limit.
THEOREM TypeCorrect == Spec => []TypeOK
<1>1. Base /\ CacheInv => TypeOK
  <2> SUFFICES ASSUME Base, CacheInv PROVE TypeOK
    OBVIOUS
  <2>1. resident \in Nat
    BY FS_CardinalityType DEF CacheInv, FiniteBytes, ResidentAccounting, Bytes
  <2> QED BY <2>1 DEF Base, TypeBase, TypeOK
<1> QED BY <1>1, Invariance, PTL

\* ExpertCache: active_requests tells whether the prefetch thread has a request.
THEOREM ActiveCorrect == Spec => []ActiveMatchesWorker
<1>1. Base /\ CacheInv => ActiveMatchesWorker
  BY DEF Base, ThreadInv
<1> QED BY <1>1, Invariance, PTL

\* ExpertCache: what was kept or evicted was missed, what is resident was read.
THEOREM TelemetryCorrect == Spec => []TelemetryCoherent
<1>1. Base /\ CacheInv => TelemetryCoherent
  BY DEF CacheInv
<1> QED BY <1>1, Invariance, PTL

\* wait_idle() answers true only when no accepted request is queued, held or
\* being loaded by the prefetch thread.
THEOREM DrainedCorrect == Spec => DrainedMeansIdle
<1>1. ASSUME Base, [Next]_vars, NEW c \in Clients,
             waiter'[c] = "drained", waiter[c] # "drained"
      PROVE  requests = << >> /\ held = NoSlice /\ owner # Worker
  <2>1. Idle
    <3>1. waiter' # waiter
      BY <1>1
    <3>2. CASE WorkerNotifies
      BY <1>1, <3>2 DEF WorkerNotifies
    <3>3. ASSUME NEW d \in Clients, BeginWait(d) \/ WakeUp(d) \/ TimeOut(d)
          PROVE  Idle
      <4>1. \E t \in {"asleep", "timed_out"} :
               Waits(d, IF Idle THEN "drained" ELSE t)
        BY <3>3 DEF BeginWait, WakeUp, TimeOut
      <4>2. PICK t \in {"asleep", "timed_out"} :
               waiter' = [waiter EXCEPT ![d] = IF Idle THEN "drained" ELSE t]
        BY <4>1 DEF Waits
      <4> QED BY <1>1, <4>2 DEF Base, TypeBase
    <3>4. \/ WorkerNotifies
          \/ \E d \in Clients : BeginWait(d) \/ WakeUp(d) \/ TimeOut(d)
      <4>1. ~UNCHANGED vars
        BY <3>1 DEF vars
      <4>2. ~LoadSteps
        BY <3>1 DEF LoadSteps, LoadRejected, LoadWarmsPages, LoadHit, LoadTooBig,
           LoadEvicts, LoadFails, LoadKeeps, Leave
      <4>3. ~CloseSteps /\ ~OpenSteps /\ ~\E forOpen \in BOOLEAN : BeginClose(forOpen)
        BY <3>1 DEF CloseSteps, NotifyWorker, JoinWorker, Release, OpenSteps, OpenFile,
           OpenFails, BeginClose
      <4>4. WorkerSteps => WorkerNotifies
        BY <3>1 DEF WorkerSteps, WorkerSleeps, WorkerExits, WorkerTakes, WorkerLoads,
           WorkerFinishes
      <4>5. ASSUME NEW d \in Clients, ClientCalls(d) PROVE BeginWait(d)
        BY <3>1, <4>5 DEF ClientCalls, Prefetch, BeginLoad, SetPageWarm, Clear
      <4> QED BY <1>1, <4>1, <4>2, <4>3, <4>4, <4>5 DEF Next
    <3> QED BY <3>2, <3>3, <3>4
  <2>2. worker \notin {"busy", "loading", "loaded"}
    BY <1>1, <2>1 DEF Idle, Base, ThreadInv, ActiveMatchesWorker
  <2> QED BY <1>1, <2>1, <2>2 DEF Idle, Base, TypeBase, ThreadInv
<1>2. Base /\ [Next]_vars =>
        [\A c \in Clients :
            waiter'[c] = "drained" /\ waiter[c] # "drained"
               => requests = << >> /\ held = NoSlice /\ owner # Worker]_vars
  BY <1>1
<1> QED BY <1>2, Invariance, PTL DEF Spec, DrainedMeansIdle

-----------------------------------------------------------------------------
(* Implementation of BoundedLru.                                             *)

\* The operators of SliceBytes mean the same in the instance.
LEMMA SameOperators ==
    /\ \A q : Lru!Members(q) = Members(q) /\ Lru!DropLast(q) = DropLast(q)
    /\ \A q, i : Lru!ToFront(q, i) = ToFront(q, i)
    /\ \A S : Lru!Bytes(S) = Bytes(S)
<1>1. ASSUME NEW q PROVE Lru!Members(q) = Members(q) /\ Lru!DropLast(q) = DropLast(q)
  BY DEF Lru!Members, Members, Lru!DropLast, DropLast
<1>2. ASSUME NEW q, NEW i PROVE Lru!ToFront(q, i) = ToFront(q, i)
  BY Zenon DEF Lru!ToFront, ToFront
<1>3. ASSUME NEW S PROVE Lru!Bytes(S) = Bytes(S)
  <2>1. Lru!BytesOf(S) = BytesOf(S)
    BY SMT DEF Lru!BytesOf, BytesOf
  <2>2. Lru!Cardinality(BytesOf(S)) = Cardinality(BytesOf(S))
    BY Zenon DEF Lru!Cardinality, Cardinality, Lru!IsFiniteSet, IsFiniteSet
  <2> QED BY <2>1, <2>2 DEF Lru!Bytes, Bytes
<1> QED BY <1>1, <1>2, <1>3

\* Outside load() no slice is being loaded.
LEMMA FreeMeansNoSlice == ASSUME Base, MutexFree PROVE loading = NoSlice
BY DEF Base, TypeBase, ThreadInv, MutexFree

\* Only load() moves items one by one; its three steps on the list are the
\* three steps of BoundedLru, and its other ways out give up.
LEMMA LoadImplements ==
    ASSUME Base, CacheInv, LoadSteps PROVE Lru!Next
<1>0. loading \in Slices
  BY DEF LoadSteps, LoadRejected, LoadWarmsPages, LoadHit, LoadTooBig, LoadEvicts,
     LoadFails, LoadKeeps, Missing, MutexFree, Base, ThreadInv
<1>1. CASE LoadRejected \/ LoadWarmsPages \/ LoadTooBig \/ LoadFails
  BY <1>0, <1>1 DEF LoadRejected, LoadWarmsPages, LoadTooBig, LoadFails, Leave,
     cacheVars, fileVars, Lru!Next, Lru!GiveUp
<1>2. CASE LoadHit
  BY <1>2, SameOperators DEF LoadHit, Leave, fileVars, Lru!Next, Lru!Use
<1>3. CASE LoadEvicts \/ LoadKeeps
  <2>1. /\ loading \in Slices \ Members(lru)
        /\ budget' = budget /\ Length[loading] <= budget
        /\ Length[loading] \in Nat /\ resident \in Int /\ budget \in Nat
    BY <1>0, <1>3, SliceAssumption DEF LoadEvicts, LoadKeeps, Leave, Missing, TooBig,
       fileVars, Base, TypeBase, CacheInv, IndexMatchesLru
  <2>2. resident = Bytes(Members(lru)) /\ (lru = << >> => resident = 0)
    BY NoBytes DEF CacheInv, ResidentAccounting
  <2>3. CASE LoadEvicts
    <3>1. lru # << >> /\ lru' = DropLast(lru) /\ loading' = loading
          /\ resident + Length[loading] > budget
      BY <2>3 DEF LoadEvicts, MustEvict, mutexVars
    <3>2. ~Lru!Fits(loading)
      BY <2>1, <2>2, <3>1, SameOperators DEF Lru!Fits
    <3>3. Lru!MakeRoom
      BY <2>1, <3>1, <3>2, SameOperators DEF Lru!MakeRoom
    <3> QED BY <3>3 DEF Lru!Next
  <2>4. CASE LoadKeeps
    <3>1. lru' = <<loading>> \o lru /\ loading' = NoSlice
          /\ resident + Length[loading] <= budget
      BY <2>1, <2>2, <2>4 DEF LoadKeeps, Leave, MustEvict
    <3>2. Lru!Fits(loading)
      BY <2>1, <2>2, <3>1, SameOperators DEF Lru!Fits
    <3>3. Lru!Admit
      BY <2>1, <3>1, <3>2, SameOperators DEF Lru!Admit
    <3> QED BY <3>3 DEF Lru!Next
  <2> QED BY <1>3, <2>3, <2>4
<1> QED BY <1>1, <1>2, <1>3 DEF LoadSteps

LEMMA NextImplements ==
    ASSUME Base, CacheInv, [Next]_vars PROVE [Lru!Next]_<<budget, lru, loading>>
<1>1. CASE UNCHANGED vars
  BY <1>1 DEF vars, cacheVars, fileVars, mutexVars
<1>2. CASE LoadSteps
  BY <1>2, LoadImplements
<1>3. CASE WorkerSteps
  <2>1. CASE WorkerLoads
    BY <2>1, FreeMeansNoSlice DEF WorkerLoads, cacheVars, fileVars, Base, ThreadInv,
       Lru!Next, Lru!Want
  <2>2. CASE WorkerSleeps \/ WorkerExits \/ WorkerTakes \/ WorkerFinishes \/ WorkerNotifies
    BY <2>2 DEF WorkerSleeps, WorkerExits, WorkerTakes, WorkerFinishes, WorkerNotifies,
       cacheVars, fileVars, mutexVars
  <2> QED BY <1>3, <2>1, <2>2 DEF WorkerSteps
<1>4. CASE CloseSteps
  BY <1>4, FreeMeansNoSlice DEF CloseSteps, NotifyWorker, JoinWorker, Release, Empty,
     Lru!Next, Lru!Flush, cacheVars, fileVars, mutexVars
<1>5. CASE OpenSteps
  <2>1. lru = << >> /\ lru' = lru /\ budget' \in Nat
        /\ loading = NoSlice /\ loading' = loading
    BY <1>5, BoundAssumption, FreeMeansNoSlice DEF OpenSteps, OpenFile, OpenFails,
       cacheVars, mutexVars, Base, ThreadInv, CacheInv
  <2> QED BY <2>1 DEF Lru!Next, Lru!Rebudget
<1>6. CASE \E forOpen \in BOOLEAN : BeginClose(forOpen)
  BY <1>6 DEF BeginClose, cacheVars, fileVars, mutexVars
<1>7. ASSUME NEW c \in Clients, ClientCalls(c) \/ WakeUp(c) \/ TimeOut(c)
      PROVE  [Lru!Next]_<<budget, lru, loading>>
  <2>1. ASSUME NEW s \in Slices, Prefetch(c, s) \/ BeginLoad(c, s)
        PROVE  [Lru!Next]_<<budget, lru, loading>>
    BY <2>1, FreeMeansNoSlice DEF Prefetch, BeginLoad, Call, cacheVars, fileVars,
       mutexVars, Lru!Next, Lru!Want
  <2>2. ASSUME NEW enabled \in BOOLEAN, SetPageWarm(c, enabled)
        PROVE  [Lru!Next]_<<budget, lru, loading>>
    <3>1. CASE enabled
      BY <2>2, <3>1, FreeMeansNoSlice DEF SetPageWarm, Call, Empty, Lru!Next, Lru!Flush,
         fileVars, mutexVars
    <3>2. CASE ~enabled
      BY <2>2, <3>2 DEF SetPageWarm, cacheVars, fileVars, mutexVars
    <3> QED BY <3>1, <3>2
  <2>3. CASE Clear(c)
    BY <2>3, FreeMeansNoSlice DEF Clear, Call, Empty, Lru!Next, Lru!Flush, fileVars,
       mutexVars
  <2>4. CASE BeginWait(c) \/ WakeUp(c) \/ TimeOut(c)
    BY <2>4 DEF BeginWait, WakeUp, TimeOut, Waits, cacheVars, fileVars, mutexVars
  <2> QED BY <1>7, <2>1, <2>2, <2>3, <2>4 DEF ClientCalls
<1> QED BY <1>1, <1>2, <1>3, <1>4, <1>5, <1>6, <1>7 DEF Next

\* ExpertCache implements BoundedLru: its threads, file errors and counters
\* never make the list do what a bounded LRU may not.
THEOREM ImplementsLru == Spec => LruSpec
<1>1. Init => Lru!Init
  BY DEF Init, Lru!Init
<1>2. Base /\ CacheInv /\ [Next]_vars => [Lru!Next]_(Lru!vars)
  BY NextImplements DEF Lru!vars
<1> QED BY <1>1, <1>2, Invariance, PTL DEF Spec, LruSpec, Lru!Spec
=============================================================================
