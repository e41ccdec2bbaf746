----------------------------- MODULE ExpertCache -----------------------------
(***************************************************************************)
(* The bounded, file-backed cache of expert slices                         *)
(* (src/llama-android/src/main/cpp/expert_cache.cpp) with its background   *)
(* prefetch thread.                                                        *)
(*                                                                         *)
(* Threads: the prefetch Worker; the Clients (the scheduler callback and   *)
(* the JNI calls), which load, prefetch, clear, change mode and wait; and  *)
(* one controller, which opens and closes.  A method that runs in one      *)
(* critical section of impl_->mutex and does no loop is one action,        *)
(* enabled while nobody holds the mutex.  load() holds the mutex across    *)
(* its eviction loop and its read: it is entered by one action and left by *)
(* another, with one action per evicted item in between.  close() and      *)
(* open() release the mutex between their parts, and so do their actions.  *)
(*                                                                         *)
(* A definition that stands directly before another and is used nowhere is *)
(* a mutated form of it, which the properties must tell from the original. *)
(***************************************************************************)
EXTENDS SliceBytes

CONSTANTS
    Offset,      \* Offset[s]: where slice s starts in the file
    Files,       \* the files open() may be given
    FileSize,    \* FileSize[f]: st_size when f is opened
    Budgets,     \* the budgets open() may be given
    QueueLimit,  \* how many requests the deque may hold (64 in the code)
    Clients,     \* the threads that use an open cache
    Worker,      \* the prefetch thread
    Nobody,      \* the owner of a free mutex
    NoSlice,
    NoFile,
    MaxCalls     \* BOUND: how many calls the clients and the controller make

ASSUME SliceAssumption ==
    /\ Offset \in [Slices -> Nat] /\ Length \in [Slices -> Nat]
    /\ NoSlice \notin Slices
ASSUME FileAssumption == FileSize \in [Files -> Nat] /\ NoFile \notin Files
ASSUME BoundAssumption ==
    Budgets \subseteq Nat /\ QueueLimit \in Nat \ {0} /\ MaxCalls \in Nat
ASSUME ThreadAssumption ==
    Worker \notin Clients /\ Nobody \notin Clients /\ Worker # Nobody

VARIABLES
    fd,         \* the open file, or NoFile
    budget,     \* budget_bytes
    resident,   \* resident_bytes, the running count
    lru,        \* the list of items, most recently used first
    index,      \* index[s]: the file whose bytes the item of s holds, or NoFile
    pageWarm,   \* page_warm
    stats,      \* hits, misses, evictions and bytes_read
    requests,   \* the deque of accepted prefetches
    stopping,
    active,     \* active_requests
    worker,     \* where the prefetch thread is
    held,       \* the request the prefetch thread has taken
    owner,      \* the thread inside load(), holding the mutex, or Nobody
    loading,    \* the slice that thread loads
    ctl,        \* where the controller is in close() or open()
    opening,    \* whether that close() is the first part of open()
    waiter,     \* where each client is in wait_idle(), or what it last returned
    calls       \* calls made so far

cacheVars == <<resident, lru, index>>
fileVars == <<fd, budget>>
queueVars == <<requests, stopping>>
workerVars == <<worker, active, held>>
mutexVars == <<owner, loading>>
ctlVars == <<ctl, opening>>
vars == <<cacheVars, fileVars, pageWarm, stats, queueVars, workerVars,
          mutexVars, ctlVars, waiter, calls>>

WorkerStates ==
    {"none", "ready", "asleep", "busy", "loading", "loaded", "notifying", "exited"}
CtlStates == {"idle", "notify", "join", "release", "openFile"}
WaiterStates == {"free", "asleep", "woken", "drained", "timed_out"}

NoStats == [hits |-> 0, misses |-> 0, evictions |-> 0, bytesRead |-> 0]

Init ==
    /\ fd = NoFile /\ budget = 0 /\ pageWarm = FALSE /\ stats = NoStats
    /\ resident = 0 /\ lru = << >> /\ index = [s \in Slices |-> NoFile]
    /\ requests = << >> /\ stopping = FALSE
    /\ active = 0 /\ worker = "none" /\ held = NoSlice
    /\ owner = Nobody /\ loading = NoSlice
    /\ ctl = "idle" /\ opening = FALSE
    /\ waiter = [c \in Clients |-> "free"]
    /\ calls = 0

-----------------------------------------------------------------------------
MutexFree == owner = Nobody

\* The test at the top of prefetch() and load(), written as in the code so
\* that it cannot overflow.
InRange(s) ==
    /\ fd # NoFile
    /\ Length[s] # 0
    /\ Offset[s] <= FileSize[fd]
    /\ Length[s] <= FileSize[fd] - Offset[s]

QueueHasRoomPlusOne == Len(requests) <= QueueLimit
QueueHasRoom == Len(requests) < QueueLimit

NoWake(w) == w
\* request_cv: the worker, if it sleeps, evaluates its condition again.
Wake(w) == IF w = "asleep" THEN "ready" ELSE w

IdleWhenQueueEmpty == requests = << >>
\* The condition of wait_idle().
Idle == requests = << >> /\ active = 0

\* A client that is not inside wait_idle() makes a call; the mutex is free.
Call(c) ==
    /\ MutexFree
    /\ waiter[c] \notin {"asleep", "woken"}
    /\ calls < MaxCalls
    /\ calls' = calls + 1

EmptyKeepsIndex == lru' = << >> /\ UNCHANGED index /\ resident' = 0
EmptyKeepsCount ==
    lru' = << >> /\ index' = [s \in Slices |-> NoFile] /\ UNCHANGED resident
\* Every item leaves the cache.
Empty == lru' = << >> /\ index' = [s \in Slices |-> NoFile] /\ resident' = 0

-----------------------------------------------------------------------------
(* Calls that are one critical section.  A prefetch that is out of range or *)
(* finds the deque full changes nothing.                                    *)

Prefetch(c, s) ==
    /\ Call(c)
    /\ InRange(s)
    /\ QueueHasRoom
    /\ requests' = Append(requests, s)
    /\ worker' = Wake(worker)
    /\ UNCHANGED <<cacheVars, fileVars, pageWarm, stats, stopping, active, held,
                   mutexVars, ctlVars, waiter>>

Clear(c) ==
    /\ Call(c)
    /\ requests' = << >>
    /\ Empty
    /\ UNCHANGED <<fileVars, pageWarm, stats, stopping, workerVars, mutexVars,
                   ctlVars, waiter>>

SetPageWarm(c, enabled) ==
    /\ Call(c)
    /\ pageWarm' = enabled
    /\ IF enabled THEN Empty ELSE UNCHANGED cacheVars
    /\ UNCHANGED <<fileVars, stats, queueVars, workerVars, mutexVars, ctlVars,
                   waiter>>

-----------------------------------------------------------------------------
(* load(): entered by a client or by the worker, left by exactly one of     *)
(* LoadRejected, LoadWarmsPages, LoadHit, LoadTooBig, LoadFails, LoadKeeps. *)

BeginLoad(c, s) ==
    /\ Call(c)
    /\ owner' = c /\ loading' = s
    /\ UNCHANGED <<cacheVars, fileVars, pageWarm, stats, queueVars, workerVars,
                   ctlVars, waiter>>

Leave ==
    /\ owner' = Nobody /\ loading' = NoSlice
    /\ worker' = IF owner = Worker THEN "loaded" ELSE worker
    /\ UNCHANGED <<fileVars, pageWarm, queueVars, active, held, ctlVars, waiter,
                   calls>>

MissUnread(bytes) == stats' = [stats EXCEPT !.misses = @ + 1]
Miss(bytes) == stats' = [stats EXCEPT !.misses = @ + 1, !.bytesRead = @ + bytes]

\* The mutex is held by load() of an in-range slice that is not in the cache.
Missing ==
    /\ ~MutexFree
    /\ InRange(loading)
    /\ ~pageWarm
    /\ index[loading] = NoFile

TooBig == budget = 0 \/ Length[loading] > budget

MustEvictLate == resident > budget /\ lru # << >>
MustEvictEarly == resident + Length[loading] >= budget /\ lru # << >>
\* The condition of the eviction loop.
MustEvict == resident + Length[loading] > budget /\ lru # << >>

LoadRejected ==
    /\ ~MutexFree
    /\ ~InRange(loading)
    /\ Leave
    /\ UNCHANGED <<cacheVars, stats>>

\* page_warm: the range is mapped and touched, nothing is kept; mmap may fail.
LoadWarmsPages ==
    /\ ~MutexFree
    /\ InRange(loading)
    /\ pageWarm
    /\ Miss(0) \/ Miss(Length[loading])
    /\ Leave
    /\ UNCHANGED cacheVars

LoadHit ==
    /\ ~MutexFree
    /\ InRange(loading)
    /\ ~pageWarm
    /\ index[loading] # NoFile
    /\ \E i \in DOMAIN lru : lru[i] = loading /\ lru' = ToFront(lru, i)
    /\ stats' = [stats EXCEPT !.hits = @ + 1]
    /\ Leave
    /\ UNCHANGED <<resident, index>>

LoadTooBig ==
    /\ Missing
    /\ TooBig
    /\ Miss(0)
    /\ Leave
    /\ UNCHANGED cacheVars

\* One turn of the eviction loop: the item at the back of the list.
LoadEvicts ==
    /\ Missing
    /\ ~TooBig
    /\ MustEvict
    /\ resident' = resident - Length[lru[Len(lru)]]
    /\ index' = [index EXCEPT ![lru[Len(lru)]] = NoFile]
    /\ lru' = DropLast(lru)
    /\ stats' = [stats EXCEPT !.evictions = @ + 1]
    /\ UNCHANGED <<fileVars, pageWarm, queueVars, workerVars, mutexVars, ctlVars,
                   waiter, calls>>

\* pread returns 0 (the file shrank) or -1: what was evicted stays evicted.
LoadFails ==
    /\ Missing
    /\ ~TooBig
    /\ ~MustEvict
    /\ Miss(0)
    /\ Leave
    /\ UNCHANGED cacheVars

LoadKeeps ==
    /\ Missing
    /\ ~TooBig
    /\ ~MustEvict
    /\ lru' = <<loading>> \o lru
    /\ index' = [index EXCEPT ![loading] = fd]
    /\ resident' = resident + Length[loading]
    /\ Miss(Length[loading])
    /\ Leave

-----------------------------------------------------------------------------
(* The prefetch thread: the lambda started by open().                       *)

WorkerSleeps ==
    /\ worker = "ready" /\ MutexFree
    /\ requests = << >> /\ ~stopping
    /\ worker' = "asleep"
    /\ UNCHANGED <<cacheVars, fileVars, pageWarm, stats, queueVars, active, held,
                   mutexVars, ctlVars, waiter, calls>>

WorkerExits ==
    /\ worker = "ready" /\ MutexFree
    /\ requests = << >> /\ stopping
    /\ worker' = "exited"
    /\ UNCHANGED <<cacheVars, fileVars, pageWarm, stats, queueVars, active, held,
                   mutexVars, ctlVars, waiter, calls>>

WorkerTakes ==
    /\ worker = "ready" /\ MutexFree
    /\ requests # << >>
    /\ held' = Head(requests)
    /\ requests' = Tail(requests)
    /\ active' = active + 1
    /\ worker' = "busy"
    /\ UNCHANGED <<cacheVars, fileVars, pageWarm, stats, stopping, mutexVars,
                   ctlVars, waiter, calls>>

WorkerLoads ==
    /\ worker = "busy" /\ MutexFree
    /\ owner' = Worker /\ loading' = held
    /\ worker' = "loading"
    /\ UNCHANGED <<cacheVars, fileVars, pageWarm, stats, queueVars, active, held,
                   ctlVars, waiter, calls>>

WorkerFinishes ==
    /\ worker = "loaded" /\ MutexFree
    /\ active' = IF active > 0 THEN active - 1 ELSE active
    /\ held' = NoSlice
    /\ worker' = "notifying"
    /\ UNCHANGED <<cacheVars, fileVars, pageWarm, stats, queueVars, mutexVars,
                   ctlVars, waiter, calls>>

\* idle_cv.notify_all(), outside the mutex.
WorkerNotifies ==
    /\ worker = "notifying"
    /\ waiter' = [c \in Clients |-> IF waiter[c] = "asleep" THEN "woken"
                                    ELSE waiter[c]]
    /\ worker' = "ready"
    /\ UNCHANGED <<cacheVars, fileVars, pageWarm, stats, queueVars, active, held,
                   mutexVars, ctlVars, calls>>

-----------------------------------------------------------------------------
(* wait_idle(): wait_for with a predicate.                                  *)

Waits(c, state) ==
    /\ waiter' = [waiter EXCEPT ![c] = state]
    /\ UNCHANGED <<cacheVars, fileVars, pageWarm, stats, queueVars, workerVars,
                   mutexVars, ctlVars>>

BeginWait(c) == Call(c) /\ Waits(c, IF Idle THEN "drained" ELSE "asleep")

WakeUp(c) ==
    /\ waiter[c] = "woken" /\ MutexFree
    /\ Waits(c, IF Idle THEN "drained" ELSE "asleep")
    /\ UNCHANGED calls

\* The timeout elapses; the predicate is evaluated once more.
TimeOut(c) ==
    /\ waiter[c] \in {"asleep", "woken"} /\ MutexFree
    /\ Waits(c, IF Idle THEN "drained" ELSE "timed_out")
    /\ UNCHANGED calls

-----------------------------------------------------------------------------
(* close() and open().  They run on one controller thread: joinable() and   *)
(* join() are called outside the mutex.                                     *)

BeginClose(forOpen) ==
    /\ ctl = "idle" /\ MutexFree
    /\ calls < MaxCalls /\ calls' = calls + 1
    /\ stopping' = TRUE
    /\ requests' = << >>
    /\ ctl' = "notify" /\ opening' = forOpen
    /\ UNCHANGED <<cacheVars, fileVars, pageWarm, stats, workerVars, mutexVars,
                   waiter>>

NotifyWorker ==
    /\ ctl = "notify"
    /\ worker' = Wake(worker)
    /\ ctl' = "join"
    /\ UNCHANGED <<cacheVars, fileVars, pageWarm, stats, queueVars, active, held,
                   mutexVars, opening, waiter, calls>>

JoinNothing ==
    /\ ctl = "join"
    /\ ctl' = "release"
    /\ UNCHANGED <<cacheVars, fileVars, pageWarm, stats, queueVars, workerVars,
                   mutexVars, opening, waiter, calls>>

JoinTooSoon ==
    /\ ctl = "join"
    /\ worker' = "none"
    /\ ctl' = "release"
    /\ UNCHANGED <<cacheVars, fileVars, pageWarm, stats, queueVars, active, held,
                   mutexVars, opening, waiter, calls>>

\* joinable() is false when no thread was started; join() waits for its end.
JoinWorker ==
    /\ ctl = "join"
    /\ worker \in {"none", "exited"}
    /\ worker' = "none"
    /\ ctl' = "release"
    /\ UNCHANGED <<cacheVars, fileVars, pageWarm, stats, queueVars, active, held,
                   mutexVars, opening, waiter, calls>>

ReleaseKeepingItems ==
    /\ ctl = "release" /\ MutexFree
    /\ fd' = NoFile
    /\ ctl' = IF opening THEN "openFile" ELSE "idle"
    /\ UNCHANGED <<cacheVars, budget, pageWarm, stats, queueVars, workerVars,
                   mutexVars, opening, waiter, calls>>

Release ==
    /\ ctl = "release" /\ MutexFree
    /\ fd' = NoFile
    /\ Empty
    /\ ctl' = IF opening THEN "openFile" ELSE "idle"
    /\ UNCHANGED <<budget, pageWarm, stats, queueVars, workerVars, mutexVars,
                   opening, waiter, calls>>

OpenFile(f, b) ==
    /\ ctl = "openFile" /\ MutexFree
    /\ stats' = NoStats /\ budget' = b
    /\ fd' = f
    /\ stopping' = FALSE
    /\ worker' = "ready"
    /\ ctl' = "idle" /\ opening' = FALSE
    /\ UNCHANGED <<cacheVars, pageWarm, requests, active, held, mutexVars, waiter,
                   calls>>

\* ::open or fstat fails.
OpenFails(b) ==
    /\ ctl = "openFile" /\ MutexFree
    /\ stats' = NoStats /\ budget' = b
    /\ ctl' = "idle" /\ opening' = FALSE
    /\ UNCHANGED <<cacheVars, fd, pageWarm, queueVars, workerVars, mutexVars,
                   waiter, calls>>

-----------------------------------------------------------------------------
LoadSteps ==
    \/ LoadRejected \/ LoadWarmsPages \/ LoadHit \/ LoadTooBig
    \/ LoadEvicts \/ LoadFails \/ LoadKeeps

WorkerSteps ==
    \/ WorkerSleeps \/ WorkerExits \/ WorkerTakes
    \/ WorkerLoads \/ WorkerFinishes \/ WorkerNotifies

CloseSteps == NotifyWorker \/ JoinWorker \/ Release

OpenSteps == \E b \in Budgets : OpenFails(b) \/ \E f \in Files : OpenFile(f, b)

ClientCalls(c) ==
    \/ \E s \in Slices : Prefetch(c, s) \/ BeginLoad(c, s)
    \/ \E enabled \in BOOLEAN : SetPageWarm(c, enabled)
    \/ Clear(c)
    \/ BeginWait(c)

Next ==
    \/ LoadSteps \/ WorkerSteps \/ CloseSteps \/ OpenSteps
    \/ \E forOpen \in BOOLEAN : BeginClose(forOpen)
    \/ \E c \in Clients : ClientCalls(c) \/ WakeUp(c) \/ TimeOut(c)

Spec == Init /\ [][Next]_vars

\* What is inside a method goes on: the holder of the mutex leaves load(), the
\* worker and the controller take the mutex when it stays free, a wait ends at
\* its timeout at the latest.  No call is ever forced to happen; since there
\* are finitely many, the mutex cannot be kept from a thread forever.
Fairness ==
    /\ WF_vars(LoadSteps)
    /\ WF_vars(WorkerSteps)
    /\ WF_vars(CloseSteps)
    /\ WF_vars(OpenSteps)
    /\ \A c \in Clients : WF_vars(TimeOut(c))

FairSpec == Spec /\ Fairness

-----------------------------------------------------------------------------
(* Properties.                                                              *)

\* Types, with the deque never above its limit and at most one request in
\* flight: prefetch() refuses the 65th request, and one thread takes them.
TypeOK ==
    /\ fd \in Files \cup {NoFile}
    /\ budget \in Nat /\ resident \in Nat
    /\ lru \in Seq(Slices)
    /\ index \in [Slices -> Files \cup {NoFile}]
    /\ pageWarm \in BOOLEAN /\ stopping \in BOOLEAN /\ opening \in BOOLEAN
    /\ stats \in [hits : Nat, misses : Nat, evictions : Nat, bytesRead : Nat]
    /\ requests \in Seq(Slices) /\ Len(requests) <= QueueLimit
    /\ active \in {0, 1}
    /\ worker \in WorkerStates /\ ctl \in CtlStates
    /\ held \in Slices \cup {NoSlice} /\ loading \in Slices \cup {NoSlice}
    /\ owner \in Clients \cup {Worker, Nobody}
    /\ waiter \in [Clients -> WaiterStates]
    /\ calls \in 0 .. MaxCalls

\* The list and the hash map agree: an item is in the list exactly when the
\* map finds it, and it is there once.  load() and clear() update the two
\* separately; a key only in the list would be read and kept a second time.
IndexMatchesLru ==
    /\ NoDuplicates(lru)
    /\ \A s \in Slices : index[s] # NoFile <=> s \in Members(lru)

\* resident_bytes, which is only ever added to and subtracted from, is the
\* number of bytes the listed items hold: no eviction, failed read, clear, mode
\* switch or close lets it drift (an unsigned counter that drifted below zero
\* would wrap and disable the cache).
ResidentAccounting == resident = Bytes(Members(lru))

\* The buffers never exceed budget_bytes, at any point of the eviction loop and
\* across every close() and reopening with another budget.
WithinBudget == resident <= budget

\* Every kept buffer was read from the file that is open now: no load that
\* raced with close() and open() leaves bytes of the previous model's file.
CachedFromOpenFile == \A s \in Slices : index[s] \in {NoFile, fd}

\* Between close() and the next open() no prefetch thread is left to read the
\* closed descriptor, and nothing is kept.
ClosedHoldsNothing == fd = NoFile => worker = "none" /\ lru = << >>

\* active_requests says whether the prefetch thread is between taking a request
\* and finishing it, the two critical sections that bracket its load().
ActiveMatchesWorker ==
    active = IF worker \in {"busy", "loading", "loaded"} THEN 1 ELSE 0

\* The counters shown to the user fit together: every item kept or evicted
\* since open() was once a miss, and what is resident was read.
TelemetryCoherent ==
    /\ Len(lru) + stats.evictions <= stats.misses
    /\ resident <= stats.bytesRead

\* "Waits until queued and currently-running prefetch work has drained"
\* (expert_cache.h): when wait_idle() returns true, no accepted request is
\* left, neither in the deque nor in the hands of the prefetch thread.
DrainedMeansIdle ==
    [][\A c \in Clients :
          waiter'[c] = "drained" /\ waiter[c] # "drained"
             => requests = << >> /\ held = NoSlice /\ owner # Worker]_vars

\* The cache with its threads, its file and its counters implements the bounded
\* LRU: evictions come from the cold end, one at a time, only while the slice
\* being loaded does not fit, a hit only reorders, and no thread clears the cache
\* or changes its budget in the middle of a load().
Lru == INSTANCE BoundedLru WITH cached <- lru, wanted <- loading

LruSpec == Lru!Spec

\* While the cache stays open, accepted requests are taken from the deque: no
\* notification of request_cv is lost.
QueueDrains ==
    requests # << >> ~> requests = << >> \/ ctl # "idle" \/ fd = NoFile

\* close() and open() return: the join does not wait for a thread that sleeps.
CloseReturns == ctl # "idle" ~> ctl = "idle"
=============================================================================
