------------------------- MODULE MirrorEngineProofs -------------------------
(***************************************************************************)
(* Proofs about MirrorEngine: a file is pending exactly while it has a     *)
(* job, and the two sides get their share of the copying, for every finite *)
(* set of files and every bound on their versions and on the starts of the *)
(* daemon.                                                                 *)
(***************************************************************************)
EXTENDS MirrorEngine, FiniteSetTheorems, WellFoundedInduction, TLAPS

(* What the threads hold: jobs for files there are, no larger than they can  *)
(* be, and the threads that main has not started do nothing.                 *)
Held ==
  /\ src \in [Files -> Nat] /\ \A f \in Files : src[f] <= MaxVersion[f]
  /\ queued \subseteq Job
  /\ mpc = "insert" \/ vpc = "insert" => enq \in Job
  /\ Busy => job \in Job
  /\ mpc \in {"down", "scan", "insert"} => wpc = "off" /\ vpc = "off"
  /\ mpc = "down" => pending = {} /\ queued = {}

(* The job under way is one of the side that had no more bytes.              *)
Served ==
  /\ tpc_bytes \in Nat /\ tof_bytes \in Nat
  /\ Busy => IF job.file.run = TofRun THEN tof_bytes <= tpc_bytes ELSE tpc_bytes <= tof_bytes

MirrorInv == Held /\ PendingExact /\ Served /\ ByteBalance
-----------------------------------------------------------------------------
(* Every set of naturals has a least element.                                *)
LEMMA LeastNatural ==
  ASSUME NEW S \in SUBSET Nat, S # {}
  PROVE  \E x \in S : \A y \in S : x <= y
<1>1. PICK x \in S : \A y \in S : ~(<<y, x>> \in OpToRel(<, Nat))
  BY NatLessThanWellFounded, WFMin
<1>2. \A y \in S : ~(y < x)
  BY <1>1 DEF OpToRel
<1> QED
  BY <1>2

(* A set of naturals with 0 and with every successor has all of them.        *)
LEMMA NaturalsBySuccessor ==
  ASSUME NEW S \in SUBSET Nat, 0 \in S, \A n \in S : n + 1 \in S
  PROVE  S = Nat
<1> SUFFICES ASSUME Nat \ S # {} PROVE FALSE
  OBVIOUS
<1>1. PICK x \in Nat \ S : \A y \in Nat \ S : x <= y
  BY LeastNatural
<1>2. x # 0 /\ x - 1 \in Nat /\ x - 1 \in S
  BY <1>1
<1>3. (x - 1) + 1 \in S
  BY <1>2
<1> QED
  BY <1>1, <1>2, <1>3

(* The versions of a finite set of files are bounded.                        *)
LEMMA Bounded ==
  ASSUME NEW S, IsFiniteSet(S), NEW v \in [S -> Nat]
  PROVE  \E m \in Nat : \A x \in S : v[x] <= m
<1>0. PICK n \in Nat : ExistsSurjection(1 .. n, S)
  BY FS_NatSurjection
<1>1. PICK seq \in [1 .. n -> S] : \A x \in S : \E i \in 1 .. n : seq[i] = x
  BY <1>0 DEF ExistsSurjection, Surjection
<1> DEFINE T == {k \in Nat : \E m \in Nat : \A i \in 1 .. n : i <= k => v[seq[i]] <= m}
<1>2. 0 \in T
  OBVIOUS
<1>3. ASSUME NEW k \in T PROVE k + 1 \in T
  <2>1. PICK m \in Nat : \A i \in 1 .. n : i <= k => v[seq[i]] <= m
    OBVIOUS
  <2>2. CASE k + 1 \in 1 .. n
    <3>1. v[seq[k + 1]] \in Nat
      BY <2>2
    <3> DEFINE b == m + v[seq[k + 1]]
    <3>2. b \in Nat /\ m <= b /\ v[seq[k + 1]] <= b
      BY <3>1
    <3> HIDE DEF b
    <3>3. \A i \in 1 .. n : i <= k + 1 => v[seq[i]] <= b
      <4> TAKE i \in 1 .. n
      <4> HAVE i <= k + 1
      <4>1. v[seq[i]] \in Nat
        OBVIOUS
      <4> QED
        BY <2>1, <3>2, <4>1
    <3> QED
      BY <3>2, <3>3
  <2>3. CASE k + 1 \notin 1 .. n
    BY <2>1, <2>3
  <2> QED
    BY <2>2, <2>3
<1>4. T = Nat
  <2> HIDE DEF T
  <2>1. T \in SUBSET Nat
    BY DEF T
  <2> QED
    BY <1>2, <1>3, <2>1, NaturalsBySuccessor
<1>5. PICK m \in Nat : \A i \in 1 .. n : i <= n => v[seq[i]] <= m
  <2>1. n \in T
    BY <1>4
  <2> QED
    BY <2>1
<1>6. \A i \in 1 .. n : v[seq[i]] <= m
  BY <1>5
<1>7. ASSUME NEW x \in S PROVE v[x] <= m
  <2>1. PICK i \in 1 .. n : seq[i] = x
    BY <1>1
  <2> QED
    BY <1>6, <2>1
<1> HIDE DEF T
<1> QED
  BY <1>7

(* No file is larger than Largest.                                           *)
LEMMA LargestFacts == Largest \in Nat /\ \A f \in Files : MaxVersion[f] <= Largest
<1> DEFINE S == {0} \cup {MaxVersion[f] : f \in Files}
<1>1. S \in SUBSET Nat /\ \A f \in Files : MaxVersion[f] \in Nat
  BY MirrorAssumption
<1>2. PICK m \in Nat : \A f \in Files : MaxVersion[f] <= m
  BY Bounded, MirrorAssumption
<1> DEFINE U == {b \in Nat : \A y \in S : y <= b}
<1>3. m \in U
  BY <1>1, <1>2
<1>4. PICK b \in U : \A c \in U : b <= c
  BY <1>3, LeastNatural
<1>5. b \in S
  <2> SUFFICES ASSUME b \notin S PROVE FALSE
    OBVIOUS
  <2>1. b # 0 /\ b \in Nat /\ \A y \in S : y <= b /\ y # b /\ y \in Nat
    BY <1>1, <1>4
  <2>2. b - 1 \in U
    BY <2>1
  <2> QED
    BY <1>4, <2>1, <2>2
<1>6. \A y \in S : b >= y
  BY <1>1, <1>4
<1>7. Largest = CHOOSE x \in S : \A y \in S : x >= y
  BY DEF Largest, Max
<1>8. Largest \in S /\ \A y \in S : Largest >= y
  <2> HIDE DEF S
  <2> QED
    BY <1>5, <1>6, <1>7
<1> QED
  BY <1>1, <1>8

(* Min picks the least.                                                      *)
LEMMA MinFacts ==
  ASSUME NEW S \in SUBSET Nat, S # {}
  PROVE  Min(S) \in S
<1>1. \E x \in S : \A y \in S : x <= y
  BY LeastNatural
<1> QED
  BY <1>1 DEF Min

(* What is queued, by run and rank.                                          *)
LEMMA JobFacts ==
  /\ \A j \in Job : /\ j.file \in Files /\ j.size \in Nat /\ j.size \in 1 .. Largest
                    /\ j.file.run \in Nat /\ j.file.rank \in Nat
  /\ \A j, k \in Job : j.file.run = k.file.run /\ j.file.rank = k.file.rank => j.file = k.file
  /\ \A j, k \in Job : j.file = k.file /\ j.size = k.size => j = k
  /\ NoJob \notin Job
<1>1. \A j \in Job : j.file \in Files /\ j.size \in 1 .. Largest /\ j.size \in Nat
  BY LargestFacts DEF Job
<1>2. \A f \in Files : f \in [run : 0 .. TofRun, rank : Nat]
  BY MirrorAssumption
<1>3. \A f \in Files : f.run \in Nat /\ f.rank \in Nat
  BY <1>2, MirrorAssumption
<1>4. \A f, g \in Files : f.run = g.run /\ f.rank = g.rank => f = g
  BY <1>2
<1>5. \A j, k \in Job : j.file = k.file /\ j.size = k.size => j = k
  BY DEF Job
<1>6. NoJob \notin Job
  <2>1. NoJob.file.run = -1
    BY DEF NoJob, NoRun
  <2> QED
    BY <1>1, <1>3, <2>1
<1> QED
  BY <1>1, <1>3, <1>4, <1>5, <1>6

(* PopNext serves a run that has files; with both sides waiting, the side    *)
(* that had fewer bytes.                                                     *)
LEMMA NextRunFacts ==
  ASSUME queued \subseteq Job, queued # {}, tpc_bytes \in Nat, tof_bytes \in Nat
  PROVE  /\ NextRun \in Runs
         /\ BothPending => IF NextRun = TofRun THEN tof_bytes <= tpc_bytes
                                               ELSE tpc_bytes <= tof_bytes
<1>1. Runs \in SUBSET Nat /\ Runs # {}
  BY JobFacts DEF Runs
<1>2. CASE BothPending /\ tof_bytes <= tpc_bytes
  BY <1>2 DEF NextRun, BothPending
<1>3. CASE BothPending /\ tof_bytes > tpc_bytes
  <2>1. Runs \ {TofRun} \in SUBSET Nat /\ Runs \ {TofRun} # {}
    BY <1>1, <1>3 DEF BothPending
  <2>2. Min(Runs \ {TofRun}) \in Runs \ {TofRun}
    BY <2>1, MinFacts
  <2>3. ~(tof_bytes <= tpc_bytes)
    BY <1>3
  <2>4. NextRun \in Runs \ {TofRun}
    BY <1>3, <2>2, <2>3 DEF NextRun
  <2> QED
    BY <1>3, <2>4
<1>4. CASE ~BothPending
  <2>1. Min(Runs) \in Runs
    BY <1>1, MinFacts
  <2>2. NextRun = IF active \in Runs THEN active ELSE Min(Runs)
    BY <1>4 DEF NextRun
  <2> QED
    BY <1>4, <2>1, <2>2
<1> QED
  BY <1>2, <1>3, <1>4

(* Of the jobs of that run one comes before all others.                      *)
LEMMA BestExists ==
  ASSUME queued \subseteq Job, queued # {}, tpc_bytes \in Nat, tof_bytes \in Nat,
         \A j, k \in queued : j.file = k.file => j = k
  PROVE  LET best == CHOOSE j \in Of(NextRun) : \A k \in Of(NextRun) \ {j} : Better(j, k)
         IN  best \in queued /\ best.file.run = NextRun
<1> DEFINE run == NextRun
           S == Of(NextRun)
<1>1. S # {} /\ S \subseteq queued /\ S \subseteq Job /\ \A j \in S : j.file.run = run
  BY NextRunFacts DEF Of, Runs
<1>2. \E j \in S : \A k \in S \ {j} : Better(j, k)
  <2> HIDE DEF run, S
  <2>1. CASE run # TofRun
    <3> DEFINE R == {j.file.rank : j \in S}
    <3>1. R \in SUBSET Nat /\ R # {}
      BY <1>1, JobFacts
    <3>2. PICK r \in R : \A q \in R : r <= q
      BY <3>1, LeastNatural
    <3>3. PICK j \in S : j.file.rank = r
      OBVIOUS
    <3>4. ASSUME NEW k \in S \ {j} PROVE Better(j, k)
      <4>1. k.file.rank \in R /\ k.file.rank \in Nat /\ r \in Nat /\ r <= k.file.rank
        BY <3>1, <3>2
      <4>2. k.file.rank # r
        BY <1>1, <3>3, <3>4, JobFacts
      <4>3. j.file.rank < k.file.rank
        BY <3>3, <4>1, <4>2
      <4> QED
        BY <1>1, <2>1, <4>3 DEF Better
    <3> QED
      BY <3>4
  <2>2. CASE run = TofRun
    <3> DEFINE Z == {j.size : j \in S}
    <3>1. Z \in SUBSET Nat /\ Z # {}
      BY <1>1, JobFacts
    <3>2. PICK z \in Z : \A q \in Z : z <= q
      BY <3>1, LeastNatural
    <3> DEFINE R == {j.file.rank : j \in {i \in S : i.size = z}}
    <3>3. R \in SUBSET Nat /\ R # {}
      BY <1>1, <3>2, JobFacts
    <3>4. PICK r \in R : \A q \in R : r <= q
      BY <3>3, LeastNatural
    <3>5. PICK j \in S : j.size = z /\ j.file.rank = r
      OBVIOUS
    <3>6. ASSUME NEW k \in S \ {j} PROVE Better(j, k)
      <4>1. k.size \in Z /\ k.size \in Nat /\ z \in Nat /\ z <= k.size
        BY <3>1, <3>2
      <4>2. CASE k.size # z
        <5>1. j.size < k.size
          BY <3>5, <4>1, <4>2
        <5> QED
          BY <1>1, <2>2, <5>1 DEF Better
      <4>3. CASE k.size = z
        <5>1. k.file.rank \in R /\ k.file.rank \in Nat /\ r \in Nat /\ r <= k.file.rank
          BY <3>3, <3>4, <4>3
        <5>2. k.file.rank # r
          BY <1>1, <3>5, <3>6, <4>3, JobFacts
        <5>3. j.file.rank < k.file.rank
          BY <3>5, <5>1, <5>2
        <5> QED
          BY <1>1, <2>2, <3>5, <4>3, <5>3 DEF Better
      <4> QED
        BY <4>2, <4>3
    <3> QED
      BY <3>6
  <2> QED
    BY <2>1, <2>2
<1> DEFINE best == CHOOSE j \in Of(NextRun) : \A k \in Of(NextRun) \ {j} : Better(j, k)
<1>3. best \in S
  <2> HIDE DEF run
  <2> QED
    BY <1>2
<1> QED
  BY <1>1, <1>3
-----------------------------------------------------------------------------
(* The invariant holds before the first start, and after every halt.         *)
LEMMA MirrorInit == Init => MirrorInv
<1> SUFFICES ASSUME Init PROVE MirrorInv
  OBVIOUS
<1>1. Held
  BY MirrorAssumption DEF Init, Held, Busy
<1>2. PendingExact
  BY DEF Init, PendingExact, Up
<1>3. Served /\ ByteBalance
  BY LargestFacts DEF Init, Served, ByteBalance, Busy
<1> QED
  BY <1>1, <1>2, <1>3 DEF MirrorInv

(* A step that does not touch the queue, the job or the bytes.               *)
LEMMA QuietStep ==
  ASSUME MirrorInv, Held', Busy' = Busy, Up' => Up,
         UNCHANGED <<pending, queued, job, tpc_bytes, tof_bytes>>
  PROVE  MirrorInv'
<1>1. PendingExact' /\ Served' /\ ByteBalance'
  BY DEF MirrorInv, PendingExact, Served, ByteBalance
<1> QED
  BY <1>1 DEF MirrorInv

(* EnqueueCheck makes a job for the file as it is, or none.                  *)
LEMMA CheckFacts ==
  ASSUME Held, NEW f \in Files, NEW wanted, EnqueueCheck(f, wanted)
  PROVE  enq' \in Job \/ enq' = NoJob
<1>1. src[f] \in Nat /\ src[f] <= Largest
  BY LargestFacts, MirrorAssumption DEF Held
<1>2. NeedsCopy(f) => src[f] \in 1 .. Largest
  BY <1>1, LargestFacts DEF NeedsCopy
<1> QED
  BY <1>2 DEF EnqueueCheck, Job

(* EnqueueInsert queues a job for a file that has none.                      *)
LEMMA InsertKeeps ==
  ASSUME MirrorInv, Up, enq \in Job, EnqueueInsert, Busy' = Busy,
         UNCHANGED <<job, tpc_bytes, tof_bytes>>
  PROVE  queued' \subseteq Job /\ PendingExact' /\ Served' /\ ByteBalance'
<1>1. /\ queued \subseteq Job
      /\ pending = {j.file : j \in queued} \cup (IF Busy THEN {job.file} ELSE {})
      /\ \A j, k \in queued : j.file = k.file => j = k
      /\ Busy => \A j \in queued : j.file # job.file
  BY DEF MirrorInv, Held, PendingExact
<1>2. Served' /\ ByteBalance'
  BY DEF MirrorInv, Served, ByteBalance
<1>3. CASE enq.file \in pending
  BY <1>1, <1>2, <1>3 DEF EnqueueInsert, PendingExact
<1>4. CASE enq.file \notin pending
  <2>1. pending' = pending \cup {enq.file} /\ queued' = queued \cup {enq}
    BY <1>4 DEF EnqueueInsert
  <2>2. \A j \in queued : j.file # enq.file
    BY <1>1, <1>4
  <2>3. Busy => enq.file # job.file
    BY <1>1, <1>4
  <2>4. {j.file : j \in queued'} = {j.file : j \in queued} \cup {enq.file}
    BY <2>1
  <2>5. pending' = {j.file : j \in queued'} \cup (IF Busy' THEN {job'.file} ELSE {})
    BY <1>1, <2>1, <2>4
  <2>6. \A j, k \in queued' : j.file = k.file => j = k
    BY <1>1, <2>1, <2>2
  <2>7. Busy' => \A j \in queued' : j.file # job'.file
    BY <1>1, <2>1, <2>3
  <2> QED
    BY <1>1, <1>2, <2>1, <2>5, <2>6, <2>7 DEF PendingExact
<1> QED
  BY <1>3, <1>4

(* The steps of the programs that write files, and of main.                  *)
LEMMA MainKeeps ==
  ASSUME MirrorInv, (\E f \in Files : Write(f) \/ Close(f)) \/ Start \/ Main \/ Signal \/ Crash
  PROVE  MirrorInv'
<1> USE MirrorAssumption
<1>0. Held /\ PendingExact /\ Served /\ ByteBalance
  BY DEF MirrorInv
<1>1. ASSUME NEW f \in Files, Write(f)
      PROVE  MirrorInv'
  <2>1. Held' /\ Busy' = Busy
    BY <1>0, <1>1 DEF Write, Held, Busy, mainVars, watchVars, queueVars, workVars
  <2> QED
    BY <1>1, <2>1, QuietStep DEF Write, Up, mainVars, queueVars, workVars
<1>2. ASSUME NEW f \in Files, Close(f)
      PROVE  MirrorInv'
  <2>1. Held' /\ Busy' = Busy
    BY <1>0, <1>2 DEF Close, Held, Busy, mainVars, queueVars, workVars
  <2> QED
    BY <1>2, <2>1, QuietStep DEF Close, Up, mainVars, queueVars, workVars
<1>3. CASE Start
  <2>1. /\ mpc = "down" /\ mpc' = "scan" /\ UNCHANGED <<src, vpc, pending, queued, enq>>
        /\ UNCHANGED <<wpc, job, tpc_bytes, tof_bytes>>
    BY <1>3 DEF Start, env, watchVars, queueVars, workVars
  <2>2. wpc = "off" /\ vpc = "off" /\ pending = {} /\ queued = {}
    BY <1>0, <2>1 DEF Held
  <2>3. Held' /\ PendingExact'
    BY <1>0, <2>1, <2>2 DEF Held, PendingExact, Busy
  <2>4. Served' /\ ByteBalance'
    BY <1>0, <2>1 DEF Served, ByteBalance, Busy
  <2> QED
    BY <2>3, <2>4 DEF MirrorInv
<1>4. ASSUME NEW f \in Files, ScanFile(f)
      PROVE  MirrorInv'
  <2>1. enq' \in Job \/ enq' = NoJob
    BY <1>0, <1>4, CheckFacts DEF ScanFile
  <2>2. Held' /\ Busy' = Busy
    BY <1>0, <1>4, <2>1 DEF ScanFile, Held, Busy, env, watchVars, workVars
  <2> QED
    BY <1>4, <2>2, QuietStep DEF ScanFile, Up, workVars
<1>5. CASE ScanInsert
  <2>1. Up /\ enq \in Job /\ Busy' = Busy
    BY <1>0, <1>5 DEF ScanInsert, Held, Up, Busy, workVars
  <2>2. queued' \subseteq Job /\ PendingExact' /\ Served' /\ ByteBalance'
    BY <1>5, <2>1, InsertKeeps DEF ScanInsert, workVars
  <2>3. Held'
    BY <1>0, <1>5, <2>2 DEF ScanInsert, Held, Busy, env, watchVars, workVars
  <2> QED
    BY <2>2, <2>3 DEF MirrorInv
<1>6. CASE StartThreads
  <2>1. Held' /\ Busy' = Busy
    BY <1>0, <1>6 DEF StartThreads, Held, Busy, env, queueVars
  <2> QED
    BY <1>6, <2>1, QuietStep DEF StartThreads, Up, queueVars
<1>7. CASE HandlerLock \/ Shutdown \/ Signal
  <2>1. Held' /\ Busy' = Busy
    BY <1>0, <1>7 DEF HandlerLock, Shutdown, Signal, Held, Busy, env, watchVars, queueVars, workVars
  <2>2. Up' => Up
    BY <1>7 DEF HandlerLock, Shutdown, Signal, Up
  <2> QED
    BY <1>7, <2>1, <2>2, QuietStep DEF HandlerLock, Shutdown, Signal, queueVars, workVars
<1>8. CASE Exit \/ Crash
  <2>1. Halt
    BY <1>8 DEF Exit, Crash
  <2>2. Held'
    BY <1>0, <2>1 DEF Halt, Held, Busy, env
  <2>3. PendingExact'
    BY <2>1 DEF Halt, PendingExact, Up
  <2>4. Served' /\ ByteBalance'
    BY <2>1, LargestFacts DEF Halt, Served, ByteBalance, Busy
  <2> QED
    BY <2>2, <2>3, <2>4 DEF MirrorInv
<1> QED
  BY <1>1, <1>2, <1>3, <1>4, <1>5, <1>6, <1>7, <1>8 DEF Main

(* The steps of the watcher.                                                 *)
LEMMA WatcherKeeps ==
  ASSUME MirrorInv, Watcher \/ Rewatch
  PROVE  MirrorInv'
<1>0. Held /\ PendingExact /\ Served /\ ByteBalance
  BY DEF MirrorInv
<1>1. CASE Arm \/ WatchEnd \/ Rewatch
  <2>1. Held' /\ Busy' = Busy
    BY <1>0, <1>1 DEF Arm, WatchEnd, Rewatch, Held, Busy, env, mainVars, queueVars, workVars
  <2> QED
    BY <1>1, <2>1, QuietStep DEF Arm, WatchEnd, Rewatch, Up, mainVars, queueVars, workVars
<1>2. ASSUME NEW f \in Files, Watch(f)
      PROVE  MirrorInv'
  <2>1. enq' \in Job \/ enq' = NoJob
    BY <1>0, <1>2, CheckFacts DEF Watch
  <2>2. mpc \notin {"down", "scan", "insert"}
    BY <1>0, <1>2 DEF Watch, Held
  <2>3. Held' /\ Busy' = Busy
    BY <1>0, <1>2, <2>1, <2>2 DEF Watch, Held, Busy, env, mainVars, workVars
  <2> QED
    BY <1>2, <2>3, QuietStep DEF Watch, Up, mainVars, workVars
<1>3. CASE WatchInsert
  <2>1. Up /\ enq \in Job /\ Busy' = Busy /\ mpc \notin {"down", "scan", "insert"}
    BY <1>0, <1>3 DEF WatchInsert, Held, Up, Busy, workVars
  <2>2. queued' \subseteq Job /\ PendingExact' /\ Served' /\ ByteBalance'
    BY <1>3, <2>1, InsertKeeps DEF WatchInsert, workVars
  <2>3. Held'
    BY <1>0, <1>3, <2>1, <2>2 DEF WatchInsert, Held, Busy, env, mainVars, workVars
  <2> QED
    BY <2>2, <2>3 DEF MirrorInv
<1> QED
  BY <1>1, <1>2, <1>3 DEF Watcher

(* The steps of the worker.                                                  *)
LEMMA WorkerKeeps ==
  ASSUME MirrorInv, Worker
  PROVE  MirrorInv'
<1>0. Held /\ PendingExact /\ Served /\ ByteBalance
  BY DEF MirrorInv
<1>1. wpc # "off" => Up /\ mpc \notin {"down", "scan", "insert"}
  BY <1>0 DEF Held, Up
<1>2. CASE PopNext /\ queued # {}
  <2> DEFINE best == CHOOSE j \in Of(NextRun) : \A k \in Of(NextRun) \ {j} : Better(j, k)
  <2>1. /\ wpc = "pop" /\ wpc' = "copy" /\ job' = best /\ queued' = queued \ {best}
        /\ tpc_bytes' = IF BothPending THEN tpc_bytes ELSE 0
        /\ tof_bytes' = IF BothPending THEN tof_bytes ELSE 0
        /\ UNCHANGED <<src, mpc, vpc, pending, enq>>
    BY <1>2 DEF PopNext, env, mainVars, watchVars
  <2>2. Up /\ ~Busy /\ Busy' /\ Up' /\ mpc \notin {"down", "scan", "insert"}
    BY <1>1, <2>1 DEF Busy, Up
  <2>3. /\ queued \subseteq Job /\ tpc_bytes \in Nat /\ tof_bytes \in Nat
        /\ pending = {j.file : j \in queued}
        /\ \A j, k \in queued : j.file = k.file => j = k
    BY <1>0, <2>2 DEF Held, PendingExact, Served
  <2>4. best \in queued /\ best.file.run = NextRun
    BY <1>2, <2>3, BestExists
  <2> HIDE DEF best
  <2>5. Held'
    BY <1>0, <2>1, <2>2, <2>3, <2>4 DEF Held
  <2>6. PendingExact'
    BY <2>1, <2>2, <2>3, <2>4 DEF PendingExact
  <2>7. Served' /\ ByteBalance'
    <3>1. CASE BothPending
      BY <1>0, <1>2, <2>1, <2>3, <2>4, <3>1, NextRunFacts, LargestFacts DEF Served, ByteBalance
    <3>2. CASE ~BothPending
      BY <2>1, <3>2, LargestFacts DEF Served, ByteBalance
    <3> QED
      BY <3>1, <3>2
  <2> QED
    BY <2>5, <2>6, <2>7 DEF MirrorInv
<1>3. CASE PopNext /\ queued = {}
  <2>1. /\ wpc = "pop" /\ wpc' = "wait" /\ UNCHANGED <<job, queued>>
        /\ tpc_bytes' = IF BothPending THEN tpc_bytes ELSE 0
        /\ tof_bytes' = IF BothPending THEN tof_bytes ELSE 0
        /\ UNCHANGED <<src, mpc, vpc, pending, enq>>
    BY <1>3 DEF PopNext, env, mainVars, watchVars
  <2>2. ~Busy /\ ~Busy' /\ mpc \notin {"down", "scan", "insert"}
    BY <1>1, <2>1 DEF Busy
  <2>3. Held' /\ PendingExact'
    BY <1>0, <2>1, <2>2 DEF Held, PendingExact, Up
  <2>4. Served' /\ ByteBalance'
    BY <1>0, <2>1, <2>2, LargestFacts DEF Served, ByteBalance
  <2> QED
    BY <2>3, <2>4 DEF MirrorInv
<1>4. CASE Wait
  <2>1. Held' /\ Busy' = Busy
    BY <1>0, <1>1, <1>4 DEF Wait, Held, Busy, env, mainVars, watchVars, queueVars
  <2> QED
    BY <1>4, <2>1, QuietStep DEF Wait, Up, mainVars, queueVars
<1>5. CASE CopyStart \/ CopyRename \/ CopyFail \/ SaveStateEntry
  <2>1. /\ Busy /\ Busy' /\ wpc # "off"
        /\ UNCHANGED <<src, mpc, vpc, pending, queued, enq, job, tpc_bytes, tof_bytes>>
    BY <1>5 DEF CopyStart, CopyRename, CopyFail, SaveStateEntry, Busy, env, mainVars,
                watchVars, queueVars
  <2>2. Held'
    BY <1>0, <1>1, <2>1 DEF Held
  <2> QED
    BY <2>1, <2>2, QuietStep DEF Up
<1>6. CASE Erase
  <2> DEFINE bytes == IF got > 0 THEN job.size ELSE 0
  <2>1. /\ wpc = "erase" /\ wpc' = "pop" /\ pending' = pending \ {job.file}
        /\ tof_bytes' = IF job.file.run = TofRun THEN tof_bytes + bytes ELSE tof_bytes
        /\ tpc_bytes' = IF job.file.run = TofRun THEN tpc_bytes ELSE tpc_bytes + bytes
        /\ UNCHANGED <<src, mpc, vpc, queued, enq>>
    BY <1>6 DEF Erase, env, mainVars, watchVars
  <2>2. Busy /\ ~Busy' /\ Up /\ mpc \notin {"down", "scan", "insert"}
    BY <1>1, <2>1 DEF Busy
  <2>3. bytes \in 0 .. Largest
    BY <1>0, <2>2, JobFacts, LargestFacts DEF Held
  <2> HIDE DEF bytes
  <2>4. Held'
    BY <1>0, <2>1, <2>2 DEF Held
  <2>5. PendingExact'
    <3>1. /\ pending = {j.file : j \in queued} \cup {job.file}
          /\ \A j, k \in queued : j.file = k.file => j = k
          /\ \A j \in queued : j.file # job.file
      BY <1>0, <2>2 DEF PendingExact
    <3>2. pending' = {j.file : j \in queued'}
      BY <2>1, <3>1
    <3> QED
      BY <2>1, <2>2, <3>1, <3>2 DEF PendingExact
  <2>6. Served'
    BY <1>0, <2>1, <2>2, <2>3, LargestFacts DEF Served
  <2>7. ByteBalance'
    BY <1>0, <2>1, <2>2, <2>3, LargestFacts DEF Served, ByteBalance
  <2> QED
    BY <2>4, <2>5, <2>6, <2>7 DEF MirrorInv
<1> QED
  BY <1>2, <1>3, <1>4, <1>5, <1>6 DEF Worker

(* Every step keeps the invariant.                                           *)
LEMMA MirrorStep == MirrorInv /\ [Next]_vars => MirrorInv'
<1> SUFFICES ASSUME MirrorInv, [Next]_vars PROVE MirrorInv'
  OBVIOUS
<1>1. CASE UNCHANGED vars
  <2>1. Held' /\ Busy' = Busy
    BY <1>1 DEF MirrorInv, Held, Busy, vars, env, mainVars, watchVars, queueVars, workVars
  <2> QED
    BY <1>1, <2>1, QuietStep DEF Up, vars, mainVars, queueVars, workVars
<1> QED
  BY <1>1, MainKeeps, WatcherKeeps, WorkerKeeps DEF Next

(* The inductive invariant holds in every state of every behaviour.          *)
THEOREM MirrorInvariant == Spec => []MirrorInv
  BY MirrorInit, MirrorStep, PTL DEF Spec

(* While the daemon is up a file is in pending_ exactly as long as it has    *)
(* one job, queued or being copied                                           *)
(* (mirror_engine.cpp:453-459, :534-549, :688-692).                          *)
THEOREM PendingExactHolds == Spec => []PendingExact
<1>1. MirrorInv => PendingExact
  BY DEF MirrorInv
<1> QED
  BY <1>1, MirrorInvariant, PTL

(* While both sides have files waiting neither gets more than one file ahead *)
(* of the other (mirror_engine.cpp:542-546, :723-737).                       *)
THEOREM ByteBalanceHolds == Spec => []ByteBalance
<1>1. MirrorInv => ByteBalance
  BY DEF MirrorInv
<1> QED
  BY <1>1, MirrorInvariant, PTL
=============================================================================
