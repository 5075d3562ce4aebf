------------------------- MODULE DownloadBatchProofs -------------------------
(***************************************************************************)
(* What a batch keeps for any URLs, hosts, limits, faults and redirects,   *)
(* with a deadline and without: its types, the permits, the bound on the   *)
(* retries, the lengths of the names, that the files are those the results *)
(* tell of, and that it implements BatchPromise; without redirects the cap *)
(* of a host.  The set of all URLs need not be finite.                     *)
(***************************************************************************)
EXTENDS DownloadBatch, FiniteSetTheorems, WellFoundedInduction, TLAPS

Places == {"spawned", "global"} \cup WithGlobal \cup Ended \cup Gone

\* The state but for the permits.
Shape ==
    /\ urls \in Seq(Urls)
    /\ phase \in {"start", "collecting", "summary", "returned"}
    /\ task \in [Urls -> Task]
    /\ DOMAIN host_sems \subseteq Hosts
    /\ io \in [Urls -> [path : Paths \cup {NoPath}, stage : Stages]]
    /\ files \in [Paths -> Contents]
    /\ \A u \in DOMAIN result_map : u \in Urls /\ result_map[u] \in Result
    /\ results \in Seq(Result)

\* A task belongs to a URL of the input, and asks for permits if it has a host; a
\* write that is under way has a path.
TaskSound(u) ==
    /\ task[u].pc # "absent" => u \in Range(urls)
    /\ task[u].pc \in {"global"} \cup WithGlobal => HostOf[u] \in Hosts
    /\ task[u].pc \in {"host"} \cup WithHost => HostOf[u] \in DOMAIN host_sems
    /\ task[u].pc = "sidecar" => u \in Range(urls)
    /\ io[u].stage \in {"queued", "open"} => io[u].path \in Paths

\* Tasks run while the batch collects.
OnlyCollecting == phase # "collecting" => \A u \in Urls : task[u].pc \in Gone
NotStarted == phase = "start" => \A u \in Urls : task[u].pc = "absent"

Sound == Shape /\ (\A u \in Urls : TaskSound(u)) /\ OnlyCollecting /\ NotStarted

-----------------------------------------------------------------------------
(* Helpers *)

\* The names of a batch depend on its input alone.
LEMMA SameInput ==
    ASSUME urls' = urls
    PROVE  /\ \A u : FileName(u)' = FileName(u)
           /\ Range(urls)' = Range(urls)
           /\ Names' = Names /\ Paths' = Paths /\ Result' = Result /\ Task' = Task
  <1>1. \A u : first_index(u)' = first_index(u)
    BY DEF first_index
  <1>2. \A u : FileName(u)' = FileName(u)
    BY <1>1 DEF FileName
  <1>3. Range(urls)' = Range(urls)
    BY DEF Range
  <1>4. Names' = Names
    BY <1>2, <1>3 DEF Names
  <1>5. Paths' = Paths /\ Result' = Result
    BY <1>4 DEF Paths, Result
  <1> QED
    BY <1>2, <1>3, <1>4, <1>5 DEF Task

LEMMA FailureIsResult ==
    ASSUME NEW u \in Urls, NEW e \in Errors \cup {"TaskPanicked"}, NEW n \in Nat
    PROVE  Failure(u, e, n) \in Result
  BY DEF Failure, Result

LEMMA SuccessIsResult ==
    ASSUME NEW u \in Urls, u \in Range(urls)
    PROVE  Success(u) \in Result
  <1>1. FileName(u) \in Names
    BY DEF Names
  <1> QED
    BY <1>1 DEF Success, Result

LEMMA NamesArePaths ==
    /\ \A u \in Range(urls) : FileName(u) \in Paths /\ Sidecar(FileName(u)) \in Paths
    /\ SummaryPath \in Paths
  BY DEF Paths, Names

LEMMA RetriesAreNat ==
    ASSUME NEW t \in Task
    PROVE  RetriesOf(t) \in Nat
  BY DEF Task, RetriesOf

\* A step of the task of u leaves its leg, its host and its counters alone.
SameCounts(u) ==
    /\ task'[u].leg = task[u].leg /\ task'[u].host = task[u].host
    /\ task'[u].attempt = task[u].attempt /\ task'[u].retried = task[u].retried
OnlyPlace(u) == SameCounts(u) /\ task'[u].retries_attempted = task[u].retries_attempted

LEMMA AfterGoto ==
    ASSUME task \in [Urls -> Task], NEW u \in Urls, NEW p \in Places, Goto(u, p)
    PROVE  /\ task' \in [Urls -> Task]
           /\ task'[u].pc = p
           /\ OnlyPlace(u)
           /\ \A v \in Urls \ {u} : task'[v] = task[v]
  <1>1. task[u] \in Task
    OBVIOUS
  <1>2. [task[u] EXCEPT !.pc = p] \in Task
    BY <1>1 DEF Task, Places
  <1>3. task' = [task EXCEPT ![u] = [task[u] EXCEPT !.pc = p]]
    BY DEF Goto
  <1>4. task'[u] = [task[u] EXCEPT !.pc = p]
    BY <1>3
  <1>5. task'[u].pc = p /\ OnlyPlace(u)
    BY <1>1, <1>4 DEF Task, OnlyPlace, SameCounts
  <1> QED
    BY <1>2, <1>3, <1>5

LEMMA AfterBackoff ==
    ASSUME task \in [Urls -> Task], NEW u \in Urls, BackoffEnds(u)
    PROVE  /\ task' \in [Urls -> Task]
           /\ task'[u].pc = "acquiring"
           /\ task'[u].leg = task[u].leg /\ task'[u].host = task[u].host
           /\ task'[u].attempt = task[u].attempt + 1
           /\ task'[u].retried[task[u].leg] = task[u].retried[task[u].leg] + 1
           /\ \A l \in {1, 2} \ {task[u].leg} : task'[u].retried[l] = task[u].retried[l]
           /\ \A v \in Urls \ {u} : task'[v] = task[v]
  <1> DEFINE counts == [task[u].retried EXCEPT ![task[u].leg] = @ + 1]
             t == [task[u] EXCEPT !.pc = "acquiring", !.attempt = task[u].attempt + 1,
                                  !.retried = counts]
  <1>1. task[u] \in Task /\ "acquiring" \in Places
    BY DEF Places, WithGlobal, WithHost, Requesting
  <1>0. task[u].leg \in {1, 2} /\ task[u].retried \in [{1, 2} -> Nat] /\ task[u].attempt \in Nat
    BY <1>1 DEF Task
  <1>2. /\ task[u].attempt + 1 \in Nat /\ counts \in [{1, 2} -> Nat]
        /\ counts[task[u].leg] = task[u].retried[task[u].leg] + 1
        /\ \A l \in {1, 2} \ {task[u].leg} : counts[l] = task[u].retried[l]
    BY <1>0
  <1>4. task' = [task EXCEPT ![u] = t]
    BY DEF BackoffEnds
  <1> HIDE DEF counts
  <1>3. t \in Task
    BY <1>1, <1>2 DEF Task, Places
  <1>5. task'[u] = t
    BY <1>4
  <1>6. /\ t.pc = "acquiring" /\ t.leg = task[u].leg /\ t.host = task[u].host
        /\ t.attempt = task[u].attempt + 1 /\ t.retried = counts
    BY <1>1 DEF Task
  <1> QED
    BY <1>2, <1>3, <1>4, <1>5, <1>6

LEMMA AfterFinish ==
    ASSUME task \in [Urls -> Task], NEW u \in Urls, NEW t \in Task, NEW r \in Result,
           Finish(u, t, r)
    PROVE  /\ task' \in [Urls -> Task]
           /\ task'[u].pc = "finished" /\ task'[u].result = r
           /\ task'[u].leg = t.leg /\ task'[u].host = t.host
           /\ task'[u].attempt = t.attempt /\ task'[u].retried = t.retried
           /\ \A v \in Urls \ {u} : task'[v] = task[v]
           /\ ReleasePermits(u)
  <1> DEFINE f == [t EXCEPT !.pc = "finished", !.result = r]
  <1>1. f \in Task
    BY DEF Task, Ended
  <1>2. task' = [task EXCEPT ![u] = f]
    BY DEF Finish
  <1>3. task'[u] = f
    BY <1>2
  <1>4. /\ f.pc = "finished" /\ f.result = r
        /\ f.leg = t.leg /\ f.host = t.host /\ f.attempt = t.attempt /\ f.retried = t.retried
    BY DEF Task
  <1> QED
    BY <1>1, <1>2, <1>3, <1>4 DEF Finish

-----------------------------------------------------------------------------
(* A step of one download *)

\* What a step of a task does with its permits.
Keeps(u) ==
    /\ UNCHANGED <<global_sem, host_sems>>
    /\ task[u].pc \in WithGlobal <=> task'[u].pc \in WithGlobal
    /\ task[u].pc \in WithHost <=> task'[u].pc \in WithHost
    /\ task'[u].pc \in {"host", "host_lock"} => task'[u].pc = task[u].pc
    /\ task'[u].pc = "global" => HostOf[u] \in Hosts
TakesGlobal(u) ==
    /\ task[u].pc = "global" /\ task'[u].pc = "host_lock"
    /\ global_sem > 0 /\ global_sem' = global_sem - 1
    /\ UNCHANGED host_sems
AsksForHost(u) ==
    /\ task[u].pc = "host_lock" /\ task'[u].pc = "host"
    /\ host_sems' = OrInsert(HostOf[u])
    /\ UNCHANGED global_sem
TakesHost(u) ==
    /\ task[u].pc = "host" /\ task'[u].pc = "acquiring"
    /\ host_sems[HostOf[u]] > 0
    /\ host_sems' = [host_sems EXCEPT ![HostOf[u]] = @ - 1]
    /\ UNCHANGED global_sem
Releases(u) ==
    /\ task[u].pc \in WithHost /\ task'[u].pc \in Ended
    /\ ReleasePermits(u)

PermitStep(u) == Keeps(u) \/ TakesGlobal(u) \/ AsksForHost(u) \/ TakesHost(u) \/ Releases(u)

\* What a task has counted in each loop: attempt is the count of the running one.
Bounded(t) ==
    /\ t.attempt <= MaxRetries
    /\ t.pc = "backoff" => t.attempt < MaxRetries
    /\ t.retried[t.leg] = t.attempt
    /\ \A leg \in {1, 2} : t.retried[leg] <= MaxRetries
    /\ t.leg = 1 => t.retried[2] = 0

\* Where no redirect leads to another host.
Direct(u, t) == t.leg = 1 /\ t.host = HostOf[u]

CountStep(u) ==
    /\ Bounded(task[u]) => Bounded(task'[u])
    /\ RedirectsTo = {} /\ Direct(u, task[u]) => Direct(u, task'[u])
    /\ task'[u].pc = "finished" => task'[u].result.url = u

WriteStep(u) ==
    /\ io' \in [Urls -> [path : Paths \cup {NoPath}, stage : Stages]]
    /\ \A v \in Urls \ {u} : io'[v] = io[v]
    /\ io'[u].stage \in {"queued", "open"} => io'[u].path \in Paths

StepOf(u) ==
    /\ task' \in [Urls -> Task]
    /\ \A v \in Urls \ {u} : task'[v] = task[v]
    /\ task[u].pc \notin Gone \cup Ended /\ task'[u].pc \notin Gone
    /\ WriteStep(u)
    /\ PermitStep(u)
    /\ CountStep(u)
    /\ UNCHANGED <<urls, phase, files, result_map, results>>

\* A failed attempt is repeated after a pause, or the download ends.
LEMMA AfterAttemptFails ==
    ASSUME Sound, NEW u \in Urls, task[u].pc \in Requesting,
           NEW e \in Errors, AttemptFails(u, e)
    PROVE  /\ task' \in [Urls -> Task]
           /\ \A v \in Urls \ {u} : task'[v] = task[v]
           /\ \/ /\ RetryAgain(task[u], e)
                 /\ task'[u].pc = "backoff" /\ OnlyPlace(u)
                 /\ UNCHANGED <<global_sem, host_sems>>
              \/ /\ task'[u].pc = "finished" /\ SameCounts(u)
                 /\ task'[u].result = Failure(u, e, RetriesOf(task[u]))
                 /\ ReleasePermits(u)
  <1> DEFINE n == IF e = "TooManyRedirects" THEN MaxRedirects + 1 ELSE task[u].hops
             t == [task[u] EXCEPT !.hops = n]
             r == Failure(u, e, RetriesOf(task[u]))
  <1>1. task \in [Urls -> Task] /\ task[u] \in Task
    BY DEF Sound, Shape
  <1>2. CASE RetryAgain(task[u], e)
    <2>1. Goto(u, "backoff") /\ UNCHANGED <<global_sem, host_sems>>
      BY <1>2 DEF AttemptFails
    <2>2. "backoff" \in Places
      BY DEF Places, WithGlobal, WithHost
    <2> QED
      BY <1>1, <1>2, <2>1, <2>2, AfterGoto
  <1>3. CASE ~ RetryAgain(task[u], e)
    <2>1. Finish(u, t, r)
      BY <1>3 DEF AttemptFails
    <2>2. n \in Nat
      BY <1>1, BatchConfigAssumption DEF Task
    <2>3. /\ t \in Task
          /\ t.leg = task[u].leg /\ t.host = task[u].host
          /\ t.attempt = task[u].attempt /\ t.retried = task[u].retried
      BY <1>1, <2>2 DEF Task
    <2>4. r \in Result
      BY <1>1, RetriesAreNat, FailureIsResult
    <2> HIDE DEF t, r
    <2>5. /\ task' \in [Urls -> Task]
          /\ task'[u].pc = "finished" /\ task'[u].result = r
          /\ task'[u].leg = t.leg /\ task'[u].host = t.host
          /\ task'[u].attempt = t.attempt /\ task'[u].retried = t.retried
          /\ \A v \in Urls \ {u} : task'[v] = task[v]
          /\ ReleasePermits(u)
      BY <1>1, <2>1, <2>3, <2>4, AfterFinish
    <2> QED
      BY <2>3, <2>5 DEF SameCounts, r
  <1> QED
    BY <1>2, <1>3

\* A task that moves on keeps its counts, ...
LEMMA GoesOn ==
    ASSUME NEW u \in Urls, task[u] \in Task, task' \in [Urls -> Task], OnlyPlace(u),
           task'[u].pc # "finished",
           task'[u].pc = "backoff" => task[u].attempt < MaxRetries
    PROVE  CountStep(u)
  BY DEF OnlyPlace, SameCounts, CountStep, Bounded, Direct

\* ... and so does one that ends.
LEMMA EndsWithFailure ==
    ASSUME NEW u \in Urls, task[u] \in Task, task' \in [Urls -> Task], SameCounts(u),
           task'[u].pc = "finished", NEW e, NEW n,
           task'[u].result = Failure(u, e, n)
    PROVE  CountStep(u)
  <1>1. task'[u].result.url = u
    BY DEF Failure
  <1> QED
    BY <1>1 DEF SameCounts, CountStep, Bounded, Direct

LEMMA EndsWithSuccess ==
    ASSUME NEW u \in Urls, task[u] \in Task, task' \in [Urls -> Task], SameCounts(u),
           task'[u].pc = "finished", task'[u].result = Success(u)
    PROVE  CountStep(u)
  <1>1. task'[u].result.url = u
    BY DEF Success
  <1> QED
    BY <1>1 DEF SameCounts, CountStep, Bounded, Direct

LEMMA OneStep ==
    ASSUME Sound, NEW u \in Urls, DownloadOne(u)
    PROVE  StepOf(u)
  <1>1. /\ task \in [Urls -> Task] /\ task[u] \in Task
        /\ io \in [Urls -> [path : Paths \cup {NoPath}, stage : Stages]]
        /\ TaskSound(u)
    BY DEF Sound, Shape
  <1> USE DEF WithGlobal, WithHost, Requesting, Ended, Gone, Places
  <1>io. io' = io => WriteStep(u)
    BY <1>1 DEF WriteStep, TaskSound
  <1>2. CASE ParseUrl(u)
    <2>1. CASE HostOf[u] = NoHost
      <3>1. Failure(u, "ConnectionFailed", 0) \in Result
        BY FailureIsResult DEF Errors, AcquireErrors
      <3>2. /\ task' = [task EXCEPT ![u] = [task[u] EXCEPT !.pc = "finished",
                                         !.result = Failure(u, "ConnectionFailed", 0)]]
            /\ task[u].pc = "spawned"
            /\ UNCHANGED <<urls, phase, global_sem, host_sems, io, files, result_map, results>>
        BY <1>2, <2>1 DEF ParseUrl
      <3>3. [task[u] EXCEPT !.pc = "finished", !.result = Failure(u, "ConnectionFailed", 0)] \in Task
        BY <1>1, <3>1 DEF Task
      <3> DEFINE f == [task[u] EXCEPT !.pc = "finished",
                                      !.result = Failure(u, "ConnectionFailed", 0)]
      <3>4. /\ f.pc = "finished" /\ f.result = Failure(u, "ConnectionFailed", 0)
            /\ f.leg = task[u].leg /\ f.host = task[u].host
            /\ f.attempt = task[u].attempt /\ f.retried = task[u].retried
        BY <1>1 DEF Task
      <3>5. task' \in [Urls -> Task] /\ task'[u] = f
            /\ \A v \in Urls \ {u} : task'[v] = task[v]
        BY <1>1, <3>2, <3>3
      <3> HIDE DEF f
      <3>6. SameCounts(u) /\ task'[u].pc = "finished"
            /\ task'[u].result = Failure(u, "ConnectionFailed", 0)
        BY <3>4, <3>5 DEF SameCounts
      <3>7. CountStep(u)
        BY <1>1, <3>5, <3>6, EndsWithFailure
      <3> QED
        BY <1>1, <1>io, <3>2, <3>5, <3>6, <3>7 DEF StepOf, PermitStep, Keeps
    <2>2. CASE HostOf[u] # NoHost
      <3>1. HostOf[u] \in Hosts
        BY <2>2, BatchUrlsAssumption
      <3>2. Goto(u, "global") /\ task[u].pc = "spawned"
            /\ UNCHANGED <<urls, phase, global_sem, host_sems, io, files, result_map, results>>
        BY <1>2, <2>2 DEF ParseUrl
      <3>3. task' \in [Urls -> Task] /\ task'[u].pc = "global" /\ OnlyPlace(u)
            /\ \A v \in Urls \ {u} : task'[v] = task[v]
        BY <1>1, <3>2, AfterGoto
      <3>4. CountStep(u)
        BY <1>1, <3>3, GoesOn
      <3> QED
        BY <1>1, <1>io, <3>1, <3>2, <3>3, <3>4 DEF StepOf, PermitStep, Keeps
    <2> QED
      BY <2>1, <2>2
  <1>go. ASSUME NEW p \in WithGlobal \cup {"panicked"}, Goto(u, p),
                p # "backoff"
         PROVE  /\ task' \in [Urls -> Task] /\ task'[u].pc = p
                /\ \A v \in Urls \ {u} : task'[v] = task[v]
                /\ CountStep(u)
    <2>1. task' \in [Urls -> Task] /\ task'[u].pc = p /\ OnlyPlace(u)
          /\ \A v \in Urls \ {u} : task'[v] = task[v]
      BY <1>1, <1>go, AfterGoto
    <2> QED
      BY <1>1, <1>go, <2>1, GoesOn
  <1>3. CASE AcquireGlobal(u)
    BY <1>1, <1>io, <1>3, <1>go DEF AcquireGlobal, StepOf, PermitStep, TakesGlobal
  <1>4. CASE HostSemaphore(u)
    BY <1>1, <1>io, <1>4, <1>go DEF HostSemaphore, StepOf, PermitStep, AsksForHost
  <1>5. CASE AcquireHost(u)
    BY <1>1, <1>io, <1>5, <1>go DEF AcquireHost, StepOf, PermitStep, TakesHost
  <1>6. CASE AcquireFails(u) \/ RequestFails(u)
    <2>1. PICK e \in Errors : AttemptFails(u, e)
      BY <1>6 DEF AcquireFails, RequestFails, Errors
    <2>2. task[u].pc \in Requesting
          /\ UNCHANGED <<urls, phase, io, files, result_map, results>>
      BY <1>6 DEF AcquireFails, RequestFails
    <2>3. /\ task' \in [Urls -> Task]
          /\ \A v \in Urls \ {u} : task'[v] = task[v]
      BY <2>1, <2>2, AfterAttemptFails
    <2>4. CASE /\ RetryAgain(task[u], e)
               /\ task'[u].pc = "backoff" /\ OnlyPlace(u)
               /\ UNCHANGED <<global_sem, host_sems>>
      <3>1. task[u].attempt < MaxRetries
        BY <2>4 DEF RetryAgain
      <3>2. CountStep(u)
        BY <1>1, <2>3, <2>4, <3>1, GoesOn
      <3> QED
        BY <1>1, <1>io, <2>2, <2>3, <2>4, <3>2 DEF StepOf, PermitStep, Keeps
    <2>5. CASE /\ task'[u].pc = "finished" /\ SameCounts(u)
               /\ task'[u].result = Failure(u, e, RetriesOf(task[u]))
               /\ ReleasePermits(u)
      <3>1. CountStep(u)
        BY <1>1, <2>3, <2>5, EndsWithFailure
      <3> QED
        BY <1>1, <1>io, <2>2, <2>3, <2>5, <3>1 DEF StepOf, PermitStep, Releases
    <2> QED
      BY <2>1, <2>2, <2>4, <2>5, AfterAttemptFails
  <1>7. CASE AcquireReturns(u)
    BY <1>1, <1>io, <1>7, <1>go DEF AcquireReturns, StepOf, PermitStep, Keeps
  <1>8. CASE BackoffEnds(u)
    <2>1. task[u].pc = "backoff"
          /\ UNCHANGED <<urls, phase, global_sem, host_sems, io, files, result_map, results>>
      BY <1>8 DEF BackoffEnds
    <2>2. /\ task' \in [Urls -> Task]
          /\ task'[u].pc = "acquiring"
          /\ task'[u].leg = task[u].leg /\ task'[u].host = task[u].host
          /\ task'[u].attempt = task[u].attempt + 1
          /\ task'[u].retried[task[u].leg] = task[u].retried[task[u].leg] + 1
          /\ \A l \in {1, 2} \ {task[u].leg} : task'[u].retried[l] = task[u].retried[l]
          /\ \A v \in Urls \ {u} : task'[v] = task[v]
      BY <1>1, <1>8, AfterBackoff
    <2>3. task[u].attempt \in Nat /\ task[u].leg \in {1, 2}
      BY <1>1 DEF Task
    <2>4. CountStep(u)
      BY <2>1, <2>2, <2>3, BatchConfigAssumption DEF CountStep, Bounded, Direct
    <2> QED
      BY <1>1, <1>io, <2>1, <2>2, <2>4 DEF StepOf, PermitStep, Keeps
  <1>end. ASSUME NEW t \in Task, t.leg = task[u].leg, t.host = task[u].host,
                 t.attempt = task[u].attempt, t.retried = task[u].retried,
                 NEW r \in Result, Finish(u, t, r)
          PROVE  /\ task' \in [Urls -> Task] /\ task'[u].pc = "finished"
                 /\ task'[u].result = r
                 /\ SameCounts(u)
                 /\ \A v \in Urls \ {u} : task'[v] = task[v]
                 /\ ReleasePermits(u)
    BY <1>1, <1>end, AfterFinish DEF SameCounts
  <1>fail. ASSUME NEW t \in Task, t.leg = task[u].leg, t.host = task[u].host,
                  t.attempt = task[u].attempt, t.retried = task[u].retried,
                  NEW e \in Errors, NEW n \in Nat, Finish(u, t, Failure(u, e, n))
           PROVE  /\ task' \in [Urls -> Task] /\ task'[u].pc = "finished"
                  /\ \A v \in Urls \ {u} : task'[v] = task[v]
                  /\ ReleasePermits(u)
                  /\ CountStep(u)
    <2>1. Failure(u, e, n) \in Result
      BY FailureIsResult
    <2>2. /\ task' \in [Urls -> Task] /\ task'[u].pc = "finished"
          /\ task'[u].result = Failure(u, e, n)
          /\ SameCounts(u)
          /\ \A v \in Urls \ {u} : task'[v] = task[v]
          /\ ReleasePermits(u)
      BY <1>fail, <1>end, <2>1
    <2> QED
      BY <1>1, <1>fail, <2>2, EndsWithFailure
  <1>succeed. ASSUME Finish(u, task[u], Success(u)), u \in Range(urls)
           PROVE  /\ task' \in [Urls -> Task] /\ task'[u].pc = "finished"
                  /\ \A v \in Urls \ {u} : task'[v] = task[v]
                  /\ ReleasePermits(u)
                  /\ CountStep(u)
    <2>1. Success(u) \in Result
      BY <1>succeed, SuccessIsResult
    <2>2. /\ task' \in [Urls -> Task] /\ task'[u].pc = "finished"
          /\ task'[u].result = Success(u)
          /\ SameCounts(u)
          /\ \A v \in Urls \ {u} : task'[v] = task[v]
          /\ ReleasePermits(u)
      BY <1>1, <1>succeed, <1>end, <2>1
    <2> QED
      BY <1>1, <2>2, EndsWithSuccess
  <1>nat. RetriesOf(task[u]) \in Nat /\ task[u].retries_attempted \in Nat
    BY <1>1, RetriesAreNat DEF Task
  <1>9. CASE RequestRedirects(u)
    <2>1. task[u].pc = "requesting"
          /\ UNCHANGED <<urls, phase, io, files, result_map, results>>
      BY <1>9 DEF RequestRedirects
    <2>2. PICK new \in RedirectsTo \ {task[u].host}, n \in 1 .. (MaxRedirects - task[u].hops) :
            LET after == [task[u] EXCEPT !.hops = @ + n,
                                         !.retries_attempted = RetriesOf(task[u])]
            IN  IF task[u].leg = 2 \/ new = NoHost
                THEN Finish(u, after, Failure(u, "TooManyRedirects", RetriesOf(task[u])))
                ELSE /\ task' = [task EXCEPT ![u] = [after EXCEPT !.pc = "acquiring",
                                                                  !.leg = 2,
                                                                  !.host = new,
                                                                  !.attempt = 0]]
                     /\ UNCHANGED <<global_sem, host_sems>>
      BY <1>9 DEF RequestRedirects
    <2> DEFINE after == [task[u] EXCEPT !.hops = task[u].hops + n,
                                        !.retries_attempted = RetriesOf(task[u])]
               second == [after EXCEPT !.pc = "acquiring", !.leg = 2, !.host = new,
                                       !.attempt = 0]
    <2>3. task[u].hops + n \in Nat
      BY <1>1, BatchConfigAssumption DEF Task
    <2>4. /\ after \in Task
          /\ after.leg = task[u].leg /\ after.host = task[u].host
          /\ after.attempt = task[u].attempt /\ after.retried = task[u].retried
      BY <1>1, <1>nat, <2>3 DEF Task
    <2>5. CASE task[u].leg = 2 \/ new = NoHost
      <3>1. Finish(u, after, Failure(u, "TooManyRedirects", RetriesOf(task[u])))
        BY <2>2, <2>5
      <3>2. "TooManyRedirects" \in Errors
        BY DEF Errors, RequestErrors
      <3> HIDE DEF after
      <3>3. /\ task' \in [Urls -> Task] /\ task'[u].pc = "finished"
            /\ \A v \in Urls \ {u} : task'[v] = task[v]
            /\ ReleasePermits(u)
            /\ CountStep(u)
        BY <1>fail, <1>nat, <2>4, <3>1, <3>2
      <3> QED
        BY <1>1, <1>io, <2>1, <3>3 DEF StepOf, PermitStep, Releases
    <2>6. CASE ~ (task[u].leg = 2 \/ new = NoHost)
      <3>1. task' = [task EXCEPT ![u] = second] /\ UNCHANGED <<global_sem, host_sems>>
        BY <2>2, <2>6
      <3>2. "acquiring" \in Places /\ new \in Hosts
        BY <2>6, BatchUrlsAssumption
      <3> HIDE DEF after
      <3>3. second \in Task
        BY <2>4, <3>2 DEF Task, Places
      <3>4. second.pc = "acquiring" /\ second.leg = 2 /\ second.attempt = 0
            /\ second.retried = task[u].retried
        BY <2>4 DEF Task
      <3> HIDE DEF second
      <3>5. task' \in [Urls -> Task] /\ task'[u] = second
            /\ \A v \in Urls \ {u} : task'[v] = task[v]
        BY <1>1, <3>1, <3>3
      <3>6. task[u].leg = 1 /\ task[u].attempt \in Nat
        BY <1>1, <2>6 DEF Task
      <3>7. CountStep(u)
        BY <3>4, <3>5, <3>6, BatchConfigAssumption DEF CountStep, Bounded
      <3> QED
        BY <1>1, <1>io, <2>1, <3>1, <3>4, <3>5, <3>7 DEF StepOf, PermitStep, Keeps
    <2> QED
      BY <2>5, <2>6
  <1>10. CASE ResponseInvalid(u)
    <2>1. /\ task[u].pc = "requesting"
          /\ Finish(u, task[u], Failure(u, "ValidationFailed", RetriesOf(task[u])))
          /\ UNCHANGED <<urls, phase, io, files, result_map, results>>
      BY <1>10 DEF ResponseInvalid
    <2>2. "ValidationFailed" \in Errors
      BY DEF Errors
    <2>3. /\ task' \in [Urls -> Task] /\ task'[u].pc = "finished"
          /\ \A v \in Urls \ {u} : task'[v] = task[v]
          /\ ReleasePermits(u)
          /\ CountStep(u)
      BY <1>1, <1>fail, <1>nat, <2>1, <2>2
    <2> QED
      BY <1>1, <1>io, <2>1, <2>3 DEF StepOf, PermitStep, Releases
  <1>11. CASE NamingPanics(u)
    BY <1>1, <1>io, <1>11, <1>go DEF NamingPanics, StepOf, PermitStep, Releases
  <1>12. CASE ImageNotWritten(u)
    <2>1. /\ task[u].pc = "writing"
          /\ Finish(u, task[u], Failure(u, "WriteError", task[u].retries_attempted))
          /\ UNCHANGED <<urls, phase, io, files, result_map, results>>
      BY <1>12 DEF ImageNotWritten
    <2>2. "WriteError" \in Errors
      BY DEF Errors
    <2>3. /\ task' \in [Urls -> Task] /\ task'[u].pc = "finished"
          /\ \A v \in Urls \ {u} : task'[v] = task[v]
          /\ ReleasePermits(u)
          /\ CountStep(u)
      BY <1>1, <1>fail, <1>nat, <2>1, <2>2
    <2> QED
      BY <1>1, <1>io, <2>1, <2>3 DEF StepOf, PermitStep, Releases
  <1>13. CASE SidecarEnds(u)
    <2>1. /\ task[u].pc = "sidecar"
          /\ Finish(u, task[u], Success(u))
          /\ UNCHANGED <<urls, phase, io, files, result_map, results>>
      BY <1>13 DEF SidecarEnds
    <2>2. u \in Range(urls)
      BY <1>1, <2>1 DEF TaskSound
    <2> QED
      BY <1>1, <1>io, <1>succeed, <2>1, <2>2 DEF StepOf, PermitStep, Releases
  <1>write. ASSUME NEW x \in Paths, UNCHANGED urls,
                   io' = [io EXCEPT ![u] = [path |-> x, stage |-> "queued"]]
            PROVE  WriteStep(u)
    BY <1>1, <1>write DEF WriteStep, Stages
  <1>14. CASE ResponseValid(u)
    <2> DEFINE t == [task[u] EXCEPT !.pc = "writing", !.retries_attempted = RetriesOf(task[u])]
    <2>1. /\ task[u].pc = "requesting"
          /\ task' = [task EXCEPT ![u] = t]
          /\ io' = [io EXCEPT ![u] = [path |-> FileName(u), stage |-> "queued"]]
          /\ UNCHANGED <<urls, phase, global_sem, host_sems, files, result_map, results>>
      BY <1>14 DEF ResponseValid
    <2>2. "writing" \in Places
      OBVIOUS
    <2>3. t \in Task
      BY <1>1, <1>nat, <2>2 DEF Task, Places
    <2>4. /\ t.pc = "writing" /\ t.retries_attempted = RetriesOf(task[u])
          /\ t.leg = task[u].leg /\ t.host = task[u].host
          /\ t.attempt = task[u].attempt /\ t.retried = task[u].retried
      BY <1>1 DEF Task
    <2> HIDE DEF t
    <2>5. task' \in [Urls -> Task] /\ task'[u] = t /\ \A v \in Urls \ {u} : task'[v] = task[v]
      BY <1>1, <2>1, <2>3
    <2>6. CountStep(u)
      BY <2>4, <2>5 DEF CountStep, Bounded, Direct
    <2>7. FileName(u) \in Paths
      BY <1>1, <2>1, NamesArePaths DEF TaskSound
    <2>8. WriteStep(u)
      BY <1>write, <2>1, <2>7
    <2> QED
      BY <1>1, <2>1, <2>4, <2>5, <2>6, <2>8 DEF StepOf, PermitStep, Keeps
  <1>15. CASE ImageWritten(u)
    <2>1. /\ task[u].pc = "writing"
          /\ UNCHANGED <<urls, phase, files, result_map, results>>
      BY <1>15 DEF ImageWritten
    <2>2. u \in Range(urls)
      BY <1>1, <2>1 DEF TaskSound
    <2>3. CASE WriteMetadata
      <3>1. /\ Goto(u, "sidecar")
            /\ io' = [io EXCEPT ![u] = [path |-> Sidecar(FileName(u)), stage |-> "queued"]]
            /\ UNCHANGED <<global_sem, host_sems>>
        BY <1>15, <2>3 DEF ImageWritten
      <3>2. Sidecar(FileName(u)) \in Paths
        BY <2>2, NamesArePaths
      <3>3. WriteStep(u)
        BY <1>write, <2>1, <3>1, <3>2
      <3> QED
        BY <1>go, <2>1, <3>1, <3>3 DEF StepOf, PermitStep, Keeps
    <2>4. CASE ~ WriteMetadata
      <3>1. Finish(u, task[u], Success(u)) /\ UNCHANGED io
        BY <1>15, <2>4 DEF ImageWritten
      <3> QED
        BY <1>io, <1>succeed, <2>1, <2>2, <3>1 DEF StepOf, PermitStep, Releases
    <2> QED
      BY <2>3, <2>4
  <1> QED
    BY <1>2, <1>3, <1>4, <1>5, <1>6, <1>7, <1>8, <1>9, <1>10, <1>11, <1>12, <1>13, <1>14, <1>15
    DEF DownloadOne

-----------------------------------------------------------------------------
(* The other steps, and the invariant *)

LEMMA InitSound == Init => Sound
  <1> SUFFICES ASSUME Init PROVE Sound
    OBVIOUS
  <1>1. urls \in Seq(Urls)
    BY BatchUrlsAssumption DEF Init
  <1>2. \A u \in Urls : Failure(u, "Timeout", 0) \in Result
    BY FailureIsResult DEF Errors, RequestErrors
  <1>3. task \in [Urls -> Task]
    BY <1>2, BatchUrlsAssumption DEF Init, Task, Gone
  <1>4. files \in [Paths -> Contents]
    BY DEF Init, Contents
  <1>5. io \in [Urls -> [path : Paths \cup {NoPath}, stage : Stages]]
    BY DEF Init, Stages
  <1>6. results \in Seq(Result) /\ DOMAIN host_sems = {} /\ DOMAIN result_map = {}
    BY DEF Init
  <1>7. \A u \in Urls : task[u].pc = "absent" /\ io[u].stage = "none"
    BY DEF Init
  <1>8. phase = "start"
    BY DEF Init
  <1> QED
    BY <1>1, <1>3, <1>4, <1>5, <1>6, <1>7, <1>8
    DEF Sound, Shape, TaskSound, OnlyCollecting, NotStarted, Gone, WithGlobal, WithHost, Requesting

\* A list of results for the positions of the input.
LEMMA ListOfResults ==
    ASSUME NEW S, NEW op \in [DOMAIN urls -> S], urls \in Seq(Urls)
    PROVE  op \in Seq(S)
  <1>1. DOMAIN urls = 1 .. Len(urls) /\ Len(urls) \in Nat
    OBVIOUS
  <1> QED
    BY <1>1

LEMMA DownloadSound ==
    ASSUME Sound, NEW u \in Urls, DownloadOne(u)
    PROVE  Sound'
  <1>1. StepOf(u)
    BY OneStep
  <1>2. /\ Task' = Task /\ Result' = Result /\ Paths' = Paths /\ Range(urls)' = Range(urls)
    BY <1>1, SameInput DEF StepOf
  <1>3. phase = "collecting" /\ phase' = "collecting"
    BY <1>1 DEF StepOf, Sound, OnlyCollecting
  <1>4. DOMAIN host_sems \subseteq DOMAIN host_sems' /\ DOMAIN host_sems' \subseteq Hosts
    <2>1. task[u].pc \in WithGlobal => HostOf[u] \in Hosts
      BY DEF Sound, TaskSound
    <2>2. DOMAIN host_sems \subseteq Hosts
      BY DEF Sound, Shape
    <2>3. CASE Keeps(u) \/ TakesGlobal(u)
      BY <2>2, <2>3 DEF Keeps, TakesGlobal
    <2>4. CASE AsksForHost(u)
      BY <2>1, <2>2, <2>4 DEF AsksForHost, OrInsert, WithGlobal
    <2>5. CASE TakesHost(u) \/ Releases(u)
      BY <2>2, <2>5 DEF TakesHost, Releases, ReleasePermits
    <2> QED
      BY <1>1, <2>3, <2>4, <2>5 DEF StepOf, PermitStep
  <1>5. Shape'
    BY <1>1, <1>2, <1>3, <1>4 DEF Sound, Shape, StepOf, WriteStep
  <1>6. ASSUME NEW v \in Urls PROVE TaskSound(v)'
    <2>1. CASE v # u
      BY <1>1, <1>2, <1>4, <2>1 DEF Sound, TaskSound, StepOf, WriteStep
    <2>2. CASE v = u
      <3>1. TaskSound(u) /\ u \in Range(urls)
        BY <1>1 DEF Sound, TaskSound, StepOf, Gone
      <3>2. task'[u].pc \in {"global"} \cup WithGlobal => HostOf[u] \in Hosts
        BY <1>1, <3>1 DEF StepOf, PermitStep, Keeps, TakesGlobal, AsksForHost, TakesHost, Releases,
          TaskSound, WithGlobal, WithHost, Requesting, Ended
      <3>3. task'[u].pc \in {"host"} \cup WithHost => HostOf[u] \in DOMAIN host_sems'
        BY <1>1, <1>4, <3>1 DEF StepOf, PermitStep, Keeps, TakesGlobal, AsksForHost, TakesHost,
          Releases, OrInsert, TaskSound, WithGlobal, WithHost, Requesting, Ended
      <3> QED
        BY <1>1, <1>2, <2>2, <3>1, <3>2, <3>3 DEF TaskSound, StepOf, WriteStep
    <2> QED
      BY <2>1, <2>2
  <1>7. OnlyCollecting' /\ NotStarted'
    BY <1>3 DEF OnlyCollecting, NotStarted
  <1> QED
    BY <1>5, <1>6, <1>7 DEF Sound

LEMMA WriteSound ==
    ASSUME Sound, NEW u \in Urls, BlockingWrite(u)
    PROVE  Sound'
  <1>1. UNCHANGED <<urls, phase, task, global_sem, host_sems, result_map, results>>
    BY DEF BlockingWrite, OpenFile, WriteBytes, WriteFails
  <1>2. /\ Task' = Task /\ Result' = Result /\ Paths' = Paths /\ Range(urls)' = Range(urls)
    BY <1>1, SameInput
  <1>3. io[u].stage \in {"queued", "open"} /\ io[u].path \in Paths
    BY DEF Sound, TaskSound, BlockingWrite, OpenFile, WriteBytes, WriteFails
  <1>4. PICK s \in {"open", "ok", "failed"} : io' = [io EXCEPT ![u].stage = s]
    BY DEF BlockingWrite, OpenFile, WriteBytes, WriteFails
  <1>5. DataOf(u) \in Contents /\ {"empty", "torn"} \subseteq Contents
    BY BatchUrlsAssumption DEF DataOf, Contents, Range
  <1>6. files' \in [Paths -> Contents]
    <2>1. files \in [Paths -> Contents]
      BY DEF Sound, Shape
    <2>2. \/ files' = files
          \/ \E new \in Contents : files' = [files EXCEPT ![io[u].path] = new]
      BY <1>3, <1>5, <2>1 DEF BlockingWrite, OpenFile, WriteBytes, WriteFails
    <2> QED
      BY <2>1, <2>2
  <1>7. /\ io' \in [Urls -> [path : Paths \cup {NoPath}, stage : Stages]]
        /\ \A v \in Urls : io'[v].path = io[v].path
        /\ \A v \in Urls \ {u} : io'[v] = io[v]
    BY <1>4 DEF Sound, Shape, Stages
  <1>8. Shape'
    BY <1>1, <1>2, <1>6, <1>7 DEF Sound, Shape
  <1>9. \A v \in Urls : TaskSound(v)'
    BY <1>1, <1>2, <1>3, <1>7 DEF Sound, TaskSound
  <1> QED
    BY <1>1, <1>8, <1>9 DEF Sound, OnlyCollecting, NotStarted

LEMMA JoinSound ==
    ASSUME Sound, NEW u \in Urls, Join(u)
    PROVE  Sound'
  <1>1. task \in [Urls -> Task] /\ task[u] \in Task
    BY DEF Sound, Shape
  <1>2. /\ phase = "collecting" /\ task[u].pc \in Ended /\ Goto(u, "collected")
        /\ UNCHANGED <<urls, phase, global_sem, host_sems, io, files, results>>
    BY DEF Join
  <1>3. "collected" \in Places
    BY DEF Places, Gone
  <1>4. task' \in [Urls -> Task] /\ task'[u].pc = "collected"
        /\ \A v \in Urls \ {u} : task'[v] = task[v]
    BY <1>1, <1>2, <1>3, AfterGoto
  <1>5. /\ Task' = Task /\ Result' = Result /\ Paths' = Paths /\ Range(urls)' = Range(urls)
    BY <1>2, SameInput
  <1>6. task[u].result \in Result
    BY <1>1 DEF Task
  <1>7. \A v \in DOMAIN result_map' : v \in Urls /\ result_map'[v] \in Result
    BY <1>6 DEF Join, Sound, Shape
  <1>8. Shape'
    BY <1>2, <1>4, <1>5, <1>7 DEF Sound, Shape
  <1>9. \A v \in Urls : TaskSound(v)'
    BY <1>2, <1>4, <1>5
    DEF Sound, TaskSound, Ended, WithGlobal, WithHost, Requesting
  <1>10. OnlyCollecting' /\ NotStarted'
    BY <1>2 DEF OnlyCollecting, NotStarted
  <1> QED
    BY <1>8, <1>9, <1>10 DEF Sound

\* Assemble gives every position a result.
LEMMA Assembled ==
    ASSUME Sound, Assemble, UNCHANGED urls
    PROVE  results' \in Seq(Result) /\ phase' \in {"summary", "returned"}
  <1>1. urls \in Seq(Urls) /\ \A i \in DOMAIN urls : urls[i] \in Urls
    BY DEF Sound, Shape
  <1>2. \A u \in Urls : Missing(u) \in Result
    <2>1. "Timeout" \in Errors
      BY DEF Errors, RequestErrors
    <2> QED
      BY <2>1, FailureIsResult DEF Missing
  <1>3. \A i \in DOMAIN urls :
          (IF urls[i] \in DOMAIN result_map THEN result_map[urls[i]] ELSE Missing(urls[i])) \in Result
    BY <1>1, <1>2 DEF Sound, Shape
  <1>4. results' \in [DOMAIN urls -> Result]
    BY <1>3 DEF Assemble
  <1> QED
    BY <1>1, <1>4, ListOfResults DEF Assemble

LEMMA Replaced ==
    ASSUME NEW t \in Task, NEW p \in Places
    PROVE  LET r == [t EXCEPT !.pc = p]
           IN  /\ r \in Task /\ r.pc = p
               /\ r.leg = t.leg /\ r.host = t.host /\ r.attempt = t.attempt
               /\ r.retried = t.retried /\ r.retries_attempted = t.retries_attempted
  <1> DEFINE r == [t EXCEPT !.pc = p]
  <1>1. r \in Task
    BY DEF Task, Places
  <1>2. /\ r.pc = p /\ r.leg = t.leg /\ r.host = t.host /\ r.attempt = t.attempt
        /\ r.retried = t.retried /\ r.retries_attempted = t.retries_attempted
    BY DEF Task
  <1> QED
    BY <1>1, <1>2

\* The batch spawns all its tasks at once, and drops them at once.
LEMMA AfterFanOut ==
    ASSUME Sound, FanOut
    PROVE  /\ task' \in [Urls -> Task]
           /\ \A u \in Urls :
                /\ task'[u].pc = IF u \in Range(urls) THEN "spawned" ELSE "absent"
                /\ OnlyPlace(u)
  <1>1. task \in [Urls -> Task] /\ \A u \in Urls : task[u].pc = "absent"
    BY DEF Sound, Shape, NotStarted, FanOut
  <1>2. "spawned" \in Places
    BY DEF Places
  <1>3. task' = [u \in Urls |-> IF u \in Range(urls) THEN [task[u] EXCEPT !.pc = "spawned"]
                                                   ELSE task[u]]
    BY DEF FanOut
  <1>4. ASSUME NEW u \in Urls
        PROVE  /\ task'[u] \in Task
               /\ task'[u].pc = IF u \in Range(urls) THEN "spawned" ELSE "absent"
               /\ OnlyPlace(u)
    <2>1. CASE u \in Range(urls)
      <3> DEFINE r == [task[u] EXCEPT !.pc = "spawned"]
      <3>1. /\ r \in Task /\ r.pc = "spawned" /\ r.leg = task[u].leg /\ r.host = task[u].host
            /\ r.attempt = task[u].attempt /\ r.retried = task[u].retried
            /\ r.retries_attempted = task[u].retries_attempted
        BY <1>1, <1>2, Replaced
      <3>2. task'[u] = r
        BY <1>3, <2>1
      <3> HIDE DEF r
      <3> QED
        BY <2>1, <3>1, <3>2 DEF OnlyPlace, SameCounts
    <2>2. CASE u \notin Range(urls)
      BY <1>1, <1>3, <2>2 DEF OnlyPlace, SameCounts
    <2> QED
      BY <2>1, <2>2
  <1>5. task' \in [Urls -> Task]
    <2>1. \A u \in Urls : task'[u] \in Task
      BY <1>4
    <2> QED
      BY <1>3, <2>1
  <1> QED
    BY <1>4, <1>5

LEMMA AfterDeadline ==
    ASSUME Sound, DeadlinePasses
    PROVE  /\ task' \in [Urls -> Task]
           /\ \A u \in Urls :
                /\ task'[u].pc \in Gone /\ (task[u].pc = "absent" <=> task'[u].pc = "absent")
                /\ OnlyPlace(u)
  <1>1. task \in [Urls -> Task]
    BY DEF Sound, Shape
  <1>2. "dropped" \in Places
    BY DEF Places, Gone
  <1>3. task' = [u \in Urls |-> IF task[u].pc \in Gone THEN task[u]
                                                     ELSE [task[u] EXCEPT !.pc = "dropped"]]
    BY DEF DeadlinePasses
  <1>4. ASSUME NEW u \in Urls
        PROVE  /\ task'[u] \in Task
               /\ task'[u].pc \in Gone /\ (task[u].pc = "absent" <=> task'[u].pc = "absent")
               /\ OnlyPlace(u)
    <2>1. CASE task[u].pc \notin Gone
      <3> DEFINE r == [task[u] EXCEPT !.pc = "dropped"]
      <3>1. /\ r \in Task /\ r.pc = "dropped" /\ r.leg = task[u].leg /\ r.host = task[u].host
            /\ r.attempt = task[u].attempt /\ r.retried = task[u].retried
            /\ r.retries_attempted = task[u].retries_attempted
        BY <1>1, <1>2, Replaced
      <3>2. task'[u] = r
        BY <1>3, <2>1
      <3> HIDE DEF r
      <3> QED
        BY <2>1, <3>1, <3>2 DEF OnlyPlace, SameCounts, Gone
    <2>2. CASE task[u].pc \in Gone
      BY <1>1, <1>3, <2>2 DEF OnlyPlace, SameCounts
    <2> QED
      BY <2>1, <2>2
  <1>5. task' \in [Urls -> Task]
    <2>1. \A u \in Urls : task'[u] \in Task
      BY <1>4
    <2> QED
      BY <1>3, <2>1
  <1> QED
    BY <1>4, <1>5

LEMMA CollectorSound ==
    ASSUME Sound, Start \/ AllJoined \/ DeadlinePasses \/ SummaryEnds
    PROVE  Sound'
  <1>1. UNCHANGED <<urls, global_sem, host_sems, io, result_map>>
    BY DEF Start, EmptyBatch, NoDirectory, FanOut, AllJoined, DeadlinePasses, SummaryEnds
  <1>2. /\ Task' = Task /\ Result' = Result /\ Paths' = Paths /\ Range(urls)' = Range(urls)
    BY <1>1, SameInput
  <1> USE DEF Gone, WithGlobal, WithHost, Requesting
  <1>3. CASE EmptyBatch
    BY <1>1, <1>2, <1>3 DEF EmptyBatch, Sound, Shape, TaskSound, OnlyCollecting, NotStarted
  <1>4. CASE NoDirectory
    <2>1. urls \in Seq(Urls) /\ \A i \in DOMAIN urls : urls[i] \in Urls
      BY DEF Sound, Shape
    <2>2. "WriteError" \in Errors
      BY DEF Errors
    <2>3. \A i \in DOMAIN urls : Failure(urls[i], "WriteError", 0) \in Result
      BY <2>1, <2>2, FailureIsResult
    <2>4. results' \in [DOMAIN urls -> Result]
      BY <1>4, <2>3 DEF NoDirectory
    <2>5. results' \in Seq(Result)
      BY <2>1, <2>4, ListOfResults
    <2> QED
      BY <1>1, <1>2, <1>4, <2>5
      DEF NoDirectory, Sound, Shape, TaskSound, OnlyCollecting, NotStarted
  <1>5. CASE FanOut
    <2>1. phase' = "collecting" /\ UNCHANGED <<files, results>>
      BY <1>5 DEF FanOut
    <2> QED
      BY <1>1, <1>2, <1>5, <2>1, AfterFanOut
      DEF Sound, Shape, TaskSound, OnlyCollecting, NotStarted
  <1>6. CASE AllJoined
    <2>1. results' \in Seq(Result) /\ phase' \in {"summary", "returned"}
      BY <1>1, <1>6, Assembled DEF AllJoined
    <2>2. \A u \in Urls : task[u].pc \in Gone
      BY <1>6 DEF AllJoined, Spawned
    <2> QED
      BY <1>1, <1>2, <1>6, <2>1, <2>2
      DEF AllJoined, Sound, Shape, TaskSound, OnlyCollecting, NotStarted
  <1>7. CASE DeadlinePasses
    <2>1. results' \in Seq(Result) /\ phase' \in {"summary", "returned"}
      BY <1>1, <1>7, Assembled DEF DeadlinePasses
    <2>2. UNCHANGED files
      BY <1>7 DEF DeadlinePasses
    <2> QED
      BY <1>1, <1>2, <1>7, <2>1, <2>2, AfterDeadline
      DEF Sound, Shape, TaskSound, OnlyCollecting, NotStarted
  <1>8. CASE SummaryEnds
    <2>1. SummaryPath \in Paths
      BY NamesArePaths
    <2>2. files' \in [Paths -> Contents]
      <3>1. files \in [Paths -> Contents] /\ {"summary", "torn"} \subseteq Contents
        BY DEF Sound, Shape, Contents
      <3>2. \E new \in Contents : files' = [files EXCEPT ![SummaryPath] = new]
        BY <1>8, <2>1, <3>1 DEF SummaryEnds, write_batch_summary
      <3> QED
        BY <3>1, <3>2
    <2> QED
      BY <1>1, <1>2, <1>8, <2>2
      DEF SummaryEnds, Sound, Shape, TaskSound, OnlyCollecting, NotStarted
  <1> QED
    BY <1>3, <1>4, <1>5, <1>6, <1>7, <1>8 DEF Start

LEMMA SoundStep == Sound /\ [Next]_vars => Sound'
  <1> SUFFICES ASSUME Sound, [Next]_vars PROVE Sound'
    OBVIOUS
  <1>1. CASE UNCHANGED vars
    <2>1. UNCHANGED <<urls, phase, task, global_sem, host_sems, io, files, result_map, results>>
      BY <1>1 DEF vars
    <2>2. /\ Task' = Task /\ Result' = Result /\ Paths' = Paths /\ Range(urls)' = Range(urls)
      BY <2>1, SameInput
    <2> QED
      BY <2>1, <2>2 DEF Sound, Shape, TaskSound, OnlyCollecting, NotStarted
  <1> QED
    BY <1>1, DownloadSound, WriteSound, JoinSound, CollectorSound
    DEF Next, Collector, Terminated

LEMMA Invariance == Spec => []Sound
  BY InitSound, SoundStep, PTL DEF Spec

-----------------------------------------------------------------------------
(* The permits *)

HoldersOf(h) == {u \in At(WithHost) : HostOf[u] = h}

\* Both kinds of permits are within their bounds, always; while the batch collects
\* they are accounted for.
PermitsKept ==
    /\ global_sem \in 0 .. MaxGlobal
    /\ \A h \in DOMAIN host_sems : host_sems[h] \in 0 .. MaxPerHost
    /\ phase = "start" => global_sem = MaxGlobal /\ DOMAIN host_sems = {}
    /\ phase = "collecting" =>
         /\ global_sem + Cardinality(At(WithGlobal)) = MaxGlobal
         /\ \A h \in DOMAIN host_sems :
              host_sems[h] + Cardinality(HoldersOf(h)) = MaxPerHost

\* The tasks of a batch are finitely many: its input is a list (orchestrator.rs:93).
LEMMA HoldersFinite ==
    ASSUME Sound
    PROVE  /\ IsFiniteSet(At(WithGlobal))
           /\ \A h : IsFiniteSet(HoldersOf(h))
  <1>1. urls \in Seq(Urls) /\ DOMAIN urls = 1 .. Len(urls) /\ Len(urls) \in Nat
    BY DEF Sound, Shape
  <1>2. IsFiniteSet(DOMAIN urls)
    BY <1>1, FS_Interval
  <1>3. urls \in Surjection(DOMAIN urls, Range(urls))
    BY <1>1 DEF Surjection, Range
  <1>4. IsFiniteSet(Range(urls))
    BY <1>2, <1>3, FS_Surjection
  <1>5. At(WithGlobal) \subseteq Range(urls)
    BY DEF At, Sound, TaskSound, WithGlobal, WithHost, Requesting
  <1>6. \A h : HoldersOf(h) \subseteq Range(urls)
    BY DEF At, HoldersOf, Sound, TaskSound, WithHost, Requesting
  <1> QED
    BY <1>4, <1>5, <1>6, FS_Subset

LEMMA DownloadPermits ==
    ASSUME Sound, PermitsKept, NEW u \in Urls, DownloadOne(u)
    PROVE  PermitsKept'
  <1>1. StepOf(u)
    BY OneStep
  <1>2. phase = "collecting" /\ phase' = "collecting"
    BY <1>1 DEF StepOf, Sound, OnlyCollecting
  <1>3. \A v \in Urls \ {u} : task'[v] = task[v]
    BY <1>1 DEF StepOf
  <1>4. /\ IsFiniteSet(At(WithGlobal)) /\ \A h : IsFiniteSet(HoldersOf(h))
        /\ Cardinality(At(WithGlobal)) \in Nat /\ \A h : Cardinality(HoldersOf(h)) \in Nat
    BY HoldersFinite, FS_CardinalityType
  <1>5. /\ global_sem \in Nat /\ global_sem + Cardinality(At(WithGlobal)) = MaxGlobal
        /\ \A h \in DOMAIN host_sems :
             /\ host_sems[h] \in Nat
             /\ host_sems[h] + Cardinality(HoldersOf(h)) = MaxPerHost
    BY <1>2 DEF PermitsKept
  <1>6. TaskSound(u)
    BY DEF Sound
  <1> USE DEF WithGlobal, WithHost, Requesting, Ended
  <1>7. SUFFICES
          /\ global_sem' \in Nat /\ Cardinality(At(WithGlobal)') \in Nat
          /\ global_sem' + Cardinality(At(WithGlobal)') = MaxGlobal
          /\ \A h \in DOMAIN host_sems' :
               /\ host_sems'[h] \in Nat /\ Cardinality(HoldersOf(h)') \in Nat
               /\ host_sems'[h] + Cardinality(HoldersOf(h)') = MaxPerHost
    BY <1>2, BatchConfigAssumption DEF PermitsKept
  <1>8. CASE Keeps(u)
    <2>1. At(WithGlobal)' = At(WithGlobal) /\ \A h : HoldersOf(h)' = HoldersOf(h)
      BY <1>3, <1>8 DEF Keeps, At, HoldersOf
    <2> QED
      BY <1>4, <1>5, <1>8, <2>1 DEF Keeps
  <1>9. CASE TakesGlobal(u)
    <2>1. At(WithGlobal)' = At(WithGlobal) \cup {u} /\ u \notin At(WithGlobal)
      BY <1>3, <1>9 DEF TakesGlobal, At
    <2>2. \A h : HoldersOf(h)' = HoldersOf(h)
      BY <1>3, <1>9 DEF TakesGlobal, At, HoldersOf
    <2>3. Cardinality(At(WithGlobal)') = Cardinality(At(WithGlobal)) + 1
      BY <1>4, <2>1, FS_AddElement
    <2> QED
      BY <1>4, <1>5, <1>9, <2>2, <2>3 DEF TakesGlobal
  <1>10. CASE AsksForHost(u)
    <2>1. At(WithGlobal)' = At(WithGlobal) /\ \A h : HoldersOf(h)' = HoldersOf(h)
      BY <1>3, <1>10 DEF AsksForHost, At, HoldersOf
    <2>2. ASSUME NEW h \in DOMAIN host_sems', h \notin DOMAIN host_sems
          PROVE  host_sems'[h] = MaxPerHost /\ Cardinality(HoldersOf(h)) = 0
      <3>1. HoldersOf(h) = {}
        BY <2>2 DEF HoldersOf, At, Sound, TaskSound
      <3> QED
        BY <1>10, <2>2, <3>1, FS_EmptySet DEF AsksForHost, OrInsert
    <2>3. \A h \in DOMAIN host_sems : host_sems'[h] = host_sems[h]
      BY <1>10 DEF AsksForHost, OrInsert
    <2> QED
      BY <1>4, <1>5, <1>10, <2>1, <2>2, <2>3, BatchConfigAssumption DEF AsksForHost
  <1>11. CASE TakesHost(u)
    <2> DEFINE own == HostOf[u]
    <2>1. own \in DOMAIN host_sems /\ host_sems[own] > 0
          /\ host_sems' = [host_sems EXCEPT ![own] = host_sems[own] - 1]
      BY <1>6, <1>11 DEF TakesHost, TaskSound
    <2>2. At(WithGlobal)' = At(WithGlobal)
      BY <1>3, <1>11 DEF TakesHost, At
    <2>3. HoldersOf(own)' = HoldersOf(own) \cup {u} /\ u \notin HoldersOf(own)
      BY <1>3, <1>11 DEF TakesHost, At, HoldersOf
    <2>4. \A h : h # own => HoldersOf(h)' = HoldersOf(h)
      BY <1>3, <1>11 DEF TakesHost, At, HoldersOf
    <2> HIDE DEF own
    <2>5. Cardinality(HoldersOf(own)') = Cardinality(HoldersOf(own)) + 1
      BY <1>4, <2>3, FS_AddElement
    <2>6. DOMAIN host_sems' = DOMAIN host_sems /\ host_sems'[own] = host_sems[own] - 1
          /\ \A h \in DOMAIN host_sems : h # own => host_sems'[h] = host_sems[h]
      BY <2>1
    <2>7. host_sems'[own] \in Nat /\ Cardinality(HoldersOf(own)') \in Nat
          /\ host_sems'[own] + Cardinality(HoldersOf(own)') = MaxPerHost
      BY <1>4, <1>5, <2>1, <2>5, <2>6
    <2>8. UNCHANGED global_sem
      BY <1>11 DEF TakesHost
    <2> QED
      BY <1>4, <1>5, <2>2, <2>4, <2>6, <2>7, <2>8
  <1>12. CASE Releases(u)
    <2> DEFINE own == HostOf[u]
    <2>1. own \in DOMAIN host_sems
          /\ host_sems' = [host_sems EXCEPT ![own] = host_sems[own] + 1]
          /\ global_sem' = global_sem + 1
      BY <1>6, <1>12 DEF Releases, ReleasePermits, AddPermit, TaskSound
    <2>2. At(WithGlobal)' = At(WithGlobal) \ {u} /\ u \in At(WithGlobal)
      BY <1>3, <1>12 DEF Releases, At
    <2>3. HoldersOf(own)' = HoldersOf(own) \ {u} /\ u \in HoldersOf(own)
      BY <1>3, <1>12 DEF Releases, At, HoldersOf
    <2>4. \A h : h # own => HoldersOf(h)' = HoldersOf(h)
      BY <1>3, <1>12 DEF Releases, At, HoldersOf
    <2> HIDE DEF own
    <2>5. IsFiniteSet(HoldersOf(own)') /\ Cardinality(HoldersOf(own)') = Cardinality(HoldersOf(own)) - 1
      BY <1>4, <2>3, FS_RemoveElement
    <2>6. IsFiniteSet(At(WithGlobal)') /\ Cardinality(At(WithGlobal)') = Cardinality(At(WithGlobal)) - 1
      BY <1>4, <2>2, FS_RemoveElement
    <2>7. Cardinality(HoldersOf(own)') \in Nat /\ Cardinality(At(WithGlobal)') \in Nat
      BY <2>5, <2>6, FS_CardinalityType
    <2>8. DOMAIN host_sems' = DOMAIN host_sems /\ host_sems'[own] = host_sems[own] + 1
          /\ \A h \in DOMAIN host_sems : h # own => host_sems'[h] = host_sems[h]
      BY <2>1
    <2>9. host_sems'[own] \in Nat
          /\ host_sems'[own] + Cardinality(HoldersOf(own)') = MaxPerHost
      BY <1>4, <1>5, <2>1, <2>5, <2>8
    <2>10. global_sem' \in Nat /\ global_sem' + Cardinality(At(WithGlobal)') = MaxGlobal
      BY <1>4, <1>5, <2>1, <2>6
    <2> QED
      BY <1>4, <1>5, <2>4, <2>7, <2>8, <2>9, <2>10
  <1> QED
    BY <1>1, <1>8, <1>9, <1>10, <1>11, <1>12 DEF StepOf, PermitStep

\* A task holds no permit when it is spawned, when it is joined, and when nothing
\* of the batch runs.
LEMMA OtherPermits ==
    ASSUME Sound, PermitsKept,
           \/ UNCHANGED vars
           \/ Start \/ (\E u \in Urls : Join(u)) \/ AllJoined \/ DeadlinePasses \/ SummaryEnds
           \/ \E u \in Urls : BlockingWrite(u)
    PROVE  PermitsKept'
  <1>1. UNCHANGED <<global_sem, host_sems>>
    BY DEF vars, Start, EmptyBatch, NoDirectory, FanOut, Join, AllJoined, DeadlinePasses,
           SummaryEnds, BlockingWrite, OpenFile, WriteBytes, WriteFails
  <1>2. CASE phase' \notin {"start", "collecting"}
    BY <1>1, <1>2 DEF PermitsKept
  <1>3. CASE FanOut
    <2>1. phase' = "collecting" /\ phase = "start"
      BY <1>3 DEF FanOut
    <2>2. At(WithGlobal)' = {}
      BY <1>3, AfterFanOut DEF At, WithGlobal, WithHost, Requesting
    <2> QED
      BY <1>1, <2>1, <2>2, FS_EmptySet, BatchConfigAssumption DEF PermitsKept
  <1>4. CASE \E u \in Urls : Join(u)
    <2>1. PICK u \in Urls : Join(u)
      BY <1>4
    <2>2. /\ task[u].pc \in Ended /\ Goto(u, "collected") /\ phase' = phase
          /\ "collected" \in Places /\ task \in [Urls -> Task]
      BY <2>1 DEF Join, Places, Gone, Sound, Shape
    <2>3. task'[u].pc = "collected" /\ \A v \in Urls \ {u} : task'[v] = task[v]
      BY <2>2, AfterGoto
    <2>4. At(WithGlobal)' = At(WithGlobal) /\ \A h : HoldersOf(h)' = HoldersOf(h)
      BY <2>2, <2>3 DEF At, HoldersOf, WithGlobal, WithHost, Requesting, Ended
    <2> QED
      BY <1>1, <2>2, <2>4 DEF PermitsKept
  <1>5. CASE UNCHANGED vars \/ \E u \in Urls : BlockingWrite(u)
    <2>1. UNCHANGED <<phase, task>>
      BY <1>5 DEF vars, BlockingWrite, OpenFile, WriteBytes, WriteFails
    <2>2. At(WithGlobal)' = At(WithGlobal) /\ \A h : HoldersOf(h)' = HoldersOf(h)
      BY <2>1 DEF At, HoldersOf
    <2> QED
      BY <1>1, <2>1, <2>2 DEF PermitsKept
  <1> QED
    BY <1>2, <1>3, <1>4, <1>5
    DEF Start, EmptyBatch, NoDirectory, AllJoined, DeadlinePasses, Assemble, SummaryEnds

LEMMA PermitsInvariant == Spec => []PermitsKept
  <1>1. Init => PermitsKept
    BY BatchConfigAssumption DEF Init, PermitsKept
  <1>2. Sound /\ PermitsKept /\ [Next]_vars => PermitsKept'
    BY DownloadPermits, OtherPermits DEF Next, Collector, Terminated
  <1> QED
    BY <1>1, <1>2, Invariance, PTL DEF Spec

\* The state of a batch has the types of its fields, with no permit more than the
\* limits of the configuration (orchestrator.rs:75-200).
THEOREM TypeCorrect == Spec => []TypeOK
  <1>1. Sound /\ PermitsKept => TypeOK
    BY DEF Sound, Shape, PermitsKept, TypeOK
  <1> QED
    BY <1>1, Invariance, PermitsInvariant, PTL

\* No way a download ends, be it a panic, keeps a permit or gives back two
\* (orchestrator.rs:279-288), whatever the input, the limits and the faults.
THEOREM PermitsReturned == Spec => []PermitsAccounted
  <1>1. PermitsKept => PermitsAccounted
    BY DEF PermitsKept, PermitsAccounted, HoldersOf
  <1> QED
    BY <1>1, PermitsInvariant, PTL

-----------------------------------------------------------------------------
(* The counts of the retry loops, and the cap of a host *)

\* The steps that are not of a download leave the counts of the tasks alone; what
\* they change is the place.
LEMMA OtherCounts ==
    ASSUME Sound, [Next]_vars, ~ \E u \in Urls : DownloadOne(u), NEW u \in Urls
    PROVE  /\ OnlyPlace(u)
           /\ \/ task'[u] = task[u]
              \/ task'[u].pc = "spawned" /\ task[u].pc = "absent"
              \/ task'[u].pc \in {"collected", "dropped"}
  <1>1. CASE \E v \in Urls : Join(v)
    <2>1. PICK v \in Urls : Join(v)
      BY <1>1
    <2>2. Goto(v, "collected") /\ "collected" \in Places /\ task \in [Urls -> Task]
      BY <2>1 DEF Join, Places, Gone, Sound, Shape
    <2>3. task'[v].pc = "collected" /\ OnlyPlace(v)
          /\ \A w \in Urls \ {v} : task'[w] = task[w]
      BY <2>2, AfterGoto
    <2> QED
      BY <2>3 DEF OnlyPlace, SameCounts
  <1>2. CASE FanOut
    <2>1. task[u].pc = "absent" /\ task \in [Urls -> Task]
      BY <1>2 DEF FanOut, Sound, NotStarted, Shape
    <2>2. u \notin Range(urls) => task'[u] = task[u]
      BY <1>2 DEF FanOut
    <2> QED
      BY <1>2, <2>1, <2>2, AfterFanOut
  <1>3. CASE DeadlinePasses
    <2>1. task' = [v \in Urls |-> IF task[v].pc \in Gone THEN task[v]
                                                       ELSE [task[v] EXCEPT !.pc = "dropped"]]
      BY <1>3 DEF DeadlinePasses
    <2>2. task[u] \in Task
      BY DEF Sound, Shape
    <2>3. \/ task'[u] = task[u]
          \/ task'[u].pc = "dropped"
      BY <2>1, <2>2 DEF Task
    <2> QED
      BY <1>3, <2>3, AfterDeadline
  <1>4. CASE UNCHANGED task
    BY <1>4 DEF OnlyPlace, SameCounts
  <1> QED
    BY <1>1, <1>2, <1>3, <1>4
    DEF Next, Collector, Start, EmptyBatch, NoDirectory, AllJoined, SummaryEnds, Terminated,
        BlockingWrite, OpenFile, WriteBytes, WriteFails, vars

LEMMA AtFirst ==
    ASSUME Init, NEW u \in Urls
    PROVE  /\ task[u].pc = "absent" /\ task[u].leg = 1 /\ task[u].host = HostOf[u]
           /\ task[u].attempt = 0 /\ \A leg \in {1, 2} : task[u].retried[leg] = 0
  BY DEF Init

CountsBounded == \A u \in Urls : Bounded(task[u])

LEMMA CountsInvariant == Spec => []CountsBounded
  <1>1. Init => CountsBounded
    <2>1. ASSUME Init, NEW u \in Urls PROVE Bounded(task[u])
      BY <2>1, AtFirst, BatchConfigAssumption DEF Bounded
    <2> QED
      BY <2>1 DEF CountsBounded
  <1>2. ASSUME Sound, CountsBounded, [Next]_vars PROVE CountsBounded'
    <2>1. CASE \E u \in Urls : DownloadOne(u)
      <3>1. PICK u \in Urls : DownloadOne(u)
        BY <2>1
      <3>2. StepOf(u)
        BY <1>2, <3>1, OneStep
      <3> QED
        BY <1>2, <3>2 DEF StepOf, CountStep, CountsBounded
    <2>2. CASE ~ \E u \in Urls : DownloadOne(u)
      <3>1. ASSUME NEW u \in Urls PROVE Bounded(task'[u])
        BY <1>2, <2>2, OtherCounts DEF CountsBounded, Bounded, OnlyPlace, SameCounts
      <3> QED
        BY <3>1 DEF CountsBounded
    <2> QED
      BY <2>1, <2>2
  <1>3. Sound /\ CountsBounded /\ [Next]_vars => CountsBounded'
    BY <1>2
  <1> QED
    BY <1>1, <1>3, Invariance, PTL DEF Spec

\* Each of the two retry loops of a download makes at most max_retries retries
\* (retry.rs:62-78), the second one too, which a redirect starts with a count of its own.
THEOREM RetriesWithin == Spec => []RetriesBounded
  <1>1. CountsBounded => RetriesBounded
    BY DEF CountsBounded, Bounded, RetriesBounded
  <1> QED
    BY <1>1, CountsInvariant, PTL

\* Where no redirect leads away, every task stays with the host of its URL.
AllDirect == \A u \in Urls : Direct(u, task[u])

LEMMA DirectInvariant ==
    ASSUME RedirectsTo = {}
    PROVE  Spec => []AllDirect
  <1>1. Init => AllDirect
    BY AtFirst DEF AllDirect, Direct
  <1>2. ASSUME Sound, AllDirect, [Next]_vars PROVE AllDirect'
    <2>1. CASE \E u \in Urls : DownloadOne(u)
      <3>1. PICK u \in Urls : DownloadOne(u)
        BY <2>1
      <3>2. StepOf(u)
        BY <1>2, <3>1, OneStep
      <3> QED
        BY <1>2, <3>2 DEF StepOf, CountStep, AllDirect
    <2>2. CASE ~ \E u \in Urls : DownloadOne(u)
      <3>1. ASSUME NEW u \in Urls PROVE Direct(u, task'[u])
        BY <1>2, <2>2, OtherCounts DEF AllDirect, Direct, OnlyPlace, SameCounts
      <3> QED
        BY <3>1 DEF AllDirect
    <2> QED
      BY <2>1, <2>2
  <1>3. Sound /\ AllDirect /\ [Next]_vars => AllDirect'
    BY <1>2
  <1> QED
    BY <1>1, <1>3, Invariance, PTL DEF Spec

\* Without redirects to other hosts, at most max_concurrent_per_host downloads of
\* the batch have a request to a host (orchestrator.rs:281-288), for any number of
\* URLs and hosts.  With such redirects the code does not keep to the cap.
THEOREM CapKept ==
    ASSUME RedirectsTo = {}
    PROVE  Spec => []HostCap
  <1>1. ASSUME Sound, PermitsKept, AllDirect PROVE HostCap
    <2>1. ASSUME NEW h \in Hosts
          PROVE  Cardinality({u \in At(Requesting) : task[u].host = h}) <= MaxPerHost
      <3> DEFINE asking == {u \in At(Requesting) : task[u].host = h}
      <3>1. asking \subseteq HoldersOf(h)
        BY <1>1 DEF AllDirect, Direct, HoldersOf, At, WithHost
      <3>2. IsFiniteSet(HoldersOf(h))
        BY <1>1, HoldersFinite
      <3>3. /\ Cardinality(asking) <= Cardinality(HoldersOf(h)) /\ IsFiniteSet(asking)
            /\ Cardinality(asking) \in Nat /\ Cardinality(HoldersOf(h)) \in Nat
        BY <3>1, <3>2, FS_Subset, FS_CardinalityType
      <3>4. CASE phase = "collecting" /\ h \in DOMAIN host_sems
        <4>1. /\ host_sems[h] \in 0 .. MaxPerHost
              /\ host_sems[h] + Cardinality(HoldersOf(h)) = MaxPerHost
          BY <1>1, <3>4 DEF PermitsKept
        <4> HIDE DEF asking
        <4>2. Cardinality(asking) <= MaxPerHost
          BY <3>3, <4>1, BatchConfigAssumption
        <4> QED
          BY <4>2 DEF asking
      <3>5. CASE ~ (phase = "collecting" /\ h \in DOMAIN host_sems)
        <4>1. HoldersOf(h) = {}
          BY <1>1, <3>5 DEF HoldersOf, At, Sound, TaskSound, OnlyCollecting,
                            Gone, WithHost, Requesting
        <4>2. Cardinality(asking) = 0
          BY <3>1, <4>1, FS_EmptySet
        <4> QED
          BY <4>2, BatchConfigAssumption
      <3> QED
        BY <3>4, <3>5
    <2> QED
      BY <2>1 DEF HostCap
  <1>2. Sound /\ PermitsKept /\ AllDirect => HostCap
    BY <1>1
  <1> QED
    BY <1>2, Invariance, PermitsInvariant, DirectInvariant, PTL

-----------------------------------------------------------------------------
(* The names of the files *)

\* A URL of the batch has a first position in it, which no other URL has
\* (orchestrator.rs: the index a task is spawned with).
LEMMA FirstPosition ==
    ASSUME urls \in Seq(Urls), NEW u \in Range(urls)
    PROVE  /\ first_index(u) + 1 \in DOMAIN urls
           /\ urls[first_index(u) + 1] = u
           /\ first_index(u) \in Nat
  <1> DEFINE at == {i \in DOMAIN urls : urls[i] = u}
             below == OpToRel(<, Nat)
  <1>1. at \subseteq Nat /\ at # {} /\ DOMAIN urls = 1 .. Len(urls) /\ Len(urls) \in Nat
    BY DEF Range
  <1>2. IsWellFoundedOn(below, Nat)
    BY NatLessThanWellFounded
  <1>4. \A i, j \in Nat : j < i => <<j, i>> \in below
    BY SMT DEF OpToRel
  <1> HIDE DEF below
  <1>3. \E i \in at : \A j \in at : <<j, i>> \notin below
    <2> HIDE DEF at
    <2> QED
      BY <1>1, <1>2, WFMin
  <1>5. PICK i \in at : \A j \in at : <<j, i>> \notin below
    BY <1>3
  <1>6. i \in DOMAIN urls /\ urls[i] = u /\ \A j \in 1 .. (i - 1) : urls[j] # u
    <2>1. ASSUME NEW j \in 1 .. (i - 1), urls[j] = u PROVE FALSE
      <3>1. i \in Nat /\ j \in Nat /\ j < i /\ j \in at
        BY <1>1, <2>1
      <3>2. <<j, i>> \in below
        BY <1>4, <3>1
      <3> QED
        BY <1>5, <3>1, <3>2
    <2> QED
      BY <2>1
  <1>7. \E k \in DOMAIN urls : urls[k] = u /\ \A j \in 1 .. (k - 1) : urls[j] # u
    BY <1>6
  <1> DEFINE f == CHOOSE k \in DOMAIN urls : urls[k] = u /\ \A j \in 1 .. (k - 1) : urls[j] # u
  <1>8. f \in DOMAIN urls /\ urls[f] = u
    BY <1>7
  <1>9. first_index(u) = f - 1
    BY DEF first_index
  <1> HIDE DEF f
  <1>10. f \in Nat \ {0} /\ first_index(u) = f - 1 /\ first_index(u) + 1 = f
    BY <1>1, <1>8, <1>9
  <1> QED
    BY <1>8, <1>10

\* The images of the batch have files of their own: no image of another URL, no
\* sidecar and no summary has the name of one.
NamesApart ==
    \A u, v \in Range(urls) :
      /\ u # v => FileName(u) # FileName(v)
      /\ FileName(u) # Sidecar(FileName(v))
      /\ FileName(u) # SummaryPath

\* A name of a number or a hash is never cut.
LEMMA BaseKept ==
    ASSUME NEW u, NEW n, NEW c, NamingStrategy \in {"Sequential", "ContentHash"}
    PROVE  \E e : generate_filename(u, n, c) =
             <<IF NamingStrategy = "Sequential" THEN Index(n) ELSE ImageHash(c), e>>
  <1> DEFINE base == IF NamingStrategy = "Sequential" THEN Index(n) ELSE ImageHash(c)
             raw == RawName(u, n, c)
  <1>1. raw = <<base, extension_from_url(u, c)>>
    BY DEF RawName
  <1>2. base[1] # "segment"
    BY DEF Index, ImageHash
  <1> HIDE DEF base, raw
  <1>3. raw[1] = base
    BY <1>1
  <1>4. \A m : Cut(raw[1], m) = base
    BY <1>2, <1>3 DEF Cut
  <1>5. \E e : truncate_filename(raw) = <<base, e>>
    BY <1>1, <1>4 DEF truncate_filename
  <1> QED
    BY <1>5 DEF generate_filename, base, raw

\* Such names are apart when what they are made from is.
Distinguished(u) == IF NamingStrategy = "Sequential" THEN first_index(u) ELSE ContentOf[u]

LEMMA KeysApart ==
    ASSUME NamingStrategy \in {"Sequential", "ContentHash"},
           \A u, v \in Range(urls) : u # v => Distinguished(u) # Distinguished(v)
    PROVE  NamesApart
  <1> DEFINE base(u) == IF NamingStrategy = "Sequential" THEN Index(first_index(u))
                                                         ELSE ImageHash(ContentOf[u])
  <1>1. \A u : \E e : FileName(u) = <<base(u), e>>
    BY BaseKept DEF FileName
  <1>2. \A u : base(u)[2] = Distinguished(u) /\ Len(base(u)) = 3 /\ base(u)[1] # "segment"
    BY DEF Index, ImageHash, Distinguished
  <1> HIDE DEF base
  <1>3. \A u : FileName(u)[1] = base(u) /\ Len(FileName(u)) = 2
    BY <1>1
  <1>4. \A u, v : FileName(u) # Sidecar(FileName(v))
    BY <1>2, <1>3 DEF Sidecar
  <1>5. \A u : FileName(u) # SummaryPath
    BY <1>2, <1>3 DEF SummaryPath
  <1>6. \A u, v \in Range(urls) : u # v => FileName(u) # FileName(v)
    BY <1>2, <1>3
  <1> QED
    BY <1>4, <1>5, <1>6 DEF NamesApart

LEMMA NumbersApart ==
    ASSUME urls \in Seq(Urls), NamingStrategy = "Sequential"
    PROVE  NamesApart
  <1>1. \A u \in Range(urls) : urls[first_index(u) + 1] = u
    BY FirstPosition
  <1>2. \A u, v \in Range(urls) : u # v => Distinguished(u) # Distinguished(v)
    BY <1>1 DEF Distinguished
  <1> QED
    BY <1>2, KeysApart

\* What is not a segment has room: a hash has 32 digits, an extension of a URL that
\* is used in lower case ten characters, a detected one four (naming.rs:20-66).
ShortParts ==
    /\ 63 <= NameLimit
    /\ Chars["bin"] <= 30
    /\ \A c \in Images : Chars[Detected[c]] <= 30
    /\ \A e \in DOMAIN Lowercase : Chars[e] <= 10 => Chars[Lowercase[e]] <= 30

LEMMA NameFits ==
    ASSUME ShortParts,
           OverflowChecks \/ \A e \in Exts : Chars[e] < NameLimit,
           NEW u \in Urls, NEW n \in Nat, NEW c \in Images,
           NamingStrategy = "Sequential" => digits[n] \in 1 .. 32,
           ~ NamePanics(u, n, c)
    PROVE  NameChars(generate_filename(u, n, c)) <= NameLimit
  <1> DEFINE raw == RawName(u, n, c)
             base == raw[1]
             ext == raw[2]
             url == extension_from_url(u, c)
  <1>1. SegmentOf[u] # NoSegment =>
          /\ SegmentOf[u].stem \in Stems /\ SegmentOf[u].ext \in Exts
          /\ Chars[SegmentOf[u].stem] \in Nat /\ Sanitized[SegmentOf[u].ext] \in Exts
    BY NamingAssumption
  <1>2. \A e \in Exts : Chars[e] \in Nat /\ e # NoExt
    BY NamingAssumption
  <1>3. url \in Exts /\ Chars[url] <= 30
    BY <1>1, <1>2, NamingAssumption DEF ShortParts, extension_from_url, HasUrlExtension
  <1>4. Detected[c] \in Exts /\ Chars[Detected[c]] <= 30 /\ "bin" \in Exts /\ Chars["bin"] <= 30
    BY NamingAssumption DEF ShortParts
  <1>5. /\ ext \in Exts /\ Len(base) = 3 /\ base[3] \in Nat
        /\ base[1] = "segment" \/ (base[3] <= 32 /\ Chars[ext] <= 30)
        /\ raw = <<base, ext>>
    <2> HIDE DEF url
    <2>1. CASE NamingStrategy = "UrlBased"
      BY <1>1, <1>4, <2>1 DEF RawName, UrlHash, Segment
    <2>2. CASE NamingStrategy = "Sequential"
      <3>1. raw = <<Index(n), url>>
        BY <2>2 DEF RawName, url
      <3> HIDE DEF raw
      <3>2. Index(n)[3] \in 1 .. 32 /\ Len(Index(n)) = 3
        BY <2>2 DEF Index
      <3> QED
        BY <1>3, <3>1, <3>2
    <2>3. CASE NamingStrategy = "ContentHash"
      <3>1. raw = <<ImageHash(c), url>>
        BY <2>3 DEF RawName, url
      <3> HIDE DEF raw
      <3> QED
        BY <1>3, <3>1 DEF ImageHash
    <2>4. CASE NamingStrategy = "FileHeader"
      BY <1>1, <1>4, <2>4 DEF RawName, UrlHash, Segment
    <2> QED
      BY <2>1, <2>2, <2>3, <2>4, NamingAssumption
  <1> HIDE DEF raw, base, ext, url
  <1>6. /\ ExtChars(raw) = Chars[ext] + 1 /\ Chars[ext] \in Nat
        /\ NameChars(raw) = base[3] + Chars[ext] + 1
    BY <1>2, <1>5 DEF ExtChars, NameChars
  <1>7. ExtChars(raw) <= NameLimit \/ NameChars(raw) <= NameLimit
    <2>1. OverflowChecks => ~ Underflows(raw)
      BY DEF NamePanics, raw
    <2> QED
      BY <1>2, <1>5, <1>6, <2>1, NamingAssumption DEF Underflows
  <1>8. \A m \in Nat :
          /\ Cut(base, m)[3] \in Nat
          /\ base[1] = "segment" => Cut(base, m)[3] <= m
          /\ base[1] # "segment" => Cut(base, m) = base
    BY <1>5 DEF Cut
  <1>9. CASE NameChars(raw) <= NameLimit
    BY <1>9 DEF truncate_filename, generate_filename, raw
  <1>10. CASE NameChars(raw) > NameLimit
    <2>1. ExtChars(raw) <= NameLimit /\ base[1] = "segment"
      BY <1>5, <1>6, <1>7, <1>10, NamingAssumption DEF ShortParts
    <2>2. CASE ExtChars(raw) < NameLimit
      <3> DEFINE m == NameLimit - ExtChars(raw)
                 cut == <<Cut(base, m), ext>>
      <3>1. truncate_filename(raw) = cut
        BY <1>5, <1>6, <1>10, <2>2, NamingAssumption DEF truncate_filename, base, ext
      <3>2. m \in Nat /\ m + Chars[ext] + 1 = NameLimit
        BY <1>6, <2>2, NamingAssumption
      <3>3. Cut(base, m)[3] \in Nat /\ Cut(base, m)[3] <= m
        BY <1>8, <2>1, <3>2
      <3>4. NameChars(cut) = Cut(base, m)[3] + Chars[ext] + 1
        BY <1>2, <1>5, <1>6, <3>3 DEF NameChars, ExtChars
      <3> QED
        BY <1>6, <3>1, <3>2, <3>3, <3>4 DEF generate_filename, raw
    <2>3. CASE ExtChars(raw) = NameLimit
      <3> DEFINE cut == <<Cut(base, NameLimit), NoExt>>
      <3>1. truncate_filename(raw) = cut
        BY <1>5, <1>6, <1>10, <2>3, NamingAssumption DEF truncate_filename, base
      <3>2. NameChars(cut) = Cut(base, NameLimit)[3] + 0
        BY DEF NameChars, ExtChars
      <3> QED
        BY <1>8, <2>1, <3>1, <3>2, NamingAssumption DEF generate_filename, raw
    <2> QED
      BY <1>6, <2>1, <2>2, <2>3, NamingAssumption
  <1> QED
    BY <1>6, <1>9, <1>10, <1>5, NamingAssumption

-----------------------------------------------------------------------------
(* The files, the results and the names in them *)

\* The download of u wrote its image and is to succeed, or did.
Succeeded(u) ==
    \/ task[u].pc = "sidecar"
    \/ task[u].pc = "finished" /\ task[u].result.error = "none"
    \/ u \in DOMAIN result_map /\ result_map[u].error = "none"

\* A blocking write that still has to open its file, or to write it.
Writing(u) == io[u].stage \in {"queued", "open"}

\* A task that writes, or has written, has a name, and writes to no other file than
\* its image and its sidecar.
Named(u) ==
    /\ task[u].pc = "writing" => io[u].path = FileName(u) /\ io[u].stage # "none"
    /\ task[u].pc = "writing" \/ Succeeded(u) => ~ NamePanics(u, first_index(u), ContentOf[u])
    /\ io[u].stage # "none" =>
         u \in Range(urls) /\ io[u].path \in {FileName(u), Sidecar(FileName(u))}

\* A result is that of its URL, in the task, in the map and in the list, and a
\* success names the file of its URL.
Answers(r, u) == r.url = u /\ (r.error = "none" => r = Success(u))
Answered ==
    /\ \A u \in Urls : task[u].pc = "finished" => Answers(task[u].result, u)
    /\ \A u \in DOMAIN result_map : task[u].pc = "collected" /\ Answers(result_map[u], u)
    /\ phase \in {"start", "collecting"} => results = <<>>
    /\ results # <<>> =>
         /\ DOMAIN results = DOMAIN urls
         /\ \A i \in DOMAIN urls :
              /\ Answers(results[i], urls[i])
              /\ results[i].error = "none" => Succeeded(urls[i])

WellNamed == (\A u \in Urls : Named(u)) /\ Answered

\* With the names apart, the file of an image holds what its own task wrote last.
Stored(u) ==
    /\ io[u] = [path |-> FileName(u), stage |-> "open"] => files[FileName(u)] = "empty"
    /\ io[u] = [path |-> FileName(u), stage |-> "ok"] => files[FileName(u)] = ContentOf[u]
    /\ Succeeded(u) => /\ files[FileName(u)] = ContentOf[u]
                       /\ ~ (Writing(u) /\ io[u].path = FileName(u))
AllStored == \A u \in Range(urls) : Stored(u)

\* Without a deadline a task waits for each of its writes.
Awaited == \A u \in Urls : Writing(u) => task[u].pc \in {"writing", "sidecar"}

\* What a step of a download does with its image and its result.
NoWrite(u) ==
    /\ io' = io
    /\ task[u].pc = "writing" => io[u].stage = "failed"
    /\ task[u].pc # "sidecar" /\ task'[u].pc \notin {"writing", "sidecar"}
    /\ task'[u].pc = "finished" =>
         task'[u].result.url = u /\ task'[u].result.error # "none"
StartsImage(u) ==
    /\ task[u].pc = "requesting" /\ task'[u].pc = "writing"
    /\ ~ NamePanics(u, first_index(u), ContentOf[u])
    /\ io' = [io EXCEPT ![u] = [path |-> FileName(u), stage |-> "queued"]]
StartsSidecar(u) ==
    /\ task[u].pc = "writing" /\ task'[u].pc = "sidecar"
    /\ io[u].stage = "ok"
    /\ io' = [io EXCEPT ![u] = [path |-> Sidecar(FileName(u)), stage |-> "queued"]]
Succeeds(u) ==
    /\ io' = io
    /\ \/ task[u].pc = "writing" /\ io[u].stage = "ok"
       \/ task[u].pc = "sidecar" /\ io[u].stage \in {"ok", "failed"}
    /\ task'[u].pc = "finished" /\ task'[u].result = Success(u)

DiskStep(u) == NoWrite(u) \/ StartsImage(u) \/ StartsSidecar(u) \/ Succeeds(u)

LEMMA OneDiskStep ==
    ASSUME Sound, NEW u \in Urls, DownloadOne(u)
    PROVE  DiskStep(u)
  <1>1. /\ task \in [Urls -> Task] /\ task[u] \in Task /\ TaskSound(u)
    BY DEF Sound, Shape
  <1>fail. ASSUME NEW t \in Task, NEW e \in Errors, NEW n \in Nat,
                  Finish(u, t, Failure(u, e, n)), UNCHANGED io,
                  task[u].pc # "sidecar", task[u].pc = "writing" => io[u].stage = "failed"
           PROVE  NoWrite(u)
    <2>1. Failure(u, e, n) \in Result
      BY FailureIsResult
    <2>2. task'[u].pc = "finished" /\ task'[u].result = Failure(u, e, n)
      BY <1>1, <1>fail, <2>1, AfterFinish
    <2>3. Failure(u, e, n).url = u /\ Failure(u, e, n).error # "none"
      BY DEF Failure, Errors, AcquireErrors, RequestErrors
    <2> QED
      BY <1>fail, <2>2, <2>3 DEF NoWrite
  <1>go. ASSUME NEW p \in Places, Goto(u, p)
         PROVE  task'[u].pc = p
    BY <1>1, <1>go, AfterGoto
  <1>nat. RetriesOf(task[u]) \in Nat /\ task[u].retries_attempted \in Nat
    BY <1>1, RetriesAreNat DEF Task
  <1>p. WithGlobal \cup {"global", "panicked"} \subseteq Places
    BY DEF Places, Ended
  <1> USE DEF WithGlobal, WithHost, Requesting
  <1>2. CASE ParseUrl(u)
    <2>1. CASE HostOf[u] = NoHost
      <3> DEFINE f == [task[u] EXCEPT !.pc = "finished",
                                      !.result = Failure(u, "ConnectionFailed", 0)]
      <3>1. task' = [task EXCEPT ![u] = f] /\ UNCHANGED io /\ task[u].pc = "spawned"
        BY <1>2, <2>1 DEF ParseUrl
      <3>2. f.pc = "finished" /\ f.result = Failure(u, "ConnectionFailed", 0)
        BY <1>1 DEF Task
      <3>3. task'[u] = f
        BY <1>1, <3>1
      <3>4. /\ Failure(u, "ConnectionFailed", 0).url = u
            /\ Failure(u, "ConnectionFailed", 0).error # "none"
        BY DEF Failure
      <3> HIDE DEF f
      <3> QED
        BY <3>1, <3>2, <3>3, <3>4 DEF DiskStep, NoWrite
    <2>2. CASE HostOf[u] # NoHost
      BY <1>2, <1>go, <1>p, <2>2 DEF ParseUrl, DiskStep, NoWrite
    <2> QED
      BY <2>1, <2>2
  <1>3. CASE AcquireGlobal(u) \/ HostSemaphore(u) \/ AcquireHost(u) \/ AcquireReturns(u)
             \/ NamingPanics(u)
    BY <1>3, <1>go, <1>p
    DEF AcquireGlobal, HostSemaphore, AcquireHost, AcquireReturns, NamingPanics, DiskStep, NoWrite
  <1>4. CASE AcquireFails(u) \/ RequestFails(u)
    <2>1. PICK e \in Errors : AttemptFails(u, e)
      BY <1>4 DEF AcquireFails, RequestFails, Errors
    <2>2. task[u].pc \in Requesting /\ UNCHANGED io
      BY <1>4 DEF AcquireFails, RequestFails
    <2>3. \/ task'[u].pc = "backoff"
          \/ /\ task'[u].pc = "finished"
             /\ task'[u].result = Failure(u, e, RetriesOf(task[u]))
      BY <2>1, <2>2, AfterAttemptFails
    <2>4. /\ Failure(u, e, RetriesOf(task[u])).url = u
          /\ Failure(u, e, RetriesOf(task[u])).error # "none"
      BY DEF Failure, Errors, AcquireErrors, RequestErrors
    <2> QED
      BY <2>2, <2>3, <2>4 DEF DiskStep, NoWrite
  <1>5. CASE BackoffEnds(u)
    <2>1. task'[u].pc = "acquiring" /\ task[u].pc = "backoff" /\ UNCHANGED io
      BY <1>1, <1>5, AfterBackoff DEF BackoffEnds
    <2> QED
      BY <2>1 DEF DiskStep, NoWrite
  <1>6. CASE RequestRedirects(u)
    <2>1. task[u].pc = "requesting" /\ UNCHANGED io
      BY <1>6 DEF RequestRedirects
    <2>2. PICK new \in RedirectsTo \ {task[u].host}, n \in 1 .. (MaxRedirects - task[u].hops) :
            LET after == [task[u] EXCEPT !.hops = @ + n,
                                         !.retries_attempted = RetriesOf(task[u])]
            IN  IF task[u].leg = 2 \/ new = NoHost
                THEN Finish(u, after, Failure(u, "TooManyRedirects", RetriesOf(task[u])))
                ELSE /\ task' = [task EXCEPT ![u] = [after EXCEPT !.pc = "acquiring",
                                                                  !.leg = 2,
                                                                  !.host = new,
                                                                  !.attempt = 0]]
                     /\ UNCHANGED <<global_sem, host_sems>>
      BY <1>6 DEF RequestRedirects
    <2> DEFINE after == [task[u] EXCEPT !.hops = task[u].hops + n,
                                        !.retries_attempted = RetriesOf(task[u])]
               second == [after EXCEPT !.pc = "acquiring", !.leg = 2, !.host = new,
                                       !.attempt = 0]
    <2>3. task[u].hops + n \in Nat
      BY <1>1, BatchConfigAssumption DEF Task
    <2>4. after \in Task
      BY <1>1, <1>nat, <2>3 DEF Task
    <2>5. CASE task[u].leg = 2 \/ new = NoHost
      <3>1. Finish(u, after, Failure(u, "TooManyRedirects", RetriesOf(task[u])))
        BY <2>2, <2>5
      <3>2. "TooManyRedirects" \in Errors
        BY DEF Errors, RequestErrors
      <3> HIDE DEF after
      <3> QED
        BY <1>fail, <1>nat, <2>1, <2>4, <3>1, <3>2 DEF DiskStep
    <2>6. CASE ~ (task[u].leg = 2 \/ new = NoHost)
      <3>1. task' = [task EXCEPT ![u] = second]
        BY <2>2, <2>6
      <3> HIDE DEF after
      <3>2. second.pc = "acquiring"
        BY <2>4 DEF Task
      <3> HIDE DEF second
      <3>3. task'[u] = second
        BY <1>1, <3>1
      <3> QED
        BY <2>1, <3>2, <3>3 DEF DiskStep, NoWrite
    <2> QED
      BY <2>5, <2>6
  <1>7. CASE ResponseInvalid(u)
    <2>1. "ValidationFailed" \in Errors
      BY DEF Errors
    <2> QED
      BY <1>1, <1>7, <1>fail, <1>nat, <2>1 DEF ResponseInvalid, DiskStep
  <1>8. CASE ImageNotWritten(u)
    <2>1. "WriteError" \in Errors
      BY DEF Errors
    <2> QED
      BY <1>1, <1>8, <1>fail, <1>nat, <2>1 DEF ImageNotWritten, DiskStep
  <1>9. CASE ResponseValid(u)
    <2> DEFINE t == [task[u] EXCEPT !.pc = "writing", !.retries_attempted = RetriesOf(task[u])]
    <2>1. task' = [task EXCEPT ![u] = t]
      BY <1>9 DEF ResponseValid
    <2>2. t.pc = "writing"
      BY <1>1 DEF Task
    <2> HIDE DEF t
    <2>3. task'[u].pc = "writing"
      BY <1>1, <2>1, <2>2
    <2> QED
      BY <1>9, <2>3 DEF ResponseValid, DiskStep, StartsImage
  <1>succeed. ASSUME Finish(u, task[u], Success(u)), u \in Range(urls)
              PROVE  task'[u].pc = "finished" /\ task'[u].result = Success(u)
    <2>1. Success(u) \in Result
      BY <1>succeed, SuccessIsResult
    <2> QED
      BY <1>1, <1>succeed, <2>1, AfterFinish
  <1>10. CASE ImageWritten(u)
    <2>1. u \in Range(urls) /\ task[u].pc = "writing" /\ io[u].stage = "ok"
      BY <1>1, <1>10 DEF TaskSound, ImageWritten, Written
    <2>2. CASE WriteMetadata
      BY <1>10, <1>go, <1>p, <2>1, <2>2 DEF ImageWritten, DiskStep, StartsSidecar
    <2>3. CASE ~ WriteMetadata
      BY <1>10, <1>succeed, <2>1, <2>3 DEF ImageWritten, DiskStep, Succeeds
    <2> QED
      BY <2>2, <2>3
  <1>11. CASE SidecarEnds(u)
    <2>1. u \in Range(urls) /\ task[u].pc = "sidecar" /\ io[u].stage \in {"ok", "failed"}
      BY <1>1, <1>11 DEF TaskSound, SidecarEnds, SidecarDone
    <2> QED
      BY <1>11, <1>succeed, <2>1 DEF SidecarEnds, DiskStep, Succeeds
  <1> QED
    BY <1>2, <1>3, <1>4, <1>5, <1>6, <1>7, <1>8, <1>9, <1>10, <1>11 DEF DownloadOne

LEMMA SameNames ==
    ASSUME urls' = urls
    PROVE  \A u : /\ first_index(u)' = first_index(u)
                  /\ FileName(u)' = FileName(u) /\ Success(u)' = Success(u)
  <1>1. \A u : first_index(u)' = first_index(u)
    BY DEF first_index
  <1> QED
    BY <1>1, SameInput DEF Success

\* The steps that do not begin to write leave the names alone.
LEMMA NamedStays ==
    ASSUME urls' = urls, NEW u, Named(u),
           task'[u].pc = "writing" => task[u].pc = "writing",
           Succeeded(u)' => Succeeded(u),
           io'[u].path = io[u].path, io'[u].stage = "none" <=> io[u].stage = "none"
    PROVE  Named(u)'
  <1>1. /\ first_index(u)' = first_index(u) /\ FileName(u)' = FileName(u)
        /\ Range(urls)' = Range(urls)
    BY SameNames, SameInput
  <1> QED
    BY <1>1 DEF Named

\* A step of a download: the names, ...
LEMMA DownloadNamed ==
    ASSUME Sound, WellNamed, NEW u \in Urls, DownloadOne(u), NEW v \in Urls
    PROVE  Named(v)' /\ (v # u => (Succeeded(v)' <=> Succeeded(v)) /\ io'[v] = io[v])
  <1>1. StepOf(u) /\ DiskStep(u)
    BY OneStep, OneDiskStep
  <1>2. /\ urls' = urls /\ result_map' = result_map
        /\ \A w \in Urls \ {u} : task'[w] = task[w] /\ io'[w] = io[w]
        /\ task[u].pc \notin Gone
    BY <1>1 DEF StepOf, WriteStep
  <1>3. io \in [Urls -> [path : Paths \cup {NoPath}, stage : Stages]] /\ TaskSound(u)
    BY DEF Sound, Shape
  <1>4. Named(v) /\ Named(u) /\ u \notin DOMAIN result_map
    BY <1>2 DEF WellNamed, Answered, Gone
  <1>5. CASE v # u
    <2>1. task'[v] = task[v] /\ io'[v] = io[v]
      BY <1>2, <1>5
    <2>2. Succeeded(v)' <=> Succeeded(v)
      BY <1>2, <2>1 DEF Succeeded
    <2> QED
      BY <1>2, <1>4, <2>1, <2>2, NamedStays
  <1>6. CASE v = u
    <2>1. u \in Range(urls)
      BY <1>2, <1>3 DEF TaskSound, Gone
    <2>2. /\ first_index(u)' = first_index(u) /\ FileName(u)' = FileName(u)
          /\ Range(urls)' = Range(urls)
      BY <1>2, SameNames, SameInput
    <2>3. CASE NoWrite(u)
      <3>1. ~ Succeeded(u)'
        BY <1>2, <1>4, <2>3 DEF NoWrite, Succeeded
      <3> QED
        BY <1>2, <1>4, <1>6, <2>3, <3>1, NamedStays DEF NoWrite
    <2>4. CASE StartsImage(u)
      <3>1. ~ Succeeded(u)'
        BY <1>2, <1>4, <2>4 DEF StartsImage, Succeeded
      <3>2. io'[u] = [path |-> FileName(u), stage |-> "queued"]
        BY <1>3, <2>4 DEF StartsImage
      <3> QED
        BY <1>6, <2>1, <2>2, <2>4, <3>1, <3>2 DEF Named, StartsImage
    <2>5. CASE StartsSidecar(u)
      <3>1. io'[u] = [path |-> Sidecar(FileName(u)), stage |-> "queued"]
        BY <1>3, <2>5 DEF StartsSidecar
      <3>2. Sidecar(FileName(u))' = Sidecar(FileName(u))
        BY <2>2 DEF Sidecar
      <3> QED
        BY <1>4, <1>6, <2>1, <2>2, <2>5, <3>1, <3>2 DEF Named, StartsSidecar
    <2>6. CASE Succeeds(u)
      <3>1. ~ NamePanics(u, first_index(u), ContentOf[u])
        BY <1>4, <2>6 DEF Named, Succeeds, Succeeded
      <3>2. Sidecar(FileName(u))' = Sidecar(FileName(u))
        BY <2>2 DEF Sidecar
      <3> QED
        BY <1>4, <1>6, <2>1, <2>2, <2>6, <3>1, <3>2 DEF Named, Succeeds
    <2> QED
      BY <1>1, <2>3, <2>4, <2>5, <2>6 DEF DiskStep
  <1> QED
    BY <1>5, <1>6

\* ... and the answers.
LEMMA DownloadAnswered ==
    ASSUME Sound, WellNamed, NEW u \in Urls, DownloadOne(u)
    PROVE  Answered'
  <1>1. StepOf(u) /\ DiskStep(u)
    BY OneStep, OneDiskStep
  <1>2. /\ UNCHANGED <<urls, phase, result_map, results>>
        /\ \A v \in Urls \ {u} : task'[v] = task[v]
        /\ task[u].pc \notin Gone
    BY <1>1 DEF StepOf
  <1>3. phase = "collecting" /\ results = <<>> /\ u \notin DOMAIN result_map
    BY <1>2 DEF WellNamed, Answered, Sound, OnlyCollecting, Gone
  <1>4. task'[u].pc = "finished" => Answers(task'[u].result, u)
    BY <1>1 DEF DiskStep, NoWrite, StartsImage, StartsSidecar, Succeeds, Answers, Success
  <1>5. \A v \in DOMAIN result_map : v \in Urls \ {u}
    BY <1>3 DEF Sound, Shape
  <1>6. ASSUME NEW v \in Urls, task'[v].pc = "finished" PROVE Answers(task[v].result, v)'
    <2>1. Answers(task'[v].result, v)
      BY <1>2, <1>4, <1>6 DEF WellNamed, Answered
    <2> QED
      BY <1>2, <2>1, SameNames DEF Answers
  <1>7. ASSUME NEW v \in DOMAIN result_map
        PROVE  task'[v].pc = "collected" /\ Answers(result_map[v], v)'
    <2>1. task'[v].pc = "collected" /\ Answers(result_map[v], v)
      BY <1>2, <1>5, <1>7 DEF WellNamed, Answered
    <2> QED
      BY <1>2, <2>1, SameNames DEF Answers
  <1> QED
    BY <1>2, <1>3, <1>6, <1>7 DEF Answered

LEMMA JoinWellNamed ==
    ASSUME Sound, WellNamed, NEW u \in Urls, Join(u)
    PROVE  WellNamed' /\ \A v \in Urls : Succeeded(v)' => Succeeded(v)
  <1>1. /\ phase = "collecting" /\ task[u].pc \in Ended /\ Goto(u, "collected")
        /\ UNCHANGED <<urls, phase, io, results>>
        /\ "collected" \in Places /\ task \in [Urls -> Task]
    BY DEF Join, Places, Gone, Sound, Shape
  <1>2. /\ task'[u].pc = "collected"
        /\ \A v \in Urls \ {u} : task'[v] = task[v]
    BY <1>1, AfterGoto
  <1>3. \A v \in DOMAIN result_map : v \in Urls \ {u}
    BY <1>1 DEF WellNamed, Answered, Sound, Shape, Ended
  <1>4. /\ \A v \in DOMAIN result_map : v \in DOMAIN result_map' /\ result_map'[v] = result_map[v]
        /\ \A v \in DOMAIN result_map' \ DOMAIN result_map :
             v = u /\ task[u].pc = "finished" /\ result_map'[u] = task[u].result
    BY <1>1, <1>3 DEF Join, Ended
  <1>5. \A v \in Urls : Succeeded(v)' => Succeeded(v)
    BY <1>2, <1>4 DEF Succeeded
  <1>6. \A v \in Urls : Named(v)'
    <2>1. ASSUME NEW v \in Urls PROVE Named(v)'
      <3>1. task'[v].pc = "writing" => task[v].pc = "writing"
        BY <1>2
      <3> QED
        BY <1>1, <1>5, <3>1, NamedStays DEF WellNamed
    <2> QED
      BY <2>1
  <1>7. ASSUME NEW v \in Urls, task'[v].pc = "finished" PROVE Answers(task[v].result, v)'
    <2>1. Answers(task'[v].result, v)
      BY <1>2, <1>7 DEF WellNamed, Answered
    <2> QED
      BY <1>1, <2>1, SameNames DEF Answers
  <1>8. ASSUME NEW v \in DOMAIN result_map'
        PROVE  task'[v].pc = "collected" /\ Answers(result_map[v], v)'
    <2>1. task'[v].pc = "collected" /\ Answers(result_map'[v], v)
      BY <1>2, <1>3, <1>4, <1>8 DEF WellNamed, Answered
    <2> QED
      BY <1>1, <2>1, SameNames DEF Answers
  <1>9. Answered'
    BY <1>1, <1>7, <1>8 DEF Answered, WellNamed
  <1> QED
    BY <1>5, <1>6, <1>9 DEF WellNamed

\* The collector's other steps, and those of the blocking threads.
LEMMA OthersWellNamed ==
    ASSUME Sound, WellNamed, [Next]_vars,
           ~ \E u \in Urls : DownloadOne(u) \/ Join(u)
    PROVE  /\ WellNamed'
           /\ \A v \in Urls : Succeeded(v)' => Succeeded(v)
           /\ urls' = urls
  <1>1. UNCHANGED <<urls, result_map>>
    BY DEF Next, Collector, Start, EmptyBatch, NoDirectory, FanOut, AllJoined, DeadlinePasses,
           SummaryEnds, BlockingWrite, OpenFile, WriteBytes, WriteFails, Terminated, vars
  <1>2. ASSUME NEW v \in Urls
        PROVE  \/ task'[v] = task[v]
               \/ task[v].pc # "collected" /\ task'[v].pc \in {"absent", "spawned", "dropped"}
    <2>1. CASE FanOut
      BY <2>1, AfterFanOut DEF Sound, NotStarted, FanOut
    <2>2. CASE DeadlinePasses
      <3>1. task'[v] = IF task[v].pc \in Gone THEN task[v] ELSE [task[v] EXCEPT !.pc = "dropped"]
        BY <2>2 DEF DeadlinePasses
      <3>2. task[v] \in Task
        BY DEF Sound, Shape
      <3> QED
        BY <3>1, <3>2 DEF Task, Gone
    <2>3. CASE UNCHANGED task
      BY <2>3
    <2> QED
      BY <2>1, <2>2, <2>3
      DEF Next, Collector, Start, EmptyBatch, NoDirectory, AllJoined,
          SummaryEnds, BlockingWrite, OpenFile, WriteBytes, WriteFails, Terminated, vars
  <1>3. \A v \in Urls : Succeeded(v)' => Succeeded(v)
    BY <1>1, <1>2 DEF Succeeded
  <1>4. ASSUME NEW v \in Urls
        PROVE  io'[v].path = io[v].path /\ (io'[v].stage = "none" <=> io[v].stage = "none")
    <2>1. CASE \E u \in Urls : BlockingWrite(u)
      <3>1. PICK u \in Urls : BlockingWrite(u)
        BY <2>1
      <3>2. PICK s \in {"open", "ok", "failed"} :
              io' = [io EXCEPT ![u].stage = s] /\ io[u].stage \in {"queued", "open"}
        BY <3>1 DEF BlockingWrite, OpenFile, WriteBytes, WriteFails
      <3> QED
        BY <3>2 DEF Sound, Shape
    <2>2. CASE UNCHANGED io
      BY <2>2
    <2> QED
      BY <2>1, <2>2
      DEF Next, Collector, Start, EmptyBatch, NoDirectory, FanOut, AllJoined, DeadlinePasses,
          SummaryEnds, Terminated, vars
  <1>5. ASSUME NEW v \in Urls PROVE Named(v)'
    BY <1>1, <1>2, <1>3, <1>4, NamedStays DEF WellNamed
  <1>6. ASSUME NEW v \in Urls, task'[v].pc = "finished" PROVE Answers(task[v].result, v)'
    <2>1. Answers(task'[v].result, v)
      BY <1>2, <1>6 DEF WellNamed, Answered
    <2> QED
      BY <1>1, <2>1, SameNames DEF Answers
  <1>7. ASSUME NEW v \in DOMAIN result_map
        PROVE  /\ v \in Urls /\ task'[v].pc = "collected"
               /\ Answers(result_map[v], v) /\ Answers(result_map[v], v)'
    <2>1. v \in Urls /\ task[v].pc = "collected" /\ Answers(result_map[v], v)
      BY <1>7 DEF WellNamed, Answered, Sound, Shape
    <2>2. task'[v].pc = "collected"
      BY <1>2, <2>1
    <2> QED
      BY <1>1, <2>1, <2>2, SameNames DEF Answers
  <1> DEFINE Filled ==
        /\ DOMAIN results = DOMAIN urls
        /\ \A i \in DOMAIN urls :
             /\ Answers(results[i], urls[i])
             /\ results[i].error = "none" => Succeeded(urls[i])
  <1>8. /\ phase' \in {"start", "collecting"} => results' = <<>>
        /\ results' # <<>> => Filled'
    <2>1. CASE NoDirectory
      <3>1. results' = [i \in DOMAIN urls |-> Failure(urls[i], "WriteError", 0)]
            /\ phase' = "returned"
        BY <2>1 DEF NoDirectory
      <3>2. ASSUME NEW i \in DOMAIN urls'
            PROVE  /\ Answers(results[i], urls[i])'
                   /\ results'[i].error # "none"
        BY <1>1, <3>1, <3>2 DEF Answers, Failure
      <3> QED
        BY <1>1, <3>1, <3>2
    <2>2. CASE AllJoined \/ DeadlinePasses
      <3>1. /\ phase' \in {"summary", "returned"}
            /\ results' = [i \in DOMAIN urls |->
                             IF urls[i] \in DOMAIN result_map THEN result_map[urls[i]]
                                                              ELSE Missing(urls[i])]
        BY <2>2 DEF AllJoined, DeadlinePasses, Assemble
      <3>2. ASSUME NEW i \in DOMAIN urls'
            PROVE  /\ Answers(results[i], urls[i])'
                   /\ results'[i].error = "none" => Succeeded(urls[i])'
        <4>1. i \in DOMAIN urls /\ urls'[i] = urls[i]
          BY <1>1, <3>2
        <4>2. CASE urls[i] \in DOMAIN result_map
          <5>1. PICK v : v = urls[i]
            OBVIOUS
          <5>2. results'[i] = result_map[v] /\ Answers(result_map[v], v)'
            BY <1>1, <1>7, <3>1, <4>1, <4>2, <5>1
          <5> QED
            BY <1>1, <3>1, <4>1, <4>2, <5>1, <5>2 DEF Answers, Succeeded
        <4>3. CASE urls[i] \notin DOMAIN result_map
          <5>1. results'[i] = Missing(urls[i])
            BY <3>1, <4>1, <4>3
          <5>2. Missing(urls[i]).url = urls[i] /\ Missing(urls[i]).error # "none"
            BY DEF Missing, Failure
          <5> QED
            BY <4>1, <5>1, <5>2 DEF Answers
        <4> QED
          BY <4>2, <4>3
      <3> QED
        BY <1>1, <3>1, <3>2
    <2>3. CASE ~ (NoDirectory \/ AllJoined \/ DeadlinePasses)
      <3>1. UNCHANGED results /\ (phase' \in {"start", "collecting"} => phase \in {"start", "collecting"})
        BY <2>3 DEF Next, Collector, Start, EmptyBatch, FanOut, SummaryEnds,
            BlockingWrite, OpenFile, WriteBytes, WriteFails, Terminated, vars
      <3>2. results = <<>> \/ (Filled /\ phase \notin {"start", "collecting"})
        BY DEF WellNamed, Answered
      <3>3. CASE Filled /\ phase \notin {"start", "collecting"}
        <4>1. UNCHANGED task
          BY <2>3, <3>3 DEF Next, Collector, Start, EmptyBatch, FanOut, SummaryEnds,
              BlockingWrite, OpenFile, WriteBytes, WriteFails, Terminated, vars
        <4>2. ASSUME NEW i \in DOMAIN urls'
              PROVE  /\ Answers(results[i], urls[i])'
                     /\ results'[i].error = "none" => Succeeded(urls[i])'
          <5>1. /\ Answers(results[i], urls[i])
                /\ results[i].error = "none" => Succeeded(urls[i])
            BY <1>1, <3>3, <4>2
          <5> QED
            BY <1>1, <3>1, <4>1, <5>1, SameNames DEF Answers, Succeeded
        <4> QED
          BY <1>1, <3>1, <3>3, <4>2
      <3> QED
        BY <3>1, <3>2, <3>3
    <2> QED
      BY <2>1, <2>2, <2>3
  <1>9. Answered'
    BY <1>1, <1>6, <1>7, <1>8 DEF Answered
  <1> QED
    BY <1>1, <1>3, <1>5, <1>9 DEF WellNamed

LEMMA WellNamedInvariant == Spec => []WellNamed
  <1>1. ASSUME Init PROVE WellNamed
    <2>1. DOMAIN result_map = {} /\ results = <<>>
      BY <1>1 DEF Init
    <2>2. \A u \in Urls : task[u].pc = "absent" /\ io[u].stage = "none"
      BY <1>1 DEF Init
    <2> QED
      BY <2>1, <2>2 DEF WellNamed, Named, Answered, Succeeded
  <1>2. ASSUME Sound, WellNamed, [Next]_vars PROVE WellNamed'
    <2>1. CASE \E u \in Urls : DownloadOne(u)
      BY <1>2, <2>1, DownloadNamed, DownloadAnswered DEF WellNamed
    <2>2. CASE \E u \in Urls : Join(u)
      BY <1>2, <2>2, JoinWellNamed
    <2>3. CASE ~ \E u \in Urls : DownloadOne(u) \/ Join(u)
      BY <1>2, <2>3, OthersWellNamed
    <2> QED
      BY <2>1, <2>2, <2>3
  <1>3. Init => WellNamed
    BY <1>1
  <1>4. Sound /\ WellNamed /\ [Next]_vars => WellNamed'
    BY <1>2
  <1> QED
    BY <1>3, <1>4, Invariance, PTL DEF Spec

LEMMA UrlsStay == [Next]_vars => urls' = urls
  BY DEF Next, Collector, Start, EmptyBatch, NoDirectory, FanOut, Join, AllJoined,
         DeadlinePasses, SummaryEnds, DownloadOne, ParseUrl, AcquireGlobal, HostSemaphore,
         AcquireHost, AcquireFails, AcquireReturns, BackoffEnds, RequestFails,
         RequestRedirects, ResponseInvalid, NamingPanics, ResponseValid, ImageNotWritten,
         ImageWritten, SidecarEnds, BlockingWrite, OpenFile, WriteBytes, WriteFails,
         Terminated, vars

\* The position of a URL has at most 32 digits; those of a list in memory have 20.
NumbersFit ==
    NamingStrategy = "Sequential" => \A i \in DOMAIN urls : digits[i - 1] \in 1 .. 32

\* No file that a success names is longer than 200 characters (naming.rs:76-105),
\* whatever the strategy and however long the segments, if the names that underflow
\* are none (no extension is as long as the limit) or panic (debug builds).  In a
\* release build such a name is not cut.
THEOREM NamesWithin ==
    ASSUME ShortParts, OverflowChecks \/ \A e \in Exts : Chars[e] < NameLimit
    PROVE  Spec /\ NumbersFit => []NamesBounded
  <1>1. ASSUME Sound, WellNamed, NumbersFit PROVE NamesBounded
    <2>1. ASSUME NEW i \in DOMAIN results, results[i].error = "none"
          PROVE  NameChars(results[i].path) <= NameLimit
      <3>1. i \in DOMAIN urls /\ results[i] = Success(urls[i]) /\ Succeeded(urls[i])
        BY <1>1, <2>1 DEF WellNamed, Answered, Answers
      <3>2. PICK u \in Urls : u = urls[i]
        BY <1>1, <3>1 DEF Sound, Shape
      <3>3. u \in Range(urls) /\ results[i].path = FileName(u)
        BY <3>1, <3>2 DEF Range, Success
      <3>4. ~ NamePanics(u, first_index(u), ContentOf[u])
        BY <1>1, <3>1, <3>2 DEF WellNamed, Named
      <3>5. first_index(u) + 1 \in DOMAIN urls /\ first_index(u) \in Nat
        <4>1. urls \in Seq(Urls)
          BY <1>1 DEF Sound, Shape
        <4> QED
          BY <3>3, <4>1, FirstPosition
      <3>6. NamingStrategy = "Sequential" => digits[first_index(u)] \in 1 .. 32
        <4>1. (first_index(u) + 1) - 1 = first_index(u)
          BY <3>5
        <4> QED
          BY <1>1, <3>5, <4>1 DEF NumbersFit
      <3>7. ContentOf[u] \in Images
        BY BatchUrlsAssumption
      <3> QED
        BY <3>3, <3>4, <3>5, <3>6, <3>7, NameFits DEF FileName
    <2> QED
      BY <2>1 DEF NamesBounded
  <1>2. Sound /\ WellNamed /\ NumbersFit => NamesBounded
    BY <1>1
  <1>3. NumbersFit /\ [Next]_vars => NumbersFit'
    BY UrlsStay DEF NumbersFit
  <1> QED
    BY <1>2, <1>3, Invariance, WellNamedInvariant, PTL DEF Spec

-----------------------------------------------------------------------------
(* The files after the batch returned *)

LEMMA AwaitedInvariant ==
    ASSUME ~ BatchTimeout
    PROVE  Spec => []Awaited
  <1>1. Init => Awaited
    BY DEF Init, Awaited, Writing
  <1>2. ASSUME Sound, Awaited, [Next]_vars PROVE Awaited'
    <2>1. CASE \E u \in Urls : DownloadOne(u)
      <3>1. PICK u \in Urls : DownloadOne(u)
        BY <2>1
      <3>2. StepOf(u) /\ DiskStep(u)
        BY <1>2, <3>1, OneStep, OneDiskStep
      <3>3. ASSUME NEW v \in Urls \ {u}, Writing(v)' PROVE task'[v].pc \in {"writing", "sidecar"}
        BY <1>2, <3>2, <3>3 DEF StepOf, WriteStep, Awaited, Writing
      <3>4. Writing(u)' => task'[u].pc \in {"writing", "sidecar"}
        BY <1>2, <3>2
        DEF DiskStep, NoWrite, StartsImage, StartsSidecar, Succeeds, Awaited, Writing
      <3> QED
        BY <3>3, <3>4 DEF Awaited
    <2>2. CASE \E u \in Urls : Join(u)
      <3>1. PICK u \in Urls : Join(u)
        BY <2>2
      <3>2. /\ task[u].pc \in Ended /\ Goto(u, "collected") /\ UNCHANGED io
            /\ "collected" \in Places /\ task \in [Urls -> Task]
        BY <1>2, <3>1 DEF Join, Places, Gone, Sound, Shape
      <3>3. \A v \in Urls \ {u} : task'[v] = task[v]
        BY <3>2, AfterGoto
      <3> QED
        BY <1>2, <3>2, <3>3 DEF Awaited, Writing, Ended
    <2>3. CASE FanOut
      <3>1. \A v \in Urls : ~ Writing(v)
        BY <1>2, <2>3 DEF FanOut, Sound, NotStarted, Awaited
      <3> QED
        BY <2>3, <3>1 DEF FanOut, Awaited, Writing
    <2>4. CASE \E u \in Urls : BlockingWrite(u)
      <3>1. PICK u \in Urls : BlockingWrite(u)
        BY <2>4
      <3>2. PICK s \in {"open", "ok", "failed"} :
              /\ io' = [io EXCEPT ![u].stage = s] /\ Writing(u)
              /\ UNCHANGED task
        BY <3>1 DEF BlockingWrite, OpenFile, WriteBytes, WriteFails, Writing
      <3> QED
        BY <1>2, <3>2 DEF Awaited, Writing, Sound, Shape
    <2>5. CASE UNCHANGED <<task, io>>
      BY <1>2, <2>5 DEF Awaited, Writing
    <2> QED
      BY <1>2, <2>1, <2>2, <2>3, <2>4, <2>5
      DEF Next, Collector, Start, EmptyBatch, NoDirectory, AllJoined, SummaryEnds,
          DeadlinePasses, MayTimeOut, Terminated, vars
  <1>3. Sound /\ Awaited /\ [Next]_vars => Awaited'
    BY <1>2
  <1> QED
    BY <1>1, <1>3, Invariance, PTL DEF Spec

\* Without a deadline no file of the batch changes after it returned: download_one
\* awaits each of its writes (orchestrator.rs:394,433), and the batch every task.
THEOREM QuietWithoutDeadline ==
    ASSUME ~ BatchTimeout
    PROVE  Spec => QuietAfterReturn
  <1>1. ASSUME Sound, Awaited, [Next]_vars, phase = "returned" PROVE UNCHANGED files
    <2>1. \A u \in Urls : ~ Writing(u) /\ task[u].pc \in Gone
      BY <1>1 DEF Sound, OnlyCollecting, Awaited, Gone
    <2>2. \A u \in Urls : ~ BlockingWrite(u)
      BY <2>1 DEF BlockingWrite, OpenFile, WriteBytes, WriteFails, Writing
    <2>3. ASSUME NEW u \in Urls, DownloadOne(u) PROVE UNCHANGED files
      BY <1>1, <2>3, OneStep DEF StepOf
    <2> QED
      BY <1>1, <2>2, <2>3
      DEF Next, Collector, Start, EmptyBatch, NoDirectory, FanOut, Join, AllJoined,
          SummaryEnds, DeadlinePasses, Terminated, vars
  <1>2. Sound /\ Awaited /\ [Next]_vars => [phase = "returned" => UNCHANGED files]_vars
    BY <1>1
  <1> QED
    BY <1>2, Invariance, AwaitedInvariant, PTL DEF Spec, QuietAfterReturn

-----------------------------------------------------------------------------
(* What the files hold *)

\* The steps that leave its write and its file alone keep a file stored.
LEMMA StoredStays ==
    ASSUME urls' = urls, NEW u, Stored(u), io'[u] = io[u],
           Succeeded(u)' => Succeeded(u), files'[FileName(u)] = files[FileName(u)]
    PROVE  Stored(u)'
  <1>1. FileName(u)' = FileName(u)
    BY SameNames
  <1> QED
    BY <1>1 DEF Stored, Writing

LEMMA DownloadStored ==
    ASSUME Sound, WellNamed, NamesApart, AllStored,
           NEW u \in Urls, DownloadOne(u), NEW v \in Range(urls)
    PROVE  Stored(v)'
  <1>1. StepOf(u) /\ DiskStep(u) /\ v \in Urls
    BY OneStep, OneDiskStep DEF Sound, Shape, Range
  <1>2. /\ UNCHANGED <<urls, files, result_map>> /\ FileName(v)' = FileName(v)
        /\ FileName(u)' = FileName(u)
    BY <1>1, SameNames DEF StepOf
  <1>3. io \in [Urls -> [path : Paths \cup {NoPath}, stage : Stages]] /\ Stored(v)
    BY DEF Sound, Shape, AllStored
  <1>4. CASE v # u
    <2>1. (Succeeded(v)' <=> Succeeded(v)) /\ io'[v] = io[v]
      BY <1>1, <1>4, DownloadNamed
    <2> QED
      BY <1>2, <1>3, <2>1, StoredStays
  <1>5. CASE v = u
    <2>1. /\ FileName(u) # Sidecar(FileName(u)) /\ Named(u)
          /\ u \notin DOMAIN result_map
      BY <1>1, <1>5 DEF NamesApart, WellNamed, Answered, StepOf, Gone
    <2>2. CASE NoWrite(u)
      <3>1. ~ Succeeded(u)'
        BY <1>2, <2>1, <2>2 DEF NoWrite, Succeeded
      <3> QED
        BY <1>2, <1>3, <1>5, <2>2, <3>1, StoredStays DEF NoWrite
    <2>3. CASE StartsImage(u)
      <3>1. ~ Succeeded(u)'
        BY <1>2, <2>1, <2>3 DEF StartsImage, Succeeded
      <3>2. io'[u].stage = "queued"
        BY <1>3, <1>5, <2>3 DEF StartsImage
      <3>3. \A x : io'[u] = [path |-> x, stage |-> "open"] => io'[u].stage = "open"
        OBVIOUS
      <3>4. \A x : io'[u] = [path |-> x, stage |-> "ok"] => io'[u].stage = "ok"
        OBVIOUS
      <3> QED
        BY <1>2, <1>5, <3>1, <3>2, <3>3, <3>4 DEF Stored
    <2>4. CASE StartsSidecar(u)
      <3>1. io'[u].path = Sidecar(FileName(u)) /\ io'[u].stage = "queued"
        BY <1>3, <1>5, <2>4 DEF StartsSidecar
      <3>2. io[u] = [path |-> FileName(u), stage |-> "ok"]
        BY <1>3, <1>5, <2>1, <2>4 DEF StartsSidecar, Named
      <3>3. files[FileName(u)] = ContentOf[u]
        BY <1>3, <1>5, <3>2 DEF Stored
      <3>4. \A s : io'[u] # [path |-> FileName(u), stage |-> s]
        BY <2>1, <3>1
      <3> QED
        BY <1>2, <1>5, <2>1, <3>1, <3>3, <3>4 DEF Stored
    <2>5. CASE Succeeds(u)
      <3>1. files[FileName(u)] = ContentOf[u]
        <4>1. CASE task[u].pc = "sidecar"
          BY <1>3, <1>5, <4>1 DEF Stored, Succeeded
        <4>2. CASE task[u].pc = "writing" /\ io[u].stage = "ok"
          <5>1. io[u] = [path |-> FileName(u), stage |-> "ok"]
            BY <1>3, <1>5, <2>1, <4>2 DEF Named
          <5> QED
            BY <1>3, <1>5, <5>1 DEF Stored
        <4> QED
          BY <2>5, <4>1, <4>2 DEF Succeeds
      <3>2. ~ Writing(u)'
        BY <2>5 DEF Succeeds, Writing
      <3> QED
        BY <1>2, <1>3, <1>5, <2>5, <3>1, <3>2 DEF Stored, Succeeds
    <2> QED
      BY <1>1, <2>2, <2>3, <2>4, <2>5 DEF DiskStep
  <1> QED
    BY <1>4, <1>5

\* A blocking thread writes to the file of no other URL.
LEMMA WriteStored ==
    ASSUME Sound, WellNamed, NamesApart, AllStored,
           NEW u \in Urls, BlockingWrite(u), NEW v \in Range(urls)
    PROVE  Stored(v)'
  <1>1. /\ UNCHANGED <<urls, task, result_map>> /\ FileName(v)' = FileName(v)
        /\ Writing(u) /\ v \in Urls
    BY SameNames DEF BlockingWrite, OpenFile, WriteBytes, WriteFails, Writing,
                     Sound, Shape, Range
  <1>2. /\ io \in [Urls -> [path : Paths \cup {NoPath}, stage : Stages]]
        /\ files \in [Paths -> Contents] /\ FileName(v) \in Paths
        /\ Stored(v)
    BY NamesArePaths DEF Sound, Shape, AllStored
  <1>3. /\ u \in Range(urls) /\ io[u].path \in {FileName(u), Sidecar(FileName(u))}
        /\ io[u].path \in Paths
    BY <1>1 DEF WellNamed, Named, Writing, Sound, TaskSound
  <1>4. Succeeded(v)' <=> Succeeded(v)
    BY <1>1 DEF Succeeded
  <1>5. PICK s \in {"open", "ok", "failed"} : io' = [io EXCEPT ![u].stage = s]
    BY DEF BlockingWrite, OpenFile, WriteBytes, WriteFails
  <1>6. \A p \in Paths \ {io[u].path} : files'[p] = files[p]
    BY <1>2 DEF BlockingWrite, OpenFile, WriteBytes, WriteFails
  <1>7. CASE io[u].path # FileName(v)
    <2>1. files'[FileName(v)] = files[FileName(v)]
      BY <1>2, <1>6, <1>7
    <2>2. CASE v # u
      BY <1>1, <1>2, <1>4, <1>5, <2>1, <2>2, StoredStays
    <2>3. CASE v = u
      <3>1. io'[u].path = io[u].path
        BY <1>2, <1>5
      <3>2. \A x : io'[u] # [path |-> FileName(v), stage |-> x]
        BY <1>7, <3>1
      <3> QED
        BY <1>1, <1>2, <1>4, <1>7, <2>1, <2>3, <3>1, <3>2 DEF Stored
    <2> QED
      BY <2>2, <2>3
  <1>8. CASE io[u].path = FileName(v)
    <2>1. v = u
      BY <1>3, <1>8 DEF NamesApart
    <2>2. ~ Succeeded(u)
      BY <1>1, <1>2, <1>8, <2>1 DEF Stored
    <2>3. io'[u].path = FileName(u) /\ io'[u].stage = s
      BY <1>2, <1>5, <1>8, <2>1
    <2>4. \A x : io'[u] = [path |-> FileName(u), stage |-> x] => s = x
      BY <2>3
    <2>5. CASE OpenFile(u)
      <3>1. io'[u].stage = "open"
        BY <1>2, <2>5 DEF OpenFile
      <3>2. files'[FileName(u)] = "empty"
        BY <1>2, <1>8, <2>1, <2>5 DEF OpenFile
      <3> QED
        BY <1>1, <1>4, <2>1, <2>2, <2>3, <2>4, <3>1, <3>2 DEF Stored
    <2>6. CASE WriteBytes(u)
      <3>1. io'[u].stage = "ok" /\ io[u].stage = "open"
        BY <1>2, <2>6 DEF WriteBytes
      <3>2. io[u] = [path |-> FileName(u), stage |-> "open"]
        BY <1>2, <1>8, <2>1, <3>1
      <3>3. files[FileName(u)] = "empty"
        BY <1>2, <2>1, <3>2 DEF Stored
      <3>4. DataOf(u) = ContentOf[u]
        BY <1>8, <2>1 DEF DataOf
      <3>5. files'[FileName(u)] = ContentOf[u]
        BY <1>2, <1>8, <2>1, <2>6, <3>3, <3>4 DEF WriteBytes
      <3> QED
        BY <1>1, <1>4, <2>1, <2>2, <2>3, <2>4, <3>1, <3>5 DEF Stored
    <2>7. CASE WriteFails(u)
      <3>1. io'[u].stage = "failed"
        BY <1>2, <2>7 DEF WriteFails
      <3> QED
        BY <1>1, <1>4, <2>1, <2>2, <2>3, <2>4, <3>1 DEF Stored
    <2> QED
      BY <2>5, <2>6, <2>7 DEF BlockingWrite
  <1> QED
    BY <1>7, <1>8

LEMMA StoredInvariant == Spec => [](NamesApart => AllStored)
  <1>1. Init => AllStored
    <2>1. ASSUME Init, NEW u \in Range(urls) PROVE Stored(u)
      <3>1. u \in Urls
        BY <2>1, InitSound DEF Sound, Shape, Range
      <3>2. io[u].stage = "none" /\ task[u].pc = "absent" /\ DOMAIN result_map = {}
        BY <2>1, <3>1 DEF Init
      <3>3. \A x : /\ io[u] # [path |-> x, stage |-> "open"]
                   /\ io[u] # [path |-> x, stage |-> "ok"]
        BY <3>2
      <3> QED
        BY <3>2, <3>3 DEF Stored, Succeeded
    <2> QED
      BY <2>1 DEF AllStored
  <1>2. ASSUME Sound, WellNamed, NamesApart => AllStored, [Next]_vars, NamesApart'
        PROVE  AllStored'
    <2>1. urls' = urls /\ Range(urls)' = Range(urls) /\ Range(urls) \subseteq Urls
      BY <1>2, UrlsStay, SameInput DEF Sound, Shape, Range
    <2>2. NamesApart /\ AllStored
      <3>1. \A u : FileName(u)' = FileName(u) /\ Sidecar(FileName(u))' = Sidecar(FileName(u))
        BY <2>1, SameNames DEF Sidecar
      <3> QED
        BY <1>2, <2>1, <3>1 DEF NamesApart, SummaryPath
    <2>3. CASE \E u \in Urls : DownloadOne(u)
      BY <1>2, <2>1, <2>2, <2>3, DownloadStored DEF AllStored
    <2>4. CASE \E u \in Urls : BlockingWrite(u)
      BY <1>2, <2>1, <2>2, <2>4, WriteStored DEF AllStored
    <2>5. CASE ~ \E u \in Urls : DownloadOne(u) \/ BlockingWrite(u)
      <3>1. \A u \in Urls : Succeeded(u)' => Succeeded(u)
        BY <1>2, <2>5, JoinWellNamed, OthersWellNamed
      <3>2. UNCHANGED io
        BY <1>2, <2>5 DEF Next, Collector, Start, EmptyBatch, NoDirectory, FanOut, Join, AllJoined,
            DeadlinePasses, SummaryEnds, Terminated, vars
      <3>3. \A u \in Range(urls) : files'[FileName(u)] = files[FileName(u)]
        <4>1. \A p \in Paths \ {SummaryPath} : files'[p] = files[p]
          BY <1>2, <2>5 DEF Next, Collector, Start, EmptyBatch, NoDirectory, FanOut, Join, AllJoined,
              DeadlinePasses, SummaryEnds, write_batch_summary, Terminated, vars, Sound, Shape
        <4> QED
          BY <2>2, <4>1, NamesArePaths DEF NamesApart
      <3>4. ASSUME NEW u \in Range(urls) PROVE Stored(u)'
        BY <2>1, <2>2, <3>1, <3>2, <3>3, StoredStays DEF AllStored
      <3> QED
        BY <2>1, <3>4 DEF AllStored
    <2> QED
      BY <2>3, <2>4, <2>5
  <1>3. Init => (NamesApart => AllStored)
    BY <1>1
  <1>4. Sound /\ WellNamed /\ (NamesApart => AllStored) /\ [Next]_vars => (NamesApart => AllStored)'
    BY <1>2
  <1> QED
    BY <1>3, <1>4, Invariance, WellNamedInvariant, PTL DEF Spec

LEMMA StoredOnDisk ==
    ASSUME Sound, WellNamed, AllStored
    PROVE  ResultsOnDisk
  <1>1. ASSUME results # <<>>, NEW i \in DOMAIN urls
        PROVE  /\ results[i].url = urls[i]
               /\ results[i].error = "none" => files[results[i].path] = ContentOf[urls[i]]
    <2>1. /\ Answers(results[i], urls[i])
          /\ results[i].error = "none" => Succeeded(urls[i])
      BY <1>1 DEF WellNamed, Answered
    <2>2. PICK u \in Range(urls) : u = urls[i]
      BY <1>1 DEF Range
    <2>3. Stored(u)
      BY DEF AllStored
    <2>4. Success(u).path = FileName(u)
      BY DEF Success
    <2> QED
      BY <2>1, <2>2, <2>3, <2>4 DEF Answers, Stored
  <1> QED
    BY <1>1 DEF ResultsOnDisk

\* A success names a file with the image of its URL when the batch returns, with a
\* deadline and without, whatever the schedule of the writes that go on when their
\* tasks are dropped, if the files of the batch have names of their own
\* (orchestrator.rs:390-394).
THEOREM FoundOnDisk == Spec /\ NamesApart => []ResultsOnDisk
  <1>1. Sound /\ WellNamed /\ NamesApart /\ AllStored => ResultsOnDisk
    BY StoredOnDisk
  <1>2. NamesApart /\ [Next]_vars => NamesApart'
    <2>1. ASSUME NamesApart, [Next]_vars PROVE NamesApart'
      <3>1. urls' = urls /\ Range(urls)' = Range(urls)
        BY <2>1, UrlsStay, SameInput
      <3>2. \A u : FileName(u)' = FileName(u) /\ Sidecar(FileName(u))' = Sidecar(FileName(u))
        BY <3>1, SameNames DEF Sidecar
      <3> QED
        BY <2>1, <3>1, <3>2 DEF NamesApart, SummaryPath
    <2> QED
      BY <2>1
  <1> QED
    BY <1>1, <1>2, Invariance, WellNamedInvariant, StoredInvariant, PTL DEF Spec

\* The strategy Sequential gives every URL of a batch a name of its own, also where
\* other URLs serve the same image, and no summary or sidecar has one of them
\* (naming.rs:122-129): its batches need no condition.
THEOREM NumberedOnDisk ==
    ASSUME NamingStrategy = "Sequential"
    PROVE  Spec => []ResultsOnDisk
  <1>1. Sound => NamesApart
    BY NumbersApart DEF Sound, Shape
  <1>2. Sound /\ WellNamed /\ NamesApart /\ AllStored => ResultsOnDisk
    BY StoredOnDisk
  <1> QED
    BY <1>1, <1>2, Invariance, WellNamedInvariant, StoredInvariant, PTL

\* The strategy ContentHash does where the URLs of the batch serve different images
\* (naming.rs:131-138).  Where they do not, a result can name a torn file.
THEOREM HashedOnDisk ==
    ASSUME NamingStrategy = "ContentHash",
           \A u, v \in Urls : u # v => ContentOf[u] # ContentOf[v]
    PROVE  Spec => []ResultsOnDisk
  <1>1. Sound => NamesApart
    <2>1. Sound => Range(urls) \subseteq Urls
      BY DEF Sound, Shape, Range
    <2> QED
      BY <2>1, KeysApart DEF Distinguished
  <1>2. Sound /\ WellNamed /\ NamesApart /\ AllStored => ResultsOnDisk
    BY StoredOnDisk
  <1> QED
    BY <1>1, <1>2, Invariance, WellNamedInvariant, StoredInvariant, PTL

------------------------------------------------------------------------------
(* The promise *)

\* What the mapping to BatchPromise needs: nothing is written before the image, a
\* sidecar is under way or done in its place, and no task is missing while the batch
\* collects.
BeforeWriting == {"absent", "spawned", "global", "host_lock", "host", "acquiring",
                  "requesting", "backoff"}
Traced(u) ==
    /\ task[u].pc \in BeforeWriting => io[u].stage = "none"
    /\ task[u].pc = "sidecar" => io[u].stage # "none" /\ io[u].path = Sidecar(FileName(u))
AllTraced == \A u \in Urls : Traced(u)
AllSpawned ==
    phase = "collecting" => \A u \in Range(urls) : task[u].pc \notin {"absent", "dropped"}

\* A download does not go back to its requests.
LEMMA Forward ==
    ASSUME Sound, NEW u \in Urls, DownloadOne(u), task'[u].pc \in BeforeWriting
    PROVE  task[u].pc \in BeforeWriting
  <1>1. CASE ImageNotWritten(u)
    <2>1. task[u] \in Task /\ task \in [Urls -> Task]
      BY DEF Sound, Shape
    <2>2. Failure(u, "WriteError", task[u].retries_attempted) \in Result
      BY <2>1, FailureIsResult DEF Task, Errors
    <2>3. task'[u].pc = "finished"
      BY <1>1, <2>1, <2>2, AfterFinish DEF ImageNotWritten
    <2> QED
      BY <2>3 DEF BeforeWriting
  <1>2. CASE task[u].pc \in {"writing", "sidecar"} /\ ~ ImageNotWritten(u)
    <2>1. ImageWritten(u) \/ SidecarEnds(u)
      BY <1>2 DEF DownloadOne, ParseUrl, AcquireGlobal, HostSemaphore, AcquireHost,
         AcquireFails, AcquireReturns, BackoffEnds, RequestFails, RequestRedirects,
         ResponseInvalid, NamingPanics, ResponseValid
    <2>2. task[u].pc = "sidecar" \/ io[u].stage = "ok"
      BY <2>1 DEF ImageWritten, Written, SidecarEnds
    <2>3. ~ NoWrite(u)
      BY <1>2, <2>2 DEF NoWrite
    <2> QED
      BY <2>3, OneDiskStep DEF DiskStep, StartsImage, StartsSidecar, Succeeds, BeforeWriting
  <1>3. CASE task[u].pc \notin {"writing", "sidecar"}
    <2>1. task[u] \in Task /\ task[u].pc \notin Gone \cup Ended
      BY OneStep DEF Sound, Shape, StepOf
    <2> QED
      BY <1>3, <2>1 DEF Task, BeforeWriting, WithGlobal, WithHost, Requesting, Gone, Ended
  <1> QED
    BY <1>1, <1>2, <1>3

\* Every step keeps that, ...
LEMMA DownloadTraced ==
    ASSUME Sound, AllTraced, NEW u \in Urls, DownloadOne(u)
    PROVE  AllTraced'
  <1>1. StepOf(u) /\ DiskStep(u)
    BY OneStep, OneDiskStep
  <1>2. /\ urls' = urls
        /\ \A v \in Urls \ {u} : task'[v] = task[v] /\ io'[v] = io[v]
    BY <1>1 DEF StepOf, WriteStep
  <1>3. \A v \in Urls : Sidecar(FileName(v))' = Sidecar(FileName(v))
    BY <1>2, SameNames DEF Sidecar
  <1>4. io \in [Urls -> [path : Paths \cup {NoPath}, stage : Stages]]
    BY DEF Sound, Shape
  <1>5. Traced(u)'
    <2>1. CASE NoWrite(u)
      BY <2>1, <1>3, Forward DEF AllTraced, Traced, NoWrite
    <2>2. CASE StartsImage(u)
      BY <2>2 DEF Traced, StartsImage, BeforeWriting
    <2>3. CASE StartsSidecar(u)
      <3>1. io'[u] = [path |-> Sidecar(FileName(u)), stage |-> "queued"]
        BY <1>4, <2>3 DEF StartsSidecar
      <3> QED
        BY <1>3, <2>3, <3>1 DEF Traced, StartsSidecar, BeforeWriting
    <2>4. CASE Succeeds(u)
      BY <2>4 DEF Traced, Succeeds, BeforeWriting
    <2> QED
      BY <1>1, <2>1, <2>2, <2>3, <2>4 DEF DiskStep
  <1>6. ASSUME NEW v \in Urls \ {u} PROVE Traced(v)'
    BY <1>2, <1>3, <1>6 DEF AllTraced, Traced
  <1> QED
    BY <1>5, <1>6 DEF AllTraced

\* The steps that are none of a download leave its writes and its place, or end it.
LEMMA OtherPlaces ==
    ASSUME Sound, [Next]_vars, ~ \E u \in Urls : DownloadOne(u), NEW v \in Urls
    PROVE  /\ io'[v].path = io[v].path /\ (io'[v].stage = "none" <=> io[v].stage = "none")
           /\ \/ task'[v].pc = task[v].pc
              \/ task[v].pc = "absent" /\ task'[v].pc = "spawned"
              \/ task'[v].pc \in {"collected", "dropped"}
  <1>1. CASE \E u \in Urls : BlockingWrite(u)
    <2>1. PICK u \in Urls : BlockingWrite(u)
      BY <1>1
    <2>2. PICK s \in {"open", "ok", "failed"} :
            io' = [io EXCEPT ![u].stage = s] /\ io[u].stage \in {"queued", "open"}
      BY <2>1 DEF BlockingWrite, OpenFile, WriteBytes, WriteFails
    <2>3. task' = task
      BY <2>1 DEF BlockingWrite, OpenFile, WriteBytes, WriteFails
    <2> QED
      BY <2>2, <2>3 DEF Sound, Shape
  <1>2. CASE \E u \in Urls : Join(u)
    <2>1. PICK u \in Urls : Join(u)
      BY <1>2
    <2>2. /\ Goto(u, "collected") /\ io' = io
          /\ "collected" \in Places /\ task \in [Urls -> Task]
      BY <2>1 DEF Join, Places, Gone, Sound, Shape
    <2> QED
      BY <2>2, AfterGoto
  <1>3. CASE FanOut
    BY <1>3, AfterFanOut DEF FanOut, Sound, NotStarted
  <1>4. CASE DeadlinePasses
    <2>1. task'[v] = IF task[v].pc \in Gone THEN task[v] ELSE [task[v] EXCEPT !.pc = "dropped"]
      BY <1>4 DEF DeadlinePasses
    <2>2. task[v] \in Task
      BY DEF Sound, Shape
    <2> QED
      BY <1>4, <2>1, <2>2 DEF Task, DeadlinePasses
  <1>5. CASE UNCHANGED <<task, io>>
    BY <1>5
  <1> QED
    BY <1>1, <1>2, <1>3, <1>4, <1>5
    DEF Next, Collector, Start, EmptyBatch, NoDirectory, AllJoined, SummaryEnds, Terminated, vars

\* ... those of the collector and of the writes too.
LEMMA TracedInvariant == Spec => [](AllTraced /\ AllSpawned)
  <1>1. Init => AllTraced /\ AllSpawned
    BY DEF Init, AllTraced, AllSpawned, Traced
  <1>2. ASSUME Sound, AllTraced, [Next]_vars PROVE AllTraced'
    <2>1. CASE \E u \in Urls : DownloadOne(u)
      BY <1>2, <2>1, DownloadTraced
    <2>2. CASE ~ \E u \in Urls : DownloadOne(u)
      <3>1. ASSUME NEW v \in Urls PROVE Traced(v)'
        <4>1. Sidecar(FileName(v))' = Sidecar(FileName(v))
          BY <1>2, UrlsStay, SameNames DEF Sidecar
        <4> QED
          BY <1>2, <2>2, <4>1, OtherPlaces DEF AllTraced, Traced, BeforeWriting
      <3> QED
        BY <3>1 DEF AllTraced
    <2> QED
      BY <2>1, <2>2
  <1>3. ASSUME Sound, AllSpawned, [Next]_vars PROVE AllSpawned'
    <2>1. Range(urls)' = Range(urls) /\ Range(urls) \subseteq Urls
      BY <1>3, UrlsStay, SameInput DEF Sound, Shape, Range
    <2>2. CASE \E u \in Urls : DownloadOne(u)
      <3>1. PICK u \in Urls : DownloadOne(u)
        BY <2>2
      <3>2. StepOf(u)
        BY <1>3, <3>1, OneStep
      <3> QED
        BY <1>3, <2>1, <3>2 DEF StepOf, AllSpawned, Gone
    <2>3. CASE FanOut
      BY <1>3, <2>1, <2>3, AfterFanOut DEF AllSpawned
    <2>4. CASE \E u \in Urls : Join(u)
      <3>1. PICK u \in Urls : Join(u)
        BY <2>4
      <3>2. /\ Goto(u, "collected") /\ phase' = phase
            /\ "collected" \in Places /\ task \in [Urls -> Task]
        BY <1>3, <3>1 DEF Join, Places, Gone, Sound, Shape
      <3>3. task'[u].pc = "collected" /\ \A v \in Urls \ {u} : task'[v] = task[v]
        BY <3>2, AfterGoto
      <3> QED
        BY <1>3, <2>1, <3>2, <3>3 DEF AllSpawned
    <2>5. CASE phase' # "collecting"
      BY <2>5 DEF AllSpawned
    <2>6. CASE phase' = phase /\ task' = task
      BY <1>3, <2>1, <2>6 DEF AllSpawned
    <2> QED
      BY <1>3, <2>2, <2>3, <2>4, <2>5, <2>6
      DEF Next, Collector, Start, EmptyBatch, NoDirectory, AllJoined, DeadlinePasses,
          Assemble, SummaryEnds, BlockingWrite, OpenFile, WriteBytes, WriteFails,
          Terminated, vars
  <1>4. Sound /\ AllTraced /\ AllSpawned /\ [Next]_vars => (AllTraced /\ AllSpawned)'
    BY <1>2, <1>3
  <1> QED
    BY <1>1, <1>4, Invariance, PTL DEF Spec

\* The mapping, named.
StoredUrls == {u \in Range(urls) : ImageStored(u)}
VerdictList == [u \in Urls |-> VerdictOf(u)]
AnswerList == [i \in DOMAIN results |-> [url |-> results[i].url, error |-> results[i].error]]

\* The steps of BatchPromise, in the terms of the batch.
MapsToSettle(u) ==
    /\ Unanswered /\ Unanswered' /\ UNCHANGED <<urls, StoredUrls, AnswerList>>
    /\ u \in Range(urls) /\ VerdictOf(u) = "pending"
    /\ \E v \in Promise!Verdicts : /\ v = "none" => u \in StoredUrls
                                   /\ VerdictList' = [VerdictList EXCEPT ![u] = v]
MapsToStore(u) ==
    /\ UNCHANGED <<urls, VerdictList, Unanswered, AnswerList>>
    /\ u \in Range(urls) \ StoredUrls
    /\ StoredUrls' = StoredUrls \cup {u}
MapsToStutter == UNCHANGED <<urls, StoredUrls, VerdictList, Unanswered, AnswerList>>
MapsToAnswer ==
    \/ Promise!AnswerAll \/ Promise!AnswerInTime \/ Promise!Refuse

Implemented == (\E u \in Urls : MapsToSettle(u) \/ MapsToStore(u)) \/ MapsToAnswer \/ MapsToStutter

\* They are steps of it.
LEMMA StepImplements ==
    ASSUME Implemented
    PROVE  [Promise!PNext]_(Promise!promiseVars)
  <1>1. ASSUME NEW u \in Urls, MapsToSettle(u) PROVE Promise!PNext
    <2>1. PICK v \in Promise!Verdicts :
            /\ v = "none" => u \in StoredUrls
            /\ VerdictList' = [VerdictList EXCEPT ![u] = v]
      BY <1>1 DEF MapsToSettle
    <2>2. VerdictList[u] = "pending"
      BY <1>1 DEF MapsToSettle, VerdictList
    <2>3. Promise!Settle(u, v)
      BY <1>1, <2>1, <2>2
      DEF MapsToSettle, Promise!Settle, Promise!Range, Range, StoredUrls, VerdictList, AnswerList
    <2> QED
      BY <2>1, <2>3 DEF Promise!PNext
  <1>2. ASSUME NEW u \in Urls, MapsToStore(u) PROVE Promise!PNext
    <2>1. Promise!Store(u)
      BY <1>2
      DEF MapsToStore, Promise!Store, Promise!Range, Range, StoredUrls, VerdictList, AnswerList
    <2> QED
      BY <2>1 DEF Promise!PNext
  <1>3. CASE MapsToAnswer
    BY <1>3 DEF MapsToAnswer, Promise!PNext
  <1>4. CASE MapsToStutter
    BY <1>4 DEF MapsToStutter, Promise!promiseVars, StoredUrls, VerdictList, AnswerList
  <1> QED
    BY <1>1, <1>2, <1>3, <1>4 DEF Implemented

\* A step of a download settles its URL, or stores its image, or shows nothing.
LEMMA DownloadImplements ==
    ASSUME Sound, WellNamed, AllTraced, NEW u \in Urls, DownloadOne(u)
    PROVE  Implemented
  <1>1. StepOf(u) /\ DiskStep(u)
    BY OneStep, OneDiskStep
  <1>2. /\ UNCHANGED <<urls, phase, result_map, results>>
        /\ \A v \in Urls \ {u} : task'[v] = task[v] /\ io'[v] = io[v]
        /\ task[u].pc \notin Gone \cup Ended /\ task'[u].pc \notin Gone
        /\ task'[u] \in Task
    BY <1>1 DEF StepOf, WriteStep
  <1>3. /\ phase = "collecting" /\ u \in Range(urls) /\ Named(u) /\ Traced(u)
        /\ io \in [Urls -> [path : Paths \cup {NoPath}, stage : Stages]]
        /\ Range(urls) \subseteq Urls
    BY <1>2 DEF Sound, Shape, OnlyCollecting, TaskSound, Gone, WellNamed, AllTraced, Range
  <1>4. /\ Unanswered /\ Unanswered' /\ Unanswered' = Unanswered /\ AnswerList' = AnswerList
        /\ Range(urls)' = Range(urls)
    BY <1>2, <1>3, SameInput DEF Unanswered, AnswerList
  <1>5. \A v \in Urls : /\ FileName(v)' = FileName(v)
                        /\ Sidecar(FileName(v))' = Sidecar(FileName(v))
    BY <1>2, SameNames DEF Sidecar
  <1>6. ASSUME NEW v \in Urls \ {u}
        PROVE  (ImageStored(v)' <=> ImageStored(v)) /\ VerdictOf(v)' = VerdictOf(v)
    BY <1>2, <1>4, <1>5, <1>6 DEF ImageStored, VerdictOf
  <1>7. VerdictOf(u) = "pending"
    BY <1>2 DEF VerdictOf, Gone, Ended
  <1>8. VerdictList' = [VerdictList EXCEPT ![u] = VerdictOf(u)']
    BY <1>6 DEF VerdictList
  <1>9. ASSUME ImageStored(u)' <=> ImageStored(u), NEW v \in Promise!Verdicts,
               VerdictOf(u)' = v, v = "none" => ImageStored(u)
        PROVE  MapsToSettle(u)
    <2>1. StoredUrls' = StoredUrls
      BY <1>3, <1>4, <1>6, <1>9 DEF StoredUrls
    <2>2. v = "none" => u \in StoredUrls
      BY <1>3, <1>9 DEF StoredUrls
    <2> QED
      BY <1>2, <1>3, <1>4, <1>7, <1>8, <1>9, <2>1, <2>2 DEF MapsToSettle
  <1>10. ASSUME VerdictOf(u)' = "pending" PROVE VerdictList' = VerdictList
    BY <1>7, <1>8, <1>10 DEF VerdictList
  <1>11. ASSUME VerdictOf(u)' = "pending", ImageStored(u) => ImageStored(u)'
         PROVE  MapsToStore(u) \/ MapsToStutter
    <2>1. CASE ImageStored(u)' <=> ImageStored(u)
      <3>1. StoredUrls' = StoredUrls
        BY <1>3, <1>4, <1>6, <2>1 DEF StoredUrls
      <3> QED
        BY <1>2, <1>4, <1>10, <1>11, <3>1 DEF MapsToStutter
    <2>2. CASE ImageStored(u)' /\ ~ ImageStored(u)
      <3>1. u \notin StoredUrls /\ StoredUrls' = StoredUrls \cup {u}
        BY <1>3, <1>4, <1>6, <2>2 DEF StoredUrls
      <3> QED
        BY <1>2, <1>3, <1>4, <1>10, <1>11, <3>1 DEF MapsToStore
    <2> QED
      BY <1>11, <2>1, <2>2
  <1>12. CASE NoWrite(u)
    <2>1. ImageStored(u)' <=> ImageStored(u)
      BY <1>5, <1>12 DEF NoWrite, ImageStored
    <2>2. CASE task'[u].pc = "finished"
      <3>1. VerdictOf(u)' = task'[u].result.error
        BY <1>4, <2>2 DEF VerdictOf
      <3>2. task'[u].result.error \in Promise!Verdicts
        BY <1>2 DEF Task, Result, Promise!Verdicts
      <3> QED
        BY <1>9, <1>12, <2>1, <2>2, <3>1, <3>2 DEF NoWrite, Implemented
    <2>3. CASE task'[u].pc = "panicked"
      <3>1. VerdictOf(u)' = "TaskPanicked" /\ "TaskPanicked" \in Promise!Verdicts
        BY <1>4, <2>3 DEF VerdictOf, Promise!Verdicts
      <3> QED
        BY <1>9, <2>1, <3>1 DEF Implemented
    <2>4. CASE task'[u].pc \notin Ended
      <3>1. VerdictOf(u)' = "pending"
        BY <1>2, <2>4 DEF VerdictOf, Gone, Ended
      <3> QED
        BY <1>11, <2>1, <3>1 DEF Implemented
    <2> QED
      BY <2>2, <2>3, <2>4 DEF Ended
  <1>13. CASE StartsImage(u)
    <2>1. io[u].stage = "none" /\ VerdictOf(u)' = "pending"
      BY <1>3, <1>13 DEF StartsImage, Traced, BeforeWriting, VerdictOf
    <2>2. ~ ImageStored(u)
      BY <2>1 DEF ImageStored
    <2> QED
      BY <1>11, <2>1, <2>2 DEF Implemented
  <1>14. CASE StartsSidecar(u)
    <2>1. VerdictOf(u)' = "pending"
      BY <1>14 DEF StartsSidecar, VerdictOf
    <2>2. io'[u] = [path |-> Sidecar(FileName(u)), stage |-> "queued"]
      BY <1>3, <1>14 DEF StartsSidecar
    <2>3. ImageStored(u)'
      BY <1>5, <2>2 DEF ImageStored
    <2> QED
      BY <1>11, <2>1, <2>3 DEF Implemented
  <1>15. CASE Succeeds(u)
    <2>1. ImageStored(u)
      BY <1>3, <1>15 DEF Succeeds, ImageStored, Named, Traced
    <2>2. ImageStored(u)' <=> ImageStored(u)
      BY <1>5, <1>15 DEF Succeeds, ImageStored
    <2>3. VerdictOf(u)' = "none" /\ "none" \in Promise!Verdicts
      BY <1>4, <1>15 DEF Succeeds, VerdictOf, Success, Promise!Verdicts
    <2> QED
      BY <1>9, <2>1, <2>2, <2>3 DEF Implemented
  <1> QED
    BY <1>1, <1>12, <1>13, <1>14, <1>15 DEF DiskStep

\* A blocking write may be the one that stores an image.
LEMMA WriteImplements ==
    ASSUME Sound, WellNamed, NEW u \in Urls, BlockingWrite(u)
    PROVE  Implemented
  <1>1. /\ UNCHANGED <<urls, phase, task, result_map, results>>
        /\ \E s \in {"open", "ok", "failed"} :
             io' = [io EXCEPT ![u].stage = s] /\ io[u].stage \in {"queued", "open"}
    BY DEF BlockingWrite, OpenFile, WriteBytes, WriteFails
  <1>2. /\ \A v \in Urls \ {u} : io'[v] = io[v]
        /\ io'[u].path = io[u].path
        /\ io[u].stage \notin {"none", "ok"} /\ io'[u].stage # "none"
    BY <1>1 DEF Sound, Shape
  <1>3. u \in Range(urls) /\ Range(urls) \subseteq Urls
    BY <1>2 DEF WellNamed, Named, Sound, Shape, Range
  <1>4. Unanswered' = Unanswered /\ AnswerList' = AnswerList /\ Range(urls)' = Range(urls)
    BY <1>1, SameInput DEF Unanswered, AnswerList
  <1>5. \A v \in Urls : /\ FileName(v)' = FileName(v)
                        /\ Sidecar(FileName(v))' = Sidecar(FileName(v))
    BY <1>1, SameNames DEF Sidecar
  <1>6. \A v \in Urls \ {u} : ImageStored(v)' <=> ImageStored(v)
    BY <1>2, <1>5 DEF ImageStored
  <1>7. ImageStored(u) => ImageStored(u)'
    BY <1>2, <1>5 DEF ImageStored
  <1>8. VerdictList' = VerdictList
    BY <1>1, <1>4 DEF VerdictList, VerdictOf
  <1>9. CASE ImageStored(u)' <=> ImageStored(u)
    <2>1. StoredUrls' = StoredUrls
      BY <1>3, <1>4, <1>6, <1>9 DEF StoredUrls
    <2> QED
      BY <1>1, <1>4, <1>8, <2>1 DEF MapsToStutter, Implemented
  <1>10. CASE ImageStored(u)' /\ ~ ImageStored(u)
    <2>1. u \notin StoredUrls /\ StoredUrls' = StoredUrls \cup {u}
      BY <1>3, <1>4, <1>6, <1>10 DEF StoredUrls
    <2> QED
      BY <1>1, <1>3, <1>4, <1>8, <2>1 DEF MapsToStore, Implemented
  <1> QED
    BY <1>7, <1>9, <1>10

\* A joined task is settled as it was.
LEMMA JoinImplements ==
    ASSUME Sound, WellNamed, NEW u \in Urls, Join(u)
    PROVE  MapsToStutter
  <1>1. /\ phase = "collecting" /\ task[u].pc \in Ended /\ Goto(u, "collected")
        /\ UNCHANGED <<urls, phase, io, results>>
        /\ "collected" \in Places /\ task \in [Urls -> Task]
    BY DEF Join, Places, Gone, Sound, Shape
  <1>2. /\ task'[u].pc = "collected"
        /\ \A v \in Urls \ {u} : task'[v] = task[v]
    BY <1>1, AfterGoto
  <1>3. u \notin DOMAIN result_map
    BY <1>1 DEF WellNamed, Answered, Ended
  <1>4. /\ Unanswered /\ Unanswered' /\ Unanswered' = Unanswered /\ AnswerList' = AnswerList
        /\ Range(urls)' = Range(urls)
    BY <1>1, SameInput DEF Unanswered, AnswerList
  <1>5. StoredUrls' = StoredUrls
    <2>1. \A v : ImageStored(v)' <=> ImageStored(v)
      BY <1>1, SameNames DEF ImageStored, Sidecar
    <2> QED
      BY <1>4, <2>1 DEF StoredUrls
  <1>6. VerdictOf(u)' = VerdictOf(u)
    <2>1. CASE task[u].pc = "panicked"
      <3>1. result_map' = result_map
        BY <2>1 DEF Join
      <3> QED
        BY <1>2, <1>3, <1>4, <2>1, <3>1 DEF VerdictOf
    <2>2. CASE task[u].pc = "finished"
      <3>1. u \in DOMAIN result_map' /\ result_map'[u] = task[u].result
        BY <2>2 DEF Join
      <3> QED
        BY <1>2, <1>4, <2>2, <3>1 DEF VerdictOf
    <2> QED
      BY <1>1, <2>1, <2>2 DEF Ended
  <1>7. ASSUME NEW v \in Urls \ {u} PROVE VerdictOf(v)' = VerdictOf(v)
    <2>1. /\ v \in DOMAIN result_map' <=> v \in DOMAIN result_map
          /\ v \in DOMAIN result_map => result_map'[v] = result_map[v]
      BY <1>7 DEF Join
    <2> QED
      BY <1>2, <1>4, <1>7, <2>1 DEF VerdictOf
  <1>8. VerdictList' = VerdictList
    BY <1>6, <1>7 DEF VerdictList
  <1> QED
    BY <1>1, <1>4, <1>5, <1>8 DEF MapsToStutter

\* The answers as the caller gets them, and that the images stay.
LEMMA Closing ==
    ASSUME Sound, urls' = urls, io' = io, phase' \in {"summary", "returned"},
           NEW heard, NEW e, Unanswered,
           DOMAIN results' = DOMAIN urls,
           \A i \in DOMAIN urls :
             /\ results'[i].url = urls[i]
             /\ results'[i].error = IF urls[i] \in heard THEN VerdictOf(urls[i]) ELSE e
    PROVE  Promise!Answer(heard, e)
  <1>1. StoredUrls' = StoredUrls /\ ~ Unanswered'
    <2>1. \A v : ImageStored(v)' <=> ImageStored(v)
      BY SameNames DEF ImageStored, Sidecar
    <2> QED
      BY <2>1, SameInput DEF StoredUrls, Unanswered
  <1>2. VerdictList' = [u \in Urls |-> "pending"]
    <2>1. ASSUME NEW u \in Urls PROVE VerdictOf(u)' = "pending"
      BY <1>1 DEF VerdictOf
    <2> QED
      BY <2>1 DEF VerdictList
  <1>3. \A i \in DOMAIN urls : urls[i] \in Urls
    BY DEF Sound, Shape
  <1>4. AnswerList' = [i \in DOMAIN urls |->
                   [url |-> urls[i],
                    error |-> IF urls[i] \in heard THEN VerdictList[urls[i]] ELSE e]]
    BY <1>3 DEF AnswerList, VerdictList
  <1> QED
    BY <1>1, <1>2, <1>4 DEF Promise!Answer, StoredUrls, VerdictList, AnswerList

\* The settled URLs, in the terms of the batch.
LEMMA SettledUrls ==
    ASSUME Sound
    PROVE  Promise!Settled = {u \in Range(urls) : VerdictOf(u) # "pending"}
  <1>1. Range(urls) \subseteq Urls
    BY DEF Sound, Shape, Range
  <1> QED
    BY <1>1 DEF Promise!Settled, Promise!Range, Range

\* No URL is settled before the tasks are spawned.
LEMMA StartUnsettled ==
    ASSUME Sound, phase = "start"
    PROVE  Unanswered /\ Promise!Settled = {}
  <1>1. \A u \in Urls : VerdictOf(u) = "pending"
    BY DEF Sound, NotStarted, VerdictOf
  <1>2. Range(urls) \subseteq Urls
    BY DEF Sound, Shape, Range
  <1> QED
    BY <1>1, <1>2, SettledUrls DEF Unanswered

\* What is assembled is what was joined, and an error for the rest.
LEMMA AssembleAnswers ==
    ASSUME Sound, WellNamed, phase = "collecting", Assemble, urls' = urls, io' = io,
           NEW e, \A u : Missing(u).error = e
    PROVE  \E heard \in SUBSET Promise!Settled : Promise!Answer(heard, e)
  <1>0. PICK heard : heard = DOMAIN result_map \cap Range(urls)
    OBVIOUS
  <1>1. Unanswered /\ phase' \in {"summary", "returned"}
    BY DEF Unanswered, Assemble
  <1>2. ASSUME NEW u \in DOMAIN result_map
        PROVE  /\ VerdictOf(u) = result_map[u].error /\ VerdictOf(u) # "pending"
               /\ result_map[u].url = u
    <2>1. task[u].pc = "collected" /\ result_map[u].url = u /\ result_map[u] \in Result
      BY <1>2 DEF WellNamed, Answered, Answers, Sound, Shape
    <2>2. VerdictOf(u) = result_map[u].error
      BY <1>1, <1>2, <2>1 DEF VerdictOf
    <2>3. result_map[u].error # "pending"
      BY <2>1 DEF Result, Errors, AcquireErrors, RequestErrors
    <2> QED
      BY <2>1, <2>2, <2>3
  <1>3. heard \subseteq Promise!Settled
    BY <1>0, <1>2, SettledUrls
  <1>4. results' = [i \in DOMAIN urls |->
                      IF urls[i] \in DOMAIN result_map THEN result_map[urls[i]]
                                                       ELSE Missing(urls[i])]
    BY DEF Assemble
  <1>5. ASSUME NEW i \in DOMAIN urls
        PROVE  /\ results'[i].url = urls[i]
               /\ results'[i].error = IF urls[i] \in heard THEN VerdictOf(urls[i]) ELSE e
    <2>1. urls[i] \in Range(urls)
      BY <1>5 DEF Range
    <2>2. CASE urls[i] \in DOMAIN result_map
      <3>1. results'[i] = result_map[urls[i]] /\ urls[i] \in heard
        BY <1>0, <1>4, <1>5, <2>1, <2>2
      <3> QED
        BY <1>2, <2>2, <3>1
    <2>3. CASE urls[i] \notin DOMAIN result_map
      <3>1. results'[i] = Missing(urls[i]) /\ urls[i] \notin heard
        BY <1>0, <1>4, <1>5, <2>3
      <3>2. Missing(urls[i]).url = urls[i] /\ Missing(urls[i]).error = e
        BY DEF Missing, Failure
      <3> QED
        BY <3>1, <3>2
    <2> QED
      BY <2>2, <2>3
  <1>6. DOMAIN results' = DOMAIN urls
    BY <1>4
  <1>7. Promise!Answer(heard, e)
    BY <1>1, <1>5, <1>6, Closing
  <1> QED
    BY <1>3, <1>7

\* The three ways to answer.
LEMMA DeadlineImplements ==
    ASSUME Sound, WellNamed, DeadlinePasses
    PROVE  Promise!AnswerInTime
  <1>1. \A u : Missing(u).error = "Timeout"
    BY DEF DeadlinePasses, MayTimeOut, Missing, Failure
  <1>2. \E heard \in SUBSET Promise!Settled : Promise!Answer(heard, "Timeout")
    BY <1>1, AssembleAnswers DEF DeadlinePasses
  <1> QED
    BY <1>2 DEF DeadlinePasses, MayTimeOut, Promise!AnswerInTime

LEMMA JoinedImplements ==
    ASSUME Sound, WellNamed, AllSpawned, AllJoined
    PROVE  Promise!AnswerAll \/ Promise!AnswerInTime
  <1>1. /\ phase = "collecting" /\ Assemble /\ urls' = urls /\ io' = io
        /\ \A u \in Spawned : task[u].pc = "collected"
    BY DEF AllJoined
  <1>2. CASE BatchTimeout
    <2>1. \A u : Missing(u).error = "Timeout"
      BY <1>2 DEF Missing, Failure
    <2>2. \E heard \in SUBSET Promise!Settled : Promise!Answer(heard, "Timeout")
      BY <1>1, <2>1, AssembleAnswers
    <2> QED
      BY <1>2, <2>2 DEF Promise!AnswerInTime
  <1>3. CASE ~ BatchTimeout
    <2>1. Unanswered /\ Range(urls) \subseteq Urls /\ phase' \in {"summary", "returned"}
      BY <1>1 DEF Unanswered, Sound, Shape, Range, Assemble
    <2>2. \A u \in Range(urls) : task[u].pc = "collected"
      BY <1>1, <2>1 DEF Spawned, AllSpawned
    <2>3. ASSUME NEW u \in Range(urls)
          PROVE  /\ VerdictOf(u) # "pending"
                 /\ u \in DOMAIN result_map => /\ VerdictOf(u) = result_map[u].error
                                               /\ result_map[u].url = u
                 /\ u \notin DOMAIN result_map => VerdictOf(u) = "TaskPanicked"
      <3>1. CASE u \in DOMAIN result_map
        <4>1. result_map[u].url = u /\ result_map[u] \in Result
          BY <3>1 DEF WellNamed, Answered, Answers, Sound, Shape
        <4>2. result_map[u].error # "pending"
          BY <4>1 DEF Result, Errors, AcquireErrors, RequestErrors
        <4> QED
          BY <2>1, <2>2, <3>1, <4>1, <4>2 DEF VerdictOf
      <3>2. CASE u \notin DOMAIN result_map
        BY <2>1, <2>2, <3>2 DEF VerdictOf
      <3> QED
        BY <3>1, <3>2
    <2>4. Promise!Settled = Range(urls)
      BY <2>3, SettledUrls
    <2>5. results' = [i \in DOMAIN urls |->
                        IF urls[i] \in DOMAIN result_map THEN result_map[urls[i]]
                                                         ELSE Missing(urls[i])]
      BY <1>1 DEF Assemble
    <2>6. ASSUME NEW i \in DOMAIN urls
          PROVE  /\ results'[i].url = urls[i]
                 /\ results'[i].error = VerdictOf(urls[i])
                 /\ urls[i] \in Range(urls)
      <3>1. urls[i] \in Range(urls)
        BY <2>6 DEF Range
      <3>2. CASE urls[i] \in DOMAIN result_map
        BY <2>3, <2>5, <3>1, <3>2
      <3>3. CASE urls[i] \notin DOMAIN result_map
        <4>1. results'[i] = Missing(urls[i])
          BY <2>5, <3>3
        <4> QED
          BY <1>3, <2>3, <3>1, <3>3, <4>1 DEF Missing, Failure
      <3> QED
        BY <3>1, <3>2, <3>3
    <2>0. PICK heard : heard = Range(urls)
      OBVIOUS
    <2>7. Promise!Answer(heard, "Timeout")
      <3>1. DOMAIN results' = DOMAIN urls
        BY <2>5
      <3> QED
        BY <1>1, <2>0, <2>1, <2>6, <3>1, Closing
    <2> QED
      BY <2>0, <2>4, <2>7 DEF Promise!AnswerAll, Promise!Range, Range
  <1> QED
    BY <1>2, <1>3

LEMMA EmptyImplements ==
    ASSUME Sound, WellNamed, EmptyBatch \/ NoDirectory
    PROVE  Promise!AnswerAll \/ Promise!Refuse
  <1>1. /\ phase = "start" /\ urls' = urls /\ io' = io /\ phase' \in {"summary", "returned"}
        /\ results = <<>>
    BY DEF EmptyBatch, NoDirectory, WellNamed, Answered
  <1>2. Unanswered /\ Promise!Settled = {}
    BY <1>1, StartUnsettled
  <1>3. CASE EmptyBatch
    <2>1. urls = <<>> /\ results' = <<>>
      BY <1>1, <1>3 DEF EmptyBatch
    <2>2. DOMAIN urls = {} /\ DOMAIN results' = {} /\ Range(urls) = {}
      BY <2>1 DEF Range
    <2>3. Promise!Answer({}, "Timeout")
      BY <1>1, <1>2, <2>2, Closing
    <2> QED
      BY <1>2, <2>2, <2>3 DEF Promise!AnswerAll, Promise!Range, Range
  <1>4. CASE NoDirectory
    <2>1. results' = [i \in DOMAIN urls |-> Failure(urls[i], "WriteError", 0)]
      BY <1>4 DEF NoDirectory
    <2>2. \A i \in DOMAIN urls : results'[i].url = urls[i] /\ results'[i].error = "WriteError"
      BY <2>1 DEF Failure
    <2>3. Promise!Answer({}, "WriteError")
      BY <1>1, <1>2, <2>1, <2>2, Closing
    <2> QED
      BY <1>2, <2>3 DEF Promise!Refuse
  <1> QED
    BY <1>3, <1>4

\* The fan-out and the summary change nothing the caller sees.
LEMMA QuietImplements ==
    ASSUME Sound, WellNamed, FanOut \/ SummaryEnds \/ UNCHANGED vars
    PROVE  MapsToStutter
  <1>1. UNCHANGED <<urls, io, result_map, results>> /\ Unanswered' = Unanswered
    BY DEF FanOut, SummaryEnds, Unanswered, vars
  <1>2. StoredUrls' = StoredUrls /\ AnswerList' = AnswerList
    <2>1. \A v : ImageStored(v)' <=> ImageStored(v)
      BY <1>1, SameNames DEF ImageStored, Sidecar
    <2> QED
      BY <1>1, <2>1, SameInput DEF StoredUrls, AnswerList
  <1>3. ASSUME NEW v \in Urls PROVE VerdictOf(v)' = VerdictOf(v)
    <2>1. CASE FanOut
      BY <1>3, <2>1, AfterFanOut DEF VerdictOf, FanOut, Sound, NotStarted
    <2>2. CASE SummaryEnds \/ UNCHANGED vars
      BY <1>1, <2>2 DEF VerdictOf, SummaryEnds, vars
    <2> QED
      BY <2>1, <2>2
  <1>4. VerdictList' = VerdictList
    BY <1>3 DEF VerdictList
  <1> QED
    BY <1>1, <1>2, <1>4 DEF MapsToStutter

\* The batch implements BatchPromise: each URL is settled once, a success follows the
\* end of the write of its image, and the results are those of the URLs in the order
\* of the input and final, in whatever order tasks end, are joined, panic or are
\* dropped (orchestrator.rs:110-195).
THEOREM Implements == Spec => PromiseKept
  <1>1. ASSUME Init PROVE Promise!PInit
    <2>1. /\ urls \in Inputs /\ Unanswered /\ results = <<>>
          /\ \A u \in Urls : io[u].stage = "none" /\ task[u].pc = "absent"
      BY <1>1 DEF Init, Unanswered
    <2>2. Range(urls) \subseteq Urls
      BY <2>1, BatchUrlsAssumption DEF Range
    <2>3. StoredUrls = {}
      BY <2>1, <2>2 DEF StoredUrls, ImageStored
    <2>4. VerdictList = [u \in Urls |-> "pending"]
      <3>1. \A u \in Urls : VerdictOf(u) = "pending"
        BY <2>1 DEF VerdictOf
      <3> QED
        BY <3>1 DEF VerdictList
    <2>5. AnswerList = <<>>
      BY <2>1 DEF AnswerList
    <2> QED
      BY <2>1, <2>3, <2>4, <2>5 DEF Promise!PInit, StoredUrls, VerdictList, AnswerList, Unanswered
  <1>2. ASSUME Sound, WellNamed, AllTraced, AllSpawned, [Next]_vars
        PROVE  [Promise!PNext]_(Promise!promiseVars)
    <2>1. Implemented
      <3>1. CASE \E u \in Urls : DownloadOne(u)
        BY <1>2, <3>1, DownloadImplements
      <3>2. CASE \E u \in Urls : BlockingWrite(u)
        BY <1>2, <3>2, WriteImplements
      <3>3. CASE \E u \in Urls : Join(u)
        BY <1>2, <3>3, JoinImplements DEF Implemented
      <3>4. CASE AllJoined \/ DeadlinePasses
        BY <1>2, <3>4, JoinedImplements, DeadlineImplements DEF Implemented, MapsToAnswer
      <3>5. CASE EmptyBatch \/ NoDirectory
        BY <1>2, <3>5, EmptyImplements DEF Implemented, MapsToAnswer
      <3>6. CASE FanOut \/ SummaryEnds \/ UNCHANGED vars
        BY <1>2, <3>6, QuietImplements DEF Implemented
      <3> QED
        BY <1>2, <3>1, <3>2, <3>3, <3>4, <3>5, <3>6 DEF Next, Collector, Start, Terminated
    <2> QED
      BY <2>1, StepImplements
  <1>3. Init => Promise!PInit
    BY <1>1
  <1>4. Sound /\ WellNamed /\ AllTraced /\ AllSpawned /\ [Next]_vars
          => [Promise!PNext]_(Promise!promiseVars)
    BY <1>2
  <1> QED
    BY <1>3, <1>4, Invariance, WellNamedInvariant, TracedInvariant, PTL
    DEF Spec, PromiseKept, Promise!PSpec

=============================================================================
