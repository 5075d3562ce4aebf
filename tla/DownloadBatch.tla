---------------------------- MODULE DownloadBatch ----------------------------
(***************************************************************************)
(* One call of Downloader::download_batch (orchestrator.rs) with the retry *)
(* loop (retry.rs) and the writers (output/) it runs: the input is freed   *)
(* of duplicates, one task per URL is spawned, each waits for a global and *)
(* a host permit, makes its requests, writes its file; the batch collects  *)
(* the results until all are there or the deadline passes.                 *)
(*                                                                         *)
(* A task runs from one await to the next in one step.  tokio::fs::write   *)
(* runs on a blocking thread, which goes on when the task that waits for   *)
(* it is dropped.  The connection pool is an acquire that succeeds or      *)
(* fails (ConnectionPool says when); a request is its outcome.             *)
(***************************************************************************)
EXTENDS FileNaming, Sequences, FiniteSets, Functions

CONSTANTS
    Hosts,          \* the hosts in them
    NoHost,         \* HostOf a string that is no URL, or has no host
    HostOf,         \* uri.host() of each URL
    RedirectsTo,    \* hosts, or NoHost, that a cross-host redirect may lead to
    NoPath,         \* no file
    ContentOf,      \* the image each URL serves
    Inputs,         \* BOUND: the lists of URLs a batch is called with
    Faults,         \* BOUND: the errors that occur
    MaxGlobal,      \* config.max_concurrent_global
    MaxPerHost,     \* config.max_concurrent_per_host
    MaxRetries,     \* config.max_retries
    MaxRedirects,   \* config.max_redirects
    BatchTimeout,   \* config.batch_timeout is Some
    WriteMetadata,  \* config.write_metadata
    WriteSummary    \* config.write_summary

\* DownloadError, with the statuses 429 and 503 apart from the others.
AcquireErrors == {"ConnectionFailed", "TlsError", "DnsResolutionFailed"}
RequestErrors == {"HttpTransient", "HttpStatus", "Timeout", "ConnectionFailed",
                  "TooManyRedirects"}
Errors == AcquireErrors \cup RequestErrors \cup {"ValidationFailed", "WriteError"}
is_retryable == {"HttpTransient", "Timeout", "ConnectionFailed"}

ASSUME BatchUrlsAssumption ==
    /\ HostOf \in [Urls -> Hosts \cup {NoHost}] /\ NoHost \notin Hosts
    /\ RedirectsTo \subseteq Hosts \cup {NoHost}
    /\ ContentOf \in [Urls -> Images]
    /\ Inputs \subseteq Seq(Urls)
    /\ Faults \subseteq Errors
ASSUME BatchConfigAssumption ==
    /\ MaxGlobal \in Nat /\ MaxPerHost \in Nat
    /\ MaxRetries \in Nat /\ MaxRedirects \in Nat
    /\ {BatchTimeout, WriteMetadata, WriteSummary} \subseteq BOOLEAN

VARIABLES
    urls,        \* the argument: a list of URLs, with duplicates
    phase,       \* where download_batch_inner is
    task,        \* the state of download_one for each URL
    global_sem,  \* free permits of the batch's semaphore
    host_sems,   \* host -> free permits, for the hosts that have a semaphore
    io,          \* the blocking write each task started last
    files,       \* the output directory: path -> contents
    result_map,  \* url -> result, for the tasks that were joined
    results      \* what the batch returns

vars == <<urls, phase, task, global_sem, host_sems, io, files, result_map, results>>

\* The name of a URL has the first position of the URL in the input, from 0.
first_index(u) ==
    (CHOOSE i \in DOMAIN urls : urls[i] = u /\ \A j \in 1 .. (i - 1) : urls[j] # u) - 1
FileName(u) == generate_filename(u, first_index(u), ContentOf[u])

Sidecar(name) == <<name, "json">>
Names == {FileName(u) : u \in Range(urls)}
SummaryPath == <<<<"segment", "summary", 7>>, "json">>
Paths == Names \cup {Sidecar(n) : n \in Names} \cup {SummaryPath}

Result == [url : Urls, error : Errors \cup {"none", "TaskPanicked"},
           path : Names \cup {NoPath}, retries : Nat]
Success(u) == [url |-> u, error |-> "none", path |-> FileName(u), retries |-> 0]
Failure(u, error, n) == [url |-> u, error |-> error, path |-> NoPath, retries |-> n]

\* The places of download_one at which the task holds its global permit, both
\* permits, or waits for a request of its own.
Requesting == {"acquiring", "requesting"}
WithHost == Requesting \cup {"backoff", "writing", "sidecar"}
WithGlobal == WithHost \cup {"host_lock", "host"}
Ended == {"finished", "panicked"}
Gone == {"absent", "collected", "dropped"}

\* leg 2 is follow_cross_host_redirect; retries_attempted is what with_retry
\* returned for leg 1.  hops and retried are history: the redirects that led to
\* the present leg or outcome, and the retries of each leg.
Task == [pc : {"spawned", "global"} \cup WithGlobal \cup Ended \cup Gone,
         leg : {1, 2}, host : Hosts \cup {NoHost},
         attempt : Nat, retries_attempted : Nat,
         hops : Nat, retried : [{1, 2} -> Nat], result : Result]

Stages == {"none", "queued", "open", "ok", "failed"}
Contents == Range(ContentOf) \cup Urls \cup {"summary", "absent", "empty", "torn"}

TypeOK ==
    /\ urls \in Seq(Urls)
    /\ phase \in {"start", "collecting", "summary", "returned"}
    /\ task \in [Urls -> Task]
    /\ global_sem \in 0 .. MaxGlobal
    /\ DOMAIN host_sems \subseteq Hosts
    /\ \A h \in DOMAIN host_sems : host_sems[h] \in 0 .. MaxPerHost
    /\ io \in [Urls -> [path : Paths \cup {NoPath}, stage : Stages]]
    /\ files \in [Paths -> Contents]
    /\ \A u \in DOMAIN result_map : result_map[u] \in Result
    /\ results \in Seq(Result)

Init ==
    /\ urls \in Inputs
    /\ phase = "start"
    /\ task = [u \in Urls |-> [pc |-> "absent", leg |-> 1, host |-> HostOf[u],
                               attempt |-> 0, retries_attempted |-> 0,
                               hops |-> 0, retried |-> [l \in {1, 2} |-> 0],
                               result |-> Failure(u, "Timeout", 0)]]
    /\ global_sem = MaxGlobal
    /\ host_sems = [h \in {} |-> 0]
    /\ io = [u \in Urls |-> [path |-> NoPath, stage |-> "none"]]
    /\ files = [p \in Paths |-> "absent"]
    /\ result_map = [u \in {} |-> 0]
    /\ results = <<>>

-----------------------------------------------------------------------------
(* download_batch_inner: up to the fan-out *)

EmptyBatch ==
    /\ phase = "start"
    /\ urls = <<>>
    /\ phase' = "returned"
    /\ UNCHANGED <<urls, task, global_sem, host_sems, io, files, result_map, results>>

\* create_dir_all fails: every position gets a WriteError.
NoDirectory ==
    /\ phase = "start"
    /\ urls # <<>>
    /\ "WriteError" \in Faults
    /\ results' = [i \in DOMAIN urls |-> Failure(urls[i], "WriteError", 0)]
    /\ phase' = "returned"
    /\ UNCHANGED <<urls, task, global_sem, host_sems, io, files, result_map>>

\* One task per distinct URL.
FanOut ==
    /\ phase = "start"
    /\ urls # <<>>
    /\ task' = [u \in Urls |-> IF u \in Range(urls) THEN [task[u] EXCEPT !.pc = "spawned"]
                                                    ELSE task[u]]
    /\ phase' = "collecting"
    /\ UNCHANGED <<urls, global_sem, host_sems, io, files, result_map, results>>

-----------------------------------------------------------------------------
(* download_one: permits *)

Goto(u, pc) == task' = [task EXCEPT ![u].pc = pc]

ParseUrl(u) ==
    /\ task[u].pc = "spawned"
    /\ IF HostOf[u] = NoHost
       THEN task' = [task EXCEPT ![u].pc = "finished",
                                 ![u].result = Failure(u, "ConnectionFailed", 0)]
       ELSE Goto(u, "global")
    /\ UNCHANGED <<urls, phase, global_sem, host_sems, io, files, result_map, results>>

AcquireGlobal(u) ==
    /\ task[u].pc = "global"
    /\ global_sem > 0
    /\ global_sem' = global_sem - 1
    /\ Goto(u, "host_lock")
    /\ UNCHANGED <<urls, phase, host_sems, io, files, result_map, results>>

\* The semaphore of a host is created by the first task that asks for it.
InsertAnew(h) ==   \* a mistake: insert in place of or_insert_with
    [x \in DOMAIN host_sems \cup {h} |-> IF x = h THEN MaxPerHost ELSE host_sems[x]]
OrInsert(h) ==
    [x \in DOMAIN host_sems \cup {h} |-> IF x \in DOMAIN host_sems THEN host_sems[x]
                                                                   ELSE MaxPerHost]

HostSemaphore(u) ==
    /\ task[u].pc = "host_lock"
    /\ host_sems' = OrInsert(HostOf[u])
    /\ Goto(u, "host")
    /\ UNCHANGED <<urls, phase, global_sem, io, files, result_map, results>>

AcquireHost(u) ==
    /\ task[u].pc = "host"
    /\ host_sems[HostOf[u]] > 0
    /\ host_sems' = [host_sems EXCEPT ![HostOf[u]] = @ - 1]
    /\ Goto(u, "acquiring")
    /\ UNCHANGED <<urls, phase, global_sem, io, files, result_map, results>>

\* The permits are dropped with the future: when it returns, and when it panics.
KeepPermit(n) == n           \* a mistake: the permit is forgotten
AddTwo(n) == n + 2           \* a mistake: it is released twice
AddPermit(n) == n + 1
ReleasePermits(u) ==
    /\ global_sem' = AddPermit(global_sem)
    /\ host_sems' = [host_sems EXCEPT ![HostOf[u]] = @ + 1]

\* download_one returns, with both permits held until then.
Finish(u, t, result) ==
    /\ task' = [task EXCEPT ![u] = [t EXCEPT !.pc = "finished", !.result = result]]
    /\ ReleasePermits(u)

-----------------------------------------------------------------------------
(* download_one and follow_cross_host_redirect: the requests *)

\* retries_attempted is counted by with_retry, and only that of leg 1 is kept.
RetriesOf(t) == IF t.leg = 1 THEN t.attempt ELSE t.retries_attempted

\* The closure of with_retry returned an error.
RetryOnceMore(t, error) ==   \* a mistake: <= for <
    error \in is_retryable /\ t.attempt <= MaxRetries
RetryAgain(t, error) == error \in is_retryable /\ t.attempt < MaxRetries

AttemptFails(u, error) ==
    LET t == task[u] IN
    IF RetryAgain(t, error)
    THEN Goto(u, "backoff") /\ UNCHANGED <<global_sem, host_sems>>
    ELSE Finish(u, [t EXCEPT !.hops = IF error = "TooManyRedirects" THEN MaxRedirects + 1
                                                                    ELSE @],
                Failure(u, error, RetriesOf(t)))

\* pool.acquire returns an error ...
AcquireFails(u) ==
    /\ task[u].pc = "acquiring"
    /\ \E error \in AcquireErrors \cap Faults : AttemptFails(u, error)
    /\ UNCHANGED <<urls, phase, io, files, result_map, results>>

\* ... or a handle.
AcquireReturns(u) ==
    /\ task[u].pc = "acquiring"
    /\ Goto(u, "requesting")
    /\ UNCHANGED <<urls, phase, global_sem, host_sems, io, files, result_map, results>>

\* execute_request returns an error; TooManyRedirects after one redirect too many.
RequestFails(u) ==
    /\ task[u].pc = "requesting"
    /\ \E error \in RequestErrors \cap Faults : AttemptFails(u, error)
    /\ UNCHANGED <<urls, phase, io, files, result_map, results>>

\* The sleep between two attempts ends.
BackoffUncounted(u) ==   \* a mistake: attempt is not incremented
    /\ task[u].pc = "backoff"
    /\ Goto(u, "acquiring")
    /\ UNCHANGED <<urls, phase, global_sem, host_sems, io, files, result_map, results>>
BackoffEnds(u) ==
    /\ task[u].pc = "backoff"
    /\ task' = [task EXCEPT ![u].pc = "acquiring", ![u].attempt = @ + 1,
                            ![u].retried[task[u].leg] = @ + 1]
    /\ UNCHANGED <<urls, phase, global_sem, host_sems, io, files, result_map, results>>

\* execute_request stops at a redirect to another host, the n-th of its budget
\* (redirects_remaining, for leg 2).  The first such redirect is followed with a
\* retry loop of its own, but under the permit of the first host; the second is
\* an error.
RequestRedirects(u) ==
    LET t == task[u] IN
    /\ t.pc = "requesting"
    /\ \E new \in RedirectsTo \ {t.host}, n \in 1 .. (MaxRedirects - t.hops) :
         LET after == [t EXCEPT !.hops = @ + n,
                                !.retries_attempted = RetriesOf(t)]
         IN  IF t.leg = 2 \/ new = NoHost
             THEN Finish(u, after, Failure(u, "TooManyRedirects", RetriesOf(t)))
             ELSE /\ task' = [task EXCEPT ![u] = [after EXCEPT !.pc = "acquiring",
                                                               !.leg = 2,
                                                               !.host = new,
                                                               !.attempt = 0]]
                  /\ UNCHANGED <<global_sem, host_sems>>
    /\ UNCHANGED <<urls, phase, io, files, result_map, results>>

\* execute_request returns a response that validate_response rejects, ...
ResponseInvalid(u) ==
    /\ task[u].pc = "requesting"
    /\ "ValidationFailed" \in Faults
    /\ Finish(u, task[u], Failure(u, "ValidationFailed", RetriesOf(task[u])))
    /\ UNCHANGED <<urls, phase, io, files, result_map, results>>

\* ... whose name generate_filename panics on, ...
NamingPanics(u) ==
    /\ task[u].pc = "requesting"
    /\ NamePanics(u, first_index(u), ContentOf[u])
    /\ Goto(u, "panicked")
    /\ ReleasePermits(u)
    /\ UNCHANGED <<urls, phase, io, files, result_map, results>>

\* ... or that is handed to write_image.
ResponseValid(u) ==
    /\ task[u].pc = "requesting"
    /\ ~ NamePanics(u, first_index(u), ContentOf[u])
    /\ task' = [task EXCEPT ![u].pc = "writing",
                            ![u].retries_attempted = RetriesOf(task[u])]
    /\ io' = [io EXCEPT ![u] = [path |-> FileName(u), stage |-> "queued"]]
    /\ UNCHANGED <<urls, phase, global_sem, host_sems, files, result_map, results>>

-----------------------------------------------------------------------------
(* The blocking thread of tokio::fs::write: std::fs::write *)

DataOf(u) == IF io[u].path = FileName(u) THEN ContentOf[u] ELSE u

\* The file is created or truncated, ...
OpenFile(u) ==
    /\ io[u].stage = "queued"
    /\ files' = [files EXCEPT ![io[u].path] = "empty"]
    /\ io' = [io EXCEPT ![u].stage = "open"]
    /\ UNCHANGED <<urls, phase, task, global_sem, host_sems, result_map, results>>

\* ... and written from its start, over what another thread wrote since.
WriteBytes(u) ==
    /\ io[u].stage = "open"
    /\ \E new \in IF files[io[u].path] \in {"empty", DataOf(u)} THEN {DataOf(u)}
                                                                ELSE {DataOf(u), "torn"} :
         files' = [files EXCEPT ![io[u].path] = new]
    /\ io' = [io EXCEPT ![u].stage = "ok"]
    /\ UNCHANGED <<urls, phase, task, global_sem, host_sems, result_map, results>>

\* The file cannot be opened, or written to its end.
WriteFails(u) ==
    /\ "WriteError" \in Faults
    /\ \/ io[u].stage = "queued" /\ UNCHANGED files
       \/ /\ io[u].stage = "open"
          /\ \E new \in {files[io[u].path], "torn"} :
               files' = [files EXCEPT ![io[u].path] = new]
    /\ io' = [io EXCEPT ![u].stage = "failed"]
    /\ UNCHANGED <<urls, phase, task, global_sem, host_sems, result_map, results>>

BlockingWrite(u) == OpenFile(u) \/ WriteBytes(u) \/ WriteFails(u)

-----------------------------------------------------------------------------
(* download_one: after the write *)

\* write_image returned an error.
ImageNotWritten(u) ==
    /\ task[u].pc = "writing"
    /\ io[u].stage = "failed"
    /\ Finish(u, task[u], Failure(u, "WriteError", task[u].retries_attempted))
    /\ UNCHANGED <<urls, phase, io, files, result_map, results>>

\* The image is written; the sidecar is next, if there is to be one.
WrittenEarly(u) == io[u].stage \in {"open", "ok"}   \* a mistake: done when it is created
Written(u) == io[u].stage = "ok"

ImageWritten(u) ==
    /\ task[u].pc = "writing"
    /\ Written(u)
    /\ IF WriteMetadata
       THEN /\ Goto(u, "sidecar")
            /\ io' = [io EXCEPT ![u] = [path |-> Sidecar(FileName(u)), stage |-> "queued"]]
            /\ UNCHANGED <<global_sem, host_sems>>
       ELSE Finish(u, task[u], Success(u)) /\ UNCHANGED io
    /\ UNCHANGED <<urls, phase, files, result_map, results>>

\* A sidecar that cannot be written is logged, no more.
SidecarSpawned(u) == TRUE   \* a mistake: the write is not awaited
SidecarDone(u) == io[u].stage \in {"ok", "failed"}

SidecarEnds(u) ==
    /\ task[u].pc = "sidecar"
    /\ SidecarDone(u)
    /\ Finish(u, task[u], Success(u))
    /\ UNCHANGED <<urls, phase, io, files, result_map, results>>

-----------------------------------------------------------------------------
(* download_batch_inner: collection and assembly *)

\* join_next returns the result of a task, or that it panicked.
Join(u) ==
    /\ phase = "collecting"
    /\ task[u].pc \in Ended
    /\ result_map' = IF task[u].pc = "panicked" THEN result_map
                     ELSE [v \in DOMAIN result_map \cup {u} |->
                             IF v = u THEN task[u].result ELSE result_map[v]]
    /\ Goto(u, "collected")
    /\ UNCHANGED <<urls, phase, global_sem, host_sems, io, files, results>>

\* A URL without a result: the deadline passed or its task panicked.
MissingPanicked(u) == Failure(u, "TaskPanicked", 0)   \* a mistake: the deadline is forgotten
Missing(u) == Failure(u, IF BatchTimeout THEN "Timeout" ELSE "TaskPanicked", 0)
AssembleEarly ==   \* a mistake: the tasks' own results, joined or not
    /\ results' = [i \in DOMAIN urls |-> task[urls[i]].result]
    /\ phase' = IF WriteSummary THEN "summary" ELSE "returned"
Assemble ==
    /\ results' = [i \in DOMAIN urls |->
                     IF urls[i] \in DOMAIN result_map THEN result_map[urls[i]]
                                                      ELSE Missing(urls[i])]
    /\ phase' = IF WriteSummary THEN "summary" ELSE "returned"

Spawned == {u \in Urls : task[u].pc # "absent"}

AllJoined ==
    /\ phase = "collecting"
    /\ \A u \in Spawned : task[u].pc = "collected"
    /\ Assemble
    /\ UNCHANGED <<urls, task, global_sem, host_sems, io, files, result_map>>

\* timeout_at elapses; dropping the JoinSet drops every task at its await, and
\* the results that were not joined.  The blocking writes go on.  The semaphores
\* are the batch's own: nobody waits for a permit any more.
MayTimeOutAfterJoin ==   \* a mistake: the clock is read when join_next returns
    BatchTimeout /\ \E u \in Urls : task[u].pc \in Ended
MayTimeOut == BatchTimeout

DeadlinePasses ==
    /\ phase = "collecting"
    /\ MayTimeOut
    /\ Assemble
    /\ task' = [u \in Urls |-> IF task[u].pc \in Gone THEN task[u]
                                                      ELSE [task[u] EXCEPT !.pc = "dropped"]]
    /\ UNCHANGED <<urls, global_sem, host_sems, io, files, result_map>>

\* write_batch_summary replaces the file of its name; that it failed is logged, no
\* more.  What the counts in it are is left out.
write_batch_summary ==
    \/ files' = [files EXCEPT ![SummaryPath] = "summary"]
    \/ /\ "WriteError" \in Faults
       /\ \E new \in {files[SummaryPath], "torn"} :
            files' = [files EXCEPT ![SummaryPath] = new]

SummaryEnds ==
    /\ phase = "summary"
    /\ write_batch_summary
    /\ phase' = "returned"
    /\ UNCHANGED <<urls, task, global_sem, host_sems, io, result_map, results>>

\* The batch returned and no thread is writing any more.
Terminated ==
    /\ phase = "returned"
    /\ \A u \in Urls : io[u].stage \notin {"queued", "open"}
    /\ UNCHANGED vars

Start == EmptyBatch \/ NoDirectory \/ FanOut
Collector == Start \/ (\E u \in Urls : Join(u)) \/ AllJoined \/ SummaryEnds
DownloadOne(u) ==
    \/ ParseUrl(u) \/ AcquireGlobal(u) \/ HostSemaphore(u) \/ AcquireHost(u)
    \/ AcquireFails(u) \/ AcquireReturns(u) \/ BackoffEnds(u)
    \/ RequestFails(u) \/ RequestRedirects(u)
    \/ ResponseInvalid(u) \/ NamingPanics(u) \/ ResponseValid(u)
    \/ ImageNotWritten(u) \/ ImageWritten(u) \/ SidecarEnds(u)

Next ==
    \/ Collector
    \/ DeadlinePasses
    \/ \E u \in Urls : DownloadOne(u) \/ BlockingWrite(u)
    \/ Terminated

Spec == Init /\ [][Next]_vars

\* Every task and every blocking write goes on: acquire returns (AcquireTerminates
\* of ConnectionPool), request_timeout bounds a request, a backoff is a timer.
FairSpec ==
    /\ Spec
    /\ WF_vars(Collector)
    /\ \A u \in Urls : WF_vars(DownloadOne(u)) /\ WF_vars(BlockingWrite(u))

\* The deadline alone: the tasks may hang anywhere.
DeadlineSpec == Spec /\ WF_vars(Collector) /\ WF_vars(DeadlinePasses)

-----------------------------------------------------------------------------
(* Properties *)

At(pcs) == {u \in Urls : task[u].pc \in pcs}

\* Every permit is free or held by a task that is at work, whichever way the
\* others ended (orchestrator.rs:279-288): returned, failed, or panicked.
PermitsAccounted ==
    phase = "collecting" =>
      /\ global_sem + Cardinality(At(WithGlobal)) = MaxGlobal
      /\ \A h \in DOMAIN host_sems :
           host_sems[h] + Cardinality({u \in At(WithHost) : HostOf[u] = h}) = MaxPerHost

\* "The per-host cap is what keeps you from being rate-limited into oblivion"
\* (examples/large_batch.py:19): at most MaxPerHost downloads of the batch have a
\* connection or a request to a host, or ask for one.
HostCap ==
    \A h \in Hosts : Cardinality({u \in At(Requesting) : task[u].host = h}) <= MaxPerHost

\* A result is that of its position's URL (orchestrator.rs:168-189), and a success
\* names a file that holds the image the URL served, at the time the batch returns.
ResultsOnDisk ==
    phase = "returned" /\ results # <<>> =>
      \A i \in DOMAIN urls :
        /\ results[i].url = urls[i]
        /\ results[i].error = "none" => files[results[i].path] = ContentOf[urls[i]]

\* "Truncate a filename to 200 characters" (naming.rs:78): no file that a success
\* names has a longer name, however long the segment of its URL is.
NamesBounded ==
    \A i \in DOMAIN results :
       results[i].error = "none" => NameChars(results[i].path) <= NameLimit

\* No file of the batch changes after it returned.
QuietAfterReturn == [][phase = "returned" => UNCHANGED files]_vars

\* with_retry returns the retries it made "so the orchestrator can populate
\* retries_attempted in DownloadOutcome::Failure" (retry.rs:56-57): the number in a
\* failure is that of the download's retries, on both legs.  The code does not keep it:
\* the count of the second leg is dropped (orchestrator.rs:481).
RetriesReported ==
    \A i \in DOMAIN results :
       results[i].error \notin {"none", "TaskPanicked"}
         => LET retried == task[results[i].url].retried
            IN  results[i].retries = retried[1] + retried[2]

\* Each of the two retry loops makes at most MaxRetries retries (retry.rs:77-78).
RetriesBounded == \A u \in Urls, leg \in {1, 2} : task[u].retried[leg] <= MaxRetries

\* download_batch returns (orchestrator.rs:139-162).
BatchReturns == <>(phase = "returned")

-----------------------------------------------------------------------------
(* The refinement mapping to BatchPromise *)

\* The image of u was written to its end: the write of the image ended well, or was
\* followed by that of the sidecar.
ImageStored(u) ==
    \/ io[u].stage = "ok" /\ io[u].path = FileName(u)
    \/ io[u].stage # "none" /\ io[u].path = Sidecar(FileName(u))

\* What a task came to is in its result until it is joined, then in the map; both are
\* dropped when the batch is answered.
Unanswered == phase \in {"start", "collecting"}
VerdictOf(u) ==
    CASE Unanswered /\ task[u].pc = "finished" -> task[u].result.error
      [] Unanswered /\ task[u].pc = "panicked" -> "TaskPanicked"
      [] Unanswered /\ task[u].pc = "collected" ->
           IF u \in DOMAIN result_map THEN result_map[u].error ELSE "TaskPanicked"
      [] OTHER -> "pending"

Promise == INSTANCE BatchPromise WITH
    Deadline <- BatchTimeout,
    batch <- urls,
    stored <- {u \in Range(urls) : ImageStored(u)},
    verdict <- [u \in Urls |-> VerdictOf(u)],
    open <- Unanswered,
    answers <- [i \in DOMAIN results |-> [url |-> results[i].url, error |-> results[i].error]]

\* Each URL of a batch is downloaded once, a success comes after its file, and the
\* results are final and in the order of the input, whatever the order in which the
\* tasks end, whenever the deadline passes and whoever panics
\* (orchestrator.rs:110-195): the batch implements BatchPromise.
PromiseKept == Promise!PSpec
=============================================================================
