# A verification development for imgdl

imgdl downloads images in batches: a Rust library (`crates/imgdl-core`), its Python
bindings (`crates/imgdl-py`) and a Python package. This directory holds TLA+
specifications of the library's own logic, TLC configurations that check them on small
instances, and TLAPS proofs of their main theorems. Line numbers refer to
`crates/imgdl-core/src/` unless a path says otherwise.

## Inventory

| Part | State | Operations | Interacts with |
|---|---|---|---|
| connection pool, `pool.rs` | `host_pools` (a map behind one async mutex): per (host, port) the protocol, the connections with an id and a sender (an HTTP/1.1 sender is taken out of its slot while in use), `opening_count`, `next_id`, a `Notify` | `acquire` (a loop of `determine_action`, then return, open or wait), `open_and_insert`, `return_h1_connection`, `remove_dead_connection`, `notify_h2_complete` | called by the retry closure; resolves names; outlives the batch |
| connection hand-back, `orchestrator.rs:510-531` | none | `finish_connection` | calls the pool with what `execute_request` returned |
| DNS cache, `dns.rs` | host -> addresses or failure, with an expiry (behind a `RwLock` not held during a lookup) | `resolve` | called while a connection opens |
| batch orchestrator, `orchestrator.rs` | per batch: a global semaphore, host semaphores created on demand, a `JoinSet`, the results | `download_batch` (duplicates, fan-out, collection, deadline, assembly, summary), `download_one`, `follow_cross_host_redirect` | spawns the downloads, owns the permits |
| retry loop, `retry.rs` | the attempt counter | `with_retry`, `is_retryable`, `compute_backoff` | runs the closure that acquires, requests and hands back |
| HTTP transport, `transport.rs` | the current URL, a `u8` redirect counter, the state of the connection | `execute_request` | returns a response, an error, or a redirect to another host |
| output, `output/` | the files of the output directory | `generate_filename`, `validate_response`, `write_image`, `write_metadata_sidecar`, `write_batch_summary` | called by `download_one`; writes run on blocking threads |
| types and settings, `types.rs`, `config.rs` | none | errors, outcomes, `Config` | everywhere |
| TLS settings, `tls.rs` | none after construction | `ClientConfig` | pool |
| Python bindings, `crates/imgdl-py/src` | three process-wide `OnceLock` cells: the runtime with its number of threads, and a downloader for each of the two functions; the interpreter's lock | `Config(...)`, `download_images`, `_download_images_plaintext`: validate, convert, `get_runtime`, `get_downloader`, run | runs `download_batch` with the lock released; the first call's settings serve all later ones |

What is hard here, and the properties it calls for:

* *Tasks that share the pool.* A task leaves the lock to open a connection or to wait, and
  finds another entry when it comes back; ids start again at 0 when an entry is inserted
  anew. An HTTP/1.1 connection must serve one task at a time, the entry must count those
  who open, a host must stay within its limit, and a waiter must be woken, or give up.
* *Tasks that are dropped.* A batch deadline drops its tasks at whatever await they are at.
  The pool lives on, permits do not matter any more, and a blocking write goes on.
* *Answers out of order.* Lookups of one host overlap, and the last to end is stored.
* *Retries and redirects.* Two retry loops, one budget of redirects over two calls, a
  counter of eight bits, a connection that must be read out before it is put back.
* *Connections the server has closed.* A connection may end behind a complete response, or while
  it is idle, which goes on during backoffs and between other downloads' requests. It is put back,
  and handed out, without a look at it: the retries must outlast the dead ones.
* *Threads of Python.* Calls meet in `get_or_init`, with a lock of the interpreter or without;
  a cell must be filled once, and nobody may hold that lock while others need it.
* *Results and files.* Every position of the input gets the result of its URL, a success
  names a file that holds the image, and nothing changes once the batch returned.

`PROJECT.json` lists each hazard at its line, with the properties that cover it.

## Modules

| Module | Models | Read first |
|---|---|---|
| `ConnectionPool` | the pool and the use of its handles | `Init`, the sections "acquire", "open_and_insert", "finish_connection" |
| `ConnectionLease` | the promise of the pool: a connection is idle or leased to one task | all of it |
| `DnsCache` | the cache, overlapping lookups, a zone that changes, a clock | all of it |
| `Transport` | the requests of one download over HTTP/1.1: `with_retry` around acquire, `execute_request` and `finish_connection`, on both legs of a redirect to another host | the section comments |
| `PythonCalls` | the calls of any threads of one Python process, the cells they share and the interpreter's lock | `Init`, "get_runtime", the properties |
| `BatchPromise` | the promise of a batch: each URL is settled once, a success after its image was stored, and the caller is answered once, in the order of the input | all of it |
| `DownloadBatch` | one call of `download_batch` with its tasks, permits, retries, writes and deadline | the section comments |
| `FileNaming` | `generate_filename`, as operators that `DownloadBatch` extends | `RawName`, `truncate_filename` |
| `ConnectionPoolProofs`, `ConnectionPoolWaits`, `ConnectionPoolRefinement`, `DnsCacheProofs`, `TransportProofs`, `PythonCallsProofs`, `DownloadBatchProofs` | proofs; `ConnectionPoolWaits` has those about tasks that wait, and `ConnectionLease` its own | the theorems |
| `MCConnectionPool`, `MCDnsCache`, `MCTransport`, `MCDownloadBatch`, `MCPythonCalls` | definitions for the configurations | |

`DownloadBatch` takes from the pool that `acquire` returns a handle or an error, and from
the transport that a request ends with a response, an error or a redirect after some number
of hops; `ConnectionPool` takes from the batch that a task may be dropped at any await.
`AcquireTerminates`, `HopsBounded` and `DownloadEnds` are what one module shows and the
others rely on. `Transport` has the retry loop with its delays and connections, for one
download; `DownloadBatch` has what many of them report and hold meanwhile. `PythonCalls` takes a
batch as one step that may never come.

### Correspondence with the code

**ConnectionPool.** One action is one section under the mutex, or one return of an await.
`pc` names the await: `acquiring` (about to lock), `opening_first` and `opening_more`
(in `open_connection`, the two values of `is_first`), `wait`, `parked`, `woken` (the three
states of `notified()`), `orphaned` (waiting on the Notify of an entry that was removed),
`h1` and `h2` (using a handle). `Call` is the retry closure calling `acquire`;
`InsertEntry`, `ReturnExisting`, `OpenNew` and `Wait` are the four ways through
`determine_action`, with the pruning of closed HTTP/2 connections in each; `OpenSucceeds` and
`OpenFails` are `open_and_insert` after its await; `ReturnH1`, `RemoveDead` and
`NotifyH2Complete` are the branches of `finish_connection`; `Abort` is the drop of the
`JoinSet`. The order of the `Vec` is that of the ids. `poll_ready` of an HTTP/2 sender may
report "pending" for a connection that is in use; that it is closed is an event of the
environment (`CloseH2`). A connection HTTP/1.1 whose peer is gone looks like any other, as
in the code. tokio's `Notify` is modelled by its stored permit and its choice of a waiter.

**DnsCache.** `ResolveHit`, `ResolveMiss`, `LookupEnds` and `Store` are the parts of
`resolve_inner` between its awaits. Entries are keyed by host and hold the addresses with
the port of the lookup, as `lookup_host` yields them. `seen` is a history variable: the
moment the resolver saw what an entry holds.

**Transport.** A place of `pc` is an await of `execute_with_redirects`. `redirects` is a
number up to `MaxU8` with the overflow of the build (`OverflowChecks`: the release profile
wraps, the dev profile panics). `wire` says whether the connection is between two
responses, inside one, ended by the server behind a complete response (`Connection: close`, or a
body that ends with the connection: `BodyRead`), or broken; draining the body of a redirect may fail
unnoticed. `RedirectHandedOver` replaces the budget by
`redirects_remaining`. `AttemptEnds` is the `match` of `with_retry`, with the outcome of the
retry closure, and after the last attempt the `match` of `download_one` or
`follow_cross_host_redirect`; `leg` says which of the two loops runs. `compute_backoff` yields
the set of the delays it may return, over a clock that may be anything, in arithmetic of `Bits`
bits. Of the pool the module keeps, per host, how many idle connections are dead (`stale`).
`AcquireReturns` may hand out one of those or a good one, as `h1_action` does; a connection that is
removed is gone; `finish_connection` adds one when what it puts back is dead. The pool is shared and
the server closes what it likes, so at any time another idle connection of a host may become dead
(`IdleCloses`) and another download may meet one (`OthersTake`), within `Limit` for each host.
`died` counts, as a history, all that have been dead and idle, and `faulty` becomes true when
anything but such a connection fails. Headers, paths, ports and schemes are left out.

**PythonCalls.** `pc[t]` is where a call is: waiting for the interpreter's lock (`calling`),
before a cell (`runtime`, `downloader`), inside the closure of `get_or_init` (`building`,
`creating`), inside `py.detach` (`batch`) or waiting to attach again (`returning`). A cell is the
`Config` of the call that filled it, since `RuntimeState` keeps its `threads` and a `Downloader`
its converted `Config`. A `Config` is a record of the fields the module branches on; the three
timeouts are one field with the three kinds of floats that `Config::new` and `from_secs_f64`
tell apart. `OnceLock` and pyo3 are external: one closure runs at a time, a closure that
panics leaves the cell empty, a `pyfunction` holds the lock except in `detach`. Both builds of
Python are initial states (`gil_enabled`).

**DownloadBatch.** `task[u].pc` is the await of `download_one`; `io[u]` is the blocking
write it started, which is not dropped with it; `files` is the directory by path.
`std::fs::write` truncates the file and then writes it: an open file is `empty`, two writers
of different images may leave it `torn`. A task that panics (in `truncate_filename`) gives
its permits back and no result. The summary is written in one step, since the batch waits
for it without a deadline; what it counts is left out, and so are the delay of a backoff
(a timer) and the lengths `validate_response` compares (either outcome is possible). With a deadline a missing result is a `Timeout`, without one
it is "task panicked". `hops` and `retried` are history variables; `retried` counts the retries of
each of the two loops.

**BatchPromise** has no counterpart in the code; the mapping to it is at the end of `DownloadBatch`.
`verdict` is what a finished task holds, or the map after it was joined; `stored` are the URLs whose
own write of the image ended well, which `io` tells, as the write of a sidecar begins only then; `answers`
are the results without paths and retries. All but the collection, the ends of the tasks and the
writes of images is a stutter.

**FileNaming.** A name is a base and an extension; a base says where it comes from (the last
path segment, a hash, the index) and how many of its characters are kept. The texts are
values with a number of characters: `sanitize` (of a segment and, under `UrlBased`, of its extension
too) and the first characters of a long segment are functions that may map two texts to one, which
is all that matters to the files. The
subtraction `200 - ext_chars` panics or wraps with the build (`OverflowChecks`). A sidecar is
taken never to have the name of an image, which a segment that ends in `.json` could have.

## Runs

### The pool

| Run | Instance | Shows |
|---|---|---|
| `pool_kept` | an HTTP/1.1 host and an HTTP/2 host, 3 tasks, limit 1 (the default), no cancellation | `CheckedOutMeansHeld`, `ReturnsExistingIfAvailable`, `BlocksOnlyWhenBusy`, `WakeupKept`, `AcquireTerminates` |
| `pool_mixed` | 2 hosts, 2 tasks with 2 calls each, limit 2, both protocols, cancellation | `TypeOK`, `ExclusiveCheckout`, `OpenersCounted`, `WithinLimit`, and that the pool implements `ConnectionLease` |
| `pool_mispinned` | 3 tasks, limit 2, HTTP/1.1 | violated: `ReturnsExistingIfAvailable`: the second opener is faster, and its connection, returned, lies idle in an entry that still says HTTP/2 while an acquire waits |
| `pool_aborted` | 3 tasks, limit 1, HTTP/1.1, cancellation | violated: `BlocksOnlyWhenBusy` |

Three tasks are one that holds, one that opens or hands back, and one that waits. Two calls
each (`MaxCalls`) let an entry be removed and inserted anew, with ids that start over, while
another task still has its old one; with three tasks one call each does. `MaxAttempts` is 2
for 32: one wait that ends and one last attempt. Tasks are made symmetric where no liveness
property is checked. What `pool_kept` shows fails with cancellation or, for the reuse of idle
connections, with a limit of two; that is what the two violations are about.

`WakeupKept` counts a task as `Unattended` when it waits on a removed entry, or waits for an HTTP/1.1
connection that is idle or has room while no permit and no task is on its way to it. It names the two ways
into that state: a task gives up with the notification it got (`GivesUp`), or the last opener fails
(`LastOpenerFails`: `pool.rs:385-386` removes the entry and notifies nobody, so who waits on it sleeps
out its 250 ms though no connection of the host is busy); nothing else leads there. The
entry of `pool_mispinned` gets its protocol when its first opener ends; if that one fails, it stays
HTTP/2 for good, a longer way to the same violation.

### The DNS cache

`dns_fresh`: two callers, a host, two addresses and failure, an address lives 3 units and a
failure 1, a lookup takes at most 1, seven units of time: an entry expires twice.
`AnswersFresh`: no answer is older than its lifetime and one lookup. `dns_ports` (violated:
`PortsMatch`): the same host resolved for two ports.

### The transport

`transport_hops`: `TypeOK`, `HopsBounded`, `NoLeftovers`, `BackoffDoubles`, `StaleSurvived` and
`DownloadEnds` for two hosts (two legs, and a redirect back from the second), two redirects and four
retries, where 2 is also the largest value of the counter (`MaxU8`, 255 in the code) and overflow
panics: the refusal, the hand-over, the loop and the overflow all occur. One connection per host dies
again and again while it is idle, up to four times (`MaxDeaths`), before the download, between its
attempts and during its backoffs, which four retries just survive; connections that are put back dead
come on top. Delays have three bits (`Bits`, 64 in the code), a base of 3 and a server that asks for 9:
the multiplication, the shift and the addition of the jitter each reach the end, which they do for the
code's numbers too, only later. `MaxHops` bounds the history variable only: the loops are really explored.

### The calls from Python

`calls_first_wins`: two threads, both functions, the default `Config` and four others (a wrong name
and a negative timeout, which are refused; a timeout that cannot be converted; a limit no
semaphore has with another number of threads), both builds. Two threads are one in a
closure and one that waits for it or comes later; calls repeat without a bound.
`FirstCallWins`: a cell that is set stays. `SettingsTogether`: with a global lock, the runtime and a
downloader are of one call, because nothing between `get_runtime` and `py.detach` releases it.
`MismatchWarned`: the comparison is with what is in the cell, also for a thread that waited.
`CallsProceed`: every call comes to its batch or ends, beside a batch that never does.

### The batch

| Run | Instance | Shows |
|---|---|---|
| `batch_whole` | 3 URLs of 2 hosts (a duplicate, one whose name panics, one whose name is too long, one without a name), `UrlBased`, all errors, sidecars, summary, no deadline, no redirects | `TypeOK`, `PermitsAccounted`, `HostCap`, `ResultsOnDisk`, `NamesBounded`, `QuietAfterReturn`, that the batch implements `BatchPromise` (`PromiseKept`), `BatchReturns` if requests end |
| `batch_deadline` | 3 URLs (one that is none, two whose segments `sanitize` makes equal), `Sequential`, redirects to a second host, transient, final and write errors, a deadline | `PermitsAccounted`, `ResultsOnDisk`, `RetriesBounded`, `PromiseKept` with answers that come too late, `BatchReturns` even if downloads hang |
| `batch_host_cap` | a redirect to the host of another download | violated: `HostCap` |
| `batch_same_content` | two URLs with one image, named by content, deadline | violated: `ResultsOnDisk` |

Two downloads contend for a permit, write one file or finish around the deadline; a third
finds a host semaphore that exists, or the global one empty. Permits are one per host and two
in all, retries one, so that each limit is reached. File names are distinct where
`ResultsOnDisk` holds, in `batch_deadline` thanks to the strategy.

What the violations say of the code is under "findings" in `PROJECT.json`, with the comment,
document or test it disagrees with. The same models show more when a constant is changed:

* `DownloadBatch` under `UrlBased` with the segments `a b` and `a_b` (`AlikeSegments`), or equal
  ones: both URLs succeed, one image is lost (`ResultsOnDisk`, `naming.rs:68`). So is the image
  of a URL that ends in `summary.json`, if a summary is written (`summary.rs:148`).
* `DownloadBatch` with `BatchTimeout = TRUE` and `QuietAfterReturn`: the blocking thread of a
  dropped download writes its file after the batch returned, for a URL reported as `Timeout`.
* `DownloadBatch` with `OverflowChecks = FALSE` and an extension of 210 characters: the name of a
  success is not cut (`NamesBounded`, `naming.rs:89`).
* `DownloadBatch` with a redirect to a second host, one transient fault there and `RetriesReported`: the
  failure reports the retries of the first loop only (`orchestrator.rs:481`), though `retry.rs:56-57`
  returns the count so that it is reported. With a deadline, a download dropped in its second attempt
  is reported with 0 retries.
* `Transport` with `ReturnedClean`: four steps lead to a response that is complete, a server that closes
  behind it, and a dead connection that is put back as idle (`orchestrator.rs:309`), against the comment
  at `orchestrator.rs:511`; `tests/conftest.py:55-57` avoids such a server. A connection that broke while
  the body of a redirect was drained is put back too (`transport.rs:168`).
* `Transport` with `MaxRedirects = MaxU8`, `OverflowChecks = FALSE` and `HopsBounded`: the counter
  wraps in a release build and the bound is gone (`transport.rs:145`).
* `Transport` with `StaleSurvived` without its bound on `died`: each attempt gets the next dead
  connection, and the download fails although the host is well (`pool.rs:305`).
* `PythonCalls` and `SettingsTogether` without `gil_enabled`: in a build of Python without the lock
  the runtime may be of one thread's call and both downloaders of the other's.

Reading the code for the models showed disagreements that no run is spent on:

* A later call with other settings "logs a warning and reuses the originals"
  (`examples/large_batch.py:12-14`, `tests/test_offline_downloads.py:92-94`): only another
  `runtime_threads` is logged (`runtime.rs:39`); what `get_downloader` ignores is ignored silently.
* `_download_images_plaintext` "cannot disturb the state that `download_images` relies on"
  (`imgdl-py/src/lib.rs:88-89`): the downloader is its own, the runtime is not; `Init` has one
  `RUNTIME_STATE`.
* "OSError: If output directory cannot be created" (`lib.rs:30`): the results say so, nothing
  is raised (`orchestrator.rs:77-91`).
* `Config` accepts a timeout that is a NaN or infinite, and the call panics when it converts it
  (`imgdl-py/src/config.rs:101`, `183`); a first call with a limit that no semaphore has makes
  every later batch of the process panic (`BatchEnds`).

## Fairness

* `ConnectionPool!FairSpec`: weak fairness for each task's acquire loop, waits and openings.
  The mutex of tokio is fair, the 250 ms timer fires, and TCP connects have a timeout. TLS and
  HTTP handshakes have none: that they end is an assumption about the server. How long a
  handle is held is not assumed.
* `DownloadBatch!FairSpec`: weak fairness for every task, every blocking write and the
  collector. tokio's semaphores are first in, first out; the model lets any waiter go first,
  so weak fairness of the tasks suffices only because a batch has finitely many of them.
  A request ends by `request_timeout`, an acquire by `AcquireTerminates`, a backoff by its timer.
* `DownloadBatch!DeadlineSpec`: fairness for the collector and the deadline alone.
* `Transport!FairSpec`: weak fairness for the exchange with the server and for the loop around
  it. The server answers or breaks off, a sleep ends, an acquire ends (`AcquireTerminates`);
  `request_timeout` may never fire.
* `PythonCalls!FairSpec`: strong fairness for taking the interpreter's lock, for passing a cell and
  for attaching again: each is enabled only now and then while others use it, and both the
  interpreter and the operating system let a waiter through in the end. Batches may run for
  ever.

## Proofs

All theorems hold for every value of the constants that the `ASSUME`s of the modules allow.

* **The pool** (`ConnectionPoolProofs`). `TypeCorrect`, `CheckoutExclusive`,
  `OpenersAlwaysCounted` and `LimitKept` are conjuncts of one inductive invariant
  (`Invariance`). None is inductive alone. That a late return hits no new slot needs that the
  entry is not removed while a task holds one of its HTTP/1.1 connections, which needs that
  the slot of each handle is in the entry, empty; that an opening finds its entry needs that
  `opening_count` is at least the number of the tasks that open, not equal to it: dropped tasks
  leave it too high. Ids are below `next_id` and name one connection each. The limit needs no
  more than the counts.
* **Waiting for a connection** (`ConnectionPoolWaits`). These say what is true where the runs
  `pool_mispinned` and `pool_aborted` refute the general claims, so each has a hypothesis.
  `NothingLost`: no task is dropped (`~Cancellation`: there is no `batch_timeout`); then
  `CheckedOutMeansHeld` is inductive on top of the invariant of the pool. `ExistingReturned`:
  an entry is pinned to the protocol of its connections (`OneProtocol`: every host speaks HTTP/2, or
  HTTP/1.1 with one connection per host, the default, where the only opener is the first one and
  pins the entry). It needs that the ids of a `Vec` ascend and that a pinned protocol fits each
  connection, and holds with dropped tasks as well. `OnlyBusyBlocks` takes both hypotheses: the
  connections that a waiter finds are mapped one to one to the tasks that hold or open them, so
  there are as many of those as the limit. `WakeupNotLost` takes one connection per host and no
  dropped task. `KeyStep` says first that a step touches the entry of its own host alone; the
  rest is what a hand-back, a removal and a failed opening leave in the `Notify` (`WakeupStep`), that a
  task begins to wait only where nothing is to be had (`WaitsForNothing`), and that only an opener that
  removes its entry orphans a waiter (`OrphanedByOpener`).
* **The refinement** (`ConnectionPoolRefinement`). `Implements`: every step of the pool is a
  step of `ConnectionLease` or leaves it alone, under the mapping of idle slots and handles at
  the end of `ConnectionPool`. `LeaseSafe` is the abstract module's own invariant.
* **The DNS cache** (`DnsCacheProofs`). `FreshAlways` and `TypeCorrect`. The invariant relates the expiry of an
  entry to the moment its content was seen, and the age of a lookup to `MaxLookup`.
* **The transport** (`TransportProofs`). `RedirectsBounded` assumes that `max_redirects` is below
  `MaxU8` or that the build checks overflow; TLC finds the bound exceeded when neither holds.
  The invariant is that hops and what is left of the budget never exceed `max_redirects`, over
  both legs. `NothingLeftUnread` has no hypothesis: each outcome that leaves a response half read is
  one that `finish_connection` treats as dead. That a connection whose peer is gone is put back is
  what TLC finds for `ReturnedClean`. `StaleNeverFatal` has no hypothesis either; its invariant is that the
  failed attempts and the dead connections left in the pool are no more than have died, as long as
  nothing else has failed: each failed attempt has used up one.
  `TransportTyped` has no hypothesis: that a counter stays within its width needs that the
  redirects never exceed the budget while a body is drained, or that the increment wraps.
  `DelaysDouble` holds for every number of retries and every width of the arithmetic, if
  `base_delay` fits that width, since `as_millis() as u64` (`retry.rs:26`) cuts it otherwise. Powers
  of two would need induction; `Powers` gets their type and order from the number of subsets of
  a set, for which the library has a theorem.
* **The calls from Python** (`PythonCallsProofs`). `FirstWins`, `WarnedAlways` and `SettingsOfOneCall`. The
  first needs that one thread at a time is inside the closure of a cell, and that the cell is empty
  then; the third that with a global lock at most one thread is between the conversion and
  `py.detach`, so that no call comes between the two cells. `CallsTyped` is a part of the first one's
  invariant.
* **The batch** (`DownloadBatchProofs`), for any URLs, hosts, limits and faults. The invariant `Sound`
  says that tasks run only while the batch collects, that each belongs to a URL of the input, and
  that one which waits for a host permit finds the semaphore of its host. `OneStep` says once for
  each step of a download what it does with its permits, its counts and its write (`StepOf`);
  everything else rests on that. `PermitsReturned` counts the holders of a permit, who are finitely
  many because the input is a list, while the set of all URLs may be infinite. `RetriesWithin` keeps
  the count of each retry loop at the attempts of that loop. `CapKept` assumes that no redirect leads to
  another host: TLC finds the property violated where such redirects are followed. That the retries are
  reported is proved of nothing: without redirects and deadlines the counter that is reported is the one
  that counts, and with either TLC finds it wrong.
* **The promise of a batch** (`DownloadBatchProofs`, "The promise"). `Implements`: `DownloadBatch`
  implements `BatchPromise`, with no hypothesis. Each step is shown to be a `Settle`, a `Store`, one of the
  answers or a stutter, stated in the terms of the batch (`Implemented`). It needs that no write
  comes before that of the image, so that a task that succeeds has stored it (`AllTraced`); that
  while the batch collects no URL of the input is without a task (`AllSpawned`), or a batch without a
  deadline could end with a URL that nobody decided; and, from `WellNamed`, that what is in the map is a
  joined task's result for its own URL.
* **The files of a batch** (`DownloadBatchProofs`, from "The names of the files" on). `FoundOnDisk`:
  whatever the strategy and with a deadline or without, every success names a file with its image,
  if the files of the batch have names of their own (`NamesApart`, a predicate of the input: the
  runs that refute the property are those in which it is false). Two invariants carry it. `WellNamed`
  says that each write goes to the name of its URL, that a task ends well only after its write did,
  and that the results are those of the tasks in the order of the input. `AllStored` says that with names apart
  the file holds what its own task wrote last, also when a dropped task's thread is still
  writing, and that no such thread is left once the result is a success. `NumberedOnDisk` shows that
  `Sequential` always keeps names apart, so nothing is assumed there: it rests on the first position of
  a URL in the list, which well-foundedness of the numbers gives. `HashedOnDisk` shows the same for
  `ContentHash` where different URLs serve different images. `QuietWithoutDeadline` has the
  invariant that a task waits for each of its writes. `NamesWithin` assumes that the parts of a name that
  are no segment leave room (`ShortParts`: a hash has 32 digits, an extension taken from a URL at
  most 10 characters before it is lowered, a detected one 4) and that an extension longer than the limit does not occur or
  panics; under `Sequential` also that the position has at most 32 digits (`NumbersFit`), since what
  the recursive `digits` yields is beyond the prover. TLC finds these hypotheses true in the
  instances of the runs that pass.

Every invariant, action property and refinement of a passing run is stated by one of these theorems.
Only model-checked: all liveness (`AcquireTerminates`, `BatchReturns`, `DownloadEnds`,
`CallsProceed`), which is beyond the prover; and `NamesBounded` for positions of more than 32
digits. Neither proved nor checked: `ReturnsExistingIfAvailable` and `BlocksOnlyWhenBusy` for a host
that negotiates HTTP/2 at one time and HTTP/1.1 at another. Whether names are apart under `UrlBased`
and `FileHeader` is a matter of the URLs, and an assumption of `FoundOnDisk`.

## Not modelled

TLS and HTTP themselves, the bytes of requests and headers, the wording of errors, logging,
`tls.rs`; the `DownloadResult` objects of the Python bindings, which are copies, and the command line; build files,
scripts, benchmarks and examples. Ports and schemes of a redirect. A sidecar never has the name of an
image in the model, though under `UrlBased` the sidecar of `a.jpg` and the image of a URL that ends in
`a.jpg.json` share one (`metadata.rs:27`).

## Plan

1. Statistics of the batch summary.
2. `Downloads`: several batches over one pool, composing `DownloadBatch` with `ConnectionPool` and
   `PythonCalls`: what a deadline of one batch does to the next, and the caps, which are per batch,
   when two threads of Python run a batch each: "Total in-flight requests"
   (`examples/large_batch.py:16`).
