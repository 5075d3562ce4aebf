----------------------------- MODULE PythonCalls -----------------------------
(***************************************************************************)
(* The calls of download_images and _download_images_plaintext that the    *)
(* threads of one Python process make (imgdl-py: lib.rs, config.rs,        *)
(* runtime.rs).  They share the OnceLock cells of runtime.rs, which the    *)
(* first call fills for all later ones, and the interpreter's lock.        *)
(*                                                                         *)
(* A cell is shown as the Config of the call that filled it: a runtime has *)
(* its runtime_threads, a downloader all the rest.  A batch is one step    *)
(* that may never come (DownloadBatch is about its inside).                *)
(***************************************************************************)
EXTENDS Integers

CONSTANTS
    Threads,       \* of Python
    Arguments,     \* what Config(...) is called with
    MAX_PERMITS,   \* of a semaphore of tokio
    None

Modes == {"tls", "plain"}   \* download_images, _download_images_plaintext

-----------------------------------------------------------------------------
(* config.rs *)

VALID_NAMING_STRATEGIES == {"content_hash", "url_based", "sequential", "file_header"}

\* The three timeouts, as one: a float may be a NaN or more than a Duration holds.
Timeouts == {"representable", "negative", "unrepresentable"}

\* Config::new raises a ValueError for the others.
Accepted(a) ==
    /\ a.naming_strategy \in VALID_NAMING_STRATEGIES
    /\ a.timeouts # "negative"

Defaults == [naming_strategy |-> "url_based", timeouts |-> "representable",
             max_concurrent |-> 200, runtime_threads |-> 0]

Configs == {a \in Arguments : Accepted(a)} \cup {Defaults}

\* config=None
Unresolved(c) == c   \* a mistake: None is passed on
Resolved(c) == IF c = None THEN Defaults ELSE c

\* python_config_to_core: Duration::from_secs_f64 and unreachable! panic.
Convertible(c) ==
    /\ c.naming_strategy \in VALID_NAMING_STRATEGIES
    /\ c.timeouts = "representable"

ASSUME ArgumentsAssumption ==
    Arguments \subseteq [naming_strategy : STRING, timeouts : Timeouts,
                         max_concurrent : Nat, runtime_threads : Nat]
ASSUME NoneAssumption == None \notin Configs \cup Threads
ASSUME PermitsAssumption == MAX_PERMITS \in Nat

-----------------------------------------------------------------------------

VARIABLES
    gil_enabled,     \* whether this interpreter has a global lock
    attached,        \* the threads that run Python code or hold py
    pc,              \* where the call of a thread is
    mode, config,    \* which function was called, and with which Config
    RUNTIME_STATE,   \* None, or the Config of the call that built the runtime
    DOWNLOADER,      \* the same for DOWNLOADER and PLAIN_DOWNLOADER
    warned,          \* whether the call logged the warning of get_runtime
    outcome          \* what the last call of a thread ended with

vars == <<gil_enabled, attached, pc, mode, config, RUNTIME_STATE, DOWNLOADER, warned, outcome>>

Outcomes == {"none", "results", "ValueError", "PanicException"}

TypeOK ==
    /\ gil_enabled \in BOOLEAN
    /\ attached \subseteq Threads
    /\ pc \in [Threads -> {"idle", "calling", "runtime", "building", "downloader",
                           "creating", "batch", "returning"}]
    /\ mode \in [Threads -> Modes]
    /\ config \in [Threads -> Configs]
    /\ RUNTIME_STATE \in Configs \cup {None}
    /\ DOWNLOADER \in [Modes -> Configs \cup {None}]
    /\ warned \in [Threads -> BOOLEAN]
    /\ outcome \in [Threads -> Outcomes]

Init ==
    /\ gil_enabled \in BOOLEAN
    /\ attached = {}
    /\ pc = [t \in Threads |-> "idle"]
    /\ mode = [t \in Threads |-> "tls"]
    /\ config = [t \in Threads |-> Defaults]
    /\ RUNTIME_STATE = None
    /\ DOWNLOADER = [m \in Modes |-> None]
    /\ warned = [t \in Threads |-> FALSE]
    /\ outcome = [t \in Threads |-> "none"]

\* With a global lock one thread is attached at a time.
MayAttach == gil_enabled => attached = {}

\* Between the conversion and py.detach nothing releases the lock.
DetachedEarly(t) == attached \ {t}   \* a mistake: get_runtime under py.detach
StaysAttached(t) == attached

GoTo(t, place) == pc' = [pc EXCEPT ![t] = place]

EndWith(t, o) == GoTo(t, "idle") /\ outcome' = [outcome EXCEPT ![t] = o]

-----------------------------------------------------------------------------
(* download_images *)

\* A thread calls one of the functions and waits for the lock.
Call(t, m, c) ==
    /\ pc[t] = "idle"
    /\ GoTo(t, "calling")
    /\ mode' = [mode EXCEPT ![t] = m]
    /\ config' = [config EXCEPT ![t] = Resolved(c)]
    /\ warned' = [warned EXCEPT ![t] = FALSE]
    /\ outcome' = [outcome EXCEPT ![t] = "none"]
    /\ UNCHANGED <<gil_enabled, attached, RUNTIME_STATE, DOWNLOADER>>

Rejected(t) ==
    /\ pc[t] = "calling"
    /\ MayAttach
    /\ \/ EndWith(t, "ValueError")   \* urls is empty
       \/ ~ Convertible(config[t]) /\ EndWith(t, "PanicException")
    /\ UNCHANGED <<gil_enabled, attached, mode, config, RUNTIME_STATE, DOWNLOADER, warned>>

Converted(t) ==
    /\ pc[t] = "calling"
    /\ MayAttach
    /\ Convertible(config[t])
    /\ GoTo(t, "runtime")
    /\ attached' = attached \cup {t}
    /\ UNCHANGED <<gil_enabled, mode, config, RUNTIME_STATE, DOWNLOADER, warned, outcome>>

-----------------------------------------------------------------------------
(* get_runtime *)

\* OnceLock::get_or_init: one thread at a time runs the closure, and the others
\* block until the cell is set or the closure has panicked.
CheckThenSet(cell, place, ts) == cell = None   \* a mistake: not a OnceLock
MayInitialize(cell, place, ts) == cell = None /\ \A u \in ts : pc[u] # place

DiffersUnlessDefault(state, t) ==   \* a mistake: 0 taken as "any number"
    /\ config[t].runtime_threads # 0
    /\ state.runtime_threads # config[t].runtime_threads
Differs(state, t) == state.runtime_threads # config[t].runtime_threads

GetRuntime(t, state) ==
    /\ GoTo(t, "downloader")
    /\ warned' = [warned EXCEPT ![t] = Differs(state, t)]
    /\ attached' = StaysAttached(t)
    /\ UNCHANGED <<gil_enabled, mode, config, DOWNLOADER, outcome>>

RuntimeExists(t) ==
    /\ pc[t] = "runtime"
    /\ RUNTIME_STATE # None
    /\ GetRuntime(t, RUNTIME_STATE)
    /\ UNCHANGED RUNTIME_STATE

BuildRuntime(t) ==
    /\ pc[t] = "runtime"
    /\ MayInitialize(RUNTIME_STATE, "building", Threads)
    /\ GoTo(t, "building")
    /\ UNCHANGED <<gil_enabled, attached, mode, config, RUNTIME_STATE, DOWNLOADER, warned, outcome>>

RuntimeBuilt(t) ==
    /\ pc[t] = "building"
    /\ RUNTIME_STATE' = config[t]
    /\ GetRuntime(t, config[t])

\* The operating system has no more threads: the cell stays empty.
RuntimeFails(t) ==
    /\ pc[t] = "building"
    /\ EndWith(t, "PanicException")
    /\ attached' = attached \ {t}
    /\ UNCHANGED <<gil_enabled, mode, config, RUNTIME_STATE, DOWNLOADER, warned>>

-----------------------------------------------------------------------------
(* get_downloader and get_plain_downloader, then py.detach and block_on *)

DetachedNever(t) == attached   \* a mistake: block_on without py.detach
Detached(t) == attached \ {t}

StartBatch(t) ==
    /\ GoTo(t, "batch")
    /\ attached' = Detached(t)
    /\ UNCHANGED <<gil_enabled, mode, config, RUNTIME_STATE, warned, outcome>>

SameMode(t) == {u \in Threads : mode[u] = mode[t]}

DownloaderExists(t) ==
    /\ pc[t] = "downloader"
    /\ DOWNLOADER[mode[t]] # None
    /\ StartBatch(t)
    /\ UNCHANGED DOWNLOADER

CreateDownloader(t) ==
    /\ pc[t] = "downloader"
    /\ MayInitialize(DOWNLOADER[mode[t]], "creating", SameMode(t))
    /\ GoTo(t, "creating")
    /\ UNCHANGED <<gil_enabled, attached, mode, config, RUNTIME_STATE, DOWNLOADER, warned, outcome>>

DownloaderCreated(t) ==
    /\ pc[t] = "creating"
    /\ DOWNLOADER' = [DOWNLOADER EXCEPT ![mode[t]] = config[t]]
    /\ StartBatch(t)

\* Semaphore::new panics when the downloader's limit is more than a semaphore holds,
\* unless the output directory cannot be created, which the results then say.
BatchEnds(t) ==
    /\ pc[t] = "batch"
    /\ \E o \in {"results", "PanicException"} :
         /\ o = "PanicException" => DOWNLOADER[mode[t]].max_concurrent > MAX_PERMITS
         /\ outcome' = [outcome EXCEPT ![t] = o]
    /\ GoTo(t, "returning")
    /\ UNCHANGED <<gil_enabled, attached, mode, config, RUNTIME_STATE, DOWNLOADER, warned>>

\* The thread attaches again, for the conversion of the results or the panic.
Return(t) ==
    /\ pc[t] = "returning"
    /\ t \in attached \/ MayAttach
    /\ GoTo(t, "idle")
    /\ attached' = attached \ {t}
    /\ UNCHANGED <<gil_enabled, mode, config, RUNTIME_STATE, DOWNLOADER, warned, outcome>>

Enter(t) == Rejected(t) \/ Converted(t)
Fill(t) ==
    \/ RuntimeExists(t) \/ BuildRuntime(t) \/ RuntimeBuilt(t) \/ RuntimeFails(t)
    \/ DownloaderExists(t) \/ CreateDownloader(t) \/ DownloaderCreated(t)

Next == \E t \in Threads :
    \/ \E m \in Modes, c \in Configs \cup {None} : Call(t, m, c)
    \/ Enter(t) \/ Fill(t) \/ BatchEnds(t) \/ Return(t)

Spec == Init /\ [][Next]_vars

\* Whoever waits for the interpreter's lock or for a cell gets it in the end; that a
\* batch ends is not assumed.
FairSpec == Spec /\ \A t \in Threads :
    SF_vars(Enter(t)) /\ SF_vars(Fill(t)) /\ SF_vars(Return(t))

-----------------------------------------------------------------------------
(* Properties *)

\* "The first call initializes the runtime", "Subsequent calls return the existing
\* Downloader" (runtime.rs:27-28, 54): a cell that is set never changes, whichever
\* threads meet in get_or_init, so all batches of a function share one downloader.
FirstCallWins ==
    [][/\ RUNTIME_STATE # None => RUNTIME_STATE' = RUNTIME_STATE
       /\ \A m \in Modes : DOWNLOADER[m] # None => DOWNLOADER'[m] = DOWNLOADER[m]]_vars

\* "Configure ONCE, on the first call in the process" (examples/large_batch.py:12):
\* with the interpreter's lock the runtime and a downloader are those of one call.
SettingsTogether ==
    gil_enabled /\ attached = {} /\ RUNTIME_STATE # None =>
        \E m \in Modes : DOWNLOADER[m] = RUNTIME_STATE

\* "If the requested thread count differs from the initial one, a warning is logged"
\* (runtime.rs:28-29), also for a call that waited while another one built.
MismatchWarned ==
    \A t \in Threads :
        pc[t] = "batch" /\ config[t].runtime_threads # RUNTIME_STATE.runtime_threads =>
            warned[t]

\* A call starts its batch or ends, even if the batches of other threads never end:
\* "Execute with GIL released" (lib.rs:65).  One whose batch ended returns.
CallsProceed ==
    \A t \in Threads : pc[t] \notin {"idle", "batch"} ~> pc[t] \in {"idle", "batch"}
=============================================================================
