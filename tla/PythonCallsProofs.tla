-------------------------- MODULE PythonCallsProofs --------------------------
(***************************************************************************)
(* What the cells of runtime.rs keep for any threads and any Configs: they *)
(* are filled once, get_runtime compares with what is in the cell, and the *)
(* interpreter's lock makes the runtime and a downloader those of one call.*)
(***************************************************************************)
EXTENDS PythonCalls, TLAPS

\* Places at which the call has a runtime and is still to start its batch.
HasRuntime == {"downloader", "creating"}
Inside == {"runtime", "building"} \cup HasRuntime

\* A thread that runs the closure of a cell is the only one, and the cell is empty.
OnceBuilding ==
    \A t \in Threads : pc[t] = "building" =>
        RUNTIME_STATE = None /\ \A u \in Threads : pc[u] = "building" => u = t

OnceCreating ==
    \A t \in Threads : pc[t] = "creating" =>
        /\ DOWNLOADER[mode[t]] = None
        /\ \A u \in Threads : pc[u] = "creating" /\ mode[u] = mode[t] => u = t

\* A downloader is created by a call that has its runtime.
RuntimeFirst ==
    /\ \A t \in Threads : pc[t] \in HasRuntime \cup {"batch"} => RUNTIME_STATE # None
    /\ \A m \in Modes : DOWNLOADER[m] # None => RUNTIME_STATE # None

Filled == TypeOK /\ OnceBuilding /\ OnceCreating /\ RuntimeFirst

LEMMA ConfigsAreNotNone == \A c \in Configs : c # None
  BY NoneAssumption

LEMMA ResolvedIsConfig == \A c \in Configs \cup {None} : Resolved(c) \in Configs
  BY DEF Resolved, Configs

\* Every step keeps the types, and that a cell is filled by one thread at a time.
LEMMA FilledStep == Filled /\ [Next]_vars => Filled'
  <1> SUFFICES ASSUME Filled, [Next]_vars PROVE Filled'
    OBVIOUS
  <1>t. TypeOK
    BY DEF Filled
  <1>1. ASSUME NEW t \in Threads, NEW m \in Modes, NEW c \in Configs \cup {None},
               Call(t, m, c)
        PROVE  Filled'
    <2>1. Resolved(c) \in Configs
      BY ResolvedIsConfig
    <2>2. TypeOK'
      BY <1>t, <1>1, <2>1 DEF TypeOK, Call, GoTo, Outcomes
    <2>3. \A u \in Threads : pc'[u] = IF u = t THEN "calling" ELSE pc[u]
      BY <1>t, <1>1 DEF TypeOK, Call, GoTo
    <2>4. \A u \in Threads \ {t} : mode'[u] = mode[u]
      BY <1>t, <1>1 DEF TypeOK, Call
    <2>5. OnceBuilding' /\ OnceCreating' /\ RuntimeFirst'
      BY <1>1, <2>3, <2>4
      DEF Filled, OnceBuilding, OnceCreating, RuntimeFirst, HasRuntime, Call
    <2> QED
      BY <2>2, <2>5 DEF Filled
  <1>2. ASSUME NEW t \in Threads, Rejected(t) PROVE Filled'
    <2>1. TypeOK'
      BY <1>t, <1>2 DEF TypeOK, Rejected, EndWith, GoTo, Outcomes
    <2>2. \A u \in Threads : pc'[u] = IF u = t THEN "idle" ELSE pc[u]
      BY <1>t, <1>2 DEF TypeOK, Rejected, EndWith, GoTo
    <2>3. OnceBuilding' /\ OnceCreating' /\ RuntimeFirst'
      BY <1>2, <2>2
      DEF Filled, OnceBuilding, OnceCreating, RuntimeFirst, HasRuntime, Rejected
    <2> QED
      BY <2>1, <2>3 DEF Filled
  <1>3. ASSUME NEW t \in Threads, Converted(t) PROVE Filled'
    <2>1. TypeOK'
      BY <1>t, <1>3 DEF TypeOK, Converted, GoTo
    <2>2. \A u \in Threads : pc'[u] = IF u = t THEN "runtime" ELSE pc[u]
      BY <1>t, <1>3 DEF TypeOK, Converted, GoTo
    <2>3. OnceBuilding' /\ OnceCreating' /\ RuntimeFirst'
      BY <1>3, <2>2
      DEF Filled, OnceBuilding, OnceCreating, RuntimeFirst, HasRuntime, Converted
    <2> QED
      BY <2>1, <2>3 DEF Filled
  <1>4. ASSUME NEW t \in Threads, RuntimeExists(t) PROVE Filled'
    <2>1. TypeOK'
      BY <1>t, <1>4 DEF TypeOK, RuntimeExists, GetRuntime, GoTo, StaysAttached, Differs
    <2>2. \A u \in Threads : pc'[u] = IF u = t THEN "downloader" ELSE pc[u]
      BY <1>t, <1>4 DEF TypeOK, RuntimeExists, GetRuntime, GoTo
    <2>3. OnceBuilding' /\ OnceCreating' /\ RuntimeFirst'
      BY <1>4, <2>2 DEF Filled, OnceBuilding, OnceCreating, RuntimeFirst, HasRuntime,
                        RuntimeExists, GetRuntime
    <2> QED
      BY <2>1, <2>3 DEF Filled
  <1>5. ASSUME NEW t \in Threads, BuildRuntime(t) PROVE Filled'
    <2>1. TypeOK'
      BY <1>t, <1>5 DEF TypeOK, BuildRuntime, GoTo
    <2>2. \A u \in Threads : pc'[u] = IF u = t THEN "building" ELSE pc[u]
      BY <1>t, <1>5 DEF TypeOK, BuildRuntime, GoTo
    <2>3. OnceBuilding' /\ OnceCreating' /\ RuntimeFirst'
      BY <1>5, <2>2 DEF Filled, OnceBuilding, OnceCreating, RuntimeFirst, HasRuntime,
                        BuildRuntime, MayInitialize
    <2> QED
      BY <2>1, <2>3 DEF Filled
  <1>6. ASSUME NEW t \in Threads, RuntimeBuilt(t) PROVE Filled'
    <2>1. TypeOK'
      BY <1>t, <1>6 DEF TypeOK, RuntimeBuilt, GetRuntime, GoTo, StaysAttached, Differs
    <2>2. \A u \in Threads : pc'[u] = IF u = t THEN "downloader" ELSE pc[u]
      BY <1>t, <1>6 DEF TypeOK, RuntimeBuilt, GetRuntime, GoTo
    <2>3. RUNTIME_STATE' # None
      BY <1>t, <1>6, ConfigsAreNotNone DEF TypeOK, RuntimeBuilt
    <2>4. OnceBuilding' /\ OnceCreating' /\ RuntimeFirst'
      BY <1>6, <2>2, <2>3 DEF Filled, OnceBuilding, OnceCreating, RuntimeFirst, HasRuntime,
                              RuntimeBuilt, GetRuntime
    <2> QED
      BY <2>1, <2>4 DEF Filled
  <1>7. ASSUME NEW t \in Threads, RuntimeFails(t) PROVE Filled'
    <2>1. TypeOK'
      BY <1>t, <1>7 DEF TypeOK, RuntimeFails, EndWith, GoTo, Outcomes
    <2>2. \A u \in Threads : pc'[u] = IF u = t THEN "idle" ELSE pc[u]
      BY <1>t, <1>7 DEF TypeOK, RuntimeFails, EndWith, GoTo
    <2>3. OnceBuilding' /\ OnceCreating' /\ RuntimeFirst'
      BY <1>7, <2>2
      DEF Filled, OnceBuilding, OnceCreating, RuntimeFirst, HasRuntime, RuntimeFails
    <2> QED
      BY <2>1, <2>3 DEF Filled
  <1>8. ASSUME NEW t \in Threads, DownloaderExists(t) PROVE Filled'
    <2>1. TypeOK'
      BY <1>t, <1>8 DEF TypeOK, DownloaderExists, StartBatch, GoTo, Detached
    <2>2. \A u \in Threads : pc'[u] = IF u = t THEN "batch" ELSE pc[u]
      BY <1>t, <1>8 DEF TypeOK, DownloaderExists, StartBatch, GoTo
    <2>3. OnceBuilding' /\ OnceCreating' /\ RuntimeFirst'
      BY <1>8, <2>2 DEF Filled, OnceBuilding, OnceCreating, RuntimeFirst, HasRuntime,
                        DownloaderExists, StartBatch
    <2> QED
      BY <2>1, <2>3 DEF Filled
  <1>9. ASSUME NEW t \in Threads, CreateDownloader(t) PROVE Filled'
    <2>1. TypeOK'
      BY <1>t, <1>9 DEF TypeOK, CreateDownloader, GoTo
    <2>2. \A u \in Threads : pc'[u] = IF u = t THEN "creating" ELSE pc[u]
      BY <1>t, <1>9 DEF TypeOK, CreateDownloader, GoTo
    <2>3. OnceBuilding' /\ OnceCreating' /\ RuntimeFirst'
      BY <1>9, <2>2 DEF Filled, OnceBuilding, OnceCreating, RuntimeFirst, HasRuntime,
                        CreateDownloader, MayInitialize, SameMode
    <2> QED
      BY <2>1, <2>3 DEF Filled
  <1>10. ASSUME NEW t \in Threads, DownloaderCreated(t) PROVE Filled'
    <2>1. TypeOK'
      BY <1>t, <1>10 DEF TypeOK, DownloaderCreated, StartBatch, GoTo, Detached
    <2>2. \A u \in Threads : pc'[u] = IF u = t THEN "batch" ELSE pc[u]
      BY <1>t, <1>10 DEF TypeOK, DownloaderCreated, StartBatch, GoTo
    <2>3. \A m \in Modes : m # mode[t] => DOWNLOADER'[m] = DOWNLOADER[m]
      BY <1>t, <1>10 DEF TypeOK, DownloaderCreated
    <2>4. RUNTIME_STATE # None
      BY <1>10 DEF Filled, RuntimeFirst, HasRuntime, DownloaderCreated
    <2>5. OnceBuilding' /\ RuntimeFirst'
      BY <1>10, <2>2, <2>4 DEF Filled, OnceBuilding, RuntimeFirst, HasRuntime,
                               DownloaderCreated, StartBatch
    <2>6. OnceCreating'
      BY <1>t, <1>10, <2>2, <2>3
      DEF Filled, TypeOK, OnceCreating, DownloaderCreated, StartBatch
    <2> QED
      BY <2>1, <2>5, <2>6 DEF Filled
  <1>11. ASSUME NEW t \in Threads, BatchEnds(t) \/ Return(t) PROVE Filled'
    <2>1. TypeOK'
      BY <1>t, <1>11 DEF TypeOK, BatchEnds, Return, GoTo, Outcomes
    <2>2. \A u \in Threads : u # t => pc'[u] = pc[u]
      BY <1>t, <1>11 DEF TypeOK, BatchEnds, Return, GoTo
    <2>3. pc'[t] \in {"returning", "idle"}
      BY <1>t, <1>11 DEF TypeOK, BatchEnds, Return, GoTo
    <2>4. OnceBuilding' /\ OnceCreating' /\ RuntimeFirst'
      BY <1>11, <2>2, <2>3 DEF Filled, OnceBuilding, OnceCreating, RuntimeFirst,
                               HasRuntime, BatchEnds, Return
    <2> QED
      BY <2>1, <2>4 DEF Filled
  <1>12. CASE UNCHANGED vars
    BY <1>12 DEF Filled, TypeOK, OnceBuilding, OnceCreating, RuntimeFirst, vars
  <1> QED
    BY <1>1, <1>2, <1>3, <1>4, <1>5, <1>6, <1>7, <1>8, <1>9, <1>10, <1>11, <1>12
    DEF Next, Enter, Fill

LEMMA FilledAlways == Spec => []Filled
  <1>1. Init => Filled
    BY DEF Init, Filled, TypeOK, OnceBuilding, OnceCreating, RuntimeFirst, HasRuntime,
           Modes, Configs, Outcomes
  <1> QED
    BY <1>1, FilledStep, PTL DEF Spec

\* The runtime and the downloaders of a process are those of the first calls for ever,
\* although get_or_init is entered by several threads at once.
THEOREM FirstWins == Spec => FirstCallWins
  <1>1. Filled /\ [Next]_vars =>
          [/\ RUNTIME_STATE # None => RUNTIME_STATE' = RUNTIME_STATE
           /\ \A m \in Modes : DOWNLOADER[m] # None => DOWNLOADER'[m] = DOWNLOADER[m]]_vars
    <2> SUFFICES ASSUME Filled, Next
                 PROVE  /\ RUNTIME_STATE # None => RUNTIME_STATE' = RUNTIME_STATE
                        /\ \A m \in Modes : DOWNLOADER[m] # None => DOWNLOADER'[m] = DOWNLOADER[m]
      OBVIOUS
    <2>1. PICK t \in Threads :
            \/ \E m \in Modes, c \in Configs \cup {None} : Call(t, m, c)
            \/ Enter(t) \/ Fill(t) \/ BatchEnds(t) \/ Return(t)
      BY DEF Next
    <2>2. CASE RuntimeBuilt(t)
      BY <2>2 DEF RuntimeBuilt, GetRuntime, Filled, OnceBuilding
    <2>3. CASE DownloaderCreated(t)
      <3>1. DOWNLOADER \in [Modes -> Configs \cup {None}] /\ mode[t] \in Modes
        BY DEF Filled, TypeOK
      <3>2. DOWNLOADER[mode[t]] = None
        BY <2>3 DEF DownloaderCreated, Filled, OnceCreating
      <3> QED
        BY <2>3, <3>1, <3>2 DEF DownloaderCreated, StartBatch
    <2>4. CASE \/ \E m \in Modes, c \in Configs \cup {None} : Call(t, m, c)
               \/ Enter(t) \/ BatchEnds(t) \/ Return(t)
      BY <2>4 DEF Call, Enter, Rejected, Converted, BatchEnds, Return
    <2>5. CASE \/ RuntimeExists(t) \/ BuildRuntime(t) \/ RuntimeFails(t)
               \/ DownloaderExists(t) \/ CreateDownloader(t)
      BY <2>5 DEF RuntimeExists, GetRuntime, BuildRuntime, RuntimeFails,
                  DownloaderExists, StartBatch, CreateDownloader
    <2> QED
      BY <2>1, <2>2, <2>3, <2>4, <2>5 DEF Fill
  <1> QED
    BY <1>1, FilledAlways, PTL DEF Spec, FirstCallWins

-----------------------------------------------------------------------------
\* A call that has a runtime compared its own Config with what is in the cell.
Compared ==
    \A t \in Threads :
        pc[t] \in HasRuntime \cup {"batch"}
            /\ config[t].runtime_threads # RUNTIME_STATE.runtime_threads
        => warned[t]

LEMMA ComparedStep == Filled /\ Compared /\ [Next]_vars => Compared'
  <1> SUFFICES ASSUME Filled, Compared, [Next]_vars PROVE Compared'
    OBVIOUS
  <1>t. TypeOK
    BY DEF Filled
  <1>1. ASSUME NEW t \in Threads,
               \/ \E m \in Modes, c \in Configs \cup {None} : Call(t, m, c)
               \/ Rejected(t) \/ Converted(t) \/ RuntimeFails(t)
               \/ BatchEnds(t) \/ Return(t)
        PROVE  Compared'
    <2>1. RUNTIME_STATE' = RUNTIME_STATE
      BY <1>1 DEF Call, Rejected, Converted, RuntimeFails, BatchEnds, Return
    <2>2. pc'[t] \in {"calling", "idle", "runtime", "returning"}
      BY <1>t, <1>1 DEF TypeOK, Call, Rejected, Converted, RuntimeFails, BatchEnds, Return,
                        EndWith, GoTo
    <2>3. \A u \in Threads : u # t =>
            pc'[u] = pc[u] /\ config'[u] = config[u] /\ warned'[u] = warned[u]
      BY <1>t, <1>1 DEF TypeOK, Call, Rejected, Converted, RuntimeFails, BatchEnds, Return,
                        EndWith, GoTo
    <2> QED
      BY <2>1, <2>2, <2>3 DEF Compared, HasRuntime
  <1>2. ASSUME NEW t \in Threads, RuntimeExists(t) PROVE Compared'
    <2>1. RUNTIME_STATE' = RUNTIME_STATE /\ config' = config
      BY <1>2 DEF RuntimeExists, GetRuntime
    <2>2. warned'[t] = (RUNTIME_STATE.runtime_threads # config[t].runtime_threads)
      BY <1>t, <1>2 DEF TypeOK, RuntimeExists, GetRuntime, Differs
    <2>3. \A u \in Threads : u # t => pc'[u] = pc[u] /\ warned'[u] = warned[u]
      BY <1>t, <1>2 DEF TypeOK, RuntimeExists, GetRuntime, GoTo
    <2> QED
      BY <2>1, <2>2, <2>3 DEF Compared
  <1>3. ASSUME NEW t \in Threads, RuntimeBuilt(t) PROVE Compared'
    <2>1. RUNTIME_STATE' = config[t] /\ config' = config /\ RUNTIME_STATE = None
      BY <1>3 DEF RuntimeBuilt, GetRuntime, Filled, OnceBuilding
    <2>2. \A u \in Threads : u # t => pc'[u] = pc[u]
      BY <1>t, <1>3 DEF TypeOK, RuntimeBuilt, GetRuntime, GoTo
    <2>3. \A u \in Threads : u # t => pc'[u] \notin HasRuntime \cup {"batch"}
      BY <2>1, <2>2 DEF Filled, RuntimeFirst
    <2> QED
      BY <2>1, <2>3 DEF Compared
  <1>4. ASSUME NEW t \in Threads,
               \/ BuildRuntime(t)
               \/ DownloaderExists(t) \/ CreateDownloader(t) \/ DownloaderCreated(t)
        PROVE  Compared'
    <2>1. RUNTIME_STATE' = RUNTIME_STATE /\ config' = config /\ warned' = warned
      BY <1>4 DEF BuildRuntime, DownloaderExists, CreateDownloader, DownloaderCreated, StartBatch
    <2>2. \A u \in Threads : u # t => pc'[u] = pc[u]
      BY <1>t, <1>4 DEF TypeOK, BuildRuntime, DownloaderExists, CreateDownloader,
                        DownloaderCreated, StartBatch, GoTo
    <2>3. pc'[t] = "building" \/ pc[t] \in HasRuntime
      BY <1>t, <1>4 DEF TypeOK, BuildRuntime, DownloaderExists, CreateDownloader,
                        DownloaderCreated, StartBatch, GoTo, HasRuntime
    <2> QED
      BY <2>1, <2>2, <2>3 DEF Compared, HasRuntime
  <1>5. CASE UNCHANGED vars
    BY <1>5 DEF Compared, vars
  <1> QED
    BY <1>1, <1>2, <1>3, <1>4, <1>5 DEF Next, Enter, Fill

\* A batch on a runtime of another size than its call asked for was announced by
\* get_runtime, whether the call found the runtime or waited for it.
THEOREM WarnedAlways == Spec => []MismatchWarned
  <1>1. Init => Compared
    BY DEF Init, Compared, HasRuntime
  <1>2. Compared => MismatchWarned
    BY DEF Compared, MismatchWarned
  <1> QED
    BY <1>1, <1>2, ComparedStep, FilledAlways, PTL DEF Spec

-----------------------------------------------------------------------------
\* With the interpreter's lock one thread at a time is between its conversion and
\* its batch.
OneInside ==
    /\ \A t \in Threads : pc[t] \in Inside => t \in attached
    /\ gil_enabled => \A t, u \in attached : t = u

\* The call that built the runtime is the next one to create a downloader.
BuilderCreates ==
    \E t \in Threads :
        /\ pc[t] \in HasRuntime
        /\ config[t] = RUNTIME_STATE
        /\ \A m \in Modes : DOWNLOADER[m] = None

Together ==
    /\ OneInside
    /\ gil_enabled /\ RUNTIME_STATE # None =>
         \/ \E m \in Modes : DOWNLOADER[m] = RUNTIME_STATE
         \/ BuilderCreates

LEMMA OneInsideStep == TypeOK /\ OneInside /\ [Next]_vars => OneInside'
  <1> SUFFICES ASSUME TypeOK, OneInside, [Next]_vars PROVE OneInside'
    OBVIOUS
  <1>1. ASSUME NEW t \in Threads, NEW m \in Modes, NEW c \in Configs \cup {None},
               Call(t, m, c)
        PROVE  OneInside'
    BY <1>1 DEF TypeOK, OneInside, Inside, HasRuntime, Call, GoTo
  <1>2. ASSUME NEW t \in Threads, Rejected(t) PROVE OneInside'
    BY <1>2 DEF TypeOK, OneInside, Inside, HasRuntime, Rejected, EndWith, GoTo
  <1>3. ASSUME NEW t \in Threads, Converted(t) PROVE OneInside'
    BY <1>3 DEF TypeOK, OneInside, Inside, HasRuntime, Converted, MayAttach, GoTo
  <1>4. ASSUME NEW t \in Threads, RuntimeExists(t) \/ RuntimeBuilt(t) PROVE OneInside'
    BY <1>4 DEF TypeOK, OneInside, Inside, HasRuntime, RuntimeExists, RuntimeBuilt,
                GetRuntime, StaysAttached, GoTo
  <1>5. ASSUME NEW t \in Threads, BuildRuntime(t) \/ CreateDownloader(t) PROVE OneInside'
    BY <1>5 DEF TypeOK, OneInside, Inside, HasRuntime, BuildRuntime, CreateDownloader, GoTo
  <1>6. ASSUME NEW t \in Threads, RuntimeFails(t) PROVE OneInside'
    BY <1>6 DEF TypeOK, OneInside, Inside, HasRuntime, RuntimeFails, EndWith, GoTo
  <1>7. ASSUME NEW t \in Threads, DownloaderExists(t) \/ DownloaderCreated(t) PROVE OneInside'
    BY <1>7 DEF TypeOK, OneInside, Inside, HasRuntime, DownloaderExists, DownloaderCreated,
                StartBatch, Detached, GoTo
  <1>8. ASSUME NEW t \in Threads, BatchEnds(t) \/ Return(t) PROVE OneInside'
    BY <1>8 DEF TypeOK, OneInside, Inside, HasRuntime, BatchEnds, Return, GoTo
  <1>9. CASE UNCHANGED vars
    BY <1>9 DEF OneInside, vars
  <1> QED
    BY <1>1, <1>2, <1>3, <1>4, <1>5, <1>6, <1>7, <1>8, <1>9 DEF Next, Enter, Fill

LEMMA TogetherStep == Filled /\ Together /\ [Next]_vars => Together'
  <1> SUFFICES ASSUME Filled, Together, [Next]_vars PROVE Together'
    OBVIOUS
  <1>t. TypeOK /\ OneInside /\ OneInside'
    BY OneInsideStep DEF Filled, Together
  <1> DEFINE Kept == gil_enabled /\ RUNTIME_STATE # None =>
                       \/ \E m \in Modes : DOWNLOADER[m] = RUNTIME_STATE
                       \/ BuilderCreates
  <1>1. ASSUME NEW t \in Threads,
               \/ \E m \in Modes, c \in Configs \cup {None} : Call(t, m, c)
               \/ Rejected(t) \/ Converted(t) \/ BuildRuntime(t) \/ RuntimeFails(t)
               \/ BatchEnds(t) \/ Return(t)
        PROVE  Kept'
    <2>1. UNCHANGED <<gil_enabled, RUNTIME_STATE, DOWNLOADER>>
      BY <1>1 DEF Call, Rejected, Converted, BuildRuntime, RuntimeFails, BatchEnds, Return
    <2>2. pc[t] \notin HasRuntime
      BY <1>1 DEF Call, Rejected, Converted, BuildRuntime, RuntimeFails, BatchEnds, Return,
                  HasRuntime
    <2>3. \A u \in Threads : u # t => pc'[u] = pc[u] /\ config'[u] = config[u]
      BY <1>t, <1>1 DEF TypeOK, Call, Rejected, Converted, BuildRuntime, RuntimeFails,
                        BatchEnds, Return, EndWith, GoTo
    <2> QED
      BY <2>1, <2>2, <2>3 DEF Together, BuilderCreates
  <1>2. ASSUME NEW t \in Threads, RuntimeExists(t) \/ CreateDownloader(t) PROVE Kept'
    <2>1. UNCHANGED <<gil_enabled, RUNTIME_STATE, DOWNLOADER, config>>
      BY <1>2 DEF RuntimeExists, GetRuntime, CreateDownloader
    <2>2. \A u \in Threads : pc'[u] = pc[u] \/ pc'[u] \in HasRuntime
      BY <1>t, <1>2 DEF TypeOK, RuntimeExists, GetRuntime, CreateDownloader, GoTo, HasRuntime
    <2> QED
      BY <2>1, <2>2 DEF Together, BuilderCreates
  <1>3. ASSUME NEW t \in Threads, RuntimeBuilt(t) PROVE Kept'
    <2>1. RUNTIME_STATE = None
      BY <1>3 DEF RuntimeBuilt, Filled, OnceBuilding
    <2>2. \A m \in Modes : DOWNLOADER[m] = None
      BY <2>1 DEF Filled, RuntimeFirst
    <2>3. pc'[t] \in HasRuntime /\ config'[t] = RUNTIME_STATE' /\ DOWNLOADER' = DOWNLOADER
      BY <1>t, <1>3 DEF TypeOK, RuntimeBuilt, GetRuntime, GoTo, HasRuntime
    <2> QED
      BY <2>2, <2>3 DEF BuilderCreates
  <1>4. ASSUME NEW t \in Threads, DownloaderExists(t) PROVE Kept'
    <2>1. UNCHANGED <<gil_enabled, RUNTIME_STATE, DOWNLOADER>>
      BY <1>4 DEF DownloaderExists, StartBatch
    <2>2. mode[t] \in Modes /\ DOWNLOADER[mode[t]] # None
      BY <1>t, <1>4 DEF TypeOK, DownloaderExists
    <2> QED
      BY <2>1, <2>2 DEF Together, BuilderCreates
  <1>5. ASSUME NEW t \in Threads, DownloaderCreated(t) PROVE Kept'
    <2>1. UNCHANGED <<gil_enabled, RUNTIME_STATE>>
      BY <1>5 DEF DownloaderCreated, StartBatch
    <2>2. /\ mode[t] \in Modes
          /\ DOWNLOADER \in [Modes -> Configs \cup {None}]
          /\ DOWNLOADER' = [DOWNLOADER EXCEPT ![mode[t]] = config[t]]
      BY <1>t, <1>5 DEF TypeOK, DownloaderCreated
    <2>3. DOWNLOADER[mode[t]] = None /\ RUNTIME_STATE # None
      BY <1>5 DEF DownloaderCreated, Filled, OnceCreating, RuntimeFirst, HasRuntime
    <2>4. ASSUME gil_enabled, NEW u \in Threads, pc[u] \in HasRuntime PROVE u = t
      BY <1>t, <1>5, <2>4 DEF OneInside, Inside, HasRuntime, DownloaderCreated
    <2>5. CASE gil_enabled /\ BuilderCreates
      <3>1. config[t] = RUNTIME_STATE
        BY <2>4, <2>5 DEF BuilderCreates
      <3>2. DOWNLOADER'[mode[t]] = RUNTIME_STATE'
        BY <2>1, <2>2, <3>1
      <3> QED
        BY <2>2, <3>2
    <2>6. CASE \E m \in Modes : DOWNLOADER[m] = RUNTIME_STATE
      <3>1. PICK m \in Modes : DOWNLOADER[m] = RUNTIME_STATE
        BY <2>6
      <3>2. DOWNLOADER'[m] = RUNTIME_STATE'
        BY <2>1, <2>2, <2>3, <3>1
      <3> QED
        BY <3>2
    <2> QED
      BY <2>1, <2>3, <2>5, <2>6 DEF Together
  <1>6. ASSUME UNCHANGED vars PROVE Kept'
    BY <1>6 DEF Together, BuilderCreates, vars
  <1>7. Kept'
    <2> HIDE DEF Kept
    <2> QED
      BY <1>1, <1>2, <1>3, <1>4, <1>5, <1>6 DEF Next, Enter, Fill
  <1> QED
    BY <1>t, <1>7 DEF Together

\* With the interpreter's lock the process keeps the runtime and a downloader of one
\* call, since nothing between get_runtime and get_downloader releases the lock.
THEOREM SettingsOfOneCall == Spec => []SettingsTogether
  <1>1. Init => Together
    BY DEF Init, Together, OneInside, Inside, HasRuntime
  <1>2. Together => SettingsTogether
    BY DEF Together, OneInside, BuilderCreates, Inside, SettingsTogether
  <1> QED
    BY <1>1, <1>2, TogetherStep, FilledAlways, PTL DEF Spec

\* The places of the calls, the two cells and what the calls end with keep their types:
\* a cell holds None or a Config that was passed to a call (runtime.rs:10, 49, 60).
THEOREM CallsTyped == Spec => []TypeOK
  <1>1. Filled => TypeOK
    BY DEF Filled
  <1> QED
    BY <1>1, FilledAlways, PTL
=============================================================================
