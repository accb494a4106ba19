# PinkHunkDB: models and proofs

PinkHunkDB is a desktop database client: a Go backend (`internal/`, `cmd/`)
bound to a React frontend (`frontend/`) by Wails. Every method bound to the
frontend runs in a goroutine of its own, so all state of the backend is shared
by concurrent calls. The modules here model the parts whose correctness depends
on how those goroutines interleave, check them with TLC on small instances, and
prove the most important invariants with TLAPS for every instance.

## The system

| Component | State | Operations | What is hard | Modelled by |
| --- | --- | --- | --- | --- |
| Connection cache (`internal/app/app.go`, `app_keepalive.go`) | `dbCache`, `connectFailures`, the loop's `stop`/`done` | `getDatabase`, forced ping, invalidate, release, test, keep-alive tick, `Shutdown` | pings and connects happen outside `App.mu`, entries change meanwhile | `ConnectionCache`, `InstancePool` |
| Managed SQL transactions (`methods_db_transaction.go`, `db/database.go`) | `sqlTransactions`, `runningQueries`, the executor's `done`/`closed`, the server's session | start, follow-up query, commit, rollback, cancel, drain at shutdown | everybody may end a transaction that somebody else is using | `SqlTransaction`, `ManagedTransaction` |
| JVM monitoring (`internal/jvm/monitoring_manager.go`) | one session per connection: generation, cancel function, points, warnings | start, stop, history, sampler goroutine | restart and stop while a sample is under way | `JvmMonitoring` |
| Slow query history (`query_history_store.go`) | a JSONL file and its rotated predecessor | append, load, clear | one store object, so one mutex, per append; each file operation may fail | `QueryHistory` |
| Optional driver agents (`db/optional_driver_agent_impl.go`, `mysql_agent_impl.go`, `cmd/*-driver-agent`) | a child process, its pipes, request ids | call, streamed query, close, forced termination | answers are matched by position, not by id; a context that ends kills the process under everybody | `DriverAgent` |
| SSH clients and forwarders (`internal/ssh`), proxy forwarders (`internal/proxy`) | caches by key, last use, idle sweep | get or create, sweep, close all | check, then create, then store; sweep between store and touch; clients that break | `SshForwarders` |
| SQL editor tab (`useSqlEditorTransactionController.ts`, `QueryEditor.tsx`, the quit in `App.tsx`) | pending transaction, finish guard, auto-commit timer, the store's entry of the tab | run, activate, finish, unmount, quit | timers, awaits and late replies against user actions | `SqlEditorTab` over `ManagedTransaction` |
| JVM diagnosis (`internal/jvm`, `methods_jvm*.go`) | preview tokens, tunnel sessions, audit files | preview, apply, execute, cancel | token reuse, replies of a closed session | candidate |
| AI assistant (`internal/ai`) | cancel functions and provider state per session, session files, MCP process | chat, stream, cancel, save, delete | two streams of one session; unlocked read-modify-write of files; a conversation that is resumed | `AiSession` (one chat session) |
| Security update, secrets, global proxy (`security_update_*`, `dailysecret`, `global_proxy_persistence.go`) | secrets, metadata files, runtime setting | migrate, retry, roll back, save | a step that fails between two writes | candidate; the runtime toggle of the proxy is in `ConnectionCache` |
| Memory control (`memory_limit_autoscale.go`, `memory_reclaim.go`) | soft limit, last trim | grow, trim | load, decide, store | candidate |
| Redis clients (`methods_redis.go`) | client cache under one mutex | open, release | keys before and after the proxy is resolved | not planned: one critical section |
| Data synchronisation (`internal/sync`) | none shared | compare, migrate, page | sequential algorithms over two databases | candidate (paging) |
| Driver management, application update | download states, manifest caches | download, install | network and files | not planned |
| Import, export, XLSX, connection packages | streams | read, write | formats | not planned |
| SQL text analysis, explain parsing | none | pure functions of strings | lexing | not planned: what they decide is an input of `SqlTransaction` |
| Database drivers, third-party code | behind `Database`, `StatementExecer` | connect, query, execute | | seen through their interfaces |
| Shell, logging, i18n, build, MCP server entry | | | | not modelled: I/O |

How they interact: a bound method asks the cache for a `Database`
(`getDatabase`), runs statements on it, and on a connection error invalidates
the entry and asks again. A managed transaction pins a session of such a
connection, keeps it in `sqlTransactions` under an id, and the frontend ends it
by that id. `CancelQuery` reaches both: it cancels the context of a running query
and calls its `forceStop`, which for a plain query invalidates the cached
connection and for a query in a transaction ends the transaction. `Shutdown`
stops the keep-alive loop, rolls pending transactions back and closes the cache.
Proxies and SSH forwarders sit below `getDatabase` (they change the configuration
that the cache key is computed from), driver agents behind `Database`.

## Modules

### ConnectionCache

One goroutine per caller; a step is a critical section of `App.mu`, one ping, one
connection attempt, or a `Close` outside the mutex. `dbCache` maps the key
(configuration and route) to an entry with its instance, the age of `lastPing`
(`fresh`, `stale` after `dbCachePingInterval`, `due` after the keep-alive
interval) and the two keep-alive flags; `connectFailures` is the cooldown record;
`life` counts what happened to each instance, a second `Close` included. The
locals of a call are a record with the fields of the Go variables (`key`, the key
after the connect `ckey`, the entry it has `seen`), `mine` is a connected
instance that is not published yet, `doomed` are the instances a release took out
and has not closed yet. Actions follow `getDatabaseWithPing` line by line:
`Lookup`, `ApplySettings`, `PingOk`/`PingFails`, `Touch`, `EvictAfterPing`,
`CheckCooldown`, `ClearExpired`, `ConnectOk`/`ConnectRetry`/`ConnectFails`,
`TooManyConnections` with `Release`/`CloseDoomed`/`Released`, `RecordFailure`,
`ClearFirstKey`/`ClearSecondKey`, `Insert`, `Discard`; then `Finish`,
`MeetDeadConnection`, `Invalidate` for the callers in `methods_db.go`, and
`ExecAfterQuery` for a statement that `DBQueryWithCancel` tries as a query first: when
that fails, reconnected or not, it is executed on the instance the method got first,
which may be closed by then, and a second `round` may invalidate and reconnect again; the loop
(`KeepAliveCollect` ... `KeepAliveTickDone`, `StopLoop`) and `BeginShutdown`,
`CloseAll`.

`InstancePool` is what the cache promises without goroutines: an instance is
opened once, cached under one key for one stretch of time, never comes back, and
is closed once. `ImplementsPool` is the refinement. `NeverBack` says of the pool that
each of its steps leads onwards: from `unused` to `closed`, never to an earlier phase.

`CallsWindDown` is why every call returns. `Ahead(c)` counts what is before a call: the
places left in this pass through the code (`PlaceNo`), the attempts to connect that are
left, and the passes that a relief or a reconnect may still add, one reconnect in each of
the two rounds of a query (`ReconnectsLeft`). Every step of the call
makes it smaller, or closes one of the instances the call has taken out.

### SqlTransaction

`sqlTransactions` is the registry; `execer`, `server` and `fate` describe a pinned
session: the executor object, the server's end of the connection, and what became
of the transaction. `told` is the answer given at the end. Three kinds of driver
occur: sessions that are sent BEGIN/COMMIT/ROLLBACK as text, the same without
BEGIN, and `sqlConnTransactionExecer` over `sql.Tx`-like connections, whose
`finish` marks itself done before it sends and whose `Close` rolls back what is
unfinished (`Control`, `Close`). The server takes a COMMIT or a ROLLBACK or refuses it
(`Settle`: a busy or locked database, a deadlock, a timeout), and then keeps the transaction
open on a connection that lives; `finish` has noted the transaction as done before it knows
(`database.go:398`), so `Close` sends nothing more, and the text drivers' `Close` never does.
The history variable `unsettled` remembers the sessions where that happened, and those where
BEGIN came back as an error after the server had begun (`BeginSQL`). A step is a critical section of
`sqlTransactionMu` or `queryMu` or one exchange with the server; an exchange that
times out either reached the server or not, and `LoseConnection` may happen at
any time. The lookup of `DBQueryMultiInTransaction`, its registration for
cancellation, and the execution of each statement are separate steps, as in the
code; a statement of a driver transaction looks at `done` in a step before
(`Statement`, `CheckActive`).

`ManagedTransaction` is the promise: exposed only when all its statements
succeeded, committed only after a commit request, ended once: decided, or `abandoned` to a
server that would not end it.
`ImplementsPromise` is the refinement, computed from the registry, Shutdown's
list and the owner of the session. `DecidedOnce` says of the promise that what is
decided stays decided, and that a commit follows a request made while pending.
`CallsWindDown` and `DrainWindsDown` are what is before a call and before the drain:
each statement that is left brings one more check and run.

### JvmMonitoring

One session of the monitoring manager, the callers of `JVMStartMonitoring` and
`JVMStopMonitoring`, and the sampler goroutine of every successful start. A step is
a critical section of the session's mutex or an answer of the provider. Each start
and each stop takes a new `generation` (`Reset`, `Stop`), and the code throws
away what comes from an older one (`ApplySnapshot`, `MarkRunning`, `MarkStopped`);
so a sampler is named by the generation of its start, and a point by the
generation of the goroutine that took it. `cancel` is the sampler that
`monitoringSession.cancel` would end: `Spawn` overwrites it without looking at
the generation (`setCancel`), `Reset` cancels it under the mutex, `Stop` takes it
out and calls it in a later step (`CancelSampler`). A start reads the previous
point, asks the provider, appends, marks the session as running, and spawns
(`FirstSample`, `FirstAnswer`, `ApplyFirst`, `MarkRunning`, `Spawn`, or
`StartFails`); a sampler waits for its ticker, samples, and after `MaxFailures`
failures in a row warns, explains itself and stops (`Tick`, `Answer`, `Apply`,
`Warn`, `Explain`, `End`, and `SeeDone` for `ctx.Done()`). The metrics, their
deltas and the warnings of providers are left out.

### DriverAgent

One connection of an optional driver. On the side of the application the
goroutines that call `OptionalDriverAgentDB` and its sessions, with the mutex
`mu` of `optionalDriverAgentClient`, its `nextID`, and for methods with a context a
`waiter` beside the goroutine that makes the call; on the other side the loop of
the agent's `main` with `work` (the request it is at), its database and its map of
sessions; between them the two pipes `requests` and `responses`. A call takes the
mutex and writes (`Send`, or `SendLong` and `Written` when the line does not fit the pipe
and `stdin.Write` waits for the agent to read, `SendFails` and `WriteFails` when the pipe is
broken), reads one line (`ReadAnswer`, `ReadFails`) or
the lines of a stream (`ReadChunk`, `ReadEnd`, `LeaveStream` when the consumer or the
decoder fails, `FallBack` when streams are not supported). A waiter receives the
result or, when its context ends, terminates the process without the mutex
(`Receive`, `Expire`) and then waits no longer than two seconds (`GiveUp`); `Close`
needs the mutex. The agent takes a request, may hang at it (`Hang`) or die (`Exit`),
and writes one line or, for a stream, chunks and a last line, each only when the pipe
has room. `handles` are the sessions as their objects know them, by the id of the
call that made them; a session of the agent is named by the id of the request
that opened it, which like the agent's own counter is never used twice.
`abandoned` and `strayed` are history. `NobodyIsStuck` says that a call under way can go
on, or the holder of the mutex or the agent can (`CanLock`, `CanWrite`, `CanRead` and
`CanWork` are the guards of their steps), unless the driver hangs or each side waits in a
write for the other one to read (`MutualWait`), which happens only after a stream was left
before its end. Many methods with one answer are one
method here: `call` without and `bounded` with a context. That an object is closed
once is what `ClosedOnce` of `ConnectionCache` says.

### SshForwarders

The forwarders of `internal/ssh` and, for the keys `Proxied`, those of
`internal/proxy`, which are the same cache without clients, stamps and sweep. Users
are the connections of the drivers that want a tunnel: `Get`, the lookup and the check
of the listener (`Lookup`, `Check`, `DropStale`), `GetOrCreateSSHClient` inside it
(`LookupClient`, `TestClient`, `Uncache`, `CloseDead`, `Dial`), then `Insert`, `Touch`,
and what the driver does with the forwarder: `ConnectOk`, `ConnectFails`, `Close`, each
driver closing the forwarder or not (`ClosesOnFailure`, `ClosesOnClose`). Nothing is
locked from the lookup to the insertion, so each is a step. The sweep holds `forwarderMu`,
which a `Touch` does not need: it takes a step for each stamp it reads (`SweepRead`, under
`forwarderLastUsedMu`), one for each forwarder it closes (`SweepClose`), before it reads
the next stamp as in the code, and one for the entries it deletes (`SweepDelete`).
`TestClient` may fail on a client that is alive (a refused session). `lastUsedAt` is a
stamp seen from now: `recent` or `idle`. Forwarders and clients that nothing points to are
garbage and their names are used again, so that runs have no end. `recent`, `overlapped`
and `knownDead` are history.

### QueryHistory

The two files of one connection (`exists`, `content`), and goroutines that append
(`Stat`, `RemoveRotated`, `Rename`, `Open`, `Write`) and clear (`ClearFirst`,
`ClearSecond`). A write may be cut short (`WriteShort`): the file then ends in a line without
its newline (`torn`), which `loadAll` can parse only if nothing else is missing; what is
appended next joins it, and `loadAll` skips the two (`skipped`). Every append and every
clear makes a store with a mutex of its own, so a step is a system call; each may fail, and
`GiveUp` is also the end of the process. A descriptor keeps its file through a rename or a
remove (`fd`). A record is the number of its write, a file is full with `MaxBytes` of them,
whole or in part. `cut` remembers the writes that were cut short, `overlapped` whether two
operations ever ran at one time, which the mutex per store object does not prevent.

### SqlEditorTab

The editor's side of managed transactions, above the specification of the backend,
`ManagedTransaction`, that `SqlTransaction` implements: the two together are the path
from a click to the server. A step is what JavaScript does between two awaits.
`Editors` are mounts of `QueryEditor`, a tab that is opened again is the next mount of
it. `Run` opens a transaction, `RunEnds` decides whether it stays pending, `RunReturns`
is the code after the await (`activatePendingSqlTransaction`), which runs whether or
not the tab is still there; `Click`, `TimerFires` and `Unmount` ask the backend to
finish it; `Serve` and `Reply` are the backend; `Quit`, `QuitEnds` and `DrainUndoes`
are `handleAppQuit` and `Shutdown`.

### AiSession

One chat session of the AI assistant. Workers are the goroutines of `AIChatStream`
(`BeginStream`, then `Resolve`, `LoadRuntime`, `Remember` to find a conversation of
the provider to resume, `RunAnswers` or `RunFails`, `StoreMemory`, the file, and
`Unregister`; `Bypass` without a provider that keeps conversations), of `AISaveSession`
and of `AIDeleteSession`. The session file is read, changed and written without a lock:
`ReadFile`, `Truncate`, `Fill` or `WriteFails`, where an overlapping write may leave
the tail of the longer text. The state of a conversation says whose it is and what that
provider was told (`Recalls`); `Resumes` is the condition under which only the rest of a
chat is sent. `Restart` may come at any step. A message list is short, a save is a
number, and the delay after which the frontend saves is not modelled: a save may come
whenever a goroutine is free.

### The modules MC...

`MCConnectionCache`, `MCSqlTransaction`, `MCJvmMonitoring`, `MCDriverAgent`,
`MCSshForwarders`, `MCQueryHistory`, `MCSqlEditorTab`, `MCAiSession` hold constants and
symmetry sets for TLC; the modules ending in `Proofs` hold the theorems.

## Runs

`Inv` is in every module the conjunction of the type invariant and the named parts of
what the proofs show to be inductive, or a part of it.

| Run | Shows | Instance |
| --- | --- | --- |
| `cache_safety` | `Inv`: types, ownership, the in-flight flag never stays behind, what the loop holds between ticks, what a forced call knows | 2 callers, 2 instances, 1 configuration; connect and query, 1 startup attempt, both keep-alive settings |
| `cache_relief` | nothing leaks when `max_user_connections` takes entries out; `ImplementsPool` | 2 databases of one server, 2 instances; query, test, release |
| `cache_proxy` | a forced ping is not satisfied by a stale hit, while keys change | proxy toggled once; connect, query, cancel |
| `cache_liveness` | calls return, due connections are pinged, shutdown ends | 1 instance, fairness below |
| `tx_safety` | `Inv`; clean pool; drained transactions undone; both but for what the server refused | 3 callers, 2 text sessions, 2 statements per request, servers that abort |
| `tx_liveness` | one owner, undecided entries, true replies, `ImplementsPromise`; `EverythingEnds`: calls return, ended sessions are closed, the drain ends | 2 callers, 2 sessions (implicit; driver transaction), servers that do not abort, fairness below |
| `jvm_monitoring` | `Inv`; histories of one run, a truthful running flag, an explained end; cancelled samplers end | 2 callers, 3 starts and stops, 2 points, 2 failures |
| `driver_agent` | `Inv`, with `NobodyIsStuck`: the client and the agent do not wait for each other on full pipes unless a stream was left early; answers go to their requests unless a stream was left early; sessions are held by somebody and end when their Close is answered; calls end unless the driver hangs or the two wait for each other, and with a context even then | 2 callers, 6 requests, streams of 2 chunks, a pipe of 1 line, fairness below |
| `ssh_forwarders` | `Inv`; no listener is lost unless two calls got its key at one time; the sweep spares what was used before it read the stamp; no tunnel over a client known to be dead | 2 users, an SSH and a proxied key, 2 forwarders, 2 clients |
| `query_history` | `Inv`; a cleared record never comes back; without overlapping operations a record is lost only behind a full file of newer ones, when it was cut short, or next after one that was | 3 goroutines of which one clears, 5 records, a file of 2, 1 write cut short |
| `sql_editor_tab` | `Inv`, with `CommitsAreAsked`: nothing is committed unasked or while shown as pending; an editor asks once; what was pending in a closed tab is not committed; what is pending is shown or on the way; an automatic commit is decided | one tab opened twice, 3 transactions, fairness below |
| `ai_session` | `Inv`; a resumed provider knows what it is not told again; Stop reaches a stream that is alone; the file keeps both parts unless writes overlap or one is cut short | 2 goroutines, 2 providers, 3 chats, 1 save |

Every property that has an exception (`NothingStranded`, `SweepSparesRecent`,
`NewestAreKept`, `PendingIsTracked`, `RunningIsCancellable`, `FileIsSettled`,
`AnswersAreOwn`, `NobodyIsStuck`, `RepliesAreTrue`, `PoolIsClean`, `DrainedAreUndone`) names it in the formula, and the exception is something the code
does: see Observations.

Why the bounds are enough. The cache's races are between two goroutines and the
keep-alive loop over one entry; two instances let an entry be replaced while a
third party still holds the first. Two databases are needed only where a
release takes out several entries. For transactions a race needs a goroutine
that uses the session, one that ends it and one that cancels or a second that
ends it: three callers (two with liveness, where a call and Shutdown or a second
call meet), and a second session so that an owner may be confused with another's. `MaxStatements` bounds the statements of a request; one already
has a check, a send and an outcome, two add the failure in the middle of a batch.
`MaxAttempts` is `startupConnectRetryAttempts` (one attempt where a query has two rounds), `MaxProxyChanges` bounds the
user. A late sample of a JVM session needs its own generation, the one that
replaced it, and a third that replaces both; two points fill a history and drop
the oldest, two failures are the smallest number that is not reached at once. For
the driver agent the races are between the holder of the mutex and one other
goroutine; six requests are the connect and four calls, with one id kept for a
fallback (`Spare` leaves every call that has begun its ids, so that the bound
stops nobody half way): enough to open two sessions, end one and use the other. A
pipe of one line makes the agent wait for its reader, one of two lets answers
queue up. For the forwarders every race is between two calls of one key, or one call and the sweep; the proxied key
lets a forwarder of one cache take the name of one of the other, and two clients let
one replace the other. The history needs two appends that rotate and a third that has
the file open, or a clear between them; five records fill two files of two, and one write
cut short meets its successor (what several in a row do is proved). In the
editor tab the second mount shares the tab with the late replies of the first, and the
third transaction is opened while two earlier ones are on their way. For the AI session
two goroutines are two streams, or a stream beside a save or a delete; the three chats
are a beginning, its continuation and one that was edited. Instances and sessions are not reused, so a run ends when they are used
up; this is why the runs of transactions, of the editor tab, of monitoring and of the
driver agent do not check deadlock.

Fairness. Weak fairness of each caller's progress: a goroutine runs, and every
exchange with a driver is answered or ends by its timeout. Nothing is assumed of
users, so a transaction may stay pending for ever. `StopLoop` has strong
fairness, because it is one of two ready cases of a Go `select` whenever a tick is
due as well, and Go picks among ready cases at random. `Shutdown` is not assumed to
begin; once begun it runs in its own goroutine (weak fairness). In `JvmMonitoring` a
start that has begun goes on, providers answer within their timeouts (weak
fairness), and `SeeDone` has strong fairness for the reason given for `StopLoop`. In
`DriverAgent` taking the mutex (`SendStep`, `Close`) has strong fairness, because a
`sync.Mutex` hands itself over to a goroutine that has waited for a millisecond;
reads, waiters and the agent have weak fairness, contexts expire, and an agent that
hangs is assumed nothing of. In `SqlEditorTab` an armed timer fires, the backend answers
what it was asked and drains what it should (`Serve` and `Reply`, `QuitEnds`,
`DrainUndoes`, all weak); users, runs and replies of runs are assumed nothing of.

## Proofs

Every main theorem is `Spec => []Inv` for any values of the constants that satisfy
`ConstantsAssumption`; the others follow from it or from the same induction.

`ConnectionCacheProofs`, for any sets of callers, configurations and instances:

* `CacheInvariance`: `Spec => []Inv`. The interesting claims (`NothingLeaks`,
  `ClosedOnce`, `CachedIsOpen`) are not inductive alone: a close outside the mutex is
  safe only because the instance is held by one goroutine and no longer cached, so
  `CacheInv` adds that what is held is open and held once (`HeldApart`), that what is
  cached is held by nobody (`CacheOwnsAlone`), and what each place of the code knows
  about its locals (`LocalsOK`).
* `NoLeaks`, `CacheIsExclusive`: corollaries.
* `ForcedIsProven`: `Spec => []ForcedResultIsProven`. `AnswerInv` carries it from the
  lookup on: after its ping a forced call can find under its key only what it has
  proven or nothing, since no step but an insert brings an instance into the cache
  (`SlotsProgress`) and an insert counts for every forced call under way.
* `CallsEndInTime`: `Spec => CallsWindDown`, the half of `EveryCallReturns` that needs no
  fairness, for every `MaxAttempts`. Most steps go to a later place of the same pass
  (`SamePassEnds`); a retry uses up an attempt, a relief and a reconnect a whole pass
  (`RetryEnds`), and a query reconnects once in each of its two rounds, because only one
  that has not reconnected yet in this round invalidates (`RoundsProgress`; `RoundOK`, part of
  `Inv`, says what a round holds). Nobody else's step
  touches the locals of a call that has begun (`OthersLeaveCall`).
* `CacheImplementsPool`: `Spec => ImplementsPool`, the refinement of `InstancePool` as
  a step simulation under `CacheInv`, one lemma per group of actions. A connect, a
  publication and a close are a step of the pool; taking entries out of the map is its
  `Withdraw` (`SlotsTakenOut`), whatever the number of entries; everything else leaves
  both phase and slots as they are (`PoolOthers`). It needs `HeldApart` and
  `CacheOwnsAlone`: the instance a goroutine holds is in nobody else's hands, so its
  phase changes for that one reason only.
* `NoneComesBack`: `Spec => Pool!NeverBack`, which follows from the refinement: a step of
  the pool leads onwards once every slot holds a cached instance (`CachedSlots`).

`SqlTransactionProofs`, for any callers, sessions, mixture of drivers and statement
bound:

* `TransactionInvariance`: `Spec => []Inv`. `TxInv` strengthens the properties by
  `CallOK`, which says for each place of a call what the session it works on looks
  like: a start fills a session nobody else refers to (`Filling`), whoever is about to
  register or to end a session finds it undecided (`Undecided`), and whoever closes one
  without an error knows its fate. The proof has frame lemmas (`OtherCall`,
  `OwnerFrame`, `CallStep`, `SessionCall`) that reduce an action to what it does to its
  own caller and its own session, and one lemma per action.
  `CloseInv` adds that a session is settled before it is closed (`AtRest`): nothing of it is
  undecided, and with BEGIN as text the server's transaction is over, or the session is one
  of `unsettled`.
* `EndedByOne` (`OneOwner`), `RegisteredIsUndecided` (`PendingIsUndecided`),
  `RepliesAreHonest` (`RepliesAreTrue`; a commit on servers that do not abort,
  otherwise it is false), `PoolStaysClean` (`PoolIsClean`), `DrainUndoes`
  (`DrainedAreUndone`).
* `TransactionsKeepPromise`: `Spec => ImplementsPromise`, the refinement of
  `ManagedTransaction` as a step simulation. `PhaseView` reads the phase of a session
  off the list it is in or the caller that holds it, which `OneOwner` makes unique; one
  lemma per action then shows how its session moves, and that the others keep their
  phase because no caller but the one that steps lets go of anything (`OtherPhases`).
* `DecisionsAreFinal`: `Spec => Promise!DecidedOnce`, from the refinement: no move of the
  promise starts at a phase in which it has ended (`PromiseMovesOn`).
* `MethodsEndInTime`: `CallsWindDown`, and `DrainEndsInTime`: `DrainWindsDown`, the parts
  of `EverythingEnds` that need no fairness, for any `MaxStatements`: a call goes to a
  later place or has a statement less, a cancel leaves the locals of the query it
  cancels alone, and a transaction that becomes pending during the drain is registered,
  not drained.

`JvmMonitoringProofs`, for any callers, number of restarts, history length and failure
limit:

* `MonitoringInvariance`: `Spec => []Inv`. That a history is of one run is inductive
  only with `PointsAreMine` (who holds the current generation finds its own points) and
  `GenerationsAreUnique` (a generation in use belongs to one start or one sampler); that
  the flag tells the truth needs `SpawnIsShown` and `CancelIsLate` (a context is
  cancelled only after its generation ended, so only giving up ends a current sampler),
  and the explanation needs `StoppingIsExplained`.
* `HistoryNeverMixes`, `RunningIsTrue`, `SamplesDoNotCompete`, `GivingUpIsSaid`:
  corollaries, one per property.

`DriverAgentProofs`, for any callers, number of requests, length of streams and size of
the pipe:

* `AgentInvariance`: `Spec => []Inv`. That an answer belongs to the reader is inductive
  only with what is on its way: nothing between two calls (`QuietBetweenCalls`), during
  one either its request or, after that, lines of its own of which only the last is not
  a chunk (`RequestOfHolder`, `AnswersOfHolder`). `forceTerminate` without the mutex
  does no harm to it because nothing is written after the process is gone.
* `NoAnswerAstray`: `AnswersAreOwn`, the corollary.
* `SessionsStayHeld`: `SessionsAreHeld`, by `SessionInv`. A session of the agent is in one
  of three stages: the request to open it is pending, its id is announced by a line on
  the pipe, or an object holds it. `NamesAreNew` says that an id is never in two of them
  and never above `nextID`, `NamedOnce` that it is nowhere twice. That a session whose
  Close was answered is gone needs `AnswersAreTrue`: the answer on the pipe says what the
  agent did.
* `CallsAreNotStuck`: `NobodyIsStuck`, for every `PipeSize` and length of streams. By
  `AnswerIsComing` whoever holds the mutex and has written has its request on the way or at
  work, or the last line of its answer on the pipe, also after a stream was left early. So
  either it can read, or the response pipe is empty and the agent can work. A holder that
  still writes (`MutualWait` with a full response pipe) finds an idle agent as long as every
  stream was read to its end (`QuietBetweenCalls`, `Unsent`).

`SshForwardersProofs`, for any users, keys, servers, forwarders and clients:

* `ForwarderInvariance`: `Spec => []Inv`; `NothingIsStranded`: `NothingStranded`;
  `SweepIsSparing` and `TunnelsAreLive`: the action properties. A listener is never
  lost because an open forwarder is the one of its key (`ReachOK`); that is inductive
  only if a call that is alone with its key finds the map as it looked it up
  (`GettingOK`, with `OverlapOK`: two calls with one key are noticed) and if the sweep
  deletes only what it has closed (`SweepOK`). The sweep's thrift needs `RecentOK`, a
  forwarder in recent use with an old stamp is about to be stamped; what the sweep has judged
  idle before such a stamp it still closes, and the property says so. The liveness of
  tunnels needs `DeadOK`, a broken client does not revive, and a call that tested its
  client goes on with one that was alive after it began.

`QueryHistoryProofs`, for any goroutines, file size and number of records:

* `HistoryInvariance`: `Spec => []Inv`, and `ClearedIsGone`: `ClearIsFinal`. Between
  its two removals a clear has left the records it saw in the rotated file at most, and
  nobody writes a record twice; the order of the removals is what makes that true.
* `RotationsKeepNewest`: `NewestAreKept`, by `KeepOK`. As long as no two operations ran at
  one time, the main file holds the newest of what no clear was asked to remove
  (`MainIsNewest`), and the operation under way writes to the main file or rotates a
  full one (`RunsAlone`). So what a rotation loses lies behind a full file. If the main file
  ends in a line without its newline, that line is the newest write of all and was cut short,
  so what the next write spoils is it and itself (`TornLinesTakeOne`).

`SqlEditorTabProofs`, for any number of mounts, tabs and transactions:

* `EditorInvariance`: `Spec => []Inv`; `ClosedTabsUndo`: `ClosedIsUndone`;
  `NothingGoesOutOfSight`: `PendingIsTracked`; `AskedOnce`: `EditorsAskOnce`. What a
  mount has in its hands nobody has asked for yet (`HandsOK`), and no other mount has it
  (`ApartOK`); requests that are under way are remembered (`AskedOK`). So closing a tab
  is the one request for what it shows, and only rollbacks of it are under way from then
  on (`ClosedOK`). `CommitsOnRequest`: `CommitsAreAsked`, because the quit asks for
  rollbacks only and every other request is remembered. That a transaction stays in sight needs the store: as long as no
  reply came late it shows what the mounted editor of the tab has (`ViewOK`, `StoreOK`,
  `TrackOK`).

`AiSessionProofs`, for any number of goroutines, saves, providers, messages and chats:

* `SessionInvariance`: `Spec => []Inv`; `ResumedKnowsAll`: `NothingIsForgotten`;
  `StopReaches`: `RunningIsCancellable`; `WritersKeepEachOther`: `FileIsSettled`.
  Wherever the state of a conversation goes, it is truthful (`HonestOK`): a run was told
  its request, by its own account or as a beginning it recalls and the rest it is sent
  (`ChatSplits`, `RestOfRequest`). Streams that overlap all know it, so one that does not
  is the one whose cancel function is registered (`StopOK`). As long as no writes
  overlapped there is one writer of the file, and the part it does not change is the one
  it read (`WriterOK`).

Every safety property of the runs, the action properties and both refinements are proved.
Out of the prover's reach and left to TLC are the liveness properties, which need
fairness and `ENABLED`: `EveryCallReturns`, `DueGetsPinged`, `ShutdownEnds`,
`EverythingEnds`, `CancelledSamplersEnd`, `CallsEnd` and `AutoIsDecided`. For the calls of
the cache, the transactions and the driver agent the part without fairness is proved
(`CallsEndInTime`, `MethodsEndInTime` and `DrainEndsInTime`, `CallsAreNotStuck`); a
cancelled sampler has none, its `select` may take any number of ticks first.
`CallsWindDown`, `DrainWindsDown`, `NeverBack` and `DecidedOnce` are proved and have no
run of their own.

## Observations

What the code does that a reader may not expect. None of it contradicts a statement of
the repository strongly enough to be called a bug; the models follow the code, and the
properties name it as an exception.

* `getCachedConnectFailureByKey` (`app.go:1065`) deletes by key what may no longer be
  the record it has read, so the next call connects although the cooldown of a fresh
  failure has just begun.
* A statement that `DBQueryWithCancel` tries as a query first is executed when that failed, on
  the instance the method got before it reconnected (`methods_db.go:959`): that one is closed
  by then, so the execution fails, the connection made a moment ago is invalidated, and the
  query reconnects a second time.
* A COMMIT or ROLLBACK that the server refuses on a connection that lives is sent once:
  `finish` has noted the transaction as done (`database.go:398`), the text drivers' `Close`
  rolls nothing back, and the drain ignores the error (`methods_db_transaction.go:511`). The
  connection goes back to its pool, unless the driver resets it, with the transaction open.
* A follow-up statement may execute after its transaction was ended and outside any
  transaction (`methods_db_transaction.go:259`): only the lookup is under the lock. And
  cancelling a query of a transaction ends the transaction, although the comment at
  line 200 says that it stays open.
* On servers that abort a transaction at an error, COMMIT of such a transaction succeeds
  and is reported as a commit (`methods_db_transaction.go:491`).
* `callStreamQuery` leaves a stream at the first error of its consumer
  (`optional_driver_agent_impl.go:352`) and does not read the rest, so the next call
  reads a chunk of that stream as its answer; ids are never compared. If the rest of the
  stream fills stdout and that call's request does not fit stdin, its write (line 225) and the
  agent wait for each other, and with `c.mu` held every later call waits too, until a context
  ends and kills the agent.
* The idle sweep reads a stamp under `forwarderLastUsedMu`, unlocks and then closes
  (`ssh.go:362`, `371`): a forwarder that was handed out and touched in between is closed.
* Two overlapping gets of one key each make a forwarder, and the one that is overwritten
  keeps its listener until the process ends (`ssh.go:414`, `proxy.go:99`). The Redis
  driver never closes its forwarder (`redis_impl.go:501`), the Postgres driver closes
  one that others may use (`postgres_impl.go:197`), and `IsClosed` looks at the
  listener only, so a forwarder over a dead client is handed out until it is swept.
* Two appends that both find the history full rotate twice, and the second rotation
  removes the file the first has just set aside (`query_history_store.go:68`). The comment at
  lines 35-36 calls the store safe for concurrent use because writes are locked, but the
  mutex is that of a store made for one append.
* A write of the history that is cut short (`query_history_store.go:90`) leaves a line without
  its newline. The next record is appended to it and lost with it, as `loadAll` skips the line.
* A transaction whose tab is closed before the reply of its run arrives is activated
  after that (`QueryEditor.tsx:4154`): no tab shows it. In automatic mode its timer still
  commits it, in manual mode the backend keeps it until the quit.
* The last event of a stream already lets the panel start the next, while the deferred
  function of the first has still to delete the session's cancel function
  (`service.go:1330`): Stop then reaches nothing, although the comment at line 1468 promises
  that it ends the stream at once.
* A session file whose writing is cut short does not parse, and every later save fails
  on it (`service.go:1795`).

## Limits

Metrics, SQL text, formats and the content of messages are not modelled. In
`JvmMonitoring` a cancel function that is overwritten by an overlapping start, or
stored by a start that a stop overtook, is lost: its sampler samples on without effect
for as long as the process runs, because `sampleOnce` reports no failure for a generation
that is over (`CancelledSamplersEnd` speaks of those that are cancelled). A session keeps
its last 20 warnings; the model keeps them all. `appendWarning` does not compare generations; no property speaks of where a
warning comes from. The size of a driver's pool and the outcome of a statement that is
repeated after a connection error are left out of `ConnectionCache`. In `DriverAgent`
data, error texts and the driver are left out; a query that falls back from several
results to one is two calls; the probe of `ProbeOptionalDriverAgentMetadata` uses a
client nobody else has; and the MySQL agent is the same client without streams and
sessions. What a query whose context expired did to the server is not modelled: the
agent is killed, with every session in it. In `SshForwarders` the copying of bytes, the
host key and the ways of authentication are left out, and so are `RegisterSSHNetwork`
and `DialThroughSSH`, which use a client without a forwarder. In `QueryHistory` the
ranking of `load` is left out: it reads. In `SqlEditorTab` results, drafts, the SQL log
and runs without a managed transaction are left out; a failed reply of a finish is a
rollback, as the backend's specification has it. In `AiSession` tools (`buildPrompt` leaves messages of tools out of what a provider is
told, `claude_cli.go:467`), the text of messages, `AIChatSendInSession` (which resumes in the same way without a cancel
function) and the configuration of providers are left out; two sessions share nothing
but the maps.

## Not modelled

The parts marked so in the table above: the user interface apart from the transaction
controller, import, export and the formats, SQL text analysis, the database drivers,
packaging and update. They are the larger part of the repository by lines, and most of
it is sequential code over texts, files or one database at a time, where a model would
repeat the code and a test reaches as far.

## Plan

1. Connection cache with `InstancePool`: done, its safety properties, the refinement and
   the bound on a call's steps proved.
2. Managed transactions with `ManagedTransaction`: done, all safety properties, the
   refinement and the bounds on calls and drain proved.
3. `JvmMonitoring`: done, its safety properties proved.
4. `DriverAgent`: done, its safety properties and `NobodyIsStuck` proved.
5. `QueryHistory`: done, its properties proved.
6. `SshForwarders`: done, all of its properties proved.
7. `SqlEditorTab` over `ManagedTransaction`: done, its safety properties proved.
8. `AiSession`: done, all of its properties proved.
9. Proofs that are left: the part of `CallsEnd` and of `DueGetsPinged` that needs no
   fairness, in the manner of `CallsWindDown`.
10. Candidates after that: security update rounds, JVM preview tokens, the growth of
    the memory limit, the persistence of the global proxy.
