-------------------------- MODULE ConnectionCache --------------------------
(***************************************************************************)
(* The cache of open database connections of internal/app: getDatabase and *)
(* its forced-ping variant, invalidation, release, connection tests, the   *)
(* keep-alive loop and Shutdown.                                           *)
(*                                                                         *)
(* Callers are goroutines that serve one bound method at a time.  A step   *)
(* is what happens between two points where another goroutine can run: one *)
(* critical section of App.mu, one ping, one connection attempt, or one    *)
(* Close made outside the mutex.                                           *)
(***************************************************************************)
EXTENDS Naturals, FiniteSets

CONSTANTS
    Callers,          \* goroutines running bound methods
    Configs,          \* saved connections, each with a database name
    Insts,            \* db.Database values a connection attempt can produce
    NoInst,           \* nil
    Server,           \* [Configs -> ...]: what the release match key keeps
    Methods,          \* the operations the callers run
    Settings,         \* the keep-alive settings the callers ask for
    MaxAttempts,      \* startupConnectRetryAttempts
    MaxProxyChanges   \* bound on how often the user toggles the global proxy

ASSUME ConstantsAssumption ==
    /\ NoInst \notin Insts
    /\ Configs # {}
    /\ Methods \subseteq {"connect", "query", "release", "cancel", "test"}
    /\ Settings \subseteq BOOLEAN
    /\ MaxAttempts \in Nat \ {0}
    /\ MaxProxyChanges \in Nat

\* The global proxy is part of the effective configuration, so of the key.
Routes == {"direct", "proxied"}
Keys == Configs \X Routes

\* getConnectionReleaseMatchKey forgets the database name only.
SameServer(k1, k2) == Server[k1[1]] = Server[k2[1]] /\ k1[2] = k2[2]

\* Age of lastPing: under 30s, over it, over the keep-alive interval too.
Ages == {"fresh", "stale", "due"}
OptInst == Insts \cup {NoInst}
Entry == [inst : OptInst, age : Ages, keep : BOOLEAN, inFlight : BOOLEAN]
NoEntry ==
    [inst |-> NoInst, age |-> "fresh", keep |-> FALSE, inFlight |-> FALSE]

Ops == {"connect", "query", "release", "cancel", "test"}
Places ==
    {"idle", "lookup", "settings", "ping", "touch", "evict", "cooldown",
     "uncool", "connect", "release", "closing", "record", "clearFirst",
     "clearSecond", "insert", "discard", "using", "invalidate"}

\* The local variables of one call: again, that it has reconnected in this
\* round of the query; first, the instance it got before that.
Call == [op : Ops, cfg : Configs, keep : BOOLEAN, round : 1..2,
         again : BOOLEAN, first : OptInst, key : Keys, ckey : Keys,
         seen : Entry, attempt : 1..MaxAttempts, relieved : BOOLEAN]

VARIABLES
    dbCache,          \* [Keys -> Entry]
    connectFailures,  \* [Keys -> {"none", "cooling", "expired"}]
    life,             \* [Insts -> ...]: "overclosed" is a second Close
    route,            \* the global proxy in force
    proxyChanges,     \* how often it has changed
    pc,               \* [Callers -> Places]
    call,             \* [Callers -> Call]
    mine,             \* [Callers -> OptInst]: connected, not yet in the cache
    doomed,           \* [Callers -> SUBSET Insts]: taken out, to be closed
    proven,           \* history: what answered or was cached during a forced call
    loop,             \* the keep-alive goroutine
    shutdown          \* "running", "stopping" (loop being joined), "down"

cacheVars == <<dbCache, connectFailures, life>>
envVars == <<route, proxyChanges>>
callerVars == <<pc, call, mine, doomed, proven>>
vars == <<cacheVars, envVars, callerVars, loop, shutdown>>

NoKey == CHOOSE k \in Keys : TRUE
NoTarget == [key |-> NoKey, inst |-> NoInst]
Target == [key : Keys, inst : OptInst]
NoCall == [op |-> "query", cfg |-> NoKey[1], keep |-> FALSE, round |-> 1,
           again |-> FALSE, first |-> NoInst, key |-> NoKey, ckey |-> NoKey,
           seen |-> NoEntry, attempt |-> 1, relieved |-> FALSE]

TypeOK ==
    /\ dbCache \in [Keys -> Entry]
    /\ connectFailures \in [Keys -> {"none", "cooling", "expired"}]
    /\ life \in [Insts -> {"unused", "open", "closed", "overclosed"}]
    /\ route \in Routes
    /\ proxyChanges \in 0..MaxProxyChanges
    /\ pc \in [Callers -> Places]
    /\ call \in [Callers -> Call]
    /\ mine \in [Callers -> OptInst]
    /\ doomed \in [Callers -> SUBSET Insts]
    /\ proven \in [Callers -> SUBSET Insts]
    /\ loop \in [pc : {"wait", "scan", "mark", "evict", "close", "stopped"},
                 targets : SUBSET Target, cur : Target]
    /\ shutdown \in {"running", "stopping", "down"}

Init ==
    /\ dbCache = [k \in Keys |-> NoEntry]
    /\ connectFailures = [k \in Keys |-> "none"]
    /\ life = [i \in Insts |-> "unused"]
    /\ route = "direct"
    /\ proxyChanges = 0
    /\ pc = [c \in Callers |-> "idle"]
    /\ call = [c \in Callers |-> NoCall]
    /\ mine = [c \in Callers |-> NoInst]
    /\ doomed = [c \in Callers |-> {}]
    /\ proven = [c \in Callers |-> {}]
    /\ loop = [pc |-> "wait", targets |-> {}, cur |-> NoTarget]
    /\ shutdown = "running"

----------------------------------------------------------------------------
InstsAt(K) == {dbCache[k].inst : k \in K} \ {NoInst}
Without(K) == [k \in Keys |-> IF k \in K THEN NoEntry ELSE dbCache[k]]
Occupied == {k \in Keys : dbCache[k].inst # NoInst}

\* Close called on every instance of S.
Closing(S) ==
    [i \in Insts |-> IF i \notin S THEN life[i]
                     ELSE IF life[i] = "open" THEN "closed" ELSE "overclosed"]

CloseAt(K) ==
    /\ dbCache' = Without(K)
    /\ life' = Closing(InstsAt(K))

Goto(c, place) == pc' = [pc EXCEPT ![c] = place]

\* The method returns: its locals die.
Return(c) ==
    /\ Goto(c, "idle")
    /\ call' = [call EXCEPT ![c] = NoCall]
    /\ proven' = [proven EXCEPT ![c] = {}]

Only(i) == [NoEntry EXCEPT !.inst = i]

\* getDatabase returns an instance to the method that asked for it.
Serve(c, i) ==
    /\ Goto(c, "using")
    /\ call' = [call EXCEPT ![c].seen = Only(i)]

\* DBConnect, and a query that reconnects, ask for a forced ping.
Forced(c) == call[c].op = "connect" \/ call[c].again

----------------------------------------------------------------------------
(* getDatabaseWithPing, from the first lookup to the cooldown.             *)

Begin(c, op, cfg, keep) ==
    /\ pc[c] = "idle"
    /\ op # "cancel"
    /\ Goto(c, CASE op = "release" -> "release"
                 [] op = "test"    -> "connect"
                 [] OTHER          -> "lookup")
    /\ call' = [call EXCEPT ![c] =
                  [NoCall EXCEPT !.op = op, !.cfg = cfg, !.keep = keep,
                                 !.key = <<cfg, route>>, !.ckey = <<cfg, route>>]]
    /\ UNCHANGED <<cacheVars, envVars, mine, doomed, proven, loop, shutdown>>

\* CancelQuery calls the forceStop of a running query.
BeginCancel(c, d) ==
    /\ "cancel" \in Methods
    /\ pc[c] = "idle"
    /\ pc[d] = "using" /\ call[d].op = "query"
    /\ Goto(c, "invalidate")
    /\ call' = [call EXCEPT ![c] =
                  [NoCall EXCEPT !.op = "cancel", !.cfg = call[d].cfg]]
    /\ UNCHANGED <<cacheVars, envVars, mine, doomed, proven, loop, shutdown>>

\* The driver has been disabled since the connection was opened.
Unsupported(c) ==
    /\ pc[c] = "lookup"
    /\ CloseAt({call[c].key})
    /\ Return(c)
    /\ UNCHANGED <<connectFailures, envVars, mine, doomed, loop, shutdown>>

Lookup(c) ==
    /\ pc[c] = "lookup"
    /\ LET e == dbCache[call[c].key] IN
         IF e.inst = NoInst
         THEN Goto(c, "cooldown") /\ UNCHANGED call
         ELSE /\ Goto(c, "settings")
              /\ call' = [call EXCEPT ![c].seen = e]
    /\ UNCHANGED <<cacheVars, envVars, mine, doomed, proven, loop, shutdown>>

\* Mutant: the forced ping is forgotten.
NeedsPingWhenOld(c, e) == e.age # "fresh"

NeedsPing(c, e) == Forced(c) \/ e.age # "fresh"

ApplySettings(c) ==
    LET k == call[c].key
        seen == call[c].seen
        cur == dbCache[k]
        changed == seen.keep # call[c].keep /\ cur.inst = seen.inst
        new == [cur EXCEPT !.keep = call[c].keep,
                           !.inFlight = @ /\ call[c].keep]
        entry == IF changed THEN new ELSE seen
    IN  /\ pc[c] = "settings"
        /\ dbCache' = IF changed THEN [dbCache EXCEPT ![k] = new] ELSE dbCache
        /\ Goto(c, IF NeedsPing(c, entry) THEN "ping" ELSE "using")
        /\ call' = [call EXCEPT ![c].seen = Only(entry.inst)]
        /\ UNCHANGED <<connectFailures, life, envVars, mine, doomed, proven,
                       loop, shutdown>>

PingOk(c) ==
    /\ pc[c] = "ping"
    /\ life[call[c].seen.inst] = "open"
    /\ Goto(c, "touch")
    /\ proven' = [proven EXCEPT ![c] = @ \cup {call[c].seen.inst}]
    /\ UNCHANGED <<cacheVars, envVars, call, mine, doomed, loop, shutdown>>

PingFails(c) ==
    /\ pc[c] = "ping"
    /\ Goto(c, "evict")
    /\ UNCHANGED <<cacheVars, envVars, call, mine, doomed, proven, loop,
                   shutdown>>

SameInst(c) == dbCache[call[c].key].inst = call[c].seen.inst

Touch(c) ==
    /\ pc[c] = "touch"
    /\ dbCache' = IF SameInst(c)
                  THEN [dbCache EXCEPT ![call[c].key].age = "fresh"]
                  ELSE dbCache
    /\ Serve(c, call[c].seen.inst)
    /\ UNCHANGED <<connectFailures, life, envVars, mine, doomed, proven, loop,
                   shutdown>>

EvictAfterPing(c) ==
    /\ pc[c] = "evict"
    /\ IF SameInst(c) THEN CloseAt({call[c].key}) ELSE UNCHANGED <<dbCache, life>>
    /\ Goto(c, "cooldown")
    /\ call' = [call EXCEPT ![c].seen = NoEntry]
    /\ UNCHANGED <<connectFailures, envVars, mine, doomed, proven, loop,
                   shutdown>>

CheckCooldown(c) ==
    /\ pc[c] = "cooldown"
    /\ CASE connectFailures[call[c].key] = "cooling" -> Return(c)
         [] connectFailures[call[c].key] = "expired" ->
              Goto(c, "uncool") /\ UNCHANGED <<call, proven>>
         [] OTHER -> Goto(c, "connect") /\ UNCHANGED <<call, proven>>
    /\ UNCHANGED <<cacheVars, envVars, mine, doomed, loop, shutdown>>

\* The expired record was read under the read lock and is deleted under a
\* second, later one.
ClearExpired(c) ==
    /\ pc[c] = "uncool"
    /\ connectFailures' = [connectFailures EXCEPT ![call[c].key] = "none"]
    /\ Goto(c, "connect")
    /\ UNCHANGED <<dbCache, life, envVars, call, mine, doomed, proven, loop,
                   shutdown>>

----------------------------------------------------------------------------
(* Connecting, with the startup retry and the max_user_connections relief. *)

ConnectOk(c, i) ==
    /\ pc[c] = "connect"
    /\ life[i] = "unused"
    /\ life' = [life EXCEPT ![i] = "open"]
    /\ mine' = [mine EXCEPT ![c] = i]
    /\ call' = [call EXCEPT ![c].ckey = <<call[c].cfg, route>>]
    /\ Goto(c, IF call[c].op = "test" THEN "discard" ELSE "clearFirst")
    /\ UNCHANGED <<dbCache, connectFailures, envVars, doomed, proven, loop,
                   shutdown>>

\* Mutant: the attempts are not counted.
ConnectRetryUncounted(c) ==
    /\ pc[c] = "connect"
    /\ call[c].op # "test"
    /\ call' = [call EXCEPT ![c].ckey = <<call[c].cfg, route>>,
                            ![c].attempt = 3 - @]
    /\ UNCHANGED <<cacheVars, envVars, pc, mine, doomed, proven, loop, shutdown>>

\* A failed attempt closes its own instance before anybody else sees it.  It
\* is repeated on a transient error during the first 20s of the program; which
\* of the two it was is left open.
ConnectRetry(c) ==
    /\ pc[c] = "connect"
    /\ call[c].op # "test"
    /\ call[c].attempt < MaxAttempts
    /\ call' = [call EXCEPT ![c].attempt = @ + 1]
    /\ UNCHANGED <<cacheVars, envVars, pc, mine, doomed, proven, loop, shutdown>>

ConnectFails(c) ==
    /\ pc[c] = "connect"
    /\ IF call[c].op = "test"
       THEN Return(c)
       ELSE /\ Goto(c, "record")
            /\ call' = [call EXCEPT ![c].ckey = <<call[c].cfg, route>>]
            /\ UNCHANGED proven
    /\ UNCHANGED <<cacheVars, envVars, mine, doomed, loop, shutdown>>

TooManyConnections(c) ==
    /\ pc[c] = "connect"
    /\ ~call[c].relieved
    /\ call' = [call EXCEPT ![c].ckey = <<call[c].cfg, route>>,
                            ![c].relieved = TRUE]
    /\ Goto(c, "release")
    /\ UNCHANGED <<cacheVars, envVars, mine, doomed, proven, loop, shutdown>>

\* releaseCachedDatabaseConnectionsByMatchKey, under the mutex.
Release(c) ==
    LET K == {k \in Occupied : SameServer(k, call[c].ckey)} IN
    /\ pc[c] = "release"
    /\ dbCache' = Without(K)
    /\ doomed' = [doomed EXCEPT ![c] = InstsAt(K)]
    /\ IF K # {}
       THEN Goto(c, "closing") /\ UNCHANGED <<call, proven>>
       ELSE IF call[c].op \in {"release", "test"}
            THEN Return(c)
            ELSE Goto(c, "record") /\ UNCHANGED <<call, proven>>
    /\ UNCHANGED <<connectFailures, life, envVars, mine, loop, shutdown>>

\* ... and its Close calls, outside the mutex.
CloseDoomed(c, i) ==
    /\ pc[c] = "closing"
    /\ i \in doomed[c]
    /\ life' = Closing({i})
    /\ doomed' = [doomed EXCEPT ![c] = @ \ {i}]
    /\ UNCHANGED <<dbCache, connectFailures, envVars, pc, call, mine, proven,
                   loop, shutdown>>

Released(c) ==
    /\ pc[c] = "closing"
    /\ doomed[c] = {}
    /\ IF call[c].op = "release"
       THEN Return(c)
       ELSE /\ Goto(c, "connect")
            /\ call' = [call EXCEPT ![c].attempt = 1]
            /\ UNCHANGED proven
    /\ UNCHANGED <<cacheVars, envVars, mine, doomed, loop, shutdown>>

RecordFailure(c) ==
    /\ pc[c] = "record"
    /\ connectFailures' = [connectFailures EXCEPT ![call[c].ckey] = "cooling"]
    /\ Return(c)
    /\ UNCHANGED <<dbCache, life, envVars, mine, doomed, loop, shutdown>>

ClearFirstKey(c) ==
    /\ pc[c] = "clearFirst"
    /\ connectFailures' = [connectFailures EXCEPT ![call[c].key] = "none"]
    /\ Goto(c, "clearSecond")
    /\ UNCHANGED <<dbCache, life, envVars, call, mine, doomed, proven, loop,
                   shutdown>>

ClearSecondKey(c) ==
    /\ pc[c] = "clearSecond"
    /\ connectFailures' = [connectFailures EXCEPT ![call[c].ckey] = "none"]
    /\ Goto(c, "insert")
    /\ UNCHANGED <<dbCache, life, envVars, call, mine, doomed, proven, loop,
                   shutdown>>

NewEntry(c) == [inst |-> mine[c], age |-> "fresh",
                keep |-> call[c].keep, inFlight |-> FALSE]

\* Mutant: an entry made meanwhile is overwritten.
InsertOver(c) ==
    /\ pc[c] = "insert"
    /\ dbCache' = [dbCache EXCEPT ![call[c].ckey] = NewEntry(c)]
    /\ mine' = [mine EXCEPT ![c] = NoInst]
    /\ Serve(c, mine[c])
    /\ UNCHANGED <<connectFailures, life, envVars, doomed, proven, loop, shutdown>>

Insert(c) ==
    LET k == call[c].ckey IN
    /\ pc[c] = "insert"
    /\ IF dbCache[k].inst # NoInst
       THEN /\ Goto(c, "discard")
            /\ call' = [call EXCEPT ![c].seen = Only(dbCache[k].inst)]
            /\ UNCHANGED <<dbCache, mine, proven>>
       ELSE /\ dbCache' = [dbCache EXCEPT ![k] = NewEntry(c)]
            /\ mine' = [mine EXCEPT ![c] = NoInst]
            /\ Serve(c, mine[c])
            /\ proven' = [d \in Callers |-> IF Forced(d)
                                            THEN proven[d] \cup {mine[c]}
                                            ELSE proven[d]]
    /\ UNCHANGED <<connectFailures, life, envVars, doomed, loop, shutdown>>

\* Mutant: the temporary connection of a test is not closed.
DiscardUnclosed(c) ==
    /\ pc[c] = "discard"
    /\ mine' = [mine EXCEPT ![c] = NoInst]
    /\ Return(c)
    /\ UNCHANGED <<cacheVars, envVars, doomed, loop, shutdown>>

\* Another goroutine has cached an instance meanwhile, or this was a test.
Discard(c) ==
    /\ pc[c] = "discard"
    /\ life' = Closing({mine[c]})
    /\ mine' = [mine EXCEPT ![c] = NoInst]
    /\ IF call[c].op = "test"
       THEN Return(c)
       ELSE Serve(c, call[c].seen.inst) /\ UNCHANGED proven
    /\ UNCHANGED <<dbCache, connectFailures, envVars, doomed, loop, shutdown>>

----------------------------------------------------------------------------
(* What the methods do with the instance.                                  *)

Finish(c) ==
    /\ pc[c] = "using"
    /\ Return(c)
    /\ UNCHANGED <<cacheVars, envVars, mine, doomed, loop, shutdown>>

\* shouldRefreshCachedConnection: a query meets a dead connection, in each
\* round on its first try only.
MeetDeadConnection(c) ==
    /\ pc[c] = "using"
    /\ call[c].op = "query" /\ ~call[c].again
    /\ Goto(c, "invalidate")
    /\ UNCHANGED <<cacheVars, envVars, call, mine, doomed, proven, loop,
                   shutdown>>

\* DBQuery runs a statement that may or may not return rows as a query first;
\* when that fails, reconnected or not, it is executed, on the instance the
\* method got first.
Exec(l) == [l EXCEPT !.round = 2, !.again = FALSE, !.first = NoInst,
                     !.seen = IF l.again THEN Only(l.first) ELSE @]

ExecAfterQuery(c) ==
    /\ pc[c] = "using"
    /\ call[c].op = "query" /\ call[c].round = 1
    /\ call' = [call EXCEPT ![c] = Exec(@)]
    /\ proven' = [proven EXCEPT ![c] = {}]
    /\ UNCHANGED <<cacheVars, envVars, pc, mine, doomed, loop, shutdown>>

\* Mutant: the entry closed is not deleted.
InvalidateKeepingEntry(c) ==
    /\ pc[c] = "invalidate"
    /\ life' = Closing(InstsAt({<<call[c].cfg, route>>}))
    /\ Return(c)
    /\ UNCHANGED <<dbCache, connectFailures, envVars, mine, doomed, loop, shutdown>>

\* The call of getDatabaseForcePing; its instance is tried once, so that the
\* one before it is needed in the first round only.
Again(l, k) == [NoCall EXCEPT !.cfg = l.cfg, !.keep = l.keep,
                              !.round = l.round, !.again = TRUE,
                              !.first = IF l.round = 1 THEN l.seen.inst ELSE NoInst,
                              !.key = k, !.ckey = k]

\* invalidateCachedDatabase closes whatever is cached under today's key; the
\* query reconnects only if there was something.
Invalidate(c) ==
    LET k == <<call[c].cfg, route>>
        reconnects == dbCache[k].inst # NoInst /\ call[c].op = "query"
    IN  /\ pc[c] = "invalidate"
        /\ CloseAt({k})
        /\ IF reconnects
           THEN /\ Goto(c, "lookup")
                /\ call' = [call EXCEPT ![c] = Again(@, k)]
                /\ proven' = [proven EXCEPT ![c] = {}]
           ELSE \/ Return(c)
                \/ /\ call[c].op = "query" /\ call[c].round = 1
                   /\ Goto(c, "using")
                   /\ call' = [call EXCEPT ![c] = Exec(@)]
                   /\ UNCHANGED proven
        /\ UNCHANGED <<connectFailures, envVars, mine, doomed, loop, shutdown>>

----------------------------------------------------------------------------
(* The keep-alive goroutine.                                               *)

Due(k) ==
    /\ dbCache[k].inst # NoInst
    /\ dbCache[k].keep
    /\ ~dbCache[k].inFlight
    /\ dbCache[k].age = "due"

KeepAliveCollect ==
    LET K == {k \in Keys : Due(k)} IN
    /\ loop.pc = "wait"
    /\ K # {}
    /\ dbCache' = [k \in Keys |-> IF k \in K
                                  THEN [dbCache[k] EXCEPT !.inFlight = TRUE]
                                  ELSE dbCache[k]]
    /\ loop' = [loop EXCEPT !.pc = "scan",
                            !.targets = {[key |-> k, inst |-> dbCache[k].inst] : k \in K}]
    /\ UNCHANGED <<connectFailures, life, envVars, callerVars, shutdown>>

KeepAlivePing(t, ok) ==
    /\ loop.pc = "scan"
    /\ t \in loop.targets
    /\ ok => life[t.inst] = "open"
    /\ loop' = [pc |-> IF ok THEN "mark" ELSE "evict",
                targets |-> loop.targets \ {t}, cur |-> t]
    /\ UNCHANGED <<cacheVars, envVars, callerVars, shutdown>>

StillTarget == dbCache[loop.cur.key].inst = loop.cur.inst

\* Mutant: the flag is not taken down after a good ping.
KeepAliveMarkInFlight ==
    /\ loop.pc = "mark"
    /\ dbCache' = IF StillTarget
                  THEN [dbCache EXCEPT ![loop.cur.key].age = "fresh"]
                  ELSE dbCache
    /\ loop' = [loop EXCEPT !.pc = "scan", !.cur = NoTarget]
    /\ UNCHANGED <<connectFailures, life, envVars, callerVars, shutdown>>

KeepAliveMark ==
    /\ loop.pc = "mark"
    /\ dbCache' = IF StillTarget
                  THEN [dbCache EXCEPT ![loop.cur.key] =
                          [@ EXCEPT !.inFlight = FALSE, !.age = "fresh"]]
                  ELSE dbCache
    /\ loop' = [loop EXCEPT !.pc = "scan", !.cur = NoTarget]
    /\ UNCHANGED <<connectFailures, life, envVars, callerVars, shutdown>>

KeepAliveEvict ==
    /\ loop.pc = "evict"
    /\ IF StillTarget
       THEN /\ dbCache' = Without({loop.cur.key})
            /\ loop' = [loop EXCEPT !.pc = "close"]
       ELSE /\ loop' = [loop EXCEPT !.pc = "scan", !.cur = NoTarget]
            /\ UNCHANGED dbCache
    /\ UNCHANGED <<connectFailures, life, envVars, callerVars, shutdown>>

KeepAliveClose ==
    /\ loop.pc = "close"
    /\ life' = Closing({loop.cur.inst})
    /\ loop' = [loop EXCEPT !.pc = "scan", !.cur = NoTarget]
    /\ UNCHANGED <<dbCache, connectFailures, envVars, callerVars, shutdown>>

KeepAliveTickDone ==
    /\ loop.pc = "scan"
    /\ loop.targets = {}
    /\ loop' = [loop EXCEPT !.pc = "wait"]
    /\ UNCHANGED <<cacheVars, envVars, callerVars, shutdown>>

----------------------------------------------------------------------------
(* Shutdown joins the loop, then closes everything under the mutex.        *)

BeginShutdown ==
    /\ shutdown = "running"
    /\ shutdown' = "stopping"
    /\ UNCHANGED <<cacheVars, envVars, callerVars, loop>>

StopLoop ==
    /\ shutdown = "stopping"
    /\ loop.pc = "wait"
    /\ loop' = [loop EXCEPT !.pc = "stopped"]
    /\ UNCHANGED <<cacheVars, envVars, callerVars, shutdown>>

\* Mutant: the calls in progress are waited for.
CloseAllWhenIdle ==
    /\ shutdown = "stopping"
    /\ loop.pc = "stopped"
    /\ \A c \in Callers : pc[c] = "idle"
    /\ CloseAt(Keys)
    /\ shutdown' = "down"
    /\ UNCHANGED <<connectFailures, envVars, callerVars, loop>>

CloseAll ==
    /\ shutdown = "stopping"
    /\ loop.pc = "stopped"
    /\ CloseAt(Keys)
    /\ shutdown' = "down"
    /\ UNCHANGED <<connectFailures, envVars, callerVars, loop>>

----------------------------------------------------------------------------
(* Time and the user.                                                      *)

Older(age) == IF age = "fresh" THEN "stale" ELSE "due"

EntryAges(k) ==
    /\ k \in Occupied
    /\ dbCache[k].age # "due"
    /\ dbCache' = [dbCache EXCEPT ![k].age = Older(@)]
    /\ UNCHANGED <<connectFailures, life, envVars, callerVars, loop, shutdown>>

CooldownExpires(k) ==
    /\ connectFailures[k] = "cooling"
    /\ connectFailures' = [connectFailures EXCEPT ![k] = "expired"]
    /\ UNCHANGED <<dbCache, life, envVars, callerVars, loop, shutdown>>

ToggleProxy ==
    /\ proxyChanges < MaxProxyChanges
    /\ proxyChanges' = proxyChanges + 1
    /\ route' = IF route = "direct" THEN "proxied" ELSE "direct"
    /\ UNCHANGED <<cacheVars, callerVars, loop, shutdown>>

----------------------------------------------------------------------------
\* Steps of a call that has begun; they never wait for the user.
Progress(c) ==
    \/ Unsupported(c) \/ Lookup(c) \/ ApplySettings(c)
    \/ PingOk(c) \/ PingFails(c) \/ Touch(c) \/ EvictAfterPing(c)
    \/ CheckCooldown(c) \/ ClearExpired(c)
    \/ \E i \in Insts : ConnectOk(c, i)
    \/ ConnectRetry(c) \/ ConnectFails(c) \/ TooManyConnections(c)
    \/ Release(c) \/ (\E i \in Insts : CloseDoomed(c, i)) \/ Released(c)
    \/ RecordFailure(c) \/ ClearFirstKey(c) \/ ClearSecondKey(c)
    \/ Insert(c) \/ Discard(c)
    \/ Finish(c) \/ MeetDeadConnection(c) \/ ExecAfterQuery(c) \/ Invalidate(c)

Arrive(c) ==
    \/ \E op \in Methods, cfg \in Configs, keep \in Settings : Begin(c, op, cfg, keep)
    \/ \E d \in Callers : BeginCancel(c, d)

KeepAlive ==
    \/ KeepAliveCollect
    \/ \E t \in loop.targets, ok \in BOOLEAN : KeepAlivePing(t, ok)
    \/ KeepAliveMark \/ KeepAliveEvict \/ KeepAliveClose \/ KeepAliveTickDone

Stop == BeginShutdown \/ StopLoop \/ CloseAll

Environment ==
    \/ \E k \in Keys : EntryAges(k) \/ CooldownExpires(k)
    \/ ToggleProxy

Next ==
    \/ \E c \in Callers : Arrive(c) \/ Progress(c)
    \/ KeepAlive
    \/ Stop
    \/ Environment

Spec == Init /\ [][Next]_vars

\* Goroutines run, drivers answer or time out, the loop ticks.  StopLoop is one
\* of two ready cases of the loop's select whenever a tick is due as well; Go
\* chooses among them at random, so it is chosen in the end.
FairSpec ==
    /\ Spec
    /\ \A c \in Callers : WF_vars(Progress(c))
    /\ WF_vars(KeepAlive)
    /\ SF_vars(StopLoop) /\ WF_vars(CloseAll)

----------------------------------------------------------------------------
(* Properties.                                                             *)

\* Whatever getDatabase finds in the cache has not been closed: an instance
\* is closed only by the step, or after the step, that takes it out.
CachedIsOpen == \A i \in InstsAt(Keys) : life[i] = "open"

\* The goroutine that holds an instance outside the cache, if any.
HeldByLoop(i) == loop.pc = "close" /\ loop.cur.inst = i
HeldBy(c, i) == mine[c] = i \/ i \in doomed[c]

\* An open connection is in the cache or some goroutine is about to put it
\* there or to close it: no interleaving of connects, evictions and releases
\* strands one, even when the entry changes under an eviction.
NothingLeaks ==
    \A i \in Insts : life[i] = "open" =>
        \/ i \in InstsAt(Keys)
        \/ HeldByLoop(i)
        \/ \E c \in Callers : HeldBy(c, i)

\* Close is called at most once on every instance, although seven places of
\* the code call it.
ClosedOnce == \A i \in Insts : life[i] # "overclosed"

\* A cached instance belongs to one key, and nobody outside the cache intends
\* to publish it or to close it.
CacheOwnsAlone ==
    /\ \A k1, k2 \in Occupied : dbCache[k1].inst = dbCache[k2].inst => k1 = k2
    /\ \A i \in InstsAt(Keys) :
          ~HeldByLoop(i) /\ \A c \in Callers : ~HeldBy(c, i)

\* What is held outside the cache is open and held by one goroutine only.
HeldApart ==
    /\ \A i \in Insts : HeldByLoop(i) => life[i] = "open"
    /\ \A c \in Callers, i \in Insts :
          HeldBy(c, i) => life[i] = "open" /\ ~HeldByLoop(i)
    /\ \A c, d \in Callers, i \in Insts :
          HeldBy(c, i) /\ HeldBy(d, i) => c = d

\* The locals a goroutine holds at each place of the code.
CallerOK(c) ==
    /\ mine[c] # NoInst
         <=> pc[c] \in {"clearFirst", "clearSecond", "insert", "discard"}
    /\ doomed[c] # {} => pc[c] = "closing"
    /\ pc[c] \in {"settings", "ping", "touch", "evict", "using"}
         => call[c].seen.inst # NoInst
    /\ pc[c] = "discard" /\ call[c].op # "test"
         => call[c].seen.inst # NoInst

\* A query invalidates before it has reconnected in this round, and knows the
\* instance it got first while it may still go back to it.
RoundOK(c) ==
    /\ pc[c] = "invalidate" /\ call[c].op = "query"
         => call[c].seen.inst # NoInst /\ ~call[c].again
    /\ call[c].again /\ call[c].round = 1 => call[c].first # NoInst

LoopOK ==
    /\ \A t \in loop.targets : t.inst # NoInst
    /\ loop.cur.inst # NoInst <=> loop.pc \in {"mark", "evict", "close"}

LocalsOK == LoopOK /\ \A c \in Callers : CallerOK(c) /\ RoundOK(c)

\* The inductive invariant behind the ownership of connections.
CacheInv ==
    /\ LocalsOK
    /\ CachedIsOpen
    /\ CacheOwnsAlone
    /\ HeldApart
    /\ NothingLeaks
    /\ ClosedOnce

\* What the tick in progress still has to ping or to settle; between two ticks
\* nothing is left over.
Unsettled ==
    loop.targets \cup (IF loop.pc \in {"mark", "evict"} THEN {loop.cur} ELSE {})
BetweenTicks == loop.pc = "wait" => loop.targets = {}

\* keepAliveInFlight is never left behind: an entry that carries it is one the
\* current tick still has to ping or to settle.  A stuck flag would take the
\* connection out of the keep-alive for good.
InFlightIsTracked ==
    \A k \in Keys : dbCache[k].inFlight =>
        [key |-> k, inst |-> dbCache[k].inst] \in Unsettled

\* What a forced call knows of the entry under its key.  Once the lookup has
\* passed, only the instance the call has seen there can be one it has not
\* proven; after the ping has failed, not even that.
BeforeProof == {"settings", "ping", "touch", "evict"}
PastProof == {"cooldown", "uncool", "connect", "release", "closing",
              "clearFirst", "clearSecond", "insert"}

\* The result of the call is settled.
Answered(c) == pc[c] = "using" \/ (pc[c] = "discard" /\ call[c].op # "test")

AnswerOK(c) ==
    LET inst == dbCache[call[c].key].inst
        seen == call[c].seen.inst
    IN  /\ pc[c] \in BeforeProof => inst \in proven[c] \cup {NoInst, seen}
        /\ pc[c] \in PastProof => inst \in proven[c] \cup {NoInst}
        /\ pc[c] = "touch" => seen \in proven[c]
        /\ Answered(c) /\ call[c].key = call[c].ckey => seen \in proven[c]

AnswerInv == \A c \in Callers : Forced(c) => AnswerOK(c)

\* The invariant of the cache: what is found in it is open and belongs to it
\* alone, no interleaving of connects, evictions, releases and Shutdown loses
\* a connection or closes it twice, no keep-alive flag is left behind, and a
\* forced call meets no unproven entry after its ping.
Inv ==
    /\ TypeOK
    /\ CacheInv
    /\ InFlightIsTracked /\ BetweenTicks
    /\ AnswerInv

\* A forced ping is not satisfied by a stale cache hit: what a forced call
\* returns answered a ping of this call, or entered the cache during it.  The
\* proxy must not have changed meanwhile: then the entry found under the other
\* key may be old.
ForcedResultIsProven ==
    \A c \in Callers :
        pc[c] = "using" /\ Forced(c) /\ call[c].key = call[c].ckey
            => call[c].seen.inst \in proven[c]

\* Every call returns: no goroutine waits for another one, and every retry
\* (startup, max_user_connections, dead connection) is bounded.
EveryCallReturns == \A c \in Callers : pc[c] # "idle" ~> pc[c] = "idle"

\* A connection due for a keep-alive ping gets one, unless it is used, leaves
\* the cache or the loop is stopped first.
DueGetsPinged ==
    \A k \in Keys :
        (k \in Occupied /\ dbCache[k].keep /\ dbCache[k].age = "due")
            ~> \/ ~(k \in Occupied /\ dbCache[k].keep /\ dbCache[k].age = "due")
               \/ loop.pc = "stopped"

\* Shutdown waits for the tick in progress and then ends.
ShutdownEnds == shutdown = "stopping" ~> shutdown = "down"

----------------------------------------------------------------------------
(* Why every call returns: what is still before it.                        *)

\* The order of the places; a release comes before the connect it makes room
\* for.
PlaceNo == [idle |-> 0, record |-> 1, invalidate |-> 1, using |-> 2, touch |-> 3,
            discard |-> 3, insert |-> 4, clearSecond |-> 5, clearFirst |-> 6,
            connect |-> 7, closing |-> 8, release |-> 9, uncool |-> 10,
            cooldown |-> 11, evict |-> 12, ping |-> 13, settings |-> 14,
            lookup |-> 15]

\* How often a call in this place may still retry.
AttemptsLeft(place, l) ==
    IF PlaceNo[place] > 7 THEN MaxAttempts
    ELSE IF place = "connect" THEN MaxAttempts - l.attempt ELSE 0

\* A pass through the places, with its attempts to connect; there is a second
\* one after a relief, and both again after a dead connection, which a query
\* may meet once in each of its two rounds.
Pass == MaxAttempts + 16
ReconnectsLeft(l) == (IF l.round = 1 THEN 2 ELSE 0) + (IF l.again THEN 0 ELSE 1)
PassesLeft(l) == 2 * Pass * ReconnectsLeft(l) + (IF l.relieved THEN 0 ELSE Pass)

AheadOf(place, l) ==
    IF place = "idle" THEN 0
    ELSE PassesLeft(l) + AttemptsLeft(place, l) + PlaceNo[place]

Ahead(c) == AheadOf(pc[c], call[c])

\* Startup retries, reliefs and reconnects come to an end however they follow
\* each other: every step of a call brings it nearer to its return, or closes
\* one of the instances it has taken out, and nobody else's step throws it
\* back.
CallsWindDown ==
    [][\A c \in Callers : pc[c] # "idle" =>
          \/ Ahead(c)' < Ahead(c)
          \/ /\ Ahead(c)' = Ahead(c)
             /\ doomed'[c] \subseteq doomed[c]
             /\ Progress(c) => doomed'[c] # doomed[c]]_vars

----------------------------------------------------------------------------
(* What the cache promises: InstancePool.                                  *)

Where(i) ==
    IF life[i] # "open" THEN life[i]
    ELSE IF i \in InstsAt(Keys) THEN "cached"
    ELSE IF \E c \in Callers : mine[c] = i THEN "private"
    ELSE "retired"

wherePool == [i \in Insts |-> Where(i)]
slotPool == [k \in Keys |-> dbCache[k].inst]

Pool == INSTANCE InstancePool WITH where <- wherePool, slot <- slotPool

\* The cache with all its goroutines implements InstancePool.
ImplementsPool == Pool!PoolSpec

=============================================================================
