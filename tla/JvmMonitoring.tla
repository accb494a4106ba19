---------------------------- MODULE JvmMonitoring ----------------------------
(***************************************************************************)
(* One monitoring session of internal/jvm/monitoring_manager.go: the calls *)
(* of JVMStartMonitoring and JVMStopMonitoring and the sampler goroutine   *)
(* every successful start leaves behind.  A generation number, not the     *)
(* cancellation of the context, decides whose samples count.               *)
(*                                                                         *)
(* A step is one critical section of the session's mutex or one answer of  *)
(* the provider.  Start and Stop each take a new generation, so a sampler  *)
(* is named by the generation of its start.  A point is represented by the *)
(* generation of the goroutine that took it; of the warnings only the      *)
(* manager's own are kept, one for all failed samples.                     *)
(* JVMGetMonitoringHistory copies the session under its mutex and changes  *)
(* nothing.                                                                *)
(***************************************************************************)
EXTENDS Naturals, Sequences

CONSTANTS
    Callers,        \* goroutines of the bound methods
    MaxGeneration,  \* bound on starts and stops
    Limit,          \* points kept (defaultMonitoringPointLimit)
    MaxFailures     \* maxMonitoringSampleFailures

ASSUME ConstantsAssumption ==
    MaxGeneration \in Nat /\ Limit \in Nat \ {0} /\ MaxFailures \in Nat \ {0}

VARIABLES
    known,       \* the session is in monitoringManager.sessions
    generation, running, points, warnings,   \* monitoringSession
    cancel,      \* the sampler that monitoringSession.cancel ends, 0: nil
    cancelled,   \* samplers whose context is cancelled
    sampler,     \* [Gens -> SamplerPCs]
    failures,    \* [Gens -> consecutiveFailures]
    pc,          \* [Callers -> PCs]
    mine         \* [Callers -> generation of a Start; for a Stop the sampler
                 \*  whose cancel function it took out]

sessionVars == <<generation, running, points, warnings, cancel>>
samplerVars == <<sampler, failures>>
callerVars == <<pc, mine>>
vars == <<known, sessionVars, cancelled, samplerVars, callerVars>>

Gens == 1..MaxGeneration
Starting == {"sample", "fetch", "apply", "failed", "mark", "spawn"}
PCs == {"idle", "reset", "cancel"} \cup Starting
Sampling == {"waiting", "fetching", "applying", "warning", "explaining"}
SamplerPCs == {"none", "stopping", "ended"} \cup Sampling
Texts == {"failed", "autoStopped"}

Init ==
    /\ known = FALSE
    /\ generation = 0 /\ running = FALSE
    /\ points = <<>> /\ warnings = {}
    /\ cancel = 0 /\ cancelled = {}
    /\ sampler = [g \in Gens |-> "none"]
    /\ failures = [g \in Gens |-> 0]
    /\ pc = [c \in Callers |-> "idle"]
    /\ mine = [c \in Callers |-> 0]

Goto(c, place) == pc' = [pc EXCEPT ![c] = place]
Move(g, place) == sampler' = [sampler EXCEPT ![g] = place]
Trim(s) == IF Len(s) > Limit THEN SubSeq(s, Len(s) - Limit + 1, Len(s)) ELSE s

----------------------------------------------------------------------------
(* monitoringSession                                                       *)

\* Mutant: the snapshot is applied whatever the generation.
ApplySnapshotAlways(g) == points' = Trim(Append(points, g)) /\ warnings' = {}

\* applySnapshot: a point, and the provider's warnings replace all others, if
\* the sample is still wanted.
ApplySnapshot(g) ==
    IF g = generation
    THEN points' = Trim(Append(points, g)) /\ warnings' = {}
    ELSE UNCHANGED <<points, warnings>>

MarkStopped(g) ==
    IF g = generation
    THEN running' = FALSE /\ cancel' = 0
    ELSE UNCHANGED <<running, cancel>>

\* appendWarning does not look at the generation.
AppendWarning(text) == warnings' = warnings \cup {text}

----------------------------------------------------------------------------
(* Start                                                                   *)

\* ensureSession; then the mode may turn out to have no monitoring.
BeginStart(c) ==
    /\ pc[c] = "idle"
    /\ known' = TRUE
    /\ \E place \in {"reset", "idle"} : Goto(c, place)
    /\ UNCHANGED <<sessionVars, cancelled, samplerVars, mine>>

\* Mutant: a restart keeps the points of the previous one.
ResetKeepingPoints(c) ==
    /\ pc[c] = "reset" /\ generation < MaxGeneration
    /\ generation' = generation + 1
    /\ running' = FALSE /\ warnings' = {}
    /\ cancel' = 0 /\ cancelled' = cancelled \cup ({cancel} \ {0})
    /\ mine' = [mine EXCEPT ![c] = generation + 1]
    /\ Goto(c, "sample")
    /\ UNCHANGED <<known, points, samplerVars>>

Reset(c) ==
    /\ pc[c] = "reset" /\ generation < MaxGeneration
    /\ generation' = generation + 1
    /\ running' = FALSE /\ points' = <<>> /\ warnings' = {}
    /\ cancel' = 0 /\ cancelled' = cancelled \cup ({cancel} \ {0})
    /\ mine' = [mine EXCEPT ![c] = generation + 1]
    /\ Goto(c, "sample")
    /\ UNCHANGED <<known, samplerVars>>

\* sampleOnce: a start that was overtaken skips its sample without an error.
FirstSample(c) ==
    /\ pc[c] = "sample"
    /\ Goto(c, IF mine[c] = generation THEN "fetch" ELSE "mark")
    /\ UNCHANGED <<known, sessionVars, cancelled, samplerVars, mine>>

FirstAnswer(c) ==
    /\ pc[c] = "fetch"
    /\ \E place \in {"apply", "failed"} : Goto(c, place)
    /\ UNCHANGED <<known, sessionVars, cancelled, samplerVars, mine>>

ApplyFirst(c) ==
    /\ pc[c] = "apply"
    /\ ApplySnapshot(mine[c])
    /\ Goto(c, "mark")
    /\ UNCHANGED <<known, generation, running, cancel, cancelled, samplerVars, mine>>

StartFails(c) ==
    /\ pc[c] = "failed"
    /\ MarkStopped(mine[c])
    /\ Goto(c, "idle")
    /\ UNCHANGED <<known, generation, points, warnings, cancelled, samplerVars, mine>>

\* Mutant: a start that was overtaken by a stop declares the session running.
MarkRunningAlways(c) ==
    /\ pc[c] = "mark"
    /\ running' = TRUE
    /\ Goto(c, "spawn")
    /\ UNCHANGED <<known, generation, points, warnings, cancel, cancelled,
                   samplerVars, mine>>

MarkRunning(c) ==
    /\ pc[c] = "mark"
    /\ running' = (running \/ mine[c] = generation)
    /\ Goto(c, "spawn")
    /\ UNCHANGED <<known, generation, points, warnings, cancel, cancelled,
                   samplerVars, mine>>

\* setCancel, which overwrites whatever is there, and the go statement.
Spawn(c) ==
    /\ pc[c] = "spawn"
    /\ cancel' = mine[c]
    /\ Move(mine[c], "waiting")
    /\ Goto(c, "idle")
    /\ UNCHANGED <<known, generation, running, points, warnings, cancelled,
                   failures, mine>>

----------------------------------------------------------------------------
(* Stop                                                                    *)

\* stop takes the cancel function out under the mutex ...
Stop(c) ==
    /\ pc[c] = "idle" /\ known /\ generation < MaxGeneration
    /\ mine' = [mine EXCEPT ![c] = cancel]
    /\ Goto(c, IF cancel = 0 THEN "idle" ELSE "cancel")
    /\ cancel' = 0
    /\ generation' = generation + 1
    /\ running' = FALSE
    /\ UNCHANGED <<known, points, warnings, cancelled, samplerVars>>

\* ... and calls it after the unlock.
CancelSampler(c) ==
    /\ pc[c] = "cancel"
    /\ cancelled' = cancelled \cup {mine[c]}
    /\ Goto(c, "idle")
    /\ UNCHANGED <<known, sessionVars, samplerVars, mine>>

----------------------------------------------------------------------------
(* runSampler                                                              *)

\* A tick.  A sampler of an old generation takes no sample and sees no error.
Tick(g) ==
    /\ sampler[g] = "waiting"
    /\ IF g = generation
       THEN Move(g, "fetching") /\ UNCHANGED failures
       ELSE failures' = [failures EXCEPT ![g] = 0] /\ UNCHANGED sampler
    /\ UNCHANGED <<known, sessionVars, cancelled, callerVars>>

\* GetMonitoringSnapshot answers, or fails: a cancelled context is one reason.
Answer(g) ==
    /\ sampler[g] = "fetching"
    /\ \/ Move(g, "applying") /\ UNCHANGED failures
       \/ /\ Move(g, "warning")
          /\ failures' = [failures EXCEPT ![g] = @ + 1]
    /\ UNCHANGED <<known, sessionVars, cancelled, callerVars>>

Apply(g) ==
    /\ sampler[g] = "applying"
    /\ ApplySnapshot(g)
    /\ failures' = [failures EXCEPT ![g] = 0]
    /\ Move(g, "waiting")
    /\ UNCHANGED <<known, generation, running, cancel, cancelled, callerVars>>

Warn(g) ==
    /\ sampler[g] = "warning"
    /\ AppendWarning("failed")
    /\ Move(g, IF failures[g] >= MaxFailures THEN "explaining" ELSE "waiting")
    /\ UNCHANGED <<known, generation, running, points, cancel, cancelled,
                   failures, callerVars>>

\* Mutant: the sampler gives up without a word.
ExplainNothing(g) ==
    /\ sampler[g] = "explaining"
    /\ Move(g, "stopping")
    /\ UNCHANGED <<known, sessionVars, cancelled, failures, callerVars>>

Explain(g) ==
    /\ sampler[g] = "explaining"
    /\ AppendWarning("autoStopped")
    /\ Move(g, "stopping")
    /\ UNCHANGED <<known, generation, running, points, cancel, cancelled,
                   failures, callerVars>>

\* Mutant: the loop looks at the ticker only.
SeeDoneNever(g) == FALSE /\ UNCHANGED vars

\* ctx.Done(): the loop chooses at random when a tick is due as well.
SeeDone(g) ==
    /\ sampler[g] = "waiting" /\ g \in cancelled
    /\ Move(g, "stopping")
    /\ UNCHANGED <<known, sessionVars, cancelled, failures, callerVars>>

End(g) ==
    /\ sampler[g] = "stopping"
    /\ MarkStopped(g)
    /\ Move(g, "ended")
    /\ UNCHANGED <<known, generation, points, warnings, cancelled, failures,
                   callerVars>>

----------------------------------------------------------------------------
StartStep(c) ==
    \/ Reset(c) \/ FirstSample(c) \/ FirstAnswer(c) \/ ApplyFirst(c)
    \/ StartFails(c) \/ MarkRunning(c) \/ Spawn(c)

SamplerStep(g) ==
    Tick(g) \/ Answer(g) \/ Apply(g) \/ Warn(g) \/ Explain(g) \/ End(g)

Next ==
    \/ \E c \in Callers : BeginStart(c) \/ StartStep(c) \/ Stop(c) \/ CancelSampler(c)
    \/ \E g \in Gens : SamplerStep(g) \/ SeeDone(g)

Spec == Init /\ [][Next]_vars

\* Goroutines run, tickers tick and providers answer within their timeouts;
\* select does not ignore a ready case for ever.
Fairness ==
    /\ \A c \in Callers : WF_vars(StartStep(c)) /\ WF_vars(CancelSampler(c))
    /\ \A g \in Gens : WF_vars(SamplerStep(g)) /\ SF_vars(SeeDone(g))

FairSpec == Spec /\ Fairness

----------------------------------------------------------------------------
(* What should hold.                                                       *)

Holders(g) == {c \in Callers : pc[c] \in Starting /\ mine[c] = g}

\* Types.
TypeOK ==
    /\ known \in BOOLEAN /\ running \in BOOLEAN
    /\ generation \in 0..MaxGeneration
    /\ points \in Seq(Gens)
    /\ warnings \subseteq Texts
    /\ cancel \in 0..MaxGeneration
    /\ cancelled \subseteq Gens
    /\ sampler \in [Gens -> SamplerPCs]
    /\ failures \in [Gens -> Nat]
    /\ pc \in [Callers -> PCs]
    /\ mine \in [Callers -> 0..MaxGeneration]

\* The history never mixes the points of two runs, however late a sample of
\* an earlier start comes back from its provider.
HistoryIsOfOneRun == \A i, j \in DOMAIN points : points[i] = points[j]

\* A session shown as running has a sampler of its own generation, or the
\* start that will make it is about to.
RunningIsSampled ==
    running => \E g \in Gens :
        /\ g = generation
        /\ \/ sampler[g] \in Sampling \cup {"stopping"}
           \/ \E c \in Holders(g) : pc[c] = "spawn"

\* A sampler of the current generation samples for a session that is shown as
\* running: neither the end of an old sampler nor the failure of an overtaken
\* start switches it off.
SamplingIsShown ==
    \A g \in Gens : g = generation /\ sampler[g] \in Sampling => running

\* Of all goroutines that are between reading the previous point and
\* appending theirs, at most one will be listened to: the deltas of a point
\* are against the point before it.
OneSampleCounts ==
    \A g \in Gens : g = generation =>
        /\ \A c1, c2 \in Holders(g) : c1 = c2
        /\ sampler[g] # "none" => Holders(g) = {}

\* A session that gave up says so: after the last failure its warnings hold
\* the explanation, whatever other goroutines wrote in between.
GivingUpIsExplained ==
    \A g \in Gens :
        g = generation /\ sampler[g] = "ended" => "autoStopped" \in warnings

\* A sampler whose context is cancelled ends.
CancelledSamplersEnd ==
    \A g \in Gens : g \in cancelled ~> sampler[g] = "ended"

----------------------------------------------------------------------------
(* The inductive invariant.                                                *)

\* Generations in use were handed out, and to one start each.
GenerationsAreUnique ==
    /\ \A c \in Callers : pc[c] \in Starting =>
          /\ mine[c] \in Gens /\ mine[c] <= generation
          /\ sampler[mine[c]] = "none"
    /\ \A c1, c2 \in Callers :
          pc[c1] \in Starting /\ pc[c2] \in Starting /\ mine[c1] = mine[c2] => c1 = c2
    /\ \A g \in Gens : sampler[g] # "none" => g <= generation

\* Whoever holds the current generation finds only its own points.
PointsAreMine ==
    \A g \in Gens :
        g = generation /\ (sampler[g] # "none" \/ Holders(g) # {}) =>
            \A i \in DOMAIN points : points[i] = g

\* A context is cancelled, or about to be, only after its generation ended.
CancelIsLate ==
    /\ \A g \in cancelled : g < generation /\ sampler[g] # "none"
    /\ cancel # 0 => cancel \in Gens /\ sampler[cancel] # "none" /\ cancel <= generation
    /\ \A c \in Callers : pc[c] = "cancel" =>
          mine[c] \in Gens /\ mine[c] < generation /\ sampler[mine[c]] # "none"

\* The current sampler ends only after it has explained itself.
StoppingIsExplained ==
    \A g \in Gens :
        g = generation /\ sampler[g] = "stopping" => "autoStopped" \in warnings

\* A start that still counts spawns its sampler for a running session.
SpawnIsShown ==
    \A c \in Callers : pc[c] = "spawn" /\ mine[c] = generation => running

MonInv ==
    /\ HistoryIsOfOneRun
    /\ RunningIsSampled
    /\ SamplingIsShown
    /\ OneSampleCounts
    /\ GivingUpIsExplained
    /\ GenerationsAreUnique
    /\ PointsAreMine
    /\ CancelIsLate
    /\ StoppingIsExplained
    /\ SpawnIsShown

\* The invariant of a session: what is shown, sampled and cancelled belongs to
\* the generation it claims, whoever started, stopped or failed meanwhile.
Inv == TypeOK /\ MonInv
=============================================================================
