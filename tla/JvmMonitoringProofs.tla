------------------------ MODULE JvmMonitoringProofs ------------------------
(***************************************************************************)
(* The invariant of JvmMonitoring, for any callers and bounds.  Each lemma *)
(* follows one group of facts through every action.                        *)
(***************************************************************************)
EXTENDS JvmMonitoring, TLAPS

\* Trim keeps elements of the sequence only.
LEMMA TrimKeeps ==
    ASSUME NEW S, NEW s \in Seq(S)
    PROVE  /\ Trim(s) \in Seq(S)
           /\ \A i \in DOMAIN Trim(s) : \E j \in DOMAIN s : Trim(s)[i] = s[j]
<1>1. Limit \in Nat \ {0} /\ Len(s) \in Nat
  BY ConstantsAssumption
<1>2. CASE Len(s) > Limit
  <2> DEFINE m == Len(s) - Limit + 1
             r == SubSeq(s, m, Len(s))
  <2>1. m \in 1..Len(s)
    BY <1>1, <1>2
  <2>2. r \in Seq(S) /\ Len(r) = Limit
    BY <1>1, <1>2, <2>1
  <2>3. \A i \in 1..Limit : i + m - 1 \in 1..Len(s) /\ r[i] = s[i + m - 1]
    BY <1>1, <1>2, <2>1
  <2>4. Trim(s) = r
    BY <1>2 DEF Trim
  <2>5. DOMAIN r = 1..Limit /\ DOMAIN s = 1..Len(s)
    BY <2>2
  <2>6. \A i \in 1..Limit : \E j \in DOMAIN s : r[i] = s[j]
    BY <2>3, <2>5
  <2>. HIDE DEF m, r
  <2>. QED  BY <2>2, <2>4, <2>5, <2>6
<1>3. CASE ~(Len(s) > Limit)
  BY <1>3 DEF Trim
<1>. QED  BY <1>2, <1>3

\* A point of g added to points of g leaves points of g.
LEMMA AppendSame ==
    ASSUME NEW g \in Gens, NEW s \in Seq(Gens), \A i \in DOMAIN s : s[i] = g
    PROVE  \A i \in DOMAIN Trim(Append(s, g)) : Trim(Append(s, g))[i] = g
<1>1. Append(s, g) \in Seq(Gens)
  OBVIOUS
<1>2. \A j \in DOMAIN Append(s, g) : Append(s, g)[j] = g
  OBVIOUS
<1>. QED  BY <1>1, <1>2, TrimKeeps

\* Places stay places.
LEMMA MoveType ==
    ASSUME TypeOK, NEW g \in Gens, NEW place \in SamplerPCs, Move(g, place)
    PROVE  sampler' \in [Gens -> SamplerPCs]
  BY DEF TypeOK, Move

LEMMA GotoType ==
    ASSUME TypeOK, NEW c \in Callers, NEW place \in PCs, Goto(c, place)
    PROVE  pc' \in [Callers -> PCs]
  BY DEF TypeOK, Goto

LEMMA ApplyType ==
    ASSUME TypeOK, NEW g \in Gens, ApplySnapshot(g)
    PROVE  points' \in Seq(Gens) /\ warnings' \subseteq Texts
<1>1. Append(points, g) \in Seq(Gens)
  BY DEF TypeOK
<1>2. Trim(Append(points, g)) \in Seq(Gens)
  BY <1>1, TrimKeeps
<1>. QED  BY <1>2 DEF TypeOK, ApplySnapshot

\* A sample that counts joins points of its own generation.
LEMMA SampleCounts ==
    ASSUME TypeOK, NEW g \in Gens, g = generation, ApplySnapshot(g),
           \A i \in DOMAIN points : points[i] = g
    PROVE  \A i \in DOMAIN points' : points'[i] = g
  BY AppendSame DEF TypeOK, ApplySnapshot

LEMMA AppendWarningType ==
    ASSUME TypeOK, NEW text \in Texts, AppendWarning(text)
    PROVE  warnings' \subseteq Texts
  BY DEF TypeOK, AppendWarning

\* Types.
LEMMA TypeStep ==
    ASSUME TypeOK, MonInv, Next
    PROVE  TypeOK'
<1>1. ASSUME NEW c \in Callers, BeginStart(c)
      PROVE  TypeOK'
  <2>1. pc' \in [Callers -> PCs]
    BY <1>1, GotoType DEF BeginStart, PCs, Starting
  <2>. QED
    BY <1>1, <2>1
    DEF BeginStart, TypeOK, sessionVars, samplerVars, callerVars
<1>2. ASSUME NEW c \in Callers, Reset(c)
      PROVE  TypeOK'
  <2>1. pc' \in [Callers -> PCs]
    BY <1>2, GotoType DEF Reset, PCs, Starting
  <2>2. generation + 1 \in Gens /\ cancelled' \subseteq Gens
    BY <1>2, ConstantsAssumption DEF Reset, TypeOK, Gens
  <2>3. mine' \in [Callers -> 0..MaxGeneration]
                /\ generation' \in 0..MaxGeneration
    BY <1>2, <2>2 DEF Reset, TypeOK, Gens
  <2>4. /\ points' \in Seq(Gens) /\ warnings' \subseteq Texts
        /\ cancel' \in 0..MaxGeneration
    BY <1>2, ConstantsAssumption DEF Reset
  <2>. QED
    BY <1>2, <2>1, <2>2, <2>3, <2>4
    DEF Reset, TypeOK, sessionVars, samplerVars, callerVars
<1>3. ASSUME NEW c \in Callers, FirstSample(c)
      PROVE  TypeOK'
  <2>1. pc' \in [Callers -> PCs]
    BY <1>3, GotoType DEF FirstSample, PCs, Starting
  <2>. QED
    BY <1>3, <2>1
    DEF FirstSample, TypeOK, sessionVars, samplerVars, callerVars
<1>4. ASSUME NEW c \in Callers, FirstAnswer(c)
      PROVE  TypeOK'
  <2>1. pc' \in [Callers -> PCs]
    BY <1>4, GotoType DEF FirstAnswer, PCs, Starting
  <2>. QED
    BY <1>4, <2>1
    DEF FirstAnswer, TypeOK, sessionVars, samplerVars, callerVars
<1>5. ASSUME NEW c \in Callers, ApplyFirst(c)
      PROVE  TypeOK'
  <2>1. pc' \in [Callers -> PCs]
    BY <1>5, GotoType DEF ApplyFirst, PCs, Starting
  <2>2. mine[c] \in Gens
    BY <1>5 DEF ApplyFirst, Starting, MonInv, GenerationsAreUnique
  <2>3. points' \in Seq(Gens) /\ warnings' \subseteq Texts
    BY <1>5, <2>2, ApplyType DEF ApplyFirst
  <2>. QED
    BY <1>5, <2>1, <2>3
    DEF ApplyFirst, TypeOK, sessionVars, samplerVars, callerVars
<1>6. ASSUME NEW c \in Callers, StartFails(c)
      PROVE  TypeOK'
  <2>1. pc' \in [Callers -> PCs]
    BY <1>6, GotoType DEF StartFails, PCs, Starting
  <2>2. 0 \in 0..MaxGeneration
    BY ConstantsAssumption
  <2>. QED
    BY <1>6, <2>1, <2>2
    DEF StartFails, TypeOK, sessionVars, samplerVars, callerVars, MarkStopped
<1>7. ASSUME NEW c \in Callers, MarkRunning(c)
      PROVE  TypeOK'
  <2>1. pc' \in [Callers -> PCs]
    BY <1>7, GotoType DEF MarkRunning, PCs, Starting
  <2>. QED
    BY <1>7, <2>1
    DEF MarkRunning, TypeOK, sessionVars, samplerVars, callerVars
<1>8. ASSUME NEW c \in Callers, Spawn(c)
      PROVE  TypeOK'
  <2>1. pc' \in [Callers -> PCs]
    BY <1>8, GotoType DEF Spawn, PCs, Starting
  <2>2. mine[c] \in Gens /\ cancel' \in 0..MaxGeneration
    BY <1>8 DEF Spawn, Starting, MonInv, GenerationsAreUnique, TypeOK
  <2>3. sampler' \in [Gens -> SamplerPCs]
    BY <1>8, <2>2, MoveType DEF Spawn, SamplerPCs, Sampling
  <2>. QED
    BY <1>8, <2>1, <2>2, <2>3
    DEF Spawn, TypeOK, sessionVars, samplerVars, callerVars
<1>9. ASSUME NEW c \in Callers, Stop(c)
      PROVE  TypeOK'
  <2>1. pc' \in [Callers -> PCs]
    BY <1>9, GotoType DEF Stop, PCs, Starting
  <2>2. generation' \in 0..MaxGeneration /\ cancel' \in 0..MaxGeneration
    BY <1>9, ConstantsAssumption DEF Stop, TypeOK
  <2>3. mine' \in [Callers -> 0..MaxGeneration]
    BY <1>9 DEF Stop, TypeOK
  <2>. QED
    BY <1>9, <2>1, <2>2, <2>3
    DEF Stop, TypeOK, sessionVars, samplerVars, callerVars
<1>10. ASSUME NEW c \in Callers, CancelSampler(c)
      PROVE  TypeOK'
  <2>1. pc' \in [Callers -> PCs]
    BY <1>10, GotoType DEF CancelSampler, PCs, Starting
  <2>2. cancelled' \subseteq Gens
    BY <1>10 DEF CancelSampler, TypeOK, MonInv, CancelIsLate
  <2>. QED
    BY <1>10, <2>1, <2>2
    DEF CancelSampler, TypeOK, sessionVars, samplerVars, callerVars
<1>11. ASSUME NEW g \in Gens, Tick(g)
      PROVE  TypeOK'
  <2>1. sampler' \in [Gens -> SamplerPCs]
    <3>1. CASE g = generation
      <4>1. "fetching" \in SamplerPCs /\ Move(g, "fetching")
        BY <1>11, <3>1 DEF Tick, SamplerPCs, Sampling
      <4>. QED  BY <4>1, MoveType
    <3>2. CASE g # generation
      BY <1>11, <3>2 DEF Tick, TypeOK
    <3>. QED  BY <3>1, <3>2
  <2>2. failures' \in [Gens -> Nat]
    <3>1. CASE failures' = [failures EXCEPT ![g] = 0]
      BY <3>1 DEF TypeOK
    <3>2. CASE failures' = failures
      BY <3>2 DEF TypeOK
    <3>. QED  BY <1>11, <3>1, <3>2 DEF Tick
  <2>. QED
    BY <1>11, <2>1, <2>2 DEF Tick, TypeOK, sessionVars, samplerVars, callerVars
<1>12. ASSUME NEW g \in Gens, Answer(g)
      PROVE  TypeOK'
  <2>1. sampler' \in [Gens -> SamplerPCs]
    BY <1>12, MoveType DEF Answer, SamplerPCs, Sampling
  <2>2. failures' \in [Gens -> Nat]
    BY <1>12 DEF Answer, TypeOK
  <2>. QED
    BY <1>12, <2>1, <2>2
    DEF Answer, TypeOK, sessionVars, samplerVars, callerVars
<1>13. ASSUME NEW g \in Gens, Apply(g)
      PROVE  TypeOK'
  <2>1. sampler' \in [Gens -> SamplerPCs]
    BY <1>13, MoveType DEF Apply, SamplerPCs, Sampling
  <2>2. failures' \in [Gens -> Nat]
    BY <1>13 DEF Apply, TypeOK
  <2>3. points' \in Seq(Gens) /\ warnings' \subseteq Texts
    BY <1>13, ApplyType DEF Apply
  <2>. QED
    BY <1>13, <2>1, <2>2, <2>3
    DEF Apply, TypeOK, sessionVars, samplerVars, callerVars
<1>14. ASSUME NEW g \in Gens, Warn(g)
      PROVE  TypeOK'
  <2>1. sampler' \in [Gens -> SamplerPCs]
    BY <1>14, MoveType DEF Warn, SamplerPCs, Sampling
  <2>2. warnings' \subseteq Texts
    BY <1>14, AppendWarningType DEF Warn, Texts
  <2>. QED
    BY <1>14, <2>1, <2>2
    DEF Warn, TypeOK, sessionVars, samplerVars, callerVars
<1>15. ASSUME NEW g \in Gens, Explain(g)
      PROVE  TypeOK'
  <2>1. sampler' \in [Gens -> SamplerPCs]
    BY <1>15, MoveType DEF Explain, SamplerPCs, Sampling
  <2>2. warnings' \subseteq Texts
    BY <1>15, AppendWarningType DEF Explain, Texts
  <2>. QED
    BY <1>15, <2>1, <2>2
    DEF Explain, TypeOK, sessionVars, samplerVars, callerVars
<1>16. ASSUME NEW g \in Gens, SeeDone(g)
      PROVE  TypeOK'
  <2>1. sampler' \in [Gens -> SamplerPCs]
    BY <1>16, MoveType DEF SeeDone, SamplerPCs, Sampling
  <2>. QED
    BY <1>16, <2>1
    DEF SeeDone, TypeOK, sessionVars, samplerVars, callerVars
<1>17. ASSUME NEW g \in Gens, End(g)
      PROVE  TypeOK'
  <2>1. sampler' \in [Gens -> SamplerPCs]
    BY <1>17, MoveType DEF End, SamplerPCs, Sampling
  <2>2. 0 \in 0..MaxGeneration
    BY ConstantsAssumption
  <2>. QED
    BY <1>17, <2>1, <2>2
    DEF End, TypeOK, sessionVars, samplerVars, callerVars, MarkStopped
<1>. QED
  BY <1>1, <1>2, <1>3, <1>4, <1>5, <1>6, <1>7, <1>8, <1>9, <1>10, <1>11,
     <1>12, <1>13, <1>14, <1>15, <1>16, <1>17
  DEF Next, StartStep, SamplerStep

\* A generation belongs to one start and its sampler.
LEMMA UniqueStep ==
    ASSUME TypeOK, TypeOK', MonInv, Next
    PROVE  GenerationsAreUnique'
<1>. USE DEF GenerationsAreUnique, CancelIsLate, Goto, Move, Starting, Gens,
     TypeOK, MonInv, sessionVars, samplerVars, callerVars
<1>1. ASSUME NEW c \in Callers, BeginStart(c)
      PROVE  GenerationsAreUnique'
  BY <1>1 DEF BeginStart
<1>2. ASSUME NEW c \in Callers, Reset(c)
      PROVE  GenerationsAreUnique'
  BY <1>2 DEF Reset
<1>3. ASSUME NEW c \in Callers, FirstSample(c)
      PROVE  GenerationsAreUnique'
  BY <1>3 DEF FirstSample
<1>4. ASSUME NEW c \in Callers, FirstAnswer(c)
      PROVE  GenerationsAreUnique'
  BY <1>4 DEF FirstAnswer
<1>5. ASSUME NEW c \in Callers, ApplyFirst(c)
      PROVE  GenerationsAreUnique'
  BY <1>5 DEF ApplyFirst, ApplySnapshot
<1>6. ASSUME NEW c \in Callers, StartFails(c)
      PROVE  GenerationsAreUnique'
  BY <1>6 DEF StartFails, MarkStopped
<1>7. ASSUME NEW c \in Callers, MarkRunning(c)
      PROVE  GenerationsAreUnique'
  BY <1>7 DEF MarkRunning
<1>8. ASSUME NEW c \in Callers, Spawn(c)
      PROVE  GenerationsAreUnique'
  BY <1>8 DEF Spawn
<1>9. ASSUME NEW c \in Callers, Stop(c)
      PROVE  GenerationsAreUnique'
  BY <1>9 DEF Stop
<1>10. ASSUME NEW c \in Callers, CancelSampler(c)
      PROVE  GenerationsAreUnique'
  BY <1>10 DEF CancelSampler
<1>11. ASSUME NEW g \in Gens, Tick(g)
      PROVE  GenerationsAreUnique'
  BY <1>11 DEF Tick
<1>12. ASSUME NEW g \in Gens, Answer(g)
      PROVE  GenerationsAreUnique'
  BY <1>12 DEF Answer
<1>13. ASSUME NEW g \in Gens, Apply(g)
      PROVE  GenerationsAreUnique'
  BY <1>13 DEF Apply, ApplySnapshot
<1>14. ASSUME NEW g \in Gens, Warn(g)
      PROVE  GenerationsAreUnique'
  BY <1>14 DEF Warn, AppendWarning
<1>15. ASSUME NEW g \in Gens, Explain(g)
      PROVE  GenerationsAreUnique'
  BY <1>15 DEF Explain, AppendWarning
<1>16. ASSUME NEW g \in Gens, SeeDone(g)
      PROVE  GenerationsAreUnique'
  BY <1>16 DEF SeeDone
<1>17. ASSUME NEW g \in Gens, End(g)
      PROVE  GenerationsAreUnique'
  BY <1>17 DEF End, MarkStopped
<1>. QED
  BY <1>1, <1>2, <1>3, <1>4, <1>5, <1>6, <1>7, <1>8, <1>9, <1>10, <1>11,
     <1>12, <1>13, <1>14, <1>15, <1>16, <1>17
  DEF Next, StartStep, SamplerStep

\* Only what is over is cancelled.
LEMMA LateStep ==
    ASSUME TypeOK, TypeOK', MonInv, Next
    PROVE  CancelIsLate'
<1>. USE DEF GenerationsAreUnique, CancelIsLate, Goto, Move, Starting, Gens,
     TypeOK, MonInv, sessionVars, samplerVars, callerVars
<1>1. ASSUME NEW c \in Callers, BeginStart(c)
      PROVE  CancelIsLate'
  BY <1>1 DEF BeginStart
<1>2. ASSUME NEW c \in Callers, Reset(c)
      PROVE  CancelIsLate'
  BY <1>2 DEF Reset
<1>3. ASSUME NEW c \in Callers, FirstSample(c)
      PROVE  CancelIsLate'
  BY <1>3 DEF FirstSample
<1>4. ASSUME NEW c \in Callers, FirstAnswer(c)
      PROVE  CancelIsLate'
  BY <1>4 DEF FirstAnswer
<1>5. ASSUME NEW c \in Callers, ApplyFirst(c)
      PROVE  CancelIsLate'
  BY <1>5 DEF ApplyFirst, ApplySnapshot
<1>6. ASSUME NEW c \in Callers, StartFails(c)
      PROVE  CancelIsLate'
  BY <1>6 DEF StartFails, MarkStopped
<1>7. ASSUME NEW c \in Callers, MarkRunning(c)
      PROVE  CancelIsLate'
  BY <1>7 DEF MarkRunning
<1>8. ASSUME NEW c \in Callers, Spawn(c)
      PROVE  CancelIsLate'
  BY <1>8 DEF Spawn
<1>9. ASSUME NEW c \in Callers, Stop(c)
      PROVE  CancelIsLate'
  BY <1>9 DEF Stop
<1>10. ASSUME NEW c \in Callers, CancelSampler(c)
      PROVE  CancelIsLate'
  BY <1>10 DEF CancelSampler
<1>11. ASSUME NEW g \in Gens, Tick(g)
      PROVE  CancelIsLate'
  BY <1>11 DEF Tick
<1>12. ASSUME NEW g \in Gens, Answer(g)
      PROVE  CancelIsLate'
  BY <1>12 DEF Answer
<1>13. ASSUME NEW g \in Gens, Apply(g)
      PROVE  CancelIsLate'
  BY <1>13 DEF Apply, ApplySnapshot
<1>14. ASSUME NEW g \in Gens, Warn(g)
      PROVE  CancelIsLate'
  BY <1>14 DEF Warn, AppendWarning
<1>15. ASSUME NEW g \in Gens, Explain(g)
      PROVE  CancelIsLate'
  BY <1>15 DEF Explain, AppendWarning
<1>16. ASSUME NEW g \in Gens, SeeDone(g)
      PROVE  CancelIsLate'
  BY <1>16 DEF SeeDone
<1>17. ASSUME NEW g \in Gens, End(g)
      PROVE  CancelIsLate'
  BY <1>17 DEF End, MarkStopped
<1>. QED
  BY <1>1, <1>2, <1>3, <1>4, <1>5, <1>6, <1>7, <1>8, <1>9, <1>10, <1>11,
     <1>12, <1>13, <1>14, <1>15, <1>16, <1>17
  DEF Next, StartStep, SamplerStep

\* Points of one run, and those of the current one if it has a holder.
LEMMA HistoryStep ==
    ASSUME TypeOK, TypeOK', MonInv, Next
    PROVE  (HistoryIsOfOneRun /\ PointsAreMine)'
<1>. USE DEF HistoryIsOfOneRun, PointsAreMine, Holders,
     GenerationsAreUnique, Goto, Move, Starting, Gens, TypeOK, MonInv,
     sessionVars, samplerVars, callerVars
<1>1. ASSUME NEW c \in Callers, BeginStart(c)
      PROVE  (HistoryIsOfOneRun /\ PointsAreMine)'
  BY <1>1 DEF BeginStart
<1>2. ASSUME NEW c \in Callers, Reset(c)
      PROVE  (HistoryIsOfOneRun /\ PointsAreMine)'
  BY <1>2 DEF Reset
<1>3. ASSUME NEW c \in Callers, FirstSample(c)
      PROVE  (HistoryIsOfOneRun /\ PointsAreMine)'
  BY <1>3 DEF FirstSample
<1>4. ASSUME NEW c \in Callers, FirstAnswer(c)
      PROVE  (HistoryIsOfOneRun /\ PointsAreMine)'
  BY <1>4 DEF FirstAnswer
<1>5. ASSUME NEW c \in Callers, ApplyFirst(c)
      PROVE  (HistoryIsOfOneRun /\ PointsAreMine)'
  <2>1. points' \in Seq(Gens)
    BY DEF TypeOK
  <2>2. mine[c] \in Gens
    BY <1>5 DEF ApplyFirst, MonInv, GenerationsAreUnique, Starting
  <2>3. CASE mine[c] = generation
    <3>1. \A i \in DOMAIN points : points[i] = mine[c]
      BY <1>5, <2>2, <2>3 DEF ApplyFirst
    <3>2. ApplySnapshot(mine[c])
      BY <1>5 DEF ApplyFirst
    <3>3. \A i \in DOMAIN points' : points'[i] = mine[c]
      BY <2>2, <2>3, <3>1, <3>2, SampleCounts
    <3>4. generation' = mine[c]
      BY <1>5, <2>3 DEF ApplyFirst
    <3>. QED  BY <3>3, <3>4 DEF HistoryIsOfOneRun, PointsAreMine
  <2>4. CASE mine[c] # generation
    <3>1. UNCHANGED <<points, generation>>
      BY <1>5, <2>4 DEF ApplyFirst, ApplySnapshot
    <3>2. \A g0 \in Gens : Holders(g0)' \subseteq Holders(g0)
                          /\ (sampler'[g0] # "none" => sampler[g0] # "none")
      BY <1>5 DEF ApplyFirst
    <3>. QED  BY <3>1, <3>2 DEF HistoryIsOfOneRun, PointsAreMine, MonInv
  <2>. QED  BY <2>3, <2>4
<1>6. ASSUME NEW c \in Callers, StartFails(c)
      PROVE  (HistoryIsOfOneRun /\ PointsAreMine)'
  BY <1>6 DEF StartFails, MarkStopped
<1>7. ASSUME NEW c \in Callers, MarkRunning(c)
      PROVE  (HistoryIsOfOneRun /\ PointsAreMine)'
  BY <1>7 DEF MarkRunning
<1>8. ASSUME NEW c \in Callers, Spawn(c)
      PROVE  (HistoryIsOfOneRun /\ PointsAreMine)'
  BY <1>8 DEF Spawn
<1>9. ASSUME NEW c \in Callers, Stop(c)
      PROVE  (HistoryIsOfOneRun /\ PointsAreMine)'
  BY <1>9 DEF Stop
<1>10. ASSUME NEW c \in Callers, CancelSampler(c)
      PROVE  (HistoryIsOfOneRun /\ PointsAreMine)'
  BY <1>10 DEF CancelSampler
<1>11. ASSUME NEW g \in Gens, Tick(g)
      PROVE  (HistoryIsOfOneRun /\ PointsAreMine)'
  BY <1>11 DEF Tick
<1>12. ASSUME NEW g \in Gens, Answer(g)
      PROVE  (HistoryIsOfOneRun /\ PointsAreMine)'
  BY <1>12 DEF Answer
<1>13. ASSUME NEW g \in Gens, Apply(g)
      PROVE  (HistoryIsOfOneRun /\ PointsAreMine)'
  <2>1. points' \in Seq(Gens)
    BY DEF TypeOK
  <2>2. g \in Gens
    BY <1>13 DEF Apply, MonInv, GenerationsAreUnique, Starting
  <2>3. CASE g = generation
    <3>1. \A i \in DOMAIN points : points[i] = g
      BY <1>13, <2>2, <2>3 DEF Apply
    <3>2. ApplySnapshot(g)
      BY <1>13 DEF Apply
    <3>3. \A i \in DOMAIN points' : points'[i] = g
      BY <2>2, <2>3, <3>1, <3>2, SampleCounts
    <3>4. generation' = g
      BY <1>13, <2>3 DEF Apply
    <3>. QED  BY <3>3, <3>4 DEF HistoryIsOfOneRun, PointsAreMine
  <2>4. CASE g # generation
    <3>1. UNCHANGED <<points, generation>>
      BY <1>13, <2>4 DEF Apply, ApplySnapshot
    <3>2. \A g0 \in Gens : Holders(g0)' \subseteq Holders(g0)
                          /\ (sampler'[g0] # "none" => sampler[g0] # "none")
      BY <1>13 DEF Apply
    <3>. QED  BY <3>1, <3>2 DEF HistoryIsOfOneRun, PointsAreMine, MonInv
  <2>. QED  BY <2>3, <2>4
<1>14. ASSUME NEW g \in Gens, Warn(g)
      PROVE  (HistoryIsOfOneRun /\ PointsAreMine)'
  BY <1>14 DEF Warn, AppendWarning
<1>15. ASSUME NEW g \in Gens, Explain(g)
      PROVE  (HistoryIsOfOneRun /\ PointsAreMine)'
  BY <1>15 DEF Explain, AppendWarning
<1>16. ASSUME NEW g \in Gens, SeeDone(g)
      PROVE  (HistoryIsOfOneRun /\ PointsAreMine)'
  BY <1>16 DEF SeeDone
<1>17. ASSUME NEW g \in Gens, End(g)
      PROVE  (HistoryIsOfOneRun /\ PointsAreMine)'
  BY <1>17 DEF End, MarkStopped
<1>. QED
  BY <1>1, <1>2, <1>3, <1>4, <1>5, <1>6, <1>7, <1>8, <1>9, <1>10, <1>11,
     <1>12, <1>13, <1>14, <1>15, <1>16, <1>17
  DEF Next, StartStep, SamplerStep

\* The running flag and the sampler of the current generation agree.
LEMMA RunningStep ==
    ASSUME TypeOK, TypeOK', MonInv, Next
    PROVE  (RunningIsSampled /\ SamplingIsShown /\ SpawnIsShown)'
<1>. USE DEF RunningIsSampled, SamplingIsShown, SpawnIsShown, Holders,
     Sampling, GenerationsAreUnique, Goto, Move, Starting, Gens, TypeOK,
     MonInv, sessionVars, samplerVars, callerVars
<1>1. ASSUME NEW c \in Callers, BeginStart(c)
      PROVE  (RunningIsSampled /\ SamplingIsShown /\ SpawnIsShown)'
  BY <1>1 DEF BeginStart
<1>2. ASSUME NEW c \in Callers, Reset(c)
      PROVE  (RunningIsSampled /\ SamplingIsShown /\ SpawnIsShown)'
  BY <1>2 DEF Reset
<1>3. ASSUME NEW c \in Callers, FirstSample(c)
      PROVE  (RunningIsSampled /\ SamplingIsShown /\ SpawnIsShown)'
  BY <1>3 DEF FirstSample
<1>4. ASSUME NEW c \in Callers, FirstAnswer(c)
      PROVE  (RunningIsSampled /\ SamplingIsShown /\ SpawnIsShown)'
  BY <1>4 DEF FirstAnswer
<1>5. ASSUME NEW c \in Callers, ApplyFirst(c)
      PROVE  (RunningIsSampled /\ SamplingIsShown /\ SpawnIsShown)'
  BY <1>5 DEF ApplyFirst, ApplySnapshot
<1>6. ASSUME NEW c \in Callers, StartFails(c)
      PROVE  (RunningIsSampled /\ SamplingIsShown /\ SpawnIsShown)'
  BY <1>6 DEF StartFails, MarkStopped
<1>7. ASSUME NEW c \in Callers, MarkRunning(c)
      PROVE  (RunningIsSampled /\ SamplingIsShown /\ SpawnIsShown)'
  BY <1>7 DEF MarkRunning
<1>8. ASSUME NEW c \in Callers, Spawn(c)
      PROVE  (RunningIsSampled /\ SamplingIsShown /\ SpawnIsShown)'
  BY <1>8 DEF Spawn
<1>9. ASSUME NEW c \in Callers, Stop(c)
      PROVE  (RunningIsSampled /\ SamplingIsShown /\ SpawnIsShown)'
  BY <1>9 DEF Stop
<1>10. ASSUME NEW c \in Callers, CancelSampler(c)
      PROVE  (RunningIsSampled /\ SamplingIsShown /\ SpawnIsShown)'
  BY <1>10 DEF CancelSampler
<1>11. ASSUME NEW g \in Gens, Tick(g)
      PROVE  (RunningIsSampled /\ SamplingIsShown /\ SpawnIsShown)'
  BY <1>11 DEF Tick
<1>12. ASSUME NEW g \in Gens, Answer(g)
      PROVE  (RunningIsSampled /\ SamplingIsShown /\ SpawnIsShown)'
  BY <1>12 DEF Answer
<1>13. ASSUME NEW g \in Gens, Apply(g)
      PROVE  (RunningIsSampled /\ SamplingIsShown /\ SpawnIsShown)'
  BY <1>13 DEF Apply, ApplySnapshot
<1>14. ASSUME NEW g \in Gens, Warn(g)
      PROVE  (RunningIsSampled /\ SamplingIsShown /\ SpawnIsShown)'
  BY <1>14 DEF Warn, AppendWarning
<1>15. ASSUME NEW g \in Gens, Explain(g)
      PROVE  (RunningIsSampled /\ SamplingIsShown /\ SpawnIsShown)'
  BY <1>15 DEF Explain, AppendWarning
<1>16. ASSUME NEW g \in Gens, SeeDone(g)
      PROVE  (RunningIsSampled /\ SamplingIsShown /\ SpawnIsShown)'
  BY <1>16 DEF SeeDone
<1>17. ASSUME NEW g \in Gens, End(g)
      PROVE  (RunningIsSampled /\ SamplingIsShown /\ SpawnIsShown)'
  BY <1>17 DEF End, MarkStopped
<1>. QED
  BY <1>1, <1>2, <1>3, <1>4, <1>5, <1>6, <1>7, <1>8, <1>9, <1>10, <1>11,
     <1>12, <1>13, <1>14, <1>15, <1>16, <1>17
  DEF Next, StartStep, SamplerStep

\* The sampler of the current generation ends with an explanation.
LEMMA ExplainedStep ==
    ASSUME TypeOK, TypeOK', MonInv, Next
    PROVE  (GivingUpIsExplained /\ StoppingIsExplained)'
<1>. USE DEF GivingUpIsExplained, StoppingIsExplained, Holders,
     GenerationsAreUnique, CancelIsLate, Goto, Move, Starting, Gens, TypeOK,
     MonInv, sessionVars, samplerVars, callerVars
<1>1. ASSUME NEW c \in Callers, BeginStart(c)
      PROVE  (GivingUpIsExplained /\ StoppingIsExplained)'
  BY <1>1 DEF BeginStart
<1>2. ASSUME NEW c \in Callers, Reset(c)
      PROVE  (GivingUpIsExplained /\ StoppingIsExplained)'
  BY <1>2 DEF Reset
<1>3. ASSUME NEW c \in Callers, FirstSample(c)
      PROVE  (GivingUpIsExplained /\ StoppingIsExplained)'
  BY <1>3 DEF FirstSample
<1>4. ASSUME NEW c \in Callers, FirstAnswer(c)
      PROVE  (GivingUpIsExplained /\ StoppingIsExplained)'
  BY <1>4 DEF FirstAnswer
<1>5. ASSUME NEW c \in Callers, ApplyFirst(c)
      PROVE  (GivingUpIsExplained /\ StoppingIsExplained)'
  BY <1>5 DEF ApplyFirst, ApplySnapshot
<1>6. ASSUME NEW c \in Callers, StartFails(c)
      PROVE  (GivingUpIsExplained /\ StoppingIsExplained)'
  BY <1>6 DEF StartFails, MarkStopped
<1>7. ASSUME NEW c \in Callers, MarkRunning(c)
      PROVE  (GivingUpIsExplained /\ StoppingIsExplained)'
  BY <1>7 DEF MarkRunning
<1>8. ASSUME NEW c \in Callers, Spawn(c)
      PROVE  (GivingUpIsExplained /\ StoppingIsExplained)'
  BY <1>8 DEF Spawn
<1>9. ASSUME NEW c \in Callers, Stop(c)
      PROVE  (GivingUpIsExplained /\ StoppingIsExplained)'
  BY <1>9 DEF Stop
<1>10. ASSUME NEW c \in Callers, CancelSampler(c)
      PROVE  (GivingUpIsExplained /\ StoppingIsExplained)'
  BY <1>10 DEF CancelSampler
<1>11. ASSUME NEW g \in Gens, Tick(g)
      PROVE  (GivingUpIsExplained /\ StoppingIsExplained)'
  BY <1>11 DEF Tick
<1>12. ASSUME NEW g \in Gens, Answer(g)
      PROVE  (GivingUpIsExplained /\ StoppingIsExplained)'
  BY <1>12 DEF Answer
<1>13. ASSUME NEW g \in Gens, Apply(g)
      PROVE  (GivingUpIsExplained /\ StoppingIsExplained)'
  BY <1>13 DEF Apply, ApplySnapshot
<1>14. ASSUME NEW g \in Gens, Warn(g)
      PROVE  (GivingUpIsExplained /\ StoppingIsExplained)'
  BY <1>14 DEF Warn, AppendWarning
<1>15. ASSUME NEW g \in Gens, Explain(g)
      PROVE  (GivingUpIsExplained /\ StoppingIsExplained)'
  BY <1>15 DEF Explain, AppendWarning
<1>16. ASSUME NEW g \in Gens, SeeDone(g)
      PROVE  (GivingUpIsExplained /\ StoppingIsExplained)'
  BY <1>16 DEF SeeDone
<1>17. ASSUME NEW g \in Gens, End(g)
      PROVE  (GivingUpIsExplained /\ StoppingIsExplained)'
  BY <1>17 DEF End, MarkStopped
<1>. QED
  BY <1>1, <1>2, <1>3, <1>4, <1>5, <1>6, <1>7, <1>8, <1>9, <1>10, <1>11,
     <1>12, <1>13, <1>14, <1>15, <1>16, <1>17
  DEF Next, StartStep, SamplerStep

\* Initially nothing has a generation.
LEMMA MonInit ==
    ASSUME Init
    PROVE  TypeOK /\ MonInv
<1>1. TypeOK
  <2>1. 0 \in 0..MaxGeneration
    BY ConstantsAssumption
  <2>2. /\ points \in Seq(Gens) /\ warnings \subseteq Texts
        /\ cancelled \subseteq Gens
    BY DEF Init
  <2>3. sampler \in [Gens -> SamplerPCs] /\ pc \in [Callers -> PCs]
    BY DEF Init, SamplerPCs, PCs
  <2>. QED  BY <2>1, <2>2, <2>3 DEF Init, TypeOK
<1>2. \A g \in Gens : Holders(g) = {}
  BY DEF Init, Holders, Starting
<1>3. MonInv
  BY <1>2 DEF Init, MonInv, HistoryIsOfOneRun, RunningIsSampled, SamplingIsShown,
     OneSampleCounts, GivingUpIsExplained, GenerationsAreUnique, PointsAreMine,
     CancelIsLate, StoppingIsExplained, SpawnIsShown, Starting, Sampling, Gens
<1>. QED  BY <1>1, <1>3

\* Every step keeps the invariant.
LEMMA MonStep ==
    ASSUME TypeOK, MonInv, [Next]_vars
    PROVE  TypeOK' /\ MonInv'
<1>1. CASE Next
  <2>1. TypeOK'
    BY <1>1, TypeStep
  <2>2. GenerationsAreUnique' /\ CancelIsLate'
    BY <1>1, <2>1, UniqueStep, LateStep
  <2>3. (\A g \in Gens : g = generation =>
            /\ \A c1, c2 \in Holders(g) : c1 = c2
            /\ sampler[g] # "none" => Holders(g) = {})'
    BY <2>1, <2>2 DEF GenerationsAreUnique, Holders, Gens
  <2>4. (HistoryIsOfOneRun /\ PointsAreMine)'
    BY <1>1, <2>1, HistoryStep
  <2>5. (RunningIsSampled /\ SamplingIsShown /\ SpawnIsShown)'
    BY <1>1, <2>1, RunningStep
  <2>6. (GivingUpIsExplained /\ StoppingIsExplained)'
    BY <1>1, <2>1, ExplainedStep
  <2>. QED  BY <2>1, <2>2, <2>3, <2>4, <2>5, <2>6 DEF MonInv, OneSampleCounts
<1>2. CASE UNCHANGED vars
  <2>1. /\ UNCHANGED known /\ UNCHANGED sessionVars /\ UNCHANGED cancelled
        /\ UNCHANGED samplerVars /\ UNCHANGED callerVars
    BY <1>2 DEF vars
  <2>2. \A g \in Gens : Holders(g)' = Holders(g)
    BY <2>1 DEF Holders, callerVars
  <2>3. TypeOK'
    BY <2>1 DEF TypeOK, sessionVars, samplerVars, callerVars
  <2>4. MonInv'
    BY <2>1, <2>2 DEF sessionVars, samplerVars, callerVars, MonInv,
       HistoryIsOfOneRun, RunningIsSampled, SamplingIsShown, OneSampleCounts,
       GivingUpIsExplained, GenerationsAreUnique, PointsAreMine, CancelIsLate,
       StoppingIsExplained, SpawnIsShown
  <2>. QED  BY <2>3, <2>4
<1>. QED  BY <1>1, <1>2

\* The session of the monitoring manager keeps its types and its invariant,
\* for any callers, bounds and number of restarts.
THEOREM MonitoringInvariance == Spec => []Inv
<1>1. Init => Inv
  BY MonInit DEF Inv
<1>2. Inv /\ [Next]_vars => Inv'
  BY MonStep DEF Inv
<1>. QED  BY <1>1, <1>2, PTL DEF Spec

\* No late sample of an earlier start enters the history of a later one.
THEOREM HistoryNeverMixes == Spec => []HistoryIsOfOneRun
<1>1. Inv => HistoryIsOfOneRun
  BY DEF Inv, MonInv
<1>. QED  BY <1>1, MonitoringInvariance, PTL

\* The flag the user sees and the sampler of the current generation agree.
THEOREM RunningIsTrue == Spec => [](RunningIsSampled /\ SamplingIsShown)
<1>1. Inv => RunningIsSampled /\ SamplingIsShown
  BY DEF Inv, MonInv
<1>. QED  BY <1>1, MonitoringInvariance, PTL

\* At most one sample in flight counts.
THEOREM SamplesDoNotCompete == Spec => []OneSampleCounts
<1>1. Inv => OneSampleCounts
  BY DEF Inv, MonInv
<1>. QED  BY <1>1, MonitoringInvariance, PTL

\* A session that gave up keeps its explanation.
THEOREM GivingUpIsSaid == Spec => []GivingUpIsExplained
<1>1. Inv => GivingUpIsExplained
  BY DEF Inv, MonInv
<1>. QED  BY <1>1, MonitoringInvariance, PTL

=============================================================================
